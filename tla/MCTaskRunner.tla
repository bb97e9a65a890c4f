---------------------------- MODULE MCTaskRunner ----------------------------
(* Four effective Starts: an owner's, two restarts and one more, so that      *)
(* goroutines left over by restarts meet a later one.                         *)
EXTENDS TaskRunner
=============================================================================
