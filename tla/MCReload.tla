------------------------------ MODULE MCReload ------------------------------
(* Values of the constants of Reload for TLC. *)
EXTENDS Reload

MCFaults == {"file", "core", "panel"}
=============================================================================
