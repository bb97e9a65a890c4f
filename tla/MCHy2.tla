------------------------------- MODULE MCHy2 -------------------------------
(* Two nodes, one user whose place in their lists changes, two connections:  *)
(* of one node or of both, and handlers of one of them or of both, so that   *)
(* each case of sharing occurs.                                              *)
EXTENDS Hy2, TLC

CONSTANTS c1, c2, h1, h2, alice

MCConns == {c1, c2}
MCHandlers == {h1, h2}
MCUsers == {alice}
Symmetry == Permutations(MCConns) \cup Permutations(MCHandlers)
=============================================================================
