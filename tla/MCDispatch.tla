----------------------------- MODULE MCDispatch -----------------------------
(* Values of the constants of Dispatch for TLC. *)
EXTENDS Dispatch, TLC

CONSTANTS k1, k2, alice, bob

TwoConns == {k1, k2}
TwoUsers == {alice, bob}

\* Connections are interchangeable, and so are users.
Symmetric == Permutations(Conns) \cup Permutations(Users)
=============================================================================
