------------------------------ MODULE MCTraffic ------------------------------
(* Small instances of Traffic: one node, one user, up to two connections and  *)
(* two report goroutines, of which the second comes from a restart.           *)
EXTENDS Traffic, TLC

CONSTANTS a, u1, c1, c2, m1, m2, s1, s2, r1, r2

OneNode == [r \in Reporters |-> a]

Symmetry == Permutations(Conns) \cup Permutations(Tables) \cup Permutations(Storages)
=============================================================================
