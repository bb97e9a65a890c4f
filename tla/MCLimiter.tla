------------------------------ MODULE MCLimiter ------------------------------
(* Values for the constants of Limiter.                                      *)
EXTENDS Limiter, TLC

CONSTANTS k1, k2, alice, ip1, ip2

TwoConns == {k1, k2}
OneUser == {alice}
TwoIps == {ip1, ip2}

Mixed == {[speed |-> 1, device |-> 1], [speed |-> 2, device |-> 1],
          [speed |-> 0, device |-> 0]}

\* Connections are interchangeable, and so are IPs.
Symmetric == Permutations(Conns) \cup Permutations(Ips)
=============================================================================
