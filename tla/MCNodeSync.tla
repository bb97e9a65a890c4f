----------------------------- MODULE MCNodeSync -----------------------------
(* Values for the constants of NodeSync: two users, two plans that differ in *)
(* the speed limit, two configurations.                                      *)
EXTENDS NodeSync

CONSTANTS alice, bob, c1, c2

MCUsers == {alice, bob}
MCPlans == {[speed |-> 1, device |-> 1], [speed |-> 2, device |-> 1]}
MCOnePlan == {[speed |-> 1, device |-> 1]}
MCConfigs == {c1, c2}
MCTls == {c2}
SameInterval == [c \in Configs |-> 60]
TwoIntervals == [c \in Configs |-> IF c = c1 THEN 60 ELSE 30]
=============================================================================
