------------------------------- MODULE Ledger -------------------------------
(***************************************************************************)
(* What traffic accounting promises.  Bytes of accounts are moved; each    *)
(* reporter puts bytes that it has not yet taken into its report, has that *)
(* booked as often as it has attempts to post it, and begins another.  So  *)
(* a reporter never has a byte in two reports, and a report that is being  *)
(* posted does not change.  Bytes that are in no report, and reports that  *)
(* are never booked, are allowed: the code loses some.                     *)
(***************************************************************************)
EXTENDS Integers

CONSTANTS Accounts, Reporters, Attempts

VARIABLES
    moved,          \* bytes of each account
    taken,          \* those each reporter has ever put into a report
    report, left,   \* its report in hand, and the attempts left to post it
    billed          \* what was booked from its reports

vars == <<moved, taken, report, left, billed>>

Nothing == [a \in Accounts |-> 0]

Init ==
    /\ moved = Nothing
    /\ taken = [r \in Reporters |-> Nothing]
    /\ report = [r \in Reporters |-> Nothing]
    /\ left = [r \in Reporters |-> Attempts]
    /\ billed = [r \in Reporters |-> Nothing]

Move(a) ==
    /\ moved' = [moved EXCEPT ![a] = @ + 1]
    /\ UNCHANGED <<taken, report, left, billed>>

\* Until the first attempt bytes may be added to the report.
Take(r, a) ==
    /\ left[r] = Attempts /\ report[r][a] = 0
    /\ \E n \in 1 .. moved[a] - taken[r][a] :
        /\ taken' = [taken EXCEPT ![r][a] = @ + n]
        /\ report' = [report EXCEPT ![r][a] = n]
    /\ UNCHANGED <<moved, left, billed>>

\* An attempt, which may be booked, succeed or not: it is tried again, or the
\* report is done with.
Post(r) ==
    /\ \/ UNCHANGED billed
       \/ billed' = [billed EXCEPT ![r] = [a \in Accounts |-> @[a] + report[r][a]]]
    /\ \/ /\ left[r] > 1
          /\ left' = [left EXCEPT ![r] = @ - 1]
          /\ UNCHANGED report
       \/ /\ left' = [left EXCEPT ![r] = Attempts]
          /\ report' = [report EXCEPT ![r] = Nothing]
    /\ UNCHANGED <<moved, taken>>

Next ==
    \/ \E a \in Accounts : Move(a)
    \/ \E r \in Reporters : Post(r) \/ \E a \in Accounts : Take(r, a)

Spec == Init /\ [][Next]_vars
=============================================================================
