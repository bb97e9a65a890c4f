------------------------------- MODULE Limiter -------------------------------
(***************************************************************************)
(* The limiter of one node (limiter/limiter.go): which connections it       *)
(* admits, which IPs it counts online, which rate bucket each user shares.  *)
(*                                                                         *)
(* Three kinds of goroutines use its maps without a lock between two map    *)
(* operations: a connection calls CheckLimit, the report task calls         *)
(* GetOnlineDevice, and the node monitor replaces AliveList and calls       *)
(* UpdateUser.  An action here is one operation on one shared map.          *)
(*                                                                         *)
(* Each connection calls CheckLimit once.  The ipMap and the bucket a call  *)
(* creates are named after the connection that created them, so two         *)
(* pointers are equal exactly when their names are.  A user stands for his   *)
(* UUID and for his id.                                                     *)
(***************************************************************************)
EXTENDS Integers, FiniteSets

CONSTANTS
    Conns,        \* connections, each one call of CheckLimit
    Users, Ips,
    Limits,       \* the UserLimitInfo records in use: [speed : , device : ]
    NodeSpeed,    \* the node's own speed limit (LimitConfig.SpeedLimit)
    MaxAlive,     \* bound: device counts the panel answers, 0 .. MaxAlive
    MaxReports,   \* bound: calls of GetOnlineDevice
    MaxUpdates,   \* bound: calls of UpdateUser
    Nil

ASSUME LimiterAssumption ==
    /\ Limits \subseteq [speed : Nat, device : Nat]
    /\ NodeSpeed \in Nat /\ MaxAlive \in Nat /\ MaxReports \in Nat /\ MaxUpdates \in Nat
    /\ Nil \notin Conns \cup Users \cup Ips \cup Limits

VARIABLES
    who, from,       \* the user and the IP of each connection (never change)
    info,            \* UserLimitInfo : user -> record
    alive,           \* AliveList : user -> devices online on all nodes
    online,          \* UserOnlineIP : user -> ipMap
    ips,             \* contents of the ipMap each connection created
    old,             \* OldUserOnline : IP -> user it was last reported for
    bucket,          \* SpeedLimiter : user -> bucket
    rate,            \* rate of the bucket each connection created
    pc, lim, ipMap, full, got,     \* locals of the CheckLimit calls
    rpc, rLeft, rUser, rMap, rIps, \* locals of GetOnlineDevice
    reports, reported,             \* calls made; history of what they returned
    upc, uUser, uNew, updates,     \* locals of UpdateUser; calls made
    touched                        \* history: users UpdateUser was called for

conns == <<who, from>>
shared == <<info, alive, online, ips, old, bucket, rate>>
check == <<pc, lim, ipMap, full, got>>
report == <<rpc, rLeft, rUser, rMap, rIps, reports, reported>>
update == <<upc, uUser, uNew, updates, touched>>
vars == <<conns, shared, check, report, update>>

Decided == {"admitted", "rejected"}

TypeOK ==
    /\ who \in [Conns -> Users] /\ from \in [Conns -> Ips]
    /\ info \in [Users -> Limits \cup {Nil}]
    /\ alive \in [Users -> 0 .. MaxAlive]
    /\ online \in [Users -> Conns \cup {Nil}]
    /\ ips \in [Conns -> SUBSET Ips]
    /\ old \in [Ips -> Users \cup {Nil}]
    /\ bucket \in [Users -> Conns \cup {Nil}]
    /\ rate \in [Conns -> Nat]
    /\ pc \in [Conns -> {"lookup", "record", "addIp", "askOld", "forget", "undo",
                         "bucket", "store"} \cup Decided]
    /\ lim \in [Conns -> Limits \cup {Nil}]
    /\ ipMap \in [Conns -> Conns \cup {Nil}]
    /\ \A c \in Conns : /\ pc[c] \notin {"lookup", "rejected"} => lim[c] # Nil
                        /\ pc[c] = "addIp" => ipMap[c] # Nil
    /\ full \in [Conns -> BOOLEAN]
    /\ got \in [Conns -> Conns \cup {Nil}]
    /\ rpc \in {"idle", "users", "ips"}
    /\ rLeft \subseteq Users /\ rUser \in Users \cup {Nil}
    /\ rMap \in Conns \cup {Nil} /\ rIps \subseteq Ips
    /\ rpc = "ips" => rUser # Nil /\ rMap # Nil
    /\ reports \in 0 .. MaxReports
    /\ reported \subseteq Users \X Ips
    /\ upc \in {"idle", "info", "online", "bucket", "alive", "add"}
    /\ uUser \in Users \cup {Nil} /\ uNew \in Limits \cup {Nil}
    /\ updates \in 0 .. MaxUpdates
    /\ touched \subseteq Users

\* AddLimiter: the given users, empty maps, the alive list just fetched.
Init ==
    /\ who \in [Conns -> Users] /\ from \in [Conns -> Ips]
    /\ info \in [Users -> Limits]
    /\ alive \in [Users -> 0 .. MaxAlive]
    /\ online = [u \in Users |-> Nil]
    /\ ips = [c \in Conns |-> {}]
    /\ old = [i \in Ips |-> Nil]
    /\ bucket = [u \in Users |-> Nil]
    /\ rate = [c \in Conns |-> 0]
    /\ pc = [c \in Conns |-> "lookup"]
    /\ lim = [c \in Conns |-> Nil]
    /\ ipMap = [c \in Conns |-> Nil]
    /\ full = [c \in Conns |-> FALSE]
    /\ got = [c \in Conns |-> Nil]
    /\ rpc = "idle" /\ rLeft = {} /\ rUser = Nil /\ rMap = Nil /\ rIps = {}
    /\ reports = 0 /\ reported = {}
    /\ upc = "idle" /\ uUser = Nil /\ uNew = Nil /\ updates = 0
    /\ touched = {}

-----------------------------------------------------------------------------
(* CheckLimit, for a connection whose IP counts (noSSUDP).                   *)

At(c, label) == pc[c] = label
Goto(c, label) == pc' = [pc EXCEPT ![c] = label]


\* UserLimitInfo.Load.  ExpireTime stays 0, nothing that sets it is called, so
\* the limit read is the user's own.
AfterLookup(l) == IF l = Nil THEN "rejected" ELSE "record"

Lookup(c) ==
    /\ At(c, "lookup")
    /\ lim' = [lim EXCEPT ![c] = info[who[c]]]
    /\ Goto(c, AfterLookup(info[who[c]]))
    /\ UNCHANGED <<conns, shared, ipMap, full, got, report, update>>

AtLimit(device, count) == device > 0 /\ device <= count

\* AliveList is read, and UserOnlineIP.LoadOrStore gives the user's ipMap.
Record(c) ==
    /\ At(c, "record")
    /\ LET u == who[c] IN
       /\ full' = [full EXCEPT ![c] = AtLimit(lim[c].device, alive[u])]
       /\ IF online[u] # Nil
          THEN /\ ipMap' = [ipMap EXCEPT ![c] = online[u]]
               /\ Goto(c, "addIp")
               /\ UNCHANGED <<online, ips>>
          ELSE /\ online' = [online EXCEPT ![u] = c]
               /\ ips' = [ips EXCEPT ![c] = {from[c]}]
               /\ Goto(c, "askOld")
               /\ UNCHANGED ipMap
    /\ UNCHANGED <<conns, info, alive, old, bucket, rate, lim, got, report, update>>

\* oldipMap.LoadOrStore: an IP already there needs no check.
AddIp(c) ==
    /\ At(c, "addIp")
    /\ ips' = [ips EXCEPT ![ipMap[c]] = @ \cup {from[c]}]
    /\ Goto(c, IF from[c] \in ips[ipMap[c]] THEN "bucket" ELSE "askOld")
    /\ UNCHANGED <<conns, info, alive, online, old, bucket, rate, lim, ipMap, full, got,
                   report, update>>

\* Faulty variant of NextOfOld, for a mutant.
NextOfOldAlways(c) == "bucket"

\* OldUserOnline.Load.  An IP reported before, for whichever user, is admitted.
NextOfOld(c) ==
    LET o == old[from[c]] IN
    IF o = who[c] THEN "forget" ELSE IF o = Nil /\ full[c] THEN "undo" ELSE "bucket"

AskOld(c) ==
    /\ At(c, "askOld")
    /\ Goto(c, NextOfOld(c))
    /\ UNCHANGED <<conns, shared, lim, ipMap, full, got, report, update>>

ForgetOld(c) ==
    /\ At(c, "forget")
    /\ old' = [old EXCEPT ![from[c]] = Nil]
    /\ Goto(c, "bucket")
    /\ UNCHANGED <<conns, info, alive, online, ips, bucket, rate, lim, ipMap, full, got,
                   report, update>>

\* Faulty variant of UndoRecord, for a mutant.
UndoNothing(c) == UNCHANGED <<online, ips>>

\* The rejected IP is taken back: out of the map that was found, or with the
\* user's whole map if this call stored one.
UndoRecord(c) ==
    IF ipMap[c] # Nil
    THEN ips' = [ips EXCEPT ![ipMap[c]] = @ \ {from[c]}] /\ UNCHANGED online
    ELSE online' = [online EXCEPT ![who[c]] = Nil] /\ UNCHANGED ips

Undo(c) ==
    /\ At(c, "undo")
    /\ UndoRecord(c)
    /\ Goto(c, "rejected")
    /\ UNCHANGED <<conns, info, alive, old, bucket, rate, lim, ipMap, full, got,
                   report, update>>

\* determineSpeedLimit: "the minimum non-zero rate".
determineSpeedLimit(limit1, limit2) ==
    IF limit1 = 0 \/ limit2 = 0
    THEN IF limit1 > limit2 THEN limit1 ELSE IF limit1 < limit2 THEN limit2 ELSE 0
    ELSE IF limit1 > limit2 THEN limit2 ELSE limit1

\* Faulty variant of BucketFor, for a mutant.
BucketAlwaysNew(c) == c

\* SpeedLimiter.LoadOrStore, when there is a limit at all.
BucketFor(c) == IF bucket[who[c]] # Nil THEN bucket[who[c]] ELSE c

TakeBucket(c) ==
    /\ At(c, "bucket")
    /\ LET r == determineSpeedLimit(NodeSpeed, lim[c].speed)
           b == BucketFor(c)
       IN \/ /\ r = 0
             /\ Goto(c, "admitted") /\ UNCHANGED <<bucket, rate, got>>
          \/ /\ r > 0 /\ b # c
             /\ got' = [got EXCEPT ![c] = b]
             /\ Goto(c, "admitted") /\ UNCHANGED <<bucket, rate>>
          \/ /\ r > 0 /\ b = c
             /\ bucket' = [bucket EXCEPT ![who[c]] = c]
             /\ rate' = [rate EXCEPT ![c] = r]
             /\ got' = [got EXCEPT ![c] = c]
             /\ Goto(c, "store")
    /\ UNCHANGED <<conns, info, alive, online, ips, old, lim, ipMap, full, report, update>>

\* The second, plain Store of the bucket just stored.
StoreBucket(c) ==
    /\ At(c, "store")
    /\ bucket' = [bucket EXCEPT ![who[c]] = c]
    /\ Goto(c, "admitted")
    /\ UNCHANGED <<conns, info, alive, online, ips, old, rate, lim, ipMap, full, got,
                   report, update>>

CheckLimit(c) ==
    Lookup(c) \/ Record(c) \/ AddIp(c) \/ AskOld(c) \/ ForgetOld(c) \/ Undo(c)
    \/ TakeBucket(c) \/ StoreBucket(c)

-----------------------------------------------------------------------------
(* GetOnlineDevice: Range over the users, and inside it over each ipMap.     *)
(* Range visits no key twice, every key that is there throughout, and may or *)
(* may not visit one stored meanwhile: rLeft and rIps hold the keys it will  *)
(* come across, those present and any others.                                *)

\* OldUserOnline becomes a new, empty map.
BeginReport ==
    /\ rpc = "idle" /\ reports < MaxReports
    /\ reports' = reports + 1
    /\ old' = [i \in Ips |-> Nil]
    /\ \E late \in SUBSET Users : rLeft' = late \cup {u \in Users : online[u] # Nil}
    /\ rpc' = "users"
    /\ UNCHANGED <<conns, info, alive, online, ips, bucket, rate, check, rUser, rMap, rIps,
                   reported, update>>

VisitUser(u) ==
    /\ rpc = "users" /\ u \in rLeft
    /\ rLeft' = rLeft \ {u}
    /\ \/ online[u] = Nil /\ UNCHANGED <<rpc, rUser, rMap, rIps>>
       \/ /\ online[u] # Nil
          /\ rpc' = "ips" /\ rUser' = u /\ rMap' = online[u]
          /\ \E late \in SUBSET Ips : rIps' = late \cup ips[online[u]]
    /\ UNCHANGED <<conns, shared, check, reports, reported, update>>

VisitIp(i) ==
    /\ rpc = "ips" /\ i \in rIps
    /\ rIps' = rIps \ {i}
    /\ IF i \in ips[rMap]
       THEN /\ old' = [old EXCEPT ![i] = rUser]
            /\ reported' = reported \cup {<<rUser, i>>}
       ELSE UNCHANGED <<old, reported>>
    /\ UNCHANGED <<conns, info, alive, online, ips, bucket, rate, check, rpc, rLeft, rUser,
                   rMap, reports, update>>

\* "Reset online device": whatever map the user has by now is dropped.
ResetUser ==
    /\ rpc = "ips" /\ rIps = {}
    /\ online' = [online EXCEPT ![rUser] = Nil]
    /\ rpc' = "users" /\ rUser' = Nil /\ rMap' = Nil
    /\ UNCHANGED <<conns, info, alive, ips, old, bucket, rate, check, rLeft, rIps, reports,
                   reported, update>>

EndReport ==
    /\ rpc = "users" /\ rLeft = {}
    /\ rpc' = "idle"
    /\ UNCHANGED <<conns, shared, check, rLeft, rUser, rMap, rIps, reports, reported, update>>

GetOnlineDevice ==
    \/ BeginReport \/ ResetUser \/ EndReport
    \/ \E u \in Users : VisitUser(u)
    \/ \E i \in Ips : VisitIp(i)

-----------------------------------------------------------------------------
(* The node monitor.                                                         *)

\* A poll replaces AliveList.
SetAlive ==
    /\ upc = "idle"
    /\ alive' \in [Users -> 0 .. MaxAlive]
    /\ UNCHANGED <<conns, info, online, ips, old, bucket, rate, check, report, update>>

\* UpdateUser for one user: deleted, added, or deleted and then added anew.
BeginUpdate(u, limit) ==
    /\ upc = "idle" /\ updates < MaxUpdates
    /\ updates' = updates + 1
    /\ uUser' = u /\ uNew' = limit
    /\ touched' = touched \cup {u}
    /\ upc' = IF info[u] # Nil THEN "info" ELSE "add"
    /\ limit # info[u]
    /\ UNCHANGED <<conns, shared, check, report>>

DeleteInfo ==
    /\ upc = "info" /\ upc' = "online"
    /\ info' = [info EXCEPT ![uUser] = Nil]
    /\ UNCHANGED <<conns, alive, online, ips, old, bucket, rate, check, report,
                   uUser, uNew, updates, touched>>

DeleteOnline ==
    /\ upc = "online" /\ upc' = "bucket"
    /\ online' = [online EXCEPT ![uUser] = Nil]
    /\ UNCHANGED <<conns, info, alive, ips, old, bucket, rate, check, report,
                   uUser, uNew, updates, touched>>

DeleteBucket ==
    /\ upc = "bucket" /\ upc' = "alive"
    /\ bucket' = [bucket EXCEPT ![uUser] = Nil]
    /\ UNCHANGED <<conns, info, alive, online, ips, old, rate, check, report,
                   uUser, uNew, updates, touched>>

DeleteAlive ==
    /\ upc = "alive" /\ upc' = IF uNew = Nil THEN "idle" ELSE "add"
    /\ alive' = [alive EXCEPT ![uUser] = 0]
    /\ UNCHANGED <<conns, info, online, ips, old, bucket, rate, check, report,
                   uUser, uNew, updates, touched>>

AddInfo ==
    /\ upc = "add" /\ upc' = "idle"
    /\ info' = [info EXCEPT ![uUser] = uNew]
    /\ UNCHANGED <<conns, alive, online, ips, old, bucket, rate, check, report,
                   uUser, uNew, updates, touched>>

UpdateUser ==
    \/ \E u \in Users, limit \in Limits \cup {Nil} : BeginUpdate(u, limit)
    \/ DeleteInfo \/ DeleteOnline \/ DeleteBucket \/ DeleteAlive \/ AddInfo

-----------------------------------------------------------------------------
Settled == /\ \A c \in Conns : pc[c] \in Decided
           /\ rpc = "idle" /\ upc = "idle"

\* Every connection is decided and the bounds are used up.
Done == Settled /\ UNCHANGED vars

Next == (\E c \in Conns : CheckLimit(c)) \/ GetOnlineDevice \/ SetAlive \/ UpdateUser \/ Done

Spec == Init /\ [][Next]_vars

-----------------------------------------------------------------------------
(* Properties.                                                               *)

\* The IPs counted online for a user now.
Counted(u) == IF online[u] = Nil THEN {} ELSE ips[online[u]]

\* An IP is counted for a user only on behalf of one of his connections from
\* it, admitted or not yet decided: a rejected device leaves no trace.
CountedHasConn ==
    \A u \in Users : \A i \in Counted(u) :
        \E c \in Conns : who[c] = u /\ from[c] = i /\ pc[c] # "rejected"

\* A user at his device limit gets a connection from an IP in only if that IP
\* has been reported before or another connection of his from the same IP came
\* this far first (README.md:17, limiting the online IPs).
AdmittedPastLimitIsKnown ==
    \A c \in Conns : pc[c] = "admitted" /\ full[c] =>
        \/ \E u \in Users : <<u, from[c]>> \in reported
        \/ \E d \in Conns \ {c} : who[d] = who[c] /\ from[d] = from[c] /\ pc[d] # "lookup"

\* A user's connections share one rate bucket as long as he is not updated,
\* though a call stores its bucket twice (limiter/limiter.go:191-195).
OneBucket ==
    \A c, d \in Conns : who[c] = who[d] /\ who[c] \notin touched /\ Nil \notin {got[c], got[d]}
        => got[c] = got[d]

\* The inductive invariants behind the three.  The user's map is his; every IP
\* in a map was put there by a connection that uses the map, not yet rejected
\* if the map is the user's current one.
Uses(e, m) == IF ipMap[e] = Nil THEN e = m ELSE ipMap[e] = m
BeforeRecord == {"lookup", "record"}

OwnerInv ==
    /\ \A u \in Users : online[u] # Nil => who[online[u]] = u /\ pc[online[u]] \notin BeforeRecord
    /\ \A c \in Conns : ipMap[c] # Nil => who[ipMap[c]] = who[c] /\ pc[ipMap[c]] \notin BeforeRecord
    /\ \A c \in Conns : pc[c] \in BeforeRecord => ips[c] = {} /\ ipMap[c] = Nil

Backs(e, m, i) ==
    /\ Uses(e, m) /\ who[e] = who[m] /\ from[e] = i
    /\ pc[e] \notin BeforeRecord \cup {"addIp"}
    /\ online[who[m]] = m => pc[e] # "rejected"

RecordInv == OwnerInv /\ \A m \in Conns : \A i \in ips[m] : \E e \in Conns : Backs(e, m, i)

\* An IP in OldUserOnline was reported; whoever passed the check was let
\* through for a reason that lasts.
PassInv ==
    /\ \A i \in Ips : old[i] # Nil => <<old[i], i>> \in reported
    /\ \A c \in Conns : pc[c] \in {"forget", "bucket", "store", "admitted"} /\ full[c] =>
        \/ \E u \in Users : <<u, from[c]>> \in reported
        \/ \E d \in Conns \ {c} : who[d] = who[c] /\ from[d] = from[c] /\ pc[d] # "lookup"

\* The bucket every connection of an untouched user got is the current one.
BucketInv ==
    /\ upc # "idle" => uUser \in touched
    /\ \A c \in Conns : /\ got[c] # Nil /\ who[c] \notin touched => bucket[who[c]] = got[c]
                        /\ pc[c] = "store" => got[c] = c
=============================================================================
