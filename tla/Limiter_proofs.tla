--------------------------- MODULE Limiter_proofs ---------------------------
(***************************************************************************)
(* Proofs about Limiter, for any number of connections, users, IPs,        *)
(* reports and updates.                                                    *)
(***************************************************************************)
EXTENDS Limiter, TLAPS

(* determineSpeedLimit "returns the minimum non-zero rate"                   *)
(* (limiter/dynamic.go:19): 0 if both are 0, else the least of the non-zero. *)
THEOREM MinimumNonZeroRate ==
    ASSUME NEW a \in Nat, NEW b \in Nat
    PROVE  LET d == determineSpeedLimit(a, b)
               nonZero == {a, b} \ {0}
           IN IF nonZero = {} THEN d = 0
              ELSE d \in nonZero /\ \A x \in nonZero : d <= x
BY DEF determineSpeedLimit

(* A rate limit is a natural number.                                         *)
LEMMA RateType ==
    ASSUME NEW c \in Conns, TypeOK, pc[c] \notin {"lookup", "rejected"}
    PROVE  determineSpeedLimit(NodeSpeed, lim[c].speed) \in Nat
<1>0. lim[c] \in Limits
  <2>1. lim \in [Conns -> Limits \cup {Nil}] /\ lim[c] # Nil
    BY DEF TypeOK
  <2> QED BY <2>1
<1>1. lim[c] \in [speed : Nat, device : Nat]
  BY <1>0, LimiterAssumption
<1>2. lim[c].speed \in Nat /\ NodeSpeed \in Nat
  BY <1>1, LimiterAssumption
<1> QED BY <1>2 DEF determineSpeedLimit

-----------------------------------------------------------------------------
(* No operation of CheckLimit, GetOnlineDevice or UpdateUser                 *)
(* (limiter/limiter.go:90-220) leaves a variable outside its set of values.  *)
THEOREM TypeCorrect == Spec => []TypeOK
<1> USE LimiterAssumption
<1>1. Init => TypeOK
  BY DEF Init, TypeOK, Decided
<1>2. TypeOK /\ [Next]_vars => TypeOK'
  <2> SUFFICES ASSUME TypeOK, [Next]_vars PROVE TypeOK'
    OBVIOUS
  <2> USE DEF TypeOK, Decided
  <2>1. CASE UNCHANGED vars
    BY <2>1 DEF vars, conns, shared, check, report, update
  <2>2. ASSUME NEW c \in Conns, CheckLimit(c) PROVE TypeOK'
    <3> USE DEF At, Goto, conns, shared, report, update
    <3>1. CASE Lookup(c)
      BY <3>1 DEF Lookup, AfterLookup
    <3>2. CASE Record(c)
      <4>1. who[c] \in Users /\ lim[c] # Nil
        BY <3>2 DEF Record
      <4>2. CASE online[who[c]] # Nil
        <5>1. online[who[c]] \in Conns
          BY <4>1, <4>2
        <5>2. ipMap' = [ipMap EXCEPT ![c] = online[who[c]]] /\ ipMap'[c] # Nil
          BY <3>2, <4>2, <5>1 DEF Record
        <5>3. ipMap' \in [Conns -> Conns \cup {Nil}] /\ full' \in [Conns -> BOOLEAN]
          BY <3>2, <5>1, <5>2 DEF Record, AtLimit
        <5>4. pc' = [pc EXCEPT ![c] = "addIp"]
          BY <3>2, <4>2 DEF Record
        <5> QED BY <3>2, <4>1, <4>2, <5>2, <5>3, <5>4 DEF Record
      <4>3. CASE online[who[c]] = Nil
        <5>1. ips' = [ips EXCEPT ![c] = {from[c]}]
          BY <3>2, <4>3 DEF Record
        <5>2. from[c] \in Ips
          OBVIOUS
        <5>3. ips' \in [Conns -> SUBSET Ips]
          BY <5>1, <5>2
        <5>4. full' \in [Conns -> BOOLEAN] /\ online' \in [Users -> Conns \cup {Nil}]
          BY <3>2, <4>1, <4>3 DEF Record, AtLimit
        <5>5. pc' = [pc EXCEPT ![c] = "askOld"] /\ UNCHANGED <<lim, ipMap>>
          BY <3>2, <4>3 DEF Record
        <5> QED BY <3>2, <4>1, <5>3, <5>4, <5>5 DEF Record
      <4> QED BY <4>2, <4>3
    <3>3. CASE AddIp(c)
      <4>1. ipMap[c] \in Conns
        BY <3>3 DEF AddIp
      <4>2. ips' \in [Conns -> SUBSET Ips]
        BY <3>3, <4>1 DEF AddIp
      <4>3. \E l \in {"bucket", "askOld"} : pc' = [pc EXCEPT ![c] = l]
        BY <3>3 DEF AddIp
      <4>4. UNCHANGED <<conns, info, alive, online, old, bucket, rate, lim, ipMap, full, got,
                        report, update>>
        BY <3>3 DEF AddIp
      <4> QED BY <3>3, <4>2, <4>3, <4>4 DEF AddIp
    <3>4. CASE AskOld(c)
      BY <3>4 DEF AskOld, NextOfOld
    <3>5. CASE ForgetOld(c)
      BY <3>5 DEF ForgetOld
    <3>6. CASE Undo(c)
      <4>1. CASE ipMap[c] # Nil
        <5>1. ips' = [ips EXCEPT ![ipMap[c]] = @ \ {from[c]}] /\ ipMap[c] \in Conns
          BY <3>6, <4>1 DEF Undo, UndoRecord
        <5>2. ips' \in [Conns -> SUBSET Ips]
          BY <5>1
        <5> QED BY <3>6, <4>1, <5>2 DEF Undo, UndoRecord
      <4>2. CASE ipMap[c] = Nil
        BY <3>6, <4>2, SMTT(20) DEF Undo, UndoRecord
      <4> QED BY <4>1, <4>2
    <3>7. CASE TakeBucket(c)
      <4>1. determineSpeedLimit(NodeSpeed, lim[c].speed) \in Nat
        BY <3>7, RateType DEF TakeBucket
      <4> QED BY <3>7, <4>1 DEF TakeBucket, BucketFor
    <3>8. CASE StoreBucket(c)
      BY <3>8 DEF StoreBucket
    <3> QED BY <2>2, <3>1, <3>2, <3>3, <3>4, <3>5, <3>6, <3>7, <3>8 DEF CheckLimit
  <2>3. CASE GetOnlineDevice
    <3> USE DEF conns, shared, check, update
    <3>1. CASE BeginReport
      BY <3>1 DEF BeginReport
    <3>2. ASSUME NEW u \in Users, VisitUser(u) PROVE TypeOK'
      BY <3>2 DEF VisitUser
    <3>3. ASSUME NEW i \in Ips, VisitIp(i) PROVE TypeOK'
      BY <3>3 DEF VisitIp
    <3>4. CASE ResetUser
      BY <3>4 DEF ResetUser
    <3>5. CASE EndReport
      BY <3>5 DEF EndReport
    <3> QED BY <2>3, <3>1, <3>2, <3>3, <3>4, <3>5 DEF GetOnlineDevice
  <2>4. CASE SetAlive
    BY <2>4 DEF SetAlive, conns, check, report, update
  <2>5. CASE UpdateUser
    <3> USE DEF conns, shared, check, report
    <3>1. ASSUME NEW u \in Users, NEW l \in Limits \cup {Nil}, BeginUpdate(u, l)
          PROVE  TypeOK'
      BY <3>1 DEF BeginUpdate
    <3>2. CASE DeleteInfo
      BY <3>2 DEF DeleteInfo
    <3>3. CASE DeleteOnline
      BY <3>3 DEF DeleteOnline
    <3>4. CASE DeleteBucket
      BY <3>4 DEF DeleteBucket
    <3>5. CASE DeleteAlive
      <4>1. alive' = [alive EXCEPT ![uUser] = 0] /\ 0 \in 0 .. MaxAlive
        BY <3>5 DEF DeleteAlive
      <4>2. alive' \in [Users -> 0 .. MaxAlive]
        BY <4>1
      <4> QED BY <3>5, <4>2 DEF DeleteAlive
    <3>6. CASE AddInfo
      BY <3>6 DEF AddInfo
    <3> QED BY <2>5, <3>1, <3>2, <3>3, <3>4, <3>5, <3>6 DEF UpdateUser
  <2>6. CASE Done
    BY <2>6 DEF Done, vars, conns, shared, check, report, update
  <2> QED BY <2>1, <2>2, <2>3, <2>4, <2>5, <2>6 DEF Next
<1>3. QED BY <1>1, <1>2, PTL DEF Spec

-----------------------------------------------------------------------------
(* Actions other than CheckLimit's, as RecordInv sees them.                  *)
LEMMA OthersKeepRecords ==
    ASSUME TypeOK, GetOnlineDevice \/ SetAlive \/ UpdateUser \/ Done \/ UNCHANGED vars
    PROVE  /\ UNCHANGED <<who, from, pc, ipMap, ips>>
           /\ \A u \in Users : online'[u] \in {online[u], Nil}
<1> USE DEF conns, shared, check, report, update, vars
<1>1. CASE GetOnlineDevice
  BY <1>1 DEF GetOnlineDevice, BeginReport, ResetUser, EndReport, VisitUser, VisitIp, TypeOK
<1>2. CASE SetAlive
  BY <1>2 DEF SetAlive, TypeOK
<1>3. CASE UpdateUser
  BY <1>3 DEF UpdateUser, BeginUpdate, DeleteInfo, DeleteOnline, DeleteBucket, DeleteAlive,
              AddInfo, TypeOK
<1>4. CASE Done \/ UNCHANGED vars
  BY <1>4 DEF Done
<1> QED BY <1>1, <1>2, <1>3, <1>4

(* A step that leaves the maps' contents and pointers alone, moves no        *)
(* connection back or to rejection, and at most drops users' maps.           *)
LEMMA QuietStepKeepsRecords ==
    ASSUME TypeOK, RecordInv,
           UNCHANGED <<who, from, ipMap, ips>>,
           \A u \in Users : online'[u] \in {online[u], Nil},
           \A c \in Conns : \/ pc'[c] = pc[c]
                            \/ /\ pc[c] \notin BeforeRecord \cup {"addIp", "rejected"}
                               /\ pc'[c] \notin BeforeRecord \cup {"addIp", "rejected"}
    PROVE  RecordInv'
<1> USE DEF RecordInv
<1>1. OwnerInv'
  BY LimiterAssumption DEF OwnerInv, TypeOK, BeforeRecord
<1>2. ASSUME NEW m \in Conns, NEW i \in ips'[m] PROVE \E e \in Conns : Backs(e, m, i)'
  <2>1. PICK e \in Conns : Backs(e, m, i)
    BY <1>2
  <2>2. who[m] \in Users
    BY DEF TypeOK
  <2>3. online'[who[m]] = m => online[who[m]] = m
    BY <2>2, LimiterAssumption
  <2> QED BY <2>1, <2>3 DEF Backs, Uses, BeforeRecord
<1> QED BY <1>1, <1>2

(* RecordInv is inductive.                                                   *)
LEMMA RecordStep ==
    ASSUME TypeOK, TypeOK', RecordInv, [Next]_vars
    PROVE  RecordInv'
<1>1. ASSUME NEW c \in Conns, CheckLimit(c) PROVE RecordInv'
  <2> USE DEF At, Goto, conns, shared, report, update
  <2>0. UNCHANGED <<who, from>> /\ pc \in [Conns -> {"lookup", "record", "addIp", "askOld",
            "forget", "undo", "bucket", "store"} \cup Decided]
        /\ \A u \in Users : online[u] \in Conns \cup {Nil}
    BY <1>1 DEF CheckLimit, Lookup, Record, AddIp, AskOld, ForgetOld, Undo, TakeBucket,
                StoreBucket, TypeOK
  <2>1. CASE Lookup(c)
    <3>1. pc[c] = "lookup" /\ \E l \in {"record", "rejected"} : pc' = [pc EXCEPT ![c] = l]
          /\ UNCHANGED <<who, from, ips, ipMap, online>>
      BY <2>1 DEF Lookup, AfterLookup
    <3>2. OwnerInv'
      BY <2>0, <3>1 DEF RecordInv, OwnerInv, BeforeRecord
    <3>3. ASSUME NEW m \in Conns, NEW i \in ips'[m] PROVE \E e \in Conns : Backs(e, m, i)'
      <4>1. PICK e \in Conns : Backs(e, m, i)
        BY <3>1, <3>3 DEF RecordInv
      <4>2. e # c
        BY <3>1, <4>1 DEF Backs, BeforeRecord
      <4> QED BY <2>0, <3>1, <4>1, <4>2 DEF Backs, Uses
    <3> QED BY <3>2, <3>3 DEF RecordInv
  <2>2. CASE Record(c)
    <3> DEFINE u == who[c]
    <3>0. u \in Users /\ ips[c] = {} /\ ipMap[c] = Nil /\ pc[c] = "record"
      BY <2>2 DEF Record, RecordInv, OwnerInv, BeforeRecord, TypeOK
    <3>1. CASE online[u] # Nil
      <4>1. ipMap' = [ipMap EXCEPT ![c] = online[u]] /\ pc' = [pc EXCEPT ![c] = "addIp"]
            /\ UNCHANGED <<online, ips>>
        BY <2>2, <3>1 DEF Record
      <4>2. OwnerInv'
        BY <2>0, <3>0, <3>1, <4>1 DEF RecordInv, OwnerInv, BeforeRecord, TypeOK
      <4>3. ASSUME NEW m \in Conns, NEW i \in ips'[m] PROVE \E e \in Conns : Backs(e, m, i)'
        <5>1. PICK e \in Conns : Backs(e, m, i)
          BY <4>1, <4>3 DEF RecordInv
        <5>2. e # c
          BY <3>0, <5>1 DEF Backs, BeforeRecord
        <5> QED BY <2>0, <4>1, <5>1, <5>2 DEF Backs, Uses, TypeOK
      <4> QED BY <4>2, <4>3 DEF RecordInv
    <3>2. CASE online[u] = Nil
      <4>1. online' = [online EXCEPT ![u] = c] /\ ips' = [ips EXCEPT ![c] = {from[c]}]
            /\ pc' = [pc EXCEPT ![c] = "askOld"] /\ UNCHANGED ipMap
        BY <2>2, <3>2 DEF Record
      <4>2. OwnerInv'
        BY <2>0, <3>0, <4>1, LimiterAssumption DEF RecordInv, OwnerInv, BeforeRecord, TypeOK
      <4>3. ASSUME NEW m \in Conns, NEW i \in ips'[m] PROVE \E e \in Conns : Backs(e, m, i)'
        <5>1. CASE m = c
          <6>1. i = from[c]
            BY <4>1, <4>3, <5>1 DEF TypeOK
          <6>2. Backs(c, m, i)'
            BY <2>0, <3>0, <4>1, <5>1, <6>1 DEF Backs, Uses, BeforeRecord, TypeOK
          <6> QED BY <6>2
        <5>2. CASE m # c
          <6>1. i \in ips[m]
            BY <4>1, <4>3, <5>2 DEF TypeOK
          <6>2. PICK e \in Conns : Backs(e, m, i)
            BY <6>1 DEF RecordInv
          <6>3. e # c
            BY <3>0, <6>2 DEF Backs, BeforeRecord
          <6>4. online'[who[m]] = m => online[who[m]] = m
            BY <3>0, <4>1, <5>2 DEF TypeOK
          <6> QED BY <2>0, <4>1, <6>2, <6>3, <6>4 DEF Backs, Uses, TypeOK
        <5> QED BY <5>1, <5>2
      <4> QED BY <4>2, <4>3 DEF RecordInv
    <3> QED BY <3>1, <3>2
  <2>3. CASE AddIp(c)
    <3> DEFINE mm == ipMap[c]
    <3>0. /\ mm \in Conns /\ pc[c] = "addIp" /\ who[mm] = who[c]
          /\ pc[mm] \notin BeforeRecord
      BY <2>3, LimiterAssumption DEF AddIp, TypeOK, RecordInv, OwnerInv
    <3>1. /\ ips' = [ips EXCEPT ![mm] = @ \cup {from[c]}]
          /\ \E l \in {"bucket", "askOld"} : pc' = [pc EXCEPT ![c] = l]
          /\ UNCHANGED <<online, ipMap>>
      BY <2>3 DEF AddIp
    <3>2. OwnerInv'
      BY <2>0, <3>0, <3>1 DEF RecordInv, OwnerInv, BeforeRecord, TypeOK
    <3>3. ASSUME NEW m \in Conns, NEW i \in ips'[m] PROVE \E e \in Conns : Backs(e, m, i)'
      <4>1. CASE i \in ips[m]
        <5>1. PICK e \in Conns : Backs(e, m, i)
          BY <4>1 DEF RecordInv
        <5>2. e # c
          BY <3>0, <5>1 DEF Backs
        <5> QED BY <2>0, <3>1, <5>1, <5>2 DEF Backs, Uses
      <4>2. CASE i \notin ips[m]
        <5>1. m = mm /\ i = from[c]
          BY <3>1, <3>3, <4>2 DEF TypeOK
        <5>2. Backs(c, m, i)'
          BY <2>0, <3>0, <3>1, <5>1, LimiterAssumption DEF Backs, Uses, BeforeRecord
        <5> QED BY <5>2
      <4> QED BY <4>1, <4>2
    <3> QED BY <3>2, <3>3 DEF RecordInv
  <2>4. CASE Undo(c)
    <3>0. pc[c] = "undo" /\ pc' = [pc EXCEPT ![c] = "rejected"] /\ UNCHANGED ipMap
      BY <2>4 DEF Undo
    <3>1. CASE ipMap[c] # Nil
      <4>1. ipMap[c] \in Conns /\ UNCHANGED online
            /\ ips' = [ips EXCEPT ![ipMap[c]] = @ \ {from[c]}]
        BY <2>4, <3>1 DEF Undo, UndoRecord, TypeOK
      <4>2. OwnerInv'
        BY <2>0, <3>0, <4>1 DEF RecordInv, OwnerInv, BeforeRecord, TypeOK
      <4>3. ASSUME NEW m \in Conns, NEW i \in ips'[m] PROVE \E e \in Conns : Backs(e, m, i)'
        <5>1. i \in ips[m] /\ (m = ipMap[c] => i # from[c])
          BY <4>1, <4>3 DEF TypeOK
        <5>2. PICK e \in Conns : Backs(e, m, i)
          BY <5>1 DEF RecordInv
        <5>3. e # c
          BY <3>1, <5>1, <5>2 DEF Backs, Uses
        <5> QED BY <2>0, <3>0, <4>1, <5>2, <5>3 DEF Backs, Uses
      <4> QED BY <4>2, <4>3 DEF RecordInv
    <3>2. CASE ipMap[c] = Nil
      <4>1. online' = [online EXCEPT ![who[c]] = Nil] /\ UNCHANGED ips
        BY <2>4, <3>2 DEF Undo, UndoRecord
      <4>2. OwnerInv'
        BY <2>0, <3>0, <4>1 DEF RecordInv, OwnerInv, BeforeRecord, TypeOK
      <4>3. ASSUME NEW m \in Conns, NEW i \in ips'[m] PROVE \E e \in Conns : Backs(e, m, i)'
        <5>1. PICK e \in Conns : Backs(e, m, i)
          BY <4>1, <4>3 DEF RecordInv
        <5>2. who[m] \in Users /\ who[c] \in Users
          BY DEF TypeOK
        <5>3. online'[who[m]] = m => online[who[m]] = m /\ e # c
          BY <4>1, <5>1, <5>2, <3>2, LimiterAssumption DEF Backs, Uses, TypeOK
        <5> QED BY <2>0, <3>0, <5>1, <5>3 DEF Backs, Uses, BeforeRecord
      <4> QED BY <4>2, <4>3 DEF RecordInv
    <3> QED BY <3>1, <3>2
  <2>5. CASE AskOld(c) \/ ForgetOld(c) \/ TakeBucket(c) \/ StoreBucket(c)
    <3>1. UNCHANGED <<ipMap, ips, online>>
      BY <2>5 DEF AskOld, ForgetOld, TakeBucket, StoreBucket
    <3>2. pc[c] \in {"askOld", "forget", "bucket", "store"}
          /\ \E l \in {"forget", "undo", "bucket", "store", "admitted"} :
                pc' = [pc EXCEPT ![c] = l]
      BY <2>5 DEF AskOld, NextOfOld, ForgetOld, TakeBucket, StoreBucket
    <3>3. \A d \in Conns : \/ pc'[d] = pc[d]
                           \/ /\ pc[d] \notin BeforeRecord \cup {"addIp", "rejected"}
                              /\ pc'[d] \notin BeforeRecord \cup {"addIp", "rejected"}
      BY <2>0, <3>2 DEF BeforeRecord
    <3> QED BY <2>0, <3>1, <3>3, QuietStepKeepsRecords
  <2> QED BY <1>1, <2>1, <2>2, <2>3, <2>4, <2>5 DEF CheckLimit
<1>2. CASE GetOnlineDevice \/ SetAlive \/ UpdateUser \/ Done \/ UNCHANGED vars
  BY <1>2, OthersKeepRecords, QuietStepKeepsRecords
<1> QED BY <1>1, <1>2 DEF Next

(* An IP counted online belongs to a connection of that user which was let   *)
(* in or is being decided, in every interleaving of CheckLimit,              *)
(* GetOnlineDevice and UpdateUser (limiter/limiter.go:153-186).              *)
THEOREM CountedHasConnHolds == Spec => []CountedHasConn
<1>1. Init => RecordInv
  BY LimiterAssumption DEF Init, RecordInv, OwnerInv
<1>2. TypeOK /\ TypeOK' /\ RecordInv /\ [Next]_vars => RecordInv'
  BY RecordStep
<1>3. TypeOK /\ RecordInv => CountedHasConn
  <2> SUFFICES ASSUME TypeOK, RecordInv, NEW u \in Users, NEW i \in Counted(u)
               PROVE  \E c \in Conns : who[c] = u /\ from[c] = i /\ pc[c] # "rejected"
    BY DEF CountedHasConn
  <2>1. online[u] \in Conns /\ i \in ips[online[u]] /\ who[online[u]] = u
    BY LimiterAssumption DEF Counted, TypeOK, RecordInv, OwnerInv
  <2>2. PICK e \in Conns : Backs(e, online[u], i)
    BY <2>1 DEF RecordInv
  <2> QED BY <2>1, <2>2 DEF Backs
<1>4. QED BY <1>1, <1>2, <1>3, TypeCorrect, PTL DEF Spec

-----------------------------------------------------------------------------
(* PassInv is inductive: the reason a connection was let through lasts.      *)
LEMMA PassStep ==
    ASSUME TypeOK, TypeOK', RecordInv, PassInv, [Next]_vars
    PROVE  PassInv'
<1> DEFINE Known(c) ==
        \/ \E u \in Users : <<u, from[c]>> \in reported
        \/ \E d \in Conns \ {c} : who[d] = who[c] /\ from[d] = from[c] /\ pc[d] # "lookup"
<1>0. (\A c \in Conns : pc[c] \in {"forget", "bucket", "store", "admitted"} /\ full[c]
                            => Known(c)) /\ \A i \in Ips : old[i] # Nil => <<old[i], i>> \in reported
  BY DEF PassInv
<1>1. ASSUME NEW c \in Conns, CheckLimit(c) PROVE PassInv'
  <2> USE DEF At, Goto, conns, shared, report, update
  <2>1. UNCHANGED <<who, from, reported>> /\ c \in Conns
        /\ \A d \in Conns \ {c} : pc'[d] = pc[d] /\ full'[d] = full[d]
        /\ pc'[c] # "lookup" /\ pc[c] \in {"lookup", "record", "addIp", "askOld",
            "forget", "undo", "bucket", "store"}
    BY <1>1 DEF CheckLimit, Lookup, AfterLookup, Record, AddIp, AskOld, NextOfOld, ForgetOld,
                Undo, TakeBucket, StoreBucket, TypeOK
  <2>2. ASSUME NEW d \in Conns, Known(d) PROVE Known(d)'
    BY <2>1, <2>2
  <2>3. \A i \in Ips : old'[i] # Nil => <<old'[i], i>> \in reported'
    BY <1>0, <1>1 DEF CheckLimit, Lookup, Record, AddIp, AskOld, ForgetOld, Undo, TakeBucket,
                      StoreBucket, TypeOK
  <2>4. ASSUME pc'[c] \in {"forget", "bucket", "store", "admitted"}, full'[c] PROVE Known(c)'
    <3>1. CASE AddIp(c)
      <4>1. from[c] \in ips[ipMap[c]] /\ ipMap[c] \in Conns /\ pc[c] = "addIp"
        BY <2>4, <3>1 DEF AddIp, TypeOK
      <4>2. PICK e \in Conns : Backs(e, ipMap[c], from[c])
        BY <4>1 DEF RecordInv
      <4>3. e # c /\ who[e] = who[c] /\ from[e] = from[c] /\ pc[e] # "lookup"
        BY <4>1, <4>2, LimiterAssumption DEF Backs, RecordInv, OwnerInv, BeforeRecord
      <4>4. Known(c)
        BY <4>3
      <4> QED BY <2>2, <4>4
    <3>2. CASE AskOld(c)
      <4>1. full[c] /\ pc[c] = "askOld" /\ pc'[c] = NextOfOld(c)
        BY <2>4, <3>2 DEF AskOld, TypeOK
      <4>2. old[from[c]] # Nil /\ from[c] \in Ips
        BY <2>4, <4>1, LimiterAssumption DEF NextOfOld, TypeOK
      <4>3. <<old[from[c]], from[c]>> \in reported /\ old[from[c]] \in Users
        BY <1>0, <4>2 DEF TypeOK
      <4> QED BY <2>2, <4>3
    <3>3. CASE ForgetOld(c) \/ TakeBucket(c) \/ StoreBucket(c)
      <4>1. full[c] /\ pc[c] \in {"forget", "bucket", "store"}
        BY <2>4, <3>3 DEF ForgetOld, TakeBucket, StoreBucket
      <4> QED BY <1>0, <2>2, <4>1
    <3>4. CASE Lookup(c) \/ Record(c) \/ Undo(c)
      <4>1. \E l \in {"record", "rejected", "addIp", "askOld"} : pc' = [pc EXCEPT ![c] = l]
        BY <3>4 DEF Lookup, AfterLookup, Record, Undo
      <4> QED BY <2>4, <4>1 DEF TypeOK
    <3> QED BY <1>1, <3>1, <3>2, <3>3, <3>4 DEF CheckLimit
  <2> QED BY <1>0, <2>1, <2>2, <2>3, <2>4 DEF PassInv
<1>2. ASSUME GetOnlineDevice \/ SetAlive \/ UpdateUser \/ Done \/ UNCHANGED vars PROVE PassInv'
  <2> USE DEF conns, shared, check, report, update, vars
  <2>1. UNCHANGED <<who, from, pc, full>> /\ reported \subseteq reported'
    BY <1>2 DEF GetOnlineDevice, BeginReport, ResetUser, EndReport, VisitUser, VisitIp,
                SetAlive, UpdateUser, BeginUpdate, DeleteInfo, DeleteOnline, DeleteBucket,
                DeleteAlive, AddInfo, Done
  <2>2. \A i \in Ips : old'[i] # Nil => <<old'[i], i>> \in reported'
    <3>1. CASE GetOnlineDevice
      BY <1>0, <3>1 DEF GetOnlineDevice, BeginReport, ResetUser, EndReport, VisitUser, VisitIp,
                        TypeOK
    <3>2. CASE SetAlive \/ UpdateUser \/ Done \/ UNCHANGED vars
      BY <1>0, <3>2 DEF SetAlive, UpdateUser, BeginUpdate, DeleteInfo, DeleteOnline,
                        DeleteBucket, DeleteAlive, AddInfo, Done
    <3> QED BY <1>2, <3>1, <3>2
  <2> QED BY <1>0, <2>1, <2>2 DEF PassInv
<1> QED BY <1>1, <1>2 DEF Next

(* At the device limit CheckLimit admits an IP only if it was reported       *)
(* before or another connection of the user from it came first               *)
(* (limiter/limiter.go:162-184).                                             *)
THEOREM AdmittedPastLimitIsKnownHolds == Spec => []AdmittedPastLimitIsKnown
<1>1. Init => RecordInv /\ PassInv
  BY LimiterAssumption DEF Init, RecordInv, OwnerInv, PassInv
<1>2. TypeOK /\ TypeOK' /\ RecordInv /\ PassInv /\ [Next]_vars => RecordInv' /\ PassInv'
  BY RecordStep, PassStep
<1>3. PassInv => AdmittedPastLimitIsKnown
  BY DEF PassInv, AdmittedPastLimitIsKnown
<1>4. QED BY <1>1, <1>2, <1>3, TypeCorrect, PTL DEF Spec

-----------------------------------------------------------------------------
(* All connections of a user who is not updated share one rate bucket        *)
(* (limiter/limiter.go:188-196).                                             *)
THEOREM OneBucketHolds == Spec => []OneBucket
<1>1. Init => BucketInv
  BY DEF Init, BucketInv
<1>2. TypeOK /\ TypeOK' /\ BucketInv /\ [Next]_vars => BucketInv'
  <2> SUFFICES ASSUME TypeOK, TypeOK', BucketInv, [Next]_vars PROVE BucketInv'
    OBVIOUS
  <2> USE LimiterAssumption DEF BucketInv, conns, shared, check, report, update, vars
  <2>1. ASSUME NEW c \in Conns, TakeBucket(c) PROVE BucketInv'
    <3>1. CASE UNCHANGED <<bucket, got>>
      BY <2>1, <3>1 DEF TakeBucket, Goto, At, TypeOK
    <3>2. CASE bucket[who[c]] # Nil /\ got' = [got EXCEPT ![c] = bucket[who[c]]]
               /\ UNCHANGED bucket /\ Goto(c, "admitted")
      BY <2>1, <3>2 DEF TakeBucket, Goto, At, TypeOK
    <3>3. CASE /\ BucketFor(c) = c
               /\ bucket' = [bucket EXCEPT ![who[c]] = c] /\ got' = [got EXCEPT ![c] = c]
               /\ Goto(c, "store")
      BY <2>1, <3>3 DEF TakeBucket, BucketFor, Goto, At, TypeOK
    <3> QED BY <2>1, <3>1, <3>2, <3>3 DEF TakeBucket, BucketFor
  <2>2. ASSUME NEW c \in Conns, StoreBucket(c) PROVE BucketInv'
    BY <2>2 DEF StoreBucket, Goto, At, TypeOK
  <2>3. ASSUME NEW c \in Conns,
               Lookup(c) \/ Record(c) \/ AddIp(c) \/ AskOld(c) \/ ForgetOld(c) \/ Undo(c)
        PROVE  BucketInv'
    BY <2>3 DEF Lookup, AfterLookup, Record, AddIp, AskOld, NextOfOld, ForgetOld, Undo, Goto,
                At, TypeOK
  <2>4. CASE GetOnlineDevice \/ SetAlive \/ Done \/ UNCHANGED vars
    BY <2>4 DEF GetOnlineDevice, BeginReport, ResetUser, EndReport, VisitUser, VisitIp,
                SetAlive, Done
  <2>5. CASE UpdateUser
    <3>1. ASSUME NEW u \in Users, NEW l \in Limits \cup {Nil}, BeginUpdate(u, l)
          PROVE  BucketInv'
      BY <3>1 DEF BeginUpdate
    <3>2. CASE DeleteBucket
      BY <3>2 DEF DeleteBucket, TypeOK
    <3>3. CASE DeleteInfo \/ DeleteOnline \/ DeleteAlive \/ AddInfo
      BY <3>3 DEF DeleteInfo, DeleteOnline, DeleteAlive, AddInfo
    <3> QED BY <2>5, <3>1, <3>2, <3>3 DEF UpdateUser
  <2> QED BY <2>1, <2>2, <2>3, <2>4, <2>5 DEF Next, CheckLimit
<1>3. BucketInv => OneBucket
  BY DEF BucketInv, OneBucket
<1>4. QED BY <1>1, <1>2, <1>3, TypeCorrect, PTL DEF Spec
=============================================================================
