--------------------------- MODULE Traffic_proofs ---------------------------
(***************************************************************************)
(* Proofs about Traffic, for any core, nodes, connections and report       *)
(* goroutines: type correctness; that the ledger is implemented, and so    *)
(* what lost answers can cost; that a counter in use stays in its map.     *)
(***************************************************************************)
EXTENDS Traffic, TLAPS

(* Each part of the type invariant depends on its own variables only.        *)
LEMMA Frames ==
  /\ UNCHANGED users /\ UserType => UserType'
  /\ UNCHANGED maps /\ MapType => MapType'
  /\ UNCHANGED <<val, books>> /\ CountType => CountType'
  /\ UNCHANGED conns /\ ConnType => ConnType'
  /\ UNCHANGED <<rp, locals>> /\ ReportType => ReportType'
<1>1. UNCHANGED users /\ UserType => UserType'
  BY DEF users, UserType
<1>2. UNCHANGED maps /\ MapType => MapType'
  BY DEF maps, MapType
<1>3. UNCHANGED <<val, books>> /\ CountType => CountType'
  BY DEF books, CountType
<1>4. UNCHANGED conns /\ ConnType => ConnType'
  BY DEF conns, ConnType
<1>5. UNCHANGED <<rp, locals>> /\ ReportType => ReportType'
  BY DEF locals, ReportType, Scanning
<1> QED BY <1>1, <1>2, <1>3, <1>4, <1>5

(* The user map's steps: AddUsers and DelUsers of the cores.                 *)
LEMMA UserStepType ==
  ASSUME TypeOK, NEW t \in Tags, NEW u \in Users, UserStep(t, u)
  PROVE  TypeOK'
<1> USE DEF TypeOK
<1>1. Key(t, u) \in Keys /\ <<t, u>> \in Accounts
  BY DEF Key, Keys, Accounts
<1>2. WithoutEntry(t, u) \in [Tables -> [Users -> Storages \cup {Nil}]]
  BY DEF WithoutEntry, MapType
<1>3. CASE AddUser(t, u)
  <2>1. UserType'
    BY <1>1, <1>3 DEF AddUser, UserType
  <2> QED BY <1>3, <2>1, Frames DEF AddUser
<1>4. CASE DropCounter(t, u)
  <2>1. UserType'
    BY <1>1, <1>4 DEF DropCounter, UserType
  <2>2. MapType'
    BY <1>2, <1>4 DEF DropCounter, MapType
  <2> QED BY <1>4, <2>1, <2>2, Frames DEF DropCounter
<1>5. CASE DelUser(t, u)
  <2>1. UserType'
    BY <1>1, <1>5 DEF DelUser, UserType
  <2>2. MapType'
    BY <1>2, <1>5 DEF DelUser, MapType
  <2>3. ConnType'
    BY <1>5 DEF DelUser, ConnType, Linked
  <2> QED BY <1>5, <2>1, <2>2, <2>3, Frames DEF DelUser
<1> QED BY <1>3, <1>4, <1>5 DEF UserStep

(* A connection's steps: getLink, RoutedConnection, LogTraffic.              *)
LEMMA ConnStepType ==
  ASSUME TypeOK, NEW c \in Conns, ConnStep(c)
  PROVE  TypeOK'
<1> USE DEF TypeOK, ConnStages
<1>1. ASSUME NEW t \in Tags, NEW u \in Users, Connect(c, t, u) PROVE TypeOK'
  <2>1. <<t, u>> \in Accounts /\ <<t, u>> # Nil
    BY TrafficAssumption DEF Accounts, TrafficAssumption
  <2>2. ConnType'
    BY <1>1, <2>1 DEF Connect, ConnType
  <2> QED BY <1>1, <2>2, Frames DEF Connect
<1>0. stage[c] # "none" => /\ who[c] \in Accounts
                           /\ who[c][1] \in Tags /\ who[c][2] \in Users
                           /\ who[c] = <<who[c][1], who[c][2]>>
  BY DEF ConnType, Accounts
<1>2. CASE Admit(c)
  <2>1. ConnType'
    BY <1>2 DEF Admit, ConnType
  <2> QED BY <1>2, <2>1, Frames DEF Admit
<1>3. CASE LoadTable(c)
  <2>1. table[who[c][1]] \in Tables \cup {Nil}
    BY <1>0, <1>3 DEF LoadTable, MapType
  <2>2. ConnType'
    BY <1>3, <2>1 DEF LoadTable, ConnType
  <2> QED BY <1>3, <2>2, Frames DEF LoadTable
<1>4. CASE StoreTable(c)
  <2>1. PICK m \in Tables : /\ tagOf' = [tagOf EXCEPT ![m] = who[c][1]]
                            /\ table' = [table EXCEPT ![who[c][1]] = m]
                            /\ via' = [via EXCEPT ![c] = m]
    BY <1>4 DEF StoreTable
  <2>2. MapType'
    BY <1>0, <1>4, <2>1 DEF StoreTable, MapType
  <2>3. m # Nil
    BY TrafficAssumption DEF TrafficAssumption
  <2>4. ConnType'
    BY <1>4, <2>1, <2>3 DEF StoreTable, ConnType
  <2> QED BY <1>4, <2>2, <2>4, Frames DEF StoreTable
<1>5. CASE GetCounter(c)
  <2>1. via[c] \in Tables /\ entry[via[c]][who[c][2]] \in Storages \cup {Nil}
    BY <1>0, <1>5 DEF GetCounter, MapType, ConnType
  <2>2. PICK s \in Storages : at' = [at EXCEPT ![c] = s]
    BY <1>5, <2>1 DEF GetCounter
  <2>3. MapType'
    <3>1. CASE UNCHANGED <<entry, own>>
      BY <1>5, <3>1 DEF GetCounter, MapType
    <3>2. ASSUME NEW n \in Storages, own' = [own EXCEPT ![n] = who[c]],
                 entry' = [entry EXCEPT ![via[c]][who[c][2]] = n]
          PROVE  MapType'
      <4>1. own' \in [Storages -> Accounts \cup {Nil}]
        BY <1>0, <1>5, <3>2 DEF GetCounter, MapType
      <4>2. entry' \in [Tables -> [Users -> Storages \cup {Nil}]]
        BY <3>2 DEF MapType
      <4> QED BY <1>5, <4>1, <4>2 DEF GetCounter, MapType
    <3> QED BY <1>5, <3>1, <3>2 DEF GetCounter
  <2>4. s # Nil
    BY TrafficAssumption DEF TrafficAssumption
  <2>5. ConnType'
    BY <1>5, <2>2, <2>4 DEF GetCounter, ConnType
  <2> QED BY <1>5, <2>3, <2>5, Frames DEF GetCounter
<1>6. ASSUME NEW s \in {"none", "table", "count"}, GoesTo(c, s), stage[c] \in {"table", "count"},
             s = "count" => stage[c] = "count"
      PROVE  ConnType'
  BY <1>6 DEF GoesTo, ConnType
<1>7. CASE Count(c)
  <2>1. at[c] \in Storages
    BY <1>7 DEF Count, ConnType
  <2>2. CountType'
    BY <1>7, <2>1 DEF Count, Counted, CountType
  <2>3. ConnType'
    BY <1>6, <1>7 DEF Count, AfterCount
  <2> QED BY <1>7, <2>2, <2>3, Frames DEF Count
<1>8. CASE StoreNothing(c)
  <2>1. CountType'
    BY <1>8 DEF StoreNothing, CountType, books
  <2> QED BY <1>8, <2>1, Frames DEF StoreNothing
<1>9. CASE HangUp(c)
  <2>1. ConnType'
    BY <1>6, <1>9 DEF HangUp
  <2> QED BY <1>9, <2>1, Frames DEF HangUp
<1> QED BY <1>1, <1>2, <1>3, <1>4, <1>5, <1>7, <1>8, <1>9 DEF ConnStep

(* A report's steps: reportUserTrafficTask and GetUserTrafficSlice.          *)
LEMMA ReportStepType ==
  ASSUME TypeOK, NEW r \in Reporters, ReportStep(r)
  PROVE  TypeOK'
<1> USE DEF TypeOK, ReportStages, Goto
<1>0. ReportsFor[r] \in Tags
  BY TrafficAssumption DEF TrafficAssumption
<1>1. CASE BeginReport(r)
  <2>1. table[ReportsFor[r]] \in Tables \cup {Nil}
    BY <1>0 DEF MapType
  <2>2. ReportType'
    BY <1>1, <2>1 DEF BeginReport, ReportType, Scanning
  <2> QED BY <1>1, <2>2, Frames DEF BeginReport
<1>2. ASSUME NEW u \in Users, Skip(r, u) PROVE TypeOK'
  <2>1. ReportType'
    BY <1>2 DEF Skip, ReportType, Scanning
  <2> QED BY <1>2, <2>1, Frames DEF Skip
<1>3. ASSUME NEW u \in Users, Visit(r, u) PROVE TypeOK'
  <2>1. rtab[r] \in Tables /\ entry[rtab[r]][u] \in Storages
    BY <1>3 DEF Visit, ReportType, MapType, Scanning
  <2>2. val[entry[rtab[r]][u]] \in Nat
    BY <2>1 DEF CountType
  <2>3. entry[rtab[r]][u] # Nil
    BY <1>3 DEF Visit
  <2>4. left' \in [Reporters -> SUBSET Users] /\ rtab' = rtab /\ rtab[r] # Nil
        /\ \A q \in Reporters : q # r => left'[q] = left[q]
    BY <1>3, <2>1, TrafficAssumption DEF Visit, ReportType, TrafficAssumption
  <2>5. CASE UNCHANGED <<cur, src, got, rp>>
    <3>1. ReportType'
      BY <1>3, <2>4, <2>5 DEF Visit, ReportType, Scanning
    <3> QED BY <1>3, <3>1, Frames DEF Visit
  <2>6. CASE /\ cur' = [cur EXCEPT ![r] = u] /\ src' = [src EXCEPT ![r] = entry[rtab[r]][u]]
             /\ got' = [got EXCEPT ![r] = val[entry[rtab[r]][u]]]
             /\ rp' = [rp EXCEPT ![r] = "reset"]
    <3>1. u # Nil
      BY TrafficAssumption DEF TrafficAssumption
    <3>2. ReportType'
      BY <1>3, <2>1, <2>2, <2>3, <2>4, <2>6, <3>1 DEF Visit, ReportType, Scanning
    <3> QED BY <1>3, <3>2, Frames DEF Visit
  <2> QED BY <1>3, <2>5, <2>6 DEF Visit
<1>4. CASE Reset(r)
  <2>1. CountType'
    BY <1>4 DEF Reset, CountType, books
  <2>2. ReportType'
    BY <1>4 DEF Reset, ReportType, Scanning, locals
  <2> QED BY <1>4, <2>1, <2>2, Frames DEF Reset
<1>5. CASE Attribute(r)
  <2>1. slice' = slice \/ slice' = [slice EXCEPT ![r][src[r]] = got[r]]
    BY <1>5 DEF Attribute
  <2>2. slice' \in [Reporters -> [Storages -> Nat]]
    BY <2>1, SMTT(20) DEF ReportType
  <2>3. entry' = entry \/ entry' = [entry EXCEPT ![rtab[r]][cur[r]] = Nil]
    BY <1>5 DEF Attribute
  <2>4. MapType'
    BY <1>5, <2>3 DEF Attribute, MapType
  <2>5. ReportType'
    BY <1>5, <2>2 DEF Attribute, ReportType, Scanning
  <2>6. CountType'
    <3>1. \/ taken' = taken
          \/ taken' = [taken EXCEPT ![r] = [taken[r] EXCEPT ![src[r]] = taken[r][src[r]] + got[r]]]
      BY <1>5 DEF Attribute
    <3>2. src[r] \in Storages /\ got[r] \in Nat
      BY <1>5 DEF Attribute, ReportType
    <3>3. [taken[r] EXCEPT ![src[r]] = taken[r][src[r]] + got[r]] \in [Storages -> Nat]
      BY <3>2 DEF CountType
    <3>4. taken' \in [Reporters -> [Storages -> Nat]]
      BY <3>1, <3>3 DEF CountType
    <3> QED BY <1>5, <3>4 DEF Attribute, CountType
  <2> QED BY <1>5, <2>4, <2>5, <2>6 DEF Attribute, users, UserType, conns, ConnType
<1>6. CASE EndScan(r)
  <2>1. ReportType'
    BY <1>6 DEF EndScan, ReportType, Scanning, locals
  <2> QED BY <1>6, <2>1, Frames DEF EndScan
<1>7. Booked(r) \in [Reporters -> [Storages -> Nat]]
  BY DEF Booked, CountType, ReportType
<1>8. CASE SendOk(r)
  <2>1. CountType'
    BY <1>7, <1>8 DEF SendOk, CountType
  <2>2. ReportType'
    BY <1>8 DEF SendOk, ReportType, Scanning, locals
  <2> QED BY <1>8, <2>1, <2>2, Frames DEF SendOk
<1>9. ASSUME rp[r] = "send", AfterFailure(r), UNCHANGED <<told, rtab, left, cur, src, got, slice>>
      PROVE  ReportType'
  <2>1. tries' \in [Reporters -> 0 .. Retries]
    <3>1. tries[r] \in 0 .. Retries /\ Retries \in Nat
      BY TrafficAssumption DEF ReportType, TrafficAssumption
    <3>2. tries' = tries \/ (tries[r] + 1 \in 0 .. Retries /\ tries' = [tries EXCEPT ![r] = @ + 1])
      BY <1>9, <3>1 DEF AfterFailure
    <3> QED BY <3>2 DEF ReportType
  <2>2. rp' \in [Reporters -> ReportStages]
    BY <1>9 DEF AfterFailure, ReportType
  <2>3. \A q \in Reporters : rp'[q] = rp[q] \/ rp'[q] = "online"
    BY <1>9 DEF AfterFailure, ReportType
  <2> QED BY <1>9, <2>1, <2>2, <2>3 DEF ReportType, Scanning
<1>10. CASE SendDropped(r)
  <2>1. ReportType'
    BY <1>9, <1>10 DEF SendDropped
  <2> QED BY <1>10, <2>1, Frames DEF SendDropped
<1>11. CASE SendRefused(r)
  <2>1. ReportType'
    BY <1>11 DEF SendRefused, ReportType, Scanning, locals
  <2> QED BY <1>11, <2>1, Frames DEF SendRefused
<1>12. CASE AnswerLost(r)
  <2>1. CountType'
    BY <1>7, <1>12 DEF AnswerLost, CountType
  <2>2. ReportType'
    BY <1>9, <1>12 DEF AnswerLost
  <2> QED BY <1>12, <2>1, <2>2, Frames DEF AnswerLost
<1>13. CASE ReportOnline(r)
  <2>2. slice' \in [Reporters -> [Storages -> Nat]]
    BY <1>13 DEF ReportOnline, ReportType
  <2>3. tries' \in [Reporters -> 0 .. Retries]
    BY <1>13, TrafficAssumption DEF ReportOnline, ReportType, TrafficAssumption
  <2>4. ReportType'
    BY <1>13, <2>2, <2>3 DEF ReportOnline, ReportType, Scanning
  <2> QED BY <1>13, <2>4, Frames DEF ReportOnline
<1>14. CASE StopReceived(r)
  <2>1. ReportType'
    BY <1>14 DEF StopReceived, ReportType, Scanning
  <2> QED BY <1>14, <2>1, Frames DEF StopReceived
<1> QED BY <1>1, <1>2, <1>3, <1>4, <1>5, <1>6, <1>8, <1>10, <1>11, <1>12, <1>13, <1>14
        DEF ReportStep

(* The monitor's: a node that is renewed, and the restart of its report task. *)
LEMMA ReloadType ==
  ASSUME TypeOK, NEW t \in Tags, Reload(t)
  PROVE  TypeOK'
<1> USE DEF TypeOK
<1>1. CASE RenewNode(t)
  <2>1. UserType'
    BY <1>1 DEF RenewNode, CloseServer, UserType
  <2>2. MapType'
    BY <1>1 DEF RenewNode, CloseServer, MapType
  <2>3. ConnType'
    <3>1. UNCHANGED <<via, at>> /\ closing' \subseteq Conns
      BY <1>1 DEF RenewNode, CloseServer, ConnType, NodesConns
    <3>2. stage' \in [Conns -> ConnStages] /\ who' \in [Conns -> Accounts \cup {Nil}]
      BY <1>1, SMTT(20) DEF RenewNode, CloseServer, ConnType, ConnStages
    <3>3. \A c \in Conns : UNCHANGED <<stage[c], who[c]>> \/ stage'[c] = "none"
      BY <1>1 DEF RenewNode, CloseServer, ConnType
    <3> QED BY <3>1, <3>2, <3>3 DEF ConnType
  <2> QED BY <1>1, <2>1, <2>2, <2>3, Frames DEF RenewNode
<1>2. CASE FinishReload(t)
  <2>1. PICK list \in SUBSET Users : /\ served' = [served EXCEPT ![t] = @ \cup list]
                                     /\ uids' = uids \cup {Key(t, u) : u \in list}
    BY <1>2 DEF FinishReload
  <2>2. \A u \in list : Key(t, u) \in Keys
    BY DEF Key, Keys, Accounts
  <2>3. UserType'
    BY <1>2, <2>1, <2>2 DEF FinishReload, UserType
  <2>4. CASE UNCHANGED <<rp, told>>
    <3>1. ReportType'
      BY <1>2, <2>4 DEF FinishReload, ReportType, Scanning
    <3> QED BY <1>2, <2>3, <3>1, Frames DEF FinishReload
  <2>5. CASE Restart(t)
    <3>1. PICK r \in Reporters : rp[r] = "unborn" /\ rp' = [rp EXCEPT ![r] = "idle"]
      BY <2>5 DEF Restart
    <3>2. told' \subseteq Reporters
      BY <2>5 DEF Restart, ReportType
    <3>3. ReportType'
      BY <1>2, <3>1, <3>2 DEF FinishReload, ReportType, ReportStages, Scanning
    <3> QED BY <1>2, <2>3, <3>3, Frames DEF FinishReload
  <2> QED BY <1>2, <2>4, <2>5 DEF FinishReload
<1> QED BY <1>1, <1>2 DEF Reload

(* Traffic's type invariant holds: no step of the cores' user maps, of a     *)
(* connection's counter or of reportUserTrafficTask leaves the types, and    *)
(* none looks a storage up through a map it does not have.                   *)
THEOREM TypeCorrect == Spec => []TypeOK
<1>1. Init => TypeOK
  <2> SUFFICES ASSUME Init PROVE TypeOK
    OBVIOUS
  <2> USE TrafficAssumption DEF TrafficAssumption, Init
  <2>1. UserType
    BY DEF UserType, Keys, Key, Accounts
  <2>2. MapType
    BY DEF MapType
  <2>3. CountType
    BY DEF CountType
  <2>4. ConnType
    BY DEF ConnType, ConnStages
  <2>5. ReportType
    BY DEF ReportType, ReportStages, Scanning
  <2> QED BY <2>1, <2>2, <2>3, <2>4, <2>5 DEF TypeOK
<1>2. TypeOK /\ [Next]_vars => TypeOK'
  <2>1. TypeOK /\ UNCHANGED vars => TypeOK'
    BY Frames DEF TypeOK, vars
  <2> QED BY <2>1, UserStepType, ConnStepType, ReportStepType, ReloadType DEF Next
<1> QED BY <1>1, <1>2, PTL DEF Spec

-----------------------------------------------------------------------------
(* Where things are found.                                                   *)

(* A reload makes no map and no storage, and leaves reports that are at work. *)
LEMMA Reloads ==
  ASSUME TypeOK, NEW t \in Tags, Reload(t)
  PROVE  /\ \A r \in Reporters : rp'[r] = rp[r] \/ (rp[r] = "unborn" /\ rp'[r] = "idle")
         /\ UNCHANGED <<own, tagOf, entry, val, books, via, at, rtab, left, cur, src, got,
                        slice, tries>>
         /\ \A q \in Tags : table'[q] \in {table[q], Nil}
         /\ \A c \in Conns : UNCHANGED <<stage[c], who[c]>> \/ stage'[c] = "none"
<1>1. CASE RenewNode(t)
  BY <1>1 DEF RenewNode, CloseServer, UnderWay, NodesConns, locals, TypeOK, MapType, ConnType
<1>2. CASE FinishReload(t)
  BY <1>2 DEF FinishReload, Restart, maps, conns, TypeOK, ReportType
<1> QED BY <1>1, <1>2 DEF Reload

(* A TrafficCounter stays its tag's, and a storage its user's.               *)
Grows ==
    /\ \A m \in Tables : tagOf[m] # Nil => tagOf'[m] = tagOf[m]
    /\ \A s \in Storages : own[s] # Nil => own'[s] = own[s]

(* Only StoreTable and GetCounter make TrafficCounters and storages, and     *)
(* both make new ones.                                                       *)
LEMMA MapsGrow == ASSUME TypeOK, [Next]_vars PROVE Grows
<1> USE DEF Grows, maps
<1>1. CASE UNCHANGED vars
  BY <1>1 DEF vars
<1>2. ASSUME NEW t \in Tags, NEW u \in Users, UserStep(t, u) PROVE Grows
  BY <1>2 DEF UserStep, AddUser, DropCounter, DelUser
<1>3. ASSUME NEW r \in Reporters, ReportStep(r) PROVE Grows
  BY <1>3 DEF ReportStep, BeginReport, Skip, Visit, Reset, Attribute, EndScan, SendOk,
              SendDropped, SendRefused, AnswerLost, ReportOnline, StopReceived
<1>4. ASSUME NEW c \in Conns, ConnStep(c) PROVE Grows
  <2>1. CASE StoreTable(c)
    BY <2>1 DEF StoreTable, TypeOK, MapType
  <2>2. CASE GetCounter(c)
    BY <2>2 DEF GetCounter, TypeOK, MapType
  <2>3. CASE ~ StoreTable(c) /\ ~ GetCounter(c)
    BY <1>4, <2>3 DEF ConnStep, Connect, Admit, LoadTable, Count, StoreNothing, HangUp
  <2> QED BY <2>1, <2>2, <2>3
<1>5. ASSUME NEW t \in Tags, Reload(t) PROVE Grows
  BY <1>5, Reloads
<1> QED BY <1>1, <1>2, <1>3, <1>4, <1>5 DEF Next

(* What an account and a tag are not.                                        *)
LEMMA Tagged ==
  ASSUME TypeOK
  PROVE  /\ Nil \notin Tags /\ Nil \notin Accounts
         /\ \A t \in Tags, u \in Users : <<t, u>> # Nil
         /\ \A r \in Reporters : ReportsFor[r] \in Tags
         /\ \A c \in Conns : stage[c] # "none" =>
              /\ who[c] # Nil /\ who[c][1] \in Tags /\ who[c][2] \in Users
              /\ who[c] = <<who[c][1], who[c][2]>>
BY TrafficAssumption DEF TrafficAssumption, Accounts, TypeOK, ConnType

(* Every entry of a node's map is a storage of that node's user.             *)
LEMMA MapPlacedStep == ASSUME TypeOK, MapPlaced, ConnPlaced, [Next]_vars PROVE MapPlaced'
<1> USE DEF TypeOK, MapType
<1>1. ASSUME UNCHANGED <<table, tagOf, own>>,
             NEW m, NEW u, entry' = entry \/ entry' = [entry EXCEPT ![m][u] = Nil]
      PROVE  MapPlaced'
  <2>1. \A n \in Tables, v \in Users : entry'[n][v] \in {entry[n][v], Nil}
    BY <1>1
  <2> QED BY <1>1, <2>1 DEF MapPlaced
<1>2. CASE UNCHANGED vars
  BY <1>1, <1>2 DEF vars, maps
<1>3. ASSUME NEW t \in Tags, NEW u \in Users, UserStep(t, u) PROVE MapPlaced'
  BY <1>1, <1>3 DEF UserStep, AddUser, DropCounter, DelUser, WithoutEntry, maps
<1>4. ASSUME NEW r \in Reporters, ReportStep(r) PROVE MapPlaced'
  BY <1>1, <1>4 DEF ReportStep, BeginReport, Skip, Visit, Reset, Attribute, EndScan, SendOk,
              SendDropped, SendRefused, AnswerLost, ReportOnline, StopReceived, maps
<1>5. ASSUME NEW c \in Conns, ConnStep(c) PROVE MapPlaced'
  <2>1. CASE StoreTable(c)
    <3>1. PICK m \in Tables : /\ tagOf[m] = Nil
                              /\ tagOf' = [tagOf EXCEPT ![m] = who[c][1]]
                              /\ table' = [table EXCEPT ![who[c][1]] = m]
      BY <2>1 DEF StoreTable
    <3>2. UNCHANGED <<entry, own>> /\ who[c][1] \in Tags
      BY <2>1, Tagged DEF StoreTable
    <3>3. \A u \in Users : entry[m][u] = Nil
      BY <3>1 DEF MapPlaced
    <3>4. \A t \in Tags : table'[t] # Nil => tagOf'[table'[t]] = t
      BY <3>1, <3>2, Tagged DEF MapPlaced
    <3>5. \A n \in Tables, u \in Users : entry'[n][u] # Nil =>
            tagOf'[n] # Nil /\ own'[entry'[n][u]] = <<tagOf'[n], u>>
      BY <3>1, <3>2, <3>3 DEF MapPlaced
    <3> QED BY <3>4, <3>5 DEF MapPlaced
  <2>2. CASE GetCounter(c)
    <3>1. UNCHANGED <<table, tagOf>>
      BY <2>2 DEF GetCounter
    <3>2. CASE UNCHANGED <<entry, own>>
      BY <3>1, <3>2 DEF MapPlaced
    <3>3. ASSUME NEW n \in Storages, own[n] = Nil, own' = [own EXCEPT ![n] = who[c]],
                 entry' = [entry EXCEPT ![via[c]][who[c][2]] = n]
          PROVE  MapPlaced'
      <4>1. tagOf[via[c]] = who[c][1] /\ via[c] \in Tables
        BY <2>2 DEF GetCounter, ConnPlaced, ConnType
      <4>2. who[c] = <<tagOf[via[c]], who[c][2]>> /\ tagOf[via[c]] # Nil
        BY <2>2, <4>1, Tagged DEF GetCounter
      <4>3. own'[n] = who[c]
        BY <3>3
      <4>4. \A m \in Tables, u \in Users : entry[m][u] # n
        <5> SUFFICES ASSUME NEW m \in Tables, NEW u \in Users, entry[m][u] = n PROVE FALSE
          OBVIOUS
        <5>1. n # Nil
          BY TrafficAssumption DEF TrafficAssumption
        <5>2. tagOf[m] \in Tags /\ own[n] = <<tagOf[m], u>>
          BY <5>1 DEF MapPlaced
        <5> QED BY <3>3, <5>2, Tagged
      <4>5. \A m \in Tables, u \in Users :
              \/ m = via[c] /\ u = who[c][2] /\ entry'[m][u] = n
              \/ entry'[m][u] = entry[m][u]
        BY <3>3
      <4>6. \A m \in Tables, u \in Users : entry[m][u] # Nil =>
              own'[entry[m][u]] = own[entry[m][u]]
        BY <3>3, <4>4
      <4> QED BY <3>1, <4>2, <4>3, <4>5, <4>6 DEF MapPlaced
    <3> QED BY <2>2, <3>2, <3>3 DEF GetCounter
  <2>3. CASE ~ StoreTable(c) /\ ~ GetCounter(c)
    BY <1>1, <1>5, <2>3 DEF ConnStep, Connect, Admit, LoadTable, Count, StoreNothing, HangUp, maps
  <2> QED BY <2>1, <2>2, <2>3
<1>6. ASSUME NEW t \in Tags, Reload(t) PROVE MapPlaced'
  BY <1>6, Reloads DEF MapPlaced
<1> QED BY <1>2, <1>3, <1>4, <1>5, <1>6 DEF Next

(* A connection looks its storage up under its own node.                     *)
LEMMA ConnPlacedStep == ASSUME TypeOK, MapPlaced, ConnPlaced, [Next]_vars PROVE ConnPlaced'
<1> USE DEF TypeOK, MapType, ConnType
<1>0. Grows
  BY MapsGrow
<1>1. ASSUME NEW d \in Conns, UNCHANGED via[d],
             UNCHANGED <<who[d], stage[d]>> \/ stage'[d] # "storage"
      PROVE  stage'[d] = "storage" => tagOf'[via'[d]] = who'[d][1]
  BY <1>0, <1>1, Tagged DEF ConnPlaced, Grows
<1>2. CASE UNCHANGED conns \/ UNCHANGED <<stage, who, via, at>>
  BY <1>1, <1>2 DEF conns, ConnPlaced
<1>3. ASSUME NEW c \in Conns, ConnStep(c) PROVE ConnPlaced'
  <2>0. \A d \in Conns : d # c => UNCHANGED <<who[d], via[d], stage[d]>>
    BY <1>3 DEF ConnStep, Connect, Admit, LoadTable, StoreTable, GetCounter, Count, GoesTo,
                StoreNothing, HangUp, conns
  <2>1. SUFFICES stage'[c] = "storage" => tagOf'[via'[c]] = who'[c][1]
    BY <1>1, <2>0 DEF ConnPlaced
  <2>2. CASE LoadTable(c)
    BY <2>2, Tagged DEF LoadTable, MapPlaced, maps
  <2>3. CASE StoreTable(c)
    BY <2>3 DEF StoreTable
  <2>4. CASE GetCounter(c) \/ Count(c)
    BY <2>4 DEF GetCounter, Count, GoesTo, AfterCount
  <2>5. CASE StoreNothing(c)
    BY <2>5, <1>1 DEF StoreNothing, conns
  <2>6. CASE (\E t \in Tags, u \in Users : Connect(c, t, u)) \/ Admit(c) \/ HangUp(c)
    BY <2>6 DEF Connect, Admit, HangUp, GoesTo
  <2> QED BY <1>3, <2>2, <2>3, <2>4, <2>5, <2>6 DEF ConnStep
<1>4. ASSUME NEW r \in Reporters, ReportStep(r) PROVE ConnPlaced'
  BY <1>2, <1>4 DEF ReportStep, BeginReport, Skip, Visit, Reset, Attribute, EndScan, SendOk,
              SendDropped, SendRefused, AnswerLost, ReportOnline, StopReceived
<1>5. ASSUME NEW t \in Tags, NEW u \in Users, UserStep(t, u) PROVE ConnPlaced'
  BY <1>2, <1>5 DEF UserStep, AddUser, DropCounter, DelUser, conns
<1>6. ASSUME NEW t \in Tags, Reload(t) PROVE ConnPlaced'
  BY <1>1, <1>6, Reloads DEF ConnPlaced
<1> QED BY <1>2, <1>3, <1>4, <1>5, <1>6 DEF Next, vars

(* A report scans its own node's map.                                        *)
LEMMA ReportPlacedStep ==
  ASSUME TypeOK, MapPlaced, ReportPlaced, [Next]_vars PROVE ReportPlaced'
<1> USE DEF TypeOK, ReportType
<1> DEFINE Good(q) == Scanning(q)' /\ rtab'[q] # Nil => tagOf'[rtab'[q]] = ReportsFor[q]
<1>0. Grows
  BY MapsGrow
<1>1. ASSUME NEW r \in Reporters, UNCHANGED rtab[r], Scanning(r)' => Scanning(r)
      PROVE  Good(r)
  BY <1>0, <1>1, Tagged DEF ReportPlaced, Grows
<1>2. CASE UNCHANGED <<rp, locals>>
  BY <1>1, <1>2 DEF locals, ReportPlaced, Scanning
<1>3. ASSUME NEW t \in Tags, NEW u \in Users, UserStep(t, u) PROVE ReportPlaced'
  BY <1>2, <1>3 DEF UserStep, AddUser, DropCounter, DelUser
<1>4. ASSUME NEW c \in Conns, ConnStep(c) PROVE ReportPlaced'
  BY <1>2, <1>4 DEF ConnStep, Connect, Admit, LoadTable, StoreTable, GetCounter, Count,
              StoreNothing, HangUp
<1>5. ASSUME NEW r \in Reporters, ReportStep(r) PROVE ReportPlaced'
  <2> USE DEF Goto
  <2>0. \A q \in Reporters : q # r => UNCHANGED <<rtab[q], rp[q]>>
    BY <1>5 DEF ReportStep, BeginReport, Skip, Visit, Reset, Attribute, EndScan, SendOk,
                SendDropped, SendRefused, AnswerLost, AfterFailure, ReportOnline, StopReceived,
                locals
  <2>1. SUFFICES Good(r)
    BY <1>1, <2>0 DEF ReportPlaced, Scanning
  <2>2. CASE BeginReport(r)
    <3>1. rtab'[r] = table[ReportsFor[r]] /\ UNCHANGED tagOf
      BY <2>2 DEF BeginReport, maps
    <3> QED BY <3>1, Tagged DEF MapPlaced
  <2>3. CASE ~ BeginReport(r)
    <3>1. rtab'[r] = rtab[r] \/ ~ Scanning(r)'
      BY <1>5, <2>3 DEF ReportStep, Skip, Visit, Reset, Attribute, EndScan, SendOk, SendDropped,
                        SendRefused, AnswerLost, ReportOnline, StopReceived, Scanning, locals
    <3>2. Scanning(r)' => Scanning(r)
      BY <1>5, <2>3 DEF ReportStep, Skip, Visit, Reset, Attribute, EndScan, SendOk, SendDropped,
                        SendRefused, AnswerLost, AfterFailure, ReportOnline, StopReceived, Scanning
    <3> QED BY <1>1, <3>1, <3>2
  <2> QED BY <2>2, <2>3
<1>6. ASSUME NEW t \in Tags, Reload(t) PROVE ReportPlaced'
  BY <1>1, <1>6, Reloads DEF ReportPlaced, Scanning
<1> QED BY <1>2, <1>3, <1>4, <1>5, <1>6 DEF Next, vars

(* Where things are found does not depend on what is lost or repeated.       *)
THEOREM PlacesHold == Spec => [](MapPlaced /\ ConnPlaced /\ ReportPlaced)
<1>1. Init => MapPlaced /\ ConnPlaced /\ ReportPlaced
  BY DEF Init, MapPlaced, ConnPlaced, ReportPlaced, Scanning
<1>2. TypeOK /\ (MapPlaced /\ ConnPlaced /\ ReportPlaced) /\ [Next]_vars =>
        (MapPlaced /\ ConnPlaced /\ ReportPlaced)'
  BY MapPlacedStep, ConnPlacedStep, ReportPlacedStep
<1> QED BY <1>1, <1>2, TypeCorrect, PTL DEF Spec

-----------------------------------------------------------------------------
(* The books.                                                                *)

(* What one goroutine has taken, or is about to, was moved, and a storage    *)
(* holds none of it from its Store(0) on.  Other goroutines only reset.      *)
LEMMA TakenStep == ASSUME TypeOK, TypeOK', TakenInv, [Next]_vars PROVE TakenInv'
<1> USE DEF TypeOK, CountType, ReportType
<1> DEFINE Fine(q) ==
      /\ \A s \in Storages : taken'[q][s] + val'[s] <= moved'[s]
      /\ rp'[q] = "reset" => taken'[q][src'[q]] + got'[q] <= moved'[src'[q]]
      /\ rp'[q] = "attribute" =>
           taken'[q][src'[q]] + got'[q] + val'[src'[q]] <= moved'[src'[q]]
<1>0. TakenInv' <=> \A q \in Reporters : Fine(q)
  BY DEF TakenInv
<1>1. ASSUME NEW q \in Reporters, UNCHANGED <<taken[q], src[q], got[q], moved>>,
             \A s \in Storages : val'[s] <= val[s],
             rp'[q] = rp[q] \/ rp'[q] \notin {"reset", "attribute"}
      PROVE  Fine(q)
  <2>1. \A s \in Storages : taken[q][s] + val[s] <= moved[s]
    BY DEF TakenInv
  <2>2. rp'[q] \in {"reset", "attribute"} => src[q] \in Storages /\ rp[q] = rp'[q]
    BY <1>1
  <2> QED BY <1>1, <2>1, <2>2 DEF TakenInv
<1>2. CASE UNCHANGED <<val, books, rp, locals>>
  BY <1>0, <1>1, <1>2 DEF books, locals
<1>3. ASSUME NEW t \in Tags, NEW u \in Users, UserStep(t, u) PROVE TakenInv'
  BY <1>2, <1>3 DEF UserStep, AddUser, DropCounter, DelUser
<1>4. ASSUME NEW t \in Tags, Reload(t) PROVE TakenInv'
  <2>1. UNCHANGED <<val, moved, taken, src, got>>
    BY <1>4, Reloads DEF books
  <2>2. \A q \in Reporters : rp'[q] = rp[q] \/ rp'[q] \notin {"reset", "attribute"}
    BY <1>4, Reloads
  <2> QED BY <1>0, <1>1, <2>1, <2>2
<1>5. ASSUME NEW c \in Conns, ConnStep(c) PROVE TakenInv'
  <2>1. CASE Count(c)
    <3>1. at[c] \in Storages
      BY <2>1 DEF Count, ConnType
    <3>2. UNCHANGED <<taken, rp, src, got>> /\ moved' = [moved EXCEPT ![at[c]] = @ + 1]
      BY <2>1 DEF Count, locals
    <3>3. PICK v \in Counted(val[at[c]]) : val' = [val EXCEPT ![at[c]] = v]
      BY <2>1 DEF Count
    <3>4. v <= val[at[c]] + 1
      BY <3>1, <3>3 DEF Counted
    <3>5. \A s \in Storages : \/ val'[s] = val[s] /\ moved'[s] = moved[s]
                              \/ val'[s] <= val[s] + 1 /\ moved'[s] = moved[s] + 1
      BY <3>1, <3>2, <3>3, <3>4
    <3>6. ASSUME NEW q \in Reporters PROVE Fine(q)
      <4>1. \A s \in Storages : taken[q][s] + val[s] <= moved[s]
        BY DEF TakenInv
      <4>2. rp[q] \in {"reset", "attribute"} => src[q] \in Storages
        OBVIOUS
      <4>3. \A s \in Storages : taken'[q][s] + val'[s] <= moved'[s]
        <5> SUFFICES ASSUME NEW s \in Storages PROVE taken[q][s] + val'[s] <= moved'[s]
          BY <3>2
        <5>1. taken[q][s] + val[s] <= moved[s]
          BY <4>1
        <5>2. /\ taken[q][s] \in Nat /\ val[s] \in Nat /\ moved[s] \in Nat
              /\ val'[s] \in Nat /\ moved'[s] \in Nat
          OBVIOUS
        <5> HIDE DEF TypeOK, CountType, ReportType
        <5> QED BY <3>5, <5>1, <5>2
      <4>4. rp'[q] = "reset" => taken'[q][src'[q]] + got'[q] <= moved'[src'[q]]
        BY <3>2, <3>5, <4>2 DEF TakenInv
      <4>5. rp'[q] = "attribute" =>
              taken'[q][src'[q]] + got'[q] + val'[src'[q]] <= moved'[src'[q]]
        <5> SUFFICES ASSUME rp[q] = "attribute"
                     PROVE  taken[q][src[q]] + got[q] + val'[src[q]] <= moved'[src[q]]
          BY <3>2
        <5>1. taken[q][src[q]] + got[q] + val[src[q]] <= moved[src[q]]
          BY DEF TakenInv
        <5>2. /\ taken[q][src[q]] \in Nat /\ got[q] \in Nat
              /\ val[src[q]] \in Nat /\ moved[src[q]] \in Nat
              /\ val'[src[q]] \in Nat /\ moved'[src[q]] \in Nat
          BY <4>2
        <5>3. \/ val'[src[q]] = val[src[q]] /\ moved'[src[q]] = moved[src[q]]
              \/ val'[src[q]] <= val[src[q]] + 1 /\ moved'[src[q]] = moved[src[q]] + 1
          BY <3>5, <4>2
        <5> HIDE DEF TypeOK, CountType, ReportType, TakenInv
        <5>4. CASE val'[src[q]] = val[src[q]] /\ moved'[src[q]] = moved[src[q]]
          BY <5>1, <5>4
        <5>5. CASE val'[src[q]] <= val[src[q]] + 1 /\ moved'[src[q]] = moved[src[q]] + 1
          BY <5>1, <5>2, <5>5
        <5> QED BY <5>3, <5>4, <5>5
      <4> QED BY <4>3, <4>4, <4>5
    <3> QED BY <1>0, <3>6
  <2>2. CASE StoreNothing(c)
    <3>1. at[c] \in Storages
      BY <2>2 DEF StoreNothing, ConnType
    <3> QED BY <1>0, <1>1, <2>2, <3>1 DEF StoreNothing, books, locals
  <2>3. CASE ~ Count(c) /\ ~ StoreNothing(c)
    BY <1>2, <1>5, <2>3 DEF ConnStep, Connect, Admit, LoadTable, StoreTable, GetCounter, HangUp
  <2> QED BY <2>1, <2>2, <2>3
<1>6. ASSUME NEW r \in Reporters, ReportStep(r) PROVE TakenInv'
  <2> USE DEF Goto
  <2>1. ASSUME NEW u \in Users, Visit(r, u) PROVE TakenInv'
    <3>1. \A q \in Reporters : q # r => UNCHANGED <<src[q], got[q], rp[q]>>
      BY <2>1 DEF Visit
    <3>2. UNCHANGED <<val, books>> /\ rp[r] = "scan"
      BY <2>1 DEF Visit
    <3>3. CASE UNCHANGED <<src, got, rp>>
      BY <1>0, <1>1, <3>2, <3>3 DEF books
    <3>4. CASE rp'[r] = "reset" /\ src'[r] \in Storages /\ got'[r] = val[src'[r]]
      <4>1. Fine(r)
        BY <3>2, <3>4 DEF TakenInv, books
      <4> QED BY <1>0, <1>1, <3>1, <3>2, <4>1 DEF books
    <3>5. rtab[r] \in Tables /\ entry[rtab[r]][u] \in Storages
      BY <2>1 DEF Visit, MapType, Scanning
    <3> QED BY <2>1, <3>3, <3>4, <3>5 DEF Visit
  <2>2. CASE Reset(r)
    <3>1. /\ UNCHANGED <<taken, src, got, moved>> /\ src[r] \in Storages
          /\ val' = [val EXCEPT ![src[r]] = 0]
          /\ rp[r] = "reset" /\ rp' = [rp EXCEPT ![r] = "attribute"]
      BY <2>2 DEF Reset, books, locals
    <3>2. Fine(r)
      BY <3>1 DEF TakenInv
    <3>3. \A s \in Storages : val'[s] <= val[s]
      BY <3>1
    <3> QED BY <1>0, <1>1, <3>1, <3>2, <3>3
  <2>3. CASE Attribute(r)
    <3>1. /\ UNCHANGED <<val, moved>> /\ src[r] \in Storages
          /\ rp[r] = "attribute" /\ rp' = [rp EXCEPT ![r] = "scan"]
          /\ \A q \in Reporters : q # r => UNCHANGED <<src[q], got[q], taken[q]>>
      BY <2>3 DEF Attribute
    <3>2. taken'[r] = taken[r] \/ taken'[r] = [taken[r] EXCEPT ![src[r]] = @ + got[r]]
      BY <2>3 DEF Attribute
    <3>3. \A s \in Storages : \/ taken'[r][s] = taken[r][s]
                              \/ s = src[r] /\ taken'[r][s] = taken[r][s] + got[r]
      BY <3>1, <3>2
    <3>4. Fine(r)
      <4>1. \A s \in Storages : taken[r][s] + val[s] <= moved[s]
        BY DEF TakenInv
      <4>2. taken[r][src[r]] + got[r] + val[src[r]] <= moved[src[r]]
        BY <3>1 DEF TakenInv
      <4>3. rp'[r] = "scan" /\ UNCHANGED <<val, moved>>
        BY <3>1
      <4>4. \A s \in Storages : taken'[r][s] + val[s] <= moved[s]
        <5> SUFFICES ASSUME NEW s \in Storages PROVE taken'[r][s] + val[s] <= moved[s]
          OBVIOUS
        <5> QED BY <3>3, <4>1, <4>2
      <4> QED BY <4>3, <4>4
    <3>5. \A q \in Reporters \ {r} : rp'[q] = rp[q] /\ UNCHANGED <<src[q], got[q], taken[q]>>
      BY <3>1
    <3>6. \A q \in Reporters \ {r} : Fine(q)
      BY <1>1, <3>1, <3>5
    <3> QED BY <1>0, <3>4, <3>6
  <2>4. CASE \/ \E u \in Users : Skip(r, u)
             \/ BeginReport(r) \/ StopReceived(r) \/ EndScan(r) \/ SendOk(r) \/ SendDropped(r)
             \/ SendRefused(r) \/ AnswerLost(r) \/ ReportOnline(r)
    <3>1. UNCHANGED <<val, moved, taken, src, got>>
      BY <2>4 DEF BeginReport, StopReceived, Skip, EndScan, SendOk, SendDropped, SendRefused,
                  AnswerLost, ReportOnline, books, locals
    <3>2. \A q \in Reporters : rp'[q] = rp[q] \/ rp'[q] \notin {"reset", "attribute"}
      BY <2>4 DEF BeginReport, StopReceived, Skip, EndScan, SendOk, SendDropped, SendRefused,
                  AnswerLost, AfterFailure, ReportOnline
    <3> QED BY <1>0, <1>1, <3>1, <3>2
  <2> QED BY <1>6, <2>1, <2>2, <2>3, <2>4 DEF ReportStep
<1> QED BY <1>2, <1>3, <1>4, <1>5, <1>6 DEF Next, vars

(* Only a report that is being posted has failed attempts.                   *)
LEMMA UntriedStep == ASSUME TypeOK, Untried, [Next]_vars PROVE Untried'
<1> USE DEF TypeOK, ReportType, Untried
<1>1. CASE UNCHANGED <<rp, locals>>
  BY <1>1 DEF locals
<1>2. ASSUME NEW t \in Tags, NEW u \in Users, UserStep(t, u) PROVE Untried'
  BY <1>1, <1>2 DEF UserStep, AddUser, DropCounter, DelUser
<1>3. ASSUME NEW c \in Conns, ConnStep(c) PROVE Untried'
  BY <1>1, <1>3 DEF ConnStep, Connect, Admit, LoadTable, StoreTable, GetCounter, Count,
              StoreNothing, HangUp
<1>4. ASSUME NEW r \in Reporters, ReportStep(r) PROVE Untried'
  <2> USE DEF Goto
  <2>1. CASE SendDropped(r) \/ AnswerLost(r)
    BY <2>1 DEF SendDropped, AnswerLost, AfterFailure
  <2>2. CASE ReportOnline(r)
    BY <2>2 DEF ReportOnline
  <2>3. CASE ~ SendDropped(r) /\ ~ AnswerLost(r) /\ ~ ReportOnline(r)
    BY <1>4, <2>3 DEF ReportStep, BeginReport, StopReceived, Skip, Visit, Reset, Attribute,
                      EndScan, SendOk, SendRefused, locals
  <2> QED BY <2>1, <2>2, <2>3
<1>5. ASSUME NEW t \in Tags, Reload(t) PROVE Untried'
  BY <1>5, Reloads
<1> QED BY <1>1, <1>2, <1>3, <1>4, <1>5 DEF Next, vars

(* A scan comes to a user once, and finds only storages made for him.        *)
LEMMA SliceStep ==
  ASSUME TypeOK, MapPlaced, ReportPlaced, SliceInv, [Next]_vars PROVE SliceInv'
<1> USE DEF TypeOK, ReportType
<1> DEFINE Fine(q) ==
      /\ ~ Scanning(q)' /\ rp'[q] \notin {"send", "online"} => \A s \in Storages : slice'[q][s] = 0
      /\ Scanning(q)' => \A s \in Storages : slice'[q][s] # 0 =>
           own'[s] # Nil /\ own'[s][2] \notin left'[q]
      /\ rp'[q] \in {"reset", "attribute"} =>
           own'[src'[q]] # Nil /\ own'[src'[q]][2] \notin left'[q] /\ slice'[q][src'[q]] = 0
<1>0. SliceInv' <=> \A q \in Reporters : Fine(q)
  BY DEF SliceInv
<1>g. \A s \in Storages : own[s] # Nil => own'[s] = own[s]
  BY MapsGrow DEF Grows
<1>1. ASSUME NEW q \in Reporters, UNCHANGED <<src[q], slice[q]>>, left'[q] \subseteq left[q],
             \/ rp'[q] = rp[q]
             \/ rp[q] = "reset" /\ rp'[q] = "attribute"
             \/ rp'[q] \in {"send", "online"}
             \/ rp[q] \in {"unborn", "idle"} /\ rp'[q] \in {"idle", "dead"}
      PROVE  Fine(q)
  <2>1. CASE rp'[q] \in {"send", "online"}
    BY <2>1 DEF Scanning
  <2>2. CASE rp[q] \in {"unborn", "idle"} /\ rp'[q] \in {"idle", "dead"}
    BY <1>1, <2>2 DEF SliceInv, Scanning
  <2>3. CASE rp'[q] = rp[q] \/ (rp[q] = "reset" /\ rp'[q] = "attribute")
    <3>1. rp[q] \in {"reset", "attribute"} => src[q] \in Storages
      OBVIOUS
    <3> QED BY <1>1, <1>g, <2>3, <3>1 DEF SliceInv, Scanning
  <2> QED BY <1>1, <2>1, <2>2, <2>3
<1>2. CASE UNCHANGED <<rp, locals>>
  BY <1>0, <1>1, <1>2 DEF locals
<1>3. ASSUME NEW t \in Tags, NEW u \in Users, UserStep(t, u) PROVE SliceInv'
  BY <1>2, <1>3 DEF UserStep, AddUser, DropCounter, DelUser
<1>4. ASSUME NEW c \in Conns, ConnStep(c) PROVE SliceInv'
  BY <1>2, <1>4 DEF ConnStep, Connect, Admit, LoadTable, StoreTable, GetCounter, Count,
              StoreNothing, HangUp
<1>5. ASSUME NEW t \in Tags, Reload(t) PROVE SliceInv'
  BY <1>0, <1>1, <1>5, Reloads
<1>6. ASSUME NEW r \in Reporters, ReportStep(r) PROVE SliceInv'
  <2> USE DEF Goto
  <2>0. \A q \in Reporters \ {r} : UNCHANGED <<rp[q], src[q], slice[q], left[q]>>
    BY <1>6 DEF ReportStep, BeginReport, StopReceived, Skip, Visit, Reset, Attribute, EndScan,
                SendOk, SendDropped, SendRefused, AnswerLost, AfterFailure, ReportOnline, locals
  <2>1. SUFFICES Fine(r)
    BY <1>0, <1>1, <2>0
  <2>2. CASE BeginReport(r)
    <3>1. rp[r] = "idle" /\ rp'[r] = "scan" /\ UNCHANGED slice
      BY <2>2 DEF BeginReport
    <3> QED BY <3>1 DEF SliceInv, Scanning
  <2>3. ASSUME NEW u \in Users, Skip(r, u) PROVE Fine(r)
    BY <1>1, <2>3 DEF Skip
  <2>4. ASSUME NEW u \in Users, Visit(r, u) PROVE Fine(r)
    <3>1. /\ left'[r] = left[r] \ {u} /\ u \in left[r] /\ rp[r] = "scan" /\ UNCHANGED <<slice, own>>
      BY <2>4 DEF Visit, maps
    <3>2. CASE UNCHANGED <<rp, src>>
      BY <1>1, <3>1, <3>2
    <3>3. CASE src'[r] = entry[rtab[r]][u] /\ rp'[r] = "reset"
      <4>1. rtab[r] \in Tables /\ entry[rtab[r]][u] \in Storages /\ entry[rtab[r]][u] # Nil
        BY <2>4, TrafficAssumption DEF Visit, Scanning, MapType, TrafficAssumption
      <4>2. own[src'[r]] = <<tagOf[rtab[r]], u>> /\ tagOf[rtab[r]] \in Tags
        BY <3>3, <4>1 DEF MapPlaced, MapType
      <4>3. own[src'[r]] # Nil /\ own[src'[r]][2] = u
        BY <4>2, Tagged
      <4>4. slice[r][src'[r]] = 0
        BY <3>1, <3>3, <4>1, <4>3 DEF SliceInv, Scanning
      <4>5. \A s \in Storages : slice[r][s] # 0 => own[s] # Nil /\ own[s][2] \notin left[r]
        BY <3>1 DEF SliceInv, Scanning
      <4> QED BY <3>1, <3>3, <4>3, <4>4, <4>5 DEF Scanning
    <3> QED BY <2>4, <3>2, <3>3 DEF Visit
  <2>5. CASE Reset(r) \/ EndScan(r) \/ StopReceived(r) \/ SendOk(r) \/ SendRefused(r)
    BY <1>1, <2>5 DEF Reset, EndScan, StopReceived, SendOk, SendRefused, locals
  <2>6. CASE Attribute(r)
    <3>1. rp[r] = "attribute" /\ rp'[r] = "scan" /\ src[r] \in Storages /\ UNCHANGED <<own, left>>
      BY <2>6 DEF Attribute
    <3>2. \A s \in Storages : slice'[r][s] = slice[r][s] \/ s = src[r]
      BY <2>6 DEF Attribute
    <3> QED BY <3>1, <3>2 DEF SliceInv, Scanning
  <2>7. CASE SendDropped(r) \/ AnswerLost(r)
    BY <1>1, <2>7 DEF SendDropped, AnswerLost, AfterFailure
  <2>8. CASE ReportOnline(r)
    BY <2>8 DEF ReportOnline, Scanning
  <2> QED BY <1>6, <2>2, <2>3, <2>4, <2>5, <2>6, <2>7, <2>8 DEF ReportStep
<1> QED BY <1>2, <1>3, <1>4, <1>5, <1>6 DEF Next, vars

(* The books' invariant.                                                     *)
BooksInv == TakenInv /\ Untried /\ SliceInv

LEMMA BooksInvHolds == Spec => []BooksInv
<1>1. TypeOK /\ Init => BooksInv
  BY DEF Init, BooksInv, TakenInv, Untried, SliceInv, Scanning
<1>2. TypeOK /\ TypeOK' /\ (MapPlaced /\ ConnPlaced /\ ReportPlaced) /\ BooksInv /\ [Next]_vars
        => BooksInv'
  BY TakenStep, UntriedStep, SliceStep DEF BooksInv
<1> QED BY <1>1, <1>2, TypeCorrect, PlacesHold, PTL DEF Spec

(* The attempts left, and what they are left for.                            *)
LEMMA Hands ==
  ASSUME TypeOK, NEW r \in Reporters
  PROVE  /\ Attempts \in Nat \ {0} /\ AttemptsLeft(r) \in 1 .. Attempts
         /\ InHand(r) \in [Storages -> Nat]
         /\ rp[r] # "online" => InHand(r) = slice[r]
         /\ rp[r] = "online" => AttemptsLeft(r) = Attempts /\ InHand(r) = [s \in Storages |-> 0]
         /\ tries[r] = 0 => AttemptsLeft(r) = Attempts
<1>1. tries[r] \in 0 .. Retries /\ Retries \in Nat /\ slice[r] \in [Storages -> Nat]
  BY TrafficAssumption DEF TypeOK, ReportType, TrafficAssumption
<1> QED BY <1>1 DEF Attempts, AttemptsLeft, InHand

(* A failed or successful post spends an attempt, or is the end of the       *)
(* report.  When posts are lost and answers are not, all of them are one.    *)
LEMMA Posts ==
  ASSUME TypeOK, TypeOK', NEW r \in Reporters, rp[r] = "send", UNCHANGED slice,
         \/ AfterFailure(r)
         \/ rp' = [rp EXCEPT ![r] = "online"] /\ UNCHANGED tries
  PROVE  /\ \A q \in Reporters \ {r} : UNCHANGED <<rp[q], tries[q]>>
         /\ \/ /\ "answer" \in Faults /\ AttemptsLeft(r) > 1
               /\ AttemptsLeft(r)' = AttemptsLeft(r) - 1 /\ InHand(r)' = InHand(r)
            \/ "answer" \notin Faults /\ AttemptsLeft(r)' = AttemptsLeft(r) /\ InHand(r)' = InHand(r)
            \/ AttemptsLeft(r)' = Attempts /\ InHand(r)' = [s \in Storages |-> 0]
<1> USE DEF TypeOK, ReportType
<1>1. \A q \in Reporters \ {r} : UNCHANGED <<rp[q], tries[q]>>
  BY DEF AfterFailure, Goto
<1>2. CASE rp'[r] = "online"
  BY <1>1, <1>2 DEF AttemptsLeft, InHand
<1>3. CASE rp'[r] = rp[r] /\ tries[r] < Retries /\ tries'[r] = tries[r] + 1
  <2>1. InHand(r)' = InHand(r)
    BY <1>3 DEF InHand
  <2>2. CASE "answer" \in Faults
    <3>1. tries[r] \in Nat /\ Retries \in Nat
      BY TrafficAssumption DEF TrafficAssumption
    <3>2. AttemptsLeft(r) = (Retries + 1) - tries[r] /\ AttemptsLeft(r)' = (Retries + 1) - (tries[r] + 1)
      BY <1>3, <2>2 DEF AttemptsLeft, Attempts
    <3> QED BY <1>1, <1>3, <2>1, <2>2, <3>1, <3>2
  <2>3. CASE "answer" \notin Faults
    BY <1>1, <2>1, <2>3 DEF AttemptsLeft
  <2> QED BY <2>2, <2>3
<1> QED BY <1>2, <1>3 DEF AfterFailure, Goto

(* Nothing of a report changes for the ledger.                               *)
Same(q) == AttemptsLeft(q)' = AttemptsLeft(q) /\ InHand(q)' = InHand(q)

LEMMA Sames ==
  ASSUME NEW q \in Reporters, UNCHANGED <<tries[q], slice[q]>>,
         rp'[q] = rp[q] \/ (rp[q] # "online" /\ rp'[q] # "online")
  PROVE  Same(q)
BY DEF Same, AttemptsLeft, InHand

(* Count is the ledger's Move, Attribute its Take, an attempt to post its    *)
(* Post; what else connections, reports, users and reloads do is no step.    *)
LEMMA LedgerStep ==
  ASSUME TypeOK, TypeOK', BooksInv, [Next]_vars
  PROVE  [TheLedger!Next]_(TheLedger!vars)
<1> USE DEF BooksInv
<1>q. ASSUME UNCHANGED books, \A q \in Reporters : Same(q) PROVE UNCHANGED TheLedger!vars
  BY <1>q DEF books, Same, TheLedger!vars
<1>1. CASE UNCHANGED <<books, rp, locals>>
  BY <1>1, <1>q, Sames DEF locals
<1>2. ASSUME NEW t \in Tags, NEW u \in Users, UserStep(t, u) PROVE UNCHANGED TheLedger!vars
  BY <1>1, <1>2, <1>q, Sames DEF UserStep, AddUser, DropCounter, DelUser, locals
<1>3. ASSUME NEW t \in Tags, Reload(t) PROVE UNCHANGED TheLedger!vars
  <2>1. \A q \in Reporters : UNCHANGED <<tries[q], slice[q]>>
    BY <1>3, Reloads
  <2>2. \A q \in Reporters : rp'[q] = rp[q] \/ (rp[q] # "online" /\ rp'[q] # "online")
    BY <1>3, Reloads
  <2> QED BY <1>3, <1>q, <2>1, <2>2, Reloads, Sames
<1>4. ASSUME NEW c \in Conns, ConnStep(c) PROVE [TheLedger!Next]_(TheLedger!vars)
  <2>1. CASE Count(c)
    <3>1. at[c] \in Storages /\ moved' = [moved EXCEPT ![at[c]] = @ + 1] /\ UNCHANGED <<taken, billed>>
      BY <2>1 DEF Count, TypeOK, ConnType
    <3>2. \A q \in Reporters : Same(q)
      BY <2>1, Sames DEF Count, locals
    <3>3. TheLedger!Move(at[c])
      BY <3>1, <3>2 DEF TheLedger!Move, Same
    <3> QED BY <3>1, <3>3 DEF TheLedger!Next
  <2>2. CASE ~ Count(c)
    <3>1. UNCHANGED <<books, rp, locals>>
      BY <1>4, <2>2 DEF ConnStep, Connect, Admit, LoadTable, StoreTable, GetCounter, StoreNothing,
                        HangUp
    <3> QED BY <1>q, <3>1, Sames DEF locals
  <2> QED BY <2>1, <2>2
<1>5. ASSUME NEW r \in Reporters, ReportStep(r) PROVE [TheLedger!Next]_(TheLedger!vars)
  <2> USE DEF Goto
  <2>1. CASE Attribute(r)
    <3>1. /\ rp[r] = "attribute" /\ rp' = [rp EXCEPT ![r] = "scan"] /\ UNCHANGED <<tries, moved, billed>>
          /\ src[r] \in Storages /\ got[r] \in Nat
      BY <2>1 DEF Attribute, TypeOK, ReportType
    <3>2. \A q \in Reporters \ {r} : Same(q)
      <4>1. \A q \in Reporters \ {r} : UNCHANGED <<rp[q], tries[q], slice[q]>>
        BY <2>1, <3>1 DEF Attribute, TypeOK, ReportType
      <4> QED BY <4>1, Sames
    <3>3. AttemptsLeft(r) = Attempts /\ AttemptsLeft(r)' = Attempts
      BY <3>1, Hands DEF Untried, AttemptsLeft
    <3>4. InHand(r) = slice[r] /\ InHand(r)' = slice'[r]
      BY <3>1, Hands DEF TypeOK, ReportType, InHand
    <3>5. CASE UNCHANGED <<slice, taken>>
      <4>1. UNCHANGED books /\ \A q \in Reporters : Same(q)
        BY <3>1, <3>2, <3>3, <3>4, <3>5 DEF Same, books
      <4> QED BY <1>q, <4>1
    <3>6. CASE /\ slice' = [slice EXCEPT ![r][src[r]] = got[r]]
               /\ taken' = [taken EXCEPT ![r][src[r]] = @ + got[r]]
      <4>1. slice[r][src[r]] = 0
        BY <3>1 DEF SliceInv
      <4>2. CASE got[r] = 0
        <5>1. UNCHANGED <<slice, taken>>
          BY <3>1, <3>6, <4>1, <4>2 DEF TypeOK, ReportType, CountType
        <5> QED BY <3>5, <5>1
      <4>3. CASE got[r] # 0
        <5>1. got[r] \in 1 .. moved[src[r]] - taken[r][src[r]]
          <6>1. taken[r][src[r]] + got[r] + val[src[r]] <= moved[src[r]]
            BY <3>1 DEF TakenInv
          <6>2. taken[r][src[r]] \in Nat /\ val[src[r]] \in Nat /\ moved[src[r]] \in Nat
            BY <3>1 DEF TypeOK, CountType
          <6> QED BY <3>1, <4>3, <6>1, <6>2
        <5>2. slice'[r] = [slice[r] EXCEPT ![src[r]] = got[r]]
          BY <3>6 DEF TypeOK, ReportType
        <5>3. [q \in Reporters |-> InHand(q)]' = [[q \in Reporters |-> InHand(q)] EXCEPT ![r][src[r]] = got[r]]
          BY <3>2, <3>4, <5>2 DEF Same
        <5>4. [q \in Reporters |-> AttemptsLeft(q)]' = [q \in Reporters |-> AttemptsLeft(q)]
          BY <3>2, <3>3 DEF Same
        <5>5. TheLedger!Take(r, src[r])
          BY <3>1, <3>3, <3>4, <3>6, <4>1, <5>1, <5>3, <5>4 DEF TheLedger!Take
        <5> QED BY <3>1, <5>5 DEF TheLedger!Next
      <4> QED BY <4>2, <4>3
    <3> QED BY <2>1, <3>5, <3>6 DEF Attribute
  <2>2. ASSUME rp[r] = "send", UNCHANGED <<slice, moved, taken>>,
               \/ AfterFailure(r)
               \/ rp' = [rp EXCEPT ![r] = "online"] /\ UNCHANGED tries,
               \/ UNCHANGED billed
               \/ billed' = Booked(r) /\ ("answer" \in Faults \/ rp'[r] = "online")
        PROVE  [TheLedger!Next]_(TheLedger!vars)
    <3>1. \A q \in Reporters \ {r} : Same(q)
      BY <2>2, Posts, Sames
    <3>2. InHand(r) = slice[r]
      BY <2>2, Hands
    <3>3. \/ UNCHANGED billed
          \/ billed' = [billed EXCEPT ![r] = [s \in Storages |-> @[s] + InHand(r)[s]]]
      BY <2>2, <3>2 DEF Booked
    <3>4. CASE AttemptsLeft(r) > 1 /\ AttemptsLeft(r)' = AttemptsLeft(r) - 1 /\ InHand(r)' = InHand(r)
      <4>1. TheLedger!Post(r)
        BY <2>2, <3>1, <3>3, <3>4 DEF TheLedger!Post, Same
      <4> QED BY <4>1 DEF TheLedger!Next
    <3>5. CASE AttemptsLeft(r)' = Attempts /\ InHand(r)' = [s \in Storages |-> 0]
      <4>1. TheLedger!Post(r)
        BY <2>2, <3>1, <3>3, <3>5 DEF TheLedger!Post, TheLedger!Nothing, Same
      <4> QED BY <4>1 DEF TheLedger!Next
    <3>6. CASE "answer" \notin Faults /\ AttemptsLeft(r)' = AttemptsLeft(r) /\ InHand(r)' = InHand(r)
      <4>1. CASE UNCHANGED billed
        BY <1>q, <2>2, <3>1, <3>6, <4>1 DEF Same, books
      <4>2. CASE rp'[r] = "online"
        <5>1. InHand(r)' = [s \in Storages |-> 0] /\ AttemptsLeft(r)' = Attempts
          BY <4>2 DEF InHand, AttemptsLeft
        <5> QED BY <3>5, <5>1
      <4> QED BY <2>2, <3>6, <4>1, <4>2
    <3> QED BY <2>2, <3>4, <3>5, <3>6, Posts
  <2>3. CASE SendOk(r) \/ SendRefused(r)
    BY <2>2, <2>3 DEF SendOk, SendRefused, TypeOK, ReportType, locals, books
  <2>4. CASE SendDropped(r) \/ AnswerLost(r)
    BY <2>2, <2>4 DEF SendDropped, AnswerLost, books
  <2>5. CASE ReportOnline(r)
    <3>1. rp[r] = "online" /\ rp'[r] = "idle" /\ tries'[r] = 0 /\ slice'[r] = [s \in Storages |-> 0]
      BY <2>5 DEF ReportOnline, TypeOK, ReportType
    <3>2. Same(r)
      BY <3>1, Hands DEF Same, AttemptsLeft, InHand
    <3>3. \A q \in Reporters \ {r} : UNCHANGED <<rp[q], tries[q], slice[q]>>
      BY <2>5 DEF ReportOnline, TypeOK, ReportType
    <3> QED BY <1>q, <2>5, <3>2, <3>3, Sames DEF ReportOnline
  <2>6. CASE EndScan(r)
    <3>1. rp[r] = "scan" /\ UNCHANGED <<books, slice, tries>>
          /\ rp' = [rp EXCEPT ![r] = IF InSlice(r) = {} THEN "online" ELSE "send"]
      BY <2>6 DEF EndScan, locals
    <3>2. \A q \in Reporters \ {r} : Same(q)
      BY <3>1, Sames DEF TypeOK, ReportType
    <3>3. InSlice(r) = {} => slice[r] = [s \in Storages |-> 0]
      BY DEF InSlice, TypeOK, ReportType
    <3>4. AttemptsLeft(r) = Attempts /\ InHand(r) = slice[r]
      BY <3>1, Hands DEF Untried
    <3>5. Same(r)
      <4>1. CASE InSlice(r) = {}
        BY <3>1, <3>3, <3>4, <4>1 DEF Same, AttemptsLeft, InHand, TypeOK, ReportType
      <4>2. CASE InSlice(r) # {}
        BY <3>1, <4>2, Sames DEF TypeOK, ReportType
      <4> QED BY <4>1, <4>2
    <3> QED BY <1>q, <3>1, <3>2, <3>5
  <2>7. CASE \/ \E u \in Users : Skip(r, u) \/ Visit(r, u)
             \/ BeginReport(r) \/ StopReceived(r) \/ Reset(r)
    <3>1. UNCHANGED <<books, slice, tries>>
      BY <2>7 DEF Skip, Visit, BeginReport, StopReceived, Reset, books, locals
    <3>2. \A q \in Reporters : rp'[q] = rp[q] \/ (rp[q] # "online" /\ rp'[q] # "online")
      BY <2>7 DEF Skip, Visit, BeginReport, StopReceived, Reset, TypeOK, ReportType
    <3> QED BY <1>q, <3>1, <3>2, Sames
  <2> QED BY <1>5, <2>1, <2>3, <2>4, <2>5, <2>6, <2>7 DEF ReportStep
<1> QED BY <1>1, <1>2, <1>3, <1>4, <1>5, <1>q, Sames DEF Next, vars, locals

(* Traffic accounting implements the ledger: no report goroutine puts a byte *)
(* into two reports, nor one that was not moved, whatever connections add    *)
(* between its Load and its Store(0), whatever other goroutines of a         *)
(* restarted task reset, and whatever users and nodes come and go.           *)
THEOREM LedgerImplemented == Spec => ImplementsLedger
<1>1. TypeOK /\ Init => TheLedger!Init
  <2> SUFFICES ASSUME TypeOK, Init PROVE TheLedger!Init
    OBVIOUS
  <2>1. \A r \in Reporters : AttemptsLeft(r) = Attempts /\ InHand(r) = [s \in Storages |-> 0]
    BY Hands DEF Init, InHand
  <2> QED BY <2>1 DEF Init, TheLedger!Init, TheLedger!Nothing
<1> QED BY <1>1, LedgerStep, BooksInvHolds, TypeCorrect, PTL
        DEF Spec, ImplementsLedger, TheLedger!Spec

(* What was booked from a report goroutine, and may be from what it has in   *)
(* hand, is its attempts' worth of what it has taken, at most.               *)
LEMMA BookedStep ==
  ASSUME TypeOK, TypeOK', BookedInv, [TheLedger!Next]_(TheLedger!vars)
  PROVE  BookedInv'
<1> DEFINE Fits(b, l, h, t) == b + l * h <= Attempts * t
<1>0. /\ Attempts \in Nat \ {0}
      /\ \A r \in Reporters : AttemptsLeft(r) \in 1 .. Attempts /\ AttemptsLeft(r)' \in 1 .. Attempts
      /\ \A r \in Reporters, s \in Storages :
           /\ billed[r][s] \in Nat /\ taken[r][s] \in Nat /\ InHand(r)[s] \in Nat
           /\ billed'[r][s] \in Nat /\ taken'[r][s] \in Nat /\ InHand(r)'[s] \in Nat
  <2>1. Attempts \in Nat \ {0}
    BY TrafficAssumption DEF Attempts, TrafficAssumption
  <2>2. ASSUME NEW r \in Reporters
        PROVE  AttemptsLeft(r)' \in 1 .. Attempts /\ InHand(r)' \in [Storages -> Nat]
    <3>1. tries'[r] \in 0 .. Retries /\ Retries \in Nat /\ slice'[r] \in [Storages -> Nat]
      BY TrafficAssumption DEF TypeOK, ReportType, TrafficAssumption
    <3> QED BY <3>1 DEF Attempts, AttemptsLeft, InHand
  <2> QED BY <2>1, <2>2, Hands DEF TypeOK, CountType
<1>1. ASSUME NEW l \in Int, NEW h \in Int PROVE (l - 1) * h + h = l * h
  BY <1>1
<1>2. ASSUME NEW k \in Int, NEW m \in Int, NEW n \in Int PROVE k * (m + n) = k * m + k * n
  BY <1>2
<1>3. ASSUME NEW l \in Nat \ {0}, NEW h \in Nat PROVE h <= l * h
  <2>1. (l - 1) * h \in Nat
    BY <1>3
  <2> QED BY <1>1, <2>1
<1>4. SUFFICES ASSUME NEW r \in Reporters, NEW s \in Storages
               PROVE  Fits(billed'[r][s], AttemptsLeft(r)', InHand(r)'[s], taken'[r][s])
  BY DEF BookedInv
<1>5. Fits(billed[r][s], AttemptsLeft(r), InHand(r)[s], taken[r][s])
  BY DEF BookedInv
<1>6. CASE /\ billed'[r] = billed[r] /\ taken'[r] = taken[r]
           /\ AttemptsLeft(r)' = AttemptsLeft(r) /\ InHand(r)' = InHand(r)
  BY <1>5, <1>6
<1>7. CASE UNCHANGED TheLedger!vars
  BY <1>6, <1>7 DEF TheLedger!vars
<1>8. ASSUME NEW a \in Storages, TheLedger!Move(a)
      PROVE  /\ billed'[r] = billed[r] /\ taken'[r] = taken[r]
             /\ AttemptsLeft(r)' = AttemptsLeft(r) /\ InHand(r)' = InHand(r)
  BY <1>8 DEF TheLedger!Move
<1>9. ASSUME NEW q \in Reporters, NEW a \in Storages, TheLedger!Take(q, a)
      PROVE  Fits(billed'[r][s], AttemptsLeft(r)', InHand(r)'[s], taken'[r][s])
  <2>1. PICK n \in 1 .. moved[a] - taken[q][a] :
          /\ taken' = [taken EXCEPT ![q][a] = @ + n]
          /\ [p \in Reporters |-> InHand(p)]' = [[p \in Reporters |-> InHand(p)] EXCEPT ![q][a] = n]
    BY <1>9 DEF TheLedger!Take
  <2>2. billed' = billed /\ AttemptsLeft(r)' = AttemptsLeft(r)
        /\ AttemptsLeft(q) = Attempts /\ InHand(q)[a] = 0
    BY <1>9 DEF TheLedger!Take
  <2>3. CASE q = r /\ a = s
    <3>1. taken'[r][s] = taken[r][s] + n /\ InHand(r)'[s] = n
      <4>1. InHand(r)' = [InHand(r) EXCEPT ![s] = n]
        BY <2>1, <2>3
      <4> QED BY <2>1, <2>3, <4>1, Hands DEF TypeOK, CountType
    <3>2. n \in Int
      BY <1>0, <2>1 DEF TypeOK, CountType
    <3>3. Attempts * (taken[r][s] + n) = Attempts * taken[r][s] + Attempts * n
      BY <1>0, <1>2, <3>2
    <3>4. billed[r][s] <= Attempts * taken[r][s]
      BY <1>0, <1>5, <2>2, <2>3
    <3>5. Attempts * taken[r][s] \in Int /\ Attempts * n \in Int
      BY <1>0, <3>2
    <3> QED BY <1>0, <2>2, <2>3, <3>1, <3>3, <3>4, <3>5
  <2>4. CASE ~ (q = r /\ a = s)
    <3>1. InHand(r)' = IF q = r THEN [InHand(r) EXCEPT ![a] = n] ELSE InHand(r)
      BY <2>1
    <3>2. taken'[r][s] = taken[r][s] /\ InHand(r)'[s] = InHand(r)[s]
      BY <2>1, <2>4, <3>1, Hands DEF TypeOK, CountType
    <3> QED BY <1>5, <2>2, <3>2
  <2> QED BY <2>3, <2>4
<1>10. ASSUME NEW q \in Reporters, TheLedger!Post(q)
       PROVE  Fits(billed'[r][s], AttemptsLeft(r)', InHand(r)'[s], taken'[r][s])
  <2>1. taken' = taken
        /\ \/ billed' = billed
           \/ billed' = [billed EXCEPT ![q] = [a \in Storages |-> @[a] + InHand(q)[a]]]
    BY <1>10 DEF TheLedger!Post
  <2>2. \/ /\ AttemptsLeft(q) > 1
           /\ [p \in Reporters |-> AttemptsLeft(p)]' =
                [[p \in Reporters |-> AttemptsLeft(p)] EXCEPT ![q] = AttemptsLeft(q) - 1]
           /\ [p \in Reporters |-> InHand(p)]' = [p \in Reporters |-> InHand(p)]
        \/ /\ [p \in Reporters |-> AttemptsLeft(p)]' =
                [[p \in Reporters |-> AttemptsLeft(p)] EXCEPT ![q] = Attempts]
           /\ [p \in Reporters |-> InHand(p)]' =
                [[p \in Reporters |-> InHand(p)] EXCEPT ![q] = [a \in Storages |-> 0]]
    BY <1>10 DEF TheLedger!Post, TheLedger!Nothing
  <2>3. CASE q = r
    <3>1. billed'[r][s] = billed[r][s] \/ billed'[r][s] = billed[r][s] + InHand(r)[s]
      BY <2>1, <2>3 DEF TypeOK, CountType
    <3>2. AttemptsLeft(r) * InHand(r)[s] \in Nat /\ Attempts * taken[r][s] \in Nat
      BY <1>0
    <3>3. CASE AttemptsLeft(r)' = AttemptsLeft(r) - 1 /\ InHand(r)' = InHand(r)
      <4>1. (AttemptsLeft(r) - 1) * InHand(r)[s] + InHand(r)[s] = AttemptsLeft(r) * InHand(r)[s]
        BY <1>0, <1>1
      <4>2. (AttemptsLeft(r) - 1) * InHand(r)[s] \in Int
        BY <1>0
      <4> QED BY <1>0, <1>5, <2>1, <3>1, <3>2, <3>3, <4>1, <4>2
    <3>4. CASE InHand(r)' = [a \in Storages |-> 0]
      <4>1. InHand(r)[s] <= AttemptsLeft(r) * InHand(r)[s]
        BY <1>0, <1>3
      <4>2. AttemptsLeft(r)' * InHand(r)'[s] = 0
        BY <1>0, <3>4
      <4> QED BY <1>0, <1>5, <2>1, <3>1, <3>2, <4>1, <4>2
    <3> QED BY <2>2, <2>3, <3>3, <3>4
  <2>4. CASE q # r
    <3>1. billed'[r] = billed[r]
      BY <2>1, <2>4 DEF TypeOK, CountType
    <3>2. AttemptsLeft(r)' = AttemptsLeft(r)
      BY <2>2, <2>4
    <3>3. InHand(r)' = InHand(r)
      BY <2>2, <2>4
    <3> QED BY <1>6, <2>1, <3>1, <3>2, <3>3
  <2> QED BY <2>3, <2>4
<1> QED BY <1>6, <1>7, <1>8, <1>9, <1>10 DEF TheLedger!Next

(* The HTTP client posts a report again when it fails, and the panel may     *)
(* have booked what failed: still no byte is booked more often, of one       *)
(* report goroutine, than the client tries; without lost answers, once.      *)
THEOREM RepeatsBoundedHolds == Spec => []RepeatsBounded
<1>1. TypeOK /\ Init => BookedInv
  <2> SUFFICES ASSUME TypeOK, Init, NEW r \in Reporters, NEW s \in Storages
               PROVE  billed[r][s] + AttemptsLeft(r) * InHand(r)[s] <= Attempts * taken[r][s]
    BY DEF BookedInv
  <2>1. billed[r][s] = 0 /\ InHand(r)[s] = 0 /\ taken[r][s] = 0
    BY DEF Init, InHand
  <2> QED BY <2>1, Hands
<1>2. Spec => []BookedInv
  BY <1>1, LedgerStep, BookedStep, BooksInvHolds, TypeCorrect, PTL DEF Spec
<1>3. TypeOK /\ BooksInv /\ BookedInv => RepeatsBounded
  <2> SUFFICES ASSUME TypeOK, BooksInv, BookedInv, NEW r \in Reporters, NEW s \in Storages
               PROVE  billed[r][s] <= Attempts * moved[s]
    BY DEF RepeatsBounded
  <2>1. Attempts \in Nat /\ AttemptsLeft(r) \in Nat /\ InHand(r)[s] \in Nat
    BY Hands
  <2>2. billed[r][s] \in Nat /\ taken[r][s] \in Nat /\ moved[s] \in Nat /\ val[s] \in Nat
    BY DEF TypeOK, CountType
  <2>3. taken[r][s] <= moved[s]
    BY <2>2 DEF BooksInv, TakenInv
  <2>4. billed[r][s] + AttemptsLeft(r) * InHand(r)[s] <= Attempts * taken[r][s]
    BY DEF BookedInv
  <2>5. AttemptsLeft(r) * InHand(r)[s] \in Nat /\ Attempts * taken[r][s] \in Nat
    BY <2>1, <2>2
  <2>6. Attempts * moved[s] = Attempts * taken[r][s] + Attempts * (moved[s] - taken[r][s])
        /\ Attempts * (moved[s] - taken[r][s]) \in Nat
    BY <2>1, <2>2, <2>3
  <2> QED BY <2>2, <2>4, <2>5, <2>6
<1> QED BY <1>2, <1>3, BooksInvHolds, TypeCorrect, PTL

-----------------------------------------------------------------------------
(* Counters in use.                                                          *)

(* A node's users have uids, though users come and go.                       *)
LEMMA KnownStep == ASSUME OwnUids, TypeOK, Known, [Next]_vars PROVE Known'
<1> USE DEF Known
<1>1. CASE UNCHANGED users
  BY <1>1 DEF users, Key
<1>2. ASSUME NEW t \in Tags, NEW u \in Users, UserStep(t, u) PROVE Known'
  <2>1. core' = core /\ served \in [Tags -> SUBSET Users]
    BY <1>2 DEF UserStep, AddUser, DropCounter, DelUser, TypeOK, UserType
  <2>2. \A q \in Tags, v \in Users : Key(q, v)' = Key(q, v)
    BY <2>1 DEF Key
  <2>3. CASE AddUser(t, u)
    <3>1. \A q \in Tags, v \in Users : v \in served'[q] => v \in served[q] \/ (q = t /\ v = u)
      BY <2>1, <2>3 DEF AddUser
    <3> QED BY <2>2, <2>3, <3>1 DEF AddUser
  <2>4. CASE DropCounter(t, u)
    BY <2>2, <2>4 DEF DropCounter
  <2>5. CASE DelUser(t, u)
    <3>1. \A q \in Tags, v \in Users : v \in served'[q] => v \in served[q] /\ (q # t \/ v # u)
      BY <2>1, <2>5 DEF DelUser
    <3>2. \A q \in Tags, v \in Users : Key(q, v) = Key(t, u) => q = t /\ v = u
      BY DEF OwnUids, Key, TypeOK, UserType
    <3> QED BY <2>2, <2>5, <3>1, <3>2 DEF DelUser
  <2> QED BY <1>2, <2>3, <2>4, <2>5 DEF UserStep
<1>3. ASSUME NEW c \in Conns, ConnStep(c) PROVE Known'
  BY <1>1, <1>3 DEF ConnStep, Connect, Admit, LoadTable, StoreTable, GetCounter, Count,
              StoreNothing, HangUp
<1>4. ASSUME NEW r \in Reporters, ReportStep(r) PROVE Known'
  BY <1>1, <1>4 DEF ReportStep, BeginReport, Skip, Visit, Reset, Attribute, EndScan, SendOk,
              SendDropped, SendRefused, AnswerLost, ReportOnline, StopReceived
<1>5. ASSUME NEW t \in Tags, Reload(t) PROVE Known'
  <2>1. core' = core /\ served \in [Tags -> SUBSET Users]
    BY <1>5 DEF Reload, RenewNode, FinishReload, TypeOK, UserType
  <2>2. \A q \in Tags, v \in Users : Key(q, v)' = Key(q, v)
    BY <2>1 DEF Key
  <2>3. CASE RenewNode(t)
    <3>1. uids' = uids /\ \A q \in Tags : served'[q] \subseteq served[q]
      BY <2>1, <2>3 DEF RenewNode, CloseServer
    <3> QED BY <2>2, <3>1
  <2>4. CASE FinishReload(t)
    <3>1. PICK list \in SUBSET Users : /\ served' = [served EXCEPT ![t] = @ \cup list]
                                       /\ uids' = uids \cup {Key(t, v) : v \in list}
      BY <2>4 DEF FinishReload
    <3>2. \A q \in Tags, v \in Users : v \in served'[q] => v \in served[q] \/ (q = t /\ v \in list)
      BY <2>1, <3>1
    <3> QED BY <2>2, <3>1, <3>2
  <2> QED BY <1>5, <2>3, <2>4 DEF Reload
<1> QED BY <1>1, <1>2, <1>3, <1>4, <1>5 DEF Next, vars

(* Neither DelUsers, nor hy2's deletion of a counter before its user, nor a  *)
(* report that meets a counter without a uid, takes the counter of a user    *)
(* who stays: what he moves goes on to be billed.                            *)
THEOREM KeptWhileServedHolds == ASSUME OwnUids PROVE Spec => KeptWhileServed
<1> DEFINE Kept == \A t \in Tags, u \in Users :
        /\ table[t] # Nil /\ table'[t] = table[t]
        /\ entry[table[t]][u] # Nil /\ entry'[table[t]][u] = Nil
        => u \notin served'[t] \/ <<t, u>> \in dropping'
<1>1. Spec => []Known
  <2>1. Init => Known
    BY DEF Init, Known, Key
  <2> QED BY <2>1, KnownStep, TypeCorrect, PTL DEF Spec
<1>2. TypeOK /\ Known /\ MapPlaced /\ ConnPlaced /\ ReportPlaced /\ [Next]_vars => Kept
  <2> SUFFICES ASSUME TypeOK, Known, MapPlaced, ReportPlaced, [Next]_vars PROVE Kept
    OBVIOUS
  <2> USE DEF TypeOK, MapType
  <2>1. CASE UNCHANGED entry
    BY <2>1
  <2>2. ASSUME NEW t \in Tags, NEW u \in Users, UserStep(t, u) PROVE Kept
    <3>1. CASE UNCHANGED entry
      BY <3>1
    <3>2. CASE entry' = WithoutEntry(t, u) /\ table[t] # Nil /\ entry' # entry
      <4>1. u \notin served'[t] \/ <<t, u>> \in dropping'
        BY <2>2, <3>2 DEF UserStep, AddUser, DropCounter, DelUser, UserType, maps
      <4>2. ASSUME NEW q \in Tags, NEW v \in Users, table[q] # Nil, entry[table[q]][v] # Nil,
                   entry'[table[q]][v] = Nil
            PROVE  q = t /\ v = u
        <5>1. table[q] = table[t] /\ v = u
          BY <3>2, <4>2 DEF WithoutEntry
        <5> QED BY <3>2, <5>1 DEF MapPlaced
      <4> QED BY <4>1, <4>2
    <3> QED BY <2>2, <3>1, <3>2 DEF UserStep, AddUser, DropCounter, DelUser, WithoutEntry, maps
  <2>3. ASSUME NEW c \in Conns, ConnStep(c) PROVE Kept
    <3>1. CASE GetCounter(c)
      <4>1. \A n \in Storages : n # Nil
        BY TrafficAssumption DEF TrafficAssumption
      <4>2. ASSUME NEW n \in Storages, NEW m, NEW v, entry' = [entry EXCEPT ![m][v] = n]
            PROVE  Kept
        BY <4>1, <4>2
      <4> QED BY <2>1, <3>1, <4>2 DEF GetCounter
    <3>2. CASE ~ GetCounter(c)
      BY <2>1, <2>3, <3>2 DEF ConnStep, Connect, Admit, LoadTable, StoreTable, Count,
                              StoreNothing, HangUp, maps
    <3> QED BY <3>1, <3>2
  <2>4. ASSUME NEW r \in Reporters, ReportStep(r) PROVE Kept
    <3>1. CASE Attribute(r)
      <4>1. /\ rp[r] = "attribute" /\ UNCHANGED <<core, served, uids>>
            /\ rtab[r] \in Tables /\ cur[r] \in Users
        BY <3>1 DEF Attribute, users, ReportType
      <4>2. tagOf[rtab[r]] = ReportsFor[r]
        BY <4>1, TrafficAssumption DEF ReportPlaced, Scanning, TrafficAssumption
      <4>3. CASE entry' = [entry EXCEPT ![rtab[r]][cur[r]] = Nil]
                 /\ ~ KnownTo(ReportsFor[r], cur[r])
        <5>1. cur[r] \notin served[ReportsFor[r]]
          BY <4>1, <4>3, Tagged DEF Known, KnownTo
        <5>2. ASSUME NEW q \in Tags, NEW v \in Users, table[q] # Nil, entry[table[q]][v] # Nil,
                     entry'[table[q]][v] = Nil
              PROVE  q = ReportsFor[r] /\ v = cur[r]
          <6>1. table[q] = rtab[r] /\ v = cur[r]
            BY <4>3, <5>2
          <6> QED BY <4>2, <5>2, <6>1 DEF MapPlaced
        <5> QED BY <4>1, <5>1, <5>2
      <4> QED BY <2>1, <3>1, <4>3 DEF Attribute
    <3>2. CASE ~ Attribute(r)
      BY <2>1, <2>4, <3>2 DEF ReportStep, BeginReport, Skip, Visit, Reset, EndScan, SendOk,
                              SendDropped, SendRefused, AnswerLost, ReportOnline, StopReceived, maps
    <3> QED BY <3>1, <3>2
  <2>5. ASSUME NEW t \in Tags, Reload(t) PROVE Kept
    BY <2>1, <2>5, Reloads
  <2> QED BY <2>1, <2>2, <2>3, <2>4, <2>5 DEF Next, vars, maps
<1> QED BY <1>1, <1>2, TypeCorrect, PlacesHold, PTL DEF Spec, KeptWhileServed
=============================================================================
