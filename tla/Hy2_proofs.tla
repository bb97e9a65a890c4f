----------------------------- MODULE Hy2_proofs -----------------------------
(***************************************************************************)
(* Proofs about Hy2, for any number of nodes, users, connections, handlers *)
(* of them, and changes by the panel.                                      *)
(***************************************************************************)
EXTENDS Hy2, TLAPS

PCs == {"idle", "connect", "request", "check", "pass", "reject", "old"}

(* Connections only end, or go: what a step does to them that opens none.    *)
Shrinks ==
    /\ conn' \in [Conns -> {Nil} \cup Connected]
    /\ \A k \in Conns : conn'[k] # Nil =>
          /\ conn[k] # Nil /\ conn'[k].node = conn[k].node /\ conn'[k].user = conn[k].user
          /\ conn'[k].open => conn'[k] = conn[k]

(* Closing a connection only closes it, and one with a goroutine is there.   *)
LEMMA ClosedIs ==
    ASSUME NEW r \in Connected
    PROVE  LET d == [r EXCEPT !.open = FALSE]
           IN d \in Connected /\ d # Nil /\ d.node = r.node /\ d.user = r.user /\ ~ d.open
BY Hy2Assumption DEF Connected

LEMMA EndedIs ==
    ASSUME TypeOK, NEW c \in Conns, conn[c] # Nil, NEW others
    PROVE  LET e == Ended(c, others)
           IN /\ e \in {Nil} \cup Connected
              /\ e # Nil => e.node = conn[c].node /\ e.user = conn[c].user /\ ~ e.open
              /\ cutting[c] # "no" \/ (\E h \in Handlers \ others : of[h] = c) => e # Nil
<1>1. conn[c] \in Connected
  BY DEF TypeOK
<1>2. Ended(c, others) = IF cutting[c] = "no" /\ \A h \in Handlers \ others : of[h] # c THEN Nil
                         ELSE [conn[c] EXCEPT !.open = FALSE]
  BY DEF Ended
<1> QED BY <1>1, <1>2, ClosedIs

(* One connection that ends leaves the others as they are.                   *)
LEMMA OneEnds ==
    ASSUME TypeOK, NEW c \in Conns, conn[c] # Nil, NEW e,
           e \in {Nil} \cup Connected, e # Nil => e.node = conn[c].node /\ e.user = conn[c].user,
           e # Nil /\ e.open => e = conn[c], conn' = [conn EXCEPT ![c] = e]
    PROVE  Shrinks
<1>1. conn'[c] = e /\ \A k \in Conns \ {c} : conn'[k] = conn[k]
  BY DEF TypeOK
<1>2. conn' \in [Conns -> {Nil} \cup Connected]
  BY DEF TypeOK
<1> QED BY <1>1, <1>2 DEF Shrinks

LEMMA CloseServerShrinks ==
    ASSUME TypeOK, NEW n \in Nodes, CloseServer(n)
    PROVE  /\ Shrinks
           /\ \A k \in Conns : conn'[k] # Nil /\ conn'[k].open => conn[k].node # n
           /\ \A k \in Conns : conn[k] # Nil /\ (cutting[k] # "no" \/ \E h \in Handlers : of[h] = k)
                 => conn'[k] # Nil
<1>1. ASSUME NEW k \in Conns
      PROVE  /\ conn'[k] \in {Nil} \cup Connected
             /\ conn'[k] # Nil =>
                  /\ conn[k] # Nil /\ conn'[k].node = conn[k].node /\ conn'[k].user = conn[k].user
                  /\ conn'[k].open => conn'[k] = conn[k] /\ conn[k].node # n
             /\ conn[k] # Nil /\ (cutting[k] # "no" \/ \E h \in Handlers : of[h] = k)
                  => conn'[k] # Nil
  <2>1. CASE On(k, n)
    <3>1. conn[k] # Nil /\ conn'[k] = Ended(k, {})
      BY <2>1 DEF On, CloseServer
    <3> QED BY <3>1, EndedIs
  <2>2. CASE ~ On(k, n)
    <3>1. conn'[k] = conn[k]
      BY <2>2 DEF CloseServer
    <3> QED BY <2>2, <3>1 DEF On, TypeOK
  <2> QED BY <2>1, <2>2
<1>2. conn' = [k \in Conns |-> conn'[k]]
  BY DEF CloseServer
<1>3. conn' \in [Conns -> {Nil} \cup Connected]
  BY <1>1, <1>2
<1> QED BY <1>1, <1>3 DEF Shrinks

(* The end of a handler: it is idle, and a connection with another is there. *)
LEMMA ReturnIs ==
    ASSUME TypeOK, Attached, NEW h \in Handlers, pc[h] # "idle", Return(h)
    PROVE  /\ Shrinks
           /\ of' = [of EXCEPT ![h] = Nil] /\ pc' = [pc EXCEPT ![h] = "idle"]
           /\ of' \in [Handlers -> Conns \cup {Nil}] /\ pc' \in [Handlers -> PCs]
           /\ \A k \in Conns : conn[k] # Nil /\ (cutting[k] # "no" \/ \E g \in Handlers \ {h} : of[g] = k)
                 => conn'[k] # Nil
<1> DEFINE c == of[h]
           e == IF conn[c].open THEN conn[c] ELSE Ended(c, {h})
<1>1. c \in Conns /\ conn[c] # Nil
  BY DEF Attached
<1>2. conn' = [conn EXCEPT ![c] = e]
  BY DEF Return
<1>3. /\ e \in {Nil} \cup Connected /\ (e # Nil => e.node = conn[c].node /\ e.user = conn[c].user)
      /\ e # Nil /\ e.open => e = conn[c]
      /\ cutting[c] # "no" \/ (\E g \in Handlers \ {h} : of[g] = c) => e # Nil
  BY <1>1, EndedIs DEF TypeOK
<1> HIDE DEF e
<1>4. Shrinks
  BY <1>1, <1>2, <1>3, OneEnds
<1>5. /\ of' = [of EXCEPT ![h] = Nil] /\ pc' = [pc EXCEPT ![h] = "idle"]
      /\ of' \in [Handlers -> Conns \cup {Nil}] /\ pc' \in [Handlers -> PCs]
  BY DEF Return, TypeOK, PCs
<1>6. ASSUME NEW k \in Conns, conn[k] # Nil, cutting[k] # "no" \/ \E g \in Handlers \ {h} : of[g] = k
      PROVE  conn'[k] # Nil
  BY <1>1, <1>2, <1>3, <1>6 DEF TypeOK
<1> QED BY <1>4, <1>5, <1>6

(* A connection's own end: the client's, or the traffic logger's.            *)
LEMMA DisconnectShrinks ==
    ASSUME TypeOK, NEW c \in Conns, conn[c] # Nil, conn' = [conn EXCEPT ![c] = Ended(c, {})]
    PROVE  /\ Shrinks
           /\ \A k \in Conns : conn[k] # Nil /\ (cutting[k] # "no" \/ \E g \in Handlers : of[g] = k)
                 => conn'[k] # Nil
<1>1. LET e == Ended(c, {})
      IN /\ e \in {Nil} \cup Connected
         /\ e # Nil => e.node = conn[c].node /\ e.user = conn[c].user /\ ~ e.open
         /\ cutting[c] # "no" \/ (\E h \in Handlers : of[h] = c) => e # Nil
  BY EndedIs
<1>2. Shrinks
  BY <1>1, OneEnds
<1>3. conn'[c] = Ended(c, {}) /\ \A k \in Conns \ {c} : conn'[k] = conn[k]
  BY DEF TypeOK
<1> QED BY <1>1, <1>2, <1>3

LEMMA CutShrinks ==
    ASSUME TypeOK, Attached, NEW c \in Conns, Cut(c)
    PROVE  /\ Shrinks /\ conn[c] # Nil
           /\ \A k \in Conns : conn[k] # Nil /\ (cutting'[k] # "no" \/ \E g \in Handlers : of[g] = k)
                 => conn'[k] # Nil
<1> DEFINE e == IF \A h \in Handlers : of[h] # c THEN Nil ELSE [conn[c] EXCEPT !.open = FALSE]
<1>1. conn[c] # Nil /\ conn[c] \in Connected
  BY DEF Cut, Attached, TypeOK
<1>2. conn' = [conn EXCEPT ![c] = e] /\ cutting' = [cutting EXCEPT ![c] = "no"]
  BY DEF Cut
<1>3. /\ e \in {Nil} \cup Connected
      /\ e # Nil => e.node = conn[c].node /\ e.user = conn[c].user /\ ~ e.open
      /\ (\E h \in Handlers : of[h] = c) => e # Nil
  BY <1>1, ClosedIs
<1> HIDE DEF e
<1>4. Shrinks
  BY <1>1, <1>2, <1>3, OneEnds
<1>5. conn'[c] = e /\ cutting'[c] = "no"
      /\ \A k \in Conns \ {c} : conn'[k] = conn[k] /\ cutting'[k] = cutting[k]
  BY <1>2 DEF TypeOK
<1> QED BY <1>1, <1>3, <1>4, <1>5

-----------------------------------------------------------------------------
(* What the steps at a record or a limiter write.                            *)

LEMMA OverwrittenType ==
    ASSUME TypeOK, NEW n, NEW us
    PROVE  Overwritten(n, us) \in [Conns -> {"none", "pass", "reject"}]
BY DEF Overwritten, TypeOK

LEMMA ReplaceType ==
    ASSUME TypeOK, NEW n \in Nodes, NEW us, Replace(n, us)
    PROVE  /\ verdict' \in [Conns -> {"none", "pass", "reject"}]
           /\ cutting' \in [Conns -> {"no", "record", "gone"}]
<1>1. verdict' \in [Conns -> {"none", "pass", "reject"}]
  BY OverwrittenType DEF Replace
<1>2. cutting' \in [Conns -> {"no", "record", "gone"}]
  BY DEF Replace, TypeOK
<1> QED BY <1>1, <1>2

(* Deleting a limiter keeps the types of what it writes.                     *)
LEMMA DropLimiterType ==
    ASSUME TypeOK, NEW n \in Nodes, DropLimiter(n)
    PROVE  /\ flag' \in [Nodes -> {Nil} \cup Flags]
           /\ pc' \in [Handlers -> PCs]
           /\ verdict' \in [Conns -> {"none", "pass", "reject"}]
           /\ last' \in [Conns -> Handlers \cup {Nil}]
           /\ cutting' \in [Conns -> {"no", "record", "gone"}]
<1>1. flag' \in [Nodes -> {Nil} \cup Flags]
  BY DEF DropLimiter, TypeOK
<1>2. pc' \in [Handlers -> PCs]
  BY DEF DropLimiter, TypeOK, PCs
<1>3. /\ verdict' \in [Conns -> {"none", "pass", "reject"}]
      /\ last' \in [Conns -> Handlers \cup {Nil}]
      /\ cutting' \in [Conns -> {"no", "record", "gone"}]
  BY DEF DropLimiter, TypeOK
<1> QED BY <1>1, <1>2, <1>3

(* Writing OverLimit leaves the limiters there are, and one answer written.  *)
LEMMA WriteIs ==
    ASSUME TypeOK, NEW c \in Conns, conn[c] # Nil, NEW b \in BOOLEAN, Write(c, b)
    PROVE  /\ flag' \in [Nodes -> {Nil} \cup Flags]
           /\ verdict' \in [Conns -> {"none", "pass", "reject"}]
           /\ \A m \in Nodes : flag'[m] = Nil <=> flag[m] = Nil
           /\ \/ UNCHANGED <<flag, verdict>> /\ ~ Known(c)
              \/ /\ Known(c) /\ verdict' = Overwritten(conn[c].node, {conn[c].user})
                 /\ flag'[conn[c].node][conn[c].user] = b
                 /\ \A m \in Nodes, u \in Users :
                       ~ (m = conn[c].node /\ u = conn[c].user) => flag'[m][u] = flag[m][u]
<1> USE Hy2Assumption
<1> DEFINE n == conn[c].node
           u == conn[c].user
<1>1. n \in Nodes /\ u \in Users
  BY DEF TypeOK, Connected
<1>2. CASE ~ Known(c)
  <2>1. UNCHANGED <<flag, verdict>>
    BY <1>2 DEF Write
  <2> QED BY <1>2, <2>1 DEF TypeOK
<1>3. CASE Known(c)
  <2>1. flag' = [flag EXCEPT ![n][u] = b] /\ verdict' = Overwritten(n, {u})
    BY <1>3 DEF Write
  <2>2. flag[n] \in Flags
    BY <1>1, <1>3 DEF TypeOK, Known, Records
  <2>3. flag'[n] = [flag[n] EXCEPT ![u] = b] /\ \A m \in Nodes \ {n} : flag'[m] = flag[m]
    BY <1>1, <2>1 DEF TypeOK
  <2>4. flag'[n] \in Flags
    BY <1>1, <2>2, <2>3 DEF Flags
  <2>5. flag' \in [Nodes -> {Nil} \cup Flags]
    BY <1>1, <2>1, <2>4 DEF TypeOK
  <2>6. \A m \in Nodes : flag'[m] = Nil <=> flag[m] = Nil
    BY <1>1, <2>2, <2>3, <2>4
  <2>7. flag'[n][u] = b /\ \A v \in Users \ {u} : flag'[n][v] = flag[n][v]
    BY <1>1, <2>2, <2>3 DEF Flags
  <2> QED BY <1>1, <1>3, <2>1, <2>3, <2>5, <2>6, <2>7, OverwrittenType
<1> QED BY <1>2, <1>3

(* UpdateUser leaves a limiter.                                             *)
LEMMA UpdateType ==
    ASSUME TypeOK, NEW n \in Nodes, UpdateUser(n), flag[n] # Nil
    PROVE  flag' \in [Nodes -> {Nil} \cup Flags] /\ flag'[n] \in Flags
<1> DEFINE value(u) == IF u \in list[n] \ next[n] THEN Nil
                       ELSE IF u \in next[n] \ list[n] THEN FALSE ELSE flag[n][u]
<1>1. \A u \in Users : value(u) \in BOOLEAN \cup {Nil}
  BY DEF TypeOK, Flags
<1>2. [u \in Users |-> value(u)] \in Flags
  BY <1>1 DEF Flags
<1>3. flag' = [flag EXCEPT ![n] = [u \in Users |-> value(u)]]
  BY DEF UpdateUser
<1> QED BY <1>2, <1>3 DEF TypeOK

-----------------------------------------------------------------------------
LEMMA TypeStep ==
    ASSUME TypeOK, Attached, Limited, [Next]_vars
    PROVE  TypeOK'
<1> USE Hy2Assumption
<1>0. TypeOK <=>
        /\ ctl \in [Nodes -> Stages]
        /\ list \in [Nodes -> SUBSET Users] /\ next \in [Nodes -> SUBSET Users]
        /\ usersMap \subseteq Users /\ flag \in [Nodes -> {Nil} \cup Flags]
        /\ conn \in [Conns -> {Nil} \cup Connected]
        /\ of \in [Handlers -> Conns \cup {Nil}] /\ pc \in [Handlers -> PCs]
        /\ cutting \in [Conns -> {"no", "record", "gone"}] /\ edits \in 0..MaxEdits
        /\ verdict \in [Conns -> {"none", "pass", "reject"}]
        /\ last \in [Conns -> Handlers \cup {Nil}]
        /\ shutOut \subseteq Users /\ lingering \subseteq Users
        /\ panicked \in {Nil} \cup [ctl : Stages, open : BOOLEAN]
  BY DEF TypeOK, PCs
<1>1. CASE UNCHANGED vars
  BY <1>1 DEF vars, control, handlers, answers, access, TypeOK
<1>2. ASSUME NEW n \in Nodes, AddLimiter(n) PROVE TypeOK'
  <2>1. flag' \in [Nodes -> {Nil} \cup Flags]
    BY <1>2 DEF AddLimiter, TypeOK, Flags
  <2> QED BY <1>2, <2>1 DEF AddLimiter, TypeOK, handlers, answers, access, Stages
<1>3. ASSUME NEW n \in Nodes, AddNode(n) PROVE TypeOK'
  BY <1>3 DEF AddNode, TypeOK, handlers, answers, access, Stages, Serving
<1>4. ASSUME NEW n \in Nodes, AddUsers(n) \/ AddNewUsers(n) PROVE TypeOK'
  BY <1>4 DEF AddUsers, AddNewUsers, GiveAccounts, TypeOK, handlers, answers, Stages, Serving
<1>5. ASSUME NEW n \in Nodes, NEW us \in SUBSET Users, DelOldUsers(n, us) PROVE TypeOK'
  BY <1>5 DEF DelOldUsers, TakeAccounts, TypeOK, handlers, answers, Stages, Serving
<1>6. ASSUME NEW n \in Nodes, UpdateUser(n) PROVE TypeOK'
  <2>1. flag' \in [Nodes -> {Nil} \cup Flags]
    BY <1>6, UpdateType DEF UpdateUser, Limited
  <2>2. /\ verdict' \in [Conns -> {"none", "pass", "reject"}]
        /\ cutting' \in [Conns -> {"no", "record", "gone"}] /\ UNCHANGED <<last, handlers>>
    BY <1>6, ReplaceType DEF UpdateUser, Replace
  <2> QED BY <1>6, <2>1, <2>2 DEF UpdateUser, TypeOK, handlers, access, Stages, Serving
<1>7. ASSUME NEW n \in Nodes, NEW us \in SUBSET Users, DelNodeToReload(n, us) PROVE TypeOK'
  <2>1. conn' \in [Conns -> {Nil} \cup Connected]
    BY <1>7, CloseServerShrinks DEF DelNodeToReload, Shrinks
  <2> QED BY <1>7, <2>1 DEF DelNodeToReload, TypeOK, handlers, answers, Stages
<1>8. ASSUME NEW n \in Nodes, DeleteLimiter(n) \/ CloseController(n) PROVE TypeOK'
  <2>1. DropLimiter(n) /\ UNCHANGED <<list, next, edits, usersMap, conn, of, access, panicked>>
    BY <1>8 DEF DeleteLimiter, CloseController
  <2>2. ctl' \in [Nodes -> Stages]
    BY <1>8 DEF DeleteLimiter, CloseController, TypeOK, Stages, Serving
  <2>3. TypeOK' <=>
        /\ ctl' \in [Nodes -> Stages] /\ pc' \in [Handlers -> PCs]
        /\ flag' \in [Nodes -> {Nil} \cup Flags]
        /\ cutting' \in [Conns -> {"no", "record", "gone"}]
        /\ verdict' \in [Conns -> {"none", "pass", "reject"}]
        /\ last' \in [Conns -> Handlers \cup {Nil}]
    BY <2>1 DEF TypeOK, access, PCs
  <2> QED BY <2>1, <2>2, <2>3, DropLimiterType
<1>10. ASSUME NEW n \in Nodes, DelNodeToClose(n) PROVE TypeOK'
  <2>1. conn' \in [Conns -> {Nil} \cup Connected]
    BY <1>10, CloseServerShrinks DEF DelNodeToClose, Shrinks
  <2> QED BY <1>10, <2>1 DEF DelNodeToClose, TypeOK, handlers, answers, Stages
<1>11. ASSUME NEW h \in Handlers, NEW c \in Conns, NEW n \in Nodes, NEW u \in Users,
              Authenticate(h, c, n, u)
       PROVE  TypeOK'
  <2>1. conn' \in [Conns -> {Nil} \cup Connected]
    BY <1>11 DEF Authenticate, TypeOK, Connected
  <2> QED BY <1>11, <2>1 DEF Authenticate, Begin, TypeOK, control, access
<1>12. ASSUME NEW h \in Handlers, NEW c \in Conns, Request(h, c) PROVE TypeOK'
  BY <1>12 DEF Request, Begin, TypeOK, control, answers, access
<1>20. ASSUME panicked' \in {Nil} \cup [ctl : Stages, open : BOOLEAN],
              of' \in [Handlers -> Conns \cup {Nil}], pc' \in [Handlers -> PCs],
              conn' \in [Conns -> {Nil} \cup Connected],
              UNCHANGED <<ctl, list, next, edits, usersMap, flag, cutting, verdict, last, shutOut,
                          lingering>>
       PROVE  TypeOK'
  BY <1>20 DEF TypeOK, PCs
<1>13. ASSUME NEW h \in Handlers, GetLimiter(h) PROVE TypeOK'
  <2> USE <1>13 DEF GetLimiter, control, answers, access
  <2>1. CASE flag[conn[of[h]].node] # Nil
    BY <2>1 DEF TypeOK
  <2>2. CASE flag[conn[of[h]].node] = Nil
    <3>1. panicked' \in {Nil} \cup [ctl : Stages, open : BOOLEAN]
      <4>1. CASE pc[h] = "connect"
        BY <2>2, <4>1
      <4>2. CASE pc[h] # "connect"
        <5>1. conn[of[h]] \in Connected
          BY <1>13, <4>2 DEF Attached, TypeOK
        <5>2. conn[of[h]].node \in Nodes /\ conn[of[h]].open \in BOOLEAN
          BY <5>1 DEF Connected
        <5> QED BY <2>2, <4>2, <5>2 DEF TypeOK
      <4> QED BY <4>1, <4>2
    <3>2. Shrinks /\ of' \in [Handlers -> Conns \cup {Nil}] /\ pc' \in [Handlers -> PCs]
      BY <2>2, ReturnIs
    <3>3. conn' \in [Conns -> {Nil} \cup Connected]
      BY <3>2 DEF Shrinks
    <3>4. UNCHANGED <<ctl, list, next, edits, usersMap, flag, cutting, verdict, last, shutOut, lingering>>
      OBVIOUS
    <3> QED BY <1>20, <3>1, <3>2, <3>3, <3>4
  <2> QED BY <2>1, <2>2
<1>14. ASSUME NEW h \in Handlers, CheckLimit(h) PROVE TypeOK'
  <2>1. PICK answer \in {"pass", "reject"} :
           /\ pc' = [pc EXCEPT ![h] = answer] /\ verdict' = [verdict EXCEPT ![of[h]] = answer]
           /\ last' = [last EXCEPT ![of[h]] = h]
    BY <1>14 DEF CheckLimit
  <2>2. UNCHANGED <<control, usersMap, flag, conn, of, cutting, access, panicked>>
    BY <1>14 DEF CheckLimit
  <2>3. /\ pc' \in [Handlers -> PCs] /\ verdict' \in [Conns -> {"none", "pass", "reject"}]
        /\ last' \in [Conns -> Handlers \cup {Nil}]
    BY <2>1 DEF TypeOK, PCs
  <2> QED BY <2>2, <2>3 DEF TypeOK, PCs, control, access
<1>15. ASSUME NEW h \in Handlers, MarkOverLimit(h) PROVE TypeOK'
  <2>1. /\ of[h] \in Conns /\ conn[of[h]] # Nil /\ pc[h] # "idle" /\ Return(h)
        /\ Write(of[h], pc[h] = "reject")
        /\ last' = [last EXCEPT ![of[h]] = IF @ = h THEN Nil ELSE @]
        /\ UNCHANGED <<control, usersMap, cutting, access, panicked>>
    BY <1>15 DEF MarkOverLimit, Attached
  <2>2. flag' \in [Nodes -> {Nil} \cup Flags] /\ verdict' \in [Conns -> {"none", "pass", "reject"}]
    BY <2>1, WriteIs
  <2>3. Shrinks /\ of' \in [Handlers -> Conns \cup {Nil}] /\ pc' \in [Handlers -> PCs]
    BY <2>1, ReturnIs
  <2>4. last' \in [Conns -> Handlers \cup {Nil}]
    BY <2>1 DEF TypeOK
  <2> QED BY <2>1, <2>2, <2>3, <2>4 DEF TypeOK, Shrinks, PCs, control, access
<1>16. ASSUME NEW h \in Handlers, WriteToOld(h) PROVE TypeOK'
  <2>1. Shrinks /\ of' \in [Handlers -> Conns \cup {Nil}] /\ pc' \in [Handlers -> PCs]
    BY <1>16, ReturnIs DEF WriteToOld
  <2> QED BY <1>16, <2>1 DEF WriteToOld, TypeOK, Shrinks, PCs, control, answers, access
<1>17. ASSUME NEW c \in Conns, LogTraffic(c) \/ Disconnect(c) PROVE TypeOK'
  <2>1. conn' \in [Conns -> {Nil} \cup Connected]
    BY <1>17, DisconnectShrinks DEF LogTraffic, Disconnect, Shrinks, TypeOK
  <2>2. cutting' \in [Conns -> {"no", "record", "gone"}]
    BY <1>17 DEF LogTraffic, Disconnect, TypeOK
  <2> QED BY <1>17, <2>1, <2>2 DEF LogTraffic, Disconnect, TypeOK, control, handlers, answers, access
<1>18. ASSUME NEW c \in Conns, Cut(c) PROVE TypeOK'
  <2>1. Shrinks /\ conn[c] # Nil
    BY <1>18, CutShrinks
  <2>2. flag' \in [Nodes -> {Nil} \cup Flags] /\ verdict' \in [Conns -> {"none", "pass", "reject"}]
    BY <1>18, <2>1, WriteIs DEF Cut, TypeOK
  <2> QED BY <1>18, <2>1, <2>2 DEF Cut, TypeOK, Shrinks, control, handlers, access
<1>19. CASE Over
  BY <1>1, <1>19 DEF Over
<1> QED
  BY <1>1, <1>2, <1>3, <1>4, <1>5, <1>6, <1>7, <1>8, <1>10, <1>11, <1>12, <1>13,
     <1>14, <1>15, <1>16, <1>17, <1>18, <1>19 DEF Next, Controllers, Connections

(* A goroutine of a connection keeps it: a connection leaves when none runs. *)
LEMMA AttachedStep ==
    ASSUME TypeOK, Attached, [Next]_vars
    PROVE  Attached'
<1> USE Hy2Assumption DEF TypeOK
<1>0. /\ \A h \in Handlers : pc[h] = "idle" => of[h] = Nil
      /\ \A h \in Handlers : pc[h] # "idle" => of[h] \in Conns /\ conn[of[h]] # Nil
      /\ \A c \in Conns : cutting[c] # "no" => conn[c] # Nil
  BY DEF Attached
<1>1. CASE UNCHANGED vars
  BY <1>1 DEF vars, control, handlers, Attached
<1>2. ASSUME NEW n \in Nodes, AddLimiter(n) \/ AddNode(n) \/ AddUsers(n) \/ AddNewUsers(n)
      PROVE  Attached'
  BY <1>2 DEF AddLimiter, AddNode, AddUsers, AddNewUsers, handlers, Attached
<1>3. ASSUME NEW n \in Nodes, NEW us \in SUBSET Users, DelOldUsers(n, us) PROVE Attached'
  BY <1>3 DEF DelOldUsers, handlers, Attached
<1>4. ASSUME NEW n \in Nodes, UpdateUser(n) PROVE Attached'
  <2>1. \A c \in Conns : cutting'[c] # "no" => cutting[c] # "no"
    BY <1>4 DEF UpdateUser, Replace
  <2> QED BY <1>4, <2>1 DEF UpdateUser, Replace, handlers, Attached
<1>5. ASSUME NEW n \in Nodes, DeleteLimiter(n) \/ CloseController(n) PROVE Attached'
  <2>1. UNCHANGED <<conn, of>>
        /\ (\A c \in Conns : cutting'[c] # "no" => cutting[c] # "no")
        /\ (\A h \in Handlers : pc'[h] = "idle" <=> pc[h] = "idle")
    BY <1>5 DEF DeleteLimiter, CloseController, DropLimiter
  <2> QED BY <1>0, <2>1 DEF Attached
<1>6. ASSUME NEW n \in Nodes, CloseServer(n), UNCHANGED <<handlers, cutting>> PROVE Attached'
  <2>1. \A k \in Conns : conn[k] # Nil /\ (cutting[k] # "no" \/ \E h \in Handlers : of[h] = k)
           => conn'[k] # Nil
    BY <1>6, CloseServerShrinks
  <2> QED BY <1>0, <1>6, <2>1 DEF Attached, handlers
<1>7. ASSUME NEW n \in Nodes, NEW us \in SUBSET Users,
             DelNodeToReload(n, us) \/ DelNodeToClose(n)
      PROVE  Attached'
  BY <1>6, <1>7 DEF DelNodeToReload, DelNodeToClose
<1>8. ASSUME NEW h \in Handlers, NEW c \in Conns, NEW n \in Nodes, NEW u \in Users,
             Authenticate(h, c, n, u)
      PROVE  Attached'
  <2>1. conn'[c] \in Connected /\ \A k \in Conns \ {c} : conn'[k] = conn[k]
    BY <1>8 DEF Authenticate, Connected
  <2>2. /\ of' = [of EXCEPT ![h] = c] /\ pc' = [pc EXCEPT ![h] = "connect"] /\ cutting' = cutting
    BY <1>8 DEF Authenticate, Begin
  <2> QED BY <1>0, <2>1, <2>2 DEF Attached
<1>9. ASSUME NEW h \in Handlers, NEW c \in Conns, Request(h, c) PROVE Attached'
  BY <1>0, <1>9 DEF Request, Begin, Attached
<1>10. ASSUME NEW h \in Handlers, CheckLimit(h) PROVE Attached'
  BY <1>0, <1>10 DEF CheckLimit, Attached
<1>11. ASSUME NEW h \in Handlers, pc[h] # "idle", Return(h), UNCHANGED cutting PROVE Attached'
  <2>1. /\ of' = [of EXCEPT ![h] = Nil] /\ pc' = [pc EXCEPT ![h] = "idle"]
        /\ \A k \in Conns : conn[k] # Nil /\ (cutting[k] # "no" \/ \E g \in Handlers \ {h} : of[g] = k)
              => conn'[k] # Nil
    BY <1>11, ReturnIs
  <2> QED BY <1>0, <1>11, <2>1 DEF Attached
<1>12. ASSUME NEW h \in Handlers, GetLimiter(h) PROVE Attached'
  <2>1. CASE flag[conn[of[h]].node] # Nil
    BY <1>0, <1>12, <2>1 DEF GetLimiter, Attached
  <2>2. CASE flag[conn[of[h]].node] = Nil
    BY <1>11, <1>12, <2>2 DEF GetLimiter
  <2> QED BY <2>1, <2>2
<1>13. ASSUME NEW h \in Handlers, MarkOverLimit(h) \/ WriteToOld(h) PROVE Attached'
  BY <1>11, <1>13 DEF MarkOverLimit, WriteToOld
<1>14. ASSUME NEW c \in Conns, conn[c] # Nil, conn' = [conn EXCEPT ![c] = Ended(c, {})],
              UNCHANGED <<handlers, cutting>>
       PROVE  Attached'
  <2>1. \A k \in Conns : conn[k] # Nil /\ (cutting[k] # "no" \/ \E h \in Handlers : of[h] = k)
           => conn'[k] # Nil
    BY <1>14, DisconnectShrinks
  <2> QED BY <1>0, <1>14, <2>1 DEF Attached, handlers
<1>15. ASSUME NEW c \in Conns, LogTraffic(c) \/ Disconnect(c) PROVE Attached'
  <2>1. CASE UNCHANGED conn /\ LogTraffic(c)
    <3>1. conn[c] # Nil /\ UNCHANGED handlers /\ \A k \in Conns \ {c} : cutting'[k] = cutting[k]
      BY <2>1 DEF LogTraffic
    <3> QED BY <1>0, <2>1, <3>1 DEF Attached, handlers
  <2>2. CASE Disconnect(c) \/ (LogTraffic(c) /\ conn' = [conn EXCEPT ![c] = Ended(c, {})]
                                             /\ UNCHANGED cutting)
    BY <1>14, <2>2 DEF LogTraffic, Disconnect
  <2> QED BY <1>15, <2>1, <2>2 DEF LogTraffic
<1>16. ASSUME NEW c \in Conns, Cut(c) PROVE Attached'
  <2>1. \A k \in Conns : conn[k] # Nil /\ (cutting'[k] # "no" \/ \E g \in Handlers : of[g] = k)
                 => conn'[k] # Nil
    BY <1>16, CutShrinks
  <2>2. UNCHANGED handlers /\ \A k \in Conns : cutting'[k] # "no" => cutting[k] # "no"
    BY <1>16 DEF Cut
  <2> QED BY <1>0, <2>1, <2>2 DEF Attached, handlers
<1> QED
  BY <1>1, <1>2, <1>3, <1>4, <1>5, <1>7, <1>8, <1>9, <1>10, <1>12, <1>13, <1>15, <1>16
  DEF Next, Controllers, Connections, Over

(* A node has its limiter from AddLimiter to DeleteLimiter.                  *)
LEMMA WriteLimited ==
    ASSUME TypeOK, Limited, NEW c \in Conns, conn[c] # Nil, NEW b \in BOOLEAN, Write(c, b),
           UNCHANGED ctl
    PROVE  Limited'
<1>1. \A m \in Nodes : flag'[m] = Nil <=> flag[m] = Nil
  BY WriteIs
<1> QED BY <1>1 DEF Limited

LEMMA LimitedStep ==
    ASSUME TypeOK, Attached, Limited, [Next]_vars
    PROVE  Limited'
<1> USE Hy2Assumption DEF TypeOK, Limited, Stages, Serving
<1>1. CASE UNCHANGED vars
  BY <1>1 DEF vars, control
<1>2. ASSUME NEW n \in Nodes, AddLimiter(n) PROVE Limited'
  <2>1. flag'[n] \in Flags /\ \A m \in Nodes \ {n} : flag'[m] = flag[m] /\ ctl'[m] = ctl[m]
    BY <1>2 DEF AddLimiter, Flags
  <2> QED BY <2>1
<1>3. ASSUME NEW n \in Nodes, AddNode(n) \/ AddUsers(n) \/ AddNewUsers(n) \/ DelNodeToClose(n)
      PROVE  Limited'
  BY <1>3 DEF AddNode, AddUsers, AddNewUsers, DelNodeToClose
<1>4. ASSUME NEW n \in Nodes, NEW us \in SUBSET Users, DelOldUsers(n, us) \/ DelNodeToReload(n, us)
      PROVE  Limited'
  BY <1>4 DEF DelOldUsers, DelNodeToReload
<1>5. ASSUME NEW n \in Nodes, UpdateUser(n) PROVE Limited'
  <2>1. flag'[n] \in Flags
    BY <1>5, UpdateType DEF UpdateUser
  <2>2. \A m \in Nodes \ {n} : flag'[m] = flag[m] /\ ctl'[m] = ctl[m]
    BY <1>5 DEF UpdateUser
  <2> QED BY <2>1, <2>2
<1>6. ASSUME NEW n \in Nodes, DeleteLimiter(n) \/ CloseController(n) PROVE Limited'
  BY <1>6 DEF DeleteLimiter, CloseController, DropLimiter
<1>7. ASSUME NEW c \in Conns, conn[c] # Nil, NEW b \in BOOLEAN, Write(c, b), UNCHANGED ctl
      PROVE  Limited'
  BY <1>7, WriteLimited
<1>8. ASSUME NEW h \in Handlers, MarkOverLimit(h) PROVE Limited'
  BY <1>7, <1>8 DEF MarkOverLimit, Attached, control
<1>9. ASSUME NEW c \in Conns, Cut(c) PROVE Limited'
  <2>1. CASE cutting[c] = "record"
    BY <1>7, <1>9, <2>1 DEF Cut, Attached, control
  <2>2. CASE cutting[c] # "record"
    BY <1>9, <2>2 DEF Cut, control
  <2> QED BY <2>1, <2>2
<1>10. ASSUME UNCHANGED <<flag, ctl>> PROVE Limited'
  BY <1>10
<1>11. ASSUME NEW h \in Handlers,
              \/ GetLimiter(h) \/ CheckLimit(h) \/ WriteToOld(h)
              \/ \E c \in Conns : Request(h, c) \/ \E n \in Nodes, u \in Users : Authenticate(h, c, n, u)
       PROVE  Limited'
  BY <1>10, <1>11 DEF GetLimiter, CheckLimit, WriteToOld, Request, Authenticate, control
<1>12. ASSUME NEW c \in Conns, LogTraffic(c) \/ Disconnect(c) PROVE Limited'
  BY <1>10, <1>12 DEF LogTraffic, Disconnect, control
<1> QED
  BY <1>1, <1>2, <1>3, <1>4, <1>5, <1>6, <1>8, <1>9, <1>11, <1>12
  DEF Next, Controllers, Connections, Over

(* No operation of the core, its loggers or the controllers (core/hy2,       *)
(* node/controller.go, node/task.go) leaves a variable outside its set of    *)
(* values.                                                                   *)
THEOREM TypeCorrect == Spec => [](TypeOK /\ Attached /\ Limited)
<1>1. Init => TypeOK /\ Attached /\ Limited
  BY Hy2Assumption DEF Init, TypeOK, Attached, Limited, Stages
<1>2. TypeOK /\ Attached /\ Limited /\ [Next]_vars => (TypeOK /\ Attached /\ Limited)'
  BY TypeStep, AttachedStep, LimitedStep
<1> QED BY <1>1, <1>2, PTL DEF Spec

-----------------------------------------------------------------------------
(* Who can authenticate.                                                     *)

(* An account is somebody's.                                                *)
Owned(u) == u \in lingering \/ \E n \in Nodes : ctl[n] # "closed" /\ u \in next[n]

LEMMA AccessStep ==
    ASSUME TypeOK, AccessInv, [Next]_vars
    PROVE  AccessInv'
<1> USE DEF AccessInv, AccessIsListed, TypeOK, Stages, Serving
<1>1. CASE UNCHANGED vars
  BY <1>1 DEF vars, control, access
<1>2. ASSUME NEW n \in Nodes, NEW s, ctl' = [ctl EXCEPT ![n] = s],
             s \notin {"up", "changing", "syncing", "closed"}, ctl[n] \notin {"changing", "syncing"},
             UNCHANGED <<list, next, usersMap, access>>
      PROVE  AccessInv'
  <2>1. \A u \in Users : Owned(u) => Owned(u)'
    BY <1>2 DEF Owned, access
  <2>3. ASSUME NEW m \in Nodes
        PROVE  /\ ctl'[m] = "changing" => list'[m] \cap next'[m] \subseteq usersMap' \cup shutOut'
               /\ ctl'[m] = "syncing" => next'[m] \subseteq usersMap' \cup shutOut'
               /\ ctl'[m] \notin {"changing", "syncing"} => next'[m] = list'[m]
               /\ ctl'[m] = "up" => list'[m] \subseteq usersMap' \cup shutOut'
    BY <1>2 DEF access
  <2>5. \A u \in usersMap' : Owned(u)'
    BY <1>2, <2>1 DEF Owned
  <2> QED BY <2>3, <2>5 DEF Owned
<1>3. ASSUME NEW n \in Nodes,
             AddLimiter(n) \/ AddNode(n) \/ DeleteLimiter(n) \/ CloseController(n)
      PROVE  AccessInv'
  <2>1. /\ \E s \in {"limited", "serving", "unlimited", "closing"} : ctl' = [ctl EXCEPT ![n] = s]
        /\ ctl[n] \in {"absent", "unlimited", "limited", "deleted", "up"}
        /\ UNCHANGED <<list, next, usersMap, access>>
    BY <1>3 DEF AddLimiter, AddNode, DeleteLimiter, CloseController
  <2>2. PICK s \in {"limited", "serving", "unlimited", "closing"} : ctl' = [ctl EXCEPT ![n] = s]
    BY <2>1
  <2>3. s \notin {"up", "changing", "syncing", "closed"} /\ ctl[n] \notin {"changing", "syncing"}
    BY <2>1, <2>2
  <2> HIDE DEF AccessInv
  <2> QED BY <1>2, <2>1, <2>2, <2>3
<1>4. ASSUME NEW n \in Nodes, AddUsers(n) PROVE AccessInv'
  BY <1>4 DEF AddUsers, GiveAccounts
<1>5. ASSUME NEW n \in Nodes, NEW us \in SUBSET Users, DelOldUsers(n, us) PROVE AccessInv'
  <2>1. /\ ctl[n] = "up" /\ ctl' = [ctl EXCEPT ![n] = "changing"] /\ UNCHANGED list
        /\ next' = [next EXCEPT ![n] = us]
        /\ usersMap' = usersMap \ (list[n] \ us) /\ shutOut' = shutOut \cup (list[n] \ us)
        /\ lingering' = lingering \ (list[n] \ us)
    BY <1>5 DEF DelOldUsers, TakeAccounts
  <2>2. ASSUME NEW m \in Nodes
        PROVE  /\ ctl'[m] = "changing" => list'[m] \cap next'[m] \subseteq usersMap' \cup shutOut'
               /\ ctl'[m] = "syncing" => next'[m] \subseteq usersMap' \cup shutOut'
               /\ ctl'[m] \notin {"changing", "syncing"} => next'[m] = list'[m]
               /\ ctl'[m] = "up" => list'[m] \subseteq usersMap' \cup shutOut'
    BY <2>1
  <2>4. ASSUME NEW u \in usersMap' PROVE Owned(u)'
    <3>1. u \in usersMap /\ u \notin list[n] \ us
      BY <2>1, <2>4
    <3>2. CASE u \in lingering
      BY <2>1, <3>1, <3>2 DEF Owned
    <3>3. ASSUME NEW k \in Nodes, ctl[k] # "closed", u \in next[k]
          PROVE  ctl'[k] # "closed" /\ u \in next'[k]
      BY <2>1, <3>1, <3>3
    <3> QED BY <3>1, <3>2, <3>3 DEF Owned
  <2> QED BY <2>2, <2>4 DEF Owned
<1>6. ASSUME NEW n \in Nodes, AddNewUsers(n) PROVE AccessInv'
  <2>1. /\ ctl[n] = "changing" /\ ctl' = [ctl EXCEPT ![n] = "syncing"] /\ UNCHANGED <<list, next>>
        /\ usersMap' = usersMap \cup (next[n] \ list[n]) /\ shutOut' = shutOut \ (next[n] \ list[n])
        /\ lingering' = lingering \ (next[n] \ list[n])
    BY <1>6 DEF AddNewUsers, GiveAccounts
  <2>2. ASSUME NEW m \in Nodes
        PROVE  /\ ctl'[m] = "changing" => list'[m] \cap next'[m] \subseteq usersMap' \cup shutOut'
               /\ ctl'[m] = "syncing" => next'[m] \subseteq usersMap' \cup shutOut'
               /\ ctl'[m] \notin {"changing", "syncing"} => next'[m] = list'[m]
               /\ ctl'[m] = "up" => list'[m] \subseteq usersMap' \cup shutOut'
    BY <2>1
  <2>4. ASSUME NEW u \in usersMap' PROVE Owned(u)'
    <3>1. CASE u \in next[n] \ list[n]
      BY <2>1, <3>1 DEF Owned
    <3>2. CASE u \notin next[n] \ list[n]
      BY <2>1, <2>4, <3>2 DEF Owned
    <3> QED BY <3>1, <3>2
  <2> QED BY <2>2, <2>4 DEF Owned
<1>7. ASSUME NEW n \in Nodes, UpdateUser(n) PROVE AccessInv'
  <2>1. /\ ctl[n] = "syncing" /\ ctl' = [ctl EXCEPT ![n] = "up"]
        /\ list' = [list EXCEPT ![n] = next[n]] /\ UNCHANGED <<next, usersMap, access>>
    BY <1>7 DEF UpdateUser
  <2>2. ASSUME NEW m \in Nodes
        PROVE  /\ ctl'[m] = "changing" => list'[m] \cap next'[m] \subseteq usersMap' \cup shutOut'
               /\ ctl'[m] = "syncing" => next'[m] \subseteq usersMap' \cup shutOut'
               /\ ctl'[m] \notin {"changing", "syncing"} => next'[m] = list'[m]
               /\ ctl'[m] = "up" => list'[m] \subseteq usersMap' \cup shutOut'
    BY <2>1 DEF access
  <2>4. ASSUME NEW u \in usersMap' PROVE Owned(u)'
    BY <2>1, <2>4 DEF Owned, access
  <2> QED BY <2>2, <2>4 DEF Owned
<1>8. ASSUME NEW n \in Nodes, NEW us \in SUBSET Users, DelNodeToReload(n, us) PROVE AccessInv'
  <2>1. /\ ctl[n] = "up" /\ ctl' = [ctl EXCEPT ![n] = "deleted"] /\ list' = [list EXCEPT ![n] = us]
        /\ next' = [next EXCEPT ![n] = us] /\ UNCHANGED <<usersMap, shutOut>>
        /\ lingering' = lingering \cup (list[n] \ us)
    BY <1>8 DEF DelNodeToReload
  <2>2. next[n] = list[n]
    BY <2>1
  <2>4. ASSUME NEW u \in usersMap' PROVE Owned(u)'
    BY <2>1, <2>2, <2>4 DEF Owned
  <2>5. ASSUME NEW m \in Nodes
        PROVE  /\ ctl'[m] = "changing" => list'[m] \cap next'[m] \subseteq usersMap' \cup shutOut'
               /\ ctl'[m] = "syncing" => next'[m] \subseteq usersMap' \cup shutOut'
               /\ ctl'[m] \notin {"changing", "syncing"} => next'[m] = list'[m]
               /\ ctl'[m] = "up" => list'[m] \subseteq usersMap' \cup shutOut'
    BY <2>1
  <2> QED BY <2>4, <2>5 DEF Owned
<1>9. ASSUME NEW n \in Nodes, DelNodeToClose(n) PROVE AccessInv'
  <2>1. /\ ctl[n] = "closing" /\ ctl' = [ctl EXCEPT ![n] = "closed"]
        /\ UNCHANGED <<list, next, usersMap, shutOut>> /\ lingering' = lingering \cup list[n]
    BY <1>9 DEF DelNodeToClose
  <2>2. next[n] = list[n]
    BY <2>1
  <2>4. ASSUME NEW u \in usersMap' PROVE Owned(u)'
    BY <2>1, <2>2, <2>4 DEF Owned
  <2> QED BY <2>1, <2>4 DEF Owned
<1>10. ASSUME UNCHANGED <<control, usersMap, access>> PROVE AccessInv'
  BY <1>10 DEF control, access
<1>11. ASSUME NEW h \in Handlers,
              \/ GetLimiter(h) \/ CheckLimit(h) \/ MarkOverLimit(h) \/ WriteToOld(h)
              \/ \E c \in Conns : Request(h, c) \/ \E n \in Nodes, u \in Users : Authenticate(h, c, n, u)
       PROVE  AccessInv'
  BY <1>10, <1>11 DEF GetLimiter, CheckLimit, MarkOverLimit, WriteToOld, Request, Authenticate
<1>12. ASSUME NEW c \in Conns, LogTraffic(c) \/ Cut(c) \/ Disconnect(c) PROVE AccessInv'
  BY <1>10, <1>12 DEF LogTraffic, Cut, Disconnect
<1> QED
  BY <1>1, <1>3, <1>4, <1>5, <1>6, <1>7, <1>8, <1>9, <1>11, <1>12
  DEF Next, Controllers, Connections, Over

(* The account map (core/hy2/user.go:20-56) holds every user of a node that  *)
(* is up, but for those another node deleted, and nobody else but those a    *)
(* reload or a close dropped.                                                *)
THEOREM AccessIsListedHolds == Spec => []AccessIsListed
<1>1. Init => AccessInv
  BY DEF Init, AccessInv, AccessIsListed
<1>2. TypeOK /\ AccessInv /\ [Next]_vars => AccessInv'
  BY AccessStep
<1>3. AccessInv => AccessIsListed
  BY DEF AccessInv
<1> QED BY <1>1, <1>2, <1>3, TypeCorrect, PTL DEF Spec

-----------------------------------------------------------------------------
(* When an event finds no limiter.                                           *)

(* A step that opens no connection keeps nodes with open ones serving.       *)
LEMMA ServedKept ==
    ASSUME TypeOK, Served, Shrinks, UNCHANGED ctl
    PROVE  Served'
BY DEF Served, Shrinks

LEMMA ServedStep ==
    ASSUME TypeOK, Attached, Served, [Next]_vars
    PROVE  Served'
<1> USE Hy2Assumption
<1>0. \A c \in Conns : conn[c] # Nil => conn[c].node \in Nodes /\ conn[c].open \in BOOLEAN
  BY DEF Connected, TypeOK
<1>1. ASSUME UNCHANGED <<conn, ctl>> PROVE Served'
  BY <1>1 DEF Served
<1>2. ASSUME NEW n \in Nodes, NEW s, UNCHANGED conn, ctl' = [ctl EXCEPT ![n] = s],
             ctl[n] \in Serving => s \in Serving
      PROVE  Served'
  BY <1>0, <1>2 DEF Served, TypeOK
<1>3. ASSUME NEW n \in Nodes,
             \/ AddLimiter(n) \/ AddNode(n) \/ AddUsers(n) \/ AddNewUsers(n) \/ UpdateUser(n)
             \/ DeleteLimiter(n) \/ CloseController(n) \/ \E us \in SUBSET Users : DelOldUsers(n, us)
      PROVE  Served'
  <2>1. \/ ctl[n] \notin Serving /\ \E s \in {"limited", "unlimited", "serving"} :
              ctl' = [ctl EXCEPT ![n] = s]
        \/ \E s \in Serving : ctl' = [ctl EXCEPT ![n] = s]
    BY <1>3 DEF AddLimiter, AddNode, AddUsers, AddNewUsers, UpdateUser, DeleteLimiter,
                CloseController, DelOldUsers, Serving
  <2>2. UNCHANGED conn
    BY <1>3 DEF AddLimiter, AddNode, AddUsers, AddNewUsers, UpdateUser, DeleteLimiter,
                CloseController, DelOldUsers
  <2> QED BY <1>2, <2>1, <2>2
<1>4. ASSUME NEW n \in Nodes, NEW us \in SUBSET Users, DelNodeToReload(n, us) \/ DelNodeToClose(n)
      PROVE  Served'
  <2>1. CloseServer(n) /\ \A m \in Nodes \ {n} : ctl'[m] = ctl[m]
    BY <1>4 DEF DelNodeToReload, DelNodeToClose, TypeOK
  <2>2. Shrinks /\ \A k \in Conns : conn'[k] # Nil /\ conn'[k].open => conn[k].node # n
    BY <2>1, CloseServerShrinks
  <2> QED BY <1>0, <2>1, <2>2 DEF Served, Shrinks
<1>5. ASSUME NEW h \in Handlers, NEW c \in Conns, NEW n \in Nodes, NEW u \in Users,
             Authenticate(h, c, n, u)
      PROVE  Served'
  <2>1. /\ conn' = [conn EXCEPT ![c] = [node |-> n, user |-> u, open |-> TRUE]]
        /\ ctl[n] \in Serving /\ UNCHANGED ctl
    BY <1>5 DEF Authenticate, control
  <2>2. conn'[c] = [node |-> n, user |-> u, open |-> TRUE]
        /\ \A k \in Conns \ {c} : conn'[k] = conn[k]
    BY <2>1 DEF TypeOK
  <2> QED BY <2>1, <2>2 DEF Served
<1>6. ASSUME NEW h \in Handlers, Attached, pc[h] # "idle", Return(h), UNCHANGED ctl PROVE Served'
  BY <1>6, ReturnIs, ServedKept
<1>7. ASSUME NEW h \in Handlers, GetLimiter(h) \/ MarkOverLimit(h) \/ WriteToOld(h) PROVE Served'
  <2>1. pc[h] # "idle" /\ UNCHANGED ctl /\ (Return(h) \/ UNCHANGED conn)
    BY <1>7 DEF GetLimiter, MarkOverLimit, WriteToOld, control
  <2> QED BY <1>1, <1>6, <2>1
<1>8. ASSUME NEW h \in Handlers, CheckLimit(h) \/ \E c \in Conns : Request(h, c) PROVE Served'
  BY <1>1, <1>8 DEF CheckLimit, Request, control
<1>9. ASSUME NEW c \in Conns, LogTraffic(c) \/ Disconnect(c) PROVE Served'
  <2>1. /\ conn[c] # Nil /\ UNCHANGED ctl
        /\ conn' = [conn EXCEPT ![c] = Ended(c, {})] \/ UNCHANGED conn
    BY <1>9 DEF LogTraffic, Disconnect, control
  <2> QED BY <1>1, <2>1, DisconnectShrinks, ServedKept
<1>10. ASSUME NEW c \in Conns, Cut(c) PROVE Served'
  BY <1>10, CutShrinks, ServedKept DEF Cut, control
<1> QED
  BY <1>1, <1>3, <1>4, <1>5, <1>7, <1>8, <1>9, <1>10
  DEF Next, Controllers, Connections, Over, vars, control

LEMMA PanicStep ==
    ASSUME TypeOK, Attached, Limited, Served, PanicHasCause, [Next]_vars
    PROVE  PanicHasCause'
<1>1. ASSUME UNCHANGED panicked PROVE PanicHasCause'
  BY <1>1 DEF PanicHasCause
<1>2. ASSUME NEW h \in Handlers, GetLimiter(h) PROVE PanicHasCause'
  <2>1. CASE flag[conn[of[h]].node] # Nil
    BY <1>1, <1>2, <2>1 DEF GetLimiter
  <2>2. CASE flag[conn[of[h]].node] = Nil /\ pc[h] = "connect"
    BY <1>2, <2>2 DEF GetLimiter, PanicHasCause
  <2>3. CASE flag[conn[of[h]].node] = Nil /\ pc[h] # "connect"
    <3>1. panicked' = [ctl |-> ctl[conn[of[h]].node], open |-> conn[of[h]].open]
      BY <1>2, <2>3 DEF GetLimiter
    <3>2. of[h] \in Conns /\ conn[of[h]] # Nil /\ conn[of[h]].node \in Nodes
      BY <1>2 DEF GetLimiter, Attached, TypeOK, Connected
    <3>3. conn[of[h]].open => ctl[conn[of[h]].node] \in Serving
      BY <3>2 DEF Served
    <3>4. conn[of[h]].open => ctl[conn[of[h]].node] = "closing"
      BY <2>3, <3>2, <3>3 DEF Limited, Serving
    <3> QED BY <3>1, <3>4 DEF PanicHasCause
  <2> QED BY <2>1, <2>2, <2>3
<1>3. ASSUME NEW n \in Nodes,
             \/ AddLimiter(n) \/ AddNode(n) \/ AddUsers(n) \/ AddNewUsers(n) \/ UpdateUser(n)
             \/ DeleteLimiter(n) \/ CloseController(n) \/ DelNodeToClose(n)
             \/ \E us \in SUBSET Users : DelOldUsers(n, us) \/ DelNodeToReload(n, us)
      PROVE  UNCHANGED panicked
  BY <1>3 DEF AddLimiter, AddNode, AddUsers, AddNewUsers, UpdateUser, DeleteLimiter,
              CloseController, DelNodeToClose, DelOldUsers, DelNodeToReload
<1>4. ASSUME NEW h \in Handlers,
              \/ CheckLimit(h) \/ MarkOverLimit(h) \/ WriteToOld(h)
              \/ \E c \in Conns : Request(h, c) \/ \E n \in Nodes, u \in Users : Authenticate(h, c, n, u)
       PROVE  UNCHANGED panicked
  BY <1>4 DEF CheckLimit, MarkOverLimit, WriteToOld, Request, Authenticate
<1>5. ASSUME NEW c \in Conns, LogTraffic(c) \/ Cut(c) \/ Disconnect(c) PROVE UNCHANGED panicked
  BY <1>5 DEF LogTraffic, Cut, Disconnect
<1> QED
  BY <1>1, <1>2, <1>3, <1>4, <1>5 DEF Next, Controllers, Connections, Over, vars

(* An event ends the process (core/hy2/logger.go:72, 97) only when its       *)
(* connection has ended, or between the two steps of Controller.Close        *)
(* (node/controller.go:101, 118).                                            *)
THEOREM PanicHasCauseHolds == Spec => []PanicHasCause
<1>1. Init => Served /\ PanicHasCause
  BY DEF Init, Served, PanicHasCause
<1>2. TypeOK /\ Attached /\ Limited /\ Served /\ PanicHasCause /\ [Next]_vars
      => Served' /\ PanicHasCause'
  BY ServedStep, PanicStep
<1> QED BY <1>1, <1>2, TypeCorrect, PTL DEF Spec

-----------------------------------------------------------------------------
(* Whose answer the flag is.                                                 *)

LEMMA WriteUnlimited ==
    ASSUME TypeOK, Unlimited, NEW c \in Conns, conn[c] # Nil, NEW b \in BOOLEAN, Write(c, b),
           UNCHANGED ctl
    PROVE  Unlimited'
<1>1. \A m \in Nodes : flag'[m] = Nil <=> flag[m] = Nil
  BY WriteIs
<1> QED BY <1>1 DEF Unlimited

LEMMA UnlimitedStep ==
    ASSUME TypeOK, Attached, Unlimited, [Next]_vars
    PROVE  Unlimited'
<1> USE Hy2Assumption DEF TypeOK, Unlimited, Stages, Serving
<1>1. ASSUME UNCHANGED <<flag, ctl>> PROVE Unlimited'
  BY <1>1
<1>2. ASSUME NEW n \in Nodes, AddLimiter(n) \/ AddNode(n) \/ AddUsers(n) \/ AddNewUsers(n)
      PROVE  Unlimited'
  BY <1>2 DEF AddLimiter, AddNode, AddUsers, AddNewUsers
<1>3. ASSUME NEW n \in Nodes, UpdateUser(n) PROVE Unlimited'
  BY <1>3 DEF UpdateUser
<1>4. ASSUME NEW n \in Nodes,
             DelNodeToClose(n) \/ \E us \in SUBSET Users : DelOldUsers(n, us) \/ DelNodeToReload(n, us)
      PROVE  Unlimited'
  BY <1>4 DEF DelNodeToClose, DelOldUsers, DelNodeToReload
<1>5. ASSUME NEW n \in Nodes, DeleteLimiter(n) \/ CloseController(n) PROVE Unlimited'
  BY <1>5 DEF DeleteLimiter, CloseController, DropLimiter
<1>6. ASSUME NEW c \in Conns, conn[c] # Nil, NEW b \in BOOLEAN, Write(c, b), UNCHANGED ctl
      PROVE  Unlimited'
  BY <1>6, WriteUnlimited
<1>7. ASSUME NEW h \in Handlers, MarkOverLimit(h) PROVE Unlimited'
  BY <1>6, <1>7 DEF MarkOverLimit, Attached, control
<1>8. ASSUME NEW c \in Conns, Cut(c) PROVE Unlimited'
  <2>1. conn[c] # Nil
    BY <1>8 DEF Cut, Attached
  <2> QED BY <1>1, <1>6, <1>8, <2>1 DEF Cut, control
<1>9. ASSUME NEW h \in Handlers,
             \/ GetLimiter(h) \/ CheckLimit(h) \/ WriteToOld(h)
             \/ \E c \in Conns : Request(h, c) \/ \E n \in Nodes, u \in Users : Authenticate(h, c, n, u)
      PROVE  Unlimited'
  BY <1>1, <1>9 DEF GetLimiter, CheckLimit, WriteToOld, Request, Authenticate, control
<1>10. ASSUME NEW c \in Conns, LogTraffic(c) \/ Disconnect(c) PROVE Unlimited'
  BY <1>1, <1>10 DEF LogTraffic, Disconnect, control
<1> QED
  BY <1>1, <1>2, <1>3, <1>4, <1>5, <1>7, <1>8, <1>9, <1>10
  DEF Next, Controllers, Connections, Over, vars, control

(* A connection and its answer: FlagIsOwnAnswer's invariant, of one.         *)
Own(c) ==
    conn[c] # Nil =>
        /\ last[c] # Nil => of[last[c]] = c /\ pc[last[c]] = verdict[c] /\ verdict[c] # "none"
        /\ flag[conn[c].node] = Nil => verdict[c] = "none"
        /\ verdict[c] # "none" /\ last[c] = Nil /\ Known(c)
           => flag[conn[c].node][conn[c].user] = (verdict[c] = "reject")

Holds(h) == pc[h] \in {"check", "pass", "reject"} => flag[conn[of[h]].node] # Nil

OwnInv == (\A c \in Conns : Own(c)) /\ \A h \in Handlers : Holds(h)

LEMMA OwnIs == HandlersInv /\ AnswersInv <=> OwnInv
BY DEF HandlersInv, AnswersInv, OwnInv, Own, Holds

(* Steps at which no limiter and no answer changes.                          *)
LEMMA Calm ==
    ASSUME TypeOK, Attached, OwnInv, Shrinks, Attached', UNCHANGED <<flag, verdict, last>>,
           \A h \in Handlers :
              \/ of'[h] = of[h] /\ pc'[h] = pc[h]
              \/ /\ pc[h] \notin {"pass", "reject"} /\ pc'[h] \notin {"pass", "reject"}
                 /\ pc'[h] = "check" => of'[h] = of[h] /\ pc[h] # "idle" /\ flag[conn[of[h]].node] # Nil
    PROVE  OwnInv'
<1>1. ASSUME NEW k \in Conns PROVE Own(k)'
  <2> SUFFICES ASSUME conn'[k] # Nil PROVE Own(k)'
    BY DEF Own
  <2>1. conn[k] # Nil /\ conn'[k].node = conn[k].node /\ conn'[k].user = conn[k].user
    BY DEF Shrinks
  <2>2. Known(k)' <=> Known(k)
    BY <2>1 DEF Known, Records
  <2>3. ASSUME last[k] # Nil
        PROVE  of'[last[k]] = k /\ pc'[last[k]] = verdict[k] /\ verdict[k] # "none"
    <3>1. last[k] \in Handlers /\ verdict[k] \in {"none", "pass", "reject"}
      BY <2>3 DEF TypeOK
    <3>2. of[last[k]] = k /\ pc[last[k]] = verdict[k] /\ verdict[k] # "none"
      BY <2>1, <2>3 DEF OwnInv, Own
    <3> QED BY <3>1, <3>2
  <2> QED BY <2>1, <2>2, <2>3 DEF OwnInv, Own
<1>2. ASSUME NEW h \in Handlers, pc'[h] \in {"check", "pass", "reject"}
      PROVE  flag'[conn'[of'[h]].node] # Nil
  <2>1. of'[h] = of[h] /\ flag[conn[of[h]].node] # Nil
    BY <1>2 DEF OwnInv, Holds
  <2>2. of'[h] \in Conns /\ conn'[of'[h]] # Nil
    BY <1>2 DEF Attached
  <2> QED BY <2>1, <2>2 DEF Shrinks
<1> QED BY <1>1, <1>2 DEF OwnInv, Holds

(* Steps that replace the limiter or records of a node, of all users of us;  *)
(* handlers that are to write are as they were.                              *)
LEMMA Replaced ==
    ASSUME TypeOK, Attached, OwnInv, NEW n \in Nodes, NEW us, UNCHANGED <<conn, handlers, last>>,
           verdict' = Overwritten(n, us),
           \A m \in Nodes \ {n} : flag'[m] = flag[m], flag'[n] # Nil, flag[n] # Nil,
           \A u \in Users \ us : flag'[n][u] = flag[n][u]
    PROVE  OwnInv'
<1>0. \A k \in Conns : conn[k] # Nil => conn[k].node \in Nodes /\ conn[k].user \in Users
  BY DEF TypeOK, Connected
<1>1. ASSUME NEW k \in Conns, conn[k] # Nil PROVE Own(k)'
  <2>1. verdict'[k] = IF conn[k].node = n /\ conn[k].user \in us /\ last[k] = Nil THEN "none"
                      ELSE verdict[k]
    BY <1>1 DEF Overwritten, On
  <2>2. CASE conn[k].node = n /\ conn[k].user \in us
    BY <1>1, <2>1, <2>2 DEF OwnInv, Own, handlers
  <2>3. CASE conn[k].node # n
    <3>1. flag'[conn[k].node] = flag[conn[k].node] /\ (Known(k)' <=> Known(k))
      BY <1>0, <1>1, <2>3 DEF Known, Records
    <3> QED BY <1>1, <2>1, <2>3, <3>1 DEF OwnInv, Own, handlers
  <2>4. CASE conn[k].node = n /\ conn[k].user \notin us
    <3>1. flag'[conn[k].node][conn[k].user] = flag[conn[k].node][conn[k].user]
      BY <1>0, <1>1, <2>4
    <3>2. Known(k)' <=> Known(k)
      BY <1>0, <1>1, <2>4, <3>1 DEF Known, Records
    <3> QED BY <1>1, <2>1, <2>4, <3>1, <3>2 DEF OwnInv, Own, handlers
  <2> QED BY <2>2, <2>3, <2>4
<1>2. \A k \in Conns : Own(k)'
  BY <1>1 DEF Own
<1>3. ASSUME NEW h \in Handlers, pc[h] \in {"check", "pass", "reject"}
      PROVE  flag'[conn[of[h]].node] # Nil
  <2>1. flag[conn[of[h]].node] # Nil
    BY <1>3 DEF OwnInv, Holds
  <2>2. conn[of[h]].node \in Nodes
    BY <1>0, <1>3 DEF Attached
  <2> QED BY <2>1, <2>2
<1> QED BY <1>2, <1>3 DEF OwnInv, Holds, handlers

(* A write of OverLimit leaves each connection with its own answer, but that *)
(* the writer's own may now be written.                                      *)
LEMMA WriteKeeps ==
    ASSUME TypeOK, OwnInv, NEW c \in Conns, conn[c] # Nil, NEW b \in BOOLEAN, Write(c, b),
           Shrinks, NEW k \in Conns, conn'[k] # Nil, last'[k] = last[k],
           last[k] # Nil => of'[last[k]] = of[last[k]] /\ pc'[last[k]] = pc[last[k]]
    PROVE  Own(k)'
<1>0. \A d \in Conns : conn[d] # Nil => conn[d].node \in Nodes /\ conn[d].user \in Users
  BY DEF TypeOK, Connected
<1>1. conn[k] # Nil /\ conn'[k].node = conn[k].node /\ conn'[k].user = conn[k].user
  BY DEF Shrinks
<1>2. \A m \in Nodes : flag'[m] = Nil <=> flag[m] = Nil
  BY WriteIs
<1>3. CASE UNCHANGED <<flag, verdict>>
  <2>1. Known(k)' <=> Known(k)
    BY <1>1, <1>3 DEF Known, Records
  <2> QED BY <1>1, <1>3, <2>1 DEF OwnInv, Own
<1>4. CASE /\ verdict' = Overwritten(conn[c].node, {conn[c].user})
           /\ \A m \in Nodes, u \in Users :
                 ~ (m = conn[c].node /\ u = conn[c].user) => flag'[m][u] = flag[m][u]
  <2>1. verdict'[k] = IF conn[k].node = conn[c].node /\ conn[k].user = conn[c].user /\ last[k] = Nil
                      THEN "none" ELSE verdict[k]
    BY <1>1, <1>4 DEF Overwritten, On
  <2>2. CASE conn[k].node = conn[c].node /\ conn[k].user = conn[c].user
    BY <1>0, <1>1, <1>2, <2>1, <2>2 DEF OwnInv, Own
  <2>3. CASE ~ (conn[k].node = conn[c].node /\ conn[k].user = conn[c].user)
    <3>1. flag'[conn[k].node][conn[k].user] = flag[conn[k].node][conn[k].user]
      BY <1>0, <1>1, <1>4, <2>3
    <3>2. Known(k)' <=> Known(k)
      BY <1>0, <1>1, <1>2, <3>1 DEF Known, Records
    <3> QED BY <1>0, <1>1, <1>2, <2>1, <2>3, <3>1, <3>2 DEF OwnInv, Own
  <2> QED BY <2>2, <2>3
<1> QED BY <1>3, <1>4, WriteIs

LEMMA OwnStep ==
    ASSUME TypeOK, Attached, Limited, Unlimited, OwnInv, [Next]_vars, Attached'
    PROVE  OwnInv'
<1> USE Hy2Assumption
<1>0. \A k \in Conns : conn[k] # Nil => conn[k].node \in Nodes /\ conn[k].user \in Users
  BY DEF TypeOK, Connected
<1>1. ASSUME UNCHANGED <<flag, verdict, last, conn, handlers>> PROVE OwnInv'
  <2>1. Shrinks
    BY <1>1 DEF Shrinks, TypeOK
  <2> QED BY <1>1, <2>1, Calm DEF handlers
<1>2. ASSUME NEW n \in Nodes, AddLimiter(n) PROVE OwnInv'
  <2>1. /\ UNCHANGED <<conn, handlers, verdict, last>> /\ flag[n] = Nil
        /\ \A m \in Nodes \ {n} : flag'[m] = flag[m]
    BY <1>2 DEF AddLimiter, answers, Unlimited, TypeOK
  <2>2. flag'[n] \in Flags
    BY <1>2 DEF AddLimiter, Flags, TypeOK
  <2>3. ASSUME NEW k \in Conns, conn[k] # Nil PROVE Own(k)'
    <3>1. CASE conn[k].node = n
      <4>1. verdict[k] = "none" /\ last[k] = Nil
        BY <2>1, <2>3, <3>1 DEF OwnInv, Own
      <4> QED BY <2>1, <4>1 DEF Own
    <3>2. CASE conn[k].node # n
      <4>1. flag'[conn[k].node] = flag[conn[k].node] /\ (Known(k)' <=> Known(k))
        BY <1>0, <2>1, <2>3, <3>2 DEF Known, Records
      <4> QED BY <2>1, <2>3, <4>1 DEF OwnInv, Own, handlers
    <3> QED BY <3>1, <3>2
  <2>4. ASSUME NEW h \in Handlers, pc[h] \in {"check", "pass", "reject"}
        PROVE  flag'[conn[of[h]].node] # Nil
    <3>1. conn[of[h]].node \in Nodes /\ flag[conn[of[h]].node] # Nil
      BY <1>0, <2>4 DEF Attached, OwnInv, Holds
    <3> QED BY <2>1, <3>1
  <2> QED BY <2>1, <2>3, <2>4 DEF OwnInv, Own, Holds, handlers
<1>3. ASSUME NEW n \in Nodes,
             AddNode(n) \/ AddUsers(n) \/ AddNewUsers(n) \/ \E us \in SUBSET Users : DelOldUsers(n, us)
      PROVE  OwnInv'
  BY <1>1, <1>3 DEF AddNode, AddUsers, AddNewUsers, DelOldUsers, answers
<1>4. ASSUME NEW n \in Nodes, UpdateUser(n) PROVE OwnInv'
  <2> DEFINE us == (list[n] \ next[n]) \cup (next[n] \ list[n])
  <2>1. /\ UNCHANGED <<conn, handlers, last>> /\ verdict' = Overwritten(n, us)
        /\ flag' = [flag EXCEPT ![n] = [u \in Users |->
                       IF u \in list[n] \ next[n] THEN Nil
                       ELSE IF u \in next[n] \ list[n] THEN FALSE ELSE flag[n][u]]]
    BY <1>4 DEF UpdateUser, Replace, TypeOK
  <2>2. flag[n] # Nil
    BY <1>4 DEF UpdateUser, Limited
  <2>3. flag'[n] # Nil
    BY <1>4, <2>2, UpdateType
  <2>4. (\A m \in Nodes \ {n} : flag'[m] = flag[m]) /\ \A u \in Users \ us : flag'[n][u] = flag[n][u]
    BY <2>1 DEF TypeOK
  <2> HIDE DEF us
  <2> QED BY <2>1, <2>2, <2>3, <2>4, Replaced
<1>5. ASSUME NEW n \in Nodes,
             DelNodeToClose(n) \/ \E us \in SUBSET Users : DelNodeToReload(n, us)
      PROVE  OwnInv'
  <2>1. CloseServer(n) /\ UNCHANGED <<flag, verdict, last, handlers>>
    BY <1>5 DEF DelNodeToClose, DelNodeToReload, answers
  <2> QED BY <2>1, CloseServerShrinks, Calm DEF handlers
<1>6. ASSUME NEW n \in Nodes, DeleteLimiter(n) \/ CloseController(n) PROVE OwnInv'
  <2>1. /\ UNCHANGED <<conn, of>>
        /\ flag'[n] = Nil /\ \A m \in Nodes \ {n} : flag'[m] = flag[m]
        /\ \A k \in Conns : IF On(k, n) THEN verdict'[k] = "none" /\ last'[k] = Nil
                            ELSE verdict'[k] = verdict[k] /\ last'[k] = last[k]
        /\ \A h \in Handlers : pc'[h] = IF pc[h] \in {"check", "pass", "reject"} /\ On(of[h], n)
                                        THEN "old" ELSE pc[h]
    BY <1>6 DEF DeleteLimiter, CloseController, DropLimiter, TypeOK
  <2>2. ASSUME NEW k \in Conns, conn[k] # Nil PROVE Own(k)'
    <3>1. CASE conn[k].node = n
      BY <2>1, <2>2, <3>1 DEF Own, On
    <3>2. CASE conn[k].node # n
      <4>1. flag'[conn[k].node] = flag[conn[k].node] /\ (Known(k)' <=> Known(k))
        BY <1>0, <2>1, <2>2, <3>2 DEF Known, Records
      <4>2. verdict'[k] = verdict[k] /\ last'[k] = last[k]
        BY <2>1, <3>2 DEF On
      <4>3. last[k] # Nil => pc'[last[k]] = pc[last[k]] /\ of'[last[k]] = of[last[k]]
        BY <2>1, <2>2, <3>2 DEF OwnInv, Own, On, TypeOK
      <4> QED BY <2>1, <2>2, <4>1, <4>2, <4>3 DEF OwnInv, Own
    <3> QED BY <3>1, <3>2
  <2>3. ASSUME NEW h \in Handlers, pc'[h] \in {"check", "pass", "reject"}
        PROVE  flag'[conn[of[h]].node] # Nil
    <3>1. /\ pc[h] \in {"check", "pass", "reject"} /\ ~ On(of[h], n)
      BY <2>1, <2>3
    <3>2. flag[conn[of[h]].node] # Nil /\ conn[of[h]].node \in Nodes /\ conn[of[h]].node # n
      BY <1>0, <3>1 DEF OwnInv, Holds, Attached, On
    <3> QED BY <2>1, <3>2
  <2> QED BY <2>1, <2>2, <2>3 DEF OwnInv, Own, Holds
<1>7. ASSUME NEW h \in Handlers, NEW c \in Conns, NEW n \in Nodes, NEW u \in Users,
             Authenticate(h, c, n, u)
      PROVE  OwnInv'
  <2>1. /\ pc[h] = "idle" /\ of' = [of EXCEPT ![h] = c] /\ pc' = [pc EXCEPT ![h] = "connect"]
        /\ verdict'[c] = "none" /\ last'[c] = Nil /\ UNCHANGED flag /\ conn[c] = Nil
        /\ \A k \in Conns \ {c} :
              conn'[k] = conn[k] /\ verdict'[k] = verdict[k] /\ last'[k] = last[k]
    BY <1>7 DEF Authenticate, Begin, TypeOK
  <2>2. ASSUME NEW k \in Conns, conn'[k] # Nil PROVE Own(k)'
    <3>1. CASE k = c
      BY <2>1, <3>1 DEF Own
    <3>2. CASE k # c
      <4>1. Known(k)' <=> Known(k)
        BY <2>1, <3>2 DEF Known, Records
      <4>2. last[k] # Nil => last[k] # h /\ last[k] \in Handlers
        BY <2>1, <2>2, <3>2 DEF OwnInv, Own, TypeOK
      <4>3. last[k] # Nil => pc'[last[k]] = pc[last[k]] /\ of'[last[k]] = of[last[k]]
        BY <2>1, <4>2 DEF TypeOK
      <4> QED BY <2>1, <2>2, <3>2, <4>1, <4>3 DEF OwnInv, Own
    <3> QED BY <3>1, <3>2
  <2>3. ASSUME NEW g \in Handlers, pc'[g] \in {"check", "pass", "reject"}
        PROVE  flag'[conn'[of'[g]].node] # Nil
    <3>1. g # h /\ pc[g] = pc'[g] /\ of'[g] = of[g]
      BY <2>1, <2>3 DEF TypeOK
    <3>2. of[g] \in Conns /\ conn[of[g]] # Nil /\ flag[conn[of[g]].node] # Nil
      BY <2>3, <3>1 DEF OwnInv, Holds, Attached
    <3> QED BY <2>1, <3>1, <3>2
  <2> QED BY <2>2, <2>3 DEF OwnInv, Own, Holds
<1>8. ASSUME NEW h \in Handlers, NEW c \in Conns, Request(h, c) PROVE OwnInv'
  <2>1. UNCHANGED <<flag, verdict, last, conn>> /\ pc[h] = "idle" /\ pc'[h] = "request"
        /\ \A g \in Handlers \ {h} : of'[g] = of[g] /\ pc'[g] = pc[g]
    BY <1>8 DEF Request, Begin, answers, TypeOK
  <2>2. Shrinks
    BY <2>1 DEF Shrinks, TypeOK
  <2> QED BY <2>1, <2>2, Calm
<1>9. ASSUME NEW h \in Handlers, pc[h] \notin {"idle", "pass", "reject"}, Return(h),
             UNCHANGED <<flag, verdict, last>>
      PROVE  OwnInv'
  <2>1. Shrinks /\ pc'[h] = "idle" /\ \A g \in Handlers \ {h} : of'[g] = of[g] /\ pc'[g] = pc[g]
    BY <1>9, ReturnIs DEF TypeOK
  <2> QED BY <1>9, <2>1, Calm
<1>10. ASSUME NEW h \in Handlers, GetLimiter(h) PROVE OwnInv'
  <2>1. CASE flag[conn[of[h]].node] # Nil
    <3>1. UNCHANGED <<flag, verdict, last, conn, of>> /\ pc[h] \in {"connect", "request"}
          /\ pc'[h] = "check" /\ \A g \in Handlers \ {h} : pc'[g] = pc[g]
      BY <1>10, <2>1 DEF GetLimiter, answers, TypeOK
    <3>2. Shrinks
      BY <3>1 DEF Shrinks, TypeOK
    <3> QED BY <2>1, <3>1, <3>2, Calm
  <2>2. CASE flag[conn[of[h]].node] = Nil
    BY <1>9, <1>10, <2>2 DEF GetLimiter, answers
  <2> QED BY <2>1, <2>2
<1>11. ASSUME NEW h \in Handlers, CheckLimit(h) PROVE OwnInv'
  <2>1. PICK answer \in {"pass", "reject"} :
           /\ pc' = [pc EXCEPT ![h] = answer] /\ verdict' = [verdict EXCEPT ![of[h]] = answer]
           /\ last' = [last EXCEPT ![of[h]] = h]
    BY <1>11 DEF CheckLimit
  <2>2. UNCHANGED <<flag, conn, of>> /\ pc[h] = "check"
    BY <1>11 DEF CheckLimit
  <2>3. of[h] \in Conns /\ conn[of[h]] # Nil /\ flag[conn[of[h]].node] # Nil
    BY <2>2 DEF Attached, OwnInv, Holds
  <2>4. ASSUME NEW k \in Conns, conn[k] # Nil PROVE Own(k)'
    <3>1. CASE k = of[h]
      <4>1. last'[k] = h /\ verdict'[k] = answer /\ pc'[h] = answer /\ h # Nil
        BY <2>1, <2>3, <3>1 DEF TypeOK
      <4> QED BY <2>2, <2>3, <3>1, <4>1 DEF Own
    <3>2. CASE k # of[h]
      <4>1. last'[k] = last[k] /\ verdict'[k] = verdict[k] /\ (Known(k)' <=> Known(k))
        BY <2>1, <2>2, <3>2 DEF TypeOK, Known, Records
      <4>2. last[k] # Nil => last[k] # h /\ last[k] \in Handlers
        BY <2>2, <2>4, <3>2 DEF OwnInv, Own, TypeOK
      <4>3. last[k] # Nil => pc'[last[k]] = pc[last[k]]
        BY <2>1, <4>2 DEF TypeOK
      <4> QED BY <2>2, <2>4, <4>1, <4>3 DEF OwnInv, Own
    <3> QED BY <3>1, <3>2
  <2>5. \A g \in Handlers : pc'[g] \in {"check", "pass", "reject"}
                            => pc[g] \in {"check", "pass", "reject"}
    BY <2>1, <2>2 DEF TypeOK
  <2> QED BY <2>2, <2>4, <2>5 DEF OwnInv, Own, Holds
<1>12. ASSUME NEW c \in Conns, conn[c] # Nil, NEW b \in BOOLEAN, Write(c, b), Shrinks,
              \A h \in Handlers : pc'[h] \in {"check", "pass", "reject"} =>
                 pc'[h] = pc[h] /\ of'[h] = of[h]
       PROVE  \A h \in Handlers : Holds(h)'
  <2> SUFFICES ASSUME NEW h \in Handlers, pc'[h] \in {"check", "pass", "reject"}
               PROVE  flag'[conn'[of'[h]].node] # Nil
    BY DEF Holds
  <2>1. of'[h] = of[h] /\ of[h] \in Conns /\ conn'[of[h]] # Nil /\ flag[conn[of[h]].node] # Nil
    BY <1>12 DEF OwnInv, Holds, Attached
  <2>2. conn'[of[h]].node = conn[of[h]].node /\ conn[of[h]] # Nil
    BY <1>12, <2>1 DEF Shrinks
  <2>3. conn[of[h]].node \in Nodes
    BY <1>0, <2>1, <2>2
  <2>4. \A m \in Nodes : flag'[m] = Nil <=> flag[m] = Nil
    BY <1>12, WriteIs
  <2> QED BY <2>1, <2>2, <2>3, <2>4
<1>13. ASSUME NEW h \in Handlers, MarkOverLimit(h) PROVE OwnInv'
  <2> DEFINE c == of[h]
             b == pc[h] = "reject"
  <2>1. /\ c \in Conns /\ conn[c] # Nil /\ pc[h] \in {"pass", "reject"} /\ Return(h) /\ Write(c, b)
        /\ last' = [last EXCEPT ![c] = IF last[c] = h THEN Nil ELSE last[c]]
    BY <1>13 DEF MarkOverLimit, Attached
  <2>2. /\ Shrinks /\ pc'[h] = "idle"
        /\ \A g \in Handlers \ {h} : of'[g] = of[g] /\ pc'[g] = pc[g]
    BY <2>1, ReturnIs DEF TypeOK
  <2>3. \A g \in Handlers : Holds(g)'
    BY <1>12, <2>1, <2>2
  <2>4. ASSUME NEW k \in Conns, conn'[k] # Nil, last[k] # h PROVE Own(k)'
    <3>1. last'[k] = last[k]
      BY <2>1, <2>4 DEF TypeOK
    <3>2. last[k] # Nil => of'[last[k]] = of[last[k]] /\ pc'[last[k]] = pc[last[k]]
      BY <2>2, <2>4 DEF TypeOK
    <3> QED BY <2>1, <2>2, <2>4, <3>1, <3>2, WriteKeeps
  <2>5. ASSUME NEW k \in Conns, conn'[k] # Nil, last[k] = h PROVE Own(k)'
    <3>1. /\ conn[k] # Nil /\ conn'[k].node = conn[k].node /\ conn'[k].user = conn[k].user
      BY <2>2, <2>5 DEF Shrinks
    <3>2. k = c /\ verdict[k] = pc[h] /\ flag[conn[c].node] # Nil
      BY <2>1, <2>5, <3>1 DEF OwnInv, Own, Holds
    <3>3. last'[k] = Nil
      BY <2>1, <2>5, <3>2 DEF TypeOK
    <3>4. verdict'[k] = verdict[k]
      <4>1. h # Nil
        OBVIOUS
      <4>2. verdict' = verdict \/ verdict' = Overwritten(conn[c].node, {conn[c].user})
        BY <2>1 DEF Write
      <4> QED BY <2>5, <4>1, <4>2 DEF Overwritten
    <3>5. flag'[conn[c].node] # Nil
      BY <1>0, <2>1, <3>2, WriteIs
    <3>6. Known(k)' => flag'[conn[c].node][conn[c].user] = b
      <4>1. CASE Known(c)
        BY <2>1, <4>1, WriteIs
      <4>2. CASE ~ Known(c)
        <5>1. Known(k)' <=> Known(c)
          BY <2>1, <3>1, <3>2, <4>2 DEF Write, Known, Records
        <5> QED BY <4>2, <5>1
      <4> QED BY <4>1, <4>2
    <3> QED BY <3>1, <3>2, <3>3, <3>4, <3>5, <3>6 DEF Own
  <2> QED BY <2>3, <2>4, <2>5 DEF OwnInv, Own
<1>14. ASSUME NEW h \in Handlers, WriteToOld(h) PROVE OwnInv'
  BY <1>9, <1>14 DEF WriteToOld, answers
<1>15. ASSUME NEW c \in Conns, LogTraffic(c) \/ Disconnect(c) PROVE OwnInv'
  <2>1. /\ conn[c] # Nil /\ UNCHANGED <<flag, verdict, last, handlers>>
        /\ conn' = [conn EXCEPT ![c] = Ended(c, {})] \/ UNCHANGED conn
    BY <1>15 DEF LogTraffic, Disconnect, answers
  <2>2. Shrinks
    BY <2>1, DisconnectShrinks DEF Shrinks, TypeOK
  <2> QED BY <2>1, <2>2, Calm DEF handlers
<1>16. ASSUME NEW c \in Conns, Cut(c) PROVE OwnInv'
  <2>1. Shrinks /\ conn[c] # Nil /\ UNCHANGED <<handlers, last>>
    BY <1>16, CutShrinks DEF Cut
  <2>2. CASE UNCHANGED <<flag, verdict>>
    BY <2>1, <2>2, Calm DEF handlers
  <2>3. CASE Write(c, FALSE)
    <3>1. \A h \in Handlers : Holds(h)'
      BY <1>12, <2>1, <2>3 DEF handlers
    <3>2. ASSUME NEW k \in Conns, conn'[k] # Nil PROVE Own(k)'
      BY <2>1, <2>3, <3>2, WriteKeeps DEF handlers
    <3> QED BY <3>1, <3>2 DEF OwnInv, Own
  <2> QED BY <1>16, <2>2, <2>3 DEF Cut
<1> QED
  BY <1>1, <1>2, <1>3, <1>4, <1>5, <1>6, <1>7, <1>8, <1>10, <1>11, <1>13, <1>14, <1>15, <1>16
  DEF Next, Controllers, Connections, Over, vars, answers

(* The flag OverLimit that cuts a connection (core/hy2/hook.go:41) is the    *)
(* answer its own latest check got (core/hy2/logger.go:54-61), until another *)
(* handler, of this or another connection, or the monitor writes the record. *)
THEOREM FlagIsOwnAnswerHolds == Spec => []FlagIsOwnAnswer
<1>1. Init => Unlimited /\ OwnInv
  BY DEF Init, Unlimited, OwnInv, Own, Holds
<1>2. /\ TypeOK /\ Attached /\ Limited /\ (TypeOK /\ Attached /\ Limited)'
      /\ Unlimited /\ OwnInv /\ [Next]_vars
      => (Unlimited /\ OwnInv)'
  BY UnlimitedStep, OwnStep
<1>3. OwnInv => FlagIsOwnAnswer
  BY DEF OwnInv, Own, FlagIsOwnAnswer
<1> QED BY <1>1, <1>2, <1>3, TypeCorrect, PTL DEF Spec
=============================================================================
