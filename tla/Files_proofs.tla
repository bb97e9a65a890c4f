---------------------------- MODULE Files_proofs ----------------------------
(***************************************************************************)
(* Proofs about the two components that work on files: Cert, for any       *)
(* number of nodes, days and crashes and any life of a certificate, and    *)
(* Json5, for files of any length and content.                             *)
(***************************************************************************)
EXTENDS Cert, Json5, TLAPS, WellFoundedInduction

-----------------------------------------------------------------------------
(* Cert: the pair of files.                                                  *)

(* A worker is a node's own goroutine or its renewal task.                   *)
LEMMA WorkerParts ==
    /\ \A w \in Workers : w.node \in Nodes /\ w.task \in BOOLEAN
    /\ \A w \in Workers : ~ w.task => w = OwnOf(w.node)
    /\ \A x \in Nodes : /\ OwnOf(x) \in Workers /\ OwnOf(x).node = x /\ ~ OwnOf(x).task
                        /\ TaskOf(x) \in Workers /\ TaskOf(x).node = x /\ TaskOf(x).task
<1>1. ASSUME NEW w \in Workers PROVE w.node \in Nodes /\ w.task \in BOOLEAN
  BY DEF Workers, Own, Tasks
<1>2. ASSUME NEW w \in Workers, ~ w.task PROVE w = OwnOf(w.node)
  <2>1. w \in Own
    BY <1>2 DEF Workers, Tasks
  <2> QED BY <2>1 DEF Own, OwnOf
<1>3. ASSUME NEW x \in Nodes
      PROVE  /\ OwnOf(x) \in Workers /\ OwnOf(x).node = x /\ ~ OwnOf(x).task
             /\ TaskOf(x) \in Workers /\ TaskOf(x).node = x /\ TaskOf(x).task
  BY DEF Workers, Own, Tasks, OwnOf, TaskOf
<1> QED BY <1>1, <1>2, <1>3

(* The end of the process keeps the types.                                   *)
LEMMA ProcessEndsType ==
    ASSUME TypeOK, ProcessEnds, crashes' \in 0..MaxCrashes, reloads' \in 0..MaxReloads
    PROVE  TypeOK'
BY CertAssumption
   DEF ProcessEnds, TypeOK, files, world, Certs, NoCert, Stages, Writing

LEMMA GiveUpType ==
    ASSUME TypeOK, NEW w \in Workers, GiveUp(w)
    PROVE  TypeOK'
<1> USE CertAssumption DEF TypeOK, Stages, Writing, bounds
<1>1. CASE GiveUp(w)!1
  BY <1>1, WorkerParts DEF files, world, nodes, Goto, Certs
<1>2. CASE GiveUp(w)!2
  BY <1>2, ProcessEndsType
<1>3. CASE GiveUp(w)!3
  BY <1>3, WorkerParts DEF files, world, history, Goto, Certs
<1> QED BY <1>1, <1>2, <1>3 DEF GiveUp

(* No step of a controller, a renewal task or lego (node/cert.go,            *)
(* node/lego.go) leaves a variable outside its set of values; in particular, *)
(* what is written is a certificate that was issued.                         *)
THEOREM TypeCorrect == Spec => []TypeOK
<1> USE CertAssumption
<1>1. Init => TypeOK
  <2> SUFFICES ASSUME Init PROVE TypeOK
    OBVIOUS
  <2>1. NoCert \in Certs /\ 0 \in 0..MaxDay /\ 0 \in 0..MaxCrashes /\ 0 \in 0..MaxReloads
    BY DEF Init, Certs, NoCert
  <2>2. got \in [Workers -> Certs \cup {Nil, Torn}] /\ since \in [Nodes -> 0..MaxDay]
    BY <2>1 DEF Init
  <2>3. pc \in [Workers -> Stages] /\ \A w \in Workers : pc[w] \notin Writing
    BY DEF Init, Stages, Writing
  <2> QED BY <2>1, <2>2, <2>3 DEF Init, TypeOK
<1>2. TypeOK /\ [Next]_vars => TypeOK'
  <2> SUFFICES ASSUME TypeOK, [Next]_vars PROVE TypeOK'
    OBVIOUS
  <2> USE DEF TypeOK, Stages, Writing, files, world, nodes, work, bounds, history, Goto, Certs
  <2>1. CASE UNCHANGED vars
    BY <2>1 DEF vars
  <2>2. CASE Crash
    BY <2>2, ProcessEndsType DEF Crash
  <2>3. CASE NextDay
    BY <2>3 DEF NextDay
  <2>4. ASSUME NEW x \in Nodes, StartNode(x) PROVE TypeOK'
    BY <2>4, WorkerParts DEF StartNode
  <2>5. ASSUME NEW x \in Nodes, Reload(x) PROVE TypeOK'
    BY <2>5, WorkerParts DEF Reload
  <2>6. ASSUME NEW x \in Nodes, RenewCertTask(x) PROVE TypeOK'
    BY <2>6, WorkerParts DEF RenewCertTask
  <2>7. ASSUME NEW w \in Workers, RequestCert(w) PROVE TypeOK'
    BY <2>7 DEF RequestCert
  <2>8. ASSUME NEW w \in Workers, LoadCert(w) PROVE TypeOK'
    BY <2>8, WorkerParts DEF LoadCert
  <2>9. ASSUME NEW w \in Workers, AddNode(w) PROVE TypeOK'
    <3>1. CASE ProcessEnds /\ UNCHANGED bounds
      BY <3>1, ProcessEndsType
    <3>2. CASE ~ (ProcessEnds /\ UNCHANGED bounds)
      <4> DEFINE renews == ctl[w.node] = "starting" /\ tls[w.node] /\ mode = "acme"
      <4>1. w.node \in Nodes /\ renews \in BOOLEAN /\ NoCert \in Certs
        BY WorkerParts DEF NoCert
      <4>2. /\ ctl' = [ctl EXCEPT ![w.node] = "up"]
            /\ task' = [task EXCEPT ![w.node] = @ \/ renews]
            /\ due' = [due EXCEPT ![w.node] = @ \/ renews]
            /\ since' = [since EXCEPT ![w.node] = IF renews THEN day ELSE @]
            /\ got' = [got EXCEPT ![w] = NoCert]
            /\ raced' = raced \ {w.node}
            /\ pc' = [pc EXCEPT ![w] = "idle"]
            /\ UNCHANGED <<files, world, tls, bounds, spoiled, cut, failed>>
        BY <2>9, <3>2 DEF AddNode
      <4> HIDE DEF renews
      <4>3. task' \in [Nodes -> BOOLEAN] /\ due' \in [Nodes -> BOOLEAN]
        BY <4>1, <4>2
      <4>4. ctl' \in [Nodes -> {"down", "starting", "up", "reloading", "lost"}]
        BY <4>1, <4>2
      <4>5. since' \in [Nodes -> 0..MaxDay] /\ pc' \in [Workers -> Stages]
        BY <4>1, <4>2
      <4>6. got' \in [Workers -> Certs' \cup {Nil, Torn}]
        BY <4>1, <4>2
      <4>7. \A v \in Workers : pc'[v] \in Writing => got'[v] \in Certs'
        BY <4>1, <4>2
      <4> QED BY <4>2, <4>3, <4>4, <4>5, <4>6, <4>7
    <3> QED BY <3>1, <3>2
  <2>10. ASSUME NEW w \in Workers, NewLego(w) PROVE TypeOK'
    BY <2>10, GiveUpType DEF NewLego
  <2>11. ASSUME NEW w \in Workers, Register(w) PROVE TypeOK'
    BY <2>11, GiveUpType DEF Register
  <2>12. ASSUME NEW w \in Workers, SaveUser(w) PROVE TypeOK'
    BY <2>12 DEF SaveUser
  <2>13. ASSUME NEW w \in Workers, CheckCert(w) PROVE TypeOK'
    BY <2>13 DEF CheckCert
  <2>14. ASSUME NEW w \in Workers, Obtain(w) PROVE TypeOK'
    <3>1. CASE GiveUp(w)
      BY <3>1, GiveUpType
    <3>2. CASE Obtain(w)!2!2
      BY <3>2
    <3> QED BY <2>14, <3>1, <3>2 DEF Obtain
  <2>15. ASSUME NEW w \in Workers, TruncateCert(w) PROVE TypeOK'
    BY <2>15 DEF TruncateCert, Emptied
  <2>16. ASSUME NEW w \in Workers, PutCert(w) PROVE TypeOK'
    BY <2>16 DEF PutCert
  <2>17. ASSUME NEW w \in Workers, TruncateKey(w) PROVE TypeOK'
    BY <2>17 DEF TruncateKey, Emptied
  <2>18. ASSUME NEW w \in Workers, PutKey(w) PROVE TypeOK'
    BY <2>18 DEF PutKey, NoCert
  <2>19. CASE Over
    BY <2>1, <2>19 DEF Over
  <2> QED
    BY <2>1, <2>2, <2>3, <2>4, <2>5, <2>6, <2>7, <2>8, <2>9, <2>10, <2>11, <2>12, <2>13,
       <2>14, <2>15, <2>16, <2>17, <2>18, <2>19 DEF Next, Worker
<1> QED BY <1>1, <1>2, PTL DEF Spec

-----------------------------------------------------------------------------
(* Which pairs match, and which are loaded.                                  *)

(* What is left when the process ends is spoiled, or a pair that fits, or    *)
(* lacks a file.                                                             *)
LEMMA ProcessEndsInv ==
    ASSUME TypeOK, FilesInv, ProcessEnds
    PROVE  FilesInv'
<1>1. Writers' = {} /\ \A w \in Workers : pc'[w] = "idle"
  BY DEF ProcessEnds, Writers, Writing
<1>2. OwnInv'
  BY <1>1 DEF OwnInv
<1>3. PairInv'
  BY <1>1 DEF ProcessEnds, FilesInv, PairInv, Fits, files
<1>4. ReadInv'
  BY <1>1, WorkerParts DEF ReadInv
<1> QED BY <1>2, <1>3, <1>4 DEF FilesInv

(* A step of a worker that is not a write, and leaves the files alone.       *)
LEMMA NoWriteInv ==
    ASSUME TypeOK, FilesInv, NEW w \in Workers, pc[w] # "idle", pc[w] \notin Writing,
           NEW stage \in Stages \ {"load", "loadKey", "add", "putCert", "truncateKey", "putKey"},
           pc' = [pc EXCEPT ![w] = stage], stage = "request" => ~ w.task,
           \A v \in Workers : v # w => got'[v] = got[v],
           UNCHANGED <<cert, key, ctl, spoiled, raced>>
    PROVE  FilesInv'
<1> USE DEF TypeOK
<1>1. Writers' = Writers /\ w \notin Writers
  BY DEF Writers, Writing, Stages
<1>2. OwnInv'
  BY DEF FilesInv, OwnInv
<1>3. PairInv'
  BY <1>1 DEF FilesInv, PairInv, Fits, Writers
<1>4. ReadInv'
  BY <1>1, WorkerParts DEF FilesInv, ReadInv
<1> QED BY <1>2, <1>3, <1>4 DEF FilesInv

LEMMA GiveUpInv ==
    ASSUME TypeOK, FilesInv, NEW w \in Workers, pc[w] \in {"account", "register", "obtain"},
           GiveUp(w)
    PROVE  FilesInv'
<1> USE WorkerParts DEF TypeOK, Goto, files, world, nodes, history
<1>1. CASE w.task
  <2>1. GiveUp(w)!1
    BY <1>1 DEF GiveUp
  <2> QED BY <2>1, NoWriteInv DEF Writing, Stages
<1>2. CASE ~ w.task /\ ctl[w.node] = "starting"
  BY <1>2, ProcessEndsInv DEF GiveUp
<1>3. CASE ~ w.task /\ ctl[w.node] # "starting"
  <2>1. /\ pc' = [pc EXCEPT ![w] = "idle"] /\ ctl' = [ctl EXCEPT ![w.node] = "lost"]
        /\ UNCHANGED <<cert, key, got, spoiled, raced>>
    BY <1>3 DEF GiveUp
  <2>2. Writers' = Writers /\ w \notin Writers
    BY <2>1 DEF Writers, Writing
  <2>3. OwnInv'
    BY <1>3, <2>1 DEF FilesInv, OwnInv
  <2>4. PairInv'
    BY <2>1, <2>2 DEF FilesInv, PairInv, Fits, Writers
  <2>5. ReadInv'
    BY <2>1, <2>2 DEF FilesInv, ReadInv
  <2> QED BY <2>3, <2>4, <2>5 DEF FilesInv
<1> QED BY <1>1, <1>2, <1>3

(* A step of one goroutine that writes nothing, at whatever stage.           *)
LEMMA OthersKept ==
    ASSUME TypeOK, FilesInv, NEW w \in Workers, pc[w] \notin Writing,
           NEW stage \in Stages \ Writing, pc' = [pc EXCEPT ![w] = stage],
           \A v \in Workers : v # w => got'[v] = got[v], UNCHANGED <<cert, key, spoiled>>
    PROVE  Writers' = Writers /\ PairInv'
<1>1. Writers' = Writers /\ w \notin Writers
  BY DEF TypeOK, Writers
<1> QED BY <1>1 DEF TypeOK, FilesInv, PairInv, Fits, Writers

LEMMA FilesStep ==
    ASSUME TypeOK, FilesInv, [Next]_vars
    PROVE  FilesInv'
<1> USE CertAssumption, WorkerParts
    DEF TypeOK, files, world, nodes, work, history, Goto
<1>1. CASE UNCHANGED vars
  BY <1>1 DEF vars, FilesInv, OwnInv, PairInv, ReadInv, Writers, Fits
<1>2. CASE Crash
  BY <1>2, ProcessEndsInv DEF Crash
<1>3. CASE NextDay
  BY <1>3 DEF NextDay, FilesInv, OwnInv, PairInv, ReadInv, Writers, Fits
<1>4. ASSUME NEW x \in Nodes, StartNode(x) \/ Reload(x) PROVE FilesInv'
  <2>1. pc[OwnOf(x)] = "idle"
    BY <1>4 DEF StartNode, Reload, FilesInv, OwnInv
  <2>2. PICK stage \in {"request", "add"} : pc' = [pc EXCEPT ![OwnOf(x)] = stage]
    BY <1>4 DEF StartNode, Reload
  <2>3. /\ ctl' \in {[ctl EXCEPT ![x] = "starting"], [ctl EXCEPT ![x] = "reloading"]}
        /\ UNCHANGED <<cert, key, got, spoiled, raced>>
    BY <1>4 DEF StartNode, Reload
  <2>4. OwnInv'
    BY <2>2, <2>3 DEF FilesInv, OwnInv
  <2>5. Writers' = Writers /\ PairInv'
    BY <2>1, <2>2, <2>3, OthersKept DEF Stages, Writing
  <2>6. ReadInv'
    BY <2>2, <2>3, <2>5 DEF FilesInv, ReadInv
  <2> QED BY <2>4, <2>5, <2>6 DEF FilesInv
<1>5. ASSUME NEW x \in Nodes, RenewCertTask(x) PROVE FilesInv'
  <2>1. /\ pc[TaskOf(x)] = "idle" /\ pc' = [pc EXCEPT ![TaskOf(x)] = "account"]
        /\ UNCHANGED <<cert, key, ctl, got, spoiled, raced>>
    BY <1>5 DEF RenewCertTask
  <2>2. OwnInv'
    BY <2>1 DEF FilesInv, OwnInv
  <2>3. Writers' = Writers /\ PairInv'
    BY <2>1, OthersKept DEF Stages, Writing
  <2>4. ReadInv'
    BY <2>1, <2>3 DEF FilesInv, ReadInv
  <2> QED BY <2>2, <2>3, <2>4 DEF FilesInv
<1>6. ASSUME NEW w \in Workers, RequestCert(w) PROVE FilesInv'
  <2>1. CASE cert # Nil /\ key # Nil
    <3>1. /\ pc[w] = "request" /\ pc' = [pc EXCEPT ![w] = "load"]
          /\ UNCHANGED <<cert, key, ctl, got, spoiled, raced>>
      BY <1>6, <2>1 DEF RequestCert
    <3>2. OwnInv'
      BY <2>1, <3>1 DEF FilesInv, OwnInv
    <3>3. Writers' = Writers /\ PairInv'
      BY <3>1, OthersKept DEF Stages, Writing
    <3>4. ReadInv'
      BY <3>1, <3>3 DEF FilesInv, ReadInv
    <3> QED BY <3>2, <3>3, <3>4 DEF FilesInv
  <2>2. CASE ~ (cert # Nil /\ key # Nil)
    <3>1. PICK stage \in {"obtain", "account"} : pc' = [pc EXCEPT ![w] = stage]
      BY <1>6, <2>2 DEF RequestCert
    <3>2. pc[w] = "request" /\ UNCHANGED <<cert, key, ctl, got, spoiled, raced>>
      BY <1>6 DEF RequestCert
    <3> QED BY <3>1, <3>2, NoWriteInv DEF Writing, Stages
  <2> QED BY <2>1, <2>2
<1>7. ASSUME NEW w \in Workers, LoadCert(w) PROVE FilesInv'
  <2>1. /\ pc[w] = "load" /\ pc' = [pc EXCEPT ![w] = "loadKey"]
        /\ got' = [got EXCEPT ![w] = cert]
        /\ raced' = IF Writers # {} THEN raced \cup {w.node} ELSE raced
        /\ UNCHANGED <<cert, key, ctl, spoiled>>
    BY <1>7 DEF LoadCert
  <2>2. OwnInv'
    BY <2>1 DEF FilesInv, OwnInv
  <2>3. Writers' = Writers /\ PairInv'
    BY <2>1, OthersKept DEF Stages, Writing
  <2>4. ReadInv'
    <3> SUFFICES ASSUME NEW x \in Nodes, pc'[OwnOf(x)] = "loadKey", x \notin raced'
                 PROVE  Writers' = {} /\ got'[OwnOf(x)] = cert'
      BY DEF ReadInv
    <3>1. CASE OwnOf(x) = w
      BY <2>1, <2>3, <3>1
    <3>2. CASE OwnOf(x) # w
      BY <2>1, <2>3, <3>2 DEF FilesInv, ReadInv
    <3> QED BY <3>1, <3>2
  <2> QED BY <2>2, <2>3, <2>4 DEF FilesInv
<1>8. ASSUME NEW w \in Workers, AddNode(w) PROVE FilesInv'
  <2>1. CASE ProcessEnds
    BY <2>1, ProcessEndsInv
  <2>2. CASE ~ ProcessEnds
    <3>1. /\ pc[w] \in {"loadKey", "add"} /\ pc' = [pc EXCEPT ![w] = "idle"]
          /\ ctl' = [ctl EXCEPT ![w.node] = "up"]
          /\ got' = [got EXCEPT ![w] = NoCert] /\ raced' = raced \ {w.node}
          /\ UNCHANGED <<cert, key, spoiled>>
      BY <1>8, <2>2 DEF AddNode
    <3>2. ~ w.task /\ w = OwnOf(w.node)
      BY <3>1 DEF FilesInv, OwnInv
    <3>3. Writers' = Writers /\ PairInv'
      BY <3>1, OthersKept DEF Stages, Writing
    <3>4. OwnInv'
      <4> SUFFICES ASSUME NEW v \in Workers
                   PROVE  /\ pc'[v] \in {"request", "load", "loadKey", "add"} => ~ v.task
                          /\ pc'[v] # "idle" /\ ~ v.task =>
                                ctl'[v.node] \in {"starting", "reloading"}
                          /\ pc'[v] \in {"load", "loadKey"} => cert' # Nil /\ key' # Nil
        BY DEF OwnInv
      <4>1. CASE v = w
        BY <3>1, <4>1
      <4>2. CASE v # w
        <5>1. v.node \in Nodes /\ (~ v.task => v.node # w.node)
          BY <3>2, <4>2
        <5> QED BY <3>1, <4>2, <5>1 DEF FilesInv, OwnInv
      <4> QED BY <4>1, <4>2
    <3>5. ReadInv'
      <4> SUFFICES ASSUME NEW x \in Nodes, pc'[OwnOf(x)] = "loadKey", x \notin raced'
                   PROVE  Writers' = {} /\ got'[OwnOf(x)] = cert'
        BY DEF ReadInv
      <4>1. OwnOf(x) # w /\ x # w.node
        BY <3>1, <3>2
      <4> QED BY <3>1, <3>3, <4>1 DEF FilesInv, ReadInv
    <3> QED BY <3>3, <3>4, <3>5 DEF FilesInv
  <2> QED BY <2>1, <2>2
<1>9. ASSUME NEW w \in Workers, NewLego(w) \/ Register(w) PROVE FilesInv'
  <2>1. CASE GiveUp(w)
    BY <1>9, <2>1, GiveUpInv DEF NewLego, Register
  <2>2. CASE ~ GiveUp(w)
    <3>1. PICK stage \in {"check", "obtain", "register", "save"} :
            pc' = [pc EXCEPT ![w] = stage]
      BY <1>9, <2>2 DEF NewLego, Register
    <3>2. pc[w] \in {"account", "register"} /\ UNCHANGED <<cert, key, ctl, got, spoiled, raced>>
      BY <1>9, <2>2 DEF NewLego, Register
    <3> QED BY <3>1, <3>2, NoWriteInv DEF Writing, Stages
  <2> QED BY <2>1, <2>2
<1>10. ASSUME NEW w \in Workers, SaveUser(w) \/ CheckCert(w) PROVE FilesInv'
  BY <1>10, NoWriteInv DEF SaveUser, CheckCert, Writing, Stages
<1>11. ASSUME NEW w \in Workers, Obtain(w) PROVE FilesInv'
  <2>1. CASE GiveUp(w)
    BY <1>11, <2>1, GiveUpInv DEF Obtain
  <2>2. CASE ~ GiveUp(w)
    <3>1. /\ pc[w] = "obtain" /\ pc' = [pc EXCEPT ![w] = "truncateCert"]
          /\ \A v \in Workers : v # w => got'[v] = got[v]
          /\ UNCHANGED <<cert, key, ctl, spoiled, raced>>
      BY <1>11, <2>2 DEF Obtain
    <3> QED BY <3>1, NoWriteInv DEF Writing, Stages
  <2> QED BY <2>1, <2>2
<1>12. ASSUME NEW w \in Workers, TruncateCert(w) PROVE FilesInv'
  <2>1. /\ pc[w] = "truncateCert" /\ pc' = [pc EXCEPT ![w] = "putCert"]
        /\ cert' # Nil /\ UNCHANGED <<key, ctl, got>>
        /\ spoiled' = (Writers # {})
        /\ raced' = raced \cup {x \in Nodes : pc[OwnOf(x)] = "loadKey"}
    BY <1>12 DEF TruncateCert, Emptied
  <2>2. Writers' = Writers \cup {w} /\ w \notin Writers
    BY <2>1 DEF Writers, Writing
  <2>3. OwnInv'
    BY <2>1 DEF FilesInv, OwnInv
  <2>4. PairInv'
    <3>1. ~ spoiled' => Writers' = {w} /\ pc'[w] = "putCert"
      BY <2>1, <2>2
    <3>2. \A v \in Writers' : cert' # Nil
      BY <2>1
    <3> HIDE DEF TypeOK
    <3> QED BY <3>1, <3>2 DEF PairInv
  <2>5. ReadInv'
    BY <2>1 DEF ReadInv
  <2> QED BY <2>3, <2>4, <2>5 DEF FilesInv
<1>13. ASSUME NEW w \in Workers, PutCert(w) PROVE FilesInv'
  <2>1. /\ pc[w] = "putCert" /\ pc' = [pc EXCEPT ![w] = "truncateKey"] /\ cert' = got[w]
        /\ UNCHANGED <<key, ctl, got, spoiled, raced>>
    BY <1>13 DEF PutCert
  <2>2. Writers' = Writers /\ w \in Writers /\ cert' \notin {Nil, Torn}
    BY <2>1 DEF Writers, Writing, Certs
  <2>3. OwnInv'
    BY <2>1, <2>2 DEF FilesInv, OwnInv
  <2>4. PairInv'
    BY <2>1, <2>2 DEF FilesInv, PairInv
  <2>5. ReadInv'
    BY <2>1, <2>2 DEF FilesInv, ReadInv
  <2> QED BY <2>3, <2>4, <2>5 DEF FilesInv
<1>14. ASSUME NEW w \in Workers, TruncateKey(w) PROVE FilesInv'
  <2>1. /\ pc[w] = "truncateKey" /\ pc' = [pc EXCEPT ![w] = "putKey"] /\ key' # Nil
        /\ UNCHANGED <<cert, ctl, got, spoiled, raced>>
    BY <1>14 DEF TruncateKey, Emptied
  <2>2. Writers' = Writers /\ w \in Writers
    BY <2>1 DEF Writers, Writing
  <2>3. OwnInv'
    BY <2>1 DEF FilesInv, OwnInv
  <2>4. PairInv'
    BY <2>1, <2>2 DEF FilesInv, PairInv
  <2>5. ReadInv'
    BY <2>1, <2>2 DEF FilesInv, ReadInv
  <2> QED BY <2>3, <2>4, <2>5 DEF FilesInv
<1>15. ASSUME NEW w \in Workers, PutKey(w) PROVE FilesInv'
  <2>1. /\ pc[w] = "putKey" /\ w \in Writers /\ key' = got[w].serial /\ got[w] \in Certs
        /\ pc' = [pc EXCEPT ![w] = IF w.task THEN "idle" ELSE "load"]
        /\ got' = [got EXCEPT ![w] = NoCert]
        /\ UNCHANGED <<cert, ctl, spoiled, raced>>
    BY <1>15 DEF PutKey, Writers, Writing
  <2>2. cert # Nil /\ key' # Nil
    <3>1. got[w].serial \in Nat
      BY <2>1 DEF Certs
    <3>2. cert # Nil
      BY <2>1 DEF FilesInv, PairInv
    <3> QED BY <2>1, <3>1, <3>2
  <2>3. Writers' = Writers \ {w}
    BY <2>1 DEF Writers, Writing
  <2>4. OwnInv'
    BY <2>1, <2>2 DEF FilesInv, OwnInv
  <2>5. PairInv'
    <3>1. ASSUME ~ spoiled
          PROVE  Writers' = {} /\ Fits(cert', key')
      <4>1. cert = got[w] /\ Writers' = {}
        BY <2>1, <2>3, <3>1 DEF FilesInv, PairInv
      <4>2. got[w] \notin {Nil, Torn}
        BY <2>1 DEF Certs
      <4> QED BY <2>1, <4>1, <4>2 DEF Fits
    <3> QED BY <2>1, <2>2, <3>1 DEF PairInv
  <2>6. ReadInv'
    BY <2>1 DEF FilesInv, ReadInv
  <2> QED BY <2>4, <2>5, <2>6 DEF FilesInv
<1>16. CASE Over
  BY <1>1, <1>16 DEF Over
<1> QED
  BY <1>1, <1>2, <1>3, <1>4, <1>5, <1>6, <1>7, <1>8, <1>9, <1>10, <1>11, <1>12, <1>13, <1>14,
     <1>15, <1>16 DEF Next, Worker

(* The files of a fresh server are missing, and nothing is going on.         *)
LEMMA FilesInit == Init => FilesInv
BY WorkerParts DEF Init, FilesInv, OwnInv, PairInv, ReadInv, Writers, Writing

LEMMA FilesHold == Spec => []FilesInv
<1>1. TypeOK /\ FilesInv /\ [Next]_vars => FilesInv'
  BY FilesStep
<1> QED BY <1>1, FilesInit, TypeCorrect, PTL DEF Spec

(* When no goroutine is at work, the certificate file fits the key file      *)
(* beside it, unless two nodes wrote at once or the process ended within     *)
(* writeCert (node/lego.go), which writes the files one after the other.     *)
THEOREM PairMatchesHolds == Spec => []PairMatches
<1>1. TypeOK /\ FilesInv => PairMatches
  <2> SUFFICES ASSUME TypeOK, FilesInv, Quiet, cert # Nil, key # Nil, ~ spoiled
               PROVE  Fits(cert, key)
    BY DEF PairMatches
  <2>1. Writers = {}
    BY DEF Quiet, Writers, Writing
  <2> QED BY <2>1 DEF FilesInv, PairInv
<1> QED BY <1>1, TypeCorrect, FilesHold, PTL

(* The pair a node's core reads (AddNode after requestCert, node/cert.go)    *)
(* fits unless the pair was spoiled before the node read it or somebody was  *)
(* writing it meanwhile: whatever else cuts the first request short is made  *)
(* good by the next one.                                                     *)
THEOREM LoadsItsPairHolds == Spec => []LoadsItsPair
<1>1. FilesInv => LoadsItsPair
  <2> SUFFICES ASSUME FilesInv, NEW x \in Nodes, pc[OwnOf(x)] = "loadKey", ~ spoiled,
                      x \notin raced
               PROVE  Fits(got[OwnOf(x)], key)
    BY DEF LoadsItsPair
  <2>1. Writers = {} /\ got[OwnOf(x)] = cert /\ cert # Nil /\ key # Nil
    BY WorkerParts DEF FilesInv, ReadInv, OwnInv
  <2> QED BY <2>1 DEF FilesInv, PairInv
<1> QED BY <1>1, FilesHold, PTL

(* An account file that does not load (User.Save, node/lego.go:248) is left  *)
(* by an end of the process within Save or by two nodes that save at once,   *)
(* by nothing else: not by a refusal of the CA, nor by a node that registers *)
(* when another has, and empties the file the other has just written.        *)
THEOREM AccountLoadsHolds == Spec => []AccountLoads
<1>1. Init => AccountLoads
  BY DEF Init, AccountLoads
<1>2. ASSUME TypeOK, FilesInv, AccountLoads, [Next]_vars PROVE AccountLoads'
  <2> USE WorkerParts DEF TypeOK, Goto, files, world, history
  <2>1. ASSUME account' = account, cut' = cut,
               \A w \in Workers : pc[w] = "save" => pc'[w] = "save"
        PROVE  AccountLoads'
    BY <1>2, <2>1 DEF AccountLoads, Saving
  <2>2. ASSUME ProcessEnds PROVE AccountLoads'
    BY <1>2, <2>2 DEF ProcessEnds, AccountLoads
  <2>3. ASSUME NEW w \in Workers, pc[w] \in {"account", "register", "obtain"}, GiveUp(w)
        PROVE  AccountLoads'
    BY <1>2, <2>1, <2>2, <2>3 DEF GiveUp
  <2>4. CASE UNCHANGED vars
    BY <2>1, <2>4 DEF vars, work
  <2>5. CASE Crash
    BY <2>2, <2>5 DEF Crash
  <2>6. CASE NextDay
    BY <2>1, <2>6 DEF NextDay, work
  <2>7. ASSUME NEW x \in Nodes, StartNode(x) \/ Reload(x) PROVE AccountLoads'
    <3>1. pc[OwnOf(x)] = "idle"
      BY <1>2, <2>7 DEF StartNode, Reload, FilesInv, OwnInv
    <3> QED BY <1>2, <2>1, <2>7, <3>1 DEF StartNode, Reload
  <2>8. ASSUME NEW x \in Nodes, RenewCertTask(x) PROVE AccountLoads'
    BY <1>2, <2>1, <2>8 DEF RenewCertTask
  <2>9. ASSUME NEW w \in Workers, AddNode(w) PROVE AccountLoads'
    BY <1>2, <2>1, <2>2, <2>9 DEF AddNode
  <2>10. ASSUME NEW w \in Workers, NewLego(w) PROVE AccountLoads'
    BY <1>2, <2>1, <2>3, <2>10 DEF NewLego
  <2>11. ASSUME NEW w \in Workers, Register(w) PROVE AccountLoads'
    <3>1. CASE GiveUp(w)
      BY <2>3, <2>11, <3>1 DEF Register
    <3>2. CASE ~ GiveUp(w)
      <4>1. pc'[w] = "save"
        BY <1>2, <2>11, <3>2 DEF Register
      <4> QED BY <4>1 DEF AccountLoads, Saving
    <3> QED BY <3>1, <3>2
  <2>12. ASSUME NEW w \in Workers, SaveUser(w) PROVE AccountLoads'
    BY <1>2, <2>12 DEF SaveUser, AccountLoads
  <2>13. ASSUME NEW w \in Workers, Obtain(w) PROVE AccountLoads'
    BY <1>2, <2>1, <2>3, <2>13 DEF Obtain
  <2>14. ASSUME NEW w \in Workers,
                \/ RequestCert(w) \/ LoadCert(w) \/ CheckCert(w)
                \/ TruncateCert(w) \/ PutCert(w) \/ TruncateKey(w) \/ PutKey(w)
         PROVE  AccountLoads'
    BY <1>2, <2>1, <2>14 DEF RequestCert, LoadCert, CheckCert, TruncateCert, PutCert,
                             TruncateKey, PutKey
  <2>15. CASE Over
    BY <2>4, <2>15 DEF Over
  <2> QED
    BY <1>2, <2>4, <2>5, <2>6, <2>7, <2>8, <2>9, <2>10, <2>11, <2>12, <2>13, <2>14, <2>15
       DEF Next, Worker
<1> QED BY <1>1, <1>2, TypeCorrect, FilesHold, PTL DEF Spec

-----------------------------------------------------------------------------
(* When a certificate may run out.                                           *)

(* Dates are numbers.                                                        *)
LEMMA Dates ==
    TypeOK => /\ day \in Nat /\ failed \in Nat /\ Life \in Nat /\ Margin \in Nat
              /\ \A x \in Nodes : since[x] \in Nat
              /\ \A w \in Workers : pc[w] \in Writing => got[w].until \in Nat
              /\ Whole => cert \in Certs /\ cert.until \in Nat
BY CertAssumption DEF TypeOK, Whole, Certs

(* A certificate just obtained or written is of today: nobody sleeps over a  *)
(* renewal, and whoever overwrites the file has one of today too.            *)
LEMMA FreshStep ==
    ASSUME TypeOK, FreshInv, [Next]_vars
    PROVE  FreshInv'
<1> USE DEF TypeOK, Goto, Whole
<1>1. ASSUME UNCHANGED <<cert, day>>,
             \A w \in Workers : pc'[w] \notin Writing \/ (pc'[w] = pc[w] /\ got'[w] = got[w])
      PROVE  FreshInv'
  BY <1>1 DEF FreshInv, Writing
<1>2. ASSUME \A w \in Workers : pc'[w] = "idle" PROVE FreshInv'
  BY <1>2 DEF FreshInv
<1>3. ASSUME ProcessEnds PROVE FreshInv'
  BY <1>2, <1>3 DEF ProcessEnds
<1>4. ASSUME NEW w \in Workers, GiveUp(w) PROVE FreshInv'
  BY <1>1, <1>3, <1>4 DEF GiveUp, files, world, Writing
<1>5. CASE UNCHANGED vars
  BY <1>1, <1>5 DEF vars, files, world, work
<1>6. CASE Crash
  BY <1>3, <1>6 DEF Crash
<1>7. CASE NextDay
  BY <1>2, <1>7 DEF NextDay, work
<1>8. ASSUME NEW x \in Nodes, StartNode(x) \/ Reload(x) \/ RenewCertTask(x) PROVE FreshInv'
  BY <1>1, <1>8 DEF StartNode, Reload, RenewCertTask, files, world, Writing
<1>9. ASSUME NEW w \in Workers, RequestCert(w) \/ LoadCert(w) \/ SaveUser(w) \/ CheckCert(w)
      PROVE  FreshInv'
  BY <1>1, <1>9 DEF RequestCert, LoadCert, SaveUser, CheckCert, files, world, Writing
<1>10. ASSUME NEW w \in Workers, AddNode(w) PROVE FreshInv'
  BY <1>1, <1>3, <1>10 DEF AddNode, files, world, Writing
<1>11. ASSUME NEW w \in Workers, NewLego(w) \/ Register(w) PROVE FreshInv'
  BY <1>1, <1>4, <1>11 DEF NewLego, Register, files, world, Writing
<1>12. ASSUME NEW w \in Workers, Obtain(w) PROVE FreshInv'
  <2>1. CASE GiveUp(w)
    BY <1>4, <2>1
  <2>2. CASE ~ GiveUp(w)
    <3>1. /\ pc' = [pc EXCEPT ![w] = "truncateCert"] /\ UNCHANGED <<cert, day>>
          /\ \A v \in Workers : v # w => got'[v] = got[v]
      BY <1>12, <2>2 DEF Obtain, files
    <3>2. got'[w].until >= day + Life
      <4>1. PICK u \in {MaxDay + Life, day + Life} :
              got' = [got EXCEPT ![w] = [serial |-> issued', until |-> u]]
        BY <1>12, <2>2 DEF Obtain
      <4>2. u >= day + Life
        BY CertAssumption
      <4> QED BY <4>1, <4>2
    <3> QED BY <3>1, <3>2 DEF FreshInv
  <2> QED BY <2>1, <2>2
<1>13. ASSUME NEW w \in Workers, TruncateCert(w) PROVE FreshInv'
  <2>1. /\ pc[w] = "truncateCert" /\ pc' = [pc EXCEPT ![w] = "putCert"]
        /\ cert' = cert \/ cert' = Torn
        /\ UNCHANGED <<got, day>>
    BY <1>13 DEF TruncateCert, Emptied, world
  <2> QED BY <2>1 DEF FreshInv
<1>14. ASSUME NEW w \in Workers, PutCert(w) PROVE FreshInv'
  <2>1. /\ pc[w] = "putCert" /\ pc' = [pc EXCEPT ![w] = "truncateKey"] /\ cert' = got[w]
        /\ UNCHANGED <<got, day>>
    BY <1>14 DEF PutCert, world
  <2>2. got[w].until >= day + Life
    BY <2>1 DEF FreshInv
  <2> QED BY <2>1, <2>2 DEF FreshInv
<1>15. ASSUME NEW w \in Workers, TruncateKey(w) PROVE FreshInv'
  <2>1. /\ pc[w] = "truncateKey" /\ pc' = [pc EXCEPT ![w] = "putKey"]
        /\ UNCHANGED <<cert, got, day>>
    BY <1>15 DEF TruncateKey, world
  <2> QED BY <2>1 DEF FreshInv
<1>16. ASSUME NEW w \in Workers, PutKey(w) PROVE FreshInv'
  <2>1. /\ pc' = [pc EXCEPT ![w] = "idle"] /\ got' = [got EXCEPT ![w] = NoCert]
        /\ UNCHANGED <<cert, day>>
        \/ /\ pc' = [pc EXCEPT ![w] = "load"] /\ got' = [got EXCEPT ![w] = NoCert]
           /\ UNCHANGED <<cert, day>>
    BY <1>16 DEF PutKey, world
  <2> QED BY <2>1 DEF FreshInv
<1>17. CASE Over
  BY <1>5, <1>17 DEF Over
<1> QED
  BY <1>5, <1>6, <1>7, <1>8, <1>9, <1>10, <1>11, <1>12, <1>13, <1>14, <1>15, <1>16, <1>17
     DEF Next, Worker

(* A node for which nothing has changed but that renewals have failed.       *)
LEMMA RenewedKept ==
    ASSUME TypeOK, TypeOK', NEW x \in Nodes, Renewed(x), UNCHANGED <<cert, day>>,
           failed' >= failed, InCharge(x)' => InCharge(x),
           InCharge(x)' /\ RanToday(x)' => RanToday(x) \/ failed' >= DaysLate + 1
                                           \/ failed' >= Margin + 2
    PROVE  Renewed(x)'
<1>1. InCharge(x)' => Whole /\ Whole'
  BY DEF InCharge
<1>2. Whole => DaysLate \in Int /\ DaysLate' = DaysLate
  BY Dates DEF DaysLate
<1>3. failed \in Nat /\ failed' \in Nat /\ Margin \in Nat
  BY CertAssumption DEF TypeOK
<1>4. \A d \in Int : FailedOn(d) => FailedOn(d)'
  BY <1>3 DEF FailedOn
<1> SUFFICES ASSUME InCharge(x)' PROVE FailedOn(DaysLate)' /\ (RanToday(x)' => FailedOn(DaysLate + 1)')
  BY DEF Renewed
<1>5. FailedOn(DaysLate)'
  BY <1>1, <1>2, <1>3 DEF Renewed, FailedOn
<1>6. RanToday(x)' => FailedOn(DaysLate + 1)'
  BY <1>1, <1>2, <1>3 DEF Renewed, FailedOn
<1> QED BY <1>5, <1>6

(* A certificate of today, or none, asks nothing of anybody.                 *)
LEMMA NotDueYet ==
    ASSUME TypeOK, Margin < Life, NEW x \in Nodes, Whole => cert.until >= day + Life
    PROVE  Renewed(x) /\ (Whole => failed >= DaysLate + 1)
<1>1. Whole => DaysLate + 1 <= 0 /\ DaysLate \in Int
  BY Dates DEF DaysLate
<1>2. failed \in Nat
  BY Dates
<1> QED BY <1>1, <1>2 DEF Renewed, InCharge, FailedOn

(* Each day on which a node's task finds the certificate running out, it     *)
(* renews it or counts a failure.                                            *)
LEMMA RenewStep ==
    ASSUME Margin < Life, TypeOK, TypeOK', OwnInv, FreshInv, RenewInv, [Next]_vars, NEW x \in Nodes
    PROVE  Renewed(x)'
<1> USE DEF Goto
<1>0. /\ Renewed(x) /\ TaskOf(x) \in Workers /\ pc \in [Workers -> Stages]
      /\ due \in [Nodes -> BOOLEAN] /\ task \in [Nodes -> BOOLEAN]
      /\ since \in [Nodes -> 0..MaxDay] /\ failed \in Nat /\ failed' \in Nat
      /\ Margin \in Nat
  BY WorkerParts, CertAssumption DEF RenewInv, TypeOK
<1>1. ASSUME UNCHANGED <<cert, day, failed, task, since>>, due'[x] = due[x],
             pc'[TaskOf(x)] \in {pc[TaskOf(x)]} \cup (Stages \ {"idle"})
      PROVE  Renewed(x)'
  <2>1. InCharge(x)' => InCharge(x)
    BY <1>1 DEF InCharge, Whole
  <2>2. RanToday(x)' => RanToday(x)
    BY <1>1 DEF RanToday
  <2> QED BY <1>0, <1>1, <2>1, <2>2, RenewedKept
<1>2. ASSUME ~ task'[x] PROVE Renewed(x)'
  BY <1>2 DEF Renewed, InCharge
<1>3. ASSUME ProcessEnds PROVE Renewed(x)'
  BY <1>2, <1>3 DEF ProcessEnds
<1>4. ASSUME NEW w \in Workers, GiveUp(w) PROVE Renewed(x)'
  <2>1. CASE GiveUp(w)!1
    <3>1. /\ w.task /\ pc' = [pc EXCEPT ![w] = "idle"]
          /\ UNCHANGED <<cert, day, task, since, due>>
          /\ failed' = IF failed < Margin + 2 /\ RunsOut THEN failed + 1 ELSE failed
      BY <2>1 DEF files, world, nodes
    <3>2. InCharge(x)' => InCharge(x)
      BY <3>1 DEF InCharge, Whole
    <3>3. failed' >= failed
      BY <1>0, <3>1
    <3>4. CASE TaskOf(x) # w
      <4>1. RanToday(x)' => RanToday(x)
        BY <1>0, <3>1, <3>4 DEF RanToday
      <4> QED BY <1>0, <3>1, <3>2, <3>3, <4>1, RenewedKept
    <3>5. ASSUME InCharge(x) PROVE failed' >= DaysLate + 1 \/ failed' >= Margin + 2
      <4>1. Whole /\ day \in Nat /\ cert.until \in Nat
        BY <3>5, Dates DEF InCharge
      <4>2. FailedOn(DaysLate)
        BY <1>0, <3>5 DEF Renewed
      <4>3. CASE RunsOut
        BY <1>0, <3>1, <4>1, <4>2, <4>3 DEF FailedOn, DaysLate
      <4>4. CASE ~ RunsOut
        <5>1. DaysLate + 1 <= 0
          BY <1>0, <4>1, <4>4 DEF RunsOut, Whole, DaysLate
        <5> QED BY <1>0, <4>1, <5>1 DEF DaysLate
      <4> QED BY <4>3, <4>4
    <3> QED BY <1>0, <3>1, <3>2, <3>3, <3>4, <3>5, RenewedKept
  <2>2. CASE GiveUp(w)!2
    BY <1>3, <2>2
  <2>3. CASE GiveUp(w)!3
    <3>1. pc' = [pc EXCEPT ![w] = "idle"] /\ TaskOf(x) # w
      BY <2>3, WorkerParts
    <3> QED BY <1>0, <1>1, <2>3, <3>1 DEF files, world, history
  <2>4. GiveUp(w)!1 \/ GiveUp(w)!2 \/ GiveUp(w)!3
    BY <1>4 DEF GiveUp
  <2> QED BY <2>1, <2>2, <2>3, <2>4
<1>5. CASE UNCHANGED vars
  BY <1>1, <1>5 DEF vars, files, world, nodes, work, history
<1>6. CASE Crash
  BY <1>3, <1>6 DEF Crash
<1>7. CASE NextDay
  <2>1. /\ day' = day + 1 /\ due' = task /\ ~ due[x] /\ pc[TaskOf(x)] = "idle"
        /\ UNCHANGED <<cert, task, since, failed>>
    BY <1>0, <1>7 DEF NextDay, files, history
  <2>2. ASSUME InCharge(x)' PROVE FailedOn(DaysLate)' /\ ~ RanToday(x)'
    <3>1. InCharge(x) /\ Whole /\ task'[x] /\ RanToday(x)
      BY <2>1, <2>2 DEF InCharge, Whole, RanToday
    <3>2. FailedOn(DaysLate + 1)
      BY <1>0, <3>1 DEF Renewed
    <3>3. day \in Nat /\ cert.until \in Nat
      BY <3>1, Dates
    <3>4. DaysLate' = DaysLate + 1
      BY <1>0, <2>1, <3>3 DEF DaysLate
    <3> QED BY <2>1, <3>1, <3>2, <3>4 DEF FailedOn, RanToday
  <2> QED BY <2>2 DEF Renewed
<1>8. ASSUME NEW y \in Nodes, StartNode(y) \/ Reload(y) PROVE Renewed(x)'
  <2>1. TaskOf(x) # OwnOf(y)
    BY WorkerParts
  <2>2. pc'[TaskOf(x)] = pc[TaskOf(x)]
    BY <1>0, <1>8, <2>1 DEF StartNode, Reload
  <2> QED BY <1>1, <1>8, <2>2 DEF StartNode, Reload, files, world, history
<1>9. ASSUME NEW y \in Nodes, RenewCertTask(y) PROVE Renewed(x)'
  <2>1. /\ due' = [due EXCEPT ![y] = FALSE] /\ pc' = [pc EXCEPT ![TaskOf(y)] = "account"]
        /\ UNCHANGED <<cert, day, failed, task, since>>
    BY <1>9 DEF RenewCertTask, files, world, history
  <2>2. InCharge(x)' => InCharge(x)
    BY <2>1 DEF InCharge, Whole
  <2>3. RanToday(x)' => RanToday(x)
    BY <1>0, <2>1 DEF RanToday, TaskOf
  <2> QED BY <1>0, <2>1, <2>2, <2>3, RenewedKept
<1>10. ASSUME NEW w \in Workers, RequestCert(w) \/ LoadCert(w) \/ SaveUser(w)
       PROVE  Renewed(x)'
  BY <1>0, <1>1, <1>10 DEF RequestCert, LoadCert, SaveUser, files, world, nodes, history, Stages
<1>11. ASSUME NEW w \in Workers, CheckCert(w) PROVE Renewed(x)'
  <2>1. /\ pc' = [pc EXCEPT ![w] = IF Whole /\ NeedsRenewal(cert) THEN "obtain" ELSE "idle"]
        /\ UNCHANGED <<cert, day, failed, task, since, due>>
    BY <1>11 DEF CheckCert, Whole, files, world, nodes, history
  <2>2. CASE TaskOf(x) # w \/ (Whole /\ NeedsRenewal(cert))
    BY <1>0, <1>1, <2>1, <2>2 DEF Stages
  <2>3. CASE ~ (Whole /\ NeedsRenewal(cert))
    <3>1. InCharge(x)' => InCharge(x)
      BY <2>1 DEF InCharge, Whole
    <3>2. Whole => failed' >= DaysLate + 1
      <4> SUFFICES ASSUME Whole PROVE failed' >= DaysLate + 1
        OBVIOUS
      <4>1. day \in Nat /\ cert.until \in Nat
        BY Dates
      <4>2. DaysLate + 1 <= 0 /\ DaysLate \in Int
        BY <1>0, <2>3, <4>1 DEF DaysLate, NeedsRenewal
      <4> QED BY <1>0, <4>2
    <3> QED BY <1>0, <2>1, <3>1, <3>2, RenewedKept DEF InCharge
  <2> QED BY <2>2, <2>3
<1>12. ASSUME NEW w \in Workers, AddNode(w) PROVE Renewed(x)'
  <2> DEFINE renews == ctl[w.node] = "starting" /\ tls[w.node] /\ mode = "acme"
  <2>1. CASE ProcessEnds
    BY <1>3, <2>1
  <2>2. CASE ~ ProcessEnds
    <3>1. /\ pc[w] \in {"loadKey", "add"} /\ pc' = [pc EXCEPT ![w] = "idle"]
          /\ task' = [task EXCEPT ![w.node] = @ \/ renews]
          /\ due' = [due EXCEPT ![w.node] = @ \/ renews]
          /\ since' = [since EXCEPT ![w.node] = IF renews THEN day ELSE @]
          /\ UNCHANGED <<cert, day, failed>>
      BY <1>12, <2>2 DEF AddNode, files, world
    <3> HIDE DEF renews
    <3>2. CASE x = w.node /\ renews
      <4>1. since'[x] = day /\ due'[x]
        BY <1>0, <3>1, <3>2
      <4>2. ASSUME InCharge(x)' PROVE FailedOn(DaysLate)' /\ ~ RanToday(x)'
        <5>1. Whole /\ day <= cert.until - Margin
          BY <3>1, <4>1, <4>2 DEF InCharge, Whole
        <5>2. day \in Nat /\ cert.until \in Nat
          BY <5>1, Dates
        <5>3. DaysLate' <= 0 /\ DaysLate' \in Int
          BY <1>0, <3>1, <5>1, <5>2 DEF DaysLate
        <5> QED BY <1>0, <4>1, <5>3 DEF FailedOn, RanToday
      <4> QED BY <4>2 DEF Renewed
    <3>3. CASE x # w.node \/ ~ renews
      <4>1. task'[x] = task[x] /\ due'[x] = due[x] /\ since'[x] = since[x]
        BY <1>0, <3>1, <3>3
      <4>2. InCharge(x)' => InCharge(x)
        BY <3>1, <4>1 DEF InCharge, Whole
      <4>3. RanToday(x)' => RanToday(x) \/ TaskOf(x) = w
        BY <1>0, <3>1, <4>1 DEF RanToday
      <4>4. TaskOf(x) # w
        BY <3>1, WorkerParts DEF OwnInv
      <4> QED BY <1>0, <3>1, <4>2, <4>3, <4>4, RenewedKept
    <3> QED BY <3>2, <3>3
  <2> QED BY <2>1, <2>2
<1>13. ASSUME NEW w \in Workers, NewLego(w) \/ Register(w) PROVE Renewed(x)'
  BY <1>0, <1>1, <1>4, <1>13 DEF NewLego, Register, files, world, nodes, history, Stages
<1>14. ASSUME NEW w \in Workers, Obtain(w) PROVE Renewed(x)'
  <2>1. CASE GiveUp(w)
    BY <1>4, <2>1
  <2>2. CASE ~ GiveUp(w)
    <3>1. /\ pc' = [pc EXCEPT ![w] = "truncateCert"]
          /\ UNCHANGED <<files, day, nodes, history>>
      BY <1>14, <2>2 DEF Obtain
    <3> QED BY <1>0, <1>1, <3>1 DEF files, nodes, history, Stages, Writing
  <2> QED BY <2>1, <2>2
<1>15. ASSUME NEW w \in Workers, TruncateCert(w) PROVE Renewed(x)'
  <2>1. /\ pc' = [pc EXCEPT ![w] = "putCert"]
        /\ cert' = cert \/ cert' = Torn
        /\ UNCHANGED <<day, failed, task, since, due>>
    BY <1>15 DEF TruncateCert, Emptied, world, nodes
  <2>2. CASE cert' = cert
    <3>1. pc'[TaskOf(x)] \in {pc[TaskOf(x)], "putCert"}
      BY <1>0, <2>1
    <3> QED BY <1>1, <2>1, <2>2, <3>1 DEF Stages, Writing
  <2>3. CASE cert' = Torn
    BY <2>3 DEF Renewed, InCharge, Whole
  <2> QED BY <2>1, <2>2, <2>3
<1>16. ASSUME NEW w \in Workers, PutCert(w) PROVE Renewed(x)'
  <2>1. /\ pc[w] = "putCert" /\ cert' = got[w] /\ failed' = 0 /\ day' = day
    BY <1>16 DEF PutCert, world
  <2>2. got[w].until >= day + Life /\ got[w].until \in Nat /\ day \in Nat /\ Life \in Nat
    BY <2>1, Dates DEF FreshInv, Writing
  <2>3. DaysLate' \in Int /\ DaysLate' + 1 <= 0 /\ failed' >= DaysLate'
    BY <1>0, <2>1, <2>2 DEF DaysLate
  <2>4. FailedOn(DaysLate)'
    BY <2>1, <2>3 DEF FailedOn
  <2>5. FailedOn(DaysLate + 1)'
    BY <2>1, <2>3 DEF FailedOn
  <2> QED BY <2>4, <2>5 DEF Renewed
<1>17. ASSUME NEW w \in Workers, TruncateKey(w) PROVE Renewed(x)'
  BY <1>0, <1>1, <1>17 DEF TruncateKey, world, nodes, history, Stages, Writing
<1>18. ASSUME NEW w \in Workers, PutKey(w) PROVE Renewed(x)'
  <2>1. /\ pc[w] = "putKey" /\ UNCHANGED <<cert, day, failed, task, since, due>>
        /\ \A v \in Workers : v # w => pc'[v] = pc[v]
    BY <1>0, <1>18 DEF PutKey, world, nodes, history
  <2>2. Whole => cert.until >= day + Life
    BY <2>1 DEF FreshInv
  <2>3. Whole => failed >= DaysLate + 1
    BY <2>2, NotDueYet
  <2>4. InCharge(x)' => InCharge(x) /\ Whole
    BY <2>1 DEF InCharge, Whole
  <2> QED BY <1>0, <2>1, <2>3, <2>4, RenewedKept
<1>19. CASE Over
  BY <1>5, <1>19 DEF Over
<1> QED
  BY <1>5, <1>6, <1>7, <1>8, <1>9, <1>10, <1>11, <1>12, <1>13, <1>14, <1>15, <1>16, <1>17,
     <1>18, <1>19 DEF Next, Worker

(* When a certificate has run out under a node that renews it, its renewal   *)
(* has failed on each of the last Margin + 1 days and on the day after: the  *)
(* task neither stops nor looks a day late (Lego.CheckCert, renewCertTask),  *)
(* whatever the other nodes do to the file.                                  *)
THEOREM ExpiryIsRefusedHolds == ASSUME Margin < Life PROVE Spec => []ExpiryIsRefused
<1>1. Init => FreshInv /\ RenewInv
  BY DEF Init, FreshInv, RenewInv, Renewed, InCharge
<1>2. /\ TypeOK /\ TypeOK' /\ FilesInv /\ FreshInv /\ RenewInv /\ [Next]_vars
      => FreshInv' /\ RenewInv'
  BY FreshStep, RenewStep DEF RenewInv, FilesInv
<1>3. TypeOK /\ RenewInv => ExpiryIsRefused
  <2> SUFFICES ASSUME TypeOK, RenewInv, NEW x \in Nodes, task[x], Quiet, ~ due[x], Whole,
                      cert.until < day, since[x] <= cert.until - Margin
               PROVE  failed >= Margin + 2
    BY DEF ExpiryIsRefused, Whole
  <2>1. InCharge(x) /\ RanToday(x)
    BY WorkerParts DEF InCharge, RanToday, Quiet
  <2>2. FailedOn(DaysLate + 1)
    BY <2>1 DEF RenewInv, Renewed
  <2>3. day \in Nat /\ cert.until \in Nat /\ Margin \in Nat /\ failed \in Nat
    BY Dates
  <2> QED BY <2>2, <2>3 DEF FailedOn, DaysLate
<1> QED BY <1>1, <1>2, <1>3, TypeCorrect, FilesHold, PTL DEF Spec

-----------------------------------------------------------------------------
(* Json5.                                                                    *)

(* A set of naturals that has an element has a least one: with it, what a   *)
(* recursive definition computes is proved by induction.                    *)
LEMMA Least ==
    ASSUME NEW T, T \subseteq Nat, T # {}
    PROVE  \E x \in T : \A y \in T : x <= y
<1>1. PICK x \in T : \A y \in T : <<y, x>> \notin OpToRel(<, Nat)
  BY NatLessThanWellFounded, WFMin, Zenon
<1>2. ASSUME NEW y \in T PROVE x <= y
  <2>1. <<y, x>> \notin {r \in Nat \X Nat : r[1] < r[2]}
    BY <1>1, Zenon DEF OpToRel
  <2>2. ~ (y < x)
    BY <2>1
  <2> QED BY <2>2
<1> QED BY <1>2

(* g is what the recursion of Parts makes of the first m bytes of t.         *)
Traces(t, g, m) == g = [k \in 0..m |-> IF k = 0 THEN "text" ELSE After(t, k, g[k - 1])]

(* There is such a function for every m, by induction.                       *)
LEMMA TraceExists ==
    ASSUME NEW t, NEW m \in Nat
    PROVE  \E g : Traces(t, g, m)
<1> DEFINE Missing == {x \in Nat : ~ \E g : Traces(t, g, x)}
<1>1. SUFFICES Missing = {}
  BY <1>1
<1>2. SUFFICES ASSUME Missing # {} PROVE FALSE
  OBVIOUS
<1>3. PICK x \in Missing : \A y \in Missing : x <= y
  BY <1>2, Least
<1>4. CASE x = 0
  <2>1. Traces(t, [k \in 0..0 |-> "text"], 0)
    BY DEF Traces
  <2> QED BY <1>4, <2>1
<1>5. CASE x # 0
  <2>1. PICK g : Traces(t, g, x - 1)
    BY <1>3, <1>5
  <2> DEFINE h == [k \in 0..x |-> IF k < x THEN g[k] ELSE After(t, x, g[x - 1])]
  <2>2. ASSUME NEW k \in 0..x
        PROVE  h[k] = IF k = 0 THEN "text" ELSE After(t, k, h[k - 1])
    <3>1. CASE k = x
      BY <1>5, <3>1
    <3>2. CASE k < x /\ k # 0
      <4>1. g[k] = After(t, k, g[k - 1])
        BY <2>1, <3>2 DEF Traces
      <4> QED BY <3>2, <4>1
    <3>3. CASE k = 0
      BY <1>5, <2>1, <3>3 DEF Traces
    <3> QED BY <3>1, <3>2, <3>3
  <2>3. Traces(t, h, x)
    <3> HIDE DEF h
    <3>1. h = [k \in 0..x |-> h[k]]
      BY DEF h
    <3> QED BY <2>2, <3>1 DEF Traces
  <2> QED BY <2>3
<1> QED BY <1>4, <1>5

(* Parts computes what its recursive definition says.                        *)
LEMMA PartsUnfold ==
    ASSUME NEW t, Len(t) \in Nat
    PROVE  /\ Parts(t)[0] = "text"
           /\ \A k \in 1..Len(t) : Parts(t)[k] = After(t, k, Parts(t)[k - 1])
<1>1. PICK g : Traces(t, g, Len(t))
  BY TraceExists
<1>2. Traces(t, Parts(t), Len(t))
  BY <1>1, Zenon DEF Traces, Parts
<1> QED BY <1>2 DEF Traces

-----------------------------------------------------------------------------
(* Types.                                                                    *)
LEMMA LengthNat == ASSUME PrepTypeOK PROVE n \in Nat
BY DEF PrepTypeOK, n

LEMMA BlankedType ==
    ASSUME PrepTypeOK, NEW ks
    PROVE  Blanked(ks) \in [1..n -> Chars \cup {Blank}]
BY LengthNat DEF PrepTypeOK, Blanked

LEMMA ConsumeCommentType ==
    ASSUME PrepTypeOK, NEW k \in 0..(n + 1), NEW from \in {"scan", "comma"},
           ConsumeComment(k, from)
    PROVE  /\ s' \in [1..n -> Chars \cup {Blank}]
           /\ i' = k /\ loop' \in {from, "line", "block"}
           /\ back' \in {"scan", "comma"}
BY BlankedType DEF PrepTypeOK, ConsumeComment, Enter

(* In any file, Tangled or not, the indices of prep and consumeComment stay  *)
(* within two bytes of the buffer's end, and the buffer keeps its length and *)
(* holds only bytes of the file and spaces (json5.go:21, json5.go:58).       *)
THEOREM PrepTypeCorrect == PrepSpec => []PrepTypeOK
<1>1. PrepInit => PrepTypeOK
  BY CharsAssumption DEF PrepInit, PrepTypeOK, n
<1>2. ASSUME PrepTypeOK, [PrepNext]_prepVars PROVE PrepTypeOK'
  <2> n \in Nat
    BY <1>2, LengthNat
  <2>1. n' = n
    BY <1>2 DEF PrepNext, PrepStep, Scan, String, Comma, LineComment, BlockComment, Done,
                prepVars, n
  <2> USE <2>1 DEF PrepTypeOK, Enter
  <2>2. CASE Scan
    <3>1. CASE Scan!2!3
      BY <1>2, <2>2, <3>1, ConsumeCommentType DEF Scan
    <3>2. CASE Scan!2!1 \/ Scan!2!2 \/ Scan!2!4 \/ Scan!2!5
      BY <1>2, <2>2, <3>2 DEF Scan
    <3> QED BY <2>2, <3>1, <3>2 DEF Scan
  <2>3. CASE String
    BY <1>2, <2>3 DEF String
  <2>4. CASE Comma
    BY <1>2, <2>4, BlankedType, ConsumeCommentType DEF Comma
  <2>5. CASE LineComment
    BY <1>2, <2>5, BlankedType DEF LineComment
  <2>6. CASE BlockComment
    BY <1>2, <2>6, BlankedType DEF BlockComment
  <2>7. CASE UNCHANGED prepVars
    BY <1>2, <2>7 DEF prepVars
  <2> QED BY <1>2, <2>2, <2>3, <2>4, <2>5, <2>6, <2>7 DEF PrepNext, PrepStep, Done
<1> QED BY <1>1, <1>2, PTL DEF PrepSpec

-----------------------------------------------------------------------------
(* The file does not change, and so the reference definitions do not.        *)
LEMMA SameFile ==
    ASSUME input' = input
    PROVE  /\ n' = n /\ Part' = Part /\ Clean' = Clean /\ Tangled' = Tangled
BY DEF n, Part, Clean, Tangled, TrailingComma, InComment, Skipped

LEMMA SameSkipped ==
    ASSUME input' = input
    PROVE  \A k : Skipped(k)' = Skipped(k)
BY DEF Part, InComment, Skipped

(* The parts of a file, byte by byte.                                        *)
LEMMA PartAfter ==
    ASSUME PrepTypeOK, NEW k \in 0..(n - 1)
    PROVE  Part[k + 1] = After(input, k + 1, Part[k])
BY LengthNat, PartsUnfold DEF n, Part

LEMMA AfterText ==
    ASSUME PrepTypeOK, NEW k \in 0..(n - 1), InText(k)
    PROVE  Part[k + 1] = IF input[k + 1] = Quote THEN "begin"
                         ELSE IF /\ k + 1 < n /\ input[k + 1] = Slash
                                 /\ input[k + 2] \in {Slash, Asterisk}
                              THEN "open" ELSE "text"
<1>1. Part[k + 1] = CASE input[k + 1] = Quote -> "begin"
                      [] Opens(input, k + 1, Slash) \/ Opens(input, k + 1, Asterisk) -> "open"
                      [] OTHER -> "text"
  BY PartAfter DEF After, InText
<1>2. Opens(input, k + 1, Slash) \/ Opens(input, k + 1, Asterisk)
        <=> k + 1 < n /\ input[k + 1] = Slash /\ input[k + 2] \in {Slash, Asterisk}
  BY LengthNat DEF Opens, n
<1>3. ~ (input[k + 1] = Quote /\ input[k + 1] = Slash)
  BY DEF Quote, Slash
<1> QED BY <1>1, <1>2, <1>3

LEMMA AfterOthers ==
    ASSUME PrepTypeOK, NEW k \in 0..(n - 1)
    PROVE  /\ Part[k] = "open" => Part[k + 1] = IF input[k + 1] = Slash THEN "slash" ELSE "star"
           /\ Part[k] \in {"slash", "line"} /\ ~ isNL(input[k + 1]) => Part[k + 1] = "line"
           /\ Part[k] \in {"star", "block"} =>
                 Part[k + 1] = IF /\ k + 1 < n /\ input[k + 1] = Asterisk
                                  /\ input[k + 2] = Slash
                               THEN "last" ELSE "block"
           /\ Part[k] = "last" => Part[k + 1] = "end"
           /\ Part[k] = "escape" => Part[k + 1] = "string"
           /\ Part[k] \in {"begin", "string"} =>
                 Part[k + 1] = IF input[k + 1] = Quote THEN "quote"
                               ELSE IF input[k + 1] = Backslash THEN "escape" ELSE "string"
<1>1. Ends(input, k + 1) <=> k + 1 < n /\ input[k + 1] = Asterisk /\ input[k + 2] = Slash
  BY LengthNat DEF Ends, n
<1>2. ~ (input[k + 1] = Quote /\ input[k + 1] = Backslash)
  BY DEF Quote, Backslash
<1> USE PartAfter DEF After
<1>3. Part[k] = "open" => Part[k + 1] = IF input[k + 1] = Slash THEN "slash" ELSE "star"
  OBVIOUS
<1>4. Part[k] \in {"slash", "line"} /\ ~ isNL(input[k + 1]) => Part[k + 1] = "line"
  OBVIOUS
<1>5. Part[k] \in {"star", "block"} =>
        Part[k + 1] = IF Ends(input, k + 1) THEN "last" ELSE "block"
  OBVIOUS
<1>6. (Part[k] = "last" => Part[k + 1] = "end") /\ (Part[k] = "escape" => Part[k + 1] = "string")
  OBVIOUS
<1>7. Part[k] \in {"begin", "string"} =>
        Part[k + 1] = IF input[k + 1] = Quote THEN "quote"
                      ELSE IF input[k + 1] = Backslash THEN "escape" ELSE "string"
  BY <1>2
<1> QED BY <1>1, <1>3, <1>4, <1>5, <1>6, <1>7

(* What is in the cleaned file.                                              *)
LEMMA CleanAt ==
    ASSUME PrepTypeOK, NEW k \in 1..n
    PROVE  /\ InComment(k) \/ TrailingComma(k) => Clean[k] = Blank
           /\ ~ InComment(k) /\ ~ TrailingComma(k) => Clean[k] = input[k]
           /\ TrailingComma(k) => Part[k] = "text" /\ input[k] = Separator
BY DEF Clean, TrailingComma

(* What a step that settles the bytes up to Front' has to show, if it does   *)
(* not begin or end a comma's wait.                                          *)
LEMMA CommaStep ==
    ASSUME PrepTypeOK, CommaInv, input' = input, Pending' => Pending, j' = j,
           Front \in Nat, Front' \in Nat, Front <= Front',
           \A k \in 1..n : k > Front /\ k <= Front' => Skipped(k)
    PROVE  CommaInv'
<1> USE LengthNat, SameFile, SameSkipped DEF PrepTypeOK
<1> SUFFICES ASSUME Pending'
             PROVE  /\ j < n /\ j < Front'
                    /\ Part[j + 1] = "text" /\ input[j + 1] = Separator
                    /\ \A k \in (j + 2)..n : k <= Front' => Skipped(k)
  BY DEF CommaInv
<1>1. /\ j < n /\ j < Front
      /\ Part[j + 1] = "text" /\ input[j + 1] = Separator
      /\ \A k \in (j + 2)..n : k <= Front => Skipped(k)
  BY DEF CommaInv
<1> QED BY <1>1

LEMMA BufferStep ==
    ASSUME PrepTypeOK, BufferInv, input' = input, Pending' <=> Pending,
           Pending => j' = j /\ j < Front,
           Front \in Nat, Front' \in Nat, Front <= Front',
           \A k \in 1..n : k <= Front \/ k > Front' => s'[k] = s[k],
           \A k \in 1..n : k > Front /\ k <= Front' => s'[k] = Clean[k]
    PROVE  BufferInv'
<1> USE LengthNat, SameFile DEF PrepTypeOK
<1> SUFFICES ASSUME NEW k \in 1..n
             PROVE  s'[k] = IF k <= Front' /\ ~ (Pending' /\ k = j' + 1)
                            THEN Clean[k] ELSE input[k]
  BY DEF BufferInv
<1>1. s[k] = IF k <= Front /\ ~ (Pending /\ k = j + 1) THEN Clean[k] ELSE input[k]
  BY DEF BufferInv
<1> QED BY <1>1

(* The loop over a string.                                                   *)
LEMMA StringInv ==
    ASSUME PrepTypeOK, PlaceInv, BufferInv, String
    PROVE  PlaceInv' /\ CommaInv' /\ BufferInv'
<1> USE LengthNat, SameFile
<1>1. /\ input' = input /\ s' = s /\ ~ Pending /\ ~ Pending' /\ Front = i
      /\ CommaInv' /\ i \in Nat
  BY DEF String, Enter, Pending, Front, CommaInv, PrepTypeOK
<1>2. CASE i >= n
  <2>1. PlaceInv' /\ Front' = i
    BY <1>1, <1>2 DEF PlaceInv, Front, String, Enter
  <2> QED BY <1>1, <1>2, <2>1, BufferStep
<1>3. CASE i < n
  <2>1. At(i) = input[i + 1]
    BY <1>1, <1>3 DEF BufferInv, At
  <2>2. Part[i + 1] = IF At(i) = Quote THEN "quote"
                      ELSE IF At(i) = Backslash THEN "escape" ELSE "string"
    BY <1>1, <1>3, <2>1, AfterOthers DEF PlaceInv, String
  <2>3. At(i) = Backslash /\ i + 2 <= n => Part[i + 2] = "string"
    <3>1. SUFFICES ASSUME At(i) = Backslash, i + 2 <= n PROVE Part[(i + 1) + 1] = "string"
      BY <1>1
    <3>2. Part[i + 1] = "escape"
      BY <2>2, <3>1 DEF Quote, Backslash
    <3> QED BY <1>1, <3>1, <3>2, AfterOthers
  <2>4. /\ i' = IF At(i) = Backslash THEN i + 2 ELSE i + 1
        /\ loop' = IF At(i) = Quote THEN "scan" ELSE "string"
    BY <1>1, <1>3 DEF Quote, Backslash, String, Enter, PrepTypeOK
  <2>5. PlaceInv' /\ Front' = i'
    BY <1>1, <1>3, <2>2, <2>3, <2>4 DEF PlaceInv, Front, InText, Quote, Backslash
  <2>6. \A k \in 1..n : k > i /\ k <= i' => Clean[k] = input[k] /\ s[k] = input[k]
    <3>1. SUFFICES ASSUME NEW k \in 1..n, k = i + 1 \/ (At(i) = Backslash /\ k = i + 2)
                   PROVE  Clean[k] = input[k]
      BY <1>1, <2>4 DEF BufferInv
    <3>2. Part[k] \in {"quote", "escape", "string"}
      BY <2>2, <2>3, <3>1
    <3> QED BY <3>2, CleanAt DEF InComment
  <2> QED BY <1>1, <1>3, <2>4, <2>5, <2>6, BufferStep
<1> QED BY <1>1, <1>2, <1>3

(* The loop over a line comment.                                             *)
LEMMA LineInv ==
    ASSUME PrepTypeOK, PlaceInv, CommaInv, BufferInv, LineComment
    PROVE  PlaceInv' /\ CommaInv' /\ BufferInv'
<1> USE LengthNat, SameFile
<1>1. /\ input' = input /\ j' = j /\ (Pending' <=> Pending) /\ Front = i /\ i \in Nat
      /\ i <= n /\ (Pending <=> back = "comma") /\ back \in {"scan", "comma"}
  BY DEF Pending, Front, LineComment, Enter, PrepTypeOK, PlaceInv
<1>2. Pending => j < Front
  BY DEF CommaInv
<1>3. i < n => At(i) = input[i + 1]
  BY <1>1 DEF BufferInv, At
<1>4. CASE i < n /\ ~ isNL(At(i))
  <2>1. Part[i + 1] \in {"slash", "line"}
    BY <1>1, <1>3, <1>4, AfterOthers DEF PlaceInv, LineComment
  <2>2. \A k \in 1..n : s'[k] = IF k = i + 1 THEN Blank ELSE s[k]
    BY <1>1, <1>4 DEF Blanked, LineComment
  <2>3. PlaceInv' /\ Front' = i + 1
    BY <1>1, <1>4, <2>1 DEF PlaceInv, Front, LineComment, Enter
  <2>4. i + 1 \in 1..n /\ Clean[i + 1] = Blank /\ Skipped(i + 1)
    BY <1>1, <1>4, <2>1, CleanAt DEF InComment, Skipped
  <2>5. CommaInv'
    BY <1>1, <2>3, <2>4, CommaStep
  <2>6. BufferInv'
    BY <1>1, <1>2, <2>2, <2>3, <2>4, BufferStep
  <2> QED BY <2>3, <2>5, <2>6
<1>5. CASE ~ (i < n /\ ~ isNL(At(i)))
  <2>1. s' = s /\ i' = i /\ loop' = back
    BY <1>5 DEF LineComment, Enter
  <2>2. i < n => InText(i)
    BY <1>1, <1>3, <1>5 DEF PlaceInv, LineComment, InText, isNL, Newlines, Slash
  <2>3. i < n => Part[i + 1] = "text" /\ Clean[i + 1] = input[i + 1] /\ Skipped(i + 1)
    <3>1. SUFFICES ASSUME i < n PROVE Part[i + 1] = "text" /\ input[i + 1] # Separator
                                      /\ isWS(input[i + 1])
      BY <1>1, CleanAt DEF InComment, Skipped
    <3>2. input[i + 1] \in Newlines
      BY <1>3, <1>5, <3>1 DEF isNL
    <3>3. InText(i)
      BY <2>2, <3>1
    <3> QED BY <1>1, <3>1, <3>2, <3>3, AfterText
            DEF isWS, Newlines, Spaces, Quote, Slash, Separator
  <2>4. Front' = IF back = "comma" THEN i + 1 ELSE i
    BY <1>1, <2>1, <2>2 DEF Front, InText
  <2>5. PlaceInv'
    BY <1>1, <2>1, <2>2, <2>3 DEF PlaceInv, InText
  <2>6. \A k \in 1..n : k > Front /\ k <= Front' =>
            Skipped(k) /\ Clean[k] = input[k] /\ s[k] = input[k]
    BY <1>1, <2>3, <2>4 DEF BufferInv
  <2>7. CommaInv'
    BY <1>1, <2>4, <2>6, CommaStep
  <2>8. BufferInv'
    BY <1>1, <1>2, <2>1, <2>4, <2>6, BufferStep
  <2> QED BY <2>5, <2>7, <2>8
<1> QED BY <1>4, <1>5

(* The loop over a block comment; a star that does not end it is Tangled.    *)
LEMMA BlockInv ==
    ASSUME PrepTypeOK, ~ Tangled, PlaceInv, CommaInv, BufferInv, BlockComment
    PROVE  PlaceInv' /\ CommaInv' /\ BufferInv'
<1> USE LengthNat, SameFile
<1>1. /\ input' = input /\ j' = j /\ (Pending' <=> Pending) /\ i \in Nat
      /\ i <= n /\ (Pending <=> back = "comma") /\ back \in {"scan", "comma"}
      /\ Front = IF i < n /\ Part[i] = "open" THEN i + 1 ELSE i
  BY DEF Pending, Front, BlockComment, Enter, PrepTypeOK, PlaceInv
<1>2. Pending => j < Front
  BY DEF CommaInv
<1>3. CASE i >= n
  <2>1. s' = s /\ i' = i /\ loop' = back
    BY <1>1, <1>3 DEF BlockComment, Enter
  <2>2. PlaceInv' /\ Front' = IF back = "comma" THEN i + 1 ELSE i
    BY <1>1, <1>3, <2>1 DEF PlaceInv, Front
  <2> QED BY <1>1, <1>2, <1>3, <2>1, <2>2, CommaStep, BufferStep
<1>4. CASE i < n /\ Part[i] = "open"
  <2>1. input[i + 1] = Asterisk
    BY <1>1, <1>4 DEF PlaceInv, BlockComment
  <2>2. Part[i + 1] = "star"
    BY <1>1, <1>4, <2>1, AfterOthers DEF Asterisk, Slash
  <2>3. Clean[i + 1] = Blank
    BY <1>1, <1>4, <2>2, CleanAt DEF InComment
  <2>4. Pending => j # i
    BY <1>1, <2>2 DEF CommaInv
  <2>5. At(i) = Blank
    BY <1>1, <1>4, <2>3, <2>4 DEF BufferInv, At, PrepTypeOK
  <2>6. /\ \A k \in 1..n : s'[k] = s[k]
        /\ i' = i + 1 /\ loop' = "block"
    BY <1>1, <1>4, <2>5 DEF BlockComment, Enter, Blanked, At, Asterisk, Blank
  <2>7. PlaceInv' /\ Front' = i + 1
    BY <1>1, <1>4, <2>2, <2>6 DEF PlaceInv, Front
  <2> QED BY <1>1, <1>2, <1>4, <2>6, <2>7, CommaStep, BufferStep
<1>5. CASE i < n /\ Part[i] # "open"
  <2>1. At(i) = input[i + 1] /\ (i + 1 < n => At(i + 1) = input[i + 2])
    BY <1>1, <1>5 DEF BufferInv, At
  <2>2. Part[i] \in {"star", "block"}
    BY <1>5 DEF PlaceInv, BlockComment
  <2>3. Part[i + 1] = IF i + 1 < n /\ At(i) = Asterisk /\ At(i + 1) = Slash
                      THEN "last" ELSE "block"
    BY <1>1, <1>5, <2>1, <2>2, AfterOthers
  <2>4. CASE At(i) # Asterisk
    <3>1. /\ \A k \in 1..n : s'[k] = IF k = i + 1 THEN Blank ELSE s[k]
          /\ i' = i + 1 /\ loop' = "block"
      BY <1>1, <1>5, <2>4 DEF BlockComment, Enter, Blanked
    <3>2. Part[i + 1] = "block"
      BY <2>3, <2>4
    <3>3. i + 1 \in 1..n /\ Clean[i + 1] = Blank /\ Skipped(i + 1)
      BY <1>1, <1>5, <3>2, CleanAt DEF InComment, Skipped
    <3>4. PlaceInv' /\ Front' = i + 1
      BY <1>1, <1>5, <3>1, <3>2 DEF PlaceInv, Front
    <3>5. CommaInv'
      BY <1>1, <1>5, <3>3, <3>4, CommaStep
    <3> QED BY <1>1, <1>2, <1>5, <3>1, <3>3, <3>4, <3>5, BufferStep
  <2>5. CASE At(i) = Asterisk /\ i + 1 < n /\ At(i + 1) = Slash
    <3>1. /\ \A k \in 1..n : s'[k] = IF k \in {i + 1, i + 2} THEN Blank ELSE s[k]
          /\ i' = i + 1 /\ loop' = back
      BY <1>1, <1>5, <2>5 DEF BlockComment, Enter, Blanked
    <3>2. Part[i + 1] = "last"
      BY <2>3, <2>5
    <3>3. Part[i + 2] = "end"
      <4>1. Part[(i + 1) + 1] = "end"
        BY <1>1, <2>5, <3>2, AfterOthers
      <4> QED BY <1>1, <4>1
    <3>4. \A k \in {i + 1, i + 2} : k \in 1..n /\ Clean[k] = Blank /\ Skipped(k)
      BY <1>1, <2>5, <3>2, <3>3, CleanAt DEF InComment, Skipped
    <3>5. Front' = i + 2
      BY <1>1, <2>5, <3>1, <3>2 DEF Front
    <3>6. PlaceInv'
      BY <1>1, <2>5, <3>1, <3>2, <3>3 DEF PlaceInv, InText
    <3>7. CommaInv'
      BY <1>1, <1>5, <3>4, <3>5, CommaStep
    <3> QED BY <1>1, <1>2, <1>5, <3>1, <3>4, <3>5, <3>6, <3>7, BufferStep
  <2>6. CASE At(i) = Asterisk /\ ~ (i + 1 < n /\ At(i + 1) = Slash)
    <3>1. Part[i + 1] = "block" /\ input[i + 1] = Asterisk /\ i + 1 \in 1..n
      BY <1>1, <1>5, <2>1, <2>3, <2>6
    <3> QED BY <3>1 DEF Tangled
  <2> QED BY <2>4, <2>5, <2>6
<1> QED BY <1>1, <1>3, <1>4, <1>5

(* A comment that begins at the front, in the text or after a comma.         *)
LEMMA OpeningInv ==
    ASSUME PrepTypeOK, CommaInv, BufferInv, input' = input, j' = j,
           NEW f \in Nat, f = Front, f + 1 < n, InText(f),
           input[f + 1] = Slash, input[f + 2] \in {Slash, Asterisk},
           loop \in {"scan", "comma"}, ConsumeComment(f + 1, loop)
    PROVE  PlaceInv' /\ CommaInv' /\ BufferInv'
<1> USE LengthNat, SameFile
<1>1. Part[f + 1] = "open"
  BY AfterText DEF Quote, Slash
<1>2. At(f + 1) = input[f + 2] /\ (Pending <=> loop = "comma") /\ (Pending => j < Front)
  BY DEF BufferInv, At, Pending, CommaInv
<1>3. f + 1 \in 1..n /\ Clean[f + 1] = Blank /\ Skipped(f + 1)
  BY <1>1, CleanAt DEF InComment, Skipped
<1>4. CASE input[f + 2] = Slash
  <2>1. /\ \A k \in 1..n : s'[k] = IF k = f + 1 THEN Blank ELSE s[k]
        /\ i' = f + 1 /\ loop' = "line" /\ back' = loop
    BY <1>2, <1>4 DEF ConsumeComment, Enter, Blanked, Slash, Asterisk
  <2>2. PlaceInv' /\ Front' = f + 1 /\ (Pending' <=> Pending)
    BY <1>1, <1>2, <1>4, <2>1 DEF PlaceInv, Front, Pending
  <2>3. CommaInv'
    BY <1>3, <2>2, CommaStep
  <2> QED BY <1>2, <1>3, <2>1, <2>2, <2>3, BufferStep
<1>5. CASE input[f + 2] = Asterisk
  <2>1. /\ \A k \in 1..n : s'[k] = IF k \in {f + 1, f + 2} THEN Blank ELSE s[k]
        /\ i' = f + 1 /\ loop' = "block" /\ back' = loop
    BY <1>2, <1>5 DEF ConsumeComment, Enter, Blanked, Slash, Asterisk
  <2>2. PlaceInv' /\ Front' = f + 2 /\ (Pending' <=> Pending)
    BY <1>1, <1>2, <1>5, <2>1 DEF PlaceInv, Front, Pending
  <2>3. Part[f + 2] = "star"
    <3>1. Part[(f + 1) + 1] = "star"
      BY <1>1, <1>5, AfterOthers DEF Slash, Asterisk
    <3> QED BY <3>1
  <2>4. f + 2 \in 1..n /\ Clean[f + 2] = Blank /\ Skipped(f + 2)
    BY <2>3, CleanAt DEF InComment, Skipped
  <2>5. CommaInv'
    BY <1>3, <2>2, <2>4, CommaStep
  <2> QED BY <1>2, <1>3, <2>1, <2>2, <2>4, <2>5, BufferStep
<1> QED BY <1>4, <1>5

(* The outer loop.                                                           *)
LEMMA ScanInv ==
    ASSUME PrepTypeOK, PlaceInv, CommaInv, BufferInv, Scan
    PROVE  PlaceInv' /\ CommaInv' /\ BufferInv'
<1> USE LengthNat, SameFile
<1>1. input' = input /\ ~ Pending /\ i \in Nat /\ loop = "scan"
  BY DEF Pending, Scan, PrepTypeOK
<1>2. CASE i >= n
  <2>1. s' = s /\ i' = i /\ loop' = "done"
    BY <1>1, <1>2 DEF Scan, Enter
  <2>2. PlaceInv' /\ Front' = i /\ Front = i /\ ~ Pending'
    BY <1>1, <1>2, <2>1 DEF PlaceInv, Front, Pending
  <2> QED BY <1>1, <2>1, <2>2, BufferStep DEF CommaInv
<1>3. CASE i < n /\ Part[i] = "last"
  <2>1. Part[i + 1] = "end" /\ Front = i + 1
    BY <1>1, <1>3, AfterOthers DEF Front
  <2>2. At(i) = Blank
    BY <1>1, <1>3, <2>1, CleanAt DEF BufferInv, At, InComment
  <2>3. s' = s /\ i' = i + 1 /\ loop' = "scan"
    BY <1>1, <1>3, <2>2 DEF Scan, Enter, Blank, Quote, Slash, Separator
  <2>4. PlaceInv' /\ Front' = i + 1 /\ ~ Pending'
    BY <1>1, <1>3, <2>1, <2>3 DEF PlaceInv, InText, Front, Pending
  <2> QED BY <1>1, <2>1, <2>3, <2>4, BufferStep DEF CommaInv
<1>4. CASE i < n /\ Part[i] # "last"
  <2>1. Front = i /\ InText(i) /\ At(i) = input[i + 1]
    BY <1>1, <1>4 DEF Front, PlaceInv, BufferInv, At
  <2>2. i + 1 \in 1..n /\ s[i + 1] = input[i + 1]
    BY <1>1, <1>4, <2>1 DEF BufferInv
  <2>3. CASE At(i) = Slash /\ i + 1 < n /\ input[i + 2] \in {Slash, Asterisk}
    <3>1. ConsumeComment(i + 1, loop) /\ j' = j
      BY <1>1, <1>4, <2>3 DEF Scan, Quote, Slash, Separator
    <3> QED BY <1>1, <2>1, <2>3, <3>1, OpeningInv
  <2>4. CASE ~ (At(i) = Slash /\ i + 1 < n /\ input[i + 2] \in {Slash, Asterisk})
    <3>1. Part[i + 1] = IF At(i) = Quote THEN "begin" ELSE "text"
      BY <1>1, <1>4, <2>1, <2>4, AfterText DEF Quote, Slash
    <3>2. i + 1 < n => At(i + 1) = input[i + 2]
      BY <1>1, <2>1 DEF BufferInv, At
    <3>3. /\ s' = s
          /\ \/ At(i) = Quote /\ i' = i + 1 /\ loop' = "string"
             \/ At(i) = Separator /\ i' = i /\ loop' = "comma" /\ j' = i
             \/ At(i) \notin {Quote, Separator} /\ i' = i + 1 /\ loop' = "scan"
      BY <1>1, <1>4, <2>4, <3>2 DEF Scan, Enter, ConsumeComment, Quote, Slash, Separator
    <3>4. PlaceInv' /\ Front' = i + 1
      BY <1>1, <1>4, <3>1, <3>3 DEF PlaceInv, Front, InText, Quote, Separator
    <3>5. CASE At(i) = Separator
      <4>1. loop' = "comma" /\ j' = i
        BY <3>3, <3>5 DEF Quote, Separator
      <4>2. CommaInv'
        <5>1. i < n /\ i < Front' /\ Part[i + 1] = "text" /\ input[i + 1] = Separator
          <6>1. Part[i + 1] = "text"
            BY <3>1, <3>5 DEF Quote, Separator
          <6> QED BY <1>1, <1>4, <2>1, <3>4, <3>5, <6>1
        <5>2. \A k \in (j' + 2)..n : ~ (k <= Front')
          BY <1>1, <3>4, <4>1
        <5> QED BY <1>1, <4>1, <5>1, <5>2 DEF CommaInv
      <4>3. BufferInv'
        BY <1>1, <2>1, <2>2, <3>3, <3>4, <4>1 DEF BufferInv, Pending
      <4> QED BY <3>4, <4>2, <4>3
    <3>6. CASE At(i) # Separator
      <4>1. ~ Pending'
        BY <3>3, <3>6 DEF Pending
      <4>2. Clean[i + 1] = input[i + 1]
        BY <2>1, <2>2, <3>1, <3>6, CleanAt DEF InComment
      <4>3. BufferInv'
        BY <1>1, <2>1, <2>2, <3>3, <3>4, <4>1, <4>2, BufferStep
      <4> QED BY <3>4, <4>1, <4>3 DEF CommaInv
    <3> QED BY <3>5, <3>6
  <2> QED BY <2>3, <2>4
<1> QED BY <1>1, <1>2, <1>3, <1>4

(* A comma's wait ends, and the comma is as it is in the cleaned file.       *)
LEMMA WaitOver ==
    ASSUME PrepTypeOK, CommaInv, BufferInv, Pending, input' = input, ~ Pending',
           Front \in Nat, Front' = Front,
           \A k \in 1..n : s'[k] = IF k = j + 1 THEN Clean[k] ELSE s[k]
    PROVE  CommaInv' /\ BufferInv'
<1> USE LengthNat, SameFile DEF PrepTypeOK
<1>1. j < Front
  BY DEF CommaInv
<1> QED BY <1>1 DEF CommaInv, BufferInv

(* A comma stays if what follows it is no closing bracket.                   *)
LEMMA NothingCloses ==
    ASSUME PrepTypeOK, CommaInv, Pending, Front \in Nat,
           NEW f \in Nat, f = Front + 1,
           f \in 1..n => ~ Skipped(f) /\ ~ (Part[f] = "text" /\ isClose(input[f]))
    PROVE  /\ j + 1 \in 1..n /\ ~ TrailingComma(j + 1)
           /\ Clean[j + 1] = input[j + 1]
<1> USE LengthNat DEF PrepTypeOK
<1>1. /\ j < n /\ j < Front
      /\ Part[j + 1] = "text" /\ input[j + 1] = Separator
      /\ \A k \in (j + 2)..n : k <= Front => Skipped(k)
  BY DEF CommaInv
<1>2. ASSUME TrailingComma(j + 1) PROVE FALSE
  <2>1. PICK e \in ((j + 1) + 1)..n : /\ Part[e] = "text" /\ isClose(input[e])
                                     /\ \A m \in ((j + 1) + 1)..(e - 1) : Skipped(m)
    BY <1>2 DEF TrailingComma
  <2>2. ~ Skipped(e)
    BY <2>1 DEF Skipped, InComment, isClose, isWS, Closing, Spaces, Newlines, Blank
  <2>3. e > Front
    BY <1>1, <2>1, <2>2
  <2>4. CASE e = f
    BY <1>1, <2>1, <2>4
  <2>5. CASE e > f
    BY <1>1, <2>1, <2>5
  <2> QED BY <2>1, <2>3, <2>4, <2>5
<1>3. ~ InComment(j + 1)
  BY <1>1 DEF InComment
<1> QED BY <1>1, <1>2, <1>3, CleanAt

(* The loop after a comma; a slash there that opens no comment is Tangled.   *)
LEMMA CommaLoopInv ==
    ASSUME PrepTypeOK, ~ Tangled, PlaceInv, CommaInv, BufferInv, Comma
    PROVE  PlaceInv' /\ CommaInv' /\ BufferInv'
<1> USE LengthNat, SameFile
<1>1. /\ input' = input /\ j' = j /\ Pending /\ i \in Nat /\ i <= n /\ loop = "comma"
      /\ Front = i + 1
  BY DEF Pending, Front, Comma, PrepTypeOK, PlaceInv
<1>2. /\ j < n /\ j < i + 1
      /\ Part[j + 1] = "text" /\ input[j + 1] = Separator
      /\ \A k \in (j + 2)..n : k <= i + 1 => Skipped(k)
  BY <1>1 DEF CommaInv
<1>3. j + 1 \in 1..n /\ s[j + 1] = input[j + 1]
  BY <1>1, <1>2 DEF BufferInv, PrepTypeOK
<1>4. CASE i + 1 >= n
  <2>1. s' = s /\ i' = i + 1 /\ loop' = "scan"
    BY <1>1, <1>4 DEF Comma, Enter
  <2>2. PlaceInv' /\ Front' = i + 1 /\ ~ Pending'
    BY <1>1, <1>4, <2>1 DEF PlaceInv, Front, Pending
  <2>3. Clean[j + 1] = input[j + 1]
    BY <1>1, <1>4, NothingCloses
  <2> QED BY <1>1, <1>3, <2>1, <2>2, <2>3, WaitOver
<1>5. CASE i + 1 < n
  <2>1. InText(i + 1) /\ At(i + 1) = input[i + 2] /\ i + 2 \in 1..n
    BY <1>1, <1>5 DEF PlaceInv, BufferInv, At
  <2>2. Part[i + 2] = IF input[i + 2] = Quote THEN "begin"
                      ELSE IF /\ i + 2 < n /\ input[i + 2] = Slash
                              /\ input[i + 3] \in {Slash, Asterisk}
                           THEN "open" ELSE "text"
    <3>1. i + 1 \in 0..(n - 1) /\ (i + 1) + 1 = i + 2 /\ (i + 1) + 2 = i + 3
      BY <1>1, <1>5
    <3> QED BY <2>1, <3>1, AfterText
  <2>3. CASE isClose(At(i + 1))
    <3>1. /\ \A k \in 1..n : s'[k] = IF k = j + 1 THEN Blank ELSE s[k]
          /\ i' = i + 1 /\ loop' = "scan"
      <4>1. s' = Blanked({j}) /\ i' = i + 1 /\ loop' = "scan"
        BY <1>1, <1>5, <2>3 DEF Comma, Enter, isClose, Closing, Slash
      <4> QED BY <4>1 DEF Blanked, PrepTypeOK
    <3>2. Part[i + 2] = "text"
      BY <2>1, <2>2, <2>3 DEF isClose, Closing, Slash, Quote
    <3>3. TrailingComma(j + 1)
      BY <1>1, <1>2, <2>1, <2>3, <3>2 DEF TrailingComma, PrepTypeOK
    <3>4. Clean[j + 1] = Blank
      BY <1>3, <3>3, CleanAt
    <3>5. PlaceInv' /\ Front' = i + 1 /\ ~ Pending'
      BY <1>1, <1>5, <2>1, <3>1 DEF PlaceInv, Front, Pending, InText
    <3> QED BY <1>1, <1>3, <3>1, <3>4, <3>5, WaitOver
  <2>4. CASE At(i + 1) = Slash
    <3>1. ConsumeComment(i + 2, "comma")
      BY <1>1, <1>5, <2>4 DEF Comma, isClose, Closing, Slash
    <3>2. CASE i + 2 < n /\ input[i + 3] \in {Slash, Asterisk}
      <4>1. /\ (i + 1) + 1 < n /\ input[(i + 1) + 1] = Slash
            /\ input[(i + 1) + 2] \in {Slash, Asterisk} /\ i + 1 \in Nat
            /\ ConsumeComment((i + 1) + 1, loop)
        BY <1>1, <2>1, <2>4, <3>1, <3>2
      <4> QED BY <1>1, <2>1, <4>1, OpeningInv
    <3>3. CASE ~ (i + 2 < n /\ input[i + 3] \in {Slash, Asterisk})
      <4>1. Part[i + 2] = "text" /\ input[i + 2] = Slash
        BY <2>1, <2>2, <2>4, <3>3 DEF Quote, Slash
      <4>2. j + 1 < i + 2 /\ \A e \in ((j + 1) + 1)..((i + 2) - 1) : Skipped(e)
        BY <1>1, <1>2, <1>3, <1>5 DEF PrepTypeOK
      <4> QED BY <1>2, <1>3, <2>1, <4>1, <4>2 DEF Tangled
    <3> QED BY <3>2, <3>3
  <2>5. CASE ~ isClose(At(i + 1)) /\ At(i + 1) # Slash
    <3>1. s' = s /\ i' = i + 1 /\ loop' = IF isWS(At(i + 1)) THEN "comma" ELSE "scan"
      BY <1>1, <1>5, <2>5 DEF Comma, Enter
    <3>2. Part[i + 2] = IF input[i + 2] = Quote THEN "begin" ELSE "text"
      BY <2>1, <2>2, <2>5
    <3>3. CASE isWS(At(i + 1))
      <4>1. Part[i + 2] = "text" /\ Skipped(i + 2) /\ Clean[i + 2] = input[i + 2]
        <5>1. input[i + 2] \notin {Quote, Separator} /\ isWS(input[i + 2])
          BY <2>1, <3>3 DEF isWS, Spaces, Newlines, Blank, Quote, Separator
        <5> QED BY <2>1, <3>2, <5>1, CleanAt DEF Skipped, InComment
      <4>2. PlaceInv' /\ Front' = i + 2 /\ Pending'
        BY <1>1, <1>5, <3>1, <3>3, <4>1 DEF PlaceInv, Front, Pending, InText
      <4>3. CommaInv'
        BY <1>1, <4>1, <4>2, CommaStep
      <4>4. \A k \in 1..n : k > Front /\ k <= Front' => s'[k] = Clean[k]
        BY <1>1, <2>1, <3>1, <4>1, <4>2 DEF BufferInv
      <4> QED BY <1>1, <1>2, <3>1, <4>2, <4>3, <4>4, BufferStep
    <3>4. CASE ~ isWS(At(i + 1))
      <4>1. PlaceInv' /\ Front' = i + 1 /\ ~ Pending'
        BY <1>1, <1>5, <2>1, <3>1, <3>4 DEF PlaceInv, Front, Pending, InText
      <4>2. ~ Skipped(i + 2) /\ ~ (Part[i + 2] = "text" /\ isClose(input[i + 2]))
        BY <2>1, <2>5, <3>2, <3>4 DEF Skipped, InComment
      <4>3. Clean[j + 1] = input[j + 1]
        BY <1>1, <4>2, NothingCloses
      <4> QED BY <1>1, <1>3, <3>1, <4>1, <4>3, WaitOver
    <3> QED BY <3>3, <3>4
  <2> QED BY <2>3, <2>4, <2>5
<1> QED BY <1>1, <1>4, <1>5

(* A file of any length and any bytes that is not Tangled is cleaned of      *)
(* exactly its comments and its trailing commas, and every other byte is     *)
(* kept, whatever its strings hold and wherever it ends (json5.go:95).       *)
THEOREM CleansExactlyHolds == PrepSpec => []CleansExactly
<1>1. ASSUME PrepInit PROVE PrepInv
  <2>1. n \in Nat /\ input \in Seq(Chars)
    BY <1>1, CharsAssumption DEF PrepInit, n
  <2>2. Part[0] = "text"
    BY <2>1, PartsUnfold DEF Part, n
  <2> QED BY <1>1, <2>1, <2>2
          DEF PrepInit, PrepInv, PlaceInv, CommaInv, BufferInv, Pending, Front, InText
<1>2. ASSUME PrepTypeOK, PrepInv, [PrepNext]_prepVars PROVE PrepInv'
  <2> SUFFICES ASSUME ~ Tangled' PROVE PlaceInv' /\ CommaInv' /\ BufferInv'
    BY DEF PrepInv
  <2>1. input' = input
    BY <1>2 DEF PrepNext, PrepStep, Scan, String, Comma, LineComment, BlockComment, Done,
                prepVars
  <2>2. ~ Tangled /\ PlaceInv /\ CommaInv /\ BufferInv
    BY <1>2, <2>1, SameFile DEF PrepInv
  <2>3. CASE UNCHANGED prepVars
    BY <2>2, <2>3, SameFile, SameSkipped
       DEF prepVars, PlaceInv, CommaInv, BufferInv, Pending, Front, InText
  <2> QED BY <1>2, <2>2, <2>3, ScanInv, StringInv, CommaLoopInv, LineInv, BlockInv
          DEF PrepNext, PrepStep, Done
<1>3. PrepTypeOK /\ PrepInv => CleansExactly
  <2> SUFFICES ASSUME PrepTypeOK, ~ Tangled, PlaceInv, BufferInv, loop = "done"
               PROVE  s = Clean
    BY DEF PrepInv, CleansExactly
  <2>1. \A k \in 1..n : s[k] = Clean[k]
    BY LengthNat DEF PlaceInv, BufferInv, Pending, Front, PrepTypeOK
  <2> QED BY <2>1 DEF PrepTypeOK, Clean
<1> QED BY <1>1, <1>2, <1>3, PrepTypeCorrect, PTL DEF PrepSpec

-----------------------------------------------------------------------------
(* No iteration of any of prep's loops, in any file, is without progress     *)
(* (json5.go:58): each one lowers a natural number that the file's length    *)
(* bounds, so that prep ends after at most 4 * (n + 2) + 2 of them.          *)
THEOREM PrepGetsOn == PrepSpec => /\ [](Remaining \in Nat)
                                  /\ [][Remaining' < Remaining]_prepVars
<1>1. PrepTypeOK => Remaining \in Nat
  BY LengthNat DEF PrepTypeOK, Remaining
<1>2. ASSUME PrepTypeOK, PrepTypeOK', PrepNext, ~ UNCHANGED prepVars
      PROVE  Remaining' < Remaining
  <2> n \in Nat /\ n' = n /\ i \in Nat
    BY <1>2, LengthNat DEF PrepTypeOK, PrepNext, PrepStep, Scan, String, Comma, LineComment,
                           BlockComment, Done, n
  <2> DEFINE Rank(l) == CASE l \in {"string", "line", "block"} -> 3 [] l = "scan" -> 2
                          [] l = "comma" -> 1 [] l = "done" -> 0
  <2>1. Remaining = 4 * (n + 2 - i) + Rank(loop) /\ Remaining' = 4 * (n + 2 - i') + Rank(loop')
    BY DEF Remaining
  <2>2. /\ \A l \in {"string", "line", "block"} : Rank(l) = 3
        /\ Rank("scan") = 2 /\ Rank("comma") = 1 /\ Rank("done") = 0
    OBVIOUS
  <2>3. i' \in Nat /\ Rank(loop) \in 0..3 /\ Rank(loop') \in 0..3
    BY <1>2, <2>2 DEF PrepTypeOK
  <2> HIDE DEF Rank
  <2>4. i' > i \/ (i' = i /\ Rank(loop') < Rank(loop))
    <3>1. CASE Scan
      BY <2>2, <3>1 DEF Scan, Enter, ConsumeComment
    <3>2. CASE String
      BY <2>2, <3>2 DEF String, Enter
    <3>3. CASE Comma
      BY <2>2, <3>3 DEF Comma, Enter, ConsumeComment
    <3>4. CASE LineComment
      BY <1>2, <2>2, <3>4 DEF LineComment, Enter, PrepTypeOK
    <3>5. CASE BlockComment
      BY <1>2, <2>2, <3>5 DEF BlockComment, Enter, PrepTypeOK
    <3> QED BY <1>2, <3>1, <3>2, <3>3, <3>4, <3>5 DEF PrepNext, PrepStep, Done
  <2> QED BY <2>1, <2>3, <2>4
<1> QED BY <1>1, <1>2, PrepTypeCorrect, PTL DEF PrepSpec
=============================================================================
