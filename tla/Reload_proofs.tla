---------------------------- MODULE Reload_proofs ----------------------------
(***************************************************************************)
(* Proofs about Reload, for any number of nodes and of edits.              *)
(***************************************************************************)
EXTENDS Reload, FiniteSetTheorems, TLAPS

(* Node.controllers is empty or has a slot for every node.                   *)
LEMMA LengthValue ==
    /\ controllers = NoControllers => Length = 0
    /\ (\A i \in Nodes : controllers[i] # Absent) => Length = N
<1> USE ReloadAssumption
<1>1. ASSUME controllers = NoControllers PROVE Length = 0
  <2>1. {i \in Nodes : controllers[i] # Absent} = {}
    BY <1>1 DEF NoControllers
  <2> QED BY <2>1, FS_EmptySet DEF Length
<1>2. ASSUME \A i \in Nodes : controllers[i] # Absent PROVE Length = N
  <2>1. {i \in Nodes : controllers[i] # Absent} = 1 .. N
    BY <1>2 DEF Nodes
  <2>2. Cardinality(1 .. N) = N
    BY FS_Interval
  <2> QED BY <2>1, <2>2 DEF Length
<1> QED BY <1>1, <1>2

(* The steps of a start, by name.                                            *)
LEMMA StepNames ==
    {"unborn", "sleep", "load", "close", "stop", "delete", "closecore", "newcore", "startcore",
     "nodes", "client", "ask", "add", "tasks", "off"} = Steps
BY DEF Steps, Restarting, Closing, Adding

(* Changing one field of a core or of a controller keeps the types.          *)
LEMMA TagsType ==
    ASSUME cores \in [Starts -> Cores], NEW k, NEW i \in Nodes,
           \/ cores' = [cores EXCEPT ![k].tags = @ \cup {i}]
           \/ cores' = [cores EXCEPT ![k].tags = @ \ {i}]
    PROVE  cores' \in [Starts -> Cores]
<1>1. ASSUME NEW x \in Cores PROVE /\ [x EXCEPT !.tags = @ \cup {i}] \in Cores
                                   /\ [x EXCEPT !.tags = @ \ {i}] \in Cores
  BY DEF Cores
<1> QED BY <1>1

LEMMA FieldsType ==
    ASSUME ctl \in [Controllers -> Fields], NEW c, NEW b \in BOOLEAN,
           ctl' = [ctl EXCEPT ![c].tag = b] \/ ctl' = [ctl EXCEPT ![c].tasks = b]
    PROVE  ctl' \in [Controllers -> Fields]
<1>1. ASSUME NEW x \in Fields PROVE /\ [x EXCEPT !.tag = b] \in Fields
                                    /\ [x EXCEPT !.tasks = b] \in Fields
  BY DEF Fields
<1> QED BY <1>1

(* What the steps of a start, the watcher and the monitors leave alone keeps *)
(* its type.                                                                 *)
LEMMA SameWatcher ==
    ASSUME WatcherType, UNCHANGED <<up, faulty, file, events, quiet, lost>>
    PROVE  WatcherType'
BY DEF WatcherType

LEMMA SameStarts ==
    ASSUME StartsType, UNCHANGED <<conf, pc, at, closing, use>>
    PROVE  StartsType'
BY DEF StartsType

LEMMA SameNodes ==
    ASSUME NodesType, UNCHANGED <<vc, cores, controllers, ctl, limiter, late, mon>>
    PROVE  NodesType'
BY DEF NodesType, NoControllers

(* A start goes on to a step that is not about a node, or to one at the node *)
(* it is at.                                                                 *)
LEMMA GoOnType ==
    ASSUME StartsType, NEW r \in Starts, NEW step \in Steps, GoOn(r, step),
           step \in {"stop", "delete", "ask", "add", "tasks"} => at[r] \in Nodes,
           conf' \in Confs, UNCHANGED <<at, closing, use>>
    PROVE  StartsType'
BY DEF StartsType, GoOn

LEMMA FailType ==
    ASSUME TypeOK, NEW r \in Starts, Fail(r), UNCHANGED <<watcher, conf, at, closing, use>>
    PROVE  WatcherType' /\ StartsType'
<1>1. WatcherType'
  BY DEF Fail, WatcherType, TypeOK, watcher
<1>2. StartsType'
  BY StepNames, GoOnType DEF Fail, TypeOK, StartsType
<1> QED BY <1>1, <1>2

LEMMA CrashType ==
    ASSUME TypeOK, Crash
    PROVE  TypeOK'
<1>1. WatcherType'
  BY DEF Crash, TypeOK, WatcherType, watcher
<1> QED BY <1>1, SameStarts, SameNodes DEF Crash, TypeOK, starting, nodes

(* No step of serverHandle, the watcher, a reload or a monitor leaves a      *)
(* variable outside its set of values; a controller is closed, asked for or  *)
(* added only in a slot that is there (cmd/server.go, node/node.go).         *)
THEOREM TypeCorrect == Spec => []TypeOK
<1> USE ReloadAssumption, StepNames
<1>1. Init => TypeOK
  <2> SUFFICES ASSUME Init PROVE TypeOK
    OBVIOUS
  <2>1. file \in Files /\ conf \in Confs /\ 0 < file.v
    BY DEF Init, Files, Confs, Versions
  <2>2. use \in [Starts -> Uses] /\ cores \in [Starts -> Cores] /\ ctl \in [Controllers -> Fields]
    BY DEF Init, Uses, Cores, Fields
  <2>3. at \in [Starts -> 1 .. N + 1] /\ pc \in [Starts -> Steps] /\ 0 \in 0 .. MaxEdits
    BY DEF Init
  <2>4. controllers = NoControllers /\ controllers \in [Nodes -> Starts \cup {None, Absent}]
    BY DEF Init, NoControllers
  <2>5. closing \in ByStart
    BY DEF Init, ByStart
  <2> QED BY <2>1, <2>2, <2>3, <2>4, <2>5 DEF Init, TypeOK, WatcherType, StartsType, NodesType
<1>2. TypeOK /\ [Next]_vars => TypeOK'
  <2> SUFFICES ASSUME TypeOK, [Next]_vars PROVE TypeOK'
    OBVIOUS
  <2> USE DEF TypeOK, process, watcher, starting, nodes
  <2>1. CASE UNCHANGED vars
    BY <2>1, SameWatcher, SameStarts, SameNodes DEF vars
  <2>3. CASE Edit
    <3>1. file' \in Files /\ file'.v = file.v + 1 /\ file.v \in Nat
      BY <2>3 DEF Edit, Files, Versions, WatcherType
    <3>2. events' \in 0 .. MaxEdits /\ events' < file'.v
      BY <2>3, <3>1 DEF Edit, WatcherType
    <3> QED BY <2>3, <3>1, <3>2, SameStarts, SameNodes DEF Edit, WatcherType
  <2>4. CASE IgnoreEvent \/ TakeEvent \/ QuietEnds
    <3>1. file.v \in Nat
      BY DEF Files, Versions, WatcherType
    <3>2. WatcherType'
      <4>1. events' \in 0 .. MaxEdits /\ events' < file'.v
        BY <2>4, <3>1 DEF IgnoreEvent, TakeEvent, QuietEnds, Watching, WatcherType
      <4>2. lost' \in {"no", "unwatched", "ignored"}
        BY <2>4 DEF IgnoreEvent, TakeEvent, QuietEnds, WatcherType
      <4> QED BY <2>4, <4>1, <4>2 DEF IgnoreEvent, TakeEvent, QuietEnds, WatcherType
    <3>3. NodesType'
      BY <2>4, SameNodes DEF IgnoreEvent, TakeEvent, QuietEnds
    <3>4. StartsType'
      <4>1. CASE IgnoreEvent \/ QuietEnds
        BY <4>1, SameStarts DEF IgnoreEvent, QuietEnds
      <4>2. CASE TakeEvent
        BY <4>2, GoOnType DEF TakeEvent, StartsType
      <4> QED BY <2>4, <4>1, <4>2
    <3> QED BY <3>2, <3>3, <3>4
  <2>5. ASSUME NEW r \in Starts, StartNext(r) PROVE TypeOK'
    <3> USE DEF Act
    <3>1. CASE Reset(r)
      <4>1. conf' \in Confs
        BY <3>1 DEF Reset, Confs
      <4> QED BY <3>1, <4>1, GoOnType, SameWatcher, SameNodes DEF Reset
    <3>2. CASE Load(r)
      <4>1. conf' \in Confs
        BY <3>2 DEF Load, Confs, Files, WatcherType
      <4>2. StartsType'
        BY <3>2, <4>1 DEF Load, StartsType, GoOn, Nodes
      <4>3. WatcherType'
        BY <3>2 DEF Load, WatcherType
      <4> QED BY <3>2, <4>2, <4>3, SameNodes DEF Load
    <3>3. CASE DeleteLimiter(r)
      <4> DEFINE i == at[r]
      <4>1. CASE controllers[i] = None
        BY <3>3, <4>1, CrashType DEF DeleteLimiter
      <4>2. CASE controllers[i] # None
        <5>1. i \in Nodes /\ controllers[i] \in Starts
          BY <3>3, <4>2, LengthValue DEF DeleteLimiter, StartsType, NodesType, Nodes
        <5>2. StartsType' /\ WatcherType'
          BY <3>3, <4>2, <5>1, SameWatcher DEF DeleteLimiter, StartsType, GoOn, ByStart
        <5>3. /\ limiter' = limiter \/ limiter' = [limiter EXCEPT ![i] = None]
              /\ UNCHANGED <<vc, cores, controllers, ctl, late, mon>>
          BY <3>3, <4>2 DEF DeleteLimiter
        <5>4. NodesType'
          BY <5>1, <5>3 DEF NodesType, NoControllers
        <5> QED BY <5>2, <5>4
      <4> QED BY <4>1, <4>2
    <3>15. CASE CloseTasks(r)
      <4> DEFINE c == <<closing[r], at[r]>>
      <4>1. StartsType' /\ WatcherType'
        BY <3>15, GoOnType, SameWatcher DEF CloseTasks, StartsType
      <4>2. /\ ctl' = [ctl EXCEPT ![c].tasks = FALSE]
            /\ late' = IF mon[c] = "idle" THEN late ELSE late \cup {c}
            /\ UNCHANGED <<vc, cores, controllers, limiter, mon>>
        BY <3>15 DEF CloseTasks
      <4>3. c \in Controllers
        BY <3>15 DEF CloseTasks, StartsType, Controllers, ByStart
      <4> HIDE DEF c
      <4>4. ctl' \in [Controllers -> Fields]
        BY <4>2, <4>3 DEF NodesType, Fields
      <4>5. NodesType'
        BY <4>2, <4>3, <4>4 DEF NodesType, NoControllers
      <4> QED BY <4>1, <4>5
    <3>4. CASE CloseNode(r)
      <4> DEFINE k == use[closing[r]].core
      <4>1. CASE ~ Registered(k, at[r])
        BY <3>4, <4>1, CrashType DEF CloseNode
      <4>2. CASE Registered(k, at[r])
        <5>1. /\ cores' = [cores EXCEPT ![k].tags = @ \ {at[r]}]
              /\ at' = [at EXCEPT ![r] = at[r] + 1] /\ GoOn(r, "close") /\ at[r] \in Nodes
              /\ UNCHANGED <<process, watcher, conf, closing, use, vc, controllers, ctl, limiter, late, mon>>
          BY <3>4, <4>2 DEF CloseNode, StartsType
        <5> HIDE DEF k
        <5>2. cores' \in [Starts -> Cores]
          BY <5>1, TagsType DEF NodesType
        <5>3. StartsType'
          BY <5>1 DEF StartsType, GoOn, Nodes
        <5> QED BY <5>1, <5>2, <5>3, SameWatcher DEF NodesType, NoControllers
      <4> QED BY <4>1, <4>2
    <3>5. CASE CloseDone(r)
      <4>1. NodesType'
        BY <3>5 DEF CloseDone, NodesType, NoControllers
      <4> QED BY <3>5, <4>1, GoOnType, SameWatcher DEF CloseDone, StartsType
    <3>6. CASE CloseCore(r)
      <4>1. CASE vc = None
        BY <3>6, <4>1, CrashType DEF CloseCore
      <4>2. CASE vc # None
        <5>1. cores' \in [Starts -> Cores]
          BY <3>6, <4>2 DEF CloseCore, NodesType, Cores
        <5>2. NodesType'
          BY <3>6, <4>2, <5>1 DEF CloseCore, NodesType, NoControllers
        <5>3. WatcherType' /\ StartsType'
          BY <3>6, <4>2, GoOnType, FailType, SameWatcher DEF CloseCore, StartsType
        <5> QED BY <5>2, <5>3
      <4> QED BY <4>1, <4>2
    <3>7. CASE NewCore(r)
      <4>1. cores' \in [Starts -> Cores]
        BY <3>7 DEF NewCore, NodesType, Cores
      <4>2. NodesType'
        BY <3>7, <4>1 DEF NewCore, NodesType, NoControllers
      <4>3. WatcherType' /\ StartsType'
        BY <3>7, GoOnType, FailType, SameWatcher DEF NewCore, StartsType
      <4> QED BY <4>2, <4>3
    <3>8. CASE StartCore(r)
      <4>1. cores' \in [Starts -> Cores]
        BY <3>8 DEF StartCore, NodesType, Cores
      <4>2. NodesType'
        BY <3>8, <4>1 DEF StartCore, NodesType, NoControllers
      <4>3. WatcherType' /\ StartsType'
        BY <3>8, GoOnType, FailType, SameWatcher DEF StartCore, StartsType
      <4> QED BY <4>2, <4>3
    <3>9. CASE MakeSlots(r)
      <4> DEFINE n == IF conf.part = "all" THEN N ELSE 0
      <4>1. /\ use' = [use EXCEPT ![r] = [core |-> vc, v |-> conf.v, n |-> n]]
            /\ controllers' = [i \in Nodes |-> IF i <= n THEN None ELSE Absent]
            /\ at' = [at EXCEPT ![r] = 1] /\ GoOn(r, "client")
            /\ UNCHANGED <<process, watcher, conf, closing, vc, cores, ctl, limiter, late, mon>>
        BY <3>9 DEF MakeSlots
      <4>2. n \in {0, N}
        OBVIOUS
      <4> HIDE DEF n
      <4>3. use' \in [Starts -> Uses]
        BY <4>1, <4>2 DEF StartsType, NodesType, Uses, Confs
      <4>4. StartsType'
        BY <4>1, <4>3 DEF StartsType, GoOn
      <4>5. controllers' = NoControllers \/ \A i \in Nodes : controllers'[i] # Absent
        BY <4>1, <4>2 DEF NoControllers, Nodes
      <4>6. NodesType'
        BY <4>1, <4>5 DEF NodesType, NoControllers
      <4> QED BY <4>1, <4>4, <4>6, SameWatcher
    <3>10. CASE NewClient(r)
      <4>1. CASE Crash
        BY <4>1, CrashType
      <4>2. CASE Fail(r) /\ UNCHANGED <<watcher, conf, at, closing, use, nodes, mon>>
        BY <4>2, FailType, SameNodes
      <4>3. CASE /\ at[r] <= Length /\ controllers' = [controllers EXCEPT ![at[r]] = r]
                 /\ GoOn(r, "ask")
                 /\ UNCHANGED <<process, watcher, conf, at, closing, use, vc, cores, ctl, limiter, late, mon>>
        <5>1. at[r] \in Nodes /\ \A i \in Nodes : controllers[i] # Absent
          BY <4>3, LengthValue DEF StartsType, NodesType, Nodes
        <5>2. NodesType'
          BY <4>3, <5>1 DEF NodesType, Starts
        <5>3. StartsType'
          BY <4>3, <5>1, GoOnType DEF StartsType
        <5> QED BY <4>3, <5>2, <5>3, SameWatcher
      <4> QED BY <3>10, <4>1, <4>2, <4>3 DEF NewClient
    <3>11. CASE Ask(r)
      <4>1. at[r] \in Nodes /\ <<r, at[r]>> \in Controllers
        BY <3>11 DEF Ask, StartsType, Controllers
      <4>2. ctl' \in [Controllers -> Fields]
        <5>1. CASE ctl' = [ctl EXCEPT ![<<r, at[r]>>].tag = TRUE]
          BY <5>1, FieldsType DEF NodesType
        <5> QED BY <3>11, <5>1 DEF Ask, NodesType
      <4>3. NodesType'
        BY <3>11, <4>1, <4>2 DEF Ask, NodesType, NoControllers
      <4>4. WatcherType' /\ StartsType'
        BY <3>11, <4>1, GoOnType, FailType, SameWatcher DEF Ask, StartsType
      <4> QED BY <4>3, <4>4
    <3>12. CASE AddNode(r)
      <4> DEFINE k == use[r].core
                 i == at[r]
      <4>1. i \in Nodes
        BY <3>12 DEF AddNode, StartsType
      <4>2. CASE Crash
        BY <4>2, CrashType
      <4>3. CASE Fail(r) /\ UNCHANGED <<watcher, conf, at, closing, use, nodes, mon>>
        BY <4>3, FailType, SameNodes
      <4>4. CASE /\ cores' = [cores EXCEPT ![k].tags = @ \cup {i}] /\ GoOn(r, "tasks")
                 /\ UNCHANGED <<process, watcher, conf, at, closing, use, vc, controllers, ctl, limiter, late, mon>>
        <5> HIDE DEF k
        <5>1. cores' \in [Starts -> Cores]
          BY <4>1, <4>4, TagsType DEF NodesType
        <5>2. NodesType'
          BY <4>4, <5>1 DEF NodesType, NoControllers
        <5> QED BY <4>1, <4>4, <5>2, GoOnType, SameWatcher DEF StartsType
      <4> QED BY <3>12, <4>2, <4>3, <4>4 DEF AddNode
    <3>13. CASE StartTasks(r)
      <4>1. at[r] \in Nodes /\ <<r, at[r]>> \in Controllers
        BY <3>13 DEF StartTasks, StartsType, Controllers
      <4>2. ctl' \in [Controllers -> Fields]
        <5>1. CASE ctl' = [ctl EXCEPT ![<<r, at[r]>>].tasks = TRUE]
          BY <5>1, FieldsType DEF NodesType
        <5> QED BY <3>13, <5>1 DEF StartTasks, NodesType
      <4>3. NodesType'
        BY <3>13, <4>2 DEF StartTasks, NodesType, NoControllers
      <4>4. CASE Fail(r) /\ UNCHANGED <<ctl, at>>
        BY <3>13, <4>3, <4>4, FailType DEF StartTasks
      <4>5. CASE /\ at' = [at EXCEPT ![r] = @ + 1] /\ GoOn(r, "client") /\ UNCHANGED process
        <5>1. StartsType'
          BY <3>13, <4>1, <4>5 DEF StartTasks, StartsType, GoOn, Nodes
        <5> QED BY <3>13, <4>3, <4>5, <5>1, SameWatcher DEF StartTasks
      <4> QED BY <3>13, <4>4, <4>5 DEF StartTasks
    <3>14. CASE Started(r)
      BY <3>14, GoOnType, SameWatcher, SameNodes DEF Started, StartsType
    <3> QED
      BY <2>5, <3>1, <3>2, <3>3, <3>4, <3>5, <3>6, <3>7, <3>8, <3>9, <3>10, <3>11, <3>12,
         <3>13, <3>14, <3>15 DEF StartNext
  <2>6. ASSUME NEW c \in Controllers, MonitorNext(c) PROVE TypeOK'
    <3> USE DEF Monitor
    <3>1. CASE Fire(c) \/ NoChange(c)
      <4>1. NodesType'
        BY <3>1 DEF Fire, NoChange, NodesType, NoControllers
      <4> QED BY <3>1, <4>1, SameWatcher, SameStarts DEF Fire, NoChange
    <3>2. CASE MonitorDeletes(c)
      <4> DEFINE k == use[c[1]].core
      <4>1. CASE Crash
        BY <4>1, CrashType
      <4>2. CASE Monitor(c, "asked", "deleted") /\ cores' = [cores EXCEPT ![k].tags = @ \ {c[2]}]
                 /\ UNCHANGED <<process, ctl, limiter>>
        <5> HIDE DEF k
        <5>1. cores' \in [Starts -> Cores]
          BY <4>2, ZenonT(30) DEF NodesType, Cores
        <5>2. NodesType'
          BY <4>2, <5>1 DEF NodesType, NoControllers
        <5> QED BY <4>2, <5>2, SameWatcher, SameStarts
      <4> QED BY <3>2, <4>1, <4>2 DEF MonitorDeletes
    <3>5. CASE MonitorUnlimits(c)
      <4>1. c[2] \in Nodes
        BY DEF Controllers
      <4>2. NodesType'
        BY <3>5, <4>1 DEF MonitorUnlimits, NodesType, NoControllers
      <4> QED BY <3>5, <4>2, SameWatcher, SameStarts DEF MonitorUnlimits
    <3>3. CASE MonitorLimits(c)
      <4>1. c[1] \in Starts /\ c[2] \in Nodes
        BY DEF Controllers
      <4>2. NodesType'
        BY <3>3, <4>1 DEF MonitorLimits, NodesType, NoControllers
      <4>3. WatcherType'
        BY <3>3 DEF MonitorLimits, WatcherType
      <4> QED BY <3>3, <4>2, <4>3, SameStarts DEF MonitorLimits
    <3>4. CASE MonitorAdds(c)
      <4> DEFINE k == use[c[1]].core
                 free == cores[k].st = "started" /\ c[2] \notin cores[k].tags
      <4>1. CASE /\ up' = "crashed" /\ faulty' = (faulty \/ free)
                 /\ UNCHANGED <<watcher, starting, nodes, mon>>
        <5>1. WatcherType'
          BY <4>1 DEF WatcherType
        <5> QED BY <4>1, <5>1, SameStarts, SameNodes
      <4>2. CASE /\ Monitor(c, "limited", "idle") /\ cores' = [cores EXCEPT ![k].tags = @ \cup {c[2]}]
                 /\ \E restart \in BOOLEAN : ctl' = [ctl EXCEPT ![c].tasks = @ \/ restart]
                 /\ UNCHANGED <<process, limiter>>
        <5> HIDE DEF k
        <5>1. cores' \in [Starts -> Cores]
          BY <4>2, TagsType DEF NodesType, Controllers
        <5>2. ctl' \in [Controllers -> Fields]
          BY <4>2 DEF NodesType, Fields
        <5>3. NodesType'
          BY <4>2, <5>1, <5>2 DEF NodesType, NoControllers
        <5> QED BY <4>2, <5>3, SameWatcher, SameStarts
      <4> QED BY <3>4, <4>1, <4>2 DEF MonitorAdds
    <3> QED BY <2>6, <3>1, <3>2, <3>3, <3>4, <3>5 DEF MonitorNext
  <2>7. CASE Halted
    BY <2>1, <2>7 DEF Halted
  <2> QED BY <2>1, <2>3, <2>4, <2>5, <2>6, <2>7 DEF Next
<1> QED BY <1>1, <1>2, PTL DEF Spec

-----------------------------------------------------------------------------
(* Who restarts, and which core is open.                                     *)

Waiting == {"sleep", "load", "close", "stop", "delete", "closecore"}

(* A start stops, stays or moves on: never back to what it has done, and     *)
(* never to the steps before newcore from those behind it.                   *)
Moves(r) ==
    \/ UNCHANGED pc
    \/ /\ pc[r] \notin {"unborn", "off"}
       /\ \E s \in Steps \ {"unborn", "sleep"} :
             /\ pc' = [pc EXCEPT ![r] = s]
             /\ s \in Restarting => pc[r] \in Restarting
             /\ s \in Waiting => pc[r] \in Waiting

LEMMA StartMoves ==
    ASSUME TypeOK, NEW r \in Starts, StartNext(r)
    PROVE  UNCHANGED watcher /\ Moves(r)
<1> USE DEF Act
<1>1. UNCHANGED watcher
  BY DEF StartNext, Reset, Load, DeleteLimiter, CloseTasks, CloseNode, CloseDone, CloseCore, NewCore, StartCore,
         MakeSlots, NewClient, Ask, AddNode, StartTasks, Started, Crash
<1>2. CASE UNCHANGED pc
  BY <1>1, <1>2 DEF Moves
<1>3. ASSUME pc[r] \notin {"unborn", "off"}, GoOn(r, "off") PROVE Moves(r)
  <2>1. "off" \in Steps \ {"unborn", "sleep"} /\ "off" \notin Restarting /\ "off" \notin Waiting
    BY DEF Steps, Restarting, Closing, Waiting
  <2> QED BY <1>3, <2>1 DEF Moves, GoOn
<1>4. ASSUME pc[r] \in Adding \cup {"nodes"}, NEW s \in Adding, GoOn(r, s) PROVE Moves(r)
  BY <1>4, StepNames DEF Moves, GoOn, Adding, Restarting, Closing, Waiting
<1>5. ASSUME pc[r] \in Waiting, NEW s \in Restarting \ {"sleep"}, GoOn(r, s) PROVE Moves(r)
  BY <1>5, StepNames DEF Moves, GoOn, Restarting, Closing, Waiting
<1>6. ASSUME pc[r] \in {"newcore", "startcore"}, NEW s \in {"startcore", "nodes"}, GoOn(r, s)
      PROVE  Moves(r)
  BY <1>6, StepNames DEF Moves, GoOn, Restarting, Closing, Waiting
<1>7. CASE Reset(r) \/ Load(r)
  BY <1>1, <1>5, <1>7 DEF Reset, Load, Restarting, Closing, Waiting
<1>8. CASE DeleteLimiter(r) \/ CloseTasks(r) \/ CloseNode(r) \/ CloseDone(r)
  BY <1>1, <1>2, <1>5, <1>8
     DEF DeleteLimiter, CloseTasks, CloseNode, CloseDone, Crash, starting, Restarting, Closing, Waiting
<1>9. CASE CloseCore(r)
  BY <1>1, <1>2, <1>3, <1>5, <1>9 DEF CloseCore, Crash, Fail, starting, Restarting, Closing, Waiting
<1>10. CASE NewCore(r) \/ StartCore(r)
  BY <1>1, <1>3, <1>6, <1>10 DEF NewCore, StartCore, Fail
<1>11. CASE MakeSlots(r) \/ NewClient(r)
  BY <1>1, <1>2, <1>3, <1>4, <1>11 DEF MakeSlots, NewClient, Fail, Crash, starting, Adding
<1>12. CASE Ask(r) \/ AddNode(r)
  BY <1>1, <1>2, <1>3, <1>4, <1>12 DEF Ask, AddNode, Fail, Crash, starting, Adding
<1>13. CASE StartTasks(r) \/ Started(r)
  BY <1>1, <1>3, <1>4, <1>13 DEF StartTasks, Started, Fail, Adding
<1> QED BY <1>7, <1>8, <1>9, <1>10, <1>11, <1>12, <1>13 DEF StartNext

LEMMA MonitorMoves ==
    ASSUME NEW c \in Controllers, MonitorNext(c)
    PROVE  UNCHANGED <<watcher, starting, vc, controllers, late>>
BY DEF MonitorNext, Fire, NoChange, MonitorDeletes, MonitorUnlimits, MonitorLimits, MonitorAdds, Monitor, Crash,
       watcher, starting, nodes

LEMMA TurnsStep ==
    ASSUME TypeOK, TurnsInv, [Next]_vars
    PROVE  TurnsInv'
<1> USE ReloadAssumption DEF TurnsInv, watcher, starting
<1>0. TypeOK /\ pc \in [Starts -> Steps] /\ events \in Nat /\ Starts \subseteq Nat /\ 0 \in Starts
  BY DEF TypeOK, WatcherType, StartsType, Starts
<1>1. CASE UNCHANGED vars
  BY <1>1 DEF vars
<1>2. CASE Edit
  BY <1>0, <1>2 DEF Edit
<1>3. CASE IgnoreEvent
  BY <1>0, <1>3 DEF IgnoreEvent, Watching
<1>4. CASE TakeEvent
  BY <1>0, <1>4 DEF TakeEvent, Watching, GoOn, Restarting, Closing, Adding, Starts
<1>5. CASE QuietEnds
  BY <1>0, <1>5 DEF QuietEnds, Restarting, Closing
<1>6. ASSUME NEW r \in Starts, StartNext(r) PROVE TurnsInv'
  <2>1. UNCHANGED watcher /\ Moves(r)
    BY <1>6, StartMoves
  <2> QED BY <1>0, <2>1 DEF Moves, Restarting, Closing, Adding, Waiting, Steps
<1>7. ASSUME NEW c \in Controllers, MonitorNext(c) PROVE TurnsInv'
  BY <1>7, MonitorMoves
<1>8. CASE Halted
  BY <1>1, <1>8 DEF Halted
<1> QED BY <1>1, <1>2, <1>3, <1>4, <1>5, <1>6, <1>7, <1>8 DEF Next

LEMMA TurnsHold == Spec => []TurnsInv
<1>1. Init => TurnsInv
  BY ReloadAssumption DEF Init, TurnsInv, Restarting, Closing, Adding, Starts
<1>2. TypeOK /\ TurnsInv /\ [Next]_vars => TurnsInv'
  BY TurnsStep
<1> QED BY <1>1, <1>2, TypeCorrect, PTL DEF Spec

(* What a change of one field of a core or of a controller leaves alone.     *)
LEMMA TagsChange ==
    ASSUME cores \in [Starts -> Cores], NEW k, NEW i,
           \/ cores' = [cores EXCEPT ![k].tags = @ \cup {i}]
           \/ cores' = [cores EXCEPT ![k].tags = @ \ {i}]
    PROVE  \A j \in Starts : /\ cores'[j].st = cores[j].st
                             /\ j # k => cores'[j] = cores[j]
                             /\ \A x : x # i => (x \in cores'[j].tags <=> x \in cores[j].tags)
<1>1. ASSUME NEW x \in Cores
      PROVE  /\ [x EXCEPT !.tags = @ \cup {i}].st = x.st
             /\ [x EXCEPT !.tags = @ \cup {i}].tags = x.tags \cup {i}
             /\ [x EXCEPT !.tags = @ \ {i}].st = x.st
             /\ [x EXCEPT !.tags = @ \ {i}].tags = x.tags \ {i}
  BY DEF Cores
<1>2. CASE cores' = [cores EXCEPT ![k].tags = @ \cup {i}]
  BY <1>1, <1>2
<1>3. CASE cores' = [cores EXCEPT ![k].tags = @ \ {i}]
  BY <1>1, <1>3
<1> QED BY <1>2, <1>3

LEMMA StChange ==
    ASSUME cores \in [Starts -> Cores], NEW k, NEW x, cores' = [cores EXCEPT ![k].st = x]
    PROVE  \A j \in Starts : /\ cores'[j].tags = cores[j].tags
                             /\ cores'[j].st = IF j = k THEN x ELSE cores[j].st
<1>1. ASSUME NEW y \in Cores
      PROVE  [y EXCEPT !.st = x].st = x /\ [y EXCEPT !.st = x].tags = y.tags
  BY DEF Cores
<1> QED BY <1>1

(* Only Close, New and Start of a core change its state or the core in use.  *)
LEMMA CoreKept ==
    ASSUME TypeOK, NEW r \in Starts, StartNext(r),
           ~ CloseCore(r), ~ NewCore(r), ~ StartCore(r)
    PROVE  /\ vc' = vc /\ \A k \in Starts : cores'[k].st = cores[k].st
           /\ \A q \in Starts : pc'[q] \in {"newcore", "startcore", "nodes"} => pc'[q] = pc[q]
<1> USE DEF Act, nodes, starting
<1>1. cores \in [Starts -> Cores] /\ pc \in [Starts -> Steps]
  BY DEF TypeOK, NodesType, StartsType
<1>2. CASE Reset(r) \/ Load(r) \/ DeleteLimiter(r) \/ CloseTasks(r) \/ CloseDone(r)
  BY <1>1, <1>2 DEF Reset, Load, DeleteLimiter, CloseTasks, CloseDone, Crash, GoOn
<1>3. CASE MakeSlots(r) \/ NewClient(r) \/ Ask(r) \/ StartTasks(r) \/ Started(r)
  BY <1>1, <1>3 DEF MakeSlots, NewClient, Ask, StartTasks, Started, Crash, Fail, GoOn
<1>4. CASE CloseNode(r)
  <2> DEFINE k == use[closing[r]].core
  <2>1. Crash \/ (/\ cores' = [cores EXCEPT ![k].tags = @ \ {at[r]}]
                  /\ GoOn(r, "close") /\ vc' = vc)
    BY <1>4 DEF CloseNode
  <2> HIDE DEF k
  <2>2. CASE Crash
    BY <2>2 DEF Crash
  <2>3. CASE cores' = [cores EXCEPT ![k].tags = @ \ {at[r]}] /\ GoOn(r, "close") /\ vc' = vc
    <3>1. \A j \in Starts : cores'[j].st = cores[j].st
      BY <1>1, <2>3, TagsChange
    <3>2. \A q \in Starts : pc'[q] \in {"newcore", "startcore", "nodes"} => pc'[q] = pc[q]
      BY <1>1, <2>3 DEF GoOn
    <3> QED BY <2>3, <3>1, <3>2
  <2> QED BY <2>1, <2>2, <2>3
<1>5. CASE AddNode(r)
  <2> DEFINE k == use[r].core
  <2>1. \/ Crash \/ (Fail(r) /\ UNCHANGED nodes)
        \/ /\ cores' = [cores EXCEPT ![k].tags = @ \cup {at[r]}]
           /\ GoOn(r, "tasks") /\ vc' = vc
    BY <1>5 DEF AddNode
  <2> HIDE DEF k
  <2>2. CASE Crash
    BY <2>2 DEF Crash
  <2>3. CASE Fail(r) /\ UNCHANGED nodes
    BY <1>1, <2>3 DEF Fail, GoOn
  <2>4. CASE cores' = [cores EXCEPT ![k].tags = @ \cup {at[r]}] /\ GoOn(r, "tasks") /\ vc' = vc
    <3>1. \A j \in Starts : cores'[j].st = cores[j].st
      BY <1>1, <2>4, TagsChange
    <3>2. \A q \in Starts : pc'[q] \in {"newcore", "startcore", "nodes"} => pc'[q] = pc[q]
      BY <1>1, <2>4 DEF GoOn
    <3> QED BY <2>4, <3>1, <3>2
  <2> QED BY <2>1, <2>2, <2>3, <2>4
<1> QED BY <1>2, <1>3, <1>4, <1>5 DEF StartNext

LEMMA CoreKeptByMonitor ==
    ASSUME TypeOK, NEW c \in Controllers, MonitorNext(c)
    PROVE  vc' = vc /\ pc' = pc /\ \A k \in Starts : cores'[k].st = cores[k].st
<1> DEFINE k == use[c[1]].core
<1>1. cores \in [Starts -> Cores]
  BY DEF TypeOK, NodesType
<1>2. vc' = vc /\ pc' = pc
  BY MonitorMoves DEF starting
<1>3. \/ cores' = cores
      \/ cores' = [cores EXCEPT ![k].tags = @ \ {c[2]}]
      \/ cores' = [cores EXCEPT ![k].tags = @ \cup {c[2]}]
  BY DEF MonitorNext, Fire, NoChange, MonitorDeletes, MonitorUnlimits, MonitorLimits, MonitorAdds, Crash, nodes
<1> HIDE DEF k
<1> QED BY <1>1, <1>2, <1>3, TagsChange

LEMMA CoreStep ==
    ASSUME TypeOK, TurnsInv, CoreInv, [Next]_vars
    PROVE  CoreInv'
<1> USE ReloadAssumption DEF nodes, starting
<1>0. /\ cores \in [Starts -> Cores] /\ pc \in [Starts -> Steps] /\ vc \in Starts \cup {None}
      /\ Starts \subseteq Nat /\ None \notin Starts
  BY DEF TypeOK, NodesType, StartsType, Starts
<1>1. CASE UNCHANGED <<vc, cores>> /\ \A q \in Starts : pc'[q] \in Restarting => pc'[q] \in {pc[q], "sleep"}
  BY <1>1 DEF CoreInv, Restarting, Closing
<1>2. CASE UNCHANGED vars \/ Edit \/ IgnoreEvent \/ QuietEnds \/ Halted
  BY <1>1, <1>2 DEF vars, Edit, IgnoreEvent, QuietEnds, Halted
<1>3. CASE TakeEvent
  BY <1>0, <1>1, <1>3 DEF TakeEvent, GoOn
<1>4. ASSUME NEW r \in Starts, StartNext(r), ~ CloseCore(r), ~ NewCore(r), ~ StartCore(r)
      PROVE  CoreInv'
  BY <1>4, CoreKept DEF CoreInv
<1>5. ASSUME NEW r \in Starts, pc[r] \in Restarting, NEW q \in Starts, pc[q] \in Restarting
      PROVE  q = r
  BY <1>0, <1>5 DEF TurnsInv, Restarting, Closing
<1>6. ASSUME NEW r \in Starts, CloseCore(r) PROVE CoreInv'
  <2>1. CASE Crash
    BY <1>1, <2>1 DEF Crash
  <2>2. CASE /\ cores' = [cores EXCEPT ![vc].st = "closed"] /\ vc' = vc
             /\ GoOn(r, "newcore") \/ Fail(r)
    BY <1>0, <2>2, StChange DEF CoreInv, GoOn, Fail
  <2> QED BY <1>6, <2>1, <2>2 DEF CloseCore
<1>7. ASSUME NEW r \in Starts, NewCore(r) PROVE CoreInv'
  <2>1. /\ pc[r] = "newcore"
        /\ \/ cores' = [cores EXCEPT ![r].st = "new"] /\ vc' = r /\ GoOn(r, "startcore")
           \/ cores' = cores /\ Fail(r)
    BY <1>7 DEF NewCore, Act
  <2>2. \A k \in Starts : cores'[k].st # "started"
    BY <1>0, <2>1, StChange DEF CoreInv
  <2> QED BY <1>0, <1>5, <2>1, <2>2 DEF CoreInv, GoOn, Fail, Restarting, Closing
<1>8. ASSUME NEW r \in Starts, StartCore(r) PROVE CoreInv'
  <2>1. /\ pc[r] = "startcore" /\ vc = r /\ vc' = r
        /\ \/ cores' = [cores EXCEPT ![r].st = "started"] /\ GoOn(r, "nodes")
           \/ cores' = cores /\ Fail(r)
    BY <1>8 DEF StartCore, Act, CoreInv
  <2>2. \A k \in Starts : cores'[k].st = "started" => k = r
    BY <1>0, <2>1, StChange DEF CoreInv
  <2> QED BY <1>0, <1>5, <2>1, <2>2 DEF CoreInv, GoOn, Fail, Restarting, Closing
<1>9. ASSUME NEW c \in Controllers, MonitorNext(c) PROVE CoreInv'
  BY <1>9, CoreKeptByMonitor DEF CoreInv
<1> QED BY <1>2, <1>3, <1>4, <1>6, <1>7, <1>8, <1>9 DEF Next

LEMMA CoreHolds == Spec => []CoreInv
<1>1. Init => CoreInv
  BY DEF Init, CoreInv
<1>2. TypeOK /\ TurnsInv /\ CoreInv /\ [Next]_vars => CoreInv'
  BY CoreStep
<1> QED BY <1>1, <1>2, TypeCorrect, TurnsHold, PTL DEF Spec

(* No two cores are started at a time, whatever fails and however late the   *)
(* panel answers: reloadConfig closes the old core before it makes one, and  *)
(* does not go on when either fails (cmd/server.go:88).                      *)
THEOREM OneCoreOpenHolds == Spec => []OneCoreOpen
<1>1. CoreInv => OneCoreOpen
  <2> SUFFICES ASSUME CoreInv PROVE OneCoreOpen
    OBVIOUS
  <2> DEFINE open == {k \in Starts : cores[k].st = "started"}
  <2>1. open \subseteq {vc}
    BY DEF CoreInv
  <2>2. IsFiniteSet({vc}) /\ Cardinality({vc}) = 1
    BY FS_Singleton
  <2>3. Cardinality(open) <= 1
    BY <2>1, <2>2, FS_Subset
  <2> QED BY <2>3 DEF OneCoreOpen
<1> QED BY <1>1, CoreHolds, PTL

-----------------------------------------------------------------------------
(* With a panel that answers within the watcher's ten seconds.               *)

(* No start begins before the one before it is over.                         *)
LEMMA AloneStep ==
    ASSUME Prompt, TypeOK, TurnsInv, AloneInv, [Next]_vars
    PROVE  AloneInv'
<1> USE ReloadAssumption DEF AloneInv, Busy, watcher, starting
<1>0. pc \in [Starts -> Steps] /\ Starts \subseteq Nat /\ 0 \in Starts /\ events \in Nat
  BY DEF TypeOK, WatcherType, StartsType, Starts
<1>1. CASE UNCHANGED vars \/ Edit \/ IgnoreEvent \/ Halted
  BY <1>1 DEF vars, Edit, IgnoreEvent, Halted
<1>2. CASE QuietEnds
  BY <1>2 DEF QuietEnds, Prompt
<1>3. CASE TakeEvent
  <2>1. \A r \in Starts : ~ Busy(r)
    BY <1>0, <1>3 DEF TakeEvent, Watching, TurnsInv
  <2> QED BY <1>0, <1>3, <2>1 DEF TakeEvent, GoOn, TurnsInv
<1>4. ASSUME NEW r \in Starts, StartNext(r) PROVE AloneInv'
  <2>1. UNCHANGED watcher /\ Moves(r)
    BY <1>4, StartMoves
  <2> QED BY <1>0, <2>1 DEF Moves
<1>5. ASSUME NEW c \in Controllers, MonitorNext(c) PROVE AloneInv'
  BY <1>5, MonitorMoves
<1> QED BY <1>1, <1>2, <1>3, <1>4, <1>5 DEF Next

LEMMA AloneHolds ==
    ASSUME Prompt
    PROVE  Spec => []AloneInv
<1>1. Init => AloneInv
  BY ReloadAssumption DEF Init, AloneInv, Busy, Starts
<1>2. TypeOK /\ TurnsInv /\ AloneInv /\ [Next]_vars => AloneInv'
  BY AloneStep
<1> QED BY <1>1, <1>2, TypeCorrect, TurnsHold, PTL DEF Spec

(* The start that takes a step is the only one under way, before and after.  *)
LEMMA OnlyOne ==
    ASSUME TypeOK, AloneInv, NEW r \in Starts, StartNext(r)
    PROVE  /\ Busy(r)
           /\ \A q \in Starts : q # r => pc[q] \in {"unborn", "off"} /\ pc'[q] = pc[q]
<1>1. pc \in [Starts -> Steps] /\ Starts \subseteq Nat
  BY DEF TypeOK, StartsType, Starts
<1>2. Busy(r)
  BY DEF StartNext, Reset, Load, DeleteLimiter, CloseTasks, CloseNode, CloseDone, CloseCore, NewCore, StartCore,
         MakeSlots, NewClient, Ask, AddNode, StartTasks, Started, Act, Busy
<1>3. \A q \in Starts : q # r => pc[q] \in {"unborn", "off"}
  BY <1>1, <1>2 DEF AloneInv, Busy
<1>4. \A q \in Starts : q # r => pc'[q] = pc[q]
  BY <1>1, StartMoves DEF Moves
<1> QED BY <1>2, <1>3, <1>4

(* For a step of a start, what InUseInv says of that start is enough.        *)
LEMMA InUseFrom ==
    ASSUME TypeOK, AloneInv, InUseInv, NEW r \in Starts, StartNext(r), StepInv(r)',
           use'[r].core \in {None, r}, \A q \in Starts : q # r => use'[q] = use[q],
           \A i \in Nodes : controllers'[i] \in Starts =>
               controllers'[i] = vc' /\ use'[vc'].core = vc' /\ cores'[vc'].st = "started"
    PROVE  InUseInv'
<1>1. \A q \in Starts : q # r => pc[q] \in {"unborn", "off"} /\ pc'[q] = pc[q] /\ use'[q] = use[q]
  BY OnlyOne
<1>2. \A q \in Starts : q # r => StepInv(q)'
  BY <1>1 DEF InUseInv, StepInv, Adding
<1> QED BY <1>1, <1>2 DEF InUseInv

LEMMA InUseStep ==
    ASSUME TypeOK, AloneInv, CoreInv, InUseInv, [Next]_vars
    PROVE  InUseInv'
<1> USE ReloadAssumption DEF nodes, starting
<1>0. /\ pc \in [Starts -> Steps] /\ at \in [Starts -> 1 .. N + 1] /\ use \in [Starts -> Uses]
      /\ vc \in Starts \cup {None} /\ cores \in [Starts -> Cores] /\ Starts \subseteq Nat
      /\ controllers \in [Nodes -> Starts \cup {None, Absent}] /\ N \in Nat /\ Nodes = 1 .. N
      /\ None \notin Starts /\ Absent \notin Starts /\ closing \in ByStart
  BY DEF TypeOK, NodesType, StartsType, Starts, Nodes
<1>1. CASE UNCHANGED <<at, closing, use, vc, cores, controllers>>
           /\ \A q \in Starts : pc'[q] \in {pc[q], "off"} \/ (pc[q] = "unborn" /\ pc'[q] = "sleep")
  BY <1>1 DEF InUseInv, StepInv, Restarting, Closing, Adding, NoControllers
<1>2. CASE UNCHANGED vars \/ Edit \/ IgnoreEvent \/ QuietEnds \/ Halted
  BY <1>1, <1>2 DEF vars, Edit, IgnoreEvent, QuietEnds, Halted
<1>3. CASE TakeEvent
  BY <1>0, <1>1, <1>3 DEF TakeEvent, GoOn
<1>4. ASSUME NEW r \in Starts, StartNext(r) PROVE InUseInv'
  <2> USE DEF Act
  <2>0. StepInv(r)
    BY DEF InUseInv
  <2>1. CASE /\ UNCHANGED <<use, vc, controllers>> /\ \A k \in Starts : cores'[k].st = cores[k].st
             /\ StepInv(r)'
    BY <1>4, <2>1, InUseFrom DEF InUseInv
  <2>2. CASE Crash
    BY <1>1, <2>2 DEF Crash
  <2>3. CASE Fail(r) /\ UNCHANGED <<at, closing, use, vc, cores, controllers>>
    BY <1>0, <1>1, <2>3 DEF Fail, GoOn, Restarting, Closing, Adding
  <2>4. CASE Reset(r) \/ Load(r) \/ Started(r)
    BY <1>0, <2>0, <2>1, <2>4 DEF Reset, Load, Started, GoOn, StepInv, Adding
  <2>15. CASE CloseTasks(r)
    BY <1>0, <2>0, <2>1, <2>15 DEF CloseTasks, GoOn, StepInv, Adding
  <2>5. CASE DeleteLimiter(r)
    <3>1. CASE ~ Crash
      <4>1. /\ pc[r] = "close" /\ at[r] <= Length /\ controllers[at[r]] # None
            /\ UNCHANGED <<at, use, vc, cores, controllers>> /\ GoOn(r, "stop")
            /\ closing' = [closing EXCEPT ![r] = controllers[at[r]]]
        BY <2>5, <3>1 DEF DeleteLimiter
      <4>2. at[r] \in Nodes /\ controllers[at[r]] \in Starts
        BY <1>0, <4>1, LengthValue DEF TypeOK, NodesType
      <4> QED BY <1>0, <2>0, <2>1, <4>1, <4>2 DEF GoOn, StepInv, Adding, ByStart
    <3> QED BY <2>2, <3>1
  <2>6. CASE CloseNode(r)
    <3>1. CASE ~ Crash
      <4>1. pc[r] = "delete" /\ UNCHANGED <<use, vc, controllers>> /\ GoOn(r, "close")
        BY <2>6, <3>1 DEF CloseNode
      <4>2. \A k \in Starts : cores'[k].st = cores[k].st
        BY <1>4, <2>6, CoreKept DEF CloseNode, CloseCore, NewCore, StartCore
      <4> QED BY <1>0, <2>0, <2>1, <4>1, <4>2 DEF GoOn, StepInv, Adding
    <3> QED BY <2>2, <3>1
  <2>7. CASE CloseDone(r)
    <3>1. controllers' = NoControllers /\ GoOn(r, "closecore") /\ UNCHANGED <<at, use, vc, cores>>
      BY <2>7 DEF CloseDone
    <3>2. \A i \in Nodes : controllers'[i] = Absent
      BY <3>1 DEF NoControllers
    <3>3. StepInv(r)'
      BY <1>0, <2>0, <2>7, <3>1 DEF CloseDone, GoOn, StepInv, Adding, NoControllers
    <3> QED BY <1>0, <1>4, <3>1, <3>2, <3>3, InUseFrom DEF InUseInv
  <2>8. CASE CloseCore(r) \/ NewCore(r)
    <3>1. CASE ~ Crash
      <4>1. /\ pc[r] \in {"closecore", "newcore"} /\ controllers' = controllers /\ use' = use
            /\ \E s \in {"newcore", "startcore", "off"} : GoOn(r, s)
        BY <2>8, <3>1 DEF CloseCore, NewCore, Fail
      <4>2. controllers = NoControllers
        BY <4>1 DEF InUseInv, StepInv
      <4>3. \A i \in Nodes : controllers'[i] \notin Starts
        BY <1>0, <4>1, <4>2 DEF NoControllers
      <4>4. StepInv(r)'
        BY <1>0, <2>0, <4>1, <4>2 DEF GoOn, StepInv, Adding, NoControllers
      <4> QED BY <1>4, <4>1, <4>3, <4>4, InUseFrom DEF InUseInv
    <3> QED BY <2>2, <3>1
  <2>9. CASE StartCore(r)
    <3>1. /\ pc[r] = "startcore" /\ controllers' = controllers /\ use' = use
          /\ \/ GoOn(r, "nodes") /\ cores' = [cores EXCEPT ![vc].st = "started"]
             \/ GoOn(r, "off")
      BY <2>9 DEF StartCore, Fail
    <3>2. controllers = NoControllers /\ vc = r
      BY <3>1 DEF InUseInv, StepInv, CoreInv
    <3>3. \A i \in Nodes : controllers'[i] \notin Starts
      BY <1>0, <3>1, <3>2 DEF NoControllers
    <3>4. pc'[r] = "nodes" => cores'[r].st = "started"
      BY <1>0, <3>1, <3>2, StChange DEF GoOn
    <3>5. StepInv(r)'
      BY <1>0, <2>0, <3>1, <3>2, <3>4 DEF GoOn, StepInv, Adding, NoControllers
    <3> QED BY <1>4, <3>1, <3>3, <3>5, InUseFrom DEF InUseInv
  <2>10. CASE MakeSlots(r)
    <3> DEFINE n == IF conf.part = "all" THEN N ELSE 0
    <3>1. /\ use' = [use EXCEPT ![r] = [core |-> vc, v |-> conf.v, n |-> n]]
          /\ controllers' = [i \in Nodes |-> IF i <= n THEN None ELSE Absent]
          /\ at' = [at EXCEPT ![r] = 1] /\ GoOn(r, "client")
          /\ UNCHANGED <<vc, cores>> /\ n \in 0 .. N /\ pc[r] = "nodes"
      BY <1>0, <2>10 DEF MakeSlots
    <3> HIDE DEF n
    <3>2. vc = r /\ cores[r].st = "started"
      BY <3>1 DEF InUseInv, StepInv, CoreInv
    <3>3. use'[r].core = r /\ use'[r].n = n /\ \A q \in Starts : q # r => use'[q] = use[q]
      BY <1>0, <3>1, <3>2
    <3>4. \A i \in 1 .. n : controllers'[i] = None
      BY <1>0, <3>1
    <3>5. \A i \in Nodes : controllers'[i] \notin Starts
      BY <1>0, <3>1
    <3>6. at'[r] = 1 /\ pc'[r] = "client" /\ n \in Nat
      BY <1>0, <3>1 DEF GoOn
    <3>7. StepInv(r)'
      BY <3>1, <3>2, <3>3, <3>4, <3>6 DEF StepInv, Adding
    <3> QED BY <1>4, <3>3, <3>5, <3>7, InUseFrom DEF InUseInv
  <2>11. CASE NewClient(r)
    <3>1. CASE /\ at[r] <= Length /\ controllers' = [controllers EXCEPT ![at[r]] = r]
               /\ GoOn(r, "ask") /\ UNCHANGED <<at, use, vc, cores>>
      <4>1. use[r].n \in 0 .. N
        BY <1>0 DEF Uses
      <4>2. at[r] \in 1 .. use[r].n /\ pc[r] = "client" /\ pc'[r] = "ask"
        BY <1>0, <2>11, <3>1, <4>1 DEF NewClient, GoOn
      <4>3. vc = r /\ use[r].core = r /\ cores[r].st = "started"
        BY <1>4, <4>2 DEF InUseInv, StepInv, Adding
      <4>4. \A i \in 1 .. use[r].n : controllers'[i] = IF i <= at[r] THEN r ELSE None
        BY <1>0, <3>1, <4>1, <4>2 DEF InUseInv, StepInv, Adding
      <4>5. \A i \in Nodes : controllers'[i] \in Starts => controllers'[i] = r
        BY <1>0, <3>1, <4>3 DEF InUseInv
      <4>6. StepInv(r)'
        BY <1>0, <3>1, <4>1, <4>2, <4>3, <4>4 DEF StepInv, Adding
      <4> QED BY <1>4, <3>1, <4>3, <4>5, <4>6, InUseFrom DEF InUseInv
    <3> QED BY <2>2, <2>3, <2>11, <3>1 DEF NewClient
  <2>12. CASE Ask(r)
    <3>1. CASE GoOn(r, "add")
      <4>1. pc[r] = "ask" /\ UNCHANGED <<at, use, vc, cores, controllers>>
        BY <2>12 DEF Ask
      <4>2. StepInv(r)'
        BY <1>0, <3>1, <4>1 DEF GoOn, InUseInv, StepInv, Adding
      <4> QED BY <2>1, <4>1, <4>2
    <3> QED BY <2>3, <2>12, <3>1 DEF Ask
  <2>13. CASE AddNode(r)
    <3>1. CASE GoOn(r, "tasks") /\ UNCHANGED <<at, use, vc, controllers>>
      <4>1. pc[r] = "add" /\ \A k \in Starts : cores'[k].st = cores[k].st
        BY <1>4, <2>13, CoreKept DEF AddNode, CloseCore, NewCore, StartCore
      <4>2. StepInv(r)'
        BY <1>0, <3>1, <4>1 DEF GoOn, InUseInv, StepInv, Adding
      <4> QED BY <2>1, <3>1, <4>1, <4>2
    <3> QED BY <2>2, <2>3, <2>13, <3>1 DEF AddNode
  <2>14. CASE StartTasks(r)
    <3>1. CASE GoOn(r, "client") /\ at' = [at EXCEPT ![r] = @ + 1]
      <4>1. pc[r] = "tasks" /\ UNCHANGED <<use, vc, cores, controllers>>
        BY <2>14 DEF StartTasks
      <4>2. \A i \in Nat : i < at'[r] <=> i < at[r] \/ i = at[r]
        BY <1>0, <3>1
      <4>3. pc'[r] = "client" /\ vc = r /\ use[r].core = r /\ cores[r].st = "started"
        BY <1>0, <3>1, <4>1 DEF InUseInv, StepInv, Adding, GoOn
      <4>4. \A i \in 1 .. use[r].n : controllers[i] = IF i < at'[r] THEN r ELSE None
        BY <1>0, <4>1, <4>2 DEF InUseInv, StepInv, Adding
      <4>5. StepInv(r)'
        BY <4>1, <4>3, <4>4 DEF StepInv, Adding
      <4> QED BY <2>1, <4>1, <4>5
    <3> QED BY <2>3, <2>14, <3>1 DEF StartTasks
  <2> QED BY <1>4, <2>4, <2>5, <2>6, <2>7, <2>8, <2>9, <2>10, <2>11, <2>12, <2>13, <2>14,
             <2>15 DEF StartNext
<1>5. ASSUME NEW c \in Controllers, MonitorNext(c) PROVE InUseInv'
  BY <1>5, CoreKeptByMonitor, MonitorMoves DEF InUseInv, StepInv
<1> QED BY <1>2, <1>3, <1>4, <1>5 DEF Next

LEMMA InUseHolds ==
    ASSUME Prompt
    PROVE  Spec => []InUseInv
<1>1. Init => InUseInv
  BY ReloadAssumption DEF Init, InUseInv, StepInv, Adding, NoControllers, Starts
<1>2. TypeOK /\ AloneInv /\ CoreInv /\ InUseInv /\ [Next]_vars => InUseInv'
  BY InUseStep
<1> QED BY <1>1, <1>2, TypeCorrect, AloneHolds, CoreHolds, PTL DEF Spec

(* Controllers are pairs, and a change of one field of one of them leaves    *)
(* the others, and its other field, alone.                                   *)
LEMMA Pairs ==
    ASSUME NEW c \in Controllers
    PROVE  /\ c[1] \in Starts /\ c[2] \in Nodes
           /\ \A s, i : (<<s, i>> = c) <=> (s = c[1] /\ i = c[2])
BY DEF Controllers

LEMMA FieldsChange ==
    ASSUME ctl \in [Controllers -> Fields], NEW c, NEW b
    PROVE  /\ ctl' = [ctl EXCEPT ![c].tasks = b] =>
                \A d \in Controllers : /\ ctl'[d].tag = ctl[d].tag
                                       /\ ctl'[d].tasks = IF d = c THEN b ELSE ctl[d].tasks
           /\ ctl' = [ctl EXCEPT ![c].tag = b] =>
                \A d \in Controllers : /\ ctl'[d].tasks = ctl[d].tasks
                                       /\ ctl'[d].tag = IF d = c THEN b ELSE ctl[d].tag
<1>1. ASSUME NEW x \in Fields
      PROVE  /\ [x EXCEPT !.tasks = b].tasks = b /\ [x EXCEPT !.tasks = b].tag = x.tag
             /\ [x EXCEPT !.tag = b].tag = b /\ [x EXCEPT !.tag = b].tasks = x.tasks
  BY DEF Fields
<1>2. ASSUME ctl' = [ctl EXCEPT ![c].tasks = b]
      PROVE  \A d \in Controllers : /\ ctl'[d].tag = ctl[d].tag
                                    /\ ctl'[d].tasks = IF d = c THEN b ELSE ctl[d].tasks
  BY <1>1, <1>2
<1>3. ASSUME ctl' = [ctl EXCEPT ![c].tag = b]
      PROVE  \A d \in Controllers : /\ ctl'[d].tasks = ctl[d].tasks
                                    /\ ctl'[d].tag = IF d = c THEN b ELSE ctl[d].tag
  BY <1>1, <1>3
<1> QED BY <1>2, <1>3

(* Whether a controller is current, stopped or fresh is for the start under  *)
(* way to say.                                                               *)
LEMMA CurrentOne ==
    ASSUME TypeOK, AloneInv, NEW r \in Starts, StartNext(r), NEW c \in Controllers
    PROVE  /\ Current(c) <=> /\ controllers[c[2]] = c[1]
                             /\ pc[r] \in {"close", "stop", "delete"} => at[r] <= c[2]
           /\ Current(c)' <=> /\ controllers'[c[2]] = c[1]
                              /\ pc'[r] \in {"close", "stop", "delete"} => at'[r] <= c[2]
           /\ Stopped(c) <=> pc[r] = "delete" /\ at[r] = c[2]
           /\ Stopped(c)' <=> pc'[r] = "delete" /\ at'[r] = c[2]
           /\ BeingClosed(c) <=> pc[r] \in {"stop", "delete"} /\ at[r] = c[2]
           /\ BeingClosed(c)' <=> pc'[r] \in {"stop", "delete"} /\ at'[r] = c[2]
           /\ c[1] # r => (Fresh(c)' <=> Fresh(c))
<1>1. \A q \in Starts : q # r => pc[q] \in {"unborn", "off"} /\ pc'[q] = pc[q]
  BY OnlyOne
<1>2. c[1] \in Starts
  BY Pairs
<1> QED BY <1>1, <1>2 DEF Current, Closing, Stopped, BeingClosed, Fresh, Adding

(* What disturbs no controller: nodes leave cores, and starts go on from one *)
(* step to another that is about no controller.                              *)
TagsStay == \A c \in Controllers : c[2] \in cores'[c[1]].tags => c[2] \in cores[c[1]].tags

Onward == \A q \in Starts :
    \/ pc'[q] = pc[q]
    \/ pc[q] \notin Closing /\ pc'[q] = "off"
    \/ pc[q] = "unborn" /\ pc'[q] = "sleep"
    \/ pc[q] = "sleep" /\ pc'[q] = "load"
    \/ /\ pc[q] \in {"closecore", "newcore", "startcore", "nodes"}
       /\ pc'[q] \in {"closecore", "newcore", "startcore", "nodes"}

LEMMA SameOwners ==
    ASSUME OwnersInv, UNCHANGED <<at, controllers, mon, ctl, late, limiter>>, TagsStay, Onward
    PROVE  OwnersInv'
<1>1. ASSUME NEW c \in Controllers, OwnerInv(c) PROVE OwnerInv(c)'
  <2>1. c[1] \in Starts
    BY Pairs
  <2>2. (Current(c) => Current(c)') /\ (Stopped(c)' => Stopped(c)) /\ (Fresh(c)' => Fresh(c))
    BY <2>1 DEF Current, Stopped, Fresh, Restarting, Closing, Adding, Onward
  <2>3. Limited(c) => Limited(c)'
    BY DEF Limited, BeingClosed, Closing, Onward
  <2> QED BY <1>1, <2>1, <2>2, <2>3 DEF OwnerInv, TagsStay
<1> QED BY <1>1 DEF OwnersInv, Onward

LEMMA OwnersStart ==
    ASSUME TypeOK, AloneInv, InUseInv, OwnersInv, NEW r \in Starts, StartNext(r)
    PROVE  OwnersInv'
<1> USE ReloadAssumption DEF nodes, starting, Act, Closing, AtWork
<1>0. /\ pc \in [Starts -> Steps] /\ at \in [Starts -> 1 .. N + 1] /\ use \in [Starts -> Uses]
      /\ vc \in Starts \cup {None} /\ cores \in [Starts -> Cores] /\ Starts \subseteq Nat
      /\ controllers \in [Nodes -> Starts \cup {None, Absent}] /\ N \in Nat /\ Nodes = 1 .. N
      /\ None \notin Starts /\ Absent \notin Starts /\ closing \in ByStart
      /\ limiter \in [Nodes -> Starts \cup {None}]
      /\ ctl \in [Controllers -> Fields]
  BY DEF TypeOK, NodesType, StartsType, Starts, Nodes
<1>1. \A q \in Starts : q # r => pc[q] \in {"unborn", "off"} /\ pc'[q] = pc[q]
  BY OnlyOne
<1>2. /\ \A c \in Controllers : OwnerInv(c)
      /\ pc[r] \in {"add", "tasks"} => limiter[at[r]] = r
      /\ pc[r] \in {"ask", "add", "tasks"} => controllers[at[r]] = r /\ use[r].core = r
  <2>1. use[r].n \in 0 .. N
    BY <1>0 DEF Uses
  <2> QED BY <1>0, <2>1 DEF OwnersInv, InUseInv, StepInv, Adding
<1>3. ASSUME \A c \in Controllers : OwnerInv(c)',
             pc'[r] \in {"add", "tasks"} => limiter'[at'[r]] = r
      PROVE  OwnersInv'
  BY <1>1, <1>3 DEF OwnersInv
<1>4. CASE Crash
  <2>1. TagsStay /\ Onward /\ UNCHANGED <<at, controllers, mon, ctl, late, limiter>>
    BY <1>4 DEF Crash, TagsStay, Onward
  <2> QED BY <2>1, SameOwners
<1>5. CASE Fail(r) /\ pc[r] \in Adding /\ UNCHANGED <<at, controllers, mon, ctl, late, limiter, cores>>
  <2>1. TagsStay /\ Onward /\ UNCHANGED <<at, controllers, mon, ctl, late, limiter>>
    BY <1>0, <1>5 DEF Fail, GoOn, TagsStay, Onward, Adding
  <2> QED BY <2>1, SameOwners
<1>6. CASE Reset(r) \/ Started(r)
  <2>1. TagsStay /\ Onward /\ UNCHANGED <<at, controllers, mon, ctl, late, limiter>>
    BY <1>0, <1>6 DEF Reset, Started, GoOn, TagsStay, Onward
  <2> QED BY <2>1, SameOwners
<1>7. CASE Load(r)
  <2>1. /\ pc[r] = "load" /\ pc'[r] = "close" /\ at'[r] = 1
        /\ UNCHANGED <<controllers, mon, ctl, late, limiter, cores>>
    BY <1>0, <1>7 DEF Load, GoOn
  <2>2. ASSUME NEW c \in Controllers PROVE OwnerInv(c)'
    <3>1. c[1] \in Starts /\ c[2] \in 1 .. N
      BY <1>0, Pairs
    <3>2. (Current(c)' <=> Current(c)) /\ ~ Stopped(c)'
      <4>1. at'[r] <= c[2]
        BY <1>0, <2>1, <3>1
      <4> QED BY <2>1, <4>1, CurrentOne
    <3>3. Fresh(c)' => Fresh(c)
      BY <1>0, <2>1, <3>1, CurrentOne DEF Fresh, Restarting, Closing
    <3>4. Limited(c) => Limited(c)'
      BY <2>1, <3>1, CurrentOne DEF Limited
    <3> QED BY <1>2, <2>1, <3>2, <3>3, <3>4 DEF OwnerInv
  <2> QED BY <1>3, <2>1, <2>2
<1>8. CASE DeleteLimiter(r) /\ ~ Crash
  <2>1. /\ pc[r] = "close" /\ pc'[r] = "stop" /\ at[r] <= Length
        /\ limiter' = limiter \/ limiter' = [limiter EXCEPT ![at[r]] = None]
        /\ UNCHANGED <<at, controllers, mon, ctl, late, cores>>
    BY <1>0, <1>8 DEF DeleteLimiter, GoOn
  <2>2. at[r] \in Nodes
    BY <1>0, <2>1, LengthValue DEF TypeOK, NodesType
  <2>3. ASSUME NEW c \in Controllers PROVE OwnerInv(c)'
    <3>1. c[1] \in Starts /\ c[2] \in Nodes
      BY Pairs
    <3>2. (Current(c)' <=> Current(c)) /\ ~ Stopped(c)'
      BY <1>0, <2>1, <3>1, CurrentOne
    <3>3. Fresh(c)' => Fresh(c)
      BY <1>0, <2>1, <3>1, CurrentOne DEF Fresh, Restarting, Adding
    <3>4. Limited(c) => Limited(c)'
      BY <1>0, <2>1, <2>2, <3>1, CurrentOne DEF Limited
    <3> QED BY <1>2, <2>1, <3>2, <3>3, <3>4 DEF OwnerInv
  <2> QED BY <1>3, <2>1, <2>3
<1>21. CASE CloseTasks(r)
  <2> DEFINE d == <<closing[r], at[r]>>
  <2>1. /\ pc[r] = "stop" /\ pc'[r] = "delete"
        /\ ctl' = [ctl EXCEPT ![d].tasks = FALSE]
        /\ late' = IF mon[d] = "idle" THEN late ELSE late \cup {d}
        /\ UNCHANGED <<at, controllers, mon, limiter, cores>>
    BY <1>0, <1>21 DEF CloseTasks, GoOn
  <2>2. d \in Controllers
    BY <1>0, <2>1 DEF TypeOK, StartsType, Controllers, ByStart
  <2>3. at[r] = d[2] /\ controllers[d[2]] = d[1]
    BY <2>1 DEF InUseInv, StepInv
  <2>4. \A c \in Controllers : c[2] = d[2] /\ controllers[c[2]] = c[1] => c = d
    BY <2>2, <2>3, Pairs
  <2> HIDE DEF d
  <2>5. ASSUME NEW c \in Controllers PROVE OwnerInv(c)'
    <3>1. c[1] \in Starts /\ c[2] \in Nodes
      BY Pairs
    <3>2. /\ Current(c)' <=> Current(c)
          /\ Current(c) => controllers[c[2]] = c[1]
          /\ Stopped(c)' <=> c[2] = d[2]
      BY <1>0, <2>1, <2>3, <3>1, CurrentOne
    <3>3. Fresh(c)' => Fresh(c)
      BY <1>0, <2>1, <3>1, CurrentOne DEF Fresh, Restarting, Adding
    <3>4. ctl'[c].tasks = IF c = d THEN FALSE ELSE ctl[c].tasks
      BY <1>0, <2>1, FieldsChange
    <3>5. Limited(c) => Limited(c)'
      BY <2>1, CurrentOne DEF Limited
    <3>6. c \in late' <=> c \in late \/ (c = d /\ mon[c] # "idle")
      BY <2>1
    <3> QED BY <1>2, <2>1, <2>4, <3>2, <3>3, <3>4, <3>5, <3>6 DEF OwnerInv
  <2> QED BY <1>3, <2>1, <2>5
<1>9. CASE CloseNode(r) /\ ~ Crash
  <2> DEFINE s == closing[r]
             d == <<s, at[r]>>
             k == use[s].core
  <2>1. /\ pc[r] = "delete" /\ pc'[r] = "close" /\ at'[r] = at[r] + 1 /\ Registered(k, at[r])
        /\ cores' = [cores EXCEPT ![k].tags = @ \ {at[r]}]
        /\ UNCHANGED <<controllers, mon, ctl, late, limiter>>
    BY <1>0, <1>9 DEF CloseNode, GoOn
  <2>2. s \in Starts /\ at[r] \in Nodes /\ k = s /\ controllers[at[r]] = s
    BY <1>0, <2>1 DEF InUseInv, StepInv, TypeOK, StartsType, ByStart
  <2>3. d \in Controllers /\ d[1] = s /\ d[2] = at[r]
    BY <2>2 DEF Controllers
  <2>4. \A c \in Controllers : c[2] = d[2] /\ controllers[c[2]] = c[1] => c = d
    BY <2>2, <2>3, Pairs
  <2>5. at[r] \in cores[s].tags
    BY <2>1, <2>2 DEF Registered
  <2> HIDE DEF d, k, s
  <2>6. mon[d] \in {"idle", "asked"}
    BY <1>0, <1>2, <2>3, <2>5 DEF OwnerInv, TypeOK, NodesType
  <2>7. ASSUME NEW c \in Controllers PROVE OwnerInv(c)'
    <3>1. c[1] \in Starts /\ c[2] \in 1 .. N /\ d[2] \in 1 .. N
      BY <1>0, <2>3, Pairs
    <3>2. /\ Current(c) => controllers[c[2]] = c[1]
          /\ Current(c)' <=> Current(c) /\ c[2] # d[2]
          /\ ~ Stopped(c)' /\ (Stopped(c) <=> c[2] = d[2]) /\ (Fresh(c)' <=> Fresh(c))
      BY <1>0, <2>1, <2>3, <3>1, CurrentOne, SMTT(20) DEF Fresh, Restarting, Closing, Adding
    <3>3. c[2] \in cores'[c[1]].tags => c[2] \in cores[c[1]].tags /\ (c[1] = d[1] => c[2] # d[2])
      BY <1>0, <2>1, <2>2, <2>3, <3>1 DEF Cores
    <3>4. c = d <=> c[1] = d[1] /\ c[2] = d[2]
      BY <2>3, Pairs
    <3>5. Limited(c) /\ c[2] # d[2] => Limited(c)'
      BY <2>1, <2>3, CurrentOne DEF Limited
    <3> QED BY <1>2, <2>1, <2>4, <2>6, <3>2, <3>3, <3>4, <3>5 DEF OwnerInv
  <2> QED BY <1>3, <2>1, <2>7
<1>10. CASE CloseDone(r)
  <2>1. /\ pc[r] = "close" /\ pc'[r] = "closecore" /\ at[r] > Length /\ controllers' = NoControllers
        /\ UNCHANGED <<at, mon, ctl, late, limiter, cores>>
    BY <1>0, <1>10 DEF CloseDone, GoOn
  <2>2. ASSUME NEW c \in Controllers PROVE OwnerInv(c)'
    <3>1. c[1] \in Starts /\ c[2] \in 1 .. N
      BY <1>0, Pairs
    <3>2. ~ Current(c)
      <4>1. CASE controllers = NoControllers
        BY <1>0, <3>1, <4>1 DEF NoControllers, Current, Closing
      <4>2. CASE \A i \in Nodes : controllers[i] # Absent
        BY <1>0, <2>1, <3>1, <4>2, LengthValue, CurrentOne
      <4> QED BY <4>1, <4>2 DEF TypeOK, NodesType
    <3>3. Fresh(c)' => Fresh(c)
      BY <1>0, <1>1, <2>1, <3>1 DEF Fresh, Restarting, Closing, Adding
    <3>4. ctl[c].tasks /\ c \notin late => FALSE
      BY <1>2, <3>2 DEF OwnerInv
    <3> QED BY <1>2, <2>1, <3>2, <3>3, <3>4 DEF OwnerInv
  <2> QED BY <1>3, <2>1, <2>2
<1>11. CASE (CloseCore(r) \/ NewCore(r) \/ StartCore(r)) /\ ~ Crash
  <2>1. /\ UNCHANGED <<at, controllers, mon, ctl, late, limiter>>
        /\ pc[r] \in {"closecore", "newcore", "startcore"}
        /\ pc'[r] \in {"newcore", "startcore", "nodes", "off"}
        /\ cores' = cores \/ \E k, x : cores' = [cores EXCEPT ![k].st = x]
    BY <1>0, <1>11 DEF CloseCore, NewCore, StartCore, GoOn, Fail
  <2>2. \A k \in Starts : cores'[k].tags = cores[k].tags
    BY <1>0, <2>1, StChange
  <2>3. TagsStay /\ Onward
    BY <1>1, <2>1, <2>2, Pairs DEF TagsStay, Onward
  <2> QED BY <2>1, <2>3, SameOwners
<1>12. CASE MakeSlots(r)
  <2>1. /\ pc[r] = "nodes" /\ pc'[r] = "client" /\ controllers = NoControllers
        /\ \A i \in Nodes : controllers'[i] \notin Starts
        /\ UNCHANGED <<mon, ctl, late, limiter, cores>>
    BY <1>0, <1>12 DEF MakeSlots, GoOn, InUseInv, StepInv
  <2>2. ASSUME NEW c \in Controllers PROVE OwnerInv(c)'
    <3>1. c[1] \in Starts /\ c[2] \in Nodes
      BY <1>0, Pairs
    <3>2. ~ Current(c) /\ (Fresh(c)' => Fresh(c))
      BY <1>0, <2>1, <3>1, CurrentOne DEF Current, NoControllers, Fresh, Restarting, Closing
    <3> QED BY <1>2, <2>1, <3>1, <3>2 DEF OwnerInv
  <2> QED BY <1>3, <2>1, <2>2
<1>13. CASE NewClient(r) /\ GoOn(r, "ask")
  <2>1. /\ pc[r] = "client" /\ pc'[r] = "ask" /\ at[r] <= use[r].n /\ at[r] <= Length
        /\ controllers' = [controllers EXCEPT ![at[r]] = r]
        /\ UNCHANGED <<at, mon, ctl, late, limiter, cores>>
    BY <1>0, <1>13 DEF NewClient, GoOn, Fail, Crash
  <2>2. controllers[at[r]] = None /\ at[r] \in Nodes
    <3>1. use[r].n \in 0 .. N
      BY <1>0 DEF Uses
    <3> QED BY <1>0, <2>1, <3>1 DEF InUseInv, StepInv, Adding
  <2>3. ASSUME NEW c \in Controllers PROVE OwnerInv(c)'
    <3>1. c[1] \in Starts /\ c[2] \in Nodes
      BY <1>0, Pairs
    <3>2. pc'[r] \notin {"close", "stop", "delete"} /\ (controllers[c[2]] = c[1] => c[2] # at[r])
      BY <1>0, <2>1, <2>2, <3>1
    <3>3. ~ Stopped(c)' /\ (Current(c) => Current(c)')
      BY <1>0, <2>1, <3>1, <3>2, CurrentOne
    <3>4. Fresh(c)' <=> Fresh(c)
      BY <1>0, <2>1, <3>1, CurrentOne DEF Fresh, Restarting, Closing, Adding
    <3>5. Limited(c) => Limited(c)'
      BY <2>1, CurrentOne DEF Limited
    <3> QED BY <1>2, <2>1, <3>3, <3>4, <3>5 DEF OwnerInv
  <2> QED BY <1>3, <2>1, <2>3
<1>14. CASE Ask(r) /\ GoOn(r, "add")
  <2>1. /\ pc[r] = "ask" /\ pc'[r] = "add"
        /\ ctl' = [ctl EXCEPT ![<<r, at[r]>>].tag = TRUE]
        /\ limiter' = [limiter EXCEPT ![at[r]] = r]
        /\ UNCHANGED <<at, controllers, mon, late, cores>>
    BY <1>0, <1>14 DEF Ask, GoOn, Fail, Crash
  <2>2. at[r] \in Nodes
    BY <2>1 DEF TypeOK, StartsType
  <2>3. ASSUME NEW c \in Controllers PROVE OwnerInv(c)'
    <3>1. c[1] \in Starts /\ c[2] \in Nodes
      BY <1>0, Pairs
    <3>2. /\ (Current(c)' <=> Current(c)) /\ ~ Stopped(c)' /\ (Fresh(c)' <=> Fresh(c))
          /\ Current(c) => controllers[c[2]] = c[1]
      BY <1>0, <2>1, <3>1, CurrentOne DEF Fresh, Restarting, Closing, Adding
    <3>3. ctl'[c].tasks = ctl[c].tasks
      BY <1>0, <2>1, FieldsChange, ZenonT(30)
    <3>4. limiter'[c[2]] = IF c[2] = at[r] THEN r ELSE limiter[c[2]]
      BY <1>0, <2>1, <3>1
    <3>5. Current(c) /\ Limited(c) => Limited(c)'
      BY <1>2, <2>1, <3>2, <3>4, CurrentOne DEF Limited
    <3> QED BY <1>2, <2>1, <3>2, <3>3, <3>5 DEF OwnerInv
  <2>4. limiter'[at'[r]] = r
    BY <1>0, <2>1, <2>2
  <2> QED BY <1>3, <2>3, <2>4
<1>15. CASE AddNode(r) /\ GoOn(r, "tasks")
  <2> DEFINE k == use[r].core
  <2>1. /\ pc[r] = "add" /\ pc'[r] = "tasks" /\ cores' = [cores EXCEPT ![k].tags = @ \cup {at[r]}]
        /\ UNCHANGED <<at, controllers, mon, ctl, limiter, late>>
    BY <1>0, <1>15 DEF AddNode, GoOn, Fail, Crash
  <2>2. k = r /\ controllers[at[r]] = r
    BY <1>2, <2>1
  <2> HIDE DEF k
  <2>3. ASSUME NEW c \in Controllers PROVE OwnerInv(c)'
    <3>1. c[1] \in Starts /\ c[2] \in Nodes
      BY <1>0, Pairs
    <3>2. /\ (Current(c)' <=> Current(c)) /\ ~ Stopped(c)' /\ (Fresh(c)' <=> Fresh(c))
          /\ c[1] = r /\ c[2] = at[r] => Current(c) /\ Fresh(c)
      <4>1. (Current(c)' <=> Current(c)) /\ ~ Stopped(c)' /\ (c[1] # r => (Fresh(c)' <=> Fresh(c)))
        BY <2>1, CurrentOne
      <4>2. c[1] = r /\ c[2] = at[r] => Current(c)
        BY <2>1, <2>2, CurrentOne
      <4>3. c[1] = r => (Fresh(c)' <=> Fresh(c)) /\ (c[2] = at[r] => Fresh(c))
        BY <1>0, <2>1, <3>1 DEF Fresh, Restarting, Adding
      <4> QED BY <4>1, <4>2, <4>3
    <3>3. c[2] \in cores'[c[1]].tags => c[2] \in cores[c[1]].tags \/ (c[1] = r /\ c[2] = at[r])
      BY <1>0, <2>1, <2>2, <3>1, TagsChange
    <3>4. Limited(c) => Limited(c)'
      BY <2>1, CurrentOne DEF Limited
    <3>5. c[1] = r /\ c[2] = at[r] => mon[c] = "idle"
      BY <1>2, <3>2 DEF OwnerInv
    <3> QED BY <1>2, <2>1, <3>2, <3>3, <3>4, <3>5 DEF OwnerInv
  <2> QED BY <1>2, <1>3, <2>1, <2>3
<1>16. CASE StartTasks(r) /\ GoOn(r, "client")
  <2>1. /\ pc[r] = "tasks" /\ pc'[r] = "client" /\ ctl' = [ctl EXCEPT ![<<r, at[r]>>].tasks = TRUE]
        /\ at'[r] = at[r] + 1
        /\ UNCHANGED <<controllers, mon, limiter, late, cores>>
    BY <1>0, <1>16 DEF StartTasks, GoOn, Fail, Crash
  <2>2. ASSUME NEW c \in Controllers PROVE OwnerInv(c)'
    <3>1. c[1] \in Starts /\ c[2] \in 1 .. N
      BY <1>0, Pairs
    <3>2. /\ Current(c)' <=> Current(c)
          /\ Current(c) <=> controllers[c[2]] = c[1]
          /\ ~ Stopped(c)' /\ ~ Stopped(c)
          /\ Fresh(c)' => Fresh(c) /\ ~ (c[1] = r /\ c[2] = at[r])
      BY <1>0, <2>1, <3>1, CurrentOne, SMTT(20) DEF Fresh, Restarting, Closing, Adding
    <3>3. ctl'[c].tasks = IF c[1] = r /\ c[2] = at[r] THEN TRUE ELSE ctl[c].tasks
      <4>1. ctl'[c].tasks = IF c = <<r, at[r]>> THEN TRUE ELSE ctl[c].tasks
        BY <1>0, <2>1, FieldsChange
      <4> QED BY <4>1 DEF Controllers
    <3>4. /\ Limited(c) => Limited(c)'
          /\ c[1] = r /\ c[2] = at[r] => Limited(c)' /\ Current(c)
      BY <1>2, <2>1, <3>2, CurrentOne DEF Limited
    <3> QED BY <1>2, <2>1, <3>2, <3>3, <3>4 DEF OwnerInv
  <2> QED BY <1>3, <2>1, <2>2
<1>17. CASE NewClient(r)
  BY <1>4, <1>5, <1>13, <1>17 DEF NewClient, Adding
<1>18. CASE Ask(r)
  BY <1>5, <1>14, <1>18 DEF Ask, Adding
<1>19. CASE AddNode(r)
  BY <1>4, <1>5, <1>15, <1>19 DEF AddNode, Adding
<1>20. CASE StartTasks(r)
  BY <1>5, <1>16, <1>20 DEF StartTasks, Adding
<1> QED
  BY <1>4, <1>6, <1>7, <1>8, <1>9, <1>10, <1>11, <1>12, <1>17, <1>18, <1>19, <1>20, <1>21 DEF StartNext

LEMMA OwnersMonitor ==
    ASSUME TypeOK, InUseInv, OwnersInv, NEW d \in Controllers, MonitorNext(d)
    PROVE  OwnersInv'
<1> USE DEF Monitor, Closing, AtWork
<1>0. /\ mon \in [Controllers -> {"idle", "asked", "deleted", "unlimited", "limited"}]
      /\ ctl \in [Controllers -> Fields] /\ cores \in [Starts -> Cores]
      /\ limiter \in [Nodes -> Starts \cup {None}] /\ d[1] \in Starts /\ d[2] \in Nodes
  BY Pairs DEF TypeOK, NodesType
<1>1. UNCHANGED <<pc, at, closing, use, vc, controllers, late>>
  BY MonitorMoves DEF starting
<1>2. \A c \in Controllers : OwnerInv(c)
  BY DEF OwnersInv
<1>3. ASSUME NEW c \in Controllers
      PROVE  /\ Current(c)' <=> Current(c)
             /\ Stopped(c)' <=> Stopped(c)
             /\ Fresh(c)' <=> Fresh(c)
             /\ BeingClosed(c)' <=> BeingClosed(c)
             /\ Current(c) /\ Current(d) /\ c[2] = d[2] => c = d
  <2>1. c = d <=> c[1] = d[1] /\ c[2] = d[2]
    BY DEF Controllers
  <2> QED BY <1>1, <2>1 DEF Current, Stopped, Fresh, BeingClosed
<1>4. ASSUME limiter' = limiter, \A c \in Controllers : OwnerInv(c)' PROVE OwnersInv'
  BY <1>1, <1>4 DEF OwnersInv
<1>5. CASE Fire(d) \/ NoChange(d)
  <2>1. /\ mon'[d] \in {"idle", "asked"} /\ (mon'[d] = "asked" => ctl[d].tasks)
        /\ \A c \in Controllers : c # d => mon'[c] = mon[c]
        /\ UNCHANGED <<ctl, limiter, cores>>
    BY <1>0, <1>5 DEF Fire, NoChange
  <2>2. ASSUME NEW c \in Controllers PROVE OwnerInv(c)'
    <3>1. Limited(c) => Limited(c)'
      BY <1>0, <1>3, <1>5, <2>1 DEF Limited, Fire, NoChange
    <3> QED BY <1>1, <1>2, <1>3, <2>1, <3>1 DEF OwnerInv
  <2> QED BY <1>4, <2>1, <2>2
<1>6. CASE MonitorDeletes(d)
  <2> DEFINE k == use[d[1]].core
  <2>1. CASE Crash
    <3>1. UNCHANGED <<mon, ctl, limiter, cores>>
      BY <2>1 DEF Crash, nodes
    <3>2. ASSUME NEW c \in Controllers PROVE OwnerInv(c)'
      BY <1>1, <1>2, <1>3, <3>1 DEF OwnerInv, Limited
    <3> QED BY <1>4, <3>1, <3>2
  <2>2. CASE ~ Crash
    <3>1. /\ mon[d] = "asked" /\ mon'[d] = "deleted" /\ Registered(k, d[2])
          /\ \A c \in Controllers : c # d => mon'[c] = mon[c]
          /\ cores' = [cores EXCEPT ![k].tags = @ \ {d[2]}]
          /\ UNCHANGED <<ctl, limiter>>
      BY <1>0, <1>6, <2>2 DEF MonitorDeletes
    <3>2. k = d[1]
      BY <1>0, <3>1 DEF Registered, InUseInv
    <3>3. d[2] \in cores[d[1]].tags /\ Current(d)
      BY <1>2, <3>1, <3>2 DEF Registered, OwnerInv
    <3> HIDE DEF k
    <3>4. ASSUME NEW c \in Controllers PROVE OwnerInv(c)'
      <4>1. c[1] \in Starts
        BY Pairs
      <4>2. c[2] \in cores'[c[1]].tags => c[2] \in cores[c[1]].tags
        BY <1>0, <3>1, <4>1 DEF Cores
      <4>3. d[2] \notin cores'[d[1]].tags
        BY <1>0, <3>1, <3>2 DEF Cores
      <4>4. Limited(c) => Limited(c)'
        BY <1>3, <3>1 DEF Limited
      <4> QED BY <1>1, <1>2, <1>3, <3>1, <3>3, <4>2, <4>3, <4>4 DEF OwnerInv
    <3> QED BY <1>4, <3>1, <3>4
  <2> QED BY <2>1, <2>2
<1>7. CASE MonitorUnlimits(d) \/ MonitorLimits(d)
  <2>1. /\ mon[d] \in {"deleted", "unlimited"} /\ mon'[d] \in {"unlimited", "limited", "idle"}
        /\ \A c \in Controllers : c # d => mon'[c] = mon[c]
        /\ \/ mon'[d] = "unlimited" /\ limiter' = [limiter EXCEPT ![d[2]] = None]
           \/ limiter' = [limiter EXCEPT ![d[2]] = d[1]]
        /\ UNCHANGED <<ctl, cores>>
    BY <1>0, <1>7 DEF MonitorUnlimits, MonitorLimits
  <2>2. Current(d) /\ d[2] \notin cores[d[1]].tags /\ ~ Fresh(d)
    BY <1>2, <2>1 DEF OwnerInv
  <2>3. ASSUME NEW c \in Controllers PROVE OwnerInv(c)'
    <3>1. Current(c) /\ Limited(c) => Limited(c)'
      <4>1. CASE c = d
        BY <1>0, <2>1, <4>1 DEF Limited
      <4>2. CASE c # d
        <5>1. Current(c) => c[2] # d[2]
          BY <1>3, <2>2, <4>2
        <5>2. c[2] \in Nodes
          BY Pairs
        <5> QED BY <1>0, <1>3, <2>1, <4>2, <5>1, <5>2 DEF Limited
      <4> QED BY <4>1, <4>2
    <3> QED BY <1>1, <1>2, <1>3, <2>1, <2>2, <3>1 DEF OwnerInv
  <2>4. \A r \in Starts : pc[r] \in {"add", "tasks"} => limiter'[at[r]] = r
    <3>1. ASSUME NEW r \in Starts, pc[r] \in {"add", "tasks"} PROVE limiter'[at[r]] = r
      <4>1. limiter[at[r]] = r /\ vc = r /\ at[r] \in Nodes
        BY <3>1 DEF OwnersInv, InUseInv, StepInv, Adding, TypeOK, StartsType
      <4>2. d[1] = vc
        BY <1>0, <2>2 DEF Current, InUseInv
      <4>3. d[2] # at[r]
        BY <2>2, <3>1, <4>1, <4>2 DEF Fresh, Adding, TypeOK, StartsType
      <4> QED BY <1>0, <2>1, <4>1, <4>3
    <3> QED BY <3>1
  <2> QED BY <1>1, <2>3, <2>4 DEF OwnersInv
<1>8. CASE MonitorAdds(d)
  <2> DEFINE k == use[d[1]].core
  <2>1. CASE UNCHANGED <<nodes, mon>>
    <3>1. UNCHANGED <<mon, ctl, limiter, cores>>
      BY <2>1 DEF nodes
    <3>2. ASSUME NEW c \in Controllers PROVE OwnerInv(c)'
      BY <1>1, <1>2, <1>3, <3>1 DEF OwnerInv, Limited
    <3> QED BY <1>4, <3>1, <3>2
  <2>2. CASE ~ UNCHANGED <<nodes, mon>>
    <3>1. /\ mon[d] = "limited" /\ mon'[d] = "idle"
          /\ \A c \in Controllers : c # d => mon'[c] = mon[c]
          /\ cores' = [cores EXCEPT ![k].tags = @ \cup {d[2]}]
          /\ \E restart \in BOOLEAN : ctl' = [ctl EXCEPT ![d].tasks = @ \/ restart]
          /\ UNCHANGED limiter
      BY <1>0, <1>8, <2>2 DEF MonitorAdds
    <3>2. Current(d) /\ k = d[1]
      <4>1. Current(d)
        BY <1>2, <3>1 DEF OwnerInv
      <4> QED BY <1>0, <4>1 DEF Current, Closing, InUseInv
    <3> HIDE DEF k
    <3>3. ASSUME NEW c \in Controllers PROVE OwnerInv(c)'
      <4>1. c[1] \in Starts
        BY Pairs
      <4>2. c[2] \in cores'[c[1]].tags => c[2] \in cores[c[1]].tags \/ c = d
        <5>1. c = d <=> c[1] = d[1] /\ c[2] = d[2]
          BY DEF Controllers
        <5> QED BY <1>0, <3>1, <3>2, <4>1, <5>1, TagsChange
      <4>3. c # d => ctl'[c].tasks = ctl[c].tasks
        BY <1>0, <3>1
      <4>4. ctl[d].tasks => ctl'[d].tasks
        BY <1>0, <3>1 DEF Fields
      <4>5. d \notin late => ctl[d].tasks
        BY <1>2, <3>1 DEF OwnerInv
      <4>6. Limited(c) => Limited(c)'
        BY <1>0, <1>3, <3>1 DEF Limited
      <4>7. c = d \/ c # d
        OBVIOUS
      <4> QED BY <1>1, <1>2, <1>3, <3>1, <3>2, <4>2, <4>3, <4>4, <4>5, <4>6, <4>7 DEF OwnerInv
    <3> QED BY <1>4, <3>1, <3>3
  <2> QED BY <2>1, <2>2
<1> QED BY <1>5, <1>6, <1>7, <1>8 DEF MonitorNext

LEMMA OwnersStep ==
    ASSUME TypeOK, AloneInv, InUseInv, OwnersInv, [Next]_vars
    PROVE  OwnersInv'
<1> USE DEF nodes, starting
<1>1. CASE UNCHANGED vars \/ Edit \/ IgnoreEvent \/ QuietEnds \/ TakeEvent \/ Halted
  <2>1. UNCHANGED <<at, controllers, mon, ctl, late, limiter, cores>>
    BY <1>1 DEF vars, Edit, IgnoreEvent, QuietEnds, TakeEvent, Halted
  <2>2. pc \in [Starts -> Steps]
    BY DEF TypeOK, StartsType
  <2>3. TagsStay /\ Onward
    BY <1>1, <2>1, <2>2
       DEF vars, Edit, IgnoreEvent, QuietEnds, TakeEvent, Halted, GoOn, TagsStay, Onward
  <2> QED BY <2>1, <2>3, SameOwners
<1> QED BY <1>1, OwnersStart, OwnersMonitor DEF Next

LEMMA OwnersHold ==
    ASSUME Prompt
    PROVE  Spec => []OwnersInv
<1>1. Init => OwnersInv
  <2> SUFFICES ASSUME Init PROVE OwnersInv
    OBVIOUS
  <2>1. ASSUME NEW c \in Controllers PROVE OwnerInv(c)
    BY Pairs DEF Init, OwnerInv, Controllers, Starts, Nodes
  <2> QED BY <2>1 DEF Init, OwnersInv
<1>2. TypeOK /\ AloneInv /\ InUseInv /\ OwnersInv /\ [Next]_vars => OwnersInv'
  BY OwnersStep
<1> QED BY <1>1, <1>2, TypeCorrect, AloneHolds, InUseHolds, PTL DEF Spec

(* When the panel answers in time, whatever else fails: tasks that run are   *)
(* those of controllers in Node.controllers, on the core in use; a restart   *)
(* leaves none behind, but those of a controller whose monitor was at work   *)
(* when it was closed (node/controller.go:101).                              *)
THEOREM TasksOwnedHolds ==
    ASSUME Prompt
    PROVE  Spec => []TasksOwned
<1>1. InUseInv /\ OwnersInv => TasksOwned
  <2> SUFFICES ASSUME InUseInv, OwnersInv, NEW c \in Controllers, ctl[c].tasks, c \notin late
               PROVE  Owned(c)
    BY DEF TasksOwned
  <2>1. controllers[c[2]] = c[1] /\ c[1] \in Starts /\ c[2] \in Nodes
    BY Pairs DEF OwnersInv, OwnerInv, Current, Closing
  <2> QED BY <2>1 DEF Owned, InUseInv
<1> QED BY <1>1, InUseHolds, OwnersHold, PTL

(* When the panel answers in time, whatever else fails: connections of a     *)
(* node are judged by the limiter of the controller that looks after it, not *)
(* by one that another controller, or the one before it, put into the global *)
(* map under the same tag (limiter.AddLimiter, DeleteLimiter).               *)
THEOREM LimiterIsOwnersHolds ==
    ASSUME Prompt
    PROVE  Spec => []LimiterIsOwners
<1>1. OwnersInv => LimiterIsOwners
  BY DEF OwnersInv, OwnerInv, LimiterIsOwners
<1> QED BY <1>1, OwnersHold, PTL

(* A step of a start that does not fail keeps what is complete complete.     *)
LEMMA CompleteStart ==
    ASSUME TypeOK, AloneInv, InUseInv, OwnersInv, Complete, NEW r \in Starts, StartNext(r),
           ~ faulty'
    PROVE  Complete'
<1> USE ReloadAssumption DEF nodes, starting, process, Act, Closing, AtWork
<1>0. /\ pc \in [Starts -> Steps] /\ at \in [Starts -> 1 .. N + 1] /\ use \in [Starts -> Uses]
      /\ vc \in Starts \cup {None} /\ cores \in [Starts -> Cores] /\ Starts \subseteq Nat
      /\ controllers \in [Nodes -> Starts \cup {None, Absent}] /\ N \in Nat /\ Nodes = 1 .. N
      /\ None \notin Starts /\ Absent \notin Starts /\ ctl \in [Controllers -> Fields]
      /\ mon \in [Controllers -> {"idle", "asked", "deleted", "unlimited", "limited"}]
  BY DEF TypeOK, NodesType, StartsType, Starts, Nodes
<1>1. /\ \A q \in Starts : q # r => pc[q] \in {"unborn", "off"} /\ pc'[q] = pc[q]
      /\ Busy(r) /\ ~ Fail(r)
  BY OnlyOne DEF Fail
<1>2. /\ pc[r] # "load" => conf.part = "all"
      /\ pc[r] # "newcore" => vc # None
      /\ pc[r] \in Adding => use[r].n = N
      /\ pc[r] \in {"sleep", "load", "close", "stop", "delete"} => \A i \in Nodes : controllers[i] = vc
      /\ \A c \in Controllers : Current(c) => Served(c)
      /\ StepInv(r)
  BY <1>1 DEF Complete, InUseInv, Adding
<1>3. ASSUME pc'[r] # "load" => conf'.part = "all",
             pc'[r] # "newcore" => vc' # None,
             pc'[r] \in Adding => use'[r].n = N,
             pc'[r] \in {"off", "sleep", "load", "close", "stop", "delete"} =>
                 \A i \in Nodes : controllers'[i] = vc',
             \A c \in Controllers : Current(c)' => Served(c)'
      PROVE  Complete'
  <2>1. pc'[r] # "unborn"
    BY <1>0, <1>1, StartMoves DEF Moves, Busy
  <2> QED BY <1>1, <1>3, <2>1 DEF Complete, Adding
<1>4. CASE Crash
  <2>1. UNCHANGED <<conf, vc, use, pc, at, controllers, cores, mon, ctl>>
    BY <1>4 DEF Crash
  <2> QED BY <2>1 DEF Complete, Current, Closing, Served, Fresh, Stopped
<1>5. CASE Reset(r) \/ Load(r)
  <2>1. /\ UNCHANGED <<vc, use, controllers, cores, mon, ctl>>
        /\ \/ pc[r] = "sleep" /\ pc'[r] = "load" /\ at' = at
           \/ pc[r] = "load" /\ pc'[r] = "close" /\ conf'.part = "all" /\ at'[r] = 1
    BY <1>0, <1>5 DEF Reset, Load, GoOn
  <2>2. ASSUME NEW c \in Controllers, Current(c)' PROVE Served(c)'
    <3>1. c[1] \in Starts /\ c[2] \in 1 .. N
      BY <1>0, Pairs
    <3>2. Current(c) /\ ~ Stopped(c)
      BY <2>1, <2>2, CurrentOne
    <3>3. Fresh(c) => Fresh(c)'
      BY <1>0, <2>1, <3>1, CurrentOne DEF Fresh, Restarting, Closing, Adding
    <3>4. pc'[c[1]] # "tasks"
      BY <1>1, <2>1, <3>1
    <3> QED BY <1>2, <2>1, <3>2, <3>3, <3>4 DEF Served
  <2> QED BY <1>2, <1>3, <2>1, <2>2 DEF Adding
<1>14. CASE DeleteLimiter(r) /\ ~ Crash
  <2>1. /\ UNCHANGED <<conf, vc, use, at, controllers, cores, mon, ctl>>
        /\ pc[r] = "close" /\ pc'[r] = "stop"
    BY <1>0, <1>14 DEF DeleteLimiter, GoOn
  <2>2. ASSUME NEW c \in Controllers, Current(c)' PROVE Served(c)'
    <3>1. c[1] \in Starts
      BY Pairs
    <3>2. Current(c) /\ ~ Stopped(c)
      BY <2>1, <2>2, CurrentOne
    <3>3. Fresh(c) => Fresh(c)'
      BY <1>0, <2>1, <3>1, CurrentOne DEF Fresh, Restarting, Adding
    <3>4. pc'[c[1]] # "tasks"
      BY <1>1, <2>1, <3>1
    <3> QED BY <1>2, <2>1, <3>2, <3>3, <3>4 DEF Served
  <2> QED BY <1>2, <1>3, <2>1, <2>2 DEF Adding
<1>6. CASE CloseTasks(r)
  <2> DEFINE d == <<closing[r], at[r]>>
  <2>1. /\ UNCHANGED <<conf, vc, use, at, controllers, cores, mon>>
        /\ pc[r] = "stop" /\ pc'[r] = "delete" /\ ctl' = [ctl EXCEPT ![d].tasks = FALSE]
    BY <1>0, <1>6 DEF CloseTasks, GoOn
  <2>2. d[2] = at[r]
    OBVIOUS
  <2> HIDE DEF d
  <2>3. ASSUME NEW c \in Controllers, Current(c)' PROVE Served(c)'
    <3>1. c[1] \in Starts
      BY Pairs
    <3>2. Current(c) /\ ~ Stopped(c) /\ (Stopped(c)' <=> c[2] = d[2])
      BY <2>1, <2>2, <2>3, CurrentOne
    <3>3. Fresh(c) => Fresh(c)'
      BY <1>0, <2>1, <3>1, CurrentOne DEF Fresh, Restarting, Closing, Adding
    <3>4. pc'[c[1]] # "tasks"
      BY <1>1, <2>1, <3>1
    <3>5. c # d => ctl'[c].tasks = ctl[c].tasks
      BY <1>0, <2>1, FieldsChange
    <3> QED BY <1>2, <2>1, <3>2, <3>3, <3>4, <3>5 DEF Served
  <2> QED BY <1>2, <1>3, <2>1, <2>3 DEF Adding
<1>7. CASE CloseNode(r) /\ ~ Crash
  <2> DEFINE k == use[closing[r]].core
  <2>1. /\ UNCHANGED <<conf, vc, use, controllers, ctl, mon>>
        /\ pc[r] = "delete" /\ pc'[r] = "close" /\ at'[r] = at[r] + 1
        /\ cores' = [cores EXCEPT ![k].tags = @ \ {at[r]}]
    BY <1>0, <1>7 DEF CloseNode, GoOn
  <2> HIDE DEF k
  <2>2. ASSUME NEW c \in Controllers, Current(c)' PROVE Served(c)'
    <3>1. c[1] \in Starts /\ c[2] \in 1 .. N
      BY <1>0, Pairs
    <3>2. Current(c) /\ ~ Stopped(c) /\ c[2] # at[r]
      BY <1>0, <2>1, <2>2, <3>1, CurrentOne
    <3>3. Fresh(c) => Fresh(c)'
      BY <1>0, <2>1, <3>1, CurrentOne DEF Fresh, Restarting, Closing, Adding
    <3>4. pc'[c[1]] # "tasks"
      BY <1>1, <2>1, <3>1
    <3>5. c[2] \in cores[c[1]].tags => c[2] \in cores'[c[1]].tags
      BY <1>0, <2>1, <3>1, <3>2, TagsChange
    <3> QED BY <1>2, <2>1, <3>2, <3>3, <3>4, <3>5 DEF Served
  <2> QED BY <1>2, <1>3, <2>1, <2>2 DEF Adding
<1>8. CASE (CloseDone(r) \/ CloseCore(r) \/ NewCore(r) \/ StartCore(r) \/ MakeSlots(r)) /\ ~ Crash
  <2>1. /\ conf' = conf
        /\ pc[r] \in {"close", "closecore", "newcore", "startcore", "nodes"}
        /\ pc'[r] \in {"closecore", "newcore", "startcore", "nodes", "client"}
        /\ pc'[r] # "newcore" => vc' \in {vc, r} /\ (pc[r] = "newcore" => vc' = r)
    BY <1>0, <1>1, <1>8 DEF CloseDone, CloseCore, NewCore, StartCore, MakeSlots, GoOn
  <2>2. \A i \in Nodes : controllers'[i] \notin Starts
    <3>1. CASE CloseDone(r)
      BY <1>0, <3>1 DEF CloseDone, NoControllers
    <3>2. CASE (CloseCore(r) \/ NewCore(r) \/ StartCore(r)) /\ ~ Crash
      <4>1. controllers' = controllers /\ pc[r] \in {"closecore", "newcore", "startcore"}
        BY <3>2 DEF CloseCore, NewCore, StartCore
      <4> QED BY <1>0, <1>2, <4>1 DEF StepInv, NoControllers
    <3>3. CASE MakeSlots(r)
      BY <1>0, <3>3 DEF MakeSlots
    <3> QED BY <1>8, <3>1, <3>2, <3>3
  <2>3. ASSUME NEW c \in Controllers PROVE ~ Current(c)'
    BY <2>2, Pairs DEF Current, Closing
  <2>4. pc'[r] \in Adding => use'[r].n = N
    <3>1. CASE MakeSlots(r)
      <4>1. conf.part = "all" /\ use' = [use EXCEPT ![r] = [core |-> vc, v |-> conf.v, n |-> N]]
        BY <1>2, <3>1 DEF MakeSlots
      <4> QED BY <1>0, <4>1
    <3>2. CASE ~ MakeSlots(r)
      <4>1. pc'[r] \in Restarting
        BY <1>0, <1>1, <1>8, <3>2 DEF CloseDone, CloseCore, NewCore, StartCore, GoOn, Restarting, Closing
      <4> QED BY <4>1 DEF Adding, Restarting, Closing
    <3> QED BY <3>1, <3>2
  <2> QED BY <1>0, <1>2, <1>3, <2>1, <2>3, <2>4
<1>9. CASE NewClient(r) /\ ~ Crash
  <2>1. /\ UNCHANGED <<conf, vc, use, at, ctl, cores, mon>>
        /\ pc[r] = "client" /\ pc'[r] = "ask" /\ controllers' = [controllers EXCEPT ![at[r]] = r]
    BY <1>0, <1>1, <1>9 DEF NewClient, GoOn
  <2>2. ASSUME NEW c \in Controllers, Current(c)' PROVE Served(c)'
    <3>1. c[1] \in Starts /\ c[2] \in 1 .. N
      BY <1>0, Pairs
    <3>2. (Fresh(c)' <=> Fresh(c)) /\ (c[1] = r /\ c[2] = at[r] => Fresh(c))
      BY <1>0, <2>1, <3>1, CurrentOne DEF Fresh, Restarting, Closing, Adding
    <3>3. ~ (c[1] = r /\ c[2] = at[r]) => Current(c) /\ ~ Stopped(c)
      BY <1>0, <2>1, <2>2, <3>1, CurrentOne
    <3>4. pc'[c[1]] # "tasks"
      BY <1>1, <2>1, <3>1
    <3> QED BY <1>2, <2>1, <3>2, <3>3, <3>4 DEF Served
  <2> QED BY <1>2, <1>3, <2>1, <2>2 DEF Adding
<1>10. CASE Ask(r)
  <2>1. /\ UNCHANGED <<conf, vc, use, at, controllers, cores, mon>>
        /\ pc[r] = "ask" /\ pc'[r] = "add" /\ ctl' = [ctl EXCEPT ![<<r, at[r]>>].tag = TRUE]
    BY <1>0, <1>1, <1>10 DEF Ask, GoOn
  <2>2. ASSUME NEW c \in Controllers, Current(c)' PROVE Served(c)'
    <3>1. c[1] \in Starts /\ c[2] \in 1 .. N
      BY <1>0, Pairs
    <3>2. (Fresh(c)' <=> Fresh(c)) /\ Current(c) /\ ~ Stopped(c)
      BY <1>0, <2>1, <2>2, <3>1, CurrentOne DEF Fresh, Restarting, Closing, Adding
    <3>3. ctl'[c].tasks = ctl[c].tasks
      BY <1>0, <2>1, FieldsChange, ZenonT(30)
    <3>4. pc'[c[1]] # "tasks"
      BY <1>1, <2>1, <3>1
    <3> QED BY <1>2, <2>1, <3>2, <3>3, <3>4 DEF Served
  <2> QED BY <1>2, <1>3, <2>1, <2>2 DEF Adding
<1>11. CASE AddNode(r) /\ ~ Crash
  <2> DEFINE k == use[r].core
  <2>1. /\ UNCHANGED <<conf, vc, use, at, controllers, ctl, mon>>
        /\ pc[r] = "add" /\ pc'[r] = "tasks" /\ cores' = [cores EXCEPT ![k].tags = @ \cup {at[r]}]
    BY <1>0, <1>1, <1>11 DEF AddNode, GoOn
  <2>2. k = r
    BY <1>2, <2>1 DEF StepInv, Adding
  <2> HIDE DEF k
  <2>3. ASSUME NEW c \in Controllers, Current(c)' PROVE Served(c)'
    <3>1. c[1] \in Starts /\ c[2] \in 1 .. N
      BY <1>0, Pairs
    <3>2. (Fresh(c)' <=> Fresh(c)) /\ Current(c) /\ ~ Stopped(c)
      BY <1>0, <2>1, <2>3, <3>1, CurrentOne DEF Fresh, Restarting, Closing, Adding
    <3>3. /\ c[2] \in cores[c[1]].tags => c[2] \in cores'[c[1]].tags
          /\ c[1] = r /\ c[2] = at[r] => c[2] \in cores'[c[1]].tags
      BY <1>0, <2>1, <2>2, <3>1 DEF Cores
    <3>4. pc'[c[1]] = "tasks" => c[1] = r
      BY <1>1, <2>1, <3>1
    <3> QED BY <1>2, <2>1, <3>2, <3>3, <3>4 DEF Served
  <2> QED BY <1>2, <1>3, <2>1, <2>3 DEF Adding
<1>12. CASE StartTasks(r)
  <2>1. /\ UNCHANGED <<conf, vc, use, controllers, cores, mon>> /\ at'[r] = at[r] + 1
        /\ pc[r] = "tasks" /\ pc'[r] = "client" /\ ctl' = [ctl EXCEPT ![<<r, at[r]>>].tasks = TRUE]
    BY <1>0, <1>1, <1>12 DEF StartTasks, GoOn
  <2>2. ASSUME NEW c \in Controllers, Current(c)' PROVE Served(c)'
    <3>1. c[1] \in Starts /\ c[2] \in 1 .. N
      BY <1>0, Pairs
    <3>2. /\ Current(c) /\ ~ Stopped(c)
          /\ Fresh(c) => Fresh(c)' \/ (c[1] = r /\ c[2] = at[r])
      <4>1. Current(c) /\ ~ Stopped(c) /\ (c[1] # r => (Fresh(c)' <=> Fresh(c)))
        BY <2>1, <2>2, CurrentOne
      <4>2. c[1] = r => (Fresh(c) => Fresh(c)' \/ c[2] = at[r])
        BY <1>0, <2>1, <3>1 DEF Fresh, Restarting, Adding
      <4> QED BY <4>1, <4>2
    <3>3. ctl'[c].tasks = IF c[1] = r /\ c[2] = at[r] THEN TRUE ELSE ctl[c].tasks
      <4>1. ctl'[c].tasks = IF c = <<r, at[r]>> THEN TRUE ELSE ctl[c].tasks
        BY <1>0, <2>1, FieldsChange
      <4> QED BY <4>1 DEF Controllers
    <3>4. pc'[c[1]] # "tasks"
      BY <1>1, <2>1, <3>1
    <3> QED BY <1>2, <2>1, <3>2, <3>3, <3>4 DEF Served
  <2> QED BY <1>2, <1>3, <2>1, <2>2 DEF Adding
<1>13. CASE Started(r)
  <2>1. /\ UNCHANGED <<conf, vc, use, at, controllers, cores, mon, ctl>>
        /\ pc[r] = "client" /\ pc'[r] = "off" /\ at[r] > use[r].n
    BY <1>0, <1>13 DEF Started, GoOn
  <2>2. use[r].n = N /\ at[r] > N /\ \A i \in Nodes : controllers[i] = vc
    BY <1>0, <1>2, <2>1 DEF StepInv, Adding
  <2>3. ASSUME NEW c \in Controllers, Current(c)' PROVE Served(c)'
    <3>1. c[1] \in Starts /\ c[2] \in 1 .. N
      BY <1>0, Pairs
    <3>2. (Fresh(c)' <=> Fresh(c)) /\ Current(c) /\ ~ Stopped(c)
      BY <1>0, <2>1, <2>2, <2>3, <3>1, CurrentOne DEF Fresh, Restarting, Closing, Adding
    <3>3. pc'[c[1]] # "tasks"
      BY <1>1, <2>1, <3>1
    <3> QED BY <1>2, <2>1, <3>2, <3>3 DEF Served
  <2> QED BY <1>2, <1>3, <2>1, <2>2, <2>3 DEF Adding
<1> QED
  BY <1>4, <1>5, <1>6, <1>7, <1>8, <1>9, <1>10, <1>11, <1>12, <1>13, <1>14 DEF StartNext

(* A complete start does not crash, but of a controller that is late.        *)
LEMMA CrashStart ==
    ASSUME TypeOK, AloneInv, InUseInv, OwnersInv, Complete, NEW r \in Starts, StartNext(r), Crash
    PROVE  \E c \in late : mon[c] # "idle"
<1> USE ReloadAssumption DEF Act, Closing, AtWork
<1>0. /\ pc \in [Starts -> Steps] /\ at \in [Starts -> 1 .. N + 1] /\ use \in [Starts -> Uses]
      /\ cores \in [Starts -> Cores] /\ vc \in Starts \cup {None} /\ N \in Nat /\ Nodes = 1 .. N
      /\ None \notin Starts /\ Absent \notin Starts /\ None # Absent
  BY DEF TypeOK, NodesType, StartsType, Starts, Nodes
<1>1. up = "up" /\ up' = "crashed" /\ UNCHANGED <<pc, at, controllers>>
  BY DEF Crash, starting, nodes, StartNext, Reset, Load, DeleteLimiter, CloseTasks, CloseNode, CloseDone, CloseCore,
         NewCore, StartCore, MakeSlots, NewClient, Ask, AddNode, StartTasks, Started
<1>2. \A q \in Starts : q # r => pc[q] \in {"unborn", "off"}
  BY OnlyOne
<1>3. /\ pc[r] # "newcore" => vc # None
      /\ pc[r] \in {"close", "stop", "delete"} => \A i \in Nodes : controllers[i] = vc
      /\ StepInv(r)
  BY <1>2 DEF Complete, InUseInv
<1>4. ~ (Reset(r) \/ Load(r) \/ CloseTasks(r) \/ CloseDone(r) \/ NewCore(r) \/ StartCore(r) \/ MakeSlots(r) \/ Ask(r)
         \/ StartTasks(r) \/ Started(r))
  BY <1>0, <1>1 DEF Reset, Load, CloseTasks, CloseDone, NewCore, StartCore, MakeSlots, Ask, StartTasks, Started,
                    GoOn, Fail, process
<1>5. CASE DeleteLimiter(r)
  <2>1. pc[r] = "close" /\ controllers[at[r]] = None /\ at[r] <= Length
    BY <1>0, <1>1, <1>5 DEF DeleteLimiter, GoOn
  <2>2. at[r] \in Nodes
    BY <1>0, <2>1, LengthValue DEF TypeOK, NodesType
  <2> QED BY <1>3, <2>1, <2>2
<1>6. CASE CloseNode(r)
  <2> DEFINE s == closing[r]
             d == <<s, at[r]>>
  <2>1. pc[r] = "delete" /\ ~ Registered(use[s].core, at[r]) /\ at[r] \in Nodes
    BY <1>0, <1>1, <1>6 DEF CloseNode, GoOn, TypeOK, StartsType
  <2>2. /\ s \in Starts /\ s = vc /\ use[s].core = s /\ cores[s].st = "started"
        /\ controllers[at[r]] = s
    BY <2>1, <1>3 DEF StepInv, InUseInv, TypeOK, StartsType, ByStart
  <2>3. at[r] \notin cores[s].tags
    BY <1>0, <2>1, <2>2 DEF Registered
  <2>4. d \in Controllers /\ d[1] = s /\ d[2] = at[r]
    BY <2>1, <2>2 DEF Controllers
  <2> HIDE DEF s, d
  <2>5. Current(d) /\ Stopped(d)
    <3>1. controllers[d[2]] = d[1]
      BY <2>2, <2>4
    <3> QED BY <1>0, <2>1, <2>4, <3>1, CurrentOne
  <2>6. ~ Fresh(d)
    <3>1. StepInv(s)
      BY <2>2 DEF InUseInv
    <3>2. pc[s] \in Adding \cup {"off"}
      BY <2>2, <3>1 DEF StepInv
    <3>3. s # r
      BY <2>1, <3>2 DEF Adding
    <3>4. pc[s] = "off"
      BY <1>2, <2>2, <3>2, <3>3 DEF Adding
    <3> QED BY <2>4, <3>4 DEF Fresh, Restarting, Closing, Adding
  <2>7. mon[d] \in AtWork
    BY <2>3, <2>4, <2>5, <2>6 DEF Complete, Served
  <2>8. d \in late
    BY <2>4, <2>5, <2>7 DEF OwnersInv, OwnerInv
  <2> QED BY <2>7, <2>8
<1>7. CASE CloseCore(r)
  BY <1>0, <1>1, <1>3, <1>7 DEF CloseCore, GoOn, Fail, process
<1>8. CASE NewClient(r)
  <2>1. pc[r] = "client" /\ at[r] <= use[r].n /\ at[r] > Length
    BY <1>0, <1>1, <1>8 DEF NewClient, GoOn, Fail, process
  <2>2. use[r].n \in 0 .. N
    BY <1>0 DEF Uses
  <2>3. controllers[at[r]] = None /\ at[r] \in Nodes
    BY <1>0, <1>3, <2>1, <2>2 DEF StepInv, Adding
  <2>4. Length = N
    BY <1>0, <2>3, LengthValue DEF TypeOK, NodesType, NoControllers
  <2> QED BY <1>0, <2>1, <2>3, <2>4
<1>9. CASE AddNode(r)
  BY <1>0, <1>1, <1>3, <1>9 DEF AddNode, GoOn, Fail, process, StepInv, Adding
<1> QED BY <1>4, <1>5, <1>6, <1>7, <1>8, <1>9 DEF StartNext

LEMMA CompleteMonitor ==
    ASSUME TypeOK, InUseInv, OwnersInv, Complete, NEW d \in Controllers, MonitorNext(d), ~ faulty'
    PROVE  Complete' /\ (up' = "crashed" => \E c \in late' : mon'[c] # "idle")
<1> USE DEF Monitor, Closing, AtWork
<1>0. /\ mon \in [Controllers -> {"idle", "asked", "deleted", "unlimited", "limited"}]
      /\ ctl \in [Controllers -> Fields] /\ cores \in [Starts -> Cores]
      /\ d[1] \in Starts /\ d[2] \in Nodes /\ None \notin Starts
  BY ReloadAssumption, Pairs DEF TypeOK, NodesType, Starts
<1>1. up = "up" /\ UNCHANGED <<conf, pc, at, use, vc, controllers, late>>
  <2>1. up = "up"
    BY DEF MonitorNext, Fire, NoChange, MonitorDeletes, MonitorUnlimits, MonitorLimits, MonitorAdds
  <2> QED BY <2>1, MonitorMoves DEF starting
<1>2. OwnerInv(d) /\ (Current(d) => Served(d))
  BY DEF OwnersInv, Complete
<1>3. ASSUME NEW c \in Controllers
      PROVE  /\ Current(c)' <=> Current(c)
             /\ Stopped(c)' <=> Stopped(c)
             /\ Fresh(c)' <=> Fresh(c)
  BY <1>1 DEF Current, Closing, Stopped, Fresh
<1>4. ASSUME \A c \in Controllers : Current(c) /\ Served(c) => Served(c)' PROVE Complete'
  BY <1>1, <1>3, <1>4 DEF Complete
<1>5. mon[d] \in AtWork \/ (d \notin late /\ mon[d] # "idle") =>
          Current(d) /\ use[d[1]].core = d[1] /\ cores[d[1]].st = "started"
  BY <1>0, <1>2 DEF OwnerInv, Current, Closing, InUseInv
<1>6. CASE Fire(d) \/ NoChange(d)
  <2>1. /\ \A c \in Controllers : mon'[c] = mon[c] \/ mon[c] \in {"idle", "asked"}
        /\ UNCHANGED <<ctl, cores>> /\ up' = up
    BY <1>0, <1>6 DEF Fire, NoChange, process
  <2>2. ASSUME NEW c \in Controllers, Served(c) PROVE Served(c)'
    BY <1>1, <1>3, <2>1, <2>2 DEF Served
  <2> QED BY <1>1, <1>4, <2>1, <2>2
<1>7. CASE MonitorDeletes(d)
  <2> DEFINE k == use[d[1]].core
  <2>1. CASE Crash
    <3>1. /\ UNCHANGED <<mon, ctl, cores>> /\ mon[d] = "asked" /\ ~ Registered(k, d[2])
      BY <1>1, <1>7, <2>1 DEF MonitorDeletes, Crash, nodes, process
    <3>2. ASSUME NEW c \in Controllers, Served(c) PROVE Served(c)'
      BY <1>1, <1>3, <3>1, <3>2 DEF Served
    <3>3. ASSUME d \notin late PROVE FALSE
      <4>1. Current(d) /\ k = d[1] /\ cores[d[1]].st = "started"
        BY <1>5, <3>1, <3>3
      <4>2. d[2] \notin cores[d[1]].tags
        BY <1>0, <3>1, <4>1 DEF Registered
      <4> QED BY <1>2, <3>1, <3>3, <4>1, <4>2 DEF OwnerInv, Served
    <3> QED BY <1>1, <1>4, <3>1, <3>2, <3>3
  <2>2. CASE ~ Crash
    <3>1. /\ mon'[d] = "deleted" /\ \A c \in Controllers : c # d => mon'[c] = mon[c]
          /\ Registered(k, d[2]) /\ cores' = [cores EXCEPT ![k].tags = @ \ {d[2]}]
          /\ ctl' = ctl /\ up' = up
      BY <1>0, <1>7, <2>2 DEF MonitorDeletes, process
    <3>2. k = d[1]
      BY <1>0, <3>1 DEF Registered, InUseInv
    <3> HIDE DEF k
    <3>3. ASSUME NEW c \in Controllers, Served(c) PROVE Served(c)'
      <4>1. c[1] \in Starts /\ (c = d <=> c[1] = d[1] /\ c[2] = d[2])
        BY DEF Controllers
      <4>2. c # d => (c[2] \in cores[c[1]].tags => c[2] \in cores'[c[1]].tags)
        BY <1>0, <3>1, <3>2, <4>1, TagsChange
      <4> QED BY <1>1, <1>3, <3>1, <3>3, <4>2 DEF Served
    <3> QED BY <1>1, <1>4, <3>1, <3>3
  <2> QED BY <2>1, <2>2
<1>8. CASE MonitorUnlimits(d) \/ MonitorLimits(d)
  <2>1. /\ mon'[d] \in {"unlimited", "limited"} /\ \A c \in Controllers : c # d => mon'[c] = mon[c]
        /\ UNCHANGED <<ctl, cores>> /\ up' = up
    BY <1>0, <1>8 DEF MonitorUnlimits, MonitorLimits, process
  <2>2. ASSUME NEW c \in Controllers, Served(c) PROVE Served(c)'
    BY <1>1, <1>3, <2>1, <2>2 DEF Served
  <2> QED BY <1>1, <1>4, <2>1, <2>2
<1>9. CASE MonitorAdds(d)
  <2> DEFINE k == use[d[1]].core
  <2>1. mon[d] = "limited"
    BY <1>9 DEF MonitorAdds
  <2>2. k = d[1] /\ cores[k].st = "started" /\ d[2] \notin cores[k].tags
    BY <1>2, <1>5, <2>1 DEF OwnerInv
  <2>3. /\ mon'[d] = "idle" /\ \A c \in Controllers : c # d => mon'[c] = mon[c]
        /\ cores' = [cores EXCEPT ![k].tags = @ \cup {d[2]}]
        /\ \E restart \in BOOLEAN : ctl' = [ctl EXCEPT ![d].tasks = @ \/ restart]
        /\ up' = up
    BY <1>0, <1>9, <2>2 DEF MonitorAdds, process
  <2> HIDE DEF k
  <2>4. ASSUME NEW c \in Controllers, Served(c) PROVE Served(c)'
    <3>1. c[1] \in Starts /\ (c = d <=> c[1] = d[1] /\ c[2] = d[2])
      BY DEF Controllers
    <3>2. /\ c[2] \in cores[c[1]].tags => c[2] \in cores'[c[1]].tags
          /\ c = d => c[2] \in cores'[c[1]].tags
      BY <1>0, <2>2, <2>3, <3>1 DEF Cores
    <3>3. ctl[c].tasks => ctl'[c].tasks
      BY <1>0, <2>3 DEF Fields
    <3> QED BY <1>1, <1>3, <2>3, <2>4, <3>2, <3>3 DEF Served
  <2> QED BY <1>1, <1>4, <2>3, <2>4
<1> QED BY <1>6, <1>7, <1>8, <1>9 DEF MonitorNext

LEMMA CompleteStep ==
    ASSUME TypeOK, AloneInv, InUseInv, OwnersInv, CompleteInv, [Next]_vars
    PROVE  CompleteInv'
<1> USE ReloadAssumption DEF process, nodes, starting, Closing, AtWork
<1>1. CASE UNCHANGED vars \/ Halted
  <2>1. UNCHANGED <<up, faulty, late, mon, conf, pc, at, use, vc, controllers, cores, ctl>>
    BY <1>1 DEF vars, Halted
  <2> QED
    BY <2>1 DEF CompleteInv, CrashHasCause, Complete, Served, Current, Closing, Stopped, Fresh
<1>2. CASE Edit \/ IgnoreEvent \/ QuietEnds \/ TakeEvent
  <2>1. /\ up' = "up" /\ UNCHANGED <<faulty, late, mon, conf, at, use, vc, controllers, cores, ctl>>
        /\ \A q \in Starts : pc'[q] = pc[q] \/ (pc[q] = "unborn" /\ pc'[q] = "sleep")
    <3>1. pc \in [Starts -> Steps]
      BY DEF TypeOK, StartsType
    <3> QED BY <1>2, <3>1 DEF Edit, IgnoreEvent, QuietEnds, TakeEvent, Watching, GoOn
  <2>2. ASSUME Complete PROVE Complete'
    <3>1. ASSUME NEW c \in Controllers, Current(c)' PROVE Served(c)'
      <4>1. c[1] \in Starts
        BY Pairs
      <4>2. Current(c) /\ (Fresh(c) => Fresh(c)') /\ (Stopped(c) => Stopped(c)')
        BY <2>1, <3>1, <4>1 DEF Current, Fresh, Stopped, Restarting, Closing, Adding
      <4> QED BY <2>1, <2>2, <4>1, <4>2 DEF Served, Complete
    <3>2. /\ (\A q \in Starts : pc'[q] # "load") => conf'.part = "all"
          /\ (\A q \in Starts : pc'[q] # "newcore") => vc' # None
          /\ \A q \in Starts : pc'[q] \in Adding => use'[q].n = N
          /\ (\A q \in Starts : pc'[q] \in {"unborn", "off", "sleep", "load", "close", "stop", "delete"})
             => \A i \in Nodes : controllers'[i] = vc'
      BY <2>1, <2>2 DEF Complete, Adding
    <3> QED BY <3>1, <3>2 DEF Complete
  <2> QED BY <2>1, <2>2 DEF CompleteInv, CrashHasCause
<1>3. ASSUME NEW r \in Starts, StartNext(r) PROVE CompleteInv'
  <2>1. up = "up"
    BY <1>3 DEF StartNext, Reset, Load, DeleteLimiter, CloseTasks, CloseNode, CloseDone, CloseCore, NewCore,
                StartCore, MakeSlots, NewClient, Ask, AddNode, StartTasks, Started, Act
  <2>2. CASE Crash
    <3>1. UNCHANGED <<faulty, late, mon>>
      BY <2>2 DEF Crash
    <3>2. ASSUME ~ faulty PROVE Complete' /\ \E c \in late : mon[c] # "idle"
      BY <1>3, <2>2, <3>1, <3>2, CompleteStart, CrashStart DEF CompleteInv
    <3> QED BY <3>1, <3>2 DEF CompleteInv, CrashHasCause
  <2>3. CASE ~ Crash
    <3>1. up' # "crashed" /\ (faulty => faulty')
      <4>1. CASE Fail(r)
        BY <2>1, <4>1 DEF Fail
      <4>2. CASE Reset(r) \/ Load(r) \/ DeleteLimiter(r) \/ CloseTasks(r) \/ CloseNode(r) \/ CloseDone(r) \/ CloseCore(r)
        BY <2>1, <2>3, <4>1, <4>2 DEF Reset, Load, DeleteLimiter, CloseTasks, CloseNode, CloseDone, CloseCore
      <4>3. CASE NewCore(r) \/ StartCore(r) \/ MakeSlots(r) \/ NewClient(r)
        BY <2>1, <2>3, <4>1, <4>3 DEF NewCore, StartCore, MakeSlots, NewClient
      <4>4. CASE Ask(r) \/ AddNode(r) \/ StartTasks(r) \/ Started(r)
        BY <2>1, <2>3, <4>1, <4>4 DEF Ask, AddNode, StartTasks, Started
      <4> QED BY <1>3, <4>2, <4>3, <4>4 DEF StartNext
    <3> QED BY <1>3, <3>1, CompleteStart DEF CompleteInv, CrashHasCause
  <2> QED BY <2>2, <2>3
<1>4. ASSUME NEW d \in Controllers, MonitorNext(d) PROVE CompleteInv'
  <2>1. faulty => faulty'
    BY <1>4 DEF MonitorNext, Fire, NoChange, MonitorDeletes, MonitorUnlimits, MonitorLimits, MonitorAdds, Monitor, Crash
  <2> QED BY <1>4, <2>1, CompleteMonitor DEF CompleteInv, CrashHasCause
<1> QED BY <1>1, <1>2, <1>3, <1>4 DEF Next

LEMMA CompleteHolds ==
    ASSUME Prompt
    PROVE  Spec => []CompleteInv
<1>1. Init => CompleteInv
  <2> SUFFICES ASSUME Init PROVE CompleteInv
    OBVIOUS
  <2>1. up = "up" /\ conf.part = "all" /\ pc[0] = "newcore" /\ 0 \in Starts
    BY ReloadAssumption DEF Init, Starts
  <2>2. \A q \in Starts : pc[q] \notin Adding
    BY DEF Init, Adding
  <2>3. ASSUME NEW c \in Controllers PROVE ~ Current(c)
    BY ReloadAssumption, Pairs DEF Init, NoControllers, Current, Closing, Starts
  <2> QED BY <2>1, <2>2, <2>3 DEF CompleteInv, CrashHasCause, Complete, Closing
<1>2. TypeOK /\ AloneInv /\ InUseInv /\ OwnersInv /\ CompleteInv /\ [Next]_vars => CompleteInv'
  BY CompleteStep
<1> QED BY <1>1, <1>2, TypeCorrect, AloneHolds, InUseHolds, OwnersHold, PTL DEF Spec

(* When the panel answers in time: if the server crashes, something had      *)
(* failed before, or a restart closed a controller whose monitor was at work *)
(* (node/node.go:44 and the Panics of nodeInfoMonitor).                      *)
THEOREM CrashHasCauseHolds ==
    ASSUME Prompt
    PROVE  Spec => []CrashHasCause
<1>1. CompleteInv => CrashHasCause
  BY DEF CompleteInv
<1> QED BY <1>1, CompleteHolds, PTL

-----------------------------------------------------------------------------
(* Versions of the configuration.                                            *)

(* A start reads the file in two of its steps, and uses what it read in one. *)
LEMMA ConfKept ==
    ASSUME TypeOK, NEW r \in Starts, StartNext(r), ~ Reset(r), ~ Load(r)
    PROVE  /\ conf' = conf /\ (~ MakeSlots(r) => use' = use)
           /\ pc[r] \notin {"sleep", "load"} /\ pc'[r] \notin {"sleep", "load"}
           /\ ~ NewCore(r) => vc' = vc
<1> USE DEF Act, starting, nodes
<1>0. pc \in [Starts -> Steps]
  BY DEF TypeOK, StartsType
<1>1. CASE DeleteLimiter(r) \/ CloseTasks(r) \/ CloseNode(r) \/ CloseDone(r) \/ CloseCore(r)
  BY <1>0, <1>1 DEF DeleteLimiter, CloseTasks, CloseNode, CloseDone, CloseCore, Crash, Fail, GoOn
<1>2. CASE NewCore(r) \/ StartCore(r) \/ MakeSlots(r) \/ NewClient(r)
  BY <1>0, <1>2 DEF NewCore, StartCore, MakeSlots, NewClient, Crash, Fail, GoOn
<1>3. CASE Ask(r) \/ AddNode(r) \/ StartTasks(r) \/ Started(r)
  BY <1>0, <1>3 DEF Ask, AddNode, StartTasks, Started, Crash, Fail, GoOn
<1> QED BY <1>1, <1>2, <1>3 DEF StartNext

(* What MakeSlots is given.                                                  *)
LEMMA SlotsUse ==
    ASSUME TypeOK, CoreInv, NEW r \in Starts, MakeSlots(r)
    PROVE  /\ vc = r /\ vc' = r /\ use'[r].core = r /\ use'[r].v = conf.v
           /\ \A q \in Starts : q # r => use'[q] = use[q]
           /\ pc[r] = "nodes" /\ pc'[r] = "client" /\ UNCHANGED <<ctl, faulty, conf>>
<1>1. vc = r /\ pc[r] = "nodes"
  BY DEF MakeSlots, Act, CoreInv
<1>2. use \in [Starts -> Uses] /\ pc \in [Starts -> Steps]
  BY DEF TypeOK, StartsType
<1> QED BY <1>1, <1>2 DEF MakeSlots, GoOn, process

(* Versions are numbers.                                                     *)
LEMMA VersionsType ==
    ASSUME TypeOK
    PROVE  file.v \in Nat /\ conf.v \in Nat /\ \A q \in Starts : use[q].v \in Nat
<1>1. \A x \in {0} \cup Versions : x \in Nat
  BY ReloadAssumption DEF Versions
<1>2. ASSUME NEW x \in Uses PROVE x.v \in {0} \cup Versions
  BY DEF Uses
<1>3. ASSUME NEW x \in Confs PROVE x.v \in {0} \cup Versions
  BY DEF Confs
<1>4. ASSUME NEW x \in Files PROVE x.v \in {0} \cup Versions
  BY DEF Files
<1>5. file \in Files /\ conf \in Confs /\ \A q \in Starts : use[q] \in Uses
  BY DEF TypeOK, WatcherType, StartsType
<1> QED BY <1>1, <1>2, <1>3, <1>4, <1>5

LEMMA ReadStep ==
    ASSUME TypeOK, AloneInv, CoreInv, ReadInv, [Next]_vars
    PROVE  ReadInv'
<1> USE DEF process, watcher, starting
<1>0. /\ pc \in [Starts -> Steps] /\ events \in Nat /\ file.v \in Nat /\ conf.v \in Nat
      /\ \A q \in Starts : use[q].v \in Nat
  BY VersionsType DEF TypeOK, WatcherType, StartsType
<1>1. CASE UNCHANGED vars \/ Halted
  BY <1>1 DEF vars, Halted, ReadInv, ToBeRead
<1>2. CASE Edit
  <2>1. /\ UNCHANGED <<conf, use, pc>> /\ file'.v = file.v + 1
        /\ events' = events + 1 \/ lost' = "unwatched"
    BY <1>2 DEF Edit
  <2> QED BY <1>0, <2>1 DEF ReadInv
<1>3. CASE IgnoreEvent \/ QuietEnds
  <2>1. /\ UNCHANGED <<conf, use, pc, file>>
        /\ lost' = "no" => lost = "no" /\ (events' = events \/ ToBeRead)
    BY <1>3 DEF IgnoreEvent, QuietEnds
  <2> QED BY <2>1 DEF ReadInv, ToBeRead
<1>4. CASE TakeEvent
  <2>1. /\ UNCHANGED <<conf, use, file>> /\ \E r \in Starts : pc'[r] = "sleep"
        /\ \A r \in Starts : pc'[r] = pc[r] \/ pc'[r] = "sleep"
    BY <1>0, <1>4 DEF TakeEvent, GoOn
  <2> QED BY <2>1 DEF ReadInv, ToBeRead, Restarting, Closing
<1>5. ASSUME NEW r \in Starts, StartNext(r) PROVE ReadInv'
  <2>1. /\ \A q \in Starts : q # r => pc[q] \in {"unborn", "off"} /\ pc'[q] = pc[q]
        /\ UNCHANGED <<file, events, lost>>
    BY <1>5, OnlyOne, StartMoves
  <2>2. CASE Reset(r)
    <3>1. conf'.v = 0 /\ use' = use /\ pc'[r] = "load"
      BY <1>0, <2>2 DEF Reset, GoOn
    <3> QED BY <1>0, <2>1, <3>1 DEF ReadInv, ToBeRead, Restarting, Closing
  <2>3. CASE Load(r)
    <3>1. conf'.v = file.v /\ use' = use
      BY <2>3 DEF Load
    <3> QED BY <1>0, <2>1, <3>1 DEF ReadInv
  <2>4. CASE MakeSlots(r)
    <3>1. /\ pc[r] = "nodes" /\ pc'[r] = "client" /\ conf' = conf
          /\ use'[r].v = conf.v /\ \A q \in Starts : q # r => use'[q] = use[q]
      BY <2>4, SlotsUse
    <3> QED BY <1>0, <2>1, <3>1 DEF ReadInv, ToBeRead, Restarting, Closing
  <2>5. CASE ~ Reset(r) /\ ~ Load(r) /\ ~ MakeSlots(r)
    <3>1. /\ conf' = conf /\ use' = use
          /\ pc[r] \notin {"sleep", "load"} /\ pc'[r] \notin {"sleep", "load"}
      BY <1>5, <2>5, ConfKept
    <3>2. pc'[r] \in Restarting => pc[r] \in Restarting
      BY <1>0, <1>5, StartMoves DEF Moves
    <3> QED BY <2>1, <3>1, <3>2 DEF ReadInv, ToBeRead, Restarting, Closing
  <2> QED BY <2>2, <2>3, <2>4, <2>5
<1>6. ASSUME NEW c \in Controllers, MonitorNext(c) PROVE ReadInv'
  BY <1>6, MonitorMoves DEF ReadInv, ToBeRead
<1> QED BY <1>1, <1>2, <1>3, <1>4, <1>5, <1>6 DEF Next

(* Tags are given by Ask alone.                                              *)
LEMMA TagsKept ==
    ASSUME TypeOK, [Next]_vars, NEW c \in Controllers, ctl'[c].tag, ~ ctl[c].tag
    PROVE  \E r \in Starts : Ask(r) /\ c[1] = r /\ pc[r] = "ask" /\ UNCHANGED <<use, vc>>
<1> USE DEF nodes, Act
<1>0. ctl \in [Controllers -> Fields]
  BY DEF TypeOK, NodesType
<1>1. CASE UNCHANGED vars \/ Edit \/ IgnoreEvent \/ TakeEvent \/ QuietEnds \/ Halted
  BY <1>1 DEF vars, Edit, IgnoreEvent, TakeEvent, QuietEnds, Halted
<1>2. ASSUME NEW r \in Starts, StartNext(r), ~ Ask(r) PROVE FALSE
  <2>1. ctl' = ctl \/ \E d, b : ctl' = [ctl EXCEPT ![d].tasks = b]
    <3>1. CASE Reset(r) \/ Load(r) \/ DeleteLimiter(r) \/ CloseTasks(r) \/ CloseNode(r) \/ CloseDone(r) \/ CloseCore(r)
      BY <3>1 DEF Reset, Load, DeleteLimiter, CloseTasks, CloseNode, CloseDone, CloseCore, Crash
    <3>2. CASE NewCore(r) \/ StartCore(r) \/ MakeSlots(r) \/ NewClient(r)
      BY <3>2 DEF NewCore, StartCore, MakeSlots, NewClient, Crash
    <3>3. CASE AddNode(r) \/ StartTasks(r) \/ Started(r)
      BY <3>3 DEF AddNode, StartTasks, Started, Crash
    <3> QED BY <1>2, <3>1, <3>2, <3>3 DEF StartNext
  <2> QED BY <1>0, <2>1, FieldsChange
<1>3. ASSUME NEW r \in Starts, Ask(r) PROVE c[1] = r /\ pc[r] = "ask" /\ UNCHANGED <<use, vc>>
  <2>1. pc[r] = "ask" /\ UNCHANGED <<use, vc>>
    BY <1>3 DEF Ask
  <2>2. ctl' = ctl \/ ctl' = [ctl EXCEPT ![<<r, at[r]>>].tag = TRUE]
    BY <1>3 DEF Ask
  <2>3. c = <<r, at[r]>>
    BY <1>0, <2>2, FieldsChange
  <2> QED BY <2>1, <2>3
<1>4. ASSUME NEW d \in Controllers, MonitorNext(d) PROVE FALSE
  <2>1. ctl' = ctl \/ \E restart \in BOOLEAN : ctl' = [ctl EXCEPT ![d].tasks = @ \/ restart]
    BY <1>4 DEF MonitorNext, Fire, NoChange, MonitorDeletes, MonitorUnlimits, MonitorLimits, MonitorAdds, Crash
  <2> QED BY <1>0, <2>1 DEF Fields
<1> QED BY <1>1, <1>2, <1>3, <1>4 DEF Next

LEMMA GrowStep ==
    ASSUME TypeOK, AloneInv, CoreInv, InUseInv, ReadInv, GrowInv, [Next]_vars
    PROVE  GrowInv'
<1> USE ReloadAssumption DEF nodes, starting
<1>0. /\ pc \in [Starts -> Steps] /\ Starts \subseteq Nat /\ None \notin Starts
      /\ vc \in Starts \cup {None}
  BY DEF TypeOK, StartsType, NodesType, Starts
<1>1. CASE UNCHANGED <<use, vc>>
  <2>1. ASSUME NEW c \in Controllers, ctl'[c].tag PROVE use[c[1]].core # None
    <3>1. CASE ctl[c].tag
      BY <3>1 DEF GrowInv
    <3>2. CASE ~ ctl[c].tag
      BY <1>0, <2>1, <3>2, TagsKept DEF InUseInv, StepInv, Adding
    <3> QED BY <3>1, <3>2
  <2> QED BY <1>1, <2>1 DEF GrowInv
<1>2. ASSUME NEW r \in Starts, NewCore(r) PROVE GrowInv'
  <2>1. pc[r] = "newcore" /\ vc' \in {r, None} /\ UNCHANGED <<use, ctl>>
    BY <1>2 DEF NewCore, Act
  <2>2. ASSUME NEW q \in Starts, use[q].core # None PROVE q <= r
    <3>1. pc[q] \in Adding \cup {"off"}
      BY <2>2 DEF InUseInv, StepInv
    <3> QED BY <1>0, <2>1, <3>1 DEF AloneInv, Busy, Adding
  <2> QED BY <1>0, <2>1, <2>2 DEF GrowInv
<1>3. ASSUME NEW r \in Starts, MakeSlots(r) PROVE GrowInv'
  <2>1. /\ vc = r /\ vc' = r /\ use'[r].core = r /\ use'[r].v = conf.v /\ pc[r] = "nodes"
        /\ \A q \in Starts : q # r => use'[q] = use[q]
        /\ ctl' = ctl
    BY <1>3, SlotsUse
  <2>2. \A q \in Starts : use[q].v <= conf.v
    BY <2>1 DEF ReadInv, Restarting, Closing
  <2>3. ASSUME NEW q \in Starts, q > r PROVE use[q].core = None
    <3>1. pc[q] = "unborn"
      BY <1>0, <2>1, <2>3 DEF AloneInv, Busy
    <3> QED BY <3>1 DEF InUseInv, StepInv, Adding
  <2>4. ASSUME NEW q \in Starts, use'[q].core # None
        PROVE  q <= r /\ \A s \in Starts : s < q => use'[s].v <= use'[q].v
    BY <1>0, <2>1, <2>2, <2>3, <2>4 DEF GrowInv
  <2>5. ASSUME NEW c \in Controllers, ctl[c].tag PROVE use'[c[1]].core # None
    BY <1>0, <2>1, <2>5, Pairs DEF GrowInv
  <2> QED BY <1>0, <2>1, <2>4, <2>5 DEF GrowInv
<1>4. ASSUME NEW r \in Starts, StartNext(r), ~ NewCore(r), ~ MakeSlots(r)
      PROVE  UNCHANGED <<use, vc>>
  BY <1>4, ConfKept DEF Reset, Load
<1>5. CASE UNCHANGED vars \/ Edit \/ IgnoreEvent \/ QuietEnds \/ TakeEvent \/ Halted
  BY <1>1, <1>5 DEF vars, Edit, IgnoreEvent, QuietEnds, TakeEvent, Halted
<1>6. ASSUME NEW c \in Controllers, MonitorNext(c) PROVE UNCHANGED <<use, vc>>
  BY <1>6, MonitorMoves
<1> QED BY <1>1, <1>2, <1>3, <1>4, <1>5, <1>6 DEF Next

LEMMA LatestStep ==
    ASSUME TypeOK, AloneInv, CoreInv, InUseInv, LatestInv, [Next]_vars
    PROVE  LatestInv'
<1> USE ReloadAssumption DEF process, nodes, starting
<1>0. pc \in [Starts -> Steps]
  BY DEF TypeOK, StartsType
<1>1. CASE UNCHANGED vars \/ Edit \/ IgnoreEvent \/ QuietEnds \/ Halted
  BY <1>1 DEF vars, Edit, IgnoreEvent, QuietEnds, Halted, LatestInv, Busy
<1>2. CASE TakeEvent
  <2>1. /\ UNCHANGED <<conf, use, faulty>> /\ \E r \in Starts : pc'[r] = "sleep"
        /\ \A r \in Starts : pc'[r] = pc[r] \/ pc'[r] = "sleep"
    BY <1>0, <1>2 DEF TakeEvent, GoOn
  <2> QED BY <2>1 DEF LatestInv, Adding, Busy
<1>3. ASSUME NEW r \in Starts, StartNext(r), ~ faulty' PROVE LatestInv'
  <2>1. /\ \A q \in Starts : q # r => pc[q] \in {"unborn", "off"} /\ pc'[q] = pc[q]
        /\ Busy(r) /\ ~ Fail(r)
    BY <1>3, OnlyOne DEF Fail
  <2>2. CASE Reset(r) \/ Load(r)
    <3>1. pc'[r] \in {"load", "close"}
      BY <1>0, <2>2 DEF Reset, Load, GoOn
    <3> QED BY <2>1, <3>1 DEF LatestInv, Adding, Busy
  <2>3. CASE MakeSlots(r)
    <3>1. use'[r].v = conf'.v /\ pc'[r] = "client"
      BY <2>3, SlotsUse
    <3> QED BY <2>1, <3>1 DEF LatestInv, Adding, Busy
  <2>4. CASE Started(r)
    <3>1. pc[r] = "client" /\ UNCHANGED <<faulty, conf, use, vc>> /\ pc'[r] = "off"
      BY <1>0, <2>4 DEF Started, Act, GoOn
    <3>2. vc = r
      BY <3>1 DEF InUseInv, StepInv, Adding
    <3> QED BY <1>3, <2>1, <3>1, <3>2 DEF LatestInv, Adding
  <2>5. CASE ~ Reset(r) /\ ~ Load(r) /\ ~ MakeSlots(r) /\ ~ Started(r)
    <3>1. conf' = conf /\ use' = use
      BY <1>3, <2>5, ConfKept
    <3>2. pc'[r] # "off" /\ (pc'[r] \in Adding => pc[r] \in Adding) /\ faulty' = faulty
      <4>1. CASE DeleteLimiter(r) \/ CloseTasks(r) \/ CloseNode(r) \/ CloseDone(r) \/ CloseCore(r)
        BY <1>0, <2>1, <4>1
           DEF DeleteLimiter, CloseTasks, CloseNode, CloseDone, CloseCore, Act, GoOn, Crash, Adding
      <4>2. CASE NewCore(r) \/ StartCore(r)
        BY <1>0, <2>1, <4>2 DEF NewCore, StartCore, Act, GoOn, Adding
      <4>3. CASE NewClient(r) \/ Ask(r)
        BY <1>0, <2>1, <4>3 DEF NewClient, Ask, Act, GoOn, Crash, Adding
      <4>4. CASE AddNode(r) \/ StartTasks(r)
        BY <1>0, <2>1, <4>4 DEF AddNode, StartTasks, Act, GoOn, Crash, Adding
      <4> QED BY <1>3, <2>5, <4>1, <4>2, <4>3, <4>4 DEF StartNext
    <3>3. pc'[r] # "unborn"
      BY <1>0, <1>3, <2>1, StartMoves DEF Moves, Busy
    <3> QED BY <1>3, <2>1, <3>1, <3>2, <3>3 DEF LatestInv, Adding, Busy
  <2> QED BY <2>2, <2>3, <2>4, <2>5
<1>4. ASSUME NEW c \in Controllers, MonitorNext(c), ~ faulty' PROVE LatestInv'
  <2>1. UNCHANGED <<pc, conf, use, vc>>
    BY <1>4, MonitorMoves
  <2>2. faulty' = faulty
    BY <1>4 DEF MonitorNext, Fire, NoChange, MonitorDeletes, MonitorUnlimits, MonitorLimits, MonitorAdds, Monitor,
                Crash, TypeOK, WatcherType
  <2> QED BY <2>1, <2>2 DEF LatestInv, Busy
<1>5. CASE faulty'
  BY <1>5 DEF LatestInv
<1> QED BY <1>1, <1>2, <1>3, <1>4, <1>5 DEF Next

LEMMA VersionHolds ==
    ASSUME Prompt
    PROVE  Spec => []VersionInv
<1>1. Init => VersionInv
  <2> SUFFICES ASSUME Init PROVE VersionInv
    OBVIOUS
  <2>1. /\ conf.v = 1 /\ file.v = 1 /\ pc[0] = "newcore" /\ 0 \in Starts
        /\ \A r \in Starts : use[r].v = 0 /\ use[r].core = None /\ pc[r] \in {"newcore", "unborn"}
    BY ReloadAssumption DEF Init, Starts
  <2>2. \A c \in Controllers : ~ ctl[c].tag
    BY DEF Init
  <2> QED BY <2>1, <2>2 DEF VersionInv, ReadInv, GrowInv, LatestInv, Busy, Adding
<1>2. TypeOK /\ AloneInv /\ CoreInv /\ InUseInv /\ VersionInv /\ [Next]_vars => VersionInv'
  BY ReadStep, GrowStep, LatestStep DEF VersionInv
<1> QED BY <1>1, <1>2, TypeCorrect, AloneHolds, CoreHolds, InUseHolds, PTL DEF Spec

(* When the panel answers in time, whatever else fails: a node is never      *)
(* served by an older configuration than it was before (conf/watch.go:39:    *)
(* the file is read anew by each reload).                                    *)
THEOREM NeverOlderHolds ==
    ASSUME Prompt
    PROVE  Spec => NeverOlder
<1>1. ASSUME TypeOK, AloneInv, InUseInv, OwnersInv, VersionInv, [Next]_vars,
             NEW c \in Controllers, NEW d \in Controllers,
             ctl[c].tag, ctl'[d].tasks, ~ ctl[d].tasks
      PROVE  use[c[1]].v <= use[d[1]].v
  <2> USE ReloadAssumption DEF nodes
  <2>0. /\ ctl \in [Controllers -> Fields] /\ Starts \subseteq Nat /\ None \notin Starts
        /\ c[1] \in Starts /\ d[1] \in Starts
        /\ \A q \in Starts : use[q].v \in Nat
    BY <1>1, VersionsType, Pairs DEF TypeOK, NodesType, Starts
  <2>1. d[1] = vc /\ use[d[1]].core = d[1]
    <3>1. CASE UNCHANGED vars \/ Edit \/ IgnoreEvent \/ TakeEvent \/ QuietEnds \/ Halted
      BY <1>1, <3>1 DEF vars, Edit, IgnoreEvent, TakeEvent, QuietEnds, Halted
    <3>2. ASSUME NEW r \in Starts, StartTasks(r) PROVE d[1] = vc /\ use[d[1]].core = d[1]
      <4>1. pc[r] = "tasks" /\ (ctl' = ctl \/ ctl' = [ctl EXCEPT ![<<r, at[r]>>].tasks = TRUE])
        BY <3>2 DEF StartTasks, Act
      <4>2. d = <<r, at[r]>>
        BY <1>1, <2>0, <4>1, FieldsChange
      <4>3. d[1] = r
        BY <4>2
      <4> QED BY <1>1, <3>2, <4>1, <4>3 DEF InUseInv, StepInv, Adding
    <3>3. ASSUME NEW r \in Starts, StartNext(r), ~ StartTasks(r) PROVE FALSE
      <4>1. \/ ctl' = ctl
            \/ \E x : ctl' = [ctl EXCEPT ![x].tasks = FALSE]
            \/ \E x : ctl' = [ctl EXCEPT ![x].tag = TRUE]
        <5>1. CASE Reset(r) \/ Load(r) \/ DeleteLimiter(r) \/ CloseTasks(r) \/ CloseNode(r) \/ CloseDone(r) \/ CloseCore(r)
          BY <5>1 DEF Reset, Load, DeleteLimiter, CloseTasks, CloseNode, CloseDone, CloseCore, Crash
        <5>2. CASE NewCore(r) \/ StartCore(r) \/ MakeSlots(r) \/ NewClient(r)
          BY <5>2 DEF NewCore, StartCore, MakeSlots, NewClient, Crash
        <5>3. CASE Ask(r) \/ AddNode(r) \/ Started(r)
          BY <5>3 DEF Ask, AddNode, Started, Crash
        <5> QED BY <3>3, <5>1, <5>2, <5>3 DEF StartNext
      <4> QED BY <1>1, <2>0, <4>1, FieldsChange
    <3>4. ASSUME NEW e \in Controllers, MonitorNext(e) PROVE d[1] = vc /\ use[d[1]].core = d[1]
      <4>1. ctl' = ctl \/ (/\ mon[e] = "limited"
                           /\ \E restart \in BOOLEAN : ctl' = [ctl EXCEPT ![e].tasks = @ \/ restart])
        BY <3>4 DEF MonitorNext, Fire, NoChange, MonitorDeletes, MonitorUnlimits, MonitorLimits, MonitorAdds, Monitor,
                    Crash
      <4>2. d = e /\ mon[d] = "limited"
        BY <1>1, <2>0, <4>1
      <4>3. Current(d)
        BY <1>1, <4>2 DEF OwnersInv, OwnerInv
      <4> QED BY <1>1, <2>0, <4>3, Pairs DEF Current, Closing, InUseInv
    <3> QED BY <1>1, <3>1, <3>2, <3>3, <3>4 DEF Next
  <2>2. c[1] <= d[1]
    BY <1>1, <2>0, <2>1 DEF VersionInv, GrowInv
  <2>3. c[1] < d[1] => use[c[1]].v <= use[d[1]].v
    BY <1>1, <2>0, <2>1 DEF VersionInv, GrowInv
  <2>4. c[1] = d[1] \/ c[1] < d[1]
    BY <2>0, <2>2 DEF Starts
  <2>5. CASE c[1] = d[1]
    <3>1. use[c[1]].v = use[d[1]].v /\ use[d[1]].v \in Nat
      BY <2>0, <2>5
    <3> QED BY <3>1
  <2> QED BY <2>3, <2>4, <2>5
<1>2. TypeOK /\ AloneInv /\ InUseInv /\ OwnersInv /\ VersionInv /\ [Next]_vars
      => [\A c, d \in Controllers :
             ctl[c].tag /\ ctl'[d].tasks /\ ~ ctl[d].tasks => use[c[1]].v <= use[d[1]].v]_vars
  BY <1>1
<1> QED
  BY <1>2, TypeCorrect, AloneHolds, InUseHolds, OwnersHold, VersionHolds, PTL DEF Spec, NeverOlder

(* When the panel answers in time: at rest the nodes are served by the       *)
(* file's configuration, unless something failed or the last edit fell into  *)
(* the rest of the ten seconds after a reload had read the file              *)
(* (conf/watch.go:27).                                                       *)
THEOREM OnlyIgnoredEditsAreLostHolds ==
    ASSUME Prompt
    PROVE  Spec => []OnlyIgnoredEditsAreLost
<1>1. ASSUME TypeOK, InUseInv, CompleteInv, VersionInv PROVE OnlyIgnoredEditsAreLost
  <2> SUFFICES ASSUME Resting, ~ faulty, lost = "no", NEW i \in Nodes PROVE Serving(i) >= file.v
    BY DEF OnlyIgnoredEditsAreLost, Serves
  <2>1. events = 0 /\ \A r \in Starts : pc[r] \in {"unborn", "off"}
    BY DEF Resting
  <2>2. conf.v = file.v
    BY <1>1, <2>1 DEF VersionInv, ReadInv, ToBeRead
  <2>3. vc \in Starts /\ controllers[i] = vc
    <3>1. Complete
      BY <1>1 DEF CompleteInv
    <3> QED BY <1>1, <2>1, <3>1 DEF Complete, TypeOK, NodesType
  <2>4. use[vc].v = file.v /\ use[vc].v \in Nat
    <3>1. use[vc].v = file.v
      BY <1>1, <2>1, <2>2 DEF VersionInv, LatestInv, Busy
    <3>2. file.v \in Nat
      BY <1>1, ReloadAssumption DEF TypeOK, WatcherType, Files, Versions
    <3> QED BY <3>1, <3>2
  <2>5. pc[vc] = "off"
    <3>1. use[vc].core = vc /\ StepInv(vc)
      BY <1>1, <2>3 DEF InUseInv
    <3> QED BY <2>1, <2>3, <3>1 DEF StepInv, Adding
  <2> DEFINE c == <<vc, i>>
  <2>6. c \in Controllers /\ c[1] = vc /\ c[2] = i
    BY <2>3 DEF Controllers
  <2> HIDE DEF c
  <2>7. Current(c) /\ ~ Stopped(c) /\ ~ Fresh(c)
    BY <2>1, <2>3, <2>5, <2>6 DEF Current, Stopped, Fresh, Restarting, Closing, Adding
  <2>8. ctl[c].tasks
    BY <1>1, <2>6, <2>7 DEF CompleteInv, Complete, Served
  <2>9. Serving(i) = use[vc].v
    BY <2>3, <2>8 DEF Serving, c
  <2> QED BY <2>4, <2>9
<1> QED BY <1>1, TypeCorrect, InUseHolds, CompleteHolds, VersionHolds, PTL
=============================================================================
