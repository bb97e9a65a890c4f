------------------------------- MODULE Reload -------------------------------
(***************************************************************************)
(* The server and its restart on a change of the configuration file:       *)
(* serverHandle (cmd/server.go) makes a core, starts it and starts one     *)
(* controller per node; the watcher (conf/watch.go) does the same again,   *)
(* after closing everything, 5 seconds after an edit, and ignores further  *)
(* edits for 10 seconds.  Meanwhile a controller's monitor may be at work  *)
(* on a changed node: Close of its task does not wait for it.              *)
(*                                                                         *)
(* A `start' is one pass through newcore ... tasks: 0 is serverHandle's    *)
(* own, the others are the watcher's reload goroutines.  A core is named   *)
(* after the start that made it, a controller after its start and node.    *)
(* A node has no Name of its own in its options (node/task.go:99): its tag *)
(* is made of the panel's answers.                                         *)
(***************************************************************************)
EXTENDS Integers, FiniteSets

CONSTANTS
    N,           \* nodes in a configuration
    MaxEdits,    \* bound on the edits of the file
    Faults,      \* what may fail: "file", "core", "panel", "slow"
    None, Absent \* nil; the slots of Node.controllers beyond its length

ASSUME ReloadAssumption ==
    /\ N \in Nat /\ MaxEdits \in Nat
    /\ Faults \subseteq {"file", "core", "panel", "slow"}
    /\ None # Absent /\ None \notin 0 .. MaxEdits /\ Absent \notin 0 .. MaxEdits

Nodes == 1 .. N
Starts == 0 .. MaxEdits
Versions == 1 .. MaxEdits + 1
Controllers == Starts \X Nodes

VARIABLES
    up,            \* the process: "up", "exited" or "crashed"
    file,          \* the configuration file: its version, and if it decodes
    events,        \* file events not read by the watcher yet
    quiet,         \* within 10 seconds of the last event taken
    conf,          \* *Conf: the version in memory and how much of it was read
    pc, at,        \* each start: the step it is at, the node it is at
    closing,       \* each start: the controller it is closing, by the start that made it
    use,           \* each start: what its nodes.Start was called with
    vc,            \* the core in use (None: nil)
    cores,         \* cores by the start that made them
    controllers,   \* Node.controllers: per node the start it is of, or None (nil)
    ctl,           \* fields of the controllers
    mon,           \* where the monitor of each controller is
    limiter,       \* the global map: per node the start whose limiter it holds
    faulty,        \* history: something has failed
    lost,          \* history: what became of the last edit: nobody watched, event ignored
    late           \* history: controllers closed with a step of theirs under way

process == <<up, faulty>>
watcher == <<file, events, quiet, lost>>
starting == <<conf, pc, at, closing, use>>
nodes == <<vc, cores, controllers, ctl, limiter, late>>
vars == <<process, watcher, starting, nodes, mon>>

Closing == {"close", "stop", "delete"}
Restarting == {"sleep", "load", "closecore", "newcore", "startcore", "nodes"} \cup Closing
Adding == {"client", "ask", "add", "tasks"}
Steps == Restarting \cup Adding \cup {"unborn", "off"}

\* The slots of Node.controllers beyond its length are Absent.
NoControllers == [i \in Nodes |-> Absent]
Length == Cardinality({i \in Nodes : controllers[i] # Absent})

Files == [v : Versions, ok : BOOLEAN]
Confs == [v : {0} \cup Versions, part : {"none", "cores", "all"}]
Uses == [core : Starts \cup {None}, v : {0} \cup Versions, n : {0, N}]
Cores == [st : {"none", "new", "started", "closed"}, tags : SUBSET Nodes]
Fields == [tag : BOOLEAN, tasks : BOOLEAN]
ByStart == [Starts -> Starts]

WatcherType ==
    /\ up \in {"up", "exited", "crashed"} /\ faulty \in BOOLEAN
    /\ file \in Files /\ events \in 0 .. MaxEdits /\ events < file.v
    /\ quiet \in BOOLEAN /\ lost \in {"no", "unwatched", "ignored"}

StartsType ==
    /\ conf \in Confs /\ pc \in [Starts -> Steps] /\ at \in [Starts -> 1 .. N + 1]
    /\ closing \in ByStart /\ use \in [Starts -> Uses]
    /\ \A r \in Starts : pc[r] \in {"stop", "delete", "ask", "add", "tasks"} => at[r] \in Nodes

NodesType ==
    /\ vc \in Starts \cup {None} /\ cores \in [Starts -> Cores]
    /\ controllers \in [Nodes -> Starts \cup {None, Absent}]
    /\ controllers = NoControllers \/ \A i \in Nodes : controllers[i] # Absent
    /\ ctl \in [Controllers -> Fields] /\ late \subseteq Controllers
    /\ mon \in [Controllers -> {"idle", "asked", "deleted", "unlimited", "limited"}]
    /\ limiter \in [Nodes -> Starts \cup {None}]

TypeOK == WatcherType /\ StartsType /\ NodesType

Init ==
    /\ up = "up" /\ faulty = FALSE /\ lost = "no" /\ late = {}
    /\ file = [v |-> 1, ok |-> TRUE] /\ events = 0 /\ quiet = FALSE
    /\ conf = [v |-> 1, part |-> "all"]
    /\ pc = [r \in Starts |-> IF r = 0 THEN "newcore" ELSE "unborn"]
    /\ at = [r \in Starts |-> 1] /\ closing = [r \in Starts |-> r]
    /\ use = [r \in Starts |-> [core |-> None, v |-> 0, n |-> 0]]
    /\ vc = None
    /\ cores = [r \in Starts |-> [st |-> "none", tags |-> {}]]
    /\ controllers = NoControllers
    /\ ctl = [c \in Controllers |-> [tag |-> FALSE, tasks |-> FALSE]]
    /\ mon = [c \in Controllers |-> "idle"]
    /\ limiter = [i \in Nodes |-> None]

-----------------------------------------------------------------------------
(* How a step ends.                                                          *)

Crash == up' = "crashed" /\ UNCHANGED <<faulty, watcher, starting, nodes, mon>>

GoOn(r, step) == pc' = [pc EXCEPT ![r] = step]

\* An error is logged; serverHandle returns and ends the process, a reload
\* goroutine just ends.
Fail(r) ==
    /\ faulty' = TRUE
    /\ up' = IF r = 0 THEN "exited" ELSE up
    /\ GoOn(r, "off")

-----------------------------------------------------------------------------
(* The administrator and the watcher.                                        *)

\* The watch begins when the first start is over; an earlier edit is not seen.
Edit ==
    /\ up = "up" /\ file.v <= MaxEdits
    /\ \E ok \in BOOLEAN :
        /\ ok \/ "file" \in Faults
        /\ file' = [v |-> file.v + 1, ok |-> ok]
    /\ IF pc[0] = "off" THEN events' = events + 1 /\ UNCHANGED lost
                        ELSE lost' = "unwatched" /\ UNCHANGED events
    /\ UNCHANGED <<process, quiet, starting, nodes, mon>>

\* Faulty variant of Watching, for a mutant.
WatchingClosed == up = "up"

Watching == up = "up" /\ events > 0

\* Whether the file is yet to be read by a reload under way.
ToBeRead == \E r \in Starts : pc[r] \in {"sleep", "load"}

IgnoreEvent ==
    /\ Watching /\ quiet
    /\ events' = events - 1
    /\ lost' = IF ToBeRead THEN lost ELSE "ignored"
    /\ UNCHANGED <<process, file, quiet, starting, nodes, mon>>

TakeEvent ==
    /\ Watching /\ ~ quiet
    /\ events' = events - 1 /\ quiet' = TRUE /\ lost' = "no"
    /\ \E r \in Starts :
        /\ pc[r] = "unborn" /\ \A q \in 0 .. r - 1 : pc[q] # "unborn"
        /\ GoOn(r, "sleep")
    /\ UNCHANGED <<process, file, conf, at, closing, use, nodes, mon>>

\* Faulty variant of QuietEnds, for a mutant.
QuietEndsEarly ==
    /\ up = "up" /\ quiet
    /\ quiet' = FALSE
    /\ UNCHANGED <<process, file, events, lost, starting, nodes, mon>>

\* Time: a reload sleeps 5 of the 10 seconds, and what it then does without the
\* network takes less than 5.  Only with "slow" may the panel's answers take
\* longer.
QuietEnds ==
    /\ up = "up" /\ quiet
    /\ \A r \in Starts : pc[r] \in {"unborn", "off"} \/ (pc[r] = "ask" /\ "slow" \in Faults)
    /\ quiet' = FALSE
    /\ UNCHANGED <<process, file, events, lost, starting, nodes, mon>>

-----------------------------------------------------------------------------
(* A reload goroutine.                                                       *)

Act(r, step) == up = "up" /\ pc[r] = step

\* *p = *New()
Reset(r) ==
    /\ Act(r, "sleep")
    /\ conf' = [v |-> 0, part |-> "none"]
    /\ GoOn(r, "load")
    /\ UNCHANGED <<process, watcher, at, closing, use, nodes, mon>>

\* Faulty variant of Load, for a mutant.
LoadOrFirst(r) ==
    /\ Act(r, "load")
    /\ conf' = [v |-> IF file.ok THEN file.v ELSE 1, part |-> "all"]
    /\ at' = [at EXCEPT ![r] = 1]
    /\ GoOn(r, "close")
    /\ UNCHANGED <<process, watcher, closing, use, nodes, mon>>

\* LoadFromPath; its error is logged, and the reload goes on with what of the
\* file was decoded.
Load(r) ==
    /\ Act(r, "load")
    /\ IF file.ok THEN conf' = [v |-> file.v, part |-> "all"] /\ UNCHANGED faulty
                  ELSE /\ \E part \in {"none", "cores"} : conf' = [v |-> file.v, part |-> part]
                       /\ faulty' = TRUE
    /\ at' = [at EXCEPT ![r] = 1]
    /\ GoOn(r, "close")
    /\ UNCHANGED <<up, watcher, closing, use, nodes, mon>>

\* Controller.Close: the limiter goes first ...
DeleteLimiter(r) ==
    /\ Act(r, "close") /\ at[r] <= Length
    /\ LET i == at[r]
       IN IF controllers[i] = None THEN Crash
          ELSE /\ limiter' = IF ctl[<<controllers[i], i>>].tag THEN [limiter EXCEPT ![i] = None]
                                                               ELSE limiter
               /\ closing' = [closing EXCEPT ![r] = controllers[i]]
               /\ GoOn(r, "stop")
               /\ UNCHANGED <<process, watcher, conf, at, use, vc, cores, controllers, ctl, late, mon>>

\* Faulty variant of CloseTasks, for a mutant.
CloseNoTasks(r) ==
    /\ Act(r, "stop")
    /\ GoOn(r, "delete")
    /\ UNCHANGED <<process, watcher, conf, at, closing, use, nodes, mon>>

\* ... then the tasks are told to stop.
CloseTasks(r) ==
    /\ Act(r, "stop")
    /\ LET c == <<closing[r], at[r]>>
       IN /\ ctl' = [ctl EXCEPT ![c].tasks = FALSE]
          /\ late' = IF mon[c] = "idle" THEN late ELSE late \cup {c}
    /\ GoOn(r, "delete")
    /\ UNCHANGED <<process, watcher, conf, at, closing, use, vc, cores, controllers, limiter, mon>>

Registered(k, i) == k # None /\ cores[k].st = "started" /\ i \in cores[k].tags

\* DelNode; Node.Close panics on its error.
CloseNode(r) ==
    /\ Act(r, "delete")
    /\ LET i == at[r]
           k == use[closing[r]].core
       IN IF ~ Registered(k, i) THEN Crash
          ELSE /\ cores' = [cores EXCEPT ![k].tags = @ \ {i}]
               /\ at' = [at EXCEPT ![r] = i + 1]
               /\ GoOn(r, "close")
               /\ UNCHANGED <<process, watcher, conf, closing, use, vc, controllers, ctl, limiter, late, mon>>

CloseDone(r) ==
    /\ Act(r, "close") /\ at[r] > Length
    /\ controllers' = NoControllers
    /\ GoOn(r, "closecore")
    /\ UNCHANGED <<process, watcher, conf, at, closing, use, vc, cores, ctl, limiter, late, mon>>

\* Faulty variant of CloseCore, for a mutant.
CloseCoreNot(r) ==
    /\ Act(r, "closecore")
    /\ GoOn(r, "newcore")
    /\ UNCHANGED <<process, watcher, conf, at, closing, use, nodes, mon>>

\* vc.Close() of a nil interface is a nil dereference.
CloseCore(r) ==
    /\ Act(r, "closecore")
    /\ IF vc = None THEN Crash
       ELSE /\ cores' = [cores EXCEPT ![vc].st = "closed"]
            /\ \/ GoOn(r, "newcore") /\ UNCHANGED process
               \/ "core" \in Faults /\ Fail(r)
            /\ UNCHANGED <<watcher, conf, at, closing, use, vc, controllers, ctl, limiter, late, mon>>

-----------------------------------------------------------------------------
(* The start of a core and of the nodes, in serverHandle and in a reload.    *)

NewCore(r) ==
    /\ Act(r, "newcore")
    /\ \/ /\ conf.part # "none"
          /\ vc' = r
          /\ cores' = [cores EXCEPT ![r].st = "new"]
          /\ GoOn(r, "startcore")
          /\ UNCHANGED process
       \/ /\ conf.part = "none" \/ "core" \in Faults
          /\ vc' = None
          /\ Fail(r)
          /\ UNCHANGED cores
    /\ UNCHANGED <<watcher, conf, at, closing, use, controllers, ctl, limiter, late, mon>>

StartCore(r) ==
    /\ Act(r, "startcore")
    /\ \/ /\ cores' = [cores EXCEPT ![vc].st = "started"]
          /\ GoOn(r, "nodes")
          /\ UNCHANGED process
       \/ "core" \in Faults /\ Fail(r) /\ UNCHANGED cores
    /\ UNCHANGED <<watcher, conf, at, closing, use, vc, controllers, ctl, limiter, late, mon>>

\* Faulty variant of MakeSlots, for a mutant.
MakeSlotsOfFirst(r) ==
    /\ Act(r, "nodes")
    /\ use' = [use EXCEPT ![r] = [core |-> vc, v |-> 1, n |-> N]]
    /\ controllers' = [i \in Nodes |-> None]
    /\ at' = [at EXCEPT ![r] = 1]
    /\ GoOn(r, "client")
    /\ UNCHANGED <<process, watcher, conf, closing, vc, cores, ctl, limiter, late, mon>>

\* nodes.Start(c.NodeConfig, vc): a slot, nil so far, for every node.
MakeSlots(r) ==
    /\ Act(r, "nodes")
    /\ LET n == IF conf.part = "all" THEN N ELSE 0
       IN /\ use' = [use EXCEPT ![r] = [core |-> vc, v |-> conf.v, n |-> n]]
          /\ controllers' = [i \in Nodes |-> IF i <= n THEN None ELSE Absent]
    /\ at' = [at EXCEPT ![r] = 1]
    /\ GoOn(r, "client")
    /\ UNCHANGED <<process, watcher, conf, closing, vc, cores, ctl, limiter, late, mon>>

\* panel.New refuses a node type it does not know; the slot stays nil then.
\* A slot that another start's Close has taken away is out of range.
NewClient(r) ==
    /\ Act(r, "client") /\ at[r] <= use[r].n
    /\ \/ /\ at[r] <= Length
          /\ controllers' = [controllers EXCEPT ![at[r]] = r]
          /\ GoOn(r, "ask")
          /\ UNCHANGED <<process, watcher, conf, at, closing, use, vc, cores, ctl, limiter, late, mon>>
       \/ at[r] > Length /\ Crash
       \/ "file" \in Faults /\ Fail(r) /\ UNCHANGED <<watcher, conf, at, closing, use, nodes, mon>>

\* The panel answers; the tag is known and the limiter is added.
Ask(r) ==
    /\ Act(r, "ask")
    /\ \/ /\ ctl' = [ctl EXCEPT ![<<r, at[r]>>].tag = TRUE]
          /\ limiter' = [limiter EXCEPT ![at[r]] = r]
          /\ GoOn(r, "add")
          /\ UNCHANGED process
       \/ "panel" \in Faults /\ Fail(r) /\ UNCHANGED <<ctl, limiter>>
    /\ UNCHANGED <<watcher, conf, at, closing, use, vc, cores, controllers, late, mon>>

AddNode(r) ==
    /\ Act(r, "add")
    /\ LET k == use[r].core
           i == at[r]
       IN \/ /\ cores[k].st # "started"
             /\ Crash
          \/ /\ cores[k].st = "started" /\ i \notin cores[k].tags
             /\ cores' = [cores EXCEPT ![k].tags = @ \cup {i}]
             /\ GoOn(r, "tasks")
             /\ UNCHANGED <<process, watcher, conf, at, closing, use, vc, controllers, ctl, limiter, late, mon>>
          \/ /\ "core" \in Faults \/ i \in cores[k].tags
             /\ cores[k].st = "started"
             /\ Fail(r)
             /\ UNCHANGED <<watcher, conf, at, closing, use, nodes, mon>>

\* AddUsers, then startTasks; the controller of the next node follows.
StartTasks(r) ==
    /\ Act(r, "tasks")
    /\ \/ /\ ctl' = [ctl EXCEPT ![<<r, at[r]>>].tasks = TRUE]
          /\ at' = [at EXCEPT ![r] = @ + 1]
          /\ GoOn(r, "client")
          /\ UNCHANGED process
       \/ "core" \in Faults /\ Fail(r) /\ UNCHANGED <<ctl, at>>
    /\ UNCHANGED <<watcher, conf, closing, use, vc, cores, controllers, limiter, late, mon>>

Started(r) ==
    /\ Act(r, "client") /\ at[r] > use[r].n
    /\ GoOn(r, "off")
    /\ UNCHANGED <<process, watcher, conf, at, closing, use, nodes, mon>>

-----------------------------------------------------------------------------
(* The monitor of a controller, as far as a restart can meet it.  It asks    *)
(* the panel, and when the node has changed it deletes and adds the node.    *)

Monitor(c, stage, next) ==
    /\ up = "up" /\ mon[c] = stage
    /\ mon' = [mon EXCEPT ![c] = next]
    /\ UNCHANGED <<watcher, starting, vc, controllers, late>>

Fire(c) ==
    /\ ctl[c].tasks
    /\ Monitor(c, "idle", "asked")
    /\ UNCHANGED <<process, cores, ctl, limiter>>

NoChange(c) ==
    /\ Monitor(c, "asked", "idle")
    /\ UNCHANGED <<process, cores, ctl, limiter>>

\* DelNode of the core; logrus' Panic on its error.
MonitorDeletes(c) ==
    LET k == use[c[1]].core
    IN \/ /\ Monitor(c, "asked", "deleted")
          /\ Registered(k, c[2])
          /\ cores' = [cores EXCEPT ![k].tags = @ \ {c[2]}]
          /\ UNCHANGED <<process, ctl, limiter>>
       \/ /\ up = "up" /\ mon[c] = "asked" /\ ~ Registered(k, c[2])
          /\ Crash

\* The node has no limiter from DeleteLimiter ...
MonitorUnlimits(c) ==
    /\ limiter' = [limiter EXCEPT ![c[2]] = None]
    /\ Monitor(c, "deleted", "unlimited")
    /\ UNCHANGED <<process, cores, ctl>>

\* Faulty variant of MonitorLimits, for a mutant.
MonitorLimitsNot(c) ==
    /\ Monitor(c, "unlimited", "limited")
    /\ UNCHANGED <<process, cores, ctl, limiter>>

\* ... to AddLimiter; an error of UpdateRule or requestCert ends the round here,
\* with the node deleted.
MonitorLimits(c) ==
    /\ limiter' = [limiter EXCEPT ![c[2]] = c[1]]
    /\ \/ Monitor(c, "unlimited", "limited") /\ UNCHANGED process
       \/ /\ "core" \in Faults
          /\ Monitor(c, "unlimited", "idle")
          /\ faulty' = TRUE /\ UNCHANGED up
    /\ UNCHANGED <<cores, ctl>>

\* AddNode, with a Panic on its error, and AddUsers; a changed interval closes
\* and starts the task anew.
MonitorAdds(c) ==
    LET k == use[c[1]].core
        free == cores[k].st = "started" /\ c[2] \notin cores[k].tags
    IN \/ /\ Monitor(c, "limited", "idle") /\ free
          /\ cores' = [cores EXCEPT ![k].tags = @ \cup {c[2]}]
          /\ \E restart \in BOOLEAN : ctl' = [ctl EXCEPT ![c].tasks = @ \/ restart]
          /\ UNCHANGED <<process, limiter>>
       \/ /\ up = "up" /\ mon[c] = "limited"
          /\ ~ free \/ "core" \in Faults
          /\ up' = "crashed"
          /\ faulty' = (faulty \/ free)
          /\ UNCHANGED <<watcher, starting, nodes, mon>>

MonitorNext(c) ==
    \/ Fire(c) \/ NoChange(c) \/ MonitorDeletes(c)
    \/ MonitorUnlimits(c) \/ MonitorLimits(c) \/ MonitorAdds(c)

-----------------------------------------------------------------------------
StartNext(r) ==
    \/ Reset(r) \/ Load(r)
    \/ DeleteLimiter(r) \/ CloseTasks(r) \/ CloseNode(r) \/ CloseDone(r) \/ CloseCore(r)
    \/ NewCore(r) \/ StartCore(r) \/ MakeSlots(r) \/ NewClient(r)
    \/ Ask(r) \/ AddNode(r) \/ StartTasks(r) \/ Started(r)

Resting == up = "up" /\ events = 0 /\ \A r \in Starts : pc[r] \in {"unborn", "off"}

\* The process has ended, or the edits of the bound are used up.
Halted == (up # "up" \/ (Resting /\ file.v > MaxEdits)) /\ UNCHANGED vars

Next ==
    \/ Edit \/ IgnoreEvent \/ TakeEvent \/ QuietEnds
    \/ \E r \in Starts : StartNext(r)
    \/ \E c \in Controllers : MonitorNext(c)
    \/ Halted

Spec == Init /\ [][Next]_vars

-----------------------------------------------------------------------------
Owned(c) == controllers[c[2]] = c[1] /\ use[c[1]].core = vc /\ cores[vc].st = "started"

\* No two cores are started at a time, whatever fails: a reload that cannot
\* close the old core or make the new one does not go on (cmd/server.go:88).
OneCoreOpen == Cardinality({k \in Starts : cores[k].st = "started"}) <= 1

\* Tasks that run are those of controllers in Node.controllers, and work on the
\* core in use: a restart leaves none behind, except of a controller whose
\* monitor was at work when it was closed (node/controller.go:101).
TasksOwned ==
    up = "up" => \A c \in Controllers : ctl[c].tasks => Owned(c) \/ c \in late

\* A controller is being closed, from the first call of its Close to the last.
BeingClosed(c) == \E r \in Starts : pc[r] \in {"stop", "delete"} /\ at[r] = c[2]

\* A controller's limiter is there, but from DeleteLimiter to AddLimiter of its
\* monitor (node/task.go:102), and from the DeleteLimiter of its Close on
\* (node/controller.go:102), when its tasks and its node still run.
Limited(c) ==
    \/ limiter[c[2]] = c[1]
    \/ limiter[c[2]] = None /\ (mon[c] = "unlimited" \/ BeingClosed(c))

\* Connections of a node are never judged by the limiter that another controller
\* made or left behind: AddLimiter and DeleteLimiter are global, by tag.
LimiterIsOwners ==
    up = "up" => \A c \in Controllers : ctl[c].tasks /\ c \notin late => Limited(c)

\* The server does not crash of a restart in which nothing failed, unless the
\* restart closed a controller whose monitor was at work (node/node.go:44 and
\* the Panics of nodeInfoMonitor).
CrashHasCause ==
    up = "crashed" => faulty \/ \E c \in late : mon[c] # "idle"

Serving(i) == LET s == controllers[i] IN IF s \in Starts /\ ctl[<<s, i>>].tasks THEN use[s].v ELSE 0

\* A node is never served by an older configuration than it was before
\* (conf/watch.go:39: the file is read anew by each reload).
NeverOlder == [][\A c, d \in Controllers :
    ctl[c].tag /\ ctl'[d].tasks /\ ~ ctl[d].tasks => use[c[1]].v <= use[d[1]].v]_vars

Serves(v) == \A i \in Nodes : Serving(i) >= v

\* At rest the nodes are served by the file's configuration, unless something
\* failed or the last edit fell into the rest of the 10 seconds after a reload
\* had read the file (conf/watch.go:27).
OnlyIgnoredEditsAreLost == Resting /\ ~ faulty /\ lost = "no" => Serves(file.v)

-----------------------------------------------------------------------------
(* What makes these so, layer by layer.                                      *)

\* One restart at a time: a reload begins when serverHandle is done and the
\* watcher's ten seconds are over, and they do not end while it is restarting.
TurnsInv ==
    /\ pc[0] \in Adding \cup {"newcore", "startcore", "nodes", "off"}
    /\ pc[0] # "off" => events = 0
    /\ \A r \in Starts : r # 0 /\ pc[r] \in Restarting => quiet
    /\ \A q, r \in Starts : q < r /\ pc[q] \in Restarting \cup {"unborn"} => pc[r] = "unborn"
    /\ \A r \in Starts : pc[0] # "off" /\ r # 0 => pc[r] = "unborn"

CoreInv ==
    /\ \A k \in Starts : cores[k].st = "started" => k = vc
    /\ \A r \in Starts :
          /\ pc[r] \in {"newcore", "startcore"} => \A k \in Starts : cores[k].st # "started"
          /\ pc[r] \in {"startcore", "nodes"} => vc = r

\* A panel that answers within the five seconds left lets no two starts overlap.
Prompt == "slow" \notin Faults

Busy(r) == pc[r] \notin {"unborn", "off"}

AloneInv ==
    /\ \A r \in Starts : r # 0 /\ Busy(r) => quiet
    /\ \A q, r \in Starts : q < r /\ Busy(q) => pc[r] = "unborn"

\* There are no controllers while the core is replaced; a start that is adding
\* them is that of the core in use, and has filled the slots up to its node.
StepInv(r) ==
    /\ use[r].core = r => pc[r] \in Adding \cup {"off"}
    /\ pc[r] \in {"closecore", "newcore", "startcore", "nodes"} => controllers = NoControllers
    /\ pc[r] = "nodes" => cores[r].st = "started"
    /\ pc[r] \in {"stop", "delete"} => controllers[at[r]] = closing[r]
    /\ pc[r] \in Adding =>
          /\ vc = r /\ use[r].core = r /\ cores[r].st = "started"
          /\ pc[r] # "client" => at[r] <= use[r].n
          /\ \A i \in 1 .. use[r].n : controllers[i] =
                IF i < at[r] \/ (i = at[r] /\ pc[r] # "client") THEN r ELSE None

\* The controllers there are belong to the core in use.
InUseInv ==
    /\ \A r \in Starts : use[r].core \in {None, r}
    /\ \A i \in Nodes : controllers[i] \in Starts =>
          controllers[i] = vc /\ use[vc].core = vc /\ cores[vc].st = "started"
    /\ \A r \in Starts : StepInv(r)

\* A controller is current from its slot to the end of its Close; stopped, when
\* Close has told its tasks; fresh, until its tasks are started.
Current(c) ==
    /\ controllers[c[2]] = c[1]
    /\ \A r \in Starts : pc[r] \in Closing => at[r] <= c[2]

Stopped(c) == \E r \in Starts : pc[r] = "delete" /\ at[r] = c[2]

Fresh(c) ==
    \/ pc[c[1]] \in Restarting \cup {"unborn"}
    \/ pc[c[1]] \in Adding /\ at[c[1]] <= c[2]

AtWork == {"deleted", "unlimited", "limited"}

\* Tasks, monitors, tags and limiters: only a current controller has a node in
\* its core, or a monitor that has deleted it; only a current one that is not
\* stopped has tasks, unless it is late, and it has the limiter, or there is
\* none.
OwnerInv(c) ==
    /\ ~ Current(c) => mon[c] \in {"idle", "asked"} /\ c[2] \notin cores[c[1]].tags
    /\ mon[c] \in AtWork => c[2] \notin cores[c[1]].tags
    /\ ctl[c].tasks /\ c \notin late => Current(c) /\ ~ Stopped(c) /\ Limited(c)
    /\ mon[c] # "idle" /\ c \notin late => ctl[c].tasks
    /\ Fresh(c) => ~ ctl[c].tasks /\ mon[c] = "idle" /\ c \notin late

OwnersInv ==
    /\ \A c \in Controllers : OwnerInv(c)
    /\ \A r \in Starts : pc[r] \in {"add", "tasks"} => limiter[at[r]] = r

\* While nothing has failed, a start is complete: every node has a controller,
\* whose node is in the core unless its monitor is at it, and whose tasks run.
Served(c) ==
    /\ ~ Fresh(c) \/ (pc[c[1]] = "tasks" /\ at[c[1]] = c[2]) =>
          c[2] \in cores[c[1]].tags \/ mon[c] \in AtWork
    /\ ~ Fresh(c) /\ ~ Stopped(c) => ctl[c].tasks

Complete ==
    /\ (\A r \in Starts : pc[r] # "load") => conf.part = "all"
    /\ (\A r \in Starts : pc[r] # "newcore") => vc # None
    /\ \A r \in Starts : pc[r] \in Adding => use[r].n = N
    /\ (\A r \in Starts : pc[r] \in {"unborn", "off", "sleep", "load"} \cup Closing)
       => \A i \in Nodes : controllers[i] = vc
    /\ \A c \in Controllers : Current(c) => Served(c)

CompleteInv == CrashHasCause /\ (~ faulty => Complete)

\* What is in memory was read from the file, before the starts that use it.
ReadInv ==
    /\ conf.v <= file.v /\ \A r \in Starts : use[r].v <= file.v
    /\ \A r \in Starts : pc[r] \in Restarting \ {"sleep", "load"} =>
          \A q \in Starts : use[q].v <= conf.v
    /\ lost = "no" /\ events = 0 /\ ~ ToBeRead => conf.v = file.v

\* Versions grow from one start to the next.
GrowInv ==
    /\ \A r \in Starts : use[r].core # None =>
          /\ vc # None => r <= vc
          /\ \A q \in Starts : q < r => use[q].v <= use[r].v
    /\ \A c \in Controllers : ctl[c].tag => use[c[1]].core # None

\* While nothing has failed, the last start has used what is in memory.
LatestInv == ~ faulty =>
    /\ \A r \in Starts : pc[r] \in Adding => use[r].v = conf.v
    /\ (\A r \in Starts : ~ Busy(r)) => use[vc].v = conf.v

VersionInv == ReadInv /\ GrowInv /\ LatestInv
=============================================================================
