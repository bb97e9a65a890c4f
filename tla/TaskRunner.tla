----------------------------- MODULE TaskRunner -----------------------------
(***************************************************************************)
(* The periodic task of common/task: Start spawns a goroutine that waits   *)
(* for the interval or for the stop channel and calls Execute; Close       *)
(* closes the channel.  Start and Close are called by the owner (startTasks *)
(* and Close of a controller, or another task's goroutine) and from inside *)
(* Execute itself, when nodeInfoMonitor changes its own interval.          *)
(*                                                                         *)
(* The n-th Start that is not refused makes channel n and goroutine n.     *)
(***************************************************************************)
EXTENDS Integers, FiniteSets

CONSTANTS
    MaxStarts,     \* bound on the Starts that are not refused
    MayFail,       \* TRUE when Execute may return an error
    SelfRestart    \* TRUE when Execute may close and start its own task

ASSUME TaskRunnerAssumption ==
    MaxStarts \in Nat /\ MayFail \in BOOLEAN /\ SelfRestart \in BOOLEAN

Goroutines == 1 .. MaxStarts

VARIABLES
    running, stop,   \* Task.running; Task.stop, the channel made last (0: nil)
    closed,          \* the closed channels
    place,           \* where each goroutine is
    waitsOn,         \* the channel its select has evaluated
    panicked         \* a closed channel was closed: the process has ended

taskVars == <<running, stop, closed, place, waitsOn, panicked>>

Places == {"unborn", "select", "wait", "execute", "restart", "dead"}

TaskTypeOK ==
    /\ running \in BOOLEAN /\ panicked \in BOOLEAN
    /\ stop \in 0 .. MaxStarts
    /\ closed \subseteq 1 .. stop
    /\ place \in [Goroutines -> Places]
    /\ waitsOn \in [Goroutines -> 0 .. MaxStarts]

TaskInit ==
    /\ running = FALSE /\ stop = 0 /\ closed = {} /\ panicked = FALSE
    /\ place = [g \in Goroutines |-> "unborn"]
    /\ waitsOn = [g \in Goroutines |-> 0]

-----------------------------------------------------------------------------
(* The two calls; each holds the mutex throughout.                           *)

\* p is place with the caller already moved on; the new goroutine begins with
\* Execute when first is true.

\* Faulty variant of StartTask, for a mutant.
StartUnguarded(p, first) ==
    /\ stop < MaxStarts
    /\ running' = TRUE
    /\ stop' = stop + 1
    /\ place' = [p EXCEPT ![stop + 1] = IF first THEN "execute" ELSE "select"]
    /\ UNCHANGED closed

StartTask(p, first) ==
    \/ running /\ place' = p /\ UNCHANGED <<running, stop, closed>>
    \/ ~ running /\ StartUnguarded(p, first)

\* close(t.stop) of a closed channel panics.
CloseChannel ==
    /\ closed' = closed \cup {stop}
    /\ panicked' = (stop \in closed)


\* Faulty variant of CloseTask, for a mutant.
CloseUnguarded == running' = FALSE /\ stop # 0 /\ CloseChannel

\* Faulty variant of CloseTask, for a mutant.
CloseOnlyFlag ==
    /\ running' = FALSE
    /\ UNCHANGED <<closed, panicked>>

CloseTask ==
    \/ /\ running
       /\ running' = FALSE
       /\ CloseChannel
    \/ ~ running /\ UNCHANGED <<running, closed, panicked>>

\* The bound, on everybody's Starts: one is kept for each goroutine that has
\* closed the task and will start it again.
Spare == stop + Cardinality({g \in Goroutines : place[g] = "restart"}) < MaxStarts

(* The owner.                                                                *)

OwnerStart ==
    /\ ~ panicked /\ Spare
    /\ \E first \in BOOLEAN : StartTask(place, first)
    /\ UNCHANGED <<waitsOn, panicked>>

OwnerClose ==
    /\ ~ panicked
    /\ CloseTask
    /\ UNCHANGED <<stop, place, waitsOn>>

-----------------------------------------------------------------------------
(* A goroutine.                                                              *)

At(g, stage) == ~ panicked /\ place[g] = stage
Move(g, stage) == place' = [place EXCEPT ![g] = stage]

\* The select evaluates t.stop each time round, whatever channel it is by then.
EnterSelect(g) ==
    /\ At(g, "select")
    /\ waitsOn' = [waitsOn EXCEPT ![g] = stop]
    /\ Move(g, "wait")
    /\ UNCHANGED <<running, stop, closed, panicked>>

TimerFires(g) ==
    /\ At(g, "wait")
    /\ Move(g, "execute")
    /\ UNCHANGED <<running, stop, closed, waitsOn, panicked>>

StopReceived(g) ==
    /\ At(g, "wait")
    /\ waitsOn[g] \in closed
    /\ Move(g, "dead")
    /\ UNCHANGED <<running, stop, closed, waitsOn, panicked>>

ExecuteReturns(g) ==
    /\ At(g, "execute")
    /\ Move(g, "select")
    /\ UNCHANGED <<running, stop, closed, waitsOn, panicked>>

\* Faulty variant of FailTask, for a mutant.
FailOnlyDies == UNCHANGED <<running, closed, panicked>>

\* An error stops the task: the channel is closed without asking whether it
\* already is.
FailTask ==
    /\ running' = FALSE
    /\ CloseChannel

ExecuteFails(g) ==
    /\ MayFail
    /\ At(g, "execute")
    /\ FailTask
    /\ Move(g, "dead")
    /\ UNCHANGED <<stop, waitsOn>>

\* nodeInfoMonitor: Close, then Start(false), then return.
SelfClose(g) ==
    /\ SelfRestart /\ Spare
    /\ At(g, "execute")
    /\ CloseTask
    /\ Move(g, "restart")
    /\ UNCHANGED <<stop, waitsOn>>

SelfStart(g) ==
    /\ At(g, "restart")
    /\ StartTask([place EXCEPT ![g] = "select"], FALSE)
    /\ UNCHANGED <<waitsOn, panicked>>

Step(g) ==
    \/ EnterSelect(g) \/ TimerFires(g) \/ StopReceived(g)
    \/ ExecuteReturns(g) \/ ExecuteFails(g) \/ SelfClose(g) \/ SelfStart(g)

TaskEnded == panicked /\ UNCHANGED taskVars

TaskNext == TaskEnded \/ OwnerStart \/ OwnerClose \/ \E g \in Goroutines : Step(g)

TaskSpec == TaskInit /\ [][TaskNext]_taskVars

\* Goroutines are scheduled and Execute ends (its requests have a timeout).
\* A select with both cases ready picks either with equal chances, so a closed
\* channel that is ready again and again is taken in the end.
TaskFairness ==
    \A g \in Goroutines :
        WF_taskVars(Step(g)) /\ SF_taskVars(StopReceived(g))

TaskFairSpec == TaskSpec /\ TaskFairness

-----------------------------------------------------------------------------
(* Properties.                                                               *)

\* What ties the flag, the channels and the goroutines together, and the
\* inductive invariant of the proofs: only the last channel can be open, and it
\* is exactly while the task is running; a goroutine waits on a channel at
\* least as new as its own.
RunnerInv ==
    /\ running <=> stop # 0 /\ stop \notin closed
    /\ \A n \in 1 .. stop : n # stop => n \in closed
    /\ \A g \in Goroutines : place[g] = "unborn" <=> g > stop
    /\ \A g \in Goroutines : place[g] = "wait" => g <= waitsOn[g] /\ waitsOn[g] <= stop
    /\ running => place[stop] # "dead"

\* No goroutine is left waiting on an open channel that the task has forgotten:
\* every one can be stopped, by the Close that was or by the next one, though
\* t.stop is replaced under a goroutine that has yet to read it (task.go:23,40).
Stoppable ==
    \A g \in Goroutines : place[g] = "wait" => waitsOn[g] = stop \/ waitsOn[g] \in closed

\* A task that says it runs has its latest goroutine alive: no order of Close,
\* Start, errors and late goroutines leaves a running task without one.
RunningIsServed == running => place[stop] \notin {"unborn", "dead"}

\* Only an Execute that returns an error can close a closed channel and end
\* the process (task.go:47): Close, from whatever goroutine, never does.
OnlyErrorsPanic ==
    [][~ panicked /\ panicked' =>
          \E g \in Goroutines : place[g] = "execute" /\ place'[g] = "dead"]_taskVars

\* A task that is closed for good gets rid of all its goroutines, also of those
\* a restart from inside Execute left behind.
AllStop ==
    (<>[] ~ running) =>
        <>[](panicked \/ \A g \in Goroutines : place[g] \in {"unborn", "dead"})
=============================================================================
