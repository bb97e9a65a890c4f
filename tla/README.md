# V2bX in TLA+

V2bX is a node server for the V2board panel.  One process serves any number of
*nodes* (inbounds with their users) on up to three kinds of proxy *core* (xray,
sing-box, hysteria2).  It asks the panel for each node's configuration and
users, limits what the users do, counts their traffic, and reports traffic and
devices back.  This directory models V2bX's own logic, not that of the proxies
it embeds: TLC checks the modules on small instances, and TLAPS proves the
theorems of the `*_proofs` modules for every value of the constants.

## 1. The system

| Part | State it keeps | Operations |
|---|---|---|
| Server (`cmd/server.go`, `conf/watch.go`, `node/node.go`) | the configuration, the core, the controllers | start; on a file change: close all, new core, start all |
| Node controller (`node/controller.go`, `node/task.go`, `node/user.go`) | node configuration, user list, alive map, limiter, tasks | `Start`, `Close`, the monitor `nodeInfoMonitor`, the report task |
| Panel client (`api/panel`) | hash of the last configuration body, two ETags | conditional requests for configuration and users, the alive list, the two reports; 3 retries |
| Periodic task (`common/task`) | running flag, stop channel, goroutines | `Start`, `Close`, also from inside its own `Execute` |
| Limiter (`limiter`) | users' limits, online IPs, IPs of the last report, rate buckets, alive list | `CheckLimit`, `GetOnlineDevice`, `UpdateUser` |
| Cores (`core`, `core/xray`, `core/sing`, `core/hy2`) | inbounds, users, uid map | `AddNode`, `DelNode`, `AddUsers`, `DelUsers`, `GetUserTrafficSlice` |
| xray dispatcher (`core/xray/app/dispatcher`) | link managers, counters, same-tag outbounds | `getLink`, `DispatchLink`, `routedDispatch` |
| Counters (`common/counter`) | per node a map user -> bytes | look up or create, add, load, reset, delete |
| Core selector (`core/selector.go`) | the cores, which of them has which node | forwards a node's operations to the core chosen for it |
| hysteria2's connections (`core/hy2`) | one map of accounts for all nodes, the flag `OverLimit` per user | `Authenticate`, `Connect`, `TCPRequest`, `UDPRequest`, `LogTraffic` |
| Certificates (`node/cert.go`, `node/lego.go`) | two files, an ACME account | request, check, renew |
| json5 reader (`common/json5`) | a buffer edited in place | blanks comments and trailing commas |
| configuration decoding, inbound building (`conf`, `core/*/inbound.go`, `node.go`, `config.go`) | none | functions from descriptions to inbounds, errors and crashes |
| commands, scripts | none | one-shot commands |

They interact by direct calls from several goroutines.  Each controller has a
monitor goroutine and a report goroutine (two `common/task` tasks), each
connection has goroutines of the core, which call the limiter and the counters,
and a file watcher restarts everything from yet another goroutine.  Few of the
shared structures have a lock; most are `sync.Map`s of which each single call is
atomic.  What makes the system hard is listed under `hazards` in PROJECT.json.
In short:

* **Partial failure of a round.**  The monitor updates client caches,
  controller, core and limiter one after another, with early returns between.
  The copies must agree between rounds, and changes must get through in the end.
* **Interleaved connections.**  `CheckLimit` records a device before it decides
  and takes it back when it rejects, while other connections of the user, the
  report and the monitor work on the same maps.
* **Load-then-store.**  Reports load and reset counters to which connections
  add; posts of reports are repeated or lost.
* **A task that is restarted.**  A changed pull interval closes and starts the
  monitor's task from inside the monitor, and the report task beside it; a
  goroutine of either that is under way may go on beside the new one.
* **Restart of the whole server** with tasks and connections under way.
* **A choice made at random** among cores, which must be kept over reloads, and
  nodes that come back on a core where their last life has left something.
* **Two files written one after the other**, by several nodes, read by others,
  by a process that may end in between.
* **An answer passed through a shared flag**: hysteria2's event logger judges a
  connection, in a goroutine for each of its streams, its traffic logger cuts one.

What makes each part correct: the controller keeps the panel's, its own, the
core's and the limiter's picture of a node together; the limiter counts exactly
the devices it admitted and lets no others past the limit; a task can always be
stopped, and never runs without a goroutine or stops one that is needed; no byte
is billed twice by one report goroutine, and what a served user moves is billed;
a node stays with the
type of core that took it, which serves what the panel describes; certificate
and key belong together and do not run out; the json5 reader removes comments
and trailing commas, and nothing else.

## 2. The modules

An action is one step of one goroutine: one call to the panel, one operation on
a `sync.Map`, one locked section.  Names follow the code.  Definitions marked
*faulty variant* take no part in a specification: each is a plausible mistake in
the definition it precedes, and put in its place it breaks the property that
PROJECT.json pairs it with.

**NodeSync** (`node/controller.go`, `node/task.go`, `node/user.go`,
`api/panel/node.go`, `api/panel/user.go`, the cores' AddUsers/DelUsers).  The
panel's configuration is an opaque value and its user table gives each user a
plan (speed and device limit).  `mode = "boot"` is `Controller.Start`, whose
failures end the server (`exited`); `mode = "up"` is the periodic monitor.  A
*runner* is a goroutine that runs the monitor; `pc`, `answer`, `newN`, `newU`,
`del` and `add` are its locals.  `AskNodeOk`/`AskNodeFails` and
`AskUsersOk`/`AskUsersFails` fix the panel's answer, `TakeNode` and `TakeUsers`
weigh it against the client's caches; `BeginReload` to `FinishReload` are the
"Node changed, reload" branch, `CompareUsers` to `Commit` the other one.
`bodyHash`, `nodeEtag`, `userEtag` are the caches of `Client`; `info`,
`userList`, `interval` are fields of `Controller`; `node`, `coreUsers` are the
core; `lim`, `rules` the limiter.

**Limiter** (`limiter/limiter.go`, `limiter/dynamic.go`).  `pc[c]` walks
connection `c` through `CheckLimit`; `rpc` the report through the two nested
`Range` loops of `GetOnlineDevice`; `upc` the monitor through `UpdateUser`.
A map or bucket is named after the connection that created it, so that equality
of names is equality of pointers.

**TaskRunner** (`common/task/task.go`).  The n-th `Start` makes channel n and
goroutine n; `waitsOn` is the channel a goroutine's `select` has evaluated.
`SelfClose`, `SelfStart` are the restart from inside `nodeInfoMonitor`.

**Ledger** is what traffic accounting promises: bytes are moved; each reporter
puts bytes that it has not taken before into its report (`Take`), posts that as
often as it has attempts (`Post`), and begins another.  **Traffic**
(`common/counter`, `GetUserTrafficSlice`, `AddUsers`, `DelUsers` of the three
cores, `getLink`, `RoutedConnection`, `LogTraffic`, `node/user.go`, the two report
requests) implements it storage by storage (`TheLedger`, `ImplementsLedger`).  The
variable `core` selects the core's variant: xray keys uids by node and user and
closes the links of a deleted user, sing keys them by user alone and overwrites
counters in `Read` and `Write`, hysteria2 deletes the counter before the user.  A
TrafficCounter is a *table*, a TrafficStorage a *storage*; `stage` walks a
connection from authentication to its counter, `rp` a report goroutine through
`GetUserTrafficSlice`, the post and the online report.  `Started` are the report
goroutines a start makes; `RenewNode` and `FinishReload` are the monitor's reload
of a node as far as the counters see it, and `Restart` within the latter is the
restart of the report task (`node/task.go:160`): it makes a goroutine, and of
those there were, any of the ones that wait may learn of the closed channel
(`told`, `StopReceived`), while one that is under way never does.  `moved`,
`taken` and `billed` are history.

**Reload** (`cmd/server.go`, `conf/watch.go`, `conf/conf.go`, `node/node.go`,
`node/controller.go`, and of the cores' `AddNode`/`DelNode` what they check).  A
*start* is one pass through new core, core start, node starts: start 0 is
`serverHandle`, the others are the watcher's reload goroutines, one per event
taken.  `pc[r]` and `at[r]` say where start `r` is: `Reset`, `Load`, `CloseTasks`
to `CloseCore` are the part only a reload has, `NewCore` to `Started` the part
both have.  `vc` is the variable of `serverHandle` the closure shares,
`controllers` the slice `Node.controllers` with its nil slots, `conf` the `*Conf`
that is overwritten in place, `limiter` the global map.  A core is named after the
start that made it, a controller `<<start, node>>`. `mon[c]` is the monitor of a
controller as far as a restart can meet it: it asks, deletes the node, deletes the
limiter, makes a new one and adds the node (`MonitorDeletes`, `MonitorUnlimits`,
`MonitorLimits`, `MonitorAdds`; NodeSync has the details), and goes on although
its task was closed.  `Controller.Close` is `DeleteLimiter`, `CloseTasks` and
`CloseNode`, each a step.  `QuietEnds` is where the model speaks of time: a reload
sleeps 5 of the 10 seconds in which events are ignored, and takes less than 5 for
the rest.  The fault `"slow"` lifts that for the panel's answers. `faulty`, `lost`
and `late` are history.  The end of the process by a signal is left out: it runs
`Close` once and has no successor.

**Dispatch** (`core/xray/app/dispatcher/default.go`, `linkmanager.go`,
`core/xray/node.go`, `core/xray/user.go`).  One node of xray.  `cpc` walks the
controller through `DelUsers` (`RemoveUser`, `LoadManagerToClose`, `CloseLink`,
`DeleteManager`) and through `DelNode` and `AddNode` (`BeginReload` to
`AddAllUsers`) handler by handler; `pc[c]` walks a connection through `getLink` or
`DispatchLink` (`Limit` to `AddLink`) and `routedDispatch` (`CheckRules` to
`GetDefaultHandler`).  A LinkManager is named after the connection that made
it.  `raced`, `disturbed` and `ousted` are history: which connections met a
race that the code lets happen, and which users DelUsers removed last.  A
write to the map of links while `CloseAll` iterates it may end the process
(`dead`), as an error of `AddNode` does.

**Hy2** (`core/hy2/user.go`, `logger.go`, `hook.go`, `node.go`,
`limiter/limiter.go`, and of the controller what calls them).  `ctl[n]` walks a
node's controller through the start (`AddLimiter`, `AddNode`, `AddUsers`), a
changed list (`DelOldUsers`, `AddNewUsers`, `UpdateUser`), a reload
(`DelNodeToReload`, `DeleteLimiter`, then as in the start) and the close, which has
the limiter deleted first.  An event of a connection is handled by a *handler* of
its own: hysteria calls `Connect` once, `TCPRequest` in a goroutine for every
stream, and `UDPRequest` beside them.  `of[h]` is the connection of handler `h`,
`pc[h]` its way through `GetLimiter`, `CheckLimit` and `MarkOverLimit`, and
`pc[h] = "old"` says that it holds a limiter that has been replaced
(`WriteToOld`).  `cutting[c]` is the goroutine of the connection in `LogTraffic`,
which reads the flag, clears it and has the connection closed (`Cut`).  `usersMap`
is the one map of accounts; `flag[n]` is the limiter with one entry per user it
knows.  `verdict`, what the connection's latest check answered, `last`, the
handler that asked, `shutOut`, `lingering` and `panicked` are history.

**Selector** (`core/core.go`, `core/selector.go`, `conf/core.go`, `conf/node.go`)
follows one node from `NewCore` over reloads to its end, on one to three cores.
`option` are its options, of which `raw` says whether `RawOptions` are still to
be decoded and `made` what has been decoded; `entry` is the selector's map,
`holds[k]` what core `k` serves.  `AddNode(k)` takes any candidate: the map is
iterated in random order.  What the core makes of the node is computed by two
modules of functions: **Inbound** (`api/panel/node.go`, `core/xray/inbound.go`,
`core/xray/dns.go`, `core/sing/node.go`) and **HyConfig** (`core/hy2/config.go`,
`core/hy2/serverConfig.go`).  Each yields the inbound, `Failed`, or `Crashed` for
a nil dereference or a Fatal; `FirstHit` goes through the checks in the order of
the code, which decides between the last two and what is bound and left behind.
`portTaken`, `masqs` and `conflict` are what hysteria2 binds.  `Shared` names what
two cores understand alike; what it leaves out is listed in section 5.

**Cert** (`node/cert.go`, `node/lego.go`, and of the cores' `AddNode` how they read
the pair).  Nodes that share a pair of files and an account; `pc[w]` walks a
*worker*, a node's own goroutine or that of its renewal task, through `RequestCert`
or `RenewCertTask`, `NewLego` with `Register` and `SaveUser`, `CheckCert`, `Obtain`
and the four steps of `writeCert`; a node's own then reads certificate and key
(`LoadCert`, `AddNode`).  `Reload` is a monitor's reload, which may change the
security or anything else; a renewal task is made in a start only.  A certificate
is its serial number and the day it runs out; a key is the serial number of its
certificate; `Torn` is a file whose writing was cut short.  `Crash` ends the
process at any step, as a start that fails does, and a pair sing or hysteria2
refuses; xray logs it and starts the node.  `spoiled`, `raced`, `cut`, `failed` and
`since` are history.

**Json5** (`common/json5/json5.go`).  An action is one iteration of one of the
loops of `prep` and `consumeComment`; `i`, `j` and `s` are prep's variables.  The
reference definition `Clean` reads the file byte by byte: `Part[k]` is what byte
`k` is part of, and the cleaned file is the input with its comments and trailing
commas blanked.  The bytes prep tells apart have names.

The modules overlap where components meet, each abstracting what another one
details.  NodeSync and Reload treat a core's call as one step, Traffic and
Dispatch show what happens inside it.  NodeSync treats a restarted task as one
more runner, and Reload a task as a flag; TaskRunner shows what the task does.
Dispatch lets `CheckLimit` answer anything, Limiter shows how it answers.

## 3. The runs

| Run | Instance | Shows |
|---|---|---|
| `sync` | 2 users, 2 plans, 2 configurations, one of them with TLS; configuration, user, certificate and AddNode requests fail at will; fairness | `Agreement` between core, limiter and controller between rounds, `NoNeedlessKick`, `UsersConverge`, `ConfigConverges` |
| `sync_two_runners` | two configurations with different pull intervals, no failures | refutes `NeverPanics`: two monitors reload at once |
| `limit` | 2 connections of one user from 2 IPs, 2 reports, one `UpdateUser`, alive counts 0 or 1, a node limit and plans with and without a rate and a device limit | `CountedHasConn`, `AdmittedPastLimitIsKnown`, `OneBucket` |
| `task` | 4 effective Starts, errors, restarts from inside | `Stoppable`, `RunningIsServed`, `OnlyErrorsPanic`, `AllStop` |
| `traffic` | each core, one node, one user who comes and goes, 2 connections, 2 tables, 2 storages, refused and lost posts with one retry, 2 bytes per storage | `ImplementsLedger`, `KeptWhileServed` |
| `traffic_live` | xray and hysteria2, one connection, node reloads with a restarted report task, so up to 2 report goroutines, lost answers and one retry; fairness | `RepeatsBounded`, `GetsBilled` |
| `reload` | 2 nodes, 2 edits, failing files, cores and panel requests, monitors at work | `TypeOK`, `OneCoreOpen`, `TasksOwned`, `LimiterIsOwners`, `CrashHasCause`, `OnlyIgnoredEditsAreLost`, `NeverOlder` |
| `dispatch` | 2 connections, 2 users who come and go, reloads of the node | `TypeOK`, `DeletedUsersAreCut`, `OwnEgress` |
| `selector` | 14 sets of cores, nodes of every type, options, files and descriptions good and bad, 2 reloads | `RoutedToHolder`, `StaysWithItsType`, `OnlyBadInputEnds`, `SameWhicheverCore` |
| `hy2` | 2 nodes, one user who comes and goes at both, 2 connections, 2 handlers of one of them or of both, one change by the panel and the close | `FlagIsOwnAnswer`, `AccessIsListed`, `PanicHasCause` |
| `cert` | 2 nodes, 3 days, certificates of 2 days, 4 of them issued, refused renewals and registrations, one reload, one crash beside the ends of failed starts | `PairMatches`, `LoadsItsPair`, `AccountLoads`, `ExpiryIsRefused` |
| `json5` | every file of up to 6 bytes of 7 kinds | `CleansExactly`, `Terminates` |

*Why the bounds are enough.*  Two users suffice for a user list in which one entry
changes and another must not be disturbed; two plans for a changed speed limit,
two configurations for a change and a change back.  Two connections and two IPs
give one device at the limit and one over it, in one map or in two, and the two
reports show a device of the first to the second.  Four Starts give two goroutines
left over by restarts beside the current one and a further Start.  Two connections
and two tables cover the race of two first connections, two storages a counter
deleted and made anew while the old one is still added to.  A report takes a
counter from the first byte on (`MinTraffic = 0`) and skips an empty one, so the
second of two bytes may fall before the Load, between Load and Store(0), or after
it.  Two report goroutines load one counter before either resets it, one of them
left over by the restart that made the other.  Two nodes let a start fail with one
controller running and the other slot nil; two edits let a second restart meet
what a failed one left, and an edit fall into every phase of the one before.  Two
connections of two users give the race of two first connections and a user whose
links must survive another's deletion.  In Hy2 two connections are of one node or
of two, two handlers of one connection or of two, and a user is on none, one or
both of the lists; one change gives a deletion, an addition or a reload of a node
that serves, before or while the nodes are closed.  In Selector three cores give
two candidates and one that is none, and the second reload meets what the first
left.  In Cert three days give a certificate, its renewal when one day is left,
and the first day after its end if renewals fail; a crash can fall between any two
writes, a reload lets a node request or read while the other starts or its task
writes, and four certificates are enough for both tasks to renew on the same day.
Six bytes hold a string with an escape, a comment and a trailing comma with a
comment before the bracket.  The theorems have no bounds.

*Bounds named in the guards.*  `Runners`, `MaxReports`, `MaxUpdates`, `MaxAlive`,
`MaxStarts`, `MaxMoved`, `MaxEdits`, `MaxReloads`, `MaxDay`, `MaxCrashes`,
`MaxIssued`, `MaxLength`, and the sets `Tables`, `Storages`, `Reporters`,
`Handlers`.

*Fairness.*  NodeSync: the monitor's timer fires and its goroutine is scheduled
(weak fairness of asking and of each step), and a panel that fails does not fail
every single request for ever (strong fairness of the good answers).  TaskRunner:
goroutines are scheduled and `Execute` returns, since its requests have a
timeout; `select` picks among ready cases at random, so a closed channel that is
ready again and again is taken in the end (strong fairness of `StopReceived`).
Traffic: the report task's timer fires and what it calls goes on.  No fairness
is assumed of connections, of users who come and go, or of the administrator.
Json5: `prep` runs without waiting.  The other modules have safety properties
only and assume none; that a restart never gets stuck is TLC's deadlock check
there.

## 4. The proofs

*NodeSync_proofs.*  `TypeCorrect`.  `AgreementHolds`, under `Steady`: one pull
interval for all configurations (so one runner), no `Name`, a core that refuses
nobody without a reason.  `Agreement` speaks of the moments between rounds only
and is not inductive; `SyncInv` says at every stage of a round what has been
written so far and what has not: that `del` and `add` are what `compareUserList`
computed, how many of the users the core has, that controller and limiter agree
until the commit.  `UpdateMatches` and `UpdateListed` say that deleting `del`
and adding `add` turns the old table into the new one.  Two theorems need no more
of `Steady` than `OneInterval`, and so hold for a core that refuses users half
way: `NoNeedlessKickHolds`, from `LoneInv` (one runner, and what it is about to
delete is computed from the controller's own list); and `NeverPanicsAlone`, from
`WholeInv` (the node is missing exactly while its round replaces it), when no
certificate or AddNode fails.  The latter is the other side of the run
`sync_two_runners`: it takes a second runner, or such a failure before, to reach
the Panics of `nodeInfoMonitor`.

*Limiter_proofs.*  `TypeCorrect`; `CountedHasConnHolds` from `RecordInv` (each
IP in a map was put there by a connection that uses the map and, if the map is
the user's current one, was not rejected); `AdmittedPastLimitIsKnownHolds` from
`PassInv`; `OneBucketHolds` from `BucketInv`; `MinimumNonZeroRate`, that
`determineSpeedLimit` is the minimum of the non-zero rates.  For any number of
connections, users, IPs, reports and updates.

NodeSync_proofs extends TaskRunner too, the task whose goroutines its runners are
(TaskRunner's `TaskInit`, `TaskNext` and so on have names of their own for that):
`RunnerInvHolds`, and from it `StoppableHolds`, `RunningIsServedHolds`,
`OnlyErrorsPanicHolds`.  `RunnerInv` adds to them that every channel but the last
is closed and that goroutines exist up to `stop`.

*Traffic_proofs.*  For any nodes, users, connections, storages and report
goroutines, several of one node included.  `TypeCorrect` and `PlacesHold` need no
assumption: tables and storages are found only under the node they were made for,
so that two nodes' reports never take from one storage.  `LedgerImplemented` and
`RepeatsBoundedHolds` need none either.  They rest on four parts:

| Part | What it says |
|---|---|
| `TakenInv` | what a goroutine has taken from a storage, what it is about to take and what the storage holds are different bytes from its Store(0) on; between Load and Store(0) they may be the same |
| `Untried` | the attempts are counted from the first post of a report |
| `SliceInv` | a report holds what one scan took, from each storage at most once, and a storage of the slice is not scanned again |
| `BookedInv` | what is booked and what may yet be booked of the report in hand is at most what was taken, times the attempts |

The case to watch in `TakenInv` is a byte added between Load and Store(0), which
the reset forgets, and a second goroutine of the node, whose reset takes away what
the first has yet to attribute: both only make `val` smaller than what was moved
and not taken.  Two goroutines may take the same byte, each once, which is why
`taken` and `billed` are kept for each.
`KeptWhileServedHolds` is about uids: `Known`, that a served user has one,
holds when the core is xray or there is one node (`OwnUids`).  In sing a deletion
at one node takes the uid from all, see section 5, and the next report then drops
the user's counter.

*Dispatch_proofs.*  For any connections and users.  `TypeCorrect`;
`DeletedUsersAreCutHolds` from `CutInv`: a connection that no race has taken away
uses the manager stored for its user and is one of its links from the step that
registers it (`ManagersInv`); of a user who has been removed, only connections
that DelUsers is still to close are registered (`OustedInv`), and those are among
the links it read (`ClosingInv`).  The case to watch is a connection that stands
between `LoadManager` and `AddLink` when its user is deleted.  `OwnEgressHolds`
from `EgressInv`: outside a reload the entry in `SameTagOutbound` is the
configuration's and the handler is there, and every connection that is on its way
in a reload counts as disturbed.

*Reload_proofs.*  For any number of nodes and edits, and for any faults.
`TypeCorrect` and `OneCoreOpenHolds` hold whatever fails and however long the
panel takes.  The others assume `Prompt`, that the panel answers within the rest
of the ten seconds in which the watcher ignores events: past that two reloads
overlap, and section 5 says what comes of it.  The invariants are layers, each
proved with those before it:

| Layer | What it says |
|---|---|
| `TurnsInv` | reloads begin one at a time, after `serverHandle`, and within the quiet time |
| `CoreInv` | a start that makes a core finds none started; the started one is `vc`'s |
| `AloneInv` (`Prompt`) | at most one start is at work |
| `InUseInv` | controllers belong to the core in use; a start fills the slots in order |
| `OwnersInv` | which controllers may have tasks, a tag in a core, a monitor, the limiter |
| `CompleteInv` | while nothing has failed, no slot is nil and each node is served, or its monitor is at it |
| `VersionInv` | memory is never ahead of the file, and starts use growing versions |

From them `TasksOwnedHolds` and `LimiterIsOwnersHolds` (`OwnersInv`),
`CrashHasCauseHolds` (`CompleteInv`), `NeverOlderHolds` and
`OnlyIgnoredEditsAreLostHolds` (`VersionInv`).  All but the crash and the lost
edit hold also when files, cores or requests fail: a failed restart leaves less
behind, never something foreign.  What they exempt is the controller that was
closed with its monitor at work (`late`), which takes no fault: that monitor goes
on and may start its tasks again.  `LimiterIsOwnersHolds` says that a node has its
own controller's limiter or none, and none only between the two calls of its
monitor (`node/task.go:102`, `:104`) and during its `Close`; never another's.

*Hy2_proofs.*  For any nodes, users and connections; the only assumption is that
`Nil` is none of the values it stands beside.  `TypeCorrect` also says
(`Attached`) that no goroutine is at work without its connection.
`AccessIsListedHolds` from `AccessInv`, which says the same at each stage of a
changed list, while the monitor has changed the accounts and not yet the limiter.
`PanicHasCauseHolds` from `LimiterInv`: at which of its stages a controller has a
limiter (`Limited`), and that a connection is open only at a node whose server
runs (`Served`).  `FlagIsOwnAnswerHolds` from `FlagInv`: the handler of a
connection's latest check is to write what that check said (`HandlersInv`); once
it has returned, the user's flag is that answer unless somebody else has written
since, and a node without a limiter leaves no connection an answer (`AnswersInv`,
`Unlimited`).  The cases to watch are a handler that looked its limiter up before
a reload replaced it, which writes into the old record, and two handlers of one
connection that write in the other order than they checked: the later write ends
what the property says of the earlier check.

*Files_proofs, Cert.*  For any number of nodes, days, crashes, reloads and
certificates; the assumption is that `Nil` and `Torn` are no content of a file.
`TypeCorrect`; `PairMatchesHolds` and `LoadsItsPairHolds` from `FilesInv`.  Its
parts: `OwnInv`, only a node's own goroutine requests and loads, and it loads a
pair that exists; `PairInv`, unless the pair is spoiled there is at most one
writer, which has put the certificate it was given, or there is none and the pair
fits; `ReadInv`, what a node has read is what is there, until somebody writes.
The proof has one case for each step between the two files (`TruncateCert` to
`PutKey`), and one lemma for the ends of the process, which find any of these half
done.  `AccountLoadsHolds` with the same invariant: a node that is refused does
not touch the account, and one that registers when another has empties the file for
as long as it saves.
`ExpiryIsRefusedHolds` from `RenewInv`, which counts the days on which a node's
task found the certificate running out against the renewals that failed, today's
run included once it is over, and `FreshInv`: what is being written is of today.
It assumes `Margin < Life` (the code renews 30 days ahead certificates of 90): with
`Margin = Life` a certificate is due on the day it is written, before the
renewal that fails on it can be counted.

*Selector_proofs.*  For any configurations, nodes, files and edits, where an edit
keeps the type of the node, which is that of the configuration file.
`TypeCorrect`, with `CoresInv`: cores that were made are of types there are.  All
four properties of the run are proved, in two layers.  The first is about the
functions of Inbound and HyConfig: `FirstHitIs`, that without a check that hits
there is an inbound and that otherwise a check that hits gives the result; from
it `XrayResult`, `SingResult`, `HyAddNodeResult` and `ResultIs` say why a core
refuses a node or crashes over it, whatever the order of its checks, and
`DecodeIs` and `OptionsForIs` what the options of a node become.  The second is
about the steps:

| Theorem | From |
|---|---|
| `RoutedToHolderHolds` | `HoldInv`: also before the first AddNode and after each DelNode no core has the node, and its port is free |
| `StaysWithItsTypeHolds` | `StayInv`: once served, the name or the Core of the options leads to one type of core, or the options are used up and no AddNode goes through; it needs `OptionInv`, that what was decoded is what the file or the selector said |
| `OnlyBadInputEndsHolds` | `OptionsFit`, that xray and sing find the options made for them, and `BackAgain`, that a node that was served has a core to come back to |
| `SameWhicheverCoreHolds` | the lemmas `XraySing...Alike` and `SingHy...Alike`: within `Shared`, two cores that support the type refuse the same and build the same of the rest |

The lemmas show which conditions the properties need: `BackAgain` fails over a
Core that is written but unknown, and `OptionsFit` over a name that leads to a
core of another type than the Core says.

*Files_proofs, Json5.*  For files of any length and content.  The reference
definition is a recursive function of the file.  `PartsUnfold`, that it computes
what it says, is proved by induction over the length: `Least`, that a set of
naturals has a least element, comes from the library's theorem about minima of
well-founded relations, and a prefix without such a function cannot be a shortest
one (`TraceExists`).  `PrepTypeCorrect`: the indices stay within two bytes of the
buffer's end.  `CleansExactlyHolds` from `PrepInv`, for a file that is not
`Tangled`:

| Part | What it says |
|---|---|
| `PlaceInv` | the loop prep is in is the one for what the next byte is part of |
| `CommaInv` | between a comma that waits and the front there is only what may be skipped |
| `BufferInv` | up to the front the buffer is the cleaned file, but for a comma that waits, and after it the input |

The front (`Front`) is not the index: the second byte of a comment's opening and
of its end are blanked before they are stepped over.  There is one lemma for
each loop and one for the opening of a comment, and in two places the proof has
to exclude a tangle: a star in a block comment that does not end it, and a slash
after a comma that opens no comment, the two of section 5.
`PrepGetsOn` is what can be proved of `Terminates`: each iteration, tangled or
not, lowers `Remaining`, a natural number, so that prep makes no more than
`4 * (n + 2) + 2` of them; that it makes them is its fairness.

*Only model-checked:* liveness under fairness (`UsersConverge`, `ConfigConverges`,
`AllStop`, `GetsBilled`, `Terminates`), which is beyond this prover.  All
invariants and action properties of the passing runs are proved.  The other way
round, the type invariants of NodeSync, Limiter, TaskRunner, Traffic, Hy2, Cert and
Selector and the inductive invariants of all modules are proved and need no run.
Traffic with several nodes and users is covered by the proofs only: the runs have
one.

## 5. Where the code departs from what it says

Listed as a finding, with its run: a server ended by two monitors
(`sync_two_runners`).  Seen while modelling, and allowed by the properties above:

*Controller, limiter, traffic, reload*

* a new configuration is dropped when the user request of the same round fails,
  and later rounds see no change (`node/task.go:63`); `ConfigConverges` assumes
  that no user request fails;
* an edit of the configuration within ten seconds of the one before is ignored for
  good, against README.md:21 (`conf/watch.go:27`);
* while a node is reloaded, a connection to it may leave by the default outbound
  and not by the node's own, against SOURCE_BOUND_EGRESS.md:8;
* `Controller.Close` deletes the limiter before the node
  (`node/controller.go:101`); a hysteria2 request in between ends the process;
* one failed configuration request makes the next good answer look new, and the
  unchanged node is reloaded (`api/panel/node.go:169` stores the hash first);
* an IP that another user of the node has recorded is not counted against the
  device limit (`limiter/limiter.go:163`);
* a rejected first device removes the user's whole map, with devices admitted
  meanwhile (`limiter/limiter.go:181`); a call that looked a user up before an
  update stores a bucket of the old rate after it (`limiter/limiter.go:194`);
* bytes added between Load and Store(0) of a report are never billed
  (`core/xray/user.go:73`), nor those that sing's `Read` and `Write` overwrite
  (`common/counter/conn.go:37`), nor those of a report the panel refused;
* a report whose answer is lost is sent again by the client's retries and billed
  again (`RepeatsBounded` says how often);
* the report task restarted by the monitor (`node/task.go:160`) may be left with
  two goroutines: one that is under way adopts the new `t.stop`
  (`common/task/task.go:40`).  Both may load a counter before either resets it,
  and the panel then bills the same bytes twice; the ledger is kept by each
  goroutine, not by the two together;
* tasks of a node run without its limiter between `node/task.go:102` and `:104` of
  a reload and between `node/controller.go:102` and `:104` of a close;
* in sing, a user deleted from one node loses the uid, and with it the counters'
  reports, at all nodes (`core/sing/user.go:210`), which is why
  `KeptWhileServedHolds` asks for `OwnUids`;
* the filter of `node/user.go:28` leaves out users with little traffic in the
  report, but not those without any;
* `node/task.go:162` gives the report task the pull interval;
* after a reload that failed, or read a broken file, the next one may meet a nil
  core, a nil controller or a node the core does not have, and end the process
  (`faulty` in `CrashHasCause`); a panel that is slow to answer lets two reloads
  overlap, with the same end, or with a start that goes on through the shorter
  slice of the other (fault `"slow"`);
* users the panel drops in the same round as it changes the node are not cut: the
  reload adds the new list and deletes nobody (`node/task.go:82`);
* a link the proxy interrupts stays in its manager until the user is deleted
  (`ManagedWriter` passes on `Close` alone);
* `CloseAll` iterates a map that `AddLink` writes to
  (`core/xray/app/dispatcher/linkmanager.go:41`).

*Cores and configuration*

* with several cores and no `Core` in a node's options, the last supporting core
  of a map in random order serves it (`core/selector.go:78`);
* an explicit empty or unknown `Core` leaves the options of the core nil: the
  next step crashes, or a reload finds `RawOptions` used up and panics;
* a core type in another case (`"Xray"`) passes the selector, but its
  configuration is nil;
* `XRAY_DNS_PATH` is the whole process's: the last xray core decides for all; a
  DNS file that cannot be read is only logged; a DNS route "main" without a
  DnsConfigPath, or with a file that is missing (`core/xray/dns.go:60`), refuses the
  node, and the error of saving `servers` goes to a
  shadowed variable (`core/xray/dns.go`);
* absent NetworkSettings of a vmess or vless node crash xray
  (`core/xray/inbound.go:212`), an http header without a path crashes sing
  (`core/sing/node.go:149`);
* fallbacks of a vless node drop its encryption, and sing ignores it; an unknown
  network of a trojan node is tcp in sing and an error in xray;
* obfuscation of hysteria2 with a type and no password takes the type as the
  password in sing, and is an error in hysteria2; the type `plain`, or `Salamander`
  in another case, is taken by hysteria2 (`core/hy2/config.go:140`) and not so by
  sing (`core/sing/node.go:377`);
* REALITY over ws or httpupgrade is refused by xray-core's Build
  (`core/xray/inbound.go:151`) and built by sing, so which core the random order
  picks decides whether the node starts;
* the initial stream window of a hysteria2 file is validated and never set
  (`core/hy2/config.go:89` assigns the connection's);
* a reload starts a node's masquerade server a second time, on addresses that
  the first still has, which is Fatal (`core/hy2/config.go:377`);
* two handlers of one hysteria2 connection (hysteria runs `TCPRequest` in a goroutine
  per stream and `UDPRequest` beside) may write their answers to `OverLimit` in the
  other order than they checked (`core/hy2/hook.go:43`), as those of two connections
  of the user may; `FlagIsOwnAnswer` speaks of an answer until the next write;
* users deleted from a hysteria2 node are not cut, and those a reload or a close
  drops keep their account; a user deleted from one node is shut out of all
  (`core/hy2/user.go:20`).

*Certificates and json5*

* `CheckCert` returns `false` with its error, and the caller looks at the boolean
  first (`node/lego.go:114`): a certificate that cannot be parsed is never
  renewed;
* certificate and key are written in place, one after the other; a process that
  ends in between leaves a pair no later start repairs, since both files exist
  (`spoiled`), and so may two nodes that write at once;
* a node that starts or reloads while another's task writes the pair may read a
  half of each (`raced` in `LoadsItsPair`): sing and hysteria2 then end the
  process, xray logs it and starts the node without the certificate;
* the account file is emptied and then written (`node/lego.go:248`); one cut
  short, or written over another node's longer one, does not decode, no
  certificate is had with it, and it is never made anew;
* a node that becomes TLS by a reload gets no renewal task: `node/task.go:29` runs
  from `Start` only, so `ExpiryIsRefused` speaks of nodes with a task;
* a path that contains `{domain}` is filled in when a certificate is written, not
  when `requestCert` looks for it;
* a self-signed pair is written over files that are not emptied
  (`node/cert.go:74`);
* in a block comment a star takes the next byte along: `/***/` does not end, and
  what follows is blanked; after a comma the index that `consumeComment` returns
  is stepped over (`common/json5/json5.go:28`, `:83`).

## 6. Not modelled

The dynamic speed limit (`SpeedChecker`): its task is created and never started.
Rules for domains and protocols: a list of regular expressions.  The passing of
time in a rate bucket, and the proxies themselves.  Fields of an inbound that are
copied as they are; the decoding of single fields with their defaults.  The modes
`file` and `none` of a certificate, which only look at the paths.  The geoip
loader of hysteria2 and the DNS file: I/O.  The monitor that goes on while its
controller is closed is in Reload, and left out of Hy2 and Selector.  The number
of handlers a hysteria2 connection has at once is bounded in the run, not in the
proofs.  Nodes with a configured Name in Reload.  Errors of the disk in Cert, and
the cores' own reading of the renewed files (hysteria2 reads them anew for each
handshake, `core/hy2/config.go:74`).  Commands, scripts, encryption helpers, clock
setting: one-shot calls of the operating system.  Data races on the plain map
`AliveList` (`limiter/limiter.go:157` against `:96`), where the Go runtime stops
the process in the middle of an operation; that of the link managers is in
Dispatch.

## 7. Plan

1. `NodeSync`, `Limiter`, `TaskRunner`, `Ledger` and `Traffic`, `Hy2`, `Cert`,
   `Dispatch`, `Reload`, `Json5`, and `Selector` with `Inbound` and `HyConfig`:
   modelled, checked and proved.
