------------------------------- MODULE Traffic -------------------------------
(***************************************************************************)
(* From the bytes of a connection to the panel's bill.                     *)
(*                                                                         *)
(* A core keeps one TrafficCounter per node tag, a map from users to       *)
(* TrafficStorages (common/counter).  Connections find or make their       *)
(* user's storage and add to it.  Every push interval a node's report task *)
(* takes what the storages hold (GetUserTrafficSlice), resets them and     *)
(* posts the result to the panel, then reports the devices seen online     *)
(* (node/user.go; which those are is Limiter's).  The panel's user list    *)
(* removes and adds users meanwhile (AddUsers, DelUsers of the core), and  *)
(* a changed configuration renews the node and may restart the report      *)
(* task: a goroutine of it that is under way goes on beside the new one    *)
(* (common/task/task.go:40).                                               *)
(*                                                                         *)
(* The cores differ; variable core, set once, selects one of               *)
(*   xray: uids keyed by tag and user, DelUsers closes the user's links;   *)
(*   sing: uids keyed by user for all nodes, connections may overwrite;    *)
(*   hy2:  uids keyed by user, the storage is looked up for each record.   *)
(*                                                                         *)
(* Up and down counters of a storage are one number here: each is read and *)
(* reset in the same call, and nothing tells them apart but the bill.      *)
(* moved, taken and billed are history variables: the bytes that went      *)
(* through connections bound to a storage, those a report goroutine has    *)
(* put into its reports, and those the panel booked from them.             *)
(***************************************************************************)
EXTENDS Integers, FiniteSets

CONSTANTS
    Cores,         \* of "xray", "sing", "hy2": those that may be configured
    Tags, Users,   \* nodes on this core; users, the same for every node
    Conns,         \* connections at a time
    Tables,        \* TrafficCounters that can be made
    Storages,      \* TrafficStorages that can be made
    Reporters,     \* goroutines of reportUserTrafficTask there can be
    ReportsFor,    \* the node each of them reports for
    Started,       \* those that startTasks makes
    MinTraffic,    \* ReportMinTraffic in bytes
    Retries,       \* how often the HTTP client repeats a failed post
    Faults,        \* "drop": a post is lost; "answer": its answer is
    MaxMoved,      \* bound on the bytes moved through a storage
    Churn,         \* of "users", "nodes": what the panel changes
    Nil

ASSUME TrafficAssumption ==
    /\ Cores \subseteq {"xray", "sing", "hy2"}
    /\ ReportsFor \in [Reporters -> Tags] /\ Started \subseteq Reporters
    /\ MinTraffic \in Nat /\ Retries \in Nat /\ MaxMoved \in Nat
    /\ Faults \subseteq {"drop", "answer"}
    /\ Churn \subseteq {"users", "nodes"}
    /\ Nil \notin Tables \cup Storages \cup Users \cup Tags \cup (Tags \X Users)

VARIABLES
    core,          \* the core that runs the nodes, does not change
    served,        \* users each node's inbound accepts
    uids,          \* keys with a uid in the core's map
    dropping,      \* hy2: users whose counter is gone and who are not yet
    renewing,      \* nodes between AddNode and AddUsers of a reload
    table,         \* TrafficCounter of each tag
    tagOf,         \* tag each TrafficCounter was made for
    entry,         \* its map: user to storage
    own,           \* tag and user each storage was made for
    val,           \* what the storage holds
    moved, taken, billed,
    stage, who, via, at, closing,       \* per connection
    told,          \* report goroutines that wait on a closed channel
    rp, rtab, left, cur, src, got, slice, tries   \* per report goroutine

users == <<core, served, uids, dropping, renewing>>
maps == <<table, tagOf, entry, own>>
books == <<moved, taken, billed>>
conns == <<stage, who, via, at, closing>>
locals == <<told, rtab, left, cur, src, got, slice, tries>>
vars == <<users, maps, val, books, conns, rp, locals>>

Accounts == Tags \X Users
Key(t, u) == IF core = "xray" THEN <<t, u>> ELSE u
Keys == Accounts \cup Users

ConnStages == {"none", "auth", "table", "newTable", "storage", "count"}
ReportStages == {"unborn", "idle", "scan", "reset", "attribute", "send", "online", "dead"}
Scanning(r) == rp[r] \in {"scan", "reset", "attribute"}

UserType ==
    /\ core \in Cores
    /\ served \in [Tags -> SUBSET Users]
    /\ uids \subseteq Keys
    /\ dropping \subseteq Accounts
    /\ renewing \subseteq Tags

MapType ==
    /\ table \in [Tags -> Tables \cup {Nil}]
    /\ tagOf \in [Tables -> Tags \cup {Nil}]
    /\ entry \in [Tables -> [Users -> Storages \cup {Nil}]]
    /\ own \in [Storages -> Accounts \cup {Nil}]

CountType ==
    /\ val \in [Storages -> Nat]
    /\ moved \in [Storages -> Nat]
    /\ taken \in [Reporters -> [Storages -> Nat]]
    /\ billed \in [Reporters -> [Storages -> Nat]]

\* Nothing is looked up through a nil pointer: of a connection ...
ConnType ==
    /\ stage \in [Conns -> ConnStages]
    /\ who \in [Conns -> Accounts \cup {Nil}]
    /\ via \in [Conns -> Tables \cup {Nil}]
    /\ at \in [Conns -> Storages \cup {Nil}]
    /\ closing \subseteq Conns
    /\ \A c \in Conns :
        /\ stage[c] # "none" => who[c] # Nil
        /\ stage[c] = "storage" => via[c] # Nil
        /\ stage[c] = "count" => at[c] # Nil

\* ... or of a report.
ReportType ==
    /\ told \subseteq Reporters
    /\ rp \in [Reporters -> ReportStages]
    /\ rtab \in [Reporters -> Tables \cup {Nil}]
    /\ left \in [Reporters -> SUBSET Users]
    /\ cur \in [Reporters -> Users \cup {Nil}]
    /\ src \in [Reporters -> Storages \cup {Nil}]
    /\ got \in [Reporters -> Nat]
    /\ slice \in [Reporters -> [Storages -> Nat]]
    /\ tries \in [Reporters -> 0 .. Retries]
    /\ \A r \in Reporters :
        /\ Scanning(r) /\ left[r] # {} => rtab[r] # Nil
        /\ rp[r] \in {"reset", "attribute"} => rtab[r] # Nil /\ cur[r] # Nil /\ src[r] # Nil

TypeOK == UserType /\ MapType /\ CountType /\ ConnType /\ ReportType

Init ==
    /\ core \in Cores
    /\ served = [t \in Tags |-> Users]
    /\ uids = {Key(t, u) : t \in Tags, u \in Users}
    /\ dropping = {} /\ renewing = {}
    /\ table = [t \in Tags |-> Nil]
    /\ tagOf = [m \in Tables |-> Nil]
    /\ entry = [m \in Tables |-> [u \in Users |-> Nil]]
    /\ own = [s \in Storages |-> Nil]
    /\ val = [s \in Storages |-> 0]
    /\ moved = [s \in Storages |-> 0]
    /\ taken = [r \in Reporters |-> [s \in Storages |-> 0]]
    /\ billed = [r \in Reporters |-> [s \in Storages |-> 0]]
    /\ stage = [c \in Conns |-> "none"]
    /\ who = [c \in Conns |-> Nil] /\ via = [c \in Conns |-> Nil] /\ at = [c \in Conns |-> Nil]
    /\ closing = {}
    /\ told = {}
    /\ rp = [r \in Reporters |-> IF r \in Started THEN "idle" ELSE "unborn"]
    /\ rtab = [r \in Reporters |-> Nil] /\ left = [r \in Reporters |-> {}]
    /\ cur = [r \in Reporters |-> Nil] /\ src = [r \in Reporters |-> Nil]
    /\ got = [r \in Reporters |-> 0]
    /\ slice = [r \in Reporters |-> [s \in Storages |-> 0]]
    /\ tries = [r \in Reporters |-> 0]

-----------------------------------------------------------------------------
(* AddUsers and DelUsers.  They hold the core's write lock, so no report is  *)
(* scanning; a report holds the read lock while it scans.                    *)

Unlocked == \A r \in Reporters : ~ Scanning(r)

WithoutEntry(t, u) ==
    IF table[t] = Nil THEN entry ELSE [entry EXCEPT ![table[t]][u] = Nil]

\* CloseAll closes the links getLink has registered with the link manager.
Linked(t, u) == {c \in Conns : who[c] = <<t, u>> /\ stage[c] \notin {"none", "auth"}}

AddUser(t, u) ==
    /\ "users" \in Churn /\ Unlocked /\ t \notin renewing
    /\ u \notin served[t]
    /\ served' = [served EXCEPT ![t] = @ \cup {u}]
    /\ uids' = uids \cup {Key(t, u)}
    /\ UNCHANGED <<core, dropping, renewing, maps, val, books, conns, rp, locals>>

\* hy2 deletes the counter before it takes the lock to delete the user.
DropCounter(t, u) ==
    /\ "users" \in Churn /\ core = "hy2" /\ t \notin renewing
    /\ u \in served[t] /\ <<t, u>> \notin dropping
    /\ entry' = WithoutEntry(t, u)
    /\ dropping' = dropping \cup {<<t, u>>}
    /\ UNCHANGED <<core, served, uids, renewing, table, tagOf, own, val, books, conns,
                   rp, locals>>

DelUser(t, u) ==
    /\ "users" \in Churn /\ Unlocked /\ t \notin renewing
    /\ u \in served[t]
    /\ core = "hy2" => <<t, u>> \in dropping
    /\ served' = [served EXCEPT ![t] = @ \ {u}]
    /\ uids' = uids \ {Key(t, u)}
    /\ dropping' = dropping \ {<<t, u>>}
    /\ entry' = IF core = "hy2" THEN entry ELSE WithoutEntry(t, u)
    /\ closing' = IF core = "xray" THEN closing \cup Linked(t, u) ELSE closing
    /\ UNCHANGED <<core, renewing, table, tagOf, own, val, books, stage, who, via, at,
                   rp, locals>>

-----------------------------------------------------------------------------
(* "Node changed, reload" of the monitor: DelNode and AddNode, AddUsers, and *)
(* perhaps the restart of the report task.                                   *)

\* hy2 closes the server, and the new one has a hook without counters; a
\* record under way goes to the old ones.  The other cores keep both.
NodesConns(t) == {c \in Conns : who[c] # Nil /\ who[c][1] = t}
UnderWay(c) == stage[c] \in {"storage", "count"}

CloseServer(t) ==
    /\ table' = [table EXCEPT ![t] = Nil]
    /\ closing' = closing \cup {c \in NodesConns(t) : UnderWay(c)}
    /\ LET ended == {c \in NodesConns(t) : ~ UnderWay(c)} IN
       /\ stage' = [c \in Conns |-> IF c \in ended THEN "none" ELSE stage[c]]
       /\ who' = [c \in Conns |-> IF c \in ended THEN Nil ELSE who[c]]
    /\ UNCHANGED served

RenewNode(t) ==
    /\ "nodes" \in Churn /\ t \notin renewing
    /\ \A u \in Users : <<t, u>> \notin dropping
    /\ renewing' = renewing \cup {t}
    /\ \/ core = "hy2" /\ CloseServer(t)
       \/ /\ core # "hy2"
          /\ served' = [served EXCEPT ![t] = {}]
          /\ UNCHANGED <<table, stage, who, closing>>
    /\ UNCHANGED <<core, uids, dropping, tagOf, entry, own, val, books, via, at,
                   rp, locals>>

\* Close and Start.  Goroutines at their select learn of it, those in Execute
\* and those that have yet to evaluate t.stop do not.
Restart(t) ==
    \E r \in Reporters :
        /\ ReportsFor[r] = t /\ rp[r] = "unborn"
        /\ rp' = [rp EXCEPT ![r] = "idle"]
        /\ \E waiting \in SUBSET {q \in Reporters : ReportsFor[q] = t /\ rp[q] = "idle"} :
            told' = told \cup waiting

FinishReload(t) ==
    /\ t \in renewing /\ Unlocked
    /\ renewing' = renewing \ {t}
    /\ \E list \in SUBSET Users :
        /\ served' = [served EXCEPT ![t] = @ \cup list]
        /\ uids' = uids \cup {Key(t, u) : u \in list}
    /\ Restart(t) \/ UNCHANGED <<rp, told>>
    /\ UNCHANGED <<core, dropping, maps, val, books, conns,
                   rtab, left, cur, src, got, slice, tries>>

-----------------------------------------------------------------------------
(* A connection: getLink of xray, RoutedConnection of sing, LogTraffic of    *)
(* hy2.                                                                      *)

Connect(c, t, u) ==
    /\ stage[c] = "none" /\ u \in served[t]
    /\ stage' = [stage EXCEPT ![c] = "auth"]
    /\ who' = [who EXCEPT ![c] = <<t, u>>]
    /\ UNCHANGED <<users, maps, val, books, via, at, closing, rp, locals>>

\* CheckLimit lets it in; its link is registered.
Admit(c) ==
    /\ stage[c] = "auth"
    /\ stage' = [stage EXCEPT ![c] = "table"]
    /\ UNCHANGED <<users, maps, val, books, who, via, at, closing, rp, locals>>

\* Load the tag's TrafficCounter, and Store a new one if there was none: two
\* connections may both find none.
LoadTable(c) ==
    /\ stage[c] = "table"
    /\ LET m == table[who[c][1]] IN
       /\ via' = [via EXCEPT ![c] = m]
       /\ stage' = [stage EXCEPT ![c] = IF m = Nil THEN "newTable" ELSE "storage"]
    /\ UNCHANGED <<users, maps, val, books, who, at, closing, rp, locals>>

StoreTable(c) ==
    /\ stage[c] = "newTable"
    /\ \E m \in Tables :
        /\ tagOf[m] = Nil
        /\ tagOf' = [tagOf EXCEPT ![m] = who[c][1]]
        /\ table' = [table EXCEPT ![who[c][1]] = m]
        /\ via' = [via EXCEPT ![c] = m]
    /\ stage' = [stage EXCEPT ![c] = "storage"]
    /\ UNCHANGED <<users, entry, own, val, books, who, at, closing, rp, locals>>

\* GetCounter: LoadOrStore lets one of two new storages win.
GetCounter(c) ==
    /\ stage[c] = "storage"
    /\ LET u == who[c][2]
           s == entry[via[c]][u]
       IN \/ /\ s # Nil
             /\ at' = [at EXCEPT ![c] = s]
             /\ UNCHANGED <<entry, own>>
          \/ /\ s = Nil
             /\ \E n \in Storages :
                 /\ own[n] = Nil
                 /\ own' = [own EXCEPT ![n] = who[c]]
                 /\ entry' = [entry EXCEPT ![via[c]][u] = n]
                 /\ at' = [at EXCEPT ![c] = n]
    /\ stage' = [stage EXCEPT ![c] = "count"]
    /\ UNCHANGED <<users, table, tagOf, val, books, who, via, closing, rp, locals>>


\* A byte goes through.  sing's ConnCounter adds it to the counter in
\* ReadBuffer and the count functions, and stores it in Read and Write.
Counted(v) == IF core = "sing" THEN {v + 1, 1} ELSE {v + 1}

\* A link that was closed counts what its pump holds, fails to write it and
\* ends; hy2 looks the counter up again for the next record.
AfterCount(c) ==
    IF c \in closing THEN "none" ELSE IF core = "hy2" THEN "table" ELSE "count"

GoesTo(c, s) ==
    /\ stage' = [stage EXCEPT ![c] = s]
    /\ who' = IF s = "none" THEN [who EXCEPT ![c] = Nil] ELSE who
    /\ via' = IF s = "count" THEN via ELSE [via EXCEPT ![c] = Nil]
    /\ at' = IF s = "count" THEN at ELSE [at EXCEPT ![c] = Nil]
    /\ closing' = closing \ {c}

Count(c) ==
    /\ stage[c] = "count"
    /\ moved[at[c]] < MaxMoved
    /\ \E v \in Counted(val[at[c]]) : val' = [val EXCEPT ![at[c]] = v]
    /\ moved' = [moved EXCEPT ![at[c]] = @ + 1]
    /\ GoesTo(c, AfterCount(c))
    /\ UNCHANGED <<users, maps, taken, billed, rp, locals>>

\* Read and Write of a ConnCounter that return no byte, at the end.
StoreNothing(c) ==
    /\ core = "sing" /\ stage[c] = "count"
    /\ val' = [val EXCEPT ![at[c]] = 0]
    /\ UNCHANGED <<users, maps, books, conns, rp, locals>>

HangUp(c) ==
    /\ stage[c] = IF core = "hy2" THEN "table" ELSE "count"
    /\ GoesTo(c, "none")
    /\ UNCHANGED <<users, maps, val, books, rp, locals>>

-----------------------------------------------------------------------------
(* reportUserTrafficTask: GetUserTrafficSlice with reset.                    *)

Goto(r, s) == rp' = [rp EXCEPT ![r] = s]

BeginReport(r) ==
    /\ rp[r] = "idle"
    /\ LET m == table[ReportsFor[r]] IN
       /\ rtab' = [rtab EXCEPT ![r] = m]
       /\ left' = [left EXCEPT ![r] = IF m = Nil THEN {} ELSE Users]
    /\ Goto(r, "scan")
    /\ told' = told \ {r}
    /\ UNCHANGED <<users, maps, val, books, conns, cur, src, got, slice, tries>>

\* The select of a goroutine takes the closed channel.
StopReceived(r) ==
    /\ rp[r] = "idle" /\ r \in told
    /\ Goto(r, "dead")
    /\ told' = told \ {r}
    /\ UNCHANGED <<users, maps, val, books, conns, rtab, left, cur, src, got, slice, tries>>

\* Range comes to a key once, and may miss one stored while it runs.
Skip(r, u) ==
    /\ rp[r] = "scan" /\ u \in left[r]
    /\ entry[rtab[r]][u] = Nil
    /\ left' = [left EXCEPT ![r] = @ \ {u}]
    /\ UNCHANGED <<users, maps, val, books, conns, rp, told, rtab, cur, src,
                   got, slice, tries>>

\* Faulty variant of Enough, for a mutant.
EnoughNever(v) == FALSE

Enough(v) == v > MinTraffic

Visit(r, u) ==
    /\ rp[r] = "scan" /\ u \in left[r]
    /\ LET s == entry[rtab[r]][u] IN
       /\ s # Nil
       /\ \/ /\ Enough(val[s])
             /\ cur' = [cur EXCEPT ![r] = u]
             /\ src' = [src EXCEPT ![r] = s]
             /\ got' = [got EXCEPT ![r] = val[s]]
             /\ Goto(r, "reset")
          \/ ~ Enough(val[s]) /\ UNCHANGED <<cur, src, got, rp>>
    /\ left' = [left EXCEPT ![r] = @ \ {u}]
    /\ UNCHANGED <<users, maps, val, books, conns, told, rtab, slice, tries>>

\* Faulty variant of Reset, for a mutant.
ResetNothing(r) ==
    /\ rp[r] = "reset"
    /\ Goto(r, "attribute")
    /\ UNCHANGED <<users, maps, val, books, conns, locals>>

\* Store(0), whatever has been added since the Load.
Reset(r) ==
    /\ rp[r] = "reset"
    /\ val' = [val EXCEPT ![src[r]] = 0]
    /\ Goto(r, "attribute")
    /\ UNCHANGED <<users, maps, books, conns, locals>>

\* Faulty variant of KnownTo, for a mutant.
KnownSwapped(t, u) == Key(t, u) \notin uids

\* A key without a uid is deleted from the map, its bytes are forgotten.
KnownTo(t, u) == Key(t, u) \in uids

Attribute(r) ==
    /\ rp[r] = "attribute"
    /\ \/ /\ KnownTo(ReportsFor[r], cur[r])
          /\ slice' = [slice EXCEPT ![r][src[r]] = got[r]]
          /\ taken' = [taken EXCEPT ![r][src[r]] = @ + got[r]]
          /\ UNCHANGED entry
       \/ /\ ~ KnownTo(ReportsFor[r], cur[r])
          /\ entry' = [entry EXCEPT ![rtab[r]][cur[r]] = Nil]
          /\ UNCHANGED <<slice, taken>>
    /\ cur' = [cur EXCEPT ![r] = Nil]
    /\ src' = [src EXCEPT ![r] = Nil]
    /\ got' = [got EXCEPT ![r] = 0]
    /\ Goto(r, "scan")
    /\ UNCHANGED <<users, table, tagOf, own, val, moved, billed, conns,
                   told, rtab, left, tries>>

InSlice(r) == {s \in Storages : slice[r][s] # 0}

EndScan(r) ==
    /\ rp[r] = "scan" /\ left[r] = {}
    /\ Goto(r, IF InSlice(r) = {} THEN "online" ELSE "send")
    /\ UNCHANGED <<users, maps, val, books, conns, locals>>

(* ReportUserTraffic: a post, and the HTTP client's retries.                 *)

Booked(r) == [billed EXCEPT ![r] = [s \in Storages |-> billed[r][s] + slice[r][s]]]

SendOk(r) ==
    /\ rp[r] = "send"
    /\ billed' = Booked(r)
    /\ Goto(r, "online")
    /\ UNCHANGED <<users, maps, val, moved, taken, conns, locals>>

\* Faulty variant of AfterFailure, for a mutant.
AfterFailureOnce(r) ==
    IF tries[r] <= Retries
    THEN /\ tries' = [tries EXCEPT ![r] = @ + 1]
         /\ UNCHANGED rp
    ELSE /\ Goto(r, "online")
         /\ UNCHANGED tries

\* The post fails for this side: it is tried again, and in the end given up
\* with a line in the log.
AfterFailure(r) ==
    IF tries[r] < Retries
    THEN /\ tries' = [tries EXCEPT ![r] = @ + 1]
         /\ UNCHANGED rp
    ELSE /\ Goto(r, "online")
         /\ UNCHANGED tries

SendDropped(r) ==
    /\ "drop" \in Faults
    /\ rp[r] = "send"
    /\ AfterFailure(r)
    /\ UNCHANGED <<users, maps, val, books, conns, told, rtab, left, cur, src, got,
                   slice>>

\* An error status is an answer: no retry.
SendRefused(r) ==
    /\ "drop" \in Faults
    /\ rp[r] = "send"
    /\ Goto(r, "online")
    /\ UNCHANGED <<users, maps, val, books, conns, locals>>

AnswerLost(r) ==
    /\ "answer" \in Faults
    /\ rp[r] = "send"
    /\ billed' = Booked(r)
    /\ AfterFailure(r)
    /\ UNCHANGED <<users, maps, val, moved, taken, conns, told, rtab, left, cur, src,
                   got, slice>>

(* GetOnlineDevice and ReportNodeOnlineUsers, which Limiter shows: of what is *)
(* here only the locals change, the task's function returns.                 *)

ReportOnline(r) ==
    /\ rp[r] = "online"
    /\ slice' = [slice EXCEPT ![r] = [s \in Storages |-> 0]]
    /\ tries' = [tries EXCEPT ![r] = 0]
    /\ rtab' = [rtab EXCEPT ![r] = Nil]
    /\ Goto(r, "idle")
    /\ UNCHANGED <<users, maps, val, books, conns, told, left, cur, src, got>>

-----------------------------------------------------------------------------
ConnStep(c) ==
    \/ \E t \in Tags, u \in Users : Connect(c, t, u)
    \/ Admit(c) \/ LoadTable(c) \/ StoreTable(c) \/ GetCounter(c)
    \/ Count(c) \/ StoreNothing(c) \/ HangUp(c)

ReportStep(r) ==
    \/ BeginReport(r) \/ StopReceived(r) \/ Reset(r) \/ Attribute(r) \/ EndScan(r)
    \/ \E u \in Users : Skip(r, u) \/ Visit(r, u)
    \/ SendOk(r) \/ SendDropped(r) \/ SendRefused(r) \/ AnswerLost(r)
    \/ ReportOnline(r)

UserStep(t, u) == AddUser(t, u) \/ DropCounter(t, u) \/ DelUser(t, u)

Reload(t) == RenewNode(t) \/ FinishReload(t)

Next ==
    \/ \E c \in Conns : ConnStep(c)
    \/ \E r \in Reporters : ReportStep(r)
    \/ \E t \in Tags, u \in Users : UserStep(t, u)
    \/ \E t \in Tags : Reload(t)

Spec == Init /\ [][Next]_vars

\* The report task's timer fires, and what it runs goes on.
Fairness == \A r \in Reporters : WF_vars(ReportStep(r))

FairSpec == Spec /\ Fairness

-----------------------------------------------------------------------------
(* Properties.                                                               *)

\* A map, and a storage, is only ever found under the node it was made for.
MapPlaced ==
    /\ \A t \in Tags : table[t] # Nil => tagOf[table[t]] = t
    /\ \A m \in Tables, u \in Users : entry[m][u] # Nil =>
        tagOf[m] # Nil /\ own[entry[m][u]] = <<tagOf[m], u>>

ConnPlaced == \A c \in Conns : stage[c] = "storage" => tagOf[via[c]] = who[c][1]

ReportPlaced ==
    \A r \in Reporters : Scanning(r) /\ rtab[r] # Nil => tagOf[rtab[r]] = ReportsFor[r]

\* How often a report may be booked: once, unless answers are lost, then once
\* for each attempt; and how often the one in hand may yet be.
Attempts == IF "answer" \in Faults THEN Retries + 1 ELSE 1
InHand(r) == [s \in Storages |-> IF rp[r] = "online" THEN 0 ELSE slice[r][s]]
AttemptsLeft(r) ==
    IF rp[r] = "online" \/ "answer" \notin Faults THEN Attempts ELSE Attempts - tries[r]

\* Traffic accounting implements the ledger, storage by storage: a byte gets
\* into one report of each report goroutine at most, though storages are read
\* and reset while connections add to them and other goroutines reset them,
\* entries are dropped and made anew, nodes are renewed and the task restarted.
TheLedger == INSTANCE Ledger WITH
    Accounts <- Storages,
    report <- [r \in Reporters |-> InHand(r)],
    left <- [r \in Reporters |-> AttemptsLeft(r)]
ImplementsLedger == TheLedger!Spec

\* The inductive invariant of its proof: what one goroutine has taken, or is
\* about to, and what the storage holds are different bytes, from its Store(0)
\* on; between Load and Store(0) they may be the same.
TakenInv ==
    \A r \in Reporters :
        /\ \A s \in Storages : taken[r][s] + val[s] <= moved[s]
        /\ rp[r] = "reset" => taken[r][src[r]] + got[r] <= moved[src[r]]
        /\ rp[r] = "attribute" => taken[r][src[r]] + got[r] + val[src[r]] <= moved[src[r]]

Untried == \A r \in Reporters : rp[r] \notin {"send", "online"} => tries[r] = 0

\* A scan comes to a user once, so to a storage once.
SliceInv ==
    \A r \in Reporters :
        /\ ~ Scanning(r) /\ rp[r] \notin {"send", "online"} =>
             \A s \in Storages : slice[r][s] = 0
        /\ Scanning(r) => \A s \in Storages : slice[r][s] # 0 =>
             own[s] # Nil /\ own[s][2] \notin left[r]
        /\ rp[r] \in {"reset", "attribute"} =>
             own[src[r]] # Nil /\ own[src[r]][2] \notin left[r] /\ slice[r][src[r]] = 0

BookedInv ==
    \A r \in Reporters, s \in Storages :
        billed[r][s] + AttemptsLeft(r) * InHand(r)[s] <= Attempts * taken[r][s]

\* Lost answers make the client post a report again, and a restarted task may
\* have several goroutines, but of each one no byte is booked more often than
\* it tries to post it: with one goroutine and no lost answer, at most once.
RepeatsBounded == \A r \in Reporters, s \in Storages : billed[r][s] <= Attempts * moved[s]

\* A counter is taken out of a node's map only when the user is no longer one
\* of that node's, or is being deleted: otherwise what he moves is not billed.
KeptWhileServed ==
    [][\A t \in Tags, u \in Users :
        /\ table[t] # Nil /\ table'[t] = table[t]
        /\ entry[table[t]][u] # Nil /\ entry'[table[t]][u] = Nil
        => u \notin served'[t] \/ <<t, u>> \in dropping']_vars

\* With one uid for a user on all nodes of a core, deleting him from one node
\* takes it from the others, so a core of several nodes keeps this only when its
\* uids are keyed by node.  Then a node's users have uids.
OwnUids == Cores \subseteq {"xray"} \/ \A t, q \in Tags : t = q
Known == \A t \in Tags, u \in Users : u \in served[t] => Key(t, u) \in uids

\* What a storage holds beyond the minimum gets into a report that is booked,
\* again and again while there is something, unless the storage is dropped from
\* the map first: a full slice is posted, and of the goroutines a restart leaves
\* one goes on scanning and finds every entry that stays.
Attached(s) == own[s] # Nil /\ table[own[s][1]] # Nil
               /\ entry[table[own[s][1]]][own[s][2]] = s

WasBooked(r, s) == rp[r] = "online" /\ 0 < slice[r][s] /\ slice[r][s] <= billed[r][s]

GetsBilled ==
    \A s \in Storages :
        Attached(s) /\ val[s] > MinTraffic
            ~> (\E r \in Reporters : WasBooked(r, s)) \/ ~ Attached(s)
=============================================================================
