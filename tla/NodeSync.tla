------------------------------ MODULE NodeSync ------------------------------
(***************************************************************************)
(* One node controller keeping a proxy core in step with the panel.        *)
(*                                                                         *)
(* The panel holds a node configuration and a user table.  Every pull      *)
(* interval the controller asks for both (api/panel: conditional requests, *)
(* cached hash and ETags) and applies what changed to the proxy core and   *)
(* to the limiter (node/task.go, nodeInfoMonitor).  Controller.Start does  *)
(* the same once, with other error paths, before the periodic task exists. *)
(*                                                                         *)
(* A round of nodeInfoMonitor is run by a goroutine of a common/task Task: *)
(* a "runner".  There is one until a round changes the pull interval,      *)
(* which starts another while the first goes on (module TaskRunner).       *)
(*                                                                         *)
(* Configurations are opaque values; a user table gives each user a plan,  *)
(* [speed, device], or Nil when the panel does not list the user.          *)
(***************************************************************************)
EXTENDS Integers, FiniteSets

CONSTANTS
    Users,          \* user UUIDs the panel may list
    Plans,          \* plans, records [speed : , device : ]
    Configs,        \* node configurations the panel may publish
    TlsConfigs,     \* those of them that need a certificate
    PullInterval,   \* the pull interval each of them asks for
    FailBodies,     \* bodies of failed answers to the configuration request
    Runners,        \* goroutines that can run nodeInfoMonitor: 1 .. bound
    Named,          \* TRUE when the node has a Name option of its own
    Faults,         \* what may fail: see FaultKinds
    Nil, Fail       \* a nil pointer, map or list; an error answer

FaultKinds == {"node", "users", "cert", "addnode", "core"}

Tables == [Users -> Plans \cup {Nil}]
Listed(t) == {u \in Users : t[u] # Nil}
Empty == [u \in Users |-> Nil]

ASSUME NodeSyncAssumption ==
    /\ Plans \subseteq [speed : Nat, device : Nat]
    /\ TlsConfigs \subseteq Configs
    /\ PullInterval \in [Configs -> Nat \ {0}]
    /\ Runners \subseteq Nat /\ 1 \in Runners
    /\ Named \in BOOLEAN
    /\ Faults \subseteq FaultKinds
    /\ Configs \cap FailBodies = {}
    /\ Nil \notin Configs \cup FailBodies \cup Plans \cup Tables
    /\ Fail \notin Configs \cup FailBodies \cup Tables
    /\ Nil # Fail

VARIABLES
    panelCfg, panelUsers,             \* what the panel holds now
    bodyHash, nodeEtag, userEtag,     \* api/panel Client: caches
    info, userList, interval,         \* Controller.info, .userList, pull interval
    node, coreUsers,                  \* the core: served config, its users
    lim, rules,                       \* the limiter: known users, rule set
    mode,                             \* boot, up, exited, panicked
    pc, answer, newN, newU, del, add  \* per runner: locals of nodeInfoMonitor

panel == <<panelCfg, panelUsers>>
client == <<bodyHash, nodeEtag, userEtag>>
control == <<info, userList, interval>>
core == <<node, coreUsers>>
limit == <<lim, rules>>
locals == <<answer, newN, newU, del, add>>
vars == <<panel, client, control, core, limit, mode, pc, locals>>

Stages == {"off", "idle", "node", "askUsers", "users", "reload", "drop",
           "relimit", "cert", "addNode", "addAll", "interval",
           "check", "del", "add", "commit"}

ReloadStages == {"reload", "drop", "relimit", "cert", "addNode", "addAll", "interval"}

TypeOK ==
    /\ panelCfg \in Configs /\ panelUsers \in Tables
    /\ bodyHash \in Configs \cup FailBodies \cup {Nil}
    /\ nodeEtag \in Configs \cup {Nil}
    /\ userEtag \in Tables \cup {Nil}
    /\ info \in Configs \cup {Nil} /\ userList \in Tables /\ interval \in Nat
    /\ node \in Configs \cup {Nil} /\ coreUsers \subseteq Users
    /\ lim \in Tables /\ rules \in Configs \cup {Nil}
    /\ mode \in {"boot", "up", "exited", "panicked"}
    /\ pc \in [Runners -> Stages]
    /\ answer \in [Runners -> Configs \cup FailBodies \cup Tables \cup {Nil, Fail}]
    /\ \A r \in Runners :
        /\ pc[r] = "node" => answer[r] \in Configs \cup FailBodies \cup {Nil}
        /\ pc[r] = "users" => answer[r] \in Tables \cup {Nil, Fail}
        /\ pc[r] \in ReloadStages => newN[r] # Nil
        /\ pc[r] \in {"del", "add", "commit"} => newU[r] # Nil
    /\ newN \in [Runners -> Configs \cup {Nil}]
    /\ newU \in [Runners -> Tables \cup {Nil}]
    /\ del \in [Runners -> SUBSET Users]
    /\ add \in [Runners -> SUBSET Users]

Init ==
    /\ panelCfg \in Configs /\ panelUsers \in Tables
    /\ bodyHash = Nil /\ nodeEtag = Nil /\ userEtag = Nil
    /\ info = Nil /\ userList = Empty /\ interval = 0
    /\ node = Nil /\ coreUsers = {}
    /\ lim = Empty /\ rules = Nil
    /\ mode = "boot"
    /\ pc = [r \in Runners |-> IF r = 1 THEN "idle" ELSE "off"]
    /\ answer = [r \in Runners |-> Nil]
    /\ newN = [r \in Runners |-> Nil] /\ newU = [r \in Runners |-> Nil]
    /\ del = [r \in Runners |-> {}] /\ add = [r \in Runners |-> {}]

-----------------------------------------------------------------------------
(* The panel: an administrator edits the node or its users.                 *)

PanelEdit ==
    /\ \/ panelCfg' \in Configs /\ UNCHANGED panelUsers
       \/ panelUsers' \in Tables /\ UNCHANGED panelCfg
    /\ UNCHANGED <<client, control, core, limit, mode, pc, locals>>

-----------------------------------------------------------------------------
(* Leaving a round.  nodeInfoMonitor returns nil from every path, so the     *)
(* runner goes back to wait; Start returns its error and the server exits.   *)
(* A finished round forgets its locals.                                      *)

Running(r, stage) == mode \in {"boot", "up"} /\ pc[r] = stage

Goto(r, stage) == pc' = [pc EXCEPT ![r] = stage]

ForgetLocals(r) ==
    /\ answer' = [answer EXCEPT ![r] = Nil]
    /\ newN' = [newN EXCEPT ![r] = Nil]
    /\ newU' = [newU EXCEPT ![r] = Nil]
    /\ del' = [del EXCEPT ![r] = {}]
    /\ add' = [add EXCEPT ![r] = {}]

Leave(r) == Goto(r, "idle") /\ ForgetLocals(r)

GiveUp(r) ==
    /\ Leave(r)
    /\ mode' = IF mode = "boot" THEN "exited" ELSE mode

\* log.Panic ends the process; during Start the error is returned instead.
PanicStop(r) ==
    /\ Leave(r)
    /\ mode' = IF mode = "boot" THEN "exited" ELSE "panicked"

-----------------------------------------------------------------------------
(* api/panel: the configuration request, GetNodeInfo.  The answer is fixed  *)
(* when the panel replies, and weighed against the caches when it arrives.   *)

AskNodeOk(r) ==
    /\ Running(r, "idle")
    /\ answer' = [answer EXCEPT ![r] = IF nodeEtag = panelCfg THEN Nil ELSE panelCfg]
    /\ Goto(r, "node")
    /\ UNCHANGED <<panel, client, control, core, limit, mode, newN, newU, del, add>>

AskNodeFails(r) ==
    /\ "node" \in Faults
    /\ Running(r, "idle")
    /\ \E b \in FailBodies : answer' = [answer EXCEPT ![r] = b]
    /\ Goto(r, "node")
    /\ UNCHANGED <<panel, client, control, core, limit, mode, newN, newU, del, add>>


\* Only the panel's answer carries an ETag; an error page has none.
EtagOf(a) == IF a \in Configs THEN a ELSE Nil

\* 304, or the same body as last time: nil, nil.  Otherwise the hash and the
\* ETag are stored before the answer is found to be an error.
TakeNode(r) ==
    /\ Running(r, "node")
    /\ LET a == answer[r] IN
       \/ /\ a \in {Nil, bodyHash}
          /\ Goto(r, "askUsers")
          /\ UNCHANGED <<client, mode, locals>>
       \/ /\ a \notin {Nil, bodyHash}
          /\ bodyHash' = a
          /\ nodeEtag' = EtagOf(a)
          /\ UNCHANGED userEtag
          /\ IF a \in Configs
             THEN /\ newN' = [newN EXCEPT ![r] = a]
                  /\ Goto(r, "askUsers")
                  /\ UNCHANGED <<mode, answer, newU, del, add>>
             ELSE GiveUp(r)
    /\ UNCHANGED <<panel, control, core, limit>>

(* api/panel: the user list request, GetUserList.                            *)

AskUsersOk(r) ==
    /\ Running(r, "askUsers")
    /\ answer' = [answer EXCEPT ![r] = IF userEtag = panelUsers THEN Nil ELSE panelUsers]
    /\ Goto(r, "users")
    /\ UNCHANGED <<panel, client, control, core, limit, mode, newN, newU, del, add>>

AskUsersFails(r) ==
    /\ "users" \in Faults
    /\ Running(r, "askUsers")
    /\ answer' = [answer EXCEPT ![r] = Fail]
    /\ Goto(r, "users")
    /\ UNCHANGED <<panel, client, control, core, limit, mode, newN, newU, del, add>>

\* An empty list decodes to nil from JSON and to an empty slice from msgpack.
Decoded(a) == IF a = Empty THEN {Empty, Nil} ELSE {a}

\* Faulty variant of Branch, for a mutant.
BranchNeedsUsers(n, l) == IF n # Nil /\ l # Nil THEN "reload" ELSE "check"

\* "if newN != nil" decides between the two halves of nodeInfoMonitor.
Branch(n, l) == IF n # Nil THEN "reload" ELSE "check"

TakeUsers(r) ==
    /\ Running(r, "users")
    /\ LET a == answer[r] IN
       \/ a = Fail /\ GiveUp(r) /\ UNCHANGED userEtag
       \/ /\ a # Fail
          /\ userEtag' = IF a = Nil THEN userEtag ELSE a
          /\ IF mode = "boot" /\ a \in {Nil, Empty}
             THEN GiveUp(r)        \* "not have any user"
             ELSE /\ \E l \in Decoded(a) : /\ newU' = [newU EXCEPT ![r] = l]
                                            /\ Goto(r, Branch(newN[r], l))
                  /\ UNCHANGED <<mode, answer, newN, del, add>>
    /\ UNCHANGED <<panel, bodyHash, nodeEtag, control, core, limit>>

-----------------------------------------------------------------------------
(* Start, and the "Node changed, reload" branch of nodeInfoMonitor.          *)

BeginReload(r) ==
    /\ Running(r, "reload")
    /\ info' = IF mode = "boot" THEN info ELSE newN[r]
    /\ userList' = IF newU[r] # Nil THEN newU[r] ELSE userList
    /\ Goto(r, IF mode = "boot" THEN "relimit" ELSE "drop")
    /\ UNCHANGED <<panel, client, interval, core, limit, mode, locals>>

\* server.DelNode; deleting a node that is not there is logged with Panic.
DropNode(r) ==
    /\ Running(r, "drop")
    /\ IF node = Nil
       THEN PanicStop(r) /\ UNCHANGED core
       ELSE /\ node' = Nil /\ coreUsers' = {}
            /\ Goto(r, "relimit")
            /\ UNCHANGED <<mode, locals>>
    /\ UNCHANGED <<panel, client, control, limit>>

\* A node with a Name keeps its limiter; the rules are replaced either way.
ReplaceLimiter(r) ==
    /\ Running(r, "relimit")
    /\ lim' = IF Named /\ mode = "up" THEN lim ELSE userList
    /\ rules' = newN[r]
    /\ Goto(r, "cert")
    /\ UNCHANGED <<panel, client, control, core, mode, locals>>

RequestCert(r) ==
    /\ Running(r, "cert")
    /\ \/ Goto(r, "addNode") /\ UNCHANGED <<mode, locals>>
       \/ "cert" \in Faults /\ newN[r] \in TlsConfigs /\ GiveUp(r)
    /\ UNCHANGED <<panel, client, control, core, limit>>

\* server.AddNode; a tag already in use, or a core that refuses, is an error.
AddNode(r) ==
    /\ Running(r, "addNode")
    /\ \/ /\ node = Nil
          /\ node' = newN[r] /\ coreUsers' = {}
          /\ Goto(r, "addAll")
          /\ UNCHANGED <<mode, locals>>
       \/ /\ node # Nil \/ "addnode" \in Faults
          /\ PanicStop(r) /\ UNCHANGED core
    /\ UNCHANGED <<panel, client, control, limit>>

(* core AddUsers and DelUsers go through the users one by one and stop at    *)
(* the first error: a user added twice, or deleted when absent, is one.  The *)
(* users before it, in the order of the list, keep the effect.               *)

CoreAdds(U) == node # Nil /\ U \cap coreUsers = {} /\ coreUsers' = coreUsers \cup U

CoreAddFails(U) ==
    \/ node = Nil /\ UNCHANGED coreUsers
    \/ /\ node # Nil
       /\ \E u \in IF "core" \in Faults THEN U ELSE U \cap coreUsers :
          \E S \in SUBSET (U \ {u}) : coreUsers' = coreUsers \cup S

CoreDeletes(U) == node # Nil /\ U \subseteq coreUsers /\ coreUsers' = coreUsers \ U

CoreDeleteFails(U) ==
    \/ node = Nil /\ UNCHANGED coreUsers
    \/ /\ node # Nil
       /\ \E u \in IF "core" \in Faults THEN U ELSE U \ coreUsers :
          \E S \in SUBSET (U \ {u}) : coreUsers' = coreUsers \ S

AddAllUsers(r) ==
    /\ Running(r, "addAll")
    /\ \/ /\ CoreAdds(Listed(userList))
          /\ Goto(r, "interval") /\ UNCHANGED <<mode, locals>>
       \/ CoreAddFails(Listed(userList)) /\ GiveUp(r)
    /\ UNCHANGED <<panel, client, control, node, limit>>

\* A changed interval closes and restarts the task from inside its own
\* Execute: a new goroutine waits, and this one goes on as well.  The first
\* round, Start, sets the interval and starts the task.
FinishReload(r) ==
    /\ Running(r, "interval")
    /\ LET spare == {s \in Runners : pc[s] = "off"}
           restart == mode = "up" /\ interval # PullInterval[newN[r]]
       IN IF restart /\ spare # {}
          THEN \E s \in spare : pc' = [pc EXCEPT ![r] = "idle", ![s] = "idle"]
          ELSE Goto(r, "idle")
    /\ interval' = PullInterval[newN[r]]
    /\ info' = IF mode = "boot" THEN newN[r] ELSE info
    /\ mode' = "up"
    /\ ForgetLocals(r)
    /\ UNCHANGED <<panel, client, userList, core, limit>>

-----------------------------------------------------------------------------
(* The "check users" branch of nodeInfoMonitor.                              *)

\* Faulty variant of SameKey, for a mutant.
SameUuid(u, s, t) == t[u] # Nil /\ s[u] # Nil

\* compareUserList keys a user by UUID and speed limit: one whose speed
\* changed is both deleted and added, one whose device limit changed neither.
SameKey(u, s, t) == t[u] # Nil /\ s[u] # Nil /\ s[u].speed = t[u].speed
\* Faulty variant of Deleted, for a mutant.
DeletedAll(old, new) == Listed(old)

\* Faulty variant of Deleted, for a mutant.
DeletedNone(old, new) == {}

Deleted(old, new) == {u \in Listed(old) : ~ SameKey(u, old, new)}

Added(old, new) == {u \in Listed(new) : ~ SameKey(u, old, new)}

CompareUsers(r) ==
    /\ Running(r, "check")
    /\ \/ /\ newU[r] \in {Nil, Empty}
          /\ Leave(r)
       \/ /\ newU[r] \notin {Nil, Empty}
          /\ del' = [del EXCEPT ![r] = Deleted(userList, newU[r])]
          /\ add' = [add EXCEPT ![r] = Added(userList, newU[r])]
          /\ Goto(r, "del")
          /\ UNCHANGED <<answer, newN, newU>>
    /\ UNCHANGED <<panel, client, control, core, limit, mode>>

DelUsers(r) ==
    /\ Running(r, "del")
    /\ \/ del[r] = {} /\ Goto(r, "add") /\ UNCHANGED <<coreUsers, mode, locals>>
       \/ /\ del[r] # {}
          /\ CoreDeletes(del[r])
          /\ Goto(r, "add") /\ UNCHANGED <<mode, locals>>
       \/ del[r] # {} /\ CoreDeleteFails(del[r]) /\ GiveUp(r)
    /\ UNCHANGED <<panel, client, control, node, limit>>

AddUsers(r) ==
    /\ Running(r, "add")
    /\ \/ add[r] = {} /\ Goto(r, "commit") /\ UNCHANGED <<coreUsers, mode, locals>>
       \/ /\ add[r] # {}
          /\ CoreAdds(add[r])
          /\ Goto(r, "commit") /\ UNCHANGED <<mode, locals>>
       \/ add[r] # {} /\ CoreAddFails(add[r]) /\ GiveUp(r)
    /\ UNCHANGED <<panel, client, control, node, limit>>

\* Limiter.UpdateUser: the deleted go, then the added are stored anew; then
\* the fetched list becomes the list the next round compares with.
Commit(r) ==
    /\ Running(r, "commit")
    /\ lim' = [u \in Users |-> IF u \in add[r] THEN newU[r][u]
                               ELSE IF u \in del[r] THEN Nil ELSE lim[u]]
    /\ userList' = newU[r]
    /\ Leave(r)
    /\ UNCHANGED <<panel, client, info, interval, core, rules, mode>>

-----------------------------------------------------------------------------
Round(r) ==
    \/ TakeNode(r) \/ TakeUsers(r)
    \/ BeginReload(r) \/ DropNode(r) \/ ReplaceLimiter(r) \/ RequestCert(r)
    \/ AddNode(r) \/ AddAllUsers(r) \/ FinishReload(r)
    \/ CompareUsers(r) \/ DelUsers(r) \/ AddUsers(r) \/ Commit(r)

Ask(r) == AskNodeOk(r) \/ AskNodeFails(r) \/ AskUsersOk(r) \/ AskUsersFails(r)

\* The process has ended; nothing happens any more.
Ended == mode \in {"exited", "panicked"} /\ UNCHANGED vars

Next == PanelEdit \/ Ended \/ \E r \in Runners : Ask(r) \/ Round(r)

Spec == Init /\ [][Next]_vars

\* The task's timer fires and the goroutine is scheduled, so rounds go on;
\* and a panel that fails does not fail every single request for ever.
Fairness ==
    \A r \in Runners : /\ WF_vars(Ask(r)) /\ WF_vars(Round(r))
                       /\ SF_vars(AskNodeOk(r)) /\ SF_vars(AskUsersOk(r))

FairSpec == Spec /\ Fairness

-----------------------------------------------------------------------------
(* Properties.                                                               *)

Quiet == mode = "up" /\ \A r \in Runners : pc[r] \in {"off", "idle"}

\* Between rounds, a served node is the one the controller believes in, under
\* that node's rules; the core serves exactly the users of the controller's
\* list, and the limiter knows the same users at the same speed limits.  (The
\* three copies are written at different points of nodeInfoMonitor, and any
\* early return between them could leave them apart.)
Agreement ==
    Quiet /\ node # Nil =>
        /\ node = info /\ rules = info
        /\ coreUsers = Listed(userList)
        /\ Listed(lim) = coreUsers
        /\ \A u \in coreUsers : lim[u].speed = userList[u].speed

\* When the premises of Agreement hold: every configuration asks for the same
\* pull interval (so there is one runner), the node has no name of its own, and
\* the core refuses nobody it has no reason to refuse.
OneInterval == \A c, d \in Configs : PullInterval[c] = PullInterval[d]

Steady ==
    /\ OneInterval
    /\ ~ Named
    /\ "core" \notin Faults

\* What Agreement needs at every stage of a round of a Steady node: the
\* inductive invariant of its proof.
Matches(l, t) == Listed(l) = Listed(t) /\ \A u \in Listed(t) : l[u].speed = t[u].speed

Served == node = info /\ rules = info /\ Matches(lim, userList)

SyncInv ==
    /\ \A r \in Runners \ {1} : pc[r] = "off"
    /\ pc[1] # "off"
    /\ mode = "boot" => pc[1] \notin {"drop", "check", "del", "add", "commit"}
    /\ mode = "boot" /\ pc[1] \notin ReloadStages \ {"reload"} => node = Nil
    /\ mode = "boot" /\ pc[1] \in {"idle", "node"} => bodyHash = Nil /\ nodeEtag = Nil
    /\ mode = "boot" /\ pc[1] = "node" => answer[1] # Nil
    /\ mode = "boot" /\ pc[1] \in {"askUsers", "users"} => newN[1] # Nil
    /\ mode = "up" /\ node # Nil
         /\ pc[1] \in {"idle", "node", "askUsers", "users", "reload", "check", "del"} =>
           Served /\ coreUsers = Listed(userList)
    /\ mode \in {"boot", "up"} /\ pc[1] \in {"relimit", "cert", "addNode"} => node = Nil
    /\ mode \in {"boot", "up"} /\ pc[1] \in {"addAll", "interval"} => node = newN[1]
    /\ mode = "up" /\ pc[1] \in ReloadStages \ {"reload"} => info = newN[1]
    /\ mode = "up" => \E c \in Configs : interval = PullInterval[c]
    /\ mode \in {"boot", "up"} /\ pc[1] \in {"cert", "addNode", "addAll", "interval"} =>
           rules = newN[1] /\ lim = userList
    /\ mode \in {"boot", "up"} /\ pc[1] = "addAll" => coreUsers = {}
    /\ mode \in {"boot", "up"} /\ pc[1] = "interval" => coreUsers = Listed(userList)
    /\ pc[1] \in {"del", "add", "commit"} =>
           del[1] = Deleted(userList, newU[1]) /\ add[1] = Added(userList, newU[1])
    /\ pc[1] \in {"add", "commit"} /\ node # Nil => Served
    /\ pc[1] = "add" /\ node # Nil => coreUsers = Listed(userList) \ del[1]
    /\ pc[1] = "commit" /\ node # Nil =>
           coreUsers = (Listed(userList) \ del[1]) \cup add[1]

\* A poll that leaves the node up disconnects a user only if the list just
\* fetched leaves him out or gives him another speed limit (node/user.go,
\* compareUserList; core DelUsers closes his connections).
NoNeedlessKick ==
    [][\A u \in coreUsers \ coreUsers' : node' = node =>
          \E r \in Runners : newU[r] # Nil /\ ~ SameKey(u, userList, newU[r])]_vars

\* With one runner, what a round has found to delete stays what its list says,
\* whatever is refused, and no round meets the node of another half changed.
LoneInv ==
    /\ \A r \in Runners \ {1} : pc[r] = "off"
    /\ pc[1] # "off"
    /\ mode = "up" => \E c \in Configs : interval = PullInterval[c]
    /\ pc[1] = "del" => del[1] = Deleted(userList, newU[1])

\* Once the panel stops changing, the node ends up serving, between rounds,
\* the users it lists at its speed limits, whatever requests fail on the way,
\* unless a failed certificate or AddNode left the node deleted
\* (node/task.go:124).  (An empty list is not applied, node/task.go:175.)
UsersConverge ==
    /\ [](Quiet => node # Nil)
    /\ <>[][UNCHANGED panel]_vars
    => <>[](Quiet /\ panelUsers # Empty =>
                /\ coreUsers = Listed(panelUsers)
                /\ \A u \in coreUsers : lim[u] # Nil /\ lim[u].speed = panelUsers[u].speed)

\* Once the panel stops changing, the configuration served between rounds
\* becomes and stays the panel's, whatever configuration requests fail, unless
\* a user-list request failed on the way (node/task.go:63-70), or a failed
\* certificate or AddNode left the node deleted (node/task.go:124).
ConfigConverges ==
    /\ [](Quiet => node # Nil)
    /\ [](\A r \in Runners : Running(r, "users") => answer[r] # Fail)
    /\ <>[][UNCHANGED panel]_vars
    => <>[](Quiet => node = panelCfg)

\* log.Panic asserts that DelNode and AddNode succeed (node/task.go:86-91).
NeverPanics == mode # "panicked"

\* With one runner, and certificates and nodes that do not fail, they do: the
\* node is missing only while its round replaces it.
Replacing == {"relimit", "cert", "addNode"}

WholeInv ==
    /\ mode = "boot" => pc[1] # "drop"
    /\ mode \in {"boot", "up"} /\ pc[1] \in {"addAll", "interval"} => node # Nil
    /\ mode = "up" => (node = Nil <=> pc[1] \in Replacing)
    /\ NeverPanics
=============================================================================
