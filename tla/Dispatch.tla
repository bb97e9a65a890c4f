------------------------------ MODULE Dispatch ------------------------------
(***************************************************************************)
(* One node of the xray core: its inbound, its same-tag outbound, the      *)
(* links of its users and where they leave the host.                       *)
(*                                                                         *)
(* The controller's goroutine adds and deletes users (core/xray/user.go)   *)
(* and deletes and adds the whole node when its configuration changes      *)
(* (core/xray/node.go).  Every connection runs getLink or DispatchLink and *)
(* then routedDispatch (core/xray/app/dispatcher/default.go) in goroutines *)
(* of its own.  A connection is registered in its user's LinkManager, so   *)
(* that DelUsers can close it.  A LinkManager is named after the           *)
(* connection that made it.                                                *)
(***************************************************************************)
EXTENDS FiniteSets

CONSTANTS Conns, Users, Nil

ASSUME DispatchAssumption == Nil \notin Conns \cup Users \cup {"route", "same", "default"}

VARIABLES
    wanted,                     \* XrayOptions.EnableSameTagOutbound
    inbound, outbound, sameTag, \* the handlers of the node's tag, and its entry in SameTagOutbound
    users,                      \* the users the inbound knows
    cpc, victim, closing, left, \* the controller; the user, the manager and the links of DelUsers
    managers, links,            \* LinkManagers; the links of each manager
    pc, who, mgr,               \* connections: stage, user, manager
    via,                        \* connections: the handler they were dispatched to
    cut,                        \* connections whose ManagedWriter DelUsers closed
    dead,                       \* the process has ended
    ousted, raced, disturbed    \* history, see below

node == <<inbound, outbound, sameTag, users>>
control == <<cpc, victim, closing, left>>
registry == <<managers, links>>
conn == <<pc, who, mgr, via>>
history == <<ousted, raced, disturbed>>
vars == <<wanted, node, control, registry, conn, cut, dead, history>>

Reloading == {"removein", "removeout", "tag", "addin", "addout", "addusers"}
Before == {"limit", "load", "store", "link", "rules", "pick", "check", "handler", "default"}
Unregistered == {"limit", "load", "store", "link"}
Registered == {"rules", "pick", "check", "handler", "default", "flow"}

TypeOK ==
    /\ wanted \in BOOLEAN /\ dead \in BOOLEAN
    /\ inbound \in BOOLEAN /\ outbound \in BOOLEAN /\ sameTag \in BOOLEAN
    /\ users \subseteq Users
    /\ cpc \in Reloading \cup {"idle", "manager", "close"}
    /\ victim \in Users \cup {Nil} /\ closing \in Conns \cup {Nil} /\ left \subseteq Conns
    /\ managers \in [Users -> Conns \cup {Nil}] /\ links \in [Conns -> SUBSET Conns]
    /\ pc \in [Conns -> Before \cup {"new", "flow", "closed"}]
    /\ who \in [Conns -> Users \cup {Nil}] /\ mgr \in [Conns -> Conns \cup {Nil}]
    /\ via \in [Conns -> {"route", "same", "default", Nil}]
    /\ cut \subseteq Conns
    /\ ousted \subseteq Users /\ raced \subseteq Conns /\ disturbed \subseteq Conns
    /\ \A c \in Conns : /\ pc[c] \in Before \cup {"flow"} => who[c] # Nil
                        /\ pc[c] \in Registered \cup {"link"} => mgr[c] # Nil
    /\ cpc = "manager" => victim # Nil
    /\ cpc = "close" => victim # Nil /\ closing # Nil

\* The core is started and the controller begins to add its node.
Init ==
    /\ wanted \in BOOLEAN /\ dead = FALSE
    /\ inbound = FALSE /\ outbound = FALSE /\ sameTag = FALSE /\ users = {}
    /\ cpc = "tag" /\ victim = Nil /\ closing = Nil /\ left = {}
    /\ managers = [u \in Users |-> Nil] /\ links = [m \in Conns |-> {}]
    /\ pc = [c \in Conns |-> "new"]
    /\ who = [c \in Conns |-> Nil] /\ mgr = [c \in Conns |-> Nil] /\ via = [c \in Conns |-> Nil]
    /\ cut = {} /\ ousted = {} /\ raced = {} /\ disturbed = {}

Die == dead' = TRUE /\ UNCHANGED <<wanted, node, control, registry, conn, cut, history>>

-----------------------------------------------------------------------------
(* The controller: AddUsers and DelUsers of one user.                        *)

Controller(stage, next) == ~ dead /\ cpc = stage /\ cpc' = next

InsertUser(u) ==
    /\ Controller("idle", "idle") /\ u \notin users
    /\ users' = users \cup {u}
    /\ ousted' = ousted \ {u}
    /\ UNCHANGED <<wanted, inbound, outbound, sameTag, victim, closing, left, registry, conn, cut, dead, raced, disturbed>>

\* RemoveUser: nobody can authenticate as u any more.
RemoveUser(u) ==
    /\ Controller("idle", "manager") /\ u \in users
    /\ users' = users \ {u}
    /\ victim' = u
    /\ ousted' = ousted \cup {u}
    /\ raced' = raced \cup {c \in Conns : who[c] = u /\ pc[c] \in Unregistered}
    /\ UNCHANGED <<wanted, inbound, outbound, sameTag, closing, left, registry, conn, cut, dead, disturbed>>

\* Faulty variant of LoadManagerToClose, for a mutant.
NoManagerToClose ==
    /\ Controller("manager", "idle")
    /\ UNCHANGED <<wanted, node, victim, closing, left, registry, conn, cut, dead, history>>

\* LinkManagers.Load, and the beginning of CloseAll's loop.
LoadManagerToClose ==
    /\ \/ /\ Controller("manager", "idle")
          /\ managers[victim] = Nil
          /\ UNCHANGED <<closing, left>>
       \/ /\ Controller("manager", "close")
          /\ managers[victim] # Nil
          /\ closing' = managers[victim]
          /\ left' = links[managers[victim]]
    /\ UNCHANGED <<wanted, node, victim, registry, conn, cut, dead, history>>

\* CloseAll iterates without the lock: a link added meanwhile may be met or not.
CloseLink(c) ==
    /\ Controller("close", "close") /\ c \in links[closing]
    /\ links' = [links EXCEPT ![closing] = @ \ {c}]
    /\ left' = left \ {c}
    /\ cut' = cut \cup {c}
    /\ UNCHANGED <<wanted, node, victim, closing, managers, conn, dead, history>>

DeleteManager ==
    /\ Controller("close", "idle") /\ left \cap links[closing] = {}
    /\ managers' = [managers EXCEPT ![victim] = Nil]
    /\ closing' = Nil /\ left' = {} /\ victim' = Nil
    /\ UNCHANGED <<wanted, node, links, conn, cut, dead, history>>

-----------------------------------------------------------------------------
(* The controller: DelNode and AddNode when the node's configuration changes. *)

\* DelNode: SetSameTagOutbound(tag, false) comes first.
BeginReload ==
    /\ Controller("idle", "removein")
    /\ sameTag' = FALSE
    /\ disturbed' = disturbed \cup {c \in Conns : pc[c] \in Before}
    /\ UNCHANGED <<wanted, inbound, outbound, users, victim, closing, left, registry, conn, cut, dead, ousted, raced>>

RemoveInbound ==
    /\ Controller("removein", "removeout")
    /\ inbound' = FALSE /\ users' = {}
    /\ UNCHANGED <<wanted, outbound, sameTag, victim, closing, left, registry, conn, cut, dead, history>>

RemoveOutbound ==
    /\ Controller("removeout", "tag")
    /\ outbound' = FALSE
    /\ UNCHANGED <<wanted, inbound, sameTag, users, victim, closing, left, registry, conn, cut, dead, history>>

\* Faulty variant of SetSameTagOutbound, for a mutant.
SetSameTagNever ==
    /\ Controller("tag", "addin")
    /\ UNCHANGED <<wanted, node, victim, closing, left, registry, conn, cut, dead, history>>

\* AddNode: SetSameTagOutbound(tag, EnableSameTagOutbound).
SetSameTagOutbound ==
    /\ Controller("tag", "addin")
    /\ sameTag' = wanted
    /\ UNCHANGED <<wanted, inbound, outbound, users, victim, closing, left, registry, conn, cut, dead, history>>

\* An error of AddNode ends the process, at the start as in the monitor.
AddInbound ==
    \/ /\ Controller("addin", "addout")
       /\ inbound' = TRUE
       /\ UNCHANGED <<wanted, outbound, sameTag, users, victim, closing, left, registry, conn, cut, dead, history>>
    \/ ~ dead /\ cpc = "addin" /\ Die

AddOutbound ==
    \/ /\ Controller("addout", "addusers")
       /\ outbound' = TRUE
       /\ UNCHANGED <<wanted, inbound, sameTag, users, victim, closing, left, registry, conn, cut, dead, history>>
    \/ ~ dead /\ cpc = "addout" /\ Die

\* AddUsers of the panel's list; users missing from it are not deleted but
\* left out.
AddAllUsers ==
    /\ Controller("addusers", "idle")
    /\ \E us \in SUBSET Users :
        /\ users' = us
        /\ ousted' = ousted \ us
    /\ UNCHANGED <<wanted, inbound, outbound, sameTag, victim, closing, left, registry, conn, cut, dead, raced, disturbed>>

-----------------------------------------------------------------------------
(* A connection: getLink or DispatchLink.                                    *)

Step(c, stage, next) ==
    /\ ~ dead /\ pc[c] = stage
    /\ pc' = [pc EXCEPT ![c] = next]
    /\ UNCHANGED <<wanted, node, control, cut>>

\* The inbound authenticates the user.
Accept(c, u) ==
    /\ Step(c, "new", "limit")
    /\ inbound /\ u \in users
    /\ who' = [who EXCEPT ![c] = u]
    /\ disturbed' = IF cpc \in Reloading THEN disturbed \cup {c} ELSE disturbed
    /\ UNCHANGED <<registry, mgr, via, dead, ousted, raced>>

\* GetLimiter and CheckLimit (module Limiter); the link is closed when the node
\* has no limiter or the limiter rejects.
Limit(c) ==
    /\ Step(c, "limit", "load") \/ Step(c, "limit", "closed")
    /\ UNCHANGED <<registry, who, mgr, via, dead, history>>

\* Faulty variant of LoadManager, for a mutant.
LoadManagerUnchecked(c) ==
    /\ Step(c, "load", "link")
    /\ mgr' = [mgr EXCEPT ![c] = managers[who[c]]]
    /\ UNCHANGED <<registry, who, via, dead, history>>

LoadManager(c) ==
    /\ \/ /\ Step(c, "load", "store")
          /\ managers[who[c]] = Nil
          /\ UNCHANGED mgr
       \/ /\ Step(c, "load", "link")
          /\ managers[who[c]] # Nil
          /\ mgr' = [mgr EXCEPT ![c] = managers[who[c]]]
    /\ UNCHANGED <<registry, who, via, dead, history>>

\* A Store over the manager another first connection has just stored.
StoreManager(c) ==
    /\ Step(c, "store", "link")
    /\ managers' = [managers EXCEPT ![who[c]] = c]
    /\ mgr' = [mgr EXCEPT ![c] = c]
    /\ raced' = raced \cup {d \in Conns : mgr[d] # Nil /\ mgr[d] = managers[who[c]]}
    /\ UNCHANGED <<links, who, via, dead, ousted, disturbed>>

\* links is a map: CloseAll iterates it without the lock, and the Go runtime may
\* end the process when it is written to meanwhile.
Iterated(m) == cpc = "close" /\ closing = m

AddLink(c) ==
    \/ /\ Step(c, "link", "rules")
       /\ links' = [links EXCEPT ![mgr[c]] = @ \cup {c}]
       /\ UNCHANGED <<managers, who, mgr, via, dead, history>>
    \/ /\ ~ dead /\ pc[c] = "link" /\ Iterated(mgr[c])
       /\ Die

-----------------------------------------------------------------------------
(* A connection: routedDispatch.                                             *)

\* CheckDomainRule and CheckProtocolRule.
CheckRules(c) ==
    /\ Step(c, "rules", "pick") \/ Step(c, "rules", "closed")
    /\ UNCHANGED <<registry, who, mgr, via, dead, history>>

DispatchTo(c, stage, handler) ==
    /\ Step(c, stage, "flow")
    /\ via' = [via EXCEPT ![c] = handler]

\* A forced tag or a routing rule, whose handler exists or not; or neither.
PickRoute(c) ==
    /\ \/ DispatchTo(c, "pick", "route")
       \/ Step(c, "pick", "closed") /\ UNCHANGED via
       \/ Step(c, "pick", "check") /\ UNCHANGED via
    /\ UNCHANGED <<registry, who, mgr, dead, history>>

CheckSameTag(c) ==
    /\ IF sameTag THEN Step(c, "check", "handler") ELSE Step(c, "check", "default")
    /\ UNCHANGED <<registry, who, mgr, via, dead, history>>

GetHandler(c) ==
    /\ \/ outbound /\ DispatchTo(c, "handler", "same")
       \/ ~ outbound /\ Step(c, "handler", "default") /\ UNCHANGED via
    /\ UNCHANGED <<registry, who, mgr, dead, history>>

GetDefaultHandler(c) ==
    /\ DispatchTo(c, "default", "default")
    /\ UNCHANGED <<registry, who, mgr, dead, history>>

\* The proxy closes the link, and ManagedWriter.Close removes it; or the proxy
\* interrupts it, which ManagedWriter does not pass on.
End(c) ==
    \/ /\ Step(c, "flow", "closed")
       /\ \/ links' = [links EXCEPT ![mgr[c]] = @ \ {c}]
          \/ UNCHANGED links
       /\ UNCHANGED <<managers, who, mgr, via, dead, history>>
    \/ /\ ~ dead /\ pc[c] = "flow" /\ Iterated(mgr[c])
       /\ Die

-----------------------------------------------------------------------------
ControllerNext ==
    \/ \E u \in Users : InsertUser(u) \/ RemoveUser(u)
    \/ LoadManagerToClose \/ DeleteManager \/ \E c \in Conns : CloseLink(c)
    \/ BeginReload \/ RemoveInbound \/ RemoveOutbound
    \/ SetSameTagOutbound \/ AddInbound \/ AddOutbound \/ AddAllUsers

ConnNext(c) ==
    \/ \E u \in Users : Accept(c, u)
    \/ Limit(c) \/ LoadManager(c) \/ StoreManager(c) \/ AddLink(c)
    \/ CheckRules(c) \/ PickRoute(c) \/ CheckSameTag(c) \/ GetHandler(c)
    \/ GetDefaultHandler(c) \/ End(c)

Next ==
    \/ ControllerNext
    \/ \E c \in Conns : ConnNext(c)
    \/ dead /\ UNCHANGED vars

Spec == Init /\ [][Next]_vars

-----------------------------------------------------------------------------
\* raced: connections not registered yet when their user was removed, or whose
\* manager was overwritten by the Store of another first connection.
\* disturbed: connections between authentication and dispatch during a reload.
\* ousted: users last removed by DelUsers.

\* When DelUsers is over, it has closed every link of the user that was
\* registered in time and whose manager no race had replaced
\* (core/xray/user.go:51, linkmanager.go:41).
DeletedUsersAreCut ==
    cpc = "idle" => \A c \in Conns :
        pc[c] \in Before \cup {"flow"} /\ who[c] \in ousted => c \in cut \cup raced

\* What makes it so.  A connection that uses its user's manager stays with it
\* and in it, until it is cut or a race takes the manager away; nobody comes
\* in as a user who was removed; and while DelUsers is at work, the links it
\* still has to close are those of the manager it has read.
Taken == cut \cup raced

ManagersInv ==
    \A c \in Conns \ Taken :
        /\ pc[c] \in Registered \cup {"link"} => mgr[c] = managers[who[c]]
        /\ pc[c] \in Registered => c \in links[mgr[c]]

OustedInv ==
    /\ ousted \cap users = {}
    /\ cpc \in {"manager", "close"} => victim \in ousted
    /\ \A c \in Conns : who[c] \in ousted =>
          /\ pc[c] \in Unregistered => c \in raced
          /\ pc[c] \in Registered /\ c \notin Taken =>
                cpc \in {"manager", "close"} /\ who[c] = victim

ClosingInv ==
    cpc = "close" => \A c \in Conns \ Taken :
        pc[c] \in Registered /\ who[c] = victim => mgr[c] = closing /\ c \in left

CutInv == ManagersInv /\ OustedInv /\ ClosingInv

\* With EnableSameTagOutbound, traffic that no rule routes leaves by the node's
\* own outbound; by the default one only if a reload of the node came between
\* (core/xray/app/dispatcher/default.go:623, the order in core/xray/node.go:19).
OwnEgress == \A c \in Conns : wanted /\ via[c] = "default" => c \in disturbed

\* What makes it so.  Outside a reload, and in a reload from the step that sets
\* it, the entry in SameTagOutbound is what the configuration says, and the
\* handler is there; a connection on its way during a reload is disturbed.
EgressInv ==
    /\ cpc \notin {"removein", "removeout", "tag"} => sameTag = wanted
    /\ cpc \notin Reloading \/ cpc = "addusers" => outbound
    /\ \A c \in Conns \ disturbed :
          /\ pc[c] \in Before => cpc \notin Reloading
          /\ pc[c] = "default" => ~ wanted
    /\ OwnEgress
=============================================================================
