-------------------------------- MODULE Hy2 --------------------------------
(* core/hy2: the connections of hysteria2 nodes, the account map all nodes   *)
(* share, and the flag OverLimit that carries the limiter's answer from the  *)
(* event logger to the traffic logger.  The goroutines are the monitors of   *)
(* the nodes' controllers (node/controller.go, node/task.go) and, for every  *)
(* connection, one that moves its bytes and any number that handle events:   *)
(* hysteria has one for Connect, one for every stream that begins with a     *)
(* TCPRequest, and one for UDPRequest, all beside each other.                *)
EXTENDS Integers, FiniteSets

CONSTANTS
    N,         \* how many nodes there are; they start in this order
    Users,     \* users whose lists change; every list has others as well
    Conns,     \* connections that may be open at once
    Handlers,  \* event handlers that may run at once, of whichever connections
    MaxEdits,  \* bound on the lists the panel sends after the first
    Nil

Nodes == 1..N
Flags == [Users -> BOOLEAN \cup {Nil}]
Connected == [node : Nodes, user : Users, open : BOOLEAN]

ASSUME Hy2Assumption ==
    /\ N \in Nat \ {0} /\ MaxEdits \in Nat
    /\ Nil \notin Conns \cup Handlers \cup BOOLEAN \cup Flags \cup Connected

VARIABLES
    ctl,             \* per node: how far its controller is
    list, next,      \* per node: its users, and those of the list being installed
    usersMap,        \* the accounts of the core, shared by its nodes
    flag,            \* per node: Nil, or OverLimit per user, Nil if unknown
    conn,            \* per connection: Nil or its node, user and whether it is open
    of, pc,          \* per handler: its connection, and how far it is: "pass" and
                     \* "reject" are CheckLimit's answers, "old" when the limiter
                     \* it holds has been replaced
    cutting,         \* per connection: LogTraffic has read OverLimit = TRUE, of a
                     \* record still the user's or gone since
    edits,
    verdict, last, shutOut, lingering, panicked  \* history: see the properties

control == <<ctl, list, next, edits>>
handlers == <<of, pc>>
answers == <<verdict, last>>
access == <<shutOut, lingering>>
vars == <<control, usersMap, flag, conn, handlers, cutting, answers, access, panicked>>

Serving == {"serving", "up", "changing", "syncing", "closing"}
Stages == Serving \cup {"absent", "limited", "deleted", "unlimited", "closed"}

TypeOK ==
    /\ ctl \in [Nodes -> Stages]
    /\ list \in [Nodes -> SUBSET Users] /\ next \in [Nodes -> SUBSET Users]
    /\ usersMap \subseteq Users
    /\ flag \in [Nodes -> {Nil} \cup Flags]
    /\ conn \in [Conns -> {Nil} \cup Connected]
    /\ of \in [Handlers -> Conns \cup {Nil}]
    /\ pc \in [Handlers -> {"idle", "connect", "request", "check", "pass", "reject", "old"}]
    /\ cutting \in [Conns -> {"no", "record", "gone"}] /\ edits \in 0..MaxEdits
    /\ verdict \in [Conns -> {"none", "pass", "reject"}]
    /\ last \in [Conns -> Handlers \cup {Nil}]
    /\ shutOut \subseteq Users /\ lingering \subseteq Users
    /\ panicked \in {Nil} \cup [ctl : Stages, open : BOOLEAN]

Init ==
    /\ ctl = [n \in Nodes |-> "absent"]
    /\ list \in [Nodes -> SUBSET Users] /\ next = list
    /\ usersMap = {} /\ flag = [n \in Nodes |-> Nil] /\ conn = [c \in Conns |-> Nil]
    /\ of = [h \in Handlers |-> Nil] /\ pc = [h \in Handlers |-> "idle"]
    /\ cutting = [c \in Conns |-> "no"] /\ edits = 0
    /\ verdict = [c \in Conns |-> "none"] /\ last = [c \in Conns |-> Nil]
    /\ shutOut = {} /\ lingering = {} /\ panicked = Nil

-----------------------------------------------------------------------------
On(c, n) == conn[c] # Nil /\ conn[c].node = n
Records(n) == IF flag[n] = Nil THEN {} ELSE {u \in Users : flag[n][u] # Nil}

\* The records of these users at node n are written or replaced: what a flag says
\* is no longer a connection's own answer, but one that is still to be written
\* will be.
Overwritten(n, us) == [c \in Conns |->
    IF On(c, n) /\ conn[c].user \in us /\ last[c] = Nil THEN "none" ELSE verdict[c]]

\* The monitor makes new records for these users, or removes them.
Replace(n, us) ==
    /\ verdict' = Overwritten(n, us)
    /\ cutting' = [c \in Conns |->
          IF cutting[c] = "record" /\ On(c, n) /\ conn[c].user \in us THEN "gone" ELSE cutting[c]]
    /\ UNCHANGED <<last, handlers>>

\* The handlers at node n that hold its limiter go on with the old one, which
\* nothing else can reach.
DropLimiter(n) ==
    /\ flag' = [flag EXCEPT ![n] = Nil]
    /\ pc' = [h \in Handlers |->
          IF pc[h] \in {"check", "pass", "reject"} /\ On(of[h], n) THEN "old" ELSE pc[h]]
    /\ verdict' = [c \in Conns |-> IF On(c, n) THEN "none" ELSE verdict[c]]
    /\ last' = [c \in Conns |-> IF On(c, n) THEN Nil ELSE last[c]]
    /\ cutting' = [c \in Conns |-> IF cutting[c] = "record" /\ On(c, n) THEN "gone" ELSE cutting[c]]

\* A connection that ends is there until all its goroutines have ended; those
\* in others do not count.
Ended(c, others) ==
    IF cutting[c] = "no" /\ \A h \in Handlers \ others : of[h] # c THEN Nil
    ELSE [conn[c] EXCEPT !.open = FALSE]

\* Hy2server.Close: the connections end; the handlers do not stop at once.
CloseServer(n) == conn' = [c \in Conns |-> IF On(c, n) THEN Ended(c, {}) ELSE conn[c]]

-----------------------------------------------------------------------------
(* The controllers, of nodes without a configured Name.                      *)

AddLimiter(n) ==
    /\ \/ ctl[n] = "absent" /\ \A m \in 1..(n - 1) : ctl[m] \notin {"absent", "limited", "serving"}
       \/ ctl[n] = "unlimited"
    /\ flag' = [flag EXCEPT ![n] = [u \in Users |-> IF u \in list[n] THEN FALSE ELSE Nil]]
    /\ ctl' = [ctl EXCEPT ![n] = "limited"]
    /\ UNCHANGED <<list, next, edits, usersMap, conn, handlers, cutting, answers, access, panicked>>

AddNode(n) ==
    /\ ctl[n] = "limited"
    /\ ctl' = [ctl EXCEPT ![n] = "serving"]
    /\ UNCHANGED <<list, next, edits, usersMap, flag, conn, handlers, cutting, answers, access,
                   panicked>>

\* AddUsers of the core, the map being that of all nodes.
GiveAccounts(us) ==
    /\ usersMap' = usersMap \cup us
    /\ shutOut' = shutOut \ us /\ lingering' = lingering \ us

AddUsers(n) ==
    /\ ctl[n] = "serving"
    /\ ctl' = [ctl EXCEPT ![n] = "up"]
    /\ GiveAccounts(list[n])
    /\ UNCHANGED <<list, next, edits, flag, conn, handlers, cutting, answers, panicked>>

\* Faulty variant of TakeAccounts, for a mutant.
TakeAccountsNot(us) ==
    /\ shutOut' = shutOut \cup us /\ lingering' = lingering \ us
    /\ UNCHANGED usersMap

\* DelUsers of the core.
TakeAccounts(us) ==
    /\ usersMap' = usersMap \ us
    /\ shutOut' = shutOut \cup us /\ lingering' = lingering \ us

\* The monitor finds another user list: DelUsers, ...
DelOldUsers(n, us) ==
    /\ ctl[n] = "up" /\ edits < MaxEdits /\ us # list[n]
    /\ ctl' = [ctl EXCEPT ![n] = "changing"] /\ edits' = edits + 1
    /\ next' = [next EXCEPT ![n] = us]
    /\ TakeAccounts(list[n] \ us)
    /\ UNCHANGED <<list, flag, conn, handlers, cutting, answers, panicked>>

\* ... then AddUsers ...
AddNewUsers(n) ==
    /\ ctl[n] = "changing"
    /\ ctl' = [ctl EXCEPT ![n] = "syncing"]
    /\ GiveAccounts(next[n] \ list[n])
    /\ UNCHANGED <<list, next, edits, flag, conn, handlers, cutting, answers, panicked>>

\* ... and limiter.UpdateUser.
UpdateUser(n) ==
    /\ ctl[n] = "syncing"
    /\ ctl' = [ctl EXCEPT ![n] = "up"] /\ list' = [list EXCEPT ![n] = next[n]]
    /\ LET deleted == list[n] \ next[n]
           added == next[n] \ list[n]
       IN /\ flag' = [flag EXCEPT ![n] = [u \in Users |->
                        IF u \in deleted THEN Nil ELSE IF u \in added THEN FALSE ELSE @[u]]]
          /\ Replace(n, deleted \cup added)
    /\ UNCHANGED <<next, edits, usersMap, conn, access, panicked>>

\* Faulty variant of DelNodeToReload, for a mutant.
DelNodeToReloadLimiterFirst(n, us) ==
    /\ ctl[n] = "up" /\ edits < MaxEdits
    /\ ctl' = [ctl EXCEPT ![n] = "deleted"] /\ edits' = edits + 1
    /\ list' = [list EXCEPT ![n] = us] /\ next' = [next EXCEPT ![n] = us]
    /\ lingering' = lingering \cup (list[n] \ us)
    /\ flag' = [flag EXCEPT ![n] = Nil]
    /\ UNCHANGED <<usersMap, conn, handlers, cutting, answers, shutOut, panicked>>

\* The monitor finds another configuration: DelNode, DeleteLimiter, and the
\* way of a new node.  The accounts of users the new list lacks are kept.
DelNodeToReload(n, us) ==
    /\ ctl[n] = "up" /\ edits < MaxEdits
    /\ ctl' = [ctl EXCEPT ![n] = "deleted"] /\ edits' = edits + 1
    /\ list' = [list EXCEPT ![n] = us] /\ next' = [next EXCEPT ![n] = us]
    /\ lingering' = lingering \cup (list[n] \ us)
    /\ CloseServer(n)
    /\ UNCHANGED <<usersMap, flag, handlers, cutting, answers, shutOut, panicked>>

DeleteLimiter(n) ==
    /\ ctl[n] = "deleted"
    /\ ctl' = [ctl EXCEPT ![n] = "unlimited"]
    /\ DropLimiter(n)
    /\ UNCHANGED <<list, next, edits, usersMap, conn, of, access, panicked>>

\* Controller.Close: the limiter first, the node last.
CloseController(n) ==
    /\ ctl[n] = "up" /\ \A m \in Nodes : IF m < n THEN ctl[m] = "closed" ELSE ctl[m] # "absent"
    /\ ctl' = [ctl EXCEPT ![n] = "closing"]
    /\ DropLimiter(n)
    /\ UNCHANGED <<list, next, edits, usersMap, conn, of, access, panicked>>

DelNodeToClose(n) ==
    /\ ctl[n] = "closing"
    /\ ctl' = [ctl EXCEPT ![n] = "closed"]
    /\ lingering' = lingering \cup list[n]
    /\ CloseServer(n)
    /\ UNCHANGED <<list, next, edits, usersMap, flag, handlers, cutting, answers, shutOut, panicked>>

-----------------------------------------------------------------------------
(* Connections.                                                              *)

Begin(h, c, event) ==
    /\ pc[h] = "idle"
    /\ of' = [of EXCEPT ![h] = c] /\ pc' = [pc EXCEPT ![h] = event]

\* Authenticate asks the shared map, whatever node the client has come to; the
\* event Connect follows.
Authenticate(h, c, n, u) ==
    /\ conn[c] = Nil /\ ctl[n] \in Serving /\ u \in usersMap
    /\ conn' = [conn EXCEPT ![c] = [node |-> n, user |-> u, open |-> TRUE]]
    /\ Begin(h, c, "connect")
    /\ verdict' = [verdict EXCEPT ![c] = "none"] /\ last' = [last EXCEPT ![c] = Nil]
    /\ UNCHANGED <<control, usersMap, flag, cutting, access, panicked>>

\* A new stream or UDP session: the event TCPRequest or UDPRequest, whatever
\* other handlers the connection has.
Request(h, c) ==
    /\ conn[c] # Nil /\ conn[c].open
    /\ Begin(h, c, "request")
    /\ UNCHANGED <<control, usersMap, flag, conn, cutting, answers, access, panicked>>

\* The handler ends; with the last goroutine of a closed connection, that does.
Return(h) ==
    /\ of' = [of EXCEPT ![h] = Nil] /\ pc' = [pc EXCEPT ![h] = "idle"]
    /\ conn' = [conn EXCEPT ![of[h]] = IF @.open THEN @ ELSE Ended(of[h], {h})]

\* No limiter is a Panic: it ends the process, but http3 recovers from one
\* in Connect.
GetLimiter(h) ==
    /\ pc[h] \in {"connect", "request"}
    /\ LET c == of[h]
       IN IF flag[conn[c].node] # Nil
          THEN /\ pc' = [pc EXCEPT ![h] = "check"]
               /\ UNCHANGED <<conn, of, panicked>>
          ELSE /\ Return(h)
               /\ panicked' = IF pc[h] = "connect" THEN Nil
                              ELSE [ctl |-> ctl[conn[c].node], open |-> conn[c].open]
    /\ UNCHANGED <<control, usersMap, flag, cutting, answers, access>>

Known(c) == conn[c].user \in Records(conn[c].node)

\* CheckLimit; what it answers for a user it knows is in module Limiter.
CheckLimit(h) ==
    /\ pc[h] = "check"
    /\ LET c == of[h]
       IN \E answer \in {"pass", "reject"} :
          /\ ~ Known(c) => answer = "reject"
          /\ pc' = [pc EXCEPT ![h] = answer]
          /\ verdict' = [verdict EXCEPT ![c] = answer]
          /\ last' = [last EXCEPT ![c] = h]
    /\ UNCHANGED <<control, usersMap, flag, conn, of, cutting, access, panicked>>

\* Writes OverLimit into the record of a connection's user, if there is one.
Write(c, overLimit) ==
    LET n == conn[c].node
        u == conn[c].user
    IN IF Known(c)
       THEN flag' = [flag EXCEPT ![n][u] = overLimit] /\ verdict' = Overwritten(n, {u})
       ELSE UNCHANGED <<flag, verdict>>

\* Faulty variant of MarkOverLimit, for a mutant.
MarkOverLimitOnly(h) ==
    /\ pc[h] \in {"pass", "reject"}
    /\ IF pc[h] = "reject" THEN Write(of[h], TRUE) ELSE UNCHANGED <<flag, verdict>>
    /\ last' = [last EXCEPT ![of[h]] = IF @ = h THEN Nil ELSE @]
    /\ Return(h)
    /\ UNCHANGED <<control, usersMap, cutting, access, panicked>>

MarkOverLimit(h) ==
    /\ pc[h] \in {"pass", "reject"}
    /\ Write(of[h], pc[h] = "reject")
    /\ last' = [last EXCEPT ![of[h]] = IF @ = h THEN Nil ELSE @]
    /\ Return(h)
    /\ UNCHANGED <<control, usersMap, cutting, access, panicked>>

\* What a handler writes into an old limiter nobody reads.
WriteToOld(h) ==
    /\ pc[h] = "old"
    /\ Return(h)
    /\ UNCHANGED <<control, usersMap, flag, cutting, answers, access, panicked>>

\* LogTraffic reads the flag; bytes that pass change nothing here.
LogTraffic(c) ==
    /\ conn[c] # Nil /\ conn[c].open /\ cutting[c] = "no"
    /\ LET n == conn[c].node
       IN \/ /\ flag[n] = Nil  \* return false: hysteria ends the connection
             /\ conn' = [conn EXCEPT ![c] = Ended(c, {})]
             /\ UNCHANGED cutting
          \/ /\ flag[n] # Nil /\ Known(c) /\ flag[n][conn[c].user] = TRUE
             /\ cutting' = [cutting EXCEPT ![c] = "record"]
             /\ UNCHANGED conn
    /\ UNCHANGED <<control, usersMap, flag, handlers, answers, access, panicked>>

\* ... clears it and has the connection closed.
Cut(c) ==
    /\ cutting[c] # "no"
    /\ cutting' = [cutting EXCEPT ![c] = "no"]
    /\ IF cutting[c] = "record" THEN Write(c, FALSE) ELSE UNCHANGED <<flag, verdict>>
    /\ conn' = [conn EXCEPT ![c] = IF \A h \in Handlers : of[h] # c THEN Nil
                                   ELSE [@ EXCEPT !.open = FALSE]]
    /\ UNCHANGED <<control, usersMap, handlers, last, access, panicked>>

\* The client leaves.
Disconnect(c) ==
    /\ conn[c] # Nil /\ conn[c].open
    /\ conn' = [conn EXCEPT ![c] = Ended(c, {})]
    /\ UNCHANGED <<control, usersMap, flag, handlers, cutting, answers, access, panicked>>

-----------------------------------------------------------------------------
Controllers ==
    \E n \in Nodes :
        \/ AddLimiter(n) \/ AddNode(n) \/ AddUsers(n) \/ AddNewUsers(n) \/ UpdateUser(n)
        \/ DeleteLimiter(n) \/ CloseController(n) \/ DelNodeToClose(n)
        \/ \E us \in SUBSET Users : DelOldUsers(n, us) \/ DelNodeToReload(n, us)

Connections ==
    \/ \E h \in Handlers :
          \/ GetLimiter(h) \/ CheckLimit(h) \/ MarkOverLimit(h) \/ WriteToOld(h)
          \/ \E c \in Conns : Request(h, c) \/ \E n \in Nodes, u \in Users : Authenticate(h, c, n, u)
    \/ \E c \in Conns : LogTraffic(c) \/ Cut(c) \/ Disconnect(c)

\* The process has ended, or everything is closed.
Over ==
    /\ panicked # Nil \/ \A n \in Nodes : ctl[n] = "closed"
    /\ UNCHANGED vars

Next == Over \/ (panicked = Nil /\ (Controllers \/ Connections))

Spec == Init /\ [][Next]_vars

-----------------------------------------------------------------------------
(* Properties.  History: "verdict", what CheckLimit last said of the         *)
(* connection, until others write the record its answer went to; "last", the *)
(* handler it said it to, until that one has returned; "shutOut", users      *)
(* deleted at a node while another may list them; "lingering", users a       *)
(* reload or a close dropped without DelUsers.                               *)

\* Once the event of a connection's latest check is handled, the flag that its
\* traffic meets is the answer to that check (logger.go:54-61, hook.go:41), over
\* whatever was written while it was under way; until another handler, of this
\* or another connection of the user, or the monitor writes the record.  A user
\* the limiter does not know has no flag and is never cut.
FlagIsOwnAnswer ==
    \A c \in Conns :
        /\ conn[c] # Nil /\ conn[c].open /\ cutting[c] = "no"
        /\ verdict[c] # "none" /\ last[c] = Nil /\ Known(c)
        => flag[conn[c].node][conn[c].user] = (verdict[c] = "reject")

\* What makes it so.  A goroutine belongs to a connection.
Attached ==
    /\ \A h \in Handlers : IF pc[h] = "idle" THEN of[h] = Nil
                           ELSE of[h] \in Conns /\ conn[of[h]] # Nil
    /\ \A c \in Conns : cutting[c] # "no" => conn[c] # Nil

\* A handler that is to check or to write has the node's own limiter, and the
\* handler of a connection's latest check is to write what the check said.
HandlersInv ==
    /\ \A h \in Handlers : pc[h] \in {"check", "pass", "reject"} => flag[conn[of[h]].node] # Nil
    /\ \A c \in Conns : conn[c] # Nil /\ last[c] # Nil =>
          of[last[c]] = c /\ pc[last[c]] = verdict[c] /\ verdict[c] # "none"

AnswersInv ==
    \A c \in Conns : conn[c] # Nil =>
        /\ flag[conn[c].node] = Nil => verdict[c] = "none"
        /\ verdict[c] # "none" /\ last[c] = Nil /\ Known(c)
           => flag[conn[c].node][conn[c].user] = (verdict[c] = "reject")

Unlimited == \A n \in Nodes : ctl[n] \in {"absent", "unlimited"} => flag[n] = Nil

FlagInv == Attached /\ HandlersInv /\ AnswersInv /\ Unlimited

\* Who can authenticate (user.go:20-56): every user of a node that is up has
\* his account, unless another node deleted him; and an account belongs to a
\* user of some node's newest list, unless a reload or a close left it behind.
AccessIsListed ==
    /\ \A n \in Nodes : ctl[n] = "up" => list[n] \subseteq usersMap \cup shutOut
    /\ \A u \in usersMap : u \in lingering \/ \E n \in Nodes : ctl[n] # "closed" /\ u \in next[n]

\* A handler finds no limiter, and the process ends (logger.go:72, 97), only
\* when its connection has ended or its controller is closing: while a node
\* serves, whatever its monitor does, the limiter is there.
PanicHasCause == panicked # Nil => panicked.ctl = "closing" \/ ~ panicked.open

\* What makes it so: the stages at which a node has a limiter, and those at
\* which it has open connections.
Limited ==
    \A n \in Nodes :
        ctl[n] \in {"limited", "serving", "up", "changing", "syncing", "deleted"} => flag[n] # Nil

Served == \A c \in Conns : conn[c] # Nil /\ conn[c].open => ctl[conn[c].node] \in Serving

LimiterInv == Limited /\ Served /\ PanicHasCause

\* AccessIsListed, and what the change of a list has done so far.
AccessInv ==
    /\ \A n \in Nodes :
          /\ ctl[n] = "changing" => list[n] \cap next[n] \subseteq usersMap \cup shutOut
          /\ ctl[n] = "syncing" => next[n] \subseteq usersMap \cup shutOut
          /\ ctl[n] \notin {"changing", "syncing"} => next[n] = list[n]
    /\ AccessIsListed
=============================================================================
