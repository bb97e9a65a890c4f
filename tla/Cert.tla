-------------------------------- MODULE Cert --------------------------------
(* node/cert.go and node/lego.go: how the nodes of one server get, keep and  *)
(* renew a certificate and its key, which lie in two files that several      *)
(* nodes may share.  Time passes in days.  The goroutines are each node's    *)
(* own (Start, later the monitor) and that of its renewal task.              *)
EXTENDS Integers, FiniteSets

CONSTANTS
    N,             \* how many nodes share the files; they start in this order
    Life, Margin,  \* days a certificate lasts; days left when it is renewed
    MaxDay,        \* bound on the time
    MaxCrashes,    \* bound on the crashes
    MaxReloads,    \* bound on the reloads
    MaxIssued,     \* bound on the certificates issued
    Nil, Torn      \* no file; a file whose writing was cut short

ASSUME CertAssumption ==
    /\ N \in Nat \ {0} /\ MaxDay \in Nat /\ MaxCrashes \in Nat /\ MaxReloads \in Nat /\ MaxIssued \in Nat
    /\ Life \in Nat /\ Margin \in 0..Life
    /\ Nil # Torn /\ {Nil, Torn} \cap (Nat \cup [serial : Nat, until : Nat]) = {}

Nodes == 1..N
Own == [node : Nodes, task : {FALSE}]
Tasks == [node : Nodes, task : {TRUE}]
Workers == Own \cup Tasks
OwnOf(x) == [node |-> x, task |-> FALSE]
TaskOf(x) == [node |-> x, task |-> TRUE]

VARIABLES
    mode,             \* CertMode: "acme" ("dns" or "http") or "self"
    cert, key,        \* the files CertFile and KeyFile
    account,          \* the ACME account's file: none, torn or whole
    issued, day,      \* certificates issued so far; today
    ctl, tls, task,   \* per node: controller, Security == Tls, has a renewal task
    due,              \* per node: its task's timer has fired
    pc, got,          \* per goroutine: where it is, the certificate it was given,
                      \* or has read for the core
    crashes, reloads,
    spoiled, raced, cut, failed, since  \* history: see the properties

files == <<cert, key, account>>
world == <<mode, issued, day>>
bounds == <<crashes, reloads>>
nodes == <<ctl, tls, task, due>>
work == <<pc, got>>
history == <<spoiled, raced, cut, failed, since>>
vars == <<files, world, nodes, work, bounds, history>>

NoCert == [serial |-> 0, until |-> 0]
Certs == [serial : 0..issued, until : 0..(MaxDay + Life)]

Writing == {"truncateCert", "putCert", "truncateKey", "putKey"}
Stages == {"idle", "request", "account", "register", "save", "check", "obtain",
           "load", "loadKey", "add"} \cup Writing

TypeOK ==
    /\ mode \in {"acme", "self"}
    /\ cert \in Certs \cup {Nil, Torn} /\ key \in 0..issued \cup {Nil, Torn}
    /\ account \in {"none", "torn", "whole"}
    /\ issued \in Nat /\ day \in 0..MaxDay
    /\ ctl \in [Nodes -> {"down", "starting", "up", "reloading", "lost"}]
    /\ tls \in [Nodes -> BOOLEAN] /\ task \in [Nodes -> BOOLEAN]
    /\ due \in [Nodes -> BOOLEAN]
    /\ pc \in [Workers -> Stages] /\ got \in [Workers -> Certs \cup {Nil, Torn}]
    /\ \A w \in Workers : pc[w] \in Writing => got[w] \in Certs
    /\ crashes \in 0..MaxCrashes /\ reloads \in 0..MaxReloads
    /\ spoiled \in BOOLEAN /\ raced \subseteq Nodes /\ cut \in BOOLEAN
    /\ failed \in Nat /\ since \in [Nodes -> 0..MaxDay]

Init ==
    /\ mode \in {"acme", "self"}
    /\ cert = Nil /\ key = Nil /\ account = "none"
    /\ issued = 0 /\ day = 0
    /\ ctl = [x \in Nodes |-> "down"] /\ tls \in [Nodes -> BOOLEAN]
    /\ task = [x \in Nodes |-> FALSE] /\ due = [x \in Nodes |-> FALSE]
    /\ pc = [w \in Workers |-> "idle"] /\ got = [w \in Workers |-> NoCert]
    /\ crashes = 0 /\ reloads = 0
    /\ spoiled = FALSE /\ raced = {} /\ cut = FALSE
    /\ failed = 0 /\ since = [x \in Nodes |-> 0]

-----------------------------------------------------------------------------
Goto(w, stage) == pc' = [pc EXCEPT ![w] = stage]

Writers == {w \in Workers : pc[w] \in Writing \ {"truncateCert"}}
Saving == \E w \in Workers : pc[w] = "save"

\* The process ends and leaves its files as they are.  What it was writing is
\* lost to the next one only if both files exist: requestCert makes both anew
\* when one is missing.
ProcessEnds ==
    /\ cut' = (cut \/ Saving) /\ raced' = {}
    /\ spoiled' = (spoiled \/ (Writers # {} /\ cert # Nil /\ key # Nil))
    /\ ctl' = [x \in Nodes |-> "down"]
    /\ task' = [x \in Nodes |-> FALSE] /\ due' = [x \in Nodes |-> FALSE]
    /\ pc' = [w \in Workers |-> "idle"] /\ got' = [w \in Workers |-> NoCert]
    /\ since' = [x \in Nodes |-> 0]
    /\ UNCHANGED <<files, world, tls, failed>>

\* The machine or an operator stops the process.
Crash ==
    /\ crashes < MaxCrashes /\ crashes' = crashes + 1 /\ UNCHANGED reloads
    /\ \E x \in Nodes : ctl[x] # "down"
    /\ ProcessEnds

RunsOut == cert \notin {Nil, Torn} /\ cert.until - day <= Margin

\* Where a goroutine goes when a certificate could not be had: a task waits
\* for tomorrow, Start fails and the server exits, a monitor returns with its
\* node deleted.
GiveUp(w) ==
    \/ /\ w.task
       /\ Goto(w, "idle")
       /\ failed' = IF failed < Margin + 2 /\ RunsOut THEN failed + 1 ELSE failed
       /\ UNCHANGED <<files, world, nodes, got, bounds, spoiled, raced, cut, since>>
    \/ /\ ~ w.task /\ ctl[w.node] = "starting"
       /\ ProcessEnds /\ UNCHANGED bounds
    \/ /\ ~ w.task /\ ctl[w.node] = "reloading"
       /\ Goto(w, "idle")
       /\ ctl' = [ctl EXCEPT ![w.node] = "lost"]
       /\ UNCHANGED <<files, world, tls, task, due, got, bounds, history>>

-----------------------------------------------------------------------------
(* The controllers.                                                          *)

\* node.Start starts one node after the other.
StartNode(x) ==
    /\ ctl[x] = "down" /\ \A y \in 1..(x - 1) : ctl[y] # "down" /\ ctl[y] # "starting"
    /\ \A y \in Nodes : y > x => ctl[y] = "down"
    /\ ctl' = [ctl EXCEPT ![x] = "starting"]
    /\ Goto(OwnOf(x), IF tls[x] THEN "request" ELSE "add")
    /\ UNCHANGED <<files, world, tls, task, due, got, bounds, history>>

\* The monitor reloads a node of which the panel has changed the Security, or
\* something else.
Reload(x) ==
    /\ ctl[x] = "up"
    /\ reloads < MaxReloads /\ reloads' = reloads + 1
    /\ \E secure \in BOOLEAN :
          /\ tls' = [tls EXCEPT ![x] = secure]
          /\ Goto(OwnOf(x), IF secure THEN "request" ELSE "add")
    /\ ctl' = [ctl EXCEPT ![x] = "reloading"]
    /\ UNCHANGED <<files, world, task, due, got, crashes, history>>

\* Faulty variant of RequestCert, for a mutant.
RequestCertEither(w) ==
    /\ pc[w] = "request"
    /\ Goto(w, IF cert # Nil \/ key # Nil THEN "load"
               ELSE IF mode = "self" THEN "obtain" ELSE "account")
    /\ UNCHANGED <<files, world, nodes, got, bounds, history>>

\* requestCert; both files exist: nothing to do, whatever they hold.
RequestCert(w) ==
    /\ pc[w] = "request"
    /\ Goto(w, IF cert # Nil /\ key # Nil THEN "load"
               ELSE IF mode = "self" THEN "obtain" ELSE "account")
    /\ UNCHANGED <<files, world, nodes, got, bounds, history>>

\* AddNode reads the two files of a TLS node, one after the other.
LoadCert(w) ==
    /\ pc[w] = "load"
    /\ got' = [got EXCEPT ![w] = cert]
    /\ raced' = IF Writers # {} THEN raced \cup {w.node} ELSE raced
    /\ Goto(w, "loadKey")
    /\ UNCHANGED <<files, world, nodes, bounds, spoiled, cut, failed, since>>

Fits(c, k) == c \notin {Nil, Torn} /\ k = c.serial

\* sing and hysteria2 refuse a pair that does not fit, which ends the process;
\* xray logs it and starts the node.  Then startTasks, from Start only, starts
\* the renewal task of a TLS node, which runs for the first time at once.
AddNode(w) ==
    /\ pc[w] \in {"loadKey", "add"}
    /\ LET x == w.node
           renews == ctl[x] = "starting" /\ tls[x] /\ mode = "acme"
       IN \/ /\ pc[w] = "loadKey" /\ ~ Fits(got[w], key)
             /\ ProcessEnds /\ UNCHANGED bounds
          \/ /\ ctl' = [ctl EXCEPT ![x] = "up"]
             /\ task' = [task EXCEPT ![x] = @ \/ renews]
             /\ due' = [due EXCEPT ![x] = @ \/ renews]
             /\ since' = [since EXCEPT ![x] = IF renews THEN day ELSE @]
             /\ got' = [got EXCEPT ![w] = NoCert]
             /\ raced' = raced \ {x}
             /\ Goto(w, "idle")
             /\ UNCHANGED <<files, world, tls, bounds, spoiled, cut, failed>>

-----------------------------------------------------------------------------
(* The renewal task, and what it shares with requestCert.                    *)

RenewCertTask(x) ==
    /\ due[x] /\ pc[TaskOf(x)] = "idle"
    /\ due' = [due EXCEPT ![x] = FALSE]
    /\ Goto(TaskOf(x), "account")
    /\ UNCHANGED <<files, world, ctl, tls, task, got, bounds, history>>

\* NewLego: the account is loaded, or is to be registered; a file that does not
\* decode, or a CA that does not answer, is an error.
NewLego(w) ==
    /\ pc[w] = "account"
    /\ \/ GiveUp(w)
       \/ /\ account = "whole"
          /\ Goto(w, IF w.task THEN "check" ELSE "obtain")
          /\ UNCHANGED <<files, world, nodes, got, bounds, history>>
       \/ /\ account = "none"
          /\ Goto(w, "register")
          /\ UNCHANGED <<files, world, nodes, got, bounds, history>>

\* Faulty variant of Register, for a mutant: the file is opened beforehand.
RegisterLast(w) ==
    /\ pc[w] = "register"
    /\ \/ GiveUp(w)
       \/ /\ Goto(w, IF account = "torn" THEN "save" ELSE "register")
          /\ account' = "torn"
          /\ UNCHANGED <<cert, key, world, nodes, got, bounds, history>>

\* The CA registers the account or refuses; Save empties the file, ...
Register(w) ==
    /\ pc[w] = "register"
    /\ \/ GiveUp(w)
       \/ /\ account' = "torn"
          /\ Goto(w, "save")
          /\ UNCHANGED <<cert, key, world, nodes, got, bounds, history>>

\* ... then writes it; what another node has written since then stays behind
\* it, if that was longer.
SaveUser(w) ==
    /\ pc[w] = "save"
    /\ \/ account' = "whole" /\ UNCHANGED cut
       \/ account = "whole" /\ account' = "torn" /\ cut' = TRUE
    /\ Goto(w, IF w.task THEN "check" ELSE "obtain")
    /\ UNCHANGED <<cert, key, world, nodes, got, bounds, spoiled, raced, failed, since>>

\* Faulty variant of NeedsRenewal, for a mutant.
NeedsRenewalLate(c) == c.until - day < Margin

\* CheckCert: the days left, at most Margin.
NeedsRenewal(c) == c.until - day <= Margin

\* A missing file is logged; one that does not parse returns false and an
\* error, of which RenewCert looks at the first.
CheckCert(w) ==
    /\ pc[w] = "check"
    /\ Goto(w, IF cert \notin {Nil, Torn} /\ NeedsRenewal(cert) THEN "obtain" ELSE "idle")
    /\ UNCHANGED <<files, world, nodes, got, bounds, history>>

\* Certificate.Obtain and Renew: the CA refuses, or gives a certificate to a
\* new key; "self" signs one itself, for thirty years.
Obtain(w) ==
    /\ pc[w] = "obtain"
    /\ \/ mode = "acme" /\ GiveUp(w)
       \/ /\ issued < MaxIssued /\ issued' = issued + 1
          /\ got' = [got EXCEPT ![w] = [serial |-> issued',
                 until |-> IF mode = "self" THEN MaxDay + Life ELSE day + Life]]
          /\ Goto(w, "truncateCert")
          /\ UNCHANGED <<files, mode, day, nodes, bounds, history>>

\* writeCert: each file is emptied, then written; generateSelfSslCertificate
\* opens them without emptying.
Emptied(f) == IF mode = "self" /\ f # Nil THEN f ELSE Torn

TruncateCert(w) ==
    /\ pc[w] = "truncateCert"
    /\ cert' = Emptied(cert)
    /\ spoiled' = (Writers # {})
    /\ raced' = raced \cup {x \in Nodes : pc[OwnOf(x)] = "loadKey"}
    /\ Goto(w, "putCert")
    /\ UNCHANGED <<key, account, world, nodes, got, bounds, cut, failed, since>>

PutCert(w) ==
    /\ pc[w] = "putCert"
    /\ cert' = got[w]
    /\ failed' = 0
    /\ Goto(w, "truncateKey")
    /\ UNCHANGED <<key, account, world, nodes, got, bounds, spoiled, raced, cut, since>>

TruncateKey(w) ==
    /\ pc[w] = "truncateKey"
    /\ key' = Emptied(key)
    /\ Goto(w, "putKey")
    /\ UNCHANGED <<cert, account, world, nodes, got, bounds, history>>

\* Faulty variant of PutKey, for a mutant: a renewal keeps the key there was.
PutKeyOfFirst(w) ==
    /\ pc[w] = "putKey"
    /\ key' = IF w.task THEN got[w].serial - 1 ELSE got[w].serial
    /\ got' = [got EXCEPT ![w] = NoCert]
    /\ Goto(w, IF w.task THEN "idle" ELSE "load")
    /\ UNCHANGED <<cert, account, world, nodes, bounds, history>>

PutKey(w) ==
    /\ pc[w] = "putKey"
    /\ key' = got[w].serial
    /\ got' = [got EXCEPT ![w] = NoCert]
    /\ Goto(w, IF w.task THEN "idle" ELSE "load")
    /\ UNCHANGED <<cert, account, world, nodes, bounds, history>>

\* A day passes when what it was to do is done: a renewal takes minutes.
NextDay ==
    /\ day < MaxDay
    /\ \A w \in Workers : pc[w] = "idle"
    /\ \A x \in Nodes : ~ due[x] /\ ctl[x] # "starting"
    /\ Cardinality({ctl[x] = "down" : x \in Nodes}) = 1  \* all or none is down
    /\ day' = day + 1
    /\ due' = task
    /\ UNCHANGED <<files, mode, issued, ctl, tls, task, work, bounds, history>>

-----------------------------------------------------------------------------
Worker(w) ==
    \/ RequestCert(w) \/ LoadCert(w) \/ AddNode(w) \/ NewLego(w) \/ Register(w) \/ SaveUser(w)
    \/ CheckCert(w) \/ Obtain(w) \/ TruncateCert(w) \/ PutCert(w) \/ TruncateKey(w) \/ PutKey(w)

\* The bound on the time is reached.
Over == day = MaxDay /\ UNCHANGED vars

Next ==
    \/ Crash \/ NextDay \/ Over
    \/ \E x \in Nodes : StartNode(x) \/ Reload(x) \/ RenewCertTask(x)
    \/ \E w \in Workers : Worker(w)

Spec == Init /\ [][Next]_vars

-----------------------------------------------------------------------------
(* Properties.  History: "spoiled", the last pair was written by two at once *)
(* or its writing was cut short when both files existed; "raced", nodes      *)
(* during whose last loading somebody wrote; "cut", the process ended while  *)
(* an account was being saved, or one was written over another's; "failed",  *)
(* renewals that failed since the certificate was written and ran out, at    *)
(* most Margin + 2; "since", the day a node's task started.                  *)

Quiet == \A w \in Workers : pc[w] = "idle"

\* When nobody is writing, the certificate belongs to the key beside it,
\* unless two nodes wrote at once or the process ended within writeCert
\* (lego.go:154: two files, one after the other, no rename and no lock).
PairMatches == Quiet /\ cert # Nil /\ key # Nil /\ ~ spoiled => Fits(cert, key)

\* The pair a node's core has read fits, unless it was spoiled before, or a
\* renewal or another node's request was writing while it was read: an end of
\* the process in the middle of the first request is repaired by requestCert
\* (cert.go:43 asks for both files).
LoadsItsPair ==
    \A x \in Nodes :
        pc[OwnOf(x)] = "loadKey" /\ ~ spoiled /\ x \notin raced => Fits(got[OwnOf(x)], key)

\* An account that does not load, with which no certificate is had any more, is
\* left by an end of the process within Save (lego.go:248) or by two nodes that
\* save at once; not by a CA that refuses, nor by one node that registers when
\* another has.
AccountLoads == account = "torn" => Saving \/ cut

\* What makes them so.  Only a node's own goroutine requests and loads, and
\* loads a pair that exists; unless it is spoiled, there is at most one writer,
\* which has put the certificate it was given, or none and a pair that fits;
\* and what a node has read is what is there, until somebody writes.
OwnInv ==
    \A w \in Workers :
        /\ pc[w] \in {"request", "load", "loadKey", "add"} => ~ w.task
        /\ pc[w] # "idle" /\ ~ w.task => ctl[w.node] \in {"starting", "reloading"}
        /\ pc[w] \in {"load", "loadKey"} => cert # Nil /\ key # Nil

PairInv ==
    /\ \A w \in Writers : cert # Nil
    /\ ~ spoiled =>
          /\ \A v, w \in Writers : v = w
          /\ \A w \in Writers : pc[w] \in {"truncateKey", "putKey"} => cert = got[w]
          /\ Writers = {} /\ cert # Nil /\ key # Nil => Fits(cert, key)

ReadInv ==
    \A x \in Nodes :
        pc[OwnOf(x)] = "loadKey" /\ x \notin raced => Writers = {} /\ got[OwnOf(x)] = cert

FilesInv == OwnInv /\ PairInv /\ ReadInv

\* A certificate has run out under a node that renews it only if a renewal
\* failed on each of its last Margin + 1 days and after: the task neither
\* stops nor looks too late (lego.go:138, task.go:39).  A certificate lasts
\* longer than the days it is renewed ahead of, or its first day would count
\* before it was written.
ExpiryIsRefused ==
    \A x \in Nodes :
        /\ task[x] /\ Quiet /\ ~ due[x]
        /\ cert \notin {Nil, Torn} /\ cert.until < day
        /\ since[x] <= cert.until - Margin
        => failed >= Margin + 2

\* What makes it so.  What a goroutine is given, or has just written, is of
\* today; and a renewal failed on each day a node's task found the certificate
\* running out, today's run included once it is over.
Whole == cert \notin {Nil, Torn}
FailedOn(n) == failed >= n \/ failed >= Margin + 2
DaysLate == day - (cert.until - Margin)

FreshInv ==
    \A w \in Workers :
        /\ pc[w] \in {"truncateCert", "putCert"} => got[w].until >= day + Life
        /\ pc[w] \in {"truncateKey", "putKey"} /\ Whole => cert.until >= day + Life

InCharge(x) == task[x] /\ Whole /\ since[x] <= cert.until - Margin
RanToday(x) == ~ due[x] /\ pc[TaskOf(x)] = "idle"
Renewed(x) ==
    InCharge(x) => FailedOn(DaysLate) /\ (RanToday(x) => FailedOn(DaysLate + 1))

RenewInv == \A x \in Nodes : Renewed(x)
=============================================================================
