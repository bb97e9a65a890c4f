--------------------------- MODULE NodeSync_proofs ---------------------------
(***************************************************************************)
(* Proofs about NodeSync, for every value of its constants: type           *)
(* correctness; for a node with a single runner, Agreement, no needless    *)
(* kick, and no panic that was not injected; and about TaskRunner, the     *)
(* task whose goroutines its runners are.                                  *)
(***************************************************************************)
EXTENDS NodeSync, TaskRunner, TLAPS

(* NodeSync's type invariant holds: no handler of node/task.go or           *)
(* node/controller.go leaves a variable outside its set of values.          *)
THEOREM TypeCorrect == Spec => []TypeOK
<1> USE NodeSyncAssumption
<1>1. Init => TypeOK
  BY DEF Init, TypeOK, Tables, Empty, Stages, ReloadStages
<1>2. TypeOK /\ [Next]_vars => TypeOK'
  <2> SUFFICES ASSUME TypeOK, [Next]_vars PROVE TypeOK'
    OBVIOUS
  <2> USE DEF TypeOK, ReloadStages
  <2>1. CASE UNCHANGED vars
    BY <2>1 DEF vars, panel, client, control, core, limit, locals
  <2>2. CASE PanelEdit
    BY <2>2 DEF PanelEdit, client, control, core, limit, locals
  <2>3. CASE Ended
    BY <2>3 DEF Ended, vars, panel, client, control, core, limit, locals
  <2>4. ASSUME NEW r \in Runners, Ask(r) PROVE TypeOK'
    <3>1. CASE AskNodeOk(r)
      BY <3>1 DEF AskNodeOk, Goto, Stages, panel, client, control, core, limit
    <3>2. CASE AskNodeFails(r)
      BY <3>2 DEF AskNodeFails, Goto, Stages, panel, client, control, core, limit
    <3>3. CASE AskUsersOk(r)
      BY <3>3 DEF AskUsersOk, Goto, Stages, panel, client, control, core, limit
    <3>4. CASE AskUsersFails(r)
      BY <3>4 DEF AskUsersFails, Goto, Stages, panel, client, control, core, limit
    <3> QED BY <2>4, <3>1, <3>2, <3>3, <3>4 DEF Ask
  <2>5. ASSUME NEW r \in Runners, Round(r) PROVE TypeOK'
    <3> USE DEF Running, Goto, Stages, GiveUp, PanicStop, Leave, ForgetLocals,
                panel, client, control, core, limit, locals
    <3>1. CASE TakeNode(r)
      BY <3>1 DEF TakeNode, EtagOf
    <3>2. CASE TakeUsers(r)
      <4>1. Empty \in Tables
        BY DEF Empty, Tables
      <4>2. answer[r] # Fail => answer[r] \in Tables \cup {Nil}
        BY <3>2 DEF TakeUsers, Branch
      <4>3. CASE answer[r] = Fail
        BY <3>2, <4>3 DEF TakeUsers, Branch
      <4>4. CASE answer[r] # Fail /\ GiveUp(r)
        BY <3>2, <4>2, <4>4 DEF TakeUsers, Branch
      <4>5. ASSUME answer[r] # Fail, NEW l \in Decoded(answer[r]),
                   newU' = [newU EXCEPT ![r] = l],
                   Goto(r, Branch(newN[r], l)),
                   UNCHANGED <<mode, answer, newN, del, add>>
            PROVE TypeOK'
        <5>1. l \in Tables \cup {Nil}
          BY <4>1, <4>2, <4>5 DEF Decoded
        <5> QED BY <3>2, <4>2, <4>5, <5>1 DEF TakeUsers, Branch
      <4> QED BY <3>2, <4>3, <4>4, <4>5 DEF TakeUsers, Branch
    <3>3. CASE BeginReload(r)
      BY <3>3 DEF BeginReload
    <3>4. CASE DropNode(r)
      BY <3>4 DEF DropNode
    <3>5. CASE ReplaceLimiter(r)
      BY <3>5 DEF ReplaceLimiter
    <3>6. CASE RequestCert(r)
      BY <3>6 DEF RequestCert
    <3>7. CASE AddNode(r)
      BY <3>7 DEF AddNode
    <3>8. CASE AddAllUsers(r)
      BY <3>8 DEF AddAllUsers, CoreAdds, CoreAddFails, Listed
    <3>9. CASE FinishReload(r)
      BY <3>9 DEF FinishReload
    <3>10. CASE CompareUsers(r)
      BY <3>10 DEF CompareUsers, Deleted, Added, Listed
    <3>11. CASE DelUsers(r)
      BY <3>11 DEF DelUsers, CoreDeletes, CoreDeleteFails
    <3>12. CASE AddUsers(r)
      BY <3>12 DEF AddUsers, CoreAdds, CoreAddFails
    <3>13. CASE Commit(r)
      BY <3>13 DEF Commit, Tables
    <3> QED BY <2>5, <3>1, <3>2, <3>3, <3>4, <3>5, <3>6, <3>7, <3>8, <3>9,
               <3>10, <3>11, <3>12, <3>13 DEF Round
  <2> QED BY <2>1, <2>2, <2>3, <2>4, <2>5 DEF Next
<1>3. QED BY <1>1, <1>2, PTL DEF Spec

-----------------------------------------------------------------------------
(* The limiter's update brings it to the fetched list: what Commit writes   *)
(* matches newU when the limiter matched the list compared with (node/user.go *)
(* compareUserList, limiter/limiter.go UpdateUser).                          *)
LEMMA UpdateMatches ==
    ASSUME NEW l \in Tables, NEW old \in Tables, NEW new \in Tables, Matches(l, old)
    PROVE  LET up == [u \in Users |-> IF u \in Added(old, new) THEN new[u]
                                      ELSE IF u \in Deleted(old, new) THEN Nil ELSE l[u]]
           IN Matches(up, new)
<1> DEFINE up == [u \in Users |-> IF u \in Added(old, new) THEN new[u]
                                  ELSE IF u \in Deleted(old, new) THEN Nil ELSE l[u]]
<1> USE DEF Matches, Added, Deleted, Listed, SameKey
<1>1. ASSUME NEW u \in Users, new[u] # Nil
      PROVE  up[u] # Nil /\ up[u].speed = new[u].speed
  <2>1. CASE u \in Added(old, new)
    BY <1>1, <2>1
  <2>2. CASE u \notin Added(old, new)
    <3>1. old[u] # Nil /\ old[u].speed = new[u].speed /\ u \notin Deleted(old, new)
      BY <1>1, <2>2
    <3>2. l[u] # Nil /\ l[u].speed = old[u].speed
      BY <3>1
    <3> QED BY <2>2, <3>1, <3>2
  <2> QED BY <2>1, <2>2
<1>2. ASSUME NEW u \in Users, new[u] = Nil
      PROVE  up[u] = Nil
  <2>1. u \notin Added(old, new)
    BY <1>2
  <2>2. CASE old[u] # Nil
    BY <1>2, <2>1, <2>2
  <2>3. CASE old[u] = Nil
    BY <2>1, <2>3
  <2> QED BY <2>2, <2>3
<1> HIDE DEF up
<1>3. Matches(up, new)
  BY <1>1, <1>2
<1> QED BY <1>3 DEF up

(* Deleting then adding what compareUserList found turns the old user set    *)
(* into the new one.                                                         *)
LEMMA UpdateListed ==
    ASSUME NEW old \in Tables, NEW new \in Tables
    PROVE  /\ (Listed(old) \ Deleted(old, new)) \cup Added(old, new) = Listed(new)
           /\ (Listed(old) \ Deleted(old, new)) \cap Added(old, new) = {}
           /\ Deleted(old, new) \subseteq Listed(old)
BY DEF Listed, Deleted, Added, SameKey

-----------------------------------------------------------------------------
(* SyncInv is inductive for a steady node: one step per handler's action.    *)
LEMMA SyncStep ==
    ASSUME Steady, TypeOK, TypeOK', SyncInv, [Next]_vars
    PROVE  SyncInv'
<1> USE NodeSyncAssumption DEF SyncInv
<1>1. CASE UNCHANGED vars
  BY <1>1 DEF vars, panel, client, control, core, limit, locals, Served
<1>2. CASE PanelEdit
  BY <1>2 DEF PanelEdit, client, control, core, limit, locals, Served
<1>3. CASE Ended
  BY <1>3 DEF Ended, vars, panel, client, control, core, limit, locals, Served
<1>4. ASSUME NEW r \in Runners, Ask(r) PROVE SyncInv'
  <2>1. r = 1
    BY <1>4 DEF Ask, AskNodeOk, AskNodeFails, AskUsersOk, AskUsersFails, Running
  <2>a. UNCHANGED <<client, control, core, limit, mode, newN, newU, del, add>>
    BY <1>4 DEF Ask, AskNodeOk, AskNodeFails, AskUsersOk, AskUsersFails
  <2>b. Served' = Served /\ Listed(userList)' = Listed(userList)
    BY <2>a DEF Served, control, core, limit
  <2> USE <2>1, <2>a, <2>b DEF Goto, Running, client, control, core, TypeOK, ReloadStages
  <2>2. CASE AskNodeOk(r)
    BY <2>2 DEF AskNodeOk
  <2>3. CASE AskNodeFails(r)
    BY <2>3 DEF AskNodeFails
  <2>4. CASE AskUsersOk(r)
    BY <2>4 DEF AskUsersOk
  <2>5. CASE AskUsersFails(r)
    BY <2>5 DEF AskUsersFails
  <2> QED BY <1>4, <2>2, <2>3, <2>4, <2>5 DEF Ask
<1>5. ASSUME NEW r \in Runners, Round(r) PROVE SyncInv'
  <2>1. r = 1
    BY <1>5 DEF Round, Running, TakeNode, TakeUsers, BeginReload, DropNode,
                ReplaceLimiter, RequestCert, AddNode, AddAllUsers, FinishReload,
                CompareUsers, DelUsers, AddUsers, Commit
  <2>2. pc \in [Runners -> Stages] /\ 1 \in Runners
    BY DEF TypeOK
  <2>3. newN \in [Runners -> Configs \cup {Nil}] /\ newU \in [Runners -> Tables \cup {Nil}]
        /\ del \in [Runners -> SUBSET Users] /\ add \in [Runners -> SUBSET Users]
        /\ mode \in {"boot", "up", "exited", "panicked"}
    BY DEF TypeOK
  <2> USE <2>1, <2>2, <2>3
          DEF Goto, Running, GiveUp, PanicStop, Leave, ForgetLocals,
              control, core, limit, locals, ReloadStages
  <2>4. CASE TakeNode(r)
    BY <2>4 DEF TakeNode, EtagOf, Served
  <2>5. CASE TakeUsers(r)
    <3>1. CASE GiveUp(r)
      BY <2>5, <3>1 DEF TakeUsers, Branch, Served
    <3>2. CASE /\ Goto(r, Branch(newN[r], Nil))
               /\ UNCHANGED <<mode, answer, newN, del, add>>
      BY <2>5, <3>2 DEF TakeUsers, Branch, Served
    <3> QED BY <2>5, <3>1, <3>2 DEF TakeUsers, Branch
  <2>6. CASE BeginReload(r)
    BY <2>6 DEF BeginReload
  <2>7. CASE DropNode(r)
    BY <2>7 DEF DropNode
  <2>8. CASE ReplaceLimiter(r)
    BY <2>8 DEF ReplaceLimiter, Steady
  <2>9. CASE RequestCert(r)
    BY <2>9 DEF RequestCert
  <2>10. CASE AddNode(r)
    BY <2>10 DEF AddNode
  <2>11. CASE AddAllUsers(r)
    <3>1. pc[1] = "addAll" /\ mode \in {"boot", "up"} /\ coreUsers = {} /\ node = newN[1]
      BY <2>11 DEF AddAllUsers
    <3>2. newN[1] # Nil
      BY <3>1 DEF TypeOK
    <3>3. ~ CoreAddFails(Listed(userList))
      BY <3>1, <3>2 DEF CoreAddFails, Steady
    <3>4. coreUsers' = Listed(userList) /\ pc' = [pc EXCEPT ![1] = "interval"]
          /\ UNCHANGED <<mode, locals, panel, client, control, node, limit>>
      BY <2>11, <3>1, <3>3 DEF AddAllUsers, CoreAdds
    <3>5. Listed(userList)' = Listed(userList)
      BY <3>4 DEF Listed
    <3> QED BY <3>1, <3>4, <3>5
  <2>12. CASE FinishReload(r)
    BY <2>12 DEF FinishReload, Steady, OneInterval, Served, Matches, TypeOK
  <2>13. CASE CompareUsers(r)
    <3>1. CASE Leave(r)
      BY <2>13, <3>1 DEF CompareUsers, Served
    <3>2. CASE /\ del' = [del EXCEPT ![r] = Deleted(userList, newU[r])]
               /\ add' = [add EXCEPT ![r] = Added(userList, newU[r])]
               /\ Goto(r, "del")
               /\ UNCHANGED <<answer, newN, newU>>
      <4>1. Deleted(userList, newU[1])' = Deleted(userList, newU[1])
            /\ Added(userList, newU[1])' = Added(userList, newU[1])
        BY <2>13, <3>2 DEF CompareUsers
      <4>2. Served' = Served /\ Listed(userList)' = Listed(userList)
        BY <2>13 DEF CompareUsers, Served
      <4> QED BY <2>13, <3>2, <4>1, <4>2 DEF CompareUsers
    <3> QED BY <2>13, <3>1, <3>2 DEF CompareUsers
  <2>14. CASE DelUsers(r)
    BY <2>14, UpdateListed DEF DelUsers, CoreDeletes, CoreDeleteFails, Steady, TypeOK, Served
  <2>15. CASE AddUsers(r)
    BY <2>15, UpdateListed DEF AddUsers, CoreAdds, CoreAddFails, Steady, TypeOK, Served
  <2>16. CASE Commit(r)
    <3>1. newU[1] \in Tables /\ userList \in Tables /\ lim \in Tables
      BY <2>16 DEF Commit, TypeOK
    <3>2. node # Nil => coreUsers = Listed(newU[1])
      BY <2>16, <3>1, UpdateListed, ZenonT(30) DEF Commit
    <3>3. node # Nil => Matches(lim', newU[1])
      BY <2>16, <3>1, UpdateMatches DEF Commit, Served
    <3>4. node # Nil => Served' /\ coreUsers' = Listed(userList')
      BY <2>16, <3>2, <3>3 DEF Commit, Served
    <3> QED BY <2>16, <3>4 DEF Commit
  <2> QED BY <1>5, <2>4, <2>5, <2>6, <2>7, <2>8, <2>9, <2>10, <2>11, <2>12,
             <2>13, <2>14, <2>15, <2>16 DEF Round
<1> QED BY <1>1, <1>2, <1>3, <1>4, <1>5 DEF Next

(* Between rounds the core, the limiter and the controller agree on the node *)
(* and its users, whatever requests to the panel, certificates or nodes fail *)
(* (node/task.go, nodeInfoMonitor; node/controller.go, Start).               *)
THEOREM AgreementHolds == ASSUME Steady PROVE Spec => []Agreement
<1>1. Init => SyncInv
  BY NodeSyncAssumption DEF Init, SyncInv, ReloadStages
<1>2. TypeOK /\ TypeOK' /\ SyncInv /\ [Next]_vars => SyncInv'
  BY SyncStep
<1>3. SyncInv => Agreement
  BY NodeSyncAssumption DEF SyncInv, Agreement, Quiet, Served, Matches
<1>4. QED BY <1>1, <1>2, <1>3, TypeCorrect, PTL DEF Spec

-----------------------------------------------------------------------------
(* One runner.                                                               *)

(* A task is restarted only for a changed interval, so there stays one       *)
(* runner, and no other changes the list it has compared with.               *)
LEMMA LoneStep ==
    ASSUME OneInterval, TypeOK, LoneInv, [Next]_vars
    PROVE  LoneInv'
<1> USE NodeSyncAssumption DEF LoneInv
<1>0. /\ pc \in [Runners -> Stages] /\ 1 \in Runners
      /\ del \in [Runners -> SUBSET Users] /\ newU \in [Runners -> Tables \cup {Nil}]
      /\ mode \in {"boot", "up", "exited", "panicked"}
  BY DEF TypeOK
<1>1. CASE UNCHANGED vars \/ PanelEdit \/ Ended
  BY <1>1 DEF vars, PanelEdit, Ended, client, control, core, limit, locals
<1>2. ASSUME NEW r \in Runners, Ask(r) PROVE LoneInv'
  <2>1. r = 1
    BY <1>2 DEF Ask, AskNodeOk, AskNodeFails, AskUsersOk, AskUsersFails, Running
  <2>2. UNCHANGED <<interval, mode>> /\ \E s \in {"node", "users"} : pc' = [pc EXCEPT ![1] = s]
    BY <1>2, <2>1 DEF Ask, AskNodeOk, AskNodeFails, AskUsersOk, AskUsersFails, Goto, control
  <2> QED BY <1>0, <2>2
<1>3. ASSUME NEW r \in Runners, Round(r) PROVE LoneInv'
  <2>1. r = 1
    BY <1>3 DEF Round, Running, TakeNode, TakeUsers, BeginReload, DropNode,
                ReplaceLimiter, RequestCert, AddNode, AddAllUsers, FinishReload,
                CompareUsers, DelUsers, AddUsers, Commit
  <2>2. CASE FinishReload(r)
    <3>1. pc[1] = "interval" /\ newN[1] \in Configs
      BY <2>1, <2>2 DEF FinishReload, Running, TypeOK, ReloadStages
    <3>2. interval' = PullInterval[newN[1]] /\ pc' = [pc EXCEPT ![1] = "idle"]
      BY <2>1, <2>2, <3>1 DEF FinishReload, Goto, OneInterval, Running
    <3> QED BY <1>0, <3>1, <3>2
  <2>3. CASE CompareUsers(r)
    <3>1. UNCHANGED <<interval, mode, userList>>
      BY <2>3 DEF CompareUsers, control
    <3>2. CASE Leave(r)
      BY <1>0, <2>1, <3>1, <3>2 DEF Leave, Goto
    <3>3. CASE /\ del' = [del EXCEPT ![r] = Deleted(userList, newU[r])]
               /\ pc' = [pc EXCEPT ![r] = "del"] /\ UNCHANGED newU
      <4>1. Deleted(userList, newU[1])' = Deleted(userList, newU[1])
        BY <3>1, <3>3
      <4>2. del'[1] = Deleted(userList, newU[1])
        BY <1>0, <2>1, <3>3
      <4> QED BY <1>0, <2>1, <3>1, <3>3, <4>1, <4>2
    <3> QED BY <2>3, <3>2, <3>3 DEF CompareUsers, Goto
  <2>4. CASE ~ FinishReload(r) /\ ~ CompareUsers(r)
    <3>1. interval' = interval /\ mode' \in {mode, "exited", "panicked"}
      BY <1>3, <2>4 DEF Round, TakeNode, TakeUsers, BeginReload, DropNode, ReplaceLimiter,
                 RequestCert, AddNode, AddAllUsers, DelUsers, AddUsers, Commit, GiveUp,
                 PanicStop, control
    <3>2. \E s \in Stages \ {"off", "del"} : pc' = [pc EXCEPT ![1] = s]
      BY <1>3, <2>1, <2>4
         DEF Round, TakeNode, TakeUsers, Branch, BeginReload, DropNode, ReplaceLimiter,
             RequestCert, AddNode, AddAllUsers, DelUsers, AddUsers, Commit, GiveUp,
             PanicStop, Leave, Goto, Stages
    <3> QED BY <1>0, <3>1, <3>2
  <2> QED BY <2>2, <2>3, <2>4
<1> QED BY <1>1, <1>2, <1>3 DEF Next

(* With one pull interval for all configurations the monitor is never        *)
(* restarted beside itself, and what a round is about to delete is what      *)
(* compareUserList found missing in the controller's own list (node/task.go, *)
(* node/user.go).                                                            *)
THEOREM LoneInvHolds == ASSUME OneInterval PROVE Spec => []LoneInv
<1>1. Init => LoneInv
  BY NodeSyncAssumption DEF Init, LoneInv
<1>2. TypeOK /\ LoneInv /\ [Next]_vars => LoneInv'
  BY LoneStep
<1> QED BY <1>1, <1>2, TypeCorrect, PTL DEF Spec

(* While its node stays up, a user is disconnected only by a list that       *)
(* leaves him out or gives him another speed limit, even when the core       *)
(* refuses users half way (compareUserList of node/user.go, DelUsers of the  *)
(* cores): with one runner the list compared with is still the controller's. *)
THEOREM NoNeedlessKickHolds == ASSUME OneInterval PROVE Spec => NoNeedlessKick
<1> DEFINE Spared == \A u \in coreUsers \ coreUsers' : node' = node =>
          \E r \in Runners : newU[r] # Nil /\ ~ SameKey(u, userList, newU[r])
<1>1. TypeOK /\ LoneInv /\ [Next]_vars => Spared
  <2> SUFFICES ASSUME TypeOK, LoneInv, [Next]_vars, NEW u \in coreUsers \ coreUsers',
                      node' = node
               PROVE  \E r \in Runners : newU[r] # Nil /\ ~ SameKey(u, userList, newU[r])
    OBVIOUS
  <2>1. PICK r \in Runners : DropNode(r) \/ AddNode(r) \/ AddAllUsers(r) \/ DelUsers(r) \/ AddUsers(r)
    BY DEF Next, vars, PanelEdit, Ended, Ask, AskNodeOk, AskNodeFails, AskUsersOk, AskUsersFails,
           Round, TakeNode, TakeUsers, BeginReload, ReplaceLimiter, RequestCert, FinishReload,
           CompareUsers, Commit, core
  <2>2. ~ DropNode(r)
    BY DEF DropNode, core
  <2>3. ~ AddNode(r)
    BY DEF AddNode, Running, TypeOK, ReloadStages, core
  <2>4. ~ AddAllUsers(r) /\ ~ AddUsers(r)
    BY DEF AddAllUsers, AddUsers, CoreAdds, CoreAddFails
  <2>5. DelUsers(r)
    BY <2>1, <2>2, <2>3, <2>4
  <2>6. pc[r] = "del" /\ newU[r] # Nil /\ u \in del[r]
    BY <2>5 DEF DelUsers, Running, CoreDeletes, CoreDeleteFails, TypeOK
  <2>7. r = 1 /\ del[r] = Deleted(userList, newU[r])
    BY <2>6 DEF LoneInv
  <2> QED BY <2>6, <2>7 DEF Deleted
<1> QED BY <1>1, TypeCorrect, LoneInvHolds, PTL DEF Spec, NoNeedlessKick

(* The Panics of nodeInfoMonitor (node/task.go) need two runners at once, or *)
(* a certificate or a node that failed before: with neither, every DelNode   *)
(* finds its node and every AddNode its place free, whatever requests fail   *)
(* and whatever users the core refuses.                                      *)
THEOREM NeverPanicsAlone ==
    ASSUME OneInterval, Faults \cap {"cert", "addnode"} = {}
    PROVE  Spec => []NeverPanics
<1> USE DEF Replacing
<1>1. Init => WholeInv
  BY NodeSyncAssumption DEF Init, WholeInv, NeverPanics
<1>2. TypeOK /\ LoneInv /\ WholeInv /\ [Next]_vars => WholeInv'
  <2> SUFFICES ASSUME TypeOK, LoneInv, WholeInv, [Next]_vars PROVE WholeInv'
    OBVIOUS
  <2> USE NodeSyncAssumption DEF WholeInv, NeverPanics
  <2>0. pc \in [Runners -> Stages] /\ 1 \in Runners
        /\ mode \in {"boot", "up", "exited", "panicked"}
    BY DEF TypeOK
  <2>1. CASE UNCHANGED vars \/ PanelEdit \/ Ended
    BY <2>1 DEF vars, PanelEdit, Ended, client, control, core, limit, locals
  <2>2. ASSUME NEW r \in Runners, Ask(r) PROVE WholeInv'
    BY <2>0, <2>2 DEF Ask, AskNodeOk, AskNodeFails, AskUsersOk, AskUsersFails, Running, Goto,
                      core, LoneInv
  <2>3. ASSUME NEW r \in Runners, Round(r) PROVE WholeInv'
    <3>1. r = 1 /\ mode \in {"boot", "up"}
      BY <2>3 DEF Round, Running, TakeNode, TakeUsers, BeginReload, DropNode,
                  ReplaceLimiter, RequestCert, AddNode, AddAllUsers, FinishReload,
                  CompareUsers, DelUsers, AddUsers, Commit, LoneInv
    <3> USE <2>0, <3>1 DEF Running, Goto, GiveUp, PanicStop, Leave, core
    <3>2. CASE TakeNode(r)
      BY <3>2 DEF TakeNode
    <3>3. CASE TakeUsers(r)
      BY <3>3 DEF TakeUsers, Branch
    <3>4. CASE BeginReload(r)
      BY <3>4 DEF BeginReload
    <3>5. CASE DropNode(r)
      BY <3>5 DEF DropNode
    <3>6. CASE ReplaceLimiter(r)
      BY <3>6 DEF ReplaceLimiter
    <3>7. CASE RequestCert(r)
      BY <3>7 DEF RequestCert
    <3>8. CASE AddNode(r)
      BY <3>8 DEF AddNode, TypeOK, ReloadStages
    <3>9. CASE AddAllUsers(r)
      BY <3>9 DEF AddAllUsers
    <3>10. CASE FinishReload(r)
      <4>1. mode' = "up" /\ node # Nil /\ node' = node /\ pc[1] = "interval"
        BY <3>10 DEF FinishReload
      <4>2. newN[1] \in Configs
        BY <4>1 DEF TypeOK, ReloadStages
      <4>3. pc'[1] = "idle"
        BY <3>10, <4>1, <4>2 DEF FinishReload, OneInterval, LoneInv
      <4> QED BY <4>1, <4>3
    <3>11. CASE CompareUsers(r)
      BY <3>11 DEF CompareUsers
    <3>12. CASE DelUsers(r) \/ AddUsers(r)
      BY <3>12 DEF DelUsers, AddUsers
    <3>13. CASE Commit(r)
      BY <3>13 DEF Commit
    <3> QED BY <2>3, <3>2, <3>3, <3>4, <3>5, <3>6, <3>7, <3>8, <3>9, <3>10, <3>11, <3>12, <3>13
            DEF Round
  <2> QED BY <2>1, <2>2, <2>3 DEF Next
<1>3. WholeInv => NeverPanics
  BY DEF WholeInv
<1> QED BY <1>1, <1>2, <1>3, TypeCorrect, LoneInvHolds, PTL DEF Spec
-----------------------------------------------------------------------------
(* The task whose goroutines the runners are, for any number of Starts.      *)

(* Start, refused or not, keeps the invariants (task.go:16-55); p is place   *)
(* with the calling goroutine already moved on, place itself for the owner.  *)
LEMMA StartKeeps ==
  ASSUME TaskRunnerAssumption, TaskTypeOK, RunnerInv,
         NEW STATE p, NEW first \in BOOLEAN, StartTask(p, first),
         p \in [Goroutines -> Places],
         \A g \in Goroutines : p[g] = "unborn" <=> place[g] = "unborn",
         \A g \in Goroutines : p[g] = "wait" => place[g] = "wait",
         \A g \in Goroutines : p[g] = "dead" => place[g] = "dead",
         UNCHANGED <<waitsOn, panicked>>
  PROVE  TaskTypeOK' /\ RunnerInv'
<1> USE DEF TaskRunnerAssumption, TaskTypeOK, Goroutines, Places
<1>1. CASE running /\ place' = p /\ UNCHANGED <<running, stop, closed>>
  <2>1. stop \in Goroutines
    BY <1>1 DEF RunnerInv
  <2> QED BY <1>1, <2>1 DEF RunnerInv
<1>2. CASE ~ running /\ StartUnguarded(p, first)
  <2>1. stop + 1 \in Goroutines /\ stop' = stop + 1 /\ running' = TRUE /\ closed' = closed
    BY <1>2 DEF StartUnguarded
  <2>2. place' = [p EXCEPT ![stop + 1] = IF first THEN "execute" ELSE "select"]
    BY <1>2 DEF StartUnguarded
  <2>3. place'[stop + 1] \in {"execute", "select"}
    BY <2>1, <2>2
  <2>4. \A g \in Goroutines : g # stop + 1 => place'[g] = p[g]
    BY <2>1, <2>2
  <2>5. place' \in [Goroutines -> Places]
    BY <2>2
  <2>6. TaskTypeOK'
    BY <2>1, <2>5
  <2>7. (stop' # 0 /\ stop' \notin closed') /\ \A n \in 1 .. stop' : n # stop' => n \in closed'
    BY <1>2, <2>1 DEF RunnerInv
  <2>8. \A g \in Goroutines : place'[g] = "unborn" <=> g > stop'
    BY <2>1, <2>3, <2>4 DEF RunnerInv
  <2>9. \A g \in Goroutines : place'[g] = "wait" => g <= waitsOn'[g] /\ waitsOn'[g] <= stop'
    BY <2>1, <2>3, <2>4 DEF RunnerInv
  <2> QED BY <2>1, <2>3, <2>6, <2>7, <2>8, <2>9 DEF RunnerInv
<1> QED BY <1>1, <1>2 DEF StartTask

(* A goroutine that goes on to another stage, while the task's own fields    *)
(* change at most by closing the current channel, keeps the invariants.      *)
LEMMA MoveKeeps ==
  ASSUME TaskRunnerAssumption, TaskTypeOK, RunnerInv,
         NEW g \in Goroutines, NEW s \in Places \ {"unborn"},
         place[g] # "unborn", Move(g, s), UNCHANGED stop,
         (UNCHANGED <<running, closed>>) \/ (running' = FALSE /\ closed' = closed \cup {stop}),
         panicked' \in BOOLEAN,
         waitsOn' = waitsOn \/ waitsOn' = [waitsOn EXCEPT ![g] = stop],
         s = "wait" => waitsOn' = [waitsOn EXCEPT ![g] = stop],
         s = "dead" => (waitsOn[g] \in closed /\ place[g] = "wait") \/ running' = FALSE
  PROVE  TaskTypeOK' /\ RunnerInv'
<1> USE DEF TaskRunnerAssumption, TaskTypeOK, Goroutines, Places
<1>1. g <= stop /\ stop \in 1 .. MaxStarts
  BY DEF RunnerInv
<1>2. place'[g] = s /\ \A h \in Goroutines : h # g => place'[h] = place[h]
  BY DEF Move
<1>3. place' \in [Goroutines -> Places] /\ waitsOn' \in [Goroutines -> 0 .. MaxStarts]
  BY DEF Move
<1>4. closed' \subseteq 1 .. stop' /\ running' \in BOOLEAN
  <2>1. stop \in 1 .. stop
    BY <1>1
  <2> QED BY <2>1
<1>5. TaskTypeOK'
  BY <1>3, <1>4
<1>6. (running' <=> stop' # 0 /\ stop' \notin closed')
      /\ \A n \in 1 .. stop' : n # stop' => n \in closed'
  BY <1>1 DEF RunnerInv
<1>7. \A h \in Goroutines : place'[h] = "unborn" <=> h > stop'
  BY <1>2 DEF RunnerInv
<1>8. \A h \in Goroutines : place'[h] = "wait" => h <= waitsOn'[h] /\ waitsOn'[h] <= stop'
  BY <1>1, <1>2 DEF RunnerInv
<1>9. running' => place'[stop'] # "dead"
  <2>1. CASE s = "dead" /\ g = stop /\ running'
    BY <2>1, <1>6 DEF RunnerInv
  <2>2. CASE s # "dead" \/ g # stop
    <3>1. stop \in Goroutines
      BY <1>1
    <3> QED BY <1>1, <1>2, <2>2, <3>1 DEF RunnerInv
  <2> QED BY <2>1, <2>2
<1> QED BY <1>5, <1>6, <1>7, <1>8, <1>9 DEF RunnerInv

(* Both invariants of a task are inductive: whoever calls Start and Close,   *)
(* in whatever order, also from inside Execute and also after errors.        *)
THEOREM RunnerInvHolds == TaskSpec => [](TaskTypeOK /\ RunnerInv)
<1> USE TaskRunnerAssumption
<1>1. TaskInit => TaskTypeOK /\ RunnerInv
  <2> SUFFICES ASSUME TaskInit PROVE TaskTypeOK /\ RunnerInv
    OBVIOUS
  <2>1. running \in BOOLEAN /\ panicked \in BOOLEAN
    BY ZenonT(20) DEF TaskInit
  <2>2. stop \in 0 .. MaxStarts /\ closed \subseteq 1 .. stop
    BY DEF TaskRunnerAssumption, TaskInit
  <2>3. place \in [Goroutines -> Places] /\ waitsOn \in [Goroutines -> 0 .. MaxStarts]
    BY DEF TaskRunnerAssumption, TaskInit, Goroutines, Places
  <2>4. \A g \in Goroutines : place[g] = "unborn" /\ g > stop
    BY DEF TaskInit, Goroutines, TaskRunnerAssumption
  <2>5. RunnerInv
    BY <2>4 DEF TaskInit, RunnerInv
  <2> QED BY <2>1, <2>2, <2>3, <2>5 DEF TaskTypeOK
<1>2. TaskTypeOK /\ RunnerInv /\ [TaskNext]_taskVars => TaskTypeOK' /\ RunnerInv'
  <2> SUFFICES ASSUME TaskTypeOK, RunnerInv, [TaskNext]_taskVars PROVE TaskTypeOK' /\ RunnerInv'
    OBVIOUS
  <2>1. CASE UNCHANGED taskVars \/ TaskEnded
    <3>1. UNCHANGED taskVars
      BY <2>1 DEF TaskEnded
    <3>2. TaskTypeOK'
      BY <3>1 DEF taskVars, TaskTypeOK
    <3>3. RunnerInv'
      BY <3>1 DEF taskVars, RunnerInv
    <3> QED BY <3>2, <3>3
  <2>2. CASE OwnerStart
    <3>1. PICK first \in BOOLEAN : StartTask(place, first)
      BY <2>2 DEF OwnerStart
    <3>2. place \in [Goroutines -> Places] /\ UNCHANGED <<waitsOn, panicked>>
      BY <2>2 DEF OwnerStart, TaskTypeOK
    <3> QED BY <3>1, <3>2, StartKeeps
  <2>3. CASE OwnerClose
    <3>1. CASE running
      <4>1. stop # 0 /\ stop \notin closed
        BY <3>1 DEF RunnerInv
      <4>2. stop \in 1 .. stop
        BY <4>1 DEF TaskTypeOK
      <4>3. running' = FALSE /\ closed' = closed \cup {stop}
        BY <2>3, <3>1 DEF OwnerClose, CloseTask, CloseChannel
      <4>4. UNCHANGED <<stop, place, waitsOn>>
        BY <2>3 DEF OwnerClose
      <4>5. CloseChannel
        BY <2>3, <3>1 DEF OwnerClose, CloseTask
      <4>6. panicked' \in BOOLEAN
        BY <4>5 DEF CloseChannel
      <4>7. TaskTypeOK'
        BY <4>2, <4>3, <4>4, <4>6 DEF TaskTypeOK
      <4>8. RunnerInv'
        BY <4>3, <4>4 DEF RunnerInv
      <4> QED BY <4>7, <4>8
    <3>2. CASE ~ running
      <4>1. UNCHANGED taskVars
        BY <2>3, <3>2 DEF OwnerClose, CloseTask, taskVars
      <4> QED BY <4>1 DEF taskVars, TaskTypeOK, RunnerInv
    <3> QED BY <3>1, <3>2
  <2>4. ASSUME NEW g \in Goroutines, Step(g) PROVE TaskTypeOK' /\ RunnerInv'
    <3> USE DEF At, Places
    <3>1. CASE EnterSelect(g)
      BY <3>1, MoveKeeps DEF EnterSelect, TaskTypeOK
    <3>2. CASE TimerFires(g)
      BY <3>2, MoveKeeps DEF TimerFires, TaskTypeOK
    <3>3. CASE StopReceived(g)
      BY <3>3, MoveKeeps DEF StopReceived, TaskTypeOK
    <3>4. CASE ExecuteReturns(g)
      BY <3>4, MoveKeeps DEF ExecuteReturns, TaskTypeOK
    <3>5. CASE ExecuteFails(g)
      <4>1. panicked' \in BOOLEAN
        BY <3>5 DEF ExecuteFails, FailTask, CloseChannel
      <4>2. running' = FALSE /\ closed' = closed \cup {stop}
        BY <3>5 DEF ExecuteFails, FailTask, CloseChannel
      <4> QED BY <3>5, <4>1, <4>2, MoveKeeps DEF ExecuteFails
    <3>6. CASE SelfClose(g)
      <4>1. panicked' \in BOOLEAN
        BY <3>6 DEF SelfClose, CloseTask, CloseChannel, TaskTypeOK
      <4>2. (UNCHANGED <<running, closed>>) \/ (running' = FALSE /\ closed' = closed \cup {stop})
        BY <3>6 DEF SelfClose, CloseTask, CloseChannel
      <4> QED BY <3>6, <4>1, <4>2, MoveKeeps DEF SelfClose
    <3>7. CASE SelfStart(g)
      <4> DEFINE p == [place EXCEPT ![g] = "select"]
      <4>1. p \in [Goroutines -> Places] /\ place[g] = "restart"
        BY <3>7 DEF SelfStart, TaskTypeOK
      <4>2. \A h \in Goroutines : h # g => p[h] = place[h]
        BY DEF TaskTypeOK
      <4>3. p[g] = "select"
        BY DEF TaskTypeOK
      <4>4. StartTask(p, FALSE) /\ UNCHANGED <<waitsOn, panicked>>
        BY <3>7 DEF SelfStart
      <4> HIDE DEF p
      <4> QED BY <4>1, <4>2, <4>3, <4>4, StartKeeps
    <3> QED BY <2>4, <3>1, <3>2, <3>3, <3>4, <3>5, <3>6, <3>7 DEF Step
  <2> QED BY <2>1, <2>2, <2>3, <2>4 DEF TaskNext
<1> QED BY <1>1, <1>2, PTL DEF TaskSpec

(* Every goroutine can be stopped: none waits on an open channel that the    *)
(* task has forgotten (task.go:37-42, t.stop read anew in each round).       *)
THEOREM StoppableHolds == TaskSpec => []Stoppable
<1>1. TaskTypeOK /\ RunnerInv => Stoppable
  <2> SUFFICES ASSUME TaskTypeOK, RunnerInv, NEW g \in Goroutines, place[g] = "wait"
               PROVE  waitsOn[g] = stop \/ waitsOn[g] \in closed
    BY DEF Stoppable
  <2>1. waitsOn[g] \in 1 .. stop
    BY DEF RunnerInv, TaskTypeOK, Goroutines
  <2> QED BY <2>1 DEF RunnerInv
<1> QED BY <1>1, RunnerInvHolds, PTL

(* A running task has its latest goroutine alive (task.go:16-28, 44-50).     *)
THEOREM RunningIsServedHolds == TaskSpec => []RunningIsServed
<1>1. TaskTypeOK /\ RunnerInv => RunningIsServed
  BY TaskRunnerAssumption
     DEF TaskTypeOK, RunnerInv, RunningIsServed, Goroutines, TaskRunnerAssumption
<1> QED BY <1>1, RunnerInvHolds, PTL

(* No Close closes a closed channel: an Execute that returns an error does,  *)
(* or nobody (task.go:47, 57-64).                                            *)
THEOREM OnlyErrorsPanicHolds == TaskSpec => OnlyErrorsPanic
<1>1. TaskTypeOK /\ RunnerInv /\ [TaskNext]_taskVars =>
        [~ panicked /\ panicked' =>
            \E g \in Goroutines : place[g] = "execute" /\ place'[g] = "dead"]_taskVars
  <2> SUFFICES ASSUME TaskTypeOK, RunnerInv, TaskNext, ~ panicked, panicked'
               PROVE  \E g \in Goroutines : place[g] = "execute" /\ place'[g] = "dead"
    BY DEF taskVars
  <2>1. ~ CloseTask
    BY DEF CloseTask, CloseChannel, RunnerInv
  <2>2. ~ OwnerStart /\ ~ OwnerClose /\ ~ TaskEnded
    BY <2>1 DEF OwnerStart, OwnerClose, TaskEnded
  <2>3. PICK g \in Goroutines : Step(g)
    BY <2>2 DEF TaskNext
  <2>4. ExecuteFails(g)
    BY <2>1, <2>3 DEF Step, EnterSelect, TimerFires, StopReceived, ExecuteReturns, SelfClose,
                     SelfStart
  <2>5. place[g] = "execute" /\ place'[g] = "dead"
    BY <2>4 DEF ExecuteFails, At, Move, TaskTypeOK
  <2> QED BY <2>5
<1> QED BY <1>1, RunnerInvHolds, PTL DEF TaskSpec, OnlyErrorsPanic
=============================================================================
