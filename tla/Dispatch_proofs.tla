--------------------------- MODULE Dispatch_proofs ---------------------------
(***************************************************************************)
(* Proofs about Dispatch, for any sets of connections and users: type      *)
(* correctness, that a deleted user's connections are cut, and that a      *)
(* node's traffic leaves by its own outbound.                              *)
(***************************************************************************)
EXTENDS Dispatch, TLAPS

(* No step of the controller or of a connection (core/xray/user.go,          *)
(* core/xray/node.go, the dispatcher) leaves a variable outside its set of   *)
(* values; no connection is registered without a user or uses a nil manager. *)
THEOREM TypeCorrect == Spec => []TypeOK
<1> USE DispatchAssumption
<1>1. Init => TypeOK
  BY DEF Init, TypeOK, Reloading, Before, Registered
<1>2. TypeOK /\ [Next]_vars => TypeOK'
  <2> SUFFICES ASSUME TypeOK, [Next]_vars PROVE TypeOK'
    OBVIOUS
  <2> USE DEF TypeOK, Reloading, Before, Registered, Unregistered, node, control,
              registry, conn, history, Controller, Step, DispatchTo
  <2>1. CASE UNCHANGED vars
    BY <2>1 DEF vars
  <2>2. ASSUME Die PROVE TypeOK'
    BY <2>2 DEF Die
  <2>3. ASSUME NEW u \in Users, InsertUser(u) \/ RemoveUser(u) PROVE TypeOK'
    BY <2>3 DEF InsertUser, RemoveUser
  <2>4. CASE LoadManagerToClose
    BY <2>4 DEF LoadManagerToClose
  <2>5. ASSUME NEW c \in Conns, CloseLink(c) PROVE TypeOK'
    BY <2>5 DEF CloseLink
  <2>6. CASE DeleteManager
    BY <2>6 DEF DeleteManager
  <2>7. CASE BeginReload \/ RemoveInbound \/ RemoveOutbound \/ SetSameTagOutbound
    BY <2>7 DEF BeginReload, RemoveInbound, RemoveOutbound, SetSameTagOutbound
  <2>8. CASE AddInbound \/ AddOutbound
    BY <2>2, <2>8 DEF AddInbound, AddOutbound
  <2>9. CASE AddAllUsers
    BY <2>9 DEF AddAllUsers
  <2>10. ASSUME NEW c \in Conns, NEW u \in Users, Accept(c, u) PROVE TypeOK'
    BY <2>10 DEF Accept
  <2>11. ASSUME NEW c \in Conns, Limit(c) PROVE TypeOK'
    BY <2>11 DEF Limit
  <2>12. ASSUME NEW c \in Conns, LoadManager(c) PROVE TypeOK'
    BY <2>12 DEF LoadManager
  <2>13. ASSUME NEW c \in Conns, StoreManager(c) PROVE TypeOK'
    BY <2>13 DEF StoreManager
  <2>14. ASSUME NEW c \in Conns, AddLink(c) PROVE TypeOK'
    BY <2>2, <2>14 DEF AddLink
  <2>15. ASSUME NEW c \in Conns, CheckRules(c) PROVE TypeOK'
    BY <2>15 DEF CheckRules
  <2>16. ASSUME NEW c \in Conns, PickRoute(c) PROVE TypeOK'
    BY <2>16 DEF PickRoute
  <2>17. ASSUME NEW c \in Conns, CheckSameTag(c) PROVE TypeOK'
    BY <2>17 DEF CheckSameTag
  <2>18. ASSUME NEW c \in Conns, GetHandler(c) \/ GetDefaultHandler(c) PROVE TypeOK'
    BY <2>18 DEF GetHandler, GetDefaultHandler
  <2>19. ASSUME NEW c \in Conns, End(c) PROVE TypeOK'
    BY <2>2, <2>19 DEF End
  <2> QED
    BY <2>1, <2>3, <2>4, <2>5, <2>6, <2>7, <2>8, <2>9, <2>10, <2>11, <2>12, <2>13, <2>14,
       <2>15, <2>16, <2>17, <2>18, <2>19 DEF Next, ControllerNext, ConnNext
<1> QED BY <1>1, <1>2, PTL DEF Spec

-----------------------------------------------------------------------------
(* Where the traffic leaves.                                                 *)

LEMMA EgressInit == Init => EgressInv
BY DispatchAssumption DEF Init, EgressInv, OwnEgress, Reloading, Before

LEMMA EgressStep ==
    ASSUME TypeOK, EgressInv, [Next]_vars
    PROVE  EgressInv'
<1> USE DEF TypeOK, EgressInv, OwnEgress, Reloading, Before, node, control, registry, conn,
            history, Controller, Step, DispatchTo
<1>1. CASE UNCHANGED vars
  BY <1>1 DEF vars
<1>2. ASSUME Die PROVE EgressInv'
  BY <1>2 DEF Die
<1>3. ASSUME NEW u \in Users, InsertUser(u) \/ RemoveUser(u) PROVE EgressInv'
  BY <1>3 DEF InsertUser, RemoveUser
<1>4. CASE LoadManagerToClose \/ DeleteManager
  BY <1>4 DEF LoadManagerToClose, DeleteManager
<1>5. ASSUME NEW c \in Conns, CloseLink(c) PROVE EgressInv'
  BY <1>5 DEF CloseLink
<1>6. CASE BeginReload
  BY <1>6 DEF BeginReload
<1>7. CASE RemoveInbound \/ RemoveOutbound \/ SetSameTagOutbound
  BY <1>7 DEF RemoveInbound, RemoveOutbound, SetSameTagOutbound
<1>8. CASE AddInbound \/ AddOutbound
  BY <1>2, <1>8 DEF AddInbound, AddOutbound
<1>9. CASE AddAllUsers
  BY <1>9 DEF AddAllUsers
<1>10. ASSUME NEW c \in Conns, NEW u \in Users, Accept(c, u) PROVE EgressInv'
  BY <1>10 DEF Accept
<1>11. ASSUME NEW c \in Conns, Limit(c) \/ LoadManager(c) \/ StoreManager(c)
       PROVE  EgressInv'
  BY <1>11 DEF Limit, LoadManager, StoreManager
<1>12. ASSUME NEW c \in Conns, AddLink(c) PROVE EgressInv'
  BY <1>2, <1>12 DEF AddLink
<1>13. ASSUME NEW c \in Conns, CheckRules(c) \/ PickRoute(c) PROVE EgressInv'
  BY <1>13 DEF CheckRules, PickRoute
<1>14. ASSUME NEW c \in Conns, CheckSameTag(c) PROVE EgressInv'
  BY <1>14 DEF CheckSameTag
<1>15. ASSUME NEW c \in Conns, GetHandler(c) \/ GetDefaultHandler(c) PROVE EgressInv'
  BY <1>15 DEF GetHandler, GetDefaultHandler
<1>16. ASSUME NEW c \in Conns, End(c) PROVE EgressInv'
  BY <1>2, <1>16 DEF End
<1> QED
  BY <1>1, <1>3, <1>4, <1>5, <1>6, <1>7, <1>8, <1>9, <1>10, <1>11, <1>12, <1>13, <1>14,
     <1>15, <1>16 DEF Next, ControllerNext, ConnNext

(* With EnableSameTagOutbound, traffic that no rule routes leaves by the     *)
(* default outbound only if a reload of the node came between                *)
(* authentication and dispatch (dispatcher/default.go:623, core/xray/node.go *)
(* sets the entry before it adds the handlers and clears it before it        *)
(* removes them).                                                            *)
THEOREM OwnEgressHolds == Spec => []OwnEgress
<1>1. TypeOK /\ EgressInv /\ [Next]_vars => EgressInv'
  BY EgressStep
<1>2. EgressInv => OwnEgress
  BY DEF EgressInv
<1> QED BY <1>1, <1>2, EgressInit, TypeCorrect, PTL DEF Spec

-----------------------------------------------------------------------------
(* What DelUsers cuts.                                                       *)

(* A connection goes on, or is closed, without touching a manager.           *)
LEMMA GoesOnInv ==
    ASSUME TypeOK, CutInv, NEW c \in Conns,
           NEW s \in (Before \cup {"flow", "closed"}) \ {"link"},
           pc' = [pc EXCEPT ![c] = s],
           s \in Unregistered => pc[c] \in Unregistered,
           s \in Registered => pc[c] \in Registered,
           UNCHANGED <<users, control, registry, who, mgr, cut, ousted, raced>>
    PROVE  CutInv'
<1> USE DEF TypeOK, CutInv, Taken, control, registry
<1>1. ManagersInv'
  BY DEF ManagersInv
<1>2. OustedInv'
  BY DEF OustedInv, Unregistered
<1>3. ClosingInv'
  BY DEF ClosingInv
<1> QED BY <1>1, <1>2, <1>3

LEMMA CutInit == Init => CutInv
BY DEF Init, CutInv, ManagersInv, OustedInv, ClosingInv, Registered, Unregistered

LEMMA CutStep ==
    ASSUME TypeOK, CutInv, [Next]_vars
    PROVE  CutInv'
<1> USE DEF TypeOK, CutInv, Taken, node, control, registry, conn, history, Controller, Step,
            DispatchTo
<1>1. CASE UNCHANGED vars
  BY <1>1 DEF vars, ManagersInv, OustedInv, ClosingInv
<1>2. ASSUME Die PROVE CutInv'
  BY <1>2 DEF Die, ManagersInv, OustedInv, ClosingInv
<1>3. ASSUME NEW u \in Users, InsertUser(u) PROVE CutInv'
  BY <1>3 DEF InsertUser, ManagersInv, OustedInv, ClosingInv
<1>4. ASSUME NEW u \in Users, RemoveUser(u) PROVE CutInv'
  <2>1. ManagersInv' /\ ClosingInv'
    BY <1>4 DEF RemoveUser, ManagersInv, ClosingInv
  <2>2. OustedInv'
    BY <1>4 DEF RemoveUser, OustedInv
  <2> QED BY <2>1, <2>2
<1>5. CASE LoadManagerToClose
  <2>1. ManagersInv'
    BY <1>5 DEF LoadManagerToClose, ManagersInv
  <2>2. CASE managers[victim] = Nil
    <3>1. \A c \in Conns \ Taken : pc[c] \in Registered => who[c] # victim
      BY <1>5, <2>2 DEF LoadManagerToClose, ManagersInv, Registered
    <3> QED BY <1>5, <2>1, <2>2, <3>1 DEF LoadManagerToClose, OustedInv, ClosingInv
  <2>3. CASE managers[victim] # Nil
    <3>1. OustedInv'
      BY <1>5, <2>3 DEF LoadManagerToClose, OustedInv
    <3>2. ClosingInv'
      BY <1>5, <2>3 DEF LoadManagerToClose, ManagersInv, ClosingInv
    <3> QED BY <2>1, <3>1, <3>2
  <2> QED BY <2>2, <2>3
<1>6. ASSUME NEW c \in Conns, CloseLink(c) PROVE CutInv'
  <2>1. ManagersInv'
    BY <1>6 DEF CloseLink, ManagersInv
  <2>2. OustedInv' /\ ClosingInv'
    BY <1>6 DEF CloseLink, OustedInv, ClosingInv
  <2> QED BY <2>1, <2>2
<1>7. CASE DeleteManager
  <2>1. \A c \in Conns \ Taken : pc[c] \in Registered => who[c] # victim
    BY <1>7 DEF DeleteManager, ManagersInv, ClosingInv
  <2>2. \A c \in Conns \ Taken : pc[c] \in Unregistered => who[c] # victim
    BY <1>7 DEF DeleteManager, OustedInv
  <2>3. ManagersInv'
    <3>1. victim \in Users /\ managers' = [managers EXCEPT ![victim] = Nil]
      BY <1>7 DEF DeleteManager
    <3> QED BY <1>7, <2>1, <2>2, <3>1
            DEF DeleteManager, ManagersInv, Registered, Unregistered, Before
  <2>4. OustedInv' /\ ClosingInv'
    BY <1>7, <2>1 DEF DeleteManager, OustedInv, ClosingInv
  <2> QED BY <2>3, <2>4
<1>8. CASE BeginReload \/ RemoveInbound \/ RemoveOutbound \/ SetSameTagOutbound
  BY <1>8 DEF BeginReload, RemoveInbound, RemoveOutbound, SetSameTagOutbound,
              ManagersInv, OustedInv, ClosingInv
<1>9. CASE AddInbound \/ AddOutbound
  BY <1>2, <1>9 DEF AddInbound, AddOutbound, ManagersInv, OustedInv, ClosingInv
<1>10. CASE AddAllUsers
  BY <1>10 DEF AddAllUsers, ManagersInv, OustedInv, ClosingInv
<1>11. ASSUME NEW c \in Conns, NEW u \in Users, Accept(c, u) PROVE CutInv'
  <2>1. ManagersInv' /\ ClosingInv'
    BY <1>11 DEF Accept, ManagersInv, ClosingInv, Registered
  <2>2. OustedInv'
    BY <1>11 DEF Accept, OustedInv, Registered
  <2> QED BY <2>1, <2>2
<1>12. ASSUME NEW c \in Conns, Limit(c) PROVE CutInv'
  BY <1>12, GoesOnInv DEF Limit, Unregistered, Registered, Before
<1>13. ASSUME NEW c \in Conns, LoadManager(c) PROVE CutInv'
  <2>1. CASE managers[who[c]] = Nil
    BY <1>13, <2>1, GoesOnInv DEF LoadManager, Unregistered, Registered, Before
  <2>2. CASE managers[who[c]] # Nil
    <3>1. ManagersInv'
      BY <1>13, <2>2 DEF LoadManager, ManagersInv, Registered
    <3>2. OustedInv' /\ ClosingInv'
      BY <1>13, <2>2 DEF LoadManager, OustedInv, ClosingInv, Registered, Unregistered
    <3> QED BY <3>1, <3>2
  <2> QED BY <2>1, <2>2
<1>14. ASSUME NEW c \in Conns, StoreManager(c) PROVE CutInv'
  <2>1. who[c] \in Users
    BY <1>14 DEF StoreManager, Before
  <2>2. ManagersInv'
    BY <1>14, <2>1 DEF StoreManager, ManagersInv, Registered
  <2>3. OustedInv' /\ ClosingInv'
    BY <1>14 DEF StoreManager, OustedInv, ClosingInv, Registered, Unregistered
  <2> QED BY <2>2, <2>3
<1>15. ASSUME NEW c \in Conns, AddLink(c) PROVE CutInv'
  <2>1. CASE Die
    BY <1>2, <2>1
  <2>2. CASE AddLink(c)!1
    <3>1. mgr[c] \in Conns
      BY <2>2
    <3>2. ManagersInv'
      BY <2>2, <3>1 DEF ManagersInv, Registered
    <3>3. OustedInv' /\ ClosingInv'
      BY <2>2 DEF OustedInv, ClosingInv, Registered, Unregistered
    <3> QED BY <3>2, <3>3
  <2> QED BY <1>15, <2>1, <2>2 DEF AddLink
<1>16. ASSUME NEW c \in Conns, CheckRules(c) \/ CheckSameTag(c) PROVE CutInv'
  BY <1>16, GoesOnInv DEF CheckRules, CheckSameTag, Unregistered, Registered, Before
<1>17. ASSUME NEW c \in Conns, PickRoute(c) \/ GetHandler(c) \/ GetDefaultHandler(c)
       PROVE  CutInv'
  BY <1>17, GoesOnInv
     DEF PickRoute, GetHandler, GetDefaultHandler, Unregistered, Registered, Before
<1>18. ASSUME NEW c \in Conns, End(c) PROVE CutInv'
  <2>1. CASE Die
    BY <1>2, <2>1
  <2>2. CASE End(c)!1
    <3>1. ManagersInv'
      BY <2>2 DEF ManagersInv, Registered
    <3>2. OustedInv' /\ ClosingInv'
      BY <2>2 DEF OustedInv, ClosingInv, Registered, Unregistered
    <3> QED BY <3>1, <3>2
  <2> QED BY <1>18, <2>1, <2>2 DEF End
<1> QED
  BY <1>1, <1>3, <1>4, <1>5, <1>6, <1>7, <1>8, <1>9, <1>10, <1>11, <1>12, <1>13, <1>14,
     <1>15, <1>16, <1>17, <1>18 DEF Next, ControllerNext, ConnNext

(* When DelUsers is over, every connection of the user that was registered   *)
(* in time and whose manager no race had replaced has been closed            *)
(* (core/xray/user.go:51, dispatcher/linkmanager.go:41), and nobody comes in *)
(* under his name any more.                                                  *)
THEOREM DeletedUsersAreCutHolds == Spec => []DeletedUsersAreCut
<1>1. TypeOK /\ CutInv /\ [Next]_vars => CutInv'
  BY CutStep
<1>2. CutInv => DeletedUsersAreCut
  BY DEF CutInv, OustedInv, DeletedUsersAreCut, Taken, Before, Registered, Unregistered
<1> QED BY <1>1, <1>2, CutInit, TypeCorrect, PTL DEF Spec
=============================================================================
