--------------------------- MODULE UserSyncProofs ---------------------------
(***************************************************************************)
(* Proofs about the user transaction of an adapter and the removal of its  *)
(* node, for any users, any lists of the panel and any number of changes.  *)
(***************************************************************************)
EXTENDS UserSync, TLAPS

(* A monitor task under way has the locals of a job.                       *)
LEMMA MonJob ==
    ASSUME UserSyncTypeOK, mon.pc # "idle"
    PROVE  mon \in Jobs
BY DEF UserSyncTypeOK, Idle

(* Lists by id and patched maps are user maps.                             *)
LEMMA ByIdType == ASSUME NEW l PROVE ById(l) \in UserMaps
BY DEF ById, UserMaps

LEMMA PatchType ==
    ASSUME NEW map \in UserMaps, mon \in Jobs
    PROVE  Patch(map) \in UserMaps
<1>1. mon.added \subseteq Tags
  BY DEF Jobs
<1>2. \A u \in Uids : Patch(map)[u] \in Tags \cup {NoTag}
  BY <1>1 DEF Patch, UserMaps
<1> QED BY <1>2 DEF Patch, UserMaps

(* A new list starts a job with well-typed differences.                    *)
LEMMA FetchType ==
    ASSUME UserSyncTypeOK, NEW json \in BOOLEAN, GetUserList(json)
    PROVE  mon' \in {Idle} \cup Jobs
<1>1. Deleted(userList, panelList) \in SUBSET Tags /\ Added(userList, panelList) \in SUBSET Tags
  BY DEF Deleted, Added
<1>2. NoUsers \in UserMaps
  BY DEF NoUsers, UserMaps
<1> QED BY <1>1, <1>2 DEF GetUserList, UserSyncTypeOK, Jobs, Begins

LEMMA TypeInit == Init => UserSyncTypeOK
<1> SUFFICES ASSUME Init PROVE UserSyncTypeOK
  OBVIOUS
<1>1. panelList \in PanelLists /\ panelList \in UserList
  BY UserSyncAssumption DEF Init, PanelLists
<1>2. ById(panelList) \in UserMaps /\ instance \in UserMaps \cup {NoServer}
  BY ByIdType DEF Init, Serving
<1>3. changes \in 0 .. MaxChanges
  BY UserSyncAssumption DEF Init
<1>4. stopper \in [Stops -> {"none", "lock", "close", "done"}]
  BY DEF Init
<1> QED BY <1>1, <1>2, <1>3, <1>4 DEF Init, UserSyncTypeOK

(* One step of any process keeps the types.                                *)
LEMMA TypeNext == UserSyncTypeOK /\ [Next]_vars => UserSyncTypeOK'
<1> SUFFICES ASSUME UserSyncTypeOK, [Next]_vars PROVE UserSyncTypeOK'
  OBVIOUS
<1> USE DEF panelVars, taskVars, adapterVars, closeVars
<1>1. ASSUME NEW list \in Offers, PanelChanges(list) PROVE UserSyncTypeOK'
  <2>1. changes' \in 0 .. MaxChanges
    BY <1>1, UserSyncAssumption DEF PanelChanges, UserSyncTypeOK
  <2> QED BY <1>1, <2>1, UserSyncAssumption DEF PanelChanges, UserSyncTypeOK
<1>2. ASSUME NEW json \in BOOLEAN, GetUserList(json) PROVE UserSyncTypeOK'
  BY <1>2, FetchType DEF GetUserList, UserSyncTypeOK
<1>3. CASE GetUserListFails
  BY <1>3 DEF GetUserListFails, UserSyncTypeOK, vars
<1>4. CASE CoreSyncUsers
  <2>1. mon \in Jobs
    BY <1>4, MonJob DEF CoreSyncUsers
  <2> QED BY <1>4, <2>1 DEF CoreSyncUsers, Goto, SyncFails, UserSyncTypeOK, Jobs
<1>5. CASE UpdateLimiter
  <2>1. mon \in Jobs
    BY <1>5, MonJob DEF UpdateLimiter
  <2>2. mon.newU \in UserList /\ limiterUsers \in UserList
    BY <2>1 DEF Jobs, PanelLists, UserSyncTypeOK
  <2>3. limiterUsers' \in UserList
    BY <1>5, <2>2 DEF UpdateLimiter, UserList
  <2>4. mon' \in Jobs
    BY <1>5, <2>1 DEF UpdateLimiter, Jobs
  <2> QED BY <1>5, <2>3, <2>4 DEF UpdateLimiter, UserSyncTypeOK
<1>6. CASE StoreUserList
  <2>1. mon \in Jobs
    BY <1>6, MonJob DEF StoreUserList
  <2> QED BY <1>6, <2>1 DEF StoreUserList, UserSyncTypeOK, Jobs
<1>7. CASE BeginSync
  <2>1. mon \in Jobs
    BY <1>7, MonJob DEF BeginSync
  <2>2. Patch(users) \in UserMaps /\ users \in UserMaps
    BY <2>1, PatchType DEF UserSyncTypeOK
  <2>3. CASE SyncFails(FALSE) /\ UNCHANGED adapterVars
    BY <1>7, <2>1, <2>3 DEF BeginSync, SyncFails, UserSyncTypeOK, Jobs
  <2>4. ASSUME NEW pc \in {"close", "start", "services"}, Proceed(pc),
               instance' \in UserMaps \cup {NoServer}
        PROVE  UserSyncTypeOK'
    <3>1. mon' \in Jobs
      BY <2>1, <2>2, <2>4 DEF Proceed, Jobs
    <3> QED BY <1>7, <2>2, <2>4, <3>1 DEF BeginSync, Proceed, UserSyncTypeOK
  <2>5. instance \in UserMaps \cup {NoServer}
    BY DEF UserSyncTypeOK
  <2> QED BY <1>7, <2>2, <2>3, <2>4, <2>5 DEF BeginSync, HotUpdate
<1>8. CASE SyncClosed
  <2>1. mon \in Jobs
    BY <1>8, MonJob DEF SyncClosed
  <2> QED BY <1>8, <2>1 DEF SyncClosed, Goto, UserSyncTypeOK, Jobs
<1>9. ASSUME NEW timeout \in BOOLEAN, SyncCloseFails(timeout) PROVE UserSyncTypeOK'
  <2>1. mon \in Jobs
    BY <1>9, MonJob DEF SyncCloseFails
  <2>2. mon.newU \in PanelLists /\ mon.previous \in UserMaps
    BY <2>1 DEF Jobs
  <2> QED BY <1>9, <2>2 DEF SyncCloseFails, AbortSync, Rollback, SyncFails, UserSyncTypeOK
<1>10. CASE SyncStarted
  <2>1. mon \in Jobs
    BY <1>10, MonJob DEF SyncStarted
  <2> QED BY <1>10, <2>1 DEF SyncStarted, Goto, UserSyncTypeOK, Jobs
<1>11. CASE SyncStartFails
  <2>1. mon \in Jobs
    BY <1>11, MonJob DEF SyncStartFails
  <2>2. mon.newU \in PanelLists /\ mon.previous \in UserMaps
    BY <2>1 DEF Jobs
  <2> QED BY <1>11, <2>2 DEF SyncStartFails, AbortSync, Rollback, SyncFails, UserSyncTypeOK
<1>12. CASE SyncServices
  <2>1. mon \in Jobs
    BY <1>12, MonJob DEF SyncServices
  <2>2. serviceUsers' \in UserMaps
    BY <1>12, <2>1, PatchType DEF SyncServices, UserSyncTypeOK
  <2>3. mon' \in Jobs
    BY <1>12, <2>1 DEF SyncServices, Goto, Jobs
  <2> QED BY <1>12, <2>2, <2>3 DEF SyncServices, Goto, UserSyncTypeOK
<1>13. CASE CancelTasks \/ TasksWaited \/ StopReturns \/ DelNodeReturns
  BY <1>13 DEF CancelTasks, TasksWaited, StopReturns, DelNodeReturns, CloserTo,
     UserSyncTypeOK
<1>14. CASE StopNode \/ DelNode
  BY <1>14 DEF StopNode, DelNode, CloserTo, UserSyncTypeOK, Stops
<1>15. ASSUME NEW s \in Stops, StopLocked(s) \/ StopDone(s) PROVE UserSyncTypeOK'
  BY <1>15 DEF StopLocked, StopDone, UserSyncTypeOK
<1>16. CASE UNCHANGED vars
  BY <1>16 DEF UserSyncTypeOK, vars
<1> QED BY <1>1, <1>2, <1>3, <1>4, <1>5, <1>6, <1>7, <1>8, <1>9, <1>10, <1>11,
           <1>12, <1>13, <1>14, <1>15, <1>16
        DEF Next, MonitorStep, AdapterStep, CloseStep

(* Every reachable state is well typed: the lists of controller, limiter,  *)
(* adapter and services, the monitor's locals, and the two Stop calls      *)
(* (syncUsers, SyncUsers, Controller.Close).                               *)
THEOREM UserSyncTypeCorrect == Spec => []UserSyncTypeOK
<1>1. Init => UserSyncTypeOK
  BY TypeInit
<1>2. UserSyncTypeOK /\ [Next]_vars => UserSyncTypeOK'
  BY TypeNext
<1> QED BY <1>1, <1>2, PTL DEF Spec

-----------------------------------------------------------------------------
(* The server has the adapter's users.                                     *)

(* Between two steps of a transaction or a stop: who holds the mutex, and  *)
(* what the server has meanwhile.                                          *)
ServerInv ==
    /\ mu = "sync" <=> mon.pc \in {"close", "start", "services"}
    /\ \A s \in Stops : stopper[s] = "close" => mu = s
    /\ mu \in Stops \/ mon.pc \in {"close", "start"} => instance = NoServer
    /\ mu \notin Stops => instance \in {NoServer, users}

LEMMA ServerInvInit == Init => ServerInv
BY DEF Init, ServerInv, Idle, Stops, Serving

LEMMA ServerInvNext == UserSyncTypeOK /\ ServerInv /\ [Next]_vars => ServerInv'
<1> SUFFICES ASSUME UserSyncTypeOK, ServerInv, [Next]_vars PROVE ServerInv'
  OBVIOUS
<1> USE DEF panelVars, taskVars, adapterVars, closeVars, ServerInv
<1>0. "sync" \notin Stops /\ "free" \notin Stops /\ Idle.pc = "idle"
  BY DEF Stops, Idle
<1>1. ASSUME NEW list \in Offers, PanelChanges(list) PROVE ServerInv'
  BY <1>1 DEF PanelChanges
<1>2. ASSUME NEW json \in BOOLEAN, GetUserList(json) PROVE ServerInv'
  BY <1>2, <1>0 DEF GetUserList, Begins
<1>3. CASE GetUserListFails
  BY <1>3 DEF GetUserListFails, vars
<1>4. CASE CoreSyncUsers
  <2>1. mon \in Jobs
    BY <1>4, MonJob DEF CoreSyncUsers
  <2>2. mon'.pc \in {"lock", "idle"}
    BY <1>4, <1>0, <2>1 DEF CoreSyncUsers, Goto, SyncFails, Jobs
  <2> QED BY <1>4, <2>2 DEF CoreSyncUsers
<1>5. CASE UpdateLimiter
  <2>1. mon \in Jobs
    BY <1>5, MonJob DEF UpdateLimiter
  <2>2. mon'.pc = "store"
    BY <1>5, <2>1 DEF UpdateLimiter, Jobs
  <2> QED BY <1>5, <2>2 DEF UpdateLimiter
<1>6. CASE StoreUserList
  BY <1>6, <1>0 DEF StoreUserList
<1>7. CASE BeginSync
  <2>1. mon \in Jobs
    BY <1>7, MonJob DEF BeginSync
  <2>2. CASE SyncFails(FALSE) /\ UNCHANGED adapterVars
    BY <1>7, <2>2, <1>0 DEF BeginSync, SyncFails
  <2>3. ASSUME NEW pc, Proceed(pc) PROVE mon'.pc = pc /\ mu' = "sync" /\ users' = Patch(users)
    BY <2>1, <2>3 DEF Proceed, Jobs
  <2>4. \A s \in Stops : stopper'[s] # "close"
    BY <1>7, <1>0 DEF BeginSync
  <2>5. CASE Proceed(IF instance = NoServer THEN "services" ELSE "close") /\ instance' = NoServer
    BY <2>3, <2>4, <2>5, <1>0
  <2>6. CASE instance = NoServer /\ Proceed("start") /\ UNCHANGED instance
    BY <2>3, <2>4, <2>6, <1>0
  <2>7. CASE Proceed("services") /\ HotUpdate(Patch(users))
    BY <2>3, <2>4, <2>7, <1>0 DEF HotUpdate
  <2> QED BY <1>7, <2>2, <2>5, <2>6, <2>7 DEF BeginSync
<1>8. CASE SyncClosed
  <2>1. mon'.pc = "services"
    BY <1>8, MonJob DEF SyncClosed, Goto, Jobs
  <2> QED BY <1>8, <2>1 DEF SyncClosed
<1>9. ASSUME NEW timeout \in BOOLEAN, SyncCloseFails(timeout) PROVE ServerInv'
  BY <1>9, <1>0 DEF SyncCloseFails, AbortSync, SyncFails
<1>10. CASE SyncStarted
  <2>1. mon'.pc = "services"
    BY <1>10, MonJob DEF SyncStarted, Goto, Jobs
  <2> QED BY <1>10, <2>1, <1>0 DEF SyncStarted
<1>11. CASE SyncStartFails
  BY <1>11, <1>0 DEF SyncStartFails, AbortSync, SyncFails
<1>12. CASE SyncServices
  <2>1. mon'.pc = "limiter"
    BY <1>12, MonJob DEF SyncServices, Goto, Jobs
  <2> QED BY <1>12, <2>1, <1>0 DEF SyncServices
<1>13. CASE CancelTasks \/ TasksWaited \/ StopReturns \/ DelNodeReturns
  BY <1>13 DEF CancelTasks, TasksWaited, StopReturns, DelNodeReturns, CloserTo
<1>14. CASE StopNode \/ DelNode
  BY <1>14 DEF StopNode, DelNode, CloserTo, UserSyncTypeOK
<1>15. ASSUME NEW s \in Stops, StopLocked(s) PROVE ServerInv'
  BY <1>15, <1>0 DEF StopLocked, UserSyncTypeOK
<1>16. ASSUME NEW s \in Stops, StopDone(s) PROVE ServerInv'
  BY <1>16, <1>0 DEF StopDone, UserSyncTypeOK
<1>17. CASE UNCHANGED vars
  BY <1>17 DEF vars
<1> QED BY <1>1, <1>2, <1>3, <1>4, <1>5, <1>6, <1>7, <1>8, <1>9, <1>10, <1>11,
           <1>12, <1>13, <1>14, <1>15, <1>16, <1>17
        DEF Next, MonitorStep, AdapterStep, CloseStep

(* Outside a transaction a running server authenticates exactly the        *)
(* adapter's users, whatever failed and whoever stops it meanwhile         *)
(* (SyncUsers, stopLocked).                                                *)
THEOREM ServerHasUsersCorrect == Spec => []ServerHasUsers
<1>1. Init => ServerInv
  BY ServerInvInit
<1>2. UserSyncTypeOK /\ ServerInv /\ [Next]_vars => ServerInv'
  BY ServerInvNext
<1>3. ServerInv => ServerHasUsers
  BY DEF ServerInv, ServerHasUsers, Stops
<1> QED BY <1>1, <1>2, <1>3, UserSyncTypeCorrect, PTL DEF Spec

-----------------------------------------------------------------------------
(* A deleted node has no server.                                           *)

(* Once DelNode has removed the runtime nobody is inside V2Core.SyncUsers, *)
(* and nobody gets there again: the server its Stop has taken stays away.  *)
OrphanInv ==
    closer \in {"deleting", "closed"} =>
        /\ ~registered
        /\ ~HoldsCore
        /\ stopper["delNode"] \in {"close", "done"} => instance = NoServer

LEMMA OrphanInvNext == UserSyncTypeOK /\ OrphanInv /\ [Next]_vars => OrphanInv'
<1> SUFFICES ASSUME UserSyncTypeOK, OrphanInv, [Next]_vars PROVE OrphanInv'
  OBVIOUS
<1> USE DEF panelVars, taskVars, adapterVars, closeVars, OrphanInv, HoldsCore
<1>0. Idle.pc = "idle" /\ "delNode" \in Stops
  BY DEF Idle, Stops
<1>1. ASSUME NEW list \in Offers, PanelChanges(list) PROVE OrphanInv'
  BY <1>1 DEF PanelChanges
<1>2. ASSUME NEW json \in BOOLEAN, GetUserList(json) PROVE OrphanInv'
  BY <1>2 DEF GetUserList, Begins
<1>3. CASE GetUserListFails
  BY <1>3 DEF GetUserListFails, vars
<1>4. CASE CoreSyncUsers
  BY <1>4, <1>0 DEF CoreSyncUsers, SyncFails
<1>5. CASE UpdateLimiter
  <2>1. mon'.pc = "store"
    BY <1>5, MonJob DEF UpdateLimiter, Jobs
  <2> QED BY <1>5, <2>1 DEF UpdateLimiter
<1>6. CASE StoreUserList
  BY <1>6, <1>0 DEF StoreUserList
<1>7. CASE BeginSync \/ SyncClosed \/ SyncStarted \/ SyncStartFails \/ SyncServices
           \/ \E timeout \in BOOLEAN : SyncCloseFails(timeout)
  <2>1. mon.pc \in {"lock", "close", "start", "services"} /\ UNCHANGED closer
    BY <1>7 DEF BeginSync, SyncClosed, SyncStarted, SyncStartFails, SyncServices,
                SyncCloseFails
  <2> QED BY <2>1
<1>8. CASE CancelTasks \/ TasksWaited \/ StopReturns \/ DelNodeReturns
  BY <1>8 DEF CancelTasks, TasksWaited, StopReturns, DelNodeReturns, CloserTo
<1>9. CASE StopNode
  BY <1>9 DEF StopNode, CloserTo
<1>10. CASE DelNode
  BY <1>10, <1>0 DEF DelNode, CloserTo, UserSyncTypeOK
<1>11. ASSUME NEW s \in Stops, StopLocked(s) PROVE OrphanInv'
  BY <1>11, <1>0 DEF StopLocked, UserSyncTypeOK
<1>12. ASSUME NEW s \in Stops, StopDone(s) PROVE OrphanInv'
  BY <1>12, <1>0 DEF StopDone, UserSyncTypeOK
<1>13. CASE UNCHANGED vars
  BY <1>13 DEF vars
<1> QED BY <1>1, <1>2, <1>3, <1>4, <1>5, <1>6, <1>7, <1>8, <1>9, <1>10, <1>11,
           <1>12, <1>13
        DEF Next, MonitorStep, AdapterStep, CloseStep

(* Closing a node never leaves a server behind, although the monitor task  *)
(* may be left behind inside the adapter and start one after the first     *)
(* Stop (Controller.Close, V2Core.SyncUsers, DelNode).                     *)
THEOREM NoOrphanServerCorrect == Spec => []NoOrphanServer
<1>1. Init => OrphanInv
  BY DEF Init, OrphanInv
<1>2. UserSyncTypeOK /\ OrphanInv /\ [Next]_vars => OrphanInv'
  BY OrphanInvNext
<1>3. OrphanInv => NoOrphanServer
  BY DEF OrphanInv, NoOrphanServer
<1> QED BY <1>1, <1>2, <1>3, UserSyncTypeCorrect, PTL DEF Spec

-----------------------------------------------------------------------------
(* The four views of the users.                                            *)

(* In a list of the panel an id has one owner, and ById finds it.          *)
LEMMA ByIdIs ==
    ASSUME NEW l \in PanelLists, NEW u \in Uids
    PROVE  /\ \A t \in Tags : l[t] # NoUser /\ l[t].uid = u => ById(l)[u] = t
           /\ (\A t \in Tags : l[t] = NoUser \/ l[t].uid # u) => ById(l)[u] = NoTag
BY DEF ById, PanelLists

(* The difference between two lists, computed by credential and applied by *)
(* id, turns the one list into the other.                                  *)
LEMMA PatchMakesNew ==
    ASSUME NEW map, mon \in Jobs, userList \in PanelLists,
           map = ById(userList),
           mon.deleted = Deleted(userList, mon.newU),
           mon.added = Added(userList, mon.newU)
    PROVE  Patch(map) = ById(mon.newU)
<1> DEFINE new == mon.newU
<1>1. new \in PanelLists
  BY DEF Jobs
<1> HIDE DEF new
<1>2. ASSUME NEW u \in Uids PROVE Patch(map)[u] = ById(new)[u]
  <2>1. CASE \E t \in mon.added : new[t].uid = u
    <3>1. PICK t \in mon.added : new[t].uid = u
      BY <2>1
    <3>2. t \in Tags /\ new[t] # NoUser /\ ById(new)[u] = t
      BY <3>1, <1>1, ByIdIs DEF Added, new
    <3>3. \A s \in mon.added : new[s].uid = u => s = t
      BY <3>1, <3>2, <1>1, ByIdIs DEF Added, new
    <3> QED BY <2>1, <3>2, <3>3 DEF Patch, new
  <2>2. CASE ~ (\E t \in mon.added : new[t].uid = u) /\ \E t \in mon.deleted : userList[t].uid = u
    <3>1. PICK t \in mon.deleted : userList[t].uid = u
      BY <2>2
    <3>2. t \in Tags /\ userList[t] # NoUser /\ (new[t] = NoUser \/ new[t].uid # u)
      BY <3>1 DEF Deleted, Moved, new
    <3>3. \A s \in Tags : new[s] = NoUser \/ new[s].uid # u
      BY <2>2, <3>1, <3>2 DEF Added, Moved, PanelLists, new
    <3>4. ById(new)[u] = NoTag
      BY <3>3, <1>1, ByIdIs
    <3> QED BY <2>2, <3>4 DEF Patch, new
  <2>3. CASE ~ (\E t \in mon.added : new[t].uid = u) /\ ~ \E t \in mon.deleted : userList[t].uid = u
    <3>1. Patch(map)[u] = ById(userList)[u]
      BY <2>3 DEF Patch, new
    <3>2. \A t \in Tags : (userList[t] # NoUser /\ userList[t].uid = u)
                             <=> (new[t] # NoUser /\ new[t].uid = u)
      BY <2>3 DEF Added, Deleted, Moved, new
    <3>3. CASE \E t \in Tags : new[t] # NoUser /\ new[t].uid = u
      BY <3>1, <3>2, <3>3, <1>1, ByIdIs
    <3>4. CASE ~ \E t \in Tags : new[t] # NoUser /\ new[t].uid = u
      BY <3>1, <3>2, <3>4, <1>1, ByIdIs
    <3> QED BY <3>3, <3>4
  <2> QED BY <2>1, <2>2, <2>3
<1> QED BY <1>2 DEF Patch, ById, new

(* Without deletions and additions the two lists agree by id.              *)
LEMMA SameById ==
    ASSUME NEW old \in PanelLists, NEW new \in PanelLists,
           Deleted(old, new) = {}, Added(old, new) = {}
    PROVE  ById(old) = ById(new)
<1>1. \A t \in Tags, u \in Uids : (old[t] # NoUser /\ old[t].uid = u)
                                     <=> (new[t] # NoUser /\ new[t].uid = u)
  BY DEF Added, Deleted, Moved
<1>2. ASSUME NEW u \in Uids PROVE ById(old)[u] = ById(new)[u]
  <2>1. CASE \E t \in Tags : new[t] # NoUser /\ new[t].uid = u
    BY <1>1, <2>1, ByIdIs
  <2>2. CASE ~ \E t \in Tags : new[t] # NoUser /\ new[t].uid = u
    BY <1>1, <2>2, ByIdIs
  <2> QED BY <2>1, <2>2
<1> QED BY <1>2 DEF ById

(* The three differences turn the limiter's records into the new list.     *)
LEMMA LimiterMadeNew ==
    ASSUME UserSyncTypeOK, UpdateLimiter, limiterUsers = userList,
           mon.deleted = Deleted(userList, mon.newU),
           mon.added = Added(userList, mon.newU)
    PROVE  limiterUsers' = mon.newU
<1>1. mon.newU \in UserList /\ userList \in UserList
  BY MonJob DEF UpdateLimiter, UserSyncTypeOK, PanelLists, Jobs
<1>2. \A r, s \in UserLimitInfo : r.uid = s.uid /\ r.limit = s.limit => r = s
  BY DEF UserLimitInfo
<1>3. ASSUME NEW t \in Tags PROVE limiterUsers'[t] = mon.newU[t]
  <2>1. CASE t \in mon.added \cup Modified(userList, mon.newU)
    BY <2>1 DEF UpdateLimiter
  <2>2. CASE t \notin mon.added \cup Modified(userList, mon.newU) /\ t \in mon.deleted
    <3>1. mon.newU[t] = NoUser
      BY <2>2 DEF Deleted, Added, Moved
    <3> QED BY <2>2, <3>1 DEF UpdateLimiter
  <2>3. CASE t \notin mon.added \cup Modified(userList, mon.newU) /\ t \notin mon.deleted
    <3>1. limiterUsers'[t] = userList[t]
      BY <2>3 DEF UpdateLimiter
    <3>2. userList[t] = mon.newU[t]
      BY <1>1, <1>2, <2>3 DEF Added, Deleted, Modified, Moved, UserList
    <3> QED BY <3>1, <3>2
  <2> QED BY <2>1, <2>2, <2>3
<1>4. limiterUsers' = [t \in Tags |-> limiterUsers'[t]]
  BY DEF UpdateLimiter
<1> QED BY <1>1, <1>3, <1>4 DEF UserList

(* Where the four views are during an execution of the monitor: the        *)
(* adapter is ahead from the moment it patches its users, the services     *)
(* follow, then the limiter, then the controller's list.                   *)
ViewsInv ==
    /\ mon # Idle => /\ mon.deleted = Deleted(userList, mon.newU)
                     /\ mon.added = Added(userList, mon.newU)
    /\ mon.pc \in {"idle", "core", "lock"} => users = ById(userList)
    /\ mon.pc \in {"close", "start"} => mon.previous = ById(userList)
    /\ mon.pc \in {"close", "start", "services", "limiter", "store"}
          => users = ById(mon.newU)
    /\ mon.pc \in {"idle", "core", "lock", "close", "start", "services"}
          => serviceUsers = ById(userList)
    /\ mon.pc \in {"limiter", "store"} => serviceUsers = ById(mon.newU)
    /\ mon.pc # "store" => limiterUsers = userList
    /\ mon.pc = "store" => limiterUsers = mon.newU

LEMMA ViewsInvNext == UserSyncTypeOK /\ ViewsInv /\ [Next]_vars => ViewsInv'
<1> SUFFICES ASSUME UserSyncTypeOK, ViewsInv, [Next]_vars PROVE ViewsInv'
  OBVIOUS
<1> USE DEF panelVars, taskVars, adapterVars, closeVars
<1>0. Idle.pc = "idle" /\ (mon.pc # "idle" => mon \in Jobs /\ mon # Idle)
      /\ userList \in PanelLists
  BY MonJob DEF Idle, UserSyncTypeOK
<1>1. ASSUME NEW list \in Offers, PanelChanges(list) PROVE ViewsInv'
  BY <1>1 DEF PanelChanges, ViewsInv
<1>2. ASSUME NEW json \in BOOLEAN, GetUserList(json) PROVE ViewsInv'
  <2>1. CASE mon' = Idle
    BY <1>0, <1>2, <2>1 DEF GetUserList, Begins, ViewsInv
  <2>2. CASE mon' # Idle
    <3> DEFINE del == Deleted(userList, panelList)
               add == Added(userList, panelList)
    <3>1. mon' = [pc |-> IF del \cup add = {} THEN "limiter" ELSE "core",
                  newU |-> panelList, deleted |-> del, added |-> add,
                  previous |-> NoUsers]
      BY <1>2, <2>2 DEF GetUserList, Begins
    <3>2. del \cup add = {} => ById(userList) = ById(panelList)
      BY <1>0, SameById DEF UserSyncTypeOK
    <3> HIDE DEF del, add
    <3>3. /\ mon'.pc \in {"limiter", "core"} /\ mon'.newU = panelList
          /\ mon'.deleted = del /\ mon'.added = add
          /\ mon'.pc = "limiter" => ById(userList) = ById(panelList)
      BY <3>1, <3>2
    <3> QED BY <1>0, <1>2, <3>3 DEF GetUserList, Begins, ViewsInv, del, add
  <2> QED BY <2>1, <2>2
<1>3. CASE GetUserListFails
  BY <1>3 DEF GetUserListFails, ViewsInv, vars
<1>4. CASE CoreSyncUsers
  <2>1. mon' = Idle \/ mon' = [mon EXCEPT !.pc = "lock"]
    BY <1>4 DEF CoreSyncUsers, Goto, SyncFails
  <2> QED BY <1>0, <1>4, <2>1 DEF CoreSyncUsers, Goto, SyncFails, ViewsInv, Jobs
<1>5. CASE UpdateLimiter
  <2>1. limiterUsers' = mon.newU
    BY <1>0, <1>5, LimiterMadeNew DEF UpdateLimiter, ViewsInv
  <2>2. mon'.pc = "store" /\ mon'.newU = mon.newU /\ mon'.deleted = mon.deleted
        /\ mon'.added = mon.added
    BY <1>0, <1>5 DEF UpdateLimiter, Jobs
  <2> QED BY <1>0, <1>5, <2>1, <2>2 DEF UpdateLimiter, ViewsInv
<1>6. CASE StoreUserList
  BY <1>0, <1>6 DEF StoreUserList, ViewsInv
<1>7. CASE BeginSync
  <2>1. Patch(users) = ById(mon.newU)
    BY <1>0, <1>7, PatchMakesNew DEF BeginSync, ViewsInv
  <2>2. CASE SyncFails(FALSE) /\ UNCHANGED adapterVars
    BY <1>0, <1>7, <2>2 DEF BeginSync, SyncFails, ViewsInv
  <2>3. ASSUME NEW pc \in {"close", "start", "services"}, Proceed(pc) PROVE ViewsInv'
    <3>1. mon'.pc = pc /\ mon'.newU = mon.newU /\ mon'.deleted = mon.deleted
          /\ mon'.added = mon.added /\ mon'.previous = users
      BY <1>0, <1>7, <2>3 DEF BeginSync, Proceed, Jobs
    <3> QED BY <1>0, <1>7, <2>1, <2>3, <3>1 DEF BeginSync, Proceed, ViewsInv
  <2> QED BY <1>7, <2>2, <2>3 DEF BeginSync
<1>8. CASE SyncClosed \/ SyncStarted
  <2>1. mon'.pc = "services" /\ mon'.newU = mon.newU /\ mon'.deleted = mon.deleted
        /\ mon'.added = mon.added
    BY <1>0, <1>8 DEF SyncClosed, SyncStarted, Goto, Jobs
  <2> QED BY <1>0, <1>8, <2>1 DEF SyncClosed, SyncStarted, Goto, ViewsInv
<1>9. CASE SyncStartFails \/ \E timeout \in BOOLEAN : SyncCloseFails(timeout)
  BY <1>0, <1>9 DEF SyncStartFails, SyncCloseFails, AbortSync, Rollback, SyncFails,
                    ViewsInv
<1>10. CASE SyncServices
  <2>1. serviceUsers' = ById(mon.newU)
    BY <1>0, <1>10, PatchMakesNew DEF SyncServices, ViewsInv
  <2>2. mon'.pc = "limiter" /\ mon'.newU = mon.newU /\ mon'.deleted = mon.deleted
        /\ mon'.added = mon.added
    BY <1>0, <1>10 DEF SyncServices, Goto, Jobs
  <2> QED BY <1>0, <1>10, <2>1, <2>2 DEF SyncServices, Goto, ViewsInv
<1>11. CASE CloseStep
  <2>1. UNCHANGED <<mon, userList, users, serviceUsers, limiterUsers>>
    BY <1>11 DEF CloseStep, CancelTasks, TasksWaited, StopNode, StopReturns, DelNode,
                 DelNodeReturns, CloserTo, StopLocked, StopDone
  <2> QED BY <2>1 DEF ViewsInv
<1>12. CASE UNCHANGED vars
  BY <1>12 DEF ViewsInv, vars
<1> QED BY <1>1, <1>2, <1>3, <1>4, <1>5, <1>6, <1>7, <1>8, <1>9, <1>10, <1>11, <1>12
        DEF Next, MonitorStep, AdapterStep

(* Between two executions of the monitor, controller, adapter, services    *)
(* and limiter hold the same users for any lists the panel may serve and   *)
(* whichever step of a synchronisation fails (syncUsers, SyncUsers,        *)
(* compareUserList).                                                       *)
THEOREM ViewsAgreeCorrect == Spec => []ViewsAgree
<1>1. Init => ViewsInv
  BY DEF Init, ViewsInv, Idle
<1>2. UserSyncTypeOK /\ ViewsInv /\ [Next]_vars => ViewsInv'
  BY ViewsInvNext
<1>3. ViewsInv => ViewsAgree
  BY DEF ViewsInv, ViewsAgree, Idle
<1> QED BY <1>1, <1>2, <1>3, UserSyncTypeCorrect, PTL DEF Spec

-----------------------------------------------------------------------------
(* A node with users is served.                                            *)

Served == instance # NoServer \/ reload \/ closeError

(* While the node runs nobody stops its server but a transaction.  One     *)
(* that closes the server has no users left, and one that starts a server  *)
(* found none: what it falls back to was already excused.                  *)
ServedInv ==
    closer = "run" =>
        /\ \A s \in Stops : stopper[s] = "none"
        /\ mon.pc \notin {"close", "start"} => users = NoUsers \/ Served
        /\ mon.pc = "close" => users = NoUsers
        /\ mon.pc = "start" => mon.previous = NoUsers \/ Served

LEMMA ServedInvInit == Init => ServedInv
<1> SUFFICES ASSUME Init PROVE ServedInv
  OBVIOUS
<1>1. \A l : ById(l) \in UserMaps /\ ById(l) # NoServer
  BY ByIdType, UserSyncAssumption DEF UserMaps
<1>2. panelList = EmptyList => users = NoUsers
  BY DEF Init, EmptyList, ById, NoUsers
<1> QED BY <1>1, <1>2 DEF Init, ServedInv, Served, Serving, Idle, Stops

LEMMA ServedInvNext == UserSyncTypeOK /\ ServedInv /\ [Next]_vars => ServedInv'
<1> SUFFICES ASSUME UserSyncTypeOK, ServedInv, [Next]_vars PROVE ServedInv'
  OBVIOUS
<1> USE DEF panelVars, taskVars, adapterVars, closeVars
<1>0. /\ Idle.pc = "idle" /\ (mon.pc # "idle" => mon \in Jobs)
      /\ \A m \in UserMaps : m # NoServer
      /\ reload \in BOOLEAN /\ closeError \in BOOLEAN /\ users \in UserMaps
  BY MonJob, UserSyncAssumption DEF Idle, UserSyncTypeOK, UserMaps
<1>1. CASE CloseStep
  <2>1. ASSUME closer' = "run" PROVE closer = "run" /\ UNCHANGED <<stopper, mon, users, instance, reload, closeError>>
    BY <1>1, <2>1 DEF CloseStep, CancelTasks, TasksWaited, StopNode, StopReturns, DelNode,
       DelNodeReturns, CloserTo, StopLocked, StopDone, ServedInv
  <2> QED BY <2>1 DEF ServedInv, Served
<1>2. SUFFICES ASSUME ~CloseStep, closer = "run", closer' = "run", stopper' = stopper
               PROVE  ServedInv'
  <2>1. CASE CloseStep
    BY <1>1, <2>1
  <2>2. CASE ~CloseStep
    <3>1. closer' = closer /\ stopper' = stopper
      BY <2>2 DEF Next, vars, PanelChanges, MonitorStep, GetUserList, GetUserListFails,
         CoreSyncUsers, UpdateLimiter, StoreUserList, AdapterStep, BeginSync,
         SyncClosed, SyncStarted, SyncStartFails, SyncServices, SyncCloseFails
    <3>2. CASE closer = "run"
      BY <1>2, <2>2, <3>1, <3>2
    <3>3. CASE closer # "run"
      BY <3>1, <3>3 DEF ServedInv
    <3> QED BY <3>2, <3>3
  <2> QED BY <2>1, <2>2
<1>3. CASE (\E list \in Offers : PanelChanges(list)) \/ GetUserListFails \/ UNCHANGED vars
  BY <1>2, <1>3 DEF PanelChanges, GetUserListFails, vars, ServedInv, Served
<1>4. ASSUME NEW json \in BOOLEAN, GetUserList(json) PROVE ServedInv'
  <2>1. mon'.pc \in {"idle", "limiter", "core"} /\ mon.pc = "idle"
        /\ UNCHANGED <<users, instance, reload, closeError>>
    BY <1>0, <1>4 DEF GetUserList, Begins
  <2> QED BY <1>2, <2>1 DEF ServedInv, Served
<1>5. CASE CoreSyncUsers \/ UpdateLimiter \/ StoreUserList
  <2>1. mon'.pc \in {"idle", "lock", "store"} /\ mon.pc \in {"core", "limiter", "store"}
        /\ UNCHANGED <<users, instance, closeError>> /\ (reload => reload')
    BY <1>0, <1>5 DEF CoreSyncUsers, UpdateLimiter, StoreUserList, Goto, SyncFails, Jobs
  <2> QED BY <1>2, <2>1 DEF ServedInv, Served
<1>6. CASE BeginSync
  <2>0. mon \in Jobs /\ Patch(users) \in UserMaps /\ mon.pc = "lock"
        /\ (users = NoUsers \/ Served)
    BY <1>0, <1>2, <1>6, PatchType DEF BeginSync, ServedInv
  <2>1. CASE SyncFails(FALSE) /\ UNCHANGED adapterVars
    BY <1>0, <1>2, <2>0, <2>1 DEF SyncFails, ServedInv, Served
  <2>2. ASSUME NEW pc \in {"services", "close"}, Proceed(pc), Patch(users) = NoUsers
        PROVE  ServedInv'
    <3>1. mon'.pc = pc /\ users' = NoUsers
      BY <2>0, <2>2 DEF Proceed, Jobs
    <3> QED BY <1>2, <2>2, <3>1 DEF ServedInv, Served
  <2>3. ASSUME Proceed("start"), UNCHANGED instance PROVE ServedInv'
    <3>1. mon'.pc = "start" /\ mon'.previous = users
          /\ UNCHANGED <<instance, reload, closeError>>
      BY <2>0, <2>3 DEF Proceed, Jobs
    <3> QED BY <1>2, <2>0, <3>1 DEF ServedInv, Served
  <2>4. ASSUME Proceed("services"), HotUpdate(Patch(users)) PROVE ServedInv'
    <3>1. mon'.pc = "services" /\ instance' # NoServer
      BY <1>0, <2>0, <2>4 DEF Proceed, HotUpdate, Jobs
    <3> QED BY <1>2, <3>1 DEF ServedInv, Served
  <2> QED BY <1>6, <2>1, <2>2, <2>3, <2>4 DEF BeginSync
<1>7. CASE SyncClosed
  <2>1. mon'.pc = "services" /\ users' = NoUsers
    BY <1>0, <1>2, <1>7 DEF SyncClosed, Goto, Jobs, ServedInv
  <2> QED BY <1>2, <2>1 DEF ServedInv
<1>8. ASSUME NEW timeout \in BOOLEAN, SyncCloseFails(timeout) PROVE ServedInv'
  <2>1. mon'.pc = "idle" /\ (reload' \/ closeError')
    BY <1>0, <1>8 DEF SyncCloseFails, AbortSync, SyncFails
  <2> QED BY <1>2, <2>1 DEF ServedInv, Served
<1>9. CASE SyncStarted
  <2>1. mon'.pc = "services" /\ instance' # NoServer
    BY <1>0, <1>9 DEF SyncStarted, Goto, Jobs
  <2> QED BY <1>2, <2>1 DEF ServedInv, Served
<1>10. CASE SyncStartFails
  <2>1. /\ mon.pc = "start" /\ mon'.pc = "idle" /\ users' = mon.previous
        /\ UNCHANGED <<instance, closeError>> /\ (reload => reload')
    BY <1>0, <1>10 DEF SyncStartFails, AbortSync, Rollback, SyncFails
  <2> QED BY <1>2, <2>1 DEF ServedInv, Served
<1>11. CASE SyncServices
  <2>1. mon.pc = "services" /\ mon'.pc = "limiter"
        /\ UNCHANGED <<users, instance, reload, closeError>>
    BY <1>0, <1>11 DEF SyncServices, Goto, Jobs
  <2> QED BY <1>2, <2>1 DEF ServedInv, Served
<1> QED BY <1>2, <1>3, <1>4, <1>5, <1>6, <1>7, <1>8, <1>9, <1>10, <1>11
        DEF Next, MonitorStep, AdapterStep

(* While the node runs and the monitor is between two executions, a node   *)
(* with users has a server, or asked for a reload, or its last server      *)
(* reported an error when it was closed: no failure in the middle of a     *)
(* transaction silently turns a node off (SyncUsers, syncUsers).           *)
THEOREM ServedOrReloadCorrect == Spec => []ServedOrReload
<1>1. Init => ServedInv
  BY ServedInvInit
<1>2. UserSyncTypeOK /\ ServedInv /\ [Next]_vars => ServedInv'
  BY ServedInvNext
<1>3. ServedInv => ServedOrReload
  BY DEF ServedInv, Served, ServedOrReload, Idle
<1> QED BY <1>1, <1>2, <1>3, UserSyncTypeCorrect, PTL DEF Spec
=============================================================================
