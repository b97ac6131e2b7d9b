------------------------------ MODULE UserSync ------------------------------
(***************************************************************************)
(* How the panel's user list reaches the kernel of one node, and how the   *)
(* node is taken down meanwhile: the panel client's ETag                   *)
(* (api/v2board/user.go), the monitor task's syncUsers (node/task.go), the *)
(* dispatcher V2Core (core/core.go), the user transaction of the juicity,  *)
(* naive and sudoku adapters (core/*/runtime.go) and Controller.Close.     *)
(*                                                                         *)
(* The three adapters run the same transaction under their mutex: patch    *)
(* the users, build the authentication snapshot, then stop, start or       *)
(* update the server, then patch the shared services.  Closing a server    *)
(* may time out or fail; Stop gives up after ten seconds and its goroutine *)
(* goes on; a task that does not end within five seconds is left behind    *)
(* and may enter the adapter late.                                         *)
(***************************************************************************)
EXTENDS UserLists

CONSTANTS BadTags,     \* credentials no snapshot can be built from
          NoTag,       \* "no entry", for maps that hold a credential
          NoServer,    \* the adapter's nil instance
          NoList,      \* a nil user slice, or no ETag yet
          Offers,      \* the lists the panel may serve
          MaxChanges   \* bound: how often the panel changes the list

ASSUME UserSyncAssumption ==
    /\ BadTags \subseteq Tags
    /\ Offers \subseteq PanelLists
    /\ NoTag \notin Tags
    /\ MaxChanges \in Nat
    /\ NoServer \notin [Uids -> Tags \cup {NoTag}]
    /\ NoList \notin UserList

VARIABLES
    panelList,   \* the list the panel serves; it is also its ETag
    changes,     \* how often it changed
    etag,        \* Client.userEtag
    userList,    \* Controller.userList
    limiterUsers,\* the limiter's user records
    mon,         \* the monitor task: where it is and its locals
    reload,      \* a reload was requested
    dropped,     \* history: the last list fetched and not applied
    closeError,  \* history: Close of the last server failed, not by timeout
    registered,  \* the tag is in V2Core.runtimes
    mu,          \* who holds the adapter's mutex
    users,       \* the adapter's users by id
    instance,    \* the snapshot its server authenticates with, or NoServer
    serviceUsers,\* RuntimeServices.users
    closer,      \* Controller.Close: where it is
    stopper      \* the goroutines of its two Stop calls

panelVars == <<panelList, changes>>
taskVars == <<etag, userList, limiterUsers, mon, reload, dropped>>
adapterVars == <<mu, users, instance, closeError, serviceUsers>>
closeVars == <<registered, closer, stopper>>
vars == <<panelVars, taskVars, adapterVars, closeVars>>

UserMaps == [Uids -> Tags \cup {NoTag}]
NoUsers == [u \in Uids |-> NoTag]
EmptyList == [t \in Tags |-> NoUser]
Idle == [pc |-> "idle"]

(* The two Stop calls of Controller.Close.                                 *)
Stops == {"stopNode", "delNode"}

Jobs == [pc : {"core", "lock", "close", "start", "services", "limiter", "store"},
         newU : PanelLists, deleted : SUBSET Tags, added : SUBSET Tags,
         previous : UserMaps]

(* A list by id, as the adapters and the services keep it.                 *)
ById(list) ==
    [u \in Uids |-> IF \E t \in Tags : list[t] # NoUser /\ list[t].uid = u
                    THEN CHOOSE t \in Tags : list[t] # NoUser /\ list[t].uid = u
                    ELSE NoTag]

UserSyncTypeOK ==
    /\ panelList \in PanelLists /\ changes \in 0 .. MaxChanges
    /\ etag \in PanelLists /\ userList \in PanelLists
    /\ limiterUsers \in UserList
    /\ mon \in {Idle} \cup Jobs
    /\ reload \in BOOLEAN /\ dropped \in PanelLists \cup {NoList}
    /\ registered \in BOOLEAN
    /\ mu \in {"free", "sync"} \cup Stops
    /\ users \in UserMaps /\ serviceUsers \in UserMaps
    /\ instance \in UserMaps \cup {NoServer} /\ closeError \in BOOLEAN
    /\ closer \in {"run", "tasks", "stopNode", "stopping", "flush", "deleting", "closed"}
    /\ stopper \in [Stops -> {"none", "lock", "close", "done"}]

Serving(list) == IF list = EmptyList THEN NoServer ELSE ById(list)

(* The node was started with the list the panel serves.                    *)
Init ==
    /\ panelList \in {l \in Offers : \A t \in BadTags : l[t] = NoUser}
    /\ changes = 0
    /\ etag = panelList /\ userList = panelList /\ limiterUsers = panelList
    /\ mon = Idle /\ reload = FALSE /\ dropped = NoList
    /\ registered = TRUE
    /\ mu = "free"
    /\ users = ById(panelList) /\ serviceUsers = ById(panelList)
    /\ instance = Serving(panelList) /\ closeError = FALSE
    /\ closer = "run"
    /\ stopper = [s \in Stops |-> "none"]

-----------------------------------------------------------------------------
(* The panel.                                                              *)

PanelChanges(list) ==
    /\ changes < MaxChanges
    /\ list # panelList
    /\ panelList' = list
    /\ changes' = changes + 1
    /\ UNCHANGED <<taskVars, adapterVars, closeVars>>

-----------------------------------------------------------------------------
(* The monitor task.  It starts no execution once Close has cancelled it.  *)

Begins == mon = Idle /\ closer = "run"

(* A decoded response stores the ETag.  An empty JSON array decodes to a   *)
(* nil slice, which the caller takes for "no change".                      *)
GetUserList(json) ==
    /\ Begins
    /\ panelList # etag
    /\ etag' = panelList
    /\ IF json /\ panelList = EmptyList
       THEN dropped' = panelList /\ UNCHANGED mon
       ELSE LET deleted == Deleted(userList, panelList)
                added == Added(userList, panelList) IN
            /\ mon' = [pc |-> IF deleted \cup added = {} THEN "limiter" ELSE "core",
                       newU |-> panelList, deleted |-> deleted, added |-> added,
                       previous |-> NoUsers]
            /\ UNCHANGED dropped
    /\ UNCHANGED <<userList, limiterUsers, reload, panelVars, adapterVars, closeVars>>

(* Mutant: the ETag is stored before the body is decoded.                  *)
StoreEtagFirst ==
    /\ Begins
    /\ etag' = panelList
    /\ UNCHANGED <<userList, limiterUsers, mon, reload, dropped,
                   panelVars, adapterVars, closeVars>>

(* The request or the decoding fails.                                      *)
GetUserListFails ==
    /\ Begins
    /\ UNCHANGED vars

(* Mutant: no error asks for a reload.                                     *)
SyncFailsQuietly(timeout) ==
    /\ mon' = Idle
    /\ dropped' = mon.newU
    /\ UNCHANGED <<etag, userList, limiterUsers, reload>>

(* syncUsers gives the list up; only a stop timeout asks for a reload.     *)
(* The dispatcher's read lock goes with the call (see HoldsCore).          *)
SyncFails(timeout) ==
    /\ mon' = Idle
    /\ dropped' = mon.newU
    /\ reload' = (reload \/ timeout)
    /\ UNCHANGED <<etag, userList, limiterUsers>>

Goto(pc) ==
    /\ mon' = [mon EXCEPT !.pc = pc]
    /\ UNCHANGED <<etag, userList, limiterUsers, reload, dropped>>

(* V2Core.SyncUsers looks the runtime up and keeps the read lock.          *)
CoreSyncUsers ==
    /\ mon.pc = "core"
    /\ IF registered THEN Goto("lock") ELSE SyncFails(FALSE)
    /\ UNCHANGED <<panelVars, adapterVars, closeVars>>

(* Mutant: the lock is held for the lookup only, as in StopNode.           *)
HoldsCoreForLookup == FALSE

HoldsCore == mon.pc \in {"lock", "close", "start", "services"}

(* Limiter.UpdateUser with the three differences (Limiter.tla has its      *)
(* steps), then the new list becomes the current one.                      *)
UpdateLimiter ==
    /\ mon.pc = "limiter"
    /\ limiterUsers' =
          [t \in Tags |->
             IF t \in mon.added \cup Modified(userList, mon.newU) THEN mon.newU[t]
             ELSE IF t \in mon.deleted THEN NoUser ELSE limiterUsers[t]]
    /\ mon' = [mon EXCEPT !.pc = "store"]
    /\ UNCHANGED <<etag, userList, reload, dropped, panelVars, adapterVars, closeVars>>

StoreUserList ==
    /\ mon.pc = "store"
    /\ userList' = mon.newU
    /\ mon' = Idle
    /\ UNCHANGED <<etag, limiterUsers, reload, dropped,
                   panelVars, adapterVars, closeVars>>

-----------------------------------------------------------------------------
(* The adapter: SyncUsers under its mutex.                                 *)

(* Both the adapters and RuntimeServices delete first and add then: a      *)
(* credential that moved is in both differences.                           *)
Patch(map) ==
    [u \in Uids |->
        IF \E t \in mon.added : mon.newU[t].uid = u
        THEN CHOOSE t \in mon.added : mon.newU[t].uid = u
        ELSE IF \E t \in mon.deleted : userList[t].uid = u THEN NoTag ELSE map[u]]

SnapshotFails(map) == \E u \in Uids : map[u] \in BadTags

(* Mutant: a hot update leaves the server its old snapshot.                *)
HotUpdateSkipped(new) == UNCHANGED instance

HotUpdate(new) == instance' = new

(* The transaction goes on with the patched users and the mutex held.      *)
Proceed(pc) ==
    /\ ~SnapshotFails(Patch(users))
    /\ users' = Patch(users) /\ mu' = "sync"
    /\ mon' = [mon EXCEPT !.pc = pc, !.previous = users]
    /\ UNCHANGED <<etag, userList, limiterUsers, reload, dropped,
                   closeError, serviceUsers>>

(* The users are patched; a snapshot that cannot be built restores them at *)
(* once.  Without users the server is stopped (stopLocked drops instance   *)
(* before it closes it), a running server takes the new snapshot.          *)
BeginSync ==
    /\ mon.pc = "lock" /\ mu = "free"
    /\ \/ /\ SnapshotFails(Patch(users))
          /\ SyncFails(FALSE)
          /\ UNCHANGED adapterVars
       \/ /\ Patch(users) = NoUsers
          /\ Proceed(IF instance = NoServer THEN "services" ELSE "close")
          /\ instance' = NoServer
       \/ /\ Patch(users) # NoUsers /\ instance = NoServer
          /\ Proceed("start")
          /\ UNCHANGED instance
       \/ /\ Patch(users) # NoUsers /\ instance # NoServer
          /\ Proceed("services")
          /\ HotUpdate(Patch(users))
    /\ UNCHANGED <<panelVars, closeVars>>

(* Mutant: the users of a failed transaction stay.                         *)
RollbackForgotten == users

Rollback == mon.previous

AbortSync(timeout) ==
    /\ users' = Rollback
    /\ mu' = "free"
    /\ SyncFails(timeout)

(* Close of the old server returns, or fails, or times out.                *)
SyncClosed ==
    /\ mon.pc = "close"
    /\ Goto("services")
    /\ UNCHANGED <<adapterVars, panelVars, closeVars>>

SyncCloseFails(timeout) ==
    /\ mon.pc = "close"
    /\ AbortSync(timeout)
    /\ closeError' = ~timeout
    /\ UNCHANGED <<instance, serviceUsers, panelVars, closeVars>>

SyncStarted ==
    /\ mon.pc = "start"
    /\ instance' = users /\ closeError' = FALSE
    /\ Goto("services")
    /\ UNCHANGED <<mu, users, serviceUsers, panelVars, closeVars>>

SyncStartFails ==
    /\ mon.pc = "start"
    /\ AbortSync(FALSE)
    /\ UNCHANGED <<instance, closeError, serviceUsers, panelVars, closeVars>>

SyncServices ==
    /\ mon.pc = "services"
    /\ serviceUsers' = Patch(serviceUsers)
    /\ mu' = "free"
    /\ Goto("limiter")
    /\ UNCHANGED <<users, instance, closeError, panelVars, closeVars>>

-----------------------------------------------------------------------------
(* Controller.Close.                                                       *)

CloserTo(pc) == closer' = pc /\ UNCHANGED <<panelVars, taskVars, adapterVars>>

CancelTasks ==
    /\ closer = "run"
    /\ CloserTo("tasks")
    /\ UNCHANGED <<registered, stopper>>

(* The monitor ended, or five seconds have passed.                         *)
TasksWaited ==
    /\ closer = "tasks"
    /\ CloserTo("stopNode")
    /\ UNCHANGED <<registered, stopper>>

StopNode ==
    /\ closer = "stopNode"
    /\ CloserTo("stopping")
    /\ stopper' = [stopper EXCEPT !["stopNode"] = "lock"]
    /\ UNCHANGED registered

(* Stop returned, or its ten seconds have passed; the final traffic is     *)
(* flushed (Traffic.tla).                                                  *)
StopReturns ==
    /\ closer = "stopping"
    /\ CloserTo("flush")
    /\ UNCHANGED <<registered, stopper>>

(* Mutant: the runtime, stopped once by StopNode, is only removed.         *)
DelNodeStopped ==
    /\ closer = "flush"
    /\ ~HoldsCore
    /\ CloserTo("deleting")
    /\ registered' = FALSE
    /\ UNCHANGED stopper

(* DelNode removes the runtime under the write lock, then stops it again.  *)
DelNode ==
    /\ closer = "flush"
    /\ ~HoldsCore
    /\ CloserTo("deleting")
    /\ registered' = FALSE
    /\ stopper' = [stopper EXCEPT !["delNode"] = "lock"]

DelNodeReturns ==
    /\ closer = "deleting"
    /\ CloserTo("closed")
    /\ UNCHANGED <<registered, stopper>>

(* The goroutine of a Stop call: stopLocked under the mutex.               *)
StopLocked(s) ==
    /\ stopper[s] = "lock" /\ mu = "free"
    /\ instance' = NoServer
    /\ IF instance = NoServer
       THEN stopper' = [stopper EXCEPT ![s] = "done"] /\ UNCHANGED mu
       ELSE stopper' = [stopper EXCEPT ![s] = "close"] /\ mu' = s
    /\ UNCHANGED <<users, closeError, serviceUsers, registered, closer,
                   panelVars, taskVars>>

StopDone(s) ==
    /\ stopper[s] = "close"
    /\ stopper' = [stopper EXCEPT ![s] = "done"]
    /\ mu' = "free"
    /\ UNCHANGED <<users, instance, closeError, serviceUsers, registered, closer,
                   panelVars, taskVars>>

-----------------------------------------------------------------------------
MonitorStep ==
    \/ \E json \in BOOLEAN : GetUserList(json)
    \/ GetUserListFails
    \/ CoreSyncUsers \/ UpdateLimiter \/ StoreUserList

AdapterStep ==
    \/ BeginSync \/ SyncClosed \/ SyncStarted \/ SyncStartFails \/ SyncServices
    \/ \E timeout \in BOOLEAN : SyncCloseFails(timeout)

CloseStep ==
    \/ CancelTasks \/ TasksWaited \/ StopNode \/ StopReturns
    \/ DelNode \/ DelNodeReturns
    \/ \E s \in Stops : StopLocked(s) \/ StopDone(s)

Next ==
    \/ \E list \in Offers : PanelChanges(list)
    \/ MonitorStep \/ AdapterStep \/ CloseStep

Spec == Init /\ [][Next]_vars

(* The timer fires for ever and a request repeated for ever is answered;   *)
(* code that runs is not suspended for ever; a Go mutex is handed over in  *)
(* the end.  Nothing makes Controller.Close happen.                        *)
Fairness ==
    /\ SF_vars(\E json \in BOOLEAN : GetUserList(json))
    /\ WF_vars(CoreSyncUsers) /\ WF_vars(UpdateLimiter) /\ WF_vars(StoreUserList)
    /\ SF_vars(AdapterStep)
    /\ WF_vars(TasksWaited) /\ WF_vars(StopNode) /\ WF_vars(StopReturns)
    /\ SF_vars(DelNode) /\ WF_vars(DelNodeReturns)
    /\ \A s \in Stops : SF_vars(StopLocked(s)) /\ WF_vars(StopDone(s))

FairSpec == Spec /\ Fairness

-----------------------------------------------------------------------------
(* Properties.                                                             *)

(* Between two executions of the monitor the controller, the adapter, the  *)
(* shared services and the limiter hold the same users, whichever step of  *)
(* a synchronisation failed and however ids and credentials were exchanged *)
(* (SyncUsers: r.users = previous; compareUserList).                       *)
ViewsAgree ==
    mon = Idle => /\ users = ById(userList)
                  /\ serviceUsers = users
                  /\ limiterUsers = userList

(* Outside a transaction the server authenticates exactly the adapter's    *)
(* users (instance.users.Store, stopLocked).                               *)
ServerHasUsers == mu = "free" /\ instance # NoServer => instance = users

(* Once the node has been deleted and the goroutine of the last Stop has   *)
(* ended, no server is left listening, although a monitor task left behind *)
(* after five seconds may have started one after StopNode (DelNode).       *)
NoOrphanServer == closer \in {"deleting", "closed"} /\ stopper["delNode"] = "done"
                      => instance = NoServer

(* While the node runs and the monitor is idle, a node with users has a    *)
(* server, or a reload was requested (a stop timeout), or Close of its     *)
(* last server reported another error (SyncUsers, requestRuntimeReload).   *)
ServedOrReload ==
    mon = Idle /\ closer = "run" /\ users # NoUsers
        => instance # NoServer \/ reload \/ closeError

(* The panel's list becomes the node's list, unless the node fetched it    *)
(* and gave it up, or the node is closed (GetUserList, syncUsers).         *)
PanelListApplied ==
    []<>(userList = panelList \/ dropped = panelList \/ closer # "run")

(* Controller.Close leads to a node without a server, even with a monitor  *)
(* task left behind in the adapter (safeStop, DelNode, Stop).              *)
CloseEndsServer == closer # "run" ~> closer = "closed" /\ instance = NoServer
=============================================================================
