-------------------------- MODULE RuntimeServices --------------------------
(***************************************************************************)
(* The common connection policy of one node (core/shared/runtime.go) over  *)
(* its limiter, with the user synchronisation of the monitor task          *)
(* (node/task.go, syncUsers).                                              *)
(*                                                                         *)
(* openSession checks the user under mu, asks the limiter with mu          *)
(* released, and checks the user again before it registers the session;    *)
(* SyncUsers takes the sessions of removed users out of the registry under *)
(* mu and closes them with mu released; only then does syncUsers update    *)
(* the limiter, one lock at a time.  Every critical section is a step.     *)
(***************************************************************************)
EXTENDS Limiter

CONSTANT NoTag

ASSUME RuntimeAssumption == NoTag \notin Tags

VARIABLES
    users,        \* users: the credential of each current panel id
    usersByUUID,  \* usersByUUID: the panel id of each current credential
    connections,  \* connections: registered sessions by panel id
    session,      \* the session each kernel goroutine is opening or owns
    taken,        \* sessions a goroutine took out of the registry to close
    sync          \* locals of syncUsers

registryVars == <<users, usersByUUID, connections>>
runtimeVars == <<users, usersByUUID, connections, session, taken, sync>>
vars == <<limiterVars, runtimeVars>>

NoSession == [stage |-> "none"]
NoSync == [pc |-> "idle"]

(* The goroutines that run closeSessions: the monitor task inside          *)
(* SyncUsers, and whoever stops the kernel inside CloseAllConnections.     *)
Closers == {"sync", "stop"}

SessionType ==
    {NoSession} \cup
    [stage : {"checking", "admitted", "open", "releasing"},
     uid : Uids, tag : Tags, addr : Addrs]

RuntimeTypeOK ==
    /\ TypeOK
    /\ users \in [Uids -> Tags \cup {NoTag}]
    /\ usersByUUID \in [Tags -> Uids \cup {NoUid}]
    /\ connections \in [Uids -> SUBSET Conns]
    /\ session \in [Conns -> SessionType]
    /\ taken \in [Closers -> SUBSET Conns]
    /\ sync \in {NoSync} \cup [pc : {"close", "update"}, new : PanelLists]

(* The runtime starts with the users its controller prepared: AddLimiter   *)
(* followed by the first SyncUsers(nil, users).                            *)
RuntimeInit ==
    /\ LimiterInit
    /\ users = [u \in Uids |->
          IF \E t \in Tags : info[t] # NoUser /\ info[t].uid = u
          THEN CHOOSE t \in Tags : info[t] # NoUser /\ info[t].uid = u
          ELSE NoTag]
    /\ usersByUUID = [t \in Tags |-> IF info[t] = NoUser THEN NoUid ELSE info[t].uid]
    /\ connections = [u \in Uids |-> {}]
    /\ session = [c \in Conns |-> NoSession]
    /\ taken = [g \in Closers |-> {}]
    /\ sync = NoSync

-----------------------------------------------------------------------------
(* openSession.                                                            *)

IsCurrent(u, t) == users[u] = t

(* userIsCurrent.  The kernel authenticated the user at some earlier time, *)
(* so (u, t) is any record; a session object is never used twice.          *)
OpenSession(c, u, t, a) ==
    /\ session[c] = NoSession
    /\ \A g \in Closers : c \notin taken[g]
    /\ IsCurrent(u, t)
    /\ session' = [session EXCEPT ![c] =
                     [stage |-> "checking", uid |-> u, tag |-> t, addr |-> a]]
    /\ UNCHANGED <<limiterVars, registryVars, taken, sync>>

(* CheckLimit with mu released: its three critical sections.               *)
OpenSessionCheck(c) ==
    /\ session[c].stage = "checking"
    /\ \/ /\ conn[c].pc = "idle"
          /\ info[session[c].tag] = NoUser
          /\ session' = [session EXCEPT ![c] = NoSession]
          /\ UNCHANGED limiterVars
       \/ /\ CheckLimit(c, session[c].tag, session[c].addr)
          /\ UNCHANGED session
       \/ /\ CheckLimitAlive(c)
          /\ UNCHANGED session
       \/ /\ TrackConnection(c)
          /\ session' = [session EXCEPT ![c] =
                IF conn'[c].pc = "held" THEN [@ EXCEPT !.stage = "admitted"]
                ELSE NoSession]
    /\ UNCHANGED <<registryVars, taken, sync>>

(* Mutant: the session is registered without looking at the user again.    *)
RegisterUnchecked(c) ==
    LET s == session[c] IN
    /\ s.stage = "admitted"
    /\ session' = [session EXCEPT ![c].stage = "open"]
    /\ connections' = [connections EXCEPT ![s.uid] = @ \cup {c}]
    /\ UNCHANGED <<limiterVars, users, usersByUUID, taken, sync>>

(* The second look at the user: registered, or the slot is given back.     *)
Register(c) ==
    LET s == session[c] IN
    /\ s.stage = "admitted"
    /\ \/ /\ IsCurrent(s.uid, s.tag)
          /\ session' = [session EXCEPT ![c].stage = "open"]
          /\ connections' = [connections EXCEPT ![s.uid] = @ \cup {c}]
       \/ /\ ~IsCurrent(s.uid, s.tag)
          /\ session' = [session EXCEPT ![c].stage = "releasing"]
          /\ UNCHANGED connections
    /\ UNCHANGED <<limiterVars, users, usersByUUID, taken, sync>>

-----------------------------------------------------------------------------
(* Session.Close and Session.Release.                                      *)

(* Mutant: only a session that is still registered is released.            *)
UnregisterIfListed(c) ==
    /\ session[c].stage = "open"
    /\ c \in connections[session[c].uid]
    /\ connections' = [connections EXCEPT ![session[c].uid] = @ \ {c}]
    /\ session' = [session EXCEPT ![c].stage = "releasing"]

(* releaseOnce: the first caller unregisters the session; a second one     *)
(* waits for it.                                                           *)
Unregister(c) ==
    /\ session[c].stage = "open"
    /\ connections' = [connections EXCEPT ![session[c].uid] = @ \ {c}]
    /\ session' = [session EXCEPT ![c].stage = "releasing"]

(* The kernel's own close or release callback.                             *)
Release(c) ==
    /\ Unregister(c)
    /\ UNCHANGED <<limiterVars, users, usersByUUID, taken, sync>>

(* The slot goes back to the limiter with mu released.                     *)
ReleaseSession(c) ==
    /\ session[c].stage = "releasing"
    /\ ReleaseConnection(c)
    /\ session' = [session EXCEPT ![c] = NoSession]
    /\ UNCHANGED <<registryVars, taken, sync>>

(* closeSessions: Close each session taken, wherever it is in its release. *)
CloseTaken(g, c) ==
    /\ c \in taken[g]
    /\ \/ /\ Unregister(c)
          /\ UNCHANGED taken
       \/ /\ session[c] = NoSession
          /\ taken' = [taken EXCEPT ![g] = @ \ {c}]
          /\ UNCHANGED <<connections, session>>
    /\ UNCHANGED <<limiterVars, users, usersByUUID, sync>>

(* CloseAllConnections, when the kernel stops or its server fails.         *)
CloseAllConnections ==
    /\ taken["stop"] = {}
    /\ taken' = [taken EXCEPT !["stop"] = UNION {connections[u] : u \in Uids}]
    /\ connections' = [u \in Uids |-> {}]
    /\ UNCHANGED <<limiterVars, users, usersByUUID, session, sync>>

-----------------------------------------------------------------------------
(* syncUsers.  The controller's userList equals the limiter's records      *)
(* whenever no synchronisation is under way.                               *)

Ids(list, tags) == {list[t].uid : t \in tags}

OwnerIn(list, tags, u) == CHOOSE t \in tags : list[t].uid = u

(* Mutant: removed users keep their registered sessions.                   *)
KeepSessions(del) ==
    /\ taken' = [taken EXCEPT !["sync"] = {}]
    /\ UNCHANGED connections

TakeSessions(del) ==
    /\ taken' = [taken EXCEPT !["sync"] = UNION {connections[u] : u \in del}]
    /\ connections' = [u \in Uids |-> IF u \in del THEN {} ELSE connections[u]]

(* Mutant: the index entry of a removed credential stays.                  *)
ReindexKeepDeleted(new, del, add) ==
    usersByUUID' = [t \in Tags |-> IF t \in add THEN new[t].uid ELSE usersByUUID[t]]

(* Deleted ids lose the entry of the credential they own now, then added   *)
(* users replace the entry their id had.                                   *)
Reindex(new, del, add) ==
    usersByUUID' = [t \in Tags |->
        IF t \in add THEN new[t].uid
        ELSE IF \E u \in del \cup Ids(new, add) : users[u] = t THEN NoUid
        ELSE usersByUUID[t]]

(* SyncUsers under mu.  A list with neither deletions nor additions goes   *)
(* straight to the limiter.                                                *)
SyncUsers(new) ==
    LET deleted == Deleted(info, new)
        added == Added(info, new)
        del == Ids(info, deleted)
    IN /\ sync = NoSync
       /\ deleted \cup added \cup Modified(info, new) # {}
       /\ sync' = [pc |-> "close", new |-> new]
       /\ users' = [u \in Uids |->
             IF u \in Ids(new, added) THEN OwnerIn(new, added, u)
             ELSE IF u \in del THEN NoTag ELSE users[u]]
       /\ Reindex(new, del, added)
       /\ TakeSessions(del)
       /\ UNCHANGED <<limiterVars, session>>

(* closeSessions returned: the limiter learns of the change.               *)
SyncLimiter ==
    /\ sync.pc = "close"
    /\ taken["sync"] = {}
    /\ UpdateUser(sync.new)
    /\ sync' = [sync EXCEPT !.pc = "update"]
    /\ UNCHANGED <<registryVars, session, taken>>

SyncLimiterRest ==
    /\ sync.pc = "update"
    /\ \/ UpdateAlive /\ UNCHANGED sync
       \/ UpdateOnline /\ sync' = NoSync
    /\ UNCHANGED <<registryVars, session, taken>>

-----------------------------------------------------------------------------
Report == ReportStep /\ UNCHANGED runtimeVars

SessionStep(c) == OpenSessionCheck(c) \/ Register(c) \/ ReleaseSession(c)

CloseStep == \E g \in Closers, c \in Conns : CloseTaken(g, c)

SyncStep == SyncLimiter \/ SyncLimiterRest

Next ==
    \/ \E c \in Conns, u \in Uids, t \in Tags, a \in Addrs : OpenSession(c, u, t, a)
    \/ \E c \in Conns : SessionStep(c) \/ Release(c)
    \/ CloseStep
    \/ CloseAllConnections
    \/ \E new \in PanelLists : SyncUsers(new)
    \/ SyncStep
    \/ Report

Spec == RuntimeInit /\ [][Next]_vars

(* The kernel goroutines inside openSession and Release, the goroutines    *)
(* inside closeSessions and the monitor task keep running: none of them    *)
(* waits for a peer once a protocol's Close returns.                       *)
Fairness ==
    /\ \A c \in Conns : WF_vars(SessionStep(c))
    /\ \A g \in Closers, c \in Conns : WF_vars(CloseTaken(g, c))
    /\ WF_vars(SyncStep)

FairSpec == Spec /\ Fairness

-----------------------------------------------------------------------------
(* Properties.                                                             *)

IsTaken(c) == \E g \in Closers : c \in taken[g]

(* An open session is registered under a user that is current right now,   *)
(* or some goroutine has already taken it and is about to close it: no     *)
(* interleaving of openSession with SyncUsers leaves a removed user        *)
(* connected (the second user check of openSession).                       *)
OpenIsCurrentOrTaken ==
    \A c \in Conns : session[c].stage = "open" =>
        \/ /\ c \in connections[session[c].uid]
           /\ IsCurrent(session[c].uid, session[c].tag)
        \/ IsTaken(c)

(* The credential index answers exactly for the current users, so          *)
(* UserByUUID never finds a removed one and never misses a current one     *)
(* (SyncUsers, when ids move between credentials).                         *)
IndexMatchesUsers ==
    \A u \in Uids, t \in Tags : (usersByUUID[t] = u) <=> (users[u] = t)

(* Every session taken by SyncUsers or CloseAllConnections is closed and   *)
(* its device slot given back, also when the kernel closes it at the same  *)
(* moment (closeOnce and releaseOnce); and so closing sessions with mu     *)
(* released never blocks a synchronisation, and the limiter follows the    *)
(* registry.                                                               *)
TakenIsClosed ==
    /\ \A c \in Conns : IsTaken(c) ~> conn[c].pc = "idle"
    /\ sync # NoSync ~> sync = NoSync

(* The comment of ReleaseConnection: connections from one address share a  *)
(* slot that is removed only after the final connection closes.  So an     *)
(* address counts at least the registered sessions from it.                *)
SlotKeptWhileOpen ==
    \A t \in Tags, a \in Addrs :
        Cardinality({c \in Conns : /\ session[c].stage = "open" /\ ~IsTaken(c)
                                   /\ session[c].tag = t
                                   /\ trim[session[c].addr] = a}) <= ips[t][a]
=============================================================================
