------------------------------- MODULE Mieru --------------------------------
(***************************************************************************)
(* The Mieru adapter (core/mieru/runtime.go, hot_server.go): users are     *)
(* synchronised into a running mux when that is safe and by a restart when *)
(* it is not, with a second restart to get back to the previous users, and *)
(* connections are looked up, opened and relayed meanwhile.                *)
(*                                                                         *)
(* A mux accepts a connection for an id with the password its table has    *)
(* for the id; the adapter knows the connection by its user name, which is *)
(* the id, only.  Deleted users stay in the table as tombstones.  The mux  *)
(* itself is a library: Close closes its connections, and may take longer  *)
(* than the adapter waits.                                                 *)
(***************************************************************************)
EXTENDS Naturals, FiniteSets

CONSTANTS Ids, Passwords, None,
          Lists,           \* user lists of the panel
          MaxTombstones,   \* maxMieruCredentialTombstones
          MaxSyncs,        \* bound on the calls of SyncUsers
          MaxConns         \* bound on the connections

Users == [Ids -> Passwords \cup {None}]
NoUsers == [i \in Ids |-> None]
Active(f) == {i \in Ids : f[i] # None}

ASSUME MieruAssumption ==
    /\ IsFiniteSet(Ids) /\ None \notin Passwords
    /\ Lists \subseteq Users
    /\ MaxTombstones \in Nat /\ MaxSyncs \in Nat /\ MaxConns \in Nat

Conns == 1 .. MaxConns
Muxes == 1 .. MaxSyncs      \* a call starts one at most
Loops == {"up", "down"}

VARIABLES
    users,         \* users
    credentials,   \* credentials: users and tombstones
    services,      \* users of RuntimeServices
    server,        \* server: the mux in use, or None
    mux,           \* every mux with its table of users
    conn,          \* connections and the locals of handleConnection
    sync,          \* SyncUsers and the step of restartLocked it is in
    syncs,         \* calls of SyncUsers so far
    stop           \* Controller.Close, and the Stops waiting for m.mu

adapterVars == <<users, credentials, services, server>>
vars == <<adapterVars, mux, conn, sync, syncs, stop>>

NoMux == [state |-> "new", table |-> NoUsers]
NoConn == [pc |-> "idle", mux |-> None, id |-> None, pw |-> None, user |-> None,
           loops |-> {}, closed |-> FALSE]
NoSync == [pc |-> "idle", previous |-> NoUsers, attempt |-> 1, old |-> None]

MieruTypeOK ==
    /\ users \in Users /\ credentials \in Users /\ services \in Users
    /\ server \in Muxes \cup {None}
    /\ mux \in [Muxes -> [state : {"new", "open", "closing", "closed"}, table : Users]]
    /\ \A c \in Conns : /\ conn[c].pc \in {"idle", "accepted", "found", "serve", "done"}
                        /\ conn[c].loops \subseteq Loops
    /\ sync.pc \in {"idle", "hot", "check", "close", "stop", "wait", "start", "services"}
    /\ sync.previous \in Users /\ sync.attempt \in {1, 2}
    /\ sync.old \in Muxes \cup {None}
    /\ syncs \in 0 .. MaxSyncs
    /\ stop \in [call : {"no", "StopNode", "stopped", "DelNode"}, waiting : 0 .. 2]

(* NewRuntime.                                                             *)
Init ==
    /\ users = NoUsers /\ credentials = NoUsers /\ services = NoUsers
    /\ server = None /\ mux = [k \in Muxes |-> NoMux]
    /\ conn = [c \in Conns |-> NoConn]
    /\ sync = NoSync /\ syncs = 0 /\ stop = [call |-> "no", waiting |-> 0]

-----------------------------------------------------------------------------
(* SyncUsers: the lists deleted and added turn users into next, and m.mu   *)
(* is held until the end.                                                  *)

Added(next) == {i \in Active(next) : next[i] # users[i]}

(* Mutant: a changed password is left to the hot update.                   *)
CredentialUnchanged(next) == FALSE

credentialChanged(next) ==
    \E i \in Added(next) : credentials[i] \notin {None, next[i]}

tooManyTombstones(next) ==
    Cardinality(Active(credentials) \cup Added(next))
      > Cardinality(Active(next)) + MaxTombstones

CanHotUpdate(next) ==
    /\ server # None /\ users # NoUsers /\ next # NoUsers
    /\ ~credentialChanged(next) /\ ~tooManyTombstones(next)

(* A monitor task finds the runtime in V2Core until DelNode took it out,   *)
(* and may do so after Stop; there is no sign of a Stop in the adapter.    *)
SyncUsers(next) ==
    /\ sync.pc = "idle" /\ stop.call # "DelNode" /\ syncs < MaxSyncs
    /\ next # users
    /\ sync' = [NoSync EXCEPT !.pc = IF CanHotUpdate(next) THEN "hot" ELSE "check",
                              !.previous = users]
    /\ users' = next
    /\ syncs' = syncs + 1
    /\ UNCHANGED <<credentials, services, server, mux, conn, stop>>

(* The credentials after a hot update: users join, nobody leaves.          *)
WithAdded == [i \in Ids |-> IF users[i] # None THEN users[i] ELSE credentials[i]]

(* hotMieruServer.UpdateUsers, needed only for a name the mux does not     *)
(* know.                                                                   *)
HotUpdate ==
    /\ sync.pc = "hot"
    /\ credentials' = WithAdded
    /\ mux' = [mux EXCEPT ![server].table =
                  IF Active(WithAdded) = Active(credentials) THEN @ ELSE WithAdded]
    /\ sync' = [sync EXCEPT !.pc = "services"]
    /\ UNCHANGED <<users, services, server, conn, syncs, stop>>

(* Mutant: the credentials are not restored.                               *)
HotUpdateFailsKeeps ==
    /\ sync.pc = "hot" /\ Active(WithAdded) # Active(credentials)
    /\ users' = sync.previous
    /\ credentials' = WithAdded
    /\ sync' = NoSync
    /\ UNCHANGED <<services, server, mux, conn, syncs, stop>>

(* The new configuration is not valid: users and credentials are restored. *)
HotUpdateFails ==
    /\ sync.pc = "hot" /\ Active(WithAdded) # Active(credentials)
    /\ users' = sync.previous
    /\ sync' = NoSync
    /\ UNCHANGED <<credentials, services, server, mux, conn, syncs, stop>>

(* RuntimeServices.SyncUsers closes the sessions of users that are gone or *)
(* have another password; see RuntimeServices for its steps.               *)
SyncServices ==
    /\ sync.pc = "services"
    /\ services' = users
    /\ conn' = [c \in Conns |->
          IF conn[c].pc = "serve" /\ users[conn[c].id] # conn[c].user
          THEN [conn[c] EXCEPT !.closed = TRUE] ELSE conn[c]]
    /\ sync' = NoSync
    /\ UNCHANGED <<users, credentials, server, mux, syncs, stop>>

-----------------------------------------------------------------------------
(* restartLocked.                                                          *)

(* What SyncUsers does with an error of restartLocked that is no timeout:  *)
(* the previous users are tried, once.                                     *)
RestartFails ==
    /\ users' = sync.previous
    /\ sync' = IF sync.attempt = 1
               THEN [sync EXCEPT !.pc = "check", !.attempt = 2, !.old = None]
               ELSE NoSync

(* The routes, the port bindings or the traffic pattern may be wrong, the  *)
(* routes also of a node without users.  Nothing was stopped yet: such an  *)
(* error leaves the server alone.                                          *)
CheckConfig ==
    /\ sync.pc = "check"
    /\ \/ sync' = [sync EXCEPT !.pc = "close"] /\ UNCHANGED users
       \/ RestartFails
    /\ UNCHANGED <<credentials, services, server, mux, conn, syncs, stop>>

(* CloseAllConnections.                                                    *)
CloseAllConnections ==
    conn' = [c \in Conns |-> IF conn[c].pc = "serve"
                             THEN [conn[c] EXCEPT !.closed = TRUE] ELSE conn[c]]

CloseSessions ==
    /\ sync.pc = "close"
    /\ CloseAllConnections
    /\ sync' = [sync EXCEPT !.pc = "stop"]
    /\ UNCHANGED <<adapterVars, mux, syncs, stop>>

(* stopLocked: the server is forgotten before its Stop has begun.          *)
ForgetServer ==
    /\ server' = None
    /\ mux' = IF server = None THEN mux ELSE [mux EXCEPT ![server].state = "closing"]

StopServer ==
    /\ sync.pc = "stop"
    /\ ForgetServer
    /\ sync' = [sync EXCEPT !.pc = IF server = None THEN "start" ELSE "wait",
                            !.old = server]
    /\ UNCHANGED <<users, credentials, services, conn, syncs, stop>>

(* Mux.Close has ended; what it had accepted is closed.                    *)
MuxCloses(k) ==
    /\ mux[k].state = "closing"
    /\ mux' = [mux EXCEPT ![k].state = "closed"]
    /\ conn' = [c \in Conns |-> IF conn[c].mux = k /\ conn[c].pc # "done"
                                THEN [conn[c] EXCEPT !.closed = TRUE] ELSE conn[c]]
    /\ UNCHANGED <<adapterVars, sync, syncs, stop>>

StopReturns ==
    /\ sync.pc = "wait" /\ mux[sync.old].state = "closed"
    /\ \/ sync' = [sync EXCEPT !.pc = "start"] /\ UNCHANGED users
       \/ RestartFails
    /\ UNCHANGED <<credentials, services, server, mux, conn, syncs, stop>>

(* ErrRuntimeStopTimeout: no second restart.                               *)
StopTimesOut ==
    /\ sync.pc = "wait" /\ mux[sync.old].state = "closing"
    /\ users' = sync.previous
    /\ sync' = NoSync
    /\ UNCHANGED <<credentials, services, server, mux, conn, syncs, stop>>

(* The end of a restart; only the first one changes RuntimeServices.       *)
Restarted ==
    sync' = IF sync.attempt = 1 THEN [sync EXCEPT !.pc = "services"] ELSE NoSync

NextMux == CHOOSE k \in Muxes : mux[k].state = "new" /\
                                \A j \in Muxes : j < k => mux[j].state # "new"

StartServer ==
    /\ sync.pc = "start" /\ users # NoUsers
    /\ server' = NextMux
    /\ mux' = [mux EXCEPT ![NextMux] = [state |-> "open", table |-> users]]
    /\ credentials' = users
    /\ Restarted
    /\ UNCHANGED <<users, services, conn, syncs, stop>>

StartFails ==
    /\ sync.pc = "start" /\ users # NoUsers
    /\ RestartFails
    /\ UNCHANGED <<credentials, services, server, mux, conn, syncs, stop>>

StayStopped ==
    /\ sync.pc = "start" /\ users = NoUsers
    /\ credentials' = NoUsers
    /\ Restarted
    /\ UNCHANGED <<users, services, server, mux, conn, syncs, stop>>

-----------------------------------------------------------------------------
(* Controller.Close calls Stop twice, by StopNode, which keeps the runtime *)
(* registered for the last traffic report, and by DelNode.  Stop waits for *)
(* m.mu in a goroutine of its own, which goes on when Stop has given up.   *)

StopNode ==
    /\ stop.call = "no"
    /\ stop' = [call |-> "StopNode", waiting |-> 1]
    /\ UNCHANGED <<adapterVars, mux, conn, sync, syncs>>

StopGivesUp ==
    /\ stop.call = "StopNode" /\ sync.pc # "idle"
    /\ stop' = [stop EXCEPT !.call = "stopped"]
    /\ UNCHANGED <<adapterVars, mux, conn, sync, syncs>>

(* Mutant: a runtime that StopNode has stopped is only taken out.          *)
DelNodeForgets ==
    /\ stop.call = "stopped" /\ sync.pc = "idle"
    /\ stop' = [stop EXCEPT !.call = "DelNode"]
    /\ UNCHANGED <<adapterVars, mux, conn, sync, syncs>>

(* V2Core's lock, which a SyncUsers holds as a reader, is waited for.      *)
DelNode ==
    /\ stop.call = "stopped" /\ sync.pc = "idle"
    /\ stop' = [stop EXCEPT !.call = "DelNode", !.waiting = @ + 1]
    /\ UNCHANGED <<adapterVars, mux, conn, sync, syncs>>

StopRuns ==
    /\ sync.pc = "idle" /\ stop.waiting > 0
    /\ CloseAllConnections
    /\ ForgetServer
    /\ stop' = [call |-> IF stop.call = "StopNode" THEN "stopped" ELSE stop.call,
                waiting |-> stop.waiting - 1]
    /\ UNCHANGED <<users, credentials, services, sync, syncs>>

-----------------------------------------------------------------------------
(* acceptLoop and handleConnection.                                        *)

(* The loop of a mux that is being closed may still get a connection.      *)
Accept(c, k, i) ==
    /\ conn[c].pc = "idle" /\ \A d \in Conns : d < c => conn[d].pc # "idle"
    /\ mux[k].state \in {"open", "closing"} /\ mux[k].table[i] # None
    /\ conn' = [conn EXCEPT ![c] = [NoConn EXCEPT !.pc = "accepted", !.mux = k,
                                      !.id = i, !.pw = mux[k].table[i]]]
    /\ UNCHANGED <<adapterVars, mux, sync, syncs, stop>>

(* userByName, under the read lock.                                        *)
LookUp(c) ==
    /\ conn[c].pc = "accepted" /\ sync.pc = "idle"
    /\ LET u == users[conn[c].id] IN
       conn' = [conn EXCEPT ![c].pc = IF u = None THEN "done" ELSE "found",
                            ![c].user = u]
    /\ UNCHANGED <<adapterVars, mux, sync, syncs, stop>>

(* OpenConnection: the user as it was looked up must still be the one of   *)
(* RuntimeServices, and the limiter may refuse it.                         *)
OpenConnection(c) ==
    /\ conn[c].pc = "found"
    /\ \/ /\ services[conn[c].id] = conn[c].user
          /\ conn' = [conn EXCEPT ![c].pc = "serve", ![c].loops = Loops]
       \/ conn' = [conn EXCEPT ![c].pc = "done"]
    /\ UNCHANGED <<adapterVars, mux, sync, syncs, stop>>

(* One direction of handleUDP or of the copies of handleTCP ends, by       *)
(* itself or because the connection is closed, and closes both.            *)
LoopEnds(c, dir) ==
    /\ conn[c].pc = "serve" /\ dir \in conn[c].loops
    /\ conn' = [conn EXCEPT ![c].loops = @ \ {dir}, ![c].closed = TRUE]
    /\ UNCHANGED <<adapterVars, mux, sync, syncs, stop>>

HandlerReturns(c) ==
    /\ conn[c].pc = "serve" /\ conn[c].loops = {}
    /\ conn' = [conn EXCEPT ![c].pc = "done"]
    /\ UNCHANGED <<adapterVars, mux, sync, syncs, stop>>

-----------------------------------------------------------------------------
AdapterStep ==
    \/ HotUpdate \/ HotUpdateFails \/ SyncServices
    \/ CheckConfig \/ CloseSessions \/ StopServer \/ StopReturns \/ StopTimesOut
    \/ StartServer \/ StartFails \/ StayStopped

ConnStep(c) ==
    \/ LookUp(c) \/ OpenConnection(c) \/ HandlerReturns(c)
    \/ conn[c].closed /\ \E dir \in Loops : LoopEnds(c, dir)

Next ==
    \/ (\E next \in Lists : SyncUsers(next)) \/ AdapterStep
    \/ (\E k \in Muxes : MuxCloses(k))
    \/ StopNode \/ StopGivesUp \/ StopRuns \/ DelNode
    \/ \E c \in Conns :
          \/ \E k \in Muxes, i \in Ids : Accept(c, k, i)
          \/ ConnStep(c) \/ \E dir \in Loops : LoopEnds(c, dir)

Spec == Init /\ [][Next]_vars

(* SyncUsers and the handlers run, and a Close that has begun goes on; a   *)
(* waiting writer gets the lock in the end (sync.RWMutex), and at most     *)
(* MaxSyncs calls stand in its way.                                        *)
Fairness ==
    /\ WF_vars(AdapterStep) /\ WF_vars(StopRuns) /\ WF_vars(DelNode)
    /\ \A c \in Conns : WF_vars(ConnStep(c))

FairSpec == Spec /\ Fairness

-----------------------------------------------------------------------------
(* Properties.                                                             *)

(* Between two calls of SyncUsers the mux in use knows exactly the stored  *)
(* credentials, which are those of the active users and a bounded number   *)
(* of tombstones, and RuntimeServices has the same users: also after a hot *)
(* update, a restart or a recovery that failed half way (SyncUsers,        *)
(* restartLocked, UpdateUsers).                                            *)
ServerMatchesUsers ==
    sync.pc = "idle" =>
        /\ services = users
        /\ server # None =>
              /\ mux[server].state = "open" /\ mux[server].table = credentials
              /\ \A i \in Active(users) : credentials[i] = users[i]
              /\ Cardinality(Active(credentials))
                   <= Cardinality(Active(users)) + MaxTombstones

(* A connection that was authenticated with a password the panel has       *)
(* replaced is not served by the mux in use, although its id is that of an *)
(* active user (credentialChangedLocked: a changed credential restarts the *)
(* runtime "to revoke old authenticated transports").  This is said of the *)
(* mux in use only: an older one whose Stop timed out still accepts the    *)
(* old password, and what it accepts is served as the user of today.       *)
RevokedNotServed ==
    sync.pc = "idle" =>
        \A c \in Conns :
            /\ conn[c].pc = "serve" /\ ~conn[c].closed
            /\ conn[c].mux = server /\ server # None
            => conn[c].pw = users[conn[c].id]

(* Closing the node takes effect although Stop may have given up waiting   *)
(* and a monitor may have started the server again after it: from some     *)
(* time on no mux is open any more, and the sessions at the time of        *)
(* StopNode end, both loops of them (Stop, stopLocked, V2Core.DelNode,     *)
(* handleUDP).                                                             *)
StopTakesEffect ==
    /\ stop.call = "StopNode" ~> [](\A k \in Muxes : mux[k].state # "open")
    /\ \A c \in Conns :
          stop.call = "StopNode" /\ conn[c].pc = "serve" ~> conn[c].pc = "done"
=============================================================================
