---------------------------- MODULE MieruProofs -----------------------------
(***************************************************************************)
(* Proofs about the Mieru adapter for every set of ids and passwords, any  *)
(* limit on tombstones and any number of calls and connections.            *)
(***************************************************************************)
EXTENDS Mieru, FiniteSetTheorems, TLAPS

MuxType == [state : {"new", "open", "closing", "closed"}, table : Users]

ConnType == [pc : {"idle", "accepted", "found", "serve", "done"},
             mux : Muxes \cup {None}, id : Ids \cup {None},
             pw : Passwords \cup {None}, user : Passwords \cup {None},
             loops : SUBSET Loops, closed : BOOLEAN]

SyncType == [pc : {"idle", "hot", "check", "close", "stop", "wait", "start", "services"},
             previous : Users, attempt : {1, 2}, old : Muxes \cup {None}]

(* Each call of Stop leaves one goroutine waiting at most.                 *)
StopType ==
    {s \in [call : {"no", "StopNode", "stopped", "DelNode"}, waiting : 0 .. 2] :
        s.call # "DelNode" => s.waiting <= 1}

AdapterTypeOK ==
    /\ users \in Users /\ credentials \in Users /\ services \in Users
    /\ server \in Muxes \cup {None}
    /\ mux \in [Muxes -> MuxType]
    /\ conn \in [Conns -> ConnType]
    /\ sync \in SyncType
    /\ syncs \in 0 .. MaxSyncs
    /\ stop \in StopType

(* The mux in use serves the users f: what ServerMatchesUsers says of it.  *)
ServedFrom(f) ==
    server # None =>
        /\ mux[server].state = "open" /\ mux[server].table = credentials
        /\ \A i \in Active(f) : credentials[i] = f[i]
        /\ Cardinality(Active(credentials)) <= Cardinality(Active(f)) + MaxTombstones

AddedTo(f, g) == {i \in Active(g) : g[i] # f[i]}

(* What SyncUsers has found out before a hot update, in terms of the       *)
(* users it has stored meanwhile.                                          *)
HotIsSafe ==
    /\ server # None
    /\ \A i \in AddedTo(sync.previous, users) : credentials[i] \in {None, users[i]}
    /\ Cardinality(Active(credentials) \cup AddedTo(sync.previous, users))
         <= Cardinality(Active(users)) + MaxTombstones

(* The steps of SyncUsers: until the server is stopped it serves the       *)
(* previous users, who are also the ones of RuntimeServices until the end; *)
(* a second attempt is for those.                                          *)
PhaseInv ==
    /\ sync.pc = "idle" => services = users
    /\ sync.pc # "idle" => /\ services = sync.previous
                           /\ sync.attempt = 2 => users = sync.previous
    /\ sync.pc \in {"idle", "services"} => ServedFrom(users)
    /\ sync.pc \in {"hot", "check", "close", "stop"} => ServedFrom(sync.previous)
    /\ sync.pc \in {"wait", "start"} => server = None
    /\ sync.pc = "hot" => HotIsSafe

(* The calls that can have started a mux.                                  *)
Started == IF sync.pc \in {"idle", "services"} THEN syncs ELSE syncs - 1

(* The muxes are started in order, one at most by each call.               *)
MuxesInv ==
    /\ sync.pc # "idle" => syncs > 0
    /\ \E n \in Nat : /\ n <= Started
                      /\ \A k \in Muxes : mux[k].state = "new" <=> k > n

(* A connection was accepted with the password that its mux still has for  *)
(* it, and one that is served is served for a user of RuntimeServices.     *)
ConnInv ==
    \A c \in Conns :
        /\ conn[c].pc # "idle" =>
              /\ conn[c].mux \in Muxes /\ conn[c].id \in Ids /\ conn[c].pw \in Passwords
              /\ mux[conn[c].mux].state # "new"
              /\ mux[conn[c].mux].table[conn[c].id] = conn[c].pw
        /\ conn[c].pc = "found" => conn[c].user # None
        /\ conn[c].pc = "serve" /\ ~conn[c].closed =>
              conn[c].user # None /\ services[conn[c].id] = conn[c].user

MieruInv == AdapterTypeOK /\ PhaseInv /\ MuxesInv /\ ConnInv

-----------------------------------------------------------------------------
(* Sets of ids are finite.                                                 *)
LEMMA IdsFinite ==
    ASSUME NEW S \in SUBSET Ids PROVE Cardinality(S) \in Nat
BY MieruAssumption, FS_Subset, FS_CardinalityType

LEMMA Constants ==
    /\ MaxSyncs \in Nat /\ MaxTombstones \in Nat /\ Muxes \subseteq Nat
    /\ NoUsers \in Users /\ None \notin Passwords
    /\ NoSync \in SyncType /\ NoSync.pc = "idle" /\ NoSync.attempt = 1
BY MieruAssumption DEF Muxes, NoUsers, Users, NoSync, SyncType

(* Everybody is served by a mux that was just started for them.            *)
LEMMA ServedFresh ==
    ASSUME AdapterTypeOK, NEW f \in Users, NEW k \in Muxes, server' = k,
           mux' = [mux EXCEPT ![k] = [state |-> "open", table |-> f]], credentials' = f
    PROVE  /\ mux' \in [Muxes -> MuxType]
           /\ server' # None =>
                /\ mux'[server'].state = "open" /\ mux'[server'].table = credentials'
                /\ \A i \in Active(f) : credentials'[i] = f[i]
                /\ Cardinality(Active(credentials')) <= Cardinality(Active(f)) + MaxTombstones
<1>1. mux'[k] = [state |-> "open", table |-> f]
  BY DEF AdapterTypeOK
<1>2. mux' \in [Muxes -> MuxType]
  BY DEF AdapterTypeOK, MuxType
<1>3. Active(f) \in SUBSET Ids
  BY DEF Active
<1>4. Cardinality(Active(f)) <= Cardinality(Active(f)) + MaxTombstones
  BY <1>3, IdsFinite, Constants
<1> QED BY <1>1, <1>2, <1>4

(* What a step may do to the muxes: none is un-started, and a table keeps  *)
(* the passwords it has.                                                   *)
TablesKept ==
    \A k \in Muxes : mux[k].state # "new" =>
        /\ mux'[k].state # "new"
        /\ \A i \in Ids : mux[k].table[i] # None => mux'[k].table[i] = mux[k].table[i]

(* Connections survive a step of somebody else.                            *)
LEMMA ConnFrame ==
    ASSUME AdapterTypeOK, ConnInv, TablesKept, UNCHANGED <<conn, services>>
    PROVE  ConnInv'
<1> SUFFICES ASSUME NEW c \in Conns
             PROVE  /\ conn[c].pc # "idle" =>
                          /\ conn[c].mux \in Muxes /\ conn[c].id \in Ids
                          /\ conn[c].pw \in Passwords
                          /\ mux'[conn[c].mux].state # "new"
                          /\ mux'[conn[c].mux].table[conn[c].id] = conn[c].pw
                    /\ conn[c].pc = "found" => conn[c].user # None
                    /\ conn[c].pc = "serve" /\ ~conn[c].closed =>
                          conn[c].user # None /\ services[conn[c].id] = conn[c].user
  BY DEF ConnInv
<1> QED BY Constants DEF ConnInv, TablesKept

(* Connections that are closed, or a step of one of them.                  *)
LEMMA ConnsClosed ==
    ASSUME AdapterTypeOK, NEW S \in SUBSET Conns,
           conn' = [c \in Conns |-> IF c \in S THEN [conn[c] EXCEPT !.closed = TRUE]
                                               ELSE conn[c]]
    PROVE  /\ conn' \in [Conns -> ConnType]
           /\ \A c \in Conns :
                 /\ conn'[c].pc = conn[c].pc /\ conn'[c].mux = conn[c].mux
                 /\ conn'[c].id = conn[c].id /\ conn'[c].pw = conn[c].pw
                 /\ conn'[c].user = conn[c].user
                 /\ conn'[c].closed = (conn[c].closed \/ c \in S)
<1>1. ASSUME NEW c \in Conns
      PROVE  /\ conn'[c] \in ConnType
             /\ conn'[c].pc = conn[c].pc /\ conn'[c].mux = conn[c].mux
             /\ conn'[c].id = conn[c].id /\ conn'[c].pw = conn[c].pw
             /\ conn'[c].user = conn[c].user
             /\ conn'[c].closed = (conn[c].closed \/ c \in S)
  <2>1. conn[c] \in ConnType
    BY DEF AdapterTypeOK
  <2>2. CASE c \in S
    BY <2>1, <2>2 DEF ConnType
  <2>3. CASE c \notin S
    BY <2>1, <2>3 DEF ConnType
  <2> QED BY <2>2, <2>3
<1> QED BY <1>1

-----------------------------------------------------------------------------
(* The steps of SyncUsers that touch no mux.                               *)

(* SyncUsers stores the new users and chooses between the hot update and   *)
(* the restart.                                                            *)
LEMMA SyncUsersStep ==
    ASSUME MieruInv, NEW next \in Lists, SyncUsers(next)
    PROVE  MieruInv'
<1> USE DEF MieruInv
<1>1. /\ UNCHANGED <<credentials, services, server, mux, conn, stop>>
      /\ users' = next /\ syncs' = syncs + 1 /\ sync.pc = "idle" /\ syncs < MaxSyncs
      /\ next \in Users
  BY MieruAssumption DEF SyncUsers
<1>2. /\ sync' \in SyncType /\ sync'.previous = users /\ sync'.attempt = 1
      /\ sync'.pc = IF CanHotUpdate(next) THEN "hot" ELSE "check"
  BY Constants DEF SyncUsers, AdapterTypeOK, SyncType
<1>3. AdapterTypeOK'
  BY <1>1, <1>2, Constants DEF AdapterTypeOK
<1>4. ServedFrom(users) /\ services = users
  BY <1>1 DEF PhaseInv
<1>5. ServedFrom(sync.previous)'
  BY <1>1, <1>2, <1>4 DEF ServedFrom
<1>6. ASSUME CanHotUpdate(next) PROVE HotIsSafe'
  <2>1. Added(next) = AddedTo(users, next)
    BY DEF Added, AddedTo
  <2>2. Cardinality(Active(credentials) \cup AddedTo(users, next)) \in Nat
        /\ Cardinality(Active(next)) \in Nat
    BY IdsFinite DEF Active, AddedTo
  <2>3. Cardinality(Active(credentials) \cup AddedTo(users, next))
          <= Cardinality(Active(next)) + MaxTombstones
    BY <1>6, <2>1, <2>2, Constants DEF CanHotUpdate, tooManyTombstones
  <2>4. server # None /\ \A i \in AddedTo(users, next) : credentials[i] \in {None, next[i]}
    BY <1>6, <2>1 DEF CanHotUpdate, credentialChanged
  <2> QED BY <1>1, <1>2, <2>3, <2>4 DEF HotIsSafe
<1>7. PhaseInv'
  BY <1>1, <1>2, <1>4, <1>5, <1>6 DEF PhaseInv
<1>8. MuxesInv'
  <2>1. syncs \in Nat /\ sync'.pc \notin {"idle", "services"}
    BY <1>2 DEF AdapterTypeOK
  <2>2. Started' = Started /\ syncs' > 0
    BY <1>1, <2>1 DEF Started
  <2> QED BY <1>1, <2>2 DEF MuxesInv
<1>9. ConnInv'
  BY <1>1, ConnFrame DEF TablesKept
<1> QED BY <1>3, <1>7, <1>8, <1>9

(* SyncUsers goes on, or back to the previous users, and the muxes stay.   *)
LEMMA PhaseStep ==
    ASSUME MieruInv, UNCHANGED <<credentials, services, server, mux, conn, syncs, stop>>,
           users' \in Users, sync' \in SyncType, PhaseInv',
           sync.pc \notin {"idle", "services"}
    PROVE  MieruInv'
<1> USE DEF MieruInv
<1>1. AdapterTypeOK'
  BY DEF AdapterTypeOK
<1>2. MuxesInv'
  <2>1. PICK n \in Nat : n <= Started /\ \A k \in Muxes : mux[k].state = "new" <=> k > n
    BY DEF MuxesInv
  <2>2. n <= Started' /\ syncs' > 0
    BY <2>1 DEF Started, MuxesInv, AdapterTypeOK
  <2> QED BY <2>1, <2>2 DEF MuxesInv
<1>3. ConnInv'
  BY ConnFrame DEF TablesKept
<1> QED BY <1>1, <1>2, <1>3

(* restartLocked gives up: the users go back to the previous ones, who are *)
(* still served if nothing was stopped.                                    *)
LEMMA RestartFailsStep ==
    ASSUME MieruInv, sync.pc \in {"check", "wait", "start"}, RestartFails,
           UNCHANGED <<credentials, services, server, mux, conn, syncs, stop>>
    PROVE  MieruInv'
<1> USE DEF MieruInv
<1>1. /\ sync \in SyncType /\ sync.previous \in Users /\ sync.attempt \in {1, 2}
      /\ users' = sync.previous /\ services = sync.previous
  BY DEF AdapterTypeOK, SyncType, RestartFails, PhaseInv
<1>2. ServedFrom(sync.previous)
  BY DEF PhaseInv, ServedFrom
<1>3. CASE sync.attempt = 1
  <2>1. sync' = [sync EXCEPT !.pc = "check", !.attempt = 2, !.old = None]
    BY <1>3 DEF RestartFails
  <2>2. sync' \in SyncType /\ sync'.pc = "check" /\ sync'.previous = sync.previous
    BY <1>1, <2>1 DEF SyncType
  <2>3. PhaseInv'
    BY <1>1, <1>2, <2>2 DEF PhaseInv, ServedFrom
  <2> QED BY <1>1, <2>2, <2>3, PhaseStep
<1>4. CASE sync.attempt = 2
  <2>1. sync' \in SyncType /\ sync'.pc = "idle"
    BY <1>4, Constants DEF RestartFails
  <2>2. PhaseInv'
    BY <1>1, <1>2, <2>1 DEF PhaseInv, ServedFrom
  <2> QED BY <1>1, <2>1, <2>2, PhaseStep
<1> QED BY <1>1, <1>3, <1>4

(* The configuration is checked before anything is stopped.                *)
LEMMA CheckConfigStep ==
    ASSUME MieruInv, CheckConfig
    PROVE  MieruInv'
<1> USE DEF MieruInv
<1>1. /\ UNCHANGED <<credentials, services, server, mux, conn, syncs, stop>>
      /\ sync.pc = "check" /\ sync \in SyncType /\ users \in Users
  BY DEF CheckConfig, AdapterTypeOK
<1>2. CASE sync' = [sync EXCEPT !.pc = "close"] /\ UNCHANGED users
  <2>1. /\ sync' \in SyncType /\ sync'.pc = "close" /\ sync'.previous = sync.previous
        /\ sync'.attempt = sync.attempt
    BY <1>1, <1>2 DEF SyncType
  <2>2. PhaseInv'
    BY <1>1, <1>2, <2>1 DEF PhaseInv, ServedFrom
  <2> QED BY <1>1, <1>2, <2>1, <2>2, PhaseStep
<1>3. CASE RestartFails
  BY <1>1, <1>3, RestartFailsStep
<1> QED BY <1>2, <1>3 DEF CheckConfig

(* A hot update that fails, and a stop that takes too long: SyncUsers      *)
(* returns with the previous users.                                        *)
LEMMA GivesUpStep ==
    ASSUME MieruInv, HotUpdateFails \/ StopTimesOut
    PROVE  MieruInv'
<1> USE DEF MieruInv
<1>1. /\ UNCHANGED <<credentials, services, server, mux, conn, syncs, stop>>
      /\ sync.pc \in {"hot", "wait"} /\ users' = sync.previous /\ sync' = NoSync
      /\ sync.previous \in Users
  BY DEF HotUpdateFails, StopTimesOut, AdapterTypeOK, SyncType
<1>2. services = sync.previous /\ ServedFrom(sync.previous)
  BY <1>1 DEF PhaseInv, ServedFrom
<1>3. sync' \in SyncType /\ sync'.pc = "idle"
  BY <1>1, Constants
<1>4. PhaseInv'
  BY <1>1, <1>2, <1>3 DEF PhaseInv, ServedFrom
<1> QED BY <1>1, <1>3, <1>4, PhaseStep

LEMMA StopReturnsStep ==
    ASSUME MieruInv, StopReturns
    PROVE  MieruInv'
<1> USE DEF MieruInv
<1>1. /\ UNCHANGED <<credentials, services, server, mux, conn, syncs, stop>>
      /\ sync.pc = "wait" /\ sync \in SyncType /\ users \in Users
  BY DEF StopReturns, AdapterTypeOK
<1>2. CASE sync' = [sync EXCEPT !.pc = "start"] /\ UNCHANGED users
  <2>1. /\ sync' \in SyncType /\ sync'.pc = "start" /\ sync'.previous = sync.previous
        /\ sync'.attempt = sync.attempt
    BY <1>1, <1>2 DEF SyncType
  <2>2. PhaseInv'
    BY <1>1, <1>2, <2>1 DEF PhaseInv
  <2> QED BY <1>1, <1>2, <2>1, <2>2, PhaseStep
<1>3. CASE RestartFails
  BY <1>1, <1>3, RestartFailsStep
<1> QED BY <1>2, <1>3 DEF StopReturns

LEMMA StartFailsStep ==
    ASSUME MieruInv, StartFails
    PROVE  MieruInv'
BY RestartFailsStep DEF StartFails

-----------------------------------------------------------------------------
(* The hot update.                                                         *)

(* Why the mux need not be told of a name it knows: a user who keeps the   *)
(* password is in the credentials already, one who comes back does so with *)
(* the password of the tombstone, and so nothing but new names is added.   *)
LEMMA HotCredentials ==
    ASSUME AdapterTypeOK, ServedFrom(sync.previous), HotIsSafe
    PROVE  /\ WithAdded \in Users
           /\ \A i \in Active(users) : WithAdded[i] = users[i]
           /\ \A i \in Ids : credentials[i] # None => WithAdded[i] = credentials[i]
           /\ Active(WithAdded) = Active(credentials) \cup AddedTo(sync.previous, users)
           /\ Active(WithAdded) = Active(credentials) => WithAdded = credentials
<1>1. users \in Users /\ credentials \in Users /\ sync.previous \in Users
  BY DEF AdapterTypeOK, SyncType
<1>2. \A i \in Ids : WithAdded[i] = IF users[i] # None THEN users[i] ELSE credentials[i]
  BY DEF WithAdded
<1>3. WithAdded \in Users
  BY <1>1 DEF WithAdded, Users
<1>4. \A i \in Active(users) : WithAdded[i] = users[i]
  BY <1>2 DEF Active
<1>5. ASSUME NEW i \in Ids, users[i] # None, users[i] = sync.previous[i]
      PROVE  credentials[i] = users[i]
  BY <1>5 DEF ServedFrom, HotIsSafe, Active
<1>6. ASSUME NEW i \in Ids, users[i] # None, users[i] # sync.previous[i]
      PROVE  credentials[i] \in {None, users[i]} /\ i \in AddedTo(sync.previous, users)
  BY <1>6 DEF HotIsSafe, AddedTo, Active
<1>7. \A i \in Ids : credentials[i] # None => WithAdded[i] = credentials[i]
  BY <1>2, <1>5, <1>6
<1>8. Active(WithAdded) = Active(credentials) \cup AddedTo(sync.previous, users)
  BY <1>2, <1>5, <1>6 DEF Active, AddedTo
<1>9. ASSUME Active(WithAdded) = Active(credentials) PROVE WithAdded = credentials
  <2>1. \A i \in Ids : WithAdded[i] = credentials[i]
    BY <1>7, <1>9 DEF Active
  <2> QED BY <1>1, <1>3, <2>1 DEF Users
<1> QED BY <1>3, <1>4, <1>7, <1>8, <1>9

LEMMA HotUpdateStep ==
    ASSUME MieruInv, HotUpdate
    PROVE  MieruInv'
<1> USE DEF MieruInv
<1>1. /\ UNCHANGED <<users, services, server, conn, syncs, stop>> /\ sync.pc = "hot"
      /\ credentials' = WithAdded /\ sync' = [sync EXCEPT !.pc = "services"]
      /\ mux' = [mux EXCEPT ![server].table =
                   IF Active(WithAdded) = Active(credentials) THEN @ ELSE WithAdded]
  BY DEF HotUpdate
<1>2. ServedFrom(sync.previous) /\ HotIsSafe /\ services = sync.previous
  BY <1>1 DEF PhaseInv
<1>3. PICK k \in Muxes : k = server
  BY <1>2 DEF AdapterTypeOK, HotIsSafe
<1>4. /\ mux[k] \in MuxType /\ mux[k].state = "open" /\ mux[k].table = credentials
      /\ server # None
  BY <1>2, <1>3 DEF ServedFrom, HotIsSafe, AdapterTypeOK
<1>5. /\ mux' \in [Muxes -> MuxType] /\ \A j \in Muxes : j # k => mux'[j] = mux[j]
      /\ mux'[k].state = "open" /\ mux'[k].table = WithAdded
  <2>1. WithAdded \in Users
        /\ (Active(WithAdded) = Active(credentials) => WithAdded = credentials)
    BY <1>2, HotCredentials
  <2>2. mux' = [mux EXCEPT ![k] = [mux[k] EXCEPT !.table =
                   IF Active(WithAdded) = Active(credentials) THEN mux[k].table ELSE WithAdded]]
    BY <1>1, <1>3 DEF AdapterTypeOK
  <2>3. mux' = [mux EXCEPT ![k] = [mux[k] EXCEPT !.table = WithAdded]]
    BY <1>4, <2>1, <2>2
  <2> QED BY <1>4, <2>1, <2>3 DEF AdapterTypeOK, MuxType
<1>6. /\ sync' \in SyncType /\ sync'.pc = "services" /\ sync'.previous = sync.previous
      /\ sync'.attempt = sync.attempt
  BY <1>1 DEF AdapterTypeOK, SyncType
<1>7. /\ WithAdded \in Users
      /\ \A i \in Active(users) : WithAdded[i] = users[i]
      /\ \A i \in Ids : credentials[i] # None => WithAdded[i] = credentials[i]
      /\ Active(WithAdded) = Active(credentials) \cup AddedTo(sync.previous, users)
  BY <1>2, HotCredentials
<1>8. AdapterTypeOK'
  BY <1>1, <1>5, <1>6, <1>7 DEF AdapterTypeOK
<1>9. ServedFrom(users)'
  BY <1>1, <1>2, <1>3, <1>5, <1>7 DEF ServedFrom, HotIsSafe
<1>10. PhaseInv'
  BY <1>1, <1>2, <1>6, <1>9 DEF PhaseInv
<1>11. MuxesInv'
  <2>1. PICK n \in Nat : /\ n <= Started
                         /\ \A j \in Muxes : mux[j].state = "new" <=> j > n
    BY DEF MuxesInv
  <2>2. \A j \in Muxes : mux'[j].state = "new" <=> j > n
    BY <1>4, <1>5, <2>1
  <2>3. n <= Started' /\ syncs' > 0
    BY <1>1, <1>6, <2>1 DEF Started, MuxesInv, AdapterTypeOK
  <2> QED BY <2>2, <2>3 DEF MuxesInv
<1>12. TablesKept
  BY <1>4, <1>5, <1>7 DEF TablesKept
<1>13. ConnInv'
  BY <1>1, <1>12, ConnFrame
<1> QED BY <1>8, <1>10, <1>11, <1>13

-----------------------------------------------------------------------------
(* The restart.                                                            *)

(* Muxes and the locals of SyncUsers stay, connections may be closed.      *)
LEMMA CloseSessionsStep ==
    ASSUME MieruInv, CloseSessions
    PROVE  MieruInv'
<1> USE DEF MieruInv
<1> DEFINE S == {c \in Conns : conn[c].pc = "serve"}
<1>1. /\ UNCHANGED <<users, credentials, services, server, mux, syncs, stop>>
      /\ sync.pc = "close" /\ sync' = [sync EXCEPT !.pc = "stop"]
  BY DEF CloseSessions, adapterVars
<1>2. /\ S \in SUBSET Conns
      /\ conn' = [c \in Conns |-> IF c \in S THEN [conn[c] EXCEPT !.closed = TRUE]
                                             ELSE conn[c]]
  BY DEF CloseSessions, CloseAllConnections
<1> HIDE DEF S
<1>3. /\ conn' \in [Conns -> ConnType]
      /\ \A c \in Conns :
            /\ conn'[c].pc = conn[c].pc /\ conn'[c].mux = conn[c].mux
            /\ conn'[c].id = conn[c].id /\ conn'[c].pw = conn[c].pw
            /\ conn'[c].user = conn[c].user
            /\ conn'[c].closed = (conn[c].closed \/ c \in S)
  BY <1>2, ConnsClosed
<1>4. /\ sync' \in SyncType /\ sync'.pc = "stop" /\ sync'.previous = sync.previous
      /\ sync'.attempt = sync.attempt
  BY <1>1 DEF AdapterTypeOK, SyncType
<1>5. AdapterTypeOK'
  BY <1>1, <1>3, <1>4 DEF AdapterTypeOK
<1>6. PhaseInv'
  BY <1>1, <1>4 DEF PhaseInv, ServedFrom
<1>7. MuxesInv'
  BY <1>1, <1>4 DEF MuxesInv, Started
<1>8. ConnInv'
  BY <1>1, <1>3 DEF ConnInv
<1> QED BY <1>5, <1>6, <1>7, <1>8

(* The mux in use is forgotten, closing.                                   *)
LEMMA ForgetServerKeeps ==
    ASSUME AdapterTypeOK, ForgetServer
    PROVE  /\ server' = None /\ mux' \in [Muxes -> MuxType] /\ TablesKept
           /\ \A k \in Muxes : mux'[k].state = "new" => mux[k].state = "new"
           /\ server = None => mux' = mux
           /\ \A k \in Muxes : k # server => mux'[k] = mux[k]
<1>1. CASE server = None
  BY <1>1 DEF ForgetServer, AdapterTypeOK, TablesKept
<1>2. CASE server # None
  <2>1. PICK k \in Muxes : k = server
    BY <1>2 DEF AdapterTypeOK
  <2>2. mux[k] \in MuxType
    BY DEF AdapterTypeOK
  <2>3. mux' = [mux EXCEPT ![k] = [mux[k] EXCEPT !.state = "closing"]] /\ server' = None
    BY <1>2, <2>1 DEF ForgetServer, AdapterTypeOK
  <2>4. /\ mux' \in [Muxes -> MuxType] /\ mux'[k].state = "closing"
        /\ mux'[k].table = mux[k].table
        /\ \A j \in Muxes : j # k => mux'[j] = mux[j]
    BY <2>2, <2>3 DEF AdapterTypeOK, MuxType
  <2> QED BY <1>2, <2>1, <2>3, <2>4 DEF TablesKept
<1> QED BY <1>1, <1>2

(* The states of the muxes that were not started stay what they are.       *)
LEMMA MuxesFrame ==
    ASSUME AdapterTypeOK, MuxesInv, UNCHANGED syncs, TablesKept,
           \A k \in Muxes : mux[k].state = "new" => mux'[k].state = "new",
           sync'.pc # "idle" => sync.pc # "idle",
           sync.pc \in {"idle", "services"} => sync'.pc \in {"idle", "services"}
    PROVE  MuxesInv'
<1>1. PICK n \in Nat : n <= Started /\ \A k \in Muxes : mux[k].state = "new" <=> k > n
  BY DEF MuxesInv
<1>2. \A k \in Muxes : mux'[k].state = "new" <=> k > n
  BY <1>1 DEF TablesKept
<1>3. n <= Started' /\ (sync'.pc # "idle" => syncs' > 0)
  BY <1>1 DEF Started, MuxesInv, AdapterTypeOK
<1> QED BY <1>2, <1>3 DEF MuxesInv

LEMMA StopServerStep ==
    ASSUME MieruInv, StopServer
    PROVE  MieruInv'
<1> USE DEF MieruInv
<1>1. UNCHANGED <<users, credentials, services, conn, syncs, stop>> /\ sync.pc = "stop"
      /\ ForgetServer
  BY DEF StopServer
<1>2. /\ server' = None /\ mux' \in [Muxes -> MuxType] /\ TablesKept
      /\ server = None => mux' = mux
      /\ \A k \in Muxes : k # server => mux'[k] = mux[k]
  BY <1>1, ForgetServerKeeps
<1>3. /\ sync' \in SyncType /\ sync'.pc \in {"start", "wait"}
      /\ sync'.previous = sync.previous /\ sync'.attempt = sync.attempt
  BY DEF StopServer, AdapterTypeOK, SyncType
<1>4. AdapterTypeOK'
  BY <1>1, <1>2, <1>3 DEF AdapterTypeOK
<1>5. PhaseInv'
  BY <1>1, <1>2, <1>3 DEF PhaseInv
<1>6. \A k \in Muxes : mux[k].state = "new" => mux'[k].state = "new"
  BY <1>1, <1>2 DEF PhaseInv, ServedFrom
<1>7. MuxesInv'
  BY <1>1, <1>2, <1>3, <1>6, MuxesFrame
<1>8. ConnInv'
  BY <1>1, <1>2, ConnFrame
<1> QED BY <1>4, <1>5, <1>7, <1>8

(* The next mux is one that was not started before.                        *)
LEMMA NextMuxIsNew ==
    ASSUME MieruInv, sync.pc = "start"
    PROVE  /\ NextMux \in Muxes /\ mux[NextMux].state = "new"
           /\ \A j \in Muxes : j < NextMux => mux[j].state # "new"
<1>1. PICK n \in Nat : n <= syncs - 1 /\ \A k \in Muxes : mux[k].state = "new" <=> k > n
  BY DEF MieruInv, MuxesInv, Started
<1>2. n + 1 \in Muxes
  BY <1>1, Constants DEF MieruInv, AdapterTypeOK, Muxes
<1>3. mux[n + 1].state = "new" /\ \A j \in Muxes : j < n + 1 => mux[j].state # "new"
  BY <1>1, <1>2, Constants
<1> QED BY <1>2, <1>3 DEF NextMux

LEMMA StartServerStep ==
    ASSUME MieruInv, StartServer
    PROVE  MieruInv'
<1> USE DEF MieruInv
<1>1. UNCHANGED <<users, services, conn, syncs, stop>> /\ sync.pc = "start"
  BY DEF StartServer
<1>2. PICK k \in Muxes : /\ k = NextMux /\ mux[k].state = "new"
                         /\ \A j \in Muxes : j < k => mux[j].state # "new"
  BY <1>1, NextMuxIsNew
<1>3. /\ server' = k /\ credentials' = users
      /\ mux' = [mux EXCEPT ![k] = [state |-> "open", table |-> users]]
  BY <1>2 DEF StartServer
<1>4. users \in Users
  BY DEF AdapterTypeOK
<1>5. mux' \in [Muxes -> MuxType] /\ ServedFrom(users)'
  BY <1>1, <1>3, <1>4, ServedFresh DEF ServedFrom
<1>6. /\ \A j \in Muxes : j # k => mux'[j] = mux[j]
      /\ mux'[k].state = "open"
  BY <1>3 DEF AdapterTypeOK
<1>7. /\ sync' \in SyncType
      /\ sync.attempt = 1 => sync'.pc = "services" /\ sync'.previous = sync.previous
                             /\ sync'.attempt = 1
      /\ sync.attempt = 2 => sync'.pc = "idle"
      /\ sync.attempt \in {1, 2}
  BY Constants DEF StartServer, Restarted, AdapterTypeOK, SyncType
<1>8. AdapterTypeOK'
  BY <1>1, <1>3, <1>4, <1>5, <1>7 DEF AdapterTypeOK
<1>9. PhaseInv'
  BY <1>1, <1>5, <1>7 DEF PhaseInv
<1>10. MuxesInv'
  <2>1. PICK n \in Nat : n <= syncs - 1 /\ \A j \in Muxes : mux[j].state = "new" <=> j > n
    BY <1>1 DEF MuxesInv, Started
  <2>2. k = n + 1
    <3>1. n + 1 \in Muxes
      BY <2>1, Constants DEF AdapterTypeOK, Muxes
    <3> QED BY <1>2, <2>1, <3>1, Constants
  <2>3. \A j \in Muxes : mux'[j].state = "new" <=> j > n + 1
    BY <1>6, <2>1, <2>2, Constants
  <2>4. n + 1 <= Started' /\ syncs' > 0
    BY <1>1, <1>7, <2>1 DEF Started, AdapterTypeOK, MuxesInv
  <2> QED BY <2>3, <2>4 DEF MuxesInv
<1>11. TablesKept
  BY <1>2, <1>6 DEF TablesKept
<1>12. ConnInv'
  BY <1>1, <1>11, ConnFrame
<1> QED BY <1>8, <1>9, <1>10, <1>12

LEMMA StayStoppedStep ==
    ASSUME MieruInv, StayStopped
    PROVE  MieruInv'
<1> USE DEF MieruInv
<1>1. /\ UNCHANGED <<users, services, server, mux, conn, syncs, stop>>
      /\ sync.pc = "start" /\ credentials' = NoUsers
  BY DEF StayStopped
<1>2. /\ sync' \in SyncType
      /\ sync.attempt = 1 => sync'.pc = "services" /\ sync'.previous = sync.previous
                             /\ sync'.attempt = 1
      /\ sync.attempt = 2 => sync'.pc = "idle"
      /\ sync.attempt \in {1, 2}
  BY Constants DEF StayStopped, Restarted, AdapterTypeOK, SyncType
<1>3. AdapterTypeOK'
  BY <1>1, <1>2, Constants DEF AdapterTypeOK
<1>4. PhaseInv'
  BY <1>1, <1>2 DEF PhaseInv, ServedFrom
<1>5. TablesKept
  BY <1>1 DEF TablesKept
<1>6. MuxesInv'
  BY <1>1, <1>2, <1>5, MuxesFrame
<1>7. ConnInv'
  BY <1>1, <1>5, ConnFrame
<1> QED BY <1>3, <1>4, <1>6, <1>7

-----------------------------------------------------------------------------
(* The end of SyncUsers, a mux that is closed at last, and Stop.           *)

(* RuntimeServices takes over the users and closes the sessions of those   *)
(* who are gone or have another password.                                  *)
LEMMA SyncServicesStep ==
    ASSUME MieruInv, SyncServices
    PROVE  MieruInv'
<1> USE DEF MieruInv
<1> DEFINE S == {c \in Conns : conn[c].pc = "serve" /\ users[conn[c].id] # conn[c].user}
<1>1. /\ UNCHANGED <<users, credentials, server, mux, syncs, stop>>
      /\ sync.pc = "services" /\ services' = users
      /\ sync' \in SyncType /\ sync'.pc = "idle"
  BY Constants DEF SyncServices
<1>2. /\ S \in SUBSET Conns
      /\ conn' = [c \in Conns |-> IF c \in S THEN [conn[c] EXCEPT !.closed = TRUE]
                                             ELSE conn[c]]
  BY DEF SyncServices
<1>3. \A c \in Conns : conn[c].pc = "serve" /\ c \notin S => users[conn[c].id] = conn[c].user
  OBVIOUS
<1> HIDE DEF S
<1>4. /\ conn' \in [Conns -> ConnType]
      /\ \A c \in Conns :
            /\ conn'[c].pc = conn[c].pc /\ conn'[c].mux = conn[c].mux
            /\ conn'[c].id = conn[c].id /\ conn'[c].pw = conn[c].pw
            /\ conn'[c].user = conn[c].user
            /\ conn'[c].closed = (conn[c].closed \/ c \in S)
  BY <1>2, ConnsClosed
<1>5. AdapterTypeOK'
  BY <1>1, <1>4 DEF AdapterTypeOK
<1>6. PhaseInv'
  BY <1>1 DEF PhaseInv, ServedFrom
<1>7. MuxesInv'
  BY <1>1 DEF MuxesInv, Started
<1>8. ConnInv'
  BY <1>1, <1>3, <1>4 DEF ConnInv
<1> QED BY <1>5, <1>6, <1>7, <1>8

(* The mux in use is open, so it is another one that is closed.            *)
LEMMA MuxClosesStep ==
    ASSUME MieruInv, NEW k \in Muxes, MuxCloses(k)
    PROVE  MieruInv'
<1> USE DEF MieruInv
<1> DEFINE S == {c \in Conns : conn[c].mux = k /\ conn[c].pc # "done"}
<1>1. /\ UNCHANGED <<users, credentials, services, server, sync, syncs, stop>>
      /\ mux[k].state = "closing" /\ mux[k] \in MuxType
      /\ mux' = [mux EXCEPT ![k] = [mux[k] EXCEPT !.state = "closed"]]
  BY DEF MuxCloses, adapterVars, AdapterTypeOK
<1>2. /\ S \in SUBSET Conns
      /\ conn' = [c \in Conns |-> IF c \in S THEN [conn[c] EXCEPT !.closed = TRUE]
                                             ELSE conn[c]]
  BY DEF MuxCloses
<1> HIDE DEF S
<1>3. /\ conn' \in [Conns -> ConnType]
      /\ \A c \in Conns :
            /\ conn'[c].pc = conn[c].pc /\ conn'[c].mux = conn[c].mux
            /\ conn'[c].id = conn[c].id /\ conn'[c].pw = conn[c].pw
            /\ conn'[c].user = conn[c].user
            /\ conn'[c].closed = (conn[c].closed \/ c \in S)
  BY <1>2, ConnsClosed
<1>4. /\ mux' \in [Muxes -> MuxType] /\ mux'[k].state = "closed"
      /\ mux'[k].table = mux[k].table /\ \A j \in Muxes : j # k => mux'[j] = mux[j]
  BY <1>1 DEF AdapterTypeOK, MuxType
<1>5. AdapterTypeOK'
  BY <1>1, <1>3, <1>4 DEF AdapterTypeOK
<1>6. \A f \in Users : ServedFrom(f) =>
         (server # None => mux'[server] = mux[server])
  BY <1>1, <1>4 DEF ServedFrom, AdapterTypeOK
<1>7. \A f \in Users : ServedFrom(f) => ServedFrom(f)'
  BY <1>1, <1>6 DEF ServedFrom
<1>8. PhaseInv'
  BY <1>1, <1>7 DEF PhaseInv, HotIsSafe, AdapterTypeOK, SyncType
<1>9. TablesKept
  BY <1>4 DEF TablesKept
<1>10. MuxesInv'
  BY <1>1, <1>4, <1>9, MuxesFrame
<1>11. ConnInv'
  <2> SUFFICES ASSUME NEW c \in Conns
               PROVE  /\ conn[c].pc # "idle" =>
                            /\ conn[c].mux \in Muxes /\ conn[c].id \in Ids
                            /\ conn[c].pw \in Passwords
                            /\ mux'[conn[c].mux].state # "new"
                            /\ mux'[conn[c].mux].table[conn[c].id] = conn[c].pw
                      /\ conn[c].pc = "found" => conn[c].user # None
                      /\ conn[c].pc = "serve" /\ ~conn[c].closed =>
                            conn[c].user # None /\ services[conn[c].id] = conn[c].user
    BY <1>1, <1>3, ZenonT(60) DEF ConnInv
  <2> QED BY <1>1, <1>4 DEF ConnInv
<1> QED BY <1>5, <1>8, <1>10, <1>11

LEMMA StopRunsStep ==
    ASSUME MieruInv, StopRuns
    PROVE  MieruInv'
<1> USE DEF MieruInv
<1> DEFINE S == {c \in Conns : conn[c].pc = "serve"}
<1>1. /\ UNCHANGED <<users, credentials, services, sync, syncs>> 
      /\ sync.pc = "idle" /\ ForgetServer
      /\ stop' \in StopType
  <2>1. stop' \in StopType
    BY DEF StopRuns, AdapterTypeOK, StopType
  <2> QED BY <2>1 DEF StopRuns
<1>2. /\ S \in SUBSET Conns
      /\ conn' = [c \in Conns |-> IF c \in S THEN [conn[c] EXCEPT !.closed = TRUE]
                                             ELSE conn[c]]
  BY DEF StopRuns, CloseAllConnections
<1> HIDE DEF S
<1>3. /\ conn' \in [Conns -> ConnType]
      /\ \A c \in Conns :
            /\ conn'[c].pc = conn[c].pc /\ conn'[c].mux = conn[c].mux
            /\ conn'[c].id = conn[c].id /\ conn'[c].pw = conn[c].pw
            /\ conn'[c].user = conn[c].user
            /\ conn'[c].closed = (conn[c].closed \/ c \in S)
  BY <1>2, ConnsClosed
<1>4. /\ server' = None /\ mux' \in [Muxes -> MuxType] /\ TablesKept
      /\ server = None => mux' = mux
      /\ \A k \in Muxes : k # server => mux'[k] = mux[k]
  BY <1>1, ForgetServerKeeps
<1>5. AdapterTypeOK'
  BY <1>1, <1>3, <1>4 DEF AdapterTypeOK
<1>6. PhaseInv'
  BY <1>1, <1>4 DEF PhaseInv, ServedFrom
<1>7. \A k \in Muxes : mux[k].state = "new" => mux'[k].state = "new"
  BY <1>1, <1>4 DEF PhaseInv, ServedFrom
<1>8. MuxesInv'
  BY <1>1, <1>4, <1>7, MuxesFrame
<1>9. ConnInv'
  <2> SUFFICES ASSUME NEW c \in Conns
               PROVE  /\ conn[c].pc # "idle" =>
                            /\ conn[c].mux \in Muxes /\ conn[c].id \in Ids
                            /\ conn[c].pw \in Passwords
                            /\ mux'[conn[c].mux].state # "new"
                            /\ mux'[conn[c].mux].table[conn[c].id] = conn[c].pw
                      /\ conn[c].pc = "found" => conn[c].user # None
                      /\ conn[c].pc = "serve" /\ ~conn[c].closed =>
                            conn[c].user # None /\ services[conn[c].id] = conn[c].user
    BY <1>1, <1>3 DEF ConnInv
  <2> QED BY <1>4, Constants, ZenonT(60) DEF ConnInv, TablesKept
<1> QED BY <1>5, <1>6, <1>8, <1>9

-----------------------------------------------------------------------------
(* Connections.                                                            *)

(* One connection moves; the adapter does not.                             *)
LEMMA ConnMoves ==
    ASSUME MieruInv, NEW c \in Conns, NEW r \in ConnType, conn' = [conn EXCEPT ![c] = r],
           UNCHANGED <<adapterVars, mux, sync, syncs, stop>>,
           r.pc # "idle" =>
              /\ r.mux \in Muxes /\ r.id \in Ids /\ r.pw \in Passwords
              /\ mux[r.mux].state # "new" /\ mux[r.mux].table[r.id] = r.pw,
           r.pc = "found" => r.user # None,
           r.pc = "serve" /\ ~r.closed => r.user # None /\ services[r.id] = r.user
    PROVE  MieruInv'
<1> USE DEF MieruInv
<1>1. /\ conn' \in [Conns -> ConnType] /\ conn'[c] = r
      /\ \A d \in Conns : d # c => conn'[d] = conn[d]
  BY DEF AdapterTypeOK
<1>2. UNCHANGED <<users, credentials, services, server>>
  BY DEF adapterVars
<1>3. AdapterTypeOK'
  BY <1>1, <1>2 DEF AdapterTypeOK
<1>4. PhaseInv' /\ MuxesInv'
  BY <1>2 DEF PhaseInv, MuxesInv, ServedFrom, HotIsSafe, Started
<1>5. ConnInv'
  BY <1>1, <1>2 DEF ConnInv
<1> QED BY <1>3, <1>4, <1>5

(* A connection is accepted with a password of the mux.                    *)
LEMMA AcceptStep ==
    ASSUME MieruInv, NEW c \in Conns, NEW k \in Muxes, NEW i \in Ids, Accept(c, k, i)
    PROVE  MieruInv'
<1> USE DEF MieruInv
<1> DEFINE r == [NoConn EXCEPT !.pc = "accepted", !.mux = k, !.id = i,
                               !.pw = mux[k].table[i]]
<1>1. NoConn \in ConnType
  BY DEF NoConn, ConnType, Loops
<1>2. mux[k].table[i] \in Passwords /\ mux[k].state # "new"
  BY DEF Accept, AdapterTypeOK, MuxType, Users
<1>3. /\ r \in ConnType /\ r.pc = "accepted" /\ r.mux = k /\ r.id = i
      /\ r.pw = mux[k].table[i]
  BY <1>1, <1>2 DEF ConnType
<1>4. conn' = [conn EXCEPT ![c] = r] /\ UNCHANGED <<adapterVars, mux, sync, syncs, stop>>
  BY DEF Accept
<1> HIDE DEF r
<1> QED BY <1>2, <1>3, <1>4, ConnMoves

(* It is looked up, opened and served; the user it is opened for must be   *)
(* the one RuntimeServices has.                                            *)
LEMMA HandlerStep ==
    ASSUME MieruInv, NEW c \in Conns,
           \/ LookUp(c) \/ OpenConnection(c) \/ HandlerReturns(c)
           \/ \E dir \in Loops : LoopEnds(c, dir)
    PROVE  MieruInv'
<1> USE DEF MieruInv
<1>1. conn[c] \in ConnType /\ conn[c].pc # "idle"
  BY DEF AdapterTypeOK, LookUp, OpenConnection, HandlerReturns, LoopEnds
<1>2. /\ conn[c].mux \in Muxes /\ conn[c].id \in Ids /\ conn[c].pw \in Passwords
      /\ mux[conn[c].mux].state # "new"
      /\ mux[conn[c].mux].table[conn[c].id] = conn[c].pw
      /\ conn[c].pc = "found" => conn[c].user # None
      /\ conn[c].pc = "serve" /\ ~conn[c].closed =>
            conn[c].user # None /\ services[conn[c].id] = conn[c].user
  BY <1>1 DEF ConnInv
<1>3. UNCHANGED <<adapterVars, mux, sync, syncs, stop>>
  BY DEF LookUp, OpenConnection, HandlerReturns, LoopEnds
<1>4. ASSUME LookUp(c) PROVE MieruInv'
  <2> DEFINE u == users[conn[c].id]
             r == [conn[c] EXCEPT !.pc = IF u = None THEN "done" ELSE "found", !.user = u]
  <2>1. u \in Passwords \cup {None}
    BY <1>2 DEF AdapterTypeOK, Users
  <2>2. conn' = [conn EXCEPT ![c] = r]
    BY <1>4 DEF LookUp, AdapterTypeOK
  <2>3. /\ r \in ConnType /\ r.pc \in {"done", "found"} /\ r.mux = conn[c].mux
        /\ r.id = conn[c].id /\ r.pw = conn[c].pw /\ (r.pc = "found" => r.user # None)
    BY <1>1, <2>1 DEF ConnType
  <2> HIDE DEF r
  <2> QED BY <1>2, <1>3, <2>2, <2>3, ConnMoves
<1>5. ASSUME OpenConnection(c) PROVE MieruInv'
  <2>1. CASE /\ services[conn[c].id] = conn[c].user
             /\ conn' = [conn EXCEPT ![c].pc = "serve", ![c].loops = Loops]
    <3> DEFINE r == [conn[c] EXCEPT !.pc = "serve", !.loops = Loops]
    <3>1. conn' = [conn EXCEPT ![c] = r]
      BY <2>1 DEF AdapterTypeOK
    <3>2. /\ r \in ConnType /\ r.pc = "serve" /\ r.mux = conn[c].mux /\ r.id = conn[c].id
          /\ r.pw = conn[c].pw /\ r.user = conn[c].user
      BY <1>1 DEF ConnType
    <3> HIDE DEF r
    <3>3. conn[c].user # None
      BY <1>2, <1>5 DEF OpenConnection
    <3> QED BY <1>2, <1>3, <2>1, <3>1, <3>2, <3>3, ConnMoves, ZenonT(60)
  <2>2. CASE conn' = [conn EXCEPT ![c].pc = "done"]
    <3> DEFINE r == [conn[c] EXCEPT !.pc = "done"]
    <3>1. conn' = [conn EXCEPT ![c] = r]
      BY <2>2 DEF AdapterTypeOK
    <3>2. /\ r \in ConnType /\ r.pc = "done" /\ r.mux = conn[c].mux /\ r.id = conn[c].id
          /\ r.pw = conn[c].pw
      BY <1>1 DEF ConnType
    <3> HIDE DEF r
    <3> QED BY <1>2, <1>3, <3>1, <3>2, ConnMoves
  <2> QED BY <1>5, <2>1, <2>2 DEF OpenConnection
<1>6. ASSUME HandlerReturns(c) PROVE MieruInv'
  <2> DEFINE r == [conn[c] EXCEPT !.pc = "done"]
  <2>1. conn' = [conn EXCEPT ![c] = r]
    BY <1>6 DEF HandlerReturns, AdapterTypeOK
  <2>2. /\ r \in ConnType /\ r.pc = "done" /\ r.mux = conn[c].mux /\ r.id = conn[c].id
        /\ r.pw = conn[c].pw
    BY <1>1 DEF ConnType
  <2> HIDE DEF r
  <2> QED BY <1>2, <1>3, <2>1, <2>2, ConnMoves
<1>7. ASSUME NEW dir \in Loops, LoopEnds(c, dir) PROVE MieruInv'
  <2> DEFINE r == [conn[c] EXCEPT !.loops = conn[c].loops \ {dir}, !.closed = TRUE]
  <2>1. conn' = [conn EXCEPT ![c] = r]
    BY <1>7 DEF LoopEnds, AdapterTypeOK
  <2>2. /\ r \in ConnType /\ r.pc = conn[c].pc /\ r.mux = conn[c].mux /\ r.id = conn[c].id
        /\ r.pw = conn[c].pw /\ r.user = conn[c].user /\ r.closed
    BY <1>1 DEF ConnType
  <2> HIDE DEF r
  <2> QED BY <1>2, <1>3, <2>1, <2>2, ConnMoves
<1> QED BY <1>4, <1>5, <1>6, <1>7

-----------------------------------------------------------------------------
(* The invariant and what follows from it.                                 *)

LEMMA MieruInvInit == Init => MieruInv
<1> SUFFICES ASSUME Init PROVE MieruInv
  OBVIOUS
<1>1. NoConn \in ConnType /\ NoConn.pc = "idle" /\ NoMux \in MuxType /\ NoMux.state = "new"
  BY Constants DEF NoConn, ConnType, Loops, NoMux, MuxType
<1>2. AdapterTypeOK
  BY <1>1, Constants DEF Init, AdapterTypeOK, StopType
<1>3. sync.pc = "idle" /\ server = None /\ services = users /\ syncs = 0
  BY Constants DEF Init
<1>4. PhaseInv
  BY <1>3 DEF PhaseInv, ServedFrom
<1>5. MuxesInv
  <2>1. \A k \in Muxes : mux[k].state = "new" /\ k > 0
    BY <1>1, Constants DEF Init, Muxes
  <2>2. 0 <= Started
    BY <1>3 DEF Started
  <2> QED BY <1>3, <2>1, <2>2 DEF MuxesInv
<1>6. ConnInv
  <2>1. \A c \in Conns : conn[c].pc = "idle"
    BY <1>1 DEF Init
  <2> QED BY <2>1 DEF ConnInv
<1> QED BY <1>2, <1>4, <1>5, <1>6 DEF MieruInv

LEMMA MieruInvNext == MieruInv /\ [Next]_vars => MieruInv'
<1> SUFFICES ASSUME MieruInv, [Next]_vars PROVE MieruInv'
  OBVIOUS
<1>1. CASE StopNode \/ StopGivesUp \/ DelNode \/ UNCHANGED vars
  <2>1. UNCHANGED <<users, credentials, services, server, mux, conn, sync, syncs>>
    BY <1>1 DEF StopNode, StopGivesUp, DelNode, vars, adapterVars
  <2>2. stop' \in StopType
    <3>1. stop \in StopType
      BY DEF MieruInv, AdapterTypeOK
    <3>2. CASE StopNode
      BY <3>2 DEF StopNode, StopType
    <3>3. CASE StopGivesUp
      BY <3>1, <3>3 DEF StopGivesUp, StopType
    <3>4. CASE DelNode
      <4>1. stop.call = "stopped" /\ stop' = [stop EXCEPT !.call = "DelNode", !.waiting = @ + 1]
        BY <3>4 DEF DelNode
      <4>2. stop.waiting \in 0 .. 1
        BY <3>1, <4>1 DEF StopType
      <4>3. stop.waiting + 1 \in 0 .. 2
        BY <4>2
      <4> QED BY <3>1, <4>1, <4>3 DEF StopType
    <3>5. CASE UNCHANGED vars
      BY <3>1, <3>5 DEF vars
    <3> QED BY <1>1, <3>2, <3>3, <3>4, <3>5
  <2> QED BY <2>1, <2>2 DEF MieruInv, AdapterTypeOK, PhaseInv, ServedFrom, HotIsSafe,
                            MuxesInv, Started, ConnInv
<1>2. CASE \E next \in Lists : SyncUsers(next)
  BY <1>2, SyncUsersStep
<1>3. CASE AdapterStep
  BY <1>3, HotUpdateStep, GivesUpStep, SyncServicesStep, CheckConfigStep,
     CloseSessionsStep, StopServerStep, StopReturnsStep, StartServerStep, StartFailsStep,
     StayStoppedStep
  DEF AdapterStep
<1>4. CASE \E k \in Muxes : MuxCloses(k)
  BY <1>4, MuxClosesStep
<1>5. CASE StopRuns
  BY <1>5, StopRunsStep
<1>6. ASSUME NEW c \in Conns,
             \/ \E k \in Muxes, i \in Ids : Accept(c, k, i)
             \/ ConnStep(c) \/ \E dir \in Loops : LoopEnds(c, dir)
      PROVE  MieruInv'
  BY <1>6, AcceptStep, HandlerStep DEF ConnStep
<1> QED BY <1>1, <1>2, <1>3, <1>4, <1>5, <1>6 DEF Next

LEMMA MieruInvCorrect == Spec => []MieruInv
BY MieruInvInit, MieruInvNext, PTL DEF Spec

(* Type correctness of the adapter.                                        *)
THEOREM MieruTypeCorrect == Spec => []MieruTypeOK
<1>1. MieruInv => MieruTypeOK
  BY DEF MieruInv, AdapterTypeOK, MieruTypeOK, MuxType, ConnType, SyncType, StopType
<1> QED BY <1>1, MieruInvCorrect, PTL

(* Between two calls of SyncUsers the mux in use, the stored credentials,  *)
(* the users and RuntimeServices agree, however the calls before ended, by *)
(* a hot update, a restart, a recovery or a timeout; and the tombstones    *)
(* never exceed their limit (SyncUsers, restartLocked, UpdateUsers).       *)
THEOREM ServerMatchesUsersCorrect == Spec => []ServerMatchesUsers
<1>1. MieruInv => ServerMatchesUsers
  BY DEF MieruInv, PhaseInv, ServedFrom, ServerMatchesUsers
<1> QED BY <1>1, MieruInvCorrect, PTL

(* No connection that authenticated with a replaced password is served by  *)
(* the mux in use (credentialChangedLocked and the restart it causes).     *)
THEOREM RevokedNotServedCorrect == Spec => []RevokedNotServed
<1>1. MieruInv => RevokedNotServed
  <2> SUFFICES ASSUME MieruInv, sync.pc = "idle", NEW c \in Conns, conn[c].pc = "serve",
                      ~conn[c].closed, conn[c].mux = server, server # None
               PROVE  conn[c].pw = users[conn[c].id]
    BY DEF RevokedNotServed
  <2>1. /\ conn[c].id \in Ids /\ mux[server].table[conn[c].id] = conn[c].pw
        /\ services[conn[c].id] # None
    BY DEF MieruInv, ConnInv
  <2>2. /\ services = users /\ mux[server].table = credentials
        /\ \A i \in Active(users) : credentials[i] = users[i]
    BY DEF MieruInv, PhaseInv, ServedFrom
  <2> QED BY <2>1, <2>2 DEF Active
<1> QED BY <1>1, MieruInvCorrect, PTL
=============================================================================
