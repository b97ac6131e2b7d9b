---------------------------- MODULE SudokuServer ----------------------------
(***************************************************************************)
(* The listener of a Sudoku node (core/sudoku/server.go): its accept loop, *)
(* the handshake budget and the cooldown of sources, the search for the    *)
(* user behind a hidden hello with its replay filter and staged tables,    *)
(* the sessions of the shared HTTP tunnel, the replacement of the users by *)
(* runtime.SyncUsers and the shutdown.                                     *)
(*                                                                         *)
(* A connection carries a raw hello, an HTTP request that authorizes a     *)
(* tunnel session with an early hello, a push or pull of such a session,   *)
(* or bytes nobody understands.  What a tunnel session transports is in    *)
(* Tunnel, what a multiplexed one does in Mux.  A behaviour is shorter     *)
(* than the 60 seconds for which a nonce is remembered.                    *)
(***************************************************************************)
EXTENDS Naturals, FiniteSets

CONSTANTS Users,          \* user hashes
          FirstUsers,     \* users when the listener is started
          Sources,        \* remote addresses without the port
          Hellos,         \* client hellos, each with a nonce of its own
          UserOf,         \* the user of a hello
          TableOf,        \* the table its client has chosen
          Staged,         \* more users than eagerSudokuTableUserLimit
          MaxConns,       \* bound on the connections accepted
          MaxSlots,       \* maxConcurrentSudokuHandshakes
          MaxPerSource,   \* maxConcurrentSudokuHandshakesPerSource
          MaxSessions,    \* maxTunnelSessions
          MaxSyncs,       \* bound on the user lists
          None

ASSUME SudokuAssumption ==
    /\ FirstUsers \subseteq Users /\ FirstUsers # {}
    /\ UserOf \in [Hellos -> Users]
    /\ TableOf \in [Hellos -> {"panel", "twin", "other"}]
    /\ Staged \in BOOLEAN
    /\ {MaxConns, MaxSlots, MaxPerSource, MaxSessions} \subseteq Nat \ {0}
    /\ MaxSyncs \in Nat

Conns == 1 .. MaxConns

ASSUME NoneAssumption ==
    None \notin Conns /\ None \notin {"open", "raw", "authorize"}

VARIABLES
    mask,       \* HTTPMask is on: connections are inspected by the tunnel
    conn,       \* connections and the locals of their handlers
    slots,      \* len(handshakeSlots)
    bySource,   \* handshakesBySource
    blocked,    \* sources inside their cooldown
    probe,      \* holder of handshakeProbeSlots
    nonces,     \* globalHandshakeReplay
    snapshot,   \* users: the snapshot in force and its tunnel
    shut,       \* tunnels that were closed
    sess,       \* sessions: the tunnel that has the session of a connection
    services,   \* users of RuntimeServices
    sync,       \* progress of runtime.SyncUsers
    closing     \* progress of serverInstance.Close

budgetVars == <<slots, bySource, blocked>>
userVars == <<snapshot, services, sync>>
vars == <<mask, conn, budgetVars, probe, nonces, userVars, shut, sess, closing>>

NoTunnel == MaxSyncs + 1
NoConn == [pc |-> "idle", src |-> None, what |-> None, arg |-> None,
           tunnel |-> NoTunnel, todo |-> {}, cur |-> None, then |-> None,
           cut |-> FALSE]

(* A probe of one user's tables: the panel's, or the compatibility ones.   *)
Stages == IF Staged THEN {1, 2} ELSE {1}
Probes == Users \X Stages

(* buildUserConfigs: an entry for every user, whose tables are made when a *)
(* hello is first tried with them.                                         *)
Entries(users) == users \X Stages

SudokuTypeOK ==
    /\ mask \in BOOLEAN
    /\ \A c \in Conns :
          /\ conn[c].pc \in {"idle", "accepted", "check", "take", "count", "load",
                             "probe", "probing", "insert", "reply", "request", "fail",
                             "uncount", "untake", "serve", "done"}
          /\ conn[c].todo \subseteq Probes /\ conn[c].tunnel \in 0 .. NoTunnel
          /\ conn[c].then \in {None, "open", "done"} /\ conn[c].cut \in BOOLEAN
    /\ slots \in 0 .. MaxSlots /\ bySource \in [Sources -> 0 .. MaxPerSource]
    /\ blocked \subseteq Sources /\ probe \in Conns \cup {None}
    /\ nonces \subseteq Hellos
    /\ snapshot \in [users : SUBSET Users, tunnel : 0 .. MaxSyncs]
    /\ shut \subseteq 0 .. MaxSyncs /\ sess \in [Conns -> 0 .. NoTunnel]
    /\ services \subseteq Users /\ sync \in {"idle", "tunnels", "services"}
    /\ closing \in {"no", "listener", "conns", "wait", "ok", "timeout", "late", "stuck"}

(* startServer.                                                            *)
Init ==
    /\ mask \in BOOLEAN
    /\ conn = [c \in Conns |-> NoConn]
    /\ slots = 0 /\ bySource = [s \in Sources |-> 0] /\ blocked = {}
    /\ probe = None /\ nonces = {} /\ shut = {}
    /\ services = FirstUsers
    /\ snapshot = [users |-> services, tunnel |-> 0]
    /\ sess = [c \in Conns |-> NoTunnel]
    /\ sync = "idle" /\ closing = "no"

Goto(c, pc) == conn' = [conn EXCEPT ![c].pc = pc]

-----------------------------------------------------------------------------
(* Clients.  A dial makes a new hello; only an authorize request, whose    *)
(* answer was lost, is repeated with the same one (dialSessionWithClient). *)

Answered(c) == conn[c].what = "authorize" /\ conn[c].then = "open"

Requests ==
    {<<"junk", None>>}
    \cup {<<"raw", h>> : h \in {g \in Hellos : \A c \in Conns : conn[c].arg # g}}
    \cup {<<"authorize", h>> : h \in
             {g \in Hellos : mask /\ \A c \in Conns :
                 conn[c].arg = g => conn[c].what = "authorize" /\ ~Answered(c)}}
    \cup {<<"data", c>> : c \in {d \in Conns : mask /\ Answered(d)}}

(* serve: Accept returns a connection ...                                  *)
Accept(c, s, request) ==
    /\ closing = "no"
    /\ conn[c].pc = "idle" /\ \A d \in Conns : d < c => conn[d].pc # "idle"
    /\ \A d \in Conns : conn[d].pc # "accepted"
    /\ conn' = [conn EXCEPT ![c] = [NoConn EXCEPT !.pc = "accepted", !.src = s,
                                      !.what = request[1], !.arg = request[2]]]
    /\ UNCHANGED <<mask, budgetVars, probe, nonces, userVars, shut, sess, closing>>

(* ... which is then registered and given a handler.                       *)
Register(c) ==
    /\ conn[c].pc = "accepted"
    /\ Goto(c, "check")
    /\ UNCHANGED <<mask, budgetVars, probe, nonces, userVars, shut, sess, closing>>

-----------------------------------------------------------------------------
(* acquireHandshakeSlot and releaseHandshakeSlot.                          *)

CheckBlocked(c) ==
    /\ conn[c].pc = "check"
    /\ Goto(c, IF conn[c].src \in blocked THEN "done" ELSE "take")
    /\ UNCHANGED <<mask, budgetVars, probe, nonces, userVars, shut, sess, closing>>

(* Taken, or refused: also when the server is being closed.                *)
TakeSlot(c) ==
    /\ conn[c].pc = "take"
    /\ \/ slots < MaxSlots /\ slots' = slots + 1 /\ Goto(c, "count")
       \/ (slots = MaxSlots \/ closing # "no") /\ Goto(c, "done") /\ UNCHANGED slots
    /\ UNCHANGED <<mask, bySource, blocked, probe, nonces, userVars, shut, sess, closing>>

(* Mutant: a refused source keeps the slot.                                *)
CountSourceKeeps(c) ==
    /\ conn[c].pc = "count"
    /\ \/ /\ bySource[conn[c].src] < MaxPerSource
          /\ bySource' = [bySource EXCEPT ![conn[c].src] = @ + 1]
          /\ Goto(c, "load")
       \/ /\ bySource[conn[c].src] = MaxPerSource
          /\ Goto(c, "done")
          /\ UNCHANGED bySource
    /\ UNCHANGED <<mask, slots, blocked, probe, nonces, userVars, shut, sess, closing>>

CountSource(c) ==
    /\ conn[c].pc = "count"
    /\ \/ /\ bySource[conn[c].src] < MaxPerSource
          /\ bySource' = [bySource EXCEPT ![conn[c].src] = @ + 1]
          /\ Goto(c, "load")
          /\ UNCHANGED slots
       \/ /\ bySource[conn[c].src] = MaxPerSource
          /\ slots' = slots - 1
          /\ Goto(c, "done")
          /\ UNCHANGED bySource
    /\ UNCHANGED <<mask, blocked, probe, nonces, userVars, shut, sess, closing>>

(* The handshake of c is over; next is where its handler goes on.          *)
EndHandshake(c, next) ==
    conn' = [conn EXCEPT ![c].pc = "uncount", ![c].then = next, ![c].todo = {},
                         ![c].cur = None, ![c].tunnel = NoTunnel]

ReleaseSource(c) ==
    /\ conn[c].pc = "uncount"
    /\ bySource' = [bySource EXCEPT ![conn[c].src] = @ - 1]
    /\ Goto(c, "untake")
    /\ UNCHANGED <<mask, slots, blocked, probe, nonces, userVars, shut, sess, closing>>

(* The slot is returned; the handler opens its session and serves it.      *)
ReleaseSlot(c) ==
    /\ conn[c].pc = "untake"
    /\ slots' = slots - 1
    /\ Goto(c, IF conn[c].then = "open" /\ UserOf[conn[c].arg] \in services
               THEN "serve" ELSE "done")
    /\ UNCHANGED <<mask, bySource, blocked, probe, nonces, userVars, shut, sess, closing>>

(* logHandshakeFailure, blockHandshakeSource.                              *)
BlockSource(c) ==
    /\ conn[c].pc = "fail"
    /\ blocked' = blocked \cup {conn[c].src}
    /\ EndHandshake(c, "done")
    /\ UNCHANGED <<mask, slots, bySource, probe, nonces, userVars, shut, sess, closing>>

unblockHandshakeSource(c) == blocked' = blocked \ {conn[c].src}

(* A handshake succeeded: its source is no longer in cooldown, and the     *)
(* handler goes on to open the user's session.                             *)
Established(c) == unblockHandshakeSource(c) /\ EndHandshake(c, "open")

CooldownEnds(s) ==
    /\ s \in blocked
    /\ blocked' = blocked \ {s}
    /\ UNCHANGED <<mask, conn, slots, bySource, probe, nonces, userVars, shut, sess, closing>>

-----------------------------------------------------------------------------
(* handshake: the snapshot is loaded, and the tunnel looks at the request. *)

(* The users to be tried, in any order: the preferred one is first only to *)
(* save time.                                                              *)
Search(c) ==
    conn' = [conn EXCEPT ![c].pc = "probe", ![c].tunnel = snapshot.tunnel,
                         ![c].todo = Entries(snapshot.users)]

(* HandleConn: a data request holds its place in the handshake while it    *)
(* runs; one of a session that the tunnel does not have is rejected, and   *)
(* what is no tunnel request may still be a raw hello.                     *)
Inspect(c) ==
    \/ conn[c].what # "data" /\ Search(c)
    \/ conn[c].what = "junk" /\ EndHandshake(c, "done")
    \/ /\ conn[c].what = "data"
       /\ Goto(c, IF sess[conn[c].arg] = snapshot.tunnel THEN "request" ELSE "fail")

Load(c) ==
    /\ conn[c].pc = "load"
    /\ \/ ~mask /\ Search(c)
       \/ mask /\ snapshot.tunnel \in shut /\ EndHandshake(c, "done")
       \/ mask /\ snapshot.tunnel \notin shut /\ Inspect(c)
    /\ UNCHANGED <<mask, budgetVars, probe, nonces, userVars, shut, sess, closing>>

(* streamPull, streamPush, pollPull and pollPush return: see Tunnel.       *)
RequestEnds(c) ==
    /\ conn[c].pc = "request"
    /\ EndHandshake(c, "done")
    /\ UNCHANGED <<mask, budgetVars, probe, nonces, userVars, shut, sess, closing>>

-----------------------------------------------------------------------------
(* The search for the user of a hello.                                     *)

(* A raw hello that passed through the tunnel is tried with both table     *)
(* sets of a user at a time.                                               *)
UserByUser(todo) ==
    {p \in todo :
        /\ <<p[1], 1>> \in todo => p[2] = 1
        /\ \A u \in Users : <<u, 2>> \in todo /\ u # p[1] => <<u, 1>> \in todo}

(* The early handshake of the tunnel, and a hello on a listener without    *)
(* one, try everybody's primary tables before the compatibility ones.      *)
PrimaryFirst(todo) ==
    {p \in todo : p[2] = 1 \/ \A u \in Users : <<u, 1>> \notin todo}

NextProbes(c) ==
    IF mask /\ conn[c].what # "authorize" THEN UserByUser(conn[c].todo)
    ELSE PrimaryFirst(conn[c].todo)

(* acquireProbeSlot.                                                       *)
ProbeBegins(c, p) ==
    /\ conn[c].pc = "probe" /\ probe = None
    /\ p \in NextProbes(c)
    /\ probe' = c
    /\ conn' = [conn EXCEPT ![c].pc = "probing", ![c].cur = p, ![c].todo = @ \ {p}]
    /\ UNCHANGED <<mask, budgetVars, nonces, userVars, shut, sess, closing>>

(* The tables of a stage; a table and its twin share the uplink layout and *)
(* only the hint in the hello tells them apart.                            *)
TablesOf(stage) ==
    IF ~Staged THEN {"panel", "twin", "other"}
    ELSE IF stage = 1 THEN {"panel"} ELSE {"twin", "other"}

Uplink(table) == IF table = "twin" THEN "panel" ELSE table

(* selectTableByProbe: a hello decodes with the right key and uplink.      *)
Decodes(h, p) ==
    UserOf[h] = p[1] /\ \E t \in TablesOf(p[2]) : Uplink(t) = Uplink(TableOf[h])

(* ResolveClientHelloTable.                                                *)
Resolves(h, p) == TableOf[h] \in TablesOf(p[2])

(* handshakeReplayProtector.allow.                                         *)
Allowed(h) == h \notin nonces

IsHello(c) == conn[c].what \in {"raw", "authorize"}

Authentic(c) ==
    /\ IsHello(c) /\ Decodes(conn[c].arg, conn[c].cur)
    /\ Allowed(conn[c].arg) /\ Resolves(conn[c].arg, conn[c].cur)

(* The bytes a probe has read are replayed to the next one.                *)
Replay(c) == Goto(c, IF conn[c].todo = {} THEN "fail" ELSE "probe")

(* ServerHandshake or Prepare returns.  The nonce is used up before the    *)
(* table is resolved; the answer cannot be written to a closed connection. *)
ProbeEnds(c) ==
    /\ conn[c].pc = "probing"
    /\ probe' = None
    /\ nonces' = IF IsHello(c) /\ Decodes(conn[c].arg, conn[c].cur)
                 THEN nonces \cup {conn[c].arg} ELSE nonces
    /\ \/ /\ Authentic(c) /\ conn[c].what = "raw" /\ ~conn[c].cut
          /\ Established(c)
       \/ /\ Authentic(c) /\ conn[c].what = "authorize"
          /\ Goto(c, "insert")
          /\ UNCHANGED blocked
       \/ /\ ~Authentic(c) \/ (conn[c].what = "raw" /\ conn[c].cut)
          /\ Replay(c)
          /\ UNCHANGED blocked
    /\ UNCHANGED <<mask, slots, bySource, userVars, shut, sess, closing>>

(* The handshake deadline, waiting for the probe slot or for bytes.        *)
Expire(c) ==
    /\ conn[c].pc \in {"probe", "probing"}
    /\ probe' = IF probe = c THEN None ELSE probe
    /\ Goto(c, "fail")
    /\ UNCHANGED <<mask, budgetVars, nonces, userVars, shut, sess, closing>>

-----------------------------------------------------------------------------
(* sessionAuthorize after the early handshake.                             *)

Sessions(t) == {c \in Conns : sess[c] = t}

(* Mutant: the closed tunnel is only noticed before the handshake.         *)
InsertSessionAnyway(c) ==
    /\ conn[c].pc = "insert"
    /\ sess' = [sess EXCEPT ![c] = conn[c].tunnel]
    /\ Goto(c, "reply")
    /\ UNCHANGED <<mask, budgetVars, probe, nonces, userVars, shut, closing>>

InsertSession(c) ==
    /\ conn[c].pc = "insert"
    /\ LET t == conn[c].tunnel IN
       \/ /\ t \notin shut /\ Cardinality(Sessions(t)) < MaxSessions
          /\ sess' = [sess EXCEPT ![c] = t]
          /\ Goto(c, "reply")
       \/ /\ t \in shut \/ Cardinality(Sessions(t)) >= MaxSessions
          /\ EndHandshake(c, "done")
          /\ UNCHANGED sess
    /\ UNCHANGED <<mask, budgetVars, probe, nonces, userVars, shut, closing>>

(* The token is written, or the session goes with its connection.          *)
ReplyToken(c) ==
    /\ conn[c].pc = "reply"
    /\ \/ /\ ~conn[c].cut
          /\ Established(c)
          /\ UNCHANGED sess
       \/ /\ sess' = [sess EXCEPT ![c] = NoTunnel]
          /\ EndHandshake(c, "done")
          /\ UNCHANGED blocked
    /\ UNCHANGED <<mask, slots, bySource, probe, nonces, userVars, shut, closing>>

(* A close request, the second half-close or reapLater.                    *)
SessionCloses(c) ==
    /\ sess[c] # NoTunnel /\ conn[c].pc # "reply"
    /\ sess' = [sess EXCEPT ![c] = NoTunnel]
    /\ UNCHANGED <<mask, conn, budgetVars, probe, nonces, userVars, shut, closing>>

-----------------------------------------------------------------------------
(* An established session.                                                 *)

(* The stream under the session is closed: the socket, or the half pipe of *)
(* a tunnel session.                                                       *)
Severed(c) == conn[c].cut \/ (conn[c].what = "authorize" /\ sess[c] = NoTunnel)

ServeEnds(c) ==
    /\ conn[c].pc = "serve" /\ Severed(c)
    /\ Goto(c, "done")
    /\ UNCHANGED <<mask, budgetVars, probe, nonces, userVars, shut, sess, closing>>

(* The client or the destination ends it.                                  *)
PeerEnds(c) ==
    /\ conn[c].pc = "serve" /\ ~Severed(c)
    /\ Goto(c, "done")
    /\ UNCHANGED <<mask, budgetVars, probe, nonces, userVars, shut, sess, closing>>

-----------------------------------------------------------------------------
(* runtime.SyncUsers on a running instance.                                *)

(* TunnelServer.Close.                                                     *)
CloseTunnels(ts) ==
    /\ shut' = shut \cup ts
    /\ sess' = [c \in Conns |-> IF sess[c] \in ts THEN NoTunnel ELSE sess[c]]

(* sameHTTPMaskUserSet: the same users keep the tunnel and its sessions.   *)
NextTunnel(next) ==
    IF next = snapshot.users THEN snapshot.tunnel ELSE snapshot.tunnel + 1

StoreUsers(next) ==
    /\ closing = "no" /\ sync = "idle"
    /\ next # {} /\ NextTunnel(next) <= MaxSyncs
    /\ snapshot' = [users |-> next, tunnel |-> NextTunnel(next)]
    /\ sync' = "tunnels"
    /\ UNCHANGED <<mask, conn, budgetVars, probe, nonces, services, shut, sess, closing>>

CloseReplacedTunnels ==
    /\ sync = "tunnels"
    /\ CloseTunnels(0 .. snapshot.tunnel - 1)
    /\ sync' = "services"
    /\ UNCHANGED <<mask, conn, budgetVars, probe, nonces, snapshot, services, closing>>

(* The sessions of removed users are closed.                               *)
SyncServices ==
    /\ sync = "services"
    /\ services' = snapshot.users
    /\ conn' = [c \in Conns |->
          IF conn[c].pc = "serve" /\ UserOf[conn[c].arg] \notin snapshot.users
          THEN [conn[c] EXCEPT !.cut = TRUE] ELSE conn[c]]
    /\ sync' = "idle"
    /\ UNCHANGED <<mask, budgetVars, probe, nonces, snapshot, shut, sess, closing>>

-----------------------------------------------------------------------------
(* serverInstance.Close.                                                   *)

CloseListener ==
    /\ closing = "no" /\ sync = "idle"
    /\ closing' = "listener"
    /\ UNCHANGED <<mask, conn, budgetVars, probe, nonces, userVars, shut, sess>>

(* Mutant: Close does not wait for the accept loop.                        *)
AcceptLoopLeft == TRUE

(* serve sees the closed listener and reports on done.                     *)
AcceptLoopEnded == \A c \in Conns : conn[c].pc # "accepted"

(* A session of the tunnel no longer depends on its socket.                *)
Registered(c) == conn[c].pc \notin {"idle", "accepted", "done"} /\ ~Answered(c)

(* The accept loop is waited for until the timeout; then Close goes on     *)
(* without it.                                                             *)
CloseConns ==
    /\ closing = "listener"
    /\ conn' = [c \in Conns |->
          IF Registered(c) THEN [conn[c] EXCEPT !.cut = TRUE] ELSE conn[c]]
    /\ closing' = IF AcceptLoopEnded THEN "conns" ELSE "late"
    /\ UNCHANGED <<mask, budgetVars, probe, nonces, userVars, shut, sess>>

(* After a timeout of the accept loop the handlers are not waited for.     *)
CloseSnapshotTunnel ==
    /\ closing \in {"conns", "late"}
    /\ CloseTunnels({snapshot.tunnel})
    /\ closing' = IF closing = "late" THEN "stuck" ELSE "wait"
    /\ UNCHANGED <<mask, conn, budgetVars, probe, nonces, userVars>>

(* All handlers have returned, or the timeout is an error.                 *)
CloseReturns ==
    /\ closing = "wait"
    /\ closing' \in IF \A c \in Conns : conn[c].pc \in {"idle", "done"}
                    THEN {"ok"} ELSE {"timeout"}
    /\ UNCHANGED <<mask, conn, budgetVars, probe, nonces, userVars, shut, sess>>

-----------------------------------------------------------------------------
HandlerStep(c) ==
    \/ Register(c) \/ CheckBlocked(c) \/ TakeSlot(c) \/ CountSource(c)
    \/ Load(c) \/ RequestEnds(c)
    \/ (\E p \in Probes : ProbeBegins(c, p)) \/ ProbeEnds(c) \/ Expire(c)
    \/ InsertSession(c) \/ ReplyToken(c)
    \/ BlockSource(c) \/ ReleaseSource(c) \/ ReleaseSlot(c)
    \/ ServeEnds(c)

ClientStep ==
    \/ \E c \in Conns, s \in Sources : \E r \in Requests : Accept(c, s, r)
    \/ \E c \in Conns : PeerEnds(c) \/ SessionCloses(c)
    \/ \E s \in Sources : CooldownEnds(s)

SyncStep == CloseReplacedTunnels \/ SyncServices

CloseStep == CloseConns \/ CloseSnapshotTunnel \/ CloseReturns

Next ==
    \/ ClientStep \/ (\E c \in Conns : HandlerStep(c))
    \/ (\E next \in SUBSET Users : StoreUsers(next)) \/ SyncStep
    \/ CloseListener \/ CloseStep

Spec == Init /\ [][Next]_vars

-----------------------------------------------------------------------------
(* Properties.                                                             *)

HoldsSlot(c) ==
    conn[c].pc \in {"count", "load", "probe", "probing", "insert", "reply", "request",
                    "fail", "uncount", "untake"}
IsCounted(c) == HoldsSlot(c) /\ conn[c].pc \notin {"count", "untake"}

(* The handshake budget is exact: each slot and each count of a source is  *)
(* held by one handshake, on every way out of it (handle,                  *)
(* acquireHandshakeSlot, releaseHandshakeSlot); and the CPU-heavy probe is *)
(* run by one of them at a time (handshakeProbeSlots).                     *)
BudgetExact ==
    /\ slots = Cardinality({c \in Conns : HoldsSlot(c)}) /\ slots <= MaxSlots
    /\ \A s \in Sources :
          bySource[s] = Cardinality({c \in Conns : IsCounted(c) /\ conn[c].src = s})
    /\ \A c \in Conns : conn[c].pc = "probing" <=> probe = c

(* A tunnel that was replaced or shut down keeps no session, although an   *)
(* authorization may be between its early handshake and the session map,   *)
(* and the tunnel of the users in force is open until the server is closed *)
(* (TunnelServer.Close, sessionAuthorize, closeReplacedHTTPMaskTunnels).   *)
ShutTunnelIsEmpty ==
    /\ \A c \in Conns : sess[c] \notin shut
    /\ snapshot.tunnel \in shut => closing \in {"wait", "ok", "timeout", "stuck"}

(* A handler whose socket was not closed, and whose tunnel session, if it  *)
(* serves one, is still there.                                             *)
KeptGoing(c) ==
    /\ conn[c].pc \notin {"idle", "done"} /\ ~conn[c].cut
    /\ ~(Answered(c) /\ sess[c] = NoTunnel)

(* Once Close waits for the handlers nothing keeps one of them going, also *)
(* when the connection was accepted while Close began, or its              *)
(* authorization spans the replacement of the tunnel; when the accept loop *)
(* did not end in time, one connection at most is left (Close, serve,      *)
(* sessionAuthorize, closeReplacedHTTPMaskTunnels).  This is said of       *)
(* handlers; the goroutines of multiplexed streams are counted by nobody.  *)
CloseLeavesNone ==
    /\ closing \in {"wait", "ok", "timeout"} => \A c \in Conns : ~KeptGoing(c)
    /\ closing = "stuck" =>
          \A c, d \in Conns : KeptGoing(c) /\ KeptGoing(d) => c = d
=============================================================================
