# daonode: TLA+ models, checks and proofs

daonode is a proxy node server. It reads a config file, asks a panel over HTTP for
the nodes it has to run and for the users of each node, starts one protocol kernel
per node (juicity, naive, mieru or sudoku), limits users to a number of devices,
counts their traffic, and reports traffic and online devices to the panel. Config
and panel changes are applied inside the process by replacing the whole runtime.

This directory holds TLA+ modules translated from the Go source, TLC configurations
that check them on small instances, and TLAPS proofs of the most important
invariants for every value of the constants. `PROJECT.json` maps each definition to
the source lines it models.

## 1. Inventory

| Component (source) | State | Operations | Interacts with |
|---|---|---|---|
| Limiter (`limiter/limiter.go`) | user records, alive counts, online addresses with connection counts, reported sets, pending offline reports; three mutexes; a global map by tag | `CheckLimit`, `ReleaseConnection`, `UpdateUser`, `GetOnlineDevice`, `MarkOnlineDeviceReported`, `GetPendingOfflineUsers`, `MarkOfflineUsersReported`, `SetAliveList` | called by runtime services (connections), report task, monitor task |
| Runtime services (`core/shared/runtime.go`) | current users and credential index, session registry, traffic counters, pending snapshots, process-wide committed baseline | `SyncUsers`, `openSession`, `Session.Close/Release/Record*`, `CloseAllConnections`, `Traffic`, `CommitTraffic` | kernels open and close sessions; tasks read and commit traffic |
| Report task (`node/user.go`) | locals of one round | `reportUserTrafficTask`, `flushUserTraffic`, filters, `compareUserList` | runtime services, limiter, panel |
| Monitor task (`node/task.go`) | locals of one round, the client's ETag | `nodeInfoMonitor`, `syncUsers` | panel, core, limiter, reload channel |
| Node and controllers (`node/node.go`, `node/controller.go`) | list of controllers, prepared info, users, tasks | `New`, `NewFromSnapshot`, `Start` with rollback, `Close`, `Snapshot` | core registry, limiter map, tasks |
| Supervisor (`cmd/server.go`) | active nodes and core, config, snapshot, one-slot reload channel, retry timers | boot with retry, main loop, `reload`, `restore`, exit | everything above |
| Watcher (`conf/watch.go`) | debounce time | file events | reload channel |
| Core registry (`core/core.go`) | kernel runtimes by tag | `AddNode`, `DelNode`, `StopNode`, `AddUsers`, `SyncUsers`, `ValidateRuntime`, `Close` | kernels |
| Panel client (`api/v2board`) | ETags, alive map, user list | node info, users, alive list, pushes | panel (external) |
| Periodic task (`common/task`) | timer, running flag | `Start`, `Close`, `safeStop` | tasks |
| Kernels (`core/juicity`, `core/naive`, `core/mieru`, `core/sudoku`) | listener, instance, users, sessions | `SyncUsers`, `Stop`, connection handling | runtime services |
| Multiplexer (`core/sudoku/transport/multiplex`) | streams, accept queue, per-stream queue and half-close flags | open, accept, read, write, half-closes, resets, session close | sudoku kernel, tunnel connection |
| HTTP tunnel (`core/sudoku/transport/obfs/httpmask`) | client: payload queue, batch number, leases; server: session map, next expected batch, lease of the pull, half pipe to the proxy | write, flush a batch with retries, pull, half-close, close, authorize, sweep | sudoku listener, proxy goroutine |
| Sudoku listener (`core/sudoku/server.go`, `transport/handshake.go`) | user snapshot and its tunnel, handshake slots in total and per source, cooldowns, probe slot, remembered nonces, connections | accept, probe, handshake, `SyncUsers`, `Close` | runtime services, tunnel, multiplexer, adapter |
| Mieru adapter (`core/mieru/runtime.go`, `hot_server.go`) | users, credentials with tombstones, current mux server | `SyncUsers` by hot update, restart or recovery; `Stop`; connection handling | runtime services, mux (library) |
| Record layer, obfuscation tables (`core/sudoku/transport/...`) | epochs and sequence numbers; encodings | | sudoku listener |
| Certificates, latency probe, routing, rate conn, scripts | | | |

What is hard here, and what correctness means for it:

* **Admission** (limiter + runtime services). One admission takes four critical
  sections under two objects' locks, a user update takes four others. Correct: no
  slot leaks, no removed user stays connected, a device limit is respected by the
  step that takes a slot, a reconnect is never erased by an acknowledgement.
* **Online report**. Connections come and go between the snapshot, the request and
  the acknowledgement; responses get lost. Correct: what the node believes it
  reported was accepted; an offline report is settled in the end.
* **User synchronisation**. Every step of the adapter's transaction can fail, ids and
  credentials change hands, and the node may be closed with the task still inside.
  Correct: four copies of the users agree, a server has its users, none is orphaned,
  a list is applied in the end.
* **Traffic**. Counters move without a lock between read, push and commit; the
  response may be lost; the runtime may be replaced. Correct: nothing is lost,
  nothing is billed twice, removed users' last bytes are billed.
* **Replacement of the runtime**. Each controller can fail to start, each stop can
  time out, signals arrive at any time and are drained. Correct: no residue, no
  half runtime, restore from what was active, always up again, no change lost.
* **Multiplexing**. Two read loops, writers, openers, closers and resets share one
  connection. Correct: gapless in-order data, an `io.EOF` that only a closing peer or the
  clean end of the connection itself can cause, bounded queues without blocking the
  shared read loop, no dead entries.
* **HTTP tunnel**. A stream is cut into requests that are retried while the server
  may still work on the first copy, and pulls take the downlink over from each other.
  Correct: each direction is a stream without gap, repetition or false end; closing
  ends; what the proxy wrote arrives. The code keeps this for retries and resets, but not
  when a body or a response is cut in the middle (section 6).
* **Sudoku listener**. The budget of handshakes is taken and returned on many paths;
  users and tunnel are replaced under running handshakes; closing races with accepts.
  Correct: the budget is exact, a tunnel that was shut keeps no session, `Close` leaves
  no handler going.
* **Mieru**. A synchronisation chooses between a hot update, a restart and a second
  restart that goes back, and `Stop` gives up waiting. Correct: the mux accepts what the
  adapter believes it accepts, a revoked user is not served by the mux in use, a stop that
  was given up still takes effect.

`PROJECT.json` lists every hazard with its line, and the properties that cover it
or the reason why none does.

## 2. Plan

Written, in this order: `UserLists`, `Limiter`, `RuntimeServices` (extends Limiter),
`OnlineReport` (extends Limiter), `Traffic`, `Supervisor`, `Mux`, `UserSync` (extends
UserLists), `Stream` (abstract; `Mux` and `Tunnel` refine it), `Tunnel`, `SudokuServer`,
`Mieru`; proofs for Limiter, RuntimeServices, Traffic, UserSync, Supervisor, SudokuServer,
Mieru, and Stream with Mux.

Next, most important first:

1. Proofs: `ReportedIsAtPanel` of OnlineReport, and the step simulations behind
   `UplinkIsStream` and `DownlinkIsStream` of the tunnel.
2. `common/task` composed with `Traffic`, so that a late report overlaps the final flush.
3. The endpoint pool of `core/juicity/underlay.go`.
4. `record_conn.go`: epochs and sequence numbers, with a cipher that accepts a record only
   under its own epoch and number.
5. Pure operators: the packing of `obfs/sudoku`, the route match of `*/route.go`.

Abstract specifications worth stating beside `Stream`: an atomic admission controller
that `Limiter` implements up to its three locks; a ledger (recorded, billed) that
`Traffic` implements.

## 3. Modules and how they correspond to the code

Names follow the source where TLA+ allows it. A definition marked *Mutant* is a
plausible bug used to show that a property depends on the code; no specification
uses it.

### UserLists
`compareUserList` (`node/user.go`) and the records the limiter keeps. A user list is a
function from credential (`Tags`, the `tag|uuid` keys) to `NoUser` or a record with
panel id and device limit; `PanelLists` are the lists in which no id occurs twice.
`Added`, `Deleted` and `Modified` are the three results of the comparison: an id that
changes makes a credential both deleted and added.

### Limiter
One step per critical section. `CheckLimit` reads the record under `userMu`,
`CheckLimitAlive` the count under `aliveMu`, `TrackConnection` takes the slot under
`onlineMu`. `UpdateUser`, `UpdateAlive`, `UpdateOnline` are the three parts of
`UpdateUser`. Addresses are normalised by the function `trim`
(`TrimPrefix(ip, "::ffff:")`); the instance has a mapped and a plain form of one
address. All kernels call `CheckLimit` with device tracking on. Speed buckets
(token buckets of an external library) are left out. `LimiterSpec` lets any goroutine
call anything with any argument of the right shape; the modules that extend it
restrict the callers.

### RuntimeServices
`core/shared/runtime.go` over the limiter, with the `syncUsers` of the monitor task.
`OpenSession`, `OpenSessionCheck`, `Register` are the parts of `openSession` (user
check under `mu`, `CheckLimit` without it, second check and registration under `mu`).
`Unregister` is the body of `releaseOnce`, reached from the kernel (`Release`) and
from `closeSessions` (`CloseTaken`). `SyncUsers` changes users, index and registry in
one step, as `mu` is held; the limiter follows after the taken sessions are closed.

### OnlineReport
The online half of `reportUserTrafficTask` and the alive refresh of the monitor, with
a panel (external) that replaces the addresses of the users named in a report.
Requests are accepted, refused, or accepted with the response lost.

### Traffic
Counters, `Traffic`, `CommitTraffic`, the traffic half of the report task, the final
flush and the replacement of the runtime (`Replace`). `TrafficRead` is `Traffic` for all
users at once (it holds `mu`); bytes are recorded between any two steps. A push is
accepted, refused, or accepted with the response lost. `LateRecords` makes a
released session record once more, which `accountedConn` does when it waits in the
rate limiter. `recorded`, `doubtful` (bytes accepted in a push whose response was lost)
and `replaced` are history variables; `billed` is the panel.

### Supervisor
`cmd/server.go` with the parts of node, controller, core registry, watcher and monitor
it drives. `pc` is the program counter of the supervisor goroutine; `next` walks the
controller list; `runtimes`, `limiters`, `port` are what a start leaves behind.
`Snapshot` copies what the active controllers hold, `NewFromSnapshot` builds a runtime
from such a copy without asking the panel, and a candidate is built from what the panel
answers (`Fetched`).
Abstractions: the controllers of a runtime share one panel answer and one monitor;
a file names at least one node; the user list is a version number; the back-off delays
are time and left out; a stop that fails leaves its port `"stuck"` until the
operating system frees it (`MaxFaults` such faults).

### UserSync
How a user list gets from the panel into a kernel: `GetUserList` with its ETag,
`syncUsers`, `V2Core.SyncUsers`, and the transaction that the juicity, naive and sudoku
adapters share (`core/*/runtime.go`; sudoku only lacks the early return for an empty
difference, which `syncUsers` never passes on). `BeginSync` is the part up to the first
call that waits: patch, snapshot, and the branch on users and instance; `SyncClosed`,
`SyncStarted` and their failures are the returns of `serverInstance.Close` and
`startServer`. `mu` is the adapter's mutex; `HoldsCore` is the read lock that
`V2Core.SyncUsers` keeps and `DelNode` waits for. `Controller.Close` cancels the tasks,
waits at most five seconds, and calls Stop twice (`StopNode`, `DelNode`); a Stop is a
goroutine (`stopper`) the caller stops waiting for after ten seconds. An ETag is the list
it belongs to. `dropped` and `closeError` are history variables. Sessions are in
RuntimeServices, the limiter's own steps in Limiter.

### Mux
The two sessions of `multiplex/session.go`. `TakeStreams`, `CloseTaken`,
`FinishClose` are the steps of `closeWithError`; `OpenStream`, `OpenRegister`,
`OpenSend` those of `OpenStream`; `writer` is whoever holds a stream's `writeMu`.
A chunk is one `Write` payload of one frame; `readBuf` and `queue` are one sequence;
`queuedBytes` stays separate so that its accounting can be checked. Removing a stream
from the map right after the flag that ends it is one step with it in the read loop
and in `CloseRead`, since no frame is treated differently in between; in `Close` and
`CloseWrite`, where a frame is sent first, it is a step of its own. Left out: keepalive
frames (the peer drops them) and the answers to a peer that breaks the protocol.

A stream keeps the error it was closed with (`err`), a session its own (`closeErr`): `"EOF"` when the connection ended
cleanly between two frames, since `io.ReadFull` then returns `io.EOF` and `closeWithError`
hands it to every stream; `"other"` for a local close, a reset or a broken connection.
`Read` returns it after what is buffered (`AtEOF`).

The refinement is `MuxIsStream`: for each side and stream `Direction(x, i)` instantiates
`Stream` with the chunks sent by one side and read by the other, and with `cut` once the
reader's session has ended with `io.EOF`.

### Stream
What a half-closable stream promises, whatever carries it: chunks in order, none twice,
none skipped, and an end that is only reported once the writer has closed and everything
has been read, or once the carrier was `cut` in a way its reader cannot tell from an end.
It may stop delivering at any time. The tunnel never sets `cut`.

### Tunnel
One tunnel session of the stream and poll modes from both ends. `cl` is the client
connection with its push and pull loops, `sess` the session of the server, `up` and `dn` the
goroutines of its requests, `app` the proxy behind the half pipe, `net` what is in
transit. A batch is numbered, retried until it is answered, and applied once; the
goroutine of a request whose connection was reset goes on beside the one of the retry
(`Requests` has one more member than there are faults). A pull takes the lease of the
session from its predecessor and waits for it to let go. Half-closes are a FIN batch
upwards and the end of a response downwards. `UplinkIsStream` and `DownlinkIsStream`
instantiate `Stream` for the two directions.

`PushReset` and `PullReset` break a connection, `PushBodyCut` ends one in the middle of a
request body, `PullWriteFails` is a write to a response that fails after nothing or a
part of its chunk has gone out (a part that arrives counts as the chunk), `PushWriteFails`
includes the write deadline towards the proxy, and `PullWrite` may write into a connection
whose client has gone. Four of these outcomes the code has no defence against; `net.harm`
remembers that they happened: `"stall"` (a proxy that did not read for thirty seconds),
`"body"` (a body that ended early), `"lost"` (a chunk acknowledged and not received),
`"repeat"` (a chunk received although its write failed). The two refinements hold up to the first
harm of their direction; `DownlinkInOrder` is the claim without this exception, and fails
(section 6).

### SudokuServer
The listener. A connection is a hello of its own, an HTTP request that authorizes a
tunnel session, a request of such a session, or noise; `conn[c].pc` walks its handler.
`slots`, `bySource` and `blocked` are the budget and the cooldowns, `probe` the slot for
the expensive search, `nonces` the replay filter. When there are more users than
`eagerSudokuTableUserLimit` a user's tables come in two stages, the panel's table and the
compatibility tables; the search tries everybody's first stage before any second one
(`PrimaryFirst`), or both of a user at a time for a raw hello that passed through the
tunnel (`UserByUser`). `TableOf` says which table a client has chosen, `"twin"`
being one that the panel's table decodes although it names another. `SyncUsers` makes a new
snapshot with a new tunnel and shuts the old one; `serverInstance.Close` closes what it
finds, and whoever arrives later must notice. `Close` waits for the accept loop until its
timeout; then it goes on without it and does not wait for the handlers (`"late"`,
`"stuck"`). The goroutines that `handleMux` starts for the streams of a multiplexed
connection are not modelled. Table stages, nonces and cooldowns decide which way a handler
takes; no property is about them. Behaviours are shorter than the minute
for which a nonce is remembered, so that nonces do not expire.

### Mieru
`users`, `credentials` (users and tombstones), `services` and `server` are the adapter's
fields; every mux has a table of its own. `SyncUsers` is a hot update while a server
runs, no password changes and the tombstones fit, a restart otherwise, and after a failed restart a second
one with the previous users; `sync.pc` names the call of `restartLocked` it waits in. A
connection is accepted by a mux for an id and a password and known to the adapter by its
id only; it is looked up, opened at the runtime services and relayed in two loops. `Stop`
is a goroutine whose caller gives up after a while. `Controller.Close` calls it twice, by
`StopNode` and by `DelNode`, which first takes the runtime out of the dispatcher;
`stop.call` is how far it is, `stop.waiting` how many Stops wait for the adapter's lock. A
`SyncUsers` may run, and start a server, until `DelNode`. The mux is a library and
marked external.

## 4. Runs

| Run | Checks | Shows |
|---|---|---|
| `runtime` | `TypeOK SlotsBacked PendingIsOffline OnlineHasUid OpenIsCurrentOrTaken IndexMatchesUsers TakenIsClosed` | the second user check of `openSession` closes the race with `SyncUsers`; the index stays exact when ids move between credentials; the limiter under it leaks no slot and erases no reconnect; closing ends |
| `runtime_slots` (violation) | `SlotKeptWhileOpen` | see finding 1 |
| `online_report` | `SlotsBacked DeviceLimitRespected ReportedIsAtPanel OfflineIsSettled` | two connections share slots without a leak and stay within the limit read by the admitting check; the reconnect grace only concerns addresses the panel holds; a pending offline report is settled in the end |
| `online_withdraw` (violation) | `PanelIsToldOffline` | see finding 2 |
| `traffic` | `NothingLost NeverOverbilled FinalBytesBilled` | a runtime loses no byte before it is replaced; no byte is billed twice but by a push whose response was lost; removed users' bytes are billed whatever the minimum, unless a reload comes first |
| `supervisor` | `NoResidue RunningIsComplete LastKnownGood Recovers PanelChangeApplied` | failed starts roll back, restore uses what was active, the node comes up again, changes are applied |
| `mux` | `QueueAccounted CloseReachesStreams FinishedIsForgotten MuxIsStream WriteEnds` | a stream of the multiplexer implements `Stream`; bounded queues, no dead streams, no writer blocked by a peer that does not read |
| `usersync` | `ViewsAgree ServerHasUsers NoOrphanServer ServedOrReload PanelListApplied CloseEndsServer` | failed synchronisations roll back everywhere, closing leaves no server whoever is late, lists are applied |
| `tunnel` | `UplinkIsStream DownlinkIsStream CloseWriteEnds DownlinkDelivers` | both directions implement `Stream` over retried, reset and overlapping requests, up to the first harm; a half-close ends, what the proxy wrote arrives |
| `tunnel_reset` (violation) | `DownlinkInOrder` | see finding 3 |
| `sudoku` | `BudgetExact ShutTunnelIsEmpty CloseLeavesNone` | no path of a handler leaks or doubles a handshake slot; a replaced tunnel keeps no session; closing leaves no handler going, but the one of a connection accepted after the accept timeout |
| `mieru` | `ServerMatchesUsers RevokedNotServed StopTakesEffect` | hot updates, restarts and recoveries leave adapter and mux in agreement; the mux in use serves no revoked password; after `StopNode` every server ends for good, whichever Stop was given up |

The type invariants of the other modules hold on the same instances; `RuntimeTypeOK`,
`TrafficTypeOK`, `UserSyncTypeOK`, `MuxTypeOK`, `SudokuTypeOK` and `MieruTypeOK` are also
proved, `ReportTypeOK`, `SupTypeOK` and `TunnelTypeOK` are not. Add them to a configuration
when a module is changed.

Bounds, and why they suffice for the questions asked:

* `runtime`: two credentials and two ids, so ids can move and swap; one session, because
  sessions meet only through the limiter; one address in its plain and its IPv4-mapped
  spelling, limits 0 (none) and 1, and arbitrary acknowledgements of reports.
  `runtime_slots` has two sessions. The proofs remove these bounds for the safety properties,
  and prove the limiter's for any callers.
* `online_report`: two addresses and two connections, so that a snapshot differs from
  the present, a slot can be shared and a second device can be refused.
* `traffic`: one user, two bytes per direction, a report minimum of 1 and no device
  minimum, late records, any number of replacements. The proofs remove the bounds for
  `NothingLost` and `NeverOverbilled`.
* `supervisor`: three config files (two nodes, one node, a node listed twice) and
  two node infos with three ports; one of the candidates is rejected by validation. One
  edit, two panel changes, one user change, one stop fault.
  The safety invariants were also checked with two edits, two faults and slow starts
  (3.9 million states), and are proved for any files, infos, ports and numbers of changes
  and faults.
* `mux`: one stream, two chunks, a queue of one, one frame on the wire: the writer can
  outrun the reader and the queue can overflow. Two streams share only the connection,
  whose blocking one stream already meets. The safety properties were also checked with three
  chunks and a queue of two, and the proofs remove all of these bounds for them, the
  refinement included.
* `usersync`: seven lists over three credentials and two ids (nobody, one user, a changed
  limit, two users, their ids exchanged, an id taken over, a list without a snapshot) and
  two changes: enough for a list to come back after a failure. The proofs remove the
  bounds for the four invariants.
* `tunnel`: two chunks in all, both up, both down or one each way, batches of two, queues of
  one, one chunk in transit, one fault, two attempts for a control request: a batch can
  fill, a retry can overlap its first copy, a pull can be taken over, and two chunks have
  an order in either direction. `tunnel_reset` has the downlink only.
* `sudoku`: two users of which one is there from the start, one source, one hello in a
  compatibility table, staged tables, three connections, two slots of which a source
  gets one, one tunnel session, one synchronisation: each limit is reached, a hello is
  repeated, and handshake, replacement and `Close` overlap. The proofs remove these bounds.
* `mieru`: three ids, two passwords, five lists, one tombstone, four synchronisations, one
  connection: a tombstone is used, exceeded and revived. The proofs remove these bounds for the two
  invariants.

Deadlock is checked except where nothing follows the end: in `mux` (two closed
sessions), `usersync` (the end of `Controller.Close`), the `tunnel` runs (both directions
done), `sudoku` (closed listener, connections used up) and `mieru` (stopped, calls used up).

## 5. Fairness

* Goroutines of the program that do not wait for a peer are weakly fair: the steps of
  `openSession`, `closeSessions`, the tasks, the supervisor, timers, the watcher, the
  mux read loops and `closeWithError`. The Go scheduler starves none of them.
* `ReportAccepted`, `RefreshAlive`, `PushAccepted` and `Prepare` are strongly fair: the
  code repeats each request for ever (task interval, retry timer), and a panel that is
  asked again and again answers now and then. Without this no report can be promised.
* `PortReleased` is weakly fair: a listener whose stop timed out is closed in the end.
  `MaxFaults` bounds such faults, as endlessly failing stops would defeat any restore.
* `UserSync`: the request for the list is strongly fair as above; whoever waits for the
  adapter's mutex or the dispatcher's lock gets it in the end (Go's mutexes are fair to
  waiters); nothing makes `Controller.Close` begin.
* Mux writers are strongly fair: they queue for the session's `writeMu`, which is a fair
  mutex. The application is not fair at all: it may never read, accept or close.
* `Traffic`: report task, final flush, replacement and late records are weakly fair, the
  accepted push strongly, as above.
* `Tunnel`: the client's two loops, its reader and each request of the server are weakly
  fair. Resets are bounded by `MaxFaults`; the client goes on retrying.
* `Mieru`: the steps of `SyncUsers`, of `Stop`, of `DelNode` and of each connection's
  handler are weakly fair: a writer that waits for an `RWMutex` gets it,
  `Controller.Close` calls `DelNode` whatever `StopNode` returned, and the number of calls
  of `SyncUsers` is bounded.
* `SudokuServer` assumes none: its properties are safety.

## 6. Findings

1. **A slot disappears under an open session** (`runtime_slots`). When the panel gives a
   credential a new id, `SyncUsers` makes the new id current before
   `Limiter.UpdateUser` deletes the old record's online entry (`limiter.go:142`), which
   is keyed by credential. A session opened in between is no longer counted, although
   "removed only after the final connection closes" (`limiter.go:254`).
2. **An offline user stays online at the panel** (`online_withdraw`). If the last
   connection closes while the report naming it is in flight, nothing was reported yet,
   so nothing becomes pending; `MarkOnlineDeviceReported` then skips the user as it is
   not online any more (`limiter.go:341`).
3. **A downlink chunk is lost or repeated by a reset response** (`tunnel_reset`). A chunk is
   acknowledged once it is flushed into a response (`tunnel_server.go:1301`), also into one
   whose client has gone, and kept whole when a write fails half way (`1290`). The session goes
   on, since "the backing tunnel is still healthy" (`tunnel_server.go:1291`), and the client
   reads a gap, or bytes twice.

Further disagreements, which a constant or a premise keeps out of the passing runs:

* **Bytes lost after a reload.** The process-wide baseline is compared with counters
  that start at 0 again (`runtime.go:456`). If they pass the old baseline between two
  reports, the bytes below it are never billed: `NothingLost` without its premise
  `replaced` is violated.
* **A node change dropped.** If starting later controllers takes longer than an earlier
  one's `PullInterval`, its reload request is drained when the reload completes
  (`server.go:146`), and its client has stored the new ETag. `SlowStart = TRUE` violates
  `PanelChangeApplied`.
* **An uploaded batch counts although only a part of it arrived.** The body of a push is read
  through an `io.LimitReader` (`tunnel_server.go:653`), so one whose connection ended early is
  no error; what arrived is written and the batch is counted (`tunnel_server.go:1053`). The
  complete retry is then the "acknowledged no-op" of a request that "reached the server"
  (`tunnel_server.go:1038`), and the rest never reaches the proxy. `UplinkIsStream` without
  its exception for `"body"` is violated.
* **Tunnel bytes applied twice.** When the proxy does not read for thirty seconds the write
  of a batch fails with part of it delivered (`tunnel_server.go:1046`); the session's lock
  is released before the session is closed, and a retry of the batch can slip in between.
  `UplinkIsStream` without its exception for `"stall"` is violated.
* **Cooldown of an established client.** A source in cooldown is refused before its request
  is read (`server.go:480`), requests of its live tunnel sessions included, although the
  cooldown is meant to work "without delaying an established client" (`server.go:54`).
* **A nonce consumed too early.** A hello is remembered before the table it names is
  resolved (`handshake.go:493`), so that with staged tables a `"twin"` hello is a
  replay for the stage that could serve it. Likewise the client repeats an authorization
  because GET is "idempotent" (`tunnel_dial.go:322`), but the repetition carries
  the same hello.

Observations without a promise in the repository to compare with:

* Bytes that a released session records after `Traffic` dropped its removed user are not
  reported, nor are those of a removed user whose runtime is replaced before they were
  (the two exceptions of `FinalBytesBilled`).
* When the connection of a multiplexed session ends cleanly between two frames, every
  stream of it ends with `io.EOF` (`session.go:490`), and a relay takes a truncated stream
  for a complete one.
* An older mieru mux whose Stop timed out still authenticates a replaced password, and the
  adapter, which knows connections by id, serves it as today's user of that id.
  `RevokedNotServed` is only about the mux in use.
* The goroutines that the sudoku `handleMux` starts are not counted by `handlers`: one that
  waits in a read from its target outlives `Close` (`server.go:1026`).
* `CloseWriteEnds` ends with the session: against a server that has none, and passes
  rejected requests through, the client repeats its batch until its connection is closed.
* A mux stream registered between the two halves of `closeWithError` is closed by nobody.
* A user list whose synchronisation failed is not tried again before the panel changes it,
  as its ETag is stored; neither is an empty list answered as JSON (`dropped` in
  `PanelListApplied`). When `Close` of a server reports an error other than the timeout,
  the adapter keeps the users without a server, and no reload follows (`closeError` in
  `ServedOrReload`).
* The sudoku `handleTCP` returns when the first direction of a relay ends.
* A config edit inside the watcher's ten-second window may wait for the next edit.

## 7. Proofs

Each proof module extends the component it is about. A theorem `Spec => []Inv` follows from
an inductive invariant in three facts: it holds initially, each action keeps it (one step
of the proof per action), and it implies `Inv`. Every inductive invariant was checked by TLC
on the run's instance before it was proved. All proofs are about the safety part `Spec`,
without fairness, and all numbers (users, sessions, chunks, streams, queue sizes, faults) are
arbitrary naturals or arbitrary sets.

Assumptions on the constants, besides what their names say: the markers for "nothing"
(`NoUser`, `NoTag`, `NoPending`, `None`, ...) are none of the values they stand beside
(`UserListAssumption`, `RuntimeAssumption`, `PendingAssumption`, `NoneAssumption`,
`KeptAssumption`), `"stuck"` is no node's tag (`SupervisorAssumption`), connections,
addresses and mieru ids are finite sets, and `trim` maps addresses to addresses. TLC
evaluates all of them in the runs.

`LimiterProofs`:

* `TypeCorrect`: `TypeOK` is inductive on its own.
* `OnlineHasUidCorrect`, `PendingIsOfflineCorrect`: proved together from
  `OnlineInv == TypeOK /\ OnlineHasUid /\ PendingIsOffline`. Neither is inductive alone:
  that a release may leave a pending report needs the uid of the online entry, and that
  an acknowledgement clears only offline users needs the entry to be absent.
* `SlotsBackedCorrect`: a slot count never exceeds the connections that hold it, by a
  cardinality argument over `Holders` for each step that takes or returns a slot, and a
  frame lemma for all others.
* `DeviceLimitRespectedCorrect`, an action property: only `TrackConnection` makes an address
  active, and its grace for a reconnect applies when a report is pending, which by
  `PendingIsOffline` means that no address is active.

`RuntimeProofs` (over `LimiterProofs`):

* `OpenIsCurrentOrTakenCorrect`, `IndexMatchesUsersCorrect`: from `RegistryInv`, which says
  that `users` and `usersByUUID` are one list, by id and by credential
  (`RegistryIsList`): the list of the synchronisation that the limiter has not heard of, or
  the limiter's own. The lists are needed because the code applies a difference: deleting
  and adding by id gives the new list only if an id has one owner.
* `RuntimeImplementsLimiter`: `Spec => LimiterSpec`. Each step of the composed system is a
  limiter step or leaves the limiter alone, so `RuntimeSlotsBacked`, `RuntimeDeviceLimit`
  and, with `RegistryInv`, `RuntimeTypeCorrect` follow from the limiter's theorems.

`TrafficProofs`:

* `NothingLostCorrect`, `TrafficTypeCorrect`: from `TrafficInv == TrafficTypeOK /\
  (replaced \/ BaselineBelow) /\ NothingLost`. `BaselineBelow` (baseline <= pending
  snapshot <= counter, and a pending delta is their difference) is what makes
  `trafficDelta` a subtraction; it fails after a reload (section 6).
* `NeverOverbilledCorrect`: from `LedgerInv`, which survives a reload. `Covered` says that
  the next delta, and a pending one together with what was counted since, are covered by
  bytes recorded and not settled; `StillPending` that a report under way is still pending,
  so that the commit settles what was pushed.

`UserSyncProofs`:

* `UserSyncTypeCorrect`: inductive on its own; the others use it.
* `ViewsAgreeCorrect`: `PatchMakesNew` and `LimiterMadeNew` show that the difference
  computed by credential and applied by id turns one panel list into the other (this
  needs that an id has one owner in a list). `ViewsInv` then says which of the four
  copies is ahead at each point of an execution, and that `previous` is the old one.
* `ServerHasUsersCorrect`: `ServerInv` ties the mutex to the program counters and says
  that a server being closed or started is not yet, or no more, the instance.
* `NoOrphanServerCorrect`: `OrphanInv`: after `DelNode` nobody is inside
  `V2Core.SyncUsers` and nobody can enter, so what the second Stop took stays away.
* `ServedOrReloadCorrect`: `ServedInv`: a transaction that closes the server has no users
  left, and one that starts a server found none, so what it falls back to was already
  excused.

`SupervisorProofs`: `NoResidueCorrect`, `RunningIsCompleteCorrect`, `LastKnownGoodCorrect`,
from `SupInv`. `RegistryInv` says that while a runtime starts or rolls back exactly the first
`next - 1` nodes of its list are registered, with distinct tags, which is why a node
listed twice is rolled back completely; `HeldInv` that registration, limiter and port go
together; `SnapshotInv` that the snapshot is of the active file and its users are at least
as new as those served when the reload began.

`SudokuProofs`: `SudokuTypeCorrect`, `BudgetExactCorrect`, `ShutTunnelIsEmptyCorrect`,
`CloseLeavesNoneCorrect`, from `SudokuInv`. `BudgetExact` equates `slots` and `bySource` with
cardinalities of sets of handlers, one lemma per way a handler moves in or out. `TunnelInv`
adds the order of tunnels (every tunnel below the current one is shut, but in the window of a
synchronisation, which `Close` cannot meet), `CutInv` that the handlers running during
`Close` have lost their socket, but for the last accepted connection when the accept loop
outlived its timeout.

`MieruProofs`: `MieruTypeCorrect`, `ServerMatchesUsersCorrect`, `RevokedNotServedCorrect`, from
`MieruInv`. `PhaseInv` says at each call of `restartLocked` whose users the mux serves, and
that the checks made before a hot update still hold when it is done (`HotIsSafe`: no password
changes, tombstones within the limit); `MuxesInv` that muxes are started in order, at most
one per call; `ConnInv` that a mux still has the password with which it accepted a connection,
which is what makes a revocation need a new mux.

`MuxProofs`:

* `StreamIsComplete`, `StreamSpec => []Complete`, from `StreamInv` (types and `Complete`):
  a reader of anything that implements `Stream` sees no gap and no repetition, and no end
  before everything was read, unless the carrier was cut.
* `MuxIsStreamCorrect`, `Spec => MuxIsStream`: the multiplexer implements `Stream` in both
  directions of every stream. `MuxInv` is built in layers:
  `FreshInv` (a side that has not made its stream object knows nothing of the stream),
  `BusyInv` (who holds `writeMu` has the stream), `OpeningInv` and `OpenInv` (the open frame is
  sent once and is ahead of every other frame of its stream), `MapInv` (a stream out of the
  map is finished or being closed), and `OrderInv`. The last relates what the receiver has
  with the frames in transit: data frames are in order and end at what was sent; while the
  receiver takes data they continue where it is, without a gap (`Gapless`), and a close
  frame comes after all of them or after a reset (`CloseIsLast`, `CloseIsReset`). A receiver
  that takes no more, or a connection that lost its tail, needs less, and that is
  what keeps a reset, a full queue and a lost tail from ever looking like an end.
  `BufferAt` carries this over to the buffer and the end the reader is shown. `EndInv` says
  that a stream whose end was shown has an empty buffer and takes nothing more, and that
  only the `io.EOF` of its session, the abstract `cut`, closes a stream with `io.EOF`.
* `QueueAccountedCorrect`, `FinishedIsForgottenCorrect`, `CloseReachesStreamsCorrect`,
  `MuxTypeCorrect`: from the same invariant; `Forgets` in `MapInv` is the promise of a writer
  that a finished stream will leave the map.

Only model-checked: all liveness properties (`TakenIsClosed`, `OfflineIsSettled`,
`FinalBytesBilled`, `Recovers`, `PanelChangeApplied`, `WriteEnds`, `PanelListApplied`,
`CloseEndsServer`, `CloseWriteEnds`, `DownlinkDelivers`, `StopTakesEffect`), as TLAPS has no
fairness reasoning here; and three safety properties without a proof yet:
`ReportedIsAtPanel` and the two refinements of the tunnel.

## 8. Not modelled

Left out because they are data, I/O or libraries without protocol state of their own:
certificates (ACME through a library), the latency probe (a listener that accepts and
closes), routing (a stateless match), token buckets (only the waiting they cause, as late
records), shell scripts, the parsing of panel parameters, HTTP framing and masking, the
byte encodings of the tables.

Left out though they have state:

* the record layer: its epochs and sequence numbers matter under a cipher, and a record
  that does not decrypt is an error of the connection, which `Mux` and `SudokuServer` have;
* the WebSocket mode of the tunnel, which is a plain connection after its upgrade;
* the expiry of nonces, which is time;
* the UDP tables (`handleUoT` of sudoku, the address cache of mieru);
* the request handlers of juicity and naive, which call `RuntimeServices` between two
  library streams, and the juicity underlay pool;
* the execution timeout of a periodic task, which only ends a request; and an overlap of a
  late report with the final flush (`common/task`, after five seconds).

## 9. Running

    tlc -workers 2 -config MCRuntimeServices.cfg MCRuntimeServices
    tlapm LimiterProofs.tla
    tlapm MuxProofs.tla       # the longest: about seven minutes the first time

`PROJECT.json` names module and configuration of each run; every run ends within four
minutes on two cores.
