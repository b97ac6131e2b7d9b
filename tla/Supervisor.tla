----------------------------- MODULE Supervisor -----------------------------
(***************************************************************************)
(* The server process of cmd/server.go: it starts a runtime (one           *)
(* controller per configured node), replaces it when the config file or    *)
(* the panel's node info changes, and falls back on the last-known-good    *)
(* snapshot when the replacement cannot be activated.                      *)
(*                                                                         *)
(* The supervisor is one goroutine, so its control state is pc.  Beside it *)
(* run the periodic monitors of the active controllers (node/task.go), the *)
(* file watcher (conf/watch.go), the retry timers and the panel.           *)
(*                                                                         *)
(* Files are the contents the config file can have, Infos the node infos   *)
(* the panel can answer.  A file names its nodes in order (NodesOf), an    *)
(* info gives every node its port (PortOf).  Invalid holds the candidates  *)
(* that ValidateRuntime rejects, Taken the ports held by another program:  *)
(* validation starts no listener, so it cannot see those.                  *)
(***************************************************************************)
EXTENDS Naturals, Sequences, FiniteSets, SequencesExt

CONSTANTS Files, Infos, Tags, Ports, NodesOf, PortOf, Invalid, Taken,
          SlowStart,   \* may starting a runtime outlast PullInterval?
          MaxEdits, MaxChanges, MaxUsers, MaxTimers, MaxFaults,   \* bounds
          None         \* a nil runtime or snapshot, or no owner of a port

ASSUME SupervisorAssumption ==
    /\ NodesOf \in [Files -> Seq(Tags) \ {<<>>}]
    /\ PortOf \in [Infos -> [Tags -> Ports]]
    /\ Invalid \subseteq Files \X Infos
    /\ Taken \subseteq Ports
    /\ SlowStart \in BOOLEAN
    /\ {MaxEdits, MaxChanges, MaxUsers, MaxTimers, MaxFaults} \subseteq Nat
    /\ None \notin Files \cup Infos \cup Tags /\ "stuck" \notin Tags

VARIABLES
    file, info, users,  \* the config file; the panel's node info and user list
    edits, changes,     \* how often they changed (bounded)
    window, sleeper,    \* watcher: debounce window open, accepted event waiting
    reloadCh, timers,   \* the one-slot channel; scheduled retries
    pc, goal,           \* the supervisor, and which start it is performing
    rt,                 \* the controllers that exist: starting, active, closing
    cand,               \* the prepared candidate
    config, snapshot,   \* serverRuntime.config and .snapshot
    running,            \* serverRuntime.nodes and .core are set
    next,               \* index of the controller to start next
    closeErr, faults,   \* did a Close of closeActive fail? how many did so far
    runtimes, limiters, \* tags in the core's registry and the global limiter map
    port,               \* who has bound a port; "stuck" after a stop timed out
    served              \* ghost: the users active when the reload began

env   == <<file, info, users, edits, changes>>
watch == <<window, sleeper>>
state == <<config, snapshot, running>>
held  == <<runtimes, limiters, port>>
vars  == <<env, watch, reloadCh, timers, pc, goal, rt, cand, state, next,
           closeErr, faults, held, served>>

\* A set of controllers: the file and node info they were made from, their
\* user list, and the node info their panel client saw last (nodeEtag).
Runtime == [file : Files, info : Infos, users : 0..MaxUsers,
            seen : Infos \cup {None}]
Starts  == {"boot", "candidate", "restore"}

Nodes(r)  == NodesOf[r.file]
TagsOf(r) == ToSet(Nodes(r))

\* node.New makes the controllers of a file with the node info the panel
\* answers now; Controller.Prepare adds the users it answers now.
Fetched(r)  == [r EXCEPT !.users = users]
Prepared(f) == Fetched([file |-> f, info |-> info, users |-> 0, seen |-> info])

\* Snapshot keeps copies of the config, the node info and the user list, which
\* the monitor of the running controllers no longer changes; NewFromSnapshot
\* makes controllers of them whose panel clients have seen nothing.
Kept               == [file : Files, info : Infos, users : 0..MaxUsers]
Snapshot(r)        == [file |-> r.file, info |-> r.info, users |-> r.users]
NewFromSnapshot(s) == [file |-> s.file, info |-> s.info, users |-> s.users,
                       seen |-> None]
Valid(r)           == <<r.file, r.info>> \notin Invalid

ASSUME KeptAssumption == None \notin Kept

SupTypeOK ==
    /\ file \in Files /\ info \in Infos /\ users \in 0..MaxUsers
    /\ edits \in 0..MaxEdits /\ changes \in 0..MaxChanges
    /\ {window, sleeper, reloadCh, running, closeErr} \subseteq BOOLEAN
    /\ timers \in 0..MaxTimers
    /\ pc \in {"boot", "bootWait", "start", "rollback", "started", "select",
               "load", "prepare", "close", "closed", "restore", "restoreWait",
               "failed", "exited"}
    /\ goal \in Starts \cup {"exit"}
    /\ rt \in Runtime \cup {None} /\ cand \in Runtime \cup {None}
    /\ config \in Files /\ snapshot \in Kept \cup {None}
    /\ next \in 1..(Cardinality(Tags) + 1)
    /\ runtimes \subseteq Tags /\ limiters \subseteq Tags
    /\ port \in [Ports -> Tags \cup {None, "stuck"}]
    /\ faults \in 0..MaxFaults /\ served \in 0..MaxUsers

Init ==
    /\ file \in Files /\ info \in Infos /\ users = 0
    /\ edits = 0 /\ changes = 0
    /\ window = FALSE /\ sleeper = FALSE
    /\ reloadCh = FALSE /\ timers = 0
    /\ pc = "boot" /\ goal = "boot"
    /\ rt = None /\ cand = None
    /\ config = file /\ snapshot = None /\ running = FALSE
    /\ next = 1 /\ closeErr = FALSE /\ faults = 0
    /\ runtimes = {} /\ limiters = {}
    /\ port = [p \in Ports |-> None]
    /\ served = 0

-----------------------------------------------------------------------------
(* The panel, the config file and the watcher.                             *)

PanelChangesInfo(i) ==
    /\ changes < MaxChanges
    /\ i # info
    /\ info' = i
    /\ changes' = changes + 1
    /\ UNCHANGED <<file, users, edits, watch, reloadCh, timers, pc, goal, rt,
                   cand, state, next, closeErr, held, faults, served>>

PanelChangesUsers ==
    /\ users < MaxUsers
    /\ users' = users + 1
    /\ UNCHANGED <<file, info, edits, changes, watch, reloadCh, timers, pc,
                   goal, rt, cand, state, next, closeErr, held, faults, served>>

\* The watcher runs from the end of a successful boot on.
Watching == snapshot # None

\* An event within ten seconds of the last accepted one is dropped.
Edit(f) ==
    /\ edits < MaxEdits
    /\ f # file
    /\ file' = f
    /\ edits' = edits + 1
    /\ IF Watching /\ ~window
       THEN window' = TRUE /\ sleeper' = TRUE
       ELSE UNCHANGED watch
    /\ UNCHANGED <<info, users, changes, reloadCh, timers, pc, goal, rt, cand,
                   state, next, closeErr, held, faults, served>>

\* Five seconds after the accepted event the watcher signals; a send to the
\* full channel is dropped.
WatcherSignals ==
    /\ sleeper
    /\ sleeper' = FALSE
    /\ reloadCh' = TRUE
    /\ UNCHANGED <<env, window, timers, pc, goal, rt, cand, state, next,
                   closeErr, held, faults, served>>

WindowEnds ==
    /\ window /\ ~sleeper
    /\ window' = FALSE
    /\ UNCHANGED <<env, sleeper, reloadCh, timers, pc, goal, rt, cand, state,
                   next, closeErr, held, faults, served>>

\* The callback of scheduleReload.
TimerFires ==
    /\ timers > 0
    /\ timers' = timers - 1
    /\ reloadCh' = TRUE
    /\ UNCHANGED <<env, watch, pc, goal, rt, cand, state, next, closeErr,
                   held, faults, served>>

\* The listener of a runtime whose Stop timed out goes away at last.
PortReleased(p) ==
    /\ port[p] = "stuck"
    /\ port' = [port EXCEPT ![p] = None]
    /\ UNCHANGED <<env, watch, reloadCh, timers, pc, goal, rt, cand, state,
                   next, closeErr, runtimes, limiters, faults, served>>

-----------------------------------------------------------------------------
(* The monitor task of the active controllers.  Its first run comes a      *)
(* PullInterval after Start, its last one may still be going on while      *)
(* Close waits for the task.                                               *)

MonitorRuns ==
    /\ runtimes # {}
    /\ \/ pc \in {"select", "load", "prepare", "close"}
       \/ SlowStart /\ pc \in {"start", "started", "failed"}

\* New node info: the client remembers it and asks for a reload.
MonitorSignals ==
    /\ MonitorRuns
    /\ info # rt.seen
    /\ rt' = [rt EXCEPT !.seen = info]
    /\ reloadCh' = TRUE
    /\ UNCHANGED <<env, watch, timers, pc, goal, cand, state, next, closeErr,
                   held, faults, served>>

\* The same node info: syncUsers takes over the panel's user list.
MonitorSyncs ==
    /\ MonitorRuns
    /\ info = rt.seen
    /\ rt.users # users
    /\ rt' = [rt EXCEPT !.users = users]
    /\ UNCHANGED <<env, watch, reloadCh, timers, pc, goal, cand, state, next,
                   closeErr, held, faults, served>>

-----------------------------------------------------------------------------
(* Starting and closing controllers.                                       *)

\* startPreparedRuntime: a new core, then the controllers one by one.
Activate(r, g) ==
    /\ rt' = r
    /\ goal' = g
    /\ next' = 1
    /\ runtimes' = {}
    /\ pc' = "start"
    /\ UNCHANGED <<limiters, port>>

Tag     == Nodes(rt)[next]
TagPort == PortOf[rt.info][Tag]
CanBind == Valid(rt) /\ port[TagPort] = None /\ TagPort \notin Taken

AddLimiter(t)    == limiters' = limiters \cup {t}
DeleteLimiter(t) == limiters' = limiters \ {t}

\* Controller.Start: AddNode, AddLimiter, AddUsers (which binds the port).
StartController ==
    /\ pc = "start"
    /\ next <= Len(Nodes(rt))
    /\ Tag \notin runtimes
    /\ CanBind
    /\ runtimes' = runtimes \cup {Tag}
    /\ AddLimiter(Tag)
    /\ port' = [port EXCEPT ![TagPort] = Tag]
    /\ next' = next + 1
    /\ UNCHANGED <<env, watch, reloadCh, timers, pc, goal, rt, cand, state,
                   closeErr, faults, served>>

\* AddNode refuses a tag that is registered already.
AddNodeFails ==
    /\ pc = "start"
    /\ next <= Len(Nodes(rt))
    /\ Tag \in runtimes
    /\ pc' = "rollback"
    /\ UNCHANGED <<env, watch, reloadCh, timers, goal, rt, cand, state, next,
                   closeErr, held, faults, served>>

\* Mutant: the limiter of a node that failed to start stays.
AddUsersFailsKeepLimiter ==
    /\ pc = "start"
    /\ next <= Len(Nodes(rt))
    /\ Tag \notin runtimes
    /\ ~CanBind
    /\ AddLimiter(Tag)
    /\ pc' = "rollback"
    /\ UNCHANGED <<env, watch, reloadCh, timers, goal, rt, cand, state, next,
                   closeErr, runtimes, port, faults, served>>

\* AddUsers cannot bind: the limiter and the registry entry are taken back.
AddUsersFails ==
    /\ pc = "start"
    /\ next <= Len(Nodes(rt))
    /\ Tag \notin runtimes
    /\ ~CanBind
    /\ DeleteLimiter(Tag)
    /\ pc' = "rollback"
    /\ UNCHANGED <<env, watch, reloadCh, timers, goal, rt, cand, state, next,
                   closeErr, runtimes, port, faults, served>>

\* Controller.Close: the protocol is stopped, which frees the port or times
\* out, and the node leaves the registry and the limiter map either way.
\* StopNode only logs its error; a second Stop (DelNode) or the latency probe
\* may return one or not, whatever became of the port.
CloseController(t) ==
    /\ \E left \in {None, "stuck"}, err \in BOOLEAN :
          /\ port' = [p \in Ports |-> IF port[p] = t THEN left ELSE port[p]]
          /\ closeErr' = (closeErr \/ err)
          /\ IF left = "stuck" \/ err
             THEN faults < MaxFaults /\ faults' = faults + 1
             ELSE UNCHANGED faults
    /\ runtimes' = runtimes \ {t}
    /\ DeleteLimiter(t)

\* Node.Start closes the controllers before the failed one, last one first.
Rollback ==
    /\ pc = "rollback"
    /\ next > 1
    /\ CloseController(Nodes(rt)[next - 1])
    /\ next' = next - 1
    /\ UNCHANGED <<env, watch, reloadCh, timers, pc, goal, rt, cand, state,
                   served>>

StartFailed(g) == pc = "rollback" /\ next = 1 /\ goal = g
StartEnded(g)  == pc = "start" /\ next > Len(Nodes(rt)) /\ goal = g

-----------------------------------------------------------------------------
(* startRuntimeWithRetry and the initial snapshot.                         *)

BootPrepared ==
    /\ pc = "boot"
    /\ Activate(Prepared(config), "boot")
    /\ UNCHANGED <<env, watch, reloadCh, timers, cand, state, closeErr, faults, served>>

\* The panel is unreachable, its answer is unusable, or a start failed.
BootFails ==
    /\ \/ pc = "boot"
       \/ StartFailed("boot")
    /\ pc' = "bootWait"
    /\ rt' = None
    /\ UNCHANGED <<env, watch, reloadCh, timers, goal, cand, state, next,
                   closeErr, held, faults, served>>

BootRetries ==
    /\ pc = "bootWait"
    /\ pc' = "boot"
    /\ UNCHANGED <<env, watch, reloadCh, timers, goal, rt, cand, state, next,
                   closeErr, held, faults, served>>

BootDone ==
    /\ StartEnded("boot")
    /\ running' = TRUE
    /\ snapshot' = Snapshot(rt)
    /\ pc' = "select"
    /\ UNCHANGED <<env, watch, reloadCh, timers, goal, rt, cand, config, next,
                   closeErr, held, faults, served>>

-----------------------------------------------------------------------------
(* The main loop and reload.                                               *)

ReloadBegins ==
    /\ pc = "select"
    /\ reloadCh
    /\ reloadCh' = FALSE
    /\ served' = rt.users
    /\ pc' = "load"
    /\ UNCHANGED <<env, watch, timers, goal, rt, cand, state, next, closeErr,
                   faults, held>>

\* LoadFromPath; the panel is asked in the next step.
Load ==
    /\ pc = "load"
    /\ cand' = Prepared(file)
    /\ pc' = "prepare"
    /\ UNCHANGED <<env, watch, reloadCh, timers, goal, rt, state, next,
                   closeErr, held, faults, served>>

\* The candidate cannot be prepared or validated: nothing has been touched.
PrepareFails ==
    /\ pc = "prepare"
    /\ cand' = None
    /\ pc' = "failed"
    /\ UNCHANGED <<env, watch, reloadCh, timers, goal, rt, state, next,
                   closeErr, held, faults, served>>

\* Mutant: the snapshot of the last reload is kept.
PrepareKeepSnapshot ==
    /\ pc = "prepare"
    /\ Valid(Prepared(cand.file))
    /\ cand' = Prepared(cand.file)
    /\ goal' = "candidate"
    /\ closeErr' = FALSE
    /\ pc' = "close"
    /\ UNCHANGED <<env, watch, reloadCh, timers, rt, state, next, held, faults, served>>

\* The panel answered and the candidate is valid: the active runtime is
\* snapshotted and its replacement begins.
Prepare ==
    /\ pc = "prepare"
    /\ Valid(Prepared(cand.file))
    /\ cand' = Prepared(cand.file)
    /\ snapshot' = Snapshot(rt)
    /\ goal' = "candidate"
    /\ closeErr' = FALSE
    /\ pc' = "close"
    /\ UNCHANGED <<env, watch, reloadCh, timers, rt, config, running, next,
                   held, faults, served>>

\* Node.Close runs the Close of every controller in a goroutine of its own.
CloseOne(t) ==
    /\ pc = "close"
    /\ t \in runtimes
    /\ CloseController(t)
    /\ UNCHANGED <<env, watch, reloadCh, timers, pc, goal, rt, cand, state,
                   next, served>>

\* The rest of closeActive, and what reload does with its result.
ActiveClosed ==
    /\ pc = "close"
    /\ runtimes = {}
    /\ running' = FALSE
    /\ rt' = None
    /\ pc' = IF goal = "exit" THEN "exited"
             ELSE IF closeErr THEN "restore" ELSE "closed"
    /\ UNCHANGED <<env, watch, reloadCh, timers, goal, cand, config, snapshot,
                   next, closeErr, held, faults, served>>

ActivateCandidate ==
    /\ pc = "closed"
    /\ Activate(cand, "candidate")
    /\ UNCHANGED <<env, watch, reloadCh, timers, cand, state, closeErr, faults, served>>

CandidateFails ==
    /\ StartFailed("candidate")
    /\ rt' = None
    /\ pc' = "restore"
    /\ UNCHANGED <<env, watch, reloadCh, timers, goal, cand, state, next,
                   closeErr, held, faults, served>>

\* Mutant: the config of the replaced runtime is kept.
CandidateDoneKeepConfig ==
    /\ StartEnded("candidate")
    /\ running' = TRUE
    /\ snapshot' = Snapshot(cand)
    /\ cand' = None
    /\ pc' = "started"
    /\ UNCHANGED <<env, watch, reloadCh, timers, goal, rt, config, next,
                   closeErr, held, faults, served>>

\* The candidate is now the active runtime.
CandidateDone ==
    /\ StartEnded("candidate")
    /\ running' = TRUE
    /\ config' = cand.file
    /\ snapshot' = Snapshot(cand)
    /\ cand' = None
    /\ pc' = "started"
    /\ UNCHANGED <<env, watch, reloadCh, timers, goal, rt, next, closeErr,
                   held, faults, served>>

drainReloadSignals == reloadCh' = FALSE

\* After a successful reload.
ReloadDone ==
    /\ pc = "started"
    /\ drainReloadSignals
    /\ pc' = "select"
    /\ UNCHANGED <<env, watch, timers, goal, rt, cand, state, next, closeErr,
                   held, faults, served>>

-----------------------------------------------------------------------------
(* restore and restoreRuntimeWithRetry.                                    *)

\* NewFromSnapshot needs no panel.
Restore ==
    /\ pc = "restore"
    /\ Activate(NewFromSnapshot(snapshot), "restore")
    /\ cand' = None
    /\ UNCHANGED <<env, watch, reloadCh, timers, state, closeErr, faults, served>>

RestoreFails ==
    /\ StartFailed("restore")
    /\ rt' = None
    /\ pc' = "restoreWait"
    /\ UNCHANGED <<env, watch, reloadCh, timers, goal, cand, state, next,
                   closeErr, held, faults, served>>

\* Mutant: restore is tried again only when a reload is requested.
RestoreOnSignal ==
    /\ pc = "restoreWait"
    /\ reloadCh
    /\ pc' = "restore"
    /\ UNCHANGED <<env, watch, reloadCh, timers, goal, rt, cand, state, next,
                   closeErr, held, faults, served>>

\* restoreRuntimeWithRetry, ten seconds later.
RestoreRetries ==
    /\ pc = "restoreWait"
    /\ pc' = "restore"
    /\ UNCHANGED <<env, watch, reloadCh, timers, goal, rt, cand, state, next,
                   closeErr, held, faults, served>>

RestoreDone ==
    /\ StartEnded("restore")
    /\ running' = TRUE
    /\ pc' = "failed"
    /\ UNCHANGED <<env, watch, reloadCh, timers, goal, rt, cand, config,
                   snapshot, next, closeErr, held, faults, served>>

\* Mutant: no retry is scheduled.
ReloadGivesUp ==
    /\ pc = "failed"
    /\ drainReloadSignals
    /\ pc' = "select"
    /\ UNCHANGED <<env, watch, timers, goal, rt, cand, state, next, closeErr,
                   held, faults, served>>

\* A reload failed and a runtime is up: pending signals are drained and a
\* retry is scheduled.
ReloadFailed ==
    /\ pc = "failed"
    /\ drainReloadSignals
    /\ timers' = IF timers < MaxTimers THEN timers + 1 ELSE timers
    /\ pc' = "select"
    /\ UNCHANGED <<env, watch, goal, rt, cand, state, next, closeErr, held,
                   faults, served>>

-----------------------------------------------------------------------------
(* SIGINT and SIGTERM.                                                     *)

ExitWaiting ==
    /\ pc \in {"bootWait", "restoreWait"}
    /\ pc' = "exited"
    /\ UNCHANGED <<env, watch, reloadCh, timers, goal, rt, cand, state, next,
                   closeErr, held, faults, served>>

ExitRunning ==
    /\ pc = "select"
    /\ goal' = "exit"
    /\ closeErr' = FALSE
    /\ pc' = "close"
    /\ UNCHANGED <<env, watch, reloadCh, timers, rt, cand, state, next, held,
                   faults, served>>

Exited ==
    /\ pc = "exited"
    /\ UNCHANGED vars

-----------------------------------------------------------------------------
Steps ==
    \/ StartController \/ AddNodeFails \/ AddUsersFails \/ Rollback
    \/ BootFails \/ BootRetries \/ BootDone
    \/ ReloadBegins \/ Load \/ PrepareFails
    \/ (\E t \in Tags : CloseOne(t)) \/ ActiveClosed
    \/ ActivateCandidate \/ CandidateFails \/ CandidateDone \/ ReloadDone
    \/ Restore \/ RestoreFails \/ RestoreRetries \/ RestoreDone
    \/ ReloadFailed

Next ==
    \/ Steps \/ BootPrepared \/ Prepare
    \/ \E i \in Infos : PanelChangesInfo(i)
    \/ PanelChangesUsers
    \/ \E f \in Files : Edit(f)
    \/ WatcherSignals \/ WindowEnds \/ TimerFires
    \/ \E p \in Ports : PortReleased(p)
    \/ MonitorSignals \/ MonitorSyncs
    \/ ExitWaiting \/ ExitRunning \/ Exited

Spec == Init /\ [][Next]_vars

\* The supervisor, the tasks and the timers are goroutines that are never
\* starved; a panel that is asked again and again answers again and again
\* (strong fairness of Prepare); the listener of a timed-out stop closes.
Fairness ==
    /\ WF_vars(Steps)
    /\ SF_vars(Prepare)
    /\ WF_vars(WatcherSignals) /\ WF_vars(WindowEnds) /\ WF_vars(TimerFires)
    /\ WF_vars(MonitorSignals)
    /\ \A p \in Ports : WF_vars(PortReleased(p))

FairSpec == Spec /\ Fairness

-----------------------------------------------------------------------------
(* Properties.                                                             *)

Bound == {p \in Ports : port[p] \in Tags}

\* While the process waits for a retry, and when it has exited, no node is
\* registered, no limiter is left in the global map and no port is still
\* bound by a controller: the failed start was rolled back completely
\* (Node.Start, Controller.Start) and closeActive closed everything.
NoResidue ==
    pc \in {"bootWait", "restoreWait", "closed", "restore", "exited"} =>
        runtimes = {} /\ limiters = {} /\ Bound = {}

\* Whenever the main loop waits, or a reload is still preparing its
\* candidate, every node of the active file is registered, has its limiter
\* and has bound its port: a failed reload never leaves half a runtime.
RunningIsComplete ==
    pc \in {"select", "load", "prepare", "failed", "started"} =>
        /\ running
        /\ rt.file = config
        /\ runtimes = TagsOf(rt) /\ limiters = TagsOf(rt)
        /\ \A t \in TagsOf(rt) : port[PortOf[rt.info][t]] = t

\* What restore starts from is the configuration that was active, with a user
\* list at least as new as the one in force when the reload began: Start
\* indexes the snapshot's controllers by config.NodeConfigs, and a restored
\* node must not bring back users the panel had already removed.
LastKnownGood ==
    pc \in {"closed", "restore", "restoreWait"} =>
        /\ snapshot # None
        /\ snapshot.file = config
        /\ snapshot.users >= served

\* A runtime that has run once always runs again, or the process was told to
\* exit: restore is retried until the last-known-good runtime is up.
Recovers == (snapshot # None /\ ~running) ~> (running \/ pc = "exited")

Startable(f, i) ==
    /\ <<f, i>> \notin Invalid
    /\ \A m, n \in DOMAIN NodesOf[f] :
          m # n => PortOf[i][NodesOf[f][m]] # PortOf[i][NodesOf[f][n]]
    /\ \A n \in DOMAIN NodesOf[f] : PortOf[i][NodesOf[f][n]] \notin Taken

\* Node info that the panel keeps sending, and that can be activated, is
\* what the node runs in the end, through drained signals, failed reloads
\* and restores: nodeInfoMonitor's signal is never lost for good.
PanelChangeApplied ==
    \A i \in Infos :
        <>[](info = i /\ Startable(file, i) /\ snapshot # None) =>
            []<>(pc = "exited" \/ (running /\ rt.info = i))
=============================================================================
