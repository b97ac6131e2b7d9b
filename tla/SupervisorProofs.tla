-------------------------- MODULE SupervisorProofs --------------------------
(***************************************************************************)
(* Proofs about the supervisor for every set of files, node infos, nodes   *)
(* and ports and any number of changes, reloads, failures and retries.     *)
(***************************************************************************)
EXTENDS Supervisor, TLAPS

Pcs == {"boot", "bootWait", "start", "rollback", "started", "select", "load", "prepare",
        "close", "closed", "restore", "restoreWait", "failed", "exited"}

(* Where no controller exists, and where a whole runtime does.             *)
Down == {"boot", "bootWait", "closed", "restore", "restoreWait", "exited"}
Up   == {"select", "load", "prepare", "failed", "started"}

Typed ==
    /\ file \in Files /\ info \in Infos /\ users \in 0 .. MaxUsers
    /\ pc \in Pcs /\ goal \in Starts \cup {"exit"}
    /\ config \in Files /\ next \in Nat \ {0}
    /\ runtimes \subseteq Tags /\ limiters \subseteq Tags
    /\ port \in [Ports -> Tags \cup {None, "stuck"}]
    /\ served \in 0 .. MaxUsers
    /\ pc \notin Down => rt \in Runtime
    /\ pc \in {"prepare", "closed"} => cand \in Runtime
    /\ pc \in {"close", "start", "rollback"} /\ goal = "candidate" => cand \in Runtime

(* The first n nodes of the runtime that exists.                           *)
Prefix(n) == {Nodes(rt)[m] : m \in 1 .. n}

(* A node is registered, has a limiter and has bound its port, or none of  *)
(* these.                                                                  *)
HeldInv ==
    /\ limiters = runtimes
    /\ \A p \in Ports : port[p] \in Tags => port[p] \in runtimes
    /\ \A t \in runtimes : port[PortOf[rt.info][t]] = t

(* Which nodes are registered at each step of the supervisor.              *)
RegistryInv ==
    /\ pc \in Down => runtimes = {}
    /\ pc \in {"start", "rollback"} =>
          /\ next <= Len(Nodes(rt)) + 1 /\ runtimes = Prefix(next - 1)
          /\ \A m, n \in 1 .. next - 1 : Nodes(rt)[m] = Nodes(rt)[n] => m = n
    /\ pc \in Up => running /\ runtimes = TagsOf(rt) /\ rt.file = config

(* A replacement is under way, or failed: there is a way back.             *)
Replacing ==
    \/ pc \in {"closed", "restore", "restoreWait"}
    \/ pc \in {"close", "start", "rollback"} /\ goal = "candidate"
    \/ pc \in {"start", "rollback"} /\ goal = "restore"

(* The way back is the runtime that was active, with users that are at     *)
(* least as new as those of the time the reload began; the panel's list    *)
(* only gets newer.                                                        *)
SnapshotInv ==
    /\ Replacing => /\ snapshot \in Kept /\ snapshot.file = config
                    /\ served <= snapshot.users /\ snapshot.users <= users
    /\ pc \notin Down => rt.users <= users
    /\ pc \in {"load", "prepare"} => served <= rt.users
    /\ pc = "close" => goal \in {"candidate", "exit"}
    /\ pc = "closed" => cand.users <= users
    /\ pc \in {"close", "start", "rollback"} /\ goal = "candidate" => cand.users <= users
    /\ pc \in {"start", "rollback"} =>
          /\ goal # "exit"
          /\ goal = "candidate" => rt.file = cand.file
          /\ goal \in {"boot", "restore"} => rt.file = config

SupInv == Typed /\ HeldInv /\ RegistryInv /\ SnapshotInv

-----------------------------------------------------------------------------
(* Lemmas about the operators.                                             *)

LEMMA RuntimeFields ==
    ASSUME NEW r \in Runtime
    PROVE  /\ r.file \in Files /\ r.info \in Infos /\ r.users \in 0 .. MaxUsers
           /\ Nodes(r) \in Seq(Tags) /\ Len(Nodes(r)) \in Nat
           /\ DOMAIN Nodes(r) = 1 .. Len(Nodes(r))
           /\ \A n \in 1 .. Len(Nodes(r)) : Nodes(r)[n] \in Tags
           /\ TagsOf(r) = {Nodes(r)[m] : m \in 1 .. Len(Nodes(r))}
           /\ TagsOf(r) \subseteq Tags
           /\ \A t \in Tags : PortOf[r.info][t] \in Ports
<1>1. r.file \in Files /\ r.info \in Infos /\ r.users \in 0 .. MaxUsers
  BY DEF Runtime
<1>2. Nodes(r) \in Seq(Tags)
  BY <1>1, SupervisorAssumption DEF Nodes
<1>3. /\ Len(Nodes(r)) \in Nat /\ DOMAIN Nodes(r) = 1 .. Len(Nodes(r))
      /\ \A n \in 1 .. Len(Nodes(r)) : Nodes(r)[n] \in Tags
  BY <1>2
<1>4. TagsOf(r) = {Nodes(r)[m] : m \in 1 .. Len(Nodes(r))}
  BY <1>3 DEF TagsOf, ToSet
<1>5. \A t \in Tags : PortOf[r.info][t] \in Ports
  BY <1>1, SupervisorAssumption
<1> QED BY <1>1, <1>2, <1>3, <1>4, <1>5

LEMMA PreparedType ==
    ASSUME Typed, NEW f \in Files
    PROVE  /\ Prepared(f) \in Runtime
           /\ Prepared(f).file = f /\ Prepared(f).users = users
<1> DEFINE r == [file |-> f, info |-> info, users |-> 0, seen |-> info]
<1>1. 0 \in 0 .. MaxUsers /\ info \in Infos /\ users \in 0 .. MaxUsers
  BY SupervisorAssumption DEF Typed
<1>2. r \in Runtime /\ r.file = f
  BY <1>1 DEF Runtime
<1>3. Prepared(f) = [r EXCEPT !.users = users]
  BY DEF Prepared, Fetched
<1> HIDE DEF r
<1> QED BY <1>1, <1>2, <1>3 DEF Runtime

LEMMA SnapshotType ==
    ASSUME NEW r \in Runtime
    PROVE  Snapshot(r) \in Kept /\ Snapshot(r).file = r.file /\ Snapshot(r).users = r.users
BY DEF Runtime, Snapshot, Kept

LEMMA RestoredType ==
    ASSUME NEW s \in Kept
    PROVE  /\ NewFromSnapshot(s) \in Runtime
           /\ NewFromSnapshot(s).file = s.file /\ NewFromSnapshot(s).users = s.users
BY DEF Runtime, NewFromSnapshot, Kept

-----------------------------------------------------------------------------
(* Steps of the environment, and steps of the supervisor that only move.   *)

LEMMA EnvironmentStep ==
    ASSUME SupInv,
           \/ \E i \in Infos : PanelChangesInfo(i)
           \/ PanelChangesUsers
           \/ \E f \in Files : Edit(f)
           \/ WatcherSignals \/ WindowEnds \/ TimerFires
    PROVE  SupInv'
<1>1. /\ UNCHANGED <<pc, goal, rt, cand, config, snapshot, running, next, runtimes,
                     limiters, port, served>>
      /\ file' \in Files /\ info' \in Infos /\ users' \in 0 .. MaxUsers /\ users <= users'
  <2>1. users \in 0 .. MaxUsers /\ MaxUsers \in Nat
    BY SupervisorAssumption DEF SupInv, Typed
  <2> QED BY <2>1 DEF PanelChangesInfo, PanelChangesUsers, Edit, WatcherSignals,
                   WindowEnds, TimerFires, state, held, env, SupInv, Typed
<1>2. Typed'
  BY <1>1 DEF SupInv, Typed
<1>3. HeldInv' /\ RegistryInv'
  BY <1>1 DEF SupInv, HeldInv, RegistryInv, Prefix
<1>4. SnapshotInv'
  <2>1. users \in Nat /\ users' \in Nat
    BY <1>1 DEF SupInv, Typed
  <2>2. Replacing => snapshot.users <= users'
    BY <1>1, <2>1 DEF SupInv, SnapshotInv, Kept
  <2>3. (pc \notin Down => rt.users <= users')
    BY <1>1, <2>1 DEF SupInv, SnapshotInv, Typed, Runtime
  <2>4. pc = "closed" => cand.users <= users'
    BY <1>1, <2>1 DEF SupInv, SnapshotInv, Typed, Runtime
  <2>5. pc \in {"close", "start", "rollback"} /\ goal = "candidate" => cand.users <= users'
    BY <1>1, <2>1 DEF SupInv, SnapshotInv, Typed, Runtime
  <2> QED BY <1>1, <2>2, <2>3, <2>4, <2>5 DEF SupInv, SnapshotInv, Replacing
<1> QED BY <1>2, <1>3, <1>4 DEF SupInv

LEMMA PortReleasedStep ==
    ASSUME SupInv, NEW p \in Ports, PortReleased(p)
    PROVE  SupInv'
<1>1. /\ UNCHANGED <<file, info, users, pc, goal, rt, cand, config, snapshot, running,
                     next, runtimes, limiters, served>>
      /\ port[p] = "stuck" /\ port' = [port EXCEPT ![p] = None]
  BY DEF PortReleased, env, state
<1>2. \A q \in Ports : port'[q] = port[q] \/ (q = p /\ port'[q] = None)
  BY <1>1 DEF SupInv, Typed
<1>3. Typed'
  BY <1>1 DEF SupInv, Typed
<1>4. HeldInv'
  <2>1. \A t \in runtimes : PortOf[rt.info][t] \in Ports
    <3>1. runtimes # {} => rt \in Runtime
      BY DEF SupInv, Typed, RegistryInv
    <3> QED BY <3>1, RuntimeFields DEF SupInv, Typed
  <2>2. \A t \in runtimes : PortOf[rt.info][t] # p
    BY <1>1, SupervisorAssumption DEF SupInv, HeldInv, Typed
  <2> QED BY <1>1, <1>2, <2>1, <2>2, SupervisorAssumption DEF SupInv, HeldInv
<1>5. RegistryInv' /\ SnapshotInv'
  BY <1>1 DEF SupInv, RegistryInv, SnapshotInv, Prefix, Replacing
<1> QED BY <1>3, <1>4, <1>5 DEF SupInv

(* The monitor changes the user list or the node info last seen; neither   *)
(* concerns which nodes there are.                                         *)
LEMMA MonitorStep ==
    ASSUME SupInv, MonitorSignals \/ MonitorSyncs
    PROVE  SupInv'
<1>1. /\ UNCHANGED <<file, info, users, pc, goal, cand, config, snapshot, running, next,
                     runtimes, limiters, port, served>>
      /\ pc \notin Down
  BY DEF MonitorSignals, MonitorSyncs, MonitorRuns, Down, env, state, held
<1>2. rt \in Runtime /\ info \in Infos /\ users \in 0 .. MaxUsers
  BY <1>1 DEF SupInv, Typed
<1>3. /\ rt' \in Runtime /\ rt'.file = rt.file /\ rt'.info = rt.info
      /\ rt'.users \in {rt.users, users}
  BY <1>2 DEF MonitorSignals, MonitorSyncs, Runtime
<1>4. rt.users <= rt'.users /\ rt'.users <= users
  BY <1>1, <1>2, <1>3 DEF SupInv, SnapshotInv, Runtime
<1>5. Typed'
  BY <1>1, <1>3 DEF SupInv, Typed
<1>6. HeldInv' /\ RegistryInv'
  BY <1>1, <1>3 DEF SupInv, HeldInv, RegistryInv, Prefix, Nodes, TagsOf
<1>7. SnapshotInv'
  <2>1. pc \in {"load", "prepare"} => served <= rt'.users
    BY <1>1, <1>2, <1>3, <1>4 DEF SupInv, SnapshotInv, Typed, Runtime
  <2> QED BY <1>1, <1>3, <1>4, <2>1 DEF SupInv, SnapshotInv, Replacing
<1> QED BY <1>5, <1>6, <1>7 DEF SupInv

-----------------------------------------------------------------------------
(* Starting and closing controllers.                                       *)

(* The node that is started next is one of the runtime's.                  *)
LEMMA NextNode ==
    ASSUME SupInv, pc = "start", next <= Len(Nodes(rt))
    PROVE  /\ rt \in Runtime /\ next \in 1 .. Len(Nodes(rt))
           /\ Tag \in Tags /\ TagPort \in Ports
BY RuntimeFields DEF SupInv, Typed, Down, Tag, TagPort

(* A node joins the registry with its limiter and its port; its tag was    *)
(* not registered, so no node of the file is counted twice.                *)
LEMMA StartControllerStep ==
    ASSUME SupInv, StartController
    PROVE  SupInv'
<1>1. /\ UNCHANGED <<file, info, users, pc, goal, rt, cand, config, snapshot, running,
                     served>>
      /\ pc = "start" /\ next <= Len(Nodes(rt)) /\ Tag \notin runtimes
      /\ port[TagPort] = None /\ next' = next + 1
      /\ runtimes' = runtimes \cup {Tag} /\ limiters' = limiters \cup {Tag}
      /\ port' = [port EXCEPT ![TagPort] = Tag]
  BY DEF StartController, CanBind, AddLimiter, env, state
<1>2. PICK t \in Tags, p \in Ports : t = Tag /\ p = TagPort
  BY <1>1, NextNode
<1>3. rt \in Runtime /\ next \in 1 .. Len(Nodes(rt)) /\ Len(Nodes(rt)) \in Nat
      /\ t = Nodes(rt)[next] /\ p = PortOf[rt.info][t]
  <2>1. rt \in Runtime /\ next \in 1 .. Len(Nodes(rt))
    BY <1>1, NextNode
  <2>2. Len(Nodes(rt)) \in Nat
    BY <2>1, RuntimeFields
  <2>3. t = Nodes(rt)[next] /\ p = PortOf[rt.info][t]
    BY <1>2 DEF Tag, TagPort
  <2> QED BY <2>1, <2>2, <2>3
<1>4. /\ runtimes' = runtimes \cup {t} /\ limiters' = limiters \cup {t}
      /\ port' = [port EXCEPT ![p] = t] /\ t \notin runtimes /\ port[p] = None
  BY <1>1, <1>2
<1>5. Typed'
  <2>1. next' \in Nat \ {0}
    BY <1>1, <1>3
  <2>2. port' \in [Ports -> Tags \cup {None, "stuck"}]
        /\ runtimes' \subseteq Tags /\ limiters' \subseteq Tags
    BY <1>4 DEF SupInv, Typed
  <2> QED BY <1>1, <2>1, <2>2 DEF SupInv, Typed
<1>6. HeldInv'
  <2>1. \A r \in runtimes : PortOf[rt.info][r] \in Ports /\ PortOf[rt.info][r] # p
    BY <1>3, <1>4, RuntimeFields, SupervisorAssumption DEF SupInv, Typed, HeldInv
  <2>2. /\ port'[p] = t /\ \A q \in Ports : q # p => port'[q] = port[q]
    BY <1>4 DEF SupInv, Typed
  <2>3. limiters' = runtimes'
    BY <1>4 DEF SupInv, HeldInv
  <2>4. \A q \in Ports : port'[q] \in Tags => port'[q] \in runtimes'
    BY <1>4, <2>2 DEF SupInv, HeldInv
  <2>5. \A r \in runtimes' : port'[PortOf[rt.info][r]] = r
    BY <1>3, <1>4, <2>1, <2>2 DEF SupInv, HeldInv
  <2> QED BY <1>1, <2>3, <2>4, <2>5 DEF HeldInv
<1>7. RegistryInv'
  <2>1. /\ runtimes = {Nodes(rt)[m] : m \in 1 .. next - 1}
        /\ \A m, n \in 1 .. next - 1 : Nodes(rt)[m] = Nodes(rt)[n] => m = n
    BY <1>1 DEF SupInv, RegistryInv, Prefix
  <2>2. next' - 1 = next /\ next' <= Len(Nodes(rt)) + 1
    BY <1>1, <1>3
  <2>3. 1 .. next = (1 .. next - 1) \cup {next}
    BY <1>3
  <2>4. runtimes' = {Nodes(rt)[m] : m \in 1 .. next}
    BY <1>3, <1>4, <2>1, <2>3
  <2>5. \A m \in 1 .. next - 1 : Nodes(rt)[m] # t
    BY <1>4, <2>1
  <2>6. \A m, n \in 1 .. next : Nodes(rt)[m] = Nodes(rt)[n] => m = n
    BY <1>3, <2>1, <2>3, <2>5
  <2> QED BY <1>1, <2>2, <2>4, <2>6 DEF RegistryInv, Prefix, Down, Up
<1>8. SnapshotInv'
  BY <1>1 DEF SupInv, SnapshotInv, Replacing
<1> QED BY <1>5, <1>6, <1>7, <1>8 DEF SupInv

(* A node that cannot be started leaves nothing behind.                    *)
LEMMA StartFailsStep ==
    ASSUME SupInv, AddNodeFails \/ AddUsersFails
    PROVE  SupInv'
<1>1. /\ UNCHANGED <<file, info, users, goal, rt, cand, config, snapshot, running, next,
                     runtimes, port, served>>
      /\ pc = "start" /\ pc' = "rollback"
      /\ limiters' = limiters \/ (Tag \notin runtimes /\ limiters' = limiters \ {Tag})
  BY DEF AddNodeFails, AddUsersFails, DeleteLimiter, env, state, held
<1>2. limiters' = limiters
  BY <1>1 DEF SupInv, HeldInv
<1> QED BY <1>1, <1>2 DEF SupInv, Typed, HeldInv, RegistryInv, SnapshotInv, Prefix,
                          Replacing, Down, Up, Pcs

(* What a closed controller leaves: everything of the others.              *)
LEMMA CloseControllerHeld ==
    ASSUME SupInv, NEW t \in Tags, CloseController(t), UNCHANGED rt,
           pc \in {"close", "rollback"}
    PROVE  /\ runtimes' = runtimes \ {t}
           /\ limiters' \subseteq Tags /\ runtimes' \subseteq Tags
           /\ port' \in [Ports -> Tags \cup {None, "stuck"}]
           /\ HeldInv'
<1>1. PICK left \in {None, "stuck"} :
         port' = [p \in Ports |-> IF port[p] = t THEN left ELSE port[p]]
  BY DEF CloseController
<1>2. runtimes' = runtimes \ {t} /\ limiters' = limiters \ {t}
  BY DEF CloseController, DeleteLimiter
<1>3. port' \in [Ports -> Tags \cup {None, "stuck"}]
  BY <1>1 DEF SupInv, Typed
<1>4. left \notin Tags /\ rt \in Runtime
  BY SupervisorAssumption DEF SupInv, Typed, Down
<1>5. \A p \in Ports : port'[p] \in Tags => port'[p] \in runtimes'
  BY <1>1, <1>2, <1>4 DEF SupInv, HeldInv
<1>6. \A r \in runtimes' : port'[PortOf[rt.info][r]] = r
  BY <1>1, <1>2, <1>4, RuntimeFields DEF SupInv, HeldInv, Typed
<1>7. limiters' = runtimes'
  BY <1>2 DEF SupInv, HeldInv
<1> QED BY <1>2, <1>3, <1>5, <1>6, <1>7 DEF SupInv, Typed, HeldInv

(* Node.Start closes the controllers it has started, last one first.       *)
LEMMA RollbackStep ==
    ASSUME SupInv, Rollback
    PROVE  SupInv'
<1>1. /\ UNCHANGED <<file, info, users, pc, goal, rt, cand, config, snapshot, running,
                     served>>
      /\ pc = "rollback" /\ next > 1 /\ next' = next - 1
      /\ CloseController(Nodes(rt)[next - 1])
  BY DEF Rollback, env, state
<1>2. rt \in Runtime /\ next \in Nat /\ next <= Len(Nodes(rt)) + 1
  BY <1>1 DEF SupInv, Typed, RegistryInv, Down
<1>3. next - 1 \in 1 .. Len(Nodes(rt))
  BY <1>1, <1>2, RuntimeFields
<1>4. PICK t \in Tags : t = Nodes(rt)[next - 1]
  BY <1>2, <1>3, RuntimeFields
<1>5. /\ runtimes' = runtimes \ {t}
      /\ limiters' \subseteq Tags /\ runtimes' \subseteq Tags
      /\ port' \in [Ports -> Tags \cup {None, "stuck"}]
      /\ HeldInv'
  BY <1>1, <1>4, CloseControllerHeld
<1>6. Typed'
  BY <1>1, <1>2, <1>5 DEF SupInv, Typed
<1>7. RegistryInv'
  <2>1. /\ runtimes = {Nodes(rt)[m] : m \in 1 .. next - 1}
        /\ \A m, n \in 1 .. next - 1 : Nodes(rt)[m] = Nodes(rt)[n] => m = n
    BY <1>1 DEF SupInv, RegistryInv, Prefix
  <2>2. 1 .. next - 1 = (1 .. next' - 1) \cup {next - 1} /\ next - 1 \notin 1 .. next' - 1
    BY <1>1, <1>2
  <2>3. runtimes' = {Nodes(rt)[m] : m \in 1 .. next' - 1}
    BY <1>4, <1>5, <2>1, <2>2
  <2>4. \A m, n \in 1 .. next' - 1 : Nodes(rt)[m] = Nodes(rt)[n] => m = n
    BY <2>1, <2>2
  <2>5. next' <= Len(Nodes(rt)) + 1
    BY <1>1, <1>2, RuntimeFields
  <2> QED BY <1>1, <2>3, <2>4, <2>5 DEF RegistryInv, Prefix, Down, Up
<1>8. SnapshotInv'
  BY <1>1 DEF SupInv, SnapshotInv, Replacing
<1> QED BY <1>5, <1>6, <1>7, <1>8 DEF SupInv

LEMMA CloseOneStep ==
    ASSUME SupInv, NEW t \in Tags, CloseOne(t)
    PROVE  SupInv'
<1>1. /\ UNCHANGED <<file, info, users, pc, goal, rt, cand, config, snapshot, running,
                     next, served>>
      /\ pc = "close" /\ CloseController(t)
  BY DEF CloseOne, env, state
<1>2. /\ limiters' \subseteq Tags /\ runtimes' \subseteq Tags
      /\ port' \in [Ports -> Tags \cup {None, "stuck"}]
      /\ HeldInv'
  BY <1>1, CloseControllerHeld
<1>3. Typed'
  BY <1>1, <1>2 DEF SupInv, Typed
<1>4. RegistryInv' /\ SnapshotInv'
  BY <1>1 DEF SupInv, RegistryInv, SnapshotInv, Replacing, Down, Up
<1> QED BY <1>2, <1>3, <1>4 DEF SupInv

-----------------------------------------------------------------------------
(* Boot, reload, restore and exit.                                         *)

(* A start begins: no controller exists.                                   *)
LEMMA ActivateStep ==
    ASSUME SupInv, NEW r \in Runtime, NEW g \in Starts, Activate(r, g), pc \in Down,
           UNCHANGED <<file, info, users, config, snapshot, running, served>>,
           r.users <= users,
           g = "candidate" => /\ pc = "closed" /\ cand' \in Runtime
                              /\ r.file = cand'.file /\ cand'.users <= users,
           g = "restore" => pc = "restore" /\ r.file = config,
           g = "boot" => r.file = config
    PROVE  SupInv'
<1>1. /\ rt' = r /\ goal' = g /\ next' = 1 /\ runtimes' = {} /\ pc' = "start"
      /\ UNCHANGED <<limiters, port>> /\ runtimes = {}
  BY DEF Activate, SupInv, RegistryInv
<1>2. Typed'
  BY <1>1 DEF SupInv, Typed, Pcs
<1>3. HeldInv'
  BY <1>1 DEF SupInv, HeldInv
<1>4. RegistryInv'
  <2>1. 1 <= Len(Nodes(r)) + 1
    BY RuntimeFields
  <2>2. Prefix(next - 1)' = {}
    BY <1>1 DEF Prefix
  <2>3. \A m, n \in 1 .. next' - 1 : Nodes(rt')[m] = Nodes(rt')[n] => m = n
    BY <1>1
  <2> QED BY <1>1, <2>1, <2>2, <2>3 DEF RegistryInv, Down, Up
<1>5. SnapshotInv'
  BY <1>1 DEF SupInv, SnapshotInv, Replacing, Starts, Down
<1> QED BY <1>2, <1>3, <1>4, <1>5 DEF SupInv

LEMMA StartBeginsStep ==
    ASSUME SupInv, BootPrepared \/ ActivateCandidate \/ Restore
    PROVE  SupInv'
<1>1. UNCHANGED <<file, info, users, config, snapshot, running, served>>
  BY DEF BootPrepared, ActivateCandidate, Restore, env, state
<1>2. CASE BootPrepared
  <2>1. Prepared(config) \in Runtime /\ Prepared(config).file = config
        /\ Prepared(config).users = users
    BY PreparedType DEF SupInv, Typed
  <2>2. Prepared(config).users <= users
    BY <2>1 DEF SupInv, Typed
  <2>3. pc \in Down /\ Activate(Prepared(config), "boot") /\ "boot" \in Starts
    BY <1>2 DEF BootPrepared, Down, Starts
  <2> QED BY <1>1, <2>1, <2>2, <2>3, ActivateStep
<1>3. CASE ActivateCandidate
  <2>1. pc = "closed" /\ Activate(cand, "candidate") /\ UNCHANGED cand
    BY <1>3 DEF ActivateCandidate
  <2>2. cand \in Runtime /\ cand.users <= users
    BY <2>1 DEF SupInv, Typed, SnapshotInv
  <2>3. pc \in Down /\ "candidate" \in Starts
    BY <2>1 DEF Down, Starts
  <2> QED BY <1>1, <2>1, <2>2, <2>3, ActivateStep
<1>4. CASE Restore
  <2>1. pc = "restore" /\ Activate(NewFromSnapshot(snapshot), "restore")
    BY <1>4 DEF Restore
  <2>2. snapshot \in Kept /\ snapshot.file = config /\ snapshot.users <= users
    BY <2>1 DEF SupInv, SnapshotInv, Replacing
  <2>3. /\ NewFromSnapshot(snapshot) \in Runtime
        /\ NewFromSnapshot(snapshot).file = config
        /\ NewFromSnapshot(snapshot).users <= users
    BY <2>2, RestoredType
  <2>4. pc \in Down /\ "restore" \in Starts
    BY <2>1 DEF Down, Starts
  <2> QED BY <1>1, <2>1, <2>3, <2>4, ActivateStep
<1> QED BY <1>2, <1>3, <1>4

(* A start has failed and was rolled back, or the process waits or exits.  *)
LEMMA DownStep ==
    ASSUME SupInv,
           \/ BootFails \/ BootRetries \/ CandidateFails \/ RestoreFails \/ RestoreRetries
           \/ ExitWaiting
    PROVE  SupInv'
<1>1. /\ UNCHANGED <<file, info, users, goal, cand, config, snapshot, running, next,
                     runtimes, limiters, port, served>>
      /\ pc' \in Down \ {"closed"}
      /\ pc \in {"boot", "bootWait", "restoreWait"} \/ (pc = "rollback" /\ next = 1)
      /\ pc' \in {"restore", "restoreWait"} =>
            \/ pc = "restoreWait"
            \/ pc = "rollback" /\ goal \in {"candidate", "restore"}
  BY DEF BootFails, BootRetries, CandidateFails, RestoreFails, RestoreRetries, ExitWaiting,
         StartFailed, Down, env, state, held
<1>2. runtimes = {}
  <2>1. CASE pc = "rollback" /\ next = 1
    BY <2>1 DEF SupInv, RegistryInv, Prefix
  <2>2. CASE pc \in {"boot", "bootWait", "restoreWait"}
    BY <2>2 DEF SupInv, RegistryInv, Down
  <2> QED BY <1>1, <2>1, <2>2
<1>3. Typed'
  BY <1>1 DEF SupInv, Typed, Down, Pcs
<1>4. HeldInv' /\ RegistryInv'
  BY <1>1, <1>2 DEF SupInv, HeldInv, RegistryInv, Down, Up
<1>5. Replacing' => Replacing
  BY <1>1 DEF Replacing, Down
<1>6. SnapshotInv'
  BY <1>1, <1>5 DEF SupInv, SnapshotInv, Down
<1> QED BY <1>3, <1>4, <1>6 DEF SupInv

(* All nodes were started.                                                 *)
LEMMA AllStarted ==
    ASSUME SupInv, NEW g \in Starts, StartEnded(g)
    PROVE  /\ rt \in Runtime /\ runtimes = TagsOf(rt) /\ pc = "start" /\ goal = g
           /\ rt.users <= users
<1>1. pc = "start" /\ goal = g /\ next > Len(Nodes(rt))
  BY DEF StartEnded
<1>2. rt \in Runtime /\ next \in Nat /\ next <= Len(Nodes(rt)) + 1
      /\ runtimes = {Nodes(rt)[m] : m \in 1 .. next - 1} /\ rt.users <= users
  BY <1>1 DEF SupInv, Typed, RegistryInv, SnapshotInv, Prefix, Down
<1>3. next - 1 = Len(Nodes(rt))
  BY <1>1, <1>2, RuntimeFields
<1> QED BY <1>1, <1>2, <1>3, RuntimeFields

LEMMA StartEndsStep ==
    ASSUME SupInv, BootDone \/ CandidateDone \/ RestoreDone
    PROVE  SupInv'
<1>1. /\ UNCHANGED <<file, info, users, rt, next, runtimes, limiters, port, served>>
      /\ running' = TRUE /\ pc' \in {"select", "started", "failed"}
      /\ rt \in Runtime /\ runtimes = TagsOf(rt) /\ rt.users <= users
      /\ config' \in Files /\ config' = rt.file /\ UNCHANGED goal
  <2>1. CASE BootDone
    <3>1. StartEnded("boot") /\ "boot" \in Starts
      BY <2>1 DEF BootDone, Starts
    <3>2. rt \in Runtime /\ runtimes = TagsOf(rt) /\ rt.users <= users /\ rt.file = config
      BY <3>1, AllStarted DEF SupInv, SnapshotInv
    <3> QED BY <2>1, <3>2 DEF BootDone, env, held, SupInv, Typed
  <2>2. CASE CandidateDone
    <3>1. StartEnded("candidate") /\ "candidate" \in Starts
      BY <2>2 DEF CandidateDone, Starts
    <3>2. rt \in Runtime /\ runtimes = TagsOf(rt) /\ rt.users <= users
          /\ rt.file = cand.file
      BY <3>1, AllStarted DEF SupInv, SnapshotInv
    <3> QED BY <2>2, <3>2, RuntimeFields DEF CandidateDone, env, held
  <2>3. CASE RestoreDone
    <3>1. StartEnded("restore") /\ "restore" \in Starts
      BY <2>3 DEF RestoreDone, Starts
    <3>2. rt \in Runtime /\ runtimes = TagsOf(rt) /\ rt.users <= users /\ rt.file = config
      BY <3>1, AllStarted DEF SupInv, SnapshotInv
    <3> QED BY <2>3, <3>2 DEF RestoreDone, env, held, SupInv, Typed
  <2> QED BY <2>1, <2>2, <2>3
<1>2. Typed'
  BY <1>1 DEF SupInv, Typed, Pcs
<1>3. HeldInv'
  BY <1>1 DEF SupInv, HeldInv
<1>4. RegistryInv'
  BY <1>1 DEF RegistryInv, Down, Up
<1>5. SnapshotInv'
  BY <1>1 DEF SnapshotInv, Replacing
<1> QED BY <1>2, <1>3, <1>4, <1>5 DEF SupInv

(* The main loop while a runtime is up.                                    *)
LEMMA UpStep ==
    ASSUME SupInv,
           ReloadBegins \/ Load \/ PrepareFails \/ ReloadDone \/ ReloadFailed
    PROVE  SupInv'
<1>1. /\ UNCHANGED <<file, info, users, goal, rt, config, snapshot, running, next,
                     runtimes, limiters, port>>
      /\ pc \in Up /\ pc' \in Up
  BY DEF ReloadBegins, Load, PrepareFails, ReloadDone, ReloadFailed, Up, env, state, held
<1>2. rt \in Runtime /\ rt.users \in 0 .. MaxUsers
  BY <1>1, RuntimeFields DEF SupInv, Typed, Up, Down
<1>3. /\ pc' = "load" => served' = rt.users
      /\ pc' # "load" => UNCHANGED served
      /\ pc' = "prepare" => pc = "load" /\ cand' = Prepared(file)
  BY DEF ReloadBegins, Load, PrepareFails, ReloadDone, ReloadFailed
<1>4. Typed'
  <2>1. Prepared(file) \in Runtime
    BY PreparedType DEF SupInv, Typed
  <2> QED BY <1>1, <1>2, <1>3, <2>1 DEF SupInv, Typed, Up, Down, Pcs
<1>5. HeldInv' /\ RegistryInv'
  BY <1>1 DEF SupInv, HeldInv, RegistryInv, Up, Down
<1>6. SnapshotInv'
  BY <1>1, <1>2, <1>3 DEF SupInv, SnapshotInv, Replacing, Up, Down
<1> QED BY <1>4, <1>5, <1>6 DEF SupInv

(* The active runtime is snapshotted and its replacement begins.           *)
LEMMA PrepareStep ==
    ASSUME SupInv, Prepare
    PROVE  SupInv'
<1>1. /\ UNCHANGED <<file, info, users, rt, config, running, next, runtimes, limiters,
                     port, served>>
      /\ pc = "prepare" /\ pc' = "close" /\ goal' = "candidate"
      /\ snapshot' = Snapshot(rt) /\ cand' = Prepared(cand.file)
  BY DEF Prepare, env, held
<1>2. /\ rt \in Runtime /\ cand \in Runtime /\ rt.file = config
      /\ served <= rt.users /\ rt.users <= users
  BY <1>1 DEF SupInv, Typed, RegistryInv, SnapshotInv, Up, Down
<1>3. cand' \in Runtime /\ cand'.users = users
  BY <1>1, <1>2, PreparedType, RuntimeFields DEF SupInv
<1>4. snapshot' \in Kept /\ snapshot'.file = config /\ snapshot'.users = rt.users
  BY <1>1, <1>2, SnapshotType
<1>5. Typed'
  BY <1>1, <1>2, <1>3 DEF SupInv, Typed, Pcs, Starts
<1>6. HeldInv' /\ RegistryInv'
  BY <1>1 DEF SupInv, HeldInv, RegistryInv, Up, Down
<1>7. users <= users
  BY DEF SupInv, Typed
<1>8. SnapshotInv'
  BY <1>1, <1>2, <1>3, <1>4, <1>7 DEF SnapshotInv, Replacing
<1> QED BY <1>5, <1>6, <1>8 DEF SupInv

LEMMA ExitRunningStep ==
    ASSUME SupInv, ExitRunning
    PROVE  SupInv'
<1>1. /\ UNCHANGED <<file, info, users, rt, cand, config, snapshot, running, next,
                     runtimes, limiters, port, served>>
      /\ pc = "select" /\ pc' = "close" /\ goal' = "exit"
  BY DEF ExitRunning, env, state, held
<1> QED BY <1>1 DEF SupInv, Typed, HeldInv, RegistryInv, SnapshotInv, Replacing, Up, Down,
                    Pcs, Starts

(* closeActive has closed every controller.                                *)
LEMMA ActiveClosedStep ==
    ASSUME SupInv, ActiveClosed
    PROVE  SupInv'
<1>1. /\ UNCHANGED <<file, info, users, goal, cand, config, snapshot, next,
                     runtimes, limiters, port, served>>
      /\ pc = "close" /\ runtimes = {} /\ pc' \in {"exited", "restore", "closed"}
      /\ pc' # "exited" => goal # "exit"
  BY DEF ActiveClosed, env, held
<1>2. pc' # "exited" => goal = "candidate"
  BY <1>1 DEF SupInv, SnapshotInv
<1>3. Typed'
  BY <1>1, <1>2 DEF SupInv, Typed, Down, Pcs
<1>4. HeldInv' /\ RegistryInv'
  BY <1>1 DEF SupInv, HeldInv, RegistryInv, Up, Down
<1>5. SnapshotInv'
  BY <1>1, <1>2 DEF SupInv, SnapshotInv, Replacing, Down
<1> QED BY <1>3, <1>4, <1>5 DEF SupInv

-----------------------------------------------------------------------------
(* The invariant and what follows from it.                                 *)

LEMMA SupInvInit == Init => SupInv
<1> SUFFICES ASSUME Init PROVE SupInv
  OBVIOUS
<1>1. 0 \in 0 .. MaxUsers
  BY SupervisorAssumption
<1>2. Typed
  BY <1>1 DEF Init, Typed, Pcs, Starts, Down
<1>3. HeldInv /\ RegistryInv
  BY SupervisorAssumption DEF Init, HeldInv, RegistryInv, Down, Up
<1>4. SnapshotInv
  BY DEF Init, SnapshotInv, Replacing, Down
<1> QED BY <1>2, <1>3, <1>4 DEF SupInv

LEMMA SupInvNext == SupInv /\ [Next]_vars => SupInv'
<1> SUFFICES ASSUME SupInv, [Next]_vars PROVE SupInv'
  OBVIOUS
<1>1. CASE UNCHANGED vars
  <2>1. UNCHANGED <<file, info, users, pc, goal, rt, cand, config, snapshot, running, next,
                    runtimes, limiters, port, served>>
    BY <1>1 DEF vars, env, state, held
  <2> QED BY <2>1 DEF SupInv, Typed, HeldInv, RegistryInv, SnapshotInv, Replacing, Prefix
<1>2. CASE Steps
  BY <1>2, StartControllerStep, StartFailsStep, RollbackStep, DownStep, StartEndsStep,
     UpStep, CloseOneStep, ActiveClosedStep, StartBeginsStep
  DEF Steps
<1>3. CASE BootPrepared \/ Prepare
  BY <1>3, StartBeginsStep, PrepareStep
<1>4. CASE \/ \E i \in Infos : PanelChangesInfo(i)
           \/ PanelChangesUsers
           \/ \E f \in Files : Edit(f)
           \/ WatcherSignals \/ WindowEnds \/ TimerFires
  BY <1>4, EnvironmentStep
<1>5. CASE \E p \in Ports : PortReleased(p)
  BY <1>5, PortReleasedStep
<1>6. CASE MonitorSignals \/ MonitorSyncs
  BY <1>6, MonitorStep
<1>7. CASE ExitWaiting \/ ExitRunning
  BY <1>7, DownStep, ExitRunningStep
<1> QED BY <1>1, <1>2, <1>3, <1>4, <1>5, <1>6, <1>7 DEF Next, Exited

LEMMA SupInvCorrect == Spec => []SupInv
BY SupInvInit, SupInvNext, PTL DEF Spec

(* Where the process waits for a retry, has closed the active runtime or   *)
(* has exited, no node is registered, no limiter is left and no controller *)
(* holds a port, whatever failed before (Node.Start, Controller.Start,     *)
(* closeActive).                                                           *)
THEOREM NoResidueCorrect == Spec => []NoResidue
<1>1. SupInv => NoResidue
  BY DEF SupInv, HeldInv, RegistryInv, NoResidue, Bound, Down
<1> QED BY <1>1, SupInvCorrect, PTL

(* Whenever the main loop waits, or prepares a reload, all nodes of the    *)
(* active file run: a reload that failed never leaves half a runtime       *)
(* (reload, restore, Node.Start).                                          *)
THEOREM RunningIsCompleteCorrect == Spec => []RunningIsComplete
<1>1. SupInv => RunningIsComplete
  BY DEF SupInv, HeldInv, RegistryInv, RunningIsComplete, Up
<1> QED BY <1>1, SupInvCorrect, PTL

(* While there is no runtime, restore can start the configuration that was *)
(* active, with users no older than those in force when the reload began   *)
(* (snapshotActive, restore).                                              *)
THEOREM LastKnownGoodCorrect == Spec => []LastKnownGood
<1>1. SupInv => LastKnownGood
  <2> SUFFICES ASSUME SupInv, pc \in {"closed", "restore", "restoreWait"}
               PROVE  snapshot # None /\ snapshot.file = config /\ snapshot.users >= served
    BY DEF LastKnownGood
  <2>1. snapshot \in Kept /\ snapshot.file = config /\ served <= snapshot.users
    BY DEF SupInv, SnapshotInv, Replacing
  <2> QED BY <2>1, KeptAssumption DEF Kept, SupInv, Typed
<1> QED BY <1>1, SupInvCorrect, PTL
=============================================================================
