------------------------------ MODULE Traffic ------------------------------
(***************************************************************************)
(* Traffic accounting of one node: the cumulative counters and the commit  *)
(* protocol of core/shared/runtime.go, the traffic half of the report task *)
(* and the final flush of node/user.go, and the replacement of the runtime *)
(* by an in-process reload (node/controller.go, Close).                    *)
(*                                                                         *)
(* Sessions add to the counters without mu, between any two steps.  The    *)
(* report task reads Traffic, pushes the deltas and commits what the panel *)
(* accepted.  committedTraffic is process-wide and outlives the runtime.   *)
(***************************************************************************)
EXTENDS Integers

CONSTANTS Uids,          \* panel user ids
          ReportMin,     \* BaseConfig.NodeReportMinTraffic, in bytes
          DeviceMin,     \* BaseConfig.DeviceOnlineMinTraffic, in bytes
          LateRecords,   \* TRUE: a released session may record once more
          MaxBytes,      \* bound on the bytes of a user and direction
          NoPending      \* no entry in pending

ASSUME TrafficAssumption ==
    /\ ReportMin \in Nat /\ DeviceMin \in Nat /\ MaxBytes \in Nat
    /\ LateRecords \in BOOLEAN

VARIABLES
    users,         \* users: the current panel ids
    trafficUsers,  \* trafficUsers: ids whose counters Traffic looks at
    counters,      \* counters
    committed,     \* committedTraffic of this node's tag
    pending,       \* pending: the last snapshot read for an id
    open,          \* ids with a registered session
    late,          \* ids with a released session that has bytes to record
    rep,           \* locals of the report task or of the final flush
    phase,         \* of Controller.Close: "run", "flush", "flushed"
    recorded,      \* history: all bytes recorded since the process started
    billed,        \* the panel: all bytes it accepted
    doubtful,      \* history: bytes accepted in a push whose response was lost
    replaced       \* history: the runtime has been replaced

sessionVars == <<users, open, late>>
historyVars == <<recorded, billed, doubtful, replaced>>
vars == <<users, trafficUsers, counters, committed, pending, open, late, rep,
          phase, recorded, billed, doubtful, replaced>>

Dirs == {"up", "down"}

(* TrafficTotal: the cumulative bytes of both directions.                  *)
Totals == [Dirs -> Nat]
Zero == [u \in Uids |-> [d \in Dirs |-> 0]]
NoReport == [pc |-> "idle"]

UserTraffic == [delta : Totals, force : BOOLEAN]

(* pending either has no entry for an id or a snapshot.                    *)
PendingTraffic == [total : Totals, reported : UserTraffic]
ASSUME PendingAssumption == NoPending \notin PendingTraffic

(* A report names some of the users.                                       *)
IsReport(r) ==
    \E S \in SUBSET Uids : r \in [pc : {"send", "commit"}, items : [S -> UserTraffic]]

TrafficTypeOK ==
    /\ users \subseteq Uids /\ trafficUsers \subseteq Uids
    /\ open \subseteq Uids /\ late \subseteq Uids
    /\ counters \in [Uids -> Totals] /\ committed \in [Uids -> Totals]
    /\ pending \in [Uids -> {NoPending} \cup PendingTraffic]
    /\ rep = NoReport \/ IsReport(rep)
    /\ phase \in {"run", "flush", "flushed"}
    /\ recorded \in [Uids -> Totals] /\ billed \in [Uids -> Totals]
    /\ doubtful \in [Uids -> Totals] /\ replaced \in BOOLEAN

(* NewRuntimeServices and SyncUsers(nil, users).                           *)
TrafficInit ==
    /\ users \in SUBSET Uids
    /\ trafficUsers = users
    /\ counters = Zero /\ committed = Zero
    /\ pending = [u \in Uids |-> NoPending]
    /\ open = {} /\ late = {}
    /\ rep = NoReport
    /\ phase = "run"
    /\ recorded = Zero /\ billed = Zero /\ doubtful = Zero
    /\ replaced = FALSE

-----------------------------------------------------------------------------
(* Sessions.                                                               *)

OpenSession(u) ==
    /\ phase = "run" /\ u \in users
    /\ open' = open \cup {u}
    /\ trafficUsers' = trafficUsers \cup {u}
    /\ UNCHANGED <<users, counters, committed, pending, late, rep, phase, historyVars>>

Count(u, d) ==
    /\ recorded[u][d] < MaxBytes
    /\ counters' = [counters EXCEPT ![u][d] = @ + 1]
    /\ recorded' = [recorded EXCEPT ![u][d] = @ + 1]

(* Session.RecordUpload and RecordDownload: an atomic add, no lock.        *)
Record(u, d) ==
    /\ u \in open
    /\ Count(u, d)
    /\ UNCHANGED <<users, trafficUsers, committed, pending, open, late, rep, phase,
                   billed, doubtful, replaced>>

(* What Release leaves behind: accountedConn.Read records only after the   *)
(* rate limiter let it pass, Write only after the write returned.          *)
Released(u) ==
    /\ open' = open \ {u}
    /\ late' = IF LateRecords /\ u \in open THEN late \cup {u} ELSE late

Release(u) ==
    /\ u \in open
    /\ Released(u)
    /\ UNCHANGED <<users, trafficUsers, counters, committed, pending, rep, phase,
                   historyVars>>

LateRecord(u, d) ==
    /\ u \in late
    /\ Count(u, d)
    /\ late' = late \ {u}
    /\ UNCHANGED <<users, trafficUsers, committed, pending, open, rep, phase,
                   billed, doubtful, replaced>>

LateNothing(u) ==
    /\ u \in late
    /\ late' = late \ {u}
    /\ UNCHANGED <<users, trafficUsers, counters, committed, pending, open, rep, phase,
                   historyVars>>

-----------------------------------------------------------------------------
(* SyncUsers, one user at a time: counters outlive their user.             *)

AddUser(u) ==
    /\ phase = "run" /\ u \notin users
    /\ users' = users \cup {u}
    /\ trafficUsers' = trafficUsers \cup {u}
    /\ UNCHANGED <<counters, committed, pending, open, late, rep, phase, historyVars>>

DeleteUser(u) ==
    /\ phase = "run" /\ u \in users
    /\ users' = users \ {u}
    /\ trafficUsers' = trafficUsers \cup {u}
    /\ Released(u)
    /\ UNCHANGED <<counters, committed, pending, rep, phase, historyVars>>

-----------------------------------------------------------------------------
(* Traffic and CommitTraffic.                                              *)

(* Mutant: a replacement runtime's counters are billed in full again.      *)
FullDelta(current, base) == current

trafficDelta(current, base) ==
    IF current < 0 THEN 0 ELSE IF current < base THEN current ELSE current - base

Delta(u) == [d \in Dirs |-> trafficDelta(counters[u][d], committed[u][d])]

NoBytes == [d \in Dirs |-> 0]

Sum(delta) == delta["up"] + delta["down"]

(* Ids without new bytes and without a session are dropped from view.      *)
Quiet == {u \in trafficUsers : Delta(u) = NoBytes /\ u \notin open}

(* Removed users bypass the threshold.                                     *)
Due(threshold) ==
    {u \in trafficUsers : /\ Delta(u) # NoBytes
                          /\ u \in users => Sum(Delta(u)) > threshold}

Reported(u) == [delta |-> Delta(u), force |-> u \notin users]

TrafficRead(threshold) ==
    /\ trafficUsers' = trafficUsers \ Quiet
    /\ pending' = [u \in Uids |->
          IF u \in Quiet THEN NoPending
          ELSE IF u \in Due(threshold)
               THEN [total |-> counters[u], reported |-> Reported(u)]
          ELSE pending[u]]

(* Mutant: the baseline moves to the counters of now, not of the report.   *)
CommitCurrent(items) ==
    LET exact == {u \in DOMAIN items : pending[u] # NoPending} IN
    /\ committed' = [u \in Uids |-> IF u \in exact THEN counters[u] ELSE committed[u]]
    /\ pending' = [u \in Uids |-> IF u \in exact THEN NoPending ELSE pending[u]]

(* Only the exact snapshot that is still pending moves the baseline.       *)
CommitTraffic(items) ==
    LET exact == {u \in DOMAIN items : pending[u] # NoPending
                                       /\ pending[u].reported = items[u]} IN
    /\ committed' = [u \in Uids |-> IF u \in exact THEN pending[u].total ELSE committed[u]]
    /\ pending' = [u \in Uids |-> IF u \in exact THEN NoPending ELSE pending[u]]

-----------------------------------------------------------------------------
(* reportUserTrafficTask and flushUserTraffic.                             *)

TrafficMin == IF DeviceMin < ReportMin THEN DeviceMin ELSE ReportMin

(* Mutant: the minimum applies to removed users too.                       *)
ToReportAll(due) == {u \in due : ReportMin > 0 => Sum(Delta(u)) > ReportMin}

(* filterTrafficByMinimum; a minimum of 0 lets everything pass.            *)
ToReport(due) ==
    {u \in due : ReportMin > 0 => u \notin users \/ Sum(Delta(u)) > ReportMin}

Push(to) ==
    rep' = IF to = {} THEN NoReport
           ELSE [pc |-> "send", items |-> [u \in to |-> Reported(u)]]

ReportTask ==
    /\ phase = "run" /\ rep = NoReport
    /\ TrafficRead(TrafficMin)
    /\ Push(ToReport(Due(TrafficMin)))
    /\ UNCHANGED <<counters, committed, sessionVars, phase, historyVars>>

(* The totals with the deltas of a report added.                           *)
Plus(totals, items) ==
    [u \in Uids |-> [d \in Dirs |->
        IF u \in DOMAIN items THEN totals[u][d] + items[u].delta[d] ELSE totals[u][d]]]

Bill(items) == billed' = Plus(billed, items)

PushAccepted ==
    /\ rep.pc = "send"
    /\ Bill(rep.items)
    /\ rep' = [rep EXCEPT !.pc = "commit"]
    /\ UNCHANGED <<trafficUsers, counters, committed, pending, sessionVars, phase,
                   recorded, doubtful, replaced>>

(* The panel accepted, but the task sees an error or was cancelled.  The   *)
(* same bytes are pushed again later; MaxBytes bounds how often.           *)
PushAckLost ==
    /\ \A u \in Uids, d \in Dirs : billed[u][d] <= MaxBytes
    /\ rep.pc = "send"
    /\ Bill(rep.items)
    /\ doubtful' = Plus(doubtful, rep.items)
    /\ rep' = NoReport
    /\ UNCHANGED <<trafficUsers, counters, committed, pending, sessionVars, phase,
                   recorded, replaced>>

PushRefused ==
    /\ rep.pc = "send"
    /\ rep' = NoReport
    /\ UNCHANGED <<trafficUsers, counters, committed, pending, sessionVars, phase,
                   historyVars>>

Commit ==
    /\ rep.pc = "commit"
    /\ CommitTraffic(rep.items)
    /\ rep' = NoReport
    /\ UNCHANGED <<trafficUsers, counters, sessionVars, phase, historyVars>>

-----------------------------------------------------------------------------
(* Controller.Close: the periodic task is over, the protocol workers are   *)
(* stopped, one best-effort flush runs, and the runtime is replaced.       *)

StopNode ==
    /\ phase = "run" /\ rep = NoReport
    /\ phase' = "flush"
    /\ open' = {}
    /\ late' = IF LateRecords THEN late \cup open ELSE late
    /\ UNCHANGED <<users, trafficUsers, counters, committed, pending, rep, historyVars>>

FlushUserTraffic ==
    /\ phase = "flush" /\ rep = NoReport
    /\ phase' = "flushed"
    /\ TrafficRead(0)
    /\ Push(Due(0))
    /\ UNCHANGED <<counters, committed, sessionVars, historyVars>>

(* DelNode, then the next controller's AddNode and AddUsers.  Sessions of  *)
(* the old runtime can only touch the old counters.                        *)
Replace(next) ==
    /\ phase = "flushed" /\ rep = NoReport
    /\ counters' = Zero
    /\ pending' = [u \in Uids |-> NoPending]
    /\ users' = next
    /\ trafficUsers' = next
    /\ late' = {}
    /\ phase' = "run"
    /\ replaced' = TRUE
    /\ UNCHANGED <<committed, open, rep, recorded, billed, doubtful>>

-----------------------------------------------------------------------------
SessionStep(u) ==
    \/ OpenSession(u) \/ Release(u) \/ LateNothing(u)
    \/ \E d \in Dirs : Record(u, d) \/ LateRecord(u, d)
    \/ AddUser(u) \/ DeleteUser(u)

ReportStep == ReportTask \/ PushAccepted \/ PushAckLost \/ PushRefused \/ Commit

ReloadStep == StopNode \/ FlushUserTraffic \/ \E next \in SUBSET Uids : Replace(next)

Next == (\E u \in Uids : SessionStep(u)) \/ ReportStep \/ ReloadStep

Spec == TrafficInit /\ [][Next]_vars

(* The report task runs for ever and a push that is tried again and again  *)
(* is accepted in the end; late bytes are recorded, or there are none; a   *)
(* reload that has begun is completed.                                     *)
FairSpec ==
    /\ Spec
    /\ WF_vars(ReportStep) /\ SF_vars(PushAccepted)
    /\ WF_vars(FlushUserTraffic) /\ WF_vars(\E next \in SUBSET Uids : Replace(next))
    /\ \A u \in Uids : WF_vars(LateNothing(u) \/ \E d \in Dirs : LateRecord(u, d))

-----------------------------------------------------------------------------
(* Properties.                                                             *)

(* The part of what the panel accepted that is not committed yet.          *)
InFlight(u, d) ==
    IF rep.pc = "commit" /\ u \in DOMAIN rep.items THEN rep.items[u].delta[d] ELSE 0

(* A runtime loses no byte: what a session recorded is billed or still     *)
(* above the baseline, up to the last flush and until the runtime is       *)
(* replaced; refused pushes, lost responses and bytes recorded between     *)
(* Traffic and CommitTraffic included (committedTraffic, CommitTraffic).   *)
NothingLost ==
    replaced \/ \A u \in Uids, d \in Dirs :
        recorded[u][d] <= billed[u][d] - InFlight(u, d) + Delta(u)[d]

(* No byte is billed twice but by a push whose response was lost, however  *)
(* the runtime is replaced between two reports (committedTraffic: a        *)
(* replacement runtime must not report old cumulative counters again).     *)
NeverOverbilled ==
    \A u \in Uids, d \in Dirs : billed[u][d] <= recorded[u][d] + doubtful[u][d]

(* Every byte of a removed user is in a push that the panel accepted and   *)
(* answered in the end, whatever the minimum, unless the user comes back   *)
(* or a reload replaces the runtime first (Traffic: removed users bypass   *)
(* the threshold so their final bytes can be flushed).  It is said of ids  *)
(* that Traffic looks at: bytes recorded late, after a removed id was      *)
(* dropped from view, are never reported.                                  *)
FinalBytesBilled ==
    \A u \in Uids, d \in Dirs, n \in 1 .. MaxBytes :
        u \in trafficUsers \ users /\ recorded[u][d] >= n
            ~> u \in users \/ replaced \/ billed[u][d] - doubtful[u][d] >= n
=============================================================================
