--------------------------- MODULE TrafficProofs ---------------------------
(***************************************************************************)
(* Proof that a runtime loses no traffic, for every set of users, every    *)
(* threshold and any number of refused pushes and lost responses, up to    *)
(* the flush that precedes its replacement.                                *)
(***************************************************************************)
EXTENDS Traffic, TLAPS

(* The baseline never overtakes a counter, and a pending snapshot lies     *)
(* between the two with the delta it was reported with.                    *)
BaselineBelow ==
    \A u \in Uids, d \in Dirs :
        /\ committed[u][d] <= counters[u][d]
        /\ pending[u] # NoPending =>
              /\ committed[u][d] <= pending[u].total[d]
              /\ pending[u].total[d] <= counters[u][d]
              /\ pending[u].reported.delta[d] = pending[u].total[d] - committed[u][d]

TrafficInv == TrafficTypeOK /\ (replaced \/ BaselineBelow) /\ NothingLost

(* With the baseline below the counter, the delta is their difference.     *)
LEMMA DeltaIsDifference ==
    ASSUME TrafficTypeOK, BaselineBelow, NEW u \in Uids
    PROVE  /\ Delta(u) \in Totals
           /\ \A d \in Dirs : Delta(u)[d] = counters[u][d] - committed[u][d]
BY DEF TrafficTypeOK, BaselineBelow, Delta, trafficDelta, Totals

(* Whatever the baseline, a delta is a number of bytes.                    *)
LEMMA DeltaType ==
    ASSUME TrafficTypeOK, NEW u \in Uids
    PROVE  Delta(u) \in Totals /\ Reported(u) \in UserTraffic
BY DEF TrafficTypeOK, Delta, trafficDelta, Totals, Reported, UserTraffic

(* A report built by Push is well formed.                                  *)
LEMMA PushType ==
    ASSUME TrafficTypeOK, NEW to \in SUBSET Uids, Push(to)
    PROVE  rep' = NoReport \/ IsReport(rep')
<1>1. \A u \in to : Reported(u) \in UserTraffic
  BY DeltaType
<1>2. [u \in to |-> Reported(u)] \in [to -> UserTraffic]
  BY <1>1
<1> QED BY <1>2 DEF Push, IsReport

(* What a report under way contains.                                       *)
LEMMA ReportFields ==
    ASSUME TrafficTypeOK, rep.pc \in {"send", "commit"}
    PROVE  /\ IsReport(rep)
           /\ \A u \in DOMAIN rep.items, d \in Dirs :
                 u \in Uids /\ rep.items[u].delta[d] \in Nat
<1>1. IsReport(rep)
  BY DEF TrafficTypeOK, NoReport
<1>2. PICK S \in SUBSET Uids : rep.items \in [S -> UserTraffic]
  BY <1>1 DEF IsReport
<1> QED BY <1>1, <1>2 DEF UserTraffic, Totals

(* The invariant holds initially.                                          *)
LEMMA TrafficInvInit == TrafficInit => TrafficInv
<1> SUFFICES ASSUME TrafficInit PROVE TrafficInv
  OBVIOUS
<1>1. Zero \in [Uids -> Totals]
  BY DEF Zero, Totals
<1>2. TrafficTypeOK
  BY <1>1 DEF TrafficInit, TrafficTypeOK
<1>3. BaselineBelow
  BY DEF TrafficInit, BaselineBelow, Zero
<1>4. \A u \in Uids, d \in Dirs : Delta(u)[d] = 0 /\ InFlight(u, d) = 0
  BY <1>2, <1>3, DeltaIsDifference DEF TrafficInit, Zero, InFlight, NoReport
<1>5. NothingLost
  BY <1>4 DEF TrafficInit, NothingLost, Zero
<1> QED BY <1>2, <1>3, <1>5 DEF TrafficInv

(* A session step that counts nothing leaves the books alone.              *)
LEMMA BooksUnchanged ==
    ASSUME TrafficInv, TrafficTypeOK',
           UNCHANGED <<counters, committed, pending, rep, recorded, billed, replaced>>
    PROVE  TrafficInv'
BY DEF TrafficInv, BaselineBelow, NothingLost, Delta, InFlight

(* Counting a byte moves counter and history together.                     *)
LEMMA CountStep ==
    ASSUME TrafficInv, ~replaced, NEW u \in Uids, NEW d \in Dirs, Count(u, d), TrafficTypeOK',
           UNCHANGED <<committed, pending, rep, billed, replaced>>
    PROVE  TrafficInv'
<1> USE DEF TrafficInv
<1>1. \A v \in Uids, e \in Dirs :
         /\ counters[v][e] \in Nat /\ counters'[v][e] \in Nat
         /\ counters'[v][e] = counters[v][e] + (IF v = u /\ e = d THEN 1 ELSE 0)
         /\ recorded'[v][e] = recorded[v][e] + (IF v = u /\ e = d THEN 1 ELSE 0)
         /\ recorded[v][e] \in Nat
         /\ committed[v][e] \in Nat
         /\ pending[v] # NoPending => pending[v].total[e] \in Nat
  BY DEF Count, TrafficTypeOK, PendingTraffic, Totals
<1>2. BaselineBelow'
  BY <1>1 DEF BaselineBelow
<1>3. \A v \in Uids, e \in Dirs :
         /\ Delta(v)'[e] = counters'[v][e] - committed[v][e]
         /\ Delta(v)[e] = counters[v][e] - committed[v][e]
  BY <1>2, DeltaIsDifference DEF Delta, BaselineBelow, TrafficTypeOK, Totals, trafficDelta
<1>4. \A v \in Uids, e \in Dirs :
         /\ InFlight(v, e)' = InFlight(v, e) /\ InFlight(v, e) \in Int
         /\ billed[v][e] \in Nat
  BY ReportFields DEF InFlight, TrafficTypeOK, Totals
<1>5. NothingLost'
  BY <1>1, <1>3, <1>4 DEF NothingLost
<1> QED BY <1>2, <1>5

(* Reading Traffic replaces pending snapshots by current ones.             *)
LEMMA ReadStep ==
    ASSUME TrafficInv, ~replaced, NEW threshold, TrafficRead(threshold), TrafficTypeOK',
           rep.pc # "commit", rep'.pc # "commit",
           UNCHANGED <<counters, committed, recorded, billed, replaced>>
    PROVE  TrafficInv'
<1> USE DEF TrafficInv
<1>1. BaselineBelow'
  <2> SUFFICES ASSUME NEW u \in Uids, NEW d \in Dirs, pending'[u] # NoPending
               PROVE  /\ committed[u][d] <= pending'[u].total[d]
                      /\ pending'[u].total[d] <= counters[u][d]
                      /\ pending'[u].reported.delta[d]
                            = pending'[u].total[d] - committed[u][d]
    BY DEF BaselineBelow
  <2>1. CASE pending'[u] = pending[u]
    BY <2>1 DEF BaselineBelow
  <2>2. CASE pending'[u] = [total |-> counters[u], reported |-> Reported(u)]
    <3>1. /\ Delta(u)[d] = counters[u][d] - committed[u][d]
          /\ counters[u][d] \in Nat /\ committed[u][d] <= counters[u][d]
      BY DeltaIsDifference DEF TrafficTypeOK, Totals, BaselineBelow
    <3> QED BY <2>2, <3>1 DEF Reported
  <2> QED BY <2>1, <2>2 DEF TrafficRead
<1>2. NothingLost'
  BY DEF NothingLost, InFlight, Delta
<1> QED BY <1>1, <1>2

(* Totals with the deltas of a report added.                               *)
LEMMA PlusStep ==
    ASSUME TrafficTypeOK, rep.pc = "send", NEW totals \in [Uids -> Totals]
    PROVE  /\ Plus(totals, rep.items) \in [Uids -> Totals]
           /\ \A u \in Uids, d \in Dirs :
                 Plus(totals, rep.items)[u][d] = totals[u][d] +
                     (IF u \in DOMAIN rep.items THEN rep.items[u].delta[d] ELSE 0)
<1>1. \A u \in DOMAIN rep.items, d \in Dirs : rep.items[u].delta[d] \in Nat
  BY ReportFields
<1> QED BY <1>1 DEF Plus, Totals

(* Billing adds exactly the deltas of the report.                          *)
LEMMA BillStep ==
    ASSUME TrafficTypeOK, rep.pc = "send", Bill(rep.items)
    PROVE  /\ billed' \in [Uids -> Totals]
           /\ \A u \in Uids, d \in Dirs :
                 billed'[u][d] = billed[u][d] +
                     (IF u \in DOMAIN rep.items THEN rep.items[u].delta[d] ELSE 0)
<1>1. billed \in [Uids -> Totals]
  BY DEF TrafficTypeOK
<1> QED BY <1>1, PlusStep DEF Bill

(* Reading Traffic keeps the type of what it writes.                       *)
LEMMA ReadType ==
    ASSUME TrafficTypeOK, NEW threshold, TrafficRead(threshold)
    PROVE  /\ trafficUsers' \subseteq Uids
           /\ pending' \in [Uids -> {NoPending} \cup PendingTraffic]
<1>1. \A u \in Uids : counters[u] \in Totals /\ Reported(u) \in UserTraffic
  BY DeltaType DEF TrafficTypeOK
<1> QED BY <1>1 DEF TrafficRead, TrafficTypeOK, PendingTraffic

(* Type correctness is kept by every step of a single runtime.             *)
LEMMA TypeStep ==
    ASSUME TrafficTypeOK, [Next]_vars
    PROVE  TrafficTypeOK'
<1>1. ASSUME NEW u \in Uids, OpenSession(u) \/ Release(u) \/ LateNothing(u)
                             \/ AddUser(u) \/ DeleteUser(u)
      PROVE  TrafficTypeOK'
  BY <1>1 DEF OpenSession, Release, LateNothing, AddUser, DeleteUser, Released,
     TrafficTypeOK, historyVars
<1>2. ASSUME NEW u \in Uids, NEW d \in Dirs, Record(u, d) \/ LateRecord(u, d)
      PROVE  TrafficTypeOK'
  <2>0. Count(u, d)
    BY <1>2 DEF Record, LateRecord
  <2>1. counters' \in [Uids -> Totals] /\ recorded' \in [Uids -> Totals]
    BY <2>0 DEF Count, TrafficTypeOK, Totals
  <2> QED BY <1>2, <2>1 DEF Record, LateRecord, TrafficTypeOK
<1>3. ASSUME ReportTask PROVE TrafficTypeOK'
  <2>1. /\ trafficUsers' \subseteq Uids
        /\ pending' \in [Uids -> {NoPending} \cup PendingTraffic]
    BY <1>3, ReadType DEF ReportTask
  <2>2. ToReport(Due(TrafficMin)) \subseteq Uids
    BY DEF ToReport, Due, TrafficTypeOK
  <2>3. rep' = NoReport \/ IsReport(rep')
    BY <1>3, <2>2, PushType DEF ReportTask
  <2> QED BY <1>3, <2>1, <2>3 DEF ReportTask, TrafficTypeOK, sessionVars, historyVars
<1>4. ASSUME PushAccepted PROVE TrafficTypeOK'
  <2>1. IsReport(rep')
    <3>1. IsReport(rep)
      BY <1>4, ReportFields DEF PushAccepted
    <3> QED BY <1>4, <3>1 DEF PushAccepted, IsReport
  <2>2. billed' \in [Uids -> Totals]
    BY <1>4, BillStep DEF PushAccepted
  <2> QED BY <1>4, <2>1, <2>2 DEF PushAccepted, TrafficTypeOK, sessionVars
<1>5. ASSUME PushAckLost PROVE TrafficTypeOK'
  <2>1. billed' \in [Uids -> Totals] /\ doubtful' \in [Uids -> Totals]
    BY <1>5, BillStep, PlusStep DEF PushAckLost, TrafficTypeOK
  <2> QED BY <1>5, <2>1 DEF PushAckLost, TrafficTypeOK, sessionVars
<1>6. ASSUME PushRefused PROVE TrafficTypeOK'
  BY <1>6 DEF PushRefused, TrafficTypeOK, sessionVars, historyVars
<1>7. ASSUME Commit PROVE TrafficTypeOK'
  <2>1. /\ committed' \in [Uids -> Totals]
        /\ pending' \in [Uids -> {NoPending} \cup PendingTraffic]
    BY <1>7 DEF Commit, CommitTraffic, TrafficTypeOK, PendingTraffic
  <2> QED BY <1>7, <2>1 DEF Commit, TrafficTypeOK, sessionVars, historyVars
<1>8. ASSUME StopNode PROVE TrafficTypeOK'
  BY <1>8 DEF StopNode, TrafficTypeOK, historyVars
<1>9. ASSUME FlushUserTraffic PROVE TrafficTypeOK'
  <2>1. /\ trafficUsers' \subseteq Uids
        /\ pending' \in [Uids -> {NoPending} \cup PendingTraffic]
    BY <1>9, ReadType DEF FlushUserTraffic
  <2>2. Due(0) \subseteq Uids
    BY DEF Due, TrafficTypeOK
  <2>3. rep' = NoReport \/ IsReport(rep')
    BY <1>9, <2>2, PushType DEF FlushUserTraffic
  <2> QED BY <1>9, <2>1, <2>3 DEF FlushUserTraffic, TrafficTypeOK, sessionVars, historyVars
<1>10. ASSUME NEW next \in SUBSET Uids, Replace(next) PROVE TrafficTypeOK'
  <2>1. Zero \in [Uids -> Totals]
    BY DEF Zero, Totals
  <2> QED BY <1>10, <2>1 DEF Replace, TrafficTypeOK
<1>11. CASE UNCHANGED vars
  BY <1>11 DEF vars, TrafficTypeOK
<1> QED BY <1>1, <1>2, <1>3, <1>4, <1>5, <1>6, <1>7, <1>8, <1>9, <1>10, <1>11
        DEF Next, SessionStep, ReportStep, ReloadStep

(* An accepted push is billed and in flight until it is committed.         *)
LEMMA PushStep ==
    ASSUME TrafficInv, ~replaced, TrafficTypeOK', PushAccepted \/ PushAckLost \/ PushRefused
    PROVE  TrafficInv'
<1> USE DEF TrafficInv
<1>0. rep.pc = "send" /\ UNCHANGED <<counters, committed, pending, recorded, replaced>>
  BY DEF PushAccepted, PushAckLost, PushRefused, historyVars
<1>1. BaselineBelow'
  BY <1>0 DEF BaselineBelow
<1>2. \A u \in Uids, d \in Dirs :
         /\ InFlight(u, d) = 0
         /\ Delta(u)'[d] = Delta(u)[d] /\ Delta(u)[d] \in Int
         /\ billed[u][d] \in Nat /\ recorded[u][d] \in Nat
  BY <1>0, DeltaIsDifference DEF InFlight, Delta, TrafficTypeOK, Totals
<1>3. \A u \in DOMAIN rep.items, d \in Dirs : rep.items[u].delta[d] \in Nat
  BY <1>0, ReportFields
<1>4. NothingLost'
  <2>1. CASE PushAccepted
    <3>1. \A u \in Uids, d \in Dirs :
             InFlight(u, d)' =
                 IF u \in DOMAIN rep.items THEN rep.items[u].delta[d] ELSE 0
      <4>1. IsReport(rep)
        BY <1>0, ReportFields
      <4>2. rep'.pc = "commit" /\ rep'.items = rep.items
        BY <2>1, <4>1 DEF PushAccepted, IsReport
      <4> QED BY <4>2 DEF InFlight
    <3>2. \A u \in Uids, d \in Dirs :
             billed'[u][d] - InFlight(u, d)' = billed[u][d] - InFlight(u, d)
      BY <1>0, <1>2, <1>3, <2>1, <3>1, BillStep DEF PushAccepted
    <3> QED BY <1>0, <1>2, <3>2 DEF NothingLost
  <2>2. CASE PushAckLost
    <3>1. \A u \in Uids, d \in Dirs :
             /\ InFlight(u, d)' = 0
             /\ billed'[u][d] \in Nat /\ billed'[u][d] >= billed[u][d]
      BY <1>0, <1>2, <1>3, <2>2, BillStep DEF PushAckLost, InFlight, NoReport
    <3> QED BY <1>0, <1>2, <3>1 DEF NothingLost
  <2>3. CASE PushRefused
    <3>1. \A u \in Uids, d \in Dirs : InFlight(u, d)' = 0 /\ billed'[u][d] = billed[u][d]
      BY <2>3 DEF PushRefused, InFlight, NoReport, historyVars
    <3> QED BY <1>0, <1>2, <3>1 DEF NothingLost
  <2> QED BY <2>1, <2>2, <2>3
<1> QED BY <1>1, <1>4

(* A commit moves the baseline by what was in flight, or not at all.       *)
LEMMA CommitStep ==
    ASSUME TrafficInv, ~replaced, TrafficTypeOK', Commit
    PROVE  TrafficInv'
<1> USE DEF TrafficInv
<1>0. rep.pc = "commit" /\ UNCHANGED <<counters, recorded, billed, replaced>>
  BY DEF Commit, historyVars
<1>1. \A u \in Uids, d \in Dirs :
         /\ counters[u][d] \in Nat /\ committed[u][d] \in Nat
         /\ billed[u][d] \in Nat /\ recorded[u][d] \in Nat
         /\ pending[u] # NoPending => pending[u].total[d] \in Nat
  BY DEF TrafficTypeOK, PendingTraffic, Totals
<1>2. \A u \in DOMAIN rep.items, d \in Dirs : rep.items[u].delta[d] \in Nat
  BY <1>0, ReportFields
<1> DEFINE Exact(u) == /\ u \in DOMAIN rep.items /\ pending[u] # NoPending
                       /\ pending[u].reported = rep.items[u]
<1>3. \A u \in Uids :
         /\ Exact(u) => committed'[u] = pending[u].total /\ pending'[u] = NoPending
         /\ ~Exact(u) => committed'[u] = committed[u] /\ pending'[u] = pending[u]
  BY DEF Commit, CommitTraffic
<1>4. BaselineBelow'
  BY <1>0, <1>3 DEF BaselineBelow
<1>5. NothingLost'
  <2> SUFFICES ASSUME NEW u \in Uids, NEW d \in Dirs
               PROVE  recorded[u][d] <=
                        billed[u][d] - InFlight(u, d)' + Delta(u)'[d]
    BY <1>0 DEF NothingLost
  <2>1. recorded[u][d] <= billed[u][d] - InFlight(u, d) + Delta(u)[d]
    BY DEF NothingLost
  <2>2. InFlight(u, d)' = 0
    BY DEF InFlight, Commit, NoReport
  <2>3. /\ Delta(u)[d] = counters[u][d] - committed[u][d]
        /\ Delta(u)'[d] = counters[u][d] - committed'[u][d]
    BY <1>0, <1>4, DeltaIsDifference
    DEF Delta, BaselineBelow, TrafficTypeOK, Totals, trafficDelta
  <2>4. CASE Exact(u)
    <3>1. InFlight(u, d) = pending[u].total[d] - committed[u][d]
      BY <1>0, <2>4 DEF InFlight, BaselineBelow
    <3>2. committed'[u][d] = pending[u].total[d]
      BY <1>3, <2>4
    <3> QED BY <1>1, <2>1, <2>2, <2>3, <2>4, <3>1, <3>2
  <2>5. CASE ~Exact(u)
    <3>1. InFlight(u, d) \in Nat
      BY <1>2 DEF InFlight
    <3>2. committed'[u][d] = committed[u][d]
      BY <1>3, <2>5
    <3> QED BY <1>1, <2>1, <2>2, <2>3, <3>1, <3>2
  <2> QED BY <2>4, <2>5
<1> QED BY <1>4, <1>5

(* The three conjuncts together are inductive.                             *)
LEMMA TrafficInvStep == TrafficInv /\ [Next]_vars => TrafficInv'
<1> SUFFICES ASSUME TrafficInv, [Next]_vars PROVE TrafficInv'
  OBVIOUS
<1>0. TrafficTypeOK'
  BY TypeStep DEF TrafficInv
<1>1. CASE replaced'
  BY <1>0, <1>1 DEF TrafficInv, NothingLost
<1>2. CASE ~replaced'
  <2>0. ~replaced
    BY <1>2 DEF Next, SessionStep, ReportStep, ReloadStep, OpenSession, Release,
       LateNothing, Record, LateRecord, AddUser, DeleteUser, ReportTask, PushAccepted,
       PushAckLost, PushRefused, Commit, StopNode, FlushUserTraffic, Replace, vars,
       historyVars
  <2>1. ASSUME NEW u \in Uids, OpenSession(u) \/ Release(u) \/ LateNothing(u)
                               \/ AddUser(u) \/ DeleteUser(u)
        PROVE  TrafficInv'
    BY <1>0, <2>1, BooksUnchanged
    DEF OpenSession, Release, LateNothing, AddUser, DeleteUser, historyVars
  <2>2. ASSUME NEW u \in Uids, NEW d \in Dirs, Record(u, d) \/ LateRecord(u, d)
        PROVE  TrafficInv'
    BY <1>0, <2>0, <2>2, CountStep DEF Record, LateRecord
  <2>3. ASSUME ReportTask PROVE TrafficInv'
    <3>1. rep.pc # "commit" /\ rep'.pc # "commit"
      BY <2>3 DEF ReportTask, Push, NoReport
    <3> QED BY <1>0, <2>0, <2>3, <3>1, ReadStep DEF ReportTask, historyVars
  <2>4. ASSUME PushAccepted \/ PushAckLost \/ PushRefused PROVE TrafficInv'
    BY <1>0, <2>0, <2>4, PushStep
  <2>5. ASSUME Commit PROVE TrafficInv'
    BY <1>0, <2>0, <2>5, CommitStep
  <2>6. ASSUME StopNode PROVE TrafficInv'
    BY <1>0, <2>6, BooksUnchanged DEF StopNode, historyVars
  <2>7. ASSUME FlushUserTraffic PROVE TrafficInv'
    <3>1. rep.pc # "commit" /\ rep'.pc # "commit"
      BY <2>7 DEF FlushUserTraffic, Push, NoReport
    <3> QED BY <1>0, <2>0, <2>7, <3>1, ReadStep DEF FlushUserTraffic, historyVars
  <2>8. ASSUME NEW next \in SUBSET Uids, Replace(next) PROVE FALSE
    BY <1>2, <2>8 DEF Replace
  <2>9. CASE UNCHANGED vars
    BY <1>0, <2>9, BooksUnchanged DEF vars
  <2> QED BY <2>1, <2>2, <2>3, <2>4, <2>5, <2>6, <2>7, <2>8, <2>9
          DEF Next, SessionStep, ReportStep, ReloadStep
<1> QED BY <1>1, <1>2

(* A runtime loses no byte until it is replaced, whatever the panel        *)
(* answers and whenever sessions record.                                   *)
THEOREM NothingLostCorrect == Spec => []NothingLost
<1>1. TrafficInv => NothingLost
  BY DEF TrafficInv
<1> QED BY <1>1, TrafficInvInit, TrafficInvStep, PTL DEF Spec

(* Type correctness of the accounting state, replacements included.        *)
THEOREM TrafficTypeCorrect == Spec => []TrafficTypeOK
<1>1. TrafficInv => TrafficTypeOK
  BY DEF TrafficInv
<1> QED BY <1>1, TrafficInvInit, TrafficInvStep, PTL DEF Spec
-----------------------------------------------------------------------------
(* No byte is billed twice.                                                *)

(* What was recorded and not yet settled with the panel: a push whose      *)
(* response was lost settles nothing, an accepted one settles at Commit.   *)
Unsettled(u, d) == recorded[u][d] + doubtful[u][d] - billed[u][d] + InFlight(u, d)

(* The next delta is covered by unsettled bytes, and so is a pending one   *)
(* together with what was counted since: whichever of the two is reported, *)
(* it is reported once.                                                    *)
Covered ==
    \A u \in Uids, d \in Dirs :
        /\ Delta(u)[d] <= Unsettled(u, d)
        /\ pending[u] # NoPending =>
              /\ pending[u].total[d] <= counters[u][d]
              /\ pending[u].reported.delta[d] + counters[u][d] - pending[u].total[d]
                    <= Unsettled(u, d)

(* While a report is under way nobody reads Traffic, so what it names is   *)
(* still pending.                                                          *)
StillPending ==
    rep.pc \in {"send", "commit"} =>
        \A u \in DOMAIN rep.items :
            pending[u] # NoPending /\ pending[u].reported = rep.items[u]

LedgerInv == TrafficTypeOK /\ Covered /\ StillPending

(* The numbers of one user and direction.                                  *)
LEMMA LedgerNumbers ==
    ASSUME TrafficTypeOK, NEW u \in Uids, NEW d \in Dirs
    PROVE  /\ counters[u][d] \in Nat /\ committed[u][d] \in Nat
           /\ recorded[u][d] \in Nat /\ billed[u][d] \in Nat /\ doubtful[u][d] \in Nat
           /\ InFlight(u, d) \in Nat /\ Delta(u)[d] \in Nat
           /\ Unsettled(u, d) \in Int
           /\ pending[u] # NoPending =>
                 pending[u].total[d] \in Nat /\ pending[u].reported.delta[d] \in Nat
<1>1. InFlight(u, d) \in Nat
  BY ReportFields DEF InFlight
<1>2. Delta(u)[d] \in Nat
  BY DeltaType DEF Totals
<1>3. /\ counters[u][d] \in Nat /\ committed[u][d] \in Nat
      /\ recorded[u][d] \in Nat /\ billed[u][d] \in Nat /\ doubtful[u][d] \in Nat
      /\ pending[u] # NoPending =>
            pending[u].total[d] \in Nat /\ pending[u].reported.delta[d] \in Nat
  BY DEF TrafficTypeOK, PendingTraffic, Totals, UserTraffic
<1> QED BY <1>1, <1>2, <1>3 DEF Unsettled

(* The ledger is balanced initially.                                       *)
LEMMA LedgerInit == TrafficInit => LedgerInv
<1> SUFFICES ASSUME TrafficInit PROVE LedgerInv
  OBVIOUS
<1>1. TrafficTypeOK
  BY TrafficInvInit DEF TrafficInv
<1>2. StillPending
  BY DEF TrafficInit, StillPending, NoReport
<1>3. Covered
  <2> SUFFICES ASSUME NEW u \in Uids, NEW d \in Dirs
               PROVE  Delta(u)[d] <= Unsettled(u, d)
    BY DEF Covered, TrafficInit
  <2>1. Delta(u)[d] = 0
    BY DEF Delta, trafficDelta, TrafficInit, Zero
  <2>2. Unsettled(u, d) = 0
    BY DEF Unsettled, InFlight, TrafficInit, Zero, NoReport
  <2> QED BY <2>1, <2>2
<1> QED BY <1>1, <1>2, <1>3 DEF LedgerInv

(* A step outside the books changes nothing.                               *)
LEMMA LedgerUnchanged ==
    ASSUME LedgerInv, TrafficTypeOK',
           UNCHANGED <<counters, committed, pending, rep, recorded, billed, doubtful>>
    PROVE  LedgerInv'
BY DEF LedgerInv, Covered, StillPending, Unsettled, Delta, InFlight

(* A counted byte is an unsettled one; a counter that reaches the baseline *)
(* of an earlier runtime only makes the delta smaller.                     *)
LEMMA LedgerCount ==
    ASSUME LedgerInv, NEW u \in Uids, NEW d \in Dirs, Count(u, d), TrafficTypeOK',
           UNCHANGED <<committed, pending, rep, billed, doubtful>>
    PROVE  LedgerInv'
<1> USE DEF LedgerInv
<1>1. StillPending'
  BY DEF StillPending
<1>2. Covered'
  <2> SUFFICES ASSUME NEW v \in Uids, NEW e \in Dirs
               PROVE  /\ Delta(v)'[e] <= Unsettled(v, e)'
                      /\ pending[v] # NoPending =>
                            /\ pending[v].total[e] <= counters'[v][e]
                            /\ pending[v].reported.delta[e] + counters'[v][e]
                                  - pending[v].total[e] <= Unsettled(v, e)'
    BY DEF Covered
  <2> DEFINE one == IF v = u /\ e = d THEN 1 ELSE 0
  <2>1. counters'[v][e] = counters[v][e] + one /\ recorded'[v][e] = recorded[v][e] + one
    BY DEF Count, TrafficTypeOK, Totals
  <2>2. InFlight(v, e)' = InFlight(v, e) /\ one \in {0, 1}
    BY DEF InFlight
  <2> HIDE DEF one
  <2>3. Unsettled(v, e)' = Unsettled(v, e) + one
    <3>1. /\ recorded[v][e] \in Nat /\ doubtful[v][e] \in Nat
          /\ billed[v][e] \in Nat /\ InFlight(v, e) \in Nat
      BY LedgerNumbers
    <3>2. billed'[v][e] = billed[v][e] /\ doubtful'[v][e] = doubtful[v][e]
      OBVIOUS
    <3> QED BY <2>1, <2>2, <3>1, <3>2 DEF Unsettled
  <2>4. Delta(v)'[e] \in Nat /\ Delta(v)'[e] <= Delta(v)[e] + one
    BY <2>1, <2>2, LedgerNumbers DEF Delta, trafficDelta
  <2> QED BY <2>1, <2>2, <2>3, <2>4, LedgerNumbers DEF Covered
<1> QED BY <1>1, <1>2

(* A snapshot is read: it is the delta of now, and nothing was counted     *)
(* since.                                                                  *)
LEMMA LedgerRead ==
    ASSUME LedgerInv, TrafficTypeOK', rep = NoReport,
           NEW threshold, TrafficRead(threshold),
           NEW to \in SUBSET Due(threshold), Push(to),
           UNCHANGED <<counters, committed, recorded, billed, doubtful>>
    PROVE  LedgerInv'
<1> USE DEF LedgerInv
<1>1. to \subseteq Uids
  BY DEF Due, TrafficTypeOK
<1>2. \A u \in to : pending'[u] = [total |-> counters[u], reported |-> Reported(u)]
  BY <1>1 DEF TrafficRead, Due, Quiet
<1>3. \A u \in to : pending'[u] # NoPending
  <2> TAKE u \in to
  <2>1. counters[u] \in Totals /\ Reported(u) \in UserTraffic
    BY <1>1, DeltaType DEF TrafficTypeOK
  <2>2. [total |-> counters[u], reported |-> Reported(u)] \in PendingTraffic
    BY <2>1 DEF PendingTraffic
  <2> QED BY <1>2, <2>2, PendingAssumption
<1>4. StillPending' /\ rep'.pc # "commit"
  <2>1. CASE to = {}
    BY <2>1 DEF Push, StillPending, NoReport
  <2>2. CASE to # {}
    <3>1. rep' = [pc |-> "send", items |-> [u \in to |-> Reported(u)]]
      BY <2>2 DEF Push
    <3>2. /\ rep'.pc = "send" /\ DOMAIN rep'.items = to
          /\ \A u \in to : rep'.items[u] = Reported(u)
      BY <3>1
    <3>3. \A u \in to : pending'[u].reported = Reported(u)
      <4> TAKE u \in to
      <4>1. pending'[u] = [total |-> counters[u], reported |-> Reported(u)]
        BY <1>2
      <4> QED BY <4>1
    <3> QED BY <1>3, <3>2, <3>3 DEF StillPending
  <2> QED BY <2>1, <2>2
<1>5. Covered'
  <2> SUFFICES ASSUME NEW u \in Uids, NEW d \in Dirs
               PROVE  /\ Delta(u)[d] <= Unsettled(u, d)
                      /\ pending'[u] # NoPending =>
                            /\ pending'[u].total[d] <= counters[u][d]
                            /\ pending'[u].reported.delta[d] + counters[u][d]
                                  - pending'[u].total[d] <= Unsettled(u, d)
    BY <1>4 DEF Covered, Unsettled, Delta, InFlight, NoReport
  <2>1. CASE pending'[u] \in {NoPending, pending[u]}
    BY <2>1 DEF Covered
  <2>2. CASE pending'[u] = [total |-> counters[u], reported |-> Reported(u)]
    BY <2>2, LedgerNumbers DEF Covered, Reported
  <2> QED BY <2>1, <2>2 DEF TrafficRead
<1> QED BY <1>4, <1>5

(* A push settles nothing yet: what is accepted is in flight, what is lost *)
(* is doubtful.                                                            *)
LEMMA LedgerPush ==
    ASSUME LedgerInv, TrafficTypeOK', PushAccepted \/ PushAckLost \/ PushRefused
    PROVE  LedgerInv'
<1> USE DEF LedgerInv
<1>0. rep.pc = "send" /\ UNCHANGED <<counters, committed, pending, recorded>>
  BY DEF PushAccepted, PushAckLost, PushRefused, historyVars
<1>1. IsReport(rep)
  BY <1>0, ReportFields
<1>2. /\ PushAccepted => rep'.pc = "commit" /\ rep'.items = rep.items
      /\ ~PushAccepted => rep'.pc = "idle"
  BY <1>1 DEF PushAccepted, PushAckLost, PushRefused, IsReport, NoReport
<1>3. StillPending'
  BY <1>0, <1>2 DEF StillPending
<1>4. ASSUME NEW u \in Uids, NEW d \in Dirs
      PROVE  Unsettled(u, d)' = Unsettled(u, d)
  <2> DEFINE item == IF u \in DOMAIN rep.items THEN rep.items[u].delta[d] ELSE 0
  <2>0. item \in Nat /\ InFlight(u, d) = 0
    BY <1>0, ReportFields DEF InFlight
  <2>1. CASE PushAccepted
    <3>1. InFlight(u, d)' = item
      BY <1>2, <2>1 DEF InFlight
    <3>2. billed'[u][d] = billed[u][d] + item /\ doubtful' = doubtful
      BY <1>0, <2>1, BillStep DEF PushAccepted
    <3> HIDE DEF item
    <3> QED BY <1>0, <2>0, <3>1, <3>2, LedgerNumbers DEF Unsettled
  <2>2. CASE PushAckLost
    <3>1. InFlight(u, d)' = 0
      BY <2>2 DEF PushAckLost, InFlight, NoReport
    <3>2. doubtful \in [Uids -> Totals]
      BY DEF TrafficTypeOK
    <3>3. billed'[u][d] = billed[u][d] + item /\ doubtful'[u][d] = doubtful[u][d] + item
      BY <1>0, <2>2, <3>2, BillStep, PlusStep DEF PushAckLost
    <3> HIDE DEF item
    <3> QED BY <1>0, <2>0, <3>1, <3>3, LedgerNumbers DEF Unsettled
  <2>3. CASE PushRefused
    BY <2>0, <2>3 DEF PushRefused, InFlight, NoReport, historyVars, Unsettled
  <2> QED BY <2>1, <2>2, <2>3
<1>5. Covered'
  BY <1>0, <1>4 DEF Covered, Delta
<1> QED BY <1>3, <1>5

(* A commit settles what was in flight, and the baseline moves to the      *)
(* snapshot: what was counted since stays covered.                         *)
LEMMA LedgerCommit ==
    ASSUME LedgerInv, TrafficTypeOK', Commit
    PROVE  LedgerInv'
<1> USE DEF LedgerInv
<1>0. /\ rep.pc = "commit" /\ rep'.pc = "idle"
      /\ UNCHANGED <<counters, recorded, billed, doubtful>>
  BY DEF Commit, historyVars, NoReport
<1>1. StillPending'
  BY <1>0 DEF StillPending
<1>2. Covered'
  <2> SUFFICES ASSUME NEW u \in Uids, NEW d \in Dirs
               PROVE  /\ Delta(u)'[d] <= Unsettled(u, d)'
                      /\ pending'[u] # NoPending =>
                            /\ pending'[u].total[d] <= counters[u][d]
                            /\ pending'[u].reported.delta[d] + counters[u][d]
                                  - pending'[u].total[d] <= Unsettled(u, d)'
    BY <1>0 DEF Covered
  <2>1. Unsettled(u, d)' = Unsettled(u, d) - InFlight(u, d)
    <3>1. InFlight(u, d)' = 0
      BY <1>0 DEF InFlight
    <3> QED BY <1>0, <3>1, LedgerNumbers DEF Unsettled
  <2>2. CASE u \in DOMAIN rep.items
    <3>1. /\ pending[u] # NoPending
          /\ InFlight(u, d) = pending[u].reported.delta[d]
      BY <1>0, <2>2 DEF StillPending, InFlight
    <3>2. committed'[u] = pending[u].total /\ pending'[u] = NoPending
      BY <1>0, <2>2 DEF Commit, CommitTraffic, StillPending
    <3>3. Delta(u)'[d] = counters[u][d] - pending[u].total[d]
      BY <1>0, <3>1, <3>2, LedgerNumbers DEF Delta, trafficDelta, Covered
    <3> QED BY <2>1, <3>1, <3>2, <3>3, LedgerNumbers DEF Covered
  <2>3. CASE u \notin DOMAIN rep.items
    <3>1. committed'[u] = committed[u] /\ pending'[u] = pending[u]
      BY <2>3 DEF Commit, CommitTraffic
    <3>2. InFlight(u, d) = 0 /\ Delta(u)'[d] = Delta(u)[d]
      BY <1>0, <2>3, <3>1 DEF InFlight, Delta
    <3> QED BY <2>1, <3>1, <3>2, LedgerNumbers DEF Covered
  <2> QED BY <2>2, <2>3
<1> QED BY <1>1, <1>2

(* A replacement runtime counts from 0 against the old baseline: its delta *)
(* is nothing, whatever the baseline.                                      *)
LEMMA LedgerReplace ==
    ASSUME LedgerInv, TrafficTypeOK', NEW next, Replace(next)
    PROVE  LedgerInv'
<1> USE DEF LedgerInv
<1>1. StillPending'
  BY DEF Replace, StillPending, NoReport
<1>2. ASSUME NEW u \in Uids, NEW d \in Dirs
      PROVE  /\ Delta(u)'[d] = 0 /\ pending'[u] = NoPending
             /\ Unsettled(u, d)' = Unsettled(u, d)
  BY LedgerNumbers DEF Replace, Delta, trafficDelta, Zero, Unsettled, InFlight
<1>3. Covered'
  BY <1>2, LedgerNumbers DEF Covered
<1> QED BY <1>1, <1>3

(* The ledger is kept by every step, replacements included.                *)
LEMMA LedgerStep == LedgerInv /\ [Next]_vars => LedgerInv'
<1> SUFFICES ASSUME LedgerInv, [Next]_vars PROVE LedgerInv'
  OBVIOUS
<1>0. TrafficTypeOK'
  BY TypeStep DEF LedgerInv
<1>1. ASSUME NEW u \in Uids, OpenSession(u) \/ Release(u) \/ LateNothing(u)
                             \/ AddUser(u) \/ DeleteUser(u)
      PROVE  LedgerInv'
  BY <1>0, <1>1, LedgerUnchanged
  DEF OpenSession, Release, LateNothing, AddUser, DeleteUser, historyVars
<1>2. ASSUME NEW u \in Uids, NEW d \in Dirs, Record(u, d) \/ LateRecord(u, d)
      PROVE  LedgerInv'
  BY <1>0, <1>2, LedgerCount DEF Record, LateRecord
<1>3. ASSUME ReportTask PROVE LedgerInv'
  <2>1. ToReport(Due(TrafficMin)) \in SUBSET Due(TrafficMin)
    BY DEF ToReport
  <2> QED BY <1>0, <1>3, <2>1, LedgerRead DEF ReportTask, historyVars
<1>4. ASSUME PushAccepted \/ PushAckLost \/ PushRefused PROVE LedgerInv'
  BY <1>0, <1>4, LedgerPush
<1>5. ASSUME Commit PROVE LedgerInv'
  BY <1>0, <1>5, LedgerCommit
<1>6. ASSUME StopNode PROVE LedgerInv'
  BY <1>0, <1>6, LedgerUnchanged DEF StopNode, historyVars
<1>7. ASSUME FlushUserTraffic PROVE LedgerInv'
  BY <1>0, <1>7, LedgerRead DEF FlushUserTraffic, historyVars
<1>8. ASSUME NEW next \in SUBSET Uids, Replace(next) PROVE LedgerInv'
  BY <1>0, <1>8, LedgerReplace
<1>9. CASE UNCHANGED vars
  BY <1>0, <1>9, LedgerUnchanged DEF vars
<1> QED BY <1>1, <1>2, <1>3, <1>4, <1>5, <1>6, <1>7, <1>8, <1>9
        DEF Next, SessionStep, ReportStep, ReloadStep

(* A balanced ledger has billed no more than was recorded.                 *)
LEMMA LedgerSettles == LedgerInv => NeverOverbilled
<1> SUFFICES ASSUME LedgerInv, NEW u \in Uids, NEW d \in Dirs
             PROVE  billed[u][d] <= recorded[u][d] + doubtful[u][d]
  BY DEF NeverOverbilled
<1> USE DEF LedgerInv
<1>1. CASE rep.pc = "commit" /\ u \in DOMAIN rep.items
  <2>1. pending[u] # NoPending /\ pending[u].reported.delta[d] = InFlight(u, d)
    BY <1>1 DEF StillPending, InFlight
  <2> QED BY <2>1, LedgerNumbers DEF Covered, Unsettled
<1>2. CASE ~(rep.pc = "commit" /\ u \in DOMAIN rep.items)
  <2>1. InFlight(u, d) = 0
    BY <1>2 DEF InFlight
  <2> QED BY <2>1, LedgerNumbers DEF Covered, Unsettled
<1> QED BY <1>1, <1>2

(* No byte is billed twice but by a push whose response was lost, across   *)
(* any number of replacements of the runtime.                              *)
THEOREM NeverOverbilledCorrect == Spec => []NeverOverbilled
BY LedgerInit, LedgerStep, LedgerSettles, PTL DEF Spec
=============================================================================
