--------------------------- MODULE LimiterProofs ---------------------------
(***************************************************************************)
(* Proofs about the limiter for every set of connections, addresses, users *)
(* and limits.                                                             *)
(***************************************************************************)
EXTENDS Limiter, FiniteSetTheorems, TLAPS

(* What a connection's record holds at each stage of CheckLimit.           *)
LEMMA ConnFields ==
    ASSUME NEW r \in ConnType
    PROVE  /\ r.pc = "alive" => /\ r.tag \in Tags /\ r.addr \in Addrs
                                /\ r.uid \in Uids /\ r.limit \in DeviceLimits
           /\ r.pc = "track" => /\ r.tag \in Tags /\ r.addr \in Addrs
                                /\ r.uid \in Uids /\ r.limit \in DeviceLimits
                                /\ r.alive \in AliveCounts
           /\ r.pc = "held" => r.tag \in Tags /\ r.addr \in Addrs
BY DEF ConnType, Idle

(* The updater's record while an UpdateUser is under way.                  *)
LEMMA UpdFields ==
    ASSUME TypeOK
    PROVE  upd.pc \in {"alive", "online"} =>
              upd \in [pc : {"alive", "online"}, deleted : SUBSET Tags, uids : SUBSET Uids]
BY DEF TypeOK, NoUpdate

(* Type correctness: no interleaving of checks, releases, updates and      *)
(* reports takes a map of the limiter out of its range.                    *)
THEOREM TypeCorrect == LimiterSpec => []TypeOK
<1> USE UserListAssumption, LimiterAssumption
<1>1. LimiterInit => TypeOK
  BY DEF LimiterInit, AddLimiter, TypeOK, PanelLists, NoUpdate, ConnType
<1>2. TypeOK /\ [LimiterNext]_limiterVars => TypeOK'
  <2> SUFFICES ASSUME TypeOK, [LimiterNext]_limiterVars PROVE TypeOK'
    OBVIOUS
  <2>0. \A c \in Conns : conn[c] \in ConnType
    BY DEF TypeOK
  <2>1. ASSUME NEW c \in Conns, NEW t \in Tags, NEW a \in Addrs, CheckLimit(c, t, a)
        PROVE  TypeOK'
    <3>1. info[t] \in UserLimitInfo
      BY <2>1 DEF CheckLimit, TypeOK, UserList
    <3>2. conn'[c] \in [pc : {"alive"}, tag : Tags, addr : Addrs, uid : Uids,
                        limit : DeviceLimits]
      BY <2>1, <3>1 DEF CheckLimit, TypeOK, UserLimitInfo
    <3> QED BY <2>1, <3>2 DEF CheckLimit, TypeOK, onlineVars, ConnType
  <2>2. ASSUME NEW c \in Conns, CheckLimitAlive(c) PROVE TypeOK'
    <3>1. conn'[c] \in [pc : {"track"}, tag : Tags, addr : Addrs, uid : Uids,
                        limit : DeviceLimits, alive : AliveCounts]
      BY <2>2, <2>0, ConnFields DEF CheckLimitAlive, TypeOK
    <3> QED BY <2>2, <3>1 DEF CheckLimitAlive, TypeOK, onlineVars, ConnType
  <2>3. ASSUME NEW c \in Conns, TrackConnection(c) PROVE TypeOK'
    <3> DEFINE t == conn[c].tag
               a == trim[conn[c].addr]
    <3>1. t \in Tags /\ a \in Addrs /\ conn[c].addr \in Addrs /\ conn[c].uid \in Uids
      BY <2>3, <2>0, ConnFields DEF TrackConnection
    <3>2. CASE /\ TakeSlot(t, a, conn[c].uid)
               /\ conn' = [conn EXCEPT ![c] =
                             [pc |-> "held", tag |-> t, addr |-> conn[c].addr]]
      <4>1. ips' \in [Tags -> [Addrs -> Nat]]
        BY <3>1, <3>2 DEF TakeSlot, TypeOK
      <4>2. conn'[c] \in [pc : {"held"}, tag : Tags, addr : Addrs]
        BY <3>1, <3>2 DEF TypeOK
      <4> QED BY <2>3, <3>1, <3>2, <4>1, <4>2 DEF TrackConnection, TakeSlot, TypeOK, ConnType
    <3>3. CASE conn' = [conn EXCEPT ![c] = Idle] /\ UNCHANGED onlineVars
      BY <2>3, <3>3 DEF TrackConnection, TypeOK, onlineVars, ConnType
    <3> QED BY <2>3, <3>2, <3>3 DEF TrackConnection
  <2>4. ASSUME NEW c \in Conns, ReleaseConnection(c) PROVE TypeOK'
    <3> DEFINE t == conn[c].tag
               a == trim[conn[c].addr]
    <3>1. t \in Tags /\ a \in Addrs
      BY <2>4, <2>0, ConnFields DEF ReleaseConnection
    <3>2. ips' \in [Tags -> [Addrs -> Nat]]
      BY <2>4, <3>1 DEF ReleaseConnection, ReleaseSlot, TypeOK
    <3> QED BY <2>4, <3>1, <3>2 DEF ReleaseConnection, ReleaseSlot, TypeOK, ConnType
  <2>5. ASSUME NEW new \in PanelLists, UpdateUser(new) PROVE TypeOK'
    <3>1. new \in UserList
      BY DEF PanelLists
    <3>2. \A t \in Deleted(info, new) : t \in Tags /\ info[t] \in UserLimitInfo
      BY DEF Deleted, TypeOK, UserList
    <3>3. info' \in UserList
      BY <2>5, <3>1 DEF UpdateUser, TypeOK, UserList
    <3>4. upd' \in [pc : {"alive", "online"}, deleted : SUBSET Tags, uids : SUBSET Uids]
      BY <2>5, <3>2 DEF UpdateUser, UserLimitInfo
    <3> QED BY <2>5, <3>3, <3>4 DEF UpdateUser, TypeOK, onlineVars
  <2>6. ASSUME UpdateAlive PROVE TypeOK'
    <3>1. upd \in [pc : {"alive", "online"}, deleted : SUBSET Tags, uids : SUBSET Uids]
      BY <2>6, UpdFields DEF UpdateAlive
    <3>2. upd' \in [pc : {"alive", "online"}, deleted : SUBSET Tags, uids : SUBSET Uids]
      BY <2>6, <3>1 DEF UpdateAlive
    <3>3. alive' \in [Uids -> AliveCounts]
      BY <2>6 DEF UpdateAlive, TypeOK
    <3> QED BY <2>6, <3>2, <3>3 DEF UpdateAlive, TypeOK, onlineVars
  <2>7. ASSUME UpdateOnline PROVE TypeOK'
    BY <2>7 DEF UpdateOnline, ForgetOnline, TypeOK
  <2>8. ASSUME NEW list \in [Uids -> AliveCounts], SetAliveList(list) PROVE TypeOK'
    BY <2>8 DEF SetAliveList, TypeOK, onlineVars
  <2>9. ASSUME NEW snapshot \in Snapshots, MarkOnlineDeviceReported(snapshot)
        PROVE  TypeOK'
    <3>1. \A t \in Tags : onlineUid[t] # NoUid =>
              {trim[a] : a \in snapshot[onlineUid[t]]} \subseteq Addrs
      BY DEF Snapshots, TypeOK
    <3>2. reported' \in [Tags -> SUBSET Addrs]
      BY <2>9, <3>1 DEF MarkOnlineDeviceReported, TypeOK
    <3> QED BY <2>9, <3>2 DEF MarkOnlineDeviceReported, TypeOK
  <2>10. ASSUME NEW offline \in SUBSET (Tags \X Uids), MarkOfflineUsersReported(offline)
         PROVE  TypeOK'
    BY <2>10 DEF MarkOfflineUsersReported, TypeOK
  <2>11. CASE UNCHANGED limiterVars
    BY <2>11 DEF limiterVars, TypeOK
  <2> QED
    BY <2>1, <2>2, <2>3, <2>4, <2>5, <2>6, <2>7, <2>8, <2>9, <2>10, <2>11
    DEF LimiterNext, CallerStep, UpdateStep, ReportStep
<1> QED BY <1>1, <1>2, PTL DEF LimiterSpec

-----------------------------------------------------------------------------
(* The online map and the pending offline reports agree.                   *)

OnlineInv == TypeOK /\ OnlineHasUid /\ PendingIsOffline

(* Every limiter step keeps the agreement.                                 *)
LEMMA OnlineStep ==
    ASSUME OnlineInv, TypeOK', [LimiterNext]_limiterVars
    PROVE  OnlineHasUid' /\ PendingIsOffline'
<1> USE UserListAssumption, LimiterAssumption DEF OnlineInv
<1>0. \A c \in Conns : conn[c] \in ConnType
  BY DEF TypeOK
<1>1. CASE UNCHANGED onlineVars
  BY <1>1 DEF onlineVars, OnlineHasUid, PendingIsOffline, ActiveIPs
<1>2. ASSUME NEW c \in Conns, TrackConnection(c), ~UNCHANGED onlineVars
      PROVE  OnlineHasUid' /\ PendingIsOffline'
  <2>0. PICK t \in Tags, a \in Addrs, u \in Uids :
           t = conn[c].tag /\ a = trim[conn[c].addr] /\ u = conn[c].uid
    BY <1>2, <1>0, ConnFields DEF TrackConnection
  <2>1. t \in Tags /\ a \in Addrs /\ u \in Uids
    BY <2>0
  <2>2. TakeSlot(t, a, u)
    BY <1>2, <2>0 DEF TrackConnection
  <2>3. a \in ActiveIPs(t)'
    BY <2>1, <2>2 DEF TakeSlot, ActiveIPs, TypeOK
  <2>4. onlineUid'[t] # NoUid
    BY <2>1, <2>2 DEF TakeSlot, OnlineHasUid, TypeOK
  <2>5. \A s \in Tags : s # t => /\ ips'[s] = ips[s]
                                 /\ onlineUid'[s] = onlineUid[s]
                                 /\ pendingOffline'[s] = pendingOffline[s]
    BY <2>1, <2>2 DEF TakeSlot, TypeOK
  <2>6. pendingOffline'[t] = NoUid /\ reported' = reported
    BY <2>1, <2>2 DEF TakeSlot, TypeOK
  <2> QED BY <2>3, <2>4, <2>5, <2>6 DEF OnlineHasUid, PendingIsOffline, ActiveIPs
<1>3. ASSUME NEW c \in Conns, ReleaseConnection(c)
      PROVE  OnlineHasUid' /\ PendingIsOffline'
  <2>0. PICK t \in Tags, a \in Addrs, addr \in Addrs :
           t = conn[c].tag /\ addr = conn[c].addr /\ a = trim[addr]
    BY <1>3, <1>0, ConnFields DEF ReleaseConnection
  <2>1. t \in Tags /\ a \in Addrs
    BY <2>0
  <2>2. ReleaseSlot(t, addr)
    BY <1>3, <2>0 DEF ReleaseConnection
  <2>3. \A s \in Tags : s # t => /\ ips'[s] = ips[s]
                                 /\ onlineUid'[s] = onlineUid[s]
                                 /\ pendingOffline'[s] = pendingOffline[s]
    BY <2>0, <2>1, <2>2 DEF ReleaseSlot, TypeOK
  <2>4. reported' = reported
    BY <2>2 DEF ReleaseSlot
  <2>5. \A b \in Addrs : b # a => ips'[t][b] = ips[t][b]
    BY <2>0, <2>1, <2>2 DEF ReleaseSlot, TypeOK
  <2>6. ips'[t][a] = IF ips[t][a] > 0 THEN ips[t][a] - 1 ELSE 0
    BY <2>0, <2>1, <2>2 DEF ReleaseSlot, TypeOK
  <2>7. CASE LastSlot(t, a)
    <3>1. ActiveIPs(t)' = {}
      BY <2>1, <2>5, <2>6, <2>7, SMTT(30) DEF LastSlot, ActiveIPs, TypeOK
    <3>2. onlineUid'[t] = NoUid
      BY <2>0, <2>1, <2>2, <2>7 DEF ReleaseSlot, TypeOK
    <3>3. pendingOffline'[t] # NoUid => reported[t] # {}
      BY <2>0, <2>1, <2>2, <2>7 DEF ReleaseSlot, TypeOK
    <3> QED BY <2>3, <2>4, <3>1, <3>2, <3>3
            DEF OnlineHasUid, PendingIsOffline, ActiveIPs
  <2>8. CASE ~LastSlot(t, a)
    <3>1. onlineUid'[t] = onlineUid[t] /\ pendingOffline'[t] = pendingOffline[t]
      BY <2>0, <2>1, <2>2, <2>8 DEF ReleaseSlot, TypeOK
    <3>2. (ActiveIPs(t)' # {}) <=> (ActiveIPs(t) # {})
      <4>1. CASE ips[t][a] > 1 \/ ips[t][a] = 0
        <5>1. ips[t][a] \in Nat
          BY <2>1 DEF TypeOK
        <5>2. ips'[t][a] > 0 <=> ips[t][a] > 0
          BY <2>6, <4>1, <5>1
        <5>3. ActiveIPs(t)' = ActiveIPs(t)
          BY <2>1, <2>5, <5>2 DEF ActiveIPs
        <5> QED BY <5>3
      <4>2. CASE ips[t][a] = 1
        <5>1. PICK b \in ActiveIPs(t) : b # a
          BY <2>1, <2>8, <4>2 DEF LastSlot, ActiveIPs
        <5>2. b \in ActiveIPs(t)'
          BY <2>5, <5>1 DEF ActiveIPs
        <5> QED BY <5>1, <5>2
      <4>3. ips[t][a] \in Nat
        BY <2>1 DEF TypeOK
      <4> QED BY <4>1, <4>2, <4>3
    <3> QED BY <2>1, <2>3, <2>4, <3>1, <3>2 DEF OnlineHasUid, PendingIsOffline, ActiveIPs
  <2> QED BY <2>7, <2>8
<1>4. ASSUME UpdateOnline PROVE OnlineHasUid' /\ PendingIsOffline'
  <2>1. \A t \in upd.deleted \cap Tags :
           ActiveIPs(t)' = {} /\ onlineUid'[t] = NoUid /\ pendingOffline'[t] = NoUid
    BY <1>4 DEF UpdateOnline, ForgetOnline, ActiveIPs
  <2>2. \A t \in Tags \ upd.deleted :
           /\ ActiveIPs(t)' = ActiveIPs(t)
           /\ onlineUid'[t] = onlineUid[t] /\ pendingOffline'[t] = pendingOffline[t]
           /\ reported'[t] = reported[t]
    BY <1>4 DEF UpdateOnline, ForgetOnline, ActiveIPs
  <2> QED BY <2>1, <2>2 DEF OnlineHasUid, PendingIsOffline
<1>5. ASSUME NEW snapshot \in Snapshots, MarkOnlineDeviceReported(snapshot)
      PROVE  OnlineHasUid' /\ PendingIsOffline'
  BY <1>5 DEF MarkOnlineDeviceReported, OnlineHasUid, PendingIsOffline, ActiveIPs
<1>6. ASSUME NEW offline \in SUBSET (Tags \X Uids), MarkOfflineUsersReported(offline)
      PROVE  OnlineHasUid' /\ PendingIsOffline'
  BY <1>6 DEF MarkOfflineUsersReported, OnlineHasUid, PendingIsOffline, ActiveIPs
<1>7. CASE UNCHANGED limiterVars
  BY <1>1, <1>7 DEF limiterVars, onlineVars
<1>8. ASSUME NEW c \in Conns, NEW t \in Tags, NEW a \in Addrs,
             CheckLimit(c, t, a) \/ CheckLimitAlive(c)
      PROVE  UNCHANGED onlineVars
  BY <1>8 DEF CheckLimit, CheckLimitAlive
<1>9. ASSUME NEW c \in Conns, CheckLimitAlive(c) PROVE UNCHANGED onlineVars
  BY <1>9 DEF CheckLimitAlive
<1>10. ASSUME NEW new \in PanelLists, UpdateUser(new) PROVE UNCHANGED onlineVars
  BY <1>10 DEF UpdateUser
<1>11. ASSUME NEW list \in [Uids -> AliveCounts], SetAliveList(list)
       PROVE  UNCHANGED onlineVars
  BY <1>11 DEF SetAliveList
<1>12. ASSUME UpdateAlive PROVE UNCHANGED onlineVars
  BY <1>12 DEF UpdateAlive
<1> QED
  BY <1>1, <1>2, <1>3, <1>4, <1>5, <1>6, <1>7, <1>8, <1>9, <1>10, <1>11, <1>12
  DEF LimiterNext, CallerStep, UpdateStep, ReportStep

(* A pending offline report always describes a user without an active      *)
(* address whom the panel was told about.                                  *)
THEOREM PendingIsOfflineCorrect == LimiterSpec => []PendingIsOffline
<1>1. LimiterInit => OnlineHasUid /\ PendingIsOffline
  BY UserListAssumption
  DEF LimiterInit, AddLimiter, OnlineHasUid, PendingIsOffline, ActiveIPs
<1>2. OnlineHasUid /\ PendingIsOffline /\ TypeOK /\ TypeOK' /\ [LimiterNext]_limiterVars
         => (OnlineHasUid /\ PendingIsOffline)'
  BY OnlineStep DEF OnlineInv
<1> QED BY <1>1, <1>2, TypeCorrect, PTL DEF LimiterSpec

(* The online map has an entry exactly for the users with an active        *)
(* address.                                                                *)
THEOREM OnlineHasUidCorrect == LimiterSpec => []OnlineHasUid
<1>1. LimiterInit => OnlineHasUid /\ PendingIsOffline
  BY UserListAssumption
  DEF LimiterInit, AddLimiter, OnlineHasUid, PendingIsOffline, ActiveIPs
<1>2. OnlineHasUid /\ PendingIsOffline /\ TypeOK /\ TypeOK' /\ [LimiterNext]_limiterVars
         => (OnlineHasUid /\ PendingIsOffline)'
  BY OnlineStep DEF OnlineInv
<1> QED BY <1>1, <1>2, TypeCorrect, PTL DEF LimiterSpec

-----------------------------------------------------------------------------
(* Device slots.                                                           *)

(* The holders of a slot are finitely many.                                *)
LEMMA HoldersFinite ==
    ASSUME NEW t, NEW a
    PROVE  /\ IsFiniteSet(Holders(t, a))
           /\ Cardinality(Holders(t, a)) \in Nat
<1>1. Holders(t, a) \subseteq Conns
  BY DEF Holders
<1>2. IsFiniteSet(Holders(t, a))
  BY <1>1, LimiterAssumption, FS_Subset
<1> QED BY <1>2, FS_CardinalityType

(* A step that neither makes nor unmakes a holder and raises no count      *)
(* keeps the counts backed.                                                *)
LEMMA SlotsBackedFrame ==
    ASSUME TypeOK, TypeOK', SlotsBacked,
           \A t \in Tags, a \in Addrs :
               ips'[t][a] <= ips[t][a] /\ Holders(t, a)' = Holders(t, a)
    PROVE  SlotsBacked'
<1> SUFFICES ASSUME NEW t \in Tags, NEW a \in Addrs
             PROVE  ips'[t][a] <= Cardinality(Holders(t, a)')
  BY DEF SlotsBacked
<1>1. Cardinality(Holders(t, a)) \in Nat
  BY HoldersFinite
<1>2. ips[t][a] \in Nat /\ ips'[t][a] \in Nat
  BY DEF TypeOK
<1>3. ips[t][a] <= Cardinality(Holders(t, a))
  BY DEF SlotsBacked
<1> QED BY <1>1, <1>2, <1>3

(* Every limiter step keeps the counts backed.                             *)
LEMMA SlotsBackedStep ==
    ASSUME TypeOK, TypeOK', SlotsBacked, [LimiterNext]_limiterVars
    PROVE  SlotsBacked'
<1> USE UserListAssumption, LimiterAssumption
<1>0. \A c \in Conns : conn[c] \in ConnType
  BY DEF TypeOK
<1>1. CASE UNCHANGED <<ips, conn>>
  BY <1>1 DEF SlotsBacked, Holders
<1>2. ASSUME NEW c \in Conns, conn[c].pc # "held", conn'[c].pc # "held",
             \A e \in Conns \ {c} : conn'[e] = conn[e], UNCHANGED ips
      PROVE  SlotsBacked'
  <2>1. \A t \in Tags, a \in Addrs : Holders(t, a)' = Holders(t, a)
    BY <1>2 DEF Holders
  <2> QED BY <1>2, <2>1 DEF SlotsBacked
<1>3. ASSUME NEW c \in Conns, NEW t \in Tags, NEW a \in Addrs, CheckLimit(c, t, a)
      PROVE  SlotsBacked'
  BY <1>2, <1>3 DEF CheckLimit, onlineVars, TypeOK
<1>4. ASSUME NEW c \in Conns, CheckLimitAlive(c) PROVE SlotsBacked'
  BY <1>2, <1>4 DEF CheckLimitAlive, onlineVars, TypeOK
<1>5. ASSUME NEW c \in Conns, TrackConnection(c) PROVE SlotsBacked'
  <2>1. CASE conn' = [conn EXCEPT ![c] = Idle] /\ UNCHANGED onlineVars
    BY <1>2, <1>5, <2>1 DEF TrackConnection, onlineVars, TypeOK, Idle
  <2>2. CASE ~(conn' = [conn EXCEPT ![c] = Idle] /\ UNCHANGED onlineVars)
    <3>0. PICK t \in Tags, a \in Addrs, addr \in Addrs :
             t = conn[c].tag /\ addr = conn[c].addr /\ a = trim[addr]
      BY <1>0, <1>5, ConnFields DEF TrackConnection
    <3>1. /\ conn' = [conn EXCEPT ![c] = [pc |-> "held", tag |-> t, addr |-> addr]]
          /\ ips' = [ips EXCEPT ![t][a] = ips[t][a] + 1]
      BY <1>5, <2>2, <3>0 DEF TrackConnection, TakeSlot
    <3>2. conn[c].pc # "held"
      BY <1>5 DEF TrackConnection
    <3>3. SUFFICES ASSUME NEW s \in Tags, NEW b \in Addrs
                   PROVE  ips'[s][b] <= Cardinality(Holders(s, b)')
      BY DEF SlotsBacked
    <3>4. /\ ips[s][b] <= Cardinality(Holders(s, b))
          /\ ips[s][b] \in Nat
          /\ Cardinality(Holders(s, b)) \in Nat
      BY HoldersFinite DEF SlotsBacked, TypeOK
    <3>5. CASE s = t /\ b = a
      <4>1. Holders(s, b)' = Holders(s, b) \cup {c}
        BY <3>0, <3>1, <3>2, <3>5 DEF Holders, TypeOK
      <4>2. c \notin Holders(s, b)
        BY <3>2 DEF Holders
      <4>3. Cardinality(Holders(s, b)') = Cardinality(Holders(s, b)) + 1
        BY <4>1, <4>2, HoldersFinite, FS_AddElement
      <4>4. ips'[s][b] = ips[s][b] + 1
        BY <3>1, <3>5 DEF TypeOK
      <4> QED BY <3>4, <4>3, <4>4
    <3>6. CASE ~(s = t /\ b = a)
      <4>1. Holders(s, b)' = Holders(s, b)
        BY <3>0, <3>1, <3>2, <3>6 DEF Holders, TypeOK
      <4>2. ips'[s][b] = ips[s][b]
        BY <3>1, <3>6 DEF TypeOK
      <4> QED BY <3>4, <4>1, <4>2
    <3> QED BY <3>5, <3>6
  <2> QED BY <2>1, <2>2
<1>6. ASSUME NEW c \in Conns, ReleaseConnection(c) PROVE SlotsBacked'
  <2>0. PICK t \in Tags, a \in Addrs, addr \in Addrs :
           t = conn[c].tag /\ addr = conn[c].addr /\ a = trim[addr]
    BY <1>0, <1>6, ConnFields DEF ReleaseConnection
  <2>1. /\ conn' = [conn EXCEPT ![c] = Idle]
        /\ ips' = [ips EXCEPT ![t][a] = IF ips[t][a] > 0 THEN ips[t][a] - 1 ELSE 0]
        /\ conn[c].pc = "held"
    BY <1>6, <2>0 DEF ReleaseConnection, ReleaseSlot
  <2>2. SUFFICES ASSUME NEW s \in Tags, NEW b \in Addrs
                 PROVE  ips'[s][b] <= Cardinality(Holders(s, b)')
    BY DEF SlotsBacked
  <2>3. /\ ips[s][b] <= Cardinality(Holders(s, b))
        /\ ips[s][b] \in Nat
        /\ Cardinality(Holders(s, b)) \in Nat
    BY HoldersFinite DEF SlotsBacked, TypeOK
  <2>4. CASE s = t /\ b = a
    <3>1. Holders(s, b)' = Holders(s, b) \ {c}
      BY <2>0, <2>1, <2>4 DEF Holders, TypeOK, Idle
    <3>2. c \in Holders(s, b)
      BY <2>0, <2>1, <2>4 DEF Holders
    <3>3. Cardinality(Holders(s, b)') = Cardinality(Holders(s, b)) - 1
      BY <3>1, <3>2, HoldersFinite, FS_RemoveElement
    <3>4. Cardinality(Holders(s, b)) >= 1
      BY <3>2, <2>3, HoldersFinite, FS_EmptySet
    <3>5. ips'[s][b] = IF ips[s][b] > 0 THEN ips[s][b] - 1 ELSE 0
      BY <2>1, <2>4 DEF TypeOK
    <3> QED BY <2>3, <3>3, <3>4, <3>5
  <2>5. CASE ~(s = t /\ b = a)
    <3>1. Holders(s, b)' = Holders(s, b)
      BY <2>0, <2>1, <2>5 DEF Holders, TypeOK, Idle
    <3>2. ips'[s][b] = ips[s][b]
      BY <2>1, <2>5 DEF TypeOK
    <3> QED BY <2>3, <3>1, <3>2
  <2> QED BY <2>4, <2>5
<1>7. ASSUME UpdateOnline PROVE SlotsBacked'
  <2>1. \A t \in Tags, a \in Addrs : ips'[t][a] <= ips[t][a]
    BY <1>7 DEF UpdateOnline, ForgetOnline, TypeOK
  <2>2. \A t \in Tags, a \in Addrs : Holders(t, a)' = Holders(t, a)
    BY <1>7 DEF UpdateOnline, Holders
  <2> QED BY <2>1, <2>2, SlotsBackedFrame
<1>8. ASSUME NEW new \in PanelLists, UpdateUser(new) PROVE SlotsBacked'
  BY <1>1, <1>8 DEF UpdateUser, onlineVars
<1>9. ASSUME UpdateAlive PROVE SlotsBacked'
  BY <1>1, <1>9 DEF UpdateAlive, onlineVars
<1>10. ASSUME ReportStep PROVE SlotsBacked'
  BY <1>1, <1>10 DEF ReportStep, SetAliveList, MarkOnlineDeviceReported,
     MarkOfflineUsersReported, onlineVars
<1>11. CASE UNCHANGED limiterVars
  BY <1>1, <1>11 DEF limiterVars
<1> QED
  BY <1>3, <1>4, <1>5, <1>6, <1>7, <1>8, <1>9, <1>10, <1>11
  DEF LimiterNext, CallerStep, UpdateStep

(* No device slot leaks: an address never counts more connections than     *)
(* are admitted and not yet released.                                      *)
THEOREM SlotsBackedCorrect == LimiterSpec => []SlotsBacked
<1>1. LimiterInit => SlotsBacked
  <2> SUFFICES ASSUME LimiterInit PROVE SlotsBacked
    OBVIOUS
  <2>1. \A t \in Tags, a \in Addrs : Cardinality(Holders(t, a)) \in Nat
    BY HoldersFinite
  <2>2. \A t \in Tags, a \in Addrs : ips[t][a] = 0
    BY DEF LimiterInit, AddLimiter
  <2> QED BY <2>1, <2>2 DEF SlotsBacked
<1>2. SlotsBacked /\ TypeOK /\ TypeOK' /\ [LimiterNext]_limiterVars => SlotsBacked'
  BY SlotsBackedStep
<1> QED BY <1>1, <1>2, TypeCorrect, PTL DEF LimiterSpec

-----------------------------------------------------------------------------
(* The device limit.                                                       *)

LEMMA ActiveFinite == \A t \in Tags : IsFiniteSet(ActiveIPs(t))
BY LimiterAssumption, FS_Subset DEF ActiveIPs

(* What CheckLimit compares with the limit is at least the number of       *)
(* active addresses: the reported ones and the others are counted apart.   *)
LEMMA FitsIsEnough ==
    ASSUME NEW t \in Tags, NEW a \in Addrs, NEW n \in Nat, NEW limit \in Nat,
           FitsDeviceLimit(t, n, limit)
    PROVE  Cardinality(ActiveIPs(t) \cup {a}) <= limit
<1> DEFINE A == ActiveIPs(t)
           R == A \cap reported[t]
           U == A \ reported[t]
<1>1. IsFiniteSet(A) /\ IsFiniteSet(R) /\ IsFiniteSet(U)
  BY ActiveFinite, FS_Subset
<1>2. Cardinality(A) \in Nat /\ Cardinality(R) \in Nat /\ Cardinality(U) \in Nat
  BY <1>1, FS_CardinalityType
<1>3. A = R \cup U /\ R \cap U = {}
  OBVIOUS
<1>4. Cardinality(A) = Cardinality(R) + Cardinality(U)
  <2>1. Cardinality(R \cup U)
           = Cardinality(R) + Cardinality(U) - Cardinality(R \cap U)
    BY <1>1, FS_Union
  <2> HIDE DEF A, R, U
  <2>2. Cardinality(R \cap U) = 0
    BY <1>3, FS_EmptySet
  <2> QED BY <1>2, <1>3, <2>1, <2>2
<1>5. Cardinality(A \cup {a}) <= Cardinality(A) + 1
  <2> HIDE DEF A
  <2>1. Cardinality(A \cup {a}) = IF a \in A THEN Cardinality(A) ELSE Cardinality(A) + 1
    BY <1>1, FS_AddElement
  <2> QED BY <1>2, <2>1
<1>6. Cardinality(A \cup {a}) \in Nat
  BY <1>1, FS_AddElement, FS_CardinalityType
<1>7. Larger(n, Cardinality(R)) + Cardinality(U) + 1 <= limit
  BY DEF FitsDeviceLimit, ReportedActive, UnreportedActive
<1>8. Larger(n, Cardinality(R)) >= Cardinality(R) /\ Larger(n, Cardinality(R)) \in Nat
  BY <1>2 DEF Larger
<1> HIDE DEF A, R, U
<1>9. Cardinality(A \cup {a}) <= limit
  BY <1>2, <1>4, <1>5, <1>6, <1>7, <1>8
<1> QED BY <1>9 DEF A

LEMMA DeviceLimitStep ==
    ASSUME TypeOK, PendingIsOffline, [LimiterNext]_limiterVars, NEW t \in Tags
    PROVE  \/ ActiveIPs(t)' \subseteq ActiveIPs(t)
           \/ \E c \in Conns :
                /\ conn[c].pc = "track" /\ conn[c].tag = t
                /\ \/ conn[c].limit = 0
                   \/ Cardinality(ActiveIPs(t)') <= conn[c].limit
<1>0. ips \in [Tags -> [Addrs -> Nat]]
  BY DEF TypeOK
<1>1. CASE \E c \in Conns : TrackConnection(c)
  <2>0. PICK c \in Conns : TrackConnection(c)
    BY <1>1
  <2> DEFINE s == conn[c].tag
             a == trim[conn[c].addr]
             limit == conn[c].limit
             n == conn[c].alive
  <2>1. s \in Tags /\ a \in Addrs /\ limit \in Nat /\ n \in Nat /\ conn[c].pc = "track"
    BY <2>0, ConnFields, LimiterAssumption, UserListAssumption
    DEF TrackConnection, TypeOK
  <2>2. CASE ~Admits(s, a, n, limit)
    BY <2>0, <2>2 DEF TrackConnection, onlineVars, ActiveIPs
  <2>3. CASE Admits(s, a, n, limit)
    <3>1. ips' = [ips EXCEPT ![s][a] = ips[s][a] + 1]
      BY <2>0, <2>3 DEF TrackConnection, TakeSlot
    <3> HIDE DEF s, a, limit, n
    <3>2. CASE t # s
      BY <1>0, <2>1, <3>1, <3>2 DEF ActiveIPs
    <3>3. CASE t = s
      <4>1. ActiveIPs(t)' = ActiveIPs(t) \cup {a}
        BY <1>0, <2>1, <3>1, <3>3 DEF ActiveIPs
      <4>2. CASE ips[t][a] > 0
        BY <2>1, <4>1, <4>2 DEF ActiveIPs
      <4>3. CASE ReconnectGrace(t, a) /\ limit # 0
        <5>1. ActiveIPs(t) = {}
          BY <4>3 DEF ReconnectGrace, PendingIsOffline
        <5>2. Cardinality(ActiveIPs(t)') = 1
          BY <4>1, <5>1, FS_Singleton
        <5> QED BY <2>1, <3>3, <4>3, <5>2 DEF s, limit
      <4>4. CASE FitsDeviceLimit(t, n, limit)
        <5>1. Cardinality(ActiveIPs(t)') <= limit
          BY <2>1, <4>1, <4>4, FitsIsEnough
        <5> QED BY <2>1, <3>3, <5>1 DEF s, limit
      <4>5. CASE limit = 0
        BY <2>1, <3>3, <4>5 DEF s, limit
      <4> QED BY <2>3, <3>3, <4>2, <4>3, <4>4, <4>5 DEF Admits
    <3> QED BY <3>2, <3>3
  <2> QED BY <2>2, <2>3
<1>2. CASE \E c \in Conns : ReleaseConnection(c)
  <2>0. PICK c \in Conns : ReleaseConnection(c)
    BY <1>2
  <2>1. conn[c].tag \in Tags /\ trim[conn[c].addr] \in Addrs
    BY <2>0, ConnFields, LimiterAssumption DEF ReleaseConnection, TypeOK
  <2>2. \A b \in Addrs : ips'[t][b] > 0 => ips[t][b] > 0
    BY <1>0, <2>0, <2>1 DEF ReleaseConnection, ReleaseSlot
  <2> QED BY <2>2 DEF ActiveIPs
<1>3. CASE UpdateOnline
  BY <1>3 DEF UpdateOnline, ForgetOnline, ActiveIPs
<1>4. CASE UNCHANGED ips
  BY <1>4 DEF ActiveIPs
<1> QED
  BY <1>1, <1>2, <1>3, <1>4
  DEF LimiterNext, CallerStep, CheckLimit, CheckLimitAlive, UpdateStep, UpdateUser,
      UpdateAlive, ReportStep, SetAliveList, MarkOnlineDeviceReported,
      MarkOfflineUsersReported, onlineVars, limiterVars

(* Concurrent admissions never exceed the limit that the admitting call    *)
(* read: every address that becomes active does so within it, the          *)
(* reconnect grace included, because a pending offline report means that   *)
(* nothing is active (CheckLimit, trackConnection).                        *)
THEOREM DeviceLimitRespectedCorrect == LimiterSpec => DeviceLimitRespected
<1>1. TypeOK /\ PendingIsOffline /\ [LimiterNext]_limiterVars =>
        [\A t \in Tags :
           ActiveIPs(t)' \subseteq ActiveIPs(t)
           \/ \E c \in Conns :
                /\ conn[c].pc = "track" /\ conn[c].tag = t
                /\ \/ conn[c].limit = 0
                   \/ Cardinality(ActiveIPs(t)') <= conn[c].limit]_limiterVars
  BY DeviceLimitStep
<1> QED BY <1>1, TypeCorrect, PendingIsOfflineCorrect, PTL
        DEF LimiterSpec, DeviceLimitRespected
=============================================================================
