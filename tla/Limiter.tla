------------------------------ MODULE Limiter ------------------------------
(***************************************************************************)
(* The per-node device limiter (limiter/limiter.go): which users may       *)
(* connect, from how many addresses, and what the panel has been told.     *)
(*                                                                         *)
(* The limiter has three locks, so one call is several atomic steps:       *)
(* CheckLimit reads the user record under userMu, the alive count under    *)
(* aliveMu and takes the slot under onlineMu; UpdateUser rewrites the      *)
(* three maps one lock at a time.  A step here is one critical section.    *)
(*                                                                         *)
(* The callers are left open: any goroutine may check in, release what it  *)
(* holds, update the users, set the alive list or acknowledge a report     *)
(* with any argument of the right shape.  RuntimeServices and OnlineReport *)
(* restrict the callers to the ones the program has.                       *)
(***************************************************************************)
EXTENDS UserLists, FiniteSets

CONSTANTS Conns,        \* goroutines that call CheckLimit, one per connection
          Addrs,        \* textual client addresses
          trim,         \* strings.TrimPrefix(ip, "::ffff:")
          AliveCounts   \* device counts the panel may return

ASSUME LimiterAssumption ==
    /\ IsFiniteSet(Conns)
    /\ IsFiniteSet(Addrs)
    /\ trim \in [Addrs -> Addrs]
    /\ AliveCounts \subseteq Nat
    /\ 0 \in AliveCounts

VARIABLES
    info,            \* UserLimitInfo
    alive,           \* AliveList; a missing uid reads as 0
    ips,             \* online[tag].ips; 0 is "not in the map"
    onlineUid,       \* online[tag].uid, NoUid when online has no such entry
    reported,        \* reported[tag]; {} is "no entry"
    pendingOffline,  \* pendingOffline[tag], NoUid when absent
    conn,            \* locals of the CheckLimit callers
    upd              \* locals of the UpdateUser caller

onlineVars == <<ips, onlineUid, reported, pendingOffline>>
limiterVars == <<info, alive, ips, onlineUid, reported, pendingOffline, conn, upd>>

Idle == [pc |-> "idle"]
NoUpdate == [pc |-> "idle"]

(* A report lists addresses as the online map holds them: trimmed.         *)
Snapshots == [Uids -> SUBSET {trim[a] : a \in Addrs}]

(* A caller inside CheckLimit, or holding the slot it was given.           *)
ConnType ==
    {Idle}
    \cup [pc : {"alive"}, tag : Tags, addr : Addrs, uid : Uids, limit : DeviceLimits]
    \cup [pc : {"track"}, tag : Tags, addr : Addrs,
          uid : Uids, limit : DeviceLimits, alive : AliveCounts]
    \cup [pc : {"held"}, tag : Tags, addr : Addrs]

TypeOK ==
    /\ info \in UserList
    /\ alive \in [Uids -> AliveCounts]
    /\ ips \in [Tags -> [Addrs -> Nat]]
    /\ onlineUid \in [Tags -> Uids \cup {NoUid}]
    /\ reported \in [Tags -> SUBSET Addrs]
    /\ pendingOffline \in [Tags -> Uids \cup {NoUid}]
    /\ conn \in [Conns -> ConnType]
    /\ upd \in {NoUpdate}
            \cup [pc : {"alive", "online"}, deleted : SUBSET Tags,
                  uids : SUBSET Uids]

(* AddLimiter: the users and the alive list the controller prepared.       *)
AddLimiter(users, aliveList) ==
    /\ info = users
    /\ alive = aliveList
    /\ ips = [t \in Tags |-> [a \in Addrs |-> 0]]
    /\ onlineUid = [t \in Tags |-> NoUid]
    /\ reported = [t \in Tags |-> {}]
    /\ pendingOffline = [t \in Tags |-> NoUid]
    /\ conn = [c \in Conns |-> Idle]
    /\ upd = NoUpdate

LimiterInit ==
    \E users \in PanelLists, aliveList \in [Uids -> AliveCounts] :
        AddLimiter(users, aliveList)

-----------------------------------------------------------------------------
(* CheckLimit.                                                             *)

ActiveIPs(t) == {a \in Addrs : ips[t][a] > 0}

ReportedActive(t) == Cardinality(ActiveIPs(t) \cap reported[t])

UnreportedActive(t) == Cardinality(ActiveIPs(t) \ reported[t])

Larger(m, n) == IF m >= n THEN m ELSE n

(* A reconnect from the exact address the panel still counts is the same   *)
(* device.                                                                 *)
ReconnectGrace(t, a) == pendingOffline[t] # NoUid /\ a \in reported[t]

(* Mutant: only the panel's count is compared with the limit.              *)
PanelCountOnly(t, aliveIP, limit) == aliveIP + 1 <= limit

FitsDeviceLimit(t, aliveIP, limit) ==
    Larger(aliveIP, ReportedActive(t)) + UnreportedActive(t) + 1 <= limit

Admits(t, a, aliveIP, limit) ==
    \/ ips[t][a] > 0
    \/ limit = 0
    \/ ReconnectGrace(t, a)
    \/ FitsDeviceLimit(t, aliveIP, limit)

(* userMu: a connection of credential t from address a asks for admission  *)
(* and copies the user's record; an unknown user is rejected at once.      *)
CheckLimit(c, t, a) ==
    /\ conn[c].pc = "idle"
    /\ info[t] # NoUser
    /\ conn' = [conn EXCEPT ![c] = [pc |-> "alive", tag |-> t, addr |-> a,
                                    uid |-> info[t].uid, limit |-> info[t].limit]]
    /\ UNCHANGED <<info, alive, onlineVars, upd>>

(* aliveMu: the panel's device count of the user.                          *)
CheckLimitAlive(c) ==
    /\ conn[c].pc = "alive"
    /\ conn' = [conn EXCEPT ![c] =
                  [pc |-> "track", tag |-> conn[c].tag, addr |-> conn[c].addr,
                   uid |-> conn[c].uid, limit |-> conn[c].limit,
                   alive |-> alive[conn[c].uid]]]
    /\ UNCHANGED <<info, alive, onlineVars, upd>>

(* Mutant: an accepted reconnect leaves the pending offline report.        *)
TakeSlotKeepPending(t, a, uid) ==
    /\ ips' = [ips EXCEPT ![t][a] = @ + 1]
    /\ onlineUid' = [onlineUid EXCEPT ![t] = IF ActiveIPs(t) = {} THEN uid ELSE @]
    /\ UNCHANGED <<pendingOffline, reported>>

TakeSlot(t, a, uid) ==
    /\ ips' = [ips EXCEPT ![t][a] = @ + 1]
    /\ onlineUid' = [onlineUid EXCEPT ![t] = IF ActiveIPs(t) = {} THEN uid ELSE @]
    /\ pendingOffline' = [pendingOffline EXCEPT ![t] = NoUid]
    /\ UNCHANGED reported

(* onlineMu: trackConnection takes a device slot or rejects.               *)
TrackConnection(c) ==
    /\ conn[c].pc = "track"
    /\ LET t == conn[c].tag
           a == trim[conn[c].addr]
       IN \/ /\ Admits(t, a, conn[c].alive, conn[c].limit)
             /\ TakeSlot(t, a, conn[c].uid)
             /\ conn' = [conn EXCEPT ![c] =
                           [pc |-> "held", tag |-> t, addr |-> conn[c].addr]]
          \/ /\ ~Admits(t, a, conn[c].alive, conn[c].limit)
             /\ conn' = [conn EXCEPT ![c] = Idle]
             /\ UNCHANGED onlineVars
    /\ UNCHANGED <<info, alive, upd>>

-----------------------------------------------------------------------------
(* ReleaseConnection: give the slot back; the last address of a reported   *)
(* user leaves an offline report behind.                                   *)

LastSlot(t, a) == ActiveIPs(t) = {a} /\ ips[t][a] = 1

(* Mutant: the address is not normalised on the way out.                   *)
ReleaseRaw(t, addr) ==
    LET a == addr IN
    /\ ips' = [ips EXCEPT ![t][a] = IF @ > 0 THEN @ - 1 ELSE 0]
    /\ onlineUid' = [onlineUid EXCEPT ![t] = IF LastSlot(t, a) THEN NoUid ELSE @]
    /\ pendingOffline' = [pendingOffline EXCEPT ![t] =
           IF ~LastSlot(t, a) THEN @
           ELSE IF reported[t] # {} THEN onlineUid[t] ELSE NoUid]
    /\ UNCHANGED reported

(* Mutant: off by one, the last connection of an address keeps its slot.   *)
ReleaseNotLast(t, addr) ==
    LET a == trim[addr] IN
    /\ ips' = [ips EXCEPT ![t][a] = IF @ > 1 THEN @ - 1 ELSE @]
    /\ UNCHANGED <<onlineUid, pendingOffline, reported>>

(* Mutant: a slot that a user update has already dropped is released too.  *)
ReleaseUnderflow(t, addr) ==
    LET a == trim[addr] IN
    /\ ips' = [ips EXCEPT ![t][a] = @ - 1]
    /\ onlineUid' = [onlineUid EXCEPT ![t] = IF LastSlot(t, a) THEN NoUid ELSE @]
    /\ UNCHANGED <<pendingOffline, reported>>

(* Mutant: the last address leaves an empty entry in the online map.       *)
ReleaseKeepEntry(t, addr) ==
    LET a == trim[addr] IN
    /\ ips' = [ips EXCEPT ![t][a] = IF @ > 0 THEN @ - 1 ELSE 0]
    /\ UNCHANGED <<onlineUid, pendingOffline, reported>>

ReleaseSlot(t, addr) ==
    LET a == trim[addr] IN
    /\ ips' = [ips EXCEPT ![t][a] = IF @ > 0 THEN @ - 1 ELSE 0]
    /\ onlineUid' = [onlineUid EXCEPT ![t] = IF LastSlot(t, a) THEN NoUid ELSE @]
    /\ pendingOffline' = [pendingOffline EXCEPT ![t] =
           IF ~LastSlot(t, a) THEN @
           ELSE IF reported[t] # {} THEN onlineUid[t] ELSE NoUid]
    /\ UNCHANGED reported

ReleaseConnection(c) ==
    /\ conn[c].pc = "held"
    /\ ReleaseSlot(conn[c].tag, conn[c].addr)
    /\ conn' = [conn EXCEPT ![c] = Idle]
    /\ UNCHANGED <<info, alive, upd>>

-----------------------------------------------------------------------------
(* UpdateUser, one step per lock.                                          *)

(* userMu: deleted entries go, modified limits change in place, added      *)
(* entries are stored.                                                     *)
UpdateUser(new) ==
    /\ upd.pc = "idle"
    /\ LET del == Deleted(info, new) IN
          /\ info' = [t \in Tags |->
                        IF t \in del \cup Added(info, new) \cup Modified(info, new)
                        THEN new[t] ELSE info[t]]
          /\ upd' = [pc |-> "alive", deleted |-> del,
                     uids |-> {info[t].uid : t \in del}]
    /\ UNCHANGED <<alive, onlineVars, conn>>

(* aliveMu: the deleted ids lose their alive count.                        *)
UpdateAlive ==
    /\ upd.pc = "alive"
    /\ alive' = [u \in Uids |-> IF u \in upd.uids THEN 0 ELSE alive[u]]
    /\ upd' = [upd EXCEPT !.pc = "online"]
    /\ UNCHANGED <<info, onlineVars, conn>>

(* Mutant: the pending offline entry outlives its user.                    *)
ForgetOnlineKeepPending(gone) ==
    /\ ips' = [t \in Tags |-> IF t \in gone THEN [a \in Addrs |-> 0] ELSE ips[t]]
    /\ onlineUid' = [t \in Tags |-> IF t \in gone THEN NoUid ELSE onlineUid[t]]
    /\ reported' = [t \in Tags |-> IF t \in gone THEN {} ELSE reported[t]]
    /\ UNCHANGED pendingOffline

ForgetOnline(gone) ==
    /\ ips' = [t \in Tags |-> IF t \in gone THEN [a \in Addrs |-> 0] ELSE ips[t]]
    /\ onlineUid' = [t \in Tags |-> IF t \in gone THEN NoUid ELSE onlineUid[t]]
    /\ reported' = [t \in Tags |-> IF t \in gone THEN {} ELSE reported[t]]
    /\ pendingOffline' =
          [t \in Tags |-> IF t \in gone THEN NoUid ELSE pendingOffline[t]]

(* onlineMu: the online state of the deleted users is dropped.             *)
UpdateOnline ==
    /\ upd.pc = "online"
    /\ ForgetOnline(upd.deleted)
    /\ upd' = NoUpdate
    /\ UNCHANGED <<info, alive, conn>>

-----------------------------------------------------------------------------
(* What the report task reads and acknowledges.                            *)

SetAliveList(list) ==
    /\ alive' = list
    /\ UNCHANGED <<info, onlineVars, conn, upd>>

(* GetOnlineDevice, grouped by uid as the report sends it.                 *)
OnlineDevices ==
    [u \in Uids |-> UNION {ActiveIPs(t) : t \in {s \in Tags : onlineUid[s] = u}}]

(* GetPendingOfflineUsers: the exact (tag, uid) pairs.                     *)
PendingOfflineUsers ==
    {p \in Tags \X Uids : pendingOffline[p[1]] = p[2]}

(* The snapshot the panel accepted becomes the reported set of every user  *)
(* that is online now; a user that is online but was not in the snapshot   *)
(* loses its reported set.                                                 *)
MarkOnlineDeviceReported(snapshot) ==
    /\ reported' = [t \in Tags |->
          IF onlineUid[t] = NoUid THEN reported[t]
          ELSE {trim[a] : a \in snapshot[onlineUid[t]]}]
    /\ UNCHANGED <<info, alive, ips, onlineUid, pendingOffline, conn, upd>>

(* Only entries that are still pending for the same uid and have no active *)
(* address are cleared.                                                    *)
Acknowledged(offline) ==
    {t \in Tags : /\ pendingOffline[t] # NoUid
                  /\ <<t, pendingOffline[t]>> \in offline
                  /\ ActiveIPs(t) = {}}

MarkOfflineUsersReported(offline) ==
    LET done == Acknowledged(offline) IN
    /\ pendingOffline' =
          [t \in Tags |-> IF t \in done THEN NoUid ELSE pendingOffline[t]]
    /\ reported' = [t \in Tags |-> IF t \in done THEN {} ELSE reported[t]]
    /\ UNCHANGED <<info, alive, ips, onlineUid, conn, upd>>

-----------------------------------------------------------------------------
CallerStep(c) ==
    \/ \E t \in Tags, a \in Addrs : CheckLimit(c, t, a)
    \/ CheckLimitAlive(c)
    \/ TrackConnection(c)
    \/ ReleaseConnection(c)

UpdateStep ==
    \/ \E new \in PanelLists : UpdateUser(new)
    \/ UpdateAlive
    \/ UpdateOnline

ReportStep ==
    \/ \E list \in [Uids -> AliveCounts] : SetAliveList(list)
    \/ \E snapshot \in Snapshots : MarkOnlineDeviceReported(snapshot)
    \/ \E offline \in SUBSET (Tags \X Uids) : MarkOfflineUsersReported(offline)

LimiterNext == (\E c \in Conns : CallerStep(c)) \/ UpdateStep \/ ReportStep

LimiterSpec == LimiterInit /\ [][LimiterNext]_limiterVars

-----------------------------------------------------------------------------
(* Properties.                                                             *)

Holders(t, a) ==
    {c \in Conns : conn[c].pc = "held" /\ conn[c].tag = t /\ trim[conn[c].addr] = a}

(* No device slot leaks: every unit of an address's count in the online    *)
(* map belongs to an admitted connection that has not been released yet,   *)
(* whatever user updates and reports run in between.  A leaked unit would  *)
(* lock the user out for good (trackConnection, ReleaseConnection,         *)
(* UpdateUser).                                                            *)
SlotsBacked ==
    \A t \in Tags, a \in Addrs : ips[t][a] <= Cardinality(Holders(t, a))

(* A pending offline report always describes a user that has no active     *)
(* address and that the panel was told about: acknowledging it can never   *)
(* erase the state of a reconnect (MarkOfflineUsersReported's comment).    *)
PendingIsOffline ==
    \A t \in Tags : pendingOffline[t] # NoUid =>
        ActiveIPs(t) = {} /\ reported[t] # {}

(* An entry of the online map exists exactly while one of its addresses    *)
(* is counted, and then knows its uid (the empty-state cleanup of          *)
(* trackConnection and ReleaseConnection).                                 *)
OnlineHasUid ==
    \A t \in Tags : (onlineUid[t] # NoUid) <=> (ActiveIPs(t) # {})

(* When a step makes a further address of a user active, the number of     *)
(* active addresses stays within the device limit that the admitting       *)
(* CheckLimit read, also when the reconnect grace admits it.               *)
DeviceLimitRespected ==
    [][\A t \in Tags :
         ActiveIPs(t)' \subseteq ActiveIPs(t)
         \/ \E c \in Conns :
              /\ conn[c].pc = "track" /\ conn[c].tag = t
              /\ \/ conn[c].limit = 0
                 \/ Cardinality(ActiveIPs(t)') <= conn[c].limit]_limiterVars
=============================================================================
