---------------------------- MODULE OnlineReport ----------------------------
(***************************************************************************)
(* The online-device half of the report task (node/user.go,                *)
(* reportUserTrafficTask) and the alive refresh of the monitor task        *)
(* (node/task.go, syncUsers) over the limiter, with the panel that         *)
(* receives the reports.                                                   *)
(*                                                                         *)
(* Connections come and go between any two steps of a report: the online   *)
(* list, the pending offline list, the request and each acknowledgement    *)
(* take the limiter's lock separately.                                     *)
(***************************************************************************)
EXTENDS Limiter

CONSTANTS DeviceMin,   \* TRUE: BaseConfig.DeviceOnlineMinTraffic > 0
          LoseAcks,    \* TRUE: a response of the panel may be lost
          Elsewhere    \* device counts a user may have on other nodes

ASSUME ReportAssumption ==
    /\ DeviceMin \in BOOLEAN /\ LoseAcks \in BOOLEAN
    /\ Elsewhere \subseteq Nat
    /\ \A n \in Elsewhere, m \in 0 .. Cardinality(Addrs) : m + n \in AliveCounts

VARIABLES
    rep,        \* locals of the report task
    mon,        \* locals of the monitor task's alive refresh
    panelIPs    \* the panel: this node's addresses of each user

reportVars == <<rep, mon, panelIPs>>
vars == <<limiterVars, reportVars>>

AliveLists == [Uids -> AliveCounts]
NoReport == [pc |-> "idle"]
NoList == [pc |-> "idle"]

ReportTypeOK ==
    /\ TypeOK
    /\ rep \in {NoReport}
          \cup [pc : {"pending"}, result : Snapshots]
          \cup [pc : {"send", "mark", "refresh", "markOffline"}, result : Snapshots,
                offline : SUBSET (Tags \X Uids)]
          \cup [pc : {"setAlive"}, result : Snapshots,
                offline : SUBSET (Tags \X Uids), list : AliveLists]
    /\ mon \in {NoList} \cup [pc : {"set"}, list : AliveLists]
    /\ panelIPs \in [Uids -> SUBSET Addrs]

ReportInit ==
    /\ LimiterInit
    /\ rep = NoReport
    /\ mon = NoList
    /\ panelIPs = [u \in Uids |-> {}]

-----------------------------------------------------------------------------
(* The panel.  A report replaces the addresses of the users it names; the  *)
(* alive list adds up this node and the others.                            *)

PanelAccepts(data) ==
    panelIPs' = [u \in Uids |-> IF u \in DOMAIN data THEN data[u] ELSE panelIPs[u]]

AliveList(others) == [u \in Uids |-> Cardinality(panelIPs[u]) + others[u]]

-----------------------------------------------------------------------------
(* The report task.                                                        *)

(* filterOnlineUsers: with a minimum, only users whose traffic passed it.  *)
Eligible == IF DeviceMin THEN SUBSET Uids ELSE {Uids}

GetOnlineDevice(eligible) ==
    /\ rep = NoReport
    /\ rep' = [pc |-> "pending",
               result |-> [u \in Uids |->
                             IF u \in eligible THEN OnlineDevices[u] ELSE {}]]
    /\ UNCHANGED <<limiterVars, mon, panelIPs>>

(* Users with addresses, and pending users without any as an empty list.   *)
Data(result, offline) ==
    [u \in {v \in Uids : result[v] # {} \/ \E p \in offline : p[2] = v} |-> result[u]]

GetPendingOfflineUsers ==
    /\ rep.pc = "pending"
    /\ LET offline == PendingOfflineUsers IN
       rep' = IF DOMAIN Data(rep.result, offline) = {} THEN NoReport
              ELSE [pc |-> "send", result |-> rep.result, offline |-> offline]
    /\ UNCHANGED <<limiterVars, mon, panelIPs>>

(* ReportNodeOnlineUsers: accepted, accepted with the response lost, or    *)
(* refused.                                                                *)
ReportAccepted ==
    /\ rep.pc = "send"
    /\ PanelAccepts(Data(rep.result, rep.offline))
    /\ rep' = [rep EXCEPT !.pc = "mark"]
    /\ UNCHANGED <<limiterVars, mon>>

ReportAckLost ==
    /\ LoseAcks
    /\ rep.pc = "send"
    /\ PanelAccepts(Data(rep.result, rep.offline))
    /\ rep' = NoReport
    /\ UNCHANGED <<limiterVars, mon>>

(* Mutant: the report is taken as accepted whatever the panel answered.    *)
ReportAssumed ==
    /\ rep.pc = "send"
    /\ rep' = [rep EXCEPT !.pc = "mark"]
    /\ UNCHANGED <<limiterVars, mon, panelIPs>>

ReportRefused ==
    /\ rep.pc = "send"
    /\ rep' = NoReport
    /\ UNCHANGED <<limiterVars, mon, panelIPs>>

MarkReported ==
    /\ rep.pc = "mark"
    /\ MarkOnlineDeviceReported(rep.result)
    /\ rep' = IF rep.offline = {} THEN NoReport ELSE [rep EXCEPT !.pc = "refresh"]
    /\ UNCHANGED <<mon, panelIPs>>

(* The alive list is fetched and stored before the reconnect grace goes.   *)
RefreshAlive(others) ==
    /\ rep.pc = "refresh"
    /\ rep' = [pc |-> "setAlive", result |-> rep.result, offline |-> rep.offline,
               list |-> AliveList(others)]
    /\ UNCHANGED <<limiterVars, mon, panelIPs>>

RefreshFailed ==
    /\ rep.pc = "refresh"
    /\ rep' = NoReport
    /\ UNCHANGED <<limiterVars, mon, panelIPs>>

StoreAlive ==
    /\ rep.pc = "setAlive"
    /\ SetAliveList(rep.list)
    /\ rep' = [pc |-> "markOffline", result |-> rep.result, offline |-> rep.offline]
    /\ UNCHANGED <<mon, panelIPs>>

(* Mutant: the acknowledgement of a report without online users is         *)
(* skipped.                                                                *)
MarkOfflineIfOnline ==
    /\ rep.pc = "markOffline"
    /\ \/ /\ rep.result # [u \in Uids |-> {}]
          /\ MarkOfflineUsersReported(rep.offline)
       \/ /\ rep.result = [u \in Uids |-> {}]
          /\ UNCHANGED limiterVars
    /\ rep' = NoReport
    /\ UNCHANGED <<mon, panelIPs>>

MarkOffline ==
    /\ rep.pc = "markOffline"
    /\ MarkOfflineUsersReported(rep.offline)
    /\ rep' = NoReport
    /\ UNCHANGED <<mon, panelIPs>>

-----------------------------------------------------------------------------
(* The monitor task fetches the alive list, and stores it some time later. *)

MonitorFetch(others) ==
    /\ mon = NoList
    /\ mon' = [pc |-> "set", list |-> AliveList(others)]
    /\ UNCHANGED <<limiterVars, rep, panelIPs>>

MonitorStore ==
    /\ mon.pc = "set"
    /\ SetAliveList(mon.list)
    /\ mon' = NoList
    /\ UNCHANGED <<rep, panelIPs>>

-----------------------------------------------------------------------------
Callers == (\E c \in Conns : CallerStep(c)) /\ UNCHANGED reportVars

Updates == UpdateStep /\ UNCHANGED reportVars

ReporterStep ==
    \/ \E eligible \in Eligible : GetOnlineDevice(eligible)
    \/ GetPendingOfflineUsers
    \/ ReportAccepted \/ ReportAckLost \/ ReportRefused
    \/ MarkReported
    \/ \E others \in [Uids -> Elsewhere] : RefreshAlive(others)
    \/ RefreshFailed
    \/ StoreAlive
    \/ MarkOffline

MonitorStep == (\E others \in [Uids -> Elsewhere] : MonitorFetch(others)) \/ MonitorStore

(* The panel's user list does not change.                                  *)
StableNext == Callers \/ ReporterStep \/ MonitorStep

Next == StableNext \/ Updates

StableSpec == ReportInit /\ [][StableNext]_vars

Spec == ReportInit /\ [][Next]_vars

(* The task timer fires for ever, a report sent again and again is         *)
(* accepted in the end, and so is the request for the alive list.          *)
Fairness ==
    /\ WF_vars(ReporterStep)
    /\ SF_vars(ReportAccepted)
    /\ SF_vars(\E others \in [Uids -> Elsewhere] : RefreshAlive(others))

FairSpec == Spec /\ Fairness

-----------------------------------------------------------------------------
(* Properties.                                                             *)

(* The device limit of a user is relaxed only for addresses the panel      *)
(* knows: when a report gives a user a reported set, the panel holds just  *)
(* these addresses for it, although connections, user updates and lost or  *)
(* refused requests came in between (MarkOnlineDeviceReported: a failed    *)
(* report leaves the previous snapshot intact).                            *)
ReportedIsAtPanel ==
    [][\A t \in Tags : reported'[t] \in {reported[t], {}}
                       \/ \E u \in Uids : reported'[t] = panelIPs[u]]_vars

(* An offline report that is due is delivered and acknowledged, or made    *)
(* void by a reconnect or a removal, whatever connections and user         *)
(* updates do meanwhile (GetPendingOfflineUsers, MarkOfflineUsersReported).*)
OfflineIsSettled ==
    \A t \in Tags : pendingOffline[t] # NoUid ~> pendingOffline[t] = NoUid

(* GetPendingOfflineUsers: it returns the users whose last locally active  *)
(* address was reported to the panel.  So between two reports a user with  *)
(* no active address, for whom the panel holds one, has an offline report  *)
(* pending.                                                                *)
PanelIsToldOffline ==
    rep = NoReport =>
        \A t \in Tags :
            info[t] # NoUser /\ onlineUid[t] = NoUid /\ panelIPs[info[t].uid] # {}
                => pendingOffline[t] = info[t].uid
=============================================================================
