--------------------------- MODULE RuntimeProofs ---------------------------
(***************************************************************************)
(* Proofs about the session registry and the credential index, for any     *)
(* number of users, credentials and concurrent sessions, and the proof     *)
(* that the runtime services use their limiter as the limiter's own        *)
(* specification allows, which carries the limiter's theorems over to the  *)
(* composed system.                                                        *)
(***************************************************************************)
EXTENDS RuntimeServices, LimiterProofs

(* The part of the type invariant outside the limiter.                     *)
RegistryTypeOK ==
    /\ users \in [Uids -> Tags \cup {NoTag}]
    /\ usersByUUID \in [Tags -> Uids \cup {NoUid}]
    /\ connections \in [Uids -> SUBSET Conns]
    /\ session \in [Conns -> SessionType]
    /\ taken \in [Closers -> SUBSET Conns]
    /\ sync \in {NoSync} \cup [pc : {"close", "update"}, new : PanelLists]

(* A session object that is in use knows its user and its address.         *)
LEMMA SessionFields ==
    ASSUME NEW s \in SessionType, s.stage # "none"
    PROVE  /\ s \in [stage : {"checking", "admitted", "open", "releasing"},
                     uid : Uids, tag : Tags, addr : Addrs]
           /\ s.uid \in Uids /\ s.tag \in Tags /\ s.addr \in Addrs
BY DEF SessionType, NoSession

(* The list a synchronisation brings is one the panel may send.            *)
LEMMA SyncFields ==
    ASSUME RegistryTypeOK, sync.pc # "idle"
    PROVE  /\ sync \in [pc : {"close", "update"}, new : PanelLists]
           /\ sync.new \in PanelLists
BY DEF RegistryTypeOK, NoSync

-----------------------------------------------------------------------------
(* The limiter of the runtime.                                             *)

(* Each critical section of the runtime is one of the limiter or none.     *)
LEMMA StepOfLimiter ==
    ASSUME RegistryTypeOK, [Next]_vars
    PROVE  [LimiterNext]_limiterVars
<1>1. ASSUME NEW c \in Conns, OpenSessionCheck(c) PROVE [LimiterNext]_limiterVars
  <2>1. session[c].tag \in Tags /\ session[c].addr \in Addrs
    BY <1>1, SessionFields DEF OpenSessionCheck, RegistryTypeOK
  <2> QED BY <1>1, <2>1 DEF OpenSessionCheck, LimiterNext, CallerStep
<1>2. ASSUME NEW c \in Conns, ReleaseSession(c) PROVE [LimiterNext]_limiterVars
  BY <1>2 DEF ReleaseSession, LimiterNext, CallerStep
<1>3. CASE SyncLimiter
  BY <1>3, SyncFields DEF SyncLimiter, LimiterNext, UpdateStep
<1>4. CASE SyncLimiterRest
  BY <1>4 DEF SyncLimiterRest, LimiterNext, UpdateStep
<1>5. CASE Report
  BY <1>5 DEF Report, LimiterNext
<1>6. ASSUME NEW c \in Conns, NEW u \in Uids, NEW t \in Tags, NEW a \in Addrs,
             OpenSession(c, u, t, a)
      PROVE  UNCHANGED limiterVars
  BY <1>6 DEF OpenSession
<1>7. ASSUME NEW c \in Conns, Register(c) \/ Release(c) PROVE UNCHANGED limiterVars
  BY <1>7 DEF Register, Release
<1>8. ASSUME NEW g \in Closers, NEW c \in Conns, CloseTaken(g, c)
      PROVE  UNCHANGED limiterVars
  BY <1>8 DEF CloseTaken
<1>9. CASE CloseAllConnections
  BY <1>9 DEF CloseAllConnections
<1>10. ASSUME NEW new \in PanelLists, SyncUsers(new) PROVE UNCHANGED limiterVars
  BY <1>10 DEF SyncUsers
<1>11. CASE UNCHANGED vars
  BY <1>11 DEF vars
<1> QED BY <1>1, <1>2, <1>3, <1>4, <1>5, <1>6, <1>7, <1>8, <1>9, <1>10, <1>11
        DEF Next, SessionStep, CloseStep, SyncStep

-----------------------------------------------------------------------------
(* Lists and the users they make current.                                  *)

Owns(list, t, u) == list[t] # NoUser /\ list[t].uid = u

(* What the registry was last told: the list of a synchronisation that the *)
(* limiter has not heard of yet, or the limiter's own.                     *)
CurrentList == IF sync.pc = "close" THEN sync.new ELSE info

(* users and usersByUUID are that list, by id and by credential.           *)
RegistryIsList ==
    /\ \A u \in Uids, t \in Tags : users[u] = t <=> Owns(CurrentList, t, u)
    /\ \A t \in Tags : usersByUUID[t] = IF CurrentList[t] = NoUser THEN NoUid
                                        ELSE CurrentList[t].uid

(* Entries of a list.                                                      *)
LEMMA ListEntry ==
    ASSUME NEW l \in PanelLists, NEW t \in Tags, l[t] # NoUser
    PROVE  l[t] \in UserLimitInfo /\ l[t].uid \in Uids
BY DEF PanelLists, UserList, UserLimitInfo

(* The panel gives an id to one credential.                                *)
LEMMA OneOwner ==
    ASSUME NEW l \in PanelLists, NEW s \in Tags, NEW t \in Tags, NEW u,
           Owns(l, s, u), Owns(l, t, u)
    PROVE  s = t
BY DEF PanelLists, Owns

(* The difference, entry by entry.                                         *)
LEMMA Difference ==
    ASSUME NEW old \in PanelLists, NEW new \in PanelLists, NEW t \in Tags
    PROVE  /\ t \in Added(old, new) <=>
                 new[t] # NoUser /\ ~Owns(old, t, new[t].uid)
           /\ t \in Deleted(old, new) <=>
                 old[t] # NoUser /\ ~Owns(new, t, old[t].uid)
BY DEF Added, Deleted, Moved, Owns

(* The limiter's update makes its records the new list.                    *)
LEMMA UpdateMakesNew ==
    ASSUME NEW new \in PanelLists, info \in PanelLists, UpdateUser(new)
    PROVE  info' = new
<1>1. \A t \in Tags : info'[t] = new[t]
  <2> TAKE t \in Tags
  <2>1. CASE t \in Deleted(info, new) \cup Added(info, new) \cup Modified(info, new)
    BY <2>1 DEF UpdateUser
  <2>2. CASE t \notin Deleted(info, new) \cup Added(info, new) \cup Modified(info, new)
    <3>1. info'[t] = info[t]
      BY <2>2 DEF UpdateUser
    <3>2. CASE info[t] = NoUser \/ new[t] = NoUser
      BY <2>2, <3>1, <3>2 DEF Deleted, Added
    <3>3. CASE info[t] # NoUser /\ new[t] # NoUser
      <4>1. info[t].uid = new[t].uid /\ info[t].limit = new[t].limit
        BY <2>2, <3>3 DEF Added, Moved, Modified
      <4>2. info[t] \in UserLimitInfo /\ new[t] \in UserLimitInfo
        BY <3>3, ListEntry
      <4> QED BY <3>1, <4>1, <4>2 DEF UserLimitInfo
    <3> QED BY <3>2, <3>3
  <2> QED BY <2>1, <2>2
<1>2. new \in UserList /\ info' = [t \in Tags |-> info'[t]]
  BY DEF PanelLists, UpdateUser
<1> QED BY <1>1, <1>2 DEF UserList

-----------------------------------------------------------------------------
(* SyncUsers turns the registry of one list into that of the next.         *)

LEMMA SyncMakesUsers ==
    ASSUME NEW new \in PanelLists, info \in PanelLists, SyncUsers(new),
           users \in [Uids -> Tags \cup {NoTag}],
           \A u \in Uids, t \in Tags : users[u] = t <=> Owns(info, t, u)
    PROVE  /\ users' \in [Uids -> Tags \cup {NoTag}]
           /\ \A u \in Uids, t \in Tags : users'[u] = t <=> Owns(new, t, u)
<1> DEFINE del == Ids(info, Deleted(info, new))
           added == Added(info, new)
<1>0. users' = [u \in Uids |->
             IF u \in Ids(new, added) THEN OwnerIn(new, added, u)
             ELSE IF u \in del THEN NoTag ELSE users[u]]
  BY DEF SyncUsers
<1>1. ASSUME NEW u \in Uids, u \in Ids(new, added)
      PROVE  /\ users'[u] \in Tags
             /\ \A t \in Tags : users'[u] = t <=> Owns(new, t, u)
  <2>1. PICK s \in added : new[s].uid = u
    BY <1>1 DEF Ids
  <2>2. OwnerIn(new, added, u) \in added /\ new[OwnerIn(new, added, u)].uid = u
    BY <2>1 DEF OwnerIn
  <2>3. users'[u] = OwnerIn(new, added, u)
    BY <1>0, <1>1
  <2>4. users'[u] \in Tags /\ Owns(new, users'[u], u)
    BY <2>2, <2>3 DEF Added, Owns
  <2> QED BY <2>4, OneOwner
<1>2. ASSUME NEW u \in Uids, u \notin Ids(new, added), u \in del
      PROVE  /\ users'[u] = NoTag
             /\ \A t \in Tags : ~Owns(new, t, u)
  <2>1. PICK s \in Tags : s \in Deleted(info, new) /\ info[s].uid = u
    BY <1>2 DEF Ids, Deleted
  <2>2. ASSUME NEW t \in Tags, Owns(new, t, u) PROVE FALSE
    <3>1. t \notin added
      BY <1>2, <2>2 DEF Ids, Owns
    <3>2. Owns(info, t, u)
      BY <2>2, <3>1, Difference DEF Owns
    <3>3. s = t
      BY <2>1, <3>2, OneOwner, Difference DEF Owns
    <3> QED BY <2>1, <2>2, <3>3, Difference
  <2> QED BY <1>0, <1>2, <2>2
<1>3. ASSUME NEW u \in Uids, u \notin Ids(new, added), u \notin del
      PROVE  /\ users'[u] = users[u]
             /\ \A t \in Tags : users[u] = t <=> Owns(new, t, u)
  <2>1. users'[u] = users[u]
    BY <1>0, <1>3
  <2>2. ASSUME NEW t \in Tags, Owns(info, t, u) PROVE Owns(new, t, u)
    <3>1. t \notin Deleted(info, new)
      BY <1>3, <2>2 DEF Ids, Owns
    <3> QED BY <2>2, <3>1, Difference DEF Owns
  <2>3. ASSUME NEW t \in Tags, Owns(new, t, u) PROVE Owns(info, t, u)
    <3>1. t \notin added
      BY <1>3, <2>3 DEF Ids, Owns
    <3> QED BY <2>3, <3>1, Difference DEF Owns
  <2> QED BY <2>1, <2>2, <2>3
<1>4. \A u \in Uids : users'[u] \in Tags \cup {NoTag}
  BY <1>1, <1>2, <1>3
<1>5. \A u \in Uids, t \in Tags : users'[u] = t <=> Owns(new, t, u)
  BY <1>1, <1>2, <1>3, RuntimeAssumption
<1> QED BY <1>0, <1>4, <1>5

LEMMA SyncMakesIndex ==
    ASSUME NEW new \in PanelLists, info \in PanelLists, SyncUsers(new),
           \A u \in Uids, t \in Tags : users[u] = t <=> Owns(info, t, u),
           \A t \in Tags :
              usersByUUID[t] = IF info[t] = NoUser THEN NoUid ELSE info[t].uid
    PROVE  /\ usersByUUID' \in [Tags -> Uids \cup {NoUid}]
           /\ \A t \in Tags :
                 usersByUUID'[t] = IF new[t] = NoUser THEN NoUid ELSE new[t].uid
<1> DEFINE del == Ids(info, Deleted(info, new))
           added == Added(info, new)
<1>0. usersByUUID' = [t \in Tags |->
        IF t \in added THEN new[t].uid
        ELSE IF \E u \in del \cup Ids(new, added) : users[u] = t THEN NoUid
        ELSE usersByUUID[t]]
  BY DEF SyncUsers, Reindex
<1>1. ASSUME NEW t \in Tags
      PROVE  usersByUUID'[t] = IF new[t] = NoUser THEN NoUid ELSE new[t].uid
  <2>1. CASE t \in added
    BY <1>0, <2>1 DEF Added
  <2>2. ASSUME t \notin added, NEW u \in del \cup Ids(new, added), users[u] = t
        PROVE  new[t] = NoUser
    <3>1. u \in Uids
      BY ListEntry DEF Ids, Deleted, Added
    <3>2. Owns(info, t, u)
      BY <2>2, <3>1
    <3>3. CASE u \in del
      <4>1. PICK s \in Tags : s \in Deleted(info, new) /\ info[s].uid = u
        BY <3>3 DEF Ids, Deleted
      <4>2. s = t
        BY <3>2, <4>1, OneOwner, Difference DEF Owns
      <4> QED BY <2>2, <4>1, <4>2 DEF Deleted, Added
    <3>4. CASE u \in Ids(new, added)
      <4>1. PICK s \in Tags : s \in added /\ Owns(new, s, u)
        BY <3>4 DEF Ids, Added, Owns
      <4>2. s # t
        BY <2>2, <4>1
      <4>3. ~Owns(new, t, u)
        BY <4>1, <4>2, OneOwner
      <4>4. t \in Deleted(info, new)
        BY <3>2, <4>3, Difference DEF Owns
      <4> QED BY <2>2, <4>4 DEF Deleted, Added
    <3> QED BY <2>2, <3>3, <3>4
  <2>3. ASSUME t \notin added, ~ \E u \in del \cup Ids(new, added) : users[u] = t
        PROVE  usersByUUID[t] = IF new[t] = NoUser THEN NoUid ELSE new[t].uid
    <3>1. CASE info[t] = NoUser
      BY <2>3, <3>1 DEF Added
    <3>2. CASE info[t] # NoUser
      <4>1. info[t].uid \in Uids /\ users[info[t].uid] = t
        BY <3>2, ListEntry DEF Owns
      <4>2. t \notin Deleted(info, new)
        BY <2>3, <4>1 DEF Ids
      <4>3. Owns(new, t, info[t].uid)
        BY <3>2, <4>2, Difference
      <4> QED BY <3>2, <4>3 DEF Owns
    <3> QED BY <3>1, <3>2
  <2> QED BY <1>0, <2>1, <2>2, <2>3
<1>2. \A t \in Tags : usersByUUID'[t] \in Uids \cup {NoUid}
  BY <1>1, ListEntry
<1> QED BY <1>0, <1>1, <1>2

-----------------------------------------------------------------------------
(* The registry.                                                           *)

(* closeSessions of SyncUsers is over before the limiter is told.          *)
TakenBySync == taken["sync"] # {} => sync.pc = "close"

RegistryInv ==
    /\ RegistryTypeOK /\ info \in PanelLists
    /\ RegistryIsList
    /\ TakenBySync /\ OpenIsCurrentOrTaken

LEMMA RegistryInit == RuntimeInit => RegistryInv
<1> SUFFICES ASSUME RuntimeInit PROVE RegistryInv
  OBVIOUS
<1>1. info \in PanelLists /\ sync = NoSync
  BY DEF RuntimeInit, LimiterInit, AddLimiter
<1>2. ASSUME NEW u \in Uids
      PROVE  /\ users[u] \in Tags \cup {NoTag}
             /\ \A t \in Tags : users[u] = t <=> Owns(info, t, u)
  <2>1. CASE \E t \in Tags : Owns(info, t, u)
    <3>1. users[u] = CHOOSE t \in Tags : info[t] # NoUser /\ info[t].uid = u
      BY <2>1 DEF RuntimeInit, Owns
    <3>2. users[u] \in Tags /\ Owns(info, users[u], u)
      BY <2>1, <3>1 DEF Owns
    <3> QED BY <1>1, <3>2, OneOwner
  <2>2. CASE ~ \E t \in Tags : Owns(info, t, u)
    BY <2>2, RuntimeAssumption DEF RuntimeInit, Owns
  <2> QED BY <2>1, <2>2
<1>3. \A t \in Tags : usersByUUID[t] \in Uids \cup {NoUid}
  BY <1>1, ListEntry DEF RuntimeInit
<1>4. RegistryTypeOK
  BY <1>2, <1>3 DEF RuntimeInit, RegistryTypeOK, SessionType
<1>5. RegistryIsList
  <2>1. \A t \in Tags :
           usersByUUID[t] = IF info[t] = NoUser THEN NoUid ELSE info[t].uid
    BY DEF RuntimeInit
  <2>2. CurrentList = info
    BY <1>1 DEF CurrentList, NoSync
  <2> QED BY <1>2, <2>1, <2>2 DEF RegistryIsList
<1>6. TakenBySync /\ OpenIsCurrentOrTaken
  <2>1. taken["sync"] = {} /\ \A c \in Conns : session[c].stage # "open"
    BY DEF RuntimeInit, Closers, NoSession
  <2> QED BY <2>1 DEF TakenBySync, OpenIsCurrentOrTaken
<1> QED BY <1>1, <1>4, <1>5, <1>6 DEF RegistryInv

(* Steps that leave the registry, the list and the closers alone.          *)
LEMMA OnlySessions ==
    ASSUME RegistryInv, RegistryTypeOK',
           UNCHANGED <<info, users, usersByUUID, connections, taken, sync>>,
           \A c \in Conns : session'[c].stage = "open" => session'[c] = session[c]
    PROVE  RegistryInv'
BY DEF RegistryInv, RegistryIsList, CurrentList, TakenBySync, OpenIsCurrentOrTaken,
   IsCurrent, IsTaken

(* openSession up to its second critical section, and the return of a slot.*)
LEMMA OpeningStep ==
    ASSUME RegistryInv, NEW c \in Conns,
           \/ \E u \in Uids, t \in Tags, a \in Addrs : OpenSession(c, u, t, a)
           \/ OpenSessionCheck(c) \/ ReleaseSession(c)
    PROVE  RegistryInv'
<1> USE DEF RegistryInv
<1>1. UNCHANGED <<info, users, usersByUUID, connections, taken, sync>>
  BY DEF OpenSession, OpenSessionCheck, ReleaseSession, CheckLimit, CheckLimitAlive,
     TrackConnection, ReleaseConnection, limiterVars, registryVars
<1>2. PICK s \in SessionType :
         session' = [session EXCEPT ![c] = s] /\ (s.stage = "open" => s = session[c])
  <2>1. ASSUME NEW u \in Uids, NEW t \in Tags, NEW a \in Addrs, OpenSession(c, u, t, a)
        PROVE  \E s \in SessionType : session' = [session EXCEPT ![c] = s]
                                      /\ (s.stage = "open" => s = session[c])
    <3> DEFINE s == [stage |-> "checking", uid |-> u, tag |-> t, addr |-> a]
    <3>1. s \in SessionType /\ s.stage # "open"
      BY DEF SessionType
    <3> QED BY <2>1, <3>1 DEF OpenSession
  <2>2. NoSession \in SessionType /\ NoSession.stage # "open"
    BY DEF SessionType, NoSession
  <2>3. CASE OpenSessionCheck(c)
    <3>1. session[c] \in SessionType /\ session[c].stage = "checking"
      BY <2>3 DEF OpenSessionCheck, RegistryTypeOK
    <3>2. session = [session EXCEPT ![c] = session[c]]
      BY DEF RegistryTypeOK
    <3> DEFINE s == [session[c] EXCEPT !.stage = "admitted"]
    <3>3. s \in SessionType /\ s.stage = "admitted"
      <4>1. session[c] \in [stage : {"checking", "admitted", "open", "releasing"},
                            uid : Uids, tag : Tags, addr : Addrs]
        BY <3>1, SessionFields
      <4> QED BY <4>1 DEF SessionType
    <3>4. \/ session' = session
          \/ session' = [session EXCEPT ![c] = NoSession]
          \/ session' = [session EXCEPT ![c] = s]
      BY <2>3 DEF OpenSessionCheck
    <3> QED BY <2>2, <3>1, <3>2, <3>3, <3>4
  <2>4. CASE ReleaseSession(c)
    BY <2>2, <2>4 DEF ReleaseSession
  <2> QED BY <2>1, <2>3, <2>4
<1>3. session' \in [Conns -> SessionType]
  BY <1>2 DEF RegistryTypeOK
<1>4. RegistryTypeOK'
  BY <1>1, <1>3 DEF RegistryTypeOK
<1>5. \A d \in Conns : session'[d].stage = "open" => session'[d] = session[d]
  BY <1>2 DEF RegistryTypeOK
<1> QED BY <1>1, <1>4, <1>5, OnlySessions

(* The second critical section: registered under a current user, or not.   *)
LEMMA RegisterStep ==
    ASSUME RegistryInv, NEW c \in Conns, Register(c) \/ Release(c)
    PROVE  RegistryInv'
<1> USE DEF RegistryInv
<1>1. UNCHANGED <<info, users, usersByUUID, taken, sync>>
  BY DEF Register, Release, limiterVars
<1>2. PICK s \in [stage : {"checking", "admitted", "open", "releasing"},
                  uid : Uids, tag : Tags, addr : Addrs] : s = session[c]
  BY SessionFields DEF Register, Release, Unregister, RegistryTypeOK
<1>3. s.uid \in Uids /\ s.tag \in Tags
  BY <1>2
<1>4. CASE Register(c) /\ IsCurrent(s.uid, s.tag)
  <2>1. /\ session' = [session EXCEPT ![c] = [s EXCEPT !.stage = "open"]]
        /\ connections' = [connections EXCEPT ![s.uid] = @ \cup {c}]
    BY <1>2, <1>4 DEF Register
  <2>2. [s EXCEPT !.stage = "open"] \in SessionType
    BY <1>2 DEF SessionType
  <2>3. RegistryTypeOK'
    BY <1>1, <1>3, <2>1, <2>2 DEF RegistryTypeOK
  <2>4. /\ session'[c].uid = s.uid /\ session'[c].tag = s.tag
        /\ c \in connections'[s.uid]
        /\ \A d \in Conns \ {c} : session'[d] = session[d]
        /\ \A u \in Uids : connections[u] \subseteq connections'[u]
    BY <1>3, <2>1 DEF RegistryTypeOK
  <2>5. OpenIsCurrentOrTaken'
    <3> SUFFICES ASSUME NEW d \in Conns, session'[d].stage = "open"
                 PROVE  \/ /\ d \in connections'[session'[d].uid]
                           /\ users[session'[d].uid] = session'[d].tag
                        \/ \E g \in Closers : d \in taken[g]
      BY <1>1 DEF OpenIsCurrentOrTaken, IsCurrent, IsTaken
    <3>1. CASE d = c
      BY <1>4, <2>4, <3>1 DEF IsCurrent
    <3>2. CASE d # c
      <4>1. session[d].uid \in Uids
        BY <2>4, <3>2, SessionFields DEF RegistryTypeOK
      <4> QED BY <2>4, <3>2, <4>1 DEF OpenIsCurrentOrTaken, IsCurrent, IsTaken
    <3> QED BY <3>1, <3>2
  <2> QED BY <1>1, <2>3, <2>5 DEF RegistryIsList, CurrentList, TakenBySync
<1>5. CASE ~(Register(c) /\ IsCurrent(s.uid, s.tag))
  <2>1. /\ session' = [session EXCEPT ![c] = [s EXCEPT !.stage = "releasing"]]
        /\ \/ connections' = connections
           \/ connections' = [connections EXCEPT ![s.uid] = @ \ {c}]
    BY <1>2, <1>5 DEF Register, Release, Unregister
  <2>2. [s EXCEPT !.stage = "releasing"] \in SessionType
    BY <1>2 DEF SessionType
  <2>3. RegistryTypeOK'
    BY <1>1, <1>3, <2>1, <2>2 DEF RegistryTypeOK
  <2>4. /\ session'[c].stage # "open"
        /\ \A d \in Conns \ {c} : session'[d] = session[d]
        /\ \A u \in Uids : connections[u] \ {c} \subseteq connections'[u]
    BY <1>2, <1>3, <2>1 DEF RegistryTypeOK
  <2>5. OpenIsCurrentOrTaken'
    <3> SUFFICES ASSUME NEW d \in Conns, d # c, session[d].stage = "open"
                 PROVE  \/ /\ d \in connections'[session[d].uid]
                           /\ users[session[d].uid] = session[d].tag
                        \/ \E g \in Closers : d \in taken[g]
      BY <1>1, <2>4 DEF OpenIsCurrentOrTaken, IsCurrent, IsTaken
    <3>1. session[d].uid \in Uids
      BY SessionFields DEF RegistryTypeOK
    <3> QED BY <2>4, <3>1 DEF OpenIsCurrentOrTaken, IsCurrent, IsTaken
  <2> QED BY <1>1, <2>3, <2>5 DEF RegistryIsList, CurrentList, TakenBySync
<1> QED BY <1>4, <1>5

(* closeSessions: a session leaves the closer's list when it is closed.    *)
LEMMA CloseTakenStep ==
    ASSUME RegistryInv, NEW g \in Closers, NEW c \in Conns, CloseTaken(g, c)
    PROVE  RegistryInv'
<1> USE DEF RegistryInv
<1>1. UNCHANGED <<info, users, usersByUUID, sync>>
  BY DEF CloseTaken, limiterVars
<1>2. CASE Unregister(c) /\ UNCHANGED taken
  <2>1. Release(c)
    BY <1>2 DEF CloseTaken, Release
  <2> QED BY <2>1, RegisterStep
<1>3. CASE /\ session[c] = NoSession
           /\ taken' = [taken EXCEPT ![g] = @ \ {c}]
           /\ UNCHANGED <<connections, session>>
  <2>1. /\ \A h \in Closers : taken'[h] \subseteq taken[h]
        /\ \A h \in Closers : taken[h] \ {c} \subseteq taken'[h]
    BY <1>3 DEF RegistryTypeOK
  <2>2. RegistryTypeOK'
    BY <1>1, <1>3 DEF RegistryTypeOK
  <2>3. session[c].stage # "open"
    BY <1>3 DEF NoSession
  <2>4. OpenIsCurrentOrTaken'
    BY <1>1, <1>3, <2>1, <2>3 DEF OpenIsCurrentOrTaken, IsCurrent, IsTaken
  <2>5. TakenBySync'
    BY <1>1, <2>1 DEF TakenBySync, Closers
  <2> QED BY <1>1, <2>2, <2>4, <2>5 DEF RegistryIsList, CurrentList
<1> QED BY <1>2, <1>3 DEF CloseTaken

(* A kernel that stops takes every registered session.                     *)
LEMMA CloseAllStep ==
    ASSUME RegistryInv, CloseAllConnections
    PROVE  RegistryInv'
<1> USE DEF RegistryInv
<1>1. UNCHANGED <<info, users, usersByUUID, session, sync>>
  BY DEF CloseAllConnections, limiterVars
<1>2. /\ taken'["stop"] = UNION {connections[u] : u \in Uids}
      /\ taken'["sync"] = taken["sync"] /\ taken["stop"] = {}
      /\ taken' \in [Closers -> SUBSET Conns]
  BY DEF CloseAllConnections, RegistryTypeOK, Closers
<1>3. RegistryTypeOK'
  BY <1>1, <1>2 DEF CloseAllConnections, RegistryTypeOK
<1>4. OpenIsCurrentOrTaken'
  <2> SUFFICES ASSUME NEW c \in Conns, session[c].stage = "open"
               PROVE  c \in taken'["stop"] \/ c \in taken'["sync"]
    BY <1>1 DEF OpenIsCurrentOrTaken, IsTaken, Closers
  <2>1. session[c].uid \in Uids
    BY SessionFields DEF RegistryTypeOK
  <2>2. c \in connections[session[c].uid] \/ c \in taken["sync"]
    BY <1>2 DEF OpenIsCurrentOrTaken, IsTaken, Closers
  <2> QED BY <1>2, <2>1, <2>2
<1>5. TakenBySync'
  BY <1>1, <1>2 DEF TakenBySync
<1> QED BY <1>1, <1>3, <1>4, <1>5 DEF RegistryIsList, CurrentList

(* SyncUsers takes the sessions of the users that are not in the new list, *)
(* or not under the same id.                                               *)
LEMMA SyncUsersStep ==
    ASSUME RegistryInv, NEW new \in PanelLists, SyncUsers(new)
    PROVE  RegistryInv'
<1> USE DEF RegistryInv
<1> DEFINE del == Ids(info, Deleted(info, new))
<1>1. /\ sync = NoSync /\ sync' = [pc |-> "close", new |-> new]
      /\ UNCHANGED <<info, session>> /\ TakeSessions(del)
  BY DEF SyncUsers, limiterVars
<1>2. CurrentList = info /\ CurrentList' = new
  BY <1>1 DEF CurrentList, NoSync
<1>3. /\ users' \in [Uids -> Tags \cup {NoTag}]
      /\ \A u \in Uids, t \in Tags : users'[u] = t <=> Owns(new, t, u)
  BY <1>2, SyncMakesUsers DEF RegistryIsList, RegistryTypeOK
<1>4. /\ usersByUUID' \in [Tags -> Uids \cup {NoUid}]
      /\ \A t \in Tags :
            usersByUUID'[t] = IF new[t] = NoUser THEN NoUid ELSE new[t].uid
  BY <1>2, SyncMakesIndex DEF RegistryIsList
<1>5. RegistryIsList'
  BY <1>2, <1>3, <1>4 DEF RegistryIsList
<1>6. /\ taken'["sync"] = UNION {connections[u] : u \in del}
      /\ taken'["stop"] = taken["stop"]
      /\ taken' = [taken EXCEPT !["sync"] = UNION {connections[u] : u \in del}]
  BY <1>1 DEF TakeSessions, RegistryTypeOK, Closers
<1>7. del \subseteq Uids
  BY ListEntry DEF Ids, Deleted
<1>8. RegistryTypeOK'
  <2>1. UNION {connections[u] : u \in del} \subseteq Conns
    BY <1>7 DEF RegistryTypeOK
  <2>2. taken' \in [Closers -> SUBSET Conns]
    BY <1>6, <2>1 DEF RegistryTypeOK
  <2>3. connections' \in [Uids -> SUBSET Conns]
    BY <1>1 DEF TakeSessions, RegistryTypeOK
  <2> QED BY <1>1, <1>3, <1>4, <2>2, <2>3 DEF RegistryTypeOK
<1>9. OpenIsCurrentOrTaken'
  <2> SUFFICES ASSUME NEW c \in Conns, session[c].stage = "open",
                      c \notin taken'["sync"], c \notin taken["stop"]
               PROVE  /\ c \in connections'[session[c].uid]
                      /\ users'[session[c].uid] = session[c].tag
    BY <1>1, <1>6 DEF OpenIsCurrentOrTaken, IsCurrent, IsTaken, Closers
  <2>1. session[c].uid \in Uids /\ session[c].tag \in Tags
    BY SessionFields DEF RegistryTypeOK
  <2>2. taken["sync"] = {}
    BY <1>1 DEF TakenBySync, NoSync
  <2>3. c \in connections[session[c].uid] /\ users[session[c].uid] = session[c].tag
    BY <2>2 DEF OpenIsCurrentOrTaken, IsCurrent, IsTaken, Closers
  <2>4. session[c].uid \notin del
    BY <1>6, <2>3
  <2>5. Owns(info, session[c].tag, session[c].uid)
    BY <1>2, <2>1, <2>3 DEF RegistryIsList
  <2>6. session[c].tag \notin Deleted(info, new)
    BY <2>4, <2>5 DEF Ids, Owns
  <2>7. Owns(new, session[c].tag, session[c].uid)
    BY <2>1, <2>5, <2>6, Difference DEF Owns
  <2>8. users'[session[c].uid] = session[c].tag
    BY <1>3, <2>1, <2>7
  <2>9. connections'[session[c].uid] = connections[session[c].uid]
    BY <1>1, <2>1, <2>4 DEF TakeSessions
  <2> QED BY <2>3, <2>8, <2>9
<1>10. TakenBySync'
  BY <1>1 DEF TakenBySync
<1> QED BY <1>1, <1>5, <1>8, <1>9, <1>10

(* The limiter follows.                                                    *)
LEMMA SyncLimiterStep ==
    ASSUME RegistryInv, SyncLimiter \/ SyncLimiterRest
    PROVE  RegistryInv'
<1> USE DEF RegistryInv
<1>1. UNCHANGED <<users, usersByUUID, connections, session, taken>>
  BY DEF SyncLimiter, SyncLimiterRest, registryVars
<1>2. sync.pc # "idle"
  BY DEF SyncLimiter, SyncLimiterRest
<1>3. PICK l \in PanelLists : sync.new = l
  BY <1>2, SyncFields
<1>4. CASE SyncLimiter
  <2>1. /\ sync.pc = "close" /\ taken["sync"] = {}
        /\ sync' = [sync EXCEPT !.pc = "update"] /\ UpdateUser(l)
    BY <1>3, <1>4 DEF SyncLimiter
  <2>2. info' = l
    BY <2>1, UpdateMakesNew
  <2>3. sync' \in [pc : {"close", "update"}, new : PanelLists] /\ sync'.pc = "update"
    BY <1>2, <2>1, SyncFields
  <2>4. CurrentList = l /\ CurrentList' = l
    BY <1>3, <2>1, <2>2, <2>3 DEF CurrentList
  <2>5. RegistryTypeOK'
    BY <1>1, <2>3 DEF RegistryTypeOK
  <2>6. RegistryIsList' /\ TakenBySync'
    BY <1>1, <2>1, <2>4 DEF RegistryIsList, TakenBySync
  <2> QED BY <1>1, <2>2, <2>5, <2>6 DEF OpenIsCurrentOrTaken, IsCurrent, IsTaken
<1>5. CASE SyncLimiterRest
  <2>1. sync.pc = "update" /\ sync' \in {sync, NoSync} /\ info' = info
    BY <1>5 DEF SyncLimiterRest, UpdateAlive, UpdateOnline
  <2>2. CurrentList = info /\ CurrentList' = info
    BY <2>1 DEF CurrentList, NoSync
  <2>3. RegistryTypeOK'
    BY <1>1, <2>1 DEF RegistryTypeOK
  <2>4. taken["sync"] = {}
    BY <2>1 DEF TakenBySync
  <2>5. RegistryIsList' /\ TakenBySync'
    BY <1>1, <2>2, <2>4 DEF RegistryIsList, TakenBySync
  <2> QED BY <1>1, <2>1, <2>3, <2>5 DEF OpenIsCurrentOrTaken, IsCurrent, IsTaken
<1> QED BY <1>4, <1>5

(* The invariant of the registry is inductive.                             *)
LEMMA RegistryStep == RegistryInv /\ [Next]_vars => RegistryInv'
<1> SUFFICES ASSUME RegistryInv, [Next]_vars PROVE RegistryInv'
  OBVIOUS
<1>1. CASE Report
  <2>1. UNCHANGED <<info, users, usersByUUID, connections, session, taken, sync>>
    BY <1>1 DEF Report, ReportStep, SetAliveList, MarkOnlineDeviceReported,
       MarkOfflineUsersReported, runtimeVars
  <2> QED BY <2>1, OnlySessions DEF RegistryInv, RegistryTypeOK
<1>2. CASE UNCHANGED vars
  <2>1. UNCHANGED <<info, users, usersByUUID, connections, session, taken, sync>>
    BY <1>2 DEF vars, limiterVars, runtimeVars
  <2> QED BY <2>1, OnlySessions DEF RegistryInv, RegistryTypeOK
<1> QED BY <1>1, <1>2, OpeningStep, RegisterStep, CloseTakenStep, CloseAllStep,
           SyncUsersStep, SyncLimiterStep
        DEF Next, SessionStep, CloseStep, SyncStep

LEMMA RegistryCorrect == Spec => []RegistryInv
BY RegistryInit, RegistryStep, PTL DEF Spec

(* No interleaving of openSession with SyncUsers leaves a removed user     *)
(* connected, for any number of sessions and users.                        *)
THEOREM OpenIsCurrentOrTakenCorrect == Spec => []OpenIsCurrentOrTaken
<1>1. RegistryInv => OpenIsCurrentOrTaken
  BY DEF RegistryInv
<1> QED BY <1>1, RegistryCorrect, PTL

(* usersByUUID and users are exact at any time, also when SyncUsers moves  *)
(* ids between credentials and credentials between ids.                    *)
THEOREM IndexMatchesUsersCorrect == Spec => []IndexMatchesUsers
<1>1. RegistryInv => IndexMatchesUsers
  <2> SUFFICES ASSUME RegistryIsList, NEW u \in Uids, NEW t \in Tags
               PROVE  usersByUUID[t] = u <=> users[u] = t
    BY DEF RegistryInv, IndexMatchesUsers
  <2>1. users[u] = t <=> Owns(CurrentList, t, u)
    BY DEF RegistryIsList
  <2>2. CASE CurrentList[t] = NoUser
    BY <2>1, <2>2, UserListAssumption DEF RegistryIsList, Owns
  <2>3. CASE CurrentList[t] # NoUser
    BY <2>1, <2>3 DEF RegistryIsList, Owns
  <2> QED BY <2>2, <2>3
<1> QED BY <1>1, RegistryCorrect, PTL

-----------------------------------------------------------------------------
(* openSession, Session.Release, closeSessions and syncUsers call their    *)
(* limiter as LimiterSpec allows it: each of their critical sections is    *)
(* one of the limiter's, or does not touch it.                             *)
THEOREM RuntimeImplementsLimiter == Spec => LimiterSpec
<1>1. RuntimeInit => LimiterInit
  BY DEF RuntimeInit
<1>2. RegistryInv /\ [Next]_vars => [LimiterNext]_limiterVars
  BY StepOfLimiter DEF RegistryInv
<1> QED BY <1>1, <1>2, RegistryCorrect, PTL DEF Spec, LimiterSpec

(* So no device slot leaks under the sessions and synchronisations of a    *)
(* node (openSession, releaseOnce, Limiter.UpdateUser).                    *)
THEOREM RuntimeSlotsBacked == Spec => []SlotsBacked
BY RuntimeImplementsLimiter, SlotsBackedCorrect, PTL

(* And every address that openSession makes active is within the device    *)
(* limit its CheckLimit read.                                              *)
THEOREM RuntimeDeviceLimit == Spec => DeviceLimitRespected
BY RuntimeImplementsLimiter, DeviceLimitRespectedCorrect, PTL

(* The state of RuntimeServices and its limiter together stays well typed  *)
(* (openSession, SyncUsers, CloseAllConnections, UpdateUser).              *)
THEOREM RuntimeTypeCorrect == Spec => []RuntimeTypeOK
<1>1. TypeOK /\ RegistryInv => RuntimeTypeOK
  BY DEF RegistryInv, RegistryTypeOK, RuntimeTypeOK
<1> QED BY <1>1, RuntimeImplementsLimiter, TypeCorrect, RegistryCorrect, PTL
=============================================================================
