----------------------------- MODULE UserLists -----------------------------
(***************************************************************************)
(* A panel user list and the three-way difference the controller computes  *)
(* between the list it runs and the list the panel returned                *)
(* (node/user.go, compareUserList).                                        *)
(*                                                                         *)
(* A list is a function from credentials to the panel record that owns the *)
(* credential, or NoUser.  A credential stands for the user's UUID; for    *)
(* one node tag format.UserTag(tag, uuid) is injective, so the same value  *)
(* also stands for the limiter's "tag|uuid" key.                           *)
(***************************************************************************)
EXTENDS Naturals

CONSTANTS Tags,          \* credentials (UUIDs, equivalently user tags)
          Uids,          \* panel user ids
          DeviceLimits,  \* device limits a user may have; 0 is unlimited
          NoUser,        \* "no entry in the map"
          NoUid          \* "no entry", for maps that hold a uid

ASSUME UserListAssumption ==
    /\ DeviceLimits \subseteq Nat
    /\ NoUid \notin Uids
    /\ NoUser \notin [uid : Uids, limit : DeviceLimits]

UserLimitInfo == [uid : Uids, limit : DeviceLimits]

UserList == [Tags -> UserLimitInfo \cup {NoUser}]

(* The panel gives an id to one user only.                                 *)
PanelLists ==
    {l \in UserList : \A s, t \in Tags :
        s # t /\ l[s] # NoUser /\ l[t] # NoUser => l[s].uid # l[t].uid}

(* A credential whose panel id changed is deleted under the old id and     *)
(* added under the new one.                                                *)
Moved(old, new, t) ==
    old[t] # NoUser /\ new[t] # NoUser /\ old[t].uid # new[t].uid

Deleted(old, new) ==
    {t \in Tags : old[t] # NoUser /\ (new[t] = NoUser \/ Moved(old, new, t))}

Added(old, new) ==
    {t \in Tags : new[t] # NoUser /\ (old[t] = NoUser \/ Moved(old, new, t))}

Modified(old, new) ==
    {t \in Tags : /\ old[t] # NoUser /\ new[t] # NoUser
                  /\ old[t].uid = new[t].uid
                  /\ old[t].limit # new[t].limit}
=============================================================================
