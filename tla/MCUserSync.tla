----------------------------- MODULE MCUserSync -----------------------------
(* Model values for the user synchronisation. *)
EXTENDS UserSync, TLC

CONSTANTS t1, t2, t3, u1, u2

List(records) == [t \in Tags |-> IF t \in DOMAIN records THEN records[t] ELSE NoUser]
User(u, l) == [uid |-> u, limit |-> l]

(* Nobody; one user with and without a device limit; two users; the same   *)
(* two with their ids exchanged; a credential that takes over the id of a  *)
(* user who leaves; a list no snapshot can be built from.                  *)
MCOffers == {
    List(<<>>),
    List(t1 :> User(u1, 0)),
    List(t1 :> User(u1, 1)),
    List(t1 :> User(u1, 0) @@ t2 :> User(u2, 0)),
    List(t1 :> User(u2, 0) @@ t2 :> User(u1, 0)),
    List(t2 :> User(u1, 0)),
    List(t3 :> User(u2, 0)) }
=============================================================================
