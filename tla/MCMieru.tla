------------------------------ MODULE MCMieru -------------------------------
(* Lists that lead to hot updates, tombstones, too many of them, a changed *)
(* password and an empty node.                                             *)
EXTENDS Mieru

List(a, b, c) == [i \in Ids |-> CASE i = 1 -> a [] i = 2 -> b [] i = 3 -> c]

CONSTANTS p, q

MCLists == {List(p, p, None), List(p, None, None), List(q, None, None),
            List(None, None, p), NoUsers}
=============================================================================
