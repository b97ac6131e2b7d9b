---------------------------- MODULE MCSupervisor ----------------------------
(* Two node infos, the second of which moves a node to another port, and   *)
(* files with two nodes, with one node and with the same node twice.       *)
EXTENDS Supervisor

CONSTANTS n1, n2, p1, p2, p3, good, small, twice, one, two

MCFiles   == {good, small, twice}
MCInfos   == {one, two}
MCNodesOf == (good :> <<n1, n2>>) @@ (small :> <<n2>>) @@ (twice :> <<n1, n1>>)
MCPortOf  == (one :> (n1 :> p1 @@ n2 :> p2)) @@ (two :> (n1 :> p2 @@ n2 :> p3))
MCInvalid == {<<small, one>>}
=============================================================================
