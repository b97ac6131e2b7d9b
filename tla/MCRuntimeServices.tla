------------------------ MODULE MCRuntimeServices --------------------------
(* Model values for the session registry over its limiter. *)
EXTENDS RuntimeServices, TLC

CONSTANTS a1, a1mapped

(* a1mapped is the IPv4-mapped spelling of a1. *)
MCtrim == [a \in Addrs |-> IF a = a1mapped THEN a1 ELSE a]

MCSymmetry == Permutations(Conns) \cup Permutations(Uids) \cup Permutations(Tags)
=============================================================================
