-------------------------- MODULE MCOnlineReport ---------------------------
(* Model values for the online report over the limiter. *)
EXTENDS OnlineReport

MCtrim == [a \in Addrs |-> a]
=============================================================================
