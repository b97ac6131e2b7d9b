------------------------------ MODULE MCTunnel ------------------------------
(* Two chunks in all, either way, in batches of one or two, and one broken *)
(* or stalled connection: a batch is repeated after a lost response while  *)
(* its first request still runs, a stale pull is taken over, a body or a   *)
(* response is cut.                                                        *)
EXTENDS Tunnel
=============================================================================
