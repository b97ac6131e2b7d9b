----------------------------- MODULE MCTraffic -----------------------------
(* One user with up to two bytes in each direction; reloads, lost answers  *)
(* and late records in any order.                                          *)
EXTENDS Traffic
=============================================================================
