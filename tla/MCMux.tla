------------------------------- MODULE MCMux -------------------------------
(* One stream, two chunks from the client, room for one chunk in the       *)
(* stream's queue and one frame on the connection: the writer can outrun   *)
(* the reader, fill the queue and have its stream reset while either side  *)
(* half-closes it or closes the session, or the connection ends.           *)
EXTENDS Mux
=============================================================================
