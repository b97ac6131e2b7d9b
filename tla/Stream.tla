------------------------------- MODULE Stream -------------------------------
(***************************************************************************)
(* What a half-closable stream promises, whatever carries it: the reader   *)
(* gets the chunks in the order they were written, none twice and none     *)
(* skipped, nothing after the end, and the end of the stream is only       *)
(* reported when the writer has closed it and everything it wrote has been *)
(* read, or when what carries the stream was cut in a way that its reader  *)
(* cannot tell from an end.  A stream may stop delivering at any time.     *)
(*                                                                         *)
(* The streams of the multiplexer (Mux) and both directions of an HTTP     *)
(* tunnel session (Tunnel) implement this specification.                   *)
(***************************************************************************)
EXTENDS Naturals, Sequences

VARIABLES written,   \* how many chunks the writer has written: 1, 2, 3, ...
          read,      \* the chunks the reader has got
          closed,    \* the writer has closed its side
          ended,     \* the end has been reported
          cut        \* the carrier has ended like a stream does

streamVars == <<written, read, closed, ended, cut>>

StreamInit == written = 0 /\ read = <<>> /\ ~closed /\ ~ended /\ ~cut

WriteChunks ==
    /\ ~closed
    /\ written' \in Nat /\ written' > written
    /\ UNCHANGED <<read, closed, ended, cut>>

ReadChunk ==
    /\ ~ended
    /\ Len(read) < written
    /\ read' = Append(read, Len(read) + 1)
    /\ UNCHANGED <<written, closed, ended, cut>>

CloseStream == closed' /\ UNCHANGED <<written, read, ended, cut>>

EndStream ==
    /\ cut \/ (closed /\ Len(read) = written)
    /\ ended'
    /\ UNCHANGED <<written, read, closed, cut>>

CutStream == cut' /\ UNCHANGED <<written, read, closed, ended>>

StreamNext == WriteChunks \/ ReadChunk \/ CloseStream \/ EndStream \/ CutStream

StreamStep == [StreamNext]_streamVars

StreamSpec == StreamInit /\ [][StreamNext]_streamVars

-----------------------------------------------------------------------------
(* An end that is reported without a cut is complete, and nothing is read  *)
(* out of order.                                                           *)
Complete ==
    /\ Len(read) <= written
    /\ \A n \in DOMAIN read : read[n] = n
    /\ ended => cut \/ (closed /\ Len(read) = written)
=============================================================================
