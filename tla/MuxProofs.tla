----------------------------- MODULE MuxProofs -----------------------------
(***************************************************************************)
(* Proofs about streams: what an abstract stream promises, and that every  *)
(* direction of every stream of a multiplexed session is one, for any      *)
(* number of streams and chunks and any size of the queues.                *)
(***************************************************************************)
EXTENDS Stream, Mux, TLAPS

-----------------------------------------------------------------------------
(* The abstract stream, whatever carries it.                               *)

StreamTypeOK == written \in Nat /\ read \in Seq(Nat)

StreamInv == StreamTypeOK /\ Complete

LEMMA StreamInitInv == StreamInit => StreamInv
BY DEF StreamInit, StreamInv, StreamTypeOK, Complete

LEMMA WriteChunksInv == StreamInv /\ WriteChunks => StreamInv'
<1> SUFFICES ASSUME StreamInv, WriteChunks PROVE StreamInv'
  OBVIOUS
<1>1. ~closed /\ (ended => cut)
  BY DEF StreamInv, Complete, WriteChunks
<1>2. /\ written' \in Nat /\ written' > written
      /\ read' = read /\ closed' = closed /\ ended' = ended /\ cut' = cut
  BY DEF WriteChunks
<1> QED
  BY <1>1, <1>2 DEF StreamInv, StreamTypeOK, Complete

\* The chunk that is read is the next one.
LEMMA ReadChunkInv == StreamInv /\ ReadChunk => StreamInv'
<1> SUFFICES ASSUME StreamInv, ReadChunk PROVE StreamInv'
  OBVIOUS
<1>1. /\ written \in Nat /\ read \in Seq(Nat) /\ Len(read) \in Nat
      /\ Len(read) < written /\ \A n \in DOMAIN read : read[n] = n
      /\ written' = written /\ ended' = ended /\ ~ended
      /\ read' = Append(read, Len(read) + 1)
  BY DEF StreamInv, StreamTypeOK, Complete, ReadChunk
<1>2. read' \in Seq(Nat) /\ Len(read') = Len(read) + 1
  BY <1>1
<1>3. ~ended'
  BY <1>1
<1>4. ASSUME NEW n \in DOMAIN read' PROVE read'[n] = n
  BY <1>1, <1>2
<1> QED
  BY <1>1, <1>2, <1>3, <1>4 DEF StreamInv, StreamTypeOK, Complete

LEMMA CloseStreamInv == StreamInv /\ CloseStream => StreamInv'
BY DEF StreamInv, StreamTypeOK, Complete, CloseStream

LEMMA EndStreamInv == StreamInv /\ EndStream => StreamInv'
BY DEF StreamInv, StreamTypeOK, Complete, EndStream

LEMMA CutStreamInv == StreamInv /\ CutStream => StreamInv'
BY DEF StreamInv, StreamTypeOK, Complete, CutStream

\* Every behaviour of a stream is complete in every state: what was read is a
\* prefix of what was written, and a reported end means that the writer closed
\* and that all of it was read, unless the carrier was cut in a way its reader
\* cannot tell from an end.  With MuxIsStream, UplinkIsStream and
\* DownlinkIsStream this is what stream.Read of the multiplexer and
\* queuedConn.Read of the tunnel promise their callers.
THEOREM StreamIsComplete == StreamSpec => []Complete
<1>1. StreamInit => StreamInv
  BY StreamInitInv
<1>2. StreamInv /\ [StreamNext]_streamVars => StreamInv'
  <2> SUFFICES ASSUME StreamInv, [StreamNext]_streamVars PROVE StreamInv'
    OBVIOUS
  <2>1. CASE WriteChunks
    BY <2>1, WriteChunksInv
  <2>2. CASE ReadChunk
    BY <2>2, ReadChunkInv
  <2>3. CASE CloseStream
    BY <2>3, CloseStreamInv
  <2>4. CASE EndStream
    BY <2>4, EndStreamInv
  <2>5. CASE CutStream
    BY <2>5, CutStreamInv
  <2>6. CASE UNCHANGED streamVars
    BY <2>6 DEF StreamInv, StreamTypeOK, Complete, streamVars
  <2> QED
    BY <2>1, <2>2, <2>3, <2>4, <2>5, <2>6 DEF StreamNext
<1>3. StreamInv => Complete
  BY DEF StreamInv
<1> QED
  BY <1>1, <1>2, <1>3, PTL DEF StreamSpec

-----------------------------------------------------------------------------
(* The inductive invariant of the multiplexer.                             *)

StreamType == [made : BOOLEAN, closed : BOOLEAN, lrc : BOOLEAN, lwc : BOOLEAN,
               rwc : BOOLEAN, err : Errors, buf : Seq(Chunks), queued : Nat]

Typed ==
    /\ sess \in [Sides -> {"open", "closing", "closed"}]
    /\ closeErr \in [Sides -> Errors]
    /\ taken \in [Sides -> SUBSET Ids] /\ streams \in [Sides -> SUBSET Ids]
    /\ st \in [Sides -> [Ids -> StreamType]]
    /\ nextID \in 0 .. MaxStreams
    /\ opening \in [Ids -> {"none", "checked", "registered", "done"}]
    /\ accepts \subseteq Ids
    /\ acceptCh \in Seq(Ids)
    /\ handed \in [Sides -> SUBSET Ids]
    /\ writer \in [Sides -> [Ids -> Writer]]
    /\ resets \in [Sides -> [Ids -> 0 .. 2]]
    /\ net \in [Sides -> Seq(Frame)]
    /\ sent \in [Sides -> [Ids -> 0 .. MaxChunks]]
    /\ got \in [Sides -> [Ids -> Seq(Chunks)]]
    /\ eof \in [Sides -> SUBSET Ids]
    /\ \A x \in Sides, i \in Ids :
          writer[x][i].op = "write" => sent[x][i] + writer[x][i].left <= MaxChunks

Made(x, i) == st[x][i].made

(* A side that has not made its stream object knows nothing of the stream. *)
Untouched(x, i) ==
    /\ st[x][i] = NoStream
    /\ i \notin streams[x] \cup taken[x] \cup handed[x] \cup eof[x]
    /\ writer[x][i] = NoWriter /\ resets[x][i] = 0
    /\ sent[x][i] = 0 /\ got[x][i] = <<>>

IsFrame(x, k, type, i) == net[x][k].type = type /\ net[x][k].id = i

(* An id is made once: by the client before its open frame is sent, by the *)
(* server when it reads that frame, which comes before any other frame of  *)
(* the stream.                                                             *)
FreshInv == \A x \in Sides, i \in Ids : ~Made(x, i) => Untouched(x, i)

(* Only the application that has a stream starts a writer on it.           *)
BusyInv == \A x \in Sides, i \in Ids : writer[x][i] # NoWriter => i \in handed[x]

OpeningAt(i) ==
    /\ i > nextID => opening[i] = "none"
    /\ Made("client", i) <=> opening[i] \in {"registered", "done"}
    /\ Made("server", i) => opening[i] = "done"
    /\ i \in handed["client"] => opening[i] = "done"
    /\ i \in accepts => Made("server", i)
    /\ resets["client"][i] > 0 => Made("server", i)

OpeningInv ==
    /\ \A i \in Ids : OpeningAt(i)
    /\ \A n \in DOMAIN acceptCh : Made("server", acceptCh[n])

OpenInv ==
    /\ \A k \in DOMAIN net["server"] :
          net["server"][k].type # "open" /\ Made("server", net["server"][k].id)
    /\ \A k \in DOMAIN net["client"] : \A i \in Ids :
          IsFrame("client", k, "open", i) =>
             /\ ~Made("server", i) /\ opening[i] = "done"
             /\ \A j \in DOMAIN net["client"] : IsFrame("client", j, "open", i) => j = k
    /\ \A k \in DOMAIN net["client"] : \A i \in Ids :
          net["client"][k].id = i =>
             \/ Made("server", i)
             \/ \E j \in DOMAIN net["client"] :
                   j <= k /\ IsFrame("client", j, "open", i)
    /\ \A i \in Ids : opening[i] = "done" /\ sess["client"] # "closed" =>
          \/ Made("server", i)
          \/ \E j \in DOMAIN net["client"] : IsFrame("client", j, "open", i)

(* A stream in the map is not being closed by closeWithError; one that is  *)
(* in neither place is finished, and so is one that a writer will forget.  *)
Forgets(w) == w.op \in {"close", "forget"} \/ (w.op = "closeWrite" /\ w.remove)

MapAt(x, i) ==
    /\ ~(i \in streams[x] /\ i \in taken[x])
    /\ Made(x, i) /\ i \notin streams[x] \cup taken[x] => Finished(st[x][i])
    /\ Forgets(writer[x][i]) => Finished(st[x][i])
    /\ i \in streams[x] /\ Finished(st[x][i]) => Forgets(writer[x][i])
    /\ i \in taken[x] => sess[x] = "closing"

MapInv == \A x \in Sides, i \in Ids : MapAt(x, i)

(* A receiver that still takes data for the stream, or does not know it.   *)
Live(y, i) == ~Made(y, i) \/ (i \in streams[y] /\ ~Ignores(st[y][i]))

Received(y, i) == Len(got[y][i]) + Len(st[y][i].buf)

(* The frames q of a stream on their way to a receiver that has r chunks:  *)
(* place j holds chunk m; the chunks up to n that the receiver lacks are   *)
(* ahead of place k; a reset is.                                           *)
Is(f, type, i) == f.type = type /\ f.id = i

IsData(q, j, i, m) == Is(q[j], "data", i) /\ q[j].chunk = m

Ahead(q, i, k, r, n) ==
    \A m \in Chunks : m > r /\ m <= n => \E j \in DOMAIN q : j < k /\ IsData(q, j, i, m)

ResetAhead(q, i, k) == \E j \in DOMAIN q : j < k /\ Is(q[j], "reset", i)

(* Data frames are in order and go up to the s chunks that were written,   *)
(* without a gap; a close frame follows a reset or all of the data.        *)
Ordered(q, i, s) ==
    \A k \in DOMAIN q : Is(q[k], "data", i) =>
        /\ q[k].chunk <= s
        /\ \A j \in DOMAIN q : j < k /\ Is(q[j], "data", i) => q[j].chunk < q[k].chunk

Gapless(q, i, r) ==
    \A k \in DOMAIN q : Is(q[k], "data", i) =>
        q[k].chunk > r /\ Ahead(q, i, k, r, q[k].chunk - 1)

CloseIsReset(q, i) == \A k \in DOMAIN q : Is(q[k], "close", i) => ResetAhead(q, i, k)

CloseIsLast(q, i, r, s) ==
    \A k \in DOMAIN q : Is(q[k], "close", i) =>
        ResetAhead(q, i, k) \/ Ahead(q, i, k, r, s)

FlowAt(x, i) ==
    LET q == net[x]
        end == Len(net[x]) + 1
        r == Received(Peer(x), i)
        s == sent[x][i]
    IN /\ Ordered(q, i, s)
       /\ Live(Peer(x), i) =>
             /\ Gapless(q, i, r)
             /\ IF st[x][i].lwc THEN CloseIsLast(q, i, r, s) ELSE CloseIsReset(q, i)
             /\ sess[x] # "closed" =>
                   /\ Ahead(q, i, end, r, s)
                   /\ resets[x][i] = 1 => ResetAhead(q, i, end)

(* The buffer goes on where the reader is; a clean end was announced by    *)
(* the close frame that follows the last chunk.                            *)
BufferAt(x, i) ==
    LET y == Peer(x) IN
    /\ \A n \in DOMAIN st[y][i].buf : st[y][i].buf[n] = Len(got[y][i]) + n
    /\ Received(y, i) <= sent[x][i]
    /\ st[y][i].rwc /\ ~st[y][i].closed /\ ~st[y][i].lrc =>
          st[x][i].lwc /\ Received(y, i) = sent[x][i]

WriterAt(x, i) ==
    /\ writer[x][i].op = "write" => ~st[x][i].lwc
    /\ writer[x][i].op \in {"close", "closeWrite"} => st[x][i].lwc

OrderAt(x, i) == BufferAt(x, i) /\ WriterAt(x, i) /\ FlowAt(x, i)

OrderInv == \A x \in Sides, i \in Ids : OrderAt(x, i)

Bounded ==
    /\ Len(acceptCh) <= AcceptCap
    /\ \A x \in Sides : Len(net[x]) <= ConnCap
    /\ QueueAccounted

(* io.EOF is final: the reader that got it has nothing buffered and its    *)
(* stream takes nothing more; and a stream is closed with io.EOF only when *)
(* that is the error of its session.                                       *)
EndAt(x, i) ==
    /\ i \in eof[x] => st[x][i].buf = <<>> /\ Ignores(st[x][i])
    /\ st[x][i].err = "EOF" => closeErr[x] = "EOF"

EndInv ==
    /\ \A x \in Sides : closeErr[x] = "EOF" => sess[x] # "open"
    /\ \A x \in Sides, i \in Ids : EndAt(x, i)

MuxInv ==
    /\ Typed /\ Bounded /\ FreshInv /\ BusyInv /\ OpeningInv /\ OpenInv
    /\ MapInv /\ OrderInv /\ EndInv

-----------------------------------------------------------------------------
(* What the operators compute.                                             *)

LEMMA SidesPeer ==
    \A x \in Sides : Peer(x) \in Sides /\ Peer(x) # x /\ Peer(Peer(x)) = x
BY DEF Sides, Peer

LEMMA FrameFields ==
    ASSUME NEW f \in Frame
    PROVE  /\ f.type \in {"open", "close", "reset", "data"} /\ f.id \in Ids
           /\ f.type = "data" => f.chunk \in Chunks
BY DEF Frame

LEMMA MadeFrames ==
    ASSUME NEW i \in Ids
    PROVE  /\ \A type \in {"open", "close", "reset"} :
                 /\ Control(type, i) \in Frame
                 /\ Control(type, i).type = type /\ Control(type, i).id = i
           /\ \A c \in Chunks : [type |-> "data", id |-> i, chunk |-> c] \in Frame
BY DEF Frame, Control

LEMMA WriterFields ==
    ASSUME NEW w \in Writer
    PROVE  /\ w.op \in {"none", "write", "close", "forget", "closeWrite"}
           /\ w.op = "none" <=> w = NoWriter
           /\ w.op = "write" => w \in [op : {"write"}, left : Chunks]
           /\ w.op = "closeWrite" => w.remove \in BOOLEAN
BY DEF Writer, NoWriter

LEMMA NewStreams ==
    /\ newStream \in StreamType /\ NoStream \in StreamType
    /\ newStream.made /\ ~newStream.closed /\ ~newStream.lrc /\ ~newStream.lwc
    /\ ~newStream.rwc /\ newStream.err = "nil"
    /\ newStream.buf = <<>> /\ newStream.queued = 0
    /\ ~NoStream.made /\ ~NoStream.closed /\ ~NoStream.lrc /\ ~NoStream.lwc
    /\ ~NoStream.rwc /\ NoStream.err = "nil"
    /\ NoStream.buf = <<>> /\ NoStream.queued = 0
<1>1. /\ newStream \in StreamType
      /\ newStream.made /\ ~newStream.closed /\ ~newStream.lrc /\ ~newStream.lwc
      /\ ~newStream.rwc /\ newStream.err = "nil"
      /\ newStream.buf = <<>> /\ newStream.queued = 0
  BY DEF newStream, StreamType, Errors
<1> QED BY <1>1 DEF NoStream, StreamType

(* What closeNoSend, closeRemoteWrite, enqueue, dequeue and the inline     *)
(* updates of Close, CloseWrite and CloseRead change.                      *)
LEMMA CloseNoSendIs ==
    ASSUME NEW s \in StreamType, NEW e \in Errors
    PROVE  LET r == closeNoSend(s, e) IN
           /\ r \in StreamType
           /\ r.made = s.made /\ r.lrc = s.lrc /\ r.lwc = s.lwc
           /\ r.rwc = s.rwc /\ r.buf = s.buf /\ r.queued = s.queued
           /\ r.closed /\ r.err \in {s.err, e}
<1>1. CASE s.closed
  BY <1>1 DEF StreamType, closeNoSend
<1>2. CASE ~s.closed
  BY <1>2 DEF StreamType, closeNoSend
<1> QED BY <1>1, <1>2

LEMMA ErrorsAt ==
    ASSUME Typed
    PROVE  /\ "other" \in Errors /\ closeErr["client"] \in Errors
           /\ \A x \in Sides : closeErr[x] \in Errors
BY DEF Typed, Errors, Sides

LEMMA CloseRemoteIs ==
    ASSUME NEW s \in StreamType
    PROVE  LET r == closeRemoteWrite(s) IN
           /\ r \in StreamType
           /\ r.made = s.made /\ r.closed = s.closed /\ r.lrc = s.lrc
           /\ r.lwc = s.lwc /\ r.buf = s.buf /\ r.queued = s.queued
           /\ (s.closed => r = s) /\ (~s.closed => r.rwc)
           /\ r.err = s.err /\ (s.rwc => r.rwc)
BY DEF StreamType, closeRemoteWrite

LEMMA EnqueueIs ==
    ASSUME NEW s \in StreamType, NEW c \in Chunks
    PROVE  LET r == enqueue(s, c) IN
           /\ r \in StreamType
           /\ r.made = s.made /\ r.closed = s.closed /\ r.lrc = s.lrc
           /\ r.lwc = s.lwc /\ r.rwc = s.rwc /\ r.buf = Append(s.buf, c)
           /\ r.queued = s.queued + 1 /\ r.err = s.err
<1>1. Append(s.buf, c) \in Seq(Chunks) /\ s.queued + 1 \in Nat
  BY DEF StreamType
<1> QED BY <1>1 DEF StreamType, enqueue

LEMMA DequeueIs ==
    ASSUME NEW s \in StreamType, s.buf # <<>>, s.queued > 0
    PROVE  LET r == dequeue(s) IN
           /\ r \in StreamType
           /\ r.made = s.made /\ r.closed = s.closed /\ r.lrc = s.lrc
           /\ r.lwc = s.lwc /\ r.rwc = s.rwc /\ r.buf = Tail(s.buf)
           /\ r.queued = s.queued - 1 /\ r.err = s.err
<1>1. Tail(s.buf) \in Seq(Chunks) /\ s.queued - 1 \in Nat
  BY DEF StreamType
<1> QED BY <1>1 DEF StreamType, dequeue

LEMMA ClosedIs ==
    ASSUME NEW s \in StreamType
    PROVE  LET r == [s EXCEPT !.closed = TRUE, !.lrc = TRUE, !.lwc = TRUE,
                             !.err = "other", !.buf = <<>>, !.queued = 0] IN
           /\ r \in StreamType
           /\ r.made = s.made /\ r.rwc = s.rwc /\ r.closed /\ r.lrc /\ r.lwc
           /\ r.err = "other" /\ r.buf = <<>> /\ r.queued = 0
<1>1. ASSUME NEW none \in Seq(Chunks)
      PROVE  LET r == [s EXCEPT !.closed = TRUE, !.lrc = TRUE, !.lwc = TRUE,
                             !.err = "other", !.buf = none, !.queued = 0] IN
           /\ r \in StreamType
           /\ r.made = s.made /\ r.rwc = s.rwc /\ r.closed /\ r.lrc /\ r.lwc
           /\ r.err = "other" /\ r.buf = none /\ r.queued = 0
  BY DEF StreamType, Errors
<1>2. <<>> \in Seq(Chunks)
  OBVIOUS
<1> QED BY <1>1, <1>2

LEMMA HalfClosedIs ==
    ASSUME NEW s \in StreamType
    PROVE  LET r == [s EXCEPT !.lwc = TRUE] IN
           /\ r \in StreamType
           /\ r.made = s.made /\ r.closed = s.closed /\ r.lrc = s.lrc
           /\ r.rwc = s.rwc /\ r.buf = s.buf /\ r.queued = s.queued /\ r.lwc
           /\ r.err = s.err
BY DEF StreamType

LEMMA ReadClosedIs ==
    ASSUME NEW s \in StreamType
    PROVE  LET r == [s EXCEPT !.lrc = TRUE, !.buf = <<>>, !.queued = 0] IN
           /\ r \in StreamType
           /\ r.made = s.made /\ r.closed = s.closed /\ r.lwc = s.lwc
           /\ r.rwc = s.rwc /\ r.lrc /\ r.err = s.err /\ r.buf = <<>> /\ r.queued = 0
<1>1. ASSUME NEW none \in Seq(Chunks)
      PROVE  LET r == [s EXCEPT !.lrc = TRUE, !.buf = none, !.queued = 0] IN
           /\ r \in StreamType
           /\ r.made = s.made /\ r.closed = s.closed /\ r.lwc = s.lwc
           /\ r.rwc = s.rwc /\ r.lrc /\ r.err = s.err /\ r.buf = none /\ r.queued = 0
  BY DEF StreamType
<1>2. <<>> \in Seq(Chunks)
  OBVIOUS
<1> QED BY <1>1, <1>2

(* What one goroutine does to one stream of one side leaves the others.    *)
SameAt(y, j) ==
    /\ st'[y][j] = st[y][j] /\ writer'[y][j] = writer[y][j]
    /\ resets'[y][j] = resets[y][j]
    /\ sent'[y][j] = sent[y][j] /\ got'[y][j] = got[y][j]
    /\ j \in streams'[y] <=> j \in streams[y]
    /\ j \in taken'[y] <=> j \in taken[y]
    /\ j \in handed'[y] <=> j \in handed[y]
    /\ j \in eof'[y] <=> j \in eof[y]

Others(x, i) == \A y \in Sides, j \in Ids : y # x \/ j # i => SameAt(y, j)

-----------------------------------------------------------------------------
(* Every step keeps the types, and all but TakeStreams touch the stream of *)
(* one side.                                                               *)

LEMMA StUpdate ==
    ASSUME Typed, NEW x \in Sides, NEW i \in Ids, NEW s \in StreamType,
           st' = [st EXCEPT ![x][i] = s]
    PROVE  /\ st' \in [Sides -> [Ids -> StreamType]] /\ st'[x][i] = s
           /\ \A y \in Sides, j \in Ids : y # x \/ j # i => st'[y][j] = st[y][j]
BY DEF Typed

LEMMA StAt == ASSUME Typed, NEW x \in Sides, NEW i \in Ids PROVE st[x][i] \in StreamType
BY DEF Typed

LEMMA SessionTyped ==
    ASSUME Typed, NEW x \in Sides, TakeStreams(x) \/ FinishClose(x)
    PROVE  Typed'
<1>1. CASE TakeStreams(x)
  BY <1>1 DEF Typed, TakeStreams, appVars, Errors
<1>2. CASE FinishClose(x)
  BY <1>2 DEF Typed, FinishClose, appVars
<1> QED BY <1>1, <1>2

LEMMA FinishCloseOthers ==
    ASSUME NEW x \in Sides, FinishClose(x), NEW y \in Sides, NEW j \in Ids
    PROVE  SameAt(y, j)
BY DEF FinishClose, appVars, SameAt

LEMMA CloseTakenTyped ==
    ASSUME Typed, NEW x \in Sides, NEW i \in Ids, CloseTaken(x, i)
    PROVE  Typed' /\ Others(x, i) /\ st'[x][i] = closeNoSend(st[x][i], closeErr[x])
<1>1. closeNoSend(st[x][i], closeErr[x]) \in StreamType
  BY StAt, CloseNoSendIs, ErrorsAt
<1>2. st' = [st EXCEPT ![x][i] = closeNoSend(st[x][i], closeErr[x])]
  BY DEF CloseTaken
<1>3. Typed'
  BY <1>1, <1>2, StUpdate DEF CloseTaken, Typed, appVars
<1> QED BY <1>1, <1>2, <1>3, StUpdate DEF CloseTaken, Typed, appVars, Others, SameAt

LEMMA LoseTailTyped ==
    ASSUME Typed, NEW x \in Sides, LoseTail(x)
    PROVE  /\ Typed' /\ \A y \in Sides, j \in Ids : SameAt(y, j)
           /\ Len(net'[x]) = Len(net[x]) - 1 /\ Len(net[x]) \in Nat \ {0}
           /\ \A k \in 1 .. Len(net[x]) - 1 : net'[x][k] = net[x][k]
           /\ net'[Peer(x)] = net[Peer(x)]
<1>1. net[x] \in Seq(Frame) /\ net[x] # <<>> /\ Len(net[x]) \in Nat \ {0}
  BY DEF Typed, LoseTail
<1>2. net' = [net EXCEPT ![x] = SubSeq(net[x], 1, Len(net[x]) - 1)]
  BY DEF LoseTail
<1>3. /\ SubSeq(net[x], 1, Len(net[x]) - 1) \in Seq(Frame)
      /\ Len(SubSeq(net[x], 1, Len(net[x]) - 1)) = Len(net[x]) - 1
      /\ \A k \in 1 .. Len(net[x]) - 1 :
            SubSeq(net[x], 1, Len(net[x]) - 1)[k] = net[x][k]
  BY <1>1
<1>4. net' \in [Sides -> Seq(Frame)]
      /\ net'[x] = SubSeq(net[x], 1, Len(net[x]) - 1) /\ net'[Peer(x)] = net[Peer(x)]
  BY <1>2, <1>3, SidesPeer DEF Typed
<1>5. Typed'
  BY <1>4 DEF LoseTail, Typed, sessVars, appVars
<1> QED BY <1>1, <1>3, <1>4, <1>5 DEF LoseTail, sessVars, appVars, SameAt

LEMMA OpenStreamTyped ==
    ASSUME Typed, OpenStream
    PROVE  Typed' /\ \A y \in Sides, j \in Ids : SameAt(y, j)
<1>1. nextStreamID \in Ids /\ nextID' \in 0 .. MaxStreams
  BY MuxAssumption DEF Typed, OpenStream, nextStreamID, Ids
<1> QED BY <1>1 DEF OpenStream, Typed, sessVars, appVars, SameAt

LEMMA OpenRegisterTyped ==
    ASSUME Typed, NEW i \in Ids, OpenRegister(i)
    PROVE  Typed' /\ Others("client", i) /\ st'["client"][i] = newStream
<1>0. "client" \in Sides
  BY DEF Sides
<1>1. st' = [st EXCEPT !["client"][i] = newStream]
  BY DEF OpenRegister, registerStream
<1>2. Typed'
  BY <1>0, <1>1, NewStreams, StUpdate DEF OpenRegister, registerStream, Typed, sessVars, appVars
<1> QED BY <1>0, <1>1, <1>2, NewStreams, StUpdate
        DEF OpenRegister, registerStream, Typed, sessVars, appVars, Others, SameAt

(* A frame appended to the connection of x.                                *)
LEMMA SendIs ==
    ASSUME Typed, NEW x \in Sides, NEW f \in Frame, Send(x, f)
    PROVE  /\ net' \in [Sides -> Seq(Frame)]
           /\ net'[x] = Append(net[x], f) /\ net'[Peer(x)] = net[Peer(x)]
           /\ Len(net[x]) \in Nat /\ Len(net'[x]) = Len(net[x]) + 1
           /\ \A k \in 1 .. Len(net[x]) : net'[x][k] = net[x][k]
           /\ net'[x][Len(net[x]) + 1] = f
<1>1. net[x] \in Seq(Frame) /\ Append(net[x], f) \in Seq(Frame)
  BY DEF Typed
<1>2. net' = [net EXCEPT ![x] = Append(net[x], f)]
  BY DEF Send
<1>3. net' \in [Sides -> Seq(Frame)]
      /\ net'[x] = Append(net[x], f) /\ net'[Peer(x)] = net[Peer(x)]
  BY <1>1, <1>2, SidesPeer DEF Typed
<1> QED BY <1>1, <1>3

LEMMA OpenSendTyped ==
    ASSUME Typed, NEW i \in Ids, OpenSend(i)
    PROVE  Typed' /\ Others("client", i)
<1>0. "client" \in Sides /\ closeNoSend(st["client"][i], closeErr["client"]) \in StreamType
      /\ Control("open", i) \in Frame
  BY StAt, CloseNoSendIs, ErrorsAt, MadeFrames DEF Sides
<1>1. CASE /\ Send("client", Control("open", i))
           /\ handed' = [handed EXCEPT !["client"] = @ \cup {i}]
           /\ UNCHANGED <<streams, st>>
  <2>1. net' \in [Sides -> Seq(Frame)]
    BY <1>0, <1>1, SendIs
  <2> QED BY <1>0, <1>1, <2>1 DEF OpenSend, Typed, sessVars, appVars, Others, SameAt
<1>2. CASE /\ st' = [st EXCEPT !["client"][i] = closeNoSend(st["client"][i], closeErr["client"])]
           /\ removeStream("client", i)
           /\ UNCHANGED <<handed, net>>
  <2>1. /\ st' \in [Sides -> [Ids -> StreamType]]
        /\ \A y \in Sides, j \in Ids : y # "client" \/ j # i => st'[y][j] = st[y][j]
    BY <1>0, <1>2, StUpdate
  <2>2. /\ streams' \in [Sides -> SUBSET Ids]
        /\ \A y \in Sides, j \in Ids : y # "client" \/ j # i =>
              (j \in streams'[y] <=> j \in streams[y])
    <3>1. streams \in [Sides -> SUBSET Ids]
      BY DEF Typed
    <3> QED BY <1>0, <1>2, <3>1 DEF removeStream
  <2>3. Typed'
    BY <1>2, <2>1, <2>2 DEF OpenSend, Typed, sessVars, appVars
  <2>4. UNCHANGED <<taken, handed, writer, resets, sent, got, eof>>
    BY <1>2 DEF OpenSend, sessVars, appVars
  <2> QED BY <2>1, <2>2, <2>3, <2>4 DEF Others, SameAt
<1> QED BY <1>1, <1>2 DEF OpenSend

LEMMA QueueAcceptTyped ==
    ASSUME Typed, NEW i \in Ids, QueueAccept(i)
    PROVE  Typed' /\ Others("server", i)
<1>0. "server" \in Sides /\ closeNoSend(st["server"][i], "other") \in StreamType
      /\ acceptCh \in Seq(Ids) /\ Append(acceptCh, i) \in Seq(Ids)
  BY StAt, CloseNoSendIs, ErrorsAt DEF Sides, Typed
<1>1. CASE acceptCh' = Append(acceptCh, i) /\ UNCHANGED <<streams, st>>
  BY <1>0, <1>1 DEF QueueAccept, Typed, sessVars, appVars, Others, SameAt
<1>2. CASE /\ st' = [st EXCEPT !["server"][i] = closeNoSend(st["server"][i], "other")]
           /\ removeStream("server", i)
           /\ UNCHANGED acceptCh
  <2>1. Typed'
    BY <1>0, <1>2, StUpdate DEF QueueAccept, removeStream, Typed, sessVars, appVars
  <2>2. \A y \in Sides, j \in Ids : y # "server" \/ j # i => st'[y][j] = st[y][j]
    BY <1>0, <1>2, StUpdate
  <2>3. \A y \in Sides, j \in Ids : y # "server" \/ j # i =>
           (j \in streams'[y] <=> j \in streams[y])
    BY <1>0, <1>2 DEF removeStream, Typed
  <2>4. UNCHANGED <<taken, handed, writer, resets, sent, got, eof>>
    BY DEF QueueAccept, sessVars, appVars
  <2> QED BY <2>1, <2>2, <2>3, <2>4 DEF Others, SameAt
<1> QED BY <1>1, <1>2 DEF QueueAccept

LEMMA AcceptStreamTyped ==
    ASSUME Typed, AcceptStream
    PROVE  /\ Typed' /\ Head(acceptCh) \in Ids /\ Others("server", Head(acceptCh))
           /\ Head(acceptCh) = acceptCh[1] /\ 1 \in DOMAIN acceptCh
<1>0. "server" \in Sides /\ Head(acceptCh) \in Ids /\ Tail(acceptCh) \in Seq(Ids)
      /\ Head(acceptCh) = acceptCh[1] /\ 1 \in DOMAIN acceptCh
  BY DEF Sides, Typed, AcceptStream
<1> QED BY <1>0 DEF AcceptStream, Typed, sessVars, appVars, Others, SameAt

(* The read loop takes the first frame off the connection of its peer.     *)
LEMMA FrameRead ==
    ASSUME Typed, NEW x \in Sides, ReadFrame(x)
    PROVE  LET f == Head(net[Peer(x)])
               y == Peer(x) IN
           /\ f \in Frame /\ f = net[y][1] /\ 1 \in DOMAIN net[y]
           /\ net' \in [Sides -> Seq(Frame)] /\ net'[x] = net[x]
           /\ Len(net[y]) \in Nat \ {0} /\ Len(net'[y]) = Len(net[y]) - 1
           /\ \A k \in 1 .. Len(net[y]) - 1 : net'[y][k] = net[y][k + 1]
           /\ UNCHANGED <<sess, closeErr, taken, nextID, opening, acceptCh, handed, writer,
                          sent, got, eof>>
<1>0. Peer(x) \in Sides /\ Peer(x) # x
  BY SidesPeer
<1>1. net[Peer(x)] \in Seq(Frame) /\ net[Peer(x)] # <<>>
  BY <1>0 DEF Typed, ReadFrame
<1>2. net' = [net EXCEPT ![Peer(x)] = Tail(net[Peer(x)])]
  BY DEF ReadFrame
<1>3. Tail(net[Peer(x)]) \in Seq(Frame)
  BY <1>1
<1>4. net' \in [Sides -> Seq(Frame)] /\ net'[x] = net[x]
      /\ net'[Peer(x)] = Tail(net[Peer(x)])
  BY <1>0, <1>2, <1>3 DEF Typed
<1>5. UNCHANGED <<sess, closeErr, taken, nextID, opening, acceptCh, handed, writer, sent, got, eof>>
  BY DEF ReadFrame, sessVars, appVars
<1> QED BY <1>1, <1>4, <1>5

(* A handler of the read loop that keeps the types of what it changes and  *)
(* changes them for one stream.                                            *)
HandlesOnly(x, i) ==
    /\ st' \in [Sides -> [Ids -> StreamType]]
    /\ streams' \in [Sides -> SUBSET Ids]
    /\ accepts' \subseteq Ids
    /\ resets' \in [Sides -> [Ids -> 0 .. 2]]
    /\ \A y \in Sides, j \in Ids : y # x \/ j # i =>
          /\ st'[y][j] = st[y][j] /\ resets'[y][j] = resets[y][j]
          /\ j \in streams'[y] <=> j \in streams[y]

LEMMA HandlerTyped ==
    ASSUME Typed, NEW x \in Sides, NEW i \in Ids, ReadFrame(x), HandlesOnly(x, i)
    PROVE  Typed' /\ Others(x, i)
<1>1. /\ net' \in [Sides -> Seq(Frame)]
      /\ UNCHANGED <<sess, closeErr, taken, nextID, opening, acceptCh, handed, writer, sent, got, eof>>
  BY FrameRead
<1>2. Typed'
  BY <1>1 DEF Typed, HandlesOnly
<1> QED BY <1>1, <1>2 DEF HandlesOnly, Others, SameAt

LEMMA StreamsOnly ==
    ASSUME Typed, NEW x \in Sides, NEW i \in Ids,
           \/ streams' = [streams EXCEPT ![x] = streams[x] \cup {i}]
           \/ streams' = [streams EXCEPT ![x] = streams[x] \ {i}]
    PROVE  /\ streams' \in [Sides -> SUBSET Ids]
           /\ \A y \in Sides, j \in Ids : y # x \/ j # i =>
                 (j \in streams'[y] <=> j \in streams[y])
<1>1. CASE streams' = [streams EXCEPT ![x] = streams[x] \cup {i}]
  <2>1. streams' \in [Sides -> SUBSET Ids] /\ streams'[x] = streams[x] \cup {i}
        /\ \A y \in Sides : y # x => streams'[y] = streams[y]
    BY <1>1 DEF Typed
  <2> QED BY <2>1
<1>2. CASE streams' = [streams EXCEPT ![x] = streams[x] \ {i}]
  <2>1. streams' \in [Sides -> SUBSET Ids] /\ streams'[x] = streams[x] \ {i}
        /\ \A y \in Sides : y # x => streams'[y] = streams[y]
    BY <1>2 DEF Typed
  <2> QED BY <2>1
<1> QED BY <1>1, <1>2

LEMMA ReadOpenTyped ==
    ASSUME Typed, NEW x \in Sides, ReadFrame(x), NEW i \in Ids,
           Head(net[Peer(x)]).type = "open", i = Head(net[Peer(x)]).id
    PROVE  /\ Typed' /\ Others(x, i) /\ HandleOpen(x, i)
           /\ st'[x][i] = newStream /\ streams'[x] = streams[x] \cup {i}
<1>1. HandleOpen(x, i)
  BY DEF ReadFrame
<1>2. /\ st' = [st EXCEPT ![x][i] = newStream]
      /\ streams' = [streams EXCEPT ![x] = streams[x] \cup {i}]
      /\ streams'[x] = streams[x] \cup {i}
  BY <1>1 DEF HandleOpen, registerStream, Typed
<1>3. accepts' \subseteq Ids /\ resets' = resets /\ resets \in [Sides -> [Ids -> 0 .. 2]]
  BY <1>1 DEF HandleOpen, Typed
<1>4. /\ st' \in [Sides -> [Ids -> StreamType]] /\ st'[x][i] = newStream
      /\ \A y \in Sides, j \in Ids : y # x \/ j # i => st'[y][j] = st[y][j]
  BY <1>2, NewStreams, StUpdate DEF Typed
<1>5. /\ streams' \in [Sides -> SUBSET Ids]
      /\ \A y \in Sides, j \in Ids : y # x \/ j # i =>
            (j \in streams'[y] <=> j \in streams[y])
  BY <1>2, StreamsOnly
<1>6. HandlesOnly(x, i)
  BY <1>3, <1>4, <1>5 DEF HandlesOnly
<1> QED BY <1>1, <1>2, <1>4, <1>6, HandlerTyped

LEMMA ReadDataFrameTyped ==
    ASSUME Typed, NEW x \in Sides, ReadFrame(x), NEW i \in Ids, NEW c \in Chunks,
           Head(net[Peer(x)]).type = "data", i = Head(net[Peer(x)]).id,
           c = Head(net[Peer(x)]).chunk
    PROVE  Typed' /\ Others(x, i) /\ HandleData(x, i, c)
<1>1. HandleData(x, i, c)
  BY DEF ReadFrame
<1>2. enqueue(st[x][i], c) \in StreamType /\ closeNoSend(st[x][i], "other") \in StreamType
  BY StAt, EnqueueIs, CloseNoSendIs, ErrorsAt
<1>3. accepts' \subseteq Ids
  BY <1>1 DEF HandleData, Typed
<1>4. HandlesOnly(x, i)
  <2>1. CASE UNCHANGED <<streams, st, resets>>
    BY <1>3, <2>1 DEF HandlesOnly, Typed
  <2>2. CASE st' = [st EXCEPT ![x][i] = enqueue(st[x][i], c)] /\ UNCHANGED <<streams, resets>>
    <3>1. streams \in [Sides -> SUBSET Ids] /\ resets \in [Sides -> [Ids -> 0 .. 2]]
      BY DEF Typed
    <3>2. /\ st' \in [Sides -> [Ids -> StreamType]]
          /\ \A y \in Sides, j \in Ids : y # x \/ j # i => st'[y][j] = st[y][j]
      <4>1. st \in [Sides -> [Ids -> StreamType]]
        BY DEF Typed
      <4> QED BY <1>2, <2>2, <4>1
    <3> QED BY <1>3, <2>2, <3>1, <3>2 DEF HandlesOnly
  <2>3. CASE /\ st' = [st EXCEPT ![x][i] = closeNoSend(st[x][i], "other")]
             /\ removeStream(x, i)
             /\ resets' = [resets EXCEPT ![x][i] = 2]
    <3>1. /\ resets' \in [Sides -> [Ids -> 0 .. 2]]
          /\ \A y \in Sides, j \in Ids : y # x \/ j # i => resets'[y][j] = resets[y][j]
      <4>1. resets \in [Sides -> [Ids -> 0 .. 2]]
        BY DEF Typed
      <4> QED BY <2>3, <4>1
    <3>2. /\ streams' \in [Sides -> SUBSET Ids]
          /\ \A y \in Sides, j \in Ids : y # x \/ j # i =>
                (j \in streams'[y] <=> j \in streams[y])
      BY <2>3, StreamsOnly DEF removeStream
    <3>3. /\ st' \in [Sides -> [Ids -> StreamType]]
          /\ \A y \in Sides, j \in Ids : y # x \/ j # i => st'[y][j] = st[y][j]
      <4>1. st \in [Sides -> [Ids -> StreamType]]
        BY DEF Typed
      <4> QED BY <1>2, <2>3, <4>1
    <3> QED BY <1>3, <3>1, <3>2, <3>3 DEF HandlesOnly
  <2> QED BY <1>1, <2>1, <2>2, <2>3 DEF HandleData
<1> QED BY <1>1, <1>4, HandlerTyped

LEMMA ReadCloseTyped ==
    ASSUME Typed, NEW x \in Sides, ReadFrame(x), NEW i \in Ids,
           Head(net[Peer(x)]).type = "close", i = Head(net[Peer(x)]).id
    PROVE  Typed' /\ Others(x, i) /\ HandleClose(x, i)
<1>1. HandleClose(x, i)
  BY DEF ReadFrame
<1>2. closeRemoteWrite(st[x][i]) \in StreamType
  BY StAt, CloseRemoteIs
<1>3. accepts' \subseteq Ids /\ resets' = resets /\ resets \in [Sides -> [Ids -> 0 .. 2]]
  BY <1>1 DEF HandleClose, Typed
<1>4. /\ st' \in [Sides -> [Ids -> StreamType]]
      /\ \A y \in Sides, j \in Ids : y # x \/ j # i => st'[y][j] = st[y][j]
  <2>1. CASE getStream(x, i)
    BY <1>1, <1>2, <2>1, StUpdate DEF HandleClose
  <2>2. CASE ~getStream(x, i)
    BY <1>1, <2>2 DEF HandleClose, Typed
  <2> QED BY <2>1, <2>2
<1>5. /\ streams' \in [Sides -> SUBSET Ids]
      /\ \A y \in Sides, j \in Ids : y # x \/ j # i =>
            (j \in streams'[y] <=> j \in streams[y])
  <2>1. CASE removeStream(x, i)
    <3>1. streams' = [streams EXCEPT ![x] = streams[x] \ {i}]
      BY <2>1 DEF removeStream, Typed
    <3> QED BY <3>1, StreamsOnly
  <2>2. CASE UNCHANGED streams
    BY <2>2 DEF Typed
  <2> QED BY <1>1, <2>1, <2>2 DEF HandleClose
<1>6. HandlesOnly(x, i)
  BY <1>3, <1>4, <1>5 DEF HandlesOnly
<1> QED BY <1>1, <1>6, HandlerTyped

LEMMA ReadResetTyped ==
    ASSUME Typed, NEW x \in Sides, ReadFrame(x), NEW i \in Ids,
           Head(net[Peer(x)]).type = "reset", i = Head(net[Peer(x)]).id
    PROVE  /\ Typed' /\ Others(x, i) /\ HandleReset(x, i)
           /\ st'[x][i] = IF i \in streams[x] THEN closeNoSend(st[x][i], "other") ELSE st[x][i]
           /\ streams'[x] = streams[x] \ {i}
<1> DEFINE s == IF i \in streams[x] THEN closeNoSend(st[x][i], "other") ELSE st[x][i]
<1>1. HandleReset(x, i)
  BY DEF ReadFrame
<1>2. s \in StreamType
  BY StAt, CloseNoSendIs, ErrorsAt
<1>3. st' = [st EXCEPT ![x][i] = s]
  BY <1>1 DEF HandleReset, getStream
<1> HIDE DEF s
<1>4. accepts' \subseteq Ids /\ resets' = resets /\ resets \in [Sides -> [Ids -> 0 .. 2]]
  BY <1>1 DEF HandleReset, Typed
<1>5. streams' = [streams EXCEPT ![x] = streams[x] \ {i}]
      /\ streams'[x] = streams[x] \ {i}
  BY <1>1 DEF HandleReset, removeStream, Typed
<1>6. /\ st' \in [Sides -> [Ids -> StreamType]] /\ st'[x][i] = s
      /\ \A y \in Sides, j \in Ids : y # x \/ j # i => st'[y][j] = st[y][j]
  BY <1>2, <1>3, StUpdate DEF Typed
<1>7. /\ streams' \in [Sides -> SUBSET Ids]
      /\ \A y \in Sides, j \in Ids : y # x \/ j # i =>
            (j \in streams'[y] <=> j \in streams[y])
  BY <1>5, StreamsOnly
<1>8. HandlesOnly(x, i)
  BY <1>4, <1>6, <1>7 DEF HandlesOnly
<1> QED BY <1>1, <1>5, <1>6, <1>8, HandlerTyped DEF s

LEMMA SendResetTyped ==
    ASSUME Typed, NEW x \in Sides, NEW i \in Ids, SendReset(x, i)
    PROVE  Typed' /\ Others(x, i)
<1>0. /\ Control("reset", i) \in Frame /\ Control("close", i) \in Frame
  BY MadeFrames
<1>1. net' \in [Sides -> Seq(Frame)]
  <2>1. CASE UNCHANGED net
    BY <2>1 DEF Typed
  <2>2. CASE Send(x, Control(IF resets[x][i] = 2 THEN "reset" ELSE "close", i))
    <3>1. Control(IF resets[x][i] = 2 THEN "reset" ELSE "close", i) \in Frame
      BY <1>0
    <3> QED BY <2>2, <3>1, SendIs
  <2> QED BY <2>1, <2>2 DEF SendReset
<1>2. resets[x][i] - 1 \in 0 .. 2
  BY DEF SendReset, Typed
<1> QED BY <1>1, <1>2 DEF SendReset, Typed, sessVars, appVars, Others, SameAt

LEMMA ReadDataTyped ==
    ASSUME Typed, QueueAccounted, NEW x \in Sides, NEW i \in Ids, ReadData(x, i)
    PROVE  /\ Typed' /\ Others(x, i) /\ st'[x][i] = dequeue(st[x][i])
           /\ st[x][i].queued > 0
<1>1. st[x][i] \in StreamType /\ st[x][i].buf \in Seq(Chunks) /\ st[x][i].buf # <<>>
  BY StAt DEF StreamType, ReadData
<1>2. st[x][i].queued > 0
  BY <1>1 DEF QueueAccounted
<1>3. dequeue(st[x][i]) \in StreamType
  BY <1>1, <1>2, DequeueIs
<1>4. st' = [st EXCEPT ![x][i] = dequeue(st[x][i])]
  BY DEF ReadData
<1>5. Append(got[x][i], Head(st[x][i].buf)) \in Seq(Chunks)
  BY <1>1 DEF Typed
<1>6. /\ got' \in [Sides -> [Ids -> Seq(Chunks)]]
      /\ \A y \in Sides, j \in Ids : y # x \/ j # i => got'[y][j] = got[y][j]
  BY <1>5 DEF Typed, ReadData
<1>7. /\ st' \in [Sides -> [Ids -> StreamType]] /\ st'[x][i] = dequeue(st[x][i])
      /\ \A y \in Sides, j \in Ids : y # x \/ j # i => st'[y][j] = st[y][j]
  BY <1>3, <1>4, StUpdate DEF Typed
<1>8. UNCHANGED <<sess, closeErr, taken, streams, nextID, opening, accepts, acceptCh, handed,
                  writer, resets, net, sent, eof>>
  BY DEF ReadData, sessVars
<1>9. Typed'
  BY <1>6, <1>7, <1>8 DEF Typed
<1> QED BY <1>2, <1>6, <1>7, <1>8, <1>9 DEF Others, SameAt

LEMMA ReadEOFTyped ==
    ASSUME Typed, NEW x \in Sides, NEW i \in Ids, ReadEOF(x, i)
    PROVE  Typed' /\ Others(x, i)
BY DEF Typed, ReadEOF, sessVars, Others, SameAt

LEMMA WriteTyped ==
    ASSUME Typed, NEW x \in Sides, NEW i \in Ids, NEW n \in Chunks, Write(x, i, n)
    PROVE  Typed' /\ Others(x, i) /\ writer'[x][i] = [op |-> "write", left |-> n]
<1> DEFINE w == [op |-> "write", left |-> n]
<1>1. w \in Writer /\ w.op = "write" /\ w.left = n
  BY DEF Writer
<1>2. writer' = [writer EXCEPT ![x][i] = w]
  BY DEF Write, SetWriter
<1> HIDE DEF w
<1>3. /\ writer' \in [Sides -> [Ids -> Writer]] /\ writer'[x][i] = w
      /\ \A y \in Sides, j \in Ids : y # x \/ j # i => writer'[y][j] = writer[y][j]
  BY <1>1, <1>2 DEF Typed
<1>4. UNCHANGED <<sess, closeErr, taken, streams, st, nextID, opening, accepts, acceptCh, handed,
                  resets, net, sent, got, eof>> /\ sent[x][i] + n <= MaxChunks
  BY DEF Write, sessVars, appVars
<1>5. Typed'
  BY <1>1, <1>3, <1>4 DEF Typed
<1> QED BY <1>3, <1>4, <1>5 DEF Others, SameAt, w

LEMMA WriteChunkTyped ==
    ASSUME Typed, NEW x \in Sides, NEW i \in Ids, WriteChunk(x, i)
    PROVE  /\ Typed' /\ Others(x, i) /\ writer[x][i].op = "write"
           /\ writer'[x][i].op \in {"none", "write"}
           /\ \/ /\ sent[x][i] + 1 \in Chunks /\ sess[x] # "closed"
                 /\ Len(net[x]) < ConnCap
                 /\ Send(x, [type |-> "data", id |-> i, chunk |-> sent[x][i] + 1])
                 /\ sent'[x][i] = sent[x][i] + 1
              \/ sess[x] = "closed" /\ UNCHANGED <<net, sent>>
<1> DEFINE w == writer[x][i]
           v == IF w.left = 1 THEN NoWriter ELSE [w EXCEPT !.left = @ - 1]
<1>1. w \in [op : {"write"}, left : Chunks] /\ sent[x][i] + w.left <= MaxChunks
      /\ sent[x][i] \in 0 .. MaxChunks /\ w.op = "write"
  BY WriterFields DEF Typed, WriteChunk
<1>2. w.left \in Nat \ {0} /\ sent[x][i] + 1 \in Chunks /\ MaxChunks \in Nat
  BY <1>1, MuxAssumption DEF Chunks
<1>3. /\ v \in Writer /\ v.op \in {"none", "write"}
      /\ v.op = "write" => sent[x][i] + 1 + v.left <= MaxChunks
  <2>1. CASE w.left = 1
    BY <2>1 DEF Writer, NoWriter
  <2>2. CASE w.left # 1
    <3> HIDE DEF w
    <3>1. v = [w EXCEPT !.left = w.left - 1] /\ w.left - 1 \in Chunks
      BY <1>1, <1>2, <2>2 DEF Chunks
    <3>2. v \in [op : {"write"}, left : Chunks] /\ v.left = w.left - 1
      BY <1>1, <3>1
    <3> QED BY <1>1, <1>2, <3>2 DEF Writer
  <2> QED BY <2>1, <2>2
<1>4. UNCHANGED <<sess, closeErr, taken, streams, st, nextID, opening, accepts, acceptCh, handed,
                  resets, got, eof>>
  BY DEF WriteChunk, sessVars
<1>5. CASE /\ CanSend(x)
           /\ Send(x, [type |-> "data", id |-> i, chunk |-> sent[x][i] + 1])
           /\ sent' = [sent EXCEPT ![x][i] = @ + 1]
           /\ SetWriter(x, i, v)
  <2> HIDE DEF w, v
  <2>1. [type |-> "data", id |-> i, chunk |-> sent[x][i] + 1] \in Frame
    BY <1>2, MadeFrames
  <2>2. net' \in [Sides -> Seq(Frame)]
    BY <1>5, <2>1, SendIs
  <2>3. /\ writer' \in [Sides -> [Ids -> Writer]] /\ writer'[x][i] = v
        /\ \A y \in Sides, j \in Ids : y # x \/ j # i => writer'[y][j] = writer[y][j]
    BY <1>3, <1>5 DEF Typed, SetWriter
  <2>4. /\ sent' \in [Sides -> [Ids -> 0 .. MaxChunks]]
        /\ sent'[x][i] = sent[x][i] + 1
        /\ \A y \in Sides, j \in Ids : y # x \/ j # i => sent'[y][j] = sent[y][j]
    BY <1>2, <1>5 DEF Typed, Chunks
  <2>5. \A y \in Sides, j \in Ids :
           writer'[y][j].op = "write" => sent'[y][j] + writer'[y][j].left <= MaxChunks
    <3> SUFFICES ASSUME NEW y \in Sides, NEW j \in Ids, writer'[y][j].op = "write"
                 PROVE  sent'[y][j] + writer'[y][j].left <= MaxChunks
      OBVIOUS
    <3>1. writer[y][j].op = "write" => sent[y][j] + writer[y][j].left <= MaxChunks
      BY DEF Typed
    <3>2. CASE y = x /\ j = i
      BY <1>3, <2>3, <2>4, <3>2
    <3>3. CASE y # x \/ j # i
      BY <2>3, <2>4, <3>1, <3>3
    <3> QED BY <3>2, <3>3
  <2>6. Typed'
    BY <1>4, <2>2, <2>3, <2>4, <2>5 DEF Typed
  <2> QED BY <1>1, <1>2, <1>3, <1>4, <1>5, <2>3, <2>4, <2>6
          DEF Others, SameAt, CanSend, IsClosed, w
<1>6. CASE SendFails(x) /\ SetWriter(x, i, NoWriter) /\ UNCHANGED <<net, sent>>
  <2>1. /\ writer' \in [Sides -> [Ids -> Writer]] /\ writer'[x][i] = NoWriter
        /\ \A y \in Sides, j \in Ids : y # x \/ j # i => writer'[y][j] = writer[y][j]
    BY <1>6 DEF Typed, SetWriter, Writer
  <2>2. NoWriter.op = "none"
    BY DEF NoWriter
  <2>3. Typed'
    BY <1>4, <1>6, <2>1, <2>2 DEF Typed
  <2> QED BY <1>1, <1>4, <1>6, <2>1, <2>2, <2>3
          DEF Others, SameAt, SendFails, IsClosed
<1> QED BY <1>5, <1>6 DEF WriteChunk

(* Close, CloseWrite, SendClose and Forget change the writer to one that   *)
(* does not write.                                                         *)
LEMMA WriterUpdate ==
    ASSUME Typed, NEW x \in Sides, NEW i \in Ids, NEW w \in Writer,
           w.op # "write", SetWriter(x, i, w)
    PROVE  /\ writer' \in [Sides -> [Ids -> Writer]] /\ writer'[x][i] = w
           /\ \A y \in Sides, j \in Ids : y # x \/ j # i => writer'[y][j] = writer[y][j]
           /\ UNCHANGED sent => \A y \in Sides, j \in Ids :
                 writer'[y][j].op = "write" => sent'[y][j] + writer'[y][j].left <= MaxChunks
<1>1. /\ writer' \in [Sides -> [Ids -> Writer]] /\ writer'[x][i] = w
      /\ \A y \in Sides, j \in Ids : y # x \/ j # i => writer'[y][j] = writer[y][j]
  BY DEF Typed, SetWriter
<1> QED BY <1>1 DEF Typed

LEMMA OtherWriters ==
    /\ NoWriter \in Writer /\ NoWriter.op = "none"
    /\ \A op \in {"close", "forget"} : [op |-> op] \in Writer
    /\ \A r \in BOOLEAN : [op |-> "closeWrite", remove |-> r] \in Writer
BY DEF Writer, NoWriter

LEMMA CloseTyped ==
    ASSUME Typed, NEW x \in Sides, NEW i \in Ids, Close(x, i)
    PROVE  /\ Typed' /\ Others(x, i)
           /\ st'[x][i] = [st[x][i] EXCEPT !.closed = TRUE, !.lrc = TRUE, !.lwc = TRUE,
                                           !.err = "other", !.buf = <<>>, !.queued = 0]
           /\ writer'[x][i].op \in {"close", "forget"}
<1> DEFINE s == [st[x][i] EXCEPT !.closed = TRUE, !.lrc = TRUE, !.lwc = TRUE,
                                 !.err = "other", !.buf = <<>>, !.queued = 0]
           w == [op |-> IF st[x][i].lwc THEN "forget" ELSE "close"]
<1>1. s \in StreamType
  BY StAt, ClosedIs
<1>2. w \in Writer /\ w.op \in {"close", "forget"}
  BY OtherWriters
<1>3. st' = [st EXCEPT ![x][i] = s] /\ SetWriter(x, i, w)
  BY DEF Close
<1> HIDE DEF s, w
<1>4. /\ writer' \in [Sides -> [Ids -> Writer]] /\ writer'[x][i] = w
      /\ \A y \in Sides, j \in Ids : y # x \/ j # i => writer'[y][j] = writer[y][j]
      /\ UNCHANGED sent => \A y \in Sides, j \in Ids :
            writer'[y][j].op = "write" => sent'[y][j] + writer'[y][j].left <= MaxChunks
  BY <1>2, <1>3, WriterUpdate
<1>5. /\ st' \in [Sides -> [Ids -> StreamType]] /\ st'[x][i] = s
      /\ \A y \in Sides, j \in Ids : y # x \/ j # i => st'[y][j] = st[y][j]
  BY <1>1, <1>3, StUpdate DEF Typed
<1>6. UNCHANGED <<sess, closeErr, taken, streams, nextID, opening, accepts, acceptCh, handed,
                  resets, net, sent, got, eof>>
  BY DEF Close, sessVars, appVars
<1>7. Typed'
  BY <1>4, <1>5, <1>6 DEF Typed
<1> QED BY <1>2, <1>4, <1>5, <1>6, <1>7 DEF Others, SameAt, s

LEMMA CloseWriteTyped ==
    ASSUME Typed, NEW x \in Sides, NEW i \in Ids, CloseWrite(x, i)
    PROVE  /\ Typed' /\ Others(x, i)
           /\ st'[x][i] = [st[x][i] EXCEPT !.lwc = TRUE]
           /\ writer'[x][i] = [op |-> "closeWrite",
                               remove |-> st[x][i].rwc \/ st[x][i].lrc]
<1> DEFINE s == [st[x][i] EXCEPT !.lwc = TRUE]
           w == [op |-> "closeWrite", remove |-> st[x][i].rwc \/ st[x][i].lrc]
<1>1. s \in StreamType
  BY StAt, HalfClosedIs
<1>2. w \in Writer /\ w.op # "write"
  BY OtherWriters
<1>3. st' = [st EXCEPT ![x][i] = s] /\ SetWriter(x, i, w)
  BY DEF CloseWrite
<1> HIDE DEF s, w
<1>4. /\ writer' \in [Sides -> [Ids -> Writer]] /\ writer'[x][i] = w
      /\ \A y \in Sides, j \in Ids : y # x \/ j # i => writer'[y][j] = writer[y][j]
      /\ UNCHANGED sent => \A y \in Sides, j \in Ids :
            writer'[y][j].op = "write" => sent'[y][j] + writer'[y][j].left <= MaxChunks
  BY <1>2, <1>3, WriterUpdate
<1>5. /\ st' \in [Sides -> [Ids -> StreamType]] /\ st'[x][i] = s
      /\ \A y \in Sides, j \in Ids : y # x \/ j # i => st'[y][j] = st[y][j]
  BY <1>1, <1>3, StUpdate DEF Typed
<1>6. UNCHANGED <<sess, closeErr, taken, streams, nextID, opening, accepts, acceptCh, handed,
                  resets, net, sent, got, eof>>
  BY DEF CloseWrite, sessVars, appVars
<1>7. Typed'
  BY <1>4, <1>5, <1>6 DEF Typed
<1> QED BY <1>4, <1>5, <1>6, <1>7 DEF Others, SameAt, s, w

LEMMA SendCloseTyped ==
    ASSUME Typed, NEW x \in Sides, NEW i \in Ids, SendClose(x, i)
    PROVE  /\ Typed' /\ Others(x, i)
           /\ writer'[x][i] = IF Forgets(writer[x][i]) THEN [op |-> "forget"] ELSE NoWriter
<1> DEFINE w == IF Forgets(writer[x][i]) THEN [op |-> "forget"] ELSE NoWriter
<1>1. w \in Writer /\ w.op # "write"
  BY OtherWriters
<1>2. SetWriter(x, i, w)
  BY DEF SendClose, Forgets
<1> HIDE DEF w
<1>3. net' \in [Sides -> Seq(Frame)]
  <2>1. CASE Send(x, Control("close", i))
    BY <2>1, MadeFrames, SendIs
  <2>2. CASE UNCHANGED net
    BY <2>2 DEF Typed
  <2> QED BY <2>1, <2>2 DEF SendClose
<1>4. /\ writer' \in [Sides -> [Ids -> Writer]] /\ writer'[x][i] = w
      /\ \A y \in Sides, j \in Ids : y # x \/ j # i => writer'[y][j] = writer[y][j]
      /\ UNCHANGED sent => \A y \in Sides, j \in Ids :
            writer'[y][j].op = "write" => sent'[y][j] + writer'[y][j].left <= MaxChunks
  BY <1>1, <1>2, WriterUpdate
<1>5. UNCHANGED <<sess, closeErr, taken, streams, st, nextID, opening, accepts, acceptCh, handed,
                  resets, sent, got, eof>>
  BY DEF SendClose, sessVars, appVars
<1>6. Typed'
  BY <1>3, <1>4, <1>5 DEF Typed
<1> QED BY <1>4, <1>5, <1>6 DEF Others, SameAt, w

LEMMA ForgetTyped ==
    ASSUME Typed, NEW x \in Sides, NEW i \in Ids, Forget(x, i)
    PROVE  /\ Typed' /\ Others(x, i) /\ writer'[x][i] = NoWriter
           /\ streams'[x] = streams[x] \ {i}
<1>1. /\ writer' \in [Sides -> [Ids -> Writer]] /\ writer'[x][i] = NoWriter
      /\ \A y \in Sides, j \in Ids : y # x \/ j # i => writer'[y][j] = writer[y][j]
      /\ UNCHANGED sent => \A y \in Sides, j \in Ids :
            writer'[y][j].op = "write" => sent'[y][j] + writer'[y][j].left <= MaxChunks
  BY OtherWriters, WriterUpdate DEF Forget
<1>2. /\ streams' \in [Sides -> SUBSET Ids]
      /\ \A y \in Sides, j \in Ids : y # x \/ j # i =>
            (j \in streams'[y] <=> j \in streams[y])
  BY StreamsOnly DEF Forget
<1>3. UNCHANGED <<sess, closeErr, taken, st, nextID, opening, accepts, acceptCh, handed,
                  resets, net, sent, got, eof>>
  BY DEF Forget, sessVars, appVars
<1>4. streams'[x] = streams[x] \ {i}
  BY DEF Forget, Typed
<1>5. Typed'
  BY <1>1, <1>2, <1>3 DEF Typed
<1> QED BY <1>1, <1>2, <1>3, <1>4, <1>5 DEF Others, SameAt

LEMMA CloseReadTyped ==
    ASSUME Typed, NEW x \in Sides, NEW i \in Ids, CloseRead(x, i)
    PROVE  /\ Typed' /\ Others(x, i)
           /\ st'[x][i] = [st[x][i] EXCEPT !.lrc = TRUE, !.buf = <<>>, !.queued = 0]
           /\ streams'[x] = IF st[x][i].lwc THEN streams[x] \ {i} ELSE streams[x]
<1> DEFINE s == [st[x][i] EXCEPT !.lrc = TRUE, !.buf = <<>>, !.queued = 0]
<1>1. s \in StreamType
  BY StAt, ReadClosedIs
<1>2. st' = [st EXCEPT ![x][i] = s]
  BY DEF CloseRead
<1> HIDE DEF s
<1>3. /\ st' \in [Sides -> [Ids -> StreamType]] /\ st'[x][i] = s
      /\ \A y \in Sides, j \in Ids : y # x \/ j # i => st'[y][j] = st[y][j]
  BY <1>1, <1>2, StUpdate DEF Typed
<1>4. /\ streams' \in [Sides -> SUBSET Ids]
      /\ streams'[x] = IF st[x][i].lwc THEN streams[x] \ {i} ELSE streams[x]
      /\ \A y \in Sides : y # x => streams'[y] = streams[y]
  BY DEF CloseRead, Typed
<1>5. \A y \in Sides, j \in Ids : y # x \/ j # i => (j \in streams'[y] <=> j \in streams[y])
  BY <1>4
<1>6. UNCHANGED <<sess, closeErr, taken, nextID, opening, accepts, acceptCh, handed, writer,
                  resets, net, sent, got, eof>>
  BY DEF CloseRead, sessVars, appVars
<1>7. Typed'
  BY <1>3, <1>4, <1>6 DEF Typed
<1> QED BY <1>3, <1>4, <1>5, <1>6, <1>7 DEF Others, SameAt, s

(* The fields of the stream object after Close, CloseWrite and CloseRead.  *)
LEMMA CloseFields ==
    ASSUME Typed, NEW x \in Sides, NEW i \in Ids, Close(x, i)
    PROVE  /\ st'[x][i].closed /\ st'[x][i].lrc /\ st'[x][i].lwc
           /\ st'[x][i].made = st[x][i].made /\ st'[x][i].rwc = st[x][i].rwc
           /\ st'[x][i].buf = <<>> /\ st'[x][i].queued = 0 /\ st'[x][i].err = "other"
<1> DEFINE r == [st[x][i] EXCEPT !.closed = TRUE, !.lrc = TRUE, !.lwc = TRUE,
                                 !.err = "other", !.buf = <<>>, !.queued = 0]
<1>1. /\ r.made = st[x][i].made /\ r.rwc = st[x][i].rwc /\ r.closed /\ r.lrc /\ r.lwc
      /\ r.buf = <<>> /\ r.queued = 0 /\ r.err = "other"
  BY StAt, ClosedIs
<1>2. st'[x][i] = r
  BY CloseTyped
<1> HIDE DEF r
<1> QED BY <1>1, <1>2

LEMMA CloseWriteFields ==
    ASSUME Typed, NEW x \in Sides, NEW i \in Ids, CloseWrite(x, i)
    PROVE  /\ st'[x][i].made = st[x][i].made /\ st'[x][i].closed = st[x][i].closed
           /\ st'[x][i].lrc = st[x][i].lrc /\ st'[x][i].rwc = st[x][i].rwc
           /\ st'[x][i].buf = st[x][i].buf /\ st'[x][i].queued = st[x][i].queued
           /\ st'[x][i].lwc /\ st'[x][i].err = st[x][i].err
<1> DEFINE r == [st[x][i] EXCEPT !.lwc = TRUE]
<1>1. /\ r.made = st[x][i].made /\ r.closed = st[x][i].closed /\ r.lrc = st[x][i].lrc
      /\ r.rwc = st[x][i].rwc /\ r.buf = st[x][i].buf /\ r.queued = st[x][i].queued
      /\ r.lwc /\ r.err = st[x][i].err
  BY StAt, HalfClosedIs
<1>2. st'[x][i] = r
  BY CloseWriteTyped
<1> HIDE DEF r
<1> QED BY <1>1, <1>2

LEMMA CloseReadFields ==
    ASSUME Typed, NEW x \in Sides, NEW i \in Ids, CloseRead(x, i)
    PROVE  /\ st'[x][i].made = st[x][i].made /\ st'[x][i].closed = st[x][i].closed
           /\ st'[x][i].lwc = st[x][i].lwc /\ st'[x][i].rwc = st[x][i].rwc
           /\ st'[x][i].lrc /\ st'[x][i].buf = <<>> /\ st'[x][i].queued = 0
           /\ st'[x][i].err = st[x][i].err
<1> DEFINE r == [st[x][i] EXCEPT !.lrc = TRUE, !.buf = <<>>, !.queued = 0]
<1>1. /\ r.made = st[x][i].made /\ r.closed = st[x][i].closed /\ r.lwc = st[x][i].lwc
      /\ r.rwc = st[x][i].rwc /\ r.lrc /\ r.buf = <<>> /\ r.queued = 0
      /\ r.err = st[x][i].err
  BY StAt, ReadClosedIs
<1>2. st'[x][i] = r
  BY CloseReadTyped
<1> HIDE DEF r
<1> QED BY <1>1, <1>2

-----------------------------------------------------------------------------
(* An id is made once.                                                     *)

LEMMA MadeSides == "client" \in Sides /\ "server" \in Sides /\ Peer("server") = "client"
                   /\ Peer("client") = "server" /\ Sides = {"client", "server"}
BY DEF Sides, Peer

(* A stream that OpenStream registers was not known to the client ...      *)
LEMMA RegisterIsFresh ==
    ASSUME FreshInv, OpeningInv, NEW i \in Ids, OpenRegister(i)
    PROVE  ~Made("client", i) /\ Untouched("client", i) /\ ~Made("server", i)
BY MadeSides DEF FreshInv, OpeningInv, OpeningAt, OpenRegister

(* ... and one that the read loop registers not to the server.             *)
LEMMA OpenIsFresh ==
    ASSUME Typed, FreshInv, OpenInv, NEW x \in Sides, ReadFrame(x), NEW i \in Ids,
           Head(net[Peer(x)]).type = "open", i = Head(net[Peer(x)]).id
    PROVE  x = "server" /\ ~Made("server", i) /\ Untouched("server", i)
           /\ opening[i] = "done"
<1>1. 1 \in DOMAIN net[Peer(x)] /\ IsFrame(Peer(x), 1, "open", i)
  BY FrameRead DEF IsFrame
<1>2. Peer(x) # "server"
  BY <1>1 DEF OpenInv, IsFrame
<1>3. x = "server" /\ Peer(x) = "client"
  BY <1>2, MadeSides
<1> QED BY <1>1, <1>3, MadeSides DEF OpenInv, FreshInv

Registers(x, i) ==
    /\ Others(x, i) /\ ~Made(x, i) /\ Untouched(x, i)
    /\ st'[x][i] = newStream /\ streams'[x] = streams[x] \cup {i}
    /\ UNCHANGED <<sess, closeErr, taken, writer, resets, handed, sent, got, eof>>

Acts(x, i) == Others(x, i) /\ Made(x, i) /\ Made(x, i)' /\ sess' = sess

Idles == (\A y \in Sides, j \in Ids : SameAt(y, j)) /\ sess' = sess

LEMMA OpenRegisterRegisters ==
    ASSUME Typed, FreshInv, OpeningInv, NEW i \in Ids, OpenRegister(i)
    PROVE  Registers("client", i)
<1>1. streams'["client"] = streams["client"] \cup {i}
      /\ UNCHANGED <<sess, closeErr, taken, writer, resets, handed, sent, got, eof>>
  BY MadeSides DEF OpenRegister, registerStream, Typed, sessVars, appVars
<1> QED BY <1>1, RegisterIsFresh, OpenRegisterTyped DEF Registers

LEMMA ReadOpenRegisters ==
    ASSUME Typed, FreshInv, OpenInv, NEW x \in Sides, ReadFrame(x), NEW i \in Ids,
           Head(net[Peer(x)]).type = "open", i = Head(net[Peer(x)]).id
    PROVE  Registers(x, i) /\ x = "server"
<1>1. UNCHANGED <<sess, closeErr, taken, writer, handed, sent, got, eof>>
  BY FrameRead
<1>2. UNCHANGED resets
  BY ReadOpenTyped DEF HandleOpen
<1> QED BY <1>1, <1>2, ReadOpenTyped, OpenIsFresh DEF Registers

(* The steps on a stream that has been made, and the frames for one that   *)
(* has not, which the read loop drops.                                     *)
LEMMA SendersAct ==
    ASSUME Typed, FreshInv, NEW x \in Sides, NEW i \in Ids,
           CloseTaken(x, i) \/ WriterStep(x, i) \/ SendReset(x, i)
    PROVE  Acts(x, i)
<1>0. NoWriter.op = "none"
  BY DEF NoWriter
<1>1. CASE CloseTaken(x, i)
  <2>1. Made(x, i)
    BY <1>1 DEF CloseTaken, FreshInv, Untouched
  <2>2. Others(x, i) /\ st'[x][i] = closeNoSend(st[x][i], closeErr[x])
    BY <1>1, CloseTakenTyped
  <2>3. closeNoSend(st[x][i], closeErr[x]).made = st[x][i].made
    BY StAt, CloseNoSendIs, ErrorsAt
  <2>4. sess' = sess
    BY <1>1 DEF CloseTaken
  <2> QED BY <2>1, <2>2, <2>3, <2>4 DEF Acts, Made
<1>2. CASE WriterStep(x, i) \/ SendReset(x, i)
  <2>1. Made(x, i)
    BY <1>0, <1>2 DEF WriterStep, WriteChunk, SendClose, Forget, SendReset, FreshInv, Untouched
  <2>2. st' = st /\ sess' = sess
    BY <1>2 DEF WriterStep, WriteChunk, SendClose, Forget, SendReset, sessVars
  <2>3. Others(x, i)
    BY <1>2, WriteChunkTyped, SendCloseTyped, ForgetTyped, SendResetTyped DEF WriterStep
  <2> QED BY <2>1, <2>2, <2>3 DEF Acts, Made
<1> QED BY <1>1, <1>2

LEMMA AppActs ==
    ASSUME Typed, QueueAccounted, FreshInv, NEW x \in Sides, NEW i \in Ids, AppStep(x, i)
    PROVE  Acts(x, i)
<1>0. i \in handed[x] /\ sess' = sess
  BY DEF AppStep, ReadData, ReadEOF, Write, Close, CloseWrite, CloseRead, LockWrite, sessVars
<1>1. Made(x, i) /\ st[x][i] \in StreamType
  BY <1>0, StAt DEF FreshInv, Untouched
<1>2. CASE ReadData(x, i)
  <2>1. st[x][i].buf # <<>>
    BY <1>2 DEF ReadData
  <2> QED BY <1>0, <1>1, <1>2, <2>1, ReadDataTyped, DequeueIs DEF Acts, Made
<1>3. CASE ReadEOF(x, i) \/ \E n \in Chunks : Write(x, i, n)
  <2>1. st' = st
    BY <1>3 DEF ReadEOF, Write
  <2> QED BY <1>0, <1>1, <1>3, <2>1, ReadEOFTyped, WriteTyped DEF Acts, Made
<1>4. CASE Close(x, i)
  BY <1>0, <1>1, <1>4, CloseTyped, ClosedIs DEF Acts, Made
<1>5. CASE CloseWrite(x, i)
  <2>1. Others(x, i) /\ st'[x][i] = [st[x][i] EXCEPT !.lwc = TRUE]
    BY <1>5, CloseWriteTyped
  <2>2. [st[x][i] EXCEPT !.lwc = TRUE].made = st[x][i].made
    BY <1>1, HalfClosedIs
  <2> QED BY <1>0, <1>1, <2>1, <2>2 DEF Acts, Made
<1>6. CASE CloseRead(x, i)
  <2>1. /\ Others(x, i)
        /\ st'[x][i] = [st[x][i] EXCEPT !.lrc = TRUE, !.buf = <<>>, !.queued = 0]
    BY <1>6, CloseReadTyped
  <2>2. [st[x][i] EXCEPT !.lrc = TRUE, !.buf = <<>>, !.queued = 0].made = st[x][i].made
    BY <1>1, ReadClosedIs
  <2> QED BY <1>0, <1>1, <2>1, <2>2 DEF Acts, Made
<1> QED BY <1>2, <1>3, <1>4, <1>5, <1>6 DEF AppStep

LEMMA OpenersAct ==
    ASSUME Typed, FreshInv, OpeningInv, NEW i \in Ids
    PROVE  /\ OpenSend(i) => Acts("client", i)
           /\ QueueAccept(i) => Acts("server", i)
           /\ AcceptStream /\ i = Head(acceptCh) => Acts("server", i)
<1> USE MadeSides
<1>1. ASSUME OpenSend(i) PROVE Acts("client", i)
  <2>1. Made("client", i) /\ sess' = sess
    BY <1>1 DEF OpenSend, OpeningInv, OpeningAt, sessVars
  <2>2. CASE st' = st
    BY <1>1, <2>1, <2>2, OpenSendTyped DEF Acts, Made
  <2>3. CASE st' = [st EXCEPT !["client"][i] = closeNoSend(st["client"][i], closeErr["client"])]
    <3>1. st'["client"][i] = closeNoSend(st["client"][i], closeErr["client"])
      BY <2>3 DEF Typed
    <3>2. st["client"][i] \in StreamType /\ closeErr["client"] \in Errors
      BY StAt, ErrorsAt
    <3>3. closeNoSend(st["client"][i], closeErr["client"]).made = st["client"][i].made
      BY <3>2, CloseNoSendIs
    <3> QED BY <1>1, <2>1, <3>1, <3>3, OpenSendTyped DEF Acts, Made
  <2> QED BY <1>1, <2>2, <2>3 DEF OpenSend
<1>2. ASSUME QueueAccept(i) PROVE Acts("server", i)
  <2>1. Made("server", i) /\ sess' = sess
    BY <1>2 DEF QueueAccept, OpeningInv, OpeningAt, sessVars
  <2>2. CASE st' = st
    BY <1>2, <2>1, <2>2, QueueAcceptTyped DEF Acts, Made
  <2>3. CASE st' = [st EXCEPT !["server"][i] = closeNoSend(st["server"][i], "other")]
    <3>1. st'["server"][i] = closeNoSend(st["server"][i], "other")
      BY <2>3 DEF Typed
    <3>2. st["server"][i] \in StreamType /\ "other" \in Errors
      BY StAt, ErrorsAt
    <3>3. closeNoSend(st["server"][i], "other").made = st["server"][i].made
      BY <3>2, CloseNoSendIs
    <3> QED BY <1>2, <2>1, <3>1, <3>3, QueueAcceptTyped DEF Acts, Made
  <2> QED BY <1>2, <2>2, <2>3 DEF QueueAccept
<1>3. ASSUME AcceptStream, i = Head(acceptCh) PROVE Acts("server", i)
  <2>1. Made("server", i) /\ sess' = sess /\ st' = st
    BY <1>3, AcceptStreamTyped DEF AcceptStream, OpeningInv, sessVars
  <2> QED BY <1>3, <2>1, AcceptStreamTyped DEF Acts, Made
<1> QED BY <1>1, <1>2, <1>3

LEMMA ReadActs ==
    ASSUME Typed, FreshInv, NEW x \in Sides, ReadFrame(x), NEW i \in Ids,
           Head(net[Peer(x)]).type # "open", i = Head(net[Peer(x)]).id
    PROVE  Acts(x, i) \/ (~Made(x, i) /\ Idles)
<1>0. st[x][i] \in StreamType /\ sess' = sess
  BY StAt, FrameRead
<1>u. UNCHANGED <<taken, writer, handed, sent, got, eof>>
  BY FrameRead
<1>t. Head(net[Peer(x)]).type \in {"data", "close", "reset"}
  BY FrameRead, FrameFields
<1>1. CASE Head(net[Peer(x)]).type = "data"
  <2>0. PICK c \in Chunks : c = Head(net[Peer(x)]).chunk
    BY <1>1, FrameRead, FrameFields
  <2>1. HandleData(x, i, c) /\ Others(x, i)
    BY <1>1, <2>0, ReadDataFrameTyped
  <2>2. CASE ~Made(x, i)
    <3>1. i \notin streams[x]
      BY <2>2 DEF FreshInv, Untouched
    <3>2. UNCHANGED <<streams, st, resets>>
      BY <2>1, <3>1 DEF HandleData, getStream
    <3>3. \A y \in Sides, j \in Ids : SameAt(y, j)
      BY <1>u, <3>2 DEF SameAt
    <3> QED BY <1>0, <2>2, <3>3 DEF Idles
  <2>3. CASE Made(x, i)
    <3>0. st'[x][i] \in {st[x][i], enqueue(st[x][i], c), closeNoSend(st[x][i], "other")}
      <4>1. st \in [Sides -> [Ids -> StreamType]]
        BY DEF Typed
      <4>2. \/ st' = st
            \/ st' = [st EXCEPT ![x][i] = enqueue(st[x][i], c)]
            \/ st' = [st EXCEPT ![x][i] = closeNoSend(st[x][i], "other")]
        BY <2>1 DEF HandleData
      <4> QED BY <4>1, <4>2
    <3>1. Made(x, i)'
      <4>1. enqueue(st[x][i], c).made = st[x][i].made
            /\ closeNoSend(st[x][i], "other").made = st[x][i].made
        BY <1>0, EnqueueIs, CloseNoSendIs, ErrorsAt
      <4> QED BY <2>3, <3>0, <4>1 DEF Made
    <3> QED BY <1>0, <2>1, <2>3, <3>1 DEF Acts
  <2> QED BY <2>2, <2>3
<1>2. CASE Head(net[Peer(x)]).type = "close"
  <2>1. HandleClose(x, i) /\ Others(x, i)
    BY <1>2, ReadCloseTyped
  <2>2. CASE ~Made(x, i)
    <3>1. i \notin streams[x]
      BY <2>2 DEF FreshInv, Untouched
    <3>2. UNCHANGED <<streams, st, resets>>
      BY <2>1, <3>1 DEF HandleClose, getStream
    <3>3. \A y \in Sides, j \in Ids : SameAt(y, j)
      BY <1>u, <3>2 DEF SameAt
    <3> QED BY <1>0, <2>2, <3>3 DEF Idles
  <2>3. CASE Made(x, i)
    <3>0. st'[x][i] \in {st[x][i], closeRemoteWrite(st[x][i])}
      <4>1. st \in [Sides -> [Ids -> StreamType]]
        BY DEF Typed
      <4>2. st' = st \/ st' = [st EXCEPT ![x][i] = closeRemoteWrite(st[x][i])]
        BY <2>1 DEF HandleClose
      <4> QED BY <4>1, <4>2
    <3>1. Made(x, i)'
      BY <1>0, <2>3, <3>0, CloseRemoteIs DEF Made
    <3> QED BY <1>0, <2>1, <2>3, <3>1 DEF Acts
  <2> QED BY <2>2, <2>3
<1>3. CASE Head(net[Peer(x)]).type = "reset"
  <2>1. /\ HandleReset(x, i) /\ Others(x, i)
        /\ st'[x][i] = IF i \in streams[x] THEN closeNoSend(st[x][i], "other") ELSE st[x][i]
        /\ streams'[x] = streams[x] \ {i}
    BY <1>3, ReadResetTyped
  <2>2. CASE ~Made(x, i)
    <3>1. i \notin streams[x]
      BY <2>2 DEF FreshInv, Untouched
    <3>2. SameAt(x, i)
      BY <1>u, <2>1, <3>1 DEF SameAt, HandleReset
    <3> QED BY <1>0, <2>1, <2>2, <3>2 DEF Idles, Others
  <2>3. CASE Made(x, i)
    <3>1. Made(x, i)'
      BY <1>0, <2>1, <2>3, CloseNoSendIs, ErrorsAt DEF Made
    <3> QED BY <1>0, <2>1, <2>3, <3>1 DEF Acts
  <2> QED BY <2>2, <2>3
<1> QED BY <1>t, <1>1, <1>2, <1>3

(* The kinds of steps, as far as the streams are concerned.                *)
LEMMA StepKinds ==
    ASSUME Typed, QueueAccounted, FreshInv, OpeningInv, OpenInv, [Next]_vars
    PROVE  /\ Typed'
           /\ \/ \E x \in Sides : TakeStreams(x) \/ FinishClose(x)
              \/ Idles
              \/ \E x \in Sides, i \in Ids : Acts(x, i)
              \/ \E x \in Sides, i \in Ids : Registers(x, i)
<1>1. CASE \E x \in Sides : TakeStreams(x) \/ FinishClose(x)
  BY <1>1, SessionTyped
<1>2. CASE \E x \in Sides : LoseTail(x)
  <2>1. sess' = sess
    BY <1>2 DEF LoseTail, sessVars
  <2> QED BY <1>2, <2>1, LoseTailTyped DEF Idles
<1>3. CASE \E x \in Sides : ReadFrame(x)
  <2>1. PICK x \in Sides : ReadFrame(x)
    BY <1>3
  <2>2. PICK i \in Ids : i = Head(net[Peer(x)]).id
    BY <2>1, FrameRead, FrameFields
  <2>3. CASE Head(net[Peer(x)]).type = "open"
    BY <2>1, <2>2, <2>3, ReadOpenTyped, ReadOpenRegisters
  <2>4. CASE Head(net[Peer(x)]).type # "open"
    <3>1. Typed'
      <4>1. CASE Head(net[Peer(x)]).type = "data"
        <5>1. PICK c \in Chunks : c = Head(net[Peer(x)]).chunk
          BY <2>1, <4>1, FrameRead, FrameFields
        <5> QED BY <2>1, <2>2, <4>1, <5>1, ReadDataFrameTyped
      <4>2. CASE Head(net[Peer(x)]).type = "close"
        BY <2>1, <2>2, <4>2, ReadCloseTyped
      <4>3. CASE Head(net[Peer(x)]).type = "reset"
        BY <2>1, <2>2, <4>3, ReadResetTyped
      <4>4. Head(net[Peer(x)]).type \in {"open", "data", "close", "reset"}
        BY <2>1, FrameRead, FrameFields
      <4> QED BY <2>4, <4>1, <4>2, <4>3, <4>4
    <3> QED BY <2>1, <2>2, <2>4, <3>1, ReadActs
  <2> QED BY <2>3, <2>4
<1>4. CASE \E x \in Sides, i \in Ids :
              CloseTaken(x, i) \/ WriterStep(x, i) \/ SendReset(x, i)
  <2>1. PICK x \in Sides, i \in Ids : CloseTaken(x, i) \/ WriterStep(x, i) \/ SendReset(x, i)
    BY <1>4
  <2>2. Acts(x, i)
    BY <2>1, SendersAct
  <2>3. Typed'
    BY <2>1, CloseTakenTyped, WriteChunkTyped, SendCloseTyped, ForgetTyped, SendResetTyped
    DEF WriterStep
  <2> QED BY <2>2, <2>3
<1>5. CASE \E x \in Sides, i \in Ids : AppStep(x, i)
  <2>1. PICK x \in Sides, i \in Ids : AppStep(x, i)
    BY <1>5
  <2>2. Acts(x, i)
    BY <2>1, AppActs
  <2>3. Typed'
    BY <2>1, ReadDataTyped, ReadEOFTyped, WriteTyped, CloseTyped, CloseWriteTyped,
       CloseReadTyped DEF AppStep
  <2> QED BY <2>2, <2>3
<1>6. CASE OpenStream
  <2>1. sess' = sess
    BY <1>6 DEF OpenStream, sessVars
  <2> QED BY <1>6, <2>1, OpenStreamTyped DEF Idles
<1>7. CASE AcceptStream
  <2>1. PICK i \in Ids : i = Head(acceptCh)
    BY <1>7, AcceptStreamTyped
  <2> QED BY <1>7, <2>1, AcceptStreamTyped, OpenersAct, MadeSides
<1>8. CASE \E i \in Ids : OpenRegister(i)
  BY <1>8, OpenRegisterTyped, OpenRegisterRegisters, MadeSides
<1>9. CASE \E i \in Ids : OpenSend(i) \/ QueueAccept(i)
  BY <1>9, OpenSendTyped, QueueAcceptTyped, OpenersAct, MadeSides
<1>10. CASE UNCHANGED vars
  <2>1. Typed' /\ Idles
    BY <1>10 DEF vars, appVars, Typed, Idles, SameAt
  <2> QED BY <2>1
<1> QED BY <1>1, <1>2, <1>3, <1>4, <1>5, <1>6, <1>7, <1>8, <1>9, <1>10
        DEF Next, CloserStep

LEMMA FreshNext ==
    ASSUME Typed, QueueAccounted, FreshInv, OpeningInv, OpenInv, [Next]_vars
    PROVE  FreshInv'
<1>0. ASSUME NEW y \in Sides, NEW j \in Ids, SameAt(y, j)
      PROVE  ~Made(y, j)' => Untouched(y, j)'
  BY <1>0 DEF FreshInv, Made, Untouched, SameAt
<1>1. CASE \E x \in Sides : TakeStreams(x)
  <2>1. PICK x \in Sides : TakeStreams(x)
    BY <1>1
  <2>2. /\ UNCHANGED <<st, writer, resets, sent, got, handed, eof>>
        /\ \A y \in Sides : /\ streams'[y] \subseteq streams[y]
                            /\ taken'[y] \subseteq streams[y] \cup taken[y]
    BY <2>1 DEF TakeStreams, appVars, Typed
  <2> QED BY <2>2 DEF FreshInv, Made, Untouched
<1>2. CASE (\E x \in Sides : FinishClose(x)) \/ Idles
  <2>1. \A y \in Sides, j \in Ids : SameAt(y, j)
    BY <1>2, FinishCloseOthers DEF Idles
  <2> QED BY <1>0, <2>1 DEF FreshInv
<1>3. CASE \E x \in Sides, i \in Ids : Acts(x, i)
  BY <1>0, <1>3 DEF FreshInv, Acts, Others
<1>4. CASE \E x \in Sides, i \in Ids : Registers(x, i)
  <2>1. PICK x \in Sides, i \in Ids : Registers(x, i)
    BY <1>4
  <2>2. Made(x, i)'
    BY <2>1, NewStreams DEF Registers, Made
  <2> QED BY <1>0, <2>1, <2>2 DEF FreshInv, Registers, Others
<1> QED BY <1>1, <1>2, <1>3, <1>4, StepKinds

-----------------------------------------------------------------------------
(* The queues keep to their limits.                                        *)

QueueOK(s) == s.queued = Len(s.buf) /\ s.queued <= MaxQueued

LEMMA CloseQueue ==
    ASSUME NEW s \in StreamType, QueueOK(s), NEW e \in Errors
    PROVE  QueueOK(closeNoSend(s, e))
BY CloseNoSendIs DEF QueueOK

LEMMA QueueOps ==
    ASSUME NEW s \in StreamType, QueueOK(s), NEW c \in Chunks, NEW e \in Errors
    PROVE  /\ QueueOK(closeNoSend(s, e)) /\ QueueOK(closeRemoteWrite(s)) /\ QueueOK(newStream)
           /\ ~QueueFull(s) => QueueOK(enqueue(s, c))
           /\ s.buf # <<>> /\ s.queued > 0 => QueueOK(dequeue(s))
<1>0. s.buf \in Seq(Chunks) /\ s.queued \in Nat /\ MaxQueued \in Nat
  BY MuxAssumption DEF StreamType
<1>1. QueueOK(closeNoSend(s, e)) /\ QueueOK(closeRemoteWrite(s))
  BY CloseQueue, CloseRemoteIs DEF QueueOK
<1>2. QueueOK(newStream)
  BY <1>0, NewStreams DEF QueueOK
<1>3. ASSUME ~QueueFull(s) PROVE QueueOK(enqueue(s, c))
  <2>1. Len(Append(s.buf, c)) = Len(s.buf) + 1
    BY <1>0
  <2> QED BY <1>0, <1>3, <2>1, EnqueueIs DEF QueueOK, QueueFull
<1>4. ASSUME s.buf # <<>>, s.queued > 0 PROVE QueueOK(dequeue(s))
  <2>1. Len(Tail(s.buf)) = Len(s.buf) - 1
    BY <1>0, <1>4
  <2>2. dequeue(s).buf = Tail(s.buf) /\ dequeue(s).queued = s.queued - 1
    BY <1>4, DequeueIs
  <2> QED BY <1>0, <2>1, <2>2 DEF QueueOK
<1> QED BY <1>1, <1>2, <1>3, <1>4

LEMMA QueueNext ==
    ASSUME Typed, QueueAccounted, FreshInv, OpeningInv, OpenInv, [Next]_vars
    PROVE  QueueAccounted'
<1>0. \A x \in Sides, i \in Ids : st[x][i] \in StreamType /\ QueueOK(st[x][i])
  BY StAt DEF QueueAccounted, QueueOK
<1>1. SUFFICES \A x \in Sides, i \in Ids : QueueOK(st'[x][i])
  BY DEF QueueAccounted, QueueOK
<1>2. CASE st' = st
  BY <1>0, <1>2
<1>3. ASSUME NEW x \in Sides, NEW i \in Ids, Others(x, i), QueueOK(st'[x][i])
      PROVE  \A y \in Sides, j \in Ids : QueueOK(st'[y][j])
  BY <1>0, <1>3 DEF Others, SameAt
<1>4. ASSUME NEW x \in Sides, NEW i \in Ids, CloseTaken(x, i)
      PROVE  \A y \in Sides, j \in Ids : QueueOK(st'[y][j])
  <2>1. QueueOK(closeNoSend(st[x][i], closeErr[x]))
    <3>1. st[x][i] \in StreamType /\ QueueOK(st[x][i]) /\ closeErr[x] \in Errors
      BY <1>0, ErrorsAt
    <3> QED BY <3>1, CloseQueue
  <2> QED BY <1>3, <1>4, <2>1, CloseTakenTyped
<1>5. ASSUME NEW x \in Sides, NEW i \in Ids, AppStep(x, i)
      PROVE  \A y \in Sides, j \in Ids : QueueOK(st'[y][j])
  <2>1. st[x][i] \in StreamType /\ QueueOK(st[x][i]) /\ Acts(x, i) /\ MaxQueued \in Nat
    BY <1>0, <1>5, AppActs, MuxAssumption
  <2>2. CASE ReadData(x, i)
    <3>1. st[x][i].queued > 0 /\ st[x][i].buf # <<>> /\ st'[x][i] = dequeue(st[x][i])
      BY <2>2, ReadDataTyped DEF ReadData
    <3>2. st[x][i].buf \in Seq(Chunks) /\ st[x][i].queued \in Nat
      BY <2>1 DEF StreamType
    <3>3. /\ dequeue(st[x][i]).buf = Tail(st[x][i].buf)
          /\ dequeue(st[x][i]).queued = st[x][i].queued - 1
      BY <2>1, <3>1, DequeueIs
    <3>4. Len(Tail(st[x][i].buf)) = Len(st[x][i].buf) - 1
      BY <3>1, <3>2
    <3>5. QueueOK(dequeue(st[x][i]))
      BY <2>1, <3>2, <3>3, <3>4 DEF QueueOK
    <3> QED BY <1>3, <2>1, <3>1, <3>5 DEF Acts
  <2>3. CASE ReadEOF(x, i) \/ \E n \in Chunks : Write(x, i, n)
    BY <1>0, <2>3 DEF ReadEOF, Write
  <2>4. CASE Close(x, i)
    <3>1. st'[x][i].buf = <<>> /\ st'[x][i].queued = 0
      BY <2>4, CloseFields
    <3> QED BY <1>3, <2>1, <3>1 DEF Acts, QueueOK
  <2>5. CASE CloseWrite(x, i)
    <3>1. st'[x][i].buf = st[x][i].buf /\ st'[x][i].queued = st[x][i].queued
      BY <2>5, CloseWriteFields
    <3> QED BY <1>3, <2>1, <3>1 DEF Acts, QueueOK
  <2>6. CASE CloseRead(x, i)
    <3>1. st'[x][i].buf = <<>> /\ st'[x][i].queued = 0
      BY <2>6, CloseReadFields
    <3> QED BY <1>3, <2>1, <3>1 DEF Acts, QueueOK
  <2> QED BY <1>5, <2>2, <2>3, <2>4, <2>5, <2>6 DEF AppStep
<1>6. ASSUME NEW x \in Sides, ReadFrame(x)
      PROVE  \A y \in Sides, j \in Ids : QueueOK(st'[y][j])
  <2>0. PICK i \in Ids : i = Head(net[Peer(x)]).id
    BY <1>6, FrameRead, FrameFields
  <2>1. CASE Head(net[Peer(x)]).type = "open"
    <3>1. QueueOK(newStream)
      BY NewStreams, MuxAssumption DEF QueueOK
    <3> QED BY <1>3, <1>6, <2>0, <2>1, <3>1, ReadOpenTyped
  <2>2. CASE Head(net[Peer(x)]).type = "data"
    <3>0. PICK c \in Chunks : c = Head(net[Peer(x)]).chunk
      BY <1>6, <2>2, FrameRead, FrameFields
    <3>1. HandleData(x, i, c) /\ Others(x, i)
      BY <1>6, <2>0, <2>2, <3>0, ReadDataFrameTyped
    <3>2. \/ st'[x][i] = st[x][i]
          \/ st'[x][i] = enqueue(st[x][i], c) /\ ~QueueFull(st[x][i])
          \/ st'[x][i] = closeNoSend(st[x][i], "other")
      BY <3>1 DEF HandleData, Typed
    <3>3. QueueOK(st'[x][i])
      BY <1>0, <3>2, QueueOps, ErrorsAt
    <3> QED BY <1>3, <3>1, <3>3
  <2>3. CASE Head(net[Peer(x)]).type = "close"
    <3>1. HandleClose(x, i) /\ Others(x, i)
      BY <1>6, <2>0, <2>3, ReadCloseTyped
    <3>2. st'[x][i] \in {st[x][i], closeRemoteWrite(st[x][i])}
      BY <3>1 DEF HandleClose, Typed
    <3>3. QueueOK(st'[x][i])
      BY <1>0, <3>2, CloseRemoteIs DEF QueueOK
    <3> QED BY <1>3, <3>1, <3>3
  <2>4. CASE Head(net[Peer(x)]).type = "reset"
    <3>1. st'[x][i] \in {st[x][i], closeNoSend(st[x][i], "other")} /\ Others(x, i)
      BY <1>6, <2>0, <2>4, ReadResetTyped
    <3>2. QueueOK(st[x][i]) /\ QueueOK(closeNoSend(st[x][i], "other"))
      BY <1>0, CloseQueue, ErrorsAt
    <3>3. QueueOK(st'[x][i])
      BY <3>1, <3>2
    <3> QED BY <1>3, <3>1, <3>3
  <2> QED BY <1>6, <2>1, <2>2, <2>3, <2>4, FrameRead, FrameFields
<1>7. ASSUME NEW i \in Ids, OpenRegister(i)
      PROVE  \A y \in Sides, j \in Ids : QueueOK(st'[y][j])
  <2>1. QueueOK(newStream)
    BY NewStreams, MuxAssumption DEF QueueOK
  <2> QED BY <1>3, <1>7, <2>1, OpenRegisterTyped, MadeSides
<1>8. ASSUME NEW i \in Ids, NEW x \in Sides, NEW e \in Errors, Others(x, i),
             st' = [st EXCEPT ![x][i] = closeNoSend(st[x][i], e)]
      PROVE  \A y \in Sides, j \in Ids : QueueOK(st'[y][j])
  <2>1. st'[x][i] = closeNoSend(st[x][i], e)
    BY <1>8 DEF Typed
  <2>2. QueueOK(closeNoSend(st[x][i], e))
    BY <1>0, <1>8, CloseQueue
  <2> QED BY <1>3, <1>8, <2>1, <2>2
<1>9. ASSUME NEW i \in Ids, OpenSend(i) \/ QueueAccept(i)
      PROVE  \A y \in Sides, j \in Ids : QueueOK(st'[y][j])
  <2>1. CASE OpenSend(i)
    BY <1>2, <1>8, <2>1, OpenSendTyped, MadeSides, ErrorsAt DEF OpenSend
  <2>2. CASE QueueAccept(i)
    BY <1>2, <1>8, <2>2, QueueAcceptTyped, MadeSides, ErrorsAt DEF QueueAccept
  <2> QED BY <1>9, <2>1, <2>2
<1>10. CASE \/ \E x \in Sides : TakeStreams(x) \/ FinishClose(x) \/ LoseTail(x)
            \/ \E x \in Sides, i \in Ids : WriterStep(x, i) \/ SendReset(x, i)
            \/ OpenStream \/ AcceptStream \/ UNCHANGED vars
  <2>1. st' = st
    BY <1>10 DEF TakeStreams, FinishClose, LoseTail, WriterStep, WriteChunk, SendClose,
       Forget, SendReset, OpenStream, AcceptStream, vars
  <2> QED BY <1>2, <2>1
<1> QED BY <1>4, <1>5, <1>6, <1>7, <1>9, <1>10 DEF Next, CloserStep

LEMMA BoundedNext ==
    ASSUME Typed, Bounded, FreshInv, OpeningInv, OpenInv, [Next]_vars
    PROVE  Bounded'
<1>0. ConnCap \in Nat /\ AcceptCap \in Nat
  BY MuxAssumption
<1>1. Typed' /\ QueueAccounted'
  BY QueueNext, StepKinds DEF Bounded
<1>2. Len(acceptCh') <= AcceptCap
  <2>1. CASE UNCHANGED acceptCh
    BY <2>1 DEF Bounded
  <2>2. CASE \E i \in Ids : Len(acceptCh) < AcceptCap /\ acceptCh' = Append(acceptCh, i)
    BY <1>0, <2>2 DEF Typed
  <2>3. CASE acceptCh # <<>> /\ acceptCh' = Tail(acceptCh)
    BY <1>0, <2>3 DEF Typed, Bounded
  <2>4. ASSUME NEW x \in Sides, ReadFrame(x) PROVE UNCHANGED acceptCh
    BY <2>4, FrameRead
  <2>5. CASE \/ \E x \in Sides : TakeStreams(x) \/ CloserStep(x) \/ LoseTail(x)
             \/ \E x \in Sides, i \in Ids : WriterStep(x, i) \/ SendReset(x, i)
    BY <2>1, <2>5 DEF TakeStreams, CloserStep, CloseTaken, FinishClose, LoseTail,
       WriterStep, WriteChunk, SendClose, Forget, SendReset
  <2>6. CASE \E x \in Sides, i \in Ids : AppStep(x, i)
    <3>1. PICK x \in Sides, i \in Ids : AppStep(x, i)
      BY <2>6
    <3>2. UNCHANGED acceptCh
      BY <3>1 DEF AppStep, ReadData, ReadEOF, Write, Close, CloseWrite, CloseRead
    <3> QED BY <2>1, <3>2
  <2>7. CASE \/ OpenStream \/ AcceptStream \/ UNCHANGED vars
             \/ \E i \in Ids : OpenRegister(i) \/ OpenSend(i) \/ QueueAccept(i)
    BY <2>1, <2>2, <2>3, <2>7 DEF OpenStream, AcceptStream, OpenRegister, OpenSend,
       QueueAccept, vars
  <2> QED BY <2>1, <2>4, <2>5, <2>6, <2>7 DEF Next
<1>3. ASSUME NEW y \in Sides PROVE Len(net'[y]) <= ConnCap
  <2>0. net[y] \in Seq(Frame) /\ Len(net[y]) <= ConnCap /\ Len(net[y]) \in Nat
    BY DEF Typed, Bounded
  <2>1. CASE UNCHANGED net
    BY <2>0, <2>1
  <2>2. CASE \E x \in Sides, f \in Frame : CanSend(x) /\ Send(x, f)
    <3>1. PICK x \in Sides, f \in Frame : CanSend(x) /\ Send(x, f)
      BY <2>2
    <3>2. net'[x] = Append(net[x], f) /\ Len(net'[x]) = Len(net[x]) + 1
          /\ net'[Peer(x)] = net[Peer(x)] /\ Len(net[x]) \in Nat
      BY <3>1, SendIs
    <3>3. CASE y = x
      BY <1>0, <3>1, <3>2, <3>3 DEF CanSend
    <3>4. CASE y = Peer(x)
      BY <2>0, <3>2, <3>4
    <3> QED BY <3>3, <3>4, MadeSides
  <2>3. CASE \E x \in Sides : LoseTail(x)
    <3>1. PICK x \in Sides : LoseTail(x)
      BY <2>3
    <3>2. Len(net'[x]) = Len(net[x]) - 1 /\ net'[Peer(x)] = net[Peer(x)]
      BY <3>1, LoseTailTyped
    <3> QED BY <1>0, <2>0, <3>2, MadeSides
  <2>4. CASE \E x \in Sides : ReadFrame(x)
    <3>1. PICK x \in Sides : ReadFrame(x)
      BY <2>4
    <3>2. Len(net'[Peer(x)]) = Len(net[Peer(x)]) - 1 /\ net'[x] = net[x]
      BY <3>1, FrameRead
    <3> QED BY <1>0, <2>0, <3>2, MadeSides
  <2>5. ASSUME NEW x \in Sides, NEW i \in Ids, WriterStep(x, i) \/ SendReset(x, i)
        PROVE  UNCHANGED net \/ \E f \in Frame : CanSend(x) /\ Send(x, f)
    <3>1. CASE WriteChunk(x, i)
      <4>1. sent[x][i] + 1 \in Chunks \/ UNCHANGED net
        BY <3>1, WriteChunkTyped
      <4> QED BY <3>1, <4>1, MadeFrames DEF WriteChunk
    <3>2. CASE SendClose(x, i) \/ Forget(x, i)
      BY <3>2, MadeFrames DEF SendClose, Forget
    <3>3. CASE SendReset(x, i)
      <4>1. Control(IF resets[x][i] = 2 THEN "reset" ELSE "close", i) \in Frame
        BY MadeFrames
      <4> QED BY <3>3, <4>1 DEF SendReset
    <3> QED BY <2>5, <3>1, <3>2, <3>3 DEF WriterStep
  <2>6. ASSUME NEW i \in Ids, OpenSend(i)
        PROVE  UNCHANGED net \/ \E f \in Frame : CanSend("client") /\ Send("client", f)
    BY <2>6, MadeFrames DEF OpenSend
  <2>7. CASE \/ \E x \in Sides : TakeStreams(x) \/ CloserStep(x)
             \/ \E x \in Sides, i \in Ids : AppStep(x, i)
             \/ OpenStream \/ AcceptStream \/ UNCHANGED vars
             \/ \E i \in Ids : OpenRegister(i) \/ QueueAccept(i)
    <3>1. ASSUME NEW x \in Sides, TakeStreams(x) \/ CloserStep(x) PROVE UNCHANGED net
      BY <3>1 DEF TakeStreams, CloserStep, CloseTaken, FinishClose
    <3>2. ASSUME NEW x \in Sides, NEW i \in Ids, AppStep(x, i) PROVE UNCHANGED net
      BY <3>2 DEF AppStep, ReadData, ReadEOF, Write, Close, CloseWrite, CloseRead
    <3>3. ASSUME OpenStream \/ AcceptStream \/ UNCHANGED vars PROVE UNCHANGED net
      BY <3>3 DEF OpenStream, AcceptStream, vars
    <3>4. ASSUME NEW i \in Ids, OpenRegister(i) \/ QueueAccept(i) PROVE UNCHANGED net
      BY <3>4 DEF OpenRegister, QueueAccept
    <3> QED BY <2>1, <2>7, <3>1, <3>2, <3>3, <3>4
  <2> QED BY <2>1, <2>2, <2>3, <2>4, <2>5, <2>6, <2>7, MadeSides DEF Next
<1> QED BY <1>1, <1>2, <1>3 DEF Bounded

-----------------------------------------------------------------------------
(* Opening a stream.                                                       *)

LEMMA ActsMade ==
    ASSUME NEW x \in Sides, NEW i \in Ids, Acts(x, i) \/ Idles
    PROVE  \A y \in Sides, j \in Ids : Made(y, j)' <=> Made(y, j)
BY DEF Acts, Idles, Others, SameAt, Made

LEMMA OpeningFrame ==
    ASSUME Typed, OpeningInv, UNCHANGED <<nextID, opening, accepts, acceptCh>>,
           handed'["client"] = handed["client"],
           \A i \in Ids : resets'["client"][i] > 0 =>
              resets["client"][i] > 0 \/ Made("server", i),
           \A y \in Sides, j \in Ids : Made(y, j)' <=> Made(y, j)
    PROVE  OpeningInv'
<1>1. ASSUME NEW i \in Ids PROVE OpeningAt(i)'
  BY <1>1, MadeSides DEF OpeningInv, OpeningAt
<1>2. ASSUME NEW n \in DOMAIN acceptCh' PROVE st'["server"][acceptCh'[n]].made
  <2>1. n \in DOMAIN acceptCh /\ acceptCh' = acceptCh
    OBVIOUS
  <2>2. PICK j \in Ids : j = acceptCh[n]
    BY <2>1 DEF Typed
  <2>3. Made("server", j)
    BY <2>1, <2>2 DEF OpeningInv
  <2> QED BY <2>1, <2>2, <2>3, MadeSides DEF Made
<1> QED BY <1>1, <1>2 DEF OpeningInv, Made

LEMMA OpeningNext ==
    ASSUME Typed, QueueAccounted, FreshInv, OpeningInv, OpenInv, [Next]_vars
    PROVE  OpeningInv'
<1> USE MadeSides
<1>0. \A i \in Ids : OpeningAt(i)
  BY DEF OpeningInv
<1>1. CASE \/ \E x \in Sides : TakeStreams(x) \/ FinishClose(x) \/ LoseTail(x)
           \/ \E x \in Sides, i \in Ids : CloseTaken(x, i)
           \/ UNCHANGED vars
  <2>1. UNCHANGED <<nextID, opening, accepts, acceptCh, handed, resets>>
    BY <1>1 DEF TakeStreams, FinishClose, LoseTail, CloseTaken, vars
  <2>2. \A y \in Sides, j \in Ids : Made(y, j)' <=> Made(y, j)
    <3>1. CASE \E x \in Sides, i \in Ids : CloseTaken(x, i)
      BY <3>1, SendersAct, ActsMade
    <3>2. CASE UNCHANGED st
      BY <3>2 DEF Made
    <3> QED BY <1>1, <3>1, <3>2 DEF TakeStreams, FinishClose, LoseTail, vars
  <2> QED BY <2>1, <2>2, OpeningFrame
<1>2. ASSUME NEW x \in Sides, NEW i \in Ids, WriterStep(x, i) \/ SendReset(x, i)
      PROVE  OpeningInv'
  <2>1. UNCHANGED <<nextID, opening, accepts, acceptCh, handed>>
    BY <1>2 DEF WriterStep, WriteChunk, SendClose, Forget, SendReset
  <2>2. \A y \in Sides, j \in Ids : Made(y, j)' <=> Made(y, j)
    BY <1>2, SendersAct, ActsMade
  <2>3. \A j \in Ids : resets'["client"][j] > 0 => resets["client"][j] > 0
    <3>1. CASE UNCHANGED resets
      BY <3>1
    <3>2. CASE SendReset(x, i)
      BY <3>2 DEF SendReset, Typed
    <3> QED BY <1>2, <3>1, <3>2 DEF WriterStep, WriteChunk, SendClose, Forget
  <2> QED BY <2>1, <2>2, <2>3, OpeningFrame
<1>3. ASSUME NEW x \in Sides, NEW i \in Ids, AppStep(x, i) PROVE OpeningInv'
  <2>1. UNCHANGED <<nextID, opening, accepts, acceptCh, handed, resets>>
    BY <1>3 DEF AppStep, ReadData, ReadEOF, Write, Close, CloseWrite, CloseRead
  <2>2. \A y \in Sides, j \in Ids : Made(y, j)' <=> Made(y, j)
    BY <1>3, AppActs, ActsMade
  <2> QED BY <2>1, <2>2, OpeningFrame
<1>4. ASSUME NEW x \in Sides, ReadFrame(x) PROVE OpeningInv'
  <2>0. PICK i \in Ids : i = Head(net[Peer(x)]).id
    BY <1>4, FrameRead, FrameFields
  <2>f. UNCHANGED <<nextID, opening, acceptCh, handed>>
    BY <1>4, FrameRead
  <2>1. CASE Head(net[Peer(x)]).type = "open"
    <3>1. Registers("server", i) /\ opening[i] = "done" /\ accepts' = accepts \cup {i}
      BY <1>4, <2>0, <2>1, ReadOpenRegisters, OpenIsFresh, ReadOpenTyped DEF HandleOpen
    <3>2. /\ Made("server", i)'
          /\ \A y \in Sides, j \in Ids : y # "server" \/ j # i => (Made(y, j)' <=> Made(y, j))
      BY <3>1, NewStreams DEF Registers, Others, SameAt, Made
    <3>3. resets' = resets
      BY <3>1 DEF Registers
    <3>4. ASSUME NEW j \in Ids PROVE OpeningAt(j)'
      BY <1>0, <2>f, <3>1, <3>2, <3>3 DEF OpeningAt
    <3>5. ASSUME NEW n \in DOMAIN acceptCh' PROVE st'["server"][acceptCh'[n]].made
      <4>1. n \in DOMAIN acceptCh /\ acceptCh' = acceptCh
        BY <2>f
      <4>2. PICK j \in Ids : j = acceptCh[n]
        BY <4>1 DEF Typed
      <4>3. Made("server", j)
        BY <4>1, <4>2 DEF OpeningInv
      <4>4. Made("server", j)'
        BY <3>2, <4>3
      <4> QED BY <4>1, <4>2, <4>4 DEF Made
    <3> QED BY <3>4, <3>5 DEF OpeningInv, Made
  <2>2. CASE Head(net[Peer(x)]).type # "open"
    <3>1. \A y \in Sides, j \in Ids : Made(y, j)' <=> Made(y, j)
      BY <1>4, <2>0, <2>2, ReadActs, ActsMade
    <3>2. UNCHANGED accepts
      <4>1. Head(net[Peer(x)]).type \in {"data", "close", "reset"}
        BY <1>4, <2>2, FrameRead, FrameFields
      <4>2. CASE Head(net[Peer(x)]).type = "data"
        <5>1. PICK c \in Chunks : c = Head(net[Peer(x)]).chunk
          BY <1>4, <4>2, FrameRead, FrameFields
        <5> QED BY <1>4, <2>0, <4>2, <5>1, ReadDataFrameTyped DEF HandleData
      <4>3. CASE Head(net[Peer(x)]).type = "close"
        BY <1>4, <2>0, <4>3, ReadCloseTyped DEF HandleClose
      <4>4. CASE Head(net[Peer(x)]).type = "reset"
        BY <1>4, <2>0, <4>4, ReadResetTyped DEF HandleReset
      <4> QED BY <4>1, <4>2, <4>3, <4>4
    <3>3. ASSUME NEW j \in Ids, resets'["client"][j] > 0
          PROVE  resets["client"][j] > 0 \/ Made("server", j)
      <4>1. CASE x = "client" /\ j = i
        <5>1. 1 \in DOMAIN net["server"] /\ net["server"][1].id = i
          BY <1>4, <2>0, <4>1, FrameRead
        <5>2. Made("server", i)
          BY <5>1 DEF OpenInv
        <5> QED BY <4>1, <5>2
      <4>2. CASE ~(x = "client" /\ j = i)
        <5>1. SameAt("client", j)
          BY <1>4, <2>0, <2>2, <4>2, ReadActs DEF Acts, Idles, Others
        <5> QED BY <3>3, <5>1 DEF SameAt
      <4> QED BY <4>1, <4>2
    <3> QED BY <2>f, <3>1, <3>2, <3>3, OpeningFrame
  <2> QED BY <2>1, <2>2
<1>5. CASE OpenStream
  <2>1. UNCHANGED <<st, handed, accepts, acceptCh, resets>>
    BY <1>5 DEF OpenStream
  <2>2. /\ nextID \in Nat /\ nextID' = nextID + 1 /\ nextID + 1 \in Ids
        /\ opening'[nextID + 1] = "checked"
        /\ \A j \in Ids : j # nextID + 1 => opening'[j] = opening[j]
    BY <1>5, MuxAssumption DEF OpenStream, nextStreamID, Typed, Ids
  <2>3. opening[nextID + 1] = "none"
    BY <1>0, <2>2 DEF OpeningAt
  <2>4. ASSUME NEW j \in Ids PROVE OpeningAt(j)'
    <3>1. j > nextID' => j > nextID
      BY <2>2 DEF Ids
    <3>2. CASE j = nextID + 1
      <4>1. ~Made("client", j) /\ ~Made("server", j) /\ j \notin handed["client"]
            /\ j \notin accepts /\ ~(resets["client"][j] > 0) /\ ~(j > nextID')
        BY <1>0, <2>2, <2>3, <3>2 DEF OpeningAt
      <4> QED BY <2>1, <2>2, <3>2, <4>1 DEF OpeningAt, Made
    <3>3. CASE j # nextID + 1
      BY <1>0, <2>1, <2>2, <3>1, <3>3 DEF OpeningAt, Made
    <3> QED BY <3>2, <3>3
  <2> QED BY <2>1, <2>4 DEF OpeningInv, Made
<1>6. ASSUME NEW i \in Ids, OpenRegister(i) PROVE OpeningInv'
  <2>1. Registers("client", i) /\ ~Made("server", i)
    BY <1>6, OpenRegisterRegisters, RegisterIsFresh
  <2>2. /\ Made("client", i)'
        /\ \A y \in Sides, j \in Ids : y # "client" \/ j # i => (Made(y, j)' <=> Made(y, j))
    BY <2>1, NewStreams DEF Registers, Others, SameAt, Made
  <2>3. /\ opening'[i] = "registered" /\ opening[i] = "checked"
        /\ \A j \in Ids : j # i => opening'[j] = opening[j]
        /\ UNCHANGED <<nextID, accepts, acceptCh, handed, resets>>
    BY <1>6 DEF OpenRegister, Typed
  <2>4. ASSUME NEW j \in Ids PROVE OpeningAt(j)'
    <3>1. CASE j = i
      BY <1>0, <2>1, <2>2, <2>3, <3>1 DEF OpeningAt
    <3>2. CASE j # i
      BY <1>0, <2>2, <2>3, <3>2 DEF OpeningAt
    <3> QED BY <3>1, <3>2
  <2>5. ASSUME NEW n \in DOMAIN acceptCh' PROVE st'["server"][acceptCh'[n]].made
    <3>1. n \in DOMAIN acceptCh /\ acceptCh' = acceptCh
      BY <2>3
    <3>2. PICK j \in Ids : j = acceptCh[n]
      BY <3>1 DEF Typed
    <3>3. Made("server", j)'
      BY <2>2, <3>1, <3>2 DEF OpeningInv
    <3> QED BY <3>1, <3>2, <3>3 DEF Made
  <2> QED BY <2>4, <2>5 DEF OpeningInv, Made
<1>7. ASSUME NEW i \in Ids, OpenSend(i) PROVE OpeningInv'
  <2>1. \A y \in Sides, j \in Ids : Made(y, j)' <=> Made(y, j)
    BY <1>7, OpenersAct, ActsMade
  <2>2. /\ opening[i] = "registered" /\ opening'[i] = "done"
        /\ \A j \in Ids : j # i => opening'[j] = opening[j]
        /\ handed'["client"] \subseteq handed["client"] \cup {i}
        /\ UNCHANGED <<nextID, accepts, acceptCh, resets>>
    BY <1>7 DEF OpenSend, Typed
  <2>3. ASSUME NEW j \in Ids PROVE OpeningAt(j)'
    BY <1>0, <2>1, <2>2 DEF OpeningAt
  <2>4. ASSUME NEW n \in DOMAIN acceptCh' PROVE st'["server"][acceptCh'[n]].made
    <3>1. n \in DOMAIN acceptCh /\ acceptCh' = acceptCh
      BY <2>2
    <3>2. PICK j \in Ids : j = acceptCh[n]
      BY <3>1 DEF Typed
    <3>3. Made("server", j)'
      BY <2>1, <3>1, <3>2 DEF OpeningInv
    <3> QED BY <3>1, <3>2, <3>3 DEF Made
  <2> QED BY <2>3, <2>4 DEF OpeningInv, Made
<1>8. ASSUME (\E i \in Ids : QueueAccept(i)) \/ AcceptStream PROVE OpeningInv'
  <2>0. acceptCh \in Seq(Ids)
    BY DEF Typed
  <2>1. \A y \in Sides, j \in Ids : Made(y, j)' <=> Made(y, j)
    <3>1. CASE \E i \in Ids : QueueAccept(i)
      BY <3>1, OpenersAct, ActsMade
    <3>2. CASE AcceptStream
      <4>1. PICK i \in Ids : i = Head(acceptCh)
        BY <3>2, AcceptStreamTyped
      <4> QED BY <3>2, <4>1, OpenersAct, ActsMade
    <3> QED BY <1>8, <3>1, <3>2
  <2>2. /\ UNCHANGED <<nextID, opening, resets>> /\ accepts' \subseteq accepts
        /\ handed'["client"] = handed["client"]
    BY <1>8 DEF QueueAccept, AcceptStream, Typed
  <2>3. ASSUME NEW j \in Ids PROVE OpeningAt(j)'
    BY <1>0, <2>1, <2>2 DEF OpeningAt
  <2>4. ASSUME NEW n \in DOMAIN acceptCh' PROVE st'["server"][acceptCh'[n]].made
    <3>1. PICK j \in Ids : j = acceptCh'[n] /\ Made("server", j)
      <4>1. CASE UNCHANGED acceptCh
        BY <2>0, <4>1 DEF OpeningInv
      <4>2. CASE \E i \in accepts : acceptCh' = Append(acceptCh, i)
        <5>1. PICK i \in accepts : acceptCh' = Append(acceptCh, i)
          BY <4>2
        <5>2. i \in Ids /\ Made("server", i)
          BY <1>0, <5>1 DEF OpeningAt, Typed
        <5>3. CASE n = Len(acceptCh) + 1
          BY <2>0, <5>1, <5>2, <5>3
        <5>4. CASE n # Len(acceptCh) + 1
          <6>1. n \in DOMAIN acceptCh /\ acceptCh'[n] = acceptCh[n]
            BY <2>0, <5>1, <5>2, <5>4
          <6> QED BY <2>0, <6>1 DEF OpeningInv
        <5> QED BY <5>3, <5>4
      <4>3. CASE acceptCh # <<>> /\ acceptCh' = Tail(acceptCh)
        <5>1. n + 1 \in DOMAIN acceptCh /\ acceptCh'[n] = acceptCh[n + 1]
          BY <2>0, <4>3
        <5> QED BY <2>0, <5>1 DEF OpeningInv
      <4> QED BY <1>8, <4>1, <4>2, <4>3 DEF QueueAccept, AcceptStream
    <3> QED BY <2>1, <3>1 DEF Made
  <2> QED BY <2>3, <2>4 DEF OpeningInv, Made
<1> QED BY <1>1, <1>2, <1>3, <1>4, <1>5, <1>6, <1>7, <1>8 DEF Next, CloserStep

-----------------------------------------------------------------------------
(* The open frame comes first.                                             *)

(* What OpenInv says depends on the frames, on what the server has made,   *)
(* on the streams that were opened and on whether the client is closed.    *)
SameOpened ==
    /\ \A i \in Ids : Made("server", i)' <=> Made("server", i)
    /\ \A i \in Ids : opening[i] = "done" => opening'[i] = "done"
    /\ \A i \in Ids : opening'[i] = "done" /\ sess'["client"] # "closed" =>
          opening[i] = "done" /\ sess["client"] # "closed"

LEMMA OpenKept ==
    ASSUME Typed, OpenInv, SameOpened, UNCHANGED net
    PROVE  OpenInv'
<1> USE MadeSides
<1>0. \A x \in Sides : \A k \in DOMAIN net[x] : net[x][k].id \in Ids
  BY FrameFields DEF Typed
<1>1. ASSUME NEW k \in DOMAIN net'["server"]
      PROVE  net'["server"][k].type # "open" /\ st'["server"][net["server"][k].id].made
  BY <1>0 DEF OpenInv, SameOpened, Made
<1>2. ASSUME NEW k \in DOMAIN net["client"], NEW i \in Ids, IsFrame("client", k, "open", i)
      PROVE  /\ ~Made("server", i)' /\ opening'[i] = "done"
             /\ \A j \in DOMAIN net["client"] : IsFrame("client", j, "open", i) => j = k
  BY <1>2 DEF OpenInv, SameOpened
<1>3. ASSUME NEW k \in DOMAIN net["client"], NEW i \in Ids, net["client"][k].id = i
      PROVE  \/ Made("server", i)'
             \/ \E j \in DOMAIN net["client"] :
                   j <= k /\ IsFrame("client", j, "open", i)
  BY <1>3 DEF OpenInv, SameOpened
<1>4. ASSUME NEW i \in Ids, opening'[i] = "done", sess'["client"] # "closed"
      PROVE  \/ Made("server", i)'
             \/ \E j \in DOMAIN net["client"] : IsFrame("client", j, "open", i)
  BY <1>4 DEF OpenInv, SameOpened
<1> QED BY <1>1, <1>2, <1>3, <1>4 DEF OpenInv, IsFrame, Made

LEMMA OpenSent ==
    ASSUME Typed, OpenInv, SameOpened, NEW x \in Sides, NEW f \in Frame, Send(x, f),
           f.type # "open",
           Made("server", f.id) \/ (x = "client" /\ sess["client"] # "closed"
                                    /\ opening[f.id] = "done")
    PROVE  OpenInv'
<1> USE MadeSides
<1> DEFINE n == Len(net[x])
<1>0. /\ n \in Nat /\ DOMAIN net[x] = 1 .. n /\ DOMAIN net'[x] = 1 .. n + 1
      /\ \A k \in 1 .. n : net'[x][k] = net[x][k]
      /\ net'[x][n + 1] = f /\ net'[Peer(x)] = net[Peer(x)] /\ f.id \in Ids
      /\ \A y \in Sides : \A k \in DOMAIN net[y] : net[y][k].id \in Ids
  <2>1. net' \in [Sides -> Seq(Frame)] /\ net \in [Sides -> Seq(Frame)]
        /\ net'[x] \in Seq(Frame) /\ net[x] \in Seq(Frame)
    BY SendIs DEF Typed
  <2>2. \A y \in Sides : \A k \in DOMAIN net[y] : net[y][k].id \in Ids
    BY <2>1, FrameFields
  <2> QED BY <2>1, <2>2, SendIs, FrameFields
<1> HIDE DEF n
<1>1. CASE x = "server"
  <2>1. net'["client"] = net["client"]
    BY <1>0, <1>1
  <2>2. ASSUME NEW k \in DOMAIN net'["server"]
        PROVE  net'["server"][k].type # "open" /\ st'["server"][net'["server"][k].id].made
    <3>1. CASE k = n + 1
      BY <1>0, <1>1, <3>1 DEF SameOpened, Made
    <3>2. CASE k # n + 1
      <4>1. k \in DOMAIN net["server"] /\ net'["server"][k] = net["server"][k]
            /\ net["server"][k].id \in Ids
        BY <1>0, <1>1, <3>2
      <4> QED BY <4>1 DEF OpenInv, SameOpened, Made
    <3> QED BY <3>1, <3>2
  <2>3. ASSUME NEW k \in DOMAIN net["client"], NEW i \in Ids, IsFrame("client", k, "open", i)
        PROVE  /\ ~Made("server", i)' /\ opening'[i] = "done"
               /\ \A j \in DOMAIN net["client"] : IsFrame("client", j, "open", i) => j = k
    BY <2>3 DEF OpenInv, SameOpened
  <2>4. ASSUME NEW k \in DOMAIN net["client"], NEW i \in Ids, net["client"][k].id = i
        PROVE  \/ Made("server", i)'
               \/ \E j \in DOMAIN net["client"] :
                     j <= k /\ IsFrame("client", j, "open", i)
    BY <2>4 DEF OpenInv, SameOpened
  <2>5. ASSUME NEW i \in Ids, opening'[i] = "done", sess'["client"] # "closed"
        PROVE  \/ Made("server", i)'
               \/ \E j \in DOMAIN net["client"] : IsFrame("client", j, "open", i)
    BY <2>5 DEF OpenInv, SameOpened
  <2> QED BY <2>1, <2>2, <2>3, <2>4, <2>5 DEF OpenInv, IsFrame, Made
<1>2. CASE x = "client"
  <2>0. /\ \A k \in 1 .. n + 1 : net'["client"][k].type = "open" =>
              k \in 1 .. n /\ net'["client"][k] = net["client"][k]
        /\ DOMAIN net["client"] = 1 .. n /\ DOMAIN net'["client"] = 1 .. n + 1
        /\ \A k \in 1 .. n : net'["client"][k] = net["client"][k]
        /\ net'["client"][n + 1] = f
    BY <1>0, <1>2
  <2>1. ASSUME NEW k \in DOMAIN net'["server"]
        PROVE  net'["server"][k].type # "open" /\ st'["server"][net'["server"][k].id].made
    <3>1. k \in DOMAIN net["server"] /\ net'["server"] = net["server"]
          /\ net["server"][k].id \in Ids
      BY <1>0, <1>2
    <3> QED BY <3>1 DEF OpenInv, SameOpened, Made
  <2>2. ASSUME NEW k \in 1 .. n + 1, NEW i \in Ids,
               net'["client"][k].type = "open", net'["client"][k].id = i
        PROVE  /\ ~Made("server", i)' /\ opening'[i] = "done"
               /\ \A j \in 1 .. n + 1 :
                     net'["client"][j].type = "open" /\ net'["client"][j].id = i => j = k
    <3>1. k \in DOMAIN net["client"] /\ IsFrame("client", k, "open", i)
      BY <2>0, <2>2 DEF IsFrame
    <3>2. /\ ~Made("server", i) /\ opening[i] = "done"
          /\ \A j \in DOMAIN net["client"] : IsFrame("client", j, "open", i) => j = k
      BY <3>1 DEF OpenInv
    <3> QED BY <2>0, <3>2 DEF IsFrame, SameOpened
  <2>3. ASSUME NEW k \in 1 .. n + 1, NEW i \in Ids, net'["client"][k].id = i
        PROVE  \/ Made("server", i)'
               \/ \E j \in 1 .. n + 1 :
                     /\ j <= k
                     /\ net'["client"][j].type = "open" /\ net'["client"][j].id = i
    <3>1. CASE Made("server", i)
      BY <3>1 DEF SameOpened
    <3>2. CASE ~Made("server", i)
      <4>1. PICK j \in DOMAIN net["client"] : j <= k /\ IsFrame("client", j, "open", i)
        <5>1. CASE k \in 1 .. n
          BY <2>0, <2>3, <3>2, <5>1 DEF OpenInv
        <5>2. CASE k = n + 1
          <6>1. opening[i] = "done" /\ sess["client"] # "closed"
            BY <2>0, <2>3, <3>2, <5>2
          <6>2. PICK j \in DOMAIN net["client"] : IsFrame("client", j, "open", i)
            BY <3>2, <6>1 DEF OpenInv
          <6> QED BY <1>0, <2>0, <5>2, <6>2
        <5> QED BY <1>0, <5>1, <5>2
      <4> QED BY <1>0, <2>0, <4>1 DEF IsFrame
    <3> QED BY <3>1, <3>2
  <2>4. ASSUME NEW i \in Ids, opening'[i] = "done", sess'["client"] # "closed"
        PROVE  \/ Made("server", i)'
               \/ \E j \in 1 .. n + 1 :
                     net'["client"][j].type = "open" /\ net'["client"][j].id = i
    <3>1. \/ Made("server", i)
          \/ \E j \in DOMAIN net["client"] : IsFrame("client", j, "open", i)
      BY <2>4 DEF OpenInv, SameOpened
    <3>2. CASE Made("server", i)
      BY <3>2 DEF SameOpened
    <3>3. CASE \E j \in DOMAIN net["client"] : IsFrame("client", j, "open", i)
      <4>1. PICK j \in 1 .. n : IsFrame("client", j, "open", i)
        BY <2>0, <3>3
      <4>2. net'["client"][j].type = "open" /\ net'["client"][j].id = i
        BY <2>0, <4>1 DEF IsFrame
      <4>3. j \in 1 .. n + 1
        BY <1>0
      <4> QED BY <4>2, <4>3
    <3> QED BY <3>1, <3>2, <3>3
  <2> QED BY <2>0, <2>1, <2>2, <2>3, <2>4 DEF OpenInv, IsFrame, Made
<1> QED BY <1>1, <1>2

LEMMA OpenFrameSent ==
    ASSUME Typed, OpenInv, OpeningInv, NEW i \in Ids, OpenSend(i),
           \A j \in Ids : Made("server", j)' <=> Made("server", j),
           Send("client", Control("open", i))
    PROVE  OpenInv'
<1> USE MadeSides
<1> DEFINE n == Len(net["client"])
           f == Control("open", i)
<1>a. f \in Frame /\ f.type = "open" /\ f.id = i
  BY MadeFrames
<1> HIDE DEF f
<1>0. /\ n \in Nat /\ DOMAIN net["client"] = 1 .. n /\ DOMAIN net'["client"] = 1 .. n + 1
      /\ \A k \in 1 .. n : net'["client"][k] = net["client"][k]
      /\ net'["client"][n + 1] = f /\ net'["server"] = net["server"]
      /\ \A y \in Sides : \A k \in DOMAIN net[y] : net[y][k].id \in Ids
  <2>0. Send("client", f)
    BY DEF f
  <2>1. net' \in [Sides -> Seq(Frame)] /\ net \in [Sides -> Seq(Frame)]
        /\ net'["client"] \in Seq(Frame) /\ net["client"] \in Seq(Frame)
    BY <1>a, <2>0, SendIs DEF Typed
  <2>2. \A y \in Sides : \A k \in DOMAIN net[y] : net[y][k].id \in Ids
    BY <2>1, FrameFields
  <2> QED BY <1>a, <2>0, <2>1, <2>2, SendIs
<1> HIDE DEF n
<1>1. /\ opening[i] = "registered" /\ opening'[i] = "done" /\ sess' = sess
      /\ \A j \in Ids : j # i => opening'[j] = opening[j]
  BY DEF OpenSend, Typed, sessVars
<1>2. ~Made("server", i)
  BY <1>1 DEF OpeningInv, OpeningAt
<1>3. \A k \in 1 .. n : ~(net["client"][k].type = "open" /\ net["client"][k].id = i)
  BY <1>0, <1>1 DEF OpenInv, IsFrame
<1>4. ASSUME NEW k \in DOMAIN net'["server"]
      PROVE  net'["server"][k].type # "open" /\ st'["server"][net'["server"][k].id].made
  BY <1>0 DEF OpenInv, Made
<1>5. ASSUME NEW k \in 1 .. n + 1, NEW j \in Ids,
             net'["client"][k].type = "open", net'["client"][k].id = j
      PROVE  /\ ~Made("server", j)' /\ opening'[j] = "done"
             /\ \A m \in 1 .. n + 1 :
                   net'["client"][m].type = "open" /\ net'["client"][m].id = j => m = k
  <2>1. CASE j = i
    <3>1. \A m \in 1 .. n + 1 :
             net'["client"][m].type = "open" /\ net'["client"][m].id = j => m = n + 1
      BY <1>0, <1>3, <2>1
    <3> QED BY <1>1, <1>2, <1>5, <2>1, <3>1
  <2>2. CASE j # i
    <3>1. k \in 1 .. n /\ IsFrame("client", k, "open", j)
      BY <1>a, <1>0, <1>5, <2>2 DEF IsFrame
    <3>2. /\ ~Made("server", j) /\ opening[j] = "done"
          /\ \A m \in 1 .. n : IsFrame("client", m, "open", j) => m = k
      BY <1>0, <3>1 DEF OpenInv
    <3> QED BY <1>a, <1>0, <1>1, <2>2, <3>2 DEF IsFrame
  <2> QED BY <2>1, <2>2
<1>6. ASSUME NEW k \in 1 .. n + 1, NEW j \in Ids, net'["client"][k].id = j
      PROVE  \/ Made("server", j)'
             \/ \E m \in 1 .. n + 1 :
                   /\ m <= k
                   /\ net'["client"][m].type = "open" /\ net'["client"][m].id = j
  <2>1. CASE k = n + 1
    BY <1>a, <1>0, <1>6, <2>1
  <2>2. CASE k # n + 1
    <3>1. k \in 1 .. n /\ net["client"][k].id = j
      BY <1>0, <1>6, <2>2
    <3>2. Made("server", j) \/ \E m \in 1 .. n : m <= k /\ IsFrame("client", m, "open", j)
      BY <1>0, <3>1 DEF OpenInv
    <3> QED BY <1>0, <3>2 DEF IsFrame
  <2> QED BY <2>1, <2>2
<1>7. ASSUME NEW j \in Ids, opening'[j] = "done", sess'["client"] # "closed"
      PROVE  \/ Made("server", j)'
             \/ \E m \in 1 .. n + 1 :
                   net'["client"][m].type = "open" /\ net'["client"][m].id = j
  <2>1. CASE j = i
    BY <1>a, <1>0, <2>1
  <2>2. CASE j # i
    <3>1. Made("server", j) \/ \E m \in 1 .. n : IsFrame("client", m, "open", j)
      BY <1>0, <1>1, <1>7, <2>2 DEF OpenInv
    <3> QED BY <1>0, <3>1 DEF IsFrame
  <2> QED BY <2>1, <2>2
<1>8. DOMAIN net'["client"] = 1 .. n + 1
  BY <1>0
<1> QED BY <1>4, <1>5, <1>6, <1>7, <1>8 DEF OpenInv, IsFrame, Made

LEMMA OpenTailLost ==
    ASSUME Typed, OpenInv, NEW x \in Sides, LoseTail(x)
    PROVE  OpenInv'
<1> USE MadeSides
<1>0. UNCHANGED <<st, opening, sess>> /\ sess[x] = "closed"
  BY DEF LoseTail, sessVars
<1>1. \A y \in Sides : /\ DOMAIN net'[y] \subseteq DOMAIN net[y]
                       /\ DOMAIN net'[y] = 1 .. Len(net'[y]) /\ Len(net'[y]) \in Nat
                       /\ \A k \in DOMAIN net'[y] : net'[y][k] = net[y][k]
  <2>1. \A y \in Sides : net[y] \in Seq(Frame) /\ net'[y] \in Seq(Frame)
    BY LoseTailTyped DEF Typed
  <2>2. net'[Peer(x)] = net[Peer(x)] /\ Len(net'[x]) = Len(net[x]) - 1
        /\ \A k \in 1 .. Len(net[x]) - 1 : net'[x][k] = net[x][k]
    BY LoseTailTyped
  <2>3. /\ DOMAIN net'[x] = 1 .. Len(net[x]) - 1 /\ DOMAIN net[x] = 1 .. Len(net[x])
        /\ Len(net[x]) \in Nat
    BY <2>1, <2>2
  <2>4. ASSUME NEW y \in Sides
        PROVE  /\ DOMAIN net'[y] \subseteq DOMAIN net[y]
               /\ \A k \in DOMAIN net'[y] : net'[y][k] = net[y][k]
    <3>1. CASE y = x
      BY <2>2, <2>3, <3>1
    <3>2. CASE y = Peer(x)
      BY <2>2, <3>2
    <3> QED BY <3>1, <3>2
  <2> QED BY <2>1, <2>4
<1>2. x = "server" => net'["client"] = net["client"]
  BY LoseTailTyped
<1>3. ASSUME NEW k \in DOMAIN net'["server"]
      PROVE  net'["server"][k].type # "open" /\ st'["server"][net'["server"][k].id].made
  BY <1>0, <1>1 DEF OpenInv, Made
<1>4. ASSUME NEW k \in DOMAIN net'["client"], NEW i \in Ids,
             net'["client"][k].type = "open", net'["client"][k].id = i
      PROVE  /\ ~Made("server", i)' /\ opening'[i] = "done"
             /\ \A j \in DOMAIN net'["client"] :
                   net'["client"][j].type = "open" /\ net'["client"][j].id = i => j = k
  BY <1>0, <1>1, <1>4 DEF OpenInv, IsFrame, Made
<1>5. ASSUME NEW k \in DOMAIN net'["client"], NEW i \in Ids, net'["client"][k].id = i
      PROVE  \/ Made("server", i)'
             \/ \E j \in DOMAIN net'["client"] :
                   /\ j <= k
                   /\ net'["client"][j].type = "open" /\ net'["client"][j].id = i
  <2>1. \/ Made("server", i)
        \/ \E j \in DOMAIN net["client"] : j <= k /\ IsFrame("client", j, "open", i)
    BY <1>1, <1>5 DEF OpenInv
  <2>2. CASE Made("server", i)
    BY <1>0, <2>2 DEF Made
  <2>3. CASE \E j \in DOMAIN net["client"] : j <= k /\ IsFrame("client", j, "open", i)
    <3>1. PICK j \in DOMAIN net["client"] : j <= k /\ IsFrame("client", j, "open", i)
      BY <2>3
    <3>2. net["client"] \in Seq(Frame)
      BY DEF Typed
    <3>3. j \in DOMAIN net'["client"]
      BY <1>1, <3>1, <3>2
    <3> QED BY <1>1, <3>1, <3>3 DEF IsFrame
  <2> QED BY <2>1, <2>2, <2>3
<1>6. ASSUME NEW i \in Ids, opening'[i] = "done", sess'["client"] # "closed"
      PROVE  \/ Made("server", i)'
             \/ \E j \in DOMAIN net'["client"] :
                   net'["client"][j].type = "open" /\ net'["client"][j].id = i
  <2>1. x = "server"
    BY <1>0, <1>6
  <2> QED BY <1>0, <1>2, <1>6, <2>1 DEF OpenInv, IsFrame, Made
<1> QED BY <1>3, <1>4, <1>5, <1>6 DEF OpenInv, IsFrame, Made

(* The frame that leaves is the open frame of a stream that is now made,   *)
(* or none of the open frames.                                             *)
LEMMA OpenFrameRead ==
    ASSUME Typed, QueueAccounted, FreshInv, OpenInv, NEW x \in Sides, ReadFrame(x)
    PROVE  OpenInv'
<1> USE MadeSides
<1>0. PICK i \in Ids : i = Head(net[Peer(x)]).id
  BY FrameRead, FrameFields
<1> DEFINE y == Peer(x)
           n == Len(net[y])
<1>1. /\ y \in Sides /\ n \in Nat \ {0} /\ net'[x] = net[x]
      /\ DOMAIN net[y] = 1 .. n /\ DOMAIN net'[y] = 1 .. n - 1
      /\ \A k \in 1 .. n - 1 : net'[y][k] = net[y][k + 1]
      /\ net[y][1].id = i /\ Head(net[y]) = net[y][1]
      /\ UNCHANGED <<opening, sess>>
      /\ \A z \in Sides : \A k \in DOMAIN net[z] : net[z][k].id \in Ids
  <2>1. net' \in [Sides -> Seq(Frame)] /\ net \in [Sides -> Seq(Frame)]
    BY FrameRead DEF Typed
  <2>2. \A z \in Sides : \A k \in DOMAIN net[z] : net[z][k].id \in Ids
    BY <2>1, FrameFields
  <2>3. y \in Sides /\ net[y] \in Seq(Frame) /\ net'[y] \in Seq(Frame)
    BY <2>1, SidesPeer
  <2>4. /\ Len(net[y]) \in Nat \ {0} /\ net'[x] = net[x] /\ Len(net'[y]) = Len(net[y]) - 1
        /\ \A k \in 1 .. Len(net[y]) - 1 : net'[y][k] = net[y][k + 1]
        /\ Head(net[y]) = net[y][1] /\ UNCHANGED <<opening, sess>>
    BY FrameRead
  <2>5. DOMAIN net[y] = 1 .. n /\ DOMAIN net'[y] = 1 .. n - 1
    BY <2>3, <2>4
  <2> QED BY <1>0, <2>2, <2>3, <2>4, <2>5
<1> HIDE DEF n
<1>2. /\ \A j \in Ids : Made("server", j) => Made("server", j)'
      /\ \A j \in Ids : Made("server", j)' => Made("server", j) \/ (x = "server" /\ j = i
                           /\ net[y][1].type = "open")
      /\ net[y][1].type = "open" => Made("server", i)' /\ x = "server"
  <2>1. CASE net[y][1].type = "open"
    <3>1. Registers("server", i) /\ x = "server"
      BY <1>0, <1>1, <2>1, ReadOpenRegisters
    <3> QED BY <2>1, <3>1, NewStreams DEF Registers, Others, SameAt, Made
  <2>2. CASE net[y][1].type # "open"
    BY <1>0, <1>1, <2>2, ReadActs, ActsMade
  <2> QED BY <2>1, <2>2
<1>3. ASSUME NEW k \in DOMAIN net'["server"]
      PROVE  net'["server"][k].type # "open" /\ st'["server"][net'["server"][k].id].made
  <2>1. \E j \in DOMAIN net["server"] : net["server"][j] = net'["server"][k]
    <3>1. CASE x = "server"
      BY <1>1, <3>1
    <3>2. CASE x = "client"
      <4>1. k + 1 \in 1 .. n /\ net'["server"][k] = net["server"][k + 1]
        BY <1>1, <3>2
      <4> QED BY <1>1, <3>2, <4>1
    <3> QED BY <3>1, <3>2
  <2>2. PICK j \in DOMAIN net["server"] : net["server"][j] = net'["server"][k]
    BY <2>1
  <2> QED BY <1>1, <1>2, <2>2 DEF OpenInv, Made
<1>4. CASE x = "client"
  <2>1. net'["client"] = net["client"] /\ \A j \in Ids : Made("server", j)' <=> Made("server", j)
    BY <1>1, <1>2, <1>4
  <2>2. ASSUME NEW k \in DOMAIN net["client"], NEW j \in Ids, IsFrame("client", k, "open", j)
        PROVE  /\ ~Made("server", j)' /\ opening'[j] = "done"
               /\ \A m \in DOMAIN net["client"] : IsFrame("client", m, "open", j) => m = k
    BY <1>1, <2>1, <2>2 DEF OpenInv
  <2>3. ASSUME NEW k \in DOMAIN net["client"], NEW j \in Ids, net["client"][k].id = j
        PROVE  \/ Made("server", j)'
               \/ \E m \in DOMAIN net["client"] :
                     m <= k /\ IsFrame("client", m, "open", j)
    BY <2>1, <2>3 DEF OpenInv
  <2>4. ASSUME NEW j \in Ids, opening'[j] = "done", sess'["client"] # "closed"
        PROVE  \/ Made("server", j)'
               \/ \E m \in DOMAIN net["client"] : IsFrame("client", m, "open", j)
    BY <1>1, <2>1, <2>4 DEF OpenInv
  <2> QED BY <1>3, <2>1, <2>2, <2>3, <2>4 DEF OpenInv, IsFrame, Made
<1>5. CASE x = "server"
  <2>0. y = "client"
    BY <1>5
  <2>1. ASSUME NEW k \in 1 .. n, NEW j \in Ids, net["client"][k].type = "open",
               net["client"][k].id = j, ~Made("server", j)'
        PROVE  k # 1 /\ k - 1 \in 1 .. n - 1 /\ net'["client"][k - 1] = net["client"][k]
    <3>1. k # 1
      BY <1>1, <1>2, <2>0, <2>1
    <3>2. k - 1 \in 1 .. n - 1 /\ (k - 1) + 1 = k
      BY <1>1, <3>1
    <3> QED BY <1>1, <2>0, <3>1, <3>2
  <2>2. ASSUME NEW k \in 1 .. n - 1, NEW j \in Ids,
               net'["client"][k].type = "open", net'["client"][k].id = j
        PROVE  /\ ~Made("server", j)' /\ opening'[j] = "done"
               /\ \A m \in 1 .. n - 1 :
                     net'["client"][m].type = "open" /\ net'["client"][m].id = j => m = k
    <3>1. k + 1 \in 1 .. n /\ net["client"][k + 1] = net'["client"][k] /\ k \in Nat /\ k # 0
      BY <1>1, <2>0
    <3>2. /\ ~Made("server", j) /\ opening[j] = "done"
          /\ \A m \in 1 .. n : net["client"][m].type = "open" /\ net["client"][m].id = j =>
                m = k + 1
      <4>1. k + 1 \in DOMAIN net["client"] /\ DOMAIN net["client"] = 1 .. n
        BY <1>1, <2>0, <3>1
      <4>2. IsFrame("client", k + 1, "open", j)
        BY <2>2, <3>1 DEF IsFrame
      <4>3. /\ ~Made("server", j) /\ opening[j] = "done"
            /\ \A m \in DOMAIN net["client"] : IsFrame("client", m, "open", j) => m = k + 1
        BY <4>1, <4>2 DEF OpenInv
      <4> QED BY <4>1, <4>3 DEF IsFrame
    <3>3. ~(j = i /\ net["client"][1].type = "open")
      BY <1>1, <2>0, <3>1, <3>2
    <3>4. ASSUME NEW m \in 1 .. n - 1, net'["client"][m].type = "open",
                 net'["client"][m].id = j
          PROVE  m = k
      <4>1. m + 1 \in 1 .. n /\ net["client"][m + 1] = net'["client"][m] /\ m \in Nat
        BY <1>1, <2>0
      <4>2. m + 1 = k + 1
        BY <3>2, <3>4, <4>1
      <4> QED BY <3>1, <4>1, <4>2
    <3> QED BY <1>1, <1>2, <2>0, <3>2, <3>3, <3>4
  <2>3. ASSUME NEW k \in 1 .. n - 1, NEW j \in Ids, net'["client"][k].id = j
        PROVE  \/ Made("server", j)'
               \/ \E m \in 1 .. n - 1 :
                     /\ m <= k
                     /\ net'["client"][m].type = "open" /\ net'["client"][m].id = j
    <3>1. CASE Made("server", j)'
      BY <3>1
    <3>2. CASE ~Made("server", j)'
      <4>1. k + 1 \in 1 .. n /\ net["client"][k + 1] = net'["client"][k]
            /\ ~Made("server", j)
        BY <1>1, <1>2, <2>0, <3>2
      <4>2. PICK m \in 1 .. n : m <= k + 1 /\ IsFrame("client", m, "open", j)
        BY <1>1, <2>0, <2>3, <4>1 DEF OpenInv
      <4>3. m - 1 \in 1 .. n - 1 /\ net'["client"][m - 1] = net["client"][m]
        BY <2>1, <3>2, <4>2 DEF IsFrame
      <4>4. m - 1 <= k
        BY <1>1, <4>2
      <4> QED BY <4>2, <4>3, <4>4 DEF IsFrame
    <3> QED BY <3>1, <3>2
  <2>4. ASSUME NEW j \in Ids, opening'[j] = "done", sess'["client"] # "closed"
        PROVE  \/ Made("server", j)'
               \/ \E m \in 1 .. n - 1 :
                     net'["client"][m].type = "open" /\ net'["client"][m].id = j
    <3>1. CASE Made("server", j)'
      BY <3>1
    <3>2. CASE ~Made("server", j)'
      <4>1. PICK m \in 1 .. n : IsFrame("client", m, "open", j)
        BY <1>1, <1>2, <2>0, <2>4, <3>2 DEF OpenInv
      <4>2. m - 1 \in 1 .. n - 1 /\ net'["client"][m - 1] = net["client"][m]
        BY <2>1, <3>2, <4>1 DEF IsFrame
      <4> QED BY <4>1, <4>2 DEF IsFrame
    <3> QED BY <3>1, <3>2
  <2>5. DOMAIN net'["client"] = 1 .. n - 1
    BY <1>1, <2>0
  <2> QED BY <1>3, <2>2, <2>3, <2>4, <2>5 DEF OpenInv, IsFrame, Made
<1> QED BY <1>4, <1>5

LEMMA BusyKept ==
    ASSUME BusyInv, NEW x \in Sides, NEW i \in Ids, Others(x, i),
           i \in handed[x] => i \in handed'[x],
           writer'[x][i] # NoWriter => writer[x][i] # NoWriter \/ i \in handed[x]
    PROVE  BusyInv'
<1>1. ASSUME NEW y \in Sides, NEW j \in Ids, writer'[y][j] # NoWriter
      PROVE  j \in handed'[y]
  <2>1. CASE y = x /\ j = i
    BY <1>1, <2>1 DEF BusyInv
  <2>2. CASE ~(y = x /\ j = i)
    BY <1>1, <2>2 DEF BusyInv, Others, SameAt
  <2> QED BY <2>1, <2>2
<1> QED BY <1>1 DEF BusyInv, NoWriter

LEMMA BusyNext ==
    ASSUME Typed, QueueAccounted, BusyInv, FreshInv, OpeningInv, OpenInv, [Next]_vars
    PROVE  BusyInv'
<1>0. NoWriter.op = "none"
  BY DEF NoWriter
<1>1. CASE UNCHANGED <<handed, writer>>
  BY <1>1 DEF BusyInv, NoWriter
<1>2. ASSUME NEW x \in Sides, ReadFrame(x) PROVE UNCHANGED <<handed, writer>>
  BY <1>2, FrameRead
<1>3. CASE \/ \E x \in Sides : TakeStreams(x) \/ CloserStep(x) \/ LoseTail(x)
           \/ \E x \in Sides, i \in Ids : SendReset(x, i)
           \/ OpenStream \/ UNCHANGED vars
           \/ \E i \in Ids : OpenRegister(i) \/ QueueAccept(i)
  <2>1. UNCHANGED <<handed, writer>>
    BY <1>3 DEF TakeStreams, CloserStep, CloseTaken, FinishClose, LoseTail, SendReset,
       OpenStream, OpenRegister, QueueAccept, vars
  <2> QED BY <1>1, <2>1
<1>4. ASSUME NEW x \in Sides, NEW i \in Ids, AppStep(x, i) PROVE BusyInv'
  <2>1. i \in handed[x] /\ UNCHANGED handed
    BY <1>4 DEF AppStep, ReadData, ReadEOF, Write, Close, CloseWrite, CloseRead, LockWrite
  <2>2. Others(x, i)
    BY <1>4, AppActs DEF Acts
  <2> QED BY <2>1, <2>2, BusyKept
<1>5. ASSUME NEW x \in Sides, NEW i \in Ids, WriterStep(x, i) PROVE BusyInv'
  <2>1. writer[x][i] # NoWriter /\ UNCHANGED handed
    BY <1>0, <1>5 DEF WriterStep, WriteChunk, SendClose, Forget
  <2>2. Others(x, i)
    BY <1>5, SendersAct DEF Acts
  <2> QED BY <2>1, <2>2, BusyKept
<1>6. ASSUME NEW i \in Ids, OpenSend(i) PROVE BusyInv'
  <2>1. Others("client", i)
    BY <1>6, OpenSendTyped
  <2>2. UNCHANGED writer /\ handed["client"] \subseteq handed'["client"]
    BY <1>6, MadeSides DEF OpenSend, Typed
  <2> QED BY <2>1, <2>2, BusyKept, MadeSides
<1>7. CASE AcceptStream
  <2>1. PICK i \in Ids : i = Head(acceptCh) /\ Others("server", i)
    BY <1>7, AcceptStreamTyped
  <2>2. UNCHANGED writer /\ handed["server"] \subseteq handed'["server"]
    BY <1>7, MadeSides DEF AcceptStream, Typed
  <2> QED BY <2>1, <2>2, BusyKept, MadeSides
<1> QED BY <1>1, <1>2, <1>3, <1>4, <1>5, <1>6, <1>7 DEF Next

LEMMA OpenNext ==
    ASSUME Typed, QueueAccounted, BusyInv, FreshInv, OpeningInv, OpenInv, [Next]_vars
    PROVE  OpenInv'
<1> USE MadeSides
<1>0. \A i \in Ids : OpeningAt(i)
  BY DEF OpeningInv
<1>1. CASE (\E x \in Sides : TakeStreams(x) \/ FinishClose(x)) \/ UNCHANGED vars
  <2>1. UNCHANGED <<st, opening, net>>
        /\ (sess["client"] = "closed" => sess'["client"] = "closed")
    BY <1>1 DEF TakeStreams, FinishClose, vars, Typed
  <2>2. SameOpened
    BY <2>1 DEF SameOpened, Made
  <2> QED BY <2>1, <2>2, OpenKept
<1>2. ASSUME NEW x \in Sides, NEW i \in Ids, CloseTaken(x, i) \/ AppStep(x, i)
      PROVE  OpenInv'
  <2>1. UNCHANGED <<sess, opening, net>>
    BY <1>2 DEF CloseTaken, AppStep, ReadData, ReadEOF, Write, Close, CloseWrite,
       CloseRead, sessVars
  <2>2. \A y \in Sides, j \in Ids : Made(y, j)' <=> Made(y, j)
    BY <1>2, SendersAct, AppActs, ActsMade
  <2> QED BY <2>1, <2>2, OpenKept DEF SameOpened
<1>3. ASSUME NEW x \in Sides, NEW i \in Ids, WriterStep(x, i) \/ SendReset(x, i)
      PROVE  OpenInv'
  <2>1. UNCHANGED <<sess, opening>>
    BY <1>3 DEF WriterStep, WriteChunk, SendClose, Forget, SendReset, sessVars
  <2>2. \A y \in Sides, j \in Ids : Made(y, j)' <=> Made(y, j)
    BY <1>3, SendersAct, ActsMade
  <2>3. SameOpened
    BY <2>1, <2>2 DEF SameOpened
  <2>4. CASE UNCHANGED net
    BY <2>3, <2>4, OpenKept
  <2>5. CASE \E f \in Frame : f.type # "open" /\ f.id = i /\ CanSend(x) /\ Send(x, f)
    <3>1. PICK f \in Frame : f.type # "open" /\ f.id = i /\ CanSend(x) /\ Send(x, f)
      BY <2>5
    <3>2. sess[x] # "closed"
      BY <3>1 DEF CanSend, IsClosed
    <3>3. Made("server", i) \/ (x = "client" /\ opening[i] = "done")
      <4>1. CASE x = "server"
        BY <1>3, <4>1, SendersAct DEF Acts
      <4>2. CASE x = "client" /\ WriterStep(x, i)
        <5>1. writer["client"][i] # NoWriter
          BY <4>2 DEF WriterStep, WriteChunk, SendClose, Forget, NoWriter
        <5> QED BY <1>0, <4>2, <5>1 DEF BusyInv, OpeningAt
      <4>3. CASE x = "client" /\ SendReset(x, i)
        BY <1>0, <4>3 DEF SendReset, OpeningAt
      <4> QED BY <1>3, <4>1, <4>2, <4>3
    <3> QED BY <2>3, <3>1, <3>2, <3>3, OpenSent
  <2>6. UNCHANGED net \/ \E f \in Frame : f.type # "open" /\ f.id = i /\ CanSend(x) /\ Send(x, f)
    <3>1. CASE WriteChunk(x, i)
      <4> DEFINE f == [type |-> "data", id |-> i, chunk |-> sent[x][i] + 1]
      <4>1. sent[x][i] + 1 \in Chunks \/ UNCHANGED net
        BY <3>1, WriteChunkTyped
      <4>2. f.type # "open" /\ f.id = i
        OBVIOUS
      <4>3. UNCHANGED net \/ (CanSend(x) /\ Send(x, f))
        BY <3>1 DEF WriteChunk
      <4>4. f \in Frame \/ UNCHANGED net
        BY <4>1, MadeFrames
      <4> HIDE DEF f
      <4> QED BY <4>2, <4>3, <4>4
    <3>2. CASE SendClose(x, i) \/ Forget(x, i)
      BY <3>2, MadeFrames DEF SendClose, Forget
    <3>3. CASE SendReset(x, i)
      <4>1. CASE resets[x][i] = 2
        BY <3>3, <4>1, MadeFrames DEF SendReset
      <4>2. CASE resets[x][i] # 2
        BY <3>3, <4>2, MadeFrames DEF SendReset
      <4> QED BY <4>1, <4>2
    <3> QED BY <1>3, <3>1, <3>2, <3>3 DEF WriterStep
  <2> QED BY <2>4, <2>5, <2>6
<1>4. CASE OpenStream \/ \E i \in Ids : OpenRegister(i)
  <2>1. UNCHANGED <<sess, net>>
    BY <1>4 DEF OpenStream, OpenRegister, sessVars
  <2>2. \A j \in Ids : opening[j] = "done" <=> opening'[j] = "done"
    <3>1. CASE OpenStream
      <4>1. /\ nextID + 1 > nextID /\ nextID + 1 \in Ids
            /\ opening'[nextID + 1] = "checked"
            /\ \A j \in Ids : j # nextID + 1 => opening'[j] = opening[j]
        BY <3>1, MuxAssumption DEF OpenStream, nextStreamID, Typed, Ids
      <4>2. opening[nextID + 1] = "none"
        BY <1>0, <4>1 DEF OpeningAt
      <4> QED BY <4>1, <4>2
    <3>2. CASE \E i \in Ids : OpenRegister(i)
      BY <3>2 DEF OpenRegister, Typed
    <3> QED BY <1>4, <3>1, <3>2
  <2>3. \A j \in Ids : Made("server", j)' <=> Made("server", j)
    BY <1>4, OpenRegisterRegisters DEF OpenStream, Registers, Others, SameAt, Made
  <2> QED BY <2>1, <2>2, <2>3, OpenKept DEF SameOpened
<1>5. ASSUME NEW i \in Ids, OpenSend(i) PROVE OpenInv'
  <2>1. \A y \in Sides, j \in Ids : Made(y, j)' <=> Made(y, j)
    BY <1>5, OpenersAct, ActsMade
  <2>2. CASE Send("client", Control("open", i))
    BY <1>5, <2>1, <2>2, OpenFrameSent
  <2>3. CASE SendFails("client") /\ UNCHANGED net
    <3>1. /\ sess' = sess /\ sess["client"] = "closed"
          /\ \A j \in Ids : opening[j] = "done" => opening'[j] = "done"
      BY <1>5, <2>3 DEF OpenSend, sessVars, Typed, SendFails, IsClosed
    <3> QED BY <2>1, <2>3, <3>1, OpenKept DEF SameOpened
  <2> QED BY <1>5, <2>2, <2>3 DEF OpenSend
<1>6. CASE AcceptStream \/ \E i \in Ids : QueueAccept(i)
  <2>1. UNCHANGED <<sess, opening, net>>
    BY <1>6 DEF AcceptStream, QueueAccept, sessVars
  <2>2. \A y \in Sides, j \in Ids : Made(y, j)' <=> Made(y, j)
    <3>1. CASE \E i \in Ids : QueueAccept(i)
      BY <3>1, OpenersAct, ActsMade
    <3>2. CASE AcceptStream
      BY <3>2 DEF AcceptStream, Made
    <3> QED BY <1>6, <3>1, <3>2
  <2> QED BY <2>1, <2>2, OpenKept DEF SameOpened
<1>7. ASSUME NEW x \in Sides, LoseTail(x) \/ ReadFrame(x) PROVE OpenInv'
  BY <1>7, OpenTailLost, OpenFrameRead
<1> QED BY <1>1, <1>2, <1>3, <1>4, <1>5, <1>6, <1>7 DEF Next, CloserStep

-----------------------------------------------------------------------------
(* The map of a session holds the streams that are not finished.           *)

LEMMA MapOne ==
    ASSUME MapInv, NEW x \in Sides, NEW i \in Ids, Others(x, i), UNCHANGED sess,
           MapAt(x, i)'
    PROVE  MapInv'
<1>1. ASSUME NEW y \in Sides, NEW j \in Ids PROVE MapAt(y, j)'
  <2>1. CASE y = x /\ j = i
    BY <2>1
  <2>2. CASE ~(y = x /\ j = i)
    <3>1. MapAt(y, j) /\ SameAt(y, j)
      BY <2>2 DEF MapInv, Others
    <3> QED BY <3>1 DEF MapAt, SameAt, Made, Finished, Forgets
  <2> QED BY <2>1, <2>2
<1> QED BY <1>1 DEF MapInv

LEMMA MapIdle ==
    ASSUME MapInv, UNCHANGED <<sess, taken, streams, st, writer>>
    PROVE  MapInv'
<1>1. ASSUME NEW y \in Sides, NEW j \in Ids PROVE MapAt(y, j)'
  BY DEF MapInv, MapAt, Made, Finished, Forgets
<1> QED BY <1>1 DEF MapInv

LEMMA MapSession ==
    ASSUME Typed, MapInv, NEW x \in Sides, TakeStreams(x) \/ FinishClose(x)
    PROVE  MapInv'
<1>1. CASE TakeStreams(x)
  <2>0. UNCHANGED <<st, writer>>
    BY <1>1 DEF TakeStreams
  <2>1. /\ sess[x] = "open" /\ sess'[x] = "closing" /\ taken'[x] = streams[x]
        /\ streams'[x] = {}
        /\ \A y \in Sides : y # x => sess'[y] = sess[y] /\ taken'[y] = taken[y]
                                     /\ streams'[y] = streams[y]
    BY <1>1 DEF TakeStreams, Typed
  <2>2. ASSUME NEW y \in Sides, NEW j \in Ids PROVE MapAt(y, j)'
    <3>1. MapAt(y, j)
      BY DEF MapInv
    <3> QED BY <2>0, <2>1, <3>1 DEF MapAt, Made, Finished, Forgets
  <2> QED BY <2>2 DEF MapInv
<1>2. CASE FinishClose(x)
  <2>1. UNCHANGED <<taken, streams, st, writer>> /\ taken[x] = {}
        /\ \A y \in Sides : y # x => sess'[y] = sess[y]
    BY <1>2 DEF FinishClose, Typed
  <2>2. ASSUME NEW y \in Sides, NEW j \in Ids PROVE MapAt(y, j)'
    <3>1. MapAt(y, j)
      BY DEF MapInv
    <3> QED BY <2>1, <3>1 DEF MapAt, Made, Finished, Forgets
  <2> QED BY <2>2 DEF MapInv
<1> QED BY <1>1, <1>2

(* closeNoSend is followed by the removal of the stream, or preceded by it.*)
LEMMA MapClosed ==
    ASSUME Typed, MapInv, NEW x \in Sides, NEW i \in Ids, Others(x, i), UNCHANGED sess,
           NEW e \in Errors, st'[x][i] = closeNoSend(st[x][i], e), i \notin streams'[x],
           i \in taken'[x] => i \in taken[x], UNCHANGED writer
    PROVE  MapInv'
<1>1. st'[x][i].closed
  BY StAt, CloseNoSendIs, ErrorsAt
<1>2. MapAt(x, i)
  BY DEF MapInv
<1>3. MapAt(x, i)'
  BY <1>1, <1>2 DEF MapAt, Finished
<1> QED BY <1>3, MapOne

LEMMA MapCloseTaken ==
    ASSUME Typed, MapInv, NEW x \in Sides, NEW i \in Ids, CloseTaken(x, i)
    PROVE  MapInv'
<1>1. i \notin streams[x]
  BY DEF MapInv, MapAt, CloseTaken
<1>2. i \notin streams'[x] /\ i \notin taken'[x] /\ UNCHANGED <<sess, writer>>
  BY <1>1 DEF CloseTaken, Typed
<1> QED BY <1>2, CloseTakenTyped, MapClosed, ErrorsAt

LEMMA MapOpen ==
    ASSUME Typed, MapInv, NEW i \in Ids, OpenSend(i) \/ QueueAccept(i)
    PROVE  MapInv'
<1> USE MadeSides
<1>1. CASE UNCHANGED <<streams, st>>
  <2>1. UNCHANGED <<sess, closeErr, taken, writer>>
    BY DEF OpenSend, QueueAccept, sessVars
  <2> QED BY <1>1, <2>1, MapIdle
<1>2. ASSUME NEW x \in Sides, NEW e \in Errors, Others(x, i), removeStream(x, i),
             st' = [st EXCEPT ![x][i] = closeNoSend(st[x][i], e)]
      PROVE  MapInv'
  <2>1. UNCHANGED <<sess, closeErr, taken, writer>>
    BY DEF OpenSend, QueueAccept, sessVars
  <2>2. i \notin streams'[x] /\ st'[x][i] = closeNoSend(st[x][i], e)
    BY <1>2 DEF removeStream, Typed
  <2> QED BY <1>2, <2>1, <2>2, MapClosed
<1>3. CASE OpenSend(i)
  BY <1>1, <1>2, <1>3, OpenSendTyped, ErrorsAt DEF OpenSend
<1>4. CASE QueueAccept(i)
  BY <1>1, <1>2, <1>4, QueueAcceptTyped, ErrorsAt DEF QueueAccept
<1> QED BY <1>3, <1>4

LEMMA MapRegister ==
    ASSUME Typed, MapInv, NEW x \in Sides, NEW i \in Ids, Registers(x, i)
    PROVE  MapInv'
<1>1. /\ Others(x, i) /\ st'[x][i] = newStream /\ i \in streams'[x]
      /\ UNCHANGED <<sess, closeErr, taken, writer>> /\ i \notin taken[x] /\ writer[x][i] = NoWriter
  BY DEF Registers, Untouched
<1>2. NoWriter.op = "none"
  BY DEF NoWriter
<1>3. ~Finished(st'[x][i])
  BY <1>1, NewStreams DEF Finished
<1>4. MapAt(x, i)'
  BY <1>1, <1>2, <1>3 DEF MapAt, Forgets
<1> QED BY <1>1, <1>4, MapOne

LEMMA MapRead ==
    ASSUME Typed, FreshInv, OpenInv, MapInv, NEW x \in Sides, ReadFrame(x)
    PROVE  MapInv'
<1>0. PICK i \in Ids : i = Head(net[Peer(x)]).id
  BY FrameRead, FrameFields
<1>f. UNCHANGED <<sess, closeErr, taken, writer>>
  BY FrameRead
<1>s. st[x][i] \in StreamType
  BY StAt
<1>m. MapAt(x, i)
  BY DEF MapInv
<1>1. CASE Head(net[Peer(x)]).type = "open"
  BY <1>0, <1>1, ReadOpenRegisters, MapRegister
<1>2. CASE Head(net[Peer(x)]).type = "data"
  <2>0. PICK c \in Chunks : c = Head(net[Peer(x)]).chunk
    BY <1>2, FrameRead, FrameFields
  <2>1. HandleData(x, i, c) /\ Others(x, i)
    BY <1>0, <1>2, <2>0, ReadDataFrameTyped
  <2>2. CASE UNCHANGED <<streams, st>>
    BY <1>f, <2>2, MapIdle
  <2>3. CASE st' = [st EXCEPT ![x][i] = enqueue(st[x][i], c)] /\ UNCHANGED streams
    <3>1. st'[x][i] = enqueue(st[x][i], c)
      BY <2>3 DEF Typed
    <3>2. /\ st'[x][i].made = st[x][i].made /\ st'[x][i].closed = st[x][i].closed
          /\ st'[x][i].lrc = st[x][i].lrc /\ st'[x][i].lwc = st[x][i].lwc
          /\ st'[x][i].rwc = st[x][i].rwc
      BY <1>s, <3>1, EnqueueIs
    <3>3. MapAt(x, i)'
      BY <1>f, <1>m, <2>3, <3>2 DEF MapAt, Made, Finished
    <3> QED BY <1>f, <2>1, <3>3, MapOne
  <2>4. CASE st' = [st EXCEPT ![x][i] = closeNoSend(st[x][i], "other")] /\ removeStream(x, i)
    <3>1. st'[x][i] = closeNoSend(st[x][i], "other") /\ i \notin streams'[x]
      BY <2>4 DEF Typed, removeStream
    <3> QED BY <1>f, <2>1, <3>1, MapClosed, ErrorsAt
  <2> QED BY <2>1, <2>2, <2>3, <2>4 DEF HandleData
<1>3. CASE Head(net[Peer(x)]).type = "close"
  <2>1. HandleClose(x, i) /\ Others(x, i)
    BY <1>0, <1>3, ReadCloseTyped
  <2>2. CASE i \notin streams[x] \/ st[x][i].closed
    <3>1. UNCHANGED streams
      BY <2>1, <2>2 DEF HandleClose, getStream
    <3>2. st'[x][i] = st[x][i]
      BY <2>1, <2>2, <1>s, CloseRemoteIs DEF HandleClose, getStream, Typed
    <3>3. MapAt(x, i)'
      BY <1>f, <1>m, <3>1, <3>2 DEF MapAt, Made
    <3> QED BY <1>f, <2>1, <3>3, MapOne
  <2>3. CASE i \in streams[x] /\ ~st[x][i].closed
    <3>1. st'[x][i] = closeRemoteWrite(st[x][i])
      BY <2>1, <2>3 DEF HandleClose, getStream, Typed
    <3>2. /\ st'[x][i].made = st[x][i].made /\ ~st'[x][i].closed
          /\ st'[x][i].lrc = st[x][i].lrc /\ st'[x][i].lwc = st[x][i].lwc
          /\ st'[x][i].rwc
      BY <1>s, <2>3, <3>1, CloseRemoteIs
    <3>3. i \in streams'[x] <=> ~st[x][i].lwc
      BY <2>1, <2>3 DEF HandleClose, getStream, removeStream, Typed
    <3>4. MapAt(x, i)'
      BY <1>f, <1>m, <2>3, <3>2, <3>3 DEF MapAt, Made, Finished
    <3> QED BY <1>f, <2>1, <3>4, MapOne
  <2> QED BY <2>2, <2>3
<1>4. CASE Head(net[Peer(x)]).type = "reset"
  <2>1. /\ Others(x, i) /\ i \notin streams'[x]
        /\ st'[x][i] = IF i \in streams[x] THEN closeNoSend(st[x][i], "other") ELSE st[x][i]
    BY <1>0, <1>4, ReadResetTyped
  <2>2. CASE i \in streams[x]
    BY <1>f, <2>1, <2>2, MapClosed, ErrorsAt
  <2>3. CASE i \notin streams[x]
    <3>1. MapAt(x, i)'
      BY <1>f, <1>m, <2>1, <2>3 DEF MapAt, Made
    <3> QED BY <1>f, <2>1, <3>1, MapOne
  <2> QED BY <2>2, <2>3
<1> QED BY <1>1, <1>2, <1>3, <1>4, FrameRead, FrameFields

LEMMA MapApp ==
    ASSUME Typed, QueueAccounted, FreshInv, MapInv, NEW x \in Sides, NEW i \in Ids,
           AppStep(x, i)
    PROVE  MapInv'
<1>0. Others(x, i) /\ UNCHANGED <<sess, taken>> /\ st[x][i] \in StreamType
  BY AppActs, StAt DEF Acts, AppStep, ReadData, ReadEOF, Write, Close, CloseWrite,
     CloseRead, sessVars
<1>m. MapAt(x, i)
  BY DEF MapInv
<1>n. NoWriter.op = "none"
  BY DEF NoWriter
<1>1. CASE ReadData(x, i)
  <2>1. UNCHANGED <<streams, writer>> /\ st[x][i].buf # <<>>
        /\ st'[x][i] = dequeue(st[x][i]) /\ st[x][i].queued > 0
    BY <1>1, ReadDataTyped DEF ReadData
  <2>2. /\ st'[x][i].made = st[x][i].made /\ st'[x][i].closed = st[x][i].closed
        /\ st'[x][i].lrc = st[x][i].lrc /\ st'[x][i].lwc = st[x][i].lwc
        /\ st'[x][i].rwc = st[x][i].rwc
    BY <1>0, <2>1, DequeueIs
  <2>3. MapAt(x, i)'
    BY <1>0, <1>m, <2>1, <2>2 DEF MapAt, Made, Finished
  <2> QED BY <1>0, <2>3, MapOne
<1>2. CASE ReadEOF(x, i)
  BY <1>0, <1>2, MapIdle DEF ReadEOF
<1>3. CASE \E n \in Chunks : Write(x, i, n)
  <2>1. PICK n \in Chunks : Write(x, i, n)
    BY <1>3
  <2>2. writer'[x][i].op = "write" /\ UNCHANGED <<streams, st>>
        /\ writer[x][i] = NoWriter /\ ~Finished(st[x][i])
    <3>1. writer'[x][i] = [op |-> "write", left |-> n]
      BY <2>1, WriteTyped
    <3> QED BY <2>1, <3>1 DEF Write, LockWrite, Finished
  <2>3. MapAt(x, i)'
    BY <1>0, <1>m, <2>2 DEF MapAt, Made, Forgets
  <2> QED BY <1>0, <2>3, MapOne
<1>4. CASE Close(x, i)
  <2>1. st'[x][i].closed /\ writer'[x][i].op \in {"close", "forget"} /\ UNCHANGED streams
    BY <1>4, CloseFields, CloseTyped DEF Close
  <2>2. MapAt(x, i)'
    BY <1>0, <1>m, <2>1 DEF MapAt, Finished, Forgets
  <2> QED BY <1>0, <2>2, MapOne
<1>5. CASE CloseWrite(x, i)
  <2>1. UNCHANGED streams /\ ~st[x][i].closed /\ ~st[x][i].lwc
    BY <1>5 DEF CloseWrite
  <2>2. /\ st'[x][i].made = st[x][i].made /\ st'[x][i].closed = st[x][i].closed
        /\ st'[x][i].lrc = st[x][i].lrc /\ st'[x][i].rwc = st[x][i].rwc /\ st'[x][i].lwc
    BY <1>5, CloseWriteFields
  <2>3. writer'[x][i] = [op |-> "closeWrite", remove |-> st[x][i].rwc \/ st[x][i].lrc]
    BY <1>5, CloseWriteTyped
  <2>4. Forgets(writer'[x][i]) <=> st[x][i].rwc \/ st[x][i].lrc
    BY <1>0, <2>3 DEF Forgets, StreamType
  <2>5. Finished(st'[x][i]) <=> st[x][i].rwc \/ st[x][i].lrc
    BY <2>1, <2>2 DEF Finished
  <2>6. ~Finished(st[x][i])
    BY <2>1 DEF Finished
  <2>7. MapAt(x, i)'
    BY <1>0, <1>m, <2>1, <2>2, <2>4, <2>5, <2>6 DEF MapAt, Made
  <2> QED BY <1>0, <2>7, MapOne
<1>6. CASE CloseRead(x, i)
  <2>1. UNCHANGED writer /\ ~st[x][i].closed /\ ~st[x][i].lrc
        /\ streams'[x] = IF st[x][i].lwc THEN streams[x] \ {i} ELSE streams[x]
    BY <1>6, CloseReadTyped DEF CloseRead
  <2>2. /\ st'[x][i].made = st[x][i].made /\ st'[x][i].closed = st[x][i].closed
        /\ st'[x][i].lwc = st[x][i].lwc /\ st'[x][i].rwc = st[x][i].rwc /\ st'[x][i].lrc
    BY <1>6, CloseReadFields
  <2>3. Finished(st'[x][i]) <=> st[x][i].lwc
    BY <2>1, <2>2 DEF Finished
  <2>4. Finished(st[x][i]) => st[x][i].lwc
    BY <2>1 DEF Finished
  <2>5. MapAt(x, i)'
    BY <1>0, <1>m, <2>1, <2>2, <2>3, <2>4 DEF MapAt, Made
  <2> QED BY <1>0, <2>5, MapOne
<1> QED BY <1>1, <1>2, <1>3, <1>4, <1>5, <1>6 DEF AppStep

LEMMA MapWriter ==
    ASSUME Typed, FreshInv, MapInv, NEW x \in Sides, NEW i \in Ids, WriterStep(x, i)
    PROVE  MapInv'
<1>0. Others(x, i) /\ UNCHANGED <<sess, closeErr, taken, st>>
  BY SendersAct DEF Acts, WriterStep, WriteChunk, SendClose, Forget, sessVars
<1>m. MapAt(x, i)
  BY DEF MapInv
<1>n. NoWriter.op = "none"
  BY DEF NoWriter
<1>1. CASE WriteChunk(x, i)
  <2>1. writer[x][i].op = "write" /\ writer'[x][i].op \in {"none", "write"}
        /\ UNCHANGED streams
    BY <1>1, WriteChunkTyped DEF WriteChunk
  <2>2. MapAt(x, i)'
    BY <1>0, <1>m, <2>1 DEF MapAt, Made, Forgets
  <2> QED BY <1>0, <2>2, MapOne
<1>2. CASE SendClose(x, i)
  <2>1. writer'[x][i] = IF Forgets(writer[x][i]) THEN [op |-> "forget"] ELSE NoWriter
    BY <1>2, SendCloseTyped
  <2>2. Forgets(writer'[x][i]) <=> Forgets(writer[x][i])
    BY <1>n, <2>1 DEF Forgets
  <2>3. UNCHANGED streams
    BY <1>2 DEF SendClose
  <2>4. MapAt(x, i)'
    BY <1>0, <1>m, <2>2, <2>3 DEF MapAt, Made
  <2> QED BY <1>0, <2>4, MapOne
<1>3. CASE Forget(x, i)
  <2>0. writer[x][i].op = "forget"
    BY <1>3 DEF Forget
  <2>1. writer[x][i].op = "forget" /\ writer'[x][i] = NoWriter /\ i \notin streams'[x]
    BY <1>3, <2>0, ForgetTyped
  <2>2. MapAt(x, i)'
    BY <1>0, <1>m, <1>n, <2>1 DEF MapAt, Made, Forgets
  <2> QED BY <1>0, <2>2, MapOne
<1> QED BY <1>1, <1>2, <1>3 DEF WriterStep

LEMMA MapNext ==
    ASSUME Typed, QueueAccounted, FreshInv, OpeningInv, OpenInv, MapInv, [Next]_vars
    PROVE  MapInv'
<1>1. CASE \/ \E x \in Sides : LoseTail(x)
           \/ \E x \in Sides, i \in Ids : SendReset(x, i)
           \/ OpenStream \/ AcceptStream \/ UNCHANGED vars
  <2>1. UNCHANGED <<sess, closeErr, taken, streams, st, writer>>
    BY <1>1 DEF LoseTail, SendReset, OpenStream, AcceptStream, vars, sessVars
  <2> QED BY <2>1, MapIdle
<1>2. ASSUME NEW i \in Ids, OpenRegister(i) PROVE MapInv'
  BY <1>2, OpenRegisterRegisters, MapRegister, MadeSides
<1> QED BY <1>1, <1>2, MapSession, MapCloseTaken, MapOpen, MapRead, MapApp, MapWriter
        DEF Next, CloserStep

-----------------------------------------------------------------------------
(* Frames of a stream on their way.                                        *)

LEMMA AppendPlaces ==
    ASSUME NEW q \in Seq(Frame), NEW f \in Frame, NEW p, p = Append(q, f)
    PROVE  /\ p \in Seq(Frame) /\ Len(q) \in Nat /\ Len(p) = Len(q) + 1
           /\ DOMAIN q = 1 .. Len(q) /\ DOMAIN p = 1 .. Len(q) + 1
           /\ \A k \in DOMAIN q : k \in DOMAIN p /\ p[k] = q[k] /\ k < Len(p)
           /\ \A k \in DOMAIN p : k \in DOMAIN q \/ k = Len(p)
           /\ p[Len(p)] = f /\ Len(p) \in DOMAIN p
OBVIOUS

(* What is ahead of a place stays there when a frame is appended.          *)
LEMMA AppendAhead ==
    ASSUME NEW q \in Seq(Frame), NEW f \in Frame, NEW p, p = Append(q, f),
           NEW i \in Ids, NEW k \in Nat, NEW h \in Nat, k <= h
    PROVE  /\ ResetAhead(q, i, k) => ResetAhead(p, i, h)
           /\ \A r, n \in Nat : Ahead(q, i, k, r, n) => Ahead(p, i, h, r, n)
<1>0. \A j \in DOMAIN q : j \in DOMAIN p /\ p[j] = q[j] /\ j \in Nat
  BY AppendPlaces
<1>1. ASSUME ResetAhead(q, i, k) PROVE ResetAhead(p, i, h)
  <2>1. PICK j \in DOMAIN q : j < k /\ Is(q[j], "reset", i)
    BY <1>1 DEF ResetAhead
  <2> QED BY <1>0, <2>1 DEF ResetAhead
<1>2. ASSUME NEW r \in Nat, NEW n \in Nat, Ahead(q, i, k, r, n) PROVE Ahead(p, i, h, r, n)
  <2>1. ASSUME NEW m \in Chunks, m > r, m <= n
        PROVE  \E j \in DOMAIN p : j < h /\ IsData(p, j, i, m)
    <3>1. PICK j \in DOMAIN q : j < k /\ IsData(q, j, i, m)
      BY <1>2, <2>1 DEF Ahead
    <3> QED BY <1>0, <3>1 DEF IsData
  <2> QED BY <2>1 DEF Ahead
<1> QED BY <1>1, <1>2

LEMMA ChunkIsNat == ASSUME NEW f \in Frame, NEW i \in Ids, Is(f, "data", i)
                    PROVE  f.chunk \in Chunks /\ f.chunk \in Nat /\ f.chunk - 1 \in Nat
<1>1. f.chunk \in Chunks
  BY FrameFields DEF Is
<1> QED BY <1>1, MuxAssumption DEF Chunks

LEMMA AppendGapless ==
    ASSUME NEW q \in Seq(Frame), NEW f \in Frame, NEW p, p = Append(q, f),
           NEW i \in Ids, NEW r \in Nat, Gapless(q, i, r),
           Is(f, "data", i) => f.chunk > r /\ Ahead(q, i, Len(q) + 1, r, f.chunk - 1)
    PROVE  Gapless(p, i, r)
<1>0. /\ DOMAIN q = 1 .. Len(q) /\ Len(q) \in Nat /\ Len(p) = Len(q) + 1
      /\ \A k \in DOMAIN q : p[k] = q[k]
      /\ \A k \in DOMAIN p : k \in DOMAIN q \/ k = Len(p)
      /\ p[Len(p)] = f
  BY AppendPlaces
<1>1. ASSUME NEW k \in DOMAIN p, Is(p[k], "data", i)
      PROVE  p[k].chunk > r /\ Ahead(p, i, k, r, p[k].chunk - 1)
  <2>1. CASE k \in DOMAIN q
    <3>1. q[k] \in Frame /\ k \in Nat /\ p[k] = q[k]
      BY <1>0, <2>1
    <3>2. q[k].chunk > r /\ Ahead(q, i, k, r, q[k].chunk - 1) /\ q[k].chunk - 1 \in Nat
      BY <1>1, <2>1, <3>1, ChunkIsNat DEF Gapless
    <3>3. k <= k
      BY <3>1
    <3>n. PICK n \in Nat : n = q[k].chunk - 1
      BY <3>2
    <3>4. Ahead(p, i, k, r, n)
      <4>1. k \in Nat /\ Ahead(q, i, k, r, n)
        BY <3>1, <3>2, <3>n
      <4> QED BY <3>3, <4>1, AppendAhead
    <3> QED BY <3>1, <3>2, <3>4, <3>n
  <2>2. CASE k = Len(p)
    <3>1. p[k] = f /\ k \in Nat /\ k = Len(q) + 1
      BY <1>0, <2>2
    <3>2. f.chunk > r /\ Ahead(q, i, k, r, f.chunk - 1) /\ f.chunk - 1 \in Nat
      BY <1>1, <3>1, ChunkIsNat
    <3>3. k <= k
      BY <3>1
    <3>n. PICK n \in Nat : n = f.chunk - 1
      BY <3>2
    <3>4. Ahead(p, i, k, r, n)
      <4>1. k \in Nat /\ Ahead(q, i, k, r, n)
        BY <3>1, <3>2, <3>n
      <4> QED BY <3>3, <4>1, AppendAhead
    <3> QED BY <3>1, <3>2, <3>4, <3>n
  <2> QED BY <1>0, <2>1, <2>2
<1> QED BY <1>1 DEF Gapless

LEMMA AppendClose ==
    ASSUME NEW q \in Seq(Frame), NEW f \in Frame, NEW p, p = Append(q, f), NEW i \in Ids
    PROVE  /\ CloseIsReset(q, i) /\ (Is(f, "close", i) => ResetAhead(q, i, Len(q) + 1)) =>
                 CloseIsReset(p, i)
           /\ \A r, s \in Nat :
                 /\ CloseIsLast(q, i, r, s)
                 /\ Is(f, "close", i) => \/ ResetAhead(q, i, Len(q) + 1)
                                         \/ Ahead(q, i, Len(q) + 1, r, s)
                 => CloseIsLast(p, i, r, s)
<1>0. /\ DOMAIN q = 1 .. Len(q) /\ Len(q) \in Nat /\ Len(p) = Len(q) + 1
      /\ \A k \in DOMAIN q : p[k] = q[k] /\ k \in Nat
      /\ \A k \in DOMAIN p : k \in DOMAIN q \/ k = Len(p)
      /\ p[Len(p)] = f /\ Len(p) \in Nat
  BY AppendPlaces
<1>1. ASSUME CloseIsReset(q, i), Is(f, "close", i) => ResetAhead(q, i, Len(q) + 1),
             NEW k \in DOMAIN p, Is(p[k], "close", i)
      PROVE  ResetAhead(p, i, k)
  <2>1. k \in Nat /\ ResetAhead(q, i, k)
    BY <1>0, <1>1 DEF CloseIsReset
  <2>2. k <= k
    BY <2>1
  <2> QED BY <2>1, <2>2, AppendAhead
<1>2. ASSUME NEW r \in Nat, NEW s \in Nat, CloseIsLast(q, i, r, s),
             Is(f, "close", i) => \/ ResetAhead(q, i, Len(q) + 1)
                                  \/ Ahead(q, i, Len(q) + 1, r, s),
             NEW k \in DOMAIN p, Is(p[k], "close", i)
      PROVE  ResetAhead(p, i, k) \/ Ahead(p, i, k, r, s)
  <2>1. k \in Nat /\ (ResetAhead(q, i, k) \/ Ahead(q, i, k, r, s))
    BY <1>0, <1>2 DEF CloseIsLast
  <2>2. k <= k
    BY <2>1
  <2> QED BY <2>1, <2>2, AppendAhead
<1> QED BY <1>1, <1>2 DEF CloseIsReset, CloseIsLast

LEMMA AppendOrdered ==
    ASSUME NEW q \in Seq(Frame), NEW f \in Frame, NEW p, p = Append(q, f),
           NEW i \in Ids, NEW s \in Nat, NEW t \in Nat, Ordered(q, i, s), s <= t,
           Is(f, "data", i) => f.chunk = s + 1 /\ t = s + 1
    PROVE  Ordered(p, i, t)
<1>0. /\ DOMAIN q = 1 .. Len(q) /\ Len(q) \in Nat /\ Len(p) = Len(q) + 1
      /\ DOMAIN p = 1 .. Len(q) + 1
      /\ \A k \in DOMAIN q : p[k] = q[k] /\ k \in Nat
      /\ \A k \in DOMAIN p : k \in DOMAIN q \/ k = Len(p)
      /\ p[Len(p)] = f /\ Len(p) \in Nat
  BY AppendPlaces
<1>1. ASSUME NEW k \in DOMAIN p, Is(p[k], "data", i)
      PROVE  /\ p[k].chunk <= t
             /\ \A j \in DOMAIN p : j < k /\ Is(p[j], "data", i) => p[j].chunk < p[k].chunk
  <2>1. CASE k \in DOMAIN q
    <3>0. p[k] = q[k] /\ q[k] \in Frame
      BY <1>0, <2>1
    <3>1. q[k].chunk <= s /\ q[k].chunk \in Nat
      BY <1>1, <2>1, <3>0, ChunkIsNat DEF Ordered
    <3>2. ASSUME NEW j \in DOMAIN p, j < k, Is(p[j], "data", i)
          PROVE  p[j].chunk < p[k].chunk
      <4>1. j \in DOMAIN q
        BY <1>0, <2>1, <3>2
      <4> QED BY <1>0, <1>1, <2>1, <3>2, <4>1 DEF Ordered
    <3> QED BY <3>0, <3>1, <3>2
  <2>2. CASE k = Len(p)
    <3>1. p[k] = f /\ f.chunk = s + 1 /\ t = s + 1
      BY <1>0, <1>1, <2>2
    <3>2. ASSUME NEW j \in DOMAIN p, j < k, Is(p[j], "data", i)
          PROVE  p[j].chunk < p[k].chunk
      <4>1. j \in DOMAIN q /\ p[j] = q[j] /\ q[j] \in Frame
        BY <1>0, <2>2, <3>2
      <4>2. q[j].chunk <= s /\ q[j].chunk \in Nat
        BY <3>2, <4>1, ChunkIsNat DEF Ordered
      <4> QED BY <3>1, <4>1, <4>2
    <3> QED BY <3>1, <3>2
  <2> QED BY <1>0, <2>1, <2>2
<1> QED BY <1>1 DEF Ordered

(* The frame that is read leaves the rest one place nearer.                *)
LEMMA TailPlaces ==
    ASSUME NEW q \in Seq(Frame), q # <<>>, NEW p, p = Tail(q)
    PROVE  /\ p \in Seq(Frame) /\ Len(q) \in Nat \ {0} /\ Len(p) = Len(q) - 1
           /\ DOMAIN q = 1 .. Len(q) /\ DOMAIN p = 1 .. Len(q) - 1
           /\ \A k \in DOMAIN p : k \in Nat /\ k + 1 \in DOMAIN q /\ p[k] = q[k + 1]
           /\ \A k \in DOMAIN q : k # 1 =>
                 /\ k - 1 \in DOMAIN p /\ p[k - 1] = q[k]
                 /\ \A h \in Nat : k < h + 1 => k - 1 < h
           /\ q[1] \in Frame /\ 1 \in DOMAIN q /\ Head(q) = q[1]
OBVIOUS

LEMMA TailAhead ==
    ASSUME NEW q \in Seq(Frame), q # <<>>, NEW p, p = Tail(q),
           NEW i \in Ids, NEW k \in Nat
    PROVE  /\ ResetAhead(q, i, k + 1) /\ ~Is(q[1], "reset", i) => ResetAhead(p, i, k)
           /\ \A r, t, n \in Nat :
                 /\ Ahead(q, i, k + 1, r, n) /\ r <= t
                 /\ Is(q[1], "data", i) => q[1].chunk <= t
                 => Ahead(p, i, k, t, n)
<1>0. \A j \in DOMAIN q : j # 1 => /\ j - 1 \in DOMAIN p /\ p[j - 1] = q[j]
                                   /\ j < k + 1 => j - 1 < k
  BY TailPlaces
<1>1. ASSUME ResetAhead(q, i, k + 1), ~Is(q[1], "reset", i) PROVE ResetAhead(p, i, k)
  <2>1. PICK j \in DOMAIN q : j < k + 1 /\ Is(q[j], "reset", i)
    BY <1>1 DEF ResetAhead
  <2>2. j # 1
    BY <1>1, <2>1
  <2> QED BY <1>0, <2>1, <2>2 DEF ResetAhead
<1>2. ASSUME NEW r \in Nat, NEW t \in Nat, NEW n \in Nat, Ahead(q, i, k + 1, r, n), r <= t,
             Is(q[1], "data", i) => q[1].chunk <= t
      PROVE  Ahead(p, i, k, t, n)
  <2>1. ASSUME NEW m \in Chunks, m > t, m <= n
        PROVE  \E j \in DOMAIN p : j < k /\ IsData(p, j, i, m)
    <3>0. m \in Nat /\ m > r
      BY <1>2, <2>1, MuxAssumption DEF Chunks
    <3>1. PICK j \in DOMAIN q : j < k + 1 /\ IsData(q, j, i, m)
      BY <1>2, <2>1, <3>0 DEF Ahead
    <3>2. j # 1
      BY <1>2, <2>1, <3>0, <3>1 DEF IsData
    <3> QED BY <1>0, <3>1, <3>2 DEF IsData
  <2> QED BY <2>1 DEF Ahead
<1> QED BY <1>1, <1>2

LEMMA TailOrdered ==
    ASSUME NEW q \in Seq(Frame), q # <<>>, NEW p, p = Tail(q), NEW i \in Ids,
           NEW s \in Nat, Ordered(q, i, s)
    PROVE  Ordered(p, i, s)
<1>0. \A k \in DOMAIN p : k \in Nat /\ k + 1 \in DOMAIN q /\ p[k] = q[k + 1]
  BY TailPlaces
<1>1. ASSUME NEW k \in DOMAIN p, Is(p[k], "data", i)
      PROVE  /\ p[k].chunk <= s
             /\ \A j \in DOMAIN p : j < k /\ Is(p[j], "data", i) => p[j].chunk < p[k].chunk
  <2>1. p[k].chunk <= s
    BY <1>0, <1>1 DEF Ordered
  <2>2. ASSUME NEW j \in DOMAIN p, j < k, Is(p[j], "data", i)
        PROVE  p[j].chunk < p[k].chunk
    <3>1. j + 1 < k + 1
      BY <1>0, <2>2
    <3> QED BY <1>0, <1>1, <2>2, <3>1 DEF Ordered
  <2> QED BY <2>1, <2>2
<1> QED BY <1>1 DEF Ordered

(* With t chunks at the receiver after the frame was read.                 *)
LEMMA TailFlow ==
    ASSUME NEW q \in Seq(Frame), q # <<>>, NEW p, p = Tail(q), NEW i \in Ids,
           NEW r \in Nat, NEW t \in Nat, NEW s \in Nat, r <= t, Ordered(q, i, s),
           Is(q[1], "data", i) => q[1].chunk = t,
           Is(q[1], "data", i) \/ r = t, ~Is(q[1], "reset", i)
    PROVE  /\ Gapless(q, i, r) => Gapless(p, i, t)
           /\ CloseIsReset(q, i) => CloseIsReset(p, i)
           /\ CloseIsLast(q, i, r, s) => CloseIsLast(p, i, t, s)
           /\ Ahead(q, i, Len(q) + 1, r, s) => Ahead(p, i, Len(p) + 1, t, s)
           /\ ResetAhead(q, i, Len(q) + 1) => ResetAhead(p, i, Len(p) + 1)
<1>0. /\ \A k \in DOMAIN p : k \in Nat /\ k + 1 \in DOMAIN q /\ p[k] = q[k + 1] /\ k + 1 > 1
      /\ Len(p) + 1 \in Nat /\ Len(q) + 1 = (Len(p) + 1) + 1
      /\ 1 \in DOMAIN q /\ \A k \in DOMAIN q : q[k] \in Frame
  BY TailPlaces
<1>1. Is(q[1], "data", i) => q[1].chunk <= t
  OBVIOUS
<1>2. ASSUME Gapless(q, i, r), NEW k \in DOMAIN p, Is(p[k], "data", i)
      PROVE  p[k].chunk > t /\ Ahead(p, i, k, t, p[k].chunk - 1)
  <2>1. /\ k + 1 \in DOMAIN q /\ p[k] = q[k + 1] /\ k \in Nat /\ p[k] \in Frame
    BY <1>0, TailPlaces
  <2>2. p[k].chunk > r /\ Ahead(q, i, k + 1, r, p[k].chunk - 1) /\ p[k].chunk - 1 \in Nat
    BY <1>2, <2>1, ChunkIsNat DEF Gapless
  <2>3. p[k].chunk > t
    <3>1. CASE r = t
      BY <2>2, <3>1
    <3>2. CASE Is(q[1], "data", i)
      BY <1>0, <1>2, <2>1, <3>2 DEF Ordered
    <3> QED BY <3>1, <3>2
  <2>4. Ahead(p, i, k, t, p[k].chunk - 1)
    BY <1>1, <2>1, <2>2, TailAhead
  <2> QED BY <2>3, <2>4
<1>3. ASSUME CloseIsReset(q, i), NEW k \in DOMAIN p, Is(p[k], "close", i)
      PROVE  ResetAhead(p, i, k)
  <2>1. k \in Nat /\ ResetAhead(q, i, k + 1)
    BY <1>0, <1>3 DEF CloseIsReset
  <2> QED BY <2>1, TailAhead
<1>4. ASSUME CloseIsLast(q, i, r, s), NEW k \in DOMAIN p, Is(p[k], "close", i)
      PROVE  ResetAhead(p, i, k) \/ Ahead(p, i, k, t, s)
  <2>1. k \in Nat /\ (ResetAhead(q, i, k + 1) \/ Ahead(q, i, k + 1, r, s))
    BY <1>0, <1>4 DEF CloseIsLast
  <2> QED BY <1>1, <2>1, TailAhead
<1>5. Ahead(q, i, Len(q) + 1, r, s) => Ahead(p, i, Len(p) + 1, t, s)
  BY <1>0, <1>1, TailAhead
<1>6. ResetAhead(q, i, Len(q) + 1) => ResetAhead(p, i, Len(p) + 1)
  BY <1>0, TailAhead
<1> QED BY <1>2, <1>3, <1>4, <1>5, <1>6 DEF Gapless, CloseIsReset, CloseIsLast

(* The first frame: data is the next chunk, a close frame comes after all. *)
LEMMA HeadFlow ==
    ASSUME NEW q \in Seq(Frame), q # <<>>, NEW i \in Ids, NEW r \in Nat,
           NEW s \in 0 .. MaxChunks
    PROVE  /\ Gapless(q, i, r) /\ Is(q[1], "data", i) => q[1].chunk = r + 1
           /\ Is(q[1], "close", i) => ~CloseIsReset(q, i)
           /\ Is(q[1], "close", i) /\ CloseIsLast(q, i, r, s) => r >= s
<1>0. 1 \in DOMAIN q /\ q[1] \in Frame /\ MaxChunks \in Nat /\ s \in Nat
      /\ \A j \in DOMAIN q : ~(j < 1)
  BY TailPlaces, MuxAssumption
<1>1. \A n \in Nat : Ahead(q, i, 1, r, n) => \A m \in Chunks : ~(m > r /\ m <= n)
  BY <1>0 DEF Ahead
<1>2. ~ResetAhead(q, i, 1)
  BY <1>0 DEF ResetAhead
<1>3. ASSUME Gapless(q, i, r), Is(q[1], "data", i) PROVE q[1].chunk = r + 1
  <2>1. q[1].chunk \in Chunks /\ q[1].chunk \in Nat /\ q[1].chunk - 1 \in Nat
    BY <1>0, <1>3, ChunkIsNat
  <2>2. q[1].chunk > r /\ \A m \in Chunks : ~(m > r /\ m <= q[1].chunk - 1)
    BY <1>0, <1>1, <1>3, <2>1 DEF Gapless
  <2>3. r + 1 \in Chunks
    BY <1>0, <2>1, <2>2 DEF Chunks
  <2> QED BY <2>1, <2>2, <2>3
<1>4. ASSUME Is(q[1], "close", i), CloseIsLast(q, i, r, s) PROVE r >= s
  <2>1. \A m \in Chunks : ~(m > r /\ m <= s)
    BY <1>0, <1>1, <1>2, <1>4 DEF CloseIsLast
  <2>2. r < s => r + 1 \in Chunks
    BY <1>0 DEF Chunks
  <2> QED BY <1>0, <2>1, <2>2
<1>5. Is(q[1], "close", i) => ~CloseIsReset(q, i)
  BY <1>0, <1>2 DEF CloseIsReset
<1> QED BY <1>3, <1>4, <1>5

(* Losing the tail.                                                        *)
LEMMA FrontFlow ==
    ASSUME NEW q \in Seq(Frame), NEW p \in Seq(Frame), Len(q) \in Nat \ {0},
           Len(p) = Len(q) - 1, \A k \in 1 .. Len(q) - 1 : p[k] = q[k], NEW i \in Ids,
           NEW r \in Nat, NEW s \in Nat
    PROVE  /\ Ordered(q, i, s) => Ordered(p, i, s)
           /\ Gapless(q, i, r) => Gapless(p, i, r)
           /\ CloseIsReset(q, i) => CloseIsReset(p, i)
           /\ CloseIsLast(q, i, r, s) => CloseIsLast(p, i, r, s)
<1>0. /\ \A k \in DOMAIN p : k \in DOMAIN q /\ p[k] = q[k] /\ k \in Nat
      /\ \A k \in DOMAIN p : \A j \in DOMAIN q : j < k => j \in DOMAIN p /\ p[j] = q[j]
  OBVIOUS
<1>1. Ordered(q, i, s) => Ordered(p, i, s)
  BY <1>0 DEF Ordered
<1>2. ASSUME NEW k \in DOMAIN p
      PROVE  /\ ResetAhead(q, i, k) => ResetAhead(p, i, k)
             /\ \A n : Ahead(q, i, k, r, n) => Ahead(p, i, k, r, n)
  <2>1. ResetAhead(q, i, k) => ResetAhead(p, i, k)
    BY <1>0 DEF ResetAhead
  <2>2. ASSUME NEW n, Ahead(q, i, k, r, n), NEW m \in Chunks, m > r, m <= n
        PROVE  \E j \in DOMAIN p : j < k /\ IsData(p, j, i, m)
    <3>1. PICK j \in DOMAIN q : j < k /\ IsData(q, j, i, m)
      BY <2>2 DEF Ahead
    <3> QED BY <1>0, <3>1 DEF IsData
  <2> QED BY <2>1, <2>2 DEF Ahead
<1>3. Gapless(q, i, r) => Gapless(p, i, r)
  BY <1>0, <1>2 DEF Gapless
<1>4. CloseIsReset(q, i) => CloseIsReset(p, i)
  BY <1>0, <1>2 DEF CloseIsReset
<1>5. CloseIsLast(q, i, r, s) => CloseIsLast(p, i, r, s)
  BY <1>0, <1>2 DEF CloseIsLast
<1> QED BY <1>1, <1>3, <1>4, <1>5

-----------------------------------------------------------------------------
(* A stream and direction under the steps of the two sides.                *)

SenderSame(x, i) ==
    /\ sent'[x][i] = sent[x][i]
    /\ st[x][i].lwc => st'[x][i].lwc
    /\ writer'[x][i].op = "write" => ~st'[x][i].lwc
    /\ writer'[x][i].op \in {"close", "closeWrite"} => st'[x][i].lwc
    /\ sess[x] = "closed" => sess'[x] = "closed"
    /\ resets'[x][i] = 1 /\ sess'[x] # "closed" => resets[x][i] = 1

(* A clean end: not what a close or a CloseRead leaves.                    *)
Ended(s) == s.rwc /\ ~s.closed /\ ~s.lrc

ReceiverSame(y, i) ==
    /\ Len(got'[y][i]) + Len(st'[y][i].buf) = Len(got[y][i]) + Len(st[y][i].buf)
    /\ \A n \in DOMAIN st'[y][i].buf : st'[y][i].buf[n] = Len(got'[y][i]) + n
    /\ Live(y, i)' => Live(y, i)
    /\ Ended(st'[y][i]) => Ended(st[y][i])

LEMMA OrderTypes ==
    ASSUME Typed, NEW x \in Sides, NEW i \in Ids
    PROVE  /\ net[x] \in Seq(Frame) /\ Len(net[x]) \in Nat
           /\ sent[x][i] \in 0 .. MaxChunks /\ sent[x][i] \in Nat
           /\ Received(x, i) \in Nat
           /\ st[x][i].buf \in Seq(Chunks) /\ got[x][i] \in Seq(Chunks)
           /\ Received(x, i) = Len(got[x][i]) + Len(st[x][i].buf)
<1>1. st[x][i] \in StreamType /\ got[x][i] \in Seq(Chunks) /\ net[x] \in Seq(Frame)
      /\ sent[x][i] \in 0 .. MaxChunks
  BY DEF Typed
<1>2. st[x][i].buf \in Seq(Chunks)
  BY <1>1 DEF StreamType
<1>3. Len(net[x]) \in Nat /\ Len(got[x][i]) \in Nat /\ Len(st[x][i].buf) \in Nat
  BY <1>1, <1>2
<1>4. sent[x][i] \in Nat
  BY <1>1, MuxAssumption
<1>5. Received(x, i) = Len(got[x][i]) + Len(st[x][i].buf)
  BY DEF Received
<1>6. Len(got[x][i]) + Len(st[x][i].buf) \in Nat
  <2>1. PICK a \in Nat, b \in Nat : a = Len(got[x][i]) /\ b = Len(st[x][i].buf)
    BY <1>3
  <2>2. a + b \in Nat
    OBVIOUS
  <2> QED BY <2>1, <2>2
<1>7. Received(x, i) \in Nat
  BY <1>6 DEF Received
<1> QED BY <1>1, <1>2, <1>3, <1>4, <1>5, <1>7

LEMMA ResetIsLast ==
    ASSUME NEW q, NEW i, CloseIsReset(q, i) PROVE \A r, s : CloseIsLast(q, i, r, s)
BY DEF CloseIsReset, CloseIsLast

LEMMA SameBuffer ==
    ASSUME Typed, NEW x \in Sides, NEW i \in Ids, OrderAt(x, i),
           st[x][i].lwc => st'[x][i].lwc, sent'[x][i] = sent[x][i],
           ReceiverSame(Peer(x), i)
    PROVE  BufferAt(x, i)' /\ Received(Peer(x), i)' = Received(Peer(x), i)
<1> DEFINE y == Peer(x)
<1>1. Received(y, i)' = Received(y, i)
  BY DEF ReceiverSame, Received
<1>2. /\ \A n \in DOMAIN st'[y][i].buf : st'[y][i].buf[n] = Len(got'[y][i]) + n
      /\ Ended(st'[y][i]) => Ended(st[y][i])
  BY DEF ReceiverSame
<1>3. /\ Received(y, i) <= sent[x][i]
      /\ Ended(st[y][i]) => st[x][i].lwc /\ Received(y, i) = sent[x][i]
  BY DEF OrderAt, BufferAt, Ended
<1> QED BY <1>1, <1>2, <1>3 DEF BufferAt, Ended

LEMMA OrderKept ==
    ASSUME Typed, NEW x \in Sides, NEW i \in Ids, OrderAt(x, i), net'[x] = net[x],
           SenderSame(x, i), ReceiverSame(Peer(x), i)
    PROVE  OrderAt(x, i)'
<1>1. BufferAt(x, i)' /\ Received(Peer(x), i)' = Received(Peer(x), i)
  BY SameBuffer DEF SenderSame
<1>2. WriterAt(x, i)'
  BY DEF SenderSame, WriterAt
<1>3. FlowAt(x, i)'
  <2>1. Live(Peer(x), i)' => Live(Peer(x), i)
    BY DEF ReceiverSame
  <2>2. FlowAt(x, i)
    BY DEF OrderAt
  <2> QED BY <1>1, <2>1, <2>2, ResetIsLast DEF FlowAt, SenderSame
<1> QED BY <1>1, <1>2, <1>3 DEF OrderAt

LEMMA SameSender ==
    ASSUME NEW x \in Sides, NEW i \in Ids, WriterAt(x, i), SameAt(x, i), UNCHANGED sess
    PROVE  SenderSame(x, i)
BY DEF WriterAt, SameAt, SenderSame

LEMMA SameReceiver ==
    ASSUME NEW x \in Sides, NEW i \in Ids, OrderAt(x, i), SameAt(Peer(x), i)
    PROVE  ReceiverSame(Peer(x), i)
<1>1. Live(Peer(x), i)' => Live(Peer(x), i)
  BY DEF SameAt, Live, Made, Ignores
<1>2. \A n \in DOMAIN st[Peer(x)][i].buf :
         st[Peer(x)][i].buf[n] = Len(got[Peer(x)][i]) + n
  BY DEF OrderAt, BufferAt
<1> QED BY <1>1, <1>2 DEF SameAt, ReceiverSame

(* The receiver takes no more of the stream: what is on its way does not   *)
(* matter any more.                                                        *)
LEMMA OrderGone ==
    ASSUME Typed, NEW x \in Sides, NEW i \in Ids, OrderAt(x, i),
           Ordered(net'[x], i, sent[x][i]), SenderSame(x, i),
           ~Live(Peer(x), i)',
           Len(got'[Peer(x)][i]) + Len(st'[Peer(x)][i].buf) <= sent[x][i],
           \A n \in DOMAIN st'[Peer(x)][i].buf :
              st'[Peer(x)][i].buf[n] = Len(got'[Peer(x)][i]) + n,
           Ended(st'[Peer(x)][i]) =>
              /\ st[x][i].lwc
              /\ Len(got'[Peer(x)][i]) + Len(st'[Peer(x)][i].buf) = sent[x][i]
    PROVE  OrderAt(x, i)'
<1>1. BufferAt(x, i)'
  BY DEF BufferAt, Received, Ended, SenderSame
<1>2. WriterAt(x, i)'
  BY DEF SenderSame, WriterAt
<1>3. FlowAt(x, i)'
  BY DEF FlowAt, SenderSame
<1> QED BY <1>1, <1>2, <1>3 DEF OrderAt

(* x sends a frame.                                                        *)
LEMMA OrderSent ==
    ASSUME Typed, NEW x \in Sides, NEW i \in Ids, OrderAt(x, i), NEW f \in Frame,
           Send(x, f), sess[x] # "closed", UNCHANGED <<sess, st, streams, got>>,
           WriterAt(x, i)',
           IF Is(f, "data", i)
           THEN f.chunk = sent[x][i] + 1 /\ sent'[x][i] = sent[x][i] + 1 /\ ~st[x][i].lwc
           ELSE sent'[x][i] = sent[x][i],
           Is(f, "close", i) => st[x][i].lwc \/ resets[x][i] = 1,
           resets'[x][i] = 1 => resets[x][i] = 1 \/ Is(f, "reset", i)
    PROVE  OrderAt(x, i)'
<1> DEFINE y == Peer(x)
<1>0. y \in Sides
  BY SidesPeer
<1>q. PICK q \in Seq(Frame) : q = net[x]
  BY OrderTypes
<1>p. PICK p \in Seq(Frame) : p = net'[x] /\ p = Append(q, f)
  BY <1>q, SendIs DEF Typed
<1>r. PICK r \in Nat : r = Received(y, i) /\ r = Received(y, i)'
  BY <1>0, OrderTypes DEF Received
<1>s. PICK s \in Nat : s = sent[x][i]
  BY OrderTypes
<1>t. PICK t \in Nat : t = sent'[x][i]
  BY <1>s
<1>1. /\ Len(q) \in Nat /\ Len(p) = Len(q) + 1 /\ Len(q) + 1 \in Nat /\ Len(p) + 1 \in Nat
      /\ Len(q) + 1 <= Len(p) + 1 /\ p[Len(p)] = f /\ Len(p) \in DOMAIN p
      /\ Len(p) < Len(p) + 1
  <2>1. /\ Len(q) \in Nat /\ Len(p) = Len(q) + 1 /\ p[Len(p)] = f /\ Len(p) \in DOMAIN p
    BY <1>p, AppendPlaces
  <2> QED BY <2>1
<1>2. r <= s
  BY <1>0, <1>r, <1>s DEF OrderAt, BufferAt
<1>3. BufferAt(x, i)'
  <2>1. /\ \A n \in DOMAIN st[y][i].buf : st[y][i].buf[n] = Len(got[y][i]) + n
        /\ Ended(st[y][i]) => st[x][i].lwc /\ r = s
    BY <1>r, <1>s DEF OrderAt, BufferAt, Ended
  <2>2. r <= t /\ (st[x][i].lwc => t = s)
    BY <1>2, <1>s, <1>t
  <2> QED BY <1>r, <1>s, <1>t, <2>1, <2>2 DEF BufferAt, Ended
<1>4. Ordered(p, i, t)
  <2>1. Ordered(q, i, s)
    BY <1>q, <1>s DEF OrderAt, FlowAt
  <2>2. s <= t /\ (Is(f, "data", i) => f.chunk = s + 1 /\ t = s + 1)
    BY <1>s, <1>t
  <2> QED BY <1>p, <2>1, <2>2, AppendOrdered
<1>5. ASSUME Live(y, i)'
      PROVE  /\ Gapless(p, i, r)
             /\ IF st[x][i].lwc THEN CloseIsLast(p, i, r, t) ELSE CloseIsReset(p, i)
             /\ Ahead(p, i, Len(p) + 1, r, t)
             /\ resets'[x][i] = 1 => ResetAhead(p, i, Len(p) + 1)
  <2>0. Live(y, i)
    BY <1>5 DEF Live, Made, Ignores
  <2>1. /\ Gapless(q, i, r)
        /\ IF st[x][i].lwc THEN CloseIsLast(q, i, r, s) ELSE CloseIsReset(q, i)
        /\ Ahead(q, i, Len(q) + 1, r, s)
        /\ resets[x][i] = 1 => ResetAhead(q, i, Len(q) + 1)
    BY <1>q, <1>r, <1>s, <2>0 DEF OrderAt, FlowAt
  <2>2. Gapless(p, i, r)
    <3>1. Is(f, "data", i) => f.chunk > r /\ Ahead(q, i, Len(q) + 1, r, f.chunk - 1)
      BY <1>2, <1>s, <2>1
    <3> QED BY <1>p, <2>1, <3>1, AppendGapless
  <2>3. IF st[x][i].lwc THEN CloseIsLast(p, i, r, t) ELSE CloseIsReset(p, i)
    <3>1. CASE st[x][i].lwc
      <4>1. t = s
        BY <1>s, <1>t, <3>1
      <4>2. CloseIsLast(q, i, r, s) /\ Ahead(q, i, Len(q) + 1, r, s)
        BY <2>1, <3>1
      <4>3. CloseIsLast(p, i, r, s)
        BY <1>p, <4>2, AppendClose
      <4> QED BY <3>1, <4>1, <4>3
    <3>2. CASE ~st[x][i].lwc
      <4>1. CloseIsReset(q, i) /\ (Is(f, "close", i) => ResetAhead(q, i, Len(q) + 1))
        BY <2>1, <3>2
      <4>2. CloseIsReset(p, i)
        BY <1>p, <4>1, AppendClose
      <4> QED BY <3>2, <4>2
    <3> QED BY <3>1, <3>2
  <2>k. PICK k \in Nat, h \in Nat : k = Len(q) + 1 /\ h = Len(p) + 1 /\ k <= h
    BY <1>1
  <2>4. Ahead(p, i, Len(p) + 1, r, s)
    <3>1. Ahead(q, i, k, r, s)
      BY <2>1, <2>k
    <3>2. p = Append(q, f) /\ k <= h
      BY <1>p, <2>k
    <3>3. Ahead(p, i, h, r, s)
      BY <3>1, <3>2, AppendAhead
    <3> QED BY <2>k, <3>3
  <2>5. Ahead(p, i, Len(p) + 1, r, t)
    <3>1. CASE ~Is(f, "data", i)
      <4>1. t = s
        BY <1>s, <1>t, <3>1
      <4> QED BY <2>4, <4>1
    <3>2. CASE Is(f, "data", i)
      <4>1. t = s + 1 /\ f.chunk = s + 1
        BY <1>s, <1>t, <3>2
      <4>2. ASSUME NEW m \in Chunks, m > r, m <= t
            PROVE  \E j \in DOMAIN p : j < Len(p) + 1 /\ IsData(p, j, i, m)
        <5>1. CASE m = t
          <6>1. IsData(p, Len(p), i, m)
            BY <1>1, <3>2, <4>1, <5>1 DEF IsData
          <6> QED BY <1>1, <6>1
        <5>2. CASE m # t
          <6>1. m <= s
            BY <4>1, <4>2, <5>2, MuxAssumption DEF Chunks
          <6> QED BY <2>4, <4>2, <6>1 DEF Ahead
        <5> QED BY <5>1, <5>2
      <4> QED BY <4>2 DEF Ahead
    <3> QED BY <3>1, <3>2
  <2>6. ASSUME resets'[x][i] = 1 PROVE ResetAhead(p, i, Len(p) + 1)
    <3>1. CASE Is(f, "reset", i)
      BY <1>1, <3>1 DEF ResetAhead
    <3>2. CASE ResetAhead(q, i, Len(q) + 1)
      <4>1. p = Append(q, f) /\ k <= h /\ ResetAhead(q, i, k)
        BY <1>p, <2>k, <3>2
      <4>2. ResetAhead(p, i, h)
        BY <4>1, AppendAhead
      <4> QED BY <2>k, <4>2
    <3> QED BY <2>1, <2>6, <3>1, <3>2
  <2> QED BY <2>2, <2>3, <2>5, <2>6
<1>6. FlowAt(x, i)'
  BY <1>p, <1>r, <1>t, <1>4, <1>5 DEF FlowAt
<1> QED BY <1>3, <1>6 DEF OrderAt

(* The receiver reads a frame that changes nothing for the stream.         *)
LEMMA OrderPassed ==
    ASSUME Typed, NEW x \in Sides, NEW i \in Ids, OrderAt(x, i),
           net[x] # <<>>, net'[x] = Tail(net[x]),
           SenderSame(x, i), ReceiverSame(Peer(x), i),
           Is(net[x][1], "data", i) \/ Is(net[x][1], "reset", i) => ~Live(Peer(x), i)'
    PROVE  OrderAt(x, i)'
<1> DEFINE y == Peer(x)
<1>0. y \in Sides
  BY SidesPeer
<1>1. BufferAt(x, i)' /\ Received(y, i)' = Received(y, i)
  BY SameBuffer DEF SenderSame
<1>2. WriterAt(x, i)'
  BY DEF SenderSame, WriterAt
<1>q. PICK q \in Seq(Frame) : q = net[x]
  BY OrderTypes
<1>p. PICK p : p = net'[x] /\ p = Tail(q)
  BY <1>q
<1>r. PICK r \in Nat : r = Received(y, i)
  BY <1>0, OrderTypes
<1>s. PICK s \in Nat : s = sent[x][i] /\ s = sent'[x][i]
  BY OrderTypes DEF SenderSame
<1>3. Ordered(q, i, s)
  BY <1>q, <1>s DEF OrderAt, FlowAt
<1>4. Ordered(p, i, s)
  BY <1>q, <1>p, <1>3, TailOrdered
<1>5. ASSUME Live(y, i)'
      PROVE  /\ Gapless(p, i, r)
             /\ IF st'[x][i].lwc THEN CloseIsLast(p, i, r, s) ELSE CloseIsReset(p, i)
             /\ sess'[x] # "closed" =>
                   /\ Ahead(p, i, Len(p) + 1, r, s)
                   /\ resets'[x][i] = 1 => ResetAhead(p, i, Len(p) + 1)
  <2>0. Live(y, i) /\ ~Is(q[1], "data", i) /\ ~Is(q[1], "reset", i)
    BY <1>5, <1>q DEF ReceiverSame
  <2>1. /\ Gapless(q, i, r)
        /\ IF st[x][i].lwc THEN CloseIsLast(q, i, r, s) ELSE CloseIsReset(q, i)
        /\ sess[x] # "closed" =>
              /\ Ahead(q, i, Len(q) + 1, r, s)
              /\ resets[x][i] = 1 => ResetAhead(q, i, Len(q) + 1)
    BY <1>q, <1>r, <1>s, <2>0 DEF OrderAt, FlowAt
  <2>2. r <= r
    BY <1>r
  <2>3. /\ Gapless(q, i, r) => Gapless(p, i, r)
        /\ CloseIsReset(q, i) => CloseIsReset(p, i)
        /\ CloseIsLast(q, i, r, s) => CloseIsLast(p, i, r, s)
        /\ Ahead(q, i, Len(q) + 1, r, s) => Ahead(p, i, Len(p) + 1, r, s)
        /\ ResetAhead(q, i, Len(q) + 1) => ResetAhead(p, i, Len(p) + 1)
    BY <1>q, <1>p, <1>3, <2>0, <2>2, TailFlow
  <2> QED BY <2>1, <2>3, ResetIsLast DEF SenderSame
<1>6. FlowAt(x, i)'
  BY <1>1, <1>p, <1>r, <1>s, <1>4, <1>5 DEF FlowAt
<1> QED BY <1>1, <1>2, <1>6 DEF OrderAt

LEMMA NextChunk ==
    ASSUME NEW b \in Seq(Chunks), NEW g \in Nat, NEW c \in Chunks, c = g + Len(b) + 1,
           \A n \in DOMAIN b : b[n] = g + n
    PROVE  /\ \A n \in DOMAIN Append(b, c) : Append(b, c)[n] = g + n
           /\ g + Len(Append(b, c)) = c
<1>1. /\ Len(b) \in Nat /\ Len(Append(b, c)) = Len(b) + 1
      /\ DOMAIN b = 1 .. Len(b) /\ DOMAIN Append(b, c) = 1 .. Len(b) + 1
      /\ \A n \in 1 .. Len(b) : Append(b, c)[n] = b[n]
      /\ Append(b, c)[Len(b) + 1] = c
  OBVIOUS
<1>2. PICK l \in Nat : l = Len(b)
  BY <1>1
<1>3. ASSUME NEW n \in 1 .. l + 1 PROVE Append(b, c)[n] = g + n
  <2>1. CASE n = l + 1
    <3>1. Append(b, c)[n] = c /\ c = g + l + 1
      BY <1>1, <1>2, <2>1
    <3> QED BY <2>1, <3>1
  <2>2. CASE n # l + 1
    <3>1. n \in 1 .. l
      BY <2>2
    <3> QED BY <1>1, <1>2, <3>1
  <2> QED BY <2>1, <2>2
<1>4. c = g + l + 1 /\ Len(Append(b, c)) = l + 1
  BY <1>1, <1>2
<1>5. g + (l + 1) = c
  BY <1>4
<1> QED BY <1>1, <1>2, <1>3, <1>4, <1>5

(* The receiver enqueues a chunk: it is the next one.                      *)
LEMMA OrderTaken ==
    ASSUME Typed, NEW x \in Sides, NEW i \in Ids, OrderAt(x, i),
           net[x] # <<>>, net'[x] = Tail(net[x]), SenderSame(x, i),
           Is(net[x][1], "data", i), Live(Peer(x), i),
           got'[Peer(x)][i] = got[Peer(x)][i],
           st'[Peer(x)][i].buf = Append(st[Peer(x)][i].buf, net[x][1].chunk),
           Ended(st'[Peer(x)][i]) => Ended(st[Peer(x)][i]),
           ~Ended(st[Peer(x)][i])
    PROVE  OrderAt(x, i)'
<1> DEFINE y == Peer(x)
<1>0. y \in Sides
  BY SidesPeer
<1>q. PICK q \in Seq(Frame) : q = net[x]
  BY OrderTypes
<1>p. PICK p : p = net'[x] /\ p = Tail(q)
  BY <1>q
<1>r. PICK r \in Nat : r = Received(y, i)
  BY <1>0, OrderTypes
<1>s. PICK s \in Nat : s = sent[x][i] /\ s = sent'[x][i] /\ s \in 0 .. MaxChunks
  BY OrderTypes DEF SenderSame
<1>1. /\ Ordered(q, i, s) /\ Gapless(q, i, r)
      /\ IF st[x][i].lwc THEN CloseIsLast(q, i, r, s) ELSE CloseIsReset(q, i)
      /\ sess[x] # "closed" =>
            /\ Ahead(q, i, Len(q) + 1, r, s)
            /\ resets[x][i] = 1 => ResetAhead(q, i, Len(q) + 1)
  BY <1>q, <1>r, <1>s DEF OrderAt, FlowAt
<1>2. q[1].chunk = r + 1 /\ Is(q[1], "data", i) /\ ~Is(q[1], "reset", i)
  <2>1. Is(q[1], "data", i) /\ ~Is(q[1], "reset", i)
    BY <1>q DEF Is
  <2> QED BY <1>q, <1>s, <1>1, <2>1, HeadFlow
<1>3. r + 1 <= s
  BY <1>q, <1>1, <1>2, TailPlaces DEF Ordered
<1>b. PICK b \in Seq(Chunks) : b = st[y][i].buf
  BY <1>0, OrderTypes
<1>g. PICK g \in Nat : g = Len(got[y][i])
  <2>1. got[y][i] \in Seq(Chunks)
    BY <1>0, OrderTypes
  <2> QED BY <2>1
<1>c. PICK c \in Chunks : c = r + 1 /\ c = g + Len(b) + 1
  <2>1. r + 1 \in Chunks
    BY <1>3, <1>s, MuxAssumption DEF Chunks
  <2>2. r = g + Len(b)
    BY <1>0, <1>r, <1>b, <1>g, OrderTypes
  <2> QED BY <2>1, <2>2
<1>4. \A n \in DOMAIN b : b[n] = g + n
  BY <1>b, <1>g DEF OrderAt, BufferAt
<1>5. st'[y][i].buf = Append(b, c) /\ got'[y][i] = got[y][i]
  BY <1>2, <1>b, <1>c, <1>q
<1>6. /\ \A n \in DOMAIN st'[y][i].buf : st'[y][i].buf[n] = Len(got'[y][i]) + n
      /\ Received(y, i)' = r + 1
  <2>1. /\ \A n \in DOMAIN Append(b, c) : Append(b, c)[n] = g + n
        /\ g + Len(Append(b, c)) = c
    BY <1>4, <1>c, NextChunk
  <2>2. Received(y, i)' = Len(got'[y][i]) + Len(st'[y][i].buf)
    BY DEF Received
  <2> QED BY <1>5, <1>c, <1>g, <2>1, <2>2
<1>7. BufferAt(x, i)'
  <2>1. ~Ended(st'[y][i])
    OBVIOUS
  <2> QED BY <1>3, <1>6, <1>s, <2>1 DEF BufferAt, Ended
<1>8. WriterAt(x, i)'
  BY DEF SenderSame, WriterAt
<1>9. /\ Ordered(p, i, s) /\ Gapless(p, i, r + 1)
      /\ IF st[x][i].lwc THEN CloseIsLast(p, i, r + 1, s) ELSE CloseIsReset(p, i)
      /\ sess[x] # "closed" =>
            /\ Ahead(p, i, Len(p) + 1, r + 1, s)
            /\ resets[x][i] = 1 => ResetAhead(p, i, Len(p) + 1)
  <2>1. r <= r + 1 /\ r + 1 \in Nat
    BY <1>r
  <2>2. Ordered(p, i, s)
    BY <1>q, <1>p, <1>1, TailOrdered
  <2>3. /\ Gapless(q, i, r) => Gapless(p, i, r + 1)
        /\ CloseIsReset(q, i) => CloseIsReset(p, i)
        /\ CloseIsLast(q, i, r, s) => CloseIsLast(p, i, r + 1, s)
        /\ Ahead(q, i, Len(q) + 1, r, s) => Ahead(p, i, Len(p) + 1, r + 1, s)
        /\ ResetAhead(q, i, Len(q) + 1) => ResetAhead(p, i, Len(p) + 1)
    BY <1>q, <1>p, <1>1, <1>2, <2>1, TailFlow
  <2> QED BY <1>1, <2>2, <2>3
<1>10. FlowAt(x, i)'
  <2>1. st'[x][i].lwc => CloseIsLast(p, i, r + 1, s)
    BY <1>9, ResetIsLast
  <2>2. ~st'[x][i].lwc => CloseIsReset(p, i)
    BY <1>9 DEF SenderSame
  <2> QED BY <1>p, <1>s, <1>6, <1>9, <2>1, <2>2 DEF FlowAt, SenderSame
<1> QED BY <1>7, <1>8, <1>10 DEF OrderAt

(* The connection loses the last frame.                                    *)
LEMMA OrderLost ==
    ASSUME Typed, NEW x \in Sides, NEW i \in Ids, OrderAt(x, i), LoseTail(x)
    PROVE  OrderAt(x, i)'
<1>0. Peer(x) \in Sides
  BY SidesPeer
<1>1. SameAt(x, i) /\ SameAt(Peer(x), i) /\ UNCHANGED sess /\ sess[x] = "closed"
  BY <1>0, LoseTailTyped DEF LoseTail, sessVars
<1>2. SenderSame(x, i) /\ ReceiverSame(Peer(x), i) /\ WriterAt(x, i)'
  BY <1>1, SameSender, SameReceiver DEF OrderAt, WriterAt, SameAt
<1>3. BufferAt(x, i)' /\ Received(Peer(x), i)' = Received(Peer(x), i)
  BY <1>2, SameBuffer DEF SenderSame
<1>q. PICK q \in Seq(Frame) : q = net[x]
  BY OrderTypes
<1>p. PICK p \in Seq(Frame) : p = net'[x]
  BY LoseTailTyped DEF Typed
<1>r. PICK r \in Nat : r = Received(Peer(x), i)
  BY <1>0, OrderTypes
<1>s. PICK s \in Nat : s = sent[x][i] /\ s = sent'[x][i]
  BY <1>2, OrderTypes DEF SenderSame
<1>4. /\ Len(q) \in Nat \ {0} /\ Len(p) = Len(q) - 1
      /\ \A k \in 1 .. Len(q) - 1 : p[k] = q[k]
  BY <1>q, <1>p, LoseTailTyped
<1>5. /\ Ordered(q, i, s) => Ordered(p, i, s)
      /\ Gapless(q, i, r) => Gapless(p, i, r)
      /\ CloseIsReset(q, i) => CloseIsReset(p, i)
      /\ CloseIsLast(q, i, r, s) => CloseIsLast(p, i, r, s)
  BY <1>4, FrontFlow
<1>6. FlowAt(x, i)'
  <2>1. Live(Peer(x), i)' => Live(Peer(x), i)
    BY <1>2 DEF ReceiverSame
  <2>2. st'[x][i].lwc = st[x][i].lwc
    BY <1>1 DEF SameAt
  <2>3. FlowAt(x, i)
    BY DEF OrderAt
  <2> QED BY <1>1, <1>3, <1>q, <1>p, <1>r, <1>s, <1>5, <2>1, <2>2, <2>3 DEF FlowAt
<1> QED BY <1>2, <1>3, <1>6 DEF OrderAt

-----------------------------------------------------------------------------
(* Every step keeps the order.                                             *)

LEMMA OrderHas == ASSUME OrderInv, NEW x \in Sides, NEW i \in Ids
                  PROVE  OrderAt(x, i) /\ WriterAt(x, i) /\ BufferAt(x, i)
BY DEF OrderInv, OrderAt

LEMMA OrderOne ==
    ASSUME Typed, OrderInv, NEW z \in Sides, NEW k \in Ids, Others(z, k),
           UNCHANGED <<net, sess>>, SenderSame(z, k), OrderAt(Peer(z), k)'
    PROVE  OrderInv'
<1>1. ASSUME NEW x \in Sides, NEW i \in Ids PROVE OrderAt(x, i)'
  <2>0. Peer(x) \in Sides /\ OrderAt(x, i) /\ WriterAt(x, i)
    BY SidesPeer, OrderHas
  <2>1. CASE x = Peer(z) /\ i = k
    BY <2>1
  <2>2. CASE ~(x = Peer(z) /\ i = k)
    <3>1. SameAt(Peer(x), i)
      BY <2>0, <2>2, SidesPeer DEF Others
    <3>2. ReceiverSame(Peer(x), i)
      BY <2>0, <3>1, SameReceiver
    <3>3. SenderSame(x, i)
      <4>1. CASE x = z /\ i = k
        BY <4>1
      <4>2. CASE ~(x = z /\ i = k)
        BY <2>0, <4>2, SameSender DEF Others
      <4> QED BY <4>1, <4>2
    <3> QED BY <2>0, <3>2, <3>3, OrderKept
  <2> QED BY <2>1, <2>2
<1> QED BY <1>1 DEF OrderInv

LEMMA OrderOneKept ==
    ASSUME Typed, OrderInv, NEW z \in Sides, NEW k \in Ids, Others(z, k),
           UNCHANGED <<net, sess>>, SenderSame(z, k), ReceiverSame(z, k)
    PROVE  OrderInv'
<1>0. Peer(z) \in Sides /\ Peer(z) # z /\ Peer(Peer(z)) = z
  BY SidesPeer
<1>1. OrderAt(Peer(z), k) /\ WriterAt(Peer(z), k) /\ SameAt(Peer(z), k)
  BY <1>0, OrderHas DEF Others
<1>2. SenderSame(Peer(z), k)
  BY <1>0, <1>1, SameSender
<1>3. OrderAt(Peer(z), k)'
  BY <1>0, <1>1, <1>2, OrderKept
<1> QED BY <1>3, OrderOne

(* closeNoSend.                                                            *)
LEMMA OrderClosed ==
    ASSUME Typed, OrderInv, NEW z \in Sides, NEW k \in Ids, Others(z, k),
           UNCHANGED <<net, sess, writer, sent, resets, got>>,
           NEW e \in Errors, st'[z][k] = closeNoSend(st[z][k], e), Made(z, k)
    PROVE  OrderInv'
<1>0. Peer(z) \in Sides /\ Peer(Peer(z)) = z
  BY SidesPeer
<1>1. /\ st'[z][k].made = st[z][k].made /\ st'[z][k].lrc = st[z][k].lrc
      /\ st'[z][k].lwc = st[z][k].lwc /\ st'[z][k].buf = st[z][k].buf /\ st'[z][k].closed
  BY StAt, CloseNoSendIs, ErrorsAt
<1>2. SenderSame(z, k)
  BY <1>1, OrderHas DEF SenderSame, WriterAt
<1>3. ReceiverSame(z, k)
  <2>1. \A n \in DOMAIN st[z][k].buf : st[z][k].buf[n] = Len(got[z][k]) + n
    BY <1>0, OrderHas DEF BufferAt
  <2>2. ~Live(z, k)' /\ ~Ended(st'[z][k])
    BY <1>1 DEF Live, Made, Ignores, Ended
  <2> QED BY <1>1, <2>1, <2>2 DEF ReceiverSame
<1> QED BY <1>2, <1>3, OrderOneKept

LEMMA OrderRegister ==
    ASSUME Typed, OrderInv, NEW z \in Sides, NEW k \in Ids, Registers(z, k)
    PROVE  SenderSame(z, k) /\ ReceiverSame(z, k)
<1>1. /\ st[z][k] = NoStream /\ st'[z][k] = newStream /\ ~Made(z, k)
      /\ writer[z][k] = NoWriter /\ got[z][k] = <<>>
      /\ UNCHANGED <<sess, writer, resets, sent, got>>
  BY DEF Registers, Untouched
<1>2. NoWriter.op = "none"
  BY DEF NoWriter
<1>3. /\ ~st[z][k].lwc /\ ~st'[z][k].lwc /\ st[z][k].buf = <<>> /\ st'[z][k].buf = <<>>
      /\ ~st'[z][k].rwc
  BY <1>1, NewStreams
<1>4. SenderSame(z, k)
  BY <1>1, <1>2, <1>3 DEF SenderSame
<1>5. Live(z, k) /\ ~Ended(st'[z][k])
  BY <1>1, <1>3 DEF Live, Ended
<1>6. \A n \in DOMAIN st'[z][k].buf : st'[z][k].buf[n] = Len(got'[z][k]) + n
  BY <1>3
<1>7. Len(got'[z][k]) + Len(st'[z][k].buf) = Len(got[z][k]) + Len(st[z][k].buf)
  BY <1>1, <1>3
<1> QED BY <1>4, <1>5, <1>6, <1>7 DEF ReceiverSame

LEMMA OrderSession ==
    ASSUME Typed, OrderInv, NEW z \in Sides, TakeStreams(z) \/ FinishClose(z)
    PROVE  OrderInv'
<1>0. /\ UNCHANGED <<net, st, writer, sent, resets, got>>
      /\ \A x \in Sides : sess[x] = "closed" => sess'[x] = "closed"
      /\ \A x \in Sides : streams'[x] \subseteq streams[x]
  BY DEF TakeStreams, FinishClose, appVars, Typed
<1>1. ASSUME NEW x \in Sides, NEW i \in Ids PROVE OrderAt(x, i)'
  <2>0. Peer(x) \in Sides /\ OrderAt(x, i) /\ WriterAt(x, i) /\ BufferAt(x, i)
    BY SidesPeer, OrderHas
  <2>1. SenderSame(x, i)
    BY <1>0, <2>0 DEF SenderSame, WriterAt
  <2>2. Live(Peer(x), i)' => Live(Peer(x), i)
    BY <1>0, <2>0 DEF Live, Made, Ignores
  <2>3. ReceiverSame(Peer(x), i)
    BY <1>0, <2>0, <2>2 DEF ReceiverSame, BufferAt
  <2> QED BY <1>0, <2>0, <2>1, <2>3, OrderKept
<1> QED BY <1>1 DEF OrderInv

LEMMA OrderIdle ==
    ASSUME Typed, OrderInv, UNCHANGED <<net, sess, st, streams, writer, sent, resets, got>>
    PROVE  OrderInv'
<1>1. ASSUME NEW x \in Sides, NEW i \in Ids PROVE OrderAt(x, i)'
  <2>0. Peer(x) \in Sides /\ OrderAt(x, i) /\ WriterAt(x, i) /\ BufferAt(x, i)
    BY SidesPeer, OrderHas
  <2>1. SenderSame(x, i)
    BY <2>0 DEF SenderSame, WriterAt
  <2>2. Live(Peer(x), i)' => Live(Peer(x), i)
    BY <2>0 DEF Live, Made, Ignores
  <2>3. ReceiverSame(Peer(x), i)
    BY <2>0, <2>2 DEF ReceiverSame, BufferAt
  <2> QED BY <2>0, <2>1, <2>3, OrderKept
<1> QED BY <1>1 DEF OrderInv

LEMMA OrderLose ==
    ASSUME Typed, OrderInv, NEW z \in Sides, LoseTail(z)
    PROVE  OrderInv'
<1>1. ASSUME NEW x \in Sides, NEW i \in Ids PROVE OrderAt(x, i)'
  <2>0. Peer(x) \in Sides /\ OrderAt(x, i) /\ WriterAt(x, i)
    BY SidesPeer, OrderHas
  <2>1. CASE x = z
    BY <2>0, <2>1, OrderLost
  <2>2. CASE x = Peer(z)
    <3>1. SameAt(x, i) /\ SameAt(Peer(x), i) /\ UNCHANGED sess /\ net'[x] = net[x]
      BY <2>0, <2>2, LoseTailTyped DEF LoseTail, sessVars
    <3> QED BY <2>0, <3>1, SameSender, SameReceiver, OrderKept
  <2> QED BY <2>1, <2>2, MadeSides
<1> QED BY <1>1 DEF OrderInv

(* A goroutine of z sends a frame of stream k.                             *)
LEMMA OrderSends ==
    ASSUME Typed, OrderInv, NEW z \in Sides, NEW k \in Ids, NEW f \in Frame, f.id = k,
           Send(z, f), sess[z] # "closed", UNCHANGED <<sess, st, streams, got>>,
           Others(z, k), WriterAt(z, k)',
           IF f.type = "data"
           THEN f.chunk = sent[z][k] + 1 /\ sent'[z][k] = sent[z][k] + 1 /\ ~st[z][k].lwc
           ELSE sent'[z][k] = sent[z][k],
           f.type = "close" => st[z][k].lwc \/ resets[z][k] = 1,
           resets'[z][k] = 1 => resets[z][k] = 1 \/ f.type = "reset"
    PROVE  OrderInv'
<1>1. ASSUME NEW x \in Sides, NEW i \in Ids PROVE OrderAt(x, i)'
  <2>0. Peer(x) \in Sides /\ OrderAt(x, i) /\ WriterAt(x, i) /\ BufferAt(x, i)
    BY SidesPeer, OrderHas
  <2>1. CASE x = z /\ i = k
    BY <2>0, <2>1, OrderSent DEF Is
  <2>2. CASE x = z /\ i # k
    <3>1. SameAt(z, i)
      BY <2>2 DEF Others
    <3>2. WriterAt(z, i)' /\ sent'[z][i] = sent[z][i] /\ resets'[z][i] = resets[z][i]
      BY <2>0, <2>2, <3>1 DEF SameAt, WriterAt
    <3>3. ~Is(f, "data", i) /\ ~Is(f, "close", i)
      BY <2>2 DEF Is
    <3> QED BY <2>0, <2>2, <3>2, <3>3, OrderSent
  <2>3. CASE x = Peer(z)
    <3>1. SameAt(x, i) /\ net'[x] = net[x] /\ Peer(x) = z
      BY <2>3, SidesPeer, SendIs DEF Others
    <3>2. SenderSame(x, i)
      BY <2>0, <3>1, SameSender
    <3>3. Live(Peer(x), i)' => Live(Peer(x), i)
      BY DEF Live, Made, Ignores
    <3>4. ReceiverSame(Peer(x), i)
      BY <2>0, <3>3 DEF ReceiverSame, BufferAt
    <3> QED BY <2>0, <3>1, <3>2, <3>4, OrderKept
  <2> QED BY <2>1, <2>2, <2>3, MadeSides
<1> QED BY <1>1 DEF OrderInv

LEMMA OrderWriter ==
    ASSUME Typed, FreshInv, OrderInv, NEW z \in Sides, NEW k \in Ids,
           WriterStep(z, k) \/ SendReset(z, k)
    PROVE  OrderInv'
<1>0. /\ Others(z, k) /\ UNCHANGED <<sess, st, got>>
      /\ OrderAt(z, k) /\ WriterAt(z, k) /\ OrderAt(Peer(z), k) /\ BufferAt(Peer(z), k)
      /\ Peer(z) \in Sides /\ Peer(Peer(z)) = z
  BY SendersAct, OrderHas, SidesPeer
     DEF Acts, WriterStep, WriteChunk, SendClose, Forget, SendReset, sessVars, appVars
<1>n. NoWriter.op = "none"
  BY DEF NoWriter
<1>r. ASSUME streams'[z] \subseteq streams[z] PROVE ReceiverSame(z, k)
  <2>1. Live(z, k)' => Live(z, k)
    BY <1>0, <1>r DEF Live, Made, Ignores
  <2> QED BY <1>0, <2>1 DEF ReceiverSame, BufferAt
<1>1. CASE WriteChunk(z, k)
  <2>1. /\ UNCHANGED <<streams, resets>> /\ writer[z][k].op = "write"
        /\ writer'[z][k].op \in {"none", "write"}
    BY <1>1, WriteChunkTyped DEF WriteChunk
  <2>2. ~st[z][k].lwc
    BY <1>0, <2>1 DEF WriterAt
  <2>3. WriterAt(z, k)'
    BY <1>0, <2>1, <2>2 DEF WriterAt
  <2>4. CASE sess[z] = "closed" /\ UNCHANGED <<net, sent>>
    <3>1. SenderSame(z, k)
      BY <1>0, <2>1, <2>3, <2>4 DEF SenderSame, WriterAt
    <3> QED BY <1>0, <1>r, <2>1, <2>4, <3>1, OrderOneKept
  <2>5. CASE /\ sent[z][k] + 1 \in Chunks /\ sess[z] # "closed"
             /\ Send(z, [type |-> "data", id |-> k, chunk |-> sent[z][k] + 1])
             /\ sent'[z][k] = sent[z][k] + 1
    <3>1. PICK f \in Frame : /\ f = [type |-> "data", id |-> k, chunk |-> sent[z][k] + 1]
                             /\ f.type = "data" /\ f.id = k /\ f.chunk = sent[z][k] + 1
      BY <2>5, MadeFrames
    <3>2. Send(z, f)
      BY <2>5, <3>1
    <3> QED BY <1>0, <2>1, <2>2, <2>3, <2>5, <3>1, <3>2, OrderSends
  <2> QED BY <1>1, <2>4, <2>5, WriteChunkTyped
<1>2. CASE SendClose(z, k)
  <2>1. UNCHANGED <<streams, resets, sent>> /\ writer[z][k].op \in {"close", "closeWrite"}
    BY <1>2 DEF SendClose, appVars
  <2>2. st[z][k].lwc /\ writer'[z][k].op \in {"none", "forget"}
    <3>1. writer'[z][k] \in {[op |-> "forget"], NoWriter}
      BY <1>2, SendCloseTyped
    <3> QED BY <1>0, <1>n, <2>1, <3>1 DEF WriterAt
  <2>3. WriterAt(z, k)'
    BY <1>0, <2>2 DEF WriterAt
  <2>4. CASE UNCHANGED net
    <3>1. SenderSame(z, k)
      BY <1>0, <2>1, <2>3 DEF SenderSame, WriterAt
    <3> QED BY <1>0, <1>r, <2>1, <2>4, <3>1, OrderOneKept
  <2>5. CASE CanSend(z) /\ Send(z, Control("close", k))
    <3>1. PICK f \in Frame : f = Control("close", k) /\ f.type = "close" /\ f.id = k
      BY MadeFrames
    <3>2. Send(z, f) /\ sess[z] # "closed"
      BY <2>5, <3>1 DEF CanSend, IsClosed
    <3> QED BY <1>0, <2>1, <2>2, <2>3, <3>1, <3>2, OrderSends
  <2> QED BY <1>2, <2>4, <2>5 DEF SendClose
<1>3. CASE Forget(z, k)
  <2>1. UNCHANGED <<net, resets, sent>>
    BY <1>3 DEF Forget, appVars
  <2>2. writer'[z][k] = NoWriter /\ streams'[z] = streams[z] \ {k}
    BY <1>3, ForgetTyped
  <2>3. SenderSame(z, k)
    BY <1>0, <1>n, <2>1, <2>2 DEF SenderSame
  <2> QED BY <1>0, <1>r, <2>1, <2>2, <2>3, OrderOneKept
<1>4. CASE SendReset(z, k)
  <2>1. /\ UNCHANGED <<streams, writer, sent>> /\ resets[z][k] \in {1, 2}
        /\ resets'[z][k] = resets[z][k] - 1
    BY <1>4 DEF SendReset, appVars, Typed
  <2>2. WriterAt(z, k)'
    BY <1>0, <2>1 DEF WriterAt
  <2>3. CASE SendFails(z) /\ UNCHANGED net
    <3>1. sess[z] = "closed"
      BY <2>3 DEF SendFails, IsClosed
    <3>2. SenderSame(z, k)
      BY <1>0, <2>1, <3>1 DEF SenderSame, WriterAt
    <3> QED BY <1>0, <1>r, <2>1, <2>3, <3>2, OrderOneKept
  <2>4. CASE CanSend(z) /\ Send(z, Control(IF resets[z][k] = 2 THEN "reset" ELSE "close", k))
    <3>1. PICK f \in Frame : /\ f = Control(IF resets[z][k] = 2 THEN "reset" ELSE "close", k)
                             /\ f.id = k
                             /\ f.type = IF resets[z][k] = 2 THEN "reset" ELSE "close"
      BY MadeFrames
    <3>2. Send(z, f) /\ sess[z] # "closed"
      BY <2>4, <3>1 DEF CanSend, IsClosed
    <3>3. f.type # "data" /\ (f.type = "close" => resets[z][k] = 1)
          /\ (resets'[z][k] = 1 => f.type = "reset")
      BY <2>1, <3>1
    <3> QED BY <1>0, <2>1, <2>2, <3>1, <3>2, <3>3, OrderSends
  <2> QED BY <1>4, <2>3, <2>4 DEF SendReset
<1> QED BY <1>1, <1>2, <1>3, <1>4 DEF WriterStep

LEMMA OrderOpen ==
    ASSUME Typed, FreshInv, OpeningInv, OrderInv, NEW k \in Ids,
           OpenSend(k) \/ QueueAccept(k)
    PROVE  OrderInv'
<1> USE MadeSides
<1>0. UNCHANGED <<sess, writer, sent, resets, got>>
  BY DEF OpenSend, QueueAccept, sessVars, appVars
<1>1. CASE OpenSend(k)
  <2>0. Others("client", k) /\ Made("client", k)
    BY <1>1, OpenersAct DEF Acts
  <2>1. CASE /\ CanSend("client") /\ Send("client", Control("open", k))
             /\ UNCHANGED <<streams, st>>
    <3>1. PICK f \in Frame : f = Control("open", k) /\ f.type = "open" /\ f.id = k
      BY MadeFrames
    <3>2. Send("client", f) /\ sess["client"] # "closed"
      BY <2>1, <3>1 DEF CanSend, IsClosed
    <3>3. WriterAt("client", k)'
      BY <1>0, <2>1, OrderHas DEF WriterAt
    <3> QED BY <1>0, <2>0, <2>1, <3>1, <3>2, <3>3, OrderSends
  <2>2. CASE /\ st' = [st EXCEPT !["client"][k] = closeNoSend(st["client"][k], closeErr["client"])]
             /\ UNCHANGED net
    <3>1. st'["client"][k] = closeNoSend(st["client"][k], closeErr["client"])
      BY <2>2 DEF Typed
    <3> QED BY <1>0, <2>0, <2>2, <3>1, OrderClosed, ErrorsAt
  <2> QED BY <1>1, <2>1, <2>2 DEF OpenSend
<1>2. CASE QueueAccept(k)
  <2>0. Others("server", k) /\ Made("server", k) /\ UNCHANGED net
    BY <1>2, OpenersAct DEF Acts, QueueAccept
  <2>1. CASE UNCHANGED <<streams, st>>
    BY <1>0, <2>0, <2>1, OrderIdle
  <2>2. CASE st' = [st EXCEPT !["server"][k] = closeNoSend(st["server"][k], "other")]
    <3>1. st'["server"][k] = closeNoSend(st["server"][k], "other")
      BY <2>2 DEF Typed
    <3> QED BY <1>0, <2>0, <3>1, OrderClosed, ErrorsAt
  <2> QED BY <1>2, <2>1, <2>2 DEF QueueAccept
<1> QED BY <1>1, <1>2

(* What is read from the buffer is the next chunk.                         *)
LEMMA NextRead ==
    ASSUME NEW b \in Seq(Chunks), b # <<>>, NEW g \in Seq(Chunks),
           NEW h, h = Append(g, Head(b)), \A n \in DOMAIN b : b[n] = Len(g) + n
    PROVE  /\ Len(h) + Len(Tail(b)) = Len(g) + Len(b)
           /\ \A n \in DOMAIN Tail(b) : Tail(b)[n] = Len(h) + n
           /\ Head(b) = Len(g) + 1 /\ Len(g) + 1 <= Len(g) + Len(b)
<1>1. /\ Len(b) \in Nat \ {0} /\ Len(g) \in Nat /\ Len(h) = Len(g) + 1
      /\ Len(Tail(b)) = Len(b) - 1 /\ Head(b) = b[1] /\ 1 \in DOMAIN b
      /\ DOMAIN Tail(b) = 1 .. Len(b) - 1
      /\ \A n \in 1 .. Len(b) - 1 : Tail(b)[n] = b[n + 1] /\ n + 1 \in DOMAIN b
  OBVIOUS
<1>l. PICK l \in Nat : l = Len(g)
  BY <1>1
<1>m. PICK m \in Nat : m = Len(b)
  BY <1>1
<1>2. l = Len(g) /\ m = Len(b) /\ m > 0
  BY <1>1, <1>l, <1>m
<1>3. \A n \in 1 .. m - 1 : Tail(b)[n] = (l + 1) + n
  <2>1. ASSUME NEW n \in 1 .. m - 1 PROVE Tail(b)[n] = (l + 1) + n
    <3>1. Tail(b)[n] = b[n + 1] /\ n + 1 \in DOMAIN b
      BY <1>1, <1>m
    <3>2. \A j \in DOMAIN b : b[j] = l + j
      BY <1>l
    <3>3. b[n + 1] = l + (n + 1)
      BY <3>1, <3>2
    <3> QED BY <3>1, <3>3
  <2> QED BY <2>1
<1>4. (l + 1) + (m - 1) = l + m /\ l + 1 <= l + m
  BY <1>2
<1>5. Head(b) = l + 1
  BY <1>1, <1>2
<1> QED BY <1>1, <1>2, <1>3, <1>4, <1>5

LEMMA OrderApp ==
    ASSUME Typed, QueueAccounted, FreshInv, OrderInv, NEW z \in Sides, NEW k \in Ids,
           AppStep(z, k)
    PROVE  OrderInv'
<1>0. /\ Others(z, k) /\ UNCHANGED <<net, sess, resets, sent>> /\ Made(z, k) /\ Made(z, k)'
      /\ OrderAt(z, k) /\ WriterAt(z, k)
      /\ Peer(z) \in Sides /\ Peer(Peer(z)) = z /\ Peer(z) # z
      /\ OrderAt(Peer(z), k) /\ BufferAt(Peer(z), k) /\ WriterAt(Peer(z), k)
      /\ SameAt(Peer(z), k)
  <2>1. /\ Others(z, k) /\ Made(z, k) /\ Made(z, k)'
    BY AppActs DEF Acts
  <2>2. Peer(z) \in Sides /\ Peer(Peer(z)) = z /\ Peer(z) # z
    BY SidesPeer
  <2>3. UNCHANGED <<net, sess, resets, sent>>
    BY DEF AppStep, ReadData, ReadEOF, Write, Close, CloseWrite, CloseRead, sessVars, appVars
  <2>4. SameAt(Peer(z), k)
    BY <2>1, <2>2 DEF Others
  <2> QED BY <2>1, <2>2, <2>3, <2>4, OrderHas
<1>1. CASE ReadData(z, k)
  <2>1. /\ UNCHANGED <<streams, writer>> /\ st[z][k].buf # <<>> /\ st[z][k].queued > 0
        /\ st'[z][k] = dequeue(st[z][k])
        /\ got'[z][k] = Append(got[z][k], Head(st[z][k].buf))
    <3>1. st'[z][k] = dequeue(st[z][k]) /\ st[z][k].queued > 0
      BY <1>1, ReadDataTyped
    <3>2. UNCHANGED <<streams, writer>> /\ st[z][k].buf # <<>>
      BY <1>1 DEF ReadData
    <3>3. got \in [Sides -> [Ids -> Seq(Chunks)]]
      BY DEF Typed
    <3>4. got'[z][k] = Append(got[z][k], Head(st[z][k].buf))
      BY <1>1, <3>3 DEF ReadData
    <3> QED BY <3>1, <3>2, <3>4
  <2>2. /\ st'[z][k].made = st[z][k].made /\ st'[z][k].closed = st[z][k].closed
        /\ st'[z][k].lrc = st[z][k].lrc /\ st'[z][k].lwc = st[z][k].lwc
        /\ st'[z][k].rwc = st[z][k].rwc /\ st'[z][k].buf = Tail(st[z][k].buf)
    BY <2>1, StAt, DequeueIs
  <2>3. SenderSame(z, k)
    BY <1>0, <2>1, <2>2 DEF SenderSame, WriterAt
  <2>4. ReceiverSame(z, k)
    <3>1. PICK b \in Seq(Chunks), g \in Seq(Chunks) : b = st[z][k].buf /\ g = got[z][k]
      BY OrderTypes
    <3>2. \A n \in DOMAIN b : b[n] = Len(g) + n
      BY <1>0, <3>1 DEF BufferAt
    <3>3. PICK h : h = Append(g, Head(b)) /\ h = got'[z][k]
      BY <2>1, <3>1
    <3>4. /\ Len(h) + Len(Tail(b)) = Len(g) + Len(b)
          /\ \A n \in DOMAIN Tail(b) : Tail(b)[n] = Len(h) + n
      <4>1. b # <<>> /\ h = Append(g, Head(b))
        BY <2>1, <3>1, <3>3
      <4> QED BY <3>2, <4>1, NextRead
    <3>5. Live(z, k)' => Live(z, k)
      BY <2>1, <2>2 DEF Live, Made, Ignores
    <3>6. Ended(st'[z][k]) => Ended(st[z][k])
      BY <2>2 DEF Ended
    <3> QED BY <2>2, <3>1, <3>3, <3>4, <3>5, <3>6 DEF ReceiverSame
  <2> QED BY <1>0, <2>3, <2>4, OrderOneKept
<1>2. CASE ReadEOF(z, k)
  BY <1>0, <1>2, OrderIdle DEF ReadEOF
<1>3. CASE \E n \in Chunks : Write(z, k, n)
  <2>1. PICK n \in Chunks : Write(z, k, n)
    BY <1>3
  <2>2. writer'[z][k].op = "write" /\ UNCHANGED <<streams, st, got>> /\ ~st[z][k].lwc
    <3>1. writer'[z][k] = [op |-> "write", left |-> n]
      BY <2>1, WriteTyped
    <3> QED BY <2>1, <3>1 DEF Write, appVars
  <2>3. SenderSame(z, k)
    BY <1>0, <2>2 DEF SenderSame
  <2>4. Live(z, k)' => Live(z, k)
    BY <2>2 DEF Live, Made, Ignores
  <2>5. ReceiverSame(z, k)
    BY <1>0, <2>2, <2>4 DEF ReceiverSame, BufferAt
  <2> QED BY <1>0, <2>3, <2>5, OrderOneKept
<1>4. ASSUME st'[z][k].lrc, st'[z][k].buf = <<>>, got' = got, SenderSame(z, k)
      PROVE  OrderInv'
  <2>1. SenderSame(Peer(z), k)
    BY <1>0, SameSender
  <2>2. ~Live(z, k)' /\ ~Ended(st'[z][k])
    BY <1>0, <1>4 DEF Live, Made, Ignores, Ended
  <2>3. Ordered(net'[Peer(z)], k, sent[Peer(z)][k])
    BY <1>0 DEF OrderAt, FlowAt
  <2>4. Len(got'[z][k]) + Len(st'[z][k].buf) <= sent[Peer(z)][k]
    <3>1. got[z][k] \in Seq(Chunks) /\ st[z][k].buf \in Seq(Chunks)
          /\ Len(got[z][k]) + Len(st[z][k].buf) <= sent[Peer(z)][k]
      BY <1>0, OrderTypes DEF BufferAt
    <3>2. PICK a \in Nat, b \in Nat, s \in Nat :
             a = Len(got[z][k]) /\ b = Len(st[z][k].buf) /\ s = sent[Peer(z)][k] /\ a + b <= s
      <4>1. Len(got[z][k]) \in Nat /\ Len(st[z][k].buf) \in Nat
        BY <3>1
      <4>2. sent[Peer(z)][k] \in Nat
        BY <1>0, OrderTypes
      <4> QED BY <3>1, <4>1, <4>2
    <3>3. Len(got'[z][k]) = a /\ Len(st'[z][k].buf) = 0
      BY <1>4, <3>2
    <3>4. a + b <= s
      BY <3>2
    <3>5. a + 0 <= s
      BY <3>4
    <3> QED BY <3>2, <3>3, <3>5
  <2>5. \A n \in DOMAIN st'[z][k].buf : st'[z][k].buf[n] = Len(got'[z][k]) + n
    BY <1>4
  <2>6. OrderAt(Peer(z), k)'
    BY <1>0, <2>1, <2>2, <2>3, <2>4, <2>5, OrderGone
  <2> QED BY <1>0, <1>4, <2>6, OrderOne
<1>5. CASE Close(z, k)
  <2>1. /\ st'[z][k].lrc /\ st'[z][k].lwc /\ st'[z][k].buf = <<>>
        /\ writer'[z][k].op \in {"close", "forget"}
    BY <1>5, CloseFields, CloseTyped
  <2>2. got' = got
    BY <1>5 DEF Close, appVars
  <2>3. SenderSame(z, k)
    BY <1>0, <2>1 DEF SenderSame
  <2> QED BY <1>4, <2>1, <2>2, <2>3
<1>6. CASE CloseRead(z, k)
  <2>1. /\ st'[z][k].lrc /\ st'[z][k].lwc = st[z][k].lwc /\ st'[z][k].buf = <<>>
    BY <1>6, CloseReadFields
  <2>2. got' = got /\ writer' = writer
    BY <1>6 DEF CloseRead, appVars
  <2>3. SenderSame(z, k)
    BY <1>0, <2>1, <2>2 DEF SenderSame, WriterAt
  <2> QED BY <1>4, <2>1, <2>2, <2>3
<1>7. CASE CloseWrite(z, k)
  <2>1. /\ st'[z][k].made = st[z][k].made /\ st'[z][k].closed = st[z][k].closed
        /\ st'[z][k].lrc = st[z][k].lrc /\ st'[z][k].rwc = st[z][k].rwc
        /\ st'[z][k].buf = st[z][k].buf /\ st'[z][k].lwc
    BY <1>7, CloseWriteFields
  <2>2. writer'[z][k].op = "closeWrite"
    <3>1. writer'[z][k] = [op |-> "closeWrite", remove |-> st[z][k].rwc \/ st[z][k].lrc]
      BY <1>7, CloseWriteTyped
    <3> QED BY <3>1
  <2>3. got' = got /\ streams' = streams
    BY <1>7 DEF CloseWrite, appVars
  <2>4. SenderSame(z, k)
    BY <1>0, <2>1, <2>2 DEF SenderSame
  <2>5. Live(z, k)' => Live(z, k)
    BY <2>1, <2>3 DEF Live, Made, Ignores
  <2>6. Ended(st'[z][k]) => Ended(st[z][k])
    BY <2>1 DEF Ended
  <2>7. ReceiverSame(z, k)
    BY <1>0, <2>1, <2>3, <2>5, <2>6 DEF ReceiverSame, BufferAt
  <2> QED BY <1>0, <2>4, <2>7, OrderOneKept
<1> QED BY <1>1, <1>2, <1>3, <1>5, <1>6, <1>7 DEF AppStep

(* A frame other than an open frame finds its stream made: the open frame  *)
(* was ahead of it.                                                        *)
LEMMA FrameMade ==
    ASSUME Typed, OpeningInv, OpenInv, NEW z \in Sides, ReadFrame(z), NEW k \in Ids,
           k = Head(net[Peer(z)]).id, Head(net[Peer(z)]).type # "open"
    PROVE  Made(z, k)
<1>0. /\ net[Peer(z)][1].id = k /\ net[Peer(z)][1].type # "open" /\ 1 \in DOMAIN net[Peer(z)]
      /\ Len(net[Peer(z)]) \in Nat
  BY FrameRead
<1>1. CASE z = "client"
  <2>1. Made("server", k)
    BY <1>0, <1>1 DEF Peer, OpenInv
  <2> QED BY <1>1, <2>1 DEF OpeningInv, OpeningAt
<1>2. CASE z = "server"
  <2>0. Peer(z) = "client"
    BY <1>2 DEF Peer
  <2>1. \/ Made("server", k)
        \/ \E j \in DOMAIN net["client"] : j <= 1 /\ IsFrame("client", j, "open", k)
    BY <1>0, <2>0 DEF OpenInv
  <2>2. \A j \in DOMAIN net["client"] : j <= 1 => j = 1
    <3>1. net["client"] \in Seq(Frame)
      BY MadeSides DEF Typed
    <3> QED BY <3>1
  <2>3. ~IsFrame("client", 1, "open", k)
    BY <1>0, <2>0 DEF IsFrame
  <2> QED BY <1>2, <2>1, <2>2, <2>3
<1> QED BY <1>1, <1>2 DEF Sides

(* Side z reads a frame of stream k: only the way to z changes.            *)
LEMMA OrderReadOne ==
    ASSUME Typed, OrderInv, NEW z \in Sides, ReadFrame(z), NEW k \in Ids,
           k = net[Peer(z)][1].id, Others(z, k), SenderSame(z, k), OrderAt(Peer(z), k)'
    PROVE  OrderInv'
<1>0. /\ Peer(z) \in Sides /\ Peer(z) # z /\ Peer(Peer(z)) = z
      /\ net[Peer(z)] # <<>> /\ net'[z] = net[z] /\ net'[Peer(z)] = Tail(net[Peer(z)])
      /\ UNCHANGED sess
  <2>1. Peer(z) \in Sides /\ Peer(z) # z /\ Peer(Peer(z)) = z
    BY SidesPeer
  <2>2. net[Peer(z)] # <<>> /\ net'[Peer(z)] = Tail(net[Peer(z)])
    BY <2>1 DEF ReadFrame, Typed
  <2> QED BY <2>1, <2>2, FrameRead
<1>1. ASSUME NEW x \in Sides, NEW i \in Ids PROVE OrderAt(x, i)'
  <2>0. OrderAt(x, i) /\ WriterAt(x, i) /\ (x = z \/ x = Peer(z))
    BY <1>0, OrderHas DEF Sides, Peer
  <2>1. CASE x = z
    <3>1. SenderSame(x, i)
      <4>1. CASE i = k
        BY <2>1, <4>1
      <4>2. CASE i # k
        BY <1>0, <2>0, <4>2, SameSender DEF Others
      <4> QED BY <4>1, <4>2
    <3>2. SameAt(Peer(x), i)
      BY <1>0, <2>1 DEF Others
    <3>3. ReceiverSame(Peer(x), i)
      BY <2>0, <3>2, SameReceiver
    <3> QED BY <1>0, <2>0, <2>1, <3>1, <3>3, OrderKept
  <2>2. CASE x = Peer(z) /\ i # k
    <3>1. SameAt(x, i) /\ SameAt(Peer(x), i)
      BY <1>0, <2>2 DEF Others
    <3>2. SenderSame(x, i) /\ ReceiverSame(Peer(x), i)
      BY <1>0, <2>0, <3>1, SameSender, SameReceiver
    <3>3. ~Is(net[x][1], "data", i) /\ ~Is(net[x][1], "reset", i)
      BY <2>2 DEF Is
    <3> QED BY <1>0, <2>0, <2>2, <3>2, <3>3, OrderPassed
  <2>3. CASE x = Peer(z) /\ i = k
    BY <2>3
  <2> QED BY <2>0, <2>1, <2>2, <2>3
<1> QED BY <1>1 DEF OrderInv

LEMMA OrderRead ==
    ASSUME Typed, FreshInv, OpeningInv, OpenInv, OrderInv, NEW z \in Sides, ReadFrame(z)
    PROVE  OrderInv'
<1> DEFINE x == Peer(z)
<1>f. PICK f \in Frame : f = Head(net[x]) /\ f = net[x][1]
  BY FrameRead
<1>k. PICK k \in Ids : k = f.id
  BY FrameFields
<1>0. /\ x \in Sides /\ x # z /\ Peer(x) = z
      /\ net[x] # <<>> /\ net'[x] = Tail(net[x])
      /\ UNCHANGED <<sess, writer, sent, got>>
  <2>1. x \in Sides /\ x # z /\ Peer(x) = z
    BY SidesPeer
  <2>2. net[x] # <<>> /\ net'[x] = Tail(net[x])
    BY <2>1 DEF ReadFrame, Typed
  <2> QED BY <2>1, <2>2, FrameRead
<1>t. f.type \in {"open", "data", "close", "reset"} /\ k = net[x][1].id
  BY <1>f, <1>k, FrameFields
<1>1. /\ OrderAt(x, k) /\ BufferAt(x, k) /\ WriterAt(x, k) /\ WriterAt(z, k)
      /\ st[z][k] \in StreamType /\ Received(z, k) \in Nat /\ sent[x][k] \in Nat
      /\ net[x] \in Seq(Frame)
  BY <1>0, OrderHas, OrderTypes, StAt
<1>2. ASSUME Others(z, k) PROVE SenderSame(x, k)
  <2>1. SameAt(x, k)
    BY <1>0, <1>2 DEF Others
  <2> QED BY <1>0, <1>1, <2>1, SameSender
<1>3. ASSUME st'[z][k].lwc = st[z][k].lwc, resets'[z][k] \in {resets[z][k], 2}
      PROVE  SenderSame(z, k)
  BY <1>0, <1>1, <1>3 DEF SenderSame, WriterAt
<1>4. Ordered(net'[x], k, sent[x][k])
  <2>1. Ordered(net[x], k, sent[x][k])
    BY <1>1 DEF OrderAt, FlowAt
  <2> QED BY <1>0, <1>1, <2>1, TailOrdered
<1>5. ASSUME Others(z, k), st'[z][k].lwc = st[z][k].lwc, resets'[z][k] \in {resets[z][k], 2},
             st'[z][k].buf = st[z][k].buf, ~Live(z, k)',
             Ended(st'[z][k]) => st[x][k].lwc /\ Received(z, k) = sent[x][k]
      PROVE  OrderInv'
  <2>1. /\ \A n \in DOMAIN st'[z][k].buf : st'[z][k].buf[n] = Len(got'[z][k]) + n
        /\ Received(z, k) <= sent[x][k]
    BY <1>0, <1>1, <1>5 DEF BufferAt
  <2>2. Len(got'[z][k]) + Len(st'[z][k].buf) = Received(z, k)
    BY <1>0, <1>5 DEF Received
  <2>3. SenderSame(x, k)
    BY <1>2, <1>5
  <2>4. OrderAt(x, k)'
    BY <1>0, <1>1, <1>4, <1>5, <2>1, <2>2, <2>3, OrderGone
  <2> QED BY <1>3, <1>5, <1>t, <2>4, OrderReadOne
<1>6. ASSUME Others(z, k), st'[z][k] = st[z][k], resets'[z][k] = resets[z][k],
             k \in streams'[z] => k \in streams[z],
             Is(f, "data", k) \/ Is(f, "reset", k) => ~Live(z, k)'
      PROVE  OrderInv'
  <2>1. ReceiverSame(z, k)
    <3>1. \A n \in DOMAIN st[z][k].buf : st[z][k].buf[n] = Len(got[z][k]) + n
      BY <1>0, <1>1 DEF BufferAt
    <3>2. Live(z, k)' => Live(z, k)
      BY <1>6 DEF Live, Made
    <3> QED BY <1>0, <1>6, <3>1, <3>2 DEF ReceiverSame
  <2>2. SenderSame(x, k) /\ SenderSame(z, k)
    BY <1>2, <1>3, <1>6
  <2>3. Is(net[x][1], "data", k) \/ Is(net[x][1], "reset", k) => ~Live(z, k)'
    BY <1>6, <1>f
  <2>4. OrderAt(x, k)'
    BY <1>0, <1>1, <2>1, <2>2, <2>3, OrderPassed
  <2> QED BY <1>6, <1>t, <2>2, <2>4, OrderReadOne
<1>7. CASE f.type = "open"
  <2>1. Registers(z, k)
    BY <1>f, <1>k, <1>7, ReadOpenRegisters
  <2>2. SenderSame(z, k) /\ ReceiverSame(z, k) /\ Others(z, k)
    BY <2>1, OrderRegister DEF Registers
  <2>3. ~Is(net[x][1], "data", k) /\ ~Is(net[x][1], "reset", k)
    BY <1>f, <1>7 DEF Is
  <2>4. SenderSame(x, k)
    BY <1>2, <2>2
  <2>5. OrderAt(x, k)'
    BY <1>0, <1>1, <2>2, <2>3, <2>4, OrderPassed
  <2> QED BY <1>t, <2>2, <2>5, OrderReadOne
<1>m. ASSUME f.type # "open" PROVE Made(z, k)
  BY <1>f, <1>k, <1>m, FrameMade
<1>8. CASE f.type = "data"
  <2>0. PICK c \in Chunks : c = f.chunk
    BY <1>8, FrameFields
  <2>1. HandleData(z, k, c) /\ Others(z, k) /\ Made(z, k)
    BY <1>f, <1>k, <1>8, <1>m, <2>0, ReadDataFrameTyped
  <2>2. CASE (~getStream(z, k) \/ Ignores(st[z][k])) /\ UNCHANGED <<streams, st, resets>>
    <3>1. ~Live(z, k)'
      BY <2>1, <2>2 DEF Live, Made, getStream, Ignores
    <3> QED BY <1>6, <2>1, <2>2, <3>1
  <2>3. CASE /\ getStream(z, k) /\ ~Ignores(st[z][k])
             /\ st' = [st EXCEPT ![z][k] = enqueue(st[z][k], c)]
             /\ UNCHANGED <<streams, resets>>
    <3>0. st[z][k] \in StreamType
      BY <1>1
    <3>1. st'[z][k] = enqueue(st[z][k], c)
      BY <2>3 DEF Typed
    <3>2. /\ st'[z][k].closed = st[z][k].closed
          /\ st'[z][k].lrc = st[z][k].lrc /\ st'[z][k].lwc = st[z][k].lwc
          /\ st'[z][k].rwc = st[z][k].rwc /\ st'[z][k].buf = Append(st[z][k].buf, c)
      BY <3>0, <3>1, EnqueueIs
    <3>3. SenderSame(z, k) /\ SenderSame(x, k)
      BY <1>2, <1>3, <2>1, <2>3, <3>2
    <3>4. Live(z, k) /\ ~Ended(st[z][k]) /\ (Ended(st'[z][k]) => Ended(st[z][k]))
      BY <2>3, <3>2 DEF Live, getStream, Ignores, Ended
    <3>5. Is(net[x][1], "data", k) /\ c = net[x][1].chunk
      BY <1>f, <1>k, <1>8, <2>0 DEF Is
    <3>6. OrderAt(x, k)'
      BY <1>0, <1>1, <3>2, <3>3, <3>4, <3>5, OrderTaken
    <3> QED BY <1>t, <2>1, <3>3, <3>6, OrderReadOne
  <2>4. CASE /\ st' = [st EXCEPT ![z][k] = closeNoSend(st[z][k], "other")]
             /\ removeStream(z, k) /\ resets' = [resets EXCEPT ![z][k] = 2]
    <3>1. st'[z][k] = closeNoSend(st[z][k], "other") /\ resets'[z][k] = 2
      BY <2>4 DEF Typed
    <3>2. /\ st'[z][k].made = st[z][k].made /\ st'[z][k].closed
          /\ st'[z][k].lwc = st[z][k].lwc /\ st'[z][k].buf = st[z][k].buf
      BY <1>1, <3>1, CloseNoSendIs, ErrorsAt
    <3>3. ~Live(z, k)' /\ ~Ended(st'[z][k])
      BY <2>1, <3>2 DEF Live, Made, Ignores, Ended
    <3> QED BY <1>5, <2>1, <3>1, <3>2, <3>3
  <2> QED BY <2>1, <2>2, <2>3, <2>4 DEF HandleData
<1>9. CASE f.type = "close"
  <2>1. HandleClose(z, k) /\ Others(z, k) /\ Made(z, k) /\ resets' = resets
    BY <1>f, <1>k, <1>9, <1>m, ReadCloseTyped DEF HandleClose
  <2>2. k \in streams'[z] => k \in streams[z]
    BY <2>1 DEF HandleClose, removeStream, Typed
  <2>3. CASE st'[z][k] = st[z][k]
    <3>1. ~Is(f, "data", k) /\ ~Is(f, "reset", k)
      BY <1>9 DEF Is
    <3> QED BY <1>6, <2>1, <2>2, <2>3, <3>1
  <2>4. CASE k \in streams[z] /\ ~st[z][k].closed /\ st'[z][k] # st[z][k]
    <3>1. st'[z][k] = closeRemoteWrite(st[z][k])
      BY <2>1, <2>4 DEF HandleClose, getStream, Typed
    <3>2. /\ st'[z][k].made = st[z][k].made /\ ~st'[z][k].closed
          /\ st'[z][k].lrc = st[z][k].lrc /\ st'[z][k].lwc = st[z][k].lwc
          /\ st'[z][k].buf = st[z][k].buf /\ st'[z][k].rwc
      BY <1>1, <2>4, <3>1, CloseRemoteIs
    <3>3. ~Live(z, k)'
      BY <2>1, <3>2 DEF Live, Made, Ignores
    <3>4. ASSUME Ended(st'[z][k]) PROVE st[x][k].lwc /\ Received(z, k) = sent[x][k]
      <4>1. CASE Live(z, k)
        <5>1. IF st[x][k].lwc THEN CloseIsLast(net[x], k, Received(z, k), sent[x][k])
                              ELSE CloseIsReset(net[x], k)
          BY <1>0, <1>1, <4>1 DEF OrderAt, FlowAt
        <5>2. Is(net[x][1], "close", k)
          BY <1>f, <1>k, <1>9 DEF Is
        <5>3. sent[x][k] \in 0 .. MaxChunks
          BY <1>0, OrderTypes
        <5>4. st[x][k].lwc /\ Received(z, k) >= sent[x][k]
          BY <1>0, <1>1, <5>1, <5>2, <5>3, HeadFlow
        <5>5. Received(z, k) <= sent[x][k]
          BY <1>0, <1>1 DEF BufferAt
        <5> QED BY <1>1, <5>4, <5>5
      <4>2. CASE ~Live(z, k)
        <5>1. Ended(st[z][k])
          BY <2>1, <2>4, <3>2, <3>4, <4>2 DEF Live, Ignores, Ended
        <5> QED BY <1>0, <1>1, <5>1 DEF BufferAt, Ended
      <4> QED BY <4>1, <4>2
    <3> QED BY <1>5, <2>1, <3>2, <3>3, <3>4
  <2>5. k \notin streams[z] \/ st[z][k].closed => st'[z][k] = st[z][k]
    BY <1>1, <2>1, CloseRemoteIs DEF HandleClose, getStream, Typed
  <2> QED BY <2>3, <2>4, <2>5
<1>10. CASE f.type = "reset"
  <2>1. /\ Others(z, k) /\ Made(z, k) /\ resets' = resets /\ k \notin streams'[z]
        /\ st'[z][k] = IF k \in streams[z] THEN closeNoSend(st[z][k], "other") ELSE st[z][k]
    BY <1>f, <1>k, <1>10, <1>m, ReadResetTyped DEF HandleReset
  <2>2. CASE k \in streams[z]
    <3>1. /\ st'[z][k].made = st[z][k].made /\ st'[z][k].closed
          /\ st'[z][k].lwc = st[z][k].lwc /\ st'[z][k].buf = st[z][k].buf
      BY <1>1, <2>1, <2>2, CloseNoSendIs, ErrorsAt
    <3>2. ~Live(z, k)' /\ ~Ended(st'[z][k])
      BY <2>1, <3>1 DEF Live, Made, Ignores, Ended
    <3> QED BY <1>5, <2>1, <3>1, <3>2
  <2>3. CASE k \notin streams[z]
    <3>1. st'[z][k] = st[z][k] /\ ~Live(z, k)'
      BY <2>1, <2>3 DEF Live, Made
    <3> QED BY <1>6, <2>1, <2>3, <3>1
  <2> QED BY <2>2, <2>3
<1> QED BY <1>t, <1>7, <1>8, <1>9, <1>10

LEMMA OrderNext ==
    ASSUME Typed, QueueAccounted, FreshInv, OpeningInv, OpenInv, OrderInv, [Next]_vars
    PROVE  OrderInv'
<1>1. CASE \E x \in Sides : TakeStreams(x) \/ FinishClose(x)
  BY <1>1, OrderSession
<1>2. CASE \E x \in Sides : LoseTail(x)
  BY <1>2, OrderLose
<1>3. CASE \E x \in Sides : ReadFrame(x)
  BY <1>3, OrderRead
<1>4. CASE \E x \in Sides, i \in Ids : CloseTaken(x, i)
  <2>1. PICK x \in Sides, i \in Ids : CloseTaken(x, i)
    BY <1>4
  <2>2. Acts(x, i) /\ st'[x][i] = closeNoSend(st[x][i], closeErr[x])
    BY <2>1, SendersAct, CloseTakenTyped
  <2>3. UNCHANGED <<net, sess, writer, sent, resets, got>>
    BY <2>1 DEF CloseTaken, appVars
  <2> QED BY <2>2, <2>3, OrderClosed, ErrorsAt DEF Acts
<1>5. CASE \E x \in Sides, i \in Ids : AppStep(x, i)
  BY <1>5, OrderApp
<1>6. CASE \E x \in Sides, i \in Ids : WriterStep(x, i) \/ SendReset(x, i)
  BY <1>6, OrderWriter
<1>7. CASE \E i \in Ids : OpenSend(i) \/ QueueAccept(i)
  BY <1>7, OrderOpen
<1>8. CASE \E i \in Ids : OpenRegister(i)
  <2>1. PICK i \in Ids : OpenRegister(i)
    BY <1>8
  <2>2. Registers("client", i) /\ "client" \in Sides /\ UNCHANGED net
    BY <2>1, OpenRegisterRegisters, MadeSides DEF OpenRegister
  <2>3. Others("client", i) /\ UNCHANGED sess
    BY <2>2 DEF Registers
  <2>4. SenderSame("client", i) /\ ReceiverSame("client", i)
    BY <2>2, OrderRegister
  <2> QED BY <2>2, <2>3, <2>4, OrderOneKept
<1>9. CASE OpenStream \/ AcceptStream \/ UNCHANGED vars
  <2>1. UNCHANGED <<net, sess, st, streams, writer, sent, resets, got>>
    BY <1>9 DEF OpenStream, AcceptStream, vars, sessVars, appVars
  <2> QED BY <2>1, OrderIdle
<1> QED BY <1>1, <1>2, <1>3, <1>4, <1>5, <1>6, <1>7, <1>8, <1>9 DEF Next, CloserStep

-----------------------------------------------------------------------------
(* io.EOF is final, and comes from the peer's close or from the session.   *)

(* What a step may do to one stream without taking back its end.           *)
EndKept(s, t, x) ==
    /\ Ignores(s) /\ s.buf = <<>> => Ignores(t) /\ t.buf = <<>>
    /\ t.err = "EOF" => s.err = "EOF" \/ closeErr[x] = "EOF"

LEMMA EndOne ==
    ASSUME EndInv, NEW x \in Sides, NEW i \in Ids, Others(x, i), UNCHANGED <<sess, closeErr>>,
           EndKept(st[x][i], st'[x][i], x), i \in eof'[x] => i \in eof[x]
    PROVE  EndInv'
<1>1. EndAt(x, i)'
  BY DEF EndInv, EndAt, EndKept
<1>2. ASSUME NEW y \in Sides, NEW j \in Ids, y # x \/ j # i PROVE EndAt(y, j)'
  <2>1. SameAt(y, j) /\ EndAt(y, j)
    BY <1>2 DEF Others, EndInv
  <2> QED BY <2>1 DEF EndAt, SameAt
<1> QED BY <1>1, <1>2 DEF EndInv

LEMMA EndIdle == ASSUME EndInv, UNCHANGED <<sess, closeErr, st, eof>> PROVE EndInv'
BY DEF EndInv, EndAt

LEMMA EndSession ==
    ASSUME Typed, EndInv, NEW x \in Sides, TakeStreams(x) \/ FinishClose(x)
    PROVE  EndInv'
<1>0. UNCHANGED <<st, eof>>
  BY DEF TakeStreams, FinishClose, appVars
<1>1. \A y \in Sides : /\ closeErr[y] = "EOF" => closeErr'[y] = "EOF"
                       /\ closeErr'[y] = "EOF" => sess'[y] # "open"
  <2>1. CASE TakeStreams(x)
    <3>1. sess[x] = "open" /\ sess'[x] = "closing" /\ closeErr[x] # "EOF"
      BY <2>1 DEF TakeStreams, Typed, EndInv
    <3>2. \A y \in Sides : y # x => sess'[y] = sess[y] /\ closeErr'[y] = closeErr[y]
      BY <2>1 DEF TakeStreams, Typed
    <3> QED BY <3>1, <3>2 DEF EndInv
  <2>2. CASE FinishClose(x)
    <3>1. sess'[x] = "closed" /\ closeErr' = closeErr
          /\ \A y \in Sides : y # x => sess'[y] = sess[y]
      BY <2>2 DEF FinishClose, Typed
    <3> QED BY <3>1 DEF EndInv
  <2> QED BY <2>1, <2>2
<1> QED BY <1>0, <1>1 DEF EndInv, EndAt

LEMMA EndClosed ==
    ASSUME Typed, NEW x \in Sides, NEW i \in Ids, NEW e \in Errors,
           e = "EOF" => closeErr[x] = "EOF"
    PROVE  EndKept(st[x][i], closeNoSend(st[x][i], e), x)
<1>1. /\ closeNoSend(st[x][i], e).buf = st[x][i].buf
      /\ closeNoSend(st[x][i], e).closed
      /\ closeNoSend(st[x][i], e).err \in {st[x][i].err, e}
  BY StAt, CloseNoSendIs
<1> QED BY <1>1 DEF EndKept, Ignores

LEMMA EndSame == ASSUME NEW s, NEW x PROVE EndKept(s, s, x)
BY DEF EndKept

LEMMA EndRead ==
    ASSUME Typed, FreshInv, OpenInv, EndInv, NEW x \in Sides, ReadFrame(x)
    PROVE  EndInv'
<1>0. PICK i \in Ids : i = Head(net[Peer(x)]).id
  BY FrameRead, FrameFields
<1>1. UNCHANGED <<sess, closeErr, eof>> /\ st[x][i] \in StreamType
      /\ Head(net[Peer(x)]).type \in {"open", "data", "close", "reset"}
  BY FrameRead, FrameFields, StAt
<1>2. "other" \in Errors /\ EndKept(st[x][i], closeNoSend(st[x][i], "other"), x)
  BY ErrorsAt, EndClosed
<1>3. CASE Head(net[Peer(x)]).type = "open"
  <2>1. /\ Others(x, i) /\ st[x][i] = NoStream /\ st'[x][i] = newStream
    BY <1>0, <1>3, ReadOpenRegisters DEF Registers, Untouched
  <2>2. EndKept(st[x][i], st'[x][i], x)
    BY <2>1, NewStreams DEF EndKept, Ignores
  <2> QED BY <1>1, <2>1, <2>2, EndOne
<1>4. CASE Head(net[Peer(x)]).type = "data"
  <2>0. PICK c \in Chunks : c = Head(net[Peer(x)]).chunk
    BY <1>4, FrameRead, FrameFields
  <2>1. HandleData(x, i, c) /\ Others(x, i)
    BY <1>0, <1>4, <2>0, ReadDataFrameTyped
  <2>2. \/ st'[x][i] = st[x][i]
        \/ st'[x][i] = enqueue(st[x][i], c) /\ ~Ignores(st[x][i])
        \/ st'[x][i] = closeNoSend(st[x][i], "other")
    BY <2>1 DEF HandleData, Typed
  <2>3. ~Ignores(st[x][i]) => EndKept(st[x][i], enqueue(st[x][i], c), x)
    BY <1>1, EnqueueIs DEF EndKept
  <2>4. EndKept(st[x][i], st'[x][i], x)
    BY <1>2, <2>2, <2>3, EndSame
  <2> QED BY <1>1, <2>1, <2>4, EndOne
<1>5. CASE Head(net[Peer(x)]).type = "close"
  <2>1. HandleClose(x, i) /\ Others(x, i)
    BY <1>0, <1>5, ReadCloseTyped
  <2>2. st'[x][i] \in {st[x][i], closeRemoteWrite(st[x][i])}
    BY <2>1 DEF HandleClose, Typed
  <2>3. EndKept(st[x][i], closeRemoteWrite(st[x][i]), x)
    BY <1>1, CloseRemoteIs DEF EndKept, Ignores
  <2>4. EndKept(st[x][i], st'[x][i], x)
    BY <2>2, <2>3, EndSame
  <2> QED BY <1>1, <2>1, <2>4, EndOne
<1>6. CASE Head(net[Peer(x)]).type = "reset"
  <2>1. /\ Others(x, i)
        /\ st'[x][i] = IF i \in streams[x] THEN closeNoSend(st[x][i], "other") ELSE st[x][i]
    BY <1>0, <1>6, ReadResetTyped
  <2>2. EndKept(st[x][i], st'[x][i], x)
    BY <1>2, <2>1, EndSame
  <2> QED BY <1>1, <2>1, <2>2, EndOne
<1> QED BY <1>1, <1>3, <1>4, <1>5, <1>6

LEMMA EndApp ==
    ASSUME Typed, QueueAccounted, FreshInv, EndInv, NEW x \in Sides, NEW i \in Ids,
           AppStep(x, i)
    PROVE  EndInv'
<1>0. Others(x, i) /\ UNCHANGED <<sess, closeErr>> /\ st[x][i] \in StreamType
  <2>1. UNCHANGED <<sess, closeErr>>
    BY DEF AppStep, ReadData, ReadEOF, Write, Close, CloseWrite, CloseRead, sessVars
  <2> QED BY <2>1, AppActs, StAt DEF Acts
<1>1. CASE ReadData(x, i)
  <2>1. /\ st[x][i].queued > 0 /\ st[x][i].buf # <<>> /\ eof' = eof
        /\ st'[x][i] = dequeue(st[x][i])
    BY <1>1, ReadDataTyped DEF ReadData
  <2>2. EndKept(st[x][i], st'[x][i], x)
    BY <1>0, <2>1, DequeueIs DEF EndKept
  <2> QED BY <1>0, <2>1, <2>2, EndOne
<1>2. CASE ReadEOF(x, i)
  <2>1. st' = st /\ AtEOF(st[x][i])
    BY <1>2 DEF ReadEOF
  <2>2. EndAt(x, i)'
    BY <1>0, <2>1 DEF EndInv, EndAt, AtEOF, Ignores
  <2>3. ASSUME NEW y \in Sides, NEW j \in Ids, y # x \/ j # i PROVE EndAt(y, j)'
    <3>1. SameAt(y, j) /\ EndAt(y, j)
      BY <1>0, <2>3 DEF Others, EndInv
    <3> QED BY <1>0, <3>1 DEF EndAt, SameAt
  <2> QED BY <1>0, <2>2, <2>3 DEF EndInv
<1>3. CASE \E n \in Chunks : Write(x, i, n)
  <2>1. UNCHANGED <<st, eof>>
    BY <1>3 DEF Write, appVars
  <2> QED BY <1>0, <2>1, EndIdle
<1>4. CASE Close(x, i)
  <2>1. st'[x][i].buf = <<>> /\ st'[x][i].closed /\ st'[x][i].err = "other" /\ eof' = eof
    BY <1>4, CloseFields DEF Close, appVars
  <2>2. EndKept(st[x][i], st'[x][i], x)
    BY <2>1 DEF EndKept, Ignores
  <2> QED BY <1>0, <2>1, <2>2, EndOne
<1>5. CASE CloseWrite(x, i)
  <2>1. /\ st'[x][i].closed = st[x][i].closed /\ st'[x][i].lrc = st[x][i].lrc
        /\ st'[x][i].rwc = st[x][i].rwc /\ st'[x][i].buf = st[x][i].buf
        /\ st'[x][i].err = st[x][i].err /\ eof' = eof
    BY <1>5, CloseWriteFields DEF CloseWrite, appVars
  <2>2. EndKept(st[x][i], st'[x][i], x)
    BY <2>1 DEF EndKept, Ignores
  <2> QED BY <1>0, <2>1, <2>2, EndOne
<1>6. CASE CloseRead(x, i)
  <2>1. st'[x][i].buf = <<>> /\ st'[x][i].lrc /\ st'[x][i].err = st[x][i].err /\ eof' = eof
    BY <1>6, CloseReadFields DEF CloseRead, appVars
  <2>2. EndKept(st[x][i], st'[x][i], x)
    BY <2>1 DEF EndKept, Ignores
  <2> QED BY <1>0, <2>1, <2>2, EndOne
<1> QED BY <1>1, <1>2, <1>3, <1>4, <1>5, <1>6 DEF AppStep

LEMMA EndOpen ==
    ASSUME Typed, EndInv, NEW i \in Ids, OpenSend(i) \/ QueueAccept(i)
    PROVE  EndInv'
<1> USE MadeSides
<1>0. UNCHANGED <<sess, closeErr, eof>>
  BY DEF OpenSend, QueueAccept, sessVars, appVars
<1>1. CASE UNCHANGED st
  BY <1>0, <1>1, EndIdle
<1>2. ASSUME NEW x \in Sides, NEW e \in Errors, e = "EOF" => closeErr[x] = "EOF",
             Others(x, i), st' = [st EXCEPT ![x][i] = closeNoSend(st[x][i], e)]
      PROVE  EndInv'
  <2>1. st'[x][i] = closeNoSend(st[x][i], e)
    BY <1>2 DEF Typed
  <2>2. EndKept(st[x][i], st'[x][i], x)
    BY <1>2, <2>1, EndClosed
  <2> QED BY <1>0, <1>2, <2>2, EndOne
<1>3. CASE OpenSend(i)
  BY <1>1, <1>2, <1>3, OpenSendTyped, ErrorsAt DEF OpenSend
<1>4. CASE QueueAccept(i)
  BY <1>1, <1>2, <1>4, QueueAcceptTyped, ErrorsAt DEF QueueAccept
<1> QED BY <1>3, <1>4

LEMMA EndNext ==
    ASSUME Typed, QueueAccounted, FreshInv, OpeningInv, OpenInv, EndInv, [Next]_vars
    PROVE  EndInv'
<1>1. CASE \E x \in Sides : TakeStreams(x) \/ FinishClose(x)
  BY <1>1, EndSession
<1>2. CASE \E x \in Sides : ReadFrame(x)
  BY <1>2, EndRead
<1>3. CASE \E x \in Sides, i \in Ids : CloseTaken(x, i)
  <2>1. PICK x \in Sides, i \in Ids : CloseTaken(x, i)
    BY <1>3
  <2>2. Others(x, i) /\ st'[x][i] = closeNoSend(st[x][i], closeErr[x])
    BY <2>1, CloseTakenTyped
  <2>3. UNCHANGED <<sess, closeErr, eof>>
    BY <2>1 DEF CloseTaken, appVars
  <2>4. EndKept(st[x][i], st'[x][i], x)
    BY <2>2, EndClosed, ErrorsAt
  <2> QED BY <2>2, <2>3, <2>4, EndOne
<1>4. CASE \E x \in Sides, i \in Ids : AppStep(x, i)
  BY <1>4, EndApp
<1>5. CASE \E i \in Ids : OpenSend(i) \/ QueueAccept(i)
  BY <1>5, EndOpen
<1>6. CASE \E i \in Ids : OpenRegister(i)
  <2>1. PICK i \in Ids : OpenRegister(i)
    BY <1>6
  <2>2. /\ "client" \in Sides /\ Others("client", i) /\ st["client"][i] = NoStream
        /\ st'["client"][i] = newStream /\ UNCHANGED <<sess, closeErr, eof>>
    BY <2>1, OpenRegisterRegisters, MadeSides DEF Registers, Untouched
  <2>3. EndKept(st["client"][i], st'["client"][i], "client")
    BY <2>2, NewStreams DEF EndKept, Ignores
  <2> QED BY <2>2, <2>3, EndOne
<1>7. CASE \/ \E x \in Sides : LoseTail(x)
           \/ \E x \in Sides, i \in Ids : WriterStep(x, i) \/ SendReset(x, i)
           \/ OpenStream \/ AcceptStream \/ UNCHANGED vars
  <2>1. UNCHANGED <<sess, closeErr, st, eof>>
    BY <1>7 DEF LoseTail, WriterStep, WriteChunk, SendClose, Forget, SendReset, OpenStream,
       AcceptStream, vars, sessVars, appVars
  <2> QED BY <2>1, EndIdle
<1> QED BY <1>1, <1>2, <1>3, <1>4, <1>5, <1>6, <1>7 DEF Next, CloserStep

-----------------------------------------------------------------------------
(* The invariant holds from the start and is kept.                         *)

LEMMA InitInv == ASSUME Init PROVE MuxInv
<1>0. /\ MaxStreams \in Nat /\ MaxChunks \in Nat
      /\ MaxQueued \in Nat /\ AcceptCap \in Nat /\ ConnCap \in Nat
  BY MuxAssumption
<1>1. \A x \in Sides, i \in Ids :
         /\ st[x][i] = NoStream /\ sess[x] = "open" /\ taken[x] = {} /\ streams[x] = {}
         /\ handed[x] = {} /\ eof[x] = {} /\ writer[x][i] = NoWriter /\ resets[x][i] = 0
         /\ sent[x][i] = 0 /\ got[x][i] = <<>> /\ net[x] = <<>> /\ opening[i] = "none"
         /\ closeErr[x] = "nil"
  BY DEF Init
<1>2. NoWriter.op = "none" /\ NoWriter \in Writer
  BY DEF NoWriter, Writer
<1>3. \A x \in Sides, i \in Ids :
         /\ ~Made(x, i) /\ st[x][i].buf = <<>> /\ st[x][i].queued = 0
         /\ ~st[x][i].rwc /\ ~st[x][i].lwc /\ ~st[x][i].closed
  BY <1>1, NewStreams DEF Made
<1>4. Typed
  <2>1. <<>> \in Seq(Chunks) /\ <<>> \in Seq(Frame) /\ <<>> \in Seq(Ids)
    OBVIOUS
  <2>2. /\ sess \in [Sides -> {"open", "closing", "closed"}]
        /\ closeErr \in [Sides -> Errors]
        /\ taken \in [Sides -> SUBSET Ids] /\ streams \in [Sides -> SUBSET Ids]
        /\ handed \in [Sides -> SUBSET Ids] /\ eof \in [Sides -> SUBSET Ids]
        /\ nextID \in 0 .. MaxStreams /\ accepts \subseteq Ids
        /\ opening \in [Ids -> {"none", "checked", "registered", "done"}]
    BY <1>0 DEF Init, Errors
  <2>3. st \in [Sides -> [Ids -> StreamType]]
    BY NewStreams DEF Init
  <2>4. writer \in [Sides -> [Ids -> Writer]] /\ resets \in [Sides -> [Ids -> 0 .. 2]]
        /\ sent \in [Sides -> [Ids -> 0 .. MaxChunks]]
    BY <1>0, <1>2 DEF Init
  <2>5. /\ acceptCh \in Seq(Ids) /\ net \in [Sides -> Seq(Frame)]
        /\ got \in [Sides -> [Ids -> Seq(Chunks)]]
    BY <2>1 DEF Init
  <2> QED BY <1>1, <1>2, <2>2, <2>3, <2>4, <2>5 DEF Typed
<1>5. Bounded
  <2>1. Len(acceptCh) = 0 /\ (\A x \in Sides : Len(net[x]) = 0)
        /\ \A x \in Sides, i \in Ids : Len(st[x][i].buf) = 0
    BY <1>1, <1>3 DEF Init
  <2> QED BY <1>0, <1>3, <2>1 DEF Bounded, QueueAccounted
<1>6. FreshInv /\ BusyInv
  BY <1>1 DEF FreshInv, Untouched, BusyInv
<1>7. OpeningInv
  BY <1>1, <1>3, MadeSides DEF OpeningInv, OpeningAt, Init
<1>8. OpenInv
  <2>1. net["client"] = <<>> /\ net["server"] = <<>>
    BY MadeSides DEF Init
  <2>2. DOMAIN net["client"] = {} /\ DOMAIN net["server"] = {}
    BY <2>1
  <2> QED BY <1>1, <2>2, MadeSides DEF OpenInv
<1>9. MapInv
  <2>1. \A x \in Sides, i \in Ids : ~Forgets(writer[x][i])
    BY <1>1, <1>2 DEF Forgets
  <2> QED BY <1>1, <1>3, <2>1 DEF MapInv, MapAt
<1>10. OrderInv
  <2>1. ASSUME NEW x \in Sides, NEW i \in Ids PROVE OrderAt(x, i)
    <3>0. Peer(x) \in Sides
      BY SidesPeer
    <3>1. Received(Peer(x), i) = 0 /\ sent[x][i] = 0
      <4>1. Len(got[Peer(x)][i]) = 0 /\ Len(st[Peer(x)][i].buf) = 0
        BY <1>1, <1>3, <3>0
      <4>2. Received(Peer(x), i) = 0
        BY <4>1 DEF Received
      <4> QED BY <1>1, <4>2
    <3>2. BufferAt(x, i)
      BY <1>3, <3>0, <3>1 DEF BufferAt
    <3>3. WriterAt(x, i)
      BY <1>1, <1>2 DEF WriterAt
    <3>4. DOMAIN net[x] = {}
      BY <1>1
    <3>5. \A k, r : Ahead(net[x], i, k, r, 0) \/ r \notin Nat
      BY <1>0 DEF Ahead, Chunks
    <3>6. FlowAt(x, i)
      BY <1>1, <1>3, <3>1, <3>4, <3>5
         DEF FlowAt, Ordered, Gapless, CloseIsReset, CloseIsLast
    <3> QED BY <3>2, <3>3, <3>6 DEF OrderAt
  <2> QED BY <2>1 DEF OrderInv
<1>11. EndInv
  <2>1. \A x \in Sides : closeErr[x] # "EOF"
    BY DEF Init
  <2> QED BY <1>1, <2>1, NewStreams DEF EndInv, EndAt
<1> QED BY <1>4, <1>5, <1>6, <1>7, <1>8, <1>9, <1>10, <1>11 DEF MuxInv

LEMMA MuxInvNext == ASSUME MuxInv, [Next]_vars PROVE MuxInv'
<1>1. Typed /\ Bounded /\ QueueAccounted /\ FreshInv /\ BusyInv /\ OpeningInv /\ OpenInv
      /\ MapInv /\ OrderInv /\ EndInv
  BY DEF MuxInv, Bounded
<1>2. Typed'
  BY <1>1, StepKinds
<1>3. Bounded'
  BY <1>1, BoundedNext
<1>4. FreshInv' /\ BusyInv'
  BY <1>1, FreshNext, BusyNext
<1>5. OpeningInv' /\ OpenInv'
  BY <1>1, OpeningNext, OpenNext
<1>6. MapInv' /\ OrderInv' /\ EndInv'
  BY <1>1, MapNext, OrderNext, EndNext
<1> QED BY <1>2, <1>3, <1>4, <1>5, <1>6 DEF MuxInv

LEMMA MuxInvCorrect == Spec => []MuxInv
<1>1. Init => MuxInv
  BY InitInv
<1>2. MuxInv /\ [Next]_vars => MuxInv'
  BY MuxInvNext
<1> QED BY <1>1, <1>2, PTL DEF Spec

\* In every state of every behaviour queuedBytes of a stream is what it has
\* buffered and at most maxQueuedBytesPerStream (enqueue, Read, Close,
\* CloseRead), for every number of streams and chunks and every queue size.
THEOREM QueueAccountedCorrect == Spec => []QueueAccounted
<1>1. MuxInv => QueueAccounted
  BY DEF MuxInv, Bounded
<1> QED BY <1>1, MuxInvCorrect, PTL

\* A stream that is closed, or half-closed in a way that ends it, is out of the
\* map or is about to be taken out by the goroutine that holds its writeMu,
\* whichever half-close comes first (closeRemoteWrite, Close, CloseWrite,
\* CloseRead): a session collects no dead streams, however many it opens.
THEOREM FinishedIsForgottenCorrect == Spec => []FinishedIsForgotten
<1>1. ASSUME MuxInv PROVE FinishedIsForgotten
  <2>1. ASSUME NEW x \in Sides, NEW i \in streams[x], Finished(st[x][i])
        PROVE  Forgets(writer[x][i])
    <3>1. i \in Ids
      BY <1>1 DEF MuxInv, Typed
    <3> QED BY <1>1, <2>1, <3>1 DEF MuxInv, MapInv, MapAt
  <2> QED BY <2>1 DEF FinishedIsForgotten, Forgets
<1> QED BY <1>1, MuxInvCorrect, PTL

\* Once closeWithError has closed a session, every stream the application has
\* and that is not in the map any more is closed or has ended both ways
\* (closeWithError, closeNoSend): no reader is left waiting on it.
THEOREM CloseReachesStreamsCorrect == Spec => []CloseReachesStreams
<1>1. ASSUME MuxInv PROVE CloseReachesStreams
  <2>1. ASSUME NEW x \in Sides, sess[x] = "closed", NEW i \in Ids \ streams[x],
               i \in handed[x]
        PROVE  Finished(st[x][i])
    <3>1. Made(x, i)
      BY <1>1, <2>1 DEF MuxInv, FreshInv, Untouched
    <3>2. MapAt(x, i)
      BY <1>1, <2>1 DEF MuxInv, MapInv
    <3>3. i \notin taken[x]
      BY <2>1, <3>2 DEF MapAt
    <3> QED BY <2>1, <3>1, <3>2, <3>3 DEF MapAt
  <2> QED BY <2>1 DEF CloseReachesStreams, Finished
<1> QED BY <1>1, MuxInvCorrect, PTL

-----------------------------------------------------------------------------
(* The bounds of the buffers.                                              *)

LEMMA SeqUpTo ==
    ASSUME NEW S, NEW s \in Seq(S), NEW n \in Nat, Len(s) <= n PROVE s \in UpTo(S, n)
<1>1. s \in [1 .. Len(s) -> S] /\ Len(s) \in 0 .. n
  OBVIOUS
<1> QED BY <1>1 DEF UpTo

LEMMA BuffersBounded ==
    ASSUME MuxInv, NEW x \in Sides, NEW i \in Ids
    PROVE  /\ st[x][i].buf \in UpTo(Chunks, MaxQueued) /\ st[x][i].queued \in 0 .. MaxQueued
           /\ got[x][i] \in UpTo(Chunks, MaxChunks)
<1>0. Typed /\ Bounded /\ OrderInv /\ MaxQueued \in Nat /\ MaxChunks \in Nat
  BY MuxAssumption DEF MuxInv
<1>1. st[x][i] \in StreamType /\ st[x][i].buf \in Seq(Chunks) /\ got[x][i] \in Seq(Chunks)
  BY <1>0, StAt, OrderTypes
<1>2. st[x][i].queued = Len(st[x][i].buf) /\ st[x][i].queued <= MaxQueued
  BY <1>0 DEF Bounded, QueueAccounted
<1>3. st[x][i].queued \in Nat
  BY <1>1 DEF StreamType
<1>4. st[x][i].buf \in UpTo(Chunks, MaxQueued) /\ st[x][i].queued \in 0 .. MaxQueued
  BY <1>0, <1>1, <1>2, <1>3, SeqUpTo
<1>5. Peer(x) \in Sides /\ Peer(Peer(x)) = x
  BY SidesPeer
<1>6. Received(x, i) <= sent[Peer(x)][i] /\ sent[Peer(x)][i] \in 0 .. MaxChunks
  BY <1>0, <1>5, OrderHas, OrderTypes DEF BufferAt
<1>7. Received(x, i) = Len(got[x][i]) + Len(st[x][i].buf)
  BY DEF Received
<1>8. Len(got[x][i]) <= MaxChunks
  <2>1. PICK a \in Nat : a = Len(got[x][i])
    BY <1>1
  <2>2. PICK b \in Nat : b = Len(st[x][i].buf)
    BY <1>1
  <2>3. PICK c \in 0 .. MaxChunks : c = sent[Peer(x)][i]
    BY <1>6
  <2>4. a + b <= c
    BY <1>6, <1>7, <2>1, <2>2, <2>3
  <2>5. a <= MaxChunks
    BY <1>0, <2>4
  <2> QED BY <2>1, <2>5
<1>9. got[x][i] \in UpTo(Chunks, MaxChunks)
  BY <1>0, <1>1, <1>8, SeqUpTo
<1> QED BY <1>4, <1>9

\* The variables of the two sessions have their types and keep their limits: no
\* stream buffers more than maxQueuedBytesPerStream, acceptCh and the connection
\* hold no more than they can, and a reader gets no more than was written.
THEOREM MuxTypeCorrect == Spec => []MuxTypeOK
<1>1. ASSUME MuxInv PROVE MuxTypeOK
  <2>0. Typed /\ Bounded
    BY <1>1 DEF MuxInv
  <2>1. st \in [Sides -> [Ids ->
           [made : BOOLEAN, closed : BOOLEAN, lrc : BOOLEAN, lwc : BOOLEAN,
            rwc : BOOLEAN, err : Errors, buf : UpTo(Chunks, MaxQueued),
            queued : 0 .. MaxQueued]]]
    <3> DEFINE T == [made : BOOLEAN, closed : BOOLEAN, lrc : BOOLEAN, lwc : BOOLEAN,
                     rwc : BOOLEAN, err : Errors, buf : UpTo(Chunks, MaxQueued),
                     queued : 0 .. MaxQueued]
    <3>1. ASSUME NEW x \in Sides, NEW i \in Ids PROVE st[x][i] \in T
      <4>1. st[x][i] \in StreamType
        BY <2>0, StAt
      <4>2. /\ st[x][i].buf \in UpTo(Chunks, MaxQueued)
            /\ st[x][i].queued \in 0 .. MaxQueued
        BY <1>1, BuffersBounded
      <4> QED BY <4>1, <4>2 DEF StreamType
    <3>2. st \in [Sides -> [Ids -> StreamType]]
      BY <2>0 DEF Typed
    <3> HIDE DEF T
    <3>3. st \in [Sides -> [Ids -> T]]
      BY <3>1, <3>2
    <3> QED BY <3>3 DEF T
  <2>2. acceptCh \in UpTo(Ids, AcceptCap)
    <3>1. acceptCh \in Seq(Ids) /\ Len(acceptCh) <= AcceptCap /\ AcceptCap \in Nat
      BY <2>0, MuxAssumption DEF Typed, Bounded
    <3> QED BY <3>1, SeqUpTo
  <2>3. \A x \in Sides : Len(net[x]) <= ConnCap
                         /\ \A i \in DOMAIN net[x] : net[x][i] \in Frame
    <3>1. \A x \in Sides : net[x] \in Seq(Frame) /\ Len(net[x]) <= ConnCap
      BY <2>0 DEF Typed, Bounded
    <3> QED BY <3>1
  <2>4. got \in [Sides -> [Ids -> UpTo(Chunks, MaxChunks)]]
    <3>1. \A x \in Sides, i \in Ids : got[x][i] \in UpTo(Chunks, MaxChunks)
      BY <1>1, BuffersBounded
    <3>2. got \in [Sides -> [Ids -> Seq(Chunks)]]
      BY <2>0 DEF Typed
    <3> QED BY <3>1, <3>2
  <2> QED BY <2>0, <2>1, <2>2, <2>3, <2>4 DEF Typed, MuxTypeOK
<1> QED BY <1>1, MuxInvCorrect, PTL

-----------------------------------------------------------------------------
(* Every direction of every stream is an abstract stream.                  *)

LEMMA DirectionInit ==
    ASSUME NEW x \in Sides, NEW i \in Ids, Init PROVE Direction(x, i)!StreamInit
BY DEF Init, Direction!StreamInit, Peer, Sides, NoStream, newStream

LEMMA DirectionSame ==
    ASSUME NEW x \in Sides, NEW i \in Ids,
           sent'[x][i] = sent[x][i], got'[Peer(x)][i] = got[Peer(x)][i],
           st'[x][i].lwc = st[x][i].lwc, (i \in eof'[Peer(x)]) = (i \in eof[Peer(x)]),
           UNCHANGED closeErr
    PROVE  Direction(x, i)!StreamStep
BY DEF Direction!StreamStep, Direction!streamVars

(* A step on stream k of side z changes the two directions of that stream. *)
LEMMA DirectionOne ==
    ASSUME NEW z \in Sides, NEW k \in Ids, Others(z, k), UNCHANGED closeErr,
           Direction(z, k)!StreamStep, Direction(Peer(z), k)!StreamStep
    PROVE  \A x \in Sides, i \in Ids : Direction(x, i)!StreamStep
<1>1. ASSUME NEW x \in Sides, NEW i \in Ids PROVE Direction(x, i)!StreamStep
  <2>0. Peer(x) \in Sides /\ (x = z \/ x = Peer(z))
    BY SidesPeer DEF Sides, Peer
  <2>1. CASE i = k
    BY <2>0, <2>1
  <2>2. CASE i # k
    <3>1. SameAt(x, i) /\ SameAt(Peer(x), i)
      BY <2>0, <2>2 DEF Others
    <3>2. (i \in eof'[Peer(x)]) = (i \in eof[Peer(x)])
      BY <3>1 DEF SameAt
    <3> QED BY <3>1, <3>2, DirectionSame DEF SameAt
  <2> QED BY <2>1, <2>2
<1> QED BY <1>1

(* A step that neither writes, reads nor closes for writing.               *)
LEMMA DirectionKept ==
    ASSUME NEW z \in Sides, NEW k \in Ids, Others(z, k),
           UNCHANGED <<sent, got, eof, closeErr>>, st'[z][k].lwc = st[z][k].lwc
    PROVE  \A x \in Sides, i \in Ids : Direction(x, i)!StreamStep
<1>0. Peer(z) \in Sides /\ Peer(z) # z
  BY SidesPeer
<1>1. Direction(z, k)!StreamStep
  BY DirectionSame
<1>2. st'[Peer(z)][k].lwc = st[Peer(z)][k].lwc
  BY <1>0 DEF Others, SameAt
<1>3. Direction(Peer(z), k)!StreamStep
  BY <1>0, <1>2, DirectionSame
<1> QED BY <1>1, <1>3, DirectionOne

LEMMA DirectionIdle ==
    ASSUME UNCHANGED <<sent, got, eof, st, closeErr>>
    PROVE  \A x \in Sides, i \in Ids : Direction(x, i)!StreamStep
BY DirectionSame

LEMMA DirectionRead ==
    ASSUME Typed, FreshInv, OpenInv, NEW z \in Sides, ReadFrame(z)
    PROVE  \A x \in Sides, i \in Ids : Direction(x, i)!StreamStep
<1>k. PICK k \in Ids : k = Head(net[Peer(z)]).id
  BY FrameRead, FrameFields
<1>0. UNCHANGED <<sent, got, eof, closeErr>> /\ st[z][k] \in StreamType
      /\ Head(net[Peer(z)]).type \in {"open", "data", "close", "reset"}
  BY FrameRead, FrameFields, StAt
<1>1. CASE Head(net[Peer(z)]).type = "open"
  <2>1. Registers(z, k)
    BY <1>k, <1>1, ReadOpenRegisters
  <2>2. ~st[z][k].lwc /\ ~st'[z][k].lwc /\ Others(z, k)
    BY <2>1, NewStreams DEF Registers, Untouched
  <2>3. st'[z][k].lwc = st[z][k].lwc
    BY <2>1, NewStreams DEF Registers, Untouched, NoStream, newStream
  <2> QED BY <1>0, <2>2, <2>3, DirectionKept
<1>2. CASE Head(net[Peer(z)]).type = "data"
  <2>0. PICK c \in Chunks : c = Head(net[Peer(z)]).chunk
    BY <1>2, FrameRead, FrameFields
  <2>1. HandleData(z, k, c) /\ Others(z, k)
    BY <1>k, <1>2, <2>0, ReadDataFrameTyped
  <2>2. st'[z][k] \in {st[z][k], enqueue(st[z][k], c), closeNoSend(st[z][k], "other")}
    BY <2>1 DEF HandleData, Typed
  <2>3. /\ enqueue(st[z][k], c).lwc = st[z][k].lwc
        /\ closeNoSend(st[z][k], "other").lwc = st[z][k].lwc
    BY <1>0, EnqueueIs, CloseNoSendIs, ErrorsAt
  <2>4. st'[z][k].lwc = st[z][k].lwc
    BY <2>2, <2>3
  <2> QED BY <1>0, <2>1, <2>4, DirectionKept
<1>3. CASE Head(net[Peer(z)]).type = "close"
  <2>1. HandleClose(z, k) /\ Others(z, k)
    BY <1>k, <1>3, ReadCloseTyped
  <2>2. st'[z][k] \in {st[z][k], closeRemoteWrite(st[z][k])}
    BY <2>1 DEF HandleClose, Typed
  <2>3. st'[z][k].lwc = st[z][k].lwc
    BY <1>0, <2>2, CloseRemoteIs
  <2> QED BY <1>0, <2>1, <2>3, DirectionKept
<1>4. CASE Head(net[Peer(z)]).type = "reset"
  <2>1. /\ Others(z, k)
        /\ st'[z][k] = IF k \in streams[z] THEN closeNoSend(st[z][k], "other") ELSE st[z][k]
    BY <1>k, <1>4, ReadResetTyped
  <2>2. st'[z][k].lwc = st[z][k].lwc
    BY <1>0, <2>1, CloseNoSendIs, ErrorsAt
  <2> QED BY <1>0, <2>1, <2>2, DirectionKept
<1> QED BY <1>0, <1>1, <1>2, <1>3, <1>4

(* A frame of Write is written while the direction is open.                *)
LEMMA DirectionWriter ==
    ASSUME Typed, FreshInv, OrderInv, NEW z \in Sides, NEW k \in Ids,
           WriterStep(z, k) \/ SendReset(z, k)
    PROVE  \A x \in Sides, i \in Ids : Direction(x, i)!StreamStep
<1>0. Others(z, k) /\ UNCHANGED <<st, got, eof, closeErr>>
  <2>1. Others(z, k)
    BY SendersAct DEF Acts
  <2> QED BY <2>1 DEF WriterStep, WriteChunk, SendClose, Forget, SendReset, appVars, sessVars
<1>1. CASE UNCHANGED sent
  BY <1>0, <1>1, DirectionIdle
<1>2. CASE ~UNCHANGED sent
  <2>1. /\ writer[z][k].op = "write"
        /\ sent' = [sent EXCEPT ![z][k] = @ + 1]
    BY <1>2 DEF WriterStep, WriteChunk, SendClose, Forget, SendReset, appVars
  <2>2. sent'[z][k] = sent[z][k] + 1 /\ sent[z][k] \in Nat
    BY <2>1, OrderTypes DEF Typed
  <2>3. ~st[z][k].lwc
    BY <2>1, OrderHas DEF WriterAt
  <2>4. Direction(z, k)!WriteChunks
    BY <1>0, <2>2, <2>3 DEF Direction!WriteChunks
  <2>5. Peer(z) \in Sides /\ Peer(z) # z
    BY SidesPeer
  <2>6. sent'[Peer(z)][k] = sent[Peer(z)][k]
    BY <1>0, <2>5 DEF Others, SameAt
  <2>7. Direction(Peer(z), k)!StreamStep
    BY <1>0, <2>5, <2>6, DirectionSame
  <2>8. Direction(z, k)!StreamStep
    BY <2>4 DEF Direction!StreamStep, Direction!StreamNext
  <2> QED BY <1>0, <2>7, <2>8, DirectionOne
<1> QED BY <1>1, <1>2

(* What Read returns is the next chunk, and io.EOF follows the last one.   *)
LEMMA DirectionApp ==
    ASSUME Typed, QueueAccounted, FreshInv, OrderInv, EndInv, NEW z \in Sides,
           NEW k \in Ids, AppStep(z, k)
    PROVE  \A x \in Sides, i \in Ids : Direction(x, i)!StreamStep
<1> DEFINE y == Peer(z)
<1>0. /\ y \in Sides /\ y # z /\ Peer(y) = z /\ Others(z, k)
      /\ UNCHANGED <<sent, closeErr>> /\ BufferAt(y, k) /\ st[z][k] \in StreamType
  <2>1. y \in Sides /\ y # z /\ Peer(y) = z
    BY SidesPeer
  <2>2. Others(z, k)
    BY AppActs DEF Acts
  <2>3. UNCHANGED <<sent, closeErr>>
    BY DEF AppStep, ReadData, ReadEOF, Write, Close, CloseWrite, CloseRead, appVars, sessVars
  <2> QED BY <2>1, <2>2, <2>3, OrderHas, StAt
<1>1. st'[y][k] = st[y][k] /\ got'[y][k] = got[y][k] /\ (k \in eof'[y]) = (k \in eof[y])
  BY <1>0 DEF Others, SameAt
<1>2. CASE ReadData(z, k)
  <2>1. PICK b \in Seq(Chunks), g \in Seq(Chunks) : b = st[z][k].buf /\ g = got[z][k]
    BY OrderTypes
  <2>2. /\ b # <<>> /\ got'[z][k] = Append(g, Head(b)) /\ eof' = eof
    BY <1>2, <2>1 DEF ReadData, Typed
  <2>3. \A n \in DOMAIN b : b[n] = Len(g) + n
    BY <1>0, <2>1 DEF BufferAt
  <2>4. Head(b) = Len(g) + 1 /\ Len(g) + 1 <= Len(g) + Len(b)
    <3>1. PICK h : h = Append(g, Head(b))
      OBVIOUS
    <3> QED BY <2>2, <2>3, <3>1, NextRead
  <2>5. Len(g) < sent[y][k]
    <3>1. Len(g) + Len(b) <= sent[y][k]
      BY <1>0, <2>1 DEF BufferAt, Received
    <3>2. sent[y][k] \in Nat
      BY <1>0, OrderTypes
    <3>3. PICK l \in Nat : l = Len(g)
      OBVIOUS
    <3>4. PICK m \in Nat : m = Len(b)
      OBVIOUS
    <3>5. PICK s \in Nat : s = sent[y][k]
      BY <3>2
    <3>6. l + 1 <= l + m /\ l + m <= s
      BY <2>4, <3>1, <3>3, <3>4, <3>5
    <3>7. l < s
      BY <3>6
    <3> QED BY <3>3, <3>5, <3>7
  <2>6. st'[z][k].lwc = st[z][k].lwc
    <3>1. st'[z][k] = dequeue(st[z][k]) /\ st[z][k].queued > 0 /\ st[z][k].buf # <<>>
      BY <1>2, ReadDataTyped DEF ReadData
    <3> QED BY <1>0, <3>1, DequeueIs
  <2>7. Direction(y, k)!ReadChunk
    <3>1. got'[z][k] = Append(got[z][k], Len(got[z][k]) + 1)
          /\ Len(got[z][k]) < sent[y][k] /\ k \notin eof[z]
      BY <2>1, <2>2, <2>4, <2>5 DEF EndInv, EndAt
    <3> QED BY <1>0, <1>1, <2>2, <3>1 DEF Direction!ReadChunk
  <2>8. Direction(z, k)!StreamStep
    BY <1>0, <1>1, <2>6, DirectionSame
  <2>9. Direction(y, k)!StreamStep
    BY <2>7 DEF Direction!StreamStep, Direction!StreamNext
  <2> QED BY <1>0, <2>8, <2>9, DirectionOne
<1>3. CASE ReadEOF(z, k)
  <2>1. /\ st[z][k].buf = <<>> /\ AtEOF(st[z][k]) /\ UNCHANGED <<st, got>>
        /\ k \in eof'[z]
    BY <1>3 DEF ReadEOF, AtEOF, Typed
  <2>2. CASE st[z][k].closed
    <3>1. closeErr[z] = "EOF"
      BY <2>1, <2>2 DEF AtEOF, EndInv, EndAt
    <3>2. Direction(y, k)!EndStream
      BY <1>0, <2>1, <3>1 DEF Direction!EndStream
    <3>3. Direction(z, k)!StreamStep
      BY <1>0, <1>1, <2>1, DirectionSame
    <3>4. Direction(y, k)!StreamStep
      BY <3>2 DEF Direction!StreamStep, Direction!StreamNext
    <3> QED BY <1>0, <3>3, <3>4, DirectionOne
  <2>3. CASE ~st[z][k].closed
    <3>1. Ended(st[z][k])
      BY <2>1, <2>3 DEF AtEOF, Ended
    <3>2. st[y][k].lwc /\ Received(z, k) = sent[y][k]
      BY <1>0, <3>1 DEF BufferAt, Ended
    <3>3. Len(got[z][k]) = sent[y][k]
      <4>1. PICK l \in Nat : l = Len(got[z][k])
        <5>1. got[z][k] \in Seq(Chunks)
          BY OrderTypes
        <5> QED BY <5>1
      <4>2. Len(st[z][k].buf) = 0
        BY <2>1
      <4>3. Received(z, k) = l + 0
        BY <4>1, <4>2 DEF Received
      <4>4. l + 0 = l
        BY <4>1
      <4> QED BY <3>2, <4>1, <4>3, <4>4
    <3>4. Direction(y, k)!EndStream
      BY <1>0, <2>1, <3>2, <3>3 DEF Direction!EndStream
    <3>5. Direction(z, k)!StreamStep
      BY <1>0, <1>1, <2>1, DirectionSame
    <3>6. Direction(y, k)!StreamStep
      BY <3>4 DEF Direction!StreamStep, Direction!StreamNext
    <3> QED BY <1>0, <3>5, <3>6, DirectionOne
  <2> QED BY <2>2, <2>3
<1>4. CASE \E n \in Chunks : Write(z, k, n)
  <2>1. UNCHANGED <<sent, got, eof, st>>
    BY <1>4 DEF Write, appVars
  <2> QED BY <1>0, <2>1, DirectionIdle
<1>5. CASE Close(z, k) \/ CloseWrite(z, k)
  <2>1. st'[z][k].lwc /\ UNCHANGED <<got, eof>>
    BY <1>5, CloseFields, CloseWriteFields DEF Close, CloseWrite, appVars
  <2>2. Direction(z, k)!CloseStream
    BY <1>0, <2>1 DEF Direction!CloseStream
  <2>3. Direction(z, k)!StreamStep
    BY <2>2 DEF Direction!StreamStep, Direction!StreamNext
  <2>4. Direction(y, k)!StreamStep
    BY <1>0, <1>1, <2>1, DirectionSame
  <2> QED BY <1>0, <2>3, <2>4, DirectionOne
<1>6. CASE CloseRead(z, k)
  <2>1. st'[z][k].lwc = st[z][k].lwc /\ UNCHANGED <<got, eof>>
    BY <1>6, CloseReadFields DEF CloseRead, appVars
  <2> QED BY <1>0, <2>1, DirectionKept
<1> QED BY <1>2, <1>3, <1>4, <1>5, <1>6 DEF AppStep

(* closeWithError cuts the streams that its session reads, or leaves them. *)
LEMMA DirectionTake ==
    ASSUME Typed, EndInv, NEW z \in Sides, TakeStreams(z)
    PROVE  \A x \in Sides, i \in Ids : Direction(x, i)!StreamStep
<1>0. UNCHANGED <<sent, got, eof, st>>
  BY DEF TakeStreams, appVars
<1>1. ASSUME NEW x \in Sides, NEW i \in Ids PROVE Direction(x, i)!StreamStep
  <2>0. Peer(x) \in Sides
    BY SidesPeer
  <2>1. CASE closeErr'[Peer(x)] = "EOF"
    <3>1. Direction(x, i)!CutStream
      BY <1>0, <2>1 DEF Direction!CutStream
    <3> QED BY <3>1 DEF Direction!StreamStep, Direction!StreamNext
  <2>2. CASE closeErr'[Peer(x)] # "EOF"
    <3>1. closeErr[Peer(x)] # "EOF"
      <4>1. CASE Peer(x) = z
        BY <2>0, <4>1 DEF TakeStreams, EndInv
      <4>2. CASE Peer(x) # z
        BY <2>0, <2>2, <4>2 DEF TakeStreams, Typed
      <4> QED BY <4>1, <4>2
    <3>2. (closeErr'[Peer(x)] = "EOF") = (closeErr[Peer(x)] = "EOF")
      BY <2>2, <3>1
    <3> QED BY <1>0, <3>2 DEF Direction!StreamStep, Direction!streamVars
  <2> QED BY <2>1, <2>2
<1> QED BY <1>1

LEMMA DirectionNext ==
    ASSUME MuxInv, [Next]_vars
    PROVE  \A x \in Sides, i \in Ids : Direction(x, i)!StreamStep
<1>0. Typed /\ QueueAccounted /\ FreshInv /\ OpeningInv /\ OpenInv /\ OrderInv /\ EndInv
  BY DEF MuxInv, Bounded
<1>1. CASE \/ \E x \in Sides : FinishClose(x) \/ LoseTail(x)
           \/ OpenStream \/ AcceptStream \/ UNCHANGED vars
  <2>1. UNCHANGED <<sent, got, eof, st, closeErr>>
    BY <1>1 DEF FinishClose, LoseTail, OpenStream, AcceptStream, vars, appVars, sessVars
  <2> QED BY <2>1, DirectionIdle
<1>8. CASE \E x \in Sides : TakeStreams(x)
  BY <1>0, <1>8, DirectionTake
<1>2. CASE \E x \in Sides : ReadFrame(x)
  BY <1>0, <1>2, DirectionRead
<1>3. CASE \E x \in Sides, i \in Ids : CloseTaken(x, i)
  <2>1. PICK x \in Sides, i \in Ids : CloseTaken(x, i)
    BY <1>3
  <2>2. Others(x, i) /\ st'[x][i] = closeNoSend(st[x][i], closeErr[x]) /\ st[x][i] \in StreamType
    BY <1>0, <2>1, CloseTakenTyped, StAt
  <2>3. UNCHANGED <<sent, got, eof, closeErr>>
    BY <2>1 DEF CloseTaken, appVars
  <2>4. st'[x][i].lwc = st[x][i].lwc
    <3>1. closeErr[x] \in Errors
      BY <1>0, ErrorsAt
    <3> QED BY <2>2, <3>1, CloseNoSendIs
  <2> QED BY <2>2, <2>3, <2>4, DirectionKept
<1>4. CASE \E x \in Sides, i \in Ids : AppStep(x, i)
  BY <1>0, <1>4, DirectionApp
<1>5. CASE \E x \in Sides, i \in Ids : WriterStep(x, i) \/ SendReset(x, i)
  BY <1>0, <1>5, DirectionWriter
<1>6. CASE \E i \in Ids : OpenSend(i) \/ QueueAccept(i)
  <2>1. PICK i \in Ids : OpenSend(i) \/ QueueAccept(i)
    BY <1>6
  <2>2. PICK x \in Sides, e \in Errors :
           /\ Others(x, i)
           /\ st'[x][i] = st[x][i] \/ st'[x][i] = closeNoSend(st[x][i], e)
    <3>1. CASE OpenSend(i)
      <4>1. Others("client", i)
        BY <1>0, <3>1, OpenSendTyped
      <4>2. st'["client"][i] = st["client"][i]
            \/ st'["client"][i] = closeNoSend(st["client"][i], closeErr["client"])
        BY <1>0, <3>1, MadeSides DEF OpenSend, Typed
      <4> QED BY <1>0, <4>1, <4>2, MadeSides, ErrorsAt
    <3>2. CASE QueueAccept(i)
      <4>1. Others("server", i)
        BY <1>0, <3>2, QueueAcceptTyped
      <4>2. st'["server"][i] = st["server"][i]
            \/ st'["server"][i] = closeNoSend(st["server"][i], "other")
        BY <1>0, <3>2, MadeSides DEF QueueAccept, Typed
      <4> QED BY <1>0, <4>1, <4>2, MadeSides, ErrorsAt
    <3> QED BY <2>1, <3>1, <3>2
  <2>3. st[x][i] \in StreamType
    BY <1>0, StAt
  <2>4. UNCHANGED <<sent, got, eof, closeErr>>
    BY <2>1 DEF OpenSend, QueueAccept, appVars, sessVars
  <2>5. st'[x][i].lwc = st[x][i].lwc
    BY <2>2, <2>3, CloseNoSendIs
  <2> QED BY <2>2, <2>4, <2>5, DirectionKept
<1>7. CASE \E i \in Ids : OpenRegister(i)
  <2>1. PICK i \in Ids : OpenRegister(i)
    BY <1>7
  <2>2. Registers("client", i) /\ "client" \in Sides
    BY <1>0, <2>1, OpenRegisterRegisters, MadeSides
  <2>3. Others("client", i) /\ UNCHANGED <<sent, got, eof, closeErr>>
    BY <2>2 DEF Registers
  <2>4. st'["client"][i].lwc = st["client"][i].lwc
    BY <2>2 DEF Registers, Untouched, NoStream, newStream
  <2> QED BY <2>2, <2>3, <2>4, DirectionKept
<1> QED BY <1>1, <1>2, <1>3, <1>4, <1>5, <1>6, <1>7, <1>8 DEF Next, CloserStep

\* Both directions of every stream are half-closable streams, for every number
\* of streams and chunks, every queue and connection size and any side writing:
\* what Read returns are the chunks that the peer's Write was given, in order,
\* none missing, none twice and none after io.EOF; and io.EOF comes only after
\* the peer closed the direction and everything was read, or after the reader's
\* own session ended with io.EOF, whatever resets, full queues and other errors
\* do in between (enqueue, Read, closeNoSend, closeRemoteWrite, readLoop).
THEOREM MuxIsStreamCorrect == Spec => MuxIsStream
<1>1. Init => \A x \in Sides, i \in Ids : Direction(x, i)!StreamInit
  BY DirectionInit
<1>2. MuxInv /\ [Next]_vars =>
         [\A x \in Sides, i \in Ids : Direction(x, i)!StreamStep]_vars
  BY DirectionNext
<1> QED BY <1>1, <1>2, MuxInvCorrect, PTL DEF Spec, MuxIsStream
=============================================================================
