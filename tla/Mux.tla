-------------------------------- MODULE Mux --------------------------------
(***************************************************************************)
(* The stream multiplexer of the sudoku kernel                             *)
(* (core/sudoku/transport/multiplex/session.go): a client session that     *)
(* opens streams and a server session that accepts them, over one          *)
(* connection.                                                             *)
(*                                                                         *)
(* A session is used by many goroutines: its read loop, the goroutine that *)
(* runs closeWithError, one goroutine per stream inside Write, Close or    *)
(* CloseWrite (they exclude each other by the stream's writeMu), openers,  *)
(* pending accepts and pending resets.  A step is one critical section or  *)
(* one frame written.  The connection (external) delivers frames in order, *)
(* holds at most ConnCap of them per direction and may lose the tail of    *)
(* what a side wrote before it closed the connection.                      *)
(***************************************************************************)
EXTENDS Naturals, Sequences, FiniteSets

CONSTANTS MaxStreams,   \* bound on the streams a client opens
          MaxChunks,    \* bound on the chunks written to a stream and direction
          Writers,      \* the sides that write data
          MaxQueued,    \* maxQueuedBytesPerStream, in chunks
          AcceptCap,    \* capacity of acceptCh
          ConnCap       \* frames the connection holds in one direction

ASSUME MuxAssumption ==
    /\ {MaxStreams, MaxChunks} \subseteq Nat
    /\ Writers \subseteq {"client", "server"}
    /\ {MaxQueued, AcceptCap, ConnCap} \subseteq Nat \ {0}

Sides == {"client", "server"}
Peer(x) == IF x = "client" THEN "server" ELSE "client"
Ids == 1 .. MaxStreams

VARIABLES
    sess,      \* closeWithError: "open", "closing" (streams taken), "closed"
    closeErr,  \* closeErr: the error closeWithError was given first
    taken,     \* the streams closeWithError has taken and not closed yet
    streams,   \* streams: the ids in the map
    st,        \* the stream objects
    nextID,    \* nextID of the client
    opening,   \* OpenStream calls: "none", "checked", "registered", "done"
    accepts,   \* goroutines that wait to put a stream into acceptCh
    acceptCh,  \* acceptCh
    handed,    \* streams the application has
    writer,    \* the goroutine that holds a stream's writeMu
    resets,    \* pending sendReset calls
    net,       \* frames written by a side and not yet read by its peer
    sent, got, \* history: chunks written and read, per stream
    eof        \* history: streams whose Read has returned io.EOF

appVars == <<sent, got, eof>>
sessVars == <<sess, closeErr, taken>>
vars == <<sess, closeErr, taken, streams, st, nextID, opening, accepts, acceptCh, handed,
          writer, resets, net, sent, got, eof>>

(* Errors: nil, io.EOF and the others, which no reader takes for an end.   *)
Errors == {"nil", "EOF", "other"}

(* closed, localReadClosed, localWriteClosed, remoteWriteClosed, closeErr; *)
(* readBuf and queue as one sequence of chunks; queuedBytes.               *)
newStream == [made |-> TRUE, closed |-> FALSE, lrc |-> FALSE, lwc |-> FALSE,
              rwc |-> FALSE, err |-> "nil", buf |-> <<>>, queued |-> 0]
NoStream == [newStream EXCEPT !.made = FALSE]

Chunks == 1 .. MaxChunks
Frame == [type : {"open", "close", "reset"}, id : Ids]
            \cup [type : {"data"}, id : Ids, chunk : Chunks]

NoWriter == [op |-> "none"]
Writer == {NoWriter} \cup [op : {"write"}, left : Chunks]
                     \cup [op : {"close", "forget"}]
                     \cup [op : {"closeWrite"}, remove : BOOLEAN]

UpTo(S, n) == UNION {[1 .. k -> S] : k \in 0 .. n}

MuxTypeOK ==
    /\ sess \in [Sides -> {"open", "closing", "closed"}]
    /\ closeErr \in [Sides -> Errors]
    /\ taken \in [Sides -> SUBSET Ids] /\ streams \in [Sides -> SUBSET Ids]
    /\ st \in [Sides -> [Ids ->
          [made : BOOLEAN, closed : BOOLEAN, lrc : BOOLEAN, lwc : BOOLEAN,
           rwc : BOOLEAN, err : Errors, buf : UpTo(Chunks, MaxQueued),
           queued : 0 .. MaxQueued]]]
    /\ nextID \in 0 .. MaxStreams
    /\ opening \in [Ids -> {"none", "checked", "registered", "done"}]
    /\ accepts \subseteq Ids
    /\ acceptCh \in UpTo(Ids, AcceptCap)
    /\ handed \in [Sides -> SUBSET Ids]
    /\ writer \in [Sides -> [Ids -> Writer]]
    /\ resets \in [Sides -> [Ids -> 0 .. 2]]
    /\ \A x \in Sides : Len(net[x]) <= ConnCap
                        /\ \A i \in DOMAIN net[x] : net[x][i] \in Frame
    /\ sent \in [Sides -> [Ids -> 0 .. MaxChunks]]
    /\ got \in [Sides -> [Ids -> UpTo(Chunks, MaxChunks)]]
    /\ eof \in [Sides -> SUBSET Ids]

(* NewClientSession and NewServerSession.                                  *)
Init ==
    /\ sess = [x \in Sides |-> "open"]
    /\ closeErr = [x \in Sides |-> "nil"]
    /\ taken = [x \in Sides |-> {}] /\ streams = [x \in Sides |-> {}]
    /\ st = [x \in Sides |-> [i \in Ids |-> NoStream]]
    /\ nextID = 0
    /\ opening = [i \in Ids |-> "none"]
    /\ accepts = {} /\ acceptCh = <<>>
    /\ handed = [x \in Sides |-> {}]
    /\ writer = [x \in Sides |-> [i \in Ids |-> NoWriter]]
    /\ resets = [x \in Sides |-> [i \in Ids |-> 0]]
    /\ net = [x \in Sides |-> <<>>]
    /\ sent = [x \in Sides |-> [i \in Ids |-> 0]]
    /\ got = [x \in Sides |-> [i \in Ids |-> <<>>]]
    /\ eof = [x \in Sides |-> {}]

-----------------------------------------------------------------------------
(* sendFrame: fails once the session is closed, waits for the connection.  *)
(* The keepalive frame for stream zero, which the peer drops, is left out. *)

IsClosed(x) == sess[x] = "closed"
CanSend(x) == ~IsClosed(x) /\ Len(net[x]) < ConnCap
SendFails(x) == IsClosed(x)
Send(x, frame) == net' = [net EXCEPT ![x] = Append(@, frame)]

Control(type, id) == [type |-> type, id |-> id]

-----------------------------------------------------------------------------
(* closeWithError: by Session.Close, a failed write or the read loop.  Its *)
(* error is io.EOF when the read loop finds the connection ended between   *)
(* two frames, or between a header and its payload (io.ReadFull), which    *)
(* the peer's close or whatever carries the connection may bring about at  *)
(* any time.                                                               *)

TakeStreams(x) ==
    /\ sess[x] = "open"
    /\ \E err \in {"EOF", "other"} : closeErr' = [closeErr EXCEPT ![x] = err]
    /\ sess' = [sess EXCEPT ![x] = "closing"]
    /\ taken' = [taken EXCEPT ![x] = streams[x]]
    /\ streams' = [streams EXCEPT ![x] = {}]
    /\ UNCHANGED <<st, nextID, opening, accepts, acceptCh, handed, writer, resets,
                   net, appVars>>

(* closeNoSend keeps what was received: it can still be read.  The first   *)
(* error stays.                                                            *)
closeNoSend(s, err) == IF s.closed THEN s ELSE [s EXCEPT !.closed = TRUE, !.err = err]

CloseTaken(x, i) ==
    /\ i \in taken[x]
    /\ taken' = [taken EXCEPT ![x] = @ \ {i}]
    /\ st' = [st EXCEPT ![x][i] = closeNoSend(@, closeErr[x])]
    /\ UNCHANGED <<sess, closeErr, streams, nextID, opening, accepts, acceptCh, handed,
                   writer, resets, net, appVars>>

(* Mutant: the session is marked closed before its streams are.            *)
FinishCloseEarly(x) ==
    /\ sess[x] = "closing"
    /\ sess' = [sess EXCEPT ![x] = "closed"]
    /\ UNCHANGED <<closeErr, taken, streams, st, nextID, opening, accepts, acceptCh,
                   handed, writer, resets, net, appVars>>

(* close(closed) and conn.Close.                                           *)
FinishClose(x) ==
    /\ sess[x] = "closing"
    /\ taken[x] = {}
    /\ sess' = [sess EXCEPT ![x] = "closed"]
    /\ UNCHANGED <<closeErr, taken, streams, st, nextID, opening, accepts, acceptCh,
                   handed, writer, resets, net, appVars>>

(* The connection drops the tail of what the closed side had written.      *)
LoseTail(x) ==
    /\ sess[x] = "closed" /\ net[x] # <<>>
    /\ net' = [net EXCEPT ![x] = SubSeq(@, 1, Len(@) - 1)]
    /\ UNCHANGED <<sessVars, streams, st, nextID, opening, accepts, acceptCh,
                   handed, writer, resets, appVars>>

-----------------------------------------------------------------------------
(* OpenStream: the closed check and the new id, the registration, the open *)
(* frame.  A send that fails returns the error of the session.             *)

nextStreamID == nextID + 1   \* MaxStreams is far below the wrap to zero

OpenStream ==
    /\ ~IsClosed("client")
    /\ nextID < MaxStreams
    /\ nextID' = nextStreamID
    /\ opening' = [opening EXCEPT ![nextStreamID] = "checked"]
    /\ UNCHANGED <<sessVars, streams, st, accepts, acceptCh, handed, writer, resets,
                   net, appVars>>

getStream(x, i) == i \in streams[x]

removeStream(x, i) == streams' = [streams EXCEPT ![x] = @ \ {i}]

registerStream(x, i) ==
    /\ streams' = [streams EXCEPT ![x] = @ \cup {i}]
    /\ st' = [st EXCEPT ![x][i] = newStream]

OpenRegister(i) ==
    /\ opening[i] = "checked"
    /\ registerStream("client", i)
    /\ opening' = [opening EXCEPT ![i] = "registered"]
    /\ UNCHANGED <<sessVars, nextID, accepts, acceptCh, handed, writer, resets, net,
                   appVars>>

OpenSend(i) ==
    /\ opening[i] = "registered"
    /\ opening' = [opening EXCEPT ![i] = "done"]
    /\ \/ /\ CanSend("client")
          /\ Send("client", Control("open", i))
          /\ handed' = [handed EXCEPT !["client"] = @ \cup {i}]
          /\ UNCHANGED <<streams, st>>
       \/ /\ SendFails("client")
          /\ st' = [st EXCEPT !["client"][i] = closeNoSend(@, closeErr["client"])]
          /\ removeStream("client", i)
          /\ UNCHANGED <<handed, net>>
    /\ UNCHANGED <<sessVars, nextID, accepts, acceptCh, writer, resets, appVars>>

-----------------------------------------------------------------------------
(* AcceptStream, and the goroutine that the read loop starts for it.       *)

QueueAccept(i) ==
    /\ i \in accepts
    /\ accepts' = accepts \ {i}
    /\ \/ /\ Len(acceptCh) < AcceptCap
          /\ acceptCh' = Append(acceptCh, i)
          /\ UNCHANGED <<streams, st>>
       \/ /\ IsClosed("server")
          /\ st' = [st EXCEPT !["server"][i] = closeNoSend(@, "other")]
          /\ removeStream("server", i)
          /\ UNCHANGED acceptCh
    /\ UNCHANGED <<sessVars, nextID, opening, handed, writer, resets, net, appVars>>

AcceptStream ==
    /\ acceptCh # <<>>
    /\ handed' = [handed EXCEPT !["server"] = @ \cup {Head(acceptCh)}]
    /\ acceptCh' = Tail(acceptCh)
    /\ UNCHANGED <<sessVars, streams, st, nextID, opening, accepts, writer, resets,
                   net, appVars>>

-----------------------------------------------------------------------------
(* readLoop.                                                               *)

QueueFull(s) == s.queued + 1 > MaxQueued
Ignores(s) == s.closed \/ s.lrc \/ s.rwc

enqueue(s, chunk) == [s EXCEPT !.buf = Append(@, chunk), !.queued = @ + 1]

(* A server that does not know the id.  Only clients open streams and they *)
(* never use an id twice, so the other outcomes of frameOpen do not occur. *)
HandleOpen(x, i) ==
    /\ registerStream(x, i)
    /\ accepts' = accepts \cup {i}
    /\ UNCHANGED resets

(* Mutant: a full queue makes the read loop wait.                          *)
HandleDataWaits(x, i, chunk) ==
    LET s == st[x][i] IN
    /\ i \in streams[x] => Ignores(s) \/ ~QueueFull(s)
    /\ st' = [st EXCEPT ![x][i] =
                 IF i \notin streams[x] \/ Ignores(s) THEN s ELSE enqueue(s, chunk)]
    /\ UNCHANGED <<streams, accepts, resets>>

(* Data for an unknown stream is dropped; a stream whose queue is full is  *)
(* closed, forgotten and reset by a goroutine.                             *)
HandleData(x, i, chunk) ==
    LET s == st[x][i]
        known == getStream(x, i)
    IN /\ \/ /\ ~known \/ Ignores(s)
             /\ UNCHANGED <<streams, st, resets>>
          \/ /\ known /\ ~Ignores(s) /\ ~QueueFull(s)
             /\ st' = [st EXCEPT ![x][i] = enqueue(s, chunk)]
             /\ UNCHANGED <<streams, resets>>
          \/ /\ known /\ ~Ignores(s) /\ QueueFull(s)
             /\ st' = [st EXCEPT ![x][i] = closeNoSend(s, "other")]
             /\ removeStream(x, i)
             /\ resets' = [resets EXCEPT ![x][i] = 2]
       /\ UNCHANGED accepts

(* Mutant: a half-closed stream stays in the map when the peer closes too. *)
HandleCloseKeeps(x, i) ==
    LET s == st[x][i] IN
    /\ st' = [st EXCEPT ![x][i] =
                 IF i \in streams[x] /\ ~s.closed THEN [s EXCEPT !.rwc = TRUE] ELSE s]
    /\ UNCHANGED <<streams, accepts, resets>>

closeRemoteWrite(s) == IF s.closed THEN s ELSE [s EXCEPT !.rwc = TRUE]

(* The stream goes when this side is closed for writing, too.              *)
HandleClose(x, i) ==
    LET s == st[x][i] IN
    /\ IF getStream(x, i)
       THEN st' = [st EXCEPT ![x][i] = closeRemoteWrite(s)]
       ELSE UNCHANGED st
    /\ IF getStream(x, i) /\ ~s.closed /\ s.lwc
       THEN removeStream(x, i)
       ELSE UNCHANGED streams
    /\ UNCHANGED <<accepts, resets>>

HandleReset(x, i) ==
    /\ st' = [st EXCEPT ![x][i] = IF getStream(x, i) THEN closeNoSend(@, "other") ELSE @]
    /\ removeStream(x, i)
    /\ UNCHANGED <<accepts, resets>>

(* A read loop that has found the end of the connection has returned.      *)
ReadFrame(x) ==
    /\ sess[x] # "closed" /\ closeErr[x] # "EOF"
    /\ net[Peer(x)] # <<>>
    /\ LET f == Head(net[Peer(x)]) IN
          CASE f.type = "open" -> HandleOpen(x, f.id)
            [] f.type = "data" -> HandleData(x, f.id, f.chunk)
            [] f.type = "close" -> HandleClose(x, f.id)
            [] f.type = "reset" -> HandleReset(x, f.id)
    /\ net' = [net EXCEPT ![Peer(x)] = Tail(@)]
    /\ UNCHANGED <<sessVars, nextID, opening, acceptCh, handed, writer, appVars>>

(* sendReset in its goroutine: a reset frame, then a close frame.          *)
SendReset(x, i) ==
    /\ resets[x][i] > 0
    /\ resets' = [resets EXCEPT ![x][i] = @ - 1]
    /\ \/ /\ CanSend(x)
          /\ Send(x, Control(IF resets[x][i] = 2 THEN "reset" ELSE "close", i))
       \/ SendFails(x) /\ UNCHANGED net
    /\ UNCHANGED <<sessVars, streams, st, nextID, opening, accepts, acceptCh,
                   handed, writer, appVars>>

-----------------------------------------------------------------------------
(* The application's calls on a stream it has.                             *)

LockWrite(x, i) == i \in handed[x] /\ writer[x][i] = NoWriter

SetWriter(x, i, w) == writer' = [writer EXCEPT ![x][i] = w]

(* Mutant: reading forgets to give the bytes back.                         *)
dequeueKeepBytes(s) == [s EXCEPT !.buf = Tail(@)]

dequeue(s) == [s EXCEPT !.buf = Tail(@), !.queued = @ - 1]

ReadData(x, i) ==
    /\ i \in handed[x]
    /\ st[x][i].buf # <<>>
    /\ got' = [got EXCEPT ![x][i] = Append(@, Head(st[x][i].buf))]
    /\ st' = [st EXCEPT ![x][i] = dequeue(@)]
    /\ UNCHANGED <<sessVars, streams, nextID, opening, accepts, acceptCh, handed,
                   writer, resets, net, sent, eof>>

(* Mutant: the peer's close is looked at before the buffer.                *)
AtEOFEarly(s) == ~s.closed /\ ~s.lrc /\ s.rwc

(* Read returns io.EOF: an empty buffer, and either the stream was closed  *)
(* with that error or the peer has closed its side.                        *)
AtEOF(s) ==
    /\ s.buf = <<>>
    /\ IF s.closed THEN s.err = "EOF" ELSE ~s.lrc /\ s.rwc

ReadEOF(x, i) ==
    /\ i \in handed[x] \ eof[x]
    /\ AtEOF(st[x][i])
    /\ eof' = [eof EXCEPT ![x] = @ \cup {i}]
    /\ UNCHANGED <<sessVars, streams, st, nextID, opening, accepts, acceptCh,
                   handed, writer, resets, net, sent, got>>

(* Write of n chunks: the checks, then one frame per chunk.                *)
Write(x, i, n) ==
    /\ x \in Writers
    /\ LockWrite(x, i)
    /\ sess[x] # "closed" /\ ~st[x][i].closed /\ ~st[x][i].lwc
    /\ sent[x][i] + n <= MaxChunks
    /\ SetWriter(x, i, [op |-> "write", left |-> n])
    /\ UNCHANGED <<sessVars, streams, st, nextID, opening, accepts, acceptCh,
                   handed, resets, net, appVars>>

WriteChunk(x, i) ==
    LET w == writer[x][i] IN
    /\ w.op = "write"
    /\ \/ /\ CanSend(x)
          /\ Send(x, [type |-> "data", id |-> i, chunk |-> sent[x][i] + 1])
          /\ sent' = [sent EXCEPT ![x][i] = @ + 1]
          /\ SetWriter(x, i, IF w.left = 1 THEN NoWriter ELSE [w EXCEPT !.left = @ - 1])
       \/ /\ SendFails(x)
          /\ SetWriter(x, i, NoWriter)
          /\ UNCHANGED <<net, sent>>
    /\ UNCHANGED <<sessVars, streams, st, nextID, opening, accepts, acceptCh,
                   handed, resets, got, eof>>

(* Close: what was received is dropped; a close frame only when CloseWrite *)
(* has not sent one; then the stream is forgotten.                         *)
Close(x, i) ==
    /\ LockWrite(x, i)
    /\ ~st[x][i].closed
    /\ st' = [st EXCEPT ![x][i] = [@ EXCEPT !.closed = TRUE, !.lrc = TRUE,
                                            !.lwc = TRUE, !.err = "other",
                                            !.buf = <<>>, !.queued = 0]]
    /\ SetWriter(x, i, [op |-> IF st[x][i].lwc THEN "forget" ELSE "close"])
    /\ UNCHANGED <<sessVars, streams, nextID, opening, accepts, acceptCh, handed,
                   resets, net, appVars>>

CloseWrite(x, i) ==
    LET s == st[x][i] IN
    /\ LockWrite(x, i)
    /\ ~s.closed /\ ~s.lwc
    /\ st' = [st EXCEPT ![x][i].lwc = TRUE]
    /\ SetWriter(x, i, [op |-> "closeWrite", remove |-> s.rwc \/ s.lrc])
    /\ UNCHANGED <<sessVars, streams, nextID, opening, accepts, acceptCh, handed,
                   resets, net, appVars>>

(* The close frame of Close or CloseWrite, sent or not.                    *)
SendClose(x, i) ==
    LET w == writer[x][i] IN
    /\ w.op \in {"close", "closeWrite"}
    /\ \/ CanSend(x) /\ Send(x, Control("close", i))
       \/ SendFails(x) /\ UNCHANGED net
    /\ SetWriter(x, i, IF w.op = "close" \/ w.remove THEN [op |-> "forget"]
                       ELSE NoWriter)
    /\ UNCHANGED <<sessVars, streams, st, nextID, opening, accepts, acceptCh,
                   handed, resets, appVars>>

Forget(x, i) ==
    /\ writer[x][i].op = "forget"
    /\ streams' = [streams EXCEPT ![x] = @ \ {i}]
    /\ SetWriter(x, i, NoWriter)
    /\ UNCHANGED <<sessVars, st, nextID, opening, accepts, acceptCh, handed, resets,
                   net, appVars>>

CloseRead(x, i) ==
    LET s == st[x][i] IN
    /\ i \in handed[x]
    /\ ~s.closed /\ ~s.lrc
    /\ st' = [st EXCEPT ![x][i] = [s EXCEPT !.lrc = TRUE, !.buf = <<>>, !.queued = 0]]
    /\ streams' = [streams EXCEPT ![x] = IF s.lwc THEN @ \ {i} ELSE @]
    /\ UNCHANGED <<sessVars, nextID, opening, accepts, acceptCh, handed, writer,
                   resets, net, appVars>>

-----------------------------------------------------------------------------
WriterStep(x, i) == WriteChunk(x, i) \/ SendClose(x, i) \/ Forget(x, i)

CloserStep(x) == (\E i \in Ids : CloseTaken(x, i)) \/ FinishClose(x)

AppStep(x, i) ==
    \/ ReadData(x, i) \/ ReadEOF(x, i)
    \/ \E n \in Chunks : Write(x, i, n)
    \/ Close(x, i) \/ CloseWrite(x, i) \/ CloseRead(x, i)

Next ==
    \/ \E x \in Sides : TakeStreams(x) \/ CloserStep(x) \/ LoseTail(x)
                        \/ ReadFrame(x)
    \/ \E x \in Sides, i \in Ids : AppStep(x, i) \/ WriterStep(x, i) \/ SendReset(x, i)
    \/ OpenStream \/ AcceptStream
    \/ \E i \in Ids : OpenRegister(i) \/ OpenSend(i) \/ QueueAccept(i)

Spec == Init /\ [][Next]_vars

(* The read loop sees the end of a connection that its peer closed.        *)
ReadFails(x) == sess[Peer(x)] = "closed" /\ net[Peer(x)] = <<>> /\ TakeStreams(x)

(* Every goroutine inside the package keeps running, the read loops first; *)
(* writers get writeMu and the connection in turn (strong fairness).  The  *)
(* application may stop reading, accepting and closing at any time.        *)
Fairness ==
    /\ \A x \in Sides : /\ WF_vars(ReadFrame(x)) /\ WF_vars(ReadFails(x))
                        /\ WF_vars(CloserStep(x))
    /\ \A x \in Sides, i \in Ids : SF_vars(WriterStep(x, i))

FairSpec == Spec /\ Fairness

-----------------------------------------------------------------------------
(* Properties.                                                             *)

(* The stream i from side x to its peer, as the abstract half-closable     *)
(* stream sees it.  It is cut when the reader's session has ended with     *)
(* io.EOF.                                                                 *)
Direction(x, i) ==
    INSTANCE Stream WITH written <- sent[x][i], read <- got[Peer(x)][i],
                         closed <- st[x][i].lwc, ended <- i \in eof[Peer(x)],
                         cut <- closeErr[Peer(x)] = "EOF"

(* Both directions of every stream are half-closable streams: a reader     *)
(* gets the chunks its peer wrote, none missing and none twice, and        *)
(* nothing after io.EOF; and as long as the reader's own session has not   *)
(* ended with io.EOF, a Read returns io.EOF only after the peer closed the *)
(* direction and everything was read.  A reset, a full queue and any other *)
(* error of the session is an error of Read.  But a connection that ends   *)
(* between two frames gives every open stream io.EOF, whether its peer had *)
(* closed it or not (readLoop, closeWithError, closeNoSend, enqueue, Read, *)
(* closeRemoteWrite, writeMu).  It is StreamSpec for every direction, with *)
(* one box over all of them.                                               *)
MuxIsStream ==
    /\ \A x \in Sides, i \in Ids : Direction(x, i)!StreamInit
    /\ [][\A x \in Sides, i \in Ids : Direction(x, i)!StreamStep]_vars

(* queuedBytes is what is buffered, and within its limit: a reader that    *)
(* keeps up is never reset for a full queue, and one that does not keeps   *)
(* no more than maxQueuedBytesPerStream (enqueue, Read, Close, CloseRead). *)
QueueAccounted ==
    \A x \in Sides, i \in Ids :
        st[x][i].queued = Len(st[x][i].buf) /\ st[x][i].queued <= MaxQueued

(* A stream that was in the map when its session closed is closed by the   *)
(* time the session is: its reader does not wait for ever.  The streams    *)
(* left out are those registered after closeWithError emptied the map.     *)
CloseReachesStreams ==
    \A x \in Sides : sess[x] = "closed" =>
        \A i \in Ids \ streams[x] : i \in handed[x] =>
            \/ st[x][i].closed
            \/ st[x][i].lwc /\ (st[x][i].rwc \/ st[x][i].lrc)

(* Every Write, Close and CloseWrite returns although the peer's           *)
(* application reads nothing: a slow stream is reset and cannot block the  *)
(* shared demux loop (the comment of maxQueuedBytesPerStream).             *)
WriteEnds ==
    \A x \in Sides, i \in Ids : writer[x][i] # NoWriter ~> writer[x][i] = NoWriter

Finished(s) == s.closed \/ (s.lwc /\ (s.rwc \/ s.lrc))

(* A stream that is closed, or half-closed in a way that ends it, is out   *)
(* of the map, or the goroutine that holds its writeMu is about to take it *)
(* out: a long-lived session collects no dead streams, whichever of the    *)
(* half-closes comes first (closeRemoteWrite, Close, CloseWrite,           *)
(* CloseRead).                                                             *)
FinishedIsForgotten ==
    \A x \in Sides : \A i \in streams[x] : Finished(st[x][i]) =>
        LET w == writer[x][i] IN
        w.op \in {"close", "forget"} \/ (w.op = "closeWrite" /\ w.remove)
=============================================================================
