------------------------------- MODULE Tunnel -------------------------------
(***************************************************************************)
(* One session of an HTTP tunnel (core/sudoku/transport/obfs/httpmask):    *)
(* the client connection of the stream and poll modes (tunnel_conn_*.go)   *)
(* and the session of the server (tunnel_server.go) behind which the proxy *)
(* (app) reads and writes a half pipe (halfpipe.go).                       *)
(*                                                                         *)
(* Uplink batches travel as numbered POST requests that are retried until  *)
(* answered, the downlink as the body of one GET at a time.  Each request  *)
(* is a goroutine of the server; the one of a request whose connection was *)
(* reset goes on, next to the one of the retry.  Payloads are numbered     *)
(* chunks; a request on a connection is live until the client, the server  *)
(* or the network drops it.  Dialling and authorization are in             *)
(* SudokuServer.                                                           *)
(***************************************************************************)
EXTENDS Naturals, Sequences, FiniteSets

CONSTANTS MaxUp,         \* bound on the chunks the client writes
          MaxDown,       \* bound on the chunks the proxy writes
          MaxData,       \* bound on the chunks both write
          MaxBatch,      \* maxBatchBytes, in chunks
          QueueDepth,    \* queuedConnPayloadQueueDepth
          OutCap,        \* chunks a response holds in transit
          MaxFaults,     \* bound on the connections that break or stall
          MaxAttempts    \* maxAttempts of sendSessionControl

ASSUME TunnelAssumption ==
    /\ {MaxUp, MaxDown, MaxData, MaxFaults} \subseteq Nat
    /\ {MaxBatch, QueueDepth, OutCap, MaxAttempts} \subseteq Nat \ {0}

VARIABLES
    cl,    \* the client connection and its two loops
    sess,  \* tunnelSession and the server's end of its half pipe
    up,    \* upload requests on the server
    dn,    \* pull requests on the server and their responses
    app,   \* the proxy's end of the half pipe
    net    \* late FIN requests; faults so far and the harm they did

vars == <<cl, sess, up, dn, app, net>>

(* One request is live at a time; every other one lost its connection.     *)
Requests == 1 .. MaxFaults + 1

(* What the tunnel has no defence against: a proxy that did not read for   *)
(* 30 seconds, a request body that ended early, a chunk that was written   *)
(* to a response and did not arrive, one that arrived although its write   *)
(* failed.                                                                 *)
Harms == {"stall", "body", "lost", "repeat"}

NoLease == 0
NoChunk == 0
NoPush == [pc |-> "free", live |-> FALSE, seq |-> 0, chunk |-> 0, last |-> 0,
           code |-> "ok"]
NoPull == [pc |-> "free", live |-> FALSE, open |-> FALSE, prev |-> NoLease,
           out |-> <<>>, fin |-> "end"]

(* A failed write may repeat a chunk, once for each fault.                 *)
Chunks(n) == UNION {[1 .. k -> 1 .. n] : k \in 0 .. n + MaxFaults}

TunnelTypeOK ==
    /\ cl \in [closed : BOOLEAN, wclosed : BOOLEAN, wdone : {"no", "ok", "err"},
               reof : BOOLEAN, accepted : 0 .. MaxUp, taken : 0 .. MaxUp,
               flushed : 0 .. MaxUp, seq : 0 .. MaxUp,
               push : {"loop", "drain", "send", "fin", "finDone", "done"},
               back : {"loop", "drain"}, tries : 0 .. MaxAttempts,
               pull : {"loop", "done"}, rxc : Chunks(MaxDown),
               got : Chunks(MaxDown), eof : BOOLEAN]
    /\ sess \in [present : BOOLEAN, upc : BOOLEAN, dnc : BOOLEAN, gone : BOOLEAN,
                 next : 1 .. MaxUp + 1, lease : {NoLease} \cup Requests,
                 pending : 0 .. MaxDown]
    /\ up \in [Requests -> [pc : {"free", "lock", "write", "close", "reply"},
                            live : BOOLEAN, seq : 0 .. MaxUp, chunk : 0 .. MaxUp,
                            last : 0 .. MaxUp,
                            code : {"ok", "gap", "gone", "forbidden"}]]
    /\ dn \in [Requests -> [pc : {"free", "begin", "wait", "run", "end", "ended"},
                            live : BOOLEAN, open : BOOLEAN,
                            prev : {NoLease} \cup Requests, out : Chunks(MaxDown),
                            fin : {"end", "eof", "forbidden"}]]
    /\ \A r \in Requests : Len(dn[r].out) <= OutCap
    /\ app \in [got : Chunks(MaxUp), sent : 0 .. MaxDown,
                state : {"open", "half", "closed"}]
    /\ net \in [fin : BOOLEAN, faults : 0 .. MaxFaults, harm : SUBSET Harms]

(* newStreamSplitConn or newPollConn after sessionAuthorize.               *)
Init ==
    /\ cl = [closed |-> FALSE, wclosed |-> FALSE, wdone |-> "no", reof |-> FALSE,
             accepted |-> 0, taken |-> 0, flushed |-> 0, seq |-> 0, push |-> "loop",
             back |-> "loop", tries |-> 0, pull |-> "loop", rxc |-> <<>>,
             got |-> <<>>, eof |-> FALSE]
    /\ sess = [present |-> TRUE, upc |-> FALSE, dnc |-> FALSE, gone |-> FALSE,
               next |-> 1, lease |-> NoLease, pending |-> NoChunk]
    /\ up = [r \in Requests |-> NoPush] /\ dn = [r \in Requests |-> NoPull]
    /\ app = [got |-> <<>>, sent |-> 0, state |-> "open"]
    /\ net = [fin |-> FALSE, faults |-> 0, harm |-> {}]

Fault(harm) ==
    /\ net.faults < MaxFaults
    /\ net' = [net EXCEPT !.faults = @ + 1, !.harm = @ \cup harm]

(* A request gets the first free record.                                   *)
First(f, r) == f[r].pc = "free" /\ \A q \in Requests : q < r => f[q].pc # "free"

NoneLive(f) == \A r \in Requests : ~f[r].live

-----------------------------------------------------------------------------
(* The client connection as its user sees it (queuedConn).                 *)

Write ==
    /\ ~cl.closed /\ ~cl.wclosed
    /\ cl.accepted - cl.taken < QueueDepth
    /\ cl.accepted < MaxUp /\ cl.accepted + app.sent < MaxData
    /\ cl' = [cl EXCEPT !.accepted = @ + 1]
    /\ UNCHANGED <<sess, up, dn, app, net>>

CloseWrite ==
    /\ ~cl.wclosed
    /\ cl' = [cl EXCEPT !.wclosed = TRUE]
    /\ UNCHANGED <<sess, up, dn, app, net>>

Read ==
    /\ cl.rxc # <<>>
    /\ cl' = [cl EXCEPT !.rxc = Tail(@), !.got = Append(@, Head(cl.rxc))]
    /\ UNCHANGED <<sess, up, dn, app, net>>

ReadEOF ==
    /\ cl.rxc = <<>> /\ cl.reof /\ ~cl.eof
    /\ cl' = [cl EXCEPT !.eof = TRUE]
    /\ UNCHANGED <<sess, up, dn, app, net>>

(* What the client gave up goes on at the server, which does not know it.  *)
Drop(r) == IF r.pc = "reply" THEN NoPush ELSE [r EXCEPT !.live = FALSE]
Cut(r) == IF r.pc = "ended" THEN NoPull
          ELSE [r EXCEPT !.live = FALSE, !.out = <<>>]

(* closeWithError cancels the requests of both loops and sends a close     *)
(* request (see SessionCloses); c is what else its caller does.            *)
closeWithError(c) ==
    /\ cl' = [c EXCEPT !.closed = TRUE]
    /\ up' = [r \in Requests |-> Drop(up[r])]
    /\ dn' = [r \in Requests |-> Cut(dn[r])]

Close ==
    /\ ~cl.closed
    /\ closeWithError(cl)
    /\ UNCHANGED <<sess, app, net>>

-----------------------------------------------------------------------------
(* pushLoop.                                                               *)

Batch == cl.taken - cl.flushed

(* flush takes the next sequence number; every retry keeps it.             *)
flush(c) == [c EXCEPT !.push = "send", !.back = c.push, !.seq = @ + 1]

TakeWrite ==
    /\ cl.push \in {"loop", "drain"}
    /\ cl.taken < cl.accepted /\ Batch < MaxBatch
    /\ LET c == [cl EXCEPT !.taken = @ + 1]
       IN cl' = IF cl.push = "loop" /\ Batch + 1 = MaxBatch THEN flush(c) ELSE c
    /\ UNCHANGED <<sess, up, dn, app, net>>

(* The flush timer, or a batch that is full or last while draining.        *)
FlushBatch ==
    /\ Batch > 0
    /\ \/ cl.push = "loop"
       \/ cl.push = "drain" /\ (Batch = MaxBatch \/ cl.taken = cl.accepted)
    /\ cl' = flush(cl)
    /\ UNCHANGED <<sess, up, dn, app, net>>

Drain ==
    /\ cl.push = "loop" /\ cl.wclosed
    /\ cl' = [cl EXCEPT !.push = "drain"]
    /\ UNCHANGED <<sess, up, dn, app, net>>

(* Mutant: the FIN does not wait for writes that are queued.               *)
StartFinUndrained ==
    /\ cl.push = "drain" /\ Batch = 0
    /\ cl' = [cl EXCEPT !.push = "fin"]
    /\ UNCHANGED <<sess, up, dn, app, net>>

StartFin ==
    /\ cl.push = "drain" /\ cl.taken = cl.accepted /\ Batch = 0
    /\ cl' = [cl EXCEPT !.push = "fin"]
    /\ UNCHANGED <<sess, up, dn, app, net>>

(* The first attempt and, when its connection is lost, every retry of      *)
(* retryPersistent.                                                        *)
SendPush(r) ==
    /\ cl.push = "send" /\ ~cl.closed
    /\ NoneLive(up) /\ First(up, r)
    /\ up' = [up EXCEPT ![r] = [NoPush EXCEPT !.pc = "lock", !.live = TRUE,
                 !.seq = cl.seq, !.chunk = cl.flushed + 1, !.last = cl.taken]]
    /\ UNCHANGED <<cl, sess, dn, app, net>>

(* Mutant: the retries do not look at the closed connection.               *)
FailPushTimeout ==
    /\ cl.push = "send" /\ ~NoneLive(up)
    /\ closeWithError([cl EXCEPT !.push = "done", !.wdone = "err"])
    /\ UNCHANGED <<sess, app, net>>

(* The request timeout of 20 seconds is not retried, and neither is a      *)
(* request of a connection that was closed.                                *)
FailPush ==
    /\ cl.push = "send" /\ (cl.closed \/ ~NoneLive(up))
    /\ closeWithError([cl EXCEPT !.push = "done", !.wdone = "err"])
    /\ UNCHANGED <<sess, app, net>>

QuitPush ==
    /\ cl.push = "loop" /\ cl.closed
    /\ cl' = [cl EXCEPT !.push = "done", !.wdone = "err"]
    /\ UNCHANGED <<sess, up, dn, app, net>>

-----------------------------------------------------------------------------
(* The session map.                                                        *)

(* sessionPullLease.stop closes the connection; what was written to it is  *)
(* still delivered.                                                        *)
StopLease ==
    [r \in Requests |-> IF r = sess.lease THEN [dn[r] EXCEPT !.open = FALSE] ELSE dn[r]]

(* sessionClose: out of the map, the lease stopped, the pipe closed.       *)
sessionClose ==
    /\ sess' = IF sess.present THEN [sess EXCEPT !.present = FALSE, !.gone = TRUE]
               ELSE sess
    /\ dn' = IF sess.present THEN StopLease ELSE dn

(* By the client's close request, which may be lost; by reapLater, which   *)
(* reads the idle time under one lock and acts on it under the next, so    *)
(* that a session may go that was just touched; or by TunnelServer.Close.  *)
SessionCloses ==
    /\ sess.present
    /\ sessionClose
    /\ UNCHANGED <<cl, up, app, net>>

(* sessionHalfClose: the session goes with its second half.                *)
HalfClosed(s) ==
    IF s.upc /\ s.dnc THEN [s EXCEPT !.present = FALSE, !.gone = TRUE] ELSE s

CloseUplink(s) == IF s.present THEN HalfClosed([s EXCEPT !.upc = TRUE]) ELSE s
CloseDownlink(s) == IF s.present THEN HalfClosed([s EXCEPT !.dnc = TRUE]) ELSE s

-----------------------------------------------------------------------------
(* An upload request on the server: streamPush, pollPush.                  *)

(* The response; nobody waits for the one of a dead request.               *)
AnswerPush(r, code) ==
    up' = [up EXCEPT ![r] = IF @.live THEN [@ EXCEPT !.pc = "reply", !.code = code]
                            ELSE NoPush]

Uploading == \E r \in Requests : up[r].pc = "write"

(* writeSessionUpload: what was written before is acknowledged, unwritten. *)
SequenceOf(seq) ==
    IF seq < sess.next THEN "ok" ELSE IF seq > sess.next THEN "gap" ELSE "write"

(* A request without a session: it is passed through and its connection    *)
(* closed, or it is answered with 403; 410 if the session went last.       *)
PushWithoutSession(r) ==
    /\ up[r].pc = "lock" /\ ~sess.present
    /\ \/ up' = [up EXCEPT ![r] = NoPush]
       \/ \E code \in {"forbidden", "gone"} : AnswerPush(r, code)
    /\ UNCHANGED <<cl, sess, dn, app, net>>

(* Of a body that is empty only the sequence number is taken.              *)
PushLock(r) ==
    /\ up[r].pc = "lock" /\ sess.present /\ ~Uploading
    /\ LET what == SequenceOf(up[r].seq)
           empty == up[r].chunk > up[r].last
       IN \/ /\ what = "write" /\ ~empty
             /\ up' = [up EXCEPT ![r].pc = "write"]
             /\ UNCHANGED sess
          \/ /\ what = "write" /\ empty
             /\ AnswerPush(r, "ok")
             /\ sess' = [sess EXCEPT !.next = @ + 1]
          \/ /\ what # "write"
             /\ AnswerPush(r, what)
             /\ UNCHANGED sess
    /\ UNCHANGED <<cl, dn, app, net>>

(* The proxy reads the next chunk from the half pipe; with the last one    *)
(* the sequence number moves on.                                           *)
PushWrite(r) ==
    /\ up[r].pc = "write"
    /\ ~sess.gone /\ ~sess.upc /\ app.state # "closed"
    /\ app' = [app EXCEPT !.got = Append(@, up[r].chunk)]
    /\ \/ /\ up[r].chunk < up[r].last
          /\ up' = [up EXCEPT ![r].chunk = @ + 1]
          /\ UNCHANGED sess
       \/ /\ up[r].chunk = up[r].last
          /\ AnswerPush(r, "ok")
          /\ sess' = [sess EXCEPT !.next = @ + 1]
    /\ UNCHANGED <<cl, dn, net>>

(* The pipe is closed, or nobody reads it until the write deadline of 30   *)
(* seconds.  The lock is released before the session is closed.            *)
PushWriteFails(r) ==
    /\ up[r].pc = "write"
    /\ \/ (sess.gone \/ sess.upc \/ app.state = "closed") /\ UNCHANGED net
       \/ Fault({"stall"})
    /\ up' = [up EXCEPT ![r].pc = "close"]
    /\ UNCHANGED <<cl, sess, dn, app>>

PushClose(r) ==
    /\ up[r].pc = "close"
    /\ sessionClose
    /\ AnswerPush(r, "gone")
    /\ UNCHANGED <<cl, app, net>>

(* The response: only 200 completes the batch, any other status is final.  *)
PushReply(r) ==
    /\ up[r].pc = "reply"
    /\ \/ /\ up[r].code = "ok"
          /\ up' = [up EXCEPT ![r] = NoPush]
          /\ cl' = [cl EXCEPT !.flushed = cl.taken, !.push = cl.back,
                               !.back = "loop"]
          /\ UNCHANGED dn
       \/ /\ up[r].code # "ok"
          /\ closeWithError([cl EXCEPT !.push = "done", !.wdone = "err"])
    /\ UNCHANGED <<sess, app, net>>

(* The connection of an upload is reset: before the server has the whole   *)
(* request, or any time before the client has the response.                *)
PushReset(r) ==
    /\ up[r].live
    /\ Fault({})
    /\ \/ up' = [up EXCEPT ![r] = Drop(@)]
       \/ up[r].pc = "lock" /\ up' = [up EXCEPT ![r] = NoPush]
    /\ UNCHANGED <<cl, sess, dn, app>>

(* The connection ends in the middle of the body.  newRequestBodyReader    *)
(* puts a LimitReader of the announced length over it, which ends without  *)
(* an error: what has arrived, maybe nothing, is taken for the batch.      *)
PushBodyCut(r) ==
    /\ up[r].live /\ up[r].pc = "lock"
    /\ Fault({"body"})
    /\ \E last \in up[r].chunk - 1 .. up[r].last - 1 :
           up' = [up EXCEPT ![r].live = FALSE, ![r].last = last]
    /\ UNCHANGED <<cl, sess, dn, app>>

-----------------------------------------------------------------------------
(* The FIN control request, with its attempts.                             *)

FinArrives ==
    /\ cl.push = "fin"
    /\ sess' = CloseUplink(sess)
    /\ cl' = [cl EXCEPT !.push = "finDone"]
    /\ UNCHANGED <<up, dn, app, net>>

FinAnswered ==
    /\ cl.push = "finDone"
    /\ cl' = [cl EXCEPT !.push = "done", !.wdone = "ok"]
    /\ UNCHANGED <<sess, up, dn, app, net>>

(* Request or response lost; the request may still arrive later.  The last *)
(* attempt, or the end of the five seconds, fails the connection.          *)
FinLost ==
    /\ cl.push \in {"fin", "finDone"}
    /\ \/ /\ cl.tries + 1 < MaxAttempts /\ net.faults < MaxFaults
          /\ net' = [net EXCEPT !.fin = @ \/ cl.push = "fin", !.faults = @ + 1]
          /\ cl' = [cl EXCEPT !.push = "fin", !.tries = @ + 1]
          /\ UNCHANGED <<up, dn>>
       \/ /\ net' = [net EXCEPT !.fin = @ \/ cl.push = "fin"]
          /\ closeWithError([cl EXCEPT !.push = "done", !.wdone = "err"])
    /\ UNCHANGED <<sess, app>>

LateFin ==
    /\ net.fin
    /\ sess' = CloseUplink(sess)
    /\ net' = [net EXCEPT !.fin = FALSE]
    /\ UNCHANGED <<cl, up, dn, app>>

-----------------------------------------------------------------------------
(* pullLoop: the next pull is sent when the response of the last one has   *)
(* ended or is lost.                                                       *)

SendPull(r) ==
    /\ cl.pull = "loop" /\ ~cl.closed
    /\ NoneLive(dn) /\ First(dn, r)
    /\ dn' = [dn EXCEPT ![r] = [NoPull EXCEPT !.pc = "begin", !.live = TRUE,
                                                 !.open = TRUE]]
    /\ UNCHANGED <<cl, sess, up, app, net>>

QuitPull ==
    /\ cl.pull = "loop" /\ cl.closed
    /\ cl' = [cl EXCEPT !.pull = "done"]
    /\ UNCHANGED <<sess, up, dn, app, net>>

Receive(r) ==
    /\ dn[r].live /\ dn[r].out # <<>>
    /\ Len(cl.rxc) < QueueDepth
    /\ cl' = [cl EXCEPT !.rxc = Append(@, Head(dn[r].out))]
    /\ dn' = [dn EXCEPT ![r].out = Tail(@)]
    /\ UNCHANGED <<sess, up, app, net>>

(* The server has closed the connection of a pull it stopped.              *)
ReceiveCut(r) ==
    /\ dn[r].live /\ ~dn[r].open /\ dn[r].out = <<>>
    /\ dn' = [dn EXCEPT ![r] = Cut(@)]
    /\ UNCHANGED <<cl, sess, up, app, net>>

(* The end of a response: without the EOF trailer, with it, or 403.        *)
ReceiveEnd(r) ==
    /\ dn[r].live /\ dn[r].open /\ dn[r].pc = "ended" /\ dn[r].out = <<>>
    /\ \/ /\ dn[r].fin = "end"
          /\ dn' = [dn EXCEPT ![r] = NoPull]
          /\ UNCHANGED <<cl, up>>
       \/ /\ dn[r].fin = "eof"
          /\ cl' = [cl EXCEPT !.pull = "done", !.reof = TRUE]
          /\ dn' = [dn EXCEPT ![r] = NoPull]
          /\ UNCHANGED up
       \/ /\ dn[r].fin = "forbidden"
          /\ closeWithError([cl EXCEPT !.pull = "done"])
    /\ UNCHANGED <<sess, app, net>>

-----------------------------------------------------------------------------
(* A pull request on the server: sessionPull.                              *)

(* The response is complete; nobody waits for the one of a dead request.   *)
EndPull(r, fin) ==
    dn' = [dn EXCEPT ![r] = IF @.live THEN [@ EXCEPT !.pc = "ended", !.fin = fin]
                            ELSE NoPull]

(* Passed through and closed without a response, or answered with 403.     *)
PullWithoutSession(r) ==
    /\ dn[r].pc \in {"begin", "wait"} /\ ~sess.present
    /\ dn[r].pc = "wait" => sess.lease # dn[r].prev
    /\ dn' = [dn EXCEPT ![r] = NoPull] \/ EndPull(r, "forbidden")
    /\ UNCHANGED <<cl, sess, up, app, net>>

(* The lease is free, or its holder is stopped and waited for.             *)
beginSessionPull(r) ==
    /\ sess.present
    /\ \/ /\ sess.lease = NoLease
          /\ sess' = [sess EXCEPT !.lease = r]
          /\ dn' = [dn EXCEPT ![r].pc = "run", ![r].prev = NoLease]
       \/ /\ sess.lease # NoLease
          /\ dn' = [StopLease EXCEPT ![r].pc = "wait", ![r].prev = sess.lease]
          /\ UNCHANGED sess

PullBegin(r) ==
    /\ dn[r].pc = "begin" \/ (dn[r].pc = "wait" /\ sess.lease # dn[r].prev)
    /\ beginSessionPull(r)
    /\ UNCHANGED <<cl, up, app, net>>

(* A chunk the proxy writes is pending until it was written to a response; *)
(* a pull that was stopped meanwhile may still be the one that reads it.   *)
PullRead(r) ==
    /\ dn[r].pc = "run" /\ sess.pending = NoChunk
    /\ ~sess.gone /\ app.state = "open"
    /\ app.sent < MaxDown /\ cl.accepted + app.sent < MaxData
    /\ app' = [app EXCEPT !.sent = @ + 1]
    /\ sess' = [sess EXCEPT !.pending = app.sent + 1]
    /\ UNCHANGED <<cl, up, dn, net>>

(* The proxy has closed its writing side.                                  *)
PullReadEOF(r) ==
    /\ dn[r].pc = "run" /\ sess.pending = NoChunk
    /\ ~sess.gone /\ app.state # "open"
    /\ sess' = CloseDownlink(sess)
    /\ dn' = [dn EXCEPT ![r].pc = "end", ![r].fin = "eof"]
    /\ UNCHANGED <<cl, up, app, net>>

(* pullReadTimeout, a newer pull that moved the deadline, a closed pipe or *)
(* session, or a write that fails without delivering anything: its chunk   *)
(* is kept for the next pull.                                              *)
PullEnds(r) ==
    /\ dn[r].pc = "run"
    /\ sess.pending = NoChunk \/ ~sess.present \/ ~dn[r].open \/ ~dn[r].live
    /\ dn' = [dn EXCEPT ![r].pc = "end"]
    /\ UNCHANGED <<cl, sess, up, app, net>>

(* Mutant: a chunk counts as delivered although its pull was stopped.      *)
WriteAcceptedAny(r) == TRUE

(* A write fails on a connection the server itself has closed; one whose   *)
(* peer has gone still takes it.                                           *)
WriteAccepted(r) == dn[r].open

(* A chunk written and flushed is acknowledged (acknowledgeDownlink),      *)
(* whether the client gets it or not.                                      *)
PullWrite(r) ==
    /\ dn[r].pc = "run" /\ sess.pending # NoChunk /\ sess.present
    /\ WriteAccepted(r)
    /\ Len(dn[r].out) < OutCap
    /\ LET arrives == dn[r].open /\ dn[r].live IN
       /\ dn' = [dn EXCEPT ![r].out = IF arrives THEN Append(@, sess.pending) ELSE @]
       /\ net' = [net EXCEPT !.harm = IF dn[r].live THEN @ ELSE @ \cup {"lost"}]
    /\ sess' = [sess EXCEPT !.pending = NoChunk]
    /\ UNCHANGED <<cl, up, app>>

(* The write or the flush fails, by its deadline or because the connection *)
(* breaks, after nothing or a part of the chunk has gone out; the whole    *)
(* chunk stays pending and the connection is closed.                       *)
PullWriteFails(r) ==
    /\ dn[r].pc = "run" /\ sess.pending # NoChunk /\ sess.present
    /\ dn[r].open /\ dn[r].live
    /\ \/ /\ Fault({})
          /\ dn' = [dn EXCEPT ![r].pc = "end", ![r].open = FALSE]
       \/ /\ Fault({"repeat"}) /\ Len(dn[r].out) < OutCap
          /\ dn' = [dn EXCEPT ![r].pc = "end", ![r].open = FALSE,
                                ![r].out = Append(@, sess.pending)]
    /\ UNCHANGED <<cl, sess, up, app>>

(* Mutant: a request that has ended keeps the lease.                       *)
PullEndKeeps(r) ==
    /\ dn[r].pc = "end"
    /\ EndPull(r, dn[r].fin)
    /\ UNCHANGED <<cl, sess, up, app, net>>

(* endSessionPull after the deferred end of the response.                  *)
PullEnd(r) ==
    /\ dn[r].pc = "end"
    /\ EndPull(r, dn[r].fin)
    /\ sess' = [sess EXCEPT !.lease = IF @ = r THEN NoLease ELSE @]
    /\ UNCHANGED <<cl, up, app, net>>

(* The connection of a pull is reset, and what is in transit with it.      *)
PullReset(r) ==
    /\ dn[r].live
    /\ Fault(IF dn[r].out = <<>> THEN {} ELSE {"lost"})
    /\ \/ dn' = [dn EXCEPT ![r] = Cut(@)]
       \/ dn[r].pc = "begin" /\ dn' = [dn EXCEPT ![r] = NoPull]
    /\ UNCHANGED <<cl, sess, up, app>>

-----------------------------------------------------------------------------
(* The proxy.                                                              *)

AppCloseWrite ==
    /\ app.state = "open"
    /\ app' = [app EXCEPT !.state = "half"]
    /\ UNCHANGED <<cl, sess, up, dn, net>>

AppClose ==
    /\ app.state # "closed"
    /\ app' = [app EXCEPT !.state = "closed"]
    /\ UNCHANGED <<cl, sess, up, dn, net>>

-----------------------------------------------------------------------------
UserStep == Write \/ CloseWrite \/ Read \/ ReadEOF \/ Close

PushLoop ==
    \/ TakeWrite \/ FlushBatch \/ Drain \/ StartFin \/ FailPush \/ QuitPush
    \/ FinArrives \/ FinAnswered \/ FinLost
    \/ \E r \in Requests : SendPush(r)

PushRequest(r) ==
    \/ PushWithoutSession(r) \/ PushLock(r) \/ PushWrite(r) \/ PushWriteFails(r)
    \/ PushClose(r) \/ PushReply(r)

PullLoop ==
    \/ QuitPull
    \/ \E r \in Requests : SendPull(r) \/ Receive(r) \/ ReceiveCut(r) \/ ReceiveEnd(r)

PullRequest(r) ==
    \/ PullWithoutSession(r) \/ PullBegin(r)
    \/ PullRead(r) \/ PullReadEOF(r) \/ PullEnds(r)
    \/ PullWrite(r) \/ PullWriteFails(r) \/ PullEnd(r)

Environment ==
    \/ SessionCloses \/ LateFin \/ AppCloseWrite \/ AppClose
    \/ \E r \in Requests : PushReset(r) \/ PushBodyCut(r) \/ PullReset(r)

Next ==
    \/ UserStep \/ PushLoop \/ PullLoop \/ Environment
    \/ \E r \in Requests : PushRequest(r) \/ PullRequest(r)

Spec == Init /\ [][Next]_vars

(* The two loops and every request keep running, and the client's user     *)
(* reads.                                                                  *)
Fairness ==
    /\ WF_vars(PushLoop) /\ WF_vars(PullLoop) /\ WF_vars(Read)
    /\ \A r \in Requests : WF_vars(PushRequest(r)) /\ WF_vars(PullRequest(r))

FairSpec == Spec /\ Fairness

-----------------------------------------------------------------------------
(* Properties.                                                             *)

Uplink == INSTANCE Stream WITH written <- cl.accepted, read <- app.got,
                               closed <- cl.wclosed, ended <- cl.wdone = "ok",
                               cut <- FALSE

(* As long as no request body ended early and no write to the proxy ran    *)
(* into its deadline, the uplink is a half-closable stream: the proxy      *)
(* reads every chunk the client accepted once and in order, although       *)
(* batches are repeated after a reset while their first request still      *)
(* runs; and a CloseWrite that succeeds means that the proxy has read      *)
(* everything (pushLoop, writeSessionUpload).                              *)
UplinkIsStream ==
    /\ Uplink!StreamInit
    /\ [][net.harm' \cap {"stall", "body"} # {} \/ Uplink!StreamStep]_vars

Downlink == INSTANCE Stream WITH written <- app.sent, read <- cl.got,
                                 closed <- app.state # "open", ended <- cl.eof,
                                 cut <- FALSE

(* As long as every chunk written to a response arrives and every write    *)
(* that fails delivers nothing, so is the downlink, across pulls that end, *)
(* fail or are taken over by a newer pull: no chunk is skipped and none    *)
(* repeated, and the client reads io.EOF only after everything             *)
(* (pendingDownlink, acknowledgeDownlink, the EOF trailer).  See           *)
(* DownlinkInOrder for the rest.                                           *)
DownlinkIsStream ==
    /\ Downlink!StreamInit
    /\ [][net.harm' \cap {"lost", "repeat"} # {} \/ Downlink!StreamStep]_vars

(* The client reads what the proxy wrote in order, none skipped and none   *)
(* twice, although responses are reset: sessionPull says that "the HTTP    *)
(* response may be reset by a CDN while the backing tunnel is still        *)
(* healthy".  Not so when a chunk was in transit.                          *)
DownlinkInOrder == \A n \in DOMAIN cl.got : cl.got[n] = n

(* CloseWrite returns while its session lives: a batch is acknowledged or  *)
(* given up, and so is the FIN (retryPersistent, the request timeout,      *)
(* sendSessionControl, uploadMu).                                          *)
CloseWriteEnds == cl.wclosed ~> cl.wdone # "no" \/ ~sess.present

(* What the proxy wrote is not stuck behind a stale pull: a newer pull     *)
(* gets the lease and delivers it, so that the client again and again has  *)
(* read everything, unless a chunk was lost in transit (beginSessionPull,  *)
(* endSessionPull).                                                        *)
DownlinkDelivers ==
    []<>(\/ Len(cl.got) >= app.sent \/ "lost" \in net.harm
         \/ ~sess.present \/ cl.closed)
=============================================================================
