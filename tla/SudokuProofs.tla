---------------------------- MODULE SudokuProofs ----------------------------
(***************************************************************************)
(* Proofs about the Sudoku listener for every number of connections,       *)
(* slots, sources, sessions and user lists.                                *)
(***************************************************************************)
EXTENDS SudokuServer, FiniteSetTheorems, TLAPS

Pcs == {"idle", "accepted", "check", "take", "count", "load", "probe", "probing",
        "insert", "reply", "request", "fail", "uncount", "untake", "serve", "done"}

Whats == {None, "junk", "raw", "authorize", "data"}

Handlers == [pc : Pcs, src : Sources \cup {None}, what : Whats,
             arg : Hellos \cup Conns \cup {None}, tunnel : 0 .. NoTunnel,
             todo : SUBSET Probes, cur : Probes \cup {None},
             then : {None, "open", "done"}, cut : BOOLEAN]

(* The steps at which a handshake has succeeded.                           *)
Opened == {"uncount", "untake", "serve", "done"}

(* The handlers: each has its source, one that goes on to open a session   *)
(* is past its handshake, and none has a tunnel that is still to come.     *)
HandlerInv ==
    /\ conn \in [Conns -> Handlers]
    /\ \A c \in Conns :
          /\ conn[c].pc # "idle" => conn[c].src \in Sources
          /\ IsHello(c) => conn[c].arg \in Hellos
          /\ conn[c].then = "open" => conn[c].pc \in Opened
          /\ conn[c].tunnel = NoTunnel \/ conn[c].tunnel <= snapshot.tunnel

(* The variables that are not the handlers'.                               *)
ServerTypeOK ==
    /\ mask \in BOOLEAN
    /\ slots \in 0 .. MaxSlots /\ bySource \in [Sources -> 0 .. MaxPerSource]
    /\ blocked \subseteq Sources /\ probe \in Conns \cup {None}
    /\ nonces \subseteq Hellos
    /\ snapshot \in [users : SUBSET Users, tunnel : 0 .. MaxSyncs]
    /\ shut \subseteq 0 .. snapshot.tunnel /\ sess \in [Conns -> 0 .. NoTunnel]
    /\ services \subseteq Users /\ sync \in {"idle", "tunnels", "services"}
    /\ closing \in {"no", "listener", "conns", "wait", "ok", "timeout", "late", "stuck"}

Ending == {"wait", "ok", "timeout"}

(* The tunnels: outside the window between the new snapshot and            *)
(* closeReplacedHTTPMaskTunnels every older one is shut, and Close finds   *)
(* no such window.                                                         *)
TunnelInv ==
    /\ closing # "no" => sync = "idle"
    /\ sync # "tunnels" => 0 .. snapshot.tunnel - 1 \subseteq shut
    /\ \A c \in Conns : sess[c] = NoTunnel \/ sess[c] <= snapshot.tunnel
    /\ ShutTunnelIsEmpty
    /\ closing \in Ending \cup {"stuck"} => snapshot.tunnel \in shut

(* A handler that depends on a socket that is open.                        *)
Uncut(c) == conn[c].pc \notin {"idle", "done"} /\ ~conn[c].cut /\ ~Answered(c)

(* Once Close has closed the registered connections, every handler still   *)
(* running has lost its socket or no longer depends on it; but for the one *)
(* that was accepted and not registered when the accept loop was given up. *)
CutInv ==
    /\ \A c, d \in Conns : conn[c].pc = "accepted" /\ conn[d].pc = "accepted" => c = d
    /\ closing \in {"conns"} \cup Ending =>
          \A c \in Conns : conn[c].pc # "accepted" /\ ~Uncut(c)
    /\ closing \in {"late", "stuck"} =>
          \A c, d \in Conns : Uncut(c) /\ Uncut(d) => c = d

SudokuInv == ServerTypeOK /\ HandlerInv /\ BudgetExact /\ TunnelInv /\ CutInv

-----------------------------------------------------------------------------
(* A handler's step.                                                       *)

(* What every step of the handler of c has in common: it concerns its own  *)
(* record only, keeps the source, the request and the state of the socket, *)
(* and decides once, at the end of the handshake, where it goes on.        *)
Moved(c) ==
    /\ conn' \in [Conns -> Handlers]
    /\ \A d \in Conns : d # c => conn'[d] = conn[d]
    /\ conn[c].pc \notin {"idle", "done"} /\ conn'[c].pc \notin {"idle", "accepted"}
    /\ conn[c].pc \in Opened => conn'[c].pc \in Opened /\ conn'[c].then = conn[c].then
    /\ conn'[c].then # conn[c].then => conn'[c].pc = "uncount"
    /\ conn'[c].src = conn[c].src /\ conn'[c].what = conn[c].what
    /\ conn'[c].arg = conn[c].arg /\ conn'[c].cut = conn[c].cut
    /\ conn'[c].tunnel \in {conn[c].tunnel, snapshot.tunnel, NoTunnel}

(* The constants of the model are numbers, and None is none of them.       *)
LEMMA Bounds ==
    /\ MaxSyncs \in Nat /\ NoTunnel \in Nat /\ MaxConns \in Nat
    /\ MaxSlots \in Nat /\ MaxPerSource \in Nat
    /\ IsFiniteSet(Conns)
BY SudokuAssumption, FS_Interval DEF NoTunnel, Conns

(* A step that only changes where a handler is.                            *)
LEMMA GotoMoves ==
    ASSUME HandlerInv, NEW c \in Conns, NEW pc \in Pcs \ {"idle", "accepted"}, Goto(c, pc),
           conn[c].pc \notin {"idle", "done"}, conn[c].pc \in Opened => pc \in Opened
    PROVE  Moved(c) /\ conn'[c].pc = pc
BY DEF HandlerInv, Goto, Moved, Handlers

(* The end of a handshake.                                                 *)
LEMMA EndMoves ==
    ASSUME HandlerInv, NEW c \in Conns, NEW next \in {"open", "done"},
           EndHandshake(c, next), conn[c].pc \notin {"idle", "done"} \cup Opened
    PROVE  Moved(c) /\ conn'[c].pc = "uncount"
<1>1. conn[c] \in Handlers /\ NoTunnel \in 0 .. NoTunnel
  BY Bounds DEF HandlerInv
<1>2. conn' = [conn EXCEPT ![c] = [conn[c] EXCEPT !.pc = "uncount", !.then = next,
                                      !.todo = {}, !.cur = None, !.tunnel = NoTunnel]]
  BY DEF EndHandshake, HandlerInv
<1>3. conn'[c] = [conn[c] EXCEPT !.pc = "uncount", !.then = next,
                                 !.todo = {}, !.cur = None, !.tunnel = NoTunnel]
  BY <1>2 DEF HandlerInv
<1>4. conn'[c] \in Handlers
  BY <1>1, <1>3 DEF Handlers, Pcs
<1>5. conn' \in [Conns -> Handlers] /\ \A d \in Conns : d # c => conn'[d] = conn[d]
  BY <1>2, <1>4 DEF HandlerInv
<1>6. /\ conn'[c].pc = "uncount" /\ conn'[c].src = conn[c].src
      /\ conn'[c].what = conn[c].what /\ conn'[c].cut = conn[c].cut /\ conn'[c].arg = conn[c].arg
      /\ conn'[c].tunnel = NoTunnel
  BY <1>1, <1>3 DEF Handlers
<1> QED BY <1>5, <1>6 DEF Moved, Opened

(* The beginning of a search.                                              *)
LEMMA SearchMoves ==
    ASSUME ServerTypeOK, HandlerInv, NEW c \in Conns, Search(c),
           conn[c].pc \notin {"idle", "done"} \cup Opened
    PROVE  Moved(c) /\ conn'[c].pc = "probe"
<1>1. conn[c] \in Handlers /\ snapshot.tunnel \in 0 .. NoTunnel
  BY Bounds DEF HandlerInv, ServerTypeOK, NoTunnel
<1>2. Entries(snapshot.users) \subseteq Probes
  BY DEF Entries, Probes, ServerTypeOK
<1>3. conn' = [conn EXCEPT ![c] = [conn[c] EXCEPT !.pc = "probe",
                  !.tunnel = snapshot.tunnel, !.todo = Entries(snapshot.users)]]
  BY DEF Search, HandlerInv
<1>4. conn'[c] = [conn[c] EXCEPT !.pc = "probe",
                  !.tunnel = snapshot.tunnel, !.todo = Entries(snapshot.users)]
  BY <1>3 DEF HandlerInv
<1>5. conn'[c] \in Handlers
  BY <1>1, <1>2, <1>4 DEF Handlers, Pcs
<1>6. conn' \in [Conns -> Handlers] /\ \A d \in Conns : d # c => conn'[d] = conn[d]
  BY <1>3, <1>5 DEF HandlerInv
<1>7. /\ conn'[c].pc = "probe" /\ conn'[c].src = conn[c].src
      /\ conn'[c].what = conn[c].what /\ conn'[c].cut = conn[c].cut /\ conn'[c].arg = conn[c].arg
      /\ conn'[c].then = conn[c].then /\ conn'[c].tunnel = snapshot.tunnel
  BY <1>1, <1>4 DEF Handlers
<1> QED BY <1>6, <1>7 DEF Moved, Opened

(* The invariants of the handlers survive a handler's step.                *)
LEMMA MovedInv ==
    ASSUME ServerTypeOK, HandlerInv, CutInv, NEW c \in Conns, Moved(c),
           UNCHANGED <<snapshot, closing>>
    PROVE  HandlerInv' /\ CutInv'
<1>1. snapshot.tunnel <= snapshot.tunnel
  BY DEF ServerTypeOK
<1>2. HandlerInv'
  BY <1>1 DEF HandlerInv, Moved, Opened, IsHello
<1>3. CutInv'
  <2>1. ASSUME NEW d \in Conns
        PROVE  /\ conn'[d].pc = "accepted" => conn[d].pc = "accepted"
               /\ Uncut(d)' => Uncut(d)
    <3>1. CASE d # c
      BY <3>1 DEF Uncut, Moved, Answered
    <3>2. CASE d = c
      BY <3>2 DEF Uncut, HandlerInv, Moved, Answered
    <3> QED BY <3>1, <3>2
  <2> QED BY <2>1 DEF CutInv
<1> QED BY <1>2, <1>3

-----------------------------------------------------------------------------
(* The handshake budget.                                                   *)

Holders == {c \in Conns : HoldsSlot(c)}
CountedOf(s) == {c \in Conns : IsCounted(c) /\ conn[c].src = s}

(* An element that joins or leaves a set of connections.                   *)
LEMMA OneMore ==
    ASSUME NEW S \in SUBSET Conns, NEW T \in SUBSET Conns, NEW c \in Conns,
           c \notin S, T = S \cup {c}
    PROVE  /\ Cardinality(S) \in Nat /\ Cardinality(T) \in Nat
           /\ Cardinality(T) = Cardinality(S) + 1
<1>1. IsFiniteSet(S) /\ IsFiniteSet(T)
  BY Bounds, FS_Subset
<1>2. Cardinality(S) \in Nat /\ Cardinality(T) \in Nat
  BY <1>1, FS_CardinalityType
<1> QED BY <1>1, <1>2, FS_AddElement

(* One handler moves: what becomes of the holders of slots and of the      *)
(* handshakes of a source.                                                 *)
LEMMA HoldersMove ==
    ASSUME HandlerInv, NEW c \in Conns, Moved(c)
    PROVE  /\ (HoldsSlot(c)' <=> HoldsSlot(c)) => Holders' = Holders
           /\ HoldsSlot(c)' /\ ~HoldsSlot(c) =>
                 Cardinality(Holders') = Cardinality(Holders) + 1
           /\ ~HoldsSlot(c)' /\ HoldsSlot(c) =>
                 /\ Cardinality(Holders') = Cardinality(Holders) - 1
                 /\ Cardinality(Holders) > 0
<1>1. \A d \in Conns : d # c => (HoldsSlot(d)' <=> HoldsSlot(d))
  BY DEF Moved, HoldsSlot
<1>2. CASE (HoldsSlot(c)' <=> HoldsSlot(c))
  BY <1>1, <1>2 DEF Holders
<1>3. CASE HoldsSlot(c)' /\ ~HoldsSlot(c)
  <2>1. c \notin Holders /\ Holders' = Holders \cup {c}
    BY <1>1, <1>3 DEF Holders
  <2>2. Holders \in SUBSET Conns /\ Holders' \in SUBSET Conns
    BY DEF Holders
  <2>3. Cardinality(Holders') = Cardinality(Holders) + 1
    BY <2>1, <2>2, OneMore
  <2> QED BY <1>3, <2>3
<1>4. CASE ~HoldsSlot(c)' /\ HoldsSlot(c)
  <2>1. c \notin Holders' /\ Holders = Holders' \cup {c}
    BY <1>1, <1>4 DEF Holders
  <2>2. Holders \in SUBSET Conns /\ Holders' \in SUBSET Conns
    BY DEF Holders
  <2>3. /\ Cardinality(Holders') \in Nat /\ Cardinality(Holders) \in Nat
        /\ Cardinality(Holders) = Cardinality(Holders') + 1
    BY <2>1, <2>2, OneMore
  <2> QED BY <1>4, <2>3
<1> QED BY <1>2, <1>3, <1>4 DEF HoldsSlot

LEMMA CountedMove ==
    ASSUME HandlerInv, NEW c \in Conns, Moved(c), NEW s \in Sources
    PROVE  /\ s # conn[c].src \/ (IsCounted(c)' <=> IsCounted(c)) =>
                 CountedOf(s)' = CountedOf(s)
           /\ s = conn[c].src /\ IsCounted(c)' /\ ~IsCounted(c) =>
                 Cardinality(CountedOf(s)') = Cardinality(CountedOf(s)) + 1
           /\ s = conn[c].src /\ ~IsCounted(c)' /\ IsCounted(c) =>
                 /\ Cardinality(CountedOf(s)') = Cardinality(CountedOf(s)) - 1
                 /\ Cardinality(CountedOf(s)) > 0
<1>1. \A d \in Conns : d # c => (IsCounted(d)' <=> IsCounted(d)) /\ conn'[d].src = conn[d].src
  BY DEF Moved, HoldsSlot, IsCounted
<1>2. conn'[c].src = conn[c].src
  BY DEF Moved
<1>3. CASE s # conn[c].src \/ (IsCounted(c)' <=> IsCounted(c))
  BY <1>1, <1>2, <1>3 DEF CountedOf
<1>4. CASE s = conn[c].src /\ IsCounted(c)' /\ ~IsCounted(c)
  <2>1. c \notin CountedOf(s) /\ CountedOf(s)' = CountedOf(s) \cup {c}
    BY <1>1, <1>2, <1>4 DEF CountedOf
  <2>2. CountedOf(s) \in SUBSET Conns /\ CountedOf(s)' \in SUBSET Conns
    BY DEF CountedOf
  <2>3. Cardinality(CountedOf(s)') = Cardinality(CountedOf(s)) + 1
    BY <2>1, <2>2, OneMore
  <2> QED BY <1>4, <2>3
<1>5. CASE s = conn[c].src /\ ~IsCounted(c)' /\ IsCounted(c)
  <2>1. c \notin CountedOf(s)' /\ CountedOf(s) = CountedOf(s)' \cup {c}
    BY <1>1, <1>2, <1>5 DEF CountedOf
  <2>2. CountedOf(s) \in SUBSET Conns /\ CountedOf(s)' \in SUBSET Conns
    BY DEF CountedOf
  <2>3. /\ Cardinality(CountedOf(s)') \in Nat /\ Cardinality(CountedOf(s)) \in Nat
        /\ Cardinality(CountedOf(s)) = Cardinality(CountedOf(s)') + 1
    BY <2>1, <2>2, OneMore
  <2> QED BY <1>5, <2>3
<1> QED BY <1>3, <1>4, <1>5 DEF IsCounted, HoldsSlot

(* A step within the handshake, or outside of it, leaves the budget alone. *)
LEMMA BudgetFrame ==
    ASSUME HandlerInv, BudgetExact, NEW c \in Conns, Moved(c),
           HoldsSlot(c)' <=> HoldsSlot(c), IsCounted(c)' <=> IsCounted(c),
           UNCHANGED <<slots, bySource>>,
           \A d \in Conns : conn'[d].pc = "probing" <=> probe' = d
    PROVE  BudgetExact'
<1>1. Holders' = Holders
  BY HoldersMove
<1>2. \A s \in Sources : CountedOf(s)' = CountedOf(s)
  BY CountedMove
<1> QED BY <1>1, <1>2 DEF BudgetExact, Holders, CountedOf

-----------------------------------------------------------------------------
(* The steps of a handler.                                                 *)

(* What sess may become: sessions go, or join a tunnel that is open.       *)
SessionsStayOpen ==
    /\ sess' \in [Conns -> 0 .. NoTunnel]
    /\ \A d \in Conns : \/ sess'[d] \in {sess[d], NoTunnel}
                        \/ sess'[d] <= snapshot.tunnel /\ sess'[d] \notin shut

LEMMA NoTunnelOpen == ServerTypeOK => NoTunnel \notin shut
BY Bounds DEF ServerTypeOK, NoTunnel

(* The tunnels survive a step that only adds and removes sessions.         *)
LEMMA TunnelFrame ==
    ASSUME ServerTypeOK, TunnelInv, SessionsStayOpen,
           UNCHANGED <<snapshot, sync, shut, closing>>
    PROVE  TunnelInv'
<1>1. \A d \in Conns : sess'[d] = NoTunnel \/ sess'[d] <= snapshot.tunnel
  BY DEF TunnelInv, SessionsStayOpen
<1>2. \A d \in Conns : sess'[d] \notin shut
  BY NoTunnelOpen DEF TunnelInv, ShutTunnelIsEmpty, SessionsStayOpen
<1> QED BY <1>1, <1>2 DEF TunnelInv, ShutTunnelIsEmpty

(* A step of one handler, given what it does to the budget and sessions.   *)
LEMMA HandlerFrame ==
    ASSUME SudokuInv, NEW c \in Conns, Moved(c), SessionsStayOpen, BudgetExact',
           UNCHANGED <<mask, userVars, shut, closing>>,
           slots' \in 0 .. MaxSlots, bySource' \in [Sources -> 0 .. MaxPerSource],
           blocked' \subseteq Sources, probe' \in Conns \cup {None},
           nonces' \subseteq Hellos
    PROVE  SudokuInv'
<1>1. ServerTypeOK'
  BY DEF SudokuInv, ServerTypeOK, SessionsStayOpen, userVars
<1>2. HandlerInv' /\ CutInv'
  BY MovedInv DEF SudokuInv, userVars
<1>3. TunnelInv'
  BY TunnelFrame DEF SudokuInv, userVars
<1> QED BY <1>1, <1>2, <1>3 DEF SudokuInv

(* A step that neither takes nor returns anything of the budget.           *)
LEMMA QuietStep ==
    ASSUME SudokuInv, NEW c \in Conns, Moved(c), SessionsStayOpen,
           HoldsSlot(c)' <=> HoldsSlot(c), IsCounted(c)' <=> IsCounted(c),
           UNCHANGED <<mask, slots, bySource, userVars, shut, closing>>,
           \A d \in Conns : conn'[d].pc = "probing" <=> probe' = d,
           blocked' \subseteq Sources, probe' \in Conns \cup {None},
           nonces' \subseteq Hellos
    PROVE  SudokuInv'
<1>1. BudgetExact'
  BY BudgetFrame DEF SudokuInv
<1>2. slots' \in 0 .. MaxSlots /\ bySource' \in [Sources -> 0 .. MaxPerSource]
  BY DEF SudokuInv, ServerTypeOK
<1> QED BY <1>1, <1>2, HandlerFrame

LEMMA SessionsUnchanged ==
    ASSUME ServerTypeOK, UNCHANGED sess PROVE SessionsStayOpen
BY DEF ServerTypeOK, SessionsStayOpen

(* Only one handler probes, and none begins or ends.                       *)
LEMMA ProbeUnchanged ==
    ASSUME BudgetExact, NEW c \in Conns, Moved(c), UNCHANGED probe,
           conn[c].pc # "probing", conn'[c].pc # "probing"
    PROVE  \A d \in Conns : conn'[d].pc = "probing" <=> probe' = d
BY DEF BudgetExact, Moved

(* acquireHandshakeSlot, first part, and a handler at its ends.            *)
LEMMA OutsideStep ==
    ASSUME SudokuInv, NEW c \in Conns,
           Register(c) \/ CheckBlocked(c) \/ ServeEnds(c) \/ PeerEnds(c)
    PROVE  SudokuInv'
<1>1. Moved(c) /\ conn[c].pc \in {"accepted", "check", "serve"}
               /\ conn'[c].pc \in {"check", "take", "done"}
  BY GotoMoves DEF SudokuInv, Register, CheckBlocked, ServeEnds, PeerEnds, Pcs, Opened
<1>2. UNCHANGED <<mask, budgetVars, probe, nonces, userVars, shut, sess, closing>>
  BY DEF Register, CheckBlocked, ServeEnds, PeerEnds
<1>3. (HoldsSlot(c)' <=> HoldsSlot(c)) /\ (IsCounted(c)' <=> IsCounted(c))
  BY <1>1 DEF HoldsSlot, IsCounted
<1>4. SessionsStayOpen
  BY <1>2, SessionsUnchanged DEF SudokuInv
<1>5. \A d \in Conns : conn'[d].pc = "probing" <=> probe' = d
  BY <1>1, <1>2, ProbeUnchanged DEF SudokuInv
<1>6. blocked' \subseteq Sources /\ probe' \in Conns \cup {None} /\ nonces' \subseteq Hellos
  BY <1>2 DEF SudokuInv, ServerTypeOK, budgetVars
<1>7. UNCHANGED <<mask, slots, bySource, userVars, shut, closing>>
  BY <1>2 DEF budgetVars
<1> QED BY <1>1, <1>3, <1>4, <1>5, <1>6, <1>7, QuietStep

(* acquireHandshakeSlot takes a slot, or refuses the connection.           *)
LEMMA TakeSlotStep ==
    ASSUME SudokuInv, NEW c \in Conns, TakeSlot(c)
    PROVE  SudokuInv'
<1>1. Moved(c) /\ conn[c].pc = "take" /\ conn'[c].pc \in {"count", "done"}
  BY GotoMoves DEF SudokuInv, TakeSlot, Pcs, Opened
<1>2. UNCHANGED <<mask, bySource, blocked, probe, nonces, userVars, shut, sess, closing>>
  BY DEF TakeSlot
<1>3. \/ conn'[c].pc = "count" /\ slots < MaxSlots /\ slots' = slots + 1
      \/ conn'[c].pc = "done" /\ UNCHANGED slots
  <2>1. CASE slots < MaxSlots /\ slots' = slots + 1 /\ Goto(c, "count")
    BY <2>1 DEF SudokuInv, HandlerInv, Goto, Handlers
  <2>2. CASE Goto(c, "done") /\ UNCHANGED slots
    BY <2>2 DEF SudokuInv, HandlerInv, Goto, Handlers
  <2> QED BY <2>1, <2>2 DEF TakeSlot
<1>4. ~HoldsSlot(c) /\ ~IsCounted(c) /\ ~IsCounted(c)'
      /\ (HoldsSlot(c)' <=> conn'[c].pc = "count")
  BY <1>1 DEF HoldsSlot, IsCounted
<1>5. SessionsStayOpen
  BY <1>2, SessionsUnchanged DEF SudokuInv
<1>6. \A d \in Conns : conn'[d].pc = "probing" <=> probe' = d
  BY <1>1, <1>2, ProbeUnchanged DEF SudokuInv
<1>7. slots \in Nat /\ slots <= MaxSlots /\ MaxSlots \in Nat
  BY Bounds DEF SudokuInv, ServerTypeOK
<1>8. slots' \in 0 .. MaxSlots
  BY <1>3, <1>7
<1>9. slots' = Cardinality(Holders')
  <2>1. slots = Cardinality(Holders)
    BY DEF SudokuInv, BudgetExact, Holders
  <2> QED BY <1>1, <1>3, <1>4, <2>1, HoldersMove DEF SudokuInv
<1>10. \A s \in Sources : CountedOf(s)' = CountedOf(s)
  BY <1>1, <1>4, CountedMove DEF SudokuInv
<1>11. BudgetExact'
  BY <1>2, <1>6, <1>7, <1>8, <1>9, <1>10 DEF SudokuInv, BudgetExact, Holders, CountedOf
<1>12. /\ bySource' \in [Sources -> 0 .. MaxPerSource] /\ blocked' \subseteq Sources
       /\ probe' \in Conns \cup {None} /\ nonces' \subseteq Hellos
  BY <1>2 DEF SudokuInv, ServerTypeOK
<1> QED BY <1>1, <1>2, <1>5, <1>8, <1>11, <1>12, HandlerFrame

(* The count of the source, or the slot returned when that is refused.     *)
LEMMA CountSourceStep ==
    ASSUME SudokuInv, NEW c \in Conns, CountSource(c)
    PROVE  SudokuInv'
<1>1. Moved(c) /\ conn[c].pc = "count" /\ conn'[c].pc \in {"load", "done"}
  BY GotoMoves DEF SudokuInv, CountSource, Pcs, Opened
<1>2. UNCHANGED <<mask, blocked, probe, nonces, userVars, shut, sess, closing>>
  BY DEF CountSource
<1>3. PICK s \in Sources : s = conn[c].src
  BY <1>1 DEF SudokuInv, HandlerInv
<1>4. \/ /\ conn'[c].pc = "load" /\ bySource[s] < MaxPerSource
         /\ bySource' = [bySource EXCEPT ![s] = @ + 1] /\ UNCHANGED slots
      \/ conn'[c].pc = "done" /\ slots' = slots - 1 /\ UNCHANGED bySource
  <2>1. CASE /\ bySource[s] < MaxPerSource /\ Goto(c, "load") /\ UNCHANGED slots
             /\ bySource' = [bySource EXCEPT ![s] = @ + 1]
    BY <2>1 DEF SudokuInv, HandlerInv, Goto, Handlers
  <2>2. CASE Goto(c, "done") /\ slots' = slots - 1 /\ UNCHANGED bySource
    BY <2>2 DEF SudokuInv, HandlerInv, Goto, Handlers
  <2> QED BY <1>3, <2>1, <2>2 DEF CountSource
<1>5. /\ HoldsSlot(c) /\ ~IsCounted(c)
      /\ HoldsSlot(c)' <=> conn'[c].pc = "load"
      /\ IsCounted(c)' <=> conn'[c].pc = "load"
  BY <1>1 DEF HoldsSlot, IsCounted
<1>6. SessionsStayOpen
  BY <1>2, SessionsUnchanged DEF SudokuInv
<1>7. \A d \in Conns : conn'[d].pc = "probing" <=> probe' = d
  BY <1>1, <1>2, ProbeUnchanged DEF SudokuInv
<1>8. /\ slots \in Nat /\ slots <= MaxSlots /\ MaxSlots \in Nat /\ MaxPerSource \in Nat
      /\ bySource \in [Sources -> 0 .. MaxPerSource]
      /\ slots = Cardinality(Holders)
      /\ \A r \in Sources : bySource[r] = Cardinality(CountedOf(r))
  BY Bounds DEF SudokuInv, ServerTypeOK, BudgetExact, Holders, CountedOf
<1>9. /\ slots' \in 0 .. MaxSlots /\ slots' = Cardinality(Holders')
      /\ bySource' \in [Sources -> 0 .. MaxPerSource]
      /\ \A r \in Sources : bySource'[r] = Cardinality(CountedOf(r)')
  <2>1. CASE conn'[c].pc = "load"
    <3>1. Holders' = Holders
      BY <1>1, <1>5, <2>1, HoldersMove DEF SudokuInv
    <3>2. UNCHANGED slots /\ bySource[s] < MaxPerSource
          /\ bySource' = [bySource EXCEPT ![s] = @ + 1]
      BY <1>4, <2>1
    <3>3. Cardinality(CountedOf(s)') = Cardinality(CountedOf(s)) + 1
      BY <1>1, <1>3, <1>5, <2>1, CountedMove DEF SudokuInv
    <3>4. \A r \in Sources : r # s => CountedOf(r)' = CountedOf(r)
      BY <1>1, <1>3, CountedMove DEF SudokuInv
    <3> QED BY <1>8, <3>1, <3>2, <3>3, <3>4
  <2>2. CASE conn'[c].pc = "done"
    <3>1. Cardinality(Holders') = Cardinality(Holders) - 1 /\ Cardinality(Holders) > 0
      BY <1>1, <1>5, <2>2, HoldersMove DEF SudokuInv
    <3>2. \A r \in Sources : CountedOf(r)' = CountedOf(r)
      BY <1>1, <1>5, <2>2, CountedMove DEF SudokuInv
    <3>3. slots' = slots - 1 /\ UNCHANGED bySource
      BY <1>4, <2>2
    <3> QED BY <1>8, <3>1, <3>2, <3>3
  <2> QED BY <1>1, <2>1, <2>2
<1>10. BudgetExact'
  BY <1>7, <1>8, <1>9 DEF BudgetExact, Holders, CountedOf
<1>11. /\ blocked' \subseteq Sources
       /\ probe' \in Conns \cup {None} /\ nonces' \subseteq Hellos
  BY <1>2 DEF SudokuInv, ServerTypeOK
<1> QED BY <1>1, <1>2, <1>6, <1>9, <1>10, <1>11, HandlerFrame

(* releaseHandshakeSlot: first the count of the source ...                 *)
LEMMA ReleaseSourceStep ==
    ASSUME SudokuInv, NEW c \in Conns, ReleaseSource(c)
    PROVE  SudokuInv'
<1>1. Moved(c) /\ conn[c].pc = "uncount" /\ conn'[c].pc = "untake"
  BY GotoMoves DEF SudokuInv, ReleaseSource, Pcs, Opened
<1>2. UNCHANGED <<mask, slots, blocked, probe, nonces, userVars, shut, sess, closing>>
  BY DEF ReleaseSource
<1>3. PICK s \in Sources : s = conn[c].src
  BY <1>1 DEF SudokuInv, HandlerInv
<1>4. bySource' = [bySource EXCEPT ![s] = @ - 1]
  BY <1>3 DEF ReleaseSource
<1>5. HoldsSlot(c) /\ IsCounted(c) /\ HoldsSlot(c)' /\ ~IsCounted(c)'
  BY <1>1 DEF HoldsSlot, IsCounted
<1>6. SessionsStayOpen
  BY <1>2, SessionsUnchanged DEF SudokuInv
<1>7. \A d \in Conns : conn'[d].pc = "probing" <=> probe' = d
  BY <1>1, <1>2, ProbeUnchanged DEF SudokuInv
<1>8. /\ slots \in 0 .. MaxSlots /\ MaxSlots \in Nat /\ MaxPerSource \in Nat
      /\ bySource \in [Sources -> 0 .. MaxPerSource]
      /\ slots = Cardinality(Holders)
      /\ \A r \in Sources : bySource[r] = Cardinality(CountedOf(r))
  BY Bounds DEF SudokuInv, ServerTypeOK, BudgetExact, Holders, CountedOf
<1>9. /\ slots' \in 0 .. MaxSlots /\ slots' = Cardinality(Holders')
      /\ bySource' \in [Sources -> 0 .. MaxPerSource]
      /\ \A r \in Sources : bySource'[r] = Cardinality(CountedOf(r)')
  <2>1. Holders' = Holders
    BY <1>1, <1>5, HoldersMove DEF SudokuInv
  <2>2. /\ Cardinality(CountedOf(s)') = Cardinality(CountedOf(s)) - 1
        /\ Cardinality(CountedOf(s)) > 0
    BY <1>1, <1>3, <1>5, CountedMove DEF SudokuInv
  <2>3. \A r \in Sources : r # s => CountedOf(r)' = CountedOf(r)
    BY <1>1, <1>3, CountedMove DEF SudokuInv
  <2> QED BY <1>2, <1>4, <1>8, <2>1, <2>2, <2>3
<1>10. BudgetExact'
  BY <1>7, <1>8, <1>9 DEF BudgetExact, Holders, CountedOf
<1>11. /\ blocked' \subseteq Sources
       /\ probe' \in Conns \cup {None} /\ nonces' \subseteq Hellos
  BY <1>2 DEF SudokuInv, ServerTypeOK
<1> QED BY <1>1, <1>2, <1>6, <1>9, <1>10, <1>11, HandlerFrame

(* ... and then the slot.                                                  *)
LEMMA ReleaseSlotStep ==
    ASSUME SudokuInv, NEW c \in Conns, ReleaseSlot(c)
    PROVE  SudokuInv'
<1>1. Moved(c) /\ conn[c].pc = "untake" /\ conn'[c].pc \in {"serve", "done"}
  BY GotoMoves DEF SudokuInv, ReleaseSlot, Pcs, Opened
<1>2. UNCHANGED <<mask, bySource, blocked, probe, nonces, userVars, shut, sess, closing>>
  BY DEF ReleaseSlot
<1>3. HoldsSlot(c) /\ ~IsCounted(c) /\ ~HoldsSlot(c)' /\ ~IsCounted(c)'
  BY <1>1 DEF HoldsSlot, IsCounted
<1>4. SessionsStayOpen
  BY <1>2, SessionsUnchanged DEF SudokuInv
<1>5. \A d \in Conns : conn'[d].pc = "probing" <=> probe' = d
  BY <1>1, <1>2, ProbeUnchanged DEF SudokuInv
<1>6. slots \in 0 .. MaxSlots /\ MaxSlots \in Nat /\ slots = Cardinality(Holders)
  BY Bounds DEF SudokuInv, ServerTypeOK, BudgetExact, Holders
<1>7. slots' \in 0 .. MaxSlots /\ slots' = Cardinality(Holders')
  <2>1. Cardinality(Holders') = Cardinality(Holders) - 1 /\ Cardinality(Holders) > 0
    BY <1>1, <1>3, HoldersMove DEF SudokuInv
  <2>2. slots' = slots - 1
    BY DEF ReleaseSlot
  <2> QED BY <1>6, <2>1, <2>2
<1>8. \A s \in Sources : CountedOf(s)' = CountedOf(s)
  BY <1>1, <1>3, CountedMove DEF SudokuInv
<1>9. BudgetExact'
  BY <1>2, <1>5, <1>6, <1>7, <1>8 DEF SudokuInv, BudgetExact, Holders, CountedOf
<1>10. /\ bySource' \in [Sources -> 0 .. MaxPerSource] /\ blocked' \subseteq Sources
       /\ probe' \in Conns \cup {None} /\ nonces' \subseteq Hellos
  BY <1>2 DEF SudokuInv, ServerTypeOK
<1> QED BY <1>1, <1>2, <1>4, <1>7, <1>9, <1>10, HandlerFrame

(* The steps of a handshake that leave the sessions and the probe alone.   *)
LEMMA WithinStep ==
    ASSUME SudokuInv, NEW c \in Conns, Load(c) \/ RequestEnds(c) \/ BlockSource(c)
    PROVE  SudokuInv'
<1> USE DEF SudokuInv
<1>1. /\ Moved(c) /\ conn[c].pc \in {"load", "request", "fail"}
      /\ conn'[c].pc \in {"probe", "request", "fail", "uncount"}
  <2>1. CASE Load(c)
    <3>1. CASE Search(c)
      BY <2>1, <3>1, SearchMoves DEF Load, Opened
    <3>2. CASE EndHandshake(c, "done")
      BY <2>1, <3>2, EndMoves DEF Load, Opened
    <3>3. CASE Goto(c, IF sess[conn[c].arg] = snapshot.tunnel THEN "request" ELSE "fail")
      BY <2>1, <3>3, GotoMoves DEF Load, Opened, Pcs
    <3> QED BY <2>1, <3>1, <3>2, <3>3 DEF Load, Inspect
  <2>2. CASE RequestEnds(c) \/ BlockSource(c)
    BY <2>2, EndMoves DEF RequestEnds, BlockSource, Opened
  <2> QED BY <2>1, <2>2
<1>2. UNCHANGED <<mask, slots, bySource, probe, nonces, userVars, shut, sess, closing>>
  BY DEF Load, RequestEnds, BlockSource, budgetVars
<1>3. (HoldsSlot(c)' <=> HoldsSlot(c)) /\ (IsCounted(c)' <=> IsCounted(c))
  BY <1>1 DEF HoldsSlot, IsCounted
<1>4. SessionsStayOpen
  BY <1>2, SessionsUnchanged
<1>5. \A d \in Conns : conn'[d].pc = "probing" <=> probe' = d
  BY <1>1, <1>2, ProbeUnchanged
<1>6. conn[c].src \in Sources
  BY <1>1 DEF HandlerInv
<1>7. blocked' \subseteq Sources
  BY <1>6 DEF Load, RequestEnds, BlockSource, budgetVars, ServerTypeOK
<1>8. probe' \in Conns \cup {None} /\ nonces' \subseteq Hellos
  BY <1>2 DEF ServerTypeOK
<1> QED BY <1>1, <1>2, <1>3, <1>4, <1>5, <1>7, <1>8, QuietStep

(* A probe begins: the slot was free, so nobody was probing.               *)
LEMMA ProbeBeginsStep ==
    ASSUME SudokuInv, NEW c \in Conns, NEW p \in Probes, ProbeBegins(c, p)
    PROVE  SudokuInv'
<1> USE DEF SudokuInv
<1>1. conn[c] \in Handlers /\ conn[c].pc = "probe"
  BY DEF ProbeBegins, HandlerInv
<1>2. conn' = [conn EXCEPT ![c] = [conn[c] EXCEPT !.pc = "probing", !.cur = p,
                                      !.todo = conn[c].todo \ {p}]]
  BY DEF ProbeBegins, HandlerInv
<1>3. conn'[c] = [conn[c] EXCEPT !.pc = "probing", !.cur = p, !.todo = conn[c].todo \ {p}]
  BY <1>2 DEF HandlerInv
<1>4. conn'[c] \in Handlers
  BY <1>1, <1>3 DEF Handlers, Pcs
<1>5. conn' \in [Conns -> Handlers] /\ \A d \in Conns : d # c => conn'[d] = conn[d]
  BY <1>2, <1>4 DEF HandlerInv
<1>6. /\ conn'[c].pc = "probing" /\ conn'[c].src = conn[c].src
      /\ conn'[c].what = conn[c].what /\ conn'[c].cut = conn[c].cut
      /\ conn'[c].arg = conn[c].arg /\ conn'[c].then = conn[c].then
      /\ conn'[c].tunnel = conn[c].tunnel
  BY <1>1, <1>3 DEF Handlers
<1>7. Moved(c)
  BY <1>1, <1>5, <1>6 DEF Moved, Opened
<1>8. UNCHANGED <<mask, budgetVars, nonces, userVars, shut, sess, closing>>
  BY DEF ProbeBegins
<1>9. (HoldsSlot(c)' <=> HoldsSlot(c)) /\ (IsCounted(c)' <=> IsCounted(c))
  BY <1>1, <1>6 DEF HoldsSlot, IsCounted
<1>10. SessionsStayOpen
  BY <1>8, SessionsUnchanged
<1>11. \A d \in Conns : conn'[d].pc = "probing" <=> probe' = d
  BY <1>5, <1>6, NoneAssumption DEF ProbeBegins, BudgetExact
<1>12. /\ blocked' \subseteq Sources /\ probe' \in Conns \cup {None}
       /\ nonces' \subseteq Hellos
       /\ UNCHANGED <<mask, slots, bySource, userVars, shut, closing>>
  BY <1>8 DEF ProbeBegins, ServerTypeOK, budgetVars
<1> QED BY <1>7, <1>9, <1>10, <1>11, <1>12, QuietStep

(* A probe ends, by itself or with the deadline, and frees its slot.       *)
LEMMA ProbeEndsStep ==
    ASSUME SudokuInv, NEW c \in Conns, ProbeEnds(c) \/ Expire(c)
    PROVE  SudokuInv'
<1> USE DEF SudokuInv
<1>1. /\ Moved(c) /\ conn[c].pc \in {"probe", "probing"}
      /\ conn'[c].pc \in {"probe", "insert", "fail", "uncount"}
  <2>1. CASE ProbeEnds(c)
    <3>1. CASE Established(c)
      BY <2>1, <3>1, EndMoves DEF ProbeEnds, Established, Opened
    <3>2. CASE Goto(c, "insert")
      BY <2>1, <3>2, GotoMoves DEF ProbeEnds, Opened, Pcs
    <3>3. CASE Replay(c)
      BY <2>1, <3>3, GotoMoves DEF ProbeEnds, Replay, Opened, Pcs
    <3> QED BY <2>1, <3>1, <3>2, <3>3 DEF ProbeEnds
  <2>2. CASE Expire(c)
    BY <2>2, GotoMoves DEF Expire, Opened, Pcs
  <2> QED BY <2>1, <2>2
<1>2. UNCHANGED <<mask, slots, bySource, userVars, shut, sess, closing>>
  BY DEF ProbeEnds, Expire, budgetVars
<1>3. (HoldsSlot(c)' <=> HoldsSlot(c)) /\ (IsCounted(c)' <=> IsCounted(c))
  BY <1>1 DEF HoldsSlot, IsCounted
<1>4. SessionsStayOpen
  BY <1>2, SessionsUnchanged
<1>5. probe' = IF probe = c THEN None ELSE probe
  BY DEF ProbeEnds, Expire, BudgetExact
<1>6. \A d \in Conns : conn'[d].pc = "probing" <=> probe' = d
  BY <1>1, <1>5, NoneAssumption DEF Moved, BudgetExact
<1>7. blocked' \subseteq Sources
  BY DEF ProbeEnds, Expire, budgetVars, Established, unblockHandshakeSource, ServerTypeOK
<1>8. nonces' \subseteq Hellos
  BY DEF ProbeEnds, Expire, ServerTypeOK, HandlerInv
<1>9. probe' \in Conns \cup {None}
  BY <1>5 DEF ServerTypeOK
<1> QED BY <1>1, <1>2, <1>3, <1>4, <1>6, <1>7, <1>8, <1>9, QuietStep

(* sessionAuthorize: the session joins its tunnel only while that is open, *)
(* and leaves it with a connection that cannot be answered.                *)
LEMMA AuthorizeStep ==
    ASSUME SudokuInv, NEW c \in Conns, InsertSession(c) \/ ReplyToken(c)
    PROVE  SudokuInv'
<1> USE DEF SudokuInv
<1>1. /\ Moved(c) /\ conn[c].pc \in {"insert", "reply"}
      /\ conn'[c].pc \in {"reply", "uncount"}
  <2>1. CASE InsertSession(c)
    <3>1. CASE Goto(c, "reply")
      BY <2>1, <3>1, GotoMoves DEF InsertSession, Opened, Pcs
    <3>2. CASE EndHandshake(c, "done")
      BY <2>1, <3>2, EndMoves DEF InsertSession, Opened
    <3> QED BY <2>1, <3>1, <3>2 DEF InsertSession
  <2>2. CASE ReplyToken(c)
    <3>1. CASE EndHandshake(c, "open")
      BY <2>2, <3>1, EndMoves DEF ReplyToken, Opened
    <3>2. CASE EndHandshake(c, "done")
      BY <2>2, <3>2, EndMoves DEF ReplyToken, Opened
    <3> QED BY <2>2, <3>1, <3>2 DEF ReplyToken, Established
  <2> QED BY <2>1, <2>2
<1>2. UNCHANGED <<mask, slots, bySource, probe, nonces, userVars, shut, closing>>
  BY DEF InsertSession, ReplyToken, budgetVars
<1>3. (HoldsSlot(c)' <=> HoldsSlot(c)) /\ (IsCounted(c)' <=> IsCounted(c))
  BY <1>1 DEF HoldsSlot, IsCounted
<1>4. SessionsStayOpen
  <2>1. CASE UNCHANGED sess
    BY <2>1, SessionsUnchanged
  <2>2. CASE sess' = [sess EXCEPT ![c] = NoTunnel]
    BY <2>2, Bounds DEF ServerTypeOK, SessionsStayOpen
  <2>3. CASE conn[c].tunnel \notin shut /\ sess' = [sess EXCEPT ![c] = conn[c].tunnel]
    <3>1. /\ conn[c].tunnel \in 0 .. NoTunnel
          /\ conn[c].tunnel = NoTunnel \/ conn[c].tunnel <= snapshot.tunnel
      BY DEF HandlerInv, Handlers
    <3> QED BY <2>3, <3>1 DEF ServerTypeOK, SessionsStayOpen
  <2> QED BY <2>1, <2>2, <2>3 DEF InsertSession, ReplyToken
<1>5. \A d \in Conns : conn'[d].pc = "probing" <=> probe' = d
  BY <1>1, <1>2, ProbeUnchanged
<1>6. blocked' \subseteq Sources
  BY DEF InsertSession, ReplyToken, Established, unblockHandshakeSource, budgetVars,
         ServerTypeOK
<1>7. probe' \in Conns \cup {None} /\ nonces' \subseteq Hellos
  BY <1>2 DEF ServerTypeOK
<1> QED BY <1>1, <1>2, <1>3, <1>4, <1>5, <1>6, <1>7, QuietStep

LEMMA HandlerStepInv ==
    ASSUME SudokuInv, NEW c \in Conns, HandlerStep(c)
    PROVE  SudokuInv'
BY OutsideStep, TakeSlotStep, CountSourceStep, ReleaseSourceStep, ReleaseSlotStep,
   WithinStep, ProbeBeginsStep, ProbeEndsStep, AuthorizeStep
DEF HandlerStep

-----------------------------------------------------------------------------
(* Clients, the replacement of the users and the shutdown.                 *)

(* Handlers that may lose their sockets but do not move keep the budget.   *)
LEMMA BudgetKept ==
    ASSUME BudgetExact, UNCHANGED <<slots, bySource, probe>>,
           \A d \in Conns : conn'[d].pc = conn[d].pc /\ conn'[d].src = conn[d].src
    PROVE  BudgetExact'
<1>1. Holders' = Holders
  BY DEF Holders, HoldsSlot
<1>2. \A s \in Sources : CountedOf(s)' = CountedOf(s)
  BY DEF CountedOf, IsCounted, HoldsSlot
<1> QED BY <1>1, <1>2 DEF BudgetExact, Holders, CountedOf

(* A connection is accepted while nothing is being closed.                 *)
LEMMA AcceptStep ==
    ASSUME SudokuInv, NEW c \in Conns, NEW s \in Sources, NEW r \in Requests,
           Accept(c, s, r)
    PROVE  SudokuInv'
<1> USE DEF SudokuInv
<1>1. /\ r[1] \in Whats /\ r[2] \in Hellos \cup Conns \cup {None}
      /\ r[1] \in {"raw", "authorize"} => r[2] \in Hellos
  BY DEF Requests, Whats
<1>2. NoTunnel \in 0 .. NoTunnel
  BY Bounds
<1> DEFINE new == [NoConn EXCEPT !.pc = "accepted", !.src = s, !.what = r[1], !.arg = r[2]]
<1>3. conn' = [conn EXCEPT ![c] = new] /\ conn[c].pc = "idle"
  BY DEF Accept
<1>4. NoConn \in Handlers /\ NoConn.tunnel = NoTunnel /\ NoConn.then = None
  BY <1>2 DEF NoConn, Handlers, Pcs, Whats
<1>5. /\ new \in Handlers
      /\ new.pc = "accepted" /\ new.src = s /\ new.what = r[1] /\ new.arg = r[2]
      /\ new.tunnel = NoTunnel /\ new.then = None
  BY <1>1, <1>4 DEF Handlers, Pcs
<1> HIDE DEF new
<1>6. conn' \in [Conns -> Handlers] /\ conn'[c] = new
      /\ \A d \in Conns : d # c => conn'[d] = conn[d]
  BY <1>3, <1>5 DEF HandlerInv
<1>7. UNCHANGED <<mask, slots, bySource, blocked, probe, nonces, userVars, shut, sess, closing>>
      /\ closing = "no"
  BY DEF Accept, budgetVars
<1>8. HandlerInv'
  BY <1>1, <1>5, <1>6, <1>7, NoneAssumption DEF HandlerInv, IsHello, userVars
<1>9. ServerTypeOK' /\ TunnelInv'
  BY <1>7 DEF ServerTypeOK, TunnelInv, ShutTunnelIsEmpty, userVars
<1>10. CutInv'
  <2>1. \A d \in Conns : conn[d].pc # "accepted"
    BY DEF Accept
  <2> QED BY <1>6, <1>7, <2>1 DEF CutInv, Ending
<1>11. BudgetExact'
  <2>1. Holders' = Holders
    BY <1>3, <1>5, <1>6 DEF Holders, HoldsSlot
  <2>2. \A q \in Sources : CountedOf(q)' = CountedOf(q)
    BY <1>3, <1>5, <1>6 DEF CountedOf, IsCounted, HoldsSlot
  <2>3. \A d \in Conns : conn'[d].pc = "probing" <=> probe' = d
    BY <1>3, <1>5, <1>6, <1>7 DEF BudgetExact
  <2> QED BY <1>7, <2>1, <2>2, <2>3 DEF BudgetExact, Holders, CountedOf
<1> QED BY <1>8, <1>9, <1>10, <1>11

(* Nothing but a session or a cooldown is over.                            *)
LEMMA EndsStep ==
    ASSUME SudokuInv,
           (\E c \in Conns : SessionCloses(c)) \/ (\E s \in Sources : CooldownEnds(s))
    PROVE  SudokuInv'
<1> USE DEF SudokuInv
<1>1. UNCHANGED <<mask, conn, slots, bySource, probe, nonces, userVars, shut, closing>>
      /\ blocked' \subseteq Sources
  BY DEF SessionCloses, CooldownEnds, budgetVars, ServerTypeOK
<1>2. SessionsStayOpen
  BY Bounds DEF SessionCloses, CooldownEnds, ServerTypeOK, SessionsStayOpen
<1>3. ServerTypeOK'
  BY <1>1, <1>2 DEF ServerTypeOK, SessionsStayOpen, userVars
<1>4. TunnelInv'
  BY <1>1, <1>2, TunnelFrame DEF userVars
<1>5. HandlerInv' /\ CutInv'
  BY <1>1 DEF HandlerInv, CutInv, Uncut, IsHello, Answered, userVars
<1>6. BudgetExact'
  BY <1>1, BudgetKept
<1> QED BY <1>3, <1>4, <1>5, <1>6

(* The new snapshot: its tunnel is the old one, or one nobody knows yet.   *)
LEMMA StoreUsersStep ==
    ASSUME SudokuInv, NEW next \in SUBSET Users, StoreUsers(next)
    PROVE  SudokuInv'
<1> USE DEF SudokuInv
<1>1. /\ UNCHANGED <<mask, conn, slots, bySource, blocked, probe, nonces, services,
                     shut, sess, closing>>
      /\ closing = "no" /\ sync' = "tunnels"
  BY DEF StoreUsers, budgetVars
<1>2. /\ snapshot.tunnel \in Nat /\ MaxSyncs \in Nat
      /\ snapshot'.users = next /\ snapshot'.tunnel \in 0 .. MaxSyncs
      /\ snapshot'.tunnel \in {snapshot.tunnel, snapshot.tunnel + 1}
      /\ snapshot' \in [users : SUBSET Users, tunnel : 0 .. MaxSyncs]
  BY Bounds DEF StoreUsers, NextTunnel, ServerTypeOK
<1>3. ServerTypeOK'
  BY <1>1, <1>2 DEF ServerTypeOK
<1>4. HandlerInv'
  BY <1>1, <1>2, Bounds DEF HandlerInv, IsHello, Handlers
<1>5. CutInv'
  BY <1>1 DEF CutInv, Ending
<1>6. snapshot'.tunnel \notin shut
  BY <1>1, <1>2 DEF TunnelInv, ShutTunnelIsEmpty, ServerTypeOK
<1>7. \A c \in Conns : sess'[c] = NoTunnel \/ sess'[c] <= snapshot'.tunnel
  BY <1>1, <1>2, Bounds DEF TunnelInv, ServerTypeOK
<1>8. TunnelInv'
  <2>1. ShutTunnelIsEmpty'
    BY <1>1, <1>6 DEF TunnelInv, ShutTunnelIsEmpty
  <2> QED BY <1>1, <1>7, <2>1 DEF TunnelInv, Ending
<1>9. BudgetExact'
  BY <1>1, BudgetKept
<1> QED BY <1>3, <1>4, <1>5, <1>8, <1>9

(* TunnelServer.Close empties the tunnels it shuts.                        *)
LEMMA CloseTunnelsEmpties ==
    ASSUME ServerTypeOK, TunnelInv, NEW ts \in SUBSET (0 .. snapshot.tunnel),
           CloseTunnels(ts)
    PROVE  /\ sess' \in [Conns -> 0 .. NoTunnel] /\ shut' = shut \cup ts
           /\ shut' \subseteq 0 .. snapshot.tunnel
           /\ \A c \in Conns : /\ sess'[c] = NoTunnel \/ sess'[c] <= snapshot.tunnel
                               /\ sess'[c] \notin shut'
<1>1. NoTunnel \in 0 .. NoTunnel /\ NoTunnel \notin 0 .. snapshot.tunnel
  BY Bounds DEF ServerTypeOK, NoTunnel
<1>2. shut' = shut \cup ts /\ shut' \subseteq 0 .. snapshot.tunnel
  BY DEF CloseTunnels, ServerTypeOK
<1>3. sess' \in [Conns -> 0 .. NoTunnel]
  BY <1>1 DEF CloseTunnels, ServerTypeOK
<1>4. ASSUME NEW c \in Conns
      PROVE  /\ sess'[c] = NoTunnel \/ sess'[c] <= snapshot.tunnel
             /\ sess'[c] \notin shut'
  <2>1. sess'[c] = IF sess[c] \in ts THEN NoTunnel ELSE sess[c]
    BY DEF CloseTunnels
  <2> QED BY <1>1, <1>2, <2>1 DEF TunnelInv, ShutTunnelIsEmpty
<1> QED BY <1>2, <1>3, <1>4

(* closeReplacedHTTPMaskTunnels ends the window that StoreUsers opened.    *)
LEMMA CloseReplacedStep ==
    ASSUME SudokuInv, CloseReplacedTunnels
    PROVE  SudokuInv'
<1> USE DEF SudokuInv
<1>1. /\ UNCHANGED <<mask, conn, slots, bySource, blocked, probe, nonces, snapshot,
                     services, closing>>
      /\ sync' = "services" /\ closing = "no"
  BY DEF CloseReplacedTunnels, budgetVars, TunnelInv
<1> DEFINE ts == 0 .. snapshot.tunnel - 1
<1>2. ts \in SUBSET (0 .. snapshot.tunnel) /\ snapshot.tunnel \notin ts
  BY Bounds DEF ServerTypeOK
<1>3. CloseTunnels(ts)
  BY DEF CloseReplacedTunnels
<1> HIDE DEF ts
<1>4. /\ sess' \in [Conns -> 0 .. NoTunnel] /\ shut' = shut \cup ts
      /\ shut' \subseteq 0 .. snapshot.tunnel
      /\ \A c \in Conns : /\ sess'[c] = NoTunnel \/ sess'[c] <= snapshot.tunnel
                          /\ sess'[c] \notin shut'
  BY <1>2, <1>3, CloseTunnelsEmpties
<1>5. ServerTypeOK'
  BY <1>1, <1>4 DEF ServerTypeOK
<1>6. HandlerInv' /\ CutInv'
  BY <1>1 DEF HandlerInv, CutInv, Uncut, IsHello, Answered
<1>7. snapshot.tunnel \notin shut'
  BY <1>1, <1>2, <1>4 DEF TunnelInv, ShutTunnelIsEmpty
<1>8. TunnelInv'
  <2>1. ShutTunnelIsEmpty'
    BY <1>1, <1>4, <1>7 DEF ShutTunnelIsEmpty
  <2>2. (0 .. snapshot.tunnel - 1 \subseteq shut)'
    BY <1>1, <1>4 DEF ts
  <2> QED BY <1>1, <1>4, <2>1, <2>2 DEF TunnelInv, Ending
<1>9. BudgetExact'
  BY <1>1, BudgetKept
<1> QED BY <1>5, <1>6, <1>8, <1>9

(* A sweep over the connections that closes the sockets of some.           *)
LEMMA SweepMoves ==
    ASSUME HandlerInv, NEW S \in SUBSET Conns, UNCHANGED snapshot,
           conn' = [c \in Conns |-> IF c \in S THEN [conn[c] EXCEPT !.cut = TRUE] ELSE conn[c]]
    PROVE  /\ HandlerInv'
           /\ \A c \in Conns : /\ conn'[c].pc = conn[c].pc /\ conn'[c].src = conn[c].src
                               /\ Answered(c)' <=> Answered(c)
                               /\ conn'[c].cut = (conn[c].cut \/ c \in S)
<1>1. ASSUME NEW c \in Conns
      PROVE  /\ conn'[c] \in Handlers
             /\ conn'[c].pc = conn[c].pc /\ conn'[c].src = conn[c].src
             /\ conn'[c].what = conn[c].what /\ conn'[c].then = conn[c].then
             /\ conn'[c].arg = conn[c].arg /\ conn'[c].tunnel = conn[c].tunnel
             /\ conn'[c].cut = (conn[c].cut \/ c \in S)
  <2>1. conn[c] \in Handlers
    BY DEF HandlerInv
  <2>2. CASE c \in S
    BY <2>1, <2>2 DEF Handlers
  <2>3. CASE c \notin S
    BY <2>1, <2>3 DEF Handlers
  <2> QED BY <2>2, <2>3
<1>2. conn' \in [Conns -> Handlers]
  BY <1>1
<1> QED BY <1>1, <1>2, ZenonT(60) DEF HandlerInv, IsHello, Answered

(* The sessions of removed users are closed.                               *)
LEMMA SyncServicesStep ==
    ASSUME SudokuInv, SyncServices
    PROVE  SudokuInv'
<1> USE DEF SudokuInv
<1> DEFINE S == {c \in Conns : conn[c].pc = "serve"
                                 /\ UserOf[conn[c].arg] \notin snapshot.users}
<1>1. /\ UNCHANGED <<mask, slots, bySource, blocked, probe, nonces, snapshot, shut, sess, closing>>
      /\ sync' = "idle" /\ services' = snapshot.users /\ sync = "services"
  BY DEF SyncServices, budgetVars
<1>2. conn' = [c \in Conns |-> IF c \in S THEN [conn[c] EXCEPT !.cut = TRUE] ELSE conn[c]]
  BY DEF SyncServices
<1>3. S \in SUBSET Conns
  OBVIOUS
<1> HIDE DEF S
<1>4. /\ HandlerInv'
      /\ \A c \in Conns : /\ conn'[c].pc = conn[c].pc /\ conn'[c].src = conn[c].src
                          /\ Answered(c)' <=> Answered(c)
                          /\ conn'[c].cut = (conn[c].cut \/ c \in S)
  BY <1>1, <1>2, <1>3, SweepMoves
<1>5. ServerTypeOK' /\ TunnelInv'
  BY <1>1 DEF ServerTypeOK, TunnelInv, ShutTunnelIsEmpty
<1>6. CutInv'
  <2>1. \A c \in Conns : Uncut(c)' => Uncut(c)
    BY <1>4 DEF Uncut
  <2> QED BY <1>1, <1>4, <2>1 DEF CutInv
<1>7. BudgetExact'
  BY <1>1, <1>4, BudgetKept
<1> QED BY <1>4, <1>5, <1>6, <1>7

(* Close: the listener, and at the end the wait for the handlers.          *)
LEMMA CloseEndsStep ==
    ASSUME SudokuInv, CloseListener \/ CloseReturns
    PROVE  SudokuInv'
<1> USE DEF SudokuInv
<1>1. /\ UNCHANGED <<mask, conn, slots, bySource, blocked, probe, nonces, userVars, shut, sess>>
      /\ \/ closing = "no" /\ closing' = "listener" /\ sync = "idle"
         \/ closing = "wait" /\ closing' \in {"ok", "timeout"}
  BY DEF CloseListener, CloseReturns, budgetVars
<1>2. ServerTypeOK' /\ HandlerInv'
  BY <1>1 DEF ServerTypeOK, HandlerInv, IsHello, userVars
<1>3. TunnelInv' /\ CutInv'
  BY <1>1 DEF TunnelInv, ShutTunnelIsEmpty, CutInv, Uncut, Answered, Ending, userVars
<1>4. BudgetExact'
  BY <1>1, BudgetKept
<1> QED BY <1>2, <1>3, <1>4

(* Close: the registered connections.  None is left that was accepted and  *)
(* not registered, or the accept loop has not ended and holds the only one.*)
LEMMA CloseConnsStep ==
    ASSUME SudokuInv, CloseConns
    PROVE  SudokuInv'
<1> USE DEF SudokuInv
<1> DEFINE S == {c \in Conns : Registered(c)}
<1>1. /\ UNCHANGED <<mask, slots, bySource, blocked, probe, nonces, userVars, shut, sess>>
      /\ closing = "listener"
      /\ \/ closing' = "conns" /\ \A c \in Conns : conn[c].pc # "accepted"
         \/ closing' = "late"
  BY DEF CloseConns, budgetVars, AcceptLoopEnded
<1>2. conn' = [c \in Conns |-> IF c \in S THEN [conn[c] EXCEPT !.cut = TRUE] ELSE conn[c]]
  BY DEF CloseConns
<1>3. S \in SUBSET Conns
  OBVIOUS
<1>4. \A c \in Conns : conn[c].pc \notin {"idle", "done"} =>
         conn[c].pc = "accepted" \/ Answered(c) \/ c \in S
  BY DEF Registered
<1> HIDE DEF S
<1>5. /\ HandlerInv'
      /\ \A c \in Conns : /\ conn'[c].pc = conn[c].pc /\ conn'[c].src = conn[c].src
                          /\ Answered(c)' <=> Answered(c)
                          /\ conn'[c].cut = (conn[c].cut \/ c \in S)
  BY <1>1, <1>2, <1>3, SweepMoves DEF userVars
<1>6. ServerTypeOK' /\ TunnelInv'
  BY <1>1 DEF ServerTypeOK, TunnelInv, ShutTunnelIsEmpty, userVars, Ending
<1>7. CutInv'
  <2>1. \A c \in Conns : Uncut(c)' => conn[c].pc = "accepted"
    BY <1>4, <1>5 DEF Uncut
  <2> QED BY <1>1, <1>5, <2>1 DEF CutInv, Ending
<1>8. BudgetExact'
  BY <1>1, <1>5, BudgetKept
<1> QED BY <1>5, <1>6, <1>7, <1>8

(* Close: the tunnel of the snapshot.                                      *)
LEMMA CloseSnapshotStep ==
    ASSUME SudokuInv, CloseSnapshotTunnel
    PROVE  SudokuInv'
<1> USE DEF SudokuInv
<1>1. /\ UNCHANGED <<mask, conn, slots, bySource, blocked, probe, nonces, userVars>>
      /\ \/ closing = "conns" /\ closing' = "wait"
         \/ closing = "late" /\ closing' = "stuck"
  BY DEF CloseSnapshotTunnel, budgetVars
<1>2. {snapshot.tunnel} \in SUBSET (0 .. snapshot.tunnel)
  BY DEF ServerTypeOK
<1>3. /\ sess' \in [Conns -> 0 .. NoTunnel] /\ shut' = shut \cup {snapshot.tunnel}
      /\ shut' \subseteq 0 .. snapshot.tunnel
      /\ \A c \in Conns : /\ sess'[c] = NoTunnel \/ sess'[c] <= snapshot.tunnel
                          /\ sess'[c] \notin shut'
  BY <1>2, CloseTunnelsEmpties DEF CloseSnapshotTunnel
<1>4. ServerTypeOK' /\ HandlerInv'
  BY <1>1, <1>3 DEF ServerTypeOK, HandlerInv, IsHello, userVars
<1>5. TunnelInv' /\ CutInv'
  BY <1>1, <1>3 DEF TunnelInv, ShutTunnelIsEmpty, CutInv, Uncut, Answered, Ending, userVars
<1>6. BudgetExact'
  BY <1>1, BudgetKept
<1> QED BY <1>4, <1>5, <1>6

LEMMA SudokuInvInit == Init => SudokuInv
<1> SUFFICES ASSUME Init PROVE SudokuInv
  OBVIOUS
<1>1. NoConn \in Handlers /\ NoTunnel \in 0 .. NoTunnel /\ 0 \in 0 .. MaxSyncs
  BY Bounds DEF NoConn, Handlers, Pcs, Whats
<1>2. \A c \in Conns : conn[c].pc = "idle" /\ conn[c].then = None /\ conn[c].what = None
                       /\ conn[c].tunnel = NoTunnel
  BY DEF Init, NoConn
<1>3. ServerTypeOK
  BY <1>1, Bounds, SudokuAssumption DEF Init, ServerTypeOK
<1>4. HandlerInv
  BY <1>1, <1>2, NoneAssumption DEF Init, HandlerInv, IsHello
<1>5. BudgetExact
  <2>1. {c \in Conns : HoldsSlot(c)} = {}
    BY <1>2 DEF HoldsSlot
  <2>2. \A s \in Sources : {c \in Conns : IsCounted(c) /\ conn[c].src = s} = {}
    BY <2>1 DEF IsCounted
  <2>3. \A c \in Conns : conn[c].pc = "probing" <=> probe = c
    BY <1>2, NoneAssumption DEF Init
  <2>4. slots = 0 /\ 0 <= MaxSlots /\ \A s \in Sources : bySource[s] = 0
    BY Bounds DEF Init
  <2> QED BY <2>1, <2>2, <2>3, <2>4, FS_EmptySet DEF BudgetExact
<1>6. TunnelInv
  <2>1. snapshot.tunnel = 0 /\ shut = {} /\ \A c \in Conns : sess[c] = NoTunnel
    BY DEF Init
  <2> QED BY <2>1 DEF Init, TunnelInv, ShutTunnelIsEmpty, Ending
<1>7. CutInv
  <2>1. closing = "no"
    BY DEF Init
  <2> QED BY <1>2, <2>1 DEF CutInv, Ending
<1> QED BY <1>3, <1>4, <1>5, <1>6, <1>7 DEF SudokuInv

LEMMA SudokuInvNext == SudokuInv /\ [Next]_vars => SudokuInv'
<1> SUFFICES ASSUME SudokuInv, [Next]_vars PROVE SudokuInv'
  OBVIOUS
<1>1. CASE UNCHANGED vars
  <2>1. UNCHANGED <<mask, conn, slots, bySource, blocked, probe, nonces, snapshot,
                    services, sync, shut, sess, closing>>
    BY <1>1 DEF vars, budgetVars, userVars
  <2>2. ServerTypeOK' /\ HandlerInv' /\ TunnelInv' /\ CutInv'
    BY <2>1 DEF SudokuInv, ServerTypeOK, HandlerInv, TunnelInv, ShutTunnelIsEmpty,
                CutInv, Uncut, Answered, IsHello
  <2>3. BudgetExact'
    BY <2>1, BudgetKept DEF SudokuInv
  <2> QED BY <2>2, <2>3 DEF SudokuInv
<1>2. CASE ClientStep
  BY <1>2, AcceptStep, OutsideStep, EndsStep DEF ClientStep
<1>3. CASE \E c \in Conns : HandlerStep(c)
  BY <1>3, HandlerStepInv
<1>4. CASE \E next \in SUBSET Users : StoreUsers(next)
  BY <1>4, StoreUsersStep
<1>5. CASE SyncStep
  BY <1>5, CloseReplacedStep, SyncServicesStep DEF SyncStep
<1>6. CASE CloseListener \/ CloseStep
  BY <1>6, CloseEndsStep, CloseConnsStep, CloseSnapshotStep DEF CloseStep
<1> QED BY <1>1, <1>2, <1>3, <1>4, <1>5, <1>6 DEF Next

LEMMA SudokuInvCorrect == Spec => []SudokuInv
BY SudokuInvInit, SudokuInvNext, PTL DEF Spec

-----------------------------------------------------------------------------
(* Type correctness: no counter of the budget leaves its limits.           *)
THEOREM SudokuTypeCorrect == Spec => []SudokuTypeOK
<1>1. SudokuInv => SudokuTypeOK
  <2> SUFFICES ASSUME SudokuInv PROVE SudokuTypeOK
    OBVIOUS
  <2>1. \A c \in Conns :
          /\ conn[c].pc \in Pcs
          /\ conn[c].todo \subseteq Probes /\ conn[c].tunnel \in 0 .. NoTunnel
          /\ conn[c].then \in {None, "open", "done"} /\ conn[c].cut \in BOOLEAN
    BY DEF SudokuInv, HandlerInv, Handlers
  <2>2. shut \subseteq 0 .. MaxSyncs
    BY Bounds DEF SudokuInv, ServerTypeOK
  <2> QED BY <2>1, <2>2 DEF SudokuInv, ServerTypeOK, SudokuTypeOK, Pcs
<1> QED BY <1>1, SudokuInvCorrect, PTL

(* Whatever the interleaving of handlers, deadlines, refusals and the      *)
(* shutdown, and for any limits, no handshake slot and no count of a       *)
(* source is lost or returned twice (acquireHandshakeSlot,                 *)
(* releaseHandshakeSlot), and one handler at a time is in a probe.         *)
THEOREM BudgetExactCorrect == Spec => []BudgetExact
BY SudokuInvCorrect, PTL DEF SudokuInv

(* No session survives in, or slips into, a tunnel that was closed, and    *)
(* the tunnel of the users in force stays open, through any number of user *)
(* lists (TunnelServer.Close, sessionAuthorize).                           *)
THEOREM ShutTunnelIsEmptyCorrect == Spec => []ShutTunnelIsEmpty
BY SudokuInvCorrect, PTL DEF SudokuInv, TunnelInv

(* When Close waits for the handlers, each has lost its socket or its      *)
(* tunnel session, so that it can return, and when it has given up the     *)
(* accept loop all but one have (serverInstance.Close).                    *)
THEOREM CloseLeavesNoneCorrect == Spec => []CloseLeavesNone
<1>1. SudokuInv => CloseLeavesNone
  <2> SUFFICES ASSUME SudokuInv PROVE CloseLeavesNone
    OBVIOUS
  <2>1. ASSUME closing \in Ending \cup {"stuck"}, NEW c \in Conns, KeptGoing(c)
        PROVE  Uncut(c)
    <3>1. /\ sync # "tunnels" /\ snapshot.tunnel \in shut
          /\ 0 .. snapshot.tunnel - 1 \subseteq shut
      BY <2>1 DEF SudokuInv, TunnelInv, Ending
    <3>2. 0 .. snapshot.tunnel \subseteq shut
      BY <3>1 DEF SudokuInv, ServerTypeOK
    <3>3. sess[c] \notin shut /\ sess[c] \in Nat
          /\ (sess[c] = NoTunnel \/ sess[c] <= snapshot.tunnel)
      BY DEF SudokuInv, TunnelInv, ShutTunnelIsEmpty, ServerTypeOK
    <3>4. sess[c] = NoTunnel
      BY <3>2, <3>3 DEF SudokuInv, ServerTypeOK
    <3> QED BY <2>1, <3>4 DEF KeptGoing, Uncut
  <2> QED BY <2>1 DEF CloseLeavesNone, SudokuInv, CutInv, Ending
<1> QED BY <1>1, SudokuInvCorrect, PTL
=============================================================================
