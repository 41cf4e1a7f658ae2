--------------------------------- MODULE Toe ---------------------------------
(***************************************************************************)
(* One TCP session of the TCP offload engine (hw/services/network/hls/toe) *)
(* in its default build: TCP_NODELAY, RX_DDR_BYPASS, FAST_RETRANSMIT and   *)
(* WINDOW_SCALE.  The processes of the dataflow region run concurrently:   *)
(* the application interfaces, the event engine with the delayed ACKs, the *)
(* TX engine, the RX engine (which reads the tables in LOAD and acts on    *)
(* what it read in TRANSITION) and the timers.  The other end is a correct *)
(* TCP peer behind a network that loses and reorders segments.             *)
(*                                                                         *)
(* Data is counted in segments: one write is one segment of one sequence   *)
(* number, and a payload is the index of the byte in its stream.  Sequence *)
(* numbers wrap at SeqSpace, buffer pointers at WinMod.  A segment's window  *)
(* stands for min_window, the smaller of the congestion window and the     *)
(* scaled receive window.                                                  *)
(*                                                                         *)
(* The FIFOs that carry the events of the RX engine to the TX engine are   *)
(* transparent: such an event is in txq once it is past ack_delay.  Which  *)
(* session a segment belongs to is the subject of ToeSessions.             *)
(***************************************************************************)
EXTENDS Integers, Sequences, SequencesExt, FiniteSets, FiniteSetsExt

CONSTANTS
  SeqSpace,    \* sequence numbers are 0 .. SeqSpace - 1
  WinMod,    \* 2^WINDOW_BITS, a divisor of SeqSpace
  Isns,      \* initial sequence numbers the TX engine may draw
  PeerIsn,   \* initial sequence number of the peer
  OldSegs,   \* segments of an earlier connection the network may still hold
  SimOpen,   \* both ends may open the connection at the same time
  Windows,   \* values of min_window
  MaxMoves,  \* bound: writes, closes and segments of the peer together
  MaxRetries,\* retransmissions before the timer gives up (4 in the code)
  FastDups,  \* duplicate ACKs that trigger a retransmission (3 in the code)
  RtBurst,   \* segments one RT event sends (4 in the code)
  InCap,     \* bound: segments on their way to the engine
  OutCap,    \* bound: segments on their way to the peer
  AppCap,    \* bound: events of the application waiting
  QCap       \* bound: events of the timer, and of the TX engine, waiting

VARIABLES
  life,    \* the session: unused, live (in the lookup table) or released
  st,      \* state_table
  recvd,   \* rx_sar_table: next sequence number expected
  tx,      \* tx_sar_table
  app,     \* tx_app_table
  mem,     \* the session's TX buffer in memory
  iss,     \* the initial sequence number last drawn (history)
  open,    \* the application's open request: none, lookup, wait, ok or fail
  written, \* writes accepted so far
  closes,  \* close requests that were obeyed
  dlv,     \* bytes handed to the application
  rxm,     \* segment and TX SAR entry the RX engine loaded, or None
  apEv,    \* events of the application, on their way to the event engine
  tmEv,    \* events of the retransmit timer
  pend,    \* ack_table: an ACK is being delayed
  txq,     \* events waiting for the TX engine
  rt,      \* retransmit timer
  ct,      \* close timer is running
  toPeer,  \* segments on their way to the peer
  toToe,   \* segments on their way to the engine
  p        \* the peer

appVars  == <<open, written, closes>>
timeVars == <<rt, ct>>
evVars   == <<apEv, tmEv, pend, txq>>
vars == <<life, st, recvd, tx, app, mem, iss, appVars, dlv, rxm, evVars,
          timeVars, toPeer, toToe, p>>

None == [f |-> "none"]
Junk == MaxMoves + 1     \* what the memory holds where nothing was written
Seq0 == 0 .. SeqSpace - 1
Add(s, n) == (s + n) % SeqSpace
Dist(a, b) == (b - a) % SeqSpace    \* how far b is ahead of a
Ring(s) == s % WinMod

\* data = 0 is an empty payload.
Segment == [f : {"ACK", "SYN", "SYN_ACK", "FIN", "RST"}, seq : Seq0, ack : Seq0,
            data : 0 .. Junk, win : Windows]
Seg(f, seq, ack, data, win) ==
  [f |-> f, seq |-> seq, ack |-> ack, data |-> data, win |-> win]
ASSUME ToeAssumption ==
  /\ SeqSpace \in Nat /\ WinMod \in Nat \ {0, 1} /\ SeqSpace % WinMod = 0
  /\ Isns # {} /\ Isns \subseteq 0 .. SeqSpace - 1 /\ PeerIsn \in 0 .. SeqSpace - 1
  /\ SimOpen \in BOOLEAN /\ OldSegs \subseteq Segment /\ Windows # {}
  /\ Windows \subseteq 0 .. WinMod - 1
  /\ MaxMoves \in Nat /\ MaxRetries \in Nat \ {0}
  /\ FastDups \in Nat \ {0} /\ RtBurst \in Nat \ {0} /\ InCap \in Nat \ {0}
  /\ OutCap \in Nat \ {0} /\ AppCap \in Nat \ {0} /\ QCap \in Nat \ {0}

\* Numbers do not come round within a connection, and an earlier connection
\* had others.  0 is what the tables hold before they are written.
ASSUME NumbersAssumption ==
  /\ MaxMoves + 1 < SeqSpace /\ Add(PeerIsn, 1) # 0
  /\ \A m \in OldSegs :
       /\ m.data # Junk
       /\ m.f = "SYN" => m.seq # PeerIsn
       /\ m.f \in {"SYN_ACK", "ACK", "FIN"} =>
            m.ack # 0 /\ \A n \in Isns : Dist(n, m.ack) > MaxMoves + 1
       /\ m.f \in {"ACK", "FIN"} => Dist(PeerIsn, m.seq) > MaxMoves + 1

SegLen(m) == IF m.data = 0 THEN 0 ELSE 1
AnyWin == Max(Windows)

\* cnt is rt_count; arg the byte of a TX event, the ACK number of a RST event.
Event == [t : {"SYN", "SYN_ACK", "TX", "RT", "ACK", "ACK_NODELAY", "FIN", "RST"},
          cnt : 0 .. MaxRetries, arg : Nat]
Ev(t, cnt, arg) == [t |-> t, cnt |-> cnt, arg |-> arg]

States == {"CLOSED", "SYN_SENT", "SYN_RECEIVED", "ESTABLISHED", "FIN_WAIT_1",
           "FIN_WAIT_2", "CLOSING", "TIME_WAIT", "LAST_ACK"}
PeerStates == {"CLOSED", "LISTEN", "SYN_SENT", "SYN_RCVD", "ESTAB", "RESET"}
TxSar == [ackd : Seq0, not_ackd : Seq0, count : 0 .. FastDups, fastRt : BOOLEAN,
          finSent : BOOLEAN]

MayMove == written + closes + p.segs < MaxMoves

Init ==
  /\ life = "unused" /\ st = "CLOSED" /\ recvd = 0
  /\ tx = [ackd |-> 0, not_ackd |-> 0, count |-> 0, fastRt |-> FALSE,
           finSent |-> FALSE]
  /\ app = [ackd |-> 0, mempt |-> 0, min_window |-> AnyWin]
  /\ mem = [i \in 0 .. WinMod - 1 |-> Junk]
  /\ iss = 0 /\ open = "none" /\ written = 0 /\ closes = 0 /\ dlv = <<>> /\ rxm = None
  /\ apEv = <<>> /\ tmEv = <<>> /\ pend = FALSE /\ txq = <<>>
  /\ rt = [active |-> FALSE, retries |-> 0, type |-> "RT"] /\ ct = FALSE
  /\ toPeer = {} /\ toToe \in {{}} \cup {{m} : m \in OldSegs}
  /\ \E listens \in BOOLEAN :
       p = [st |-> IF listens THEN "LISTEN" ELSE "CLOSED", listens |-> listens,
            irs |-> 0, rnxt |-> 0, una |-> 0, n |-> 0,
            segs |-> Cardinality(toToe), fin |-> FALSE, got |-> <<>>, gotFin |-> FALSE]

----------------------------------------------------------------------------
(* The application's side. *)

\* Opening first asks for a session ...
AppOpen ==
  /\ open = "none" /\ (p.listens \/ SimOpen)
  /\ open' = IF life = "unused" THEN "lookup" ELSE "fail"
  /\ life' = IF life = "unused" THEN "live" ELSE life
  /\ UNCHANGED <<st, recvd, tx, app, mem, iss, written, closes, dlv, rxm, evVars,
                 timeVars, toPeer, toToe, p>>

\* ... and once it has one, sends SYN and writes the state, without having read
\* it; the write waits while the RX engine holds the session's lock.
AppSyn ==
  /\ open = "lookup" /\ rxm = None /\ Len(apEv) < AppCap
  /\ open' = "wait" /\ st' = "SYN_SENT"
  /\ apEv' = Append(apEv, Ev("SYN", 0, 0))
  /\ UNCHANGED <<life, recvd, tx, app, mem, iss, written, closes, dlv, rxm, tmEv,
                 pend, txq, timeVars, toPeer, toToe, p>>

MutWriteFits == app.min_window >= 1
WriteFits ==
  /\ Ring(app.ackd - app.mempt - 1) >= 1
  /\ app.min_window - Ring(app.mempt - app.ackd) >= 1

\* The write goes to memory at mempt, in two pieces if it crosses the end.
WriteMem(b) == mem' = [mem EXCEPT ![app.mempt] = b]

\* A write is accepted if the connection is established and both the buffer
\* and the window have room; the data goes to memory and, past it, straight to
\* the TX engine.  A refused write changes nothing.
AppWrite ==
  /\ MayMove /\ Len(apEv) < AppCap
  /\ st = "ESTABLISHED" /\ WriteFits
  /\ written' = written + 1
  /\ WriteMem(written + 1)
  /\ app' = [app EXCEPT !.mempt = Ring(app.mempt + 1)]
  /\ apEv' = Append(apEv, Ev("TX", 0, written + 1))
  /\ UNCHANGED <<life, st, recvd, tx, iss, open, closes, dlv, rxm, tmEv, pend, txq,
                 timeVars, toPeer, toToe, p>>

\* A close request; its FIN event passes the TX events that txEventMerger has
\* not taken yet.
AppClose ==
  /\ rxm = None /\ Len(apEv) < AppCap
  /\ MayMove
  /\ st \in {"ESTABLISHED", "FIN_WAIT_1", "FIN_WAIT_2"}
  /\ st' = "FIN_WAIT_1" /\ closes' = closes + 1
  /\ \E i \in 1 .. Len(apEv) + 1 : apEv' = InsertAt(apEv, i, Ev("FIN", 0, 0))
  /\ UNCHANGED <<life, recvd, tx, app, mem, iss, open, written, dlv, rxm, tmEv,
                 pend, txq, timeVars, toPeer, toToe, p>>

----------------------------------------------------------------------------
(* Events. *)

\* ack_delay: the first ACK is held back; a second one, or any other event,
\* takes its place.
AckDelay(ev) ==
  IF ev.t = "ACK" /\ ~pend THEN pend' = TRUE /\ UNCHANGED txq
                           ELSE pend' = FALSE /\ txq' = Append(txq, ev)

\* event_engine: timer and application events go only when the TX engine has
\* taken all there was, and timer events first.
EventEngine ==
  /\ txq = <<>>
  /\ IF tmEv # <<>>
       THEN /\ AckDelay(Head(tmEv)) /\ tmEv' = Tail(tmEv) /\ UNCHANGED apEv
       ELSE /\ apEv # <<>>
            /\ AckDelay(Head(apEv)) /\ apEv' = Tail(apEv) /\ UNCHANGED tmEv
  /\ UNCHANGED <<life, st, recvd, tx, app, mem, iss, appVars, dlv, rxm, timeVars,
                 toPeer, toToe, p>>

\* The delay of a held ACK is over.
AckTimeout ==
  /\ pend /\ Len(txq) < QCap
  /\ pend' = FALSE /\ txq' = Append(txq, Ev("ACK", 0, 0))
  /\ UNCHANGED <<life, st, recvd, tx, app, mem, iss, appVars, dlv, rxm, apEv,
                 tmEv, timeVars, toPeer, toToe, p>>

\* The session has not timed out too often.
MutMayRetry == rt.retries <= MaxRetries
MayRetry == rt.retries < MaxRetries

\* retransmit_timer, fired: another event, or the session is given up.
RtTimeout ==
  /\ rt.active
  /\ \/ /\ MayRetry /\ Len(tmEv) < QCap
        /\ tmEv' = Append(tmEv, Ev(rt.type, rt.retries + 1, 0))
        /\ rt' = [rt EXCEPT !.active = FALSE, !.retries = @ + 1]
        /\ UNCHANGED <<life, st, open>>
     \/ /\ ~MayRetry /\ rxm = None
        /\ rt' = [rt EXCEPT !.active = FALSE, !.retries = 0]
        /\ st' = "CLOSED" /\ life' = "released"
        /\ open' = IF rt.type = "SYN" THEN "fail" ELSE open
        /\ UNCHANGED tmEv
  /\ UNCHANGED <<recvd, tx, app, mem, iss, written, closes, dlv, rxm, apEv, pend, txq, ct,
                 toPeer, toToe, p>>

\* close_timer, fired.
CloseTimeout ==
  /\ ct /\ rxm = None
  /\ ct' = FALSE /\ st' = "CLOSED" /\ life' = "released"
  /\ UNCHANGED <<recvd, tx, app, mem, iss, appVars, dlv, rxm, evVars, rt, toPeer,
                 toToe, p>>

\* Setting the retransmit timer does not restart its count of retries.
SetRt(type) == rt' = [rt EXCEPT !.active = TRUE, !.type = type]

\* Clearing it restarts the count, and stops it if everything is acknowledged.
ClearRt(stop) == rt' = [rt EXCEPT !.active = @ /\ ~stop, !.retries = 0]

----------------------------------------------------------------------------
(* The TX engine: metaLoader takes an event, reads the tables and sends. *)

\* What is sent goes into the network, or is lost.
Send(segs) ==
  \E kept \in SUBSET segs :
    /\ Cardinality(toPeer \cup kept) <= OutCap
    /\ toPeer' = toPeer \cup kept

TxEvent(t) == txq # <<>> /\ Head(txq).t = t /\ txq' = Tail(txq)

\* The TX engine draws an initial sequence number: the SYN takes n, the first
\* byte n + 1.  It also resets the pointers of the application's side.
TxInit(n) ==
  /\ iss' = n
  /\ tx' = [tx EXCEPT !.not_ackd = Add(n, 1), !.ackd = n, !.finSent = FALSE]
  /\ app' = [ackd |-> Ring(n), mempt |-> Ring(n + 1), min_window |-> AnyWin]

\* SYN and SYN_ACK; a retransmission repeats the number, which is ackd.
TxSyn(t) ==
  /\ TxEvent(t)
  /\ LET ack == IF t = "SYN" THEN 0 ELSE recvd IN
       \/ /\ Head(txq).cnt = 0
          /\ \E n \in Isns : TxInit(n) /\ Send({Seg(t, n, ack, 0, AnyWin)})
       \/ /\ Head(txq).cnt # 0
          /\ Send({Seg(t, tx.ackd, ack, 0, AnyWin)})
          /\ UNCHANGED <<iss, tx, app>>
  /\ SetRt(t)
  /\ UNCHANGED <<life, st, recvd, mem, appVars, dlv, rxm, apEv, tmEv, pend, ct,
                 toToe, p>>

\* Fresh data, which bypasses the memory.
TxData ==
  /\ TxEvent("TX")
  /\ Send({Seg("ACK", tx.not_ackd, recvd, Head(txq).arg, AnyWin)})
  /\ tx' = [tx EXCEPT !.not_ackd = Add(@, 1)]
  /\ SetRt("RT")
  /\ UNCHANGED <<life, st, recvd, app, mem, iss, appVars, dlv, rxm, apEv, tmEv,
                 pend, ct, toToe, p>>

\* A FIN with a number of its own, unless it is a retransmission.
FinSeg(cnt) ==
  Seg("FIN", IF cnt # 0 THEN Add(tx.not_ackd, -1) ELSE tx.not_ackd, recvd, 0, AnyWin)
FinSar(cnt) ==
  IF cnt # 0 THEN tx ELSE [tx EXCEPT !.not_ackd = Add(@, 1), !.finSent = TRUE]

TxFin ==
  /\ TxEvent("FIN")
  /\ Send({FinSeg(Head(txq).cnt)}) /\ tx' = FinSar(Head(txq).cnt)
  /\ SetRt("RT")
  /\ UNCHANGED <<life, st, recvd, app, mem, iss, appVars, dlv, rxm, apEv, tmEv,
                 pend, ct, toToe, p>>

\* Memory is read at the sequence number, in two pieces across the end.
ReadMem(s) == mem[Ring(s)]

\* The bytes of a retransmission, at most RtBurst segments, read from memory.
MutRtData(used) ==
  {Seg("ACK", Add(tx.ackd, i), recvd, ReadMem(tx.ackd + i + 1), AnyWin) :
     i \in 0 .. Min({used, RtBurst}) - 1}
RtData(used) ==
  {Seg("ACK", Add(tx.ackd, i), recvd, ReadMem(tx.ackd + i), AnyWin) :
     i \in 0 .. Min({used, RtBurst}) - 1}

\* A retransmission: everything from ackd to not_ackd; if that is all of it, the
\* FIN as well once one was sent.  The FIN's own number counts as a byte here.
TxRt ==
  /\ TxEvent("RT")
  /\ LET cnt  == Head(txq).cnt
         used == Ring(tx.not_ackd - tx.ackd)
         fin  == used <= RtBurst /\ tx.finSent
     IN  /\ Send(RtData(used) \cup IF fin THEN {FinSeg(cnt)} ELSE {})
         /\ tx' = IF fin THEN FinSar(cnt) ELSE tx
         /\ IF used # 0 \/ fin THEN SetRt("RT") ELSE UNCHANGED rt
  /\ UNCHANGED <<life, st, recvd, app, mem, iss, appVars, dlv, rxm, apEv, tmEv,
                 pend, ct, toToe, p>>

TxAck ==
  /\ \/ TxEvent("ACK")
     \/ TxEvent("ACK_NODELAY")
  /\ Send({Seg("ACK", tx.not_ackd, recvd, 0, AnyWin)})
  /\ UNCHANGED <<life, st, recvd, tx, app, mem, iss, appVars, dlv, rxm, apEv, tmEv,
                 pend, timeVars, toToe, p>>

TxRst ==
  /\ TxEvent("RST")
  /\ Send({Seg("RST", tx.not_ackd, Head(txq).arg, 0, AnyWin)})
  /\ UNCHANGED <<life, st, recvd, tx, app, mem, iss, appVars, dlv, rxm, apEv, tmEv,
                 pend, timeVars, toToe, p>>

----------------------------------------------------------------------------
(* The RX engine. *)

\* A connection is accepted on a port the application listens on.
Listening == ~p.listens \/ SimOpen

\* LOAD: takes the segment, locks the state and reads the TX SAR entry.  Only a
\* SYN or a SYN_ACK makes a session; every other segment without one is dropped,
\* and so is what comes for a session that has gone.
RxLoad(m) ==
  /\ rxm = None /\ Len(txq) < QCap
  /\ life = "live" \/ (life = "unused" /\ m.f \in {"SYN", "SYN_ACK"} /\ Listening)
  /\ life' = "live"
  /\ rxm' = [f |-> m.f, m |-> m, ackd |-> tx.ackd, not_ackd |-> tx.not_ackd,
             count |-> tx.count, fastRt |-> tx.fastRt]
  /\ toToe' = toToe \ {m}
  /\ UNCHANGED <<st, recvd, tx, app, mem, iss, appVars, dlv, evVars, timeVars,
                 toPeer, p>>

\* A segment lost on the way, with a wrong checksum, or without a session.
RxDrop(m) ==
  /\ toToe' = toToe \ {m}
  /\ UNCHANGED <<life, st, recvd, tx, app, mem, iss, appVars, dlv, rxm, evVars,
                 timeVars, toPeer, p>>

\* What the RX engine writes to the TX SAR table is passed on to the
\* application's table.
AckPush(ackd, win) == app' = [app EXCEPT !.ackd = Ring(ackd), !.min_window = win]

TxSarUpdate(ackd, win, count, fastRt) ==
  /\ tx' = [tx EXCEPT !.ackd = ackd, !.count = count, !.fastRt = fastRt]
  /\ AckPush(ackd, win)

MutAckInRange(ackd, a, not_ackd) == a \in Seq0

\* ackNumb lies between prevAck and nextByte, wherever the numbers wrap.
AckInRange(ackd, a, not_ackd) ==
  \/ ackd <= a /\ a <= not_ackd
  \/ (ackd <= a \/ a <= not_ackd) /\ not_ackd < ackd

SetState(s) ==
  /\ st' = s
  /\ life' = IF s = "CLOSED" THEN "released" ELSE life

\* ackNumb is the next byte to send, as it was at LOAD.
MutAllAcked(m) == TRUE
AllAcked(m) == m.ack = rxm.not_ackd

RxTransition(f) == rxm # None /\ rxm.f = f /\ rxm' = None
NoEvent == UNCHANGED <<pend, txq>>

MutAccepted(m, room) == room

\* Data is taken in order only, and only if the receive buffer, which all
\* sessions share, has room.
Accepted(m, room) == m.seq = recvd /\ room

TakeData(m, room) ==
  IF m.data # 0 /\ Accepted(m, room)
    THEN recvd' = Add(m.seq, 1) /\ dlv' = Append(dlv, m.data)
    ELSE UNCHANGED <<recvd, dlv>>

\* A duplicate acknowledgement: nothing new, though something is in flight.
DupAck(m) == m.ack = rxm.ackd /\ rxm.ackd # rxm.not_ackd

\* Duplicates are counted, in two bits, unless they carry data.
DupCount(m) ==
  IF ~DupAck(m) THEN 0
  ELSE IF m.data = 0 THEN (rxm.count + 1) % (FastDups + 1) ELSE rxm.count
FastDone(m) == DupAck(m) /\ rxm.fastRt

\* The last duplicate asks for a retransmission, data for an acknowledgement:
\* at once if it was not taken.
AckEvent(m, room) ==
  IF DupCount(m) = FastDups /\ ~FastDone(m) THEN AckDelay(Ev("RT", 0, 0))
  ELSE IF m.data = 0 THEN NoEvent
  ELSE AckDelay(Ev(IF Accepted(m, room) THEN "ACK" ELSE "ACK_NODELAY", 0, 0))

AckState(done) ==
  CASE done /\ st = "SYN_RECEIVED" -> "ESTABLISHED"
    [] done /\ st = "CLOSING"      -> "TIME_WAIT"
    [] done /\ st = "LAST_ACK"     -> "CLOSED"
    [] OTHER                       -> st

RxAck ==
  /\ RxTransition("ACK")
  /\ LET m == rxm.m
         done == AllAcked(m)
     IN
     /\ ClearRt(done)
     /\ \/ /\ st \in {"ESTABLISHED", "SYN_RECEIVED", "FIN_WAIT_1", "CLOSING",
                      "LAST_ACK"}
           /\ IF AckInRange(rxm.ackd, m.ack, rxm.not_ackd)
                THEN TxSarUpdate(m.ack, m.win, DupCount(m),
                                 DupCount(m) = FastDups \/ FastDone(m))
                ELSE UNCHANGED <<tx, app>>
           /\ \E room \in BOOLEAN : TakeData(m, room) /\ AckEvent(m, room)
           /\ SetState(AckState(done))
           /\ ct' = (ct \/ (done /\ st = "CLOSING"))
        \/ /\ st \in {"CLOSED", "SYN_SENT", "FIN_WAIT_2", "TIME_WAIT"}
           /\ AckDelay(Ev("RST", 0, Add(m.seq, SegLen(m))))
           /\ SetState(st)
           /\ UNCHANGED <<tx, app, recvd, dlv, ct>>
  /\ UNCHANGED <<mem, iss, appVars, apEv, tmEv, toPeer, toToe, p>>

\* The SYN of a new connection writes ackd = 0 and the peer's window; TxInit
\* then sets ackd again.
RxSyn ==
  /\ RxTransition("SYN")
  /\ LET m == rxm.m IN
     \/ /\ st \in {"CLOSED", "SYN_SENT"}
        /\ recvd' = Add(m.seq, 1)
        /\ TxSarUpdate(0, m.win, 0, FALSE)
        /\ AckDelay(Ev("SYN_ACK", 0, 0))
        /\ SetState("SYN_RECEIVED")
     \/ /\ st = "SYN_RECEIVED" /\ Add(m.seq, 1) = recvd
        /\ AckDelay(Ev("SYN_ACK", 1, 0))
        /\ SetState(st) /\ UNCHANGED <<recvd, tx, app>>
     \/ /\ st = "SYN_RECEIVED" /\ Add(m.seq, 1) # recvd
        /\ AckDelay(Ev("RST", 0, Add(m.seq, 1)))
        /\ SetState("CLOSED") /\ UNCHANGED <<recvd, tx, app>>
     \/ /\ st \notin {"CLOSED", "SYN_SENT", "SYN_RECEIVED"}
        /\ AckDelay(Ev("ACK_NODELAY", 0, 0))
        /\ SetState(st) /\ UNCHANGED <<recvd, tx, app>>
  /\ UNCHANGED <<mem, iss, appVars, dlv, apEv, tmEv, timeVars, toPeer, toToe, p>>

RxSynAck ==
  /\ RxTransition("SYN_ACK")
  /\ LET m == rxm.m
         done == AllAcked(m)
     IN
     /\ ClearRt(done)
     /\ \/ /\ st = "SYN_SENT" /\ done
           /\ recvd' = Add(m.seq, 1)
           /\ TxSarUpdate(m.ack, m.win, 0, FALSE)
           /\ AckDelay(Ev("ACK_NODELAY", 0, 0))
           /\ SetState("ESTABLISHED") /\ open' = "ok"
        \/ /\ st = "SYN_SENT" /\ ~done
           /\ AckDelay(Ev("RST", 0, Add(m.seq, 1)))
           /\ SetState("CLOSED") /\ UNCHANGED <<recvd, tx, app, open>>
        \/ /\ st # "SYN_SENT"
           /\ AckDelay(Ev("ACK_NODELAY", 0, 0))
           /\ SetState(st) /\ UNCHANGED <<recvd, tx, app, open>>
  /\ UNCHANGED <<mem, iss, written, closes, dlv, apEv, tmEv, ct, toPeer, toToe, p>>

\* A FIN is taken in order only; its payload is taken whatever room there is,
\* and its ACK number is not compared with the range.
RxFin ==
  /\ RxTransition("FIN")
  /\ LET m == rxm.m
         done == AllAcked(m)
     IN
     /\ ClearRt(done)
     /\ \/ /\ st \in {"ESTABLISHED", "FIN_WAIT_1", "FIN_WAIT_2"} /\ recvd = m.seq
           /\ TxSarUpdate(m.ack, m.win, rxm.count, rxm.fastRt)
           /\ recvd' = Add(m.seq, SegLen(m) + 1)
           /\ dlv' = IF m.data # 0 THEN Append(dlv, m.data) ELSE dlv
           /\ \/ /\ st = "ESTABLISHED"
                 /\ AckDelay(Ev("FIN", 0, 0)) /\ SetState("LAST_ACK")
                 /\ UNCHANGED ct
              \/ /\ st # "ESTABLISHED"
                 /\ AckDelay(Ev("ACK", 0, 0))
                 /\ SetState(IF done THEN "TIME_WAIT" ELSE "CLOSING")
                 /\ ct' = (ct \/ done)
        \/ /\ ~(st \in {"ESTABLISHED", "FIN_WAIT_1", "FIN_WAIT_2"} /\ recvd = m.seq)
           /\ AckDelay(Ev("ACK", 0, 0)) /\ SetState(st)
           /\ UNCHANGED <<tx, app, recvd, dlv, ct>>
  /\ UNCHANGED <<mem, iss, appVars, apEv, tmEv, toPeer, toToe, p>>

RxRst ==
  /\ RxTransition("RST")
  /\ LET m == rxm.m
         matches == IF st = "SYN_SENT" THEN m.ack = rxm.not_ackd ELSE m.seq = recvd
     IN  IF matches
           THEN /\ SetState("CLOSED") /\ ClearRt(TRUE)
                /\ open' = IF st = "SYN_SENT" THEN "fail" ELSE open
           ELSE /\ SetState(st) /\ UNCHANGED <<rt, open>>
  /\ UNCHANGED <<recvd, tx, app, mem, iss, written, closes, dlv, evVars, ct, toPeer,
                 toToe, p>>

----------------------------------------------------------------------------
(* The peer, an ordinary TCP, and the network. *)

PeerSeq(i) == Add(PeerIsn, i)
PeerNext == PeerSeq(1 + p.n + (IF p.fin THEN 1 ELSE 0))

\* What the peer may send next: n counts the bytes it has sent.
PeerSend(m) ==
  /\ Cardinality(toToe) < InCap /\ MayMove
  /\ toToe' = toToe \cup {m}

Sent(q) == [q EXCEPT !.segs = @ + 1]

PeerOpen ==
  /\ p.st \in {"CLOSED", "SYN_SENT"}
  /\ PeerSend(Seg("SYN", PeerIsn, 0, 0, AnyWin))
  /\ p' = [Sent(p) EXCEPT !.st = "SYN_SENT"]

PeerSynAck ==
  /\ p.st = "SYN_RCVD"
  /\ PeerSend(Seg("SYN_ACK", PeerIsn, p.rnxt, 0, AnyWin))
  /\ p' = Sent(p)

PeerData ==
  /\ p.st = "ESTAB"
  /\ \E i \in p.una + 1 .. p.n + 1, w \in Windows :
       /\ i <= p.n \/ ~p.fin
       /\ PeerSend(Seg("ACK", PeerSeq(i), p.rnxt, i, w))
       /\ p' = [Sent(p) EXCEPT !.n = IF i > p.n THEN i ELSE @]

PeerAck ==
  /\ p.st = "ESTAB"
  /\ \E w \in Windows : PeerSend(Seg("ACK", PeerNext, p.rnxt, 0, w))
  /\ p' = Sent(p)

\* The FIN may carry the last byte.
PeerFin ==
  /\ p.st = "ESTAB"
  /\ \/ PeerSend(Seg("FIN", PeerSeq(1 + p.n), p.rnxt, 0, AnyWin))
     \/ /\ p.n > p.una /\ PeerSend(Seg("FIN", PeerSeq(p.n), p.rnxt, p.n, AnyWin))
  /\ p' = [Sent(p) EXCEPT !.fin = TRUE]

PeerReset ==
  /\ p.st = "ESTAB"
  /\ PeerSend(Seg("RST", PeerNext, p.rnxt, 0, AnyWin))
  /\ p' = [Sent(p) EXCEPT !.st = "RESET"]

PeerStep ==
  /\ PeerOpen \/ PeerSynAck \/ PeerData \/ PeerAck \/ PeerFin \/ PeerReset
  /\ UNCHANGED <<life, st, recvd, tx, app, mem, iss, appVars, dlv, rxm, evVars,
                 timeVars, toPeer>>

\* The peer's receive side.  q is the peer with the acknowledgement taken in.
PeerTake(m) ==
  LET synced == p.st \in {"SYN_RCVD", "ESTAB"} /\ m.f \in {"ACK", "FIN"}
      new == Dist(PeerSeq(1 + p.una), m.ack)
      q == [p EXCEPT !.st = IF @ = "SYN_RCVD" /\ m.ack = PeerSeq(1) THEN "ESTAB" ELSE @,
                     !.una = IF new <= p.n - @ THEN @ + new ELSE @]
  IN CASE m.f = "SYN" /\ p.st \in {"LISTEN", "SYN_SENT"} ->
            [p EXCEPT !.st = "SYN_RCVD", !.irs = m.seq, !.rnxt = Add(m.seq, 1)]
       [] m.f = "SYN_ACK" /\ p.st = "SYN_SENT" /\ m.ack = PeerSeq(1) ->
            [p EXCEPT !.st = "ESTAB", !.irs = m.seq, !.rnxt = Add(m.seq, 1)]
       [] m.f = "SYN_ACK" /\ p.st = "SYN_RCVD" /\ m.seq = p.irs /\ m.ack = PeerSeq(1) ->
            [p EXCEPT !.st = "ESTAB"]
       [] m.f = "RST" /\ p.st \in {"SYN_RCVD", "ESTAB"} /\ m.seq = p.rnxt ->
            [p EXCEPT !.st = "RESET"]
       [] synced /\ m.seq # p.rnxt -> IF p.st = "ESTAB" THEN q ELSE p
       [] synced /\ m.seq = p.rnxt /\ q.st = "ESTAB" /\ m.f = "ACK" ->
            IF m.data = 0 \/ q.gotFin THEN q
            ELSE [q EXCEPT !.got = Append(@, m.data), !.rnxt = Add(@, 1)]
       [] synced /\ m.seq = p.rnxt /\ q.st = "ESTAB" /\ m.f = "FIN" ->
            [q EXCEPT !.gotFin = TRUE, !.rnxt = Add(@, 1)]
       [] OTHER -> p

PeerRecv(m) ==
  /\ toPeer' = toPeer \ {m}
  /\ p' = PeerTake(m)
  /\ UNCHANGED <<life, st, recvd, tx, app, mem, iss, appVars, dlv, rxm, evVars,
                 timeVars, toToe>>

----------------------------------------------------------------------------
Application == AppOpen \/ AppSyn \/ AppWrite \/ AppClose
Timers      == AckTimeout \/ RtTimeout \/ CloseTimeout
TxEngine    == TxSyn("SYN") \/ TxSyn("SYN_ACK") \/ TxData \/ TxFin \/ TxRt \/ TxAck \/ TxRst
RxEngine    == RxAck \/ RxSyn \/ RxSynAck \/ RxFin \/ RxRst

Next ==
  \/ Application \/ EventEngine \/ Timers \/ TxEngine \/ RxEngine
  \/ \E m \in toToe : RxLoad(m) \/ RxDrop(m)
  \/ PeerStep
  \/ \E m \in toPeer : PeerRecv(m)

Spec == Init /\ [][Next]_vars

----------------------------------------------------------------------------
(* Properties. *)

\* Every table entry, event and segment is of its type: numbers stay in the
\* sequence space, counts of duplicates and retries in their bounds
\* (toe_internals.hpp, retransmit_timer).
TypeOK ==
  /\ life \in {"unused", "live", "released"} /\ st \in States /\ recvd \in Seq0
  /\ tx \in TxSar
  /\ app \in [ackd : 0 .. WinMod - 1, mempt : 0 .. WinMod - 1, min_window : Windows]
  /\ mem \in [0 .. WinMod - 1 -> 1 .. Junk]
  /\ iss \in Seq0 /\ open \in {"none", "lookup", "wait", "ok", "fail"}
  /\ written \in 0 .. MaxMoves /\ closes \in 0 .. MaxMoves
  /\ dlv \in Seq(1 .. MaxMoves)
  /\ rxm = None \/ rxm.m \in Segment
  /\ \A q \in {apEv, tmEv, txq} : q \in Seq(Event)
  /\ pend \in BOOLEAN /\ ct \in BOOLEAN
  /\ rt \in [active : BOOLEAN, retries : 0 .. MaxRetries,
             type : {"SYN", "SYN_ACK", "RT"}]
  /\ toPeer \subseteq Segment /\ toToe \subseteq Segment
  /\ p.st \in PeerStates

\* The application is handed the bytes the peer sent, each once and in order,
\* whatever the network loses, repeats or reorders (rxTcpFSM, case ACK and FIN).
DeliveredInOrder == dlv = [i \in 1 .. Len(dlv) |-> i]

\* The peer receives the bytes the application wrote, each once and in order.
StreamDelivered == p.got = [i \in 1 .. Len(p.got) |-> i] /\ Len(p.got) <= written

\* As long as no FIN was sent: fresh data comes from the application past the
\* memory and repeated data from the memory, and both are the byte their
\* sequence number stands for (metaLoader, cases TX and RT).
StreamBeforeFin == ~tx.finSent => StreamDelivered

\* A connection is established only with the peer that is there now: the peer
\* has taken the number the TX engine drew, and the engine counts the peer's
\* bytes from the number the peer drew, whatever SYN or SYN_ACK of an earlier
\* connection is still in the network (rxTcpFSM, cases SYN, SYN_ACK and ACK).
HandshakeAgreed ==
  st = "ESTABLISHED" =>
    p.irs = iss /\ p.st \in {"SYN_RCVD", "ESTAB", "RESET"}
      /\ recvd = Add(PeerIsn, 1 + Len(dlv))

TxEvents(q) == {i \in DOMAIN q : q[i].t = "TX"}

\* Every byte in flight is still where a retransmission will look for it: the
\* application's writes, admitted by a copy of the pointers, do not reach it.
\* The write pointer of the application's table and not_ackd, kept by two
\* processes, differ by the writes whose events are still on their way
\* ("supposed to be equal (with a few cycles delay)", tx_app_stream_if.cpp:78).
BufferKept ==
  st = "ESTABLISHED" =>
    /\ \A i \in 0 .. Dist(tx.ackd, tx.not_ackd) - 1 :
         mem[Ring(tx.ackd + i)] = Dist(iss, Add(tx.ackd, i))
    /\ Ring(app.mempt - tx.not_ackd) =
         Cardinality(TxEvents(apEv)) + Cardinality(TxEvents(txq))

\* An acknowledgement that was overtaken by a later one does not move ackd back.
AckForward ==
  [][st = "ESTABLISHED" /\ st' = "ESTABLISHED"
       => Dist(iss, tx.ackd) <= Dist(iss, tx'.ackd)]_vars
=============================================================================
