----------------------------- MODULE Toe_proofs -----------------------------
(***************************************************************************)
(* The TCP session, for every sequence space and buffer size, any number   *)
(* of writes, segments and retries, and any segments of an earlier         *)
(* connection that NumbersAssumption admits, as long as only one end opens *)
(* the connection.                                                         *)
(*                                                                         *)
(* The connection goes through phases.  While the peer waits to be called  *)
(* the session is in Look and Wait; while the peer calls, in Fresh and     *)
(* Hand.  It is in Conn once both ends have each other's numbers, and in   *)
(* Dead when a segment of an earlier connection took it.                   *)
(***************************************************************************)
EXTENDS Toe, FiniteSetTheorems, NaturalsInduction, TLAPS

RxLoaded == [f : {"ACK", "SYN", "SYN_ACK", "FIN", "RST"}, m : Segment, ackd : Seq0,
             not_ackd : Seq0, count : 0 .. FastDups, fastRt : BOOLEAN]
Peer == [st : PeerStates, listens : BOOLEAN, irs : Seq0, rnxt : Seq0, una : Nat,
         n : Nat, segs : Nat, fin : BOOLEAN, got : Seq(0 .. Junk), gotFin : BOOLEAN]

\* What an event carries that the TX engine puts into a segment.
GoodEvent == {e \in Event : /\ e.t = "TX" => e.arg \in 1 .. MaxMoves
                            /\ e.t = "RST" => e.arg \in Seq0
                            /\ e.t = "FIN" => e.cnt = 0}

FinNo(q) == IF q.fin THEN 1 ELSE 0

AppSar == [ackd : 0 .. WinMod - 1, mempt : 0 .. WinMod - 1, min_window : Windows]
RtTimer == [active : BOOLEAN, retries : 0 .. MaxRetries, type : {"SYN", "SYN_ACK", "RT"}]

PlainTypes ==
  /\ life \in {"unused", "live", "released"} /\ st \in States /\ recvd \in Seq0
  /\ iss \in Seq0 /\ open \in {"none", "lookup", "wait", "ok", "fail"}
  /\ written \in 0 .. MaxMoves /\ closes \in 0 .. MaxMoves
  /\ dlv \in Seq(1 .. MaxMoves)
FlagTypes == pend \in BOOLEAN /\ ct \in BOOLEAN
SarTypes == tx \in TxSar /\ app \in AppSar /\ app.ackd = Ring(tx.ackd)
MemTypes == mem \in [0 .. WinMod - 1 -> 1 .. Junk]
RxmTypes ==
  /\ rxm = None \/ (rxm \in RxLoaded /\ rxm.f = rxm.m.f /\ rxm.m.data <= MaxMoves)
  /\ life # "live" => rxm = None
EventTypes == apEv \in Seq(GoodEvent) /\ tmEv \in Seq(GoodEvent) /\ txq \in Seq(GoodEvent)
NetTypes ==
  /\ toPeer \subseteq Segment /\ toToe \subseteq Segment
  /\ \A m \in toToe : m.data <= MaxMoves
PeerTypes ==
  /\ p \in Peer
  /\ p.n + FinNo(p) <= p.segs /\ p.n + FinNo(p) <= MaxMoves /\ p.una <= p.n

\* The types the code relies on, of which TypeOK is the visible part.
Types ==
  /\ PlainTypes /\ FlagTypes /\ SarTypes /\ MemTypes /\ RxmTypes /\ EventTypes
  /\ rt \in RtTimer /\ NetTypes /\ PeerTypes

----------------------------------------------------------------------------
(* The phases. *)

Kinds(S) == {e \in GoodEvent : e.t \in S}
\* Events that do not make the TX engine draw a number.
NoDraw(S) == {e \in GoodEvent : e.t \in S /\ (e.t \in {"SYN", "SYN_ACK"} => e.cnt # 0)}

CallKinds == {"SYN", "SYN_ACK", "ACK", "ACK_NODELAY", "RST"}

\* Numbers the TX engine may hold before anything was written.
FirstNumbers == {0} \cup {Add(n, 1) : n \in Isns}

\* Nothing was written, sent or received yet.
Empty ==
  /\ dlv = <<>> /\ written = 0 /\ closes = 0 /\ p.n = 0 /\ ~p.fin /\ p.got = <<>>
  /\ ~p.gotFin /\ ~tx.finSent
  /\ \A m \in toPeer : m.data = 0 /\ m.f # "FIN"
  /\ rt.active => rt.type # "RT"

\* A segment for the engine while it has not heard from the peer q.
FirstSeg(m, q) ==
  \/ m \in OldSegs
  \/ ~q.listens /\ q.st = "SYN_SENT" /\ m.f = "SYN" /\ m.seq = PeerIsn
  \/ /\ m.f = "SYN_ACK" /\ m.seq = PeerIsn /\ m.ack = Add(q.irs, 1)
     /\ q.listens /\ q.st \in {"SYN_RCVD", "RESET"}

FirstSegs ==
  /\ recvd # PeerSeq(1)
  /\ \A m \in toPeer : m.f \in {"SYN_ACK", "ACK"} => m.ack # PeerSeq(1)
  /\ \A m \in toToe : FirstSeg(m, p)
  /\ rxm # None => FirstSeg(rxm.m, p)

\* A segment of an earlier connection that the engine could mistake for one of
\* this: there is at most one, and none once one was taken.
Stale(m) == m \in OldSegs /\ m.f \in {"SYN", "ACK"}
StaleOnce ==
  /\ \A a, b \in toToe : Stale(a) /\ Stale(b) => a = b
  /\ rxm # None /\ Stale(rxm.m) => \A a \in toToe : ~Stale(a)
  /\ st = "SYN_RECEIVED" => (rxm # None => ~Stale(rxm.m)) /\ \A a \in toToe : ~Stale(a)

FirstEvents ==
  /\ tmEv \in Seq(NoDraw({"SYN", "SYN_ACK"})) /\ txq \in Seq(Kinds(CallKinds))
  /\ apEv = <<>> \/ (apEv = <<Ev("SYN", 0, 0)>> /\ open \notin {"none", "lookup"})
  /\ tx.not_ackd \in FirstNumbers
  /\ rxm # None => rxm.not_ackd \in FirstNumbers

\* No SYN was sent, and none is with the TX engine.
NoSyn ==
  /\ tmEv \in Seq(NoDraw({"SYN_ACK"})) /\ (rt.active => rt.type # "SYN")
  /\ \A m \in toPeer : m.f # "SYN"
NoSynEvent == txq \in Seq(Kinds(CallKinds \ {"SYN"}))

\* Only one end opens the connection.
OneOpens ==
  /\ st \in {"CLOSED", "SYN_SENT", "SYN_RECEIVED"}
  /\ p.listens => /\ p.st \in {"LISTEN", "SYN_RCVD", "RESET"}
                  /\ p.st # "LISTEN" => p.rnxt = Add(p.irs, 1)
  /\ ~p.listens => /\ p.st \in {"CLOSED", "SYN_SENT"} /\ st # "SYN_SENT"
                   /\ open # "lookup" /\ apEv = <<>> /\ NoSyn /\ NoSynEvent

\* The engine has not heard from the peer.
Unheard == Empty /\ FirstSegs /\ StaleOnce /\ FirstEvents /\ OneOpens

\* The peer calls, and nothing of it was seen.
Fresh ==
  /\ Unheard /\ ~p.listens
  /\ st = "CLOSED" /\ life # "released" /\ tx.ackd = 0 /\ tx.not_ackd = 0
  /\ apEv = <<>> /\ tmEv = <<>> /\ txq = <<>> /\ ~rt.active /\ ~pend /\ toPeer = {}
  /\ rxm # None => rxm.ackd = 0 /\ rxm.not_ackd = 0

\* The application has not called yet.
Idle ==
  /\ life = "unused" /\ st = "CLOSED" /\ apEv = <<>> /\ tmEv = <<>> /\ txq = <<>>
  /\ ~pend /\ ~rt.active /\ ~ct /\ toPeer = {}
Look ==
  /\ Unheard /\ p.listens /\ NoSyn /\ NoSynEvent /\ p.st = "LISTEN"
  /\ st \in {"CLOSED", "SYN_RECEIVED"}
  /\ (open = "none" /\ Idle) \/ (open = "lookup" /\ life # "unused")

\* The application's SYN is with the event engine, with the TX engine, or sent.
SynAtEvents == apEv = <<Ev("SYN", 0, 0)>> /\ NoSyn /\ NoSynEvent /\ p.st = "LISTEN"
SynAtTx ==
  /\ apEv = <<>> /\ NoSyn /\ p.st = "LISTEN"
  /\ txq # <<>> /\ Head(txq) = Ev("SYN", 0, 0) /\ Tail(txq) \in Seq(NoDraw(CallKinds))
SynSent ==
  /\ apEv = <<>> /\ txq \in Seq(NoDraw(CallKinds))
  /\ iss \in Isns /\ tx.ackd = iss /\ tx.not_ackd = Add(iss, 1) /\ app.mempt = Ring(iss + 1)
  /\ \A m \in toPeer : m.f = "SYN" => m.seq = iss
  /\ p.st = "LISTEN" \/ p.irs = iss
Wait ==
  /\ Unheard /\ p.listens /\ open \notin {"none", "lookup"} /\ st = "SYN_SENT"
  /\ life # "unused"
  /\ SynAtEvents \/ SynAtTx \/ SynSent

\* A segment of an earlier connection, or a timeout, came first.
Dead ==
  /\ Unheard
  /\ p.listens => open \notin {"none", "lookup"}
  /\ \/ st = "SYN_RECEIVED" /\ life # "unused"
     \/ st = "CLOSED" /\ life = "released"

\* The peer has called and does not know the engine's number yet.
AnswerAtTx ==
  /\ txq # <<>> /\ Head(txq) = Ev("SYN_ACK", 0, 0)
  /\ Tail(txq) \in Seq(NoDraw(CallKinds \ {"SYN"}))
  /\ tx.ackd = 0 /\ tx.not_ackd = 0
  /\ \A m \in toPeer : m.f # "SYN_ACK"
AnswerSent ==
  /\ txq \in Seq(NoDraw(CallKinds \ {"SYN"}))
  /\ iss \in Isns /\ tx.ackd = iss /\ tx.not_ackd = Add(iss, 1) /\ app.mempt = Ring(iss + 1)
  /\ \A m \in toPeer : m.f = "SYN_ACK" => m.seq = iss
Hand ==
  /\ Empty /\ NoSyn /\ apEv = <<>>
  /\ ~p.listens /\ p.st = "SYN_SENT" /\ recvd = PeerSeq(1) /\ open # "lookup"
  /\ \/ st = "SYN_RECEIVED" /\ life # "unused"
     \/ st = "CLOSED" /\ life = "released"
  /\ \A m \in toToe : m.f \in {"ACK", "FIN"} => m \in OldSegs
  /\ rxm # None /\ rxm.f \in {"ACK", "FIN"} =>
       rxm.m \in OldSegs /\ ~AckInRange(rxm.ackd, rxm.m.ack, rxm.not_ackd)
  /\ AnswerAtTx \/ AnswerSent

\* What the peer sends once it is connected.
FromPeer(m, n, fin) ==
  /\ m.f = "ACK" /\ m.data # 0 => m.data <= n /\ m.seq = PeerSeq(m.data)
  /\ m.f = "FIN" => fin /\ IF m.data = 0 THEN m.seq = PeerSeq(1 + n)
                                         ELSE m.data = n /\ m.seq = PeerSeq(n)

\* The receiving side.
Received ==
  /\ dlv = [i \in 1 .. Len(dlv) |-> i] /\ Len(dlv) <= p.n
  /\ \/ recvd = PeerSeq(1 + Len(dlv))
     \/ /\ recvd = PeerSeq(2 + p.n) /\ p.fin /\ Len(dlv) = p.n
        /\ st \notin {"SYN_RECEIVED", "ESTABLISHED"}
  /\ \A m \in toToe : m \in OldSegs \/ FromPeer(m, p.n, p.fin)
  /\ rxm # None => rxm.m \in OldSegs \/ FromPeer(rxm.m, p.n, p.fin)

\* How far the acknowledgements, the TX engine and the peer have come.
Ackd == Dist(iss, tx.ackd)
Sentd == Dist(iss, tx.not_ackd)
Taken == Dist(iss, p.rnxt)

\* The TX event the TX engine has, and the first byte of those behind it.
HasTx(q) == q # <<>> /\ Head(q).t = "TX"
FirstBehind(q, n) == n + (IF HasTx(q) THEN 1 ELSE 0)
Behind == FirstBehind(txq, Sentd)

\* Every write whose segment was not sent has its event, in order.
InQueue(tq, aq, n, w) ==
  LET b == FirstBehind(tq, n) IN
  /\ \A i \in TxEvents(tq) : i = 1 /\ tq[i].arg = n
  /\ \A i \in TxEvents(aq) : aq[i].arg \in b .. w
  /\ \A i, j \in TxEvents(aq) : i < j => aq[i].arg < aq[j].arg
  /\ \A v \in b .. w : \E i \in TxEvents(aq) : aq[i].arg = v
  /\ b <= w + 1
Queued == InQueue(txq, apEv, Sentd, written)

\* A segment the peer can take holds the byte its number stands for.
OutSeg(m, i, r, n) ==
  /\ m.f # "FIN"
  /\ m.f = "ACK" /\ m.data # 0 =>
       Dist(i, m.seq) < r \/ (Dist(i, m.seq) < n /\ m.data = Dist(i, m.seq))

AckOk(m, i, r) == m.f \in {"ACK", "FIN"} => Dist(i, m.ack) \in 1 .. r

\* The loaded copies: ackd cannot have changed, not_ackd may have.
Loaded ==
  rxm # None /\ rxm.f \in {"ACK", "FIN"} =>
    \/ rxm.m \in OldSegs /\ ~AckInRange(rxm.ackd, rxm.m.ack, rxm.not_ackd)
    \/ /\ rxm.m \notin OldSegs /\ AckOk(rxm.m, iss, Taken)
       /\ rxm.ackd = tx.ackd
       /\ Ackd <= Dist(iss, rxm.not_ackd) /\ Dist(iss, rxm.not_ackd) <= Sentd

\* Writes are in memory where the TX engine looks for them.
InMemory == \A j \in 1 .. written : j > written - WinMod => mem[Ring(iss + j)] = j

\* The sending side, as long as no FIN was sent.
Sending ==
  /\ Ackd <= Taken /\ Taken <= Sentd /\ 1 <= Taken /\ Behind <= written + 1
  /\ p.got = [i \in 1 .. Taken - 1 |-> i] /\ ~p.gotFin
  /\ app.mempt = Ring(iss + 1 + written)
  /\ \A m \in toPeer : OutSeg(m, iss, Taken, Sentd)
  /\ \A m \in toToe : m \in OldSegs \/ AckOk(m, iss, Taken)
  /\ Loaded /\ Queued /\ InMemory
  /\ written + 1 - Taken < WinMod
  /\ st \in {"SYN_RECEIVED", "ESTABLISHED"} => written + 1 - Ackd < WinMod
  /\ st = "ESTABLISHED" => Ackd >= 1
  /\ st = "SYN_RECEIVED" => written = 0

\* Both ends have each other's numbers.
Session ==
  /\ p.irs = iss /\ iss \in Isns /\ p.st \in {"SYN_RCVD", "ESTAB", "RESET"}
  /\ life # "unused" /\ open # "lookup" /\ (p.listens => open # "none")
  /\ st # "SYN_SENT" /\ (st = "CLOSED" => life = "released")

\* No number is drawn again, and no FIN precedes the end of ESTABLISHED.
Pending ==
  /\ apEv \in Seq(Kinds({"TX", "FIN"}))
  /\ tmEv \in Seq(NoDraw({"SYN", "SYN_ACK", "RT"}))
  /\ txq \in Seq(NoDraw(CallKinds \cup {"TX", "RT", "FIN"}))
  /\ st \in {"SYN_RECEIVED", "ESTABLISHED"} =>
       /\ ~tx.finSent
       /\ apEv \in Seq(Kinds({"TX"})) /\ txq \in Seq(Kinds(CallKinds \cup {"TX", "RT"}))

Conn == Session /\ Pending /\ Received /\ (~tx.finSent => Sending)

Phase == Fresh \/ Look \/ Wait \/ Dead \/ Hand \/ Conn
Inv == Types /\ Phase

----------------------------------------------------------------------------
(* Sequence numbers and buffer pointers. *)

LEMMA Space ==
  /\ SeqSpace \in Nat /\ SeqSpace > 0 /\ MaxMoves \in Nat /\ MaxMoves + 1 < SeqSpace
  /\ WinMod \in Nat /\ WinMod > 1
  /\ PeerIsn \in Seq0 /\ \A n \in Isns : n \in Seq0
BY ToeAssumption, NumbersAssumption DEF Seq0

LEMMA SeqInt == \A s \in Seq0 : s \in Nat /\ s \in Int /\ s < SeqSpace
BY Space DEF Seq0

\* The remainder of a number that is at most once round.
LEMMA OnceRound ==
  ASSUME NEW m \in Nat, m > 0, NEW a \in Int, -m <= a, a < 2 * m
  PROVE  a % m = IF a < 0 THEN a + m ELSE IF a < m THEN a ELSE a - m
<1>1. CASE a < 0
  BY <1>1
<1>2. CASE a >= 0 /\ a < m
  BY <1>2
<1>3. CASE a >= m
  BY <1>3
<1> QED
  BY <1>1, <1>2, <1>3

LEMMA AddIn ==
  ASSUME NEW a \in Int, NEW b \in Int
  PROVE  Add(a, b) \in Seq0
BY Space DEF Add, Seq0

LEMMA AddSeq ==
  ASSUME NEW a \in Seq0, NEW b \in Int
  PROVE  Add(a, b) \in Seq0
<1>1. a \in Int
  BY SeqInt
<1> QED
  BY <1>1, AddIn

LEMMA DistIs ==
  ASSUME NEW a \in Seq0, NEW b \in Seq0
  PROVE  /\ Dist(a, b) = IF b < a THEN b - a + SeqSpace ELSE b - a
         /\ Dist(a, b) \in Nat /\ Dist(a, b) < SeqSpace
<1> DEFINE c == b - a
<1>1. c \in Int /\ -SeqSpace <= c /\ c < 2 * SeqSpace /\ c < SeqSpace
  BY Space DEF Seq0
<1>2. Dist(a, b) = c % SeqSpace
  BY DEF Dist
<1> HIDE DEF c
<1>3. Dist(a, b) = IF c < 0 THEN c + SeqSpace ELSE c
  BY <1>1, <1>2, OnceRound, Space
<1> QED
  BY <1>1, <1>3, Space DEF c, Seq0

LEMMA AddIs ==
  ASSUME NEW a \in Seq0, NEW k \in Nat, k < SeqSpace
  PROVE  /\ Add(a, k) = IF a + k < SeqSpace THEN a + k ELSE a + k - SeqSpace
         /\ Add(a, k) \in Seq0
<1> DEFINE c == a + k
<1>1. c \in Int /\ -SeqSpace <= c /\ c < 2 * SeqSpace /\ c >= 0
  BY Space DEF Seq0
<1>2. Add(a, k) = c % SeqSpace
  BY DEF Add
<1> HIDE DEF c
<1>3. Add(a, k) = IF c < SeqSpace THEN c ELSE c - SeqSpace
  BY <1>1, <1>2, OnceRound, Space
<1> QED
  BY <1>1, <1>3, Space DEF c, Seq0

\* Going on by k, without coming round.
LEMMA DistAdd ==
  ASSUME NEW a \in Seq0, NEW b \in Seq0, NEW k \in Nat, Dist(a, b) + k < SeqSpace
  PROVE  Add(b, k) \in Seq0 /\ Dist(a, Add(b, k)) = Dist(a, b) + k
<1>1. k < SeqSpace /\ Dist(a, b) \in Nat
  BY DistIs, Space
<1>2. Add(b, k) \in Seq0 /\ Add(b, k) = IF b + k < SeqSpace THEN b + k ELSE b + k - SeqSpace
  BY <1>1, AddIs
<1>3. Dist(a, Add(b, k)) = IF Add(b, k) < a THEN Add(b, k) - a + SeqSpace ELSE Add(b, k) - a
  BY <1>2, DistIs
<1>4. Dist(a, b) = IF b < a THEN b - a + SeqSpace ELSE b - a
  BY DistIs
<1> QED
  BY <1>1, <1>2, <1>3, <1>4, Space DEF Seq0

LEMMA DistSelf ==
  ASSUME NEW a \in Seq0
  PROVE  Dist(a, a) = 0
BY DistIs DEF Seq0

LEMMA SameDist ==
  ASSUME NEW a \in Seq0, NEW b \in Seq0, NEW c \in Seq0, Dist(a, b) = Dist(a, c)
  PROVE  b = c
<1>1. a \in Nat /\ a < SeqSpace /\ b \in Nat /\ b < SeqSpace /\ c \in Nat /\ c < SeqSpace
  BY Space DEF Seq0
<1>2. Dist(a, b) = IF b < a THEN b - a + SeqSpace ELSE b - a
  BY DistIs
<1>3. Dist(a, c) = IF c < a THEN c - a + SeqSpace ELSE c - a
  BY DistIs
<1>4. (IF b < a THEN b - a + SeqSpace ELSE b - a) = (IF c < a THEN c - a + SeqSpace ELSE c - a)
  BY <1>2, <1>3
<1>5. SeqSpace \in Nat
  BY Space
<1> HIDE DEF Dist
<1> QED
  BY ONLY <1>1, <1>4, <1>5

\* The number after the first.
LEMMA DistOne ==
  ASSUME NEW a \in Seq0
  PROVE  Add(a, 1) \in Seq0 /\ Dist(a, Add(a, 1)) = 1
BY DistSelf, DistAdd, Space

LEMMA PeerSeqIs ==
  ASSUME NEW k \in Nat, k < SeqSpace
  PROVE  PeerSeq(k) \in Seq0 /\ Dist(PeerIsn, PeerSeq(k)) = k
BY DistSelf, DistAdd, Space DEF PeerSeq

LEMMA PeerSeqSame ==
  ASSUME NEW j \in Nat, NEW k \in Nat, j < SeqSpace, k < SeqSpace, PeerSeq(j) = PeerSeq(k)
  PROVE  j = k
BY PeerSeqIs

LEMMA PeerSeqOn ==
  ASSUME NEW j \in Nat, NEW k \in Nat, j + k < SeqSpace
  PROVE  Add(PeerSeq(j), k) = PeerSeq(j + k)
<1>1. j < SeqSpace /\ j + k \in Nat
  BY Space
<1>2. PeerSeq(j) \in Seq0 /\ Dist(PeerIsn, PeerSeq(j)) = j /\ PeerSeq(j + k) \in Seq0
      /\ Dist(PeerIsn, PeerSeq(j + k)) = j + k
  BY <1>1, PeerSeqIs
<1>3. Add(PeerSeq(j), k) \in Seq0 /\ Dist(PeerIsn, Add(PeerSeq(j), k)) = j + k
  BY <1>2, DistAdd, Space
<1> QED
  BY <1>2, <1>3, SameDist, Space

\* The remainder is the one number in range.
LEMMA Remainder ==
  ASSUME NEW m \in Nat, m > 0, NEW a \in Int, NEW d \in Int, NEW r \in 0 .. m - 1,
         a = m * d + r
  PROVE  a % m = r
OBVIOUS

LEMMA RingIn ==
  ASSUME NEW x \in Int
  PROVE  Ring(x) \in 0 .. WinMod - 1 /\ Ring(x) \in Int
BY Space DEF Ring

LEMMA RingForm ==
  ASSUME NEW x \in Int
  PROVE  \E d \in Int : x = WinMod * d + Ring(x)
<1>1. x \div WinMod \in Int /\ x = WinMod * (x \div WinMod) + (x % WinMod)
  BY Space
<1> QED
  BY <1>1 DEF Ring

LEMMA RingIs ==
  ASSUME NEW x \in Int, NEW d \in Int, NEW r \in 0 .. WinMod - 1, x = WinMod * d + r
  PROVE  Ring(x) = r
BY Remainder, Space DEF Ring

LEMMA RingSmall ==
  ASSUME NEW x \in 0 .. WinMod - 1
  PROVE  Ring(x) = x
BY Space DEF Ring

\* A pointer and a number that differ by rounds of the buffer.
LEMMA RingRing ==
  ASSUME NEW x \in Int, NEW y \in Int
  PROVE  Ring(Ring(x) + y) = Ring(x + y) /\ Ring(y - Ring(x)) = Ring(y - x)
<1>1. PICK d \in Int : x = WinMod * d + Ring(x)
  BY RingForm
<1>2. Ring(x) \in Int
  BY RingIn
<1>3. Ring(Ring(x) + y) = Ring(x + y)
  <2>1. PICK e \in Int : Ring(x) + y = WinMod * e + Ring(Ring(x) + y)
    BY <1>2, RingForm
  <2> DEFINE s == Ring(Ring(x) + y)
             r == Ring(x)
  <2>a. s \in Int /\ r \in Int /\ x = WinMod * d + r /\ r + y = WinMod * e + s
    BY <1>1, <1>2, <2>1, RingIn
  <2> HIDE DEF s, r
  <2>b. WinMod * (d + e) = WinMod * d + WinMod * e
    BY Space
  <2>c. x + y = WinMod * (d + e) + s
    BY <2>a, <2>b, Space
  <2>2. x + y = WinMod * (d + e) + Ring(Ring(x) + y)
    BY <2>c DEF s
  <2> QED
    BY <1>2, <2>2, RingIs, RingIn
<1>4. Ring(y - Ring(x)) = Ring(y - x)
  <2>1. PICK e \in Int : y - Ring(x) = WinMod * e + Ring(y - Ring(x))
    BY <1>2, RingForm
  <2> DEFINE s == Ring(y - Ring(x))
             r == Ring(x)
  <2>a. s \in Int /\ r \in Int /\ x = WinMod * d + r /\ y - r = WinMod * e + s
    BY <1>1, <1>2, <2>1, RingIn
  <2> HIDE DEF s, r
  <2>b. WinMod * (e - d) = WinMod * e - WinMod * d
    BY Space
  <2>c. y - x = WinMod * (e - d) + s
    BY <2>a, <2>b, Space
  <2>2. y - x = WinMod * (e - d) + Ring(y - Ring(x))
    BY <2>c DEF s
  <2> QED
    BY <1>2, <2>2, RingIs, RingIn
<1> QED
  BY <1>3, <1>4

\* The sequence space is a number of rounds.
LEMMA RingSpace ==
  ASSUME NEW x \in Int
  PROVE  Ring(x - SeqSpace) = Ring(x) /\ Ring(x + SeqSpace) = Ring(x)
<1>1. Ring(SeqSpace) = 0
  BY ToeAssumption DEF Ring
<1>2. Ring(x - Ring(SeqSpace)) = Ring(x - SeqSpace)
  BY RingRing, Space
<1>3. Ring(Ring(SeqSpace) + x) = Ring(SeqSpace + x)
  BY RingRing, Space
<1>4. SeqSpace + x = x + SeqSpace /\ x - 0 = x /\ 0 + x = x
  BY Space
<1> QED
  BY <1>1, <1>2, <1>3, <1>4

----------------------------------------------------------------------------
(* Queues, events and segments. *)

LEMMA Appended ==
  ASSUME NEW S, NEW q \in Seq(S), NEW e \in S
  PROVE  /\ Append(q, e) \in Seq(S) /\ Len(Append(q, e)) = Len(q) + 1
         /\ Append(q, e) # <<>>
         /\ \A i \in 1 .. Len(q) : Append(q, e)[i] = q[i]
         /\ Append(q, e)[Len(q) + 1] = e
OBVIOUS

LEMMA Tailed ==
  ASSUME NEW S, NEW q \in Seq(S), q # <<>>
  PROVE  /\ Tail(q) \in Seq(S) /\ Head(q) \in S /\ Head(q) = q[1]
         /\ Len(q) \in Nat /\ Len(q) >= 1 /\ Len(Tail(q)) = Len(q) - 1
         /\ \A i \in 1 .. Len(q) - 1 : Tail(q)[i] = q[i + 1]
OBVIOUS

\* A sequence of events of some kinds is one of more kinds.
LEMMA Widened ==
  ASSUME NEW S, NEW T, S \subseteq T, NEW q \in Seq(S)
  PROVE  q \in Seq(T)
OBVIOUS

LEMMA EventIs ==
  ASSUME NEW t \in {"SYN", "SYN_ACK", "TX", "RT", "ACK", "ACK_NODELAY", "FIN", "RST"},
         NEW c \in 0 .. MaxRetries, NEW a \in Nat,
         t = "TX" => a \in 1 .. MaxMoves, t = "RST" => a \in Seq0, t = "FIN" => c = 0
  PROVE  Ev(t, c, a) \in GoodEvent /\ Ev(t, c, a).t = t /\ Ev(t, c, a).cnt = c
         /\ Ev(t, c, a).arg = a
BY DEF Ev, GoodEvent, Event

LEMMA EventFields ==
  ASSUME NEW e \in GoodEvent
  PROVE  /\ e.t \in {"SYN", "SYN_ACK", "TX", "RT", "ACK", "ACK_NODELAY", "FIN", "RST"}
         /\ e.cnt \in 0 .. MaxRetries /\ e.arg \in Nat
         /\ e.t = "TX" => e.arg \in 1 .. MaxMoves
         /\ e.t = "RST" => e.arg \in Seq0
         /\ e.t = "FIN" => e.cnt = 0
BY DEF GoodEvent, Event

\* An event that ack_delay lets through is at the end of the queue.
LEMMA Delayed ==
  ASSUME NEW S, NEW ev \in S, txq \in Seq(S), AckDelay(ev)
  PROVE  txq' \in Seq(S) /\ pend' \in BOOLEAN
<1>1. Append(txq, ev) \in Seq(S)
  BY Appended
<1>2. CASE ev.t = "ACK" /\ ~pend
  BY <1>2 DEF AckDelay
<1>3. CASE ~(ev.t = "ACK" /\ ~pend)
  BY <1>1, <1>3 DEF AckDelay
<1> QED
  BY <1>2, <1>3

LEMMA DelayedCases ==
  ASSUME NEW ev, AckDelay(ev)
  PROVE  txq' = txq \/ txq' = Append(txq, ev)
BY DEF AckDelay

LEMMA DelayedNot ==
  ASSUME NEW ev, AckDelay(ev), ev.t # "ACK"
  PROVE  txq' = Append(txq, ev)
BY DEF AckDelay

LEMMA SegIs ==
  ASSUME NEW f \in {"ACK", "SYN", "SYN_ACK", "FIN", "RST"}, NEW s \in Seq0, NEW a \in Seq0,
         NEW d \in 0 .. Junk, NEW w \in Windows
  PROVE  /\ Seg(f, s, a, d, w) \in Segment
         /\ Seg(f, s, a, d, w).f = f /\ Seg(f, s, a, d, w).seq = s
         /\ Seg(f, s, a, d, w).ack = a /\ Seg(f, s, a, d, w).data = d
         /\ Seg(f, s, a, d, w).win = w
BY DEF Seg, Segment

LEMMA SegFields ==
  ASSUME NEW m \in Segment
  PROVE  /\ m.f \in {"ACK", "SYN", "SYN_ACK", "FIN", "RST"} /\ m.seq \in Seq0
         /\ m.ack \in Seq0 /\ m.data \in 0 .. Junk /\ m.win \in Windows
BY DEF Segment

LEMMA LeastNat ==
  ASSUME NEW A, A \subseteq Nat, A # {}
  PROVE  \E x \in A : \A y \in A : x <= y
<1>1. \E x \in A : \A y \in A : <<y, x>> \notin OpToRel(<, Nat)
  BY NatLessThanWellFounded, WFMin
<1>2. \A x, y \in Nat : y < x => <<y, x>> \in OpToRel(<, Nat)
  BY DEF OpToRel
<1>3. \A x, y \in Nat : y < x \/ x <= y
  OBVIOUS
<1> QED
  BY <1>1, <1>2, <1>3

LEMMA WindowMax == AnyWin \in Windows
<1>1. Windows # {} /\ Windows \subseteq 0 .. WinMod - 1 /\ WinMod \in Nat
  BY ToeAssumption
<1> DEFINE B == {k \in Nat : \A y \in Windows : y <= k}
<1>2. WinMod \in B
  BY <1>1
<1>3. PICK k \in B : \A j \in B : k <= j
  BY <1>2, LeastNat
<1>4. k \in Windows
  <2> SUFFICES ASSUME k \notin Windows PROVE FALSE
    OBVIOUS
  <2>1. \A y \in Windows : y \in Nat /\ y <= k - 1
    <3> TAKE y \in Windows
    <3>1. y \in Nat /\ y <= k /\ k \in Nat /\ y # k
      BY <1>1
    <3> QED
      BY <3>1
  <2>2. k > 0
    <3>1. PICK y : y \in Windows
      BY <1>1
    <3>2. y \in Nat /\ y <= k - 1 /\ k \in Nat
      BY <2>1, <3>1
    <3> QED
      BY <3>2
  <2>3. k - 1 \in B
    BY <2>1, <2>2
  <2> QED
    BY <1>3, <2>3
<1>5. \E x \in Windows : \A y \in Windows : x >= y
  BY <1>1, <1>4
<1> QED
  BY <1>5 DEF AnyWin, Max

LEMMA Zero == 0 \in Seq0 /\ 0 \in 0 .. Junk /\ 0 \in 0 .. MaxRetries /\ Junk \in Nat
BY ToeAssumption, Space DEF Seq0, Junk

\* What was sent is in the network or lost.
LEMMA Kept ==
  ASSUME NEW X, Send(X)
  PROVE  toPeer \subseteq toPeer' /\ \A m \in toPeer' : m \in toPeer \/ m \in X
BY DEF Send

----------------------------------------------------------------------------
(* Types. *)

LEMMA Constants ==
  /\ MaxRetries \in Nat /\ MaxRetries > 0 /\ FastDups \in Nat /\ FastDups > 0 /\ RtBurst \in Nat /\ RtBurst > 0
  /\ OldSegs \subseteq Segment /\ \A m \in OldSegs : m.data <= MaxMoves
<1>1. \A m \in OldSegs : m.data \in 0 .. MaxMoves + 1 /\ m.data # MaxMoves + 1
  BY ToeAssumption, NumbersAssumption, SegFields DEF Junk
<1> QED
  BY <1>1, ToeAssumption, Space

\* The fields of the records.
LEMMA Fields ==
  ASSUME Types
  PROVE  /\ tx.ackd \in Seq0 /\ tx.not_ackd \in Seq0 /\ tx.count \in 0 .. FastDups
         /\ tx.fastRt \in BOOLEAN /\ tx.finSent \in BOOLEAN
         /\ app.ackd \in 0 .. WinMod - 1 /\ app.mempt \in 0 .. WinMod - 1
         /\ app.min_window \in Windows /\ app.ackd = Ring(tx.ackd)
         /\ rt.active \in BOOLEAN /\ rt.retries \in 0 .. MaxRetries
         /\ rt.type \in {"SYN", "SYN_ACK", "RT"}
BY DEF Types, SarTypes, TxSar, AppSar, RtTimer

LEMMA PeerFields ==
  ASSUME Types
  PROVE  /\ p.st \in PeerStates /\ p.listens \in BOOLEAN /\ p.irs \in Seq0 /\ p.rnxt \in Seq0
         /\ p.una \in Nat /\ p.n \in Nat /\ p.segs \in Nat /\ p.fin \in BOOLEAN
         /\ p.got \in Seq(0 .. Junk) /\ p.gotFin \in BOOLEAN
         /\ p.n <= MaxMoves /\ (p.fin => p.n + 1 <= MaxMoves)
<1>1. p \in Peer /\ p.n + FinNo(p) <= MaxMoves
  BY DEF Types, PeerTypes
<1>2. /\ p.st \in PeerStates /\ p.listens \in BOOLEAN /\ p.irs \in Seq0 /\ p.rnxt \in Seq0
      /\ p.una \in Nat /\ p.n \in Nat /\ p.segs \in Nat /\ p.fin \in BOOLEAN
      /\ p.got \in Seq(0 .. Junk) /\ p.gotFin \in BOOLEAN
  BY <1>1 DEF Peer
<1> QED
  BY <1>1, <1>2, Space DEF FinNo

LEMMA RxmFields ==
  ASSUME Types, rxm # None
  PROVE  /\ life = "live" /\ rxm.m \in Segment /\ rxm.f = rxm.m.f /\ rxm.m.data <= MaxMoves
         /\ rxm.ackd \in Seq0 /\ rxm.not_ackd \in Seq0 /\ rxm.count \in 0 .. FastDups
         /\ rxm.fastRt \in BOOLEAN
         /\ rxm.m.seq \in Seq0 /\ rxm.m.ack \in Seq0 /\ rxm.m.data \in 0 .. Junk
         /\ rxm.m.win \in Windows /\ rxm.m.data \in 0 .. MaxMoves
<1>1. rxm \in RxLoaded /\ rxm.f = rxm.m.f /\ rxm.m.data <= MaxMoves /\ life = "live"
  BY DEF Types, RxmTypes
<1>2. rxm.m \in Segment /\ rxm.ackd \in Seq0 /\ rxm.not_ackd \in Seq0
      /\ rxm.count \in 0 .. FastDups /\ rxm.fastRt \in BOOLEAN
  BY <1>1 DEF RxLoaded
<1>3. rxm.m.seq \in Seq0 /\ rxm.m.ack \in Seq0 /\ rxm.m.data \in 0 .. Junk
      /\ rxm.m.win \in Windows
  BY <1>2, SegFields
<1>4. rxm.m.data \in 0 .. MaxMoves
  BY <1>1, <1>3, Space DEF Junk
<1> QED
  BY <1>1, <1>2, <1>3, <1>4

LEMMA InitTypes == Init => Types
<1> SUFFICES ASSUME Init PROVE Types
  OBVIOUS
<1>1. PlainTypes
  <2>1. MaxMoves \in Nat /\ 0 \in Seq0 /\ <<>> \in Seq(1 .. MaxMoves)
    BY Space, Zero
  <2>2. /\ life = "unused" /\ st = "CLOSED" /\ recvd = 0 /\ iss = 0 /\ open = "none"
        /\ written = 0 /\ closes = 0 /\ dlv = <<>>
    BY DEF Init
  <2>3. "CLOSED" \in States
    BY DEF States
  <2> QED
    BY <2>1, <2>2, <2>3 DEF PlainTypes
<1>2. Ring(0) = 0 /\ WinMod - 1 \in Nat
  BY RingSmall, Space
<1>3. SarTypes
  <2>1. tx \in TxSar
    BY Zero, Constants DEF Init, TxSar
  <2>2. app \in AppSar
    BY <1>2, WindowMax DEF Init, AppSar
  <2> QED
    BY <1>2, <2>1, <2>2 DEF Init, SarTypes
<1>4. MemTypes
  BY Space DEF Init, MemTypes, Junk
<1>5. RxmTypes /\ EventTypes
  BY DEF Init, RxmTypes, EventTypes
<1>9. FlagTypes
  BY Zenon DEF Init, FlagTypes
<1>6. rt \in RtTimer
  BY Constants DEF Init, RtTimer
<1>7. NetTypes
  BY Constants DEF Init, NetTypes
<1>8. PeerTypes
  <2>1. toToe = {} \/ \E m : toToe = {m}
    BY DEF Init
  <2>2. Cardinality(toToe) \in Nat
    <3>1. CASE toToe = {}
      BY <3>1, FS_EmptySet
    <3>2. ASSUME NEW m, toToe = {m} PROVE Cardinality(toToe) \in Nat
      <4>1. Cardinality({m}) = 1
        BY FS_Singleton
      <4> QED
        BY <3>2, <4>1
    <3> QED
      BY <2>1, <3>1, <3>2
  <2>3. p \in Peer
    <3> DEFINE Got == Seq(0 .. Junk)
    <3>1. <<>> \in Got
      OBVIOUS
    <3> HIDE DEF Got
    <3>2. PICK l \in BOOLEAN :
            p = [st |-> IF l THEN "LISTEN" ELSE "CLOSED", listens |-> l,
                 irs |-> 0, rnxt |-> 0, una |-> 0, n |-> 0,
                 segs |-> Cardinality(toToe), fin |-> FALSE, got |-> <<>>, gotFin |-> FALSE]
      BY DEF Init
    <3>3. p \in [st : PeerStates, listens : BOOLEAN, irs : Seq0, rnxt : Seq0, una : Nat,
                 n : Nat, segs : Nat, fin : BOOLEAN, got : Got, gotFin : BOOLEAN]
      BY <3>1, <3>2, <2>2, Zero DEF PeerStates
    <3> QED
      BY <3>3 DEF Peer, Got
  <2>4. p.n = 0 /\ p.una = 0 /\ ~p.fin /\ p.segs = Cardinality(toToe)
    BY DEF Init
  <2> QED
    BY <2>2, <2>3, <2>4, Space DEF PeerTypes, FinNo
<1> QED
  BY <1>1, <1>3, <1>4, <1>5, <1>6, <1>7, <1>8, <1>9 DEF Types

(* A step keeps the types. *)

LEMMA TypesAppOpen ==
  ASSUME Types, AppOpen
  PROVE  Types'
<1>1. FlagTypes' /\ SarTypes' /\ MemTypes' /\ EventTypes' /\ (rt \in RtTimer)' /\ NetTypes' /\ PeerTypes'
  BY DEF Types, FlagTypes, SarTypes, MemTypes, EventTypes, NetTypes, PeerTypes, AppOpen, timeVars, evVars
<1>2. PlainTypes'
  BY DEF Types, PlainTypes, AppOpen
<1>3. RxmTypes'
  BY DEF Types, RxmTypes, AppOpen
<1> QED
  BY <1>1, <1>2, <1>3 DEF Types

LEMMA TypesAppSyn ==
  ASSUME Types, AppSyn
  PROVE  Types'
<1>1. FlagTypes' /\ SarTypes' /\ MemTypes' /\ RxmTypes' /\ (rt \in RtTimer)' /\ NetTypes' /\ PeerTypes'
  BY DEF Types, FlagTypes, SarTypes, MemTypes, RxmTypes, NetTypes, PeerTypes, AppSyn, timeVars, evVars
<1>2. PlainTypes'
  BY DEF Types, PlainTypes, AppSyn, States
<1>3. EventTypes'
  <2>1. Ev("SYN", 0, 0) \in GoodEvent
    BY EventIs, Constants
  <2> QED
    BY <2>1, Appended DEF Types, EventTypes, AppSyn
<1> QED
  BY <1>1, <1>2, <1>3 DEF Types

LEMMA TypesAppWrite ==
  ASSUME Types, AppWrite
  PROVE  Types'
<1>1. FlagTypes' /\ RxmTypes' /\ (rt \in RtTimer)' /\ NetTypes' /\ PeerTypes'
  BY DEF Types, FlagTypes, RxmTypes, NetTypes, PeerTypes, AppWrite, timeVars, evVars
<1>2. PlainTypes'
  <2>1. written' \in 0 .. MaxMoves
    BY PeerFields, Space DEF Types, PlainTypes, AppWrite, MayMove
  <2> QED
    BY <2>1 DEF Types, PlainTypes, AppWrite
<1>3. SarTypes'
  <2>1. Ring(app.mempt + 1) \in 0 .. WinMod - 1
    BY Fields, Space, RingIn
  <2> QED
    BY <2>1 DEF Types, SarTypes, AppSar, AppWrite
<1>4. MemTypes'
  <2>1. written + 1 \in 1 .. Junk
    BY PeerFields, Space DEF Types, PlainTypes, AppWrite, MayMove, Junk
  <2> QED
    BY <2>1, Fields DEF Types, MemTypes, AppWrite, WriteMem
<1>5. EventTypes'
  <2>1. written + 1 \in 1 .. MaxMoves
    BY PeerFields, Space DEF Types, PlainTypes, AppWrite, MayMove
  <2>2. Ev("TX", 0, written + 1) \in GoodEvent
    BY <2>1, EventIs, Constants
  <2> QED
    BY <2>2, Appended DEF Types, EventTypes, AppWrite
<1> QED
  BY <1>1, <1>2, <1>3, <1>4, <1>5 DEF Types

\* An element put into a sequence.
LEMMA Inserted ==
  ASSUME NEW S, NEW q \in Seq(S), NEW e \in S, NEW i \in 1 .. Len(q) + 1
  PROVE  /\ InsertAt(q, i, e) \in Seq(S) /\ Len(InsertAt(q, i, e)) = Len(q) + 1
         /\ \A k \in 1 .. i - 1 : InsertAt(q, i, e)[k] = q[k]
         /\ InsertAt(q, i, e)[i] = e
         /\ \A k \in i + 1 .. Len(q) + 1 : InsertAt(q, i, e)[k] = q[k - 1]
<1> DEFINE a == SubSeq(q, 1, i - 1)
           b == SubSeq(q, i, Len(q))
           c == a \o <<e>>
<1>1. Len(q) \in Nat /\ i \in Nat
  OBVIOUS
<1>2. a \in Seq(S) /\ Len(a) = i - 1 /\ \A k \in 1 .. i - 1 : a[k] = q[k]
  BY <1>1
<1>3. b \in Seq(S) /\ Len(b) = Len(q) + 1 - i /\ \A k \in 1 .. Len(q) + 1 - i : b[k] = q[i + k - 1]
  BY <1>1
<1>4. InsertAt(q, i, e) = c \o b
  BY DEF InsertAt
<1> HIDE DEF a, b
<1>5. c \in Seq(S) /\ Len(c) = i /\ c[i] = e /\ \A k \in 1 .. i - 1 : c[k] = q[k]
  BY <1>1, <1>2
<1> HIDE DEF c
<1>6. c \o b \in Seq(S) /\ Len(c \o b) = Len(q) + 1
  <2>0. c \in Seq(S) /\ b \in Seq(S)
    BY <1>3, <1>5
  <2>1. c \o b \in Seq(S)
    BY ONLY <2>0
  <2>2. Len(c \o b) = Len(c) + Len(b)
    BY ONLY <2>0
  <2>3. Len(c) + Len(b) = Len(q) + 1
    BY <1>1, <1>3, <1>5
  <2> QED
    BY ONLY <2>1, <2>2, <2>3
<1>7. \A k \in 1 .. Len(q) + 1 : (c \o b)[k] = IF k <= i THEN c[k] ELSE b[k - i]
  BY <1>1, <1>3, <1>5
<1>8. \A k \in i + 1 .. Len(q) + 1 : (c \o b)[k] = q[k - 1]
  <2> TAKE k \in i + 1 .. Len(q) + 1
  <2>1. k \in 1 .. Len(q) + 1 /\ ~(k <= i) /\ k - i \in 1 .. Len(q) + 1 - i /\ i + (k - i) - 1 = k - 1
    BY <1>1
  <2> QED
    BY <1>3, <1>7, <2>1
<1>9. \A k \in 1 .. i : (c \o b)[k] = c[k]
  <2> TAKE k \in 1 .. i
  <2>1. k \in 1 .. Len(q) + 1 /\ k <= i
    BY <1>1
  <2> QED
    BY <1>7, <2>1
<1>10. \A k \in 1 .. i - 1 : (c \o b)[k] = q[k]
  BY <1>1, <1>5, <1>9
<1>11. (c \o b)[i] = e
  BY <1>1, <1>5, <1>9
<1> QED
  BY <1>4, <1>6, <1>8, <1>10, <1>11

LEMMA TypesAppClose ==
  ASSUME Types, AppClose
  PROVE  Types'
<1>1. FlagTypes' /\ SarTypes' /\ MemTypes' /\ RxmTypes' /\ (rt \in RtTimer)' /\ NetTypes' /\ PeerTypes'
  BY DEF Types, FlagTypes, SarTypes, MemTypes, RxmTypes, NetTypes, PeerTypes, AppClose, timeVars, evVars
<1>2. PlainTypes'
  <2>1. closes' \in 0 .. MaxMoves
    BY PeerFields, Space DEF Types, PlainTypes, AppClose, MayMove
  <2> QED
    BY <2>1 DEF Types, PlainTypes, AppClose, States
<1>3. EventTypes'
  <2>1. Ev("FIN", 0, 0) \in GoodEvent
    BY EventIs, Constants
  <2> QED
    BY <2>1, Inserted DEF Types, EventTypes, AppClose
<1> QED
  BY <1>1, <1>2, <1>3 DEF Types

LEMMA TypesEventEngine ==
  ASSUME Types, EventEngine
  PROVE  Types'
<1>1. PlainTypes' /\ SarTypes' /\ MemTypes' /\ RxmTypes' /\ (rt \in RtTimer)' /\ NetTypes' /\ PeerTypes'
  BY DEF Types, PlainTypes, SarTypes, MemTypes, RxmTypes, NetTypes, PeerTypes, EventEngine, appVars, timeVars
<1>2. FlagTypes'
  <2>1. pend' \in BOOLEAN /\ ct' = ct
    BY DEF EventEngine, AckDelay, timeVars
  <2> QED
    BY <2>1 DEF Types, FlagTypes
<1>3. EventTypes'
  <2>1. CASE tmEv # <<>>
    <3>1. AckDelay(Head(tmEv)) /\ tmEv' = Tail(tmEv) /\ apEv' = apEv
      BY <2>1 DEF EventEngine
    <3>2. Head(tmEv) \in GoodEvent /\ Tail(tmEv) \in Seq(GoodEvent)
      BY <2>1, Tailed DEF Types, EventTypes
    <3> QED
      BY <3>1, <3>2, Delayed DEF Types, EventTypes
  <2>2. CASE tmEv = <<>>
    <3>1. AckDelay(Head(apEv)) /\ apEv' = Tail(apEv) /\ tmEv' = tmEv /\ apEv # <<>>
      BY <2>2 DEF EventEngine
    <3>2. Head(apEv) \in GoodEvent /\ Tail(apEv) \in Seq(GoodEvent)
      BY <3>1, Tailed DEF Types, EventTypes
    <3> QED
      BY <3>1, <3>2, Delayed DEF Types, EventTypes
  <2> QED
    BY <2>1, <2>2
<1> QED
  BY <1>1, <1>2, <1>3 DEF Types

LEMMA TypesAckTimeout ==
  ASSUME Types, AckTimeout
  PROVE  Types'
<1>1. PlainTypes' /\ SarTypes' /\ MemTypes' /\ RxmTypes' /\ (rt \in RtTimer)' /\ NetTypes' /\ PeerTypes'
  BY DEF Types, PlainTypes, SarTypes, MemTypes, RxmTypes, NetTypes, PeerTypes, AckTimeout, appVars, timeVars
<1>2. FlagTypes'
  BY DEF Types, FlagTypes, AckTimeout, timeVars
<1>3. EventTypes'
  <2>1. Ev("ACK", 0, 0) \in GoodEvent
    BY EventIs, Constants
  <2> QED
    BY <2>1, Appended DEF Types, EventTypes, AckTimeout
<1> QED
  BY <1>1, <1>2, <1>3 DEF Types

LEMMA TypesRtTimeout ==
  ASSUME Types, RtTimeout
  PROVE  Types'
<1>1. FlagTypes' /\ SarTypes' /\ MemTypes' /\ NetTypes' /\ PeerTypes'
  BY DEF Types, FlagTypes, SarTypes, MemTypes, NetTypes, PeerTypes, RtTimeout, timeVars, evVars
<1>2. PlainTypes'
  BY DEF Types, PlainTypes, RtTimeout, States
<1>3. RxmTypes'
  BY DEF Types, RxmTypes, RtTimeout
<1>4. EventTypes'
  <2>1. CASE MayRetry /\ tmEv' = Append(tmEv, Ev(rt.type, rt.retries + 1, 0))
    <3>1. rt.retries + 1 \in 0 .. MaxRetries
      BY <2>1, Fields, Constants DEF MayRetry
    <3>2. Ev(rt.type, rt.retries + 1, 0) \in GoodEvent
      BY <3>1, Fields, EventIs
    <3> QED
      BY <2>1, <3>2, Appended DEF Types, EventTypes, RtTimeout
  <2>2. CASE tmEv' = tmEv
    BY <2>2 DEF Types, EventTypes, RtTimeout
  <2> QED
    BY <2>1, <2>2 DEF RtTimeout
<1>5. (rt \in RtTimer)'
  <2>1. MayRetry => rt.retries + 1 \in 0 .. MaxRetries
    BY Fields, Constants DEF MayRetry
  <2>2. 0 \in 0 .. MaxRetries /\ rt \in RtTimer
    BY Constants DEF Types
  <2>3. \/ MayRetry /\ rt' = [rt EXCEPT !.active = FALSE, !.retries = @ + 1]
        \/ rt' = [rt EXCEPT !.active = FALSE, !.retries = 0]
    BY DEF RtTimeout
  <2> QED
    BY <2>1, <2>2, <2>3 DEF RtTimer
<1> QED
  BY <1>1, <1>2, <1>3, <1>4, <1>5 DEF Types

LEMMA TypesCloseTimeout ==
  ASSUME Types, CloseTimeout
  PROVE  Types'
<1>1. SarTypes' /\ MemTypes' /\ EventTypes' /\ (rt \in RtTimer)' /\ NetTypes' /\ PeerTypes'
  BY DEF Types, SarTypes, MemTypes, EventTypes, NetTypes, PeerTypes, CloseTimeout, timeVars, evVars
<1>2. PlainTypes'
  BY DEF Types, PlainTypes, CloseTimeout, States, appVars
<1>3. FlagTypes'
  BY DEF Types, FlagTypes, CloseTimeout, evVars
<1>4. RxmTypes'
  BY DEF Types, RxmTypes, CloseTimeout
<1> QED
  BY <1>1, <1>2, <1>3, <1>4 DEF Types

\* The TX engine takes the first event.
LEMMA TookEvent ==
  ASSUME Types, NEW t, TxEvent(t)
  PROVE  Head(txq) \in GoodEvent /\ Head(txq).t = t /\ txq' \in Seq(GoodEvent)
BY Tailed DEF Types, EventTypes, TxEvent

LEMMA SentTypes ==
  ASSUME Types, NEW X, X \subseteq Segment, Send(X), toToe' = toToe
  PROVE  NetTypes'
<1>1. toPeer' \subseteq Segment
  BY Kept DEF Types, NetTypes
<1> QED
  BY <1>1 DEF Types, NetTypes

LEMMA RtSet ==
  ASSUME Types, NEW t \in {"SYN", "SYN_ACK", "RT"}, SetRt(t)
  PROVE  (rt \in RtTimer)'
BY DEF Types, RtTimer, SetRt

LEMMA RtCleared ==
  ASSUME Types, NEW b \in BOOLEAN, ClearRt(b)
  PROVE  (rt \in RtTimer)'
<1>1. (rt.active /\ ~b) \in BOOLEAN /\ 0 \in 0 .. MaxRetries /\ rt \in RtTimer
  BY Constants DEF Types
<1> DEFINE a == rt.active /\ ~b
<1>2. rt' = [rt EXCEPT !.active = a, !.retries = 0]
  BY DEF ClearRt
<1>3. a \in BOOLEAN
  OBVIOUS
<1> HIDE DEF a
<1> QED
  BY <1>1, <1>2, <1>3 DEF RtTimer

LEMMA TypesTxSyn ==
  ASSUME Types, NEW t \in {"SYN", "SYN_ACK"}, TxSyn(t)
  PROVE  Types'
<1> DEFINE ack == IF t = "SYN" THEN 0 ELSE recvd
<1>1. FlagTypes' /\ MemTypes' /\ RxmTypes' /\ PeerTypes'
  BY DEF Types, FlagTypes, MemTypes, RxmTypes, PeerTypes, TxSyn
<1>2. EventTypes'
  <2>1. txq' \in Seq(GoodEvent)
    BY TookEvent DEF TxSyn
  <2> QED
    BY <2>1 DEF Types, EventTypes, TxSyn
<1>3. (rt \in RtTimer)'
  BY RtSet DEF TxSyn
<1>4. ack \in Seq0
  BY Zero DEF Types, PlainTypes
<1> HIDE DEF ack
<1>5. CASE \E n \in Isns : TxInit(n) /\ Send({Seg(t, n, ack, 0, AnyWin)})
  <2>1. PICK n \in Isns : TxInit(n) /\ Send({Seg(t, n, ack, 0, AnyWin)})
    BY <1>5
  <2>2. n \in Seq0 /\ n \in Int
    BY Space DEF Seq0
  <2>3. Seg(t, n, ack, 0, AnyWin) \in Segment
    BY <1>4, <2>2, SegIs, Zero, WindowMax
  <2>4. NetTypes'
    BY <2>1, <2>3, SentTypes DEF TxSyn
  <2>5. PlainTypes'
    BY <2>1, <2>2 DEF Types, PlainTypes, TxSyn, TxInit, appVars
  <2>6. Add(n, 1) \in Seq0 /\ Ring(n) \in 0 .. WinMod - 1 /\ Ring(n + 1) \in 0 .. WinMod - 1
    BY <2>2, AddIn, RingIn
  <2>7. (tx \in TxSar)' /\ tx'.ackd = n
    BY <2>1, <2>2, <2>6 DEF Types, SarTypes, TxInit, TxSar
  <2>8. (app \in AppSar)' /\ app'.ackd = Ring(n)
    BY <2>1, <2>6, WindowMax DEF TxInit, AppSar
  <2>9. SarTypes'
    BY <2>7, <2>8 DEF SarTypes
  <2> QED
    BY <1>1, <1>2, <1>3, <2>4, <2>5, <2>9 DEF Types
<1>6. CASE Send({Seg(t, tx.ackd, ack, 0, AnyWin)}) /\ UNCHANGED <<iss, tx, app>>
  <2>1. Seg(t, tx.ackd, ack, 0, AnyWin) \in Segment
    BY <1>4, Fields, SegIs, Zero, WindowMax
  <2>2. NetTypes'
    BY <1>6, <2>1, SentTypes DEF TxSyn
  <2>3. PlainTypes' /\ SarTypes'
    BY <1>6 DEF Types, PlainTypes, SarTypes, TxSyn, appVars
  <2> QED
    BY <1>1, <1>2, <1>3, <2>2, <2>3 DEF Types
<1> QED
  BY <1>5, <1>6 DEF TxSyn, ack

LEMMA TypesTxData ==
  ASSUME Types, TxData
  PROVE  Types'
<1>1. PlainTypes' /\ FlagTypes' /\ MemTypes' /\ RxmTypes' /\ PeerTypes'
  BY DEF Types, PlainTypes, FlagTypes, MemTypes, RxmTypes, PeerTypes, TxData, appVars, timeVars, evVars
<1>2. SarTypes'
  <2>a. tx.not_ackd \in Int
    BY Fields, SeqInt
  <2>1. Add(tx.not_ackd, 1) \in Seq0
    BY <2>a, AddIn
  <2> QED
    BY <2>1 DEF Types, SarTypes, TxSar, TxData
<1>3. EventTypes'
  <2>1. txq' \in Seq(GoodEvent)
    BY TookEvent DEF TxData
  <2> QED
    BY <2>1 DEF Types, EventTypes, TxData
<1>4. (rt \in RtTimer)'
  BY RtSet DEF TxData
<1>5. NetTypes'
  <2>1. Head(txq).arg \in 0 .. Junk
    BY TookEvent, EventFields, Space DEF TxData, Junk
  <2>2. Seg("ACK", tx.not_ackd, recvd, Head(txq).arg, AnyWin) \in Segment
    BY <2>1, Fields, SegIs, WindowMax DEF Types, PlainTypes
  <2> QED
    BY <2>2, SentTypes DEF TxData
<1> QED
  BY <1>1, <1>2, <1>3, <1>4, <1>5 DEF Types

LEMMA FinTypes ==
  ASSUME Types, NEW c
  PROVE  /\ FinSeg(c) \in Segment /\ FinSar(c) \in TxSar
         /\ FinSar(c).ackd = tx.ackd
<1>1. Add(tx.not_ackd, 1) \in Seq0 /\ Add(tx.not_ackd, -1) \in Seq0 /\ tx.not_ackd \in Seq0
      /\ recvd \in Seq0 /\ tx \in TxSar
  <2>1. tx.not_ackd \in Seq0 /\ tx.not_ackd \in Int /\ recvd \in Seq0 /\ tx \in TxSar
    BY Fields, SeqInt DEF Types, PlainTypes, SarTypes
  <2> QED
    BY <2>1, AddIn
<1>2. FinSeg(c) \in Segment
  BY <1>1, SegIs, Zero, WindowMax DEF FinSeg
<1>3. FinSar(c) \in TxSar /\ FinSar(c).ackd = tx.ackd
  BY <1>1 DEF FinSar, TxSar
<1> QED
  BY <1>2, <1>3

LEMMA TypesTxFin ==
  ASSUME Types, TxFin
  PROVE  Types'
<1>1. PlainTypes' /\ FlagTypes' /\ MemTypes' /\ RxmTypes' /\ PeerTypes'
  BY DEF Types, PlainTypes, FlagTypes, MemTypes, RxmTypes, PeerTypes, TxFin, appVars, timeVars, evVars
<1>2. SarTypes'
  BY FinTypes DEF Types, SarTypes, TxFin
<1>3. EventTypes'
  <2>1. txq' \in Seq(GoodEvent)
    BY TookEvent DEF TxFin
  <2> QED
    BY <2>1 DEF Types, EventTypes, TxFin
<1>4. (rt \in RtTimer)'
  BY RtSet DEF TxFin
<1>5. NetTypes'
  <2>1. {FinSeg(Head(txq).cnt)} \subseteq Segment
    BY FinTypes
  <2> QED
    BY <2>1, SentTypes DEF TxFin
<1> QED
  BY <1>1, <1>2, <1>3, <1>4, <1>5 DEF Types

LEMMA RtTypes ==
  ASSUME Types, NEW u \in Nat
  PROVE  RtData(u) \subseteq Segment
<1> SUFFICES ASSUME NEW i \in 0 .. Min({u, RtBurst}) - 1
             PROVE  Seg("ACK", Add(tx.ackd, i), recvd, ReadMem(tx.ackd + i), AnyWin) \in Segment
  BY DEF RtData
<1>1. u \in Int /\ RtBurst \in Int
  BY Constants
<1>2. i \in Int /\ tx.ackd \in Int
  BY Fields DEF Seq0
<1>3. Add(tx.ackd, i) \in Seq0 /\ Ring(tx.ackd + i) \in 0 .. WinMod - 1
  BY <1>2, AddIn, RingIn
<1>4. ReadMem(tx.ackd + i) \in 0 .. Junk
  BY <1>3, Space DEF Types, MemTypes, ReadMem, Junk
<1> QED
  BY <1>3, <1>4, SegIs, WindowMax DEF Types, PlainTypes

LEMMA TypesTxRt ==
  ASSUME Types, TxRt
  PROVE  Types'
<1>1. PlainTypes' /\ FlagTypes' /\ MemTypes' /\ RxmTypes' /\ PeerTypes'
  BY DEF Types, PlainTypes, FlagTypes, MemTypes, RxmTypes, PeerTypes, TxRt, appVars, timeVars, evVars
<1>2. SarTypes'
  <2>1. tx' = tx \/ tx' = FinSar(Head(txq).cnt)
    BY DEF TxRt
  <2> QED
    BY <2>1, FinTypes DEF Types, SarTypes, TxRt
<1>3. EventTypes'
  <2>1. txq' \in Seq(GoodEvent)
    BY TookEvent DEF TxRt
  <2> QED
    BY <2>1 DEF Types, EventTypes, TxRt
<1>4. (rt \in RtTimer)'
  <2>1. SetRt("RT") \/ rt' = rt
    BY DEF TxRt
  <2> QED
    BY <2>1, RtSet DEF Types
<1>5. NetTypes'
  <2> DEFINE u == Ring(tx.not_ackd - tx.ackd)
             X == RtData(u) \cup (IF u <= RtBurst /\ tx.finSent THEN {FinSeg(Head(txq).cnt)} ELSE {})
  <2>1. u \in Nat
    BY Fields, RingIn, Space DEF Seq0
  <2>2. X \subseteq Segment
    BY <2>1, RtTypes, FinTypes
  <2>3. Send(X) /\ toToe' = toToe
    BY DEF TxRt
  <2> HIDE DEF X
  <2> QED
    BY <2>2, <2>3, SentTypes
<1> QED
  BY <1>1, <1>2, <1>3, <1>4, <1>5 DEF Types

LEMMA TypesTxAck ==
  ASSUME Types, TxAck
  PROVE  Types'
<1>1. PlainTypes' /\ FlagTypes' /\ SarTypes' /\ MemTypes' /\ RxmTypes' /\ (rt \in RtTimer)' /\ PeerTypes'
  BY DEF Types, PlainTypes, FlagTypes, SarTypes, MemTypes, RxmTypes, PeerTypes, TxAck, appVars, timeVars, evVars
<1>2. EventTypes'
  <2>1. txq' \in Seq(GoodEvent)
    BY TookEvent DEF TxAck
  <2> QED
    BY <2>1 DEF Types, EventTypes, TxAck
<1>3. NetTypes'
  <2>1. recvd \in Seq0
    BY DEF Types, PlainTypes
  <2>2. Seg("ACK", tx.not_ackd, recvd, 0, AnyWin) \in Segment
    BY <2>1, Fields, SegIs, Zero, WindowMax
  <2> QED
    BY <2>2, SentTypes DEF TxAck
<1> QED
  BY <1>1, <1>2, <1>3 DEF Types

LEMMA TypesTxRst ==
  ASSUME Types, TxRst
  PROVE  Types'
<1>1. PlainTypes' /\ FlagTypes' /\ SarTypes' /\ MemTypes' /\ RxmTypes' /\ (rt \in RtTimer)' /\ PeerTypes'
  BY DEF Types, PlainTypes, FlagTypes, SarTypes, MemTypes, RxmTypes, PeerTypes, TxRst, appVars, timeVars, evVars
<1>2. EventTypes'
  <2>1. txq' \in Seq(GoodEvent)
    BY TookEvent DEF TxRst
  <2> QED
    BY <2>1 DEF Types, EventTypes, TxRst
<1>3. NetTypes'
  <2>1. Head(txq).arg \in Seq0
    BY TookEvent, EventFields DEF TxRst
  <2>2. Seg("RST", tx.not_ackd, Head(txq).arg, 0, AnyWin) \in Segment
    BY <2>1, Fields, SegIs, Zero, WindowMax
  <2> QED
    BY <2>2, SentTypes DEF TxRst
<1> QED
  BY <1>1, <1>2, <1>3 DEF Types

LEMMA TypesRxLoad ==
  ASSUME Types, NEW m \in toToe, RxLoad(m)
  PROVE  Types'
<1>1. PlainTypes' /\ FlagTypes' /\ SarTypes' /\ MemTypes' /\ EventTypes' /\ (rt \in RtTimer)'
      /\ PeerTypes'
  BY DEF Types, PlainTypes, FlagTypes, SarTypes, MemTypes, EventTypes, PeerTypes, RxLoad,
         appVars, evVars, timeVars
<1>2. NetTypes'
  BY DEF Types, NetTypes, RxLoad
<1>3. m \in Segment /\ m.data <= MaxMoves
  BY DEF Types, NetTypes
<1>4. rxm' \in RxLoaded /\ rxm'.f = rxm'.m.f /\ rxm'.m.data <= MaxMoves
  BY <1>3, SegFields, Fields DEF RxLoad, RxLoaded
<1>5. RxmTypes'
  BY <1>4 DEF RxmTypes, RxLoad
<1> QED
  BY <1>1, <1>2, <1>5 DEF Types

LEMMA TypesRxDrop ==
  ASSUME Types, NEW m \in toToe, RxDrop(m)
  PROVE  Types'
<1>1. PlainTypes' /\ FlagTypes' /\ SarTypes' /\ MemTypes' /\ RxmTypes' /\ EventTypes'
      /\ (rt \in RtTimer)' /\ PeerTypes'
  BY DEF Types, PlainTypes, FlagTypes, SarTypes, MemTypes, RxmTypes, EventTypes, PeerTypes,
         RxDrop, appVars, evVars, timeVars
<1>2. NetTypes'
  BY DEF Types, NetTypes, RxDrop
<1> QED
  BY <1>1, <1>2 DEF Types

LEMMA SarUpdated ==
  ASSUME Types, NEW a \in Seq0, NEW w \in Windows, NEW c \in 0 .. FastDups, NEW f \in BOOLEAN,
         TxSarUpdate(a, w, c, f)
  PROVE  /\ SarTypes' /\ tx'.ackd = a /\ tx'.not_ackd = tx.not_ackd
         /\ tx'.finSent = tx.finSent /\ app'.mempt = app.mempt
<1>1. Ring(a) \in 0 .. WinMod - 1
  BY RingIn, SeqInt
<1>2. tx \in TxSar /\ app \in AppSar
  BY DEF Types, SarTypes
<1>3. (tx \in TxSar)' /\ tx'.ackd = a /\ tx'.not_ackd = tx.not_ackd /\ tx'.finSent = tx.finSent
  BY <1>2 DEF TxSarUpdate, TxSar
<1>4. (app \in AppSar)' /\ app'.ackd = Ring(a) /\ app'.mempt = app.mempt
  BY <1>1, <1>2 DEF TxSarUpdate, AckPush, AppSar
<1> QED
  BY <1>3, <1>4 DEF SarTypes

LEMMA DupTypes ==
  ASSUME Types, rxm # None, NEW m
  PROVE  /\ DupCount(m) \in 0 .. FastDups
         /\ (DupCount(m) = FastDups \/ FastDone(m)) \in BOOLEAN
<1>1. rxm.count \in 0 .. FastDups /\ FastDups \in Nat /\ FastDups + 1 > 0
  BY RxmFields, Constants
<1>2. (rxm.count + 1) % (FastDups + 1) \in 0 .. FastDups
  BY <1>1
<1>3. DupCount(m) \in 0 .. FastDups
  BY <1>1, <1>2 DEF DupCount
<1> QED
  BY <1>3

\* A segment the RX engine is done with.
LEMMA RxmGone ==
  ASSUME rxm' = None
  PROVE  RxmTypes'
BY DEF RxmTypes

LEMMA StateSet ==
  ASSUME Types, NEW s \in States, SetState(s)
  PROVE  (life \in {"unused", "live", "released"} /\ st \in States)'
BY DEF Types, PlainTypes, SetState

LEMMA DelayedTypes ==
  ASSUME Types, NEW ev \in GoodEvent, AckDelay(ev)
  PROVE  txq' \in Seq(GoodEvent) /\ pend' \in BOOLEAN
BY Delayed DEF Types, EventTypes

LEMMA NoEventTypes ==
  ASSUME Types, NoEvent
  PROVE  txq' \in Seq(GoodEvent) /\ pend' \in BOOLEAN
BY DEF Types, EventTypes, FlagTypes, NoEvent

LEMMA EventsHeld ==
  ASSUME Types, txq' \in Seq(GoodEvent), UNCHANGED <<apEv, tmEv>>
  PROVE  EventTypes'
BY DEF Types, EventTypes

LEMMA SimpleEvents ==
  /\ \A t \in {"ACK", "ACK_NODELAY", "FIN", "RT", "SYN_ACK"} : Ev(t, 0, 0) \in GoodEvent
  /\ \A a \in Seq0 : Ev("RST", 0, a) \in GoodEvent
  /\ \A t \in {"ACK", "ACK_NODELAY", "FIN", "RT", "SYN_ACK"} :
       Ev(t, 0, 0).t = t /\ Ev(t, 0, 0).cnt = 0
  /\ \A a \in Seq0 : Ev("RST", 0, a).t = "RST" /\ Ev("RST", 0, a).cnt = 0
<1>1. 0 \in 0 .. MaxRetries
  BY Constants
<1>2. \A t \in {"ACK", "ACK_NODELAY", "FIN", "RT", "SYN_ACK"} :
        Ev(t, 0, 0) \in GoodEvent /\ Ev(t, 0, 0).t = t /\ Ev(t, 0, 0).cnt = 0
  BY <1>1, EventIs
<1>3. \A a \in Seq0 : Ev("RST", 0, a) \in GoodEvent /\ Ev("RST", 0, a).t = "RST"
                      /\ Ev("RST", 0, a).cnt = 0
  BY <1>1, SeqInt, EventIs
<1> QED
  BY <1>2, <1>3

LEMMA AckEventTypes ==
  ASSUME Types, rxm # None, NEW room, AckEvent(rxm.m, room)
  PROVE  txq' \in Seq(GoodEvent) /\ pend' \in BOOLEAN
<1>1. \/ NoEvent \/ AckDelay(Ev("RT", 0, 0)) \/ AckDelay(Ev("ACK", 0, 0))
      \/ AckDelay(Ev("ACK_NODELAY", 0, 0))
  BY DEF AckEvent
<1> QED
  BY <1>1, DelayedTypes, NoEventTypes, SimpleEvents

LEMMA DataTaken ==
  ASSUME Types, rxm # None, NEW room, TakeData(rxm.m, room)
  PROVE  recvd' \in Seq0 /\ dlv' \in Seq(1 .. MaxMoves)
<1>1. recvd \in Seq0 /\ dlv \in Seq(1 .. MaxMoves)
  BY DEF Types, PlainTypes
<1>2. Add(rxm.m.seq, 1) \in Seq0
  BY RxmFields, AddSeq
<1>3. rxm.m.data # 0 => Append(dlv, rxm.m.data) \in Seq(1 .. MaxMoves)
  <2> HAVE rxm.m.data # 0
  <2>1. rxm.m.data \in 1 .. MaxMoves
    BY RxmFields, Space
  <2> QED
    BY <1>1, <2>1, Appended
<1>4. (recvd' = Add(rxm.m.seq, 1) /\ dlv' = Append(dlv, rxm.m.data) /\ rxm.m.data # 0)
      \/ (recvd' = recvd /\ dlv' = dlv)
  BY DEF TakeData
<1> QED
  BY <1>1, <1>2, <1>3, <1>4

LEMMA TypesRxAck ==
  ASSUME Types, RxAck
  PROVE  Types'
<1> DEFINE m == rxm.m
           done == AllAcked(m)
<1>1. rxm # None /\ rxm' = None
  BY DEF RxAck, RxTransition
<1>2. MemTypes' /\ NetTypes' /\ PeerTypes' /\ RxmTypes'
  BY <1>1, RxmGone DEF Types, MemTypes, NetTypes, PeerTypes, RxAck
<1>3. (rt \in RtTimer)'
  BY RtCleared DEF RxAck, AllAcked
<1>4. m.seq \in Seq0 /\ m.ack \in Seq0 /\ m.win \in Windows /\ m.seq \in Int
  BY <1>1, RxmFields, SeqInt
<1>5. UNCHANGED <<iss, open, written, closes, apEv, tmEv>>
  BY DEF RxAck, appVars
<1>6. CASE /\ st \in {"ESTABLISHED", "SYN_RECEIVED", "FIN_WAIT_1", "CLOSING", "LAST_ACK"}
           /\ IF AckInRange(rxm.ackd, m.ack, rxm.not_ackd)
                THEN TxSarUpdate(m.ack, m.win, DupCount(m),
                                 DupCount(m) = FastDups \/ FastDone(m))
                ELSE UNCHANGED <<tx, app>>
           /\ \E room \in BOOLEAN : TakeData(m, room) /\ AckEvent(m, room)
           /\ SetState(AckState(done))
           /\ ct' = (ct \/ (done /\ st = "CLOSING"))
  <2>1. SarTypes'
    <3>1. CASE TxSarUpdate(m.ack, m.win, DupCount(m), DupCount(m) = FastDups \/ FastDone(m))
      BY <1>1, <1>4, <3>1, DupTypes, SarUpdated
    <3>2. CASE UNCHANGED <<tx, app>>
      BY <3>2 DEF Types, SarTypes
    <3> QED
      BY <1>6, <3>1, <3>2
  <2>2. PICK room \in BOOLEAN : TakeData(m, room) /\ AckEvent(m, room)
    BY <1>6
  <2>3. txq' \in Seq(GoodEvent) /\ pend' \in BOOLEAN /\ recvd' \in Seq0 /\ dlv' \in Seq(1 .. MaxMoves)
    BY <1>1, <2>2, AckEventTypes, DataTaken
  <2>4. AckState(done) \in States
    BY <1>6 DEF AckState, States
  <2>5. (life \in {"unused", "live", "released"} /\ st \in States)'
    BY <1>6, <2>4, StateSet
  <2>6. PlainTypes'
    BY <1>5, <2>3, <2>5 DEF Types, PlainTypes
  <2>7. ct' \in BOOLEAN
    BY <1>6
  <2> QED
    BY <1>2, <1>3, <1>5, <2>1, <2>3, <2>6, <2>7, EventsHeld DEF Types, FlagTypes
<1>7. CASE /\ AckDelay(Ev("RST", 0, Add(m.seq, SegLen(m))))
           /\ SetState(st)
           /\ UNCHANGED <<tx, app, recvd, dlv, ct>>
  <2>1. Add(m.seq, SegLen(m)) \in Seq0
    BY <1>4, AddIn DEF SegLen
  <2>2. txq' \in Seq(GoodEvent) /\ pend' \in BOOLEAN
    BY <1>7, <2>1, SimpleEvents, DelayedTypes
  <2>3. st \in States
    BY DEF Types, PlainTypes
  <2>4. (life \in {"unused", "live", "released"} /\ st \in States)'
    BY <1>7, <2>3, StateSet
  <2>5. PlainTypes' /\ SarTypes'
    BY <1>5, <1>7, <2>4 DEF Types, PlainTypes, SarTypes
  <2>6. FlagTypes'
    BY <1>7, <2>2 DEF Types, FlagTypes
  <2> QED
    BY <1>2, <1>3, <1>5, <2>2, <2>5, <2>6, EventsHeld DEF Types
<1> HIDE DEF done, m
<1> QED
  BY <1>6, <1>7 DEF RxAck, m, done

LEMMA TypesRxSyn ==
  ASSUME Types, RxSyn
  PROVE  Types'
<1> DEFINE m == rxm.m
<1>1. rxm # None /\ rxm' = None
  BY DEF RxSyn, RxTransition
<1>2. MemTypes' /\ NetTypes' /\ PeerTypes' /\ RxmTypes' /\ (rt \in RtTimer)'
  BY <1>1, RxmGone DEF Types, MemTypes, NetTypes, PeerTypes, RxSyn, timeVars
<1>3. m.seq \in Seq0 /\ m.win \in Windows /\ Add(m.seq, 1) \in Seq0
  BY <1>1, RxmFields, AddSeq
<1>4. UNCHANGED <<iss, open, written, closes, dlv, apEv, tmEv, ct>>
  BY DEF RxSyn, appVars, timeVars
<1>5. 0 \in Seq0 /\ 0 \in 0 .. FastDups /\ FALSE \in BOOLEAN
  BY Zero, Constants
<1>6. \/ SarTypes' /\ recvd' = Add(m.seq, 1)
      \/ UNCHANGED <<recvd, tx, app>>
  BY <1>3, <1>5, SarUpdated DEF RxSyn
<1>7. SarTypes' /\ recvd' \in Seq0
  BY <1>3, <1>6 DEF Types, PlainTypes, SarTypes
<1>8. \E s \in States : SetState(s)
  <2>1. st \in States /\ "CLOSED" \in States /\ "SYN_RECEIVED" \in States
    BY DEF Types, PlainTypes, States
  <2>2. SetState(st) \/ SetState("CLOSED") \/ SetState("SYN_RECEIVED")
    BY DEF RxSyn
  <2> QED
    BY <2>1, <2>2
<1>9. (life \in {"unused", "live", "released"} /\ st \in States)'
  BY <1>8, StateSet
<1>10. PlainTypes'
  BY <1>4, <1>7, <1>9 DEF Types, PlainTypes
<1>11. txq' \in Seq(GoodEvent) /\ pend' \in BOOLEAN
  <2>1. \/ AckDelay(Ev("SYN_ACK", 0, 0)) \/ AckDelay(Ev("ACK_NODELAY", 0, 0))
        \/ AckDelay(Ev("RST", 0, Add(m.seq, 1))) \/ AckDelay(Ev("SYN_ACK", 1, 0))
    BY DEF RxSyn
  <2>2. Ev("SYN_ACK", 0, 0) \in GoodEvent /\ Ev("ACK_NODELAY", 0, 0) \in GoodEvent
        /\ Ev("RST", 0, Add(m.seq, 1)) \in GoodEvent /\ Ev("SYN_ACK", 1, 0) \in GoodEvent
    <3>1. 1 \in 0 .. MaxRetries
      BY Constants
    <3> QED
      BY <1>3, <3>1, SimpleEvents, EventIs
  <2> HIDE DEF m
  <2> QED
    BY <2>1, <2>2, DelayedTypes
<1>12. FlagTypes'
  BY <1>4, <1>11 DEF Types, FlagTypes
<1> QED
  BY <1>2, <1>4, <1>7, <1>10, <1>11, <1>12, EventsHeld DEF Types

LEMMA TypesRxSynAck ==
  ASSUME Types, RxSynAck
  PROVE  Types'
<1> DEFINE m == rxm.m
<1>1. rxm # None /\ rxm' = None
  BY DEF RxSynAck, RxTransition
<1>2. MemTypes' /\ NetTypes' /\ PeerTypes' /\ RxmTypes' /\ (rt \in RtTimer)'
  <2>1. (rt \in RtTimer)'
    BY RtCleared DEF RxSynAck, AllAcked
  <2> QED
    BY <1>1, <2>1, RxmGone DEF Types, MemTypes, NetTypes, PeerTypes, RxSynAck
<1>3. m.seq \in Seq0 /\ m.ack \in Seq0 /\ m.win \in Windows /\ Add(m.seq, 1) \in Seq0
  BY <1>1, RxmFields, AddSeq
<1>4. UNCHANGED <<iss, written, closes, dlv, apEv, tmEv, ct>> /\ (open' = open \/ open' = "ok")
  BY DEF RxSynAck
<1>5. 0 \in 0 .. FastDups /\ FALSE \in BOOLEAN
  BY Constants
<1>6. \/ SarTypes' /\ recvd' = Add(m.seq, 1)
      \/ UNCHANGED <<recvd, tx, app>>
  BY <1>3, <1>5, SarUpdated DEF RxSynAck
<1>7. SarTypes' /\ recvd' \in Seq0
  BY <1>3, <1>6 DEF Types, PlainTypes, SarTypes
<1>8. \E s \in States : SetState(s)
  <2>1. st \in States /\ "CLOSED" \in States /\ "ESTABLISHED" \in States
    BY DEF Types, PlainTypes, States
  <2>2. SetState(st) \/ SetState("CLOSED") \/ SetState("ESTABLISHED")
    BY DEF RxSynAck
  <2> QED
    BY <2>1, <2>2
<1>9. (life \in {"unused", "live", "released"} /\ st \in States)'
  BY <1>8, StateSet
<1>10. PlainTypes'
  BY <1>4, <1>7, <1>9 DEF Types, PlainTypes
<1>11. txq' \in Seq(GoodEvent) /\ pend' \in BOOLEAN
  <2>1. AckDelay(Ev("ACK_NODELAY", 0, 0)) \/ AckDelay(Ev("RST", 0, Add(m.seq, 1)))
    BY DEF RxSynAck
  <2>2. Ev("ACK_NODELAY", 0, 0) \in GoodEvent /\ Ev("RST", 0, Add(m.seq, 1)) \in GoodEvent
    BY <1>3, SimpleEvents
  <2> HIDE DEF m
  <2> QED
    BY <2>1, <2>2, DelayedTypes
<1>12. FlagTypes'
  BY <1>4, <1>11 DEF Types, FlagTypes
<1> QED
  BY <1>2, <1>4, <1>7, <1>10, <1>11, <1>12, EventsHeld DEF Types

LEMMA TypesRxFin ==
  ASSUME Types, RxFin
  PROVE  Types'
<1> DEFINE m == rxm.m
<1>1. rxm # None /\ rxm' = None
  BY DEF RxFin, RxTransition
<1>2. MemTypes' /\ NetTypes' /\ PeerTypes' /\ RxmTypes' /\ (rt \in RtTimer)'
  <2>1. (rt \in RtTimer)'
    BY RtCleared DEF RxFin, AllAcked
  <2> QED
    BY <1>1, <2>1, RxmGone DEF Types, MemTypes, NetTypes, PeerTypes, RxFin
<1>3. m.seq \in Seq0 /\ m.ack \in Seq0 /\ m.win \in Windows /\ Add(m.seq, SegLen(m) + 1) \in Seq0
      /\ rxm.count \in 0 .. FastDups /\ rxm.fastRt \in BOOLEAN
  <2>1. SegLen(m) + 1 \in Int
    BY DEF SegLen
  <2>2. m.seq \in Seq0 /\ m.ack \in Seq0 /\ m.win \in Windows
        /\ rxm.count \in 0 .. FastDups /\ rxm.fastRt \in BOOLEAN
    BY <1>1, RxmFields
  <2> QED
    BY <2>1, <2>2, AddSeq
<1>4. UNCHANGED <<iss, open, written, closes, apEv, tmEv>>
  BY DEF RxFin, appVars
<1>5. \/ SarTypes' /\ recvd' = Add(m.seq, SegLen(m) + 1)
         /\ dlv' = (IF m.data # 0 THEN Append(dlv, m.data) ELSE dlv)
      \/ UNCHANGED <<recvd, tx, app, dlv>>
  BY <1>3, SarUpdated DEF RxFin
<1>6. SarTypes' /\ recvd' \in Seq0
  BY <1>3, <1>5 DEF Types, PlainTypes, SarTypes
<1>7. dlv' \in Seq(1 .. MaxMoves)
  <2>1. dlv \in Seq(1 .. MaxMoves)
    BY DEF Types, PlainTypes
  <2>2. m.data # 0 => m.data \in 1 .. MaxMoves
    BY <1>1, RxmFields, Space
  <2>3. dlv' = dlv \/ (m.data # 0 /\ dlv' = Append(dlv, m.data))
    BY <1>5
  <2>4. m.data # 0 => Append(dlv, m.data) \in Seq(1 .. MaxMoves)
    BY <2>1, <2>2, Appended
  <2> QED
    BY <2>1, <2>3, <2>4
<1>8. \E s \in States : SetState(s)
  <2>1. st \in States /\ "LAST_ACK" \in States /\ "TIME_WAIT" \in States /\ "CLOSING" \in States
    BY DEF Types, PlainTypes, States
  <2>2. SetState(st) \/ SetState("LAST_ACK") \/ SetState("TIME_WAIT") \/ SetState("CLOSING")
    BY DEF RxFin
  <2> QED
    BY <2>1, <2>2
<1>9. (life \in {"unused", "live", "released"} /\ st \in States)'
  BY <1>8, StateSet
<1>10. PlainTypes'
  BY <1>4, <1>6, <1>7, <1>9 DEF Types, PlainTypes
<1>11. txq' \in Seq(GoodEvent) /\ pend' \in BOOLEAN
  <2>1. AckDelay(Ev("FIN", 0, 0)) \/ AckDelay(Ev("ACK", 0, 0))
    BY DEF RxFin
  <2> QED
    BY <2>1, SimpleEvents, DelayedTypes
<1>12. ct' \in BOOLEAN
  <2>1. ct' = ct \/ ct' = (ct \/ AllAcked(m))
    BY DEF RxFin
  <2> QED
    BY <2>1 DEF Types, FlagTypes
<1>13. FlagTypes'
  BY <1>11, <1>12 DEF FlagTypes
<1> QED
  BY <1>2, <1>4, <1>6, <1>10, <1>11, <1>13, EventsHeld DEF Types

LEMMA TypesRxRst ==
  ASSUME Types, RxRst
  PROVE  Types'
<1>1. rxm # None /\ rxm' = None
  BY DEF RxRst, RxTransition
<1>2. MemTypes' /\ NetTypes' /\ PeerTypes' /\ RxmTypes' /\ FlagTypes' /\ SarTypes' /\ EventTypes'
  BY <1>1, RxmGone DEF Types, MemTypes, NetTypes, PeerTypes, FlagTypes, SarTypes, EventTypes,
                      RxRst, evVars
<1>3. (rt \in RtTimer)'
  <2>1. ClearRt(TRUE) \/ rt' = rt
    BY DEF RxRst
  <2> QED
    BY <2>1, RtCleared DEF Types
<1>4. SetState("CLOSED") \/ SetState(st)
  BY DEF RxRst
<1>5. (life \in {"unused", "live", "released"} /\ st \in States)'
  BY <1>4, StateSet DEF Types, PlainTypes, States
<1>6. UNCHANGED <<recvd, iss, written, closes, dlv>> /\ (open' = open \/ open' = "fail")
  BY DEF RxRst
<1>7. PlainTypes'
  BY <1>5, <1>6 DEF Types, PlainTypes
<1> QED
  BY <1>2, <1>3, <1>7 DEF Types

\* What a step of the peer leaves alone.
LEMMA PeerKeeps ==
  ASSUME Types, PeerStep
  PROVE  /\ PlainTypes' /\ FlagTypes' /\ SarTypes' /\ MemTypes' /\ RxmTypes' /\ EventTypes'
         /\ (rt \in RtTimer)' /\ toPeer' = toPeer
BY DEF Types, PlainTypes, FlagTypes, SarTypes, MemTypes, RxmTypes, EventTypes, PeerStep,
       appVars, evVars, timeVars

LEMMA PeerSends ==
  ASSUME Types, NEW m \in Segment, m.data <= MaxMoves, PeerSend(m), toPeer' = toPeer
  PROVE  NetTypes' /\ p.segs < MaxMoves
<1>1. NetTypes'
  BY DEF Types, NetTypes, PeerSend
<1>2. written \in Nat /\ closes \in Nat /\ p.segs \in Nat
  BY PeerFields, Space DEF Types, PlainTypes
<1> QED
  BY <1>1, <1>2, Space DEF PeerSend, MayMove

\* The peer with other values.
LEMMA PeerWithSegs ==
  ASSUME NEW q \in Peer, NEW g \in Nat
  PROVE  [q EXCEPT !.segs = g] \in Peer
<1> DEFINE Got == Seq(0 .. Junk)
<1>1. Peer = [st : PeerStates, listens : BOOLEAN, irs : Seq0, rnxt : Seq0, una : Nat,
              n : Nat, segs : Nat, fin : BOOLEAN, got : Got, gotFin : BOOLEAN]
  BY DEF Peer
<1> HIDE DEF Got
<1> QED
  BY <1>1

LEMMA PeerWithSt ==
  ASSUME NEW q \in Peer, NEW g \in Nat, NEW s \in PeerStates
  PROVE  [[q EXCEPT !.segs = g] EXCEPT !.st = s] \in Peer
<1> DEFINE Got == Seq(0 .. Junk)
<1>1. Peer = [st : PeerStates, listens : BOOLEAN, irs : Seq0, rnxt : Seq0, una : Nat,
              n : Nat, segs : Nat, fin : BOOLEAN, got : Got, gotFin : BOOLEAN]
  BY DEF Peer
<1> HIDE DEF Got
<1> QED
  BY <1>1

LEMMA PeerWithN ==
  ASSUME NEW q \in Peer, NEW g \in Nat, NEW k \in Nat
  PROVE  [[q EXCEPT !.segs = g] EXCEPT !.n = k] \in Peer
<1> DEFINE Got == Seq(0 .. Junk)
<1>1. Peer = [st : PeerStates, listens : BOOLEAN, irs : Seq0, rnxt : Seq0, una : Nat,
              n : Nat, segs : Nat, fin : BOOLEAN, got : Got, gotFin : BOOLEAN]
  BY DEF Peer
<1> HIDE DEF Got
<1> QED
  BY <1>1

LEMMA PeerWithFin ==
  ASSUME NEW q \in Peer, NEW g \in Nat, NEW b \in BOOLEAN
  PROVE  [[q EXCEPT !.segs = g] EXCEPT !.fin = b] \in Peer
<1> DEFINE Got == Seq(0 .. Junk)
<1>1. Peer = [st : PeerStates, listens : BOOLEAN, irs : Seq0, rnxt : Seq0, una : Nat,
              n : Nat, segs : Nat, fin : BOOLEAN, got : Got, gotFin : BOOLEAN]
  BY DEF Peer
<1> HIDE DEF Got
<1> QED
  BY <1>1

LEMMA PeerNumbers ==
  ASSUME NEW i \in Int
  PROVE  PeerSeq(i) \in Seq0
BY Space, SeqInt, AddIn DEF PeerSeq

LEMMA PeerNextNumber ==
  ASSUME Types
  PROVE  PeerNext \in Seq0
<1>1. 1 + p.n + (IF p.fin THEN 1 ELSE 0) \in Int
  BY PeerFields
<1> QED
  BY <1>1, PeerNumbers DEF PeerNext

LEMMA TypesPeerStep ==
  ASSUME Types, PeerStep
  PROVE  Types'
<1>1. p \in Peer /\ p.n \in Nat /\ p.una \in Nat /\ p.segs \in Nat /\ p.rnxt \in Seq0 /\ p.una <= p.n
      /\ p.n + FinNo(p) <= p.segs /\ p.n + FinNo(p) <= MaxMoves /\ p.n <= MaxMoves /\ p.fin \in BOOLEAN
  BY PeerFields DEF Types, PeerTypes
<1>2. toPeer' = toPeer
  BY DEF PeerStep
<1>3. AnyWin \in Windows /\ 0 \in Seq0 /\ 0 \in 0 .. Junk /\ PeerIsn \in Seq0 /\ MaxMoves \in Nat
      /\ 0 <= MaxMoves
  BY WindowMax, Zero, Space
<1>4. Sent(p) = [p EXCEPT !.segs = p.segs + 1] /\ p.segs + 1 \in Nat
  BY <1>1 DEF Sent
<1>5. NetTypes' /\ PeerTypes'
  <2>1. CASE PeerOpen
    <3> DEFINE m == Seg("SYN", PeerIsn, 0, 0, AnyWin)
    <3>1. m \in Segment /\ m.data = 0
      BY <1>3, SegIs
    <3>2. PeerSend(m)
      BY <2>1 DEF PeerOpen
    <3>3. p' = [Sent(p) EXCEPT !.st = "SYN_SENT"]
      BY <2>1 DEF PeerOpen
    <3> HIDE DEF m
    <3>4. NetTypes' /\ p.segs < MaxMoves
      BY <1>2, <1>3, <3>1, <3>2, PeerSends
    <3>5. p' \in Peer
      <4>1. "SYN_SENT" \in PeerStates
        BY DEF PeerStates
      <4>2. [[p EXCEPT !.segs = p.segs + 1] EXCEPT !.st = "SYN_SENT"] \in Peer
        BY <1>1, <1>4, <4>1, PeerWithSt
      <4> QED
        BY ONLY <1>4, <3>3, <4>2
    <3>6. p'.n = p.n /\ p'.una = p.una /\ p'.segs = p.segs + 1 /\ p'.fin = p.fin
      BY <1>1, <1>4, <3>3 DEF Peer
    <3> QED
      BY <1>1, <3>4, <3>5, <3>6 DEF PeerTypes, FinNo
  <2>2. CASE PeerSynAck
    <3> DEFINE m == Seg("SYN_ACK", PeerIsn, p.rnxt, 0, AnyWin)
    <3>1. m \in Segment /\ m.data = 0
      BY <1>1, <1>3, SegIs
    <3>2. PeerSend(m) /\ p' = Sent(p)
      BY <2>2 DEF PeerSynAck
    <3> HIDE DEF m
    <3>3. NetTypes' /\ p.segs < MaxMoves
      BY <1>2, <1>3, <3>1, <3>2, PeerSends
    <3>4. p' \in Peer
      BY <1>1, <1>4, <3>2, PeerWithSegs DEF PeerStates
    <3>5. p'.n = p.n /\ p'.una = p.una /\ p'.segs = p.segs + 1 /\ p'.fin = p.fin
      BY <1>1, <1>4, <3>2 DEF Peer
    <3> QED
      BY <1>1, <3>3, <3>4, <3>5 DEF PeerTypes, FinNo
  <2>3. CASE PeerData
    <3>1. PICK i \in p.una + 1 .. p.n + 1, w \in Windows :
             /\ i <= p.n \/ ~p.fin
             /\ PeerSend(Seg("ACK", PeerSeq(i), p.rnxt, i, w))
             /\ p' = [Sent(p) EXCEPT !.n = IF i > p.n THEN i ELSE @]
      BY <2>3 DEF PeerData
    <3>2. p.segs < MaxMoves
      BY <3>1, <1>1, Space DEF PeerSend, MayMove, Types, PlainTypes
    <3>3. FinNo(p) \in Nat /\ (~p.fin => FinNo(p) = 0)
      BY DEF FinNo
    <3>4. i \in Nat /\ i <= MaxMoves /\ i \in 0 .. Junk /\ i \in Int
      BY <1>1, <1>3, <3>2, <3>3 DEF Junk
    <3> DEFINE m == Seg("ACK", PeerSeq(i), p.rnxt, i, w)
               k == IF i > p.n THEN i ELSE p.n
    <3>5. m \in Segment /\ m.data = i
      <4>1. PeerSeq(i) \in Seq0
        BY <3>4, PeerNumbers
      <4> QED
        BY <1>1, <3>4, <4>1, SegIs
    <3>6. PeerSend(m) /\ p' = [Sent(p) EXCEPT !.n = k]
      BY <1>1, <1>4, <3>1 DEF Peer
    <3>7. k \in Nat /\ (k = p.n \/ (k = p.n + 1 /\ ~p.fin)) /\ k >= p.n
      BY <1>1, <3>1, <3>4
    <3> HIDE DEF m, k
    <3>8. NetTypes'
      BY <1>2, <3>4, <3>5, <3>6, PeerSends
    <3>9. p' \in Peer
      BY <1>1, <1>4, <3>6, <3>7, PeerWithN
    <3>10. p'.n = k /\ p'.una = p.una /\ p'.segs = p.segs + 1 /\ p'.fin = p.fin
      BY <1>1, <1>4, <3>6 DEF Peer
    <3>11. k + FinNo(p) <= p.segs + 1 /\ k + FinNo(p) <= MaxMoves /\ p.una <= k
      BY <1>1, <3>2, <3>3, <3>7, <1>3
    <3>12. FinNo(p') = FinNo(p)
      BY <3>10 DEF FinNo
    <3> QED
      BY <3>8, <3>9, <3>10, <3>11, <3>12 DEF PeerTypes, FinNo
  <2>4. CASE PeerAck
    <3>1. PICK w \in Windows : PeerSend(Seg("ACK", PeerNext, p.rnxt, 0, w))
      BY <2>4 DEF PeerAck
    <3> DEFINE m == Seg("ACK", PeerNext, p.rnxt, 0, w)
    <3>2. m \in Segment /\ m.data = 0
      BY <1>1, <1>3, SegIs, PeerNextNumber
    <3>3. PeerSend(m) /\ p' = Sent(p)
      BY <2>4, <3>1 DEF PeerAck
    <3> HIDE DEF m
    <3>4. NetTypes' /\ p.segs < MaxMoves
      BY <1>2, <1>3, <3>2, <3>3, PeerSends
    <3>5. p' \in Peer
      BY <1>1, <1>4, <3>3, PeerWithSegs DEF PeerStates
    <3>6. p'.n = p.n /\ p'.una = p.una /\ p'.segs = p.segs + 1 /\ p'.fin = p.fin
      BY <1>1, <1>4, <3>3 DEF Peer
    <3> QED
      BY <1>1, <3>4, <3>5, <3>6 DEF PeerTypes, FinNo
  <2>5. CASE PeerFin
    <3>1. PICK m : /\ PeerSend(m)
                   /\ \/ m = Seg("FIN", PeerSeq(1 + p.n), p.rnxt, 0, AnyWin)
                      \/ m = Seg("FIN", PeerSeq(p.n), p.rnxt, p.n, AnyWin)
      BY <2>5 DEF PeerFin
    <3>2. PeerSeq(1 + p.n) \in Seq0 /\ PeerSeq(p.n) \in Seq0 /\ p.n \in 0 .. Junk
      BY <1>1, <1>3, PeerNumbers DEF Junk
    <3>3. m \in Segment /\ m.data <= MaxMoves
      BY <1>1, <1>3, <3>1, <3>2, SegIs
    <3>4. NetTypes' /\ p.segs < MaxMoves
      BY <1>2, <3>1, <3>3, PeerSends
    <3>5. p' = [Sent(p) EXCEPT !.fin = TRUE]
      BY <2>5 DEF PeerFin
    <3>6. p' \in Peer
      BY <1>1, <1>4, <3>5, PeerWithFin
    <3>7. p'.n = p.n /\ p'.una = p.una /\ p'.segs = p.segs + 1 /\ p'.fin = TRUE
      BY <1>1, <1>4, <3>5 DEF Peer
    <3>8. FinNo(p') = 1 /\ FinNo(p) \in 0 .. 1
      BY <3>7 DEF FinNo
    <3>9. p.n + 1 <= p.segs + 1 /\ p.n + 1 <= MaxMoves
      BY <1>1, <1>3, <3>4, <3>8
    <3> QED
      BY <1>1, <3>4, <3>6, <3>7, <3>8, <3>9 DEF PeerTypes, FinNo
  <2>6. CASE PeerReset
    <3> DEFINE m == Seg("RST", PeerNext, p.rnxt, 0, AnyWin)
    <3>1. m \in Segment /\ m.data = 0
      BY <1>1, <1>3, SegIs, PeerNextNumber
    <3>2. PeerSend(m)
      BY <2>6 DEF PeerReset
    <3>3. p' = [Sent(p) EXCEPT !.st = "RESET"]
      BY <2>6 DEF PeerReset
    <3> HIDE DEF m
    <3>4. NetTypes' /\ p.segs < MaxMoves
      BY <1>2, <1>3, <3>1, <3>2, PeerSends
    <3>5. p' \in Peer
      <4>1. "RESET" \in PeerStates
        BY DEF PeerStates
      <4>2. [[p EXCEPT !.segs = p.segs + 1] EXCEPT !.st = "RESET"] \in Peer
        BY <1>1, <1>4, <4>1, PeerWithSt
      <4> QED
        BY ONLY <1>4, <3>3, <4>2
    <3>6. p'.n = p.n /\ p'.una = p.una /\ p'.segs = p.segs + 1 /\ p'.fin = p.fin
      BY <1>1, <1>4, <3>3 DEF Peer
    <3> QED
      BY <1>1, <3>4, <3>5, <3>6 DEF PeerTypes, FinNo
  <2> QED
    BY <2>1, <2>2, <2>3, <2>4, <2>5, <2>6 DEF PeerStep
<1> QED
  BY <1>5, PeerKeeps DEF Types

\* What the peer makes of a segment.
LEMMA TakeFields ==
  ASSUME Types, NEW m \in Segment, p' = PeerTake(m)
  PROVE
    /\ p' \in Peer /\ p'.n = p.n /\ p'.fin = p.fin /\ p'.segs = p.segs /\ p'.listens = p.listens
    /\ p'.una <= p.n
    /\ \/ /\ m.f = "SYN" /\ p.st \in {"LISTEN", "SYN_SENT"} /\ p'.st = "SYN_RCVD"
          /\ p'.irs = m.seq /\ p'.rnxt = Add(m.seq, 1) /\ p'.got = p.got /\ p'.gotFin = p.gotFin
       \/ /\ m.f = "SYN_ACK" /\ p.st = "SYN_SENT" /\ m.ack = PeerSeq(1) /\ p'.st = "ESTAB"
          /\ p'.irs = m.seq /\ p'.rnxt = Add(m.seq, 1) /\ p'.got = p.got /\ p'.gotFin = p.gotFin
       \/ /\ p'.irs = p.irs /\ p'.rnxt = p.rnxt /\ p'.got = p.got /\ p'.gotFin = p.gotFin
          /\ \/ p'.st = p.st
             \/ p.st = "SYN_RCVD" /\ p'.st = "ESTAB" /\ m.ack = PeerSeq(1)
                /\ m.f \in {"SYN_ACK", "ACK", "FIN"}
             \/ p.st \in {"SYN_RCVD", "ESTAB"} /\ p'.st = "RESET"
       \/ /\ m.f = "ACK" /\ m.data # 0 /\ m.seq = p.rnxt /\ p.st \in {"SYN_RCVD", "ESTAB"}
          /\ p.st = "SYN_RCVD" => m.ack = PeerSeq(1)
          /\ p'.irs = p.irs /\ p'.rnxt = Add(p.rnxt, 1) /\ p'.got = Append(p.got, m.data)
          /\ p'.gotFin = p.gotFin /\ p'.st = "ESTAB"
       \/ /\ m.f = "FIN" /\ p.st \in {"SYN_RCVD", "ESTAB"} /\ p'.st = "ESTAB"
          /\ p.st = "SYN_RCVD" => m.ack = PeerSeq(1)
          /\ p'.irs = p.irs /\ p'.rnxt = Add(p.rnxt, 1) /\ p'.got = p.got
<1> DEFINE Got == Seq(0 .. Junk)
           PSet == [st : PeerStates, listens : BOOLEAN, irs : Seq0, rnxt : Seq0, una : Nat,
              n : Nat, segs : Nat, fin : BOOLEAN, got : Got, gotFin : BOOLEAN]
           new == Dist(PeerSeq(1 + p.una), m.ack)
           s == IF p.st = "SYN_RCVD" /\ m.ack = PeerSeq(1) THEN "ESTAB" ELSE p.st
           u == IF new <= p.n - p.una THEN p.una + new ELSE p.una
           q == [p EXCEPT !.st = s, !.una = u]
           synced == p.st \in {"SYN_RCVD", "ESTAB"} /\ m.f \in {"ACK", "FIN"}
           rn == Add(p.rnxt, 1)
           gd == Append(p.got, m.data)
           ms == Add(m.seq, 1)
<1>1. Peer = PSet
  BY DEF Peer
<1>2. p \in PSet /\ p.una <= p.n /\ p.una \in Nat /\ p.n \in Nat /\ p.rnxt \in Seq0 /\ p.got \in Got
      /\ p.st \in PeerStates
  BY PeerFields DEF Peer, Types, PeerTypes
<1>3. m.seq \in Seq0 /\ ms \in Seq0 /\ rn \in Seq0 /\ m.data \in 0 .. Junk /\ m.ack \in Seq0
  BY <1>2, SegFields, AddSeq
<1>4. gd \in Got
  BY <1>2, <1>3, Appended
<1>5. new \in Nat
  <2>1. PeerSeq(1 + p.una) \in Seq0
    BY <1>2, PeerNumbers
  <2> QED
    BY <1>3, <2>1, DistIs
<1>6. u \in Nat /\ u <= p.n
  BY <1>2, <1>5
<1>7. s \in PeerStates
  BY <1>2 DEF PeerStates
<1>8. q = [p EXCEPT !.st = IF @ = "SYN_RCVD" /\ m.ack = PeerSeq(1) THEN "ESTAB" ELSE @,
                    !.una = IF new <= p.n - @ THEN @ + new ELSE @]
  BY <1>2
<1>9. /\ q.st = s /\ q.una = u /\ q.gotFin = p.gotFin /\ q.got = p.got /\ q.rnxt = p.rnxt
      /\ q.irs = p.irs /\ q \in PSet /\ q.n = p.n /\ q.fin = p.fin /\ q.segs = p.segs
      /\ q.listens = p.listens
  BY <1>2, <1>6, <1>7
<1>10. p' = CASE m.f = "SYN" /\ p.st \in {"LISTEN", "SYN_SENT"} ->
            [p EXCEPT !.st = "SYN_RCVD", !.irs = m.seq, !.rnxt = ms]
       [] m.f = "SYN_ACK" /\ p.st = "SYN_SENT" /\ m.ack = PeerSeq(1) ->
            [p EXCEPT !.st = "ESTAB", !.irs = m.seq, !.rnxt = ms]
       [] m.f = "SYN_ACK" /\ p.st = "SYN_RCVD" /\ m.seq = p.irs /\ m.ack = PeerSeq(1) ->
            [p EXCEPT !.st = "ESTAB"]
       [] m.f = "RST" /\ p.st \in {"SYN_RCVD", "ESTAB"} /\ m.seq = p.rnxt ->
            [p EXCEPT !.st = "RESET"]
       [] synced /\ m.seq # p.rnxt -> IF p.st = "ESTAB" THEN q ELSE p
       [] synced /\ m.seq = p.rnxt /\ q.st = "ESTAB" /\ m.f = "ACK" ->
            IF m.data = 0 \/ q.gotFin THEN q
            ELSE [q EXCEPT !.got = Append(@, m.data), !.rnxt = Add(@, 1)]
       [] synced /\ m.seq = p.rnxt /\ q.st = "ESTAB" /\ m.f = "FIN" ->
            [q EXCEPT !.gotFin = TRUE, !.rnxt = Add(@, 1)]
       [] OTHER -> p
  BY <1>8 DEF PeerTake
<1>11. [q EXCEPT !.got = Append(@, m.data), !.rnxt = Add(@, 1)] = [q EXCEPT !.got = gd, !.rnxt = rn]
  BY <1>9
<1>12. [q EXCEPT !.gotFin = TRUE, !.rnxt = Add(@, 1)] = [q EXCEPT !.gotFin = TRUE, !.rnxt = rn]
  BY <1>9
<1> HIDE DEF Got, q, rn, gd, ms, new
<1>13. \/ /\ m.f = "SYN" /\ p.st \in {"LISTEN", "SYN_SENT"}
          /\ p' = [p EXCEPT !.st = "SYN_RCVD", !.irs = m.seq, !.rnxt = ms]
       \/ /\ m.f = "SYN_ACK" /\ p.st = "SYN_SENT" /\ m.ack = PeerSeq(1)
          /\ p' = [p EXCEPT !.st = "ESTAB", !.irs = m.seq, !.rnxt = ms]
       \/ /\ m.f = "SYN_ACK" /\ p.st = "SYN_RCVD" /\ m.ack = PeerSeq(1)
          /\ p' = [p EXCEPT !.st = "ESTAB"]
       \/ m.f = "RST" /\ p.st \in {"SYN_RCVD", "ESTAB"} /\ p' = [p EXCEPT !.st = "RESET"]
       \/ synced /\ p' = q
       \/ /\ synced /\ m.f = "ACK" /\ m.data # 0 /\ m.seq = p.rnxt /\ q.st = "ESTAB"
          /\ p' = [q EXCEPT !.got = gd, !.rnxt = rn]
       \/ /\ synced /\ m.f = "FIN" /\ q.st = "ESTAB"
          /\ p' = [q EXCEPT !.gotFin = TRUE, !.rnxt = rn]
       \/ p' = p
  BY <1>10, <1>11, <1>12
<1>14. CASE m.f = "SYN" /\ p.st \in {"LISTEN", "SYN_SENT"}
            /\ p' = [p EXCEPT !.st = "SYN_RCVD", !.irs = m.seq, !.rnxt = ms]
  <2>1. p' \in PSet /\ p'.n = p.n /\ p'.fin = p.fin /\ p'.segs = p.segs /\ p'.listens = p.listens
        /\ p'.una = p.una /\ p'.st = "SYN_RCVD" /\ p'.irs = m.seq /\ p'.rnxt = ms
        /\ p'.got = p.got /\ p'.gotFin = p.gotFin
    BY <1>2, <1>3, <1>14 DEF PeerStates
  <2> QED
    BY <1>1, <1>2, <1>14, <2>1 DEF ms
<1>15. CASE /\ m.f = "SYN_ACK" /\ p.st = "SYN_SENT" /\ m.ack = PeerSeq(1)
            /\ p' = [p EXCEPT !.st = "ESTAB", !.irs = m.seq, !.rnxt = ms]
  <2>1. p' \in PSet /\ p'.n = p.n /\ p'.fin = p.fin /\ p'.segs = p.segs /\ p'.listens = p.listens
        /\ p'.una = p.una /\ p'.st = "ESTAB" /\ p'.irs = m.seq /\ p'.rnxt = ms
        /\ p'.got = p.got /\ p'.gotFin = p.gotFin
    BY <1>2, <1>3, <1>15 DEF PeerStates
  <2> QED
    BY <1>1, <1>2, <1>15, <2>1 DEF ms
<1>16. CASE /\ m.f = "SYN_ACK" /\ p.st = "SYN_RCVD" /\ m.ack = PeerSeq(1)
            /\ p' = [p EXCEPT !.st = "ESTAB"]
  <2>1. p' \in PSet /\ p'.n = p.n /\ p'.fin = p.fin /\ p'.segs = p.segs /\ p'.listens = p.listens
        /\ p'.una = p.una /\ p'.st = "ESTAB" /\ p'.irs = p.irs /\ p'.rnxt = p.rnxt
        /\ p'.got = p.got /\ p'.gotFin = p.gotFin
    BY <1>2, <1>16 DEF PeerStates
  <2> QED
    BY <1>1, <1>2, <1>16, <2>1
<1>17. CASE m.f = "RST" /\ p.st \in {"SYN_RCVD", "ESTAB"} /\ p' = [p EXCEPT !.st = "RESET"]
  <2>1. p' \in PSet /\ p'.n = p.n /\ p'.fin = p.fin /\ p'.segs = p.segs /\ p'.listens = p.listens
        /\ p'.una = p.una /\ p'.st = "RESET" /\ p'.irs = p.irs /\ p'.rnxt = p.rnxt
        /\ p'.got = p.got /\ p'.gotFin = p.gotFin
    BY <1>2, <1>17 DEF PeerStates
  <2> QED
    BY <1>1, <1>2, <1>17, <2>1
<1>18. CASE synced /\ p' = q
  BY <1>1, <1>2, <1>6, <1>9, <1>18
<1>19. CASE /\ synced /\ m.f = "ACK" /\ m.data # 0 /\ m.seq = p.rnxt /\ q.st = "ESTAB"
            /\ p' = [q EXCEPT !.got = gd, !.rnxt = rn]
  <2>1. p' \in PSet /\ p'.n = q.n /\ p'.fin = q.fin /\ p'.segs = q.segs /\ p'.listens = q.listens
        /\ p'.una = q.una /\ p'.st = q.st /\ p'.irs = q.irs /\ p'.rnxt = rn
        /\ p'.got = gd /\ p'.gotFin = q.gotFin
    BY <1>3, <1>4, <1>9, <1>19
  <2>2. p.st = "SYN_RCVD" => m.ack = PeerSeq(1)
    BY <1>9, <1>19
  <2> QED
    BY <1>1, <1>6, <1>9, <1>19, <2>1, <2>2 DEF rn, gd
<1>20. CASE /\ synced /\ m.f = "FIN" /\ q.st = "ESTAB"
            /\ p' = [q EXCEPT !.gotFin = TRUE, !.rnxt = rn]
  <2>1. p' \in PSet /\ p'.n = q.n /\ p'.fin = q.fin /\ p'.segs = q.segs /\ p'.listens = q.listens
        /\ p'.una = q.una /\ p'.st = q.st /\ p'.irs = q.irs /\ p'.rnxt = rn /\ p'.got = q.got
    BY <1>3, <1>9, <1>20
  <2>2. p.st = "SYN_RCVD" => m.ack = PeerSeq(1)
    BY <1>9, <1>20
  <2> QED
    <3>1. p' \in Peer /\ p'.n = p.n /\ p'.fin = p.fin /\ p'.segs = p.segs
          /\ p'.listens = p.listens /\ p'.una <= p.n
      BY <1>1, <1>6, <1>9, <2>1
    <3>2. m.f = "FIN" /\ p.st \in {"SYN_RCVD", "ESTAB"} /\ p'.st = "ESTAB"
      BY <1>20, <2>1
    <3>3. p'.irs = p.irs /\ p'.rnxt = Add(p.rnxt, 1) /\ p'.got = p.got
      BY <1>9, <2>1 DEF rn
    <3> QED
      BY <2>2, <3>1, <3>2, <3>3
<1>21. CASE p' = p
  BY <1>1, <1>2, <1>21
<1> QED
  BY <1>13, <1>14, <1>15, <1>16, <1>17, <1>18, <1>19, <1>20, <1>21

LEMMA TypesPeerRecv ==
  ASSUME Types, NEW m \in toPeer, PeerRecv(m)
  PROVE  Types'
<1>1. PlainTypes' /\ FlagTypes' /\ SarTypes' /\ MemTypes' /\ RxmTypes' /\ EventTypes'
      /\ (rt \in RtTimer)'
  BY DEF Types, PlainTypes, FlagTypes, SarTypes, MemTypes, RxmTypes, EventTypes, PeerRecv,
         appVars, evVars, timeVars
<1>2. NetTypes'
  BY DEF Types, NetTypes, PeerRecv
<1>3. p' \in Peer /\ p'.n = p.n /\ p'.fin = p.fin /\ p'.segs = p.segs /\ p'.una <= p.n
  BY TakeFields DEF PeerRecv, Types, NetTypes
<1>4. PeerTypes'
  BY <1>3 DEF Types, PeerTypes, FinNo
<1> QED
  BY <1>1, <1>2, <1>4 DEF Types

LEMMA TypesStutter ==
  ASSUME Types, UNCHANGED vars
  PROVE  Types'
BY DEF Types, PlainTypes, FlagTypes, SarTypes, MemTypes, RxmTypes, EventTypes, NetTypes,
       PeerTypes, FinNo, vars, appVars, evVars, timeVars

LEMMA TypesStep ==
  ASSUME Types, [Next]_vars
  PROVE  Types'
<1>1. CASE Application
  BY <1>1, TypesAppOpen, TypesAppSyn, TypesAppWrite, TypesAppClose DEF Application
<1>2. CASE EventEngine
  BY <1>2, TypesEventEngine
<1>3. CASE Timers
  BY <1>3, TypesAckTimeout, TypesRtTimeout, TypesCloseTimeout DEF Timers
<1>4. CASE TxEngine
  BY <1>4, TypesTxSyn, TypesTxData, TypesTxFin, TypesTxRt, TypesTxAck, TypesTxRst DEF TxEngine
<1>5. CASE RxEngine
  BY <1>5, TypesRxAck, TypesRxSyn, TypesRxSynAck, TypesRxFin, TypesRxRst DEF RxEngine
<1>6. CASE \E m \in toToe : RxLoad(m) \/ RxDrop(m)
  BY <1>6, TypesRxLoad, TypesRxDrop
<1>7. CASE PeerStep
  BY <1>7, TypesPeerStep
<1>8. CASE \E m \in toPeer : PeerRecv(m)
  BY <1>8, TypesPeerRecv
<1>9. CASE UNCHANGED vars
  BY <1>9, TypesStutter
<1> QED
  BY <1>1, <1>2, <1>3, <1>4, <1>5, <1>6, <1>7, <1>8, <1>9 DEF Next

LEMMA TypesTypeOK == Types => TypeOK
<1> SUFFICES ASSUME Types PROVE TypeOK
  OBVIOUS
<1>1. GoodEvent \subseteq Event
  BY DEF GoodEvent
<1>2. apEv \in Seq(Event) /\ tmEv \in Seq(Event) /\ txq \in Seq(Event)
  BY <1>1, Widened DEF Types, EventTypes
<1>3. rxm = None \/ rxm.m \in Segment
  BY RxmFields
<1>4. p.st \in PeerStates
  BY PeerFields
<1> QED
  BY <1>2, <1>3, <1>4 DEF Types, TypeOK, PlainTypes, FlagTypes, SarTypes, AppSar, MemTypes,
                          RtTimer, NetTypes

\* Every table entry, event and segment is of its type, whether one end opens
\* the connection or both do.
THEOREM TypeCorrect == Spec => []TypeOK
<1>1. Spec => []Types
  <2>1. Types /\ [Next]_vars => Types'
    BY TypesStep
  <2> QED
    BY InitTypes, <2>1, PTL DEF Spec
<1> QED
  BY <1>1, TypesTypeOK, PTL

----------------------------------------------------------------------------
(* The engine has not heard from the peer. *)

LEMMA InKinds ==
  ASSUME NEW e \in GoodEvent, NEW S, e.t \in S
  PROVE  /\ e \in Kinds(S)
         /\ e.t \notin {"SYN", "SYN_ACK"} \/ e.cnt # 0 => e \in NoDraw(S)
BY DEF Kinds, NoDraw

LEMMA KindsWiden ==
  ASSUME NEW S, NEW T, S \subseteq T
  PROVE  Kinds(S) \subseteq Kinds(T) /\ NoDraw(S) \subseteq NoDraw(T) /\ NoDraw(S) \subseteq Kinds(T)
BY DEF Kinds, NoDraw

LEMMA SynEvent ==
  /\ Ev("SYN", 0, 0) \in GoodEvent /\ Ev("SYN", 0, 0).t = "SYN" /\ Ev("SYN", 0, 0).cnt = 0
  /\ Ev("SYN_ACK", 0, 0) \in GoodEvent /\ Ev("SYN_ACK", 0, 0).t = "SYN_ACK" /\ Ev("SYN_ACK", 0, 0).cnt = 0
  /\ Ev("SYN_ACK", 1, 0) \in GoodEvent /\ Ev("SYN_ACK", 1, 0).t = "SYN_ACK" /\ Ev("SYN_ACK", 1, 0).cnt = 1
<1>1. 0 \in 0 .. MaxRetries /\ 1 \in 0 .. MaxRetries
  BY Constants
<1> QED
  BY <1>1, EventIs

\* Events that may always come while the connection is being set up.
LEMMA PlainEvents ==
  ASSUME NEW S, {"ACK", "ACK_NODELAY", "RST"} \subseteq S
  PROVE  /\ Ev("ACK", 0, 0) \in NoDraw(S) /\ Ev("ACK_NODELAY", 0, 0) \in NoDraw(S)
         /\ \A a \in Seq0 : Ev("RST", 0, a) \in NoDraw(S)
<1>1. Ev("ACK", 0, 0) \in NoDraw(S)
  BY SimpleEvents, InKinds
<1>2. Ev("ACK_NODELAY", 0, 0) \in NoDraw(S)
  BY SimpleEvents, InKinds
<1>3. \A a \in Seq0 : Ev("RST", 0, a) \in NoDraw(S)
  BY SimpleEvents, InKinds
<1> QED
  BY <1>1, <1>2, <1>3

\* What is known of segments of an earlier connection.
LEMMA OldOnes ==
  ASSUME NEW m \in OldSegs
  PROVE  /\ m \in Segment
         /\ m.f = "SYN" => m.seq # PeerIsn
         /\ m.f \in {"SYN_ACK", "ACK", "FIN"} =>
              m.ack # 0 /\ \A n \in Isns : Dist(n, m.ack) > MaxMoves + 1
         /\ m.f \in {"ACK", "FIN"} => Dist(PeerIsn, m.seq) > MaxMoves + 1
BY Constants, NumbersAssumption

LEMMA OldNotDone ==
  ASSUME NEW m \in OldSegs, m.f \in {"SYN_ACK", "ACK", "FIN"}
  PROVE  m.ack \notin FirstNumbers
<1>1. m.ack # 0 /\ \A n \in Isns : Dist(n, m.ack) > MaxMoves + 1
  BY OldOnes
<1>2. \A n \in Isns : Dist(n, Add(n, 1)) = 1
  BY DistOne, Space
<1>3. \A n \in Isns : m.ack # Add(n, 1)
  <2> TAKE n \in Isns
  <2>1. Dist(n, m.ack) > MaxMoves + 1 /\ Dist(n, Add(n, 1)) = 1 /\ MaxMoves \in Nat
    BY <1>1, <1>2, Space
  <2>2. ASSUME m.ack = Add(n, 1) PROVE FALSE
    <3>1. 1 > MaxMoves + 1
      BY <2>1, <2>2
    <3> QED
      BY <2>1, <3>1
  <2> QED
    BY <2>2
<1> QED
  BY <1>1, <1>3 DEF FirstNumbers

LEMMA FirstQueued ==
  ASSUME FirstEvents, NEW e \in Kinds(CallKinds \ {"SYN"}), txq' = txq \/ txq' = Append(txq, e)
  PROVE  txq' \in Seq(Kinds(CallKinds)) /\ (NoSynEvent => NoSynEvent')
<1>1. e \in Kinds(CallKinds) /\ txq \in Seq(Kinds(CallKinds))
  BY KindsWiden DEF FirstEvents
<1>2. txq' \in Seq(Kinds(CallKinds))
  BY <1>1, Appended
<1>3. NoSynEvent => NoSynEvent'
  BY Appended DEF NoSynEvent
<1> QED
  BY <1>2, <1>3

LEMMA CallEvents ==
  /\ \A t \in {"ACK", "ACK_NODELAY", "SYN_ACK"} : Ev(t, 0, 0) \in Kinds(CallKinds \ {"SYN"})
  /\ Ev("SYN_ACK", 1, 0) \in Kinds(CallKinds \ {"SYN"})
  /\ \A a \in Seq0 : Ev("RST", 0, a) \in Kinds(CallKinds \ {"SYN"})
BY SimpleEvents, SynEvent, InKinds DEF CallKinds

LEMMA UnheardAppOpen ==
  ASSUME Types, ~SimOpen, Unheard, AppOpen
  PROVE  Unheard'
<1>1. Empty'
  BY DEF Unheard, Empty, AppOpen, appVars, evVars, timeVars
<1>2. FirstSegs'
  BY DEF Unheard, FirstSegs, AppOpen, appVars, evVars, timeVars
<1>3. StaleOnce'
  BY DEF Unheard, StaleOnce, AppOpen, appVars, evVars, timeVars
<1>4. FirstEvents'
  BY DEF Unheard, FirstEvents, AppOpen, appVars, evVars, timeVars
<1>5. OneOpens'
  BY DEF Unheard, OneOpens, NoSyn, NoSynEvent, AppOpen, appVars, evVars, timeVars
<1> QED
  BY <1>1, <1>2, <1>3, <1>4, <1>5 DEF Unheard

LEMMA UnheardAppSyn ==
  ASSUME Types, ~SimOpen, Unheard, AppSyn
  PROVE  Unheard'
<1>1. Empty'
  BY DEF Unheard, Empty, AppSyn, appVars, evVars, timeVars
<1>2. FirstSegs'
  BY DEF Unheard, FirstSegs, AppSyn, appVars, evVars, timeVars
<1>3. StaleOnce'
  BY DEF Unheard, StaleOnce, AppSyn, appVars, evVars, timeVars
<1>4. FirstEvents'
  BY DEF Unheard, FirstEvents, AppSyn, appVars, evVars, timeVars
<1>5. OneOpens'
  BY DEF Unheard, OneOpens, NoSyn, NoSynEvent, AppSyn, appVars, evVars, timeVars
<1> QED
  BY <1>1, <1>2, <1>3, <1>4, <1>5 DEF Unheard

LEMMA UnheardAckTimeout ==
  ASSUME Types, ~SimOpen, Unheard, AckTimeout
  PROVE  Unheard'
<1>1. Empty'
  BY DEF Unheard, Empty, AckTimeout, appVars, evVars, timeVars
<1>2. FirstSegs'
  BY DEF Unheard, FirstSegs, AckTimeout, appVars, evVars, timeVars
<1>3. StaleOnce'
  BY DEF Unheard, StaleOnce, AckTimeout, appVars, evVars, timeVars
<1>4. FirstEvents'
  <2>1. txq' \in Seq(Kinds(CallKinds))
    BY FirstQueued, CallEvents DEF Unheard, AckTimeout
  <2> QED
    BY <2>1 DEF Unheard, FirstEvents, AckTimeout, appVars
<1>5. OneOpens'
  <2>1. NoSynEvent => NoSynEvent'
    BY FirstQueued, CallEvents DEF Unheard, AckTimeout
  <2> QED
    BY <2>1 DEF Unheard, OneOpens, NoSyn, AckTimeout, appVars, timeVars
<1> QED
  BY <1>1, <1>2, <1>3, <1>4, <1>5 DEF Unheard

LEMMA UnheardRtTimeout ==
  ASSUME Types, ~SimOpen, Unheard, RtTimeout
  PROVE  Unheard'
<1>1. Empty'
  <2>1. rt'.active => rt.active /\ rt'.type = rt.type
    BY DEF RtTimeout, Types, RtTimer
  <2> QED
    BY <2>1 DEF Unheard, Empty, RtTimeout
<1>2. FirstSegs'
  BY DEF Unheard, FirstSegs, RtTimeout, appVars, evVars, timeVars
<1>3. StaleOnce'
  BY DEF Unheard, StaleOnce, RtTimeout, appVars, evVars, timeVars
<1>4. FirstEvents'
  <2>1. tmEv' \in Seq(NoDraw({"SYN", "SYN_ACK"}))
    <3>1. CASE MayRetry /\ tmEv' = Append(tmEv, Ev(rt.type, rt.retries + 1, 0))
      <4>1. rt.type \in {"SYN", "SYN_ACK"} /\ rt.retries + 1 \in 0 .. MaxRetries /\ rt.retries + 1 # 0
        BY <3>1, Fields, Constants DEF MayRetry, Unheard, Empty, RtTimeout
      <4>2. Ev(rt.type, rt.retries + 1, 0) \in NoDraw({"SYN", "SYN_ACK"})
        BY <4>1, EventIs DEF NoDraw
      <4> QED
        BY <3>1, <4>2, Appended DEF Unheard, FirstEvents
    <3>2. CASE tmEv' = tmEv
      BY <3>2 DEF Unheard, FirstEvents
    <3> QED
      BY <3>1, <3>2 DEF RtTimeout
  <2> QED
    BY <2>1 DEF Unheard, FirstEvents, RtTimeout
<1>5. OneOpens'
  <2>1. ~p.listens => NoSyn'
    <3> HAVE ~p.listens
    <3>1. NoSyn
      BY DEF Unheard, OneOpens
    <3>2. rt'.active => rt.active /\ rt'.type = rt.type
      BY DEF RtTimeout, Types, RtTimer
    <3>3. tmEv' \in Seq(NoDraw({"SYN_ACK"}))
      <4>1. CASE MayRetry /\ tmEv' = Append(tmEv, Ev(rt.type, rt.retries + 1, 0))
        <5>1. rt.type = "SYN_ACK" /\ rt.retries + 1 \in 0 .. MaxRetries /\ rt.retries + 1 # 0
          BY <3>1, <4>1, Fields, Constants DEF MayRetry, Unheard, Empty, RtTimeout, NoSyn
        <5>2. Ev(rt.type, rt.retries + 1, 0) \in NoDraw({"SYN_ACK"})
          BY <5>1, EventIs DEF NoDraw
        <5> QED
          BY <3>1, <4>1, <5>2, Appended DEF NoSyn
      <4>2. CASE tmEv' = tmEv
        BY <3>1, <4>2 DEF NoSyn
      <4> QED
        BY <4>1, <4>2 DEF RtTimeout
    <3> QED
      BY <3>1, <3>2, <3>3 DEF NoSyn, RtTimeout
  <2> QED
    BY <2>1 DEF Unheard, OneOpens, NoSynEvent, RtTimeout
<1> QED
  BY <1>1, <1>2, <1>3, <1>4, <1>5 DEF Unheard

LEMMA UnheardCloseTimeout ==
  ASSUME Types, ~SimOpen, Unheard, CloseTimeout
  PROVE  Unheard'
<1>1. Empty'
  BY DEF Unheard, Empty, CloseTimeout, appVars, evVars, timeVars
<1>2. FirstSegs'
  BY DEF Unheard, FirstSegs, CloseTimeout, appVars, evVars, timeVars
<1>3. StaleOnce'
  BY DEF Unheard, StaleOnce, CloseTimeout, appVars, evVars, timeVars
<1>4. FirstEvents'
  BY DEF Unheard, FirstEvents, CloseTimeout, appVars, evVars, timeVars
<1>5. OneOpens'
  BY DEF Unheard, OneOpens, NoSyn, NoSynEvent, CloseTimeout, appVars, evVars, timeVars
<1> QED
  BY <1>1, <1>2, <1>3, <1>4, <1>5 DEF Unheard

LEMMA UnheardEventEngine ==
  ASSUME Types, ~SimOpen, Unheard, EventEngine
  PROVE  Unheard'
<1>1. Empty'
  BY DEF Unheard, Empty, EventEngine, appVars, evVars, timeVars
<1>2. FirstSegs'
  BY DEF Unheard, FirstSegs, EventEngine, appVars, evVars, timeVars
<1>3. StaleOnce'
  BY DEF Unheard, StaleOnce, EventEngine, appVars, evVars, timeVars
<1>4. FirstEvents'
  <2>1. CASE tmEv # <<>>
    <3>1. Head(tmEv) \in NoDraw({"SYN", "SYN_ACK"}) /\ Tail(tmEv) \in Seq(NoDraw({"SYN", "SYN_ACK"}))
      BY <2>1, Tailed DEF Unheard, FirstEvents
    <3>2. Head(tmEv) \in Kinds(CallKinds)
      BY <3>1, KindsWiden DEF CallKinds
    <3>3. AckDelay(Head(tmEv)) /\ tmEv' = Tail(tmEv) /\ apEv' = apEv
      BY <2>1 DEF EventEngine
    <3>4. txq' \in Seq(Kinds(CallKinds))
      BY <3>2, <3>3, Delayed DEF Unheard, FirstEvents
    <3> QED
      BY <3>1, <3>3, <3>4 DEF Unheard, FirstEvents, EventEngine, appVars
  <2>2. CASE tmEv = <<>>
    <3>1. AckDelay(Head(apEv)) /\ tmEv' = tmEv /\ apEv' = Tail(apEv) /\ apEv # <<>>
      BY <2>2 DEF EventEngine
    <3>2. apEv = <<Ev("SYN", 0, 0)>>
      BY <3>1 DEF Unheard, FirstEvents
    <3>3. Head(apEv) = Ev("SYN", 0, 0) /\ apEv' = <<>>
      BY <3>1, <3>2
    <3>4. Ev("SYN", 0, 0) \in Kinds(CallKinds)
      BY SynEvent, InKinds DEF CallKinds
    <3>5. txq' \in Seq(Kinds(CallKinds))
      BY <3>1, <3>3, <3>4, Delayed DEF Unheard, FirstEvents
    <3> QED
      BY <3>1, <3>3, <3>5 DEF Unheard, FirstEvents, EventEngine, appVars
  <2> QED
    BY <2>1, <2>2
<1>5. OneOpens'
  <2>1. ~p.listens => NoSyn' /\ NoSynEvent' /\ apEv' = <<>>
    <3> HAVE ~p.listens
    <3>1. NoSyn /\ NoSynEvent /\ apEv = <<>>
      BY DEF Unheard, OneOpens
    <3>2. tmEv # <<>> /\ AckDelay(Head(tmEv)) /\ tmEv' = Tail(tmEv) /\ apEv' = apEv
      BY <3>1 DEF EventEngine
    <3>3. Head(tmEv) \in NoDraw({"SYN_ACK"}) /\ Tail(tmEv) \in Seq(NoDraw({"SYN_ACK"}))
      BY <3>1, <3>2, Tailed DEF NoSyn
    <3>4. Head(tmEv) \in Kinds(CallKinds \ {"SYN"})
      BY <3>3, KindsWiden DEF CallKinds
    <3>5. NoSynEvent'
      BY <3>1, <3>2, <3>4, Delayed DEF NoSynEvent
    <3> QED
      BY <3>1, <3>2, <3>3, <3>5 DEF NoSyn, EventEngine, timeVars
  <2> QED
    BY <2>1 DEF Unheard, OneOpens, EventEngine, appVars
<1> QED
  BY <1>1, <1>2, <1>3, <1>4, <1>5 DEF Unheard

\* The TX engine takes an event and sends x.
LEMMA UnheardSent ==
  ASSUME Types, Unheard, NEW x, txq # <<>>, txq' = Tail(txq), Send({x}), x.data = 0, x.f # "FIN",
         x.f \in {"SYN_ACK", "ACK"} => x.ack # PeerSeq(1),
         x.f = "SYN" => p.listens, tx'.finSent = FALSE, tx'.not_ackd \in FirstNumbers,
         rt' = rt \/ rt'.type = "SYN_ACK" \/ (p.listens /\ rt'.type = "SYN"),
         UNCHANGED <<st, recvd, open, written, closes, dlv, rxm, apEv, tmEv, toToe, p>>
  PROVE  Unheard'
<1>1. \A m \in toPeer' : m \in toPeer \/ m = x
  BY Kept
<1>2. Empty'
  BY <1>1 DEF Unheard, Empty
<1>3. FirstSegs' /\ StaleOnce'
  BY <1>1 DEF Unheard, FirstSegs, StaleOnce
<1>4. txq' \in Seq(Kinds(CallKinds)) /\ (NoSynEvent => NoSynEvent')
  BY Tailed DEF Unheard, FirstEvents, NoSynEvent
<1>5. FirstEvents'
  BY <1>4 DEF Unheard, FirstEvents
<1>6. OneOpens'
  BY <1>1, <1>4 DEF Unheard, OneOpens, NoSyn
<1> QED
  BY <1>2, <1>3, <1>5, <1>6 DEF Unheard

\* The RX engine is done with a segment that changed nothing but the state.
LEMMA UnheardTransition ==
  ASSUME Types, Unheard, NEW e \in Kinds(CallKinds \ {"SYN"}), txq' = txq \/ txq' = Append(txq, e),
         rxm' = None, st' \in {st, "CLOSED"},
         rt'.active => rt.active /\ rt'.type = rt.type,
         open' = open \/ (open' = "fail" /\ p.listens),
         UNCHANGED <<recvd, tx, written, closes, dlv, apEv, tmEv, toPeer, toToe, p>>
  PROVE  Unheard'
<1>1. Empty'
  BY DEF Unheard, Empty
<1>2. FirstSegs' /\ StaleOnce'
  BY DEF Unheard, FirstSegs, StaleOnce
<1>3. txq' \in Seq(Kinds(CallKinds)) /\ (NoSynEvent => NoSynEvent')
  BY FirstQueued DEF Unheard
<1>4. FirstEvents'
  BY <1>3 DEF Unheard, FirstEvents
<1>5. OneOpens'
  BY <1>3 DEF Unheard, OneOpens, NoSyn
<1> QED
  BY <1>1, <1>2, <1>4, <1>5 DEF Unheard

\* The first event, while the connection is being set up.
LEMMA FirstEvent ==
  ASSUME Unheard, NEW t, TxEvent(t)
  PROVE  /\ t \in CallKinds /\ txq # <<>> /\ txq' = Tail(txq)
         /\ t = "SYN" => p.listens
<1>1. txq # <<>> /\ txq' = Tail(txq) /\ Head(txq).t = t
  BY DEF TxEvent
<1>2. t \in CallKinds
  BY <1>1, Tailed DEF Unheard, FirstEvents, Kinds
<1>3. NoSynEvent => t # "SYN"
  BY <1>1, Tailed DEF NoSynEvent, Kinds
<1> QED
  BY <1>1, <1>2, <1>3 DEF Unheard, OneOpens

LEMMA UnheardTxSyn ==
  ASSUME Types, Unheard, NEW t \in {"SYN", "SYN_ACK"}, TxSyn(t)
  PROVE  Unheard'
<1> DEFINE ack == IF t = "SYN" THEN 0 ELSE recvd
<1>1. txq # <<>> /\ txq' = Tail(txq) /\ (t = "SYN" => p.listens)
  BY FirstEvent DEF TxSyn
<1>2. UNCHANGED <<st, recvd, open, written, closes, dlv, rxm, apEv, tmEv, toToe, p>>
  BY DEF TxSyn, appVars
<1>3. rt'.type = t
  BY DEF TxSyn, SetRt, Types, RtTimer
<1>4. t = "SYN_ACK" => ack # PeerSeq(1)
  BY DEF Unheard, FirstSegs
<1>5. ack \in Seq0
  BY Zero DEF Types, PlainTypes
<1> HIDE DEF ack
<1>6. CASE \E n \in Isns : TxInit(n) /\ Send({Seg(t, n, ack, 0, AnyWin)})
  <2>1. PICK n \in Isns : TxInit(n) /\ Send({Seg(t, n, ack, 0, AnyWin)})
    BY <1>6
  <2> DEFINE x == Seg(t, n, ack, 0, AnyWin)
  <2>2. x.f = t /\ x.ack = ack /\ x.data = 0
    BY DEF Seg
  <2>3. tx'.finSent = FALSE /\ tx'.not_ackd = Add(n, 1)
    BY <2>1 DEF TxInit, Types, SarTypes, TxSar
  <2>4. Send({x})
    BY <2>1
  <2> HIDE DEF x
  <2>5. tx'.not_ackd \in FirstNumbers
    BY <2>3 DEF FirstNumbers
  <2> QED
    BY <1>1, <1>2, <1>3, <1>4, <2>2, <2>3, <2>4, <2>5, UnheardSent
<1>7. CASE Send({Seg(t, tx.ackd, ack, 0, AnyWin)}) /\ UNCHANGED <<iss, tx, app>>
  <2> DEFINE x == Seg(t, tx.ackd, ack, 0, AnyWin)
  <2>1. x.f = t /\ x.ack = ack /\ x.data = 0
    BY DEF Seg
  <2>2. tx'.finSent = FALSE /\ tx'.not_ackd \in FirstNumbers
    BY <1>7, Fields DEF Unheard, Empty, FirstEvents
  <2>3. Send({x})
    BY <1>7
  <2> HIDE DEF x
  <2> QED
    BY <1>1, <1>2, <1>3, <1>4, <2>1, <2>2, <2>3, UnheardSent
<1> QED
  BY <1>6, <1>7 DEF TxSyn, ack

LEMMA UnheardTxAck ==
  ASSUME Types, Unheard, TxAck \/ TxRst
  PROVE  Unheard'
<1>1. txq # <<>> /\ txq' = Tail(txq)
  BY FirstEvent DEF TxAck, TxRst
<1>2. UNCHANGED <<st, recvd, open, written, closes, dlv, rxm, apEv, tmEv, toToe, p, tx, rt>>
  BY DEF TxAck, TxRst, appVars, timeVars
<1>3. tx'.finSent = FALSE /\ tx'.not_ackd \in FirstNumbers
  BY <1>2, Fields DEF Unheard, Empty, FirstEvents
<1>4. PICK x : Send({x}) /\ x.data = 0 /\ x.f \in {"ACK", "RST"} /\ (x.f = "ACK" => x.ack = recvd)
  <2> DEFINE a == Seg("ACK", tx.not_ackd, recvd, 0, AnyWin)
             r == Seg("RST", tx.not_ackd, Head(txq).arg, 0, AnyWin)
  <2>1. a.f = "ACK" /\ a.ack = recvd /\ a.data = 0 /\ r.f = "RST" /\ r.data = 0
    BY DEF Seg
  <2>2. Send({a}) \/ Send({r})
    BY DEF TxAck, TxRst
  <2> HIDE DEF a, r
  <2> QED
    BY <2>1, <2>2
<1>5. recvd # PeerSeq(1)
  BY DEF Unheard, FirstSegs
<1> QED
  BY <1>1, <1>2, <1>3, <1>4, <1>5, UnheardSent

\* There is nothing to write, and no data or FIN to send.
LEMMA UnheardNever ==
  ASSUME Unheard
  PROVE  ~AppWrite /\ ~AppClose /\ ~TxData /\ ~TxFin /\ ~TxRt
<1>1. ~AppWrite /\ ~AppClose
  BY DEF Unheard, OneOpens, AppWrite, AppClose
<1>2. ~TxData /\ ~TxFin /\ ~TxRt
  BY FirstEvent DEF TxData, TxFin, TxRt, CallKinds
<1> QED
  BY <1>1, <1>2

LEMMA TimerCleared ==
  ASSUME Types, NEW b, ClearRt(b)
  PROVE  rt'.active => rt.active /\ rt'.type = rt.type
BY DEF Types, RtTimer, ClearRt

\* In SYN_RECEIVED nothing of an earlier connection is left that carries data.
LEMMA UnheardRxAck ==
  ASSUME Types, Unheard, RxAck
  PROVE  Unheard' /\ st' \in {st, "CLOSED"} /\ st # "SYN_RECEIVED"
<1> DEFINE m == rxm.m
           e == Ev("RST", 0, Add(m.seq, SegLen(m)))
<1>1. rxm # None /\ rxm' = None /\ m.f = "ACK" /\ m.seq \in Seq0
  BY RxmFields DEF RxAck, RxTransition
<1>2. m \in OldSegs
  BY <1>1 DEF Unheard, FirstSegs, FirstSeg
<1>3. st \in {"CLOSED", "SYN_SENT"}
  BY <1>1, <1>2 DEF Unheard, OneOpens, StaleOnce, Stale
<1>4. AckDelay(e) /\ SetState(st) /\ UNCHANGED <<tx, app, recvd, dlv, ct>>
  BY <1>3 DEF RxAck
<1>5. e \in Kinds(CallKinds \ {"SYN"})
  <2>1. SegLen(m) \in Int
    BY DEF SegLen
  <2>2. Add(m.seq, SegLen(m)) \in Seq0
    BY <1>1, <2>1, AddSeq
  <2> QED
    BY <2>2, CallEvents
<1>6. rt'.active => rt.active /\ rt'.type = rt.type
  BY TimerCleared DEF RxAck
<1>7. UNCHANGED <<written, closes, open, apEv, tmEv, toPeer, toToe, p>>
  BY DEF RxAck, appVars
<1> HIDE DEF e
<1>8. txq' = txq \/ txq' = Append(txq, e)
  BY <1>4, DelayedCases
<1>9. st' \in {st, "CLOSED"}
  BY <1>4 DEF SetState
<1> QED
  BY <1>1, <1>3, <1>4, <1>5, <1>6, <1>7, <1>8, <1>9, UnheardTransition

LEMMA UnheardRxFin ==
  ASSUME Types, Unheard, RxFin
  PROVE  Unheard' /\ st' = st
<1>1. rxm # None /\ rxm' = None
  BY DEF RxFin, RxTransition
<1>2. st \in {"CLOSED", "SYN_SENT", "SYN_RECEIVED"}
  BY DEF Unheard, OneOpens
<1>3. AckDelay(Ev("ACK", 0, 0)) /\ SetState(st) /\ UNCHANGED <<tx, app, recvd, dlv, ct>>
  BY <1>2 DEF RxFin
<1>4. Ev("ACK", 0, 0) \in Kinds(CallKinds \ {"SYN"})
  BY CallEvents
<1>5. rt'.active => rt.active /\ rt'.type = rt.type
  BY TimerCleared DEF RxFin
<1>6. UNCHANGED <<written, closes, open, apEv, tmEv, toPeer, toToe, p>>
  BY DEF RxFin, appVars
<1>7. txq' = txq \/ txq' = Append(txq, Ev("ACK", 0, 0))
  BY <1>3, DelayedCases
<1>8. st' = st
  BY <1>3 DEF SetState
<1> QED
  BY <1>1, <1>3, <1>4, <1>5, <1>6, <1>7, <1>8, UnheardTransition

LEMMA UnheardRxRst ==
  ASSUME Types, Unheard, RxRst
  PROVE  Unheard' /\ st' \in {st, "CLOSED"}
<1>1. rxm # None /\ rxm' = None
  BY DEF RxRst, RxTransition
<1>2. Ev("ACK", 0, 0) \in Kinds(CallKinds \ {"SYN"})
  BY CallEvents
<1>3. rt'.active => rt.active /\ rt'.type = rt.type
  <2>1. rt' = rt \/ ClearRt(TRUE)
    BY DEF RxRst
  <2> QED
    BY <2>1, TimerCleared
<1>4. UNCHANGED <<recvd, tx, written, closes, dlv, apEv, tmEv, txq, toPeer, toToe, p>>
  BY DEF RxRst, evVars
<1>5. st' \in {st, "CLOSED"}
  BY DEF RxRst, SetState
<1>6. open' = open \/ (open' = "fail" /\ p.listens)
  BY DEF RxRst, Unheard, OneOpens
<1> QED
  BY <1>1, <1>2, <1>3, <1>4, <1>5, <1>6, UnheardTransition

LEMMA AddOneSame ==
  ASSUME NEW a \in Seq0, NEW b \in Seq0, Add(a, 1) = Add(b, 1)
  PROVE  a = b
<1>1. 1 \in Nat /\ 1 < SeqSpace
  BY Space
<1>2. Add(a, 1) = IF a + 1 < SeqSpace THEN a + 1 ELSE a + 1 - SeqSpace
  BY <1>1, AddIs
<1>3. Add(b, 1) = IF b + 1 < SeqSpace THEN b + 1 ELSE b + 1 - SeqSpace
  BY <1>1, AddIs
<1>4. a \in Nat /\ b \in Nat /\ a < SeqSpace /\ b < SeqSpace /\ SeqSpace \in Nat
  BY SeqInt, Space
<1>5. (IF a + 1 < SeqSpace THEN a + 1 ELSE a + 1 - SeqSpace)
        = (IF b + 1 < SeqSpace THEN b + 1 ELSE b + 1 - SeqSpace)
  BY <1>2, <1>3
<1> QED
  BY ONLY <1>4, <1>5

\* A SYN of an earlier connection is answered; the peer's is not, unless it is
\* the first.
LEMMA UnheardRxSyn ==
  ASSUME Types, Unheard, RxSyn, rxm.m \in OldSegs \/ st # "CLOSED"
  PROVE  Unheard' /\ st' \in {st, "CLOSED", "SYN_RECEIVED"}
<1> DEFINE m == rxm.m
<1>1. rxm # None /\ rxm' = None /\ m.f = "SYN" /\ m.seq \in Seq0 /\ m.win \in Windows
  BY RxmFields DEF RxSyn, RxTransition
<1>2. UNCHANGED <<written, closes, open, dlv, apEv, tmEv, rt, toPeer, toToe, p>>
  BY DEF RxSyn, appVars, timeVars
<1>3. CASE /\ st \in {"CLOSED", "SYN_SENT"} /\ recvd' = Add(m.seq, 1)
           /\ TxSarUpdate(0, m.win, 0, FALSE) /\ AckDelay(Ev("SYN_ACK", 0, 0))
           /\ SetState("SYN_RECEIVED")
  <2>1. m \in OldSegs
    BY <1>1, <1>3 DEF Unheard, FirstSegs, FirstSeg, OneOpens
  <2>2. recvd' # PeerSeq(1)
    <3>1. m.seq # PeerIsn /\ PeerIsn \in Seq0
      BY <1>1, <2>1, OldOnes, Space
    <3> QED
      BY <1>1, <1>3, <3>1, AddOneSame DEF PeerSeq
  <2>3. tx'.not_ackd = tx.not_ackd /\ tx'.finSent = tx.finSent
    <3>1. 0 \in 0 .. FastDups /\ 0 \in Seq0 /\ FALSE \in BOOLEAN
      BY Zero, Constants
    <3> QED
      BY <1>1, <1>3, <3>1, SarUpdated
  <2>4. st' = "SYN_RECEIVED"
    BY <1>3 DEF SetState
  <2>5. txq' \in Seq(Kinds(CallKinds)) /\ (NoSynEvent => NoSynEvent')
    BY <1>3, FirstQueued, CallEvents, DelayedCases DEF Unheard
  <2>6. Empty'
    BY <1>2, <2>3 DEF Unheard, Empty
  <2>7. FirstSegs'
    BY <1>1, <1>2, <2>2 DEF Unheard, FirstSegs
  <2>8. StaleOnce'
    <3>1. \A a \in toToe : ~Stale(a)
      BY <1>1, <2>1 DEF Unheard, StaleOnce, Stale
    <3> QED
      BY <1>1, <1>2, <3>1 DEF StaleOnce
  <2>9. FirstEvents'
    BY <1>1, <1>2, <2>3, <2>5 DEF Unheard, FirstEvents
  <2>10. OneOpens'
    BY <1>2, <2>4, <2>5 DEF Unheard, OneOpens, NoSyn
  <2> QED
    BY <2>4, <2>6, <2>7, <2>8, <2>9, <2>10 DEF Unheard
<1>4. CASE st = "SYN_RECEIVED"
  <2> DEFINE r == Ev("RST", 0, Add(m.seq, 1))
  <2>1. \/ AckDelay(Ev("SYN_ACK", 1, 0)) /\ SetState(st)
        \/ AckDelay(r) /\ SetState("CLOSED")
    BY <1>4 DEF RxSyn
  <2>2. UNCHANGED <<recvd, tx>>
    BY <1>4 DEF RxSyn
  <2>3. r \in Kinds(CallKinds \ {"SYN"}) /\ Ev("SYN_ACK", 1, 0) \in Kinds(CallKinds \ {"SYN"})
    <3>1. Add(m.seq, 1) \in Seq0
      BY <1>1, AddSeq
    <3> QED
      BY <3>1, CallEvents
  <2> HIDE DEF r
  <2>4. st' \in {st, "CLOSED"}
    BY <2>1 DEF SetState
  <2>5. PICK e \in Kinds(CallKinds \ {"SYN"}) : txq' = txq \/ txq' = Append(txq, e)
    BY <2>1, <2>3, DelayedCases
  <2> QED
    BY <1>1, <1>2, <2>2, <2>4, <2>5, UnheardTransition
<1> HIDE DEF m
<1> QED
  BY <1>3, <1>4 DEF RxSyn, Unheard, OneOpens, m

LEMMA UnheardRxSynAck ==
  ASSUME Types, Unheard, RxSynAck, ~(st = "SYN_SENT" /\ AllAcked(rxm.m))
  PROVE  Unheard' /\ st' \in {st, "CLOSED"}
<1> DEFINE m == rxm.m
           r == Ev("RST", 0, Add(m.seq, 1))
<1>1. rxm # None /\ rxm' = None /\ m.seq \in Seq0
  BY RxmFields DEF RxSynAck, RxTransition
<1>2. UNCHANGED <<recvd, tx, written, closes, open, dlv, apEv, tmEv, toPeer, toToe, p>>
  BY DEF RxSynAck
<1>3. rt'.active => rt.active /\ rt'.type = rt.type
  BY TimerCleared DEF RxSynAck
<1>4. \/ AckDelay(r) /\ SetState("CLOSED")
      \/ AckDelay(Ev("ACK_NODELAY", 0, 0)) /\ SetState(st)
  BY DEF RxSynAck
<1>5. r \in Kinds(CallKinds \ {"SYN"}) /\ Ev("ACK_NODELAY", 0, 0) \in Kinds(CallKinds \ {"SYN"})
  <2>1. Add(m.seq, 1) \in Seq0
    BY <1>1, AddSeq
  <2> QED
    BY <2>1, CallEvents
<1> HIDE DEF r
<1>6. st' \in {st, "CLOSED"}
  BY <1>4 DEF SetState
<1>7. PICK e \in Kinds(CallKinds \ {"SYN"}) : txq' = txq \/ txq' = Append(txq, e)
  BY <1>4, <1>5, DelayedCases
<1> QED
  BY <1>1, <1>2, <1>3, <1>6, <1>7, UnheardTransition

LEMMA UnheardRxLoad ==
  ASSUME Types, Unheard, NEW m \in toToe, RxLoad(m) \/ RxDrop(m)
  PROVE  Unheard'
<1>1. UNCHANGED <<st, recvd, tx, open, written, closes, dlv, apEv, tmEv, txq, rt, toPeer, p>>
      /\ toToe' = toToe \ {m}
  BY DEF RxLoad, RxDrop, appVars, evVars, timeVars
<1>2. rxm' = rxm \/ (rxm = None /\ rxm'.m = m /\ rxm'.not_ackd = tx.not_ackd)
  BY DEF RxLoad, RxDrop
<1>3. Empty'
  BY <1>1 DEF Unheard, Empty
<1>4. FirstSegs'
  BY <1>1, <1>2 DEF Unheard, FirstSegs
<1>5. StaleOnce'
  BY <1>1, <1>2 DEF Unheard, StaleOnce
<1>6. FirstEvents'
  BY <1>1, <1>2 DEF Unheard, FirstEvents
<1>7. OneOpens'
  BY <1>1 DEF Unheard, OneOpens, NoSyn, NoSynEvent
<1> QED
  BY <1>3, <1>4, <1>5, <1>6, <1>7 DEF Unheard

\* The peer sends its SYN, or answers one.
LEMMA UnheardPeerStep ==
  ASSUME Types, Unheard, PeerStep
  PROVE  /\ Unheard' /\ p'.listens = p.listens /\ p'.irs = p.irs
         /\ p.listens => p'.st = p.st
<1>1. UNCHANGED <<st, recvd, tx, open, written, closes, dlv, rxm, apEv, tmEv, txq, rt, toPeer>>
  BY DEF PeerStep, appVars, evVars, timeVars
<1>2. p.st # "ESTAB"
  BY DEF Unheard, OneOpens
<1>3. PeerOpen \/ PeerSynAck
  BY <1>2 DEF PeerStep, PeerData, PeerAck, PeerFin, PeerReset
<1>4. p \in Peer
  BY DEF Types, PeerTypes
<1>5. /\ p'.listens = p.listens /\ p'.irs = p.irs /\ p'.rnxt = p.rnxt /\ p'.n = p.n
      /\ p'.fin = p.fin /\ p'.got = p.got /\ p'.gotFin = p.gotFin
      /\ p.listens => p'.st = p.st
      /\ ~p.listens => p'.st = "SYN_SENT"
  <2>1. CASE PeerOpen
    BY <2>1, <1>4 DEF PeerOpen, Sent, Peer, Unheard, OneOpens
  <2>2. CASE PeerSynAck
    BY <2>2, <1>4 DEF PeerSynAck, Sent, Peer, Unheard, OneOpens
  <2> QED
    BY <1>3, <2>1, <2>2
<1>6. PICK x : toToe' = toToe \cup {x} /\ FirstSeg(x, p') /\ ~Stale(x)
  <2>1. CASE PeerOpen
    <3> DEFINE x == Seg("SYN", PeerIsn, 0, 0, AnyWin)
    <3>1. x.f = "SYN" /\ x.seq = PeerIsn
      BY DEF Seg
    <3>2. toToe' = toToe \cup {x} /\ ~p.listens
      BY <2>1 DEF PeerOpen, PeerSend, Unheard, OneOpens
    <3> HIDE DEF x
    <3>3. ~Stale(x)
      BY <3>1, OldOnes DEF Stale
    <3> QED
      BY <1>5, <3>1, <3>2, <3>3 DEF FirstSeg
  <2>2. CASE PeerSynAck
    <3> DEFINE x == Seg("SYN_ACK", PeerIsn, p.rnxt, 0, AnyWin)
    <3>1. x.f = "SYN_ACK" /\ x.seq = PeerIsn /\ x.ack = p.rnxt
      BY DEF Seg
    <3>2. toToe' = toToe \cup {x} /\ p.listens /\ p.rnxt = Add(p.irs, 1) /\ p.st = "SYN_RCVD"
      BY <2>2 DEF PeerSynAck, PeerSend, Unheard, OneOpens
    <3> HIDE DEF x
    <3>3. ~Stale(x)
      BY <3>1 DEF Stale
    <3> QED
      BY <1>5, <3>1, <3>2, <3>3 DEF FirstSeg
  <2> QED
    BY <1>3, <2>1, <2>2
<1>7. \A m : FirstSeg(m, p) => FirstSeg(m, p')
  BY <1>5 DEF FirstSeg
<1>8. Empty'
  BY <1>1, <1>5 DEF Unheard, Empty
<1>9. FirstSegs'
  BY <1>1, <1>6, <1>7 DEF Unheard, FirstSegs
<1>10. StaleOnce'
  BY <1>1, <1>6 DEF Unheard, StaleOnce
<1>11. FirstEvents'
  BY <1>1 DEF Unheard, FirstEvents
<1>12. OneOpens'
  BY <1>1, <1>5 DEF Unheard, OneOpens, NoSyn, NoSynEvent
<1> QED
  BY <1>5, <1>8, <1>9, <1>10, <1>11, <1>12 DEF Unheard

\* No segment lets the peer believe that the engine has heard from it.
LEMMA UnheardPeerRecv ==
  ASSUME Types, Unheard, NEW m \in toPeer, PeerRecv(m)
  PROVE  /\ Unheard' /\ p'.listens = p.listens
         /\ \/ p'.irs = p.irs /\ (p'.st = p.st \/ p.st # "LISTEN")
            \/ m.f = "SYN" /\ p.st = "LISTEN" /\ p'.irs = m.seq
<1>1. UNCHANGED <<st, recvd, tx, open, written, closes, dlv, rxm, apEv, tmEv, txq, rt, toToe>>
      /\ toPeer' = toPeer \ {m} /\ p' = PeerTake(m)
  BY DEF PeerRecv, appVars, evVars, timeVars
<1>2. m \in Segment /\ m.data = 0 /\ m.f # "FIN" /\ (m.f \in {"SYN_ACK", "ACK"} => m.ack # PeerSeq(1))
  BY DEF Types, NetTypes, Unheard, Empty, FirstSegs
<1>3. p.st # "ESTAB" /\ (m.f = "SYN" => p.listens) /\ (p.st = "SYN_SENT" => ~p.listens)
      /\ (p.st = "SYN_RCVD" => p.listens) /\ (p.st = "LISTEN" => p.listens)
  BY DEF Unheard, OneOpens, NoSyn
<1>4. p'.n = p.n /\ p'.fin = p.fin /\ p'.listens = p.listens /\ p'.got = p.got /\ p'.gotFin = p.gotFin
  BY <1>1, <1>2, <1>3, TakeFields
<1>5. \/ p'.irs = p.irs /\ p'.rnxt = p.rnxt /\ (p'.st = p.st \/ (p.st = "SYN_RCVD" /\ p'.st = "RESET"))
      \/ m.f = "SYN" /\ p.st = "LISTEN" /\ p'.st = "SYN_RCVD" /\ p'.irs = m.seq
         /\ p'.rnxt = Add(m.seq, 1)
  BY <1>1, <1>2, <1>3, TakeFields
<1>6. \A x : FirstSeg(x, p) => FirstSeg(x, p')
  BY <1>4, <1>5 DEF FirstSeg
<1>7. Empty'
  BY <1>1, <1>4 DEF Unheard, Empty
<1>8. FirstSegs'
  BY <1>1, <1>6 DEF Unheard, FirstSegs
<1>9. StaleOnce'
  BY <1>1 DEF Unheard, StaleOnce
<1>10. FirstEvents'
  BY <1>1 DEF Unheard, FirstEvents
<1>11. OneOpens'
  BY <1>1, <1>3, <1>4, <1>5 DEF Unheard, OneOpens, NoSyn, NoSynEvent
<1> QED
  BY <1>4, <1>5, <1>7, <1>8, <1>9, <1>10, <1>11 DEF Unheard

----------------------------------------------------------------------------
(* What a step does to the queues and the timer. *)

LEMMA TmEvStep ==
  ASSUME Next
  PROVE  \/ tmEv' = tmEv
         \/ tmEv # <<>> /\ tmEv' = Tail(tmEv)
         \/ rt.active /\ MayRetry /\ tmEv' = Append(tmEv, Ev(rt.type, rt.retries + 1, 0))
<1>1. CASE Application
  BY <1>1 DEF Application, AppOpen, AppSyn, AppWrite, AppClose, evVars
<1>2. CASE EventEngine
  BY <1>2 DEF EventEngine
<1>3. CASE Timers
  BY <1>3 DEF Timers, AckTimeout, RtTimeout, CloseTimeout, evVars
<1>4. CASE TxEngine
  BY <1>4 DEF TxEngine, TxSyn, TxData, TxFin, TxRt, TxAck, TxRst
<1>5. CASE RxEngine
  BY <1>5 DEF RxEngine, RxAck, RxSyn, RxSynAck, RxFin, RxRst, evVars
<1>6. CASE \E m \in toToe : RxLoad(m) \/ RxDrop(m)
  BY <1>6 DEF RxLoad, RxDrop, evVars
<1>7. CASE PeerStep \/ \E m \in toPeer : PeerRecv(m)
  BY <1>7 DEF PeerStep, PeerRecv, evVars
<1> QED
  BY <1>1, <1>2, <1>3, <1>4, <1>5, <1>6, <1>7 DEF Next

LEMMA RtStep ==
  ASSUME Types, Next, rt'.active
  PROVE  \/ rt.active /\ rt'.type = rt.type
         \/ TxSyn("SYN") /\ rt'.type = "SYN"
         \/ TxSyn("SYN_ACK") /\ rt'.type = "SYN_ACK"
         \/ (TxData \/ TxFin \/ TxRt) /\ rt'.type = "RT"
<1>0. rt \in RtTimer
  BY DEF Types
<1>1. CASE Application
  BY <1>1 DEF Application, AppOpen, AppSyn, AppWrite, AppClose, timeVars
<1>2. CASE EventEngine
  BY <1>2 DEF EventEngine, timeVars
<1>3. CASE Timers
  BY <1>0, <1>3 DEF Timers, AckTimeout, RtTimeout, CloseTimeout, timeVars, RtTimer
<1>4. CASE TxEngine
  <2>1. \A t : SetRt(t) => rt'.type = t
    BY <1>0 DEF SetRt, RtTimer
  <2>2. CASE TxSyn("SYN")
    BY <2>1, <2>2 DEF TxSyn
  <2>3. CASE TxSyn("SYN_ACK")
    BY <2>1, <2>3 DEF TxSyn
  <2>4. CASE TxData
    BY <2>1, <2>4 DEF TxData
  <2>5. CASE TxFin
    BY <2>1, <2>5 DEF TxFin
  <2>6. CASE TxRt
    <3>1. SetRt("RT") \/ rt' = rt
      BY <2>6 DEF TxRt
    <3> QED
      BY <2>1, <2>6, <3>1
  <2>7. CASE TxAck \/ TxRst
    BY <2>7 DEF TxAck, TxRst, timeVars
  <2> QED
    BY <1>4, <2>2, <2>3, <2>4, <2>5, <2>6, <2>7 DEF TxEngine
<1>5. CASE RxEngine
  <2>1. rt' = rt \/ \E b : ClearRt(b)
    BY <1>5 DEF RxEngine, RxAck, RxSyn, RxSynAck, RxFin, RxRst, timeVars
  <2> QED
    BY <2>1, TimerCleared
<1>6. CASE \E m \in toToe : RxLoad(m) \/ RxDrop(m)
  BY <1>6 DEF RxLoad, RxDrop, timeVars
<1>7. CASE PeerStep \/ \E m \in toPeer : PeerRecv(m)
  BY <1>7 DEF PeerStep, PeerRecv, timeVars
<1> QED
  BY <1>1, <1>2, <1>3, <1>4, <1>5, <1>6, <1>7 DEF Next

LEMMA ToPeerStep ==
  ASSUME Next
  PROVE  TxEngine \/ \A m \in toPeer' : m \in toPeer
<1>1. CASE Application
  BY <1>1 DEF Application, AppOpen, AppSyn, AppWrite, AppClose
<1>2. CASE EventEngine
  BY <1>2 DEF EventEngine
<1>3. CASE Timers
  BY <1>3 DEF Timers, AckTimeout, RtTimeout, CloseTimeout
<1>5. CASE RxEngine
  BY <1>5 DEF RxEngine, RxAck, RxSyn, RxSynAck, RxFin, RxRst
<1>6. CASE \E m \in toToe : RxLoad(m) \/ RxDrop(m)
  BY <1>6 DEF RxLoad, RxDrop
<1>7. CASE PeerStep \/ \E m \in toPeer : PeerRecv(m)
  BY <1>7 DEF PeerStep, PeerRecv
<1> QED
  BY <1>1, <1>2, <1>3, <1>5, <1>6, <1>7 DEF Next

\* What an event puts into the network.
LEMMA TxSends ==
  ASSUME TxEngine, NEW m \in toPeer', m \notin toPeer
  PROVE  \/ \E t \in {"SYN", "SYN_ACK"} : TxSyn(t) /\ m.f = t /\ m.data = 0
                 /\ (m.seq = tx.ackd \/ \E n \in Isns : TxInit(n) /\ m.seq = n)
         \/ (TxAck \/ TxRst) /\ m.f \in {"ACK", "RST"} /\ m.data = 0
         \/ (TxData \/ TxFin \/ TxRt) /\ m.f \in {"ACK", "FIN"}
<1>1. CASE TxSyn("SYN") \/ TxSyn("SYN_ACK")
  <2>1. PICK t \in {"SYN", "SYN_ACK"} : TxSyn(t)
    BY <1>1
  <2> DEFINE ack == IF t = "SYN" THEN 0 ELSE recvd
  <2>2. CASE \E n \in Isns : TxInit(n) /\ Send({Seg(t, n, ack, 0, AnyWin)})
    <3>1. PICK n \in Isns : TxInit(n) /\ Send({Seg(t, n, ack, 0, AnyWin)})
      BY <2>2
    <3>2. m = Seg(t, n, ack, 0, AnyWin)
      BY <3>1, Kept
    <3>3. m.f = t /\ m.seq = n /\ m.data = 0
      BY <3>2 DEF Seg
    <3> QED
      BY <2>1, <3>1, <3>3
  <2>3. CASE Send({Seg(t, tx.ackd, ack, 0, AnyWin)})
    <3>1. m = Seg(t, tx.ackd, ack, 0, AnyWin)
      BY <2>3, Kept
    <3>2. m.f = t /\ m.seq = tx.ackd /\ m.data = 0
      BY <3>1 DEF Seg
    <3> QED
      BY <2>1, <3>2
  <2> QED
    BY <2>1, <2>2, <2>3 DEF TxSyn
<1>2. CASE TxAck \/ TxRst
  <2> DEFINE a == Seg("ACK", tx.not_ackd, recvd, 0, AnyWin)
             r == Seg("RST", tx.not_ackd, Head(txq).arg, 0, AnyWin)
  <2>1. a.f = "ACK" /\ a.data = 0 /\ r.f = "RST" /\ r.data = 0
    BY DEF Seg
  <2>2. Send({a}) \/ Send({r})
    BY <1>2 DEF TxAck, TxRst
  <2> HIDE DEF a, r
  <2>3. m = a \/ m = r
    BY <2>2, Kept
  <2> QED
    BY <1>2, <2>1, <2>3
<1>3. CASE TxData
  <2>1. m = Seg("ACK", tx.not_ackd, recvd, Head(txq).arg, AnyWin)
    BY <1>3, Kept DEF TxData
  <2> QED
    BY <1>3, <2>1 DEF Seg
<1>4. CASE TxFin
  <2>1. m = FinSeg(Head(txq).cnt)
    BY <1>4, Kept DEF TxFin
  <2> QED
    BY <1>4, <2>1 DEF FinSeg, Seg
<1>5. CASE TxRt
  <2> DEFINE X == Ring(tx.not_ackd - tx.ackd)
             F == IF X <= RtBurst /\ tx.finSent THEN {FinSeg(Head(txq).cnt)} ELSE {}
  <2>1. Send(RtData(X) \cup F)
    BY <1>5 DEF TxRt
  <2>a. \A x \in F : x = FinSeg(Head(txq).cnt)
    OBVIOUS
  <2> HIDE DEF X, F
  <2>2. m \in RtData(X) \/ m = FinSeg(Head(txq).cnt)
    BY <2>1, <2>a, Kept
  <2>3. \A x \in RtData(X) : x.f = "ACK"
    BY DEF RtData, Seg
  <2>4. FinSeg(Head(txq).cnt).f = "FIN"
    BY DEF FinSeg, Seg
  <2> QED
    BY <1>5, <2>2, <2>3, <2>4
<1> QED
  BY <1>1, <1>2, <1>3, <1>4, <1>5 DEF TxEngine

\* A SYN is repeated only after one was sent.
LEMMA NoSynKept ==
  ASSUME Types, Empty, NoSyn, Next, ~TxSyn("SYN")
  PROVE  NoSyn'
<1>1. tmEv' \in Seq(NoDraw({"SYN_ACK"}))
  <2>1. CASE tmEv' = tmEv
    BY <2>1 DEF NoSyn
  <2>2. CASE tmEv # <<>> /\ tmEv' = Tail(tmEv)
    BY <2>2, Tailed DEF NoSyn
  <2>3. CASE rt.active /\ MayRetry /\ tmEv' = Append(tmEv, Ev(rt.type, rt.retries + 1, 0))
    <3>1. rt.type = "SYN_ACK" /\ rt.retries + 1 \in 0 .. MaxRetries /\ rt.retries + 1 # 0
      BY <2>3, Fields, Constants DEF MayRetry, Empty, NoSyn
    <3>2. Ev(rt.type, rt.retries + 1, 0) \in NoDraw({"SYN_ACK"})
      BY <3>1, EventIs DEF NoDraw
    <3> QED
      BY <2>3, <3>2, Appended DEF NoSyn
  <2> QED
    BY <2>1, <2>2, <2>3, TmEvStep
<1>2. rt'.active => rt'.type # "SYN"
  BY RtStep DEF NoSyn
<1>3. \A m \in toPeer' : m.f # "SYN"
  BY ToPeerStep, TxSends DEF NoSyn
<1> QED
  BY <1>1, <1>2, <1>3 DEF NoSyn

\* Where an event that goes to the TX engine comes from.
QueuedBy(e) ==
  \/ EventEngine /\ txq = <<>> /\ tmEv # <<>> /\ e = Head(tmEv)
  \/ EventEngine /\ txq = <<>> /\ tmEv = <<>> /\ apEv # <<>> /\ e = Head(apEv)
  \/ e.t \in {"ACK", "ACK_NODELAY", "RST"} \/ e = Ev("SYN_ACK", 1, 0)
  \/ e = Ev("SYN_ACK", 0, 0) /\ RxSyn /\ st \in {"CLOSED", "SYN_SENT"}
  \/ e = Ev("RT", 0, 0) /\ RxAck /\ st \notin {"CLOSED", "SYN_SENT"} /\ DupAck(rxm.m)
  \/ e = Ev("FIN", 0, 0) /\ RxFin /\ st = "ESTABLISHED" /\ st' = "LAST_ACK"

TxqChange ==
  \/ txq' = txq
  \/ TxEngine /\ txq # <<>> /\ txq' = Tail(txq)
  \/ \E e \in GoodEvent : txq' = Append(txq, e) /\ QueuedBy(e)

LEMMA TxqEvent ==
  ASSUME NEW e \in GoodEvent, AckDelay(e), QueuedBy(e)
  PROVE  TxqChange
BY DelayedCases DEF TxqChange

LEMMA TxqPlain ==
  ASSUME NEW e \in GoodEvent, AckDelay(e), e.t \in {"ACK", "ACK_NODELAY", "RST"}
  PROVE  TxqChange
BY TxqEvent DEF QueuedBy

LEMMA TxqStep ==
  ASSUME Types, Next
  PROVE  TxqChange
<1>1. CASE Application
  BY <1>1 DEF Application, AppOpen, AppSyn, AppWrite, AppClose, evVars, TxqChange
<1>2. CASE EventEngine
  <2>1. CASE tmEv # <<>>
    <3>1. Head(tmEv) \in GoodEvent
      BY <2>1, Tailed DEF Types, EventTypes
    <3>2. AckDelay(Head(tmEv)) /\ QueuedBy(Head(tmEv))
      BY <1>2, <2>1 DEF EventEngine, QueuedBy
    <3> QED
      BY <3>1, <3>2, TxqEvent
  <2>2. CASE tmEv = <<>>
    <3>0. apEv # <<>> /\ AckDelay(Head(apEv)) /\ txq = <<>>
      BY <1>2, <2>2 DEF EventEngine
    <3>1. Head(apEv) \in GoodEvent
      BY <3>0, Tailed DEF Types, EventTypes
    <3>2. QueuedBy(Head(apEv))
      BY <1>2, <2>2, <3>0 DEF QueuedBy
    <3> QED
      BY <3>0, <3>1, <3>2, TxqEvent
  <2> QED
    BY <2>1, <2>2
<1>3. CASE AckTimeout
  <2>1. txq' = Append(txq, Ev("ACK", 0, 0))
    BY <1>3 DEF AckTimeout
  <2> QED
    BY <2>1, SimpleEvents DEF TxqChange, QueuedBy
<1>4. CASE RtTimeout \/ CloseTimeout
  BY <1>4 DEF RtTimeout, CloseTimeout, evVars, TxqChange
<1>5. CASE TxEngine
  <2>1. PICK t : TxEvent(t)
    BY <1>5 DEF TxEngine, TxSyn, TxData, TxFin, TxRt, TxAck, TxRst
  <2> QED
    BY <1>5, <2>1 DEF TxqChange, TxEvent
<1>6. CASE RxAck
  <2> DEFINE m == rxm.m
  <2>0. rxm # None /\ m.seq \in Seq0
    BY <1>6, RxmFields DEF RxAck, RxTransition
  <2>1. CASE st \in {"CLOSED", "SYN_SENT", "FIN_WAIT_2", "TIME_WAIT"}
    <3>1. AckDelay(Ev("RST", 0, Add(m.seq, SegLen(m))))
      BY <1>6, <2>1 DEF RxAck
    <3>2. SegLen(m) \in Int
      BY DEF SegLen
    <3>3. Add(m.seq, SegLen(m)) \in Seq0
      BY <2>0, <3>2, AddSeq
    <3> DEFINE e == Ev("RST", 0, Add(m.seq, SegLen(m)))
    <3>4. e \in GoodEvent /\ e.t = "RST"
      BY <3>3, SimpleEvents
    <3> HIDE DEF e
    <3> QED
      BY <3>1, <3>4, TxqPlain DEF e
  <2>2. CASE st \notin {"CLOSED", "SYN_SENT", "FIN_WAIT_2", "TIME_WAIT"}
    <3>1. PICK room \in BOOLEAN : AckEvent(m, room)
      BY <1>6, <2>2 DEF RxAck
    <3>2. CASE DupCount(m) = FastDups /\ ~FastDone(m)
      <4>1. AckDelay(Ev("RT", 0, 0))
        BY <3>1, <3>2 DEF AckEvent
      <4>2. DupAck(m)
        BY <3>2, Constants DEF DupCount
      <4> QED
        BY <1>6, <2>2, <4>1, <4>2, SimpleEvents, TxqEvent DEF QueuedBy
    <3>3. CASE NoEvent
      BY <3>3 DEF NoEvent, TxqChange
    <3>4. CASE AckDelay(Ev("ACK", 0, 0)) \/ AckDelay(Ev("ACK_NODELAY", 0, 0))
      BY <3>4, SimpleEvents, TxqPlain
    <3> QED
      BY <3>1, <3>2, <3>3, <3>4 DEF AckEvent
  <2> QED
    BY <2>1, <2>2
<1>7. CASE RxSyn
  <2> DEFINE m == rxm.m
             r == Ev("RST", 0, Add(m.seq, 1))
  <2>0. rxm # None /\ m.seq \in Seq0
    BY <1>7, RxmFields DEF RxSyn, RxTransition
  <2>1. r \in GoodEvent /\ r.t = "RST"
    <3>1. Add(m.seq, 1) \in Seq0
      BY <2>0, AddSeq
    <3> QED
      BY <3>1, SimpleEvents
  <2>2. \/ AckDelay(Ev("SYN_ACK", 0, 0)) /\ st \in {"CLOSED", "SYN_SENT"}
        \/ AckDelay(Ev("SYN_ACK", 1, 0)) \/ AckDelay(r) \/ AckDelay(Ev("ACK_NODELAY", 0, 0))
    BY <1>7 DEF RxSyn
  <2> HIDE DEF r
  <2>3. CASE AckDelay(Ev("SYN_ACK", 0, 0)) /\ st \in {"CLOSED", "SYN_SENT"}
    BY <1>7, <2>3, SynEvent, TxqEvent DEF QueuedBy
  <2>4. CASE AckDelay(Ev("SYN_ACK", 1, 0))
    BY <2>4, SynEvent, TxqEvent DEF QueuedBy
  <2>5. CASE AckDelay(r) \/ AckDelay(Ev("ACK_NODELAY", 0, 0))
    BY <2>1, <2>5, SimpleEvents, TxqPlain
  <2> QED
    BY <2>2, <2>3, <2>4, <2>5
<1>8. CASE RxSynAck
  <2> DEFINE m == rxm.m
             r == Ev("RST", 0, Add(m.seq, 1))
  <2>0. rxm # None /\ m.seq \in Seq0
    BY <1>8, RxmFields DEF RxSynAck, RxTransition
  <2>1. r \in GoodEvent /\ r.t = "RST"
    <3>1. Add(m.seq, 1) \in Seq0
      BY <2>0, AddSeq
    <3> QED
      BY <3>1, SimpleEvents
  <2>2. AckDelay(r) \/ AckDelay(Ev("ACK_NODELAY", 0, 0))
    BY <1>8 DEF RxSynAck
  <2> HIDE DEF r
  <2> QED
    BY <2>1, <2>2, SimpleEvents, TxqPlain
<1>9. CASE RxFin
  <2>1. \/ st = "ESTABLISHED" /\ AckDelay(Ev("FIN", 0, 0)) /\ st' = "LAST_ACK"
        \/ AckDelay(Ev("ACK", 0, 0))
    BY <1>9 DEF RxFin, SetState
  <2>2. CASE st = "ESTABLISHED" /\ AckDelay(Ev("FIN", 0, 0)) /\ st' = "LAST_ACK"
    BY <1>9, <2>2, SimpleEvents, TxqEvent DEF QueuedBy
  <2> QED
    BY <2>1, <2>2, SimpleEvents, TxqPlain
<1>10. CASE RxRst
  BY <1>10 DEF RxRst, evVars, TxqChange
<1>11. CASE \E m \in toToe : RxLoad(m) \/ RxDrop(m)
  BY <1>11 DEF RxLoad, RxDrop, evVars, TxqChange
<1>12. CASE PeerStep \/ \E m \in toPeer : PeerRecv(m)
  BY <1>12 DEF PeerStep, PeerRecv, evVars, TxqChange
<1> QED
  BY <1>1, <1>2, <1>3, <1>4, <1>5, <1>6, <1>7, <1>8, <1>9, <1>10, <1>11, <1>12
     DEF Next, Timers, RxEngine

LEMMA QueueIn ==
  ASSUME NEW S, txq \in Seq(S), TxqChange, \A e \in GoodEvent : QueuedBy(e) => e \in S
  PROVE  txq' \in Seq(S)
<1>1. CASE txq # <<>> /\ txq' = Tail(txq)
  BY <1>1, Tailed
<1>2. CASE \E e \in GoodEvent : txq' = Append(txq, e) /\ QueuedBy(e)
  BY <1>2, Appended
<1> QED
  BY <1>1, <1>2 DEF TxqChange

\* The first event stays until the TX engine takes it.
LEMMA QueueTailIn ==
  ASSUME NEW S, NEW T, txq \in Seq(T), txq # <<>>, Tail(txq) \in Seq(S), TxqChange, ~TxEngine,
         \A e \in GoodEvent : QueuedBy(e) => e \in S /\ e \in T
  PROVE  txq' # <<>> /\ Head(txq') = Head(txq) /\ Tail(txq') \in Seq(S)
<1>1. CASE txq' = txq
  BY <1>1
<1>2. CASE \E e \in GoodEvent : txq' = Append(txq, e) /\ QueuedBy(e)
  <2>1. PICK e \in S : txq' = Append(txq, e) /\ e \in T
    BY <1>2
  <2>2. txq' \in Seq(T) /\ Head(txq') = Head(txq) /\ txq' # <<>>
    BY <2>1
  <2>3. Tail(txq') = Append(Tail(txq), e)
    BY <2>1
  <2> QED
    BY <2>1, <2>2, <2>3, Appended
<1> QED
  BY <1>1, <1>2 DEF TxqChange

\* What a step does to the state and to the session.
StateChange ==
  \/ st' = st /\ life' = life
  \/ st' = st /\ life' = "live" /\ (life = "live" \/ (life = "unused" /\ Listening))
  \/ st' = "CLOSED" /\ life' = "released"
  \/ AppOpen /\ st' = st /\ life' # "unused"
  \/ AppSyn /\ st' = "SYN_SENT" /\ life' = life
  \/ RxSyn /\ st \in {"CLOSED", "SYN_SENT"} /\ st' = "SYN_RECEIVED" /\ life' = life
  \/ RxSynAck /\ st = "SYN_SENT" /\ AllAcked(rxm.m) /\ st' = "ESTABLISHED" /\ life' = life
  \/ /\ RxAck /\ st = "SYN_RECEIVED" /\ AllAcked(rxm.m) /\ st' = "ESTABLISHED"
     /\ life' = life
  \/ RxAck /\ st = "CLOSING" /\ st' = "TIME_WAIT" /\ life' = life
  \/ /\ AppClose /\ st \in {"ESTABLISHED", "FIN_WAIT_1", "FIN_WAIT_2"}
     /\ st' = "FIN_WAIT_1" /\ life' = life
  \/ /\ RxFin /\ st \in {"ESTABLISHED", "FIN_WAIT_1", "FIN_WAIT_2"}
     /\ st' \in {"LAST_ACK", "TIME_WAIT", "CLOSING"} /\ life' = life

LEMMA StateStep ==
  ASSUME Types, Next
  PROVE  StateChange
<1>1. CASE AppOpen
  BY <1>1 DEF AppOpen, StateChange
<1>2. CASE AppSyn
  BY <1>2 DEF AppSyn, StateChange
<1>3. CASE AppWrite \/ EventEngine
  BY <1>3 DEF AppWrite, EventEngine, StateChange
<1>4. CASE AppClose
  BY <1>4 DEF AppClose, StateChange
<1>5. CASE Timers
  BY <1>5 DEF Timers, AckTimeout, RtTimeout, CloseTimeout, StateChange
<1>6. CASE TxEngine
  BY <1>6 DEF TxEngine, TxSyn, TxData, TxFin, TxRt, TxAck, TxRst, StateChange
<1>7. CASE RxAck
  <2>1. SetState(st) \/ SetState(AckState(AllAcked(rxm.m)))
    BY <1>7 DEF RxAck
  <2>2. \/ SetState(st) \/ SetState("CLOSED")
        \/ SetState("ESTABLISHED") /\ st = "SYN_RECEIVED" /\ AllAcked(rxm.m)
        \/ SetState("TIME_WAIT") /\ st = "CLOSING"
    BY <2>1 DEF AckState
  <2> QED
    BY <1>7, <2>2 DEF SetState, StateChange
<1>8. CASE RxSyn
  <2>1. \/ SetState("SYN_RECEIVED") /\ st \in {"CLOSED", "SYN_SENT"}
        \/ SetState(st) \/ SetState("CLOSED")
    BY <1>8 DEF RxSyn
  <2> QED
    BY <1>8, <2>1 DEF SetState, StateChange
<1>9. CASE RxSynAck
  <2>1. \/ SetState("ESTABLISHED") /\ st = "SYN_SENT" /\ AllAcked(rxm.m)
        \/ SetState(st) \/ SetState("CLOSED")
    BY <1>9 DEF RxSynAck
  <2> QED
    BY <1>9, <2>1 DEF SetState, StateChange
<1>10. CASE RxFin
  <2>1. \/ /\ st \in {"ESTABLISHED", "FIN_WAIT_1", "FIN_WAIT_2"}
           /\ SetState("LAST_ACK") \/ SetState("TIME_WAIT") \/ SetState("CLOSING")
        \/ SetState(st)
    BY <1>10 DEF RxFin
  <2> QED
    BY <1>10, <2>1 DEF SetState, StateChange
<1>11. CASE RxRst
  BY <1>11 DEF RxRst, SetState, StateChange
<1>12. CASE \E m \in toToe : RxLoad(m) \/ RxDrop(m)
  BY <1>12 DEF RxLoad, RxDrop, StateChange
<1>13. CASE PeerStep \/ \E m \in toPeer : PeerRecv(m)
  BY <1>13 DEF PeerStep, PeerRecv, StateChange
<1> QED
  BY <1>1, <1>2, <1>3, <1>4, <1>5, <1>6, <1>7, <1>8, <1>9, <1>10, <1>11, <1>12, <1>13
     DEF Next, Application, RxEngine

LEMMA OpenStep ==
  ASSUME Next
  PROVE  \/ open' = open \/ AppOpen \/ (AppSyn /\ open' = "wait")
         \/ open' = "fail" /\ rt.active /\ rt.type = "SYN"
         \/ open' \in {"fail", "ok"} /\ st = "SYN_SENT"
<1>1. CASE Application
  BY <1>1 DEF Application, AppOpen, AppSyn, AppWrite, AppClose
<1>2. CASE EventEngine
  BY <1>2 DEF EventEngine, appVars
<1>3. CASE Timers
  BY <1>3 DEF Timers, AckTimeout, RtTimeout, CloseTimeout, appVars
<1>4. CASE TxEngine
  BY <1>4 DEF TxEngine, TxSyn, TxData, TxFin, TxRt, TxAck, TxRst, appVars
<1>5. CASE RxEngine
  BY <1>5 DEF RxEngine, RxAck, RxSyn, RxSynAck, RxFin, RxRst, appVars
<1>6. CASE \E m \in toToe : RxLoad(m) \/ RxDrop(m)
  BY <1>6 DEF RxLoad, RxDrop, appVars
<1>7. CASE PeerStep \/ \E m \in toPeer : PeerRecv(m)
  BY <1>7 DEF PeerStep, PeerRecv, appVars
<1> QED
  BY <1>1, <1>2, <1>3, <1>4, <1>5, <1>6, <1>7 DEF Next

\* What a step does to the events of the application.
LEMMA ApEvStep ==
  ASSUME Next
  PROVE  \/ apEv' = apEv \/ AppSyn \/ AppWrite \/ AppClose
         \/ EventEngine /\ tmEv = <<>> /\ apEv # <<>> /\ apEv' = Tail(apEv)
<1>1. CASE Application
  BY <1>1 DEF Application, AppOpen, evVars
<1>2. CASE EventEngine
  BY <1>2 DEF EventEngine
<1>3. CASE Timers
  BY <1>3 DEF Timers, AckTimeout, RtTimeout, CloseTimeout, evVars
<1>4. CASE TxEngine
  BY <1>4 DEF TxEngine, TxSyn, TxData, TxFin, TxRt, TxAck, TxRst
<1>5. CASE RxEngine
  BY <1>5 DEF RxEngine, RxAck, RxSyn, RxSynAck, RxFin, RxRst, evVars
<1>6. CASE \E m \in toToe : RxLoad(m) \/ RxDrop(m)
  BY <1>6 DEF RxLoad, RxDrop, evVars
<1>7. CASE PeerStep \/ \E m \in toPeer : PeerRecv(m)
  BY <1>7 DEF PeerStep, PeerRecv, evVars
<1> QED
  BY <1>1, <1>2, <1>3, <1>4, <1>5, <1>6, <1>7 DEF Next

LEMMA PeerOnly ==
  ASSUME Next
  PROVE  p' = p \/ PeerStep \/ \E m \in toPeer : PeerRecv(m)
<1>1. CASE Application
  BY <1>1 DEF Application, AppOpen, AppSyn, AppWrite, AppClose
<1>2. CASE EventEngine
  BY <1>2 DEF EventEngine
<1>3. CASE Timers
  BY <1>3 DEF Timers, AckTimeout, RtTimeout, CloseTimeout
<1>4. CASE TxEngine
  BY <1>4 DEF TxEngine, TxSyn, TxData, TxFin, TxRt, TxAck, TxRst
<1>5. CASE RxEngine
  BY <1>5 DEF RxEngine, RxAck, RxSyn, RxSynAck, RxFin, RxRst
<1>6. CASE \E m \in toToe : RxLoad(m) \/ RxDrop(m)
  BY <1>6 DEF RxLoad, RxDrop
<1> QED
  BY <1>1, <1>2, <1>3, <1>4, <1>5, <1>6 DEF Next

----------------------------------------------------------------------------
(* The phases in which the engine has not heard from the peer. *)

HeardSyn == RxSyn /\ st = "CLOSED" /\ rxm.m \notin OldSegs
HeardSynAck == RxSynAck /\ st = "SYN_SENT" /\ AllAcked(rxm.m)

LEMMA UnheardStep ==
  ASSUME Types, ~SimOpen, Unheard, Next, ~HeardSyn, ~HeardSynAck
  PROVE  Unheard' /\ p'.listens = p.listens
<1>1. Unheard'
  <2>1. CASE Application
    BY <2>1, UnheardAppOpen, UnheardAppSyn, UnheardNever DEF Application
  <2>2. CASE EventEngine
    BY <2>2, UnheardEventEngine
  <2>3. CASE Timers
    BY <2>3, UnheardAckTimeout, UnheardRtTimeout, UnheardCloseTimeout DEF Timers
  <2>4. CASE TxEngine
    <3>1. CASE \E t \in {"SYN", "SYN_ACK"} : TxSyn(t)
      BY <3>1, UnheardTxSyn
    <3> QED
      BY <2>4, <3>1, UnheardTxAck, UnheardNever DEF TxEngine
  <2>5. CASE RxAck \/ RxFin \/ RxRst
    BY <2>5, UnheardRxAck, UnheardRxFin, UnheardRxRst
  <2>6. CASE RxSyn
    BY <2>6, UnheardRxSyn DEF HeardSyn
  <2>7. CASE RxSynAck
    BY <2>7, UnheardRxSynAck DEF HeardSynAck
  <2>8. CASE \E m \in toToe : RxLoad(m) \/ RxDrop(m)
    BY <2>8, UnheardRxLoad
  <2>9. CASE PeerStep
    BY <2>9, UnheardPeerStep
  <2>10. CASE \E m \in toPeer : PeerRecv(m)
    BY <2>10, UnheardPeerRecv
  <2> QED
    BY <2>1, <2>2, <2>3, <2>4, <2>5, <2>6, <2>7, <2>8, <2>9, <2>10 DEF Next, RxEngine
<1>2. p'.listens = p.listens
  BY PeerOnly, UnheardPeerStep, UnheardPeerRecv
<1> QED
  BY <1>1, <1>2

LEMMA PhaseInit == Init /\ ~SimOpen => Fresh \/ Look
<1> SUFFICES ASSUME Init, ~SimOpen PROVE Fresh \/ Look
  OBVIOUS
<1>1. /\ p.n = 0 /\ p.fin = FALSE /\ p.got = <<>> /\ p.gotFin = FALSE /\ p.listens \in BOOLEAN
      /\ p.st = IF p.listens THEN "LISTEN" ELSE "CLOSED"
  BY DEF Init
<1>2. tx.finSent = FALSE /\ tx.ackd = 0 /\ tx.not_ackd = 0 /\ rt.active = FALSE
  BY DEF Init
<1>3. Empty
  BY <1>1, <1>2 DEF Init, Empty
<1>4. FirstSegs
  <2>1. \A m \in toToe : m \in OldSegs
    BY DEF Init
  <2>2. recvd # PeerSeq(1)
    BY NumbersAssumption DEF Init, PeerSeq
  <2> QED
    BY <2>1, <2>2 DEF Init, FirstSegs, FirstSeg
<1>5. StaleOnce
  BY DEF Init, StaleOnce
<1>6. FirstEvents /\ NoSyn /\ NoSynEvent
  BY <1>2 DEF Init, FirstEvents, NoSyn, NoSynEvent, FirstNumbers
<1>7. OneOpens
  BY <1>1, <1>6 DEF Init, OneOpens
<1>8. Unheard
  BY <1>3, <1>4, <1>5, <1>6, <1>7 DEF Unheard
<1>9. CASE p.listens
  BY <1>1, <1>2, <1>6, <1>8, <1>9 DEF Init, Look, Idle
<1>10. CASE ~p.listens
  BY <1>1, <1>2, <1>8, <1>10 DEF Init, Fresh
<1> QED
  BY <1>9, <1>10

\* Events that reach the TX engine while the connection is being set up.
LEMMA CallQueued ==
  ASSUME Types, Unheard, NEW e \in GoodEvent, QueuedBy(e)
  PROVE  \/ e \in NoDraw(CallKinds \ {"SYN"})
         \/ /\ EventEngine /\ tmEv # <<>> /\ e \in NoDraw({"SYN", "SYN_ACK"})
            /\ NoSyn => e \in NoDraw({"SYN_ACK"})
         \/ EventEngine /\ tmEv = <<>> /\ apEv # <<>>
         \/ RxSyn /\ st \in {"CLOSED", "SYN_SENT"}
<1>1. CASE EventEngine /\ tmEv # <<>> /\ e = Head(tmEv)
  BY <1>1, Tailed DEF Unheard, FirstEvents, NoSyn
<1>2. CASE e.t \in {"ACK", "ACK_NODELAY", "RST"}
  BY <1>2, InKinds DEF CallKinds
<1>3. CASE e = Ev("SYN_ACK", 1, 0)
  BY <1>3, SynEvent, InKinds DEF CallKinds
<1>4. CASE e = Ev("RT", 0, 0) /\ RxAck /\ st \notin {"CLOSED", "SYN_SENT"}
  BY <1>4, UnheardRxAck DEF Unheard, OneOpens
<1>5. CASE e = Ev("FIN", 0, 0) /\ st = "ESTABLISHED"
  BY <1>5 DEF Unheard, OneOpens
<1> QED
  BY <1>1, <1>2, <1>3, <1>4, <1>5 DEF QueuedBy

LEMMA NoSynEventKept ==
  ASSUME Types, Unheard, NoSyn, NoSynEvent, Next, ~(EventEngine /\ tmEv = <<>> /\ apEv # <<>>)
  PROVE  NoSynEvent'
<1>1. ASSUME NEW e \in GoodEvent, QueuedBy(e) PROVE e \in Kinds(CallKinds \ {"SYN"})
  <2>1. NoDraw(CallKinds \ {"SYN"}) \subseteq Kinds(CallKinds \ {"SYN"})
        /\ NoDraw({"SYN_ACK"}) \subseteq Kinds(CallKinds \ {"SYN"})
    BY KindsWiden DEF CallKinds
  <2>2. CASE RxSyn /\ st \in {"CLOSED", "SYN_SENT"}
    <3>1. e.t \in {"ACK", "ACK_NODELAY", "RST"} => e \in Kinds(CallKinds \ {"SYN"})
      BY <1>1, InKinds DEF CallKinds
    <3>2. ~EventEngine
      BY <2>2 DEF RxSyn, RxTransition, EventEngine
    <3> QED
      BY <1>1, <2>2, <3>1, <3>2, CallEvents DEF QueuedBy
  <2> QED
    BY <1>1, <2>1, <2>2, CallQueued
<1>2. TxqChange
  BY TxqStep
<1> QED
  BY <1>1, <1>2, QueueIn DEF NoSynEvent

LEMMA FreshStep ==
  ASSUME Types, ~SimOpen, Fresh, Next, ~HeardSyn
  PROVE  Fresh' \/ Dead'
<1>1. Unheard' /\ p'.listens = p.listens /\ ~p.listens
  BY UnheardStep DEF Fresh, HeardSynAck
<1>2. CASE st' = "CLOSED" /\ life' = "released"
  BY <1>1, <1>2 DEF Dead
<1>3. CASE st' = "SYN_RECEIVED" /\ life' # "unused"
  BY <1>1, <1>3 DEF Dead
<1>4. CASE st' = "CLOSED" /\ life' # "released"
  <2>1. ~Application /\ ~EventEngine /\ ~AckTimeout /\ ~RtTimeout /\ ~TxEngine
        /\ \A m \in toPeer : ~PeerRecv(m)
    <3>1. ~Application
      BY UnheardNever DEF Fresh, Unheard, OneOpens, Application, AppOpen, AppSyn
    <3>2. ~TxEngine
      BY DEF Fresh, TxEngine, TxSyn, TxData, TxFin, TxRt, TxAck, TxRst, TxEvent
    <3> QED
      BY <3>1, <3>2 DEF Fresh, EventEngine, AckTimeout, RtTimeout
  <2>2. ~CloseTimeout
    BY <1>4 DEF CloseTimeout
  <2>3. ~RxEngine
    <3>1. ~SetState("CLOSED")
      BY <1>4 DEF SetState
    <3> QED
      BY <1>4, <3>1 DEF Fresh, RxEngine, RxAck, RxSyn, RxSynAck, RxFin, RxRst, SetState
  <2>4. UNCHANGED <<st, tx, apEv, tmEv, txq, rt, pend, toPeer>> /\
        (rxm' = rxm \/ (rxm'.ackd = tx.ackd /\ rxm'.not_ackd = tx.not_ackd))
    BY <2>1, <2>2, <2>3 DEF Next, Timers, RxLoad, RxDrop, PeerStep, evVars, timeVars
  <2> QED
    BY <1>1, <1>4, <2>4 DEF Fresh
<1> QED
  <2>1. StateChange /\ ~AppOpen /\ ~AppSyn
    BY StateStep DEF Fresh, Unheard, OneOpens, AppOpen, AppSyn
  <2>2. st = "CLOSED" /\ life # "released" /\ (RxSyn => life = "live")
    BY RxmFields DEF Fresh, RxSyn, RxTransition
  <2> QED
    BY <1>2, <1>3, <1>4, <2>1, <2>2 DEF StateChange

LEMMA DeadStep ==
  ASSUME Types, ~SimOpen, Dead, Next
  PROVE  Dead'
<1>1. rxm # None => life = "live"
  BY RxmFields
<1>2. ~HeardSyn /\ ~HeardSynAck /\ ~(RxSyn /\ st \in {"CLOSED", "SYN_SENT"})
  BY <1>1 DEF Dead, HeardSyn, HeardSynAck, RxSyn, RxTransition
<1>3. Unheard' /\ p'.listens = p.listens
  BY <1>2, UnheardStep DEF Dead
<1>4. ~AppOpen /\ ~AppSyn
  BY DEF Dead, Unheard, OneOpens, AppOpen, AppSyn
<1>5. ~AppClose /\ ~RxAck
  <2>1. ~AppClose
    BY UnheardNever DEF Dead
  <2>2. ~RxAck
    BY <1>1, UnheardRxAck DEF Dead, RxAck, RxTransition
  <2> QED
    BY <2>1, <2>2
<1>6. p'.listens => open' \notin {"none", "lookup"}
  BY <1>3, <1>4, OpenStep DEF Dead
<1>7. \/ st' = "SYN_RECEIVED" /\ life' # "unused"
      \/ st' = "CLOSED" /\ life' = "released"
  BY <1>2, <1>4, <1>5, StateStep DEF Dead, StateChange
<1> QED
  BY <1>3, <1>6, <1>7 DEF Dead

LEMMA LookStep ==
  ASSUME Types, ~SimOpen, Look, Next
  PROVE  Look' \/ Wait'
<1>1. ~HeardSyn /\ ~HeardSynAck /\ ~(EventEngine /\ tmEv = <<>> /\ apEv # <<>>)
  <2>1. ~HeardSyn
    BY RxmFields DEF Look, HeardSyn, RxSyn, RxTransition, Unheard, FirstSegs, FirstSeg
  <2>2. apEv = <<>>
    BY DEF Look, Idle, Unheard, FirstEvents
  <2> QED
    BY <2>1, <2>2 DEF Look, HeardSynAck
<1>2. Unheard' /\ p'.listens
  BY <1>1, UnheardStep DEF Look
<1>3. ~TxSyn("SYN") /\ ~AppClose /\ ~(RxAck /\ st = "SYN_RECEIVED")
  <2>1. ~TxSyn("SYN")
    <3>1. txq # <<>> => Head(txq).t # "SYN"
      BY Tailed DEF Look, NoSynEvent, Kinds
    <3> QED
      BY <3>1 DEF TxSyn, TxEvent
  <2>2. ~AppClose
    BY UnheardNever DEF Look
  <2>3. ~(RxAck /\ st = "SYN_RECEIVED")
    BY UnheardRxAck DEF Look
  <2> QED
    BY <2>1, <2>2, <2>3
<1>4. NoSyn' /\ NoSynEvent'
  <2>1. Empty
    BY DEF Look, Unheard
  <2> QED
    BY <1>1, <1>3, <2>1, NoSynKept, NoSynEventKept DEF Look
<1>5. p'.st = "LISTEN"
  <2>1. CASE PeerStep
    BY <2>1, UnheardPeerStep DEF Look
  <2>2. ASSUME NEW m \in toPeer, PeerRecv(m) PROVE p'.st = "LISTEN"
    <3>1. m.f # "SYN"
      BY DEF Look, NoSyn
    <3> QED
      BY <2>2, <3>1, UnheardPeerRecv DEF Look
  <2> QED
    BY <2>1, <2>2, PeerOnly DEF Look
<1>6. CASE AppSyn
  <2>1. open = "lookup" /\ apEv = <<>>
    BY <1>6 DEF AppSyn, Look, Unheard, FirstEvents
  <2>2. apEv' = <<Ev("SYN", 0, 0)>> /\ open' = "wait" /\ st' = "SYN_SENT" /\ life' = life
    BY <1>6, <2>1 DEF AppSyn
  <2> QED
    BY <1>2, <1>4, <1>5, <2>1, <2>2 DEF Wait, SynAtEvents, Look
<1>7. CASE open = "none" /\ Idle /\ ~AppSyn
  <2>1. CASE AppOpen
    BY <1>2, <1>4, <1>5, <1>7, <2>1 DEF Look, Idle, AppOpen
  <2>2. CASE ~AppOpen
    <3>1. ~TxEngine
      BY <1>7 DEF Idle, TxEngine, TxSyn, TxData, TxFin, TxRt, TxAck, TxRst, TxEvent
    <3>2. rxm = None
      BY <1>7 DEF Idle, Types, RxmTypes
    <3>3. ~RxEngine
      BY <3>2 DEF RxEngine, RxAck, RxSyn, RxSynAck, RxFin, RxRst, RxTransition
    <3>4. ~EventEngine /\ ~Timers
      BY <1>7 DEF Idle, EventEngine, Timers, AckTimeout, RtTimeout, CloseTimeout
    <3>5. ~Application
      BY <1>3, <1>7, <2>2, UnheardNever DEF Application, Look
    <3>6. \A m \in toToe : ~RxLoad(m)
      BY <1>7 DEF Idle, RxLoad, Listening, Look
    <3>7. (\E m \in toToe : RxDrop(m)) \/ PeerStep \/ \E m \in toPeer : PeerRecv(m)
      BY <3>1, <3>3, <3>4, <3>5, <3>6 DEF Next
    <3>8. UNCHANGED <<life, st, open, apEv, tmEv, txq, pend, rt, ct>>
      BY <3>7 DEF RxDrop, PeerStep, PeerRecv, evVars, timeVars, appVars
    <3>9. toPeer' = {}
      BY <1>7, <3>7 DEF RxDrop, PeerStep, PeerRecv, Idle
    <3> QED
      BY <1>2, <1>4, <1>5, <1>7, <3>8, <3>9 DEF Look, Idle
  <2> QED
    BY <2>1, <2>2
<1>8. CASE open = "lookup" /\ life # "unused" /\ ~AppSyn
  <2>1. open' = "lookup"
    BY <1>8, OpenStep DEF AppOpen, Look, NoSyn
  <2>2. life' # "unused" /\ st' \in {"CLOSED", "SYN_RECEIVED"}
    <3>1. ~AppOpen
      BY <1>8 DEF AppOpen
    <3> QED
      BY <1>1, <1>3, <1>8, <3>1, StateStep DEF StateChange, Look, HeardSynAck
  <2> QED
    BY <1>2, <1>4, <1>5, <2>1, <2>2 DEF Look
<1> QED
  BY <1>6, <1>7, <1>8 DEF Look

\* Without a new number, and with nothing heard, the tables stay as they are.
LEMMA CallingKept ==
  ASSUME Types, Unheard, st = "SYN_SENT", Next, ~RxSyn, ~HeardSynAck, txq \in Seq(NoDraw(CallKinds))
  PROVE  UNCHANGED <<iss, tx, app>>
<1>1. CASE Application
  BY <1>1, UnheardNever DEF Application, AppOpen, AppSyn
<1>2. CASE EventEngine \/ Timers
  BY <1>2 DEF EventEngine, Timers, AckTimeout, RtTimeout, CloseTimeout
<1>3. CASE TxEngine
  <2>1. ASSUME NEW t \in {"SYN", "SYN_ACK"}, TxSyn(t) PROVE UNCHANGED <<iss, tx, app>>
    <3>1. txq # <<>> /\ Head(txq).t = t
      BY <2>1 DEF TxSyn, TxEvent
    <3>2. Head(txq).cnt # 0
      BY <3>1, Tailed DEF NoDraw
    <3> QED
      BY <2>1, <3>2 DEF TxSyn
  <2>2. CASE TxAck \/ TxRst
    BY <2>2 DEF TxAck, TxRst
  <2> QED
    BY <1>3, <2>1, <2>2, UnheardNever DEF TxEngine
<1>4. CASE RxEngine
  BY <1>4 DEF RxEngine, RxAck, RxSynAck, RxFin, RxRst, HeardSynAck
<1>5. CASE \E m \in toToe : RxLoad(m) \/ RxDrop(m)
  BY <1>5 DEF RxLoad, RxDrop
<1>6. CASE PeerStep \/ \E m \in toPeer : PeerRecv(m)
  BY <1>6 DEF PeerStep, PeerRecv
<1> QED
  BY <1>1, <1>2, <1>3, <1>4, <1>5, <1>6 DEF Next

LEMMA WaitStep ==
  ASSUME Types, ~SimOpen, Wait, Next, ~HeardSynAck
  PROVE  Wait' \/ Dead'
<1>1. ~HeardSyn /\ ~AppOpen /\ ~AppSyn /\ ~AppWrite /\ ~AppClose
  BY UnheardNever DEF HeardSyn, Wait, AppOpen, AppSyn
<1>2. Unheard' /\ p'.listens /\ Unheard /\ Empty
  BY <1>1, UnheardStep DEF Wait, Unheard
<1>3. open' \notin {"none", "lookup"}
  BY <1>1, OpenStep DEF Wait
<1>4. CASE st' # "SYN_SENT"
  <2>1. \/ st' = "SYN_RECEIVED" /\ life' # "unused"
        \/ st' = "CLOSED" /\ life' = "released"
    BY <1>1, <1>4, StateStep DEF StateChange, Wait, HeardSynAck
  <2> QED
    BY <1>2, <1>3, <2>1 DEF Dead
<1>5. CASE st' = "SYN_SENT"
  <2>1. ~RxSyn
    BY <1>5 DEF RxSyn, SetState, Wait
  <2>2. life' # "unused"
    BY <1>1, <1>5, StateStep DEF StateChange, Wait
  <2>3. TxqChange
    BY TxqStep
  <2>4. ASSUME NEW e \in GoodEvent, QueuedBy(e), ~(EventEngine /\ tmEv = <<>> /\ apEv # <<>>)
        PROVE  e \in NoDraw(CallKinds) /\ e \in Kinds(CallKinds)
    <3>1. /\ NoDraw(CallKinds \ {"SYN"}) \subseteq NoDraw(CallKinds)
          /\ NoDraw({"SYN", "SYN_ACK"}) \subseteq NoDraw(CallKinds)
          /\ NoDraw(CallKinds) \subseteq Kinds(CallKinds)
      <4>1. CallKinds \ {"SYN"} \subseteq CallKinds /\ {"SYN", "SYN_ACK"} \subseteq CallKinds
        BY DEF CallKinds
      <4> QED
        BY <4>1, KindsWiden
    <3>2. \/ e \in NoDraw(CallKinds \ {"SYN"}) \/ e \in NoDraw({"SYN", "SYN_ACK"})
      BY <1>2, <2>1, <2>4, CallQueued
    <3> QED
      BY <3>1, <3>2
  <2>5. SynAtEvents' \/ SynAtTx' \/ SynSent'
    <3>1. CASE SynAtEvents
      <4>1. ~TxSyn("SYN")
        <5>1. txq # <<>> => Head(txq).t # "SYN"
          BY <3>1, Tailed DEF SynAtEvents, NoSynEvent, Kinds
        <5> QED
          BY <5>1 DEF TxSyn, TxEvent
      <4>2. NoSyn'
        BY <1>2, <3>1, <4>1, NoSynKept DEF SynAtEvents
      <4>3. p'.st = "LISTEN"
        <5>1. \A m \in toPeer : m.f # "SYN"
          BY <3>1 DEF SynAtEvents, NoSyn
        <5> QED
          BY <1>2, <3>1, <5>1, PeerOnly, UnheardPeerStep, UnheardPeerRecv DEF SynAtEvents, Wait
      <4>4. CASE EventEngine /\ tmEv = <<>>
        <5>1. apEv' = Tail(apEv) /\ AckDelay(Head(apEv)) /\ txq = <<>>
          BY <4>4 DEF EventEngine
        <5>2. Head(apEv) = Ev("SYN", 0, 0) /\ Tail(apEv) = <<>>
          BY <3>1 DEF SynAtEvents
        <5>3. txq' = Append(<<>>, Ev("SYN", 0, 0))
          <6>1. AckDelay(Ev("SYN", 0, 0)) /\ Ev("SYN", 0, 0).t # "ACK"
            BY <5>1, <5>2, SynEvent
          <6>2. txq' = Append(txq, Ev("SYN", 0, 0))
            BY <6>1, DelayedNot
          <6> QED
            BY <5>1, <6>2
        <5>4. \A e : /\ Append(<<>>, e) # <<>> /\ Head(Append(<<>>, e)) = e
                     /\ Tail(Append(<<>>, e)) = <<>>
          OBVIOUS
        <5>5. txq' # <<>> /\ Head(txq') = Ev("SYN", 0, 0) /\ Tail(txq') = <<>>
          BY <5>3, <5>4
        <5>6. apEv' = <<>> /\ Tail(txq') \in Seq(NoDraw(CallKinds))
          <6>1. apEv' = <<>>
            BY <5>1, <5>2
          <6>2. <<>> \in Seq(NoDraw(CallKinds))
            OBVIOUS
          <6> QED
            BY <5>5, <6>1, <6>2
        <5> QED
          BY <4>2, <4>3, <5>5, <5>6 DEF SynAtTx
      <4>5. CASE ~(EventEngine /\ tmEv = <<>>)
        <5>1. apEv' = apEv
          BY <1>1, <4>5, ApEvStep
        <5>2. NoSynEvent'
          BY <1>2, <3>1, <4>5, NoSynEventKept DEF SynAtEvents
        <5> QED
          BY <3>1, <4>2, <4>3, <5>1, <5>2 DEF SynAtEvents
      <4> QED
        BY <4>4, <4>5
    <3>2. CASE SynAtTx
      <4>1. Head(txq).t = "SYN" /\ Head(txq).cnt = 0 /\ txq # <<>> /\ apEv = <<>>
        BY <3>2, SynEvent DEF SynAtTx
      <4>2. CASE TxEngine
        <5>1. TxSyn("SYN")
          BY <4>1, <4>2 DEF TxEngine, TxSyn, TxData, TxFin, TxRt, TxAck, TxRst, TxEvent
        <5>2. PICK n \in Isns : TxInit(n) /\ Send({Seg("SYN", n, 0, 0, AnyWin)})
          BY <4>1, <5>1 DEF TxSyn
        <5>3. tx \in TxSar
          BY DEF Types, SarTypes
        <5>4. iss' = n /\ tx'.ackd = n /\ tx'.not_ackd = Add(n, 1) /\ app'.mempt = Ring(n + 1)
          BY <5>2, <5>3 DEF TxInit, TxSar
        <5>5. txq' = Tail(txq) /\ apEv' = apEv /\ p' = p
          BY <5>1 DEF TxSyn, TxEvent
        <5>6. \A m \in toPeer' : m.f = "SYN" => m.seq = n
          <6>1. \A m \in toPeer' : m \in toPeer \/ m = Seg("SYN", n, 0, 0, AnyWin)
            BY <5>2, Kept
          <6>2. Seg("SYN", n, 0, 0, AnyWin).seq = n
            BY DEF Seg
          <6> QED
            BY <3>2, <6>1, <6>2 DEF SynAtTx, NoSyn
        <5> QED
          BY <3>2, <5>4, <5>5, <5>6 DEF SynAtTx, SynSent
      <4>3. CASE ~TxEngine
        <5>1. ~TxSyn("SYN")
          BY <4>3 DEF TxEngine
        <5>2. NoSyn'
          BY <1>2, <3>2, <5>1, NoSynKept DEF SynAtTx
        <5>3. p'.st = "LISTEN"
          <6>1. \A m \in toPeer : m.f # "SYN"
            BY <3>2 DEF SynAtTx, NoSyn
          <6> QED
            BY <1>2, <3>2, <6>1, PeerOnly, UnheardPeerStep, UnheardPeerRecv DEF SynAtTx, Wait
        <5>4. txq \in Seq(Kinds(CallKinds)) /\ Tail(txq) \in Seq(NoDraw(CallKinds))
          BY <1>2, <3>2 DEF SynAtTx, Unheard, FirstEvents
        <5>5. \A e \in GoodEvent : QueuedBy(e) => e \in NoDraw(CallKinds) /\ e \in Kinds(CallKinds)
          BY <2>4, <4>1
        <5>6. txq' # <<>> /\ Head(txq') = Head(txq) /\ Tail(txq') \in Seq(NoDraw(CallKinds))
          BY <2>3, <4>1, <4>3, <5>4, <5>5, QueueTailIn
        <5>7. apEv' = <<>>
          BY <1>1, <4>1, ApEvStep
        <5> QED
          BY <3>2, <5>2, <5>3, <5>6, <5>7 DEF SynAtTx
      <4> QED
        BY <4>2, <4>3
    <3>3. CASE SynSent
      <4>1. apEv = <<>> /\ apEv' = <<>>
        BY <1>1, <3>3, ApEvStep DEF SynSent
      <4>2. \A e \in GoodEvent : QueuedBy(e) => e \in NoDraw(CallKinds)
        BY <2>4, <4>1
      <4>3. txq' \in Seq(NoDraw(CallKinds))
        BY <2>3, <3>3, <4>2, QueueIn DEF SynSent
      <4>4. UNCHANGED <<iss, tx, app>>
        BY <1>2, <2>1, <3>3, CallingKept DEF SynSent, Wait
      <4>5. \A m \in toPeer' : m.f = "SYN" => m.seq = iss
        <5>1. ASSUME NEW n \in Isns, TxInit(n) PROVE n = iss
          BY <4>4, <5>1 DEF TxInit
        <5>2. ASSUME NEW m \in toPeer', m \notin toPeer, m.f = "SYN" PROVE m.seq = iss
          <6>1. TxEngine
            BY <5>2, ToPeerStep
          <6>2. m.seq = tx.ackd \/ \E n \in Isns : TxInit(n) /\ m.seq = n
            BY <5>2, <6>1, TxSends
          <6> QED
            BY <3>3, <5>1, <6>2 DEF SynSent
        <5> QED
          BY <3>3, <5>2 DEF SynSent
      <4>6. p'.st = "LISTEN" \/ p'.irs = iss
        BY <1>2, <3>3, PeerOnly, UnheardPeerStep, UnheardPeerRecv DEF SynSent, Wait
      <4> QED
        BY <3>3, <4>1, <4>3, <4>4, <4>5, <4>6 DEF SynSent
    <3> QED
      BY <3>1, <3>2, <3>3 DEF Wait
  <2> QED
    BY <1>2, <1>3, <1>5, <2>2, <2>5 DEF Wait
<1> QED
  BY <1>4, <1>5

----------------------------------------------------------------------------
(* The engine hears from the peer. *)

\* The wrapped comparison of the RX engine is a comparison of distances.
LEMMA AckRange ==
  ASSUME NEW a \in Seq0, NEW x \in Seq0, NEW b \in Seq0
  PROVE  AckInRange(a, x, b) <=> Dist(a, x) <= Dist(a, b)
<1>1. Dist(a, x) = IF x < a THEN x - a + SeqSpace ELSE x - a
  BY DistIs
<1>2. Dist(a, b) = IF b < a THEN b - a + SeqSpace ELSE b - a
  BY DistIs
<1>3. a \in Nat /\ x \in Nat /\ b \in Nat /\ a < SeqSpace /\ x < SeqSpace /\ b < SeqSpace
      /\ SeqSpace \in Nat
  BY SeqInt, Space
<1> DEFINE u == IF x < a THEN x - a + SeqSpace ELSE x - a
           v == IF b < a THEN b - a + SeqSpace ELSE b - a
<1>4. (\/ a <= x /\ x <= b
       \/ (a <= x \/ x <= b) /\ b < a) <=> u <= v
  BY ONLY <1>3
<1> QED
  BY <1>1, <1>2, <1>4 DEF AckInRange

\* The last number of the range is in it, and so is the first.
LEMMA AckEnds ==
  ASSUME NEW a \in Seq0, NEW b \in Seq0
  PROVE  AckInRange(a, b, b) /\ AckInRange(a, a, b)
<1>1. Dist(a, b) \in Nat /\ Dist(a, a) = 0
  BY DistIs, DistSelf
<1> QED
  BY <1>1, AckRange

\* Out of the range, it is no duplicate and acknowledges nothing.
LEMMA OutOfRange ==
  ASSUME Types, rxm # None, ~AckInRange(rxm.ackd, rxm.m.ack, rxm.not_ackd)
  PROVE  ~DupAck(rxm.m) /\ ~AllAcked(rxm.m)
<1>1. rxm.ackd \in Seq0 /\ rxm.not_ackd \in Seq0
  BY RxmFields
<1> QED
  BY <1>1, AckEnds DEF DupAck, AllAcked

LEMMA OneQueued ==
  ASSUME NEW S, NEW e
  PROVE  /\ Append(<<>>, e) # <<>> /\ Head(Append(<<>>, e)) = e
         /\ Tail(Append(<<>>, e)) = <<>> /\ Tail(Append(<<>>, e)) \in Seq(S)
<1>1. Append(<<>>, e) # <<>> /\ Head(Append(<<>>, e)) = e /\ Tail(Append(<<>>, e)) = <<>>
  OBVIOUS
<1>2. <<>> \in Seq(S)
  OBVIOUS
<1> QED
  BY <1>1, <1>2

LEMMA FreshHeard ==
  ASSUME Types, ~SimOpen, Fresh, Next, HeardSyn
  PROVE  Hand'
<1> DEFINE m == rxm.m
<1>1. rxm # None /\ rxm' = None /\ m.f = "SYN" /\ m.seq \in Seq0 /\ m.win \in Windows /\ life = "live"
  BY RxmFields DEF HeardSyn, RxSyn, RxTransition
<1>2. m.seq = PeerIsn /\ p.st = "SYN_SENT" /\ ~p.listens
  BY <1>1 DEF HeardSyn, Fresh, Unheard, FirstSegs, FirstSeg
<1>3. /\ recvd' = Add(m.seq, 1) /\ TxSarUpdate(0, m.win, 0, FALSE)
      /\ AckDelay(Ev("SYN_ACK", 0, 0)) /\ SetState("SYN_RECEIVED")
  BY DEF HeardSyn, RxSyn
<1>4. UNCHANGED <<written, closes, open, dlv, apEv, tmEv, rt, toPeer, toToe, p>>
  BY DEF HeardSyn, RxSyn, appVars, timeVars
<1>5. recvd' = PeerSeq(1)
  BY <1>2, <1>3 DEF PeerSeq
<1>6. st' = "SYN_RECEIVED" /\ life' = "live"
  BY <1>1, <1>3 DEF SetState
<1>7. tx'.ackd = 0 /\ tx'.not_ackd = 0 /\ tx'.finSent = tx.finSent
  <2>1. 0 \in 0 .. FastDups /\ 0 \in Seq0 /\ FALSE \in BOOLEAN
    BY Zero, Constants
  <2> QED
    BY <1>1, <1>3, <2>1, SarUpdated DEF Fresh
<1>8. Empty'
  BY <1>4, <1>7 DEF Fresh, Unheard, Empty
<1>9. NoSyn'
  <2>1. ~TxSyn("SYN")
    BY DEF Fresh, TxSyn, TxEvent
  <2> QED
    BY <2>1, NoSynKept DEF Fresh, Unheard, OneOpens
<1>10. \A a \in toToe : a.f \in {"ACK", "FIN"} => a \in OldSegs
  BY DEF Fresh, Unheard, FirstSegs, FirstSeg
<1>11. AnswerAtTx'
  <2>1. txq' = Append(<<>>, Ev("SYN_ACK", 0, 0))
    <3>1. Ev("SYN_ACK", 0, 0).t # "ACK"
      BY SynEvent
    <3> QED
      BY <1>3, <3>1, DelayedNot DEF Fresh
  <2>2. toPeer' = {}
    BY <1>4 DEF Fresh
  <2> HIDE DEF m
  <2> QED
    BY <1>7, <2>1, <2>2, OneQueued DEF AnswerAtTx
<1>12. apEv' = <<>> /\ open' # "lookup"
  BY <1>4 DEF Fresh, Unheard, OneOpens
<1> HIDE DEF m
<1> QED
  BY <1>1, <1>2, <1>4, <1>5, <1>6, <1>8, <1>9, <1>10, <1>11, <1>12 DEF Hand

\* No TX event, and none is missing.
LEMMA NothingQueued ==
  ASSUME apEv' = <<>>, txq' \in Seq(Kinds(CallKinds)), written' = 0, Sentd' = 1
  PROVE  Queued' /\ Behind' = 1
<1>1. TxEvents(apEv') = {}
  BY DEF TxEvents
<1>2. TxEvents(txq') = {} /\ ~HasTx(txq')
  <2>1. \A i \in DOMAIN txq' : txq'[i].t \in CallKinds
    BY DEF Kinds
  <2>2. txq' # <<>> => Head(txq').t \in CallKinds
    BY Tailed DEF Kinds
  <2> QED
    BY <2>1, <2>2 DEF TxEvents, HasTx, CallKinds
<1>3. Behind' = 1
  BY <1>2 DEF Behind, FirstBehind
<1>4. Behind' .. written' = {} /\ Behind' <= written' + 1
  BY <1>3
<1> QED
  BY <1>1, <1>2, <1>3, <1>4 DEF Queued, InQueue, Behind

\* The first thing both ends agree on is that nothing was written yet.
LEMMA NothingSent ==
  ASSUME Empty', iss' \in Isns, app'.mempt = Ring(iss' + 1), apEv' = <<>>,
         txq' \in Seq(Kinds(CallKinds)), tx'.not_ackd = Add(iss', 1), p'.rnxt = Add(iss', 1),
         Ackd' = 0 \/ Ackd' = 1, st' = "ESTABLISHED" => Ackd' = 1, Loaded',
         \A m \in toToe' : m \in OldSegs \/ m.f \notin {"ACK", "FIN"}
  PROVE  Sending'
<1>1. iss' \in Seq0 /\ WinMod > 1 /\ WinMod \in Nat
  BY Space
<1>2. Sentd' = 1 /\ Taken' = 1
  BY <1>1, DistOne DEF Sentd, Taken
<1>3. written' = 0 /\ p'.got = <<>> /\ ~p'.gotFin /\ \A m \in toPeer' : m.data = 0 /\ m.f # "FIN"
  BY DEF Empty
<1>4. Queued' /\ Behind' = 1
  BY <1>2, <1>3, NothingQueued
<1>5. p'.got = [i \in 1 .. Taken' - 1 |-> i]
  <2>1. 1 .. Taken' - 1 = {}
    BY <1>2
  <2>2. [i \in {} |-> i] = <<>>
    OBVIOUS
  <2> QED
    BY <1>3, <2>1, <2>2
<1>6. app'.mempt = Ring(iss' + 1 + written')
  <2>1. iss' + 1 + written' = iss' + 1
    BY <1>1, <1>3, SeqInt
  <2> QED
    BY <2>1
<1>7. InMemory'
  <2>1. 1 .. written' = {}
    BY <1>3
  <2> QED
    BY <2>1 DEF InMemory
<1>8. /\ Ackd' <= Taken' /\ Taken' <= Sentd' /\ 1 <= Taken' /\ Behind' <= written' + 1
      /\ written' + 1 - Taken' < WinMod /\ written' + 1 - Ackd' < WinMod
      /\ st' = "ESTABLISHED" => Ackd' >= 1
  <2>1. Ackd' <= 1 /\ 1 - Ackd' < WinMod /\ (st' = "ESTABLISHED" => Ackd' >= 1)
    BY <1>1
  <2> QED
    BY <1>1, <1>2, <1>3, <1>4, <2>1
<1>9. \A m \in toPeer' : OutSeg(m, iss', Taken', Sentd')
  BY <1>3 DEF OutSeg
<1>10. \A m \in toToe' : m \in OldSegs \/ AckOk(m, iss', Taken')
  BY DEF AckOk
<1> QED
  BY <1>3, <1>4, <1>5, <1>6, <1>7, <1>8, <1>9, <1>10 DEF Sending

\* The peer has answered, and knows the engine's number.
LEMMA WaitHeard ==
  ASSUME Types, ~SimOpen, Wait, HeardSynAck
  PROVE  Conn'
<1> DEFINE m == rxm.m
           e == Ev("ACK_NODELAY", 0, 0)
<1>1. rxm # None /\ rxm' = None /\ m.f = "SYN_ACK" /\ m.seq \in Seq0 /\ m.ack \in Seq0
      /\ m.win \in Windows
  BY RxmFields DEF HeardSynAck, RxSynAck, RxTransition
<1>2. m.seq = PeerIsn /\ m.ack = Add(p.irs, 1) /\ p.st \in {"SYN_RCVD", "RESET"}
  <2>1. m.ack \in FirstNumbers
    BY <1>1 DEF HeardSynAck, AllAcked, Wait, Unheard, FirstEvents
  <2>2. m \notin OldSegs
    BY <1>1, <2>1, OldNotDone
  <2> QED
    BY <1>1, <2>2 DEF Wait, Unheard, FirstSegs, FirstSeg
<1>3. SynSent /\ p.irs = iss
  BY <1>2 DEF Wait, SynAtEvents, SynAtTx, SynSent
<1>4. /\ recvd' = Add(m.seq, 1) /\ TxSarUpdate(m.ack, m.win, 0, FALSE)
      /\ AckDelay(e) /\ SetState("ESTABLISHED") /\ open' = "ok"
  BY DEF HeardSynAck, RxSynAck
<1>5. UNCHANGED <<iss, written, closes, dlv, apEv, tmEv, toPeer, toToe, p>>
  BY DEF HeardSynAck, RxSynAck
<1>6. recvd' = PeerSeq(1)
  BY <1>2, <1>4 DEF PeerSeq
<1>7. st' = "ESTABLISHED" /\ life' = life /\ life # "unused"
  BY <1>4 DEF SetState, Wait
<1>8. tx'.ackd = Add(iss, 1) /\ tx'.not_ackd = Add(iss, 1) /\ tx'.finSent = tx.finSent
      /\ app'.mempt = Ring(iss + 1)
  <2>1. 0 \in 0 .. FastDups /\ FALSE \in BOOLEAN
    BY Constants
  <2> QED
    BY <1>1, <1>2, <1>3, <1>4, <2>1, SarUpdated DEF SynSent
<1>9. Empty'
  <2>1. rt'.active => rt.active /\ rt'.type = rt.type
    BY TimerCleared DEF HeardSynAck, RxSynAck
  <2> QED
    BY <1>5, <1>8, <2>1 DEF Wait, Unheard, Empty
<1>10. txq' \in Seq(NoDraw(CallKinds))
  <2>1. e \in NoDraw(CallKinds)
    BY PlainEvents DEF CallKinds
  <2> QED
    BY <1>3, <1>4, <2>1, Delayed DEF SynSent
<1>11. NoDraw(CallKinds) \subseteq NoDraw(CallKinds \cup {"TX", "RT", "FIN"})
       /\ NoDraw(CallKinds) \subseteq Kinds(CallKinds)
       /\ NoDraw(CallKinds) \subseteq Kinds(CallKinds \cup {"TX", "RT"})
       /\ NoDraw({"SYN", "SYN_ACK"}) \subseteq NoDraw({"SYN", "SYN_ACK", "RT"})
  <2>1. CallKinds \subseteq CallKinds \cup {"TX", "RT", "FIN"} /\ CallKinds \subseteq CallKinds
        /\ CallKinds \subseteq CallKinds \cup {"TX", "RT"}
        /\ {"SYN", "SYN_ACK"} \subseteq {"SYN", "SYN_ACK", "RT"}
    OBVIOUS
  <2> QED
    BY <2>1, KindsWiden
<1>12. /\ txq' \in Seq(NoDraw(CallKinds \cup {"TX", "RT", "FIN"}))
       /\ txq' \in Seq(Kinds(CallKinds)) /\ txq' \in Seq(Kinds(CallKinds \cup {"TX", "RT"}))
       /\ tmEv' \in Seq(NoDraw({"SYN", "SYN_ACK", "RT"}))
  <2>1. tmEv' \in Seq(NoDraw({"SYN", "SYN_ACK"}))
    BY <1>5 DEF Wait, Unheard, FirstEvents
  <2> QED
    BY <1>10, <1>11, <2>1, Widened
<1>13. apEv' = <<>> /\ \A S : <<>> \in Seq(S)
  BY <1>3, <1>5 DEF SynSent
<1>14. \A a \in toToe' : a \in OldSegs \/ a.f \notin {"ACK", "FIN"}
  BY <1>5 DEF Wait, Unheard, FirstSegs, FirstSeg
<1>15. Received'
  <2>1. dlv' = <<>> /\ p'.n = 0
    BY <1>5 DEF Wait, Unheard, Empty
  <2>2. Len(dlv') = 0 /\ 1 + Len(dlv') = 1 /\ Len(dlv') <= p'.n
    BY <2>1
  <2>3. dlv' = [i \in 1 .. Len(dlv') |-> i]
    <3>1. 1 .. Len(dlv') = {}
      BY <2>2
    <3>2. [i \in {} |-> i] = <<>>
      OBVIOUS
    <3> QED
      BY <2>1, <3>1, <3>2
  <2>4. recvd' = PeerSeq(1 + Len(dlv'))
    BY <1>6, <2>2
  <2> QED
    BY <1>1, <1>14, <2>2, <2>3, <2>4 DEF Received, FromPeer
<1>16. Sending'
  <2>1. iss \in Isns /\ iss \in Seq0
    BY <1>3, Space DEF SynSent
  <2>2. Ackd' = 1
    BY <1>5, <1>8, <2>1, DistOne DEF Ackd
  <2>3. p'.rnxt = Add(iss', 1)
    BY <1>2, <1>3, <1>5 DEF Wait, Unheard, OneOpens
  <2>4. Loaded'
    BY <1>1 DEF Loaded
  <2> HIDE DEF m, e
  <2> QED
    BY <1>5, <1>8, <1>9, <1>12, <1>13, <1>14, <2>1, <2>2, <2>3, <2>4, NothingSent
<1> HIDE DEF m, e
<1>17. ~tx'.finSent
  BY <1>8 DEF Wait, Unheard, Empty
<1>18. iss' \in Isns /\ p'.irs = iss' /\ p'.st \in {"SYN_RCVD", "ESTAB", "RESET"}
  BY <1>2, <1>3, <1>5 DEF SynSent
<1> QED
  BY <1>4, <1>7, <1>12, <1>13, <1>15, <1>16, <1>17, <1>18 DEF Conn, Session, Pending

----------------------------------------------------------------------------
(* The peer has called. *)

LEMMA OldData ==
  ASSUME NEW m \in OldSegs, m.f \in {"ACK", "FIN"}, NEW k \in Nat, k <= MaxMoves + 1
  PROVE  m.seq # PeerSeq(k)
<1>1. Dist(PeerIsn, m.seq) > MaxMoves + 1
  BY OldOnes
<1>2. k < SeqSpace
  BY Space
<1>3. Dist(PeerIsn, PeerSeq(k)) = k
  BY <1>2, PeerSeqIs
<1> QED
  BY <1>1, <1>3, Space

\* In this phase the RX engine only ever has to do with repeated SYNs and with
\* segments of an earlier connection, which it does not take.
LEMMA HandRx ==
  ASSUME Types, Hand, RxEngine
  PROVE  /\ UNCHANGED <<recvd, dlv, tx, app, iss, toPeer, toToe, p, apEv, tmEv, written, closes>>
         /\ rxm' = None /\ open' = open /\ (st' = st \/ (st' = "CLOSED" /\ life' = "released"))
         /\ ~(RxAck /\ DupAck(rxm.m)) /\ (st' = st => life' = life) /\ st = "SYN_RECEIVED"
<1> DEFINE m == rxm.m
<1>1. rxm # None
  BY DEF RxEngine, RxAck, RxSyn, RxSynAck, RxFin, RxRst, RxTransition
<1>2. st = "SYN_RECEIVED" /\ life = "live" /\ m.f = rxm.f
  BY <1>1, RxmFields DEF Hand
<1>3. CASE RxAck
  <2>1. rxm.f = "ACK"
    BY <1>3 DEF RxAck, RxTransition
  <2>2. m \in OldSegs /\ ~AckInRange(rxm.ackd, m.ack, rxm.not_ackd)
    BY <1>1, <2>1 DEF Hand
  <2>3. ~DupAck(m) /\ ~AllAcked(m)
    BY <1>1, <2>2, OutOfRange
  <2>4. m.seq # recvd
    <3>1. 1 \in Nat /\ 1 <= MaxMoves + 1
      BY Space
    <3>2. m.seq # PeerSeq(1)
      BY <1>2, <2>1, <2>2, <3>1, OldData
    <3> QED
      BY <3>2 DEF Hand
  <2>5. UNCHANGED <<tx, app>> /\ \E room \in BOOLEAN : TakeData(m, room)
    BY <1>2, <1>3, <2>2 DEF RxAck
  <2>6. UNCHANGED <<recvd, dlv>>
    BY <2>4, <2>5 DEF TakeData, Accepted
  <2>7. SetState(AckState(AllAcked(m)))
    BY <1>2, <1>3 DEF RxAck
  <2>8. AckState(AllAcked(m)) = st
    BY <2>3 DEF AckState
  <2>9. st' = st /\ life' = life
    BY <1>2, <2>7, <2>8 DEF SetState
  <2> QED
    BY <1>2, <1>3, <2>3, <2>5, <2>6, <2>9 DEF RxAck, RxTransition, appVars
<1>4. CASE RxSyn
  <2>1. ~RxAck
    BY <1>4 DEF RxSyn, RxAck, RxTransition
  <2> QED
    BY <1>2, <1>4, <2>1 DEF RxSyn, SetState, RxTransition, appVars
<1>5. CASE RxSynAck
  <2>1. ~RxAck
    BY <1>5 DEF RxSynAck, RxAck, RxTransition
  <2> QED
    BY <1>2, <1>5, <2>1 DEF RxSynAck, SetState, RxTransition
<1>6. CASE RxFin
  <2>1. ~RxAck
    BY <1>6 DEF RxFin, RxAck, RxTransition
  <2> QED
    BY <1>2, <1>6, <2>1 DEF RxFin, SetState, RxTransition, appVars
<1>7. CASE RxRst
  <2>1. ~RxAck
    BY <1>7 DEF RxRst, RxAck, RxTransition
  <2> QED
    BY <1>2, <1>7, <2>1 DEF RxRst, SetState, RxTransition, evVars
<1> QED
  BY <1>3, <1>4, <1>5, <1>6, <1>7 DEF RxEngine

LEMMA HandQueued ==
  ASSUME Types, Hand, NEW e \in GoodEvent, QueuedBy(e)
  PROVE  e \in NoDraw(CallKinds \ {"SYN"})
<1>1. CASE EventEngine /\ tmEv # <<>> /\ e = Head(tmEv)
  <2>1. e \in NoDraw({"SYN_ACK"})
    BY <1>1, Tailed DEF Hand, NoSyn
  <2> QED
    BY <2>1, KindsWiden DEF CallKinds
<1>2. CASE e.t \in {"ACK", "ACK_NODELAY", "RST"}
  BY <1>2, InKinds DEF CallKinds
<1>3. CASE e = Ev("SYN_ACK", 1, 0)
  BY <1>3, SynEvent, InKinds DEF CallKinds
<1>4. CASE RxEngine
  BY <1>2, <1>3, <1>4, HandRx DEF QueuedBy, EventEngine, Hand
<1> QED
  BY <1>1, <1>2, <1>3, <1>4 DEF QueuedBy, Hand, RxEngine

LEMMA HandTx ==
  ASSUME Types, Hand, TxEngine
  PROVE  /\ TxSyn("SYN_ACK") \/ TxAck \/ TxRst
         /\ AnswerAtTx => TxSyn("SYN_ACK") /\ Head(txq).cnt = 0
         /\ AnswerSent => UNCHANGED <<iss, tx, app>>
<1>1. PICK t : TxEvent(t)
  BY DEF TxEngine, TxSyn, TxData, TxFin, TxRt, TxAck, TxRst
<1>2. txq # <<>> /\ Head(txq).t = t
  BY <1>1 DEF TxEvent
<1>3. AnswerAtTx => Head(txq).t = "SYN_ACK" /\ Head(txq).cnt = 0
  BY SynEvent DEF AnswerAtTx
<1>4. AnswerSent => Head(txq).t \in CallKinds \ {"SYN"}
                    /\ (Head(txq).t = "SYN_ACK" => Head(txq).cnt # 0)
  BY <1>2, Tailed DEF AnswerSent, NoDraw
<1>5. Head(txq).t \in CallKinds \ {"SYN"}
  BY <1>3, <1>4 DEF Hand, CallKinds
<1>6. TxSyn("SYN_ACK") \/ TxAck \/ TxRst
  BY <1>5 DEF TxEngine, TxSyn, TxData, TxFin, TxRt, TxEvent, CallKinds
<1>7. AnswerAtTx => TxSyn("SYN_ACK")
  BY <1>3, <1>6 DEF TxAck, TxRst, TxEvent
<1>8. AnswerSent => UNCHANGED <<iss, tx, app>>
  BY <1>4, <1>6 DEF TxSyn, TxAck, TxRst, TxEvent
<1> QED
  BY <1>3, <1>6, <1>7, <1>8

\* The peer takes the answer.
LEMMA HandHeard ==
  ASSUME Types, Hand, NEW m \in toPeer, PeerRecv(m), m.f = "SYN_ACK", m.ack = PeerSeq(1)
  PROVE  Conn'
<1>1. UNCHANGED <<life, st, recvd, tx, app, iss, open, written, closes, dlv, rxm, apEv, tmEv, txq, rt, toToe>>
      /\ toPeer' = toPeer \ {m} /\ p' = PeerTake(m)
  BY DEF PeerRecv, appVars, evVars, timeVars
<1>2. m \in Segment
  BY DEF Types, NetTypes
<1>3. AnswerSent
  BY DEF Hand, AnswerAtTx
<1>4. p.st = "SYN_SENT"
  BY DEF Hand
<1>5. p'.n = p.n /\ p'.fin = p.fin /\ p'.listens = p.listens
  BY <1>1, <1>2, TakeFields
<1>6. p' = [p EXCEPT !.st = "ESTAB", !.irs = m.seq, !.rnxt = Add(m.seq, 1)]
  BY <1>1, <1>4 DEF PeerTake
<1>7. p \in Peer
  BY DEF Types, PeerTypes
<1>8. p'.st = "ESTAB" /\ p'.irs = m.seq /\ p'.rnxt = Add(m.seq, 1) /\ p'.got = p.got
      /\ p'.gotFin = p.gotFin
  BY <1>6, <1>7 DEF Peer
<1>9. m.seq = iss /\ iss \in Isns /\ iss \in Seq0
  BY <1>3, Space DEF AnswerSent
<1>10. Empty'
  BY <1>1, <1>5, <1>8 DEF Hand, Empty
<1> DEFINE C == CallKinds \ {"SYN"}
<1>11. NoDraw(C) \subseteq NoDraw(CallKinds \cup {"TX", "RT", "FIN"})
       /\ NoDraw(C) \subseteq Kinds(CallKinds)
       /\ NoDraw(C) \subseteq Kinds(CallKinds \cup {"TX", "RT"})
       /\ NoDraw({"SYN_ACK"}) \subseteq NoDraw({"SYN", "SYN_ACK", "RT"})
  <2>1. C \subseteq CallKinds \cup {"TX", "RT", "FIN"} /\ C \subseteq CallKinds
        /\ C \subseteq CallKinds \cup {"TX", "RT"}
        /\ {"SYN_ACK"} \subseteq {"SYN", "SYN_ACK", "RT"}
    OBVIOUS
  <2> QED
    BY <2>1, KindsWiden
<1>12. /\ txq' \in Seq(NoDraw(CallKinds \cup {"TX", "RT", "FIN"}))
       /\ txq' \in Seq(Kinds(CallKinds)) /\ txq' \in Seq(Kinds(CallKinds \cup {"TX", "RT"}))
       /\ tmEv' \in Seq(NoDraw({"SYN", "SYN_ACK", "RT"}))
  <2>1. txq' \in Seq(NoDraw(C)) /\ tmEv' \in Seq(NoDraw({"SYN_ACK"}))
    BY <1>1, <1>3 DEF Hand, NoSyn, AnswerSent
  <2> QED
    BY <1>11, <2>1, Widened
<1>13. apEv' = <<>> /\ \A S : <<>> \in Seq(S)
  BY <1>1 DEF Hand
<1>14. \A a \in toToe' : a \in OldSegs \/ a.f \notin {"ACK", "FIN"}
  BY <1>1 DEF Hand
<1>15. Received'
  <2>1. dlv' = <<>> /\ p'.n = 0
    BY <1>1, <1>5 DEF Hand, Empty
  <2>2. Len(dlv') = 0 /\ 1 + Len(dlv') = 1 /\ Len(dlv') <= p'.n
    BY <2>1
  <2>3. dlv' = [i \in 1 .. Len(dlv') |-> i]
    <3>1. 1 .. Len(dlv') = {}
      BY <2>2
    <3>2. [i \in {} |-> i] = <<>>
      OBVIOUS
    <3> QED
      BY <2>1, <3>1, <3>2
  <2>4. recvd' = PeerSeq(1 + Len(dlv'))
    BY <1>1, <2>2 DEF Hand
  <2>5. rxm' # None => rxm'.m \in OldSegs \/ rxm'.m.f \notin {"ACK", "FIN"}
    BY <1>1, RxmFields DEF Hand
  <2> QED
    BY <1>14, <2>2, <2>3, <2>4, <2>5 DEF Received, FromPeer
<1>16. Sending'
  <2>1. Ackd' = 0
    BY <1>1, <1>3, <1>9, DistSelf DEF Ackd, AnswerSent
  <2>2. st' # "ESTABLISHED"
    BY <1>1 DEF Hand
  <2>3. Loaded'
    BY <1>1 DEF Loaded, Hand
  <2>4. app'.mempt = Ring(iss' + 1) /\ tx'.not_ackd = Add(iss', 1) /\ iss' \in Isns
    BY <1>1, <1>3 DEF AnswerSent
  <2>5. p'.rnxt = Add(iss', 1)
    BY <1>1, <1>8, <1>9
  <2> QED
    BY <1>10, <1>12, <1>13, <1>14, <2>1, <2>2, <2>3, <2>4, <2>5, NothingSent
<1>17. ~tx'.finSent /\ life' # "unused" /\ open' # "lookup" /\ ~p'.listens
       /\ st' # "SYN_SENT" /\ (st' = "CLOSED" => life' = "released")
  BY <1>1, <1>5 DEF Hand, Empty
<1>18. iss' \in Isns /\ p'.irs = iss' /\ p'.st \in {"SYN_RCVD", "ESTAB", "RESET"}
  BY <1>1, <1>8, <1>9
<1> QED
  BY <1>12, <1>13, <1>15, <1>16, <1>17, <1>18 DEF Conn, Session, Pending

LEMMA HandStep ==
  ASSUME Types, ~SimOpen, Hand, Next
  PROVE  Hand' \/ Conn'
<1>1. CASE \E m \in toPeer : PeerRecv(m) /\ m.f = "SYN_ACK" /\ m.ack = PeerSeq(1)
  BY <1>1, HandHeard
<1>2. CASE ~\E m \in toPeer : PeerRecv(m) /\ m.f = "SYN_ACK" /\ m.ack = PeerSeq(1)
  <2>1. ~Application /\ Empty /\ NoSyn /\ apEv = <<>>
    BY DEF Application, AppOpen, AppSyn, AppWrite, AppClose, Hand
  <2>2. TxEngine => TxSyn("SYN_ACK") \/ TxAck \/ TxRst
    BY HandTx
  <2>3. ~TxSyn("SYN") /\ ~TxData /\ ~TxFin /\ ~TxRt
    BY <2>2 DEF TxEngine, TxSyn, TxData, TxFin, TxRt, TxAck, TxRst, TxEvent
  <2>4. NoSyn'
    BY <2>1, <2>3, NoSynKept
  <2>5. /\ p'.st = "SYN_SENT" /\ p'.n = p.n /\ p'.fin = p.fin /\ p'.listens = p.listens
        /\ p'.got = p.got /\ p'.gotFin = p.gotFin
    <3>1. CASE PeerStep
      <4>1. PeerOpen
        BY <3>1 DEF PeerStep, PeerSynAck, PeerData, PeerAck, PeerFin, PeerReset, Hand
      <4>2. p \in Peer
        BY DEF Types, PeerTypes
      <4> QED
        BY <4>1, <4>2 DEF PeerOpen, Sent, Peer
    <3>2. ASSUME NEW m \in toPeer, PeerRecv(m)
          PROVE  /\ p'.st = "SYN_SENT" /\ p'.n = p.n /\ p'.fin = p.fin /\ p'.listens = p.listens
                 /\ p'.got = p.got /\ p'.gotFin = p.gotFin
      <4>1. m.f # "SYN" /\ m \in Segment /\ p.st = "SYN_SENT" /\ p' = PeerTake(m)
        BY <2>1, <3>2 DEF NoSyn, Types, NetTypes, Hand, PeerRecv
      <4> QED
        BY <1>2, <3>2, <4>1, TakeFields
    <3> QED
      BY <3>1, <3>2, PeerOnly DEF Hand
  <2>6. \/ AnswerSent /\ UNCHANGED <<iss, tx, app>>
        \/ AnswerAtTx /\ ~TxEngine /\ UNCHANGED <<iss, tx, app>>
        \/ AnswerAtTx /\ TxSyn("SYN_ACK") /\ Head(txq).cnt = 0
    <3>1. CASE TxEngine
      BY <3>1, HandTx DEF Hand
    <3>2. CASE RxEngine
      <4>1. ~TxEngine
        BY <3>2, <2>2 DEF RxEngine, RxAck, RxSyn, RxSynAck, RxFin, RxRst, RxTransition,
                          TxSyn, TxAck, TxRst
      <4> QED
        BY <3>2, <4>1, HandRx DEF Hand
    <3>3. CASE ~TxEngine /\ ~RxEngine
      <4>1. UNCHANGED <<iss, tx, app>>
        BY <3>3, <2>1 DEF Next, EventEngine, Timers, AckTimeout, RtTimeout, CloseTimeout,
                          RxLoad, RxDrop, PeerStep, PeerRecv
      <4> QED
        BY <3>3, <4>1 DEF Hand
    <3> QED
      BY <3>1, <3>2, <3>3
  <2>7. UNCHANGED <<recvd, dlv, written, closes>>
    <3>1. CASE RxEngine
      BY <3>1, HandRx
    <3>2. CASE TxEngine
      BY <3>2, <2>2 DEF TxSyn, TxAck, TxRst, appVars
    <3>3. CASE ~TxEngine /\ ~RxEngine
      BY <3>3, <2>1 DEF Next, EventEngine, Timers, AckTimeout, RtTimeout, CloseTimeout,
                        RxLoad, RxDrop, PeerStep, PeerRecv, appVars
    <3> QED
      BY <3>1, <3>2, <3>3
  <2>8. tx'.finSent = FALSE
    <3>1. CASE UNCHANGED tx
      BY <3>1, Fields DEF Hand, Empty
    <3>2. CASE TxSyn("SYN_ACK") /\ Head(txq).cnt = 0
      <4>1. \E n \in Isns : TxInit(n)
        BY <3>2 DEF TxSyn
      <4> QED
        BY <4>1 DEF TxInit, Types, SarTypes, TxSar
    <3> QED
      BY <2>6, <3>1, <3>2
  <2>9. Empty'
    <3>1. \A m \in toPeer' : m.data = 0 /\ m.f # "FIN"
      BY <2>1, <2>3, ToPeerStep, TxSends DEF Empty
    <3>2. rt'.active => rt'.type # "RT"
      BY <2>1, <2>3, RtStep DEF Empty
    <3> QED
      BY <2>1, <2>5, <2>7, <2>8, <3>1, <3>2 DEF Empty
  <2>10. \/ st' = "SYN_RECEIVED" /\ life' # "unused"
         \/ st' = "CLOSED" /\ life' = "released"
    <3>1. CASE RxEngine
      BY <3>1, HandRx DEF Hand
    <3>2. CASE ~RxEngine
      <4>1. ~AppOpen /\ ~AppSyn /\ ~AppClose /\ ~RxSyn /\ ~RxSynAck /\ ~RxAck /\ ~RxFin
        BY <3>2, <2>1 DEF RxEngine, Application
      <4> QED
        BY <4>1, StateStep DEF StateChange, Hand
    <3> QED
      BY <3>1, <3>2
  <2>11. open' = open
    <3>1. ~AppOpen /\ ~AppSyn
      BY <2>1 DEF Application
    <3> QED
      BY <2>1, <3>1, OpenStep DEF NoSyn, Hand
  <2>12. \A m \in toToe' : m.f \in {"ACK", "FIN"} => m \in OldSegs
    <3>1. CASE PeerStep
      <4>1. PeerOpen
        BY <3>1 DEF PeerStep, PeerSynAck, PeerData, PeerAck, PeerFin, PeerReset, Hand
      <4>2. toToe' = toToe \cup {Seg("SYN", PeerIsn, 0, 0, AnyWin)}
        BY <4>1 DEF PeerOpen, PeerSend
      <4>3. Seg("SYN", PeerIsn, 0, 0, AnyWin).f = "SYN"
        BY DEF Seg
      <4> QED
        BY <4>2, <4>3 DEF Hand
    <3>2. CASE ~PeerStep
      <4>1. toToe' \subseteq toToe
        <5>1. CASE RxEngine
          BY <5>1, HandRx
        <5>2. CASE TxEngine
          BY <5>2, <2>2 DEF TxSyn, TxAck, TxRst
        <5>3. CASE ~TxEngine /\ ~RxEngine
          BY <5>3, <3>2, <2>1 DEF Next, EventEngine, Timers, AckTimeout, RtTimeout, CloseTimeout,
                                  RxLoad, RxDrop, PeerRecv
        <5> QED
          BY <5>1, <5>2, <5>3
      <4> QED
        BY <4>1 DEF Hand
    <3> QED
      BY <3>1, <3>2
  <2>13. rxm' # None /\ rxm'.f \in {"ACK", "FIN"} =>
            rxm'.m \in OldSegs /\ ~AckInRange(rxm'.ackd, rxm'.m.ack, rxm'.not_ackd)
    <3>1. CASE \E m \in toToe : RxLoad(m)
      <4>1. PICK m \in toToe : RxLoad(m)
        BY <3>1
      <4>2. rxm'.f = m.f /\ rxm'.m = m /\ rxm'.ackd = tx.ackd /\ rxm'.not_ackd = tx.not_ackd
        BY <4>1 DEF RxLoad
      <4>3. ASSUME m.f \in {"ACK", "FIN"}
            PROVE  m \in OldSegs /\ ~AckInRange(tx.ackd, m.ack, tx.not_ackd)
        <5>1. m \in OldSegs
          BY <4>3 DEF Hand
        <5>2. m \in Segment /\ m.ack \in Seq0 /\ m.ack # 0
              /\ \A n \in Isns : Dist(n, m.ack) > MaxMoves + 1
          BY <4>3, <5>1, OldOnes, SegFields
        <5>3. CASE AnswerAtTx
          <6>1. m.ack \in Nat
            BY <5>2, SeqInt
          <6> QED
            BY <5>1, <5>2, <5>3, <6>1 DEF AnswerAtTx, AckInRange
        <5>4. CASE AnswerSent
          <6>1. iss \in Seq0 /\ Add(iss, 1) \in Seq0 /\ Dist(iss, Add(iss, 1)) = 1
            BY <5>4, DistOne, Space DEF AnswerSent
          <6>2. Dist(iss, m.ack) > MaxMoves + 1 /\ Dist(iss, m.ack) \in Nat
            BY <5>2, <5>4, <6>1, DistIs DEF AnswerSent
          <6>3. ~(Dist(iss, m.ack) <= Dist(iss, Add(iss, 1)))
            BY <6>1, <6>2, Space
          <6>4. ~AckInRange(iss, m.ack, Add(iss, 1))
            BY <5>2, <6>1, <6>3, AckRange
          <6> QED
            BY <5>1, <5>4, <6>4 DEF AnswerSent
        <5> QED
          BY <5>3, <5>4 DEF Hand
      <4> QED
        BY <4>2, <4>3
    <3>2. CASE ~\E m \in toToe : RxLoad(m)
      <4>1. rxm' = rxm \/ rxm' = None
        <5>1. CASE RxEngine
          BY <5>1, HandRx
        <5>2. CASE TxEngine
          BY <5>2, <2>2 DEF TxSyn, TxAck, TxRst
        <5>3. CASE ~TxEngine /\ ~RxEngine
          BY <5>3, <3>2, <2>1 DEF Next, EventEngine, Timers, AckTimeout, RtTimeout, CloseTimeout,
                                  RxDrop, PeerStep, PeerRecv
        <5> QED
          BY <5>1, <5>2, <5>3
      <4> QED
        BY <4>1 DEF Hand
    <3> QED
      BY <3>1, <3>2
  <2>14. AnswerAtTx' \/ AnswerSent'
    <3> DEFINE S == NoDraw(CallKinds \ {"SYN"})
    <3>1. TxqChange /\ \A e \in GoodEvent : QueuedBy(e) => e \in S
      BY TxqStep, HandQueued
    <3>2. CASE AnswerSent /\ UNCHANGED <<iss, tx, app>>
      <4>1. txq' \in Seq(S)
        BY <3>1, <3>2, QueueIn DEF AnswerSent
      <4>2. ASSUME NEW m \in toPeer', m.f = "SYN_ACK" PROVE m.seq = iss
        <5>1. CASE m \in toPeer
          BY <3>2, <4>2, <5>1 DEF AnswerSent
        <5>2. CASE m \notin toPeer
          <6>1. ASSUME NEW n \in Isns, TxInit(n) PROVE n = iss
            BY <3>2, <6>1 DEF TxInit
          <6>2. m.seq = tx.ackd \/ \E n \in Isns : TxInit(n) /\ m.seq = n
            BY <4>2, <5>2, ToPeerStep, TxSends
          <6> QED
            BY <3>2, <6>1, <6>2 DEF AnswerSent
        <5> QED
          BY <5>1, <5>2
      <4> QED
        BY <3>2, <4>1, <4>2 DEF AnswerSent
    <3>3. CASE AnswerAtTx /\ ~TxEngine /\ UNCHANGED <<iss, tx, app>>
      <4>1. txq \in Seq(GoodEvent)
        BY DEF Types, EventTypes
      <4>2. txq' # <<>> /\ Head(txq') = Head(txq) /\ Tail(txq') \in Seq(S)
        BY <3>1, <3>3, <4>1, QueueTailIn DEF AnswerAtTx
      <4>3. \A m \in toPeer' : m.f # "SYN_ACK"
        BY <3>3, ToPeerStep DEF AnswerAtTx
      <4> QED
        BY <3>3, <4>2, <4>3 DEF AnswerAtTx
    <3>4. CASE AnswerAtTx /\ TxSyn("SYN_ACK") /\ Head(txq).cnt = 0
      <4>1. PICK n \in Isns : TxInit(n) /\ Send({Seg("SYN_ACK", n, recvd, 0, AnyWin)})
        BY <3>4 DEF TxSyn
      <4>2. iss' = n /\ tx'.ackd = n /\ tx'.not_ackd = Add(n, 1) /\ app'.mempt = Ring(n + 1)
        BY <4>1 DEF TxInit, Types, SarTypes, TxSar
      <4>3. txq' = Tail(txq)
        BY <3>4 DEF TxSyn, TxEvent
      <4>4. \A m \in toPeer' : m.f = "SYN_ACK" => m.seq = n
        <5>1. \A m \in toPeer' : m \in toPeer \/ m = Seg("SYN_ACK", n, recvd, 0, AnyWin)
          BY <4>1, Kept
        <5>2. Seg("SYN_ACK", n, recvd, 0, AnyWin).seq = n
          BY DEF Seg
        <5> QED
          BY <3>4, <5>1, <5>2 DEF AnswerAtTx
      <4> QED
        BY <3>4, <4>2, <4>3, <4>4 DEF AnswerAtTx, AnswerSent
    <3> QED
      BY <2>6, <3>2, <3>3, <3>4
  <2>15. apEv' = <<>>
    <3>1. ~AppSyn /\ ~AppWrite /\ ~AppClose
      BY <2>1 DEF Application
    <3> QED
      BY <2>1, <3>1, ApEvStep
  <2>16. ~p'.listens /\ recvd' = PeerSeq(1) /\ open' # "lookup"
    BY <2>5, <2>7, <2>11 DEF Hand
  <2> QED
    BY <2>4, <2>5, <2>9, <2>10, <2>12, <2>13, <2>14, <2>15, <2>16 DEF Hand
<1> QED
  BY <1>1, <1>2

----------------------------------------------------------------------------
(* The connection. *)

LEMMA RxmStep ==
  ASSUME Next
  PROVE  rxm' = rxm \/ (RxEngine /\ rxm' = None) \/ \E m \in toToe : RxLoad(m)
<1>1. CASE Application \/ EventEngine \/ Timers
  BY <1>1 DEF Application, AppOpen, AppSyn, AppWrite, AppClose, EventEngine, Timers, AckTimeout,
              RtTimeout, CloseTimeout
<1>2. CASE TxEngine
  BY <1>2 DEF TxEngine, TxSyn, TxData, TxFin, TxRt, TxAck, TxRst
<1>3. CASE RxEngine
  BY <1>3 DEF RxEngine, RxAck, RxSyn, RxSynAck, RxFin, RxRst, RxTransition
<1>4. CASE \E m \in toToe : RxLoad(m) \/ RxDrop(m)
  BY <1>4 DEF RxDrop
<1>5. CASE PeerStep \/ \E m \in toPeer : PeerRecv(m)
  BY <1>5 DEF PeerStep, PeerRecv
<1> QED
  BY <1>1, <1>2, <1>3, <1>4, <1>5 DEF Next

LEMMA ToToeStep ==
  ASSUME Next
  PROVE  toToe' \subseteq toToe \/ PeerStep
<1>1. CASE Application \/ EventEngine \/ Timers
  BY <1>1 DEF Application, AppOpen, AppSyn, AppWrite, AppClose, EventEngine, Timers, AckTimeout,
              RtTimeout, CloseTimeout
<1>2. CASE TxEngine
  BY <1>2 DEF TxEngine, TxSyn, TxData, TxFin, TxRt, TxAck, TxRst
<1>3. CASE RxEngine
  BY <1>3 DEF RxEngine, RxAck, RxSyn, RxSynAck, RxFin, RxRst
<1>4. CASE \E m \in toToe : RxLoad(m) \/ RxDrop(m)
  BY <1>4 DEF RxLoad, RxDrop
<1>5. CASE \E m \in toPeer : PeerRecv(m)
  BY <1>5 DEF PeerRecv
<1> QED
  BY <1>1, <1>2, <1>3, <1>4, <1>5 DEF Next

\* The states in which the RX engine can meet a segment.
LEMMA ConnRx ==
  ASSUME Types, Session, rxm # None
  PROVE  st \notin {"CLOSED", "SYN_SENT"} /\ life = "live"
BY RxmFields DEF Session

LEMMA ConnSyn ==
  ASSUME Types, Pending, NEW t \in {"SYN", "SYN_ACK"}, TxSyn(t)
  PROVE  /\ UNCHANGED <<iss, tx, app>>
         /\ \E a : Send({Seg(t, tx.ackd, a, 0, AnyWin)})
<1>1. txq # <<>> /\ Head(txq).t = t
  BY DEF TxSyn, TxEvent
<1>2. Head(txq).cnt # 0
  BY <1>1, Tailed DEF Pending, NoDraw
<1> QED
  BY <1>2 DEF TxSyn

LEMMA IssStep ==
  ASSUME Types, Pending, Next
  PROVE  iss' = iss
<1>1. CASE Application \/ EventEngine \/ Timers
  BY <1>1 DEF Application, AppOpen, AppSyn, AppWrite, AppClose, EventEngine, Timers, AckTimeout,
              RtTimeout, CloseTimeout
<1>2. CASE TxEngine
  BY <1>2, ConnSyn DEF TxEngine, TxData, TxFin, TxRt, TxAck, TxRst
<1>3. CASE RxEngine
  BY <1>3 DEF RxEngine, RxAck, RxSyn, RxSynAck, RxFin, RxRst
<1>4. CASE \E m \in toToe : RxLoad(m) \/ RxDrop(m)
  BY <1>4 DEF RxLoad, RxDrop
<1>5. CASE PeerStep \/ \E m \in toPeer : PeerRecv(m)
  BY <1>5 DEF PeerStep, PeerRecv
<1> QED
  BY <1>1, <1>2, <1>3, <1>4, <1>5 DEF Next

\* A step of the peer.
LEMMA ConnPeerStep ==
  ASSUME Types, Session, PeerStep
  PROVE  /\ p'.irs = p.irs /\ p'.st \in {p.st, "RESET"} /\ p'.listens = p.listens
         /\ p'.rnxt = p.rnxt /\ p'.got = p.got /\ p'.gotFin = p.gotFin
         /\ p.n <= p'.n /\ (p.fin => p'.fin /\ p'.n = p.n)
         /\ \E m : /\ toToe' = toToe \cup {m} /\ m.ack = p.rnxt /\ FromPeer(m, p'.n, p'.fin)
<1>1. p \in Peer /\ p.n \in Nat /\ p.una \in Nat
  BY PeerFields DEF Types, PeerTypes
<1>2. ~PeerOpen
  BY DEF Session, PeerOpen
<1>3. CASE PeerSynAck
  <2> DEFINE m == Seg("SYN_ACK", PeerIsn, p.rnxt, 0, AnyWin)
  <2>1. m.f = "SYN_ACK" /\ m.ack = p.rnxt
    BY DEF Seg
  <2>2. toToe' = toToe \cup {m} /\ p' = Sent(p)
    BY <1>3 DEF PeerSynAck, PeerSend
  <2>3. FromPeer(m, p'.n, p'.fin)
    BY <2>1 DEF FromPeer
  <2> HIDE DEF m
  <2>4. /\ p'.irs = p.irs /\ p'.st = p.st /\ p'.listens = p.listens
        /\ p'.rnxt = p.rnxt /\ p'.got = p.got /\ p'.gotFin = p.gotFin
        /\ p'.n = p.n /\ p'.fin = p.fin
    BY <1>1, <2>2 DEF Sent, Peer
  <2> QED
    BY <1>1, <2>1, <2>2, <2>3, <2>4
<1>4. CASE PeerData
  <2>1. PICK i \in p.una + 1 .. p.n + 1 : \E w \in Windows :
           /\ i <= p.n \/ ~p.fin
           /\ PeerSend(Seg("ACK", PeerSeq(i), p.rnxt, i, w))
           /\ p' = [Sent(p) EXCEPT !.n = IF i > p.n THEN i ELSE @]
    BY <1>4 DEF PeerData
  <2>2. PICK w \in Windows :
           /\ i <= p.n \/ ~p.fin
           /\ PeerSend(Seg("ACK", PeerSeq(i), p.rnxt, i, w))
           /\ p' = [Sent(p) EXCEPT !.n = IF i > p.n THEN i ELSE @]
    BY <2>1
  <2> DEFINE m == Seg("ACK", PeerSeq(i), p.rnxt, i, w)
             k == IF i > p.n THEN i ELSE p.n
  <2>3. m.f = "ACK" /\ m.ack = p.rnxt /\ m.seq = PeerSeq(i) /\ m.data = i
    BY DEF Seg
  <2>4. toToe' = toToe \cup {m}
    BY <2>2 DEF PeerSend
  <2>5. i \in Nat /\ k \in Nat /\ i <= k /\ p.n <= k /\ (p.fin => k = p.n)
    BY <1>1, <2>2
  <2>6. p' = [p EXCEPT !.segs = @ + 1, !.n = k]
    BY <1>1, <2>2 DEF Sent, Peer
  <2> HIDE DEF m, k
  <2>7. /\ p'.irs = p.irs /\ p'.st = p.st /\ p'.listens = p.listens
        /\ p'.rnxt = p.rnxt /\ p'.got = p.got /\ p'.gotFin = p.gotFin
        /\ p'.n = k /\ p'.fin = p.fin
    BY <1>1, <2>6 DEF Peer
  <2>8. FromPeer(m, p'.n, p'.fin)
    BY <2>3, <2>5, <2>7 DEF FromPeer
  <2> QED
    BY <1>1, <2>3, <2>4, <2>5, <2>7, <2>8
<1>5. CASE PeerAck
  <2>1. PICK w \in Windows : PeerSend(Seg("ACK", PeerNext, p.rnxt, 0, w))
    BY <1>5 DEF PeerAck
  <2> DEFINE m == Seg("ACK", PeerNext, p.rnxt, 0, w)
  <2>2. m.f = "ACK" /\ m.ack = p.rnxt /\ m.data = 0
    BY DEF Seg
  <2>3. toToe' = toToe \cup {m} /\ p' = Sent(p)
    BY <1>5, <2>1 DEF PeerAck, PeerSend
  <2> HIDE DEF m
  <2>4. FromPeer(m, p'.n, p'.fin)
    BY <2>2 DEF FromPeer
  <2>5. /\ p'.irs = p.irs /\ p'.st = p.st /\ p'.listens = p.listens
        /\ p'.rnxt = p.rnxt /\ p'.got = p.got /\ p'.gotFin = p.gotFin
        /\ p'.n = p.n /\ p'.fin = p.fin
    BY <1>1, <2>3 DEF Sent, Peer
  <2> QED
    BY <1>1, <2>2, <2>3, <2>4, <2>5
<1>6. CASE PeerFin
  <2> DEFINE a == Seg("FIN", PeerSeq(1 + p.n), p.rnxt, 0, AnyWin)
             b == Seg("FIN", PeerSeq(p.n), p.rnxt, p.n, AnyWin)
  <2>1. /\ a.f = "FIN" /\ a.ack = p.rnxt /\ a.data = 0 /\ a.seq = PeerSeq(1 + p.n)
        /\ b.f = "FIN" /\ b.ack = p.rnxt /\ b.data = p.n /\ b.seq = PeerSeq(p.n)
    BY DEF Seg
  <2>2. p' = [Sent(p) EXCEPT !.fin = TRUE]
    BY <1>6 DEF PeerFin
  <2>3. toToe' = toToe \cup {a} \/ (toToe' = toToe \cup {b} /\ p.n > p.una)
    BY <1>6 DEF PeerFin, PeerSend
  <2> HIDE DEF a, b
  <2>4. /\ p'.irs = p.irs /\ p'.st = p.st /\ p'.listens = p.listens
        /\ p'.rnxt = p.rnxt /\ p'.got = p.got /\ p'.gotFin = p.gotFin
        /\ p'.n = p.n /\ p'.fin = TRUE
    BY <1>1, <2>2 DEF Sent, Peer
  <2>5. FromPeer(a, p'.n, p'.fin) /\ (p.n > p.una => FromPeer(b, p'.n, p'.fin))
    BY <1>1, <2>1, <2>4 DEF FromPeer
  <2> QED
    BY <1>1, <2>1, <2>3, <2>4, <2>5
<1>7. CASE PeerReset
  <2> DEFINE m == Seg("RST", PeerNext, p.rnxt, 0, AnyWin)
  <2>2. m.f = "RST" /\ m.ack = p.rnxt
    BY DEF Seg
  <2>3. toToe' = toToe \cup {m} /\ p' = [Sent(p) EXCEPT !.st = "RESET"]
    BY <1>7 DEF PeerReset, PeerSend
  <2> HIDE DEF m
  <2>4. FromPeer(m, p'.n, p'.fin)
    BY <2>2 DEF FromPeer
  <2>5. /\ p'.irs = p.irs /\ p'.st = "RESET" /\ p'.listens = p.listens
        /\ p'.rnxt = p.rnxt /\ p'.got = p.got /\ p'.gotFin = p.gotFin
        /\ p'.n = p.n /\ p'.fin = p.fin
    BY <1>1, <2>3 DEF Sent, Peer
  <2> QED
    BY <1>1, <2>2, <2>3, <2>4, <2>5
<1> QED
  BY <1>2, <1>3, <1>4, <1>5, <1>6, <1>7 DEF PeerStep

LEMMA ConnPeerRecv ==
  ASSUME Types, Session, NEW m \in toPeer, PeerRecv(m)
  PROVE  /\ p'.irs = p.irs /\ p'.st \in {"SYN_RCVD", "ESTAB", "RESET"} /\ p'.listens = p.listens
         /\ p'.n = p.n /\ p'.fin = p.fin
         /\ \/ p'.rnxt = p.rnxt /\ p'.got = p.got /\ p'.gotFin = p.gotFin
            \/ /\ m.f = "ACK" /\ m.data # 0 /\ m.seq = p.rnxt /\ p'.rnxt = Add(p.rnxt, 1)
               /\ p'.got = Append(p.got, m.data) /\ p'.gotFin = p.gotFin
            \/ m.f = "FIN"
<1>1. m \in Segment /\ p' = PeerTake(m)
  BY DEF Types, NetTypes, PeerRecv
<1>2. p.st \in {"SYN_RCVD", "ESTAB", "RESET"}
  BY DEF Session
<1> QED
  BY <1>1, <1>2, TakeFields

LEMMA ConnSession ==
  ASSUME Types, ~SimOpen, Session, Pending, Next
  PROVE  Session'
<1>1. iss' = iss
  BY IssStep
<1>2. p'.irs = p.irs /\ p'.st \in {"SYN_RCVD", "ESTAB", "RESET"} /\ p'.listens = p.listens
  BY PeerOnly, ConnPeerStep, ConnPeerRecv DEF Session
<1>3. ~AppOpen /\ ~AppSyn
  BY DEF Session, AppOpen, AppSyn
<1>4. open' # "lookup" /\ (p'.listens => open' # "none")
  BY <1>2, <1>3, OpenStep DEF Session
<1>5. ~(RxSyn /\ st \in {"CLOSED", "SYN_SENT"})
  BY ConnRx DEF RxSyn, RxTransition
<1>6. life' # "unused" /\ st' # "SYN_SENT" /\ (st' = "CLOSED" => life' = "released")
  BY <1>3, <1>5, StateStep DEF StateChange, Session
<1> QED
  BY <1>1, <1>2, <1>4, <1>6 DEF Session

\* The connection is open only as long as it was.
LEMMA StillOpen ==
  ASSUME Types, Session, Next, st' \in {"SYN_RECEIVED", "ESTABLISHED"}, ~AppOpen, ~AppSyn
  PROVE  /\ st \in {"SYN_RECEIVED", "ESTABLISHED"} /\ ~AppClose
         /\ st' = "SYN_RECEIVED" => st = "SYN_RECEIVED"
         /\ st # st' => RxAck /\ st = "SYN_RECEIVED" /\ AllAcked(rxm.m)
<1>1. ~(RxSyn /\ st \in {"CLOSED", "SYN_SENT"})
  BY ConnRx DEF RxSyn, RxTransition
<1>2. ~AppClose
  BY DEF AppClose
<1> QED
  BY <1>1, <1>2, StateStep DEF StateChange, Session

LEMMA FinStep ==
  ASSUME Types, Pending, Next
  PROVE  /\ tx.finSent => tx'.finSent
         /\ tx'.finSent => tx.finSent \/ TxFin
<1>1. CASE Application \/ EventEngine \/ Timers
  BY <1>1 DEF Application, AppOpen, AppSyn, AppWrite, AppClose, EventEngine, Timers, AckTimeout,
              RtTimeout, CloseTimeout
<1>2. CASE TxEngine
  <2>0. tx \in TxSar
    BY DEF Types, SarTypes
  <2>1. \A c : FinSar(c).finSent \/ FinSar(c).finSent = tx.finSent
    BY <2>0 DEF FinSar, TxSar
  <2>2. CASE TxRt
    <3>1. tx' = tx \/ (tx.finSent /\ tx' = FinSar(Head(txq).cnt))
      BY <2>2 DEF TxRt
    <3> QED
      BY <2>1, <3>1
  <2>3. CASE TxFin
    BY <2>1, <2>3 DEF TxFin
  <2>4. CASE TxData
    BY <2>0, <2>4 DEF TxData, TxSar
  <2> QED
    BY <1>2, <2>2, <2>3, <2>4, ConnSyn DEF TxEngine, TxAck, TxRst
<1>3. CASE RxEngine
  <2>1. UNCHANGED tx \/ \E a, w, c, f : TxSarUpdate(a, w, c, f)
    BY <1>3 DEF RxEngine, RxAck, RxSyn, RxSynAck, RxFin, RxRst
  <2> QED
    BY <2>1 DEF TxSarUpdate, Types, SarTypes, TxSar
<1>4. CASE \E m \in toToe : RxLoad(m) \/ RxDrop(m)
  BY <1>4 DEF RxLoad, RxDrop
<1>5. CASE PeerStep \/ \E m \in toPeer : PeerRecv(m)
  BY <1>5 DEF PeerStep, PeerRecv
<1> QED
  BY <1>1, <1>2, <1>3, <1>4, <1>5 DEF Next

LEMMA ConnQueued ==
  ASSUME Types, Session, Pending, Next, ~AppOpen, ~AppSyn, NEW e \in GoodEvent, QueuedBy(e)
  PROVE  /\ e \in NoDraw(CallKinds \cup {"TX", "RT", "FIN"})
         /\ st' \in {"SYN_RECEIVED", "ESTABLISHED"} => e \in Kinds(CallKinds \cup {"TX", "RT"})
<1> DEFINE A == CallKinds \cup {"TX", "RT", "FIN"}
           B == CallKinds \cup {"TX", "RT"}
<1>1. {"TX", "FIN"} \subseteq A /\ {"SYN", "SYN_ACK", "RT"} \subseteq A /\ {"TX"} \subseteq B
      /\ {"SYN", "SYN_ACK", "RT"} \subseteq B /\ {"ACK", "ACK_NODELAY", "RST", "RT", "SYN_ACK"} \subseteq B
      /\ "FIN" \in A /\ B \subseteq A
  BY DEF CallKinds
<1> HIDE DEF A, B
<1>2. CASE EventEngine /\ tmEv # <<>> /\ e = Head(tmEv)
  <2>1. e \in NoDraw({"SYN", "SYN_ACK", "RT"})
    BY <1>2, Tailed DEF Pending
  <2>2. e \in NoDraw(A) /\ e \in Kinds(B)
    BY <1>1, <2>1, KindsWiden
  <2> QED
    BY <2>2 DEF A, B
<1>3. CASE EventEngine /\ tmEv = <<>> /\ apEv # <<>> /\ e = Head(apEv)
  <2>1. e \in Kinds({"TX", "FIN"})
    BY <1>3, Tailed DEF Pending
  <2>2. e \in NoDraw(A)
    BY <1>1, <2>1, InKinds DEF Kinds
  <2>3. st' \in {"SYN_RECEIVED", "ESTABLISHED"} => e \in Kinds(B)
    <3>1. st' = st
      BY <1>3 DEF EventEngine
    <3>2. st' \in {"SYN_RECEIVED", "ESTABLISHED"} => e \in Kinds({"TX"})
      BY <1>3, <3>1, Tailed DEF Pending
    <3> QED
      BY <1>1, <3>2, KindsWiden
  <2> QED
    BY <2>2, <2>3 DEF A, B
<1>4. CASE e.t \in {"ACK", "ACK_NODELAY", "RST"}
  <2>1. e \in NoDraw(A) /\ e \in Kinds(B)
    BY <1>1, <1>4, InKinds
  <2> QED
    BY <2>1 DEF A, B
<1>5. CASE e = Ev("SYN_ACK", 1, 0)
  <2>1. e \in NoDraw(A) /\ e \in Kinds(B)
    BY <1>1, <1>5, SynEvent, InKinds
  <2> QED
    BY <2>1 DEF A, B
<1>6. CASE e = Ev("RT", 0, 0)
  <2>1. e \in NoDraw(A) /\ e \in Kinds(B)
    BY <1>1, <1>6, SimpleEvents, InKinds
  <2> QED
    BY <2>1 DEF A, B
<1>7. CASE e = Ev("FIN", 0, 0) /\ st' = "LAST_ACK"
  <2>1. e \in NoDraw(A)
    BY <1>1, <1>7, SimpleEvents, InKinds
  <2> QED
    BY <1>7, <2>1 DEF A
<1>8. ~(RxSyn /\ st \in {"CLOSED", "SYN_SENT"})
  BY ConnRx DEF RxSyn, RxTransition
<1> QED
  BY <1>2, <1>3, <1>4, <1>5, <1>6, <1>7, <1>8 DEF QueuedBy

LEMMA WriteEvent ==
  ASSUME Types, AppWrite
  PROVE  /\ Ev("TX", 0, written + 1) \in GoodEvent /\ Ev("TX", 0, written + 1).t = "TX"
         /\ Ev("TX", 0, written + 1).arg = written + 1 /\ written + 1 \in 1 .. MaxMoves
<1>1. written \in Nat /\ closes \in Nat /\ p.segs \in Nat /\ written + closes + p.segs < MaxMoves
  BY PeerFields DEF Types, PlainTypes, AppWrite, MayMove
<1>2. written + 1 \in 1 .. MaxMoves /\ written + 1 \in Nat
  BY <1>1, Space
<1> QED
  BY <1>2, EventIs, Zero

LEMMA ConnPending ==
  ASSUME Types, ~SimOpen, Session, Pending, Next
  PROVE  Pending'
<1>0. ~AppOpen /\ ~AppSyn
  BY DEF Session, AppOpen, AppSyn
<1>1. TxqChange
  BY TxqStep
<1>2. txq' \in Seq(NoDraw(CallKinds \cup {"TX", "RT", "FIN"}))
  <2> DEFINE S == NoDraw(CallKinds \cup {"TX", "RT", "FIN"})
  <2>1. \A e \in GoodEvent : QueuedBy(e) => e \in S
    BY <1>0, ConnQueued
  <2>2. txq \in Seq(S)
    BY DEF Pending
  <2> HIDE DEF S
  <2>3. txq' \in Seq(S)
    BY <1>1, <2>1, <2>2, QueueIn
  <2> QED
    BY <2>3 DEF S
<1>3. tmEv' \in Seq(NoDraw({"SYN", "SYN_ACK", "RT"}))
  <2>1. CASE tmEv # <<>> /\ tmEv' = Tail(tmEv)
    BY <2>1, Tailed DEF Pending
  <2>2. CASE rt.active /\ MayRetry /\ tmEv' = Append(tmEv, Ev(rt.type, rt.retries + 1, 0))
    <3>1. rt.type \in {"SYN", "SYN_ACK", "RT"} /\ rt.retries + 1 \in 0 .. MaxRetries /\ rt.retries + 1 # 0
      BY <2>2, Fields, Constants DEF MayRetry
    <3>2. Ev(rt.type, rt.retries + 1, 0) \in NoDraw({"SYN", "SYN_ACK", "RT"})
      BY <3>1, EventIs DEF NoDraw
    <3> QED
      BY <2>2, <3>2, Appended DEF Pending
  <2> QED
    BY <2>1, <2>2, TmEvStep DEF Pending
<1>4. apEv' \in Seq(Kinds({"TX", "FIN"}))
  <2>1. CASE AppWrite
    <3>1. Ev("TX", 0, written + 1) \in Kinds({"TX", "FIN"})
      BY <2>1, WriteEvent, InKinds
    <3> QED
      BY <2>1, <3>1, Appended DEF AppWrite, Pending
  <2>2. CASE AppClose
    <3>1. Ev("FIN", 0, 0) \in Kinds({"TX", "FIN"})
      BY SimpleEvents, InKinds
    <3>2. PICK i \in 1 .. Len(apEv) + 1 : apEv' = InsertAt(apEv, i, Ev("FIN", 0, 0))
      BY <2>2 DEF AppClose
    <3> QED
      BY <3>1, <3>2, Inserted DEF Pending
  <2>3. CASE apEv # <<>> /\ apEv' = Tail(apEv)
    BY <2>3, Tailed DEF Pending
  <2> QED
    BY <1>0, <2>1, <2>2, <2>3, ApEvStep DEF Pending
<1>5. ASSUME st' \in {"SYN_RECEIVED", "ESTABLISHED"}
      PROVE  /\ ~tx'.finSent
             /\ apEv' \in Seq(Kinds({"TX"})) /\ txq' \in Seq(Kinds(CallKinds \cup {"TX", "RT"}))
  <2>1. st \in {"SYN_RECEIVED", "ESTABLISHED"} /\ ~AppClose
    BY <1>0, <1>5, StillOpen
  <2>2. ~tx.finSent /\ apEv \in Seq(Kinds({"TX"})) /\ txq \in Seq(Kinds(CallKinds \cup {"TX", "RT"}))
    BY <2>1 DEF Pending
  <2>3. ~TxFin
    <3>1. txq # <<>> => Head(txq).t # "FIN"
      BY <2>2, Tailed DEF Kinds, CallKinds
    <3> QED
      BY <3>1 DEF TxFin, TxEvent
  <2>4. ~tx'.finSent
    BY <2>2, <2>3, FinStep
  <2>5. apEv' \in Seq(Kinds({"TX"}))
    <3>1. CASE AppWrite
      <4>1. Ev("TX", 0, written + 1) \in Kinds({"TX"})
        BY <3>1, WriteEvent, InKinds
      <4> QED
        BY <2>2, <3>1, <4>1, Appended DEF AppWrite
    <3>2. CASE apEv # <<>> /\ apEv' = Tail(apEv)
      BY <2>2, <3>2, Tailed
    <3> QED
      BY <1>0, <2>1, <2>2, <3>1, <3>2, ApEvStep
  <2>6. txq' \in Seq(Kinds(CallKinds \cup {"TX", "RT"}))
    <3> DEFINE S == Kinds(CallKinds \cup {"TX", "RT"})
    <3>1. \A e \in GoodEvent : QueuedBy(e) => e \in S
      BY <1>0, <1>5, ConnQueued
    <3>2. txq \in Seq(S)
      BY <2>2
    <3> HIDE DEF S
    <3>3. txq' \in Seq(S)
      BY <1>1, <3>1, <3>2, QueueIn
    <3> QED
      BY <3>3 DEF S
  <2> QED
    BY <2>4, <2>5, <2>6
<1> QED
  BY <1>2, <1>3, <1>4, <1>5 DEF Pending

----------------------------------------------------------------------------
(* The receiving side. *)

\* The number expected is one the peer can have used.
LEMMA RecvdIs ==
  ASSUME Types, Received
  PROVE  /\ Len(dlv) \in Nat /\ Len(dlv) <= p.n
         /\ \E k \in Nat : k <= MaxMoves + 1 /\ recvd = PeerSeq(k)
<1>1. Len(dlv) \in Nat
  BY DEF Types, PlainTypes
<1>2. p.n \in Nat /\ p.n <= MaxMoves /\ (p.fin => p.n + 1 <= MaxMoves)
  BY PeerFields
<1>3. Len(dlv) <= p.n
  BY DEF Received
<1>4. CASE recvd = PeerSeq(1 + Len(dlv))
  <2>1. 1 + Len(dlv) \in Nat /\ 1 + Len(dlv) <= MaxMoves + 1
    BY <1>1, <1>2, <1>3, Space
  <2> QED
    BY <1>1, <1>3, <1>4, <2>1
<1>5. CASE recvd = PeerSeq(2 + p.n) /\ p.fin
  <2>1. 2 + p.n \in Nat /\ 2 + p.n <= MaxMoves + 1
    BY <1>2, <1>5, Space
  <2> QED
    BY <1>1, <1>3, <1>5, <2>1
<1> QED
  BY <1>4, <1>5 DEF Received

LEMMA NotOld ==
  ASSUME Types, Received, NEW m, m.f \in {"ACK", "FIN"}, m.seq = recvd
  PROVE  m \notin OldSegs
<1>1. PICK k \in Nat : k <= MaxMoves + 1 /\ recvd = PeerSeq(k)
  BY RecvdIs
<1> QED
  BY <1>1, OldData

\* The bytes so far, and one more.
LEMMA OneMore ==
  ASSUME NEW k \in Nat
  PROVE  Append([i \in 1 .. k |-> i], k + 1) = [i \in 1 .. k + 1 |-> i]
<1> DEFINE s == [i \in 1 .. k |-> i]
<1>1. s \in Seq(Nat) /\ Len(s) = k
  OBVIOUS
<1>2. Append(s, k + 1) \in Seq(Nat) /\ Len(Append(s, k + 1)) = k + 1
  BY <1>1
<1>3. \A i \in 1 .. k + 1 : Append(s, k + 1)[i] = i
  BY <1>1
<1>4. DOMAIN Append(s, k + 1) = 1 .. k + 1 /\ Append(s, k + 1) = [i \in 1 .. k + 1 |-> Append(s, k + 1)[i]]
  BY <1>2
<1> QED
  BY <1>3, <1>4

\* Data that is taken is the byte that comes next.
LEMMA AckReceived ==
  ASSUME Types, Received, RxAck
  PROVE  \/ UNCHANGED <<recvd, dlv>>
         \/ /\ dlv' = [i \in 1 .. Len(dlv') |-> i] /\ Len(dlv') <= p.n
            /\ recvd' = PeerSeq(1 + Len(dlv'))
<1> DEFINE m == rxm.m
           L == Len(dlv)
<1>1. rxm # None /\ m.f = "ACK" /\ m.data \in Nat
  BY RxmFields DEF RxAck, RxTransition
<1>2. UNCHANGED <<recvd, dlv>> \/ \E room \in BOOLEAN : TakeData(m, room)
  BY DEF RxAck
<1>3. CASE m.data # 0 /\ m.seq = recvd /\ recvd' = Add(m.seq, 1) /\ dlv' = Append(dlv, m.data)
  <2>1. m.data <= p.n /\ m.seq = PeerSeq(m.data)
    <3>1. m \notin OldSegs
      BY <1>1, <1>3, NotOld
    <3>2. FromPeer(m, p.n, p.fin)
      BY <1>1, <3>1 DEF Received
    <3> QED
      BY <1>1, <1>3, <3>2 DEF FromPeer
  <2>2. L \in Nat /\ L <= p.n /\ p.n \in Nat /\ p.n <= MaxMoves /\ (p.fin => p.n + 1 <= MaxMoves)
    BY RecvdIs, PeerFields
  <2>3. m.data < SeqSpace
    BY <1>1, <2>1, <2>2, Space
  <2>4. CASE recvd = PeerSeq(1 + L)
    <3>2. 1 + L \in Nat /\ 1 + L < SeqSpace
      BY <2>2, Space
    <3>3. m.data = 1 + L
      BY <1>1, <1>3, <2>1, <2>3, <2>4, <3>2, PeerSeqSame
    <3>4. L + 1 <= p.n /\ (1 + L) + 1 < SeqSpace
      BY <2>1, <2>2, <3>3, Space
    <3>5. recvd' = PeerSeq((1 + L) + 1)
      BY <1>3, <2>4, <3>2, <3>4, PeerSeqOn
    <3>6. dlv' = Append([i \in 1 .. L |-> i], L + 1)
      <4>1. 1 + L = L + 1
        BY <2>2
      <4>2. dlv = [i \in 1 .. L |-> i]
        BY DEF Received
      <4> QED
        BY <1>3, <3>3, <4>1, <4>2
    <3>7. dlv' = [i \in 1 .. L + 1 |-> i]
      BY <2>2, <3>6, OneMore
    <3>8. Len(dlv') = L + 1
      BY <2>2, <3>7
    <3>9. 1 + Len(dlv') = (1 + L) + 1
      BY <2>2, <3>8
    <3> HIDE DEF L, m
    <3> QED
      BY <3>4, <3>5, <3>7, <3>8, <3>9
  <2>5. CASE recvd = PeerSeq(2 + p.n) /\ p.fin
    <3>1. 2 + p.n \in Nat /\ 2 + p.n < SeqSpace
      BY <2>2, <2>5, Space
    <3>2. m.data = 2 + p.n
      BY <1>1, <1>3, <2>1, <2>3, <2>5, <3>1, PeerSeqSame
    <3> QED
      BY <2>1, <2>2, <3>2
  <2> QED
    BY <2>4, <2>5 DEF Received
<1> QED
  BY <1>2, <1>3 DEF TakeData, Accepted

\* A FIN that is taken is the last the peer sent.
LEMMA FinReceived ==
  ASSUME Types, Received, RxFin
  PROVE  \/ UNCHANGED <<recvd, dlv>> /\ (st' = st)
         \/ /\ dlv' = [i \in 1 .. Len(dlv') |-> i] /\ Len(dlv') = p.n /\ p.fin
            /\ recvd' = PeerSeq(2 + p.n) /\ st' \notin {"SYN_RECEIVED", "ESTABLISHED"}
            /\ rxm.m \notin OldSegs
<1> DEFINE m == rxm.m
           L == Len(dlv)
<1>1. rxm # None /\ m.f = "FIN" /\ m.data \in Nat
  BY RxmFields DEF RxFin, RxTransition
<1>2. CASE st \in {"ESTABLISHED", "FIN_WAIT_1", "FIN_WAIT_2"} /\ recvd = m.seq
  <2>1. m \notin OldSegs
    BY <1>1, <1>2, NotOld
  <2>2. p.fin /\ IF m.data = 0 THEN m.seq = PeerSeq(1 + p.n) ELSE m.data = p.n /\ m.seq = PeerSeq(p.n)
    <3>1. FromPeer(m, p.n, p.fin)
      BY <1>1, <2>1 DEF Received
    <3> QED
      BY <1>1, <3>1 DEF FromPeer
  <2>3. L \in Nat /\ L <= p.n /\ p.n \in Nat /\ p.n + 1 <= MaxMoves
    BY <2>2, RecvdIs, PeerFields
  <2>4. 2 + p.n \in Nat /\ 2 + p.n < SeqSpace /\ 1 + p.n \in Nat /\ 1 + p.n < SeqSpace
        /\ p.n < SeqSpace /\ 1 + L \in Nat /\ 1 + L < SeqSpace
    BY <2>3, Space
  <2>5. PeerSeq(2 + p.n) # PeerSeq(1 + p.n) /\ PeerSeq(2 + p.n) # PeerSeq(p.n)
    <3>1. 2 + p.n # 1 + p.n /\ 2 + p.n # p.n
      BY <2>3
    <3> QED
      BY <2>3, <2>4, <3>1, PeerSeqSame
  <2>6. recvd = PeerSeq(1 + L)
    BY <1>2, <2>2, <2>5 DEF Received
  <2>7. /\ recvd' = Add(m.seq, SegLen(m) + 1)
        /\ dlv' = IF m.data # 0 THEN Append(dlv, m.data) ELSE dlv
        /\ SetState("LAST_ACK") \/ SetState("TIME_WAIT") \/ SetState("CLOSING")
    BY <1>2 DEF RxFin
  <2>8. st' \notin {"SYN_RECEIVED", "ESTABLISHED"}
    BY <2>7 DEF SetState
  <2>9. dlv = [i \in 1 .. L |-> i]
    BY DEF Received
  <2>10. CASE m.data = 0
    <3>1. L = p.n
      <4>1. PeerSeq(1 + L) = PeerSeq(1 + p.n)
        BY <1>2, <2>2, <2>6, <2>10
      <4>2. 1 + L = 1 + p.n
        BY <2>4, <4>1, PeerSeqSame
      <4> QED
        BY <2>3, <4>2
    <3>2. recvd' = Add(PeerSeq(1 + p.n), 1)
      BY <2>2, <2>7, <2>10 DEF SegLen
    <3>3. recvd' = PeerSeq((1 + p.n) + 1) /\ (1 + p.n) + 1 = 2 + p.n
      BY <2>3, <2>4, <3>2, PeerSeqOn
    <3>4. dlv' = dlv
      BY <2>7, <2>10
    <3> QED
      BY <2>1, <2>2, <2>8, <2>9, <3>1, <3>3, <3>4
  <2>11. CASE m.data # 0
    <3>1. 1 + L = p.n
      <4>1. PeerSeq(1 + L) = PeerSeq(p.n)
        BY <1>2, <2>2, <2>6, <2>11
      <4> QED
        BY <2>3, <2>4, <4>1, PeerSeqSame
    <3>2. recvd' = Add(PeerSeq(p.n), 2)
      <4>1. SegLen(m) + 1 = 2
        BY <2>11 DEF SegLen
      <4> QED
        BY <2>2, <2>7, <2>11, <4>1
    <3>3. p.n + 2 < SeqSpace /\ p.n + 2 = 2 + p.n
      BY <2>3, <2>4
    <3>4. recvd' = PeerSeq(2 + p.n)
      BY <2>3, <3>2, <3>3, PeerSeqOn
    <3>5. dlv' = Append([i \in 1 .. L |-> i], L + 1)
      <4>1. m.data = L + 1
        BY <2>2, <2>3, <2>11, <3>1
      <4> QED
        BY <2>7, <2>9, <2>11, <4>1
    <3>6. dlv' = [i \in 1 .. L + 1 |-> i]
      BY <2>3, <3>5, OneMore
    <3>7. Len(dlv') = L + 1 /\ L + 1 = p.n
      BY <2>3, <3>1, <3>6
    <3> QED
      BY <2>1, <2>2, <2>8, <3>4, <3>6, <3>7
  <2> QED
    BY <2>10, <2>11
<1>3. CASE ~(st \in {"ESTABLISHED", "FIN_WAIT_1", "FIN_WAIT_2"} /\ recvd = m.seq)
  BY <1>3 DEF RxFin, SetState
<1> QED
  BY <1>2, <1>3

LEMMA ConnReceived ==
  ASSUME Types, ~SimOpen, Session, Received, Next
  PROVE  Received'
<1>0. ~AppOpen /\ ~AppSyn
  BY DEF Session, AppOpen, AppSyn
<1>1. st' \in {"SYN_RECEIVED", "ESTABLISHED"} => st \in {"SYN_RECEIVED", "ESTABLISHED"}
  BY <1>0, StillOpen
<1>2. \/ UNCHANGED <<recvd, dlv>>
      \/ /\ dlv' = [i \in 1 .. Len(dlv') |-> i] /\ Len(dlv') <= p.n
         /\ recvd' = PeerSeq(1 + Len(dlv'))
      \/ /\ dlv' = [i \in 1 .. Len(dlv') |-> i] /\ Len(dlv') = p.n /\ p.fin
         /\ recvd' = PeerSeq(2 + p.n) /\ st' \notin {"SYN_RECEIVED", "ESTABLISHED"}
  <2>1. CASE Application \/ EventEngine \/ Timers
    BY <2>1 DEF Application, AppOpen, AppSyn, AppWrite, AppClose, EventEngine, Timers, AckTimeout,
                RtTimeout, CloseTimeout
  <2>2. CASE TxEngine
    BY <2>2 DEF TxEngine, TxSyn, TxData, TxFin, TxRt, TxAck, TxRst
  <2>3. CASE RxAck
    BY <2>3, AckReceived
  <2>4. CASE RxFin
    BY <2>4, FinReceived
  <2>5. CASE RxSyn \/ RxSynAck \/ RxRst
    <3>1. rxm # None
      BY <2>5 DEF RxSyn, RxSynAck, RxRst, RxTransition
    <3> QED
      BY <2>5, <3>1, ConnRx DEF RxSyn, RxSynAck, RxRst
  <2>6. CASE \E m \in toToe : RxLoad(m) \/ RxDrop(m)
    BY <2>6 DEF RxLoad, RxDrop
  <2>7. CASE PeerStep \/ \E m \in toPeer : PeerRecv(m)
    BY <2>7 DEF PeerStep, PeerRecv
  <2> QED
    BY <2>1, <2>2, <2>3, <2>4, <2>5, <2>6, <2>7 DEF Next, RxEngine
<1>3. p.n \in Nat /\ p'.n \in Nat /\ p.n <= p'.n /\ (p.fin => p'.fin /\ p'.n = p.n) /\ Len(dlv) \in Nat
      /\ (p' = p \/ p'.n = p.n \/ UNCHANGED <<recvd, dlv, st>>)
  <2>1. p.n \in Nat /\ Len(dlv) \in Nat
    BY PeerFields DEF Types, PlainTypes
  <2>2. Types'
    BY TypesStep
  <2>3. p'.n \in Nat
    BY <2>2 DEF Types, PeerTypes, Peer
  <2>4. p.n <= p'.n /\ (p.fin => p'.fin /\ p'.n = p.n)
    BY <2>1, PeerOnly, ConnPeerStep, ConnPeerRecv
  <2>5. p' = p \/ p'.n = p.n \/ UNCHANGED <<recvd, dlv, st>>
    BY PeerOnly, ConnPeerRecv DEF PeerStep
  <2> QED
    BY <2>1, <2>3, <2>4, <2>5
<1>4. \A m : FromPeer(m, p.n, p.fin) /\ m.data \in Nat => FromPeer(m, p'.n, p'.fin)
  BY <1>3 DEF FromPeer
<1>5. /\ \A m \in toToe : m.data \in Nat
      /\ rxm # None => rxm.m.data \in Nat
  <2>1. \A m \in toToe : m.data \in 0 .. Junk
    BY SegFields DEF Types, NetTypes
  <2>2. rxm # None => rxm.m.data \in 0 .. Junk
    BY RxmFields
  <2> QED
    BY <2>1, <2>2, Zero
<1>6. \A m \in toToe' : m \in OldSegs \/ FromPeer(m, p'.n, p'.fin)
  <2>1. CASE PeerStep
    BY <1>4, <1>5, <2>1, ConnPeerStep DEF Received
  <2>2. CASE ~PeerStep
    BY <1>4, <1>5, <2>2, ToToeStep DEF Received
  <2> QED
    BY <2>1, <2>2
<1>7. rxm' # None => rxm'.m \in OldSegs \/ FromPeer(rxm'.m, p'.n, p'.fin)
  <2>1. CASE \E m \in toToe : RxLoad(m)
    BY <1>4, <1>5, <2>1 DEF RxLoad, Received
  <2> QED
    BY <1>4, <1>5, <2>1, RxmStep DEF Received
<1>8. dlv' = [i \in 1 .. Len(dlv') |-> i] /\ Len(dlv') <= p'.n
  <2>1. dlv = [i \in 1 .. Len(dlv) |-> i] /\ Len(dlv) <= p.n
    BY DEF Received
  <2>2. Len(dlv') \in Nat
    BY TypesStep DEF Types, PlainTypes
  <2> QED
    BY <1>2, <1>3, <2>1, <2>2
<1>9. \/ recvd' = PeerSeq(1 + Len(dlv'))
      \/ /\ recvd' = PeerSeq(2 + p'.n) /\ p'.fin /\ Len(dlv') = p'.n
         /\ st' \notin {"SYN_RECEIVED", "ESTABLISHED"}
  <2>1. \/ recvd = PeerSeq(1 + Len(dlv))
        \/ /\ recvd = PeerSeq(2 + p.n) /\ p.fin /\ Len(dlv) = p.n
           /\ st \notin {"SYN_RECEIVED", "ESTABLISHED"}
    BY DEF Received
  <2> QED
    BY <1>1, <1>2, <1>3, <2>1
<1> QED
  BY <1>6, <1>7, <1>8, <1>9 DEF Received

----------------------------------------------------------------------------
(* The sending side: numbers and pointers. *)

LEMMA RingSelf ==
  ASSUME NEW x \in Nat
  PROVE  Ring(x) <= x /\ (x < WinMod => Ring(x) = x)
<1>1. x \div WinMod \in Nat /\ x = WinMod * (x \div WinMod) + Ring(x) /\ Ring(x) \in Nat
  BY Space DEF Ring
<1> DEFINE d == x \div WinMod
           w == WinMod * d
<1>2. w \in Nat
  BY <1>1, Space
<1>3. x = w + Ring(x)
  BY <1>1
<1> HIDE DEF w, d
<1>4. Ring(x) <= x
  BY <1>1, <1>2, <1>3
<1>5. x < WinMod => x \in 0 .. WinMod - 1
  BY Space
<1> QED
  BY <1>4, <1>5, RingSmall

\* Two places that are less than a round apart.
LEMMA RingDistinct ==
  ASSUME NEW x \in Int, NEW y \in Int, x < y, y - x < WinMod
  PROVE  Ring(x) # Ring(y)
<1> SUFFICES ASSUME Ring(x) = Ring(y)
             PROVE  FALSE
  OBVIOUS
<1>1. Ring(y - Ring(x)) = Ring(y - x)
  BY RingRing
<1>2. Ring(y - Ring(y)) = Ring(y - y)
  BY RingRing
<1>3. y - y = 0 /\ y - x \in Nat /\ y - x > 0 /\ 0 \in 0 .. WinMod - 1
  BY Space
<1>4. Ring(y - y) = 0
  BY <1>3, RingSmall
<1>5. Ring(y - x) = y - x
  BY <1>3, RingSelf
<1> QED
  BY <1>1, <1>2, <1>3, <1>4, <1>5

\* A number and its distance from the first have the same place in the buffer.
LEMMA RingDist ==
  ASSUME NEW a \in Seq0, NEW b \in Seq0, NEW k \in Int
  PROVE  Ring(b + k) = Ring(a + Dist(a, b) + k)
<1>1. a \in Int /\ b \in Int /\ SeqSpace \in Int
  BY SeqInt, Space
<1>2. Dist(a, b) = IF b < a THEN b - a + SeqSpace ELSE b - a
  BY DistIs
<1> HIDE DEF Dist
<1>3. a + Dist(a, b) + k = b + k \/ a + Dist(a, b) + k = (b + k) + SeqSpace
  BY <1>1, <1>2
<1>4. Ring((b + k) + SeqSpace) = Ring(b + k)
  BY <1>1, RingSpace
<1> QED
  BY <1>3, <1>4

\* Between two numbers, seen from the one and from the first.
LEMMA RangeDist ==
  ASSUME NEW i \in Seq0, NEW a \in Seq0, NEW b \in Seq0, NEW x \in Seq0,
         Dist(i, a) <= Dist(i, b)
  PROVE  AckInRange(a, x, b) <=> (Dist(i, a) <= Dist(i, x) /\ Dist(i, x) <= Dist(i, b))
<1>1. /\ i \in Nat /\ i < SeqSpace /\ a \in Nat /\ a < SeqSpace /\ b \in Nat /\ b < SeqSpace
      /\ x \in Nat /\ x < SeqSpace /\ SeqSpace \in Nat
  BY SeqInt, Space
<1>2. /\ Dist(i, a) = IF a < i THEN a - i + SeqSpace ELSE a - i
      /\ Dist(i, b) = IF b < i THEN b - i + SeqSpace ELSE b - i
      /\ Dist(i, x) = IF x < i THEN x - i + SeqSpace ELSE x - i
  BY DistIs
<1> DEFINE A == Dist(i, a)
           B == Dist(i, b)
           X == Dist(i, x)
<1>3. A <= B
  OBVIOUS
<1>4. AckInRange(a, x, b) <=> (a <= x /\ x <= b) \/ ((a <= x \/ x <= b) /\ b < a)
  BY DEF AckInRange
<1> HIDE DEF A, B, X
<1>5. /\ A = IF a < i THEN a - i + SeqSpace ELSE a - i
      /\ B = IF b < i THEN b - i + SeqSpace ELSE b - i
      /\ X = IF x < i THEN x - i + SeqSpace ELSE x - i
  BY <1>2 DEF A, B, X
<1>6. (a <= x /\ x <= b) \/ ((a <= x \/ x <= b) /\ b < a) <=> A <= X /\ X <= B
  BY ONLY <1>1, <1>3, <1>5
<1> QED
  BY <1>4, <1>6 DEF A, B, X

----------------------------------------------------------------------------
(* The sending side: the events of the writes. *)

\* What the lemmas below take apart.
LEMMA QueueParts ==
  ASSUME NEW tq \in Seq(GoodEvent), NEW aq \in Seq(GoodEvent), NEW n \in Nat, NEW w \in Nat,
         InQueue(tq, aq, n, w)
  PROVE  /\ FirstBehind(tq, n) \in Nat
         /\ FirstBehind(tq, n) = IF HasTx(tq) THEN n + 1 ELSE n
         /\ \A i \in TxEvents(tq) : i = 1 /\ tq[i].arg = n
         /\ \A i \in TxEvents(aq) : aq[i].arg \in FirstBehind(tq, n) .. w
         /\ \A i, j \in TxEvents(aq) : i < j => aq[i].arg < aq[j].arg
         /\ \A v \in FirstBehind(tq, n) .. w : \E i \in TxEvents(aq) : aq[i].arg = v
         /\ FirstBehind(tq, n) <= w + 1
BY DEF InQueue, FirstBehind

\* The queue of the TX engine changes, what is behind it does not.
LEMMA QueueAhead ==
  ASSUME NEW tq, NEW aq, NEW n, NEW w, NEW tr, NEW k, InQueue(tq, aq, n, w),
         FirstBehind(tr, k) = FirstBehind(tq, n),
         \A i \in TxEvents(tr) : i = 1 /\ tr[i].arg = k
  PROVE  InQueue(tr, aq, k, w)
BY DEF InQueue

LEMMA QueueAppend ==
  ASSUME NEW tq \in Seq(GoodEvent), NEW aq, NEW n \in Nat, NEW w, NEW e \in GoodEvent,
         InQueue(tq, aq, n, w), e.t # "TX"
  PROVE  InQueue(Append(tq, e), aq, n, w)
<1> DEFINE tr == Append(tq, e)
<1>1. /\ tr \in Seq(GoodEvent) /\ Len(tr) = Len(tq) + 1 /\ Len(tq) \in Nat /\ tr # <<>>
      /\ \A i \in 1 .. Len(tq) : tr[i] = tq[i]
      /\ tr[Len(tq) + 1] = e /\ DOMAIN tr = 1 .. Len(tq) + 1 /\ DOMAIN tq = 1 .. Len(tq)
      /\ Head(tr) = tr[1]
  BY Appended, Tailed
<1> HIDE DEF tr
<1>2. \A i \in TxEvents(tr) : i \in TxEvents(tq) /\ tr[i] = tq[i]
  BY <1>1 DEF TxEvents
<1>3. HasTx(tr) <=> HasTx(tq)
  <2>1. CASE tq = <<>>
    BY <1>1, <2>1 DEF HasTx
  <2>2. CASE tq # <<>>
    <3>1. Len(tq) >= 1 /\ Head(tq) = tq[1]
      BY <2>2, Tailed
    <3>2. tr[1] = tq[1]
      BY <1>1, <3>1
    <3> QED
      BY <1>1, <2>2, <3>1, <3>2 DEF HasTx
  <2> QED
    BY <2>1, <2>2
<1>4. FirstBehind(tr, n) = FirstBehind(tq, n)
  BY <1>3 DEF FirstBehind
<1>5. \A i \in TxEvents(tr) : i = 1 /\ tr[i].arg = n
  BY <1>2 DEF InQueue
<1>6. InQueue(tr, aq, n, w)
  BY <1>4, <1>5, QueueAhead
<1> QED
  BY <1>6 DEF tr

\* The TX engine takes an event; if it is a write, it sends it.
LEMMA QueueTake ==
  ASSUME NEW tq \in Seq(GoodEvent), NEW aq, NEW n \in Nat, NEW w, tq # <<>>,
         InQueue(tq, aq, n, w)
  PROVE  /\ Head(tq).t # "TX" => InQueue(Tail(tq), aq, n, w)
         /\ Head(tq).t = "TX" => InQueue(Tail(tq), aq, n + 1, w) /\ Head(tq).arg = n
<1> DEFINE tr == Tail(tq)
<1>1. /\ tr \in Seq(GoodEvent) /\ Len(tr) = Len(tq) - 1 /\ Len(tq) \in Nat /\ Len(tq) >= 1
      /\ \A i \in 1 .. Len(tq) - 1 : tr[i] = tq[i + 1]
      /\ DOMAIN tr = 1 .. Len(tq) - 1 /\ DOMAIN tq = 1 .. Len(tq)
      /\ Head(tq) = tq[1]
  BY Tailed
<1>2. tr # <<>> => Head(tr) = tr[1] /\ Len(tr) >= 1
  BY <1>1, Tailed
<1> HIDE DEF tr
<1>3. TxEvents(tr) = {}
  <2>1. ASSUME NEW i \in TxEvents(tr)
        PROVE  FALSE
    <3>1. i \in 1 .. Len(tq) - 1 /\ tr[i] = tq[i + 1] /\ tr[i].t = "TX"
      BY <1>1, <2>1 DEF TxEvents
    <3>2. i + 1 \in DOMAIN tq /\ i + 1 # 1
      BY <1>1, <3>1
    <3>3. i + 1 \in TxEvents(tq)
      BY <3>1, <3>2 DEF TxEvents
    <3> QED
      BY <3>2, <3>3 DEF InQueue
  <2> QED
    BY <2>1
<1>4. ~HasTx(tr)
  <2>1. tr # <<>> => 1 \in DOMAIN tr
    BY <1>1, <1>2
  <2> QED
    BY <1>2, <1>3, <2>1 DEF HasTx, TxEvents
<1>5. FirstBehind(tr, n) = n /\ FirstBehind(tr, n + 1) = n + 1
  BY <1>4 DEF FirstBehind
<1>6. ASSUME Head(tq).t # "TX"
      PROVE  InQueue(tr, aq, n, w)
  <2>1. FirstBehind(tq, n) = n
    BY <1>6 DEF FirstBehind, HasTx
  <2> QED
    BY <1>3, <1>5, <2>1, QueueAhead
<1>7. ASSUME Head(tq).t = "TX"
      PROVE  InQueue(tr, aq, n + 1, w) /\ Head(tq).arg = n
  <2>1. FirstBehind(tq, n) = n + 1
    BY <1>7 DEF FirstBehind, HasTx
  <2>2. 1 \in TxEvents(tq)
    BY <1>1, <1>7 DEF TxEvents
  <2>3. Head(tq).arg = n
    BY <1>1, <2>2 DEF InQueue
  <2>4. FirstBehind(tr, n + 1) = FirstBehind(tq, n)
    BY <1>5, <2>1
  <2>5. n + 1 \in Nat
    OBVIOUS
  <2> QED
    BY <1>3, <2>3, <2>4, <2>5, QueueAhead
<1> QED
  BY <1>6, <1>7 DEF tr

\* The events of the writes keep their order.
LEMMA QueueShift ==
  ASSUME NEW tq, NEW aq, NEW n, NEW w, NEW ar, InQueue(tq, aq, n, w),
         NEW h \in [TxEvents(ar) -> TxEvents(aq)],
         \A i \in TxEvents(ar) : ar[i].arg = aq[h[i]].arg,
         \A i, j \in TxEvents(ar) : i < j => h[i] < h[j],
         \A k \in TxEvents(aq) : \E i \in TxEvents(ar) : h[i] = k
  PROVE  InQueue(tq, ar, n, w)
<1>1. \A i \in TxEvents(ar) : ar[i].arg \in FirstBehind(tq, n) .. w
  BY DEF InQueue
<1>2. \A i, j \in TxEvents(ar) : i < j => ar[i].arg < ar[j].arg
  BY DEF InQueue
<1>3. ASSUME NEW v \in FirstBehind(tq, n) .. w
      PROVE  \E i \in TxEvents(ar) : ar[i].arg = v
  <2>1. PICK k \in TxEvents(aq) : aq[k].arg = v
    BY DEF InQueue
  <2>2. PICK i \in TxEvents(ar) : h[i] = k
    BY <2>1
  <2> QED
    BY <2>1, <2>2
<1> QED
  BY <1>1, <1>2, <1>3 DEF InQueue

\* An event that is not a write goes in anywhere.
LEMMA QueueInsert ==
  ASSUME NEW tq, NEW aq \in Seq(GoodEvent), NEW n, NEW w, NEW e \in GoodEvent, e.t # "TX",
         NEW k \in 1 .. Len(aq) + 1, InQueue(tq, aq, n, w)
  PROVE  InQueue(tq, InsertAt(aq, k, e), n, w)
<1> DEFINE ar == InsertAt(aq, k, e)
           h == [i \in TxEvents(ar) |-> IF i < k THEN i ELSE i - 1]
<1>1. /\ ar \in Seq(GoodEvent) /\ Len(ar) = Len(aq) + 1 /\ Len(aq) \in Nat
      /\ \A i \in 1 .. k - 1 : ar[i] = aq[i]
      /\ ar[k] = e
      /\ \A i \in k + 1 .. Len(aq) + 1 : ar[i] = aq[i - 1]
  BY Inserted
<1>2. DOMAIN ar = 1 .. Len(aq) + 1 /\ DOMAIN aq = 1 .. Len(aq) /\ k \in Nat /\ k >= 1
  BY <1>1
<1> HIDE DEF ar
<1>3. ASSUME NEW i \in TxEvents(ar)
      PROVE  i \in Nat /\ i # k /\ h[i] \in TxEvents(aq) /\ ar[i].arg = aq[h[i]].arg
  <2>1. i \in 1 .. Len(aq) + 1 /\ ar[i].t = "TX" /\ i # k
    BY <1>1, <1>2, <1>3 DEF TxEvents
  <2>2. CASE i < k
    <3>1. i \in 1 .. k - 1 /\ i \in DOMAIN aq
      BY <1>1, <1>2, <2>1, <2>2
    <3> QED
      BY <1>1, <2>1, <2>2, <3>1 DEF TxEvents
  <2>3. CASE i > k
    <3>1. i \in k + 1 .. Len(aq) + 1 /\ i - 1 \in DOMAIN aq /\ ~(i < k)
      BY <1>1, <1>2, <2>1, <2>3
    <3> QED
      BY <1>1, <2>1, <3>1 DEF TxEvents
  <2> QED
    BY <1>2, <2>1, <2>2, <2>3
<1>4. h \in [TxEvents(ar) -> TxEvents(aq)]
  BY <1>3
<1>5. \A i, j \in TxEvents(ar) : i < j => h[i] < h[j]
  <2>1. SUFFICES ASSUME NEW i \in TxEvents(ar), NEW j \in TxEvents(ar), i < j
                 PROVE  h[i] < h[j]
    OBVIOUS
  <2>2. i \in Nat /\ j \in Nat /\ i # k /\ j # k
    BY <1>3
  <2>3. h[i] = (IF i < k THEN i ELSE i - 1) /\ h[j] = (IF j < k THEN j ELSE j - 1)
    OBVIOUS
  <2> HIDE DEF h
  <2> QED
    BY <1>2, <2>1, <2>2, <2>3
<1>6. ASSUME NEW l \in TxEvents(aq)
      PROVE  \E i \in TxEvents(ar) : h[i] = l
  <2>1. l \in 1 .. Len(aq) /\ aq[l].t = "TX"
    BY <1>2 DEF TxEvents
  <2>2. CASE l < k
    <3>1. l \in 1 .. k - 1 /\ l \in DOMAIN ar
      BY <1>1, <1>2, <2>1, <2>2
    <3>2. l \in TxEvents(ar) /\ h[l] = l
      BY <1>1, <2>1, <2>2, <3>1 DEF TxEvents
    <3> QED
      BY <3>2
  <2>3. CASE l >= k
    <3>1. l + 1 \in k + 1 .. Len(aq) + 1 /\ l + 1 \in DOMAIN ar /\ (l + 1) - 1 = l /\ ~(l + 1 < k)
      BY <1>1, <1>2, <2>1, <2>3
    <3>2. ar[l + 1] = aq[l]
      BY <1>1, <3>1
    <3>3. l + 1 \in TxEvents(ar)
      BY <2>1, <3>1, <3>2 DEF TxEvents
    <3>4. h[l + 1] = l
      BY <3>1, <3>3
    <3> QED
      BY <3>3, <3>4
  <2>4. l < k \/ l >= k
    BY <1>2, <2>1
  <2> QED
    BY <2>2, <2>3, <2>4
<1> HIDE DEF h
<1>7. InQueue(tq, ar, n, w)
  BY <1>3, <1>4, <1>5, <1>6, QueueShift
<1> QED
  BY <1>7 DEF ar

\* The event engine takes an event that is not a write.
LEMMA QueueDrop ==
  ASSUME NEW tq, NEW aq \in Seq(GoodEvent), NEW n, NEW w, aq # <<>>, Head(aq).t # "TX",
         InQueue(tq, aq, n, w)
  PROVE  InQueue(tq, Tail(aq), n, w)
<1> DEFINE ar == Tail(aq)
           h == [i \in TxEvents(ar) |-> i + 1]
<1>1. /\ ar \in Seq(GoodEvent) /\ Len(ar) = Len(aq) - 1 /\ Len(aq) \in Nat /\ Len(aq) >= 1
      /\ \A i \in 1 .. Len(aq) - 1 : ar[i] = aq[i + 1]
      /\ DOMAIN ar = 1 .. Len(aq) - 1 /\ DOMAIN aq = 1 .. Len(aq)
      /\ Head(aq) = aq[1]
  BY Tailed
<1> HIDE DEF ar
<1>2. ASSUME NEW i \in TxEvents(ar)
      PROVE  i \in Nat /\ h[i] = i + 1 /\ h[i] \in TxEvents(aq) /\ ar[i].arg = aq[h[i]].arg
  <2>1. i \in 1 .. Len(aq) - 1 /\ ar[i].t = "TX" /\ ar[i] = aq[i + 1] /\ i + 1 \in DOMAIN aq
    BY <1>1, <1>2 DEF TxEvents
  <2> QED
    BY <2>1 DEF TxEvents
<1>3. h \in [TxEvents(ar) -> TxEvents(aq)]
  BY <1>2
<1>4. \A i, j \in TxEvents(ar) : i < j => h[i] < h[j]
  BY <1>2
<1>5. ASSUME NEW l \in TxEvents(aq)
      PROVE  \E i \in TxEvents(ar) : h[i] = l
  <2>1. l \in 1 .. Len(aq) /\ aq[l].t = "TX" /\ l # 1
    BY <1>1 DEF TxEvents
  <2>2. l - 1 \in DOMAIN ar /\ ar[l - 1] = aq[(l - 1) + 1] /\ (l - 1) + 1 = l
    BY <1>1, <2>1
  <2>3. l - 1 \in TxEvents(ar)
    BY <2>1, <2>2 DEF TxEvents
  <2> QED
    BY <2>2, <2>3
<1> HIDE DEF h
<1>6. InQueue(tq, ar, n, w)
  BY <1>2, <1>3, <1>4, <1>5, QueueShift
<1> QED
  BY <1>6 DEF ar

\* The event engine hands a write to the TX engine.
LEMMA QueueMove ==
  ASSUME NEW aq \in Seq(GoodEvent), NEW n \in Nat, NEW w \in Nat, aq # <<>>, Head(aq).t = "TX",
         InQueue(<<>>, aq, n, w)
  PROVE  InQueue(Append(<<>>, Head(aq)), Tail(aq), n, w)
<1> DEFINE ar == Tail(aq)
           e == Head(aq)
           tr == Append(<<>>, e)
<1>1. /\ ar \in Seq(GoodEvent) /\ Len(ar) = Len(aq) - 1 /\ Len(aq) \in Nat /\ Len(aq) >= 1
      /\ \A i \in 1 .. Len(aq) - 1 : ar[i] = aq[i + 1]
      /\ DOMAIN ar = 1 .. Len(aq) - 1 /\ DOMAIN aq = 1 .. Len(aq)
      /\ e = aq[1] /\ e \in GoodEvent
  BY Tailed
<1>2. tr # <<>> /\ Head(tr) = e /\ DOMAIN tr = {1} /\ tr[1] = e
  OBVIOUS
<1>3. FirstBehind(<<>>, n) = n
  BY DEF FirstBehind, HasTx
<1>4. FirstBehind(tr, n) = n + 1
  BY <1>2 DEF FirstBehind, HasTx
<1>5. 1 \in TxEvents(aq)
  BY <1>1 DEF TxEvents
<1> HIDE DEF ar, e, tr
<1>6. \A i \in TxEvents(aq) : aq[i].arg \in n .. w
  BY <1>3 DEF InQueue
<1>7. aq[1].arg = n
  <2>1. aq[1].arg \in n .. w
    BY <1>5, <1>6
  <2>2. n \in n .. w
    BY <2>1
  <2>3. PICK i \in TxEvents(aq) : aq[i].arg = n
    BY <1>3, <2>2 DEF InQueue
  <2>4. i \in Nat /\ i >= 1
    BY <1>1 DEF TxEvents
  <2>5. i # 1 => aq[1].arg < n
    BY <1>5, <2>3, <2>4 DEF InQueue
  <2> QED
    BY <2>1, <2>3, <2>5
<1>8. \A i \in TxEvents(tr) : i = 1 /\ tr[i].arg = n
  BY <1>1, <1>2, <1>7 DEF TxEvents
<1>9. ASSUME NEW i \in TxEvents(ar)
      PROVE  i \in Nat /\ i + 1 \in TxEvents(aq) /\ ar[i] = aq[i + 1] /\ 1 < i + 1
  <2>1. i \in 1 .. Len(aq) - 1 /\ ar[i].t = "TX" /\ ar[i] = aq[i + 1] /\ i + 1 \in DOMAIN aq
    BY <1>1, <1>9 DEF TxEvents
  <2> QED
    BY <2>1 DEF TxEvents
<1>10. \A i \in TxEvents(ar) : ar[i].arg \in n + 1 .. w
  <2>1. SUFFICES ASSUME NEW i \in TxEvents(ar)
                 PROVE  ar[i].arg \in n + 1 .. w
    OBVIOUS
  <2>2. aq[i + 1].arg \in n .. w /\ aq[1].arg < aq[i + 1].arg
    BY <1>5, <1>6, <1>9 DEF InQueue
  <2> QED
    BY <1>7, <1>9, <2>2
<1>11. \A i, j \in TxEvents(ar) : i < j => ar[i].arg < ar[j].arg
  <2>1. SUFFICES ASSUME NEW i \in TxEvents(ar), NEW j \in TxEvents(ar), i < j
                 PROVE  ar[i].arg < ar[j].arg
    OBVIOUS
  <2>2. i + 1 < j + 1 /\ i + 1 \in TxEvents(aq) /\ j + 1 \in TxEvents(aq)
    BY <1>9, <2>1
  <2>3. aq[i + 1].arg < aq[j + 1].arg
    BY <2>2 DEF InQueue
  <2> QED
    BY <1>9, <2>3
<1>12. ASSUME NEW v \in n + 1 .. w
       PROVE  \E i \in TxEvents(ar) : ar[i].arg = v
  <2>1. v \in n .. w /\ v # n
    BY <1>12
  <2>2. PICK l \in TxEvents(aq) : aq[l].arg = v
    BY <1>3, <2>1 DEF InQueue
  <2>3. l \in 1 .. Len(aq) /\ aq[l].t = "TX" /\ l # 1
    BY <1>1, <1>7, <2>1, <2>2 DEF TxEvents
  <2>4. l - 1 \in DOMAIN ar /\ ar[l - 1] = aq[(l - 1) + 1] /\ (l - 1) + 1 = l
    BY <1>1, <2>3
  <2>5. l - 1 \in TxEvents(ar)
    BY <2>3, <2>4 DEF TxEvents
  <2> QED
    BY <2>2, <2>4, <2>5
<1>13. n + 1 <= w + 1
  BY <1>5, <1>6
<1>14. InQueue(tr, ar, n, w)
  BY <1>4, <1>8, <1>10, <1>11, <1>12, <1>13 DEF InQueue
<1> QED
  BY <1>14 DEF tr, ar, e

\* A write is accepted.
LEMMA QueueWrite ==
  ASSUME NEW tq \in Seq(GoodEvent), NEW aq \in Seq(GoodEvent), NEW n \in Nat, NEW w \in Nat,
         NEW e \in GoodEvent, e.t = "TX", e.arg = w + 1, InQueue(tq, aq, n, w)
  PROVE  InQueue(tq, Append(aq, e), n, w + 1)
<1> DEFINE ar == Append(aq, e)
           b == FirstBehind(tq, n)
           L == Len(aq)
<1>1. /\ Len(ar) = L + 1 /\ L \in Nat /\ \A i \in 1 .. L : ar[i] = aq[i]
      /\ ar[L + 1] = e /\ DOMAIN ar = 1 .. L + 1 /\ DOMAIN aq = 1 .. L
  BY Appended
<1>2. b \in Nat /\ b <= w + 1
  BY QueueParts
<1> HIDE DEF ar, b, L
<1>3. \A i \in TxEvents(aq) : aq[i].arg \in b .. w /\ i \in 1 .. L
  BY <1>1 DEF InQueue, b, TxEvents
<1>4. \A i \in TxEvents(ar) : (i \in TxEvents(aq) /\ ar[i] = aq[i]) \/ (i = L + 1 /\ ar[i].arg = w + 1)
  BY <1>1 DEF TxEvents
<1>5. L + 1 \in TxEvents(ar) /\ \A i \in TxEvents(aq) : i \in TxEvents(ar) /\ ar[i] = aq[i]
  BY <1>1 DEF TxEvents
<1>6. \A i \in TxEvents(ar) : ar[i].arg \in b .. w + 1
  BY <1>2, <1>3, <1>4
<1>7. \A i, j \in TxEvents(ar) : i < j => ar[i].arg < ar[j].arg
  <2>1. SUFFICES ASSUME NEW i \in TxEvents(ar), NEW j \in TxEvents(ar), i < j
                 PROVE  ar[i].arg < ar[j].arg
    OBVIOUS
  <2>2. i \in TxEvents(aq) /\ ar[i] = aq[i]
    <3>1. j \in 1 .. L + 1 /\ i \in 1 .. L + 1
      BY <1>1 DEF TxEvents
    <3> QED
      BY <1>1, <1>4, <2>1, <3>1
  <2>3. CASE j \in TxEvents(aq) /\ ar[j] = aq[j]
    BY <2>1, <2>2, <2>3 DEF InQueue
  <2>4. CASE ar[j].arg = w + 1
    BY <1>2, <1>3, <2>2, <2>4
  <2> QED
    BY <1>4, <2>3, <2>4
<1>8. ASSUME NEW v \in b .. w + 1
      PROVE  \E i \in TxEvents(ar) : ar[i].arg = v
  <2>1. CASE v = w + 1
    BY <1>1, <1>5, <2>1
  <2>2. CASE v # w + 1
    <3>1. v \in b .. w
      BY <1>2, <2>2
    <3>2. PICK i \in TxEvents(aq) : aq[i].arg = v
      BY <3>1 DEF InQueue, b
    <3> QED
      BY <1>5, <3>2
  <2> QED
    BY <2>1, <2>2
<1>9. b <= (w + 1) + 1
  BY <1>2
<1>10. \A i \in TxEvents(tq) : i = 1 /\ tq[i].arg = n
  BY DEF InQueue
<1>11. InQueue(tq, ar, n, w + 1)
  BY <1>6, <1>7, <1>8, <1>9, <1>10 DEF InQueue, b
<1> QED
  BY <1>11 DEF ar

----------------------------------------------------------------------------
(* The sending side: one step, no FIN sent before or after it. *)

SendStep ==
  /\ Types /\ ~SimOpen /\ Session /\ Pending /\ Received /\ Sending /\ Next
  /\ ~tx.finSent /\ ~tx'.finSent

LEMMA SendTypes ==
  ASSUME SendStep
  PROVE  Types /\ Types' /\ Session /\ Pending /\ Received /\ Sending /\ Next /\ ~SimOpen
         /\ ~AppOpen /\ ~AppSyn
<1>1. ~AppOpen /\ ~AppSyn
  BY DEF SendStep, Session, AppOpen, AppSyn
<1> QED
  BY <1>1, TypesStep DEF SendStep

\* How the numbers lie.
LEMMA SendNumbers ==
  ASSUME Types, Session, Sending
  PROVE  /\ iss \in Seq0 /\ iss \in Nat /\ written \in Nat /\ written <= MaxMoves
         /\ Ackd \in Nat /\ Taken \in Nat /\ Sentd \in Nat
         /\ Ackd <= Taken /\ Taken <= Sentd /\ Sentd <= written + 1 /\ 1 <= Taken
         /\ Behind \in {Sentd, Sentd + 1} /\ Behind <= written + 1
         /\ MaxMoves \in Nat /\ MaxMoves + 1 < SeqSpace /\ SeqSpace \in Nat
<1>1. iss \in Seq0 /\ iss \in Nat /\ tx.ackd \in Seq0 /\ tx.not_ackd \in Seq0 /\ p.rnxt \in Seq0
  BY Fields, PeerFields, SeqInt DEF Types, PlainTypes
<1>2. Ackd \in Nat /\ Taken \in Nat /\ Sentd \in Nat
  BY <1>1, DistIs DEF Ackd, Taken, Sentd
<1>3. written \in Nat /\ written <= MaxMoves /\ MaxMoves \in Nat /\ MaxMoves + 1 < SeqSpace /\ SeqSpace \in Nat
  BY Space DEF Types, PlainTypes
<1>4. Behind = Sentd \/ Behind = Sentd + 1
  BY <1>2 DEF Behind, FirstBehind
<1>5. Ackd <= Taken /\ Taken <= Sentd /\ 1 <= Taken /\ Behind <= written + 1
  BY DEF Sending
<1> QED
  BY <1>1, <1>2, <1>3, <1>4, <1>5

LEMMA SendIss ==
  ASSUME SendStep
  PROVE  iss' = iss
BY IssStep DEF SendStep

\* not_ackd moves on with the byte whose event the TX engine takes.
LEMMA NoFinSent ==
  ASSUME SendStep
  PROVE  ~TxFin
<1>1. SUFFICES ASSUME TxFin
               PROVE  FALSE
  OBVIOUS
<1>2. Types
  BY DEF SendStep
<1>3. Head(txq) \in GoodEvent /\ Head(txq).t = "FIN"
  BY <1>1, <1>2, TookEvent DEF TxFin
<1>4. Head(txq).cnt = 0
  BY <1>3, EventFields
<1>5. tx' = [tx EXCEPT !.not_ackd = Add(@, 1), !.finSent = TRUE]
  BY <1>1, <1>4 DEF TxFin, FinSar
<1>6. tx \in TxSar
  BY <1>2 DEF Types, SarTypes
<1>7. tx'.finSent
  BY <1>5, <1>6 DEF TxSar
<1> QED
  BY <1>7 DEF SendStep

LEMMA SarKept ==
  ASSUME SendStep
  PROVE  \/ UNCHANGED tx
         \/ TxData /\ tx'.ackd = tx.ackd /\ tx'.not_ackd = Add(tx.not_ackd, 1)
         \/ /\ RxAck \/ RxFin
            /\ rxm # None /\ tx'.not_ackd = tx.not_ackd /\ tx'.ackd = rxm.m.ack
            /\ RxAck => AckInRange(rxm.ackd, rxm.m.ack, rxm.not_ackd) /\ rxm.f = "ACK"
            /\ RxFin => recvd = rxm.m.seq /\ rxm.f = "FIN" /\ st' \notin {"SYN_RECEIVED", "ESTABLISHED"}
<1>0. Types /\ Session /\ Pending /\ Next
  BY DEF SendStep
<1>1. CASE Application \/ EventEngine \/ Timers
  BY <1>1, SendTypes DEF Application, AppWrite, AppClose, EventEngine, Timers, AckTimeout, RtTimeout,
              CloseTimeout
<1>2. CASE TxSyn("SYN") \/ TxSyn("SYN_ACK")
  BY <1>0, <1>2, ConnSyn
<1>3. CASE TxData
  <2>1. tx' = [tx EXCEPT !.not_ackd = Add(@, 1)]
    BY <1>3 DEF TxData
  <2>2. tx \in TxSar
    BY <1>0 DEF Types, SarTypes
  <2> QED
    BY <1>3, <2>1, <2>2 DEF TxSar
<1>4. CASE TxRt
  BY <1>4 DEF TxRt, SendStep
<1>5. CASE TxAck \/ TxRst
  BY <1>5 DEF TxAck, TxRst
<1>6. CASE RxAck
  <2>1. rxm # None /\ rxm.m.ack \in Seq0 /\ rxm.m.win \in Windows /\ rxm.f = "ACK"
    BY <1>0, <1>6, RxmFields DEF RxAck, RxTransition
  <2>2. CASE UNCHANGED tx
    BY <2>2
  <2>3. CASE /\ AckInRange(rxm.ackd, rxm.m.ack, rxm.not_ackd)
             /\ TxSarUpdate(rxm.m.ack, rxm.m.win, DupCount(rxm.m), DupCount(rxm.m) = FastDups \/ FastDone(rxm.m))
    <3>1. tx'.ackd = rxm.m.ack /\ tx'.not_ackd = tx.not_ackd
      BY <1>0, <2>1, <2>3, DupTypes, SarUpdated
    <3>2. ~RxFin
      BY <2>1 DEF RxFin, RxTransition
    <3> QED
      BY <1>6, <2>1, <2>3, <3>1, <3>2
  <2> QED
    BY <1>6, <2>2, <2>3 DEF RxAck
<1>7. CASE RxFin
  <2>1. rxm # None /\ rxm.m.ack \in Seq0 /\ rxm.m.win \in Windows /\ rxm.f = "FIN"
        /\ rxm.count \in 0 .. FastDups /\ rxm.fastRt \in BOOLEAN
    BY <1>0, <1>7, RxmFields DEF RxFin, RxTransition
  <2>2. CASE UNCHANGED tx
    BY <2>2
  <2>3. CASE /\ recvd = rxm.m.seq /\ TxSarUpdate(rxm.m.ack, rxm.m.win, rxm.count, rxm.fastRt)
             /\ SetState("LAST_ACK") \/ SetState("TIME_WAIT") \/ SetState("CLOSING")
    <3>1. tx'.ackd = rxm.m.ack /\ tx'.not_ackd = tx.not_ackd
      BY <1>0, <2>1, <2>3, SarUpdated
    <3>2. ~RxAck
      BY <2>1 DEF RxAck, RxTransition
    <3>3. st' \notin {"SYN_RECEIVED", "ESTABLISHED"}
      BY <2>3 DEF SetState
    <3> QED
      BY <1>7, <2>1, <2>3, <3>1, <3>2, <3>3
  <2> QED
    BY <1>7, <2>2, <2>3 DEF RxFin
<1>8. CASE RxSyn \/ RxSynAck \/ RxRst
  <2>1. rxm # None
    BY <1>8 DEF RxSyn, RxSynAck, RxRst, RxTransition
  <2> QED
    BY <1>0, <1>8, <2>1, ConnRx DEF RxSyn, RxSynAck, RxRst
<1>9. CASE \E m \in toToe : RxLoad(m) \/ RxDrop(m)
  BY <1>9 DEF RxLoad, RxDrop
<1>10. CASE PeerStep \/ \E m \in toPeer : PeerRecv(m)
  BY <1>10 DEF PeerStep, PeerRecv
<1> QED
  BY <1>0, <1>1, <1>2, <1>3, <1>4, <1>5, <1>6, <1>7, <1>8, <1>9, <1>10, NoFinSent
     DEF Next, TxEngine, RxEngine

\* The TX engine goes on by the byte whose event it takes.
LEMMA SentStep ==
  ASSUME SendStep
  PROVE  \/ Sentd' = Sentd /\ ~TxData
         \/ /\ TxData /\ Sentd' = Sentd + 1 /\ Sentd <= written
            /\ HasTx(txq) /\ Head(txq).arg = Sentd
<1>0. Types /\ Session /\ Sending
  BY DEF SendStep
<1>1. iss' = iss
  BY SendIss
<1>2. CASE ~TxData
  <2>1. tx'.not_ackd = tx.not_ackd
    BY <1>2, SarKept
  <2> QED
    BY <1>1, <1>2, <2>1 DEF Sentd
<1>3. CASE TxData
  <2>1. HasTx(txq) /\ txq # <<>>
    BY <1>3 DEF TxData, TxEvent, HasTx
  <2>2. Behind = Sentd + 1
    BY <2>1 DEF Behind, FirstBehind
  <2>3. Sentd <= written /\ Sentd \in Nat /\ iss \in Seq0 /\ Sentd + 1 < SeqSpace
    BY <1>0, <2>2, SendNumbers
  <2>4. tx.not_ackd \in Seq0
    BY <1>0, Fields
  <2>5. tx'.not_ackd = Add(tx.not_ackd, 1)
    <3>1. tx' = [tx EXCEPT !.not_ackd = Add(@, 1)] /\ tx \in TxSar
      BY <1>0, <1>3 DEF TxData, Types, SarTypes
    <3> QED
      BY <3>1 DEF TxSar
  <2>6. Sentd' = Sentd + 1
    <3>1. Dist(iss, tx.not_ackd) + 1 < SeqSpace
      BY <2>3 DEF Sentd
    <3>2. Dist(iss, Add(tx.not_ackd, 1)) = Dist(iss, tx.not_ackd) + 1
      BY <2>3, <2>4, <3>1, DistAdd
    <3> QED
      BY <1>1, <2>5, <3>2 DEF Sentd
  <2>7. Head(txq).arg = Sentd
    <3>1. txq \in Seq(GoodEvent) /\ InQueue(txq, apEv, Sentd, written)
      BY <1>0 DEF Types, EventTypes, Sending, Queued
    <3> QED
      BY <2>1, <2>3, <3>1, QueueTake DEF HasTx
  <2> QED
    BY <1>3, <2>1, <2>3, <2>6, <2>7
<1> QED
  BY <1>2, <1>3

\* An acknowledgement that counts is one of the peer's: ackd does not go back
\* and does not pass what the peer has taken.
LEMMA AckdStep ==
  ASSUME SendStep
  PROVE  \/ Ackd' = Ackd /\ tx'.ackd = tx.ackd
         \/ /\ RxAck \/ RxFin
            /\ Ackd' \in 1 .. Taken /\ rxm' = None
            /\ RxAck => Ackd <= Ackd' /\ (AllAcked(rxm.m) => Ackd' >= 1)
            /\ RxFin => st' \notin {"SYN_RECEIVED", "ESTABLISHED"}
<1>0. Types /\ Session /\ Sending /\ Received
  BY DEF SendStep
<1>1. iss' = iss
  BY SendIss
<1>2. /\ iss \in Seq0 /\ Ackd \in Nat /\ Taken \in Nat
  BY <1>0, SendNumbers
<1>3. CASE tx'.ackd = tx.ackd
  BY <1>1, <1>3 DEF Ackd
<1>4. CASE /\ RxAck \/ RxFin
           /\ rxm # None /\ tx'.not_ackd = tx.not_ackd /\ tx'.ackd = rxm.m.ack
           /\ RxAck => AckInRange(rxm.ackd, rxm.m.ack, rxm.not_ackd) /\ rxm.f = "ACK"
           /\ RxFin => recvd = rxm.m.seq /\ rxm.f = "FIN" /\ st' \notin {"SYN_RECEIVED", "ESTABLISHED"}
  <2>1. rxm' = None /\ rxm.f \in {"ACK", "FIN"} /\ rxm.f = rxm.m.f
    BY <1>0, <1>4, RxmFields DEF RxAck, RxFin, RxTransition
  <2>2. Ackd' = Dist(iss, rxm.m.ack)
    BY <1>1, <1>4 DEF Ackd
  <2>3. /\ rxm.m \notin OldSegs /\ AckOk(rxm.m, iss, Taken) /\ rxm.ackd = tx.ackd
        /\ Ackd <= Dist(iss, rxm.not_ackd)
    <3>1. CASE RxAck
      BY <1>0, <1>4, <2>1, <3>1 DEF Sending, Loaded
    <3>2. CASE RxFin
      <4>1. rxm.m \notin OldSegs
        BY <1>0, <1>4, <2>1, <3>2, NotOld
      <4> QED
        BY <1>0, <1>4, <2>1, <4>1 DEF Sending, Loaded
    <3> QED
      BY <1>4, <3>1, <3>2
  <2>4. Ackd' \in 1 .. Taken
    BY <2>1, <2>2, <2>3 DEF AckOk
  <2>5. ASSUME RxAck
        PROVE  Ackd <= Ackd'
    <3>1. tx.ackd \in Seq0 /\ rxm.not_ackd \in Seq0 /\ rxm.m.ack \in Seq0
      BY <1>0, <1>4, Fields, RxmFields
    <3>2. Dist(iss, tx.ackd) <= Dist(iss, rxm.not_ackd)
      BY <2>3 DEF Ackd
    <3>3. AckInRange(tx.ackd, rxm.m.ack, rxm.not_ackd)
      BY <1>4, <2>3, <2>5
    <3>4. Dist(iss, tx.ackd) <= Dist(iss, rxm.m.ack)
      BY <1>2, <3>1, <3>2, <3>3, RangeDist
    <3> QED
      BY <2>2, <3>4 DEF Ackd
  <2>6. Ackd' >= 1
    BY <1>2, <2>4
  <2> QED
    BY <1>4, <2>1, <2>4, <2>5, <2>6
<1> QED
  BY <1>3, <1>4, SarKept

\* The peer takes the byte that comes next.
LEMMA TakenStep ==
  ASSUME SendStep
  PROVE  /\ ~p'.gotFin /\ p'.got = [i \in 1 .. Taken' - 1 |-> i]
         /\ \/ Taken' = Taken
            \/ Taken' = Taken + 1 /\ Taken' <= Sentd /\ \E m \in toPeer : PeerRecv(m)
<1>0. Types /\ Session /\ Sending /\ Next
  BY DEF SendStep
<1>1. iss' = iss
  BY SendIss
<1>2. ~p.gotFin /\ p.got = [i \in 1 .. Taken - 1 |-> i]
  BY <1>0 DEF Sending
<1>3. CASE p'.rnxt = p.rnxt /\ p'.got = p.got /\ p'.gotFin = p.gotFin
  <2>1. Taken' = Taken
    BY <1>1, <1>3 DEF Taken
  <2> QED
    BY <1>2, <1>3, <2>1
<1>4. ASSUME NEW m \in toPeer, PeerRecv(m), ~(p'.rnxt = p.rnxt /\ p'.got = p.got /\ p'.gotFin = p.gotFin)
      PROVE  /\ ~p'.gotFin /\ p'.got = [i \in 1 .. Taken' - 1 |-> i]
             /\ Taken' = Taken + 1 /\ Taken' <= Sentd
  <2>1. OutSeg(m, iss, Taken, Sentd)
    BY <1>0 DEF Sending
  <2>2. /\ m.f = "ACK" /\ m.data # 0 /\ m.seq = p.rnxt /\ p'.rnxt = Add(p.rnxt, 1)
        /\ p'.got = Append(p.got, m.data) /\ p'.gotFin = p.gotFin
    BY <1>0, <1>4, <2>1, ConnPeerRecv DEF OutSeg
  <2>3. Dist(iss, m.seq) = Taken
    BY <2>2 DEF Taken
  <2>4. /\ iss \in Seq0 /\ Taken \in Nat /\ Taken <= Sentd /\ 1 <= Taken /\ Sentd \in Nat
        /\ Sentd < SeqSpace
    BY <1>0, SendNumbers
  <2>5. Taken < Sentd /\ m.data = Taken
    BY <2>1, <2>2, <2>3, <2>4 DEF OutSeg
  <2>6. Taken' = Taken + 1
    <3>1. p.rnxt \in Seq0
      BY <1>0, PeerFields
    <3>2. Dist(iss, p.rnxt) + 1 < SeqSpace
      BY <2>4, <2>5, Space DEF Taken
    <3>3. Dist(iss, Add(p.rnxt, 1)) = Dist(iss, p.rnxt) + 1
      BY <2>4, <3>1, <3>2, DistAdd
    <3> QED
      BY <1>1, <2>2, <3>3 DEF Taken
  <2>7. p'.got = [i \in 1 .. Taken' - 1 |-> i]
    <3>1. Taken - 1 \in Nat /\ (Taken - 1) + 1 = Taken /\ Taken' - 1 = Taken
      BY <2>4, <2>6
    <3>2. p'.got = Append([i \in 1 .. Taken - 1 |-> i], (Taken - 1) + 1)
      BY <1>2, <2>2, <2>5, <3>1
    <3>3. p'.got = [i \in 1 .. (Taken - 1) + 1 |-> i]
      BY <3>1, <3>2, OneMore
    <3> QED
      BY <3>1, <3>3
  <2>8. Taken' <= Sentd
    BY <2>4, <2>5, <2>6
  <2> QED
    BY <1>2, <2>2, <2>6, <2>7, <2>8
<1>5. CASE PeerStep
  BY <1>0, <1>3, <1>5, ConnPeerStep
<1>6. CASE \E m \in toPeer : PeerRecv(m)
  BY <1>3, <1>4, <1>6
<1> QED
  BY <1>0, <1>3, <1>5, <1>6, PeerOnly

LEMMA WrittenStep ==
  ASSUME SendStep
  PROVE  \/ AppWrite
         \/ UNCHANGED <<written, mem>> /\ app'.mempt = app.mempt
<1>0. Types /\ Session /\ Pending /\ Next
  BY DEF SendStep
<1>1. CASE Application \/ EventEngine \/ Timers
  BY <1>1, SendTypes DEF Application, AppClose, EventEngine, Timers, AckTimeout, RtTimeout, CloseTimeout,
                         appVars
<1>2. CASE TxSyn("SYN") \/ TxSyn("SYN_ACK")
  <2>1. UNCHANGED app
    BY <1>0, <1>2, ConnSyn
  <2>2. UNCHANGED <<written, mem>>
    BY <1>2 DEF TxSyn, appVars
  <2> QED
    BY <2>1, <2>2
<1>3. CASE TxData \/ TxFin \/ TxRt \/ TxAck \/ TxRst
  BY <1>3 DEF TxData, TxFin, TxRt, TxAck, TxRst, appVars
<1>4. CASE RxAck \/ RxFin
  <2>1. UNCHANGED <<written, mem>>
    BY <1>4 DEF RxAck, RxFin, appVars
  <2>2. UNCHANGED app \/ \E a, w : app' = [app EXCEPT !.ackd = Ring(a), !.min_window = w]
    BY <1>4 DEF RxAck, RxFin, TxSarUpdate, AckPush
  <2>3. app \in AppSar
    BY <1>0 DEF Types, SarTypes
  <2>4. app'.mempt = app.mempt
    BY <2>2, <2>3 DEF AppSar
  <2> QED
    BY <2>1, <2>4
<1>5. CASE RxSyn \/ RxSynAck \/ RxRst
  <2>1. rxm # None
    BY <1>5 DEF RxSyn, RxSynAck, RxRst, RxTransition
  <2>2. st \notin {"CLOSED", "SYN_SENT"}
    BY <1>0, <2>1, ConnRx
  <2>3. UNCHANGED app
    BY <1>5, <2>2 DEF RxSyn, RxSynAck, RxRst
  <2>4. UNCHANGED <<written, mem>>
    BY <1>5 DEF RxSyn, RxSynAck, RxRst, appVars
  <2> QED
    BY <2>3, <2>4
<1>6. CASE \E m \in toToe : RxLoad(m) \/ RxDrop(m)
  BY <1>6 DEF RxLoad, RxDrop, appVars
<1>7. CASE PeerStep \/ \E m \in toPeer : PeerRecv(m)
  BY <1>7 DEF PeerStep, PeerRecv, appVars
<1> QED
  BY <1>0, <1>1, <1>2, <1>3, <1>4, <1>5, <1>6, <1>7 DEF Next, TxEngine, RxEngine

\* A write is admitted only if the buffer has a place to spare.
LEMMA WriteRoom ==
  ASSUME SendStep, AppWrite
  PROVE  written' = written + 1 /\ written + 2 - Ackd < WinMod
<1>0. Types /\ Session /\ Sending
  BY DEF SendStep
<1> DEFINE d == written + 1 - Ackd
<1>1. /\ iss \in Seq0 /\ iss \in Int /\ written \in Nat /\ Ackd \in Nat /\ d \in Nat /\ WinMod \in Nat
      /\ WinMod > 1
  BY <1>0, SendNumbers, Space
<1>2. d < WinMod
  BY <1>0 DEF AppWrite, Sending
<1>3. tx.ackd \in Seq0 /\ tx.ackd \in Int /\ app.ackd = Ring(tx.ackd) /\ app.mempt = Ring(iss + 1 + written)
  BY <1>0, Fields, SeqInt DEF Sending
<1>4. Ring(app.ackd - app.mempt - 1) >= 1
  BY DEF AppWrite, WriteFits
<1> DEFINE x == iss + 1 + written
           y == Ring(tx.ackd) - 1
<1>5. x \in Int /\ y \in Int /\ Ring(tx.ackd) \in Int /\ Ring(x) \in Int
  BY <1>1, <1>3, RingIn
<1>6. app.ackd - app.mempt - 1 = y - Ring(x)
  BY <1>3, <1>5
<1>7. Ring(y - Ring(x)) = Ring(y - x)
  BY <1>5, RingRing
<1>8. y - x = Ring(tx.ackd) + (- 1 - x)
  BY <1>5
<1>9. Ring(Ring(tx.ackd) + (- 1 - x)) = Ring(tx.ackd + (- 1 - x))
  <2> DEFINE z == - 1 - x
             a == tx.ackd
  <2>1. z \in Int /\ a \in Int
    BY <1>3, <1>5
  <2> HIDE DEF z, a
  <2>2. Ring(Ring(a) + z) = Ring(a + z)
    BY <2>1, RingRing
  <2> QED
    BY <2>2 DEF z, a
<1>10. Ring(tx.ackd + (- 1 - x)) = Ring(iss + Ackd + (- 1 - x))
  BY <1>1, <1>3, <1>5, RingDist DEF Ackd
<1>11. iss + Ackd + (- 1 - x) = WinMod * (-1) + (WinMod - 1 - d)
  BY <1>1
<1>12. WinMod - 1 - d \in 0 .. WinMod - 1 /\ iss + Ackd + (- 1 - x) \in Int
  BY <1>1, <1>2
<1>13. Ring(iss + Ackd + (- 1 - x)) = WinMod - 1 - d
  BY <1>11, <1>12, RingIs
<1>14. WinMod - 1 - d >= 1
  BY <1>4, <1>6, <1>7, <1>8, <1>9, <1>10, <1>13
<1>15. written' = written + 1
  BY DEF AppWrite
<1> QED
  BY <1>1, <1>14, <1>15

\* What the peer may still ask for has not been written over.
LEMMA SendRoom ==
  ASSUME SendStep
  PROVE  /\ written' + 1 - Taken' < WinMod
         /\ st' \in {"SYN_RECEIVED", "ESTABLISHED"} => written' + 1 - Ackd' < WinMod
         /\ st' = "ESTABLISHED" => Ackd' >= 1
         /\ st' = "SYN_RECEIVED" => written' = 0
<1>0. Types /\ Session /\ Sending /\ Next /\ ~AppOpen /\ ~AppSyn
  BY SendTypes
<1>1. /\ written \in Nat /\ Ackd \in Nat /\ Taken \in Nat /\ Ackd <= Taken /\ WinMod \in Nat
  BY <1>0, SendNumbers, Space
<1>2. /\ written + 1 - Taken < WinMod
      /\ st \in {"SYN_RECEIVED", "ESTABLISHED"} => written + 1 - Ackd < WinMod
      /\ st = "ESTABLISHED" => Ackd >= 1
      /\ st = "SYN_RECEIVED" => written = 0
  BY <1>0 DEF Sending
<1>3. CASE AppWrite
  <2>1. written' = written + 1 /\ written + 2 - Ackd < WinMod /\ st = "ESTABLISHED" /\ st' = st
    BY <1>3, WriteRoom DEF AppWrite
  <2>2. Ackd' = Ackd /\ Taken' = Taken
    <3>1. tx' = tx /\ p' = p /\ iss' = iss
      BY <1>3 DEF AppWrite
    <3> QED
      BY <3>1 DEF Ackd, Taken
  <2> QED
    BY <1>1, <1>2, <2>1, <2>2
<1>4. CASE written' = written
  <2>1. Taken' = Taken \/ Taken' = Taken + 1
    BY TakenStep
  <2>2. ASSUME st' \in {"SYN_RECEIVED", "ESTABLISHED"}
        PROVE  /\ Ackd' \in Nat /\ Ackd <= Ackd' /\ st \in {"SYN_RECEIVED", "ESTABLISHED"}
               /\ st' = "ESTABLISHED" => Ackd' >= 1
               /\ st' = "SYN_RECEIVED" => st = "SYN_RECEIVED"
    <3>1. /\ st \in {"SYN_RECEIVED", "ESTABLISHED"}
          /\ st' = "SYN_RECEIVED" => st = "SYN_RECEIVED"
          /\ st # st' => RxAck /\ AllAcked(rxm.m)
      BY <1>0, <2>2, StillOpen
    <3>2. CASE Ackd' = Ackd
      <4>1. CASE st = st'
        BY <1>1, <1>2, <3>1, <3>2, <4>1
      <4>2. CASE st # st'
        <5>1. RxAck /\ AllAcked(rxm.m) /\ rxm # None /\ rxm.f = "ACK" /\ rxm.f = rxm.m.f
          BY <1>0, <3>1, <4>2, RxmFields DEF RxAck, RxTransition
        <5>2. AckInRange(rxm.ackd, rxm.m.ack, rxm.not_ackd)
          BY <1>0, <5>1, OutOfRange
        <5>3. AckOk(rxm.m, iss, Taken)
          BY <1>0, <5>1, <5>2 DEF Sending, Loaded
        <5>4. tx'.ackd = rxm.m.ack
          <6>1. TxSarUpdate(rxm.m.ack, rxm.m.win, DupCount(rxm.m),
                            DupCount(rxm.m) = FastDups \/ FastDone(rxm.m))
            BY <3>1, <5>1, <5>2 DEF RxAck
          <6>2. rxm.m.ack \in Seq0 /\ rxm.m.win \in Windows
            BY <1>0, <5>1, RxmFields
          <6> QED
            BY <1>0, <5>1, <6>1, <6>2, DupTypes, SarUpdated
        <5>5. Ackd' = Dist(iss, rxm.m.ack)
          BY <5>4, SendIss DEF Ackd
        <5>6. Ackd' >= 1
          BY <1>1, <5>1, <5>3, <5>5 DEF AckOk
        <5> QED
          BY <1>1, <3>1, <3>2, <5>6
      <4> QED
        BY <4>1, <4>2
    <3>3. CASE Ackd' \in 1 .. Taken /\ Ackd <= Ackd'
      BY <1>1, <3>1, <3>3
    <3> QED
      BY <2>2, <3>2, <3>3, AckdStep
  <2> QED
    BY <1>1, <1>2, <1>4, <2>1, <2>2
<1> QED
  BY <1>3, <1>4, WrittenStep

LEMMA SendQueue ==
  ASSUME SendStep
  PROVE  Queued'
<1>0. Types /\ Session /\ Sending /\ Pending /\ Next /\ ~AppOpen /\ ~AppSyn
  BY SendTypes
<1>1. InQueue(txq, apEv, Sentd, written) /\ Sentd \in Nat /\ written \in Nat
  BY <1>0, SendNumbers DEF Sending, Queued
<1>2. txq \in Seq(GoodEvent) /\ apEv \in Seq(GoodEvent) /\ tmEv \in Seq(GoodEvent)
  BY <1>0 DEF Types, EventTypes
<1> SUFFICES InQueue(txq', apEv', Sentd', written')
  BY DEF Queued
<1>3. CASE AppWrite
  <2>1. Sentd' = Sentd
    BY <1>3, SentStep DEF AppWrite, Sentd
  <2>2. apEv' = Append(apEv, Ev("TX", 0, written + 1)) /\ txq' = txq /\ written' = written + 1
    BY <1>3 DEF AppWrite
  <2>3. /\ Ev("TX", 0, written + 1) \in GoodEvent /\ Ev("TX", 0, written + 1).t = "TX"
        /\ Ev("TX", 0, written + 1).arg = written + 1
    BY <1>0, <1>3, WriteEvent
  <2> DEFINE e == Ev("TX", 0, written + 1)
  <2> HIDE DEF e
  <2>4. InQueue(txq, Append(apEv, e), Sentd, written + 1)
    BY <1>1, <1>2, <2>3, QueueWrite DEF e
  <2> QED
    BY <2>1, <2>2, <2>4 DEF e
<1>4. CASE AppClose
  <2>1. Sentd' = Sentd
    BY <1>4 DEF AppClose, Sentd
  <2>2. PICK i \in 1 .. Len(apEv) + 1 : apEv' = InsertAt(apEv, i, Ev("FIN", 0, 0))
    BY <1>4 DEF AppClose
  <2>3. txq' = txq /\ written' = written
    BY <1>4 DEF AppClose
  <2>4. Ev("FIN", 0, 0) \in GoodEvent /\ Ev("FIN", 0, 0).t # "TX"
    BY SimpleEvents
  <2>5. InQueue(txq, InsertAt(apEv, i, Ev("FIN", 0, 0)), Sentd, written)
    BY <1>1, <1>2, <2>4, QueueInsert
  <2> QED
    BY <2>1, <2>2, <2>3, <2>5
<1>5. CASE EventEngine
  <2>1. Sentd' = Sentd /\ written' = written /\ txq = <<>>
    BY <1>5 DEF EventEngine, Sentd, appVars
  <2>2. CASE tmEv # <<>>
    <3> DEFINE e == Head(tmEv)
    <3>1. e \in GoodEvent /\ e.t # "TX"
      BY <1>0, <1>2, <2>2, Tailed DEF Pending, NoDraw
    <3>2. AckDelay(e) /\ apEv' = apEv
      BY <1>5, <2>2 DEF EventEngine
    <3> HIDE DEF e
    <3>3. txq' = txq \/ txq' = Append(txq, e)
      BY <3>2, DelayedCases
    <3>4. InQueue(Append(txq, e), apEv, Sentd, written)
      BY <1>1, <1>2, <3>1, QueueAppend
    <3> QED
      BY <1>1, <2>1, <3>2, <3>3, <3>4
  <2>3. CASE tmEv = <<>>
    <3> DEFINE e == Head(apEv)
    <3>1. apEv # <<>> /\ apEv' = Tail(apEv) /\ AckDelay(e)
      BY <1>5, <2>3 DEF EventEngine
    <3>2. e \in GoodEvent
      BY <1>2, <3>1, Tailed
    <3>3. CASE e.t = "TX"
      <4>1. txq' = Append(<<>>, e)
        BY <2>1, <3>1, <3>3, DelayedNot
      <4>2. InQueue(<<>>, apEv, Sentd, written)
        BY <1>1, <2>1
      <4>3. InQueue(Append(<<>>, e), Tail(apEv), Sentd, written)
        BY <1>1, <1>2, <3>1, <3>3, <4>2, QueueMove
      <4> QED
        BY <2>1, <3>1, <4>1, <4>3
    <3>4. CASE e.t # "TX"
      <4>1. InQueue(txq, Tail(apEv), Sentd, written)
        BY <1>1, <1>2, <3>1, <3>4, QueueDrop
      <4>2. txq' = txq \/ txq' = Append(txq, e)
        BY <3>1, DelayedCases
      <4>3. InQueue(Append(txq, e), Tail(apEv), Sentd, written)
        BY <1>1, <1>2, <3>2, <3>4, <4>1, QueueAppend
      <4> QED
        BY <2>1, <3>1, <4>1, <4>2, <4>3
    <3> QED
      BY <3>3, <3>4
  <2> QED
    BY <2>2, <2>3
<1>6. CASE TxEngine
  <2>1. txq # <<>> /\ txq' = Tail(txq) /\ UNCHANGED <<apEv, written>> /\ (Head(txq).t = "TX" <=> TxData)
    BY <1>6 DEF TxEngine, TxSyn, TxData, TxFin, TxRt, TxAck, TxRst, TxEvent, appVars
  <2>2. (TxData => Sentd' = Sentd + 1) /\ (~TxData => Sentd' = Sentd)
    BY SentStep
  <2>3. /\ Head(txq).t # "TX" => InQueue(Tail(txq), apEv, Sentd, written)
        /\ Head(txq).t = "TX" => InQueue(Tail(txq), apEv, Sentd + 1, written)
    BY <1>1, <1>2, <2>1, QueueTake
  <2> QED
    BY <2>1, <2>2, <2>3
<1>7. CASE ~AppWrite /\ ~AppClose /\ ~EventEngine /\ ~TxEngine
  <2>1. apEv' = apEv /\ written' = written
    BY <1>0, <1>7, ApEvStep, WrittenStep
  <2>2. Sentd' = Sentd
    BY <1>7, SentStep DEF TxEngine
  <2>3. ASSUME NEW e \in GoodEvent, txq' = Append(txq, e), QueuedBy(e)
        PROVE  InQueue(txq', apEv, Sentd, written)
    <3>1. e.t # "TX"
      <4>1. Ev("SYN_ACK", 1, 0).t # "TX" /\ Ev("SYN_ACK", 0, 0).t # "TX" /\ Ev("RT", 0, 0).t # "TX"
            /\ Ev("FIN", 0, 0).t # "TX"
        BY DEF Ev
      <4> QED
        BY <1>7, <2>3, <4>1 DEF QueuedBy
    <3> QED
      BY <1>1, <1>2, <2>3, <3>1, QueueAppend
  <2>4. txq' = txq \/ \E e \in GoodEvent : txq' = Append(txq, e) /\ QueuedBy(e)
    BY <1>0, <1>7, TxqStep DEF TxqChange
  <2> QED
    BY <1>1, <2>1, <2>2, <2>3, <2>4
<1> QED
  BY <1>3, <1>4, <1>5, <1>6, <1>7

\* The memory holds what a retransmission will look for.
LEMMA SendMem ==
  ASSUME SendStep
  PROVE  app'.mempt = Ring(iss' + 1 + written') /\ InMemory'
<1>0. Types /\ Session /\ Sending
  BY SendTypes
<1>1. iss' = iss /\ iss \in Int /\ written \in Nat
  BY <1>0, SendNumbers, SendIss
<1>2. app.mempt = Ring(iss + 1 + written) /\ InMemory
  BY <1>0 DEF Sending
<1>3. CASE UNCHANGED <<written, mem>> /\ app'.mempt = app.mempt
  BY <1>1, <1>2, <1>3 DEF InMemory
<1>4. CASE AppWrite
  <2>1. written' = written + 1 /\ app'.mempt = Ring(app.mempt + 1)
        /\ mem' = [mem EXCEPT ![app.mempt] = written + 1]
    <3>1. app' = [app EXCEPT !.mempt = Ring(app.mempt + 1)] /\ app \in AppSar
      BY <1>0, <1>4 DEF AppWrite, Types, SarTypes
    <3> QED
      BY <1>4, <3>1 DEF AppWrite, WriteMem, AppSar
  <2> DEFINE x == iss + 1 + written
  <2>2. x \in Int /\ x + 1 = iss + 1 + (written + 1) /\ Ring(x) \in 0 .. WinMod - 1
    BY <1>1, RingIn
  <2>3. Ring(Ring(x) + 1) = Ring(x + 1)
    <3> HIDE DEF x
    <3> QED
      BY <2>2, RingRing
  <2>4. app'.mempt = Ring(iss' + 1 + written')
    BY <1>1, <1>2, <2>1, <2>2, <2>3
  <2>5. mem \in [0 .. WinMod - 1 -> 1 .. Junk] /\ app.mempt = Ring(x)
    BY <1>0, <1>2 DEF Types, MemTypes
  <2>6. ASSUME NEW j \in 1 .. written + 1, j > (written + 1) - WinMod
        PROVE  mem'[Ring(iss + j)] = j
    <3>1. CASE j = written + 1
      <4>1. iss + j = x
        BY <1>1, <3>1
      <4> QED
        BY <2>1, <2>2, <2>5, <3>1, <4>1
    <3>2. CASE j # written + 1
      <4>1. j \in 1 .. written /\ j > written - WinMod /\ iss + j \in Int /\ iss + j < x /\ x - (iss + j) < WinMod
        BY <1>1, <2>6, <3>2, Space
      <4>2. Ring(iss + j) # Ring(x) /\ Ring(iss + j) \in 0 .. WinMod - 1
        <5> DEFINE y == iss + j
        <5>1. y \in Int /\ y < x /\ x - y < WinMod
          BY <4>1
        <5> HIDE DEF x, y
        <5>2. Ring(y) # Ring(x) /\ Ring(y) \in 0 .. WinMod - 1
          BY <2>2, <5>1, RingDistinct, RingIn
        <5> QED
          BY <5>2 DEF y
      <4>3. mem[Ring(iss + j)] = j
        BY <1>2, <4>1 DEF InMemory
      <4> HIDE DEF x
      <4> QED
        BY <2>1, <2>5, <4>2, <4>3
    <3> QED
      BY <3>1, <3>2
  <2>7. InMemory'
    BY <1>1, <2>1, <2>6 DEF InMemory
  <2> QED
    BY <2>4, <2>7
<1> QED
  BY <1>3, <1>4, WrittenStep

\* A retransmission starts with what is not acknowledged, and sends no more
\* than was sent before.
LEMMA RtUsed ==
  ASSUME Types, Session, Sending
  PROVE  Ring(tx.not_ackd - tx.ackd) \in Nat /\ Ring(tx.not_ackd - tx.ackd) <= Sentd - Ackd
<1> DEFINE b == tx.not_ackd
           a == tx.ackd
           y == iss + Sentd
           z == iss + Ackd
<1>1. a \in Seq0 /\ b \in Seq0 /\ a \in Int /\ b \in Int /\ iss \in Seq0 /\ iss \in Int
      /\ Sentd \in Nat /\ Ackd \in Nat /\ Ackd <= Sentd
  BY Fields, SeqInt, SendNumbers
<1>2. y \in Int /\ z \in Int /\ Sentd = Dist(iss, b) /\ Ackd = Dist(iss, a) /\ y - z = Sentd - Ackd
      /\ y - z \in Nat
  BY <1>1 DEF Sentd, Ackd
<1>3. Ring(b + (- a)) = Ring(y + (- a))
  <2>1. - a \in Int
    BY <1>1
  <2>2. Ring(b + (- a)) = Ring(iss + Dist(iss, b) + (- a))
    BY <1>1, <2>1, RingDist
  <2> QED
    BY <1>2, <2>2
<1>4. Ring(a + 0) = Ring(z + 0)
  <2>1. Ring(a + 0) = Ring(iss + Dist(iss, a) + 0)
    BY <1>1, RingDist
  <2> QED
    BY <1>2, <2>1
<1> HIDE DEF a, b, y, z
<1>5. b + (- a) = b - a /\ y + (- a) = y - a /\ a + 0 = a /\ z + 0 = z
  BY <1>1, <1>2
<1>6. Ring(y - Ring(a)) = Ring(y - a) /\ Ring(y - Ring(z)) = Ring(y - z)
  BY <1>1, <1>2, RingRing
<1>7. Ring(b - a) = Ring(y - z)
  BY <1>3, <1>4, <1>5, <1>6
<1>8. Ring(y - z) \in Nat /\ Ring(y - z) <= y - z
  BY <1>2, RingSelf, RingIn, Space
<1> QED
  BY <1>2, <1>7, <1>8 DEF a, b

\* Every byte a retransmission reads from memory is the one its number stands
\* for, unless the peer has it already.
LEMMA RtBytes ==
  ASSUME Types, Session, Sending, NEW m \in RtData(Ring(tx.not_ackd - tx.ackd))
  PROVE  OutSeg(m, iss, Taken, Sentd)
<1> DEFINE u == Ring(tx.not_ackd - tx.ackd)
<1>1. u \in Nat /\ u <= Sentd - Ackd
  BY RtUsed
<1> HIDE DEF u
<1>2. PICK i \in 0 .. Min({u, RtBurst}) - 1 :
        m = Seg("ACK", Add(tx.ackd, i), recvd, ReadMem(tx.ackd + i), AnyWin)
  BY DEF RtData, u
<1>3. RtBurst \in Nat
  BY Constants
<1>4. Min({u, RtBurst}) = u \/ (Min({u, RtBurst}) = RtBurst /\ RtBurst <= u)
  <2>1. \E x \in {u, RtBurst} : \A y \in {u, RtBurst} : x <= y
    BY <1>1, <1>3
  <2>2. Min({u, RtBurst}) \in {u, RtBurst} /\ \A y \in {u, RtBurst} : Min({u, RtBurst}) <= y
    BY <2>1 DEF Min
  <2> QED
    BY <2>2
<1>5. i \in Nat /\ i < u
  BY <1>1, <1>2, <1>3, <1>4
<1>6. /\ iss \in Seq0 /\ iss \in Int /\ Ackd \in Nat /\ Sentd \in Nat /\ Taken \in Nat /\ 1 <= Taken
      /\ Ackd <= Taken /\ Taken <= Sentd /\ Sentd <= written + 1 /\ written \in Nat /\ Sentd < SeqSpace
      /\ tx.ackd \in Seq0 /\ tx.ackd \in Int
  BY SendNumbers, Fields, SeqInt
<1> DEFINE j == Ackd + i
<1>7. j \in Nat /\ j < Sentd /\ j < SeqSpace
  BY <1>1, <1>5, <1>6, Space
<1>8. Dist(iss, Add(tx.ackd, i)) = j
  <2>1. Dist(iss, tx.ackd) + i < SeqSpace
    BY <1>7 DEF Ackd
  <2> QED
    BY <1>5, <1>6, <2>1, DistAdd DEF Ackd
<1>9. Ring(tx.ackd + i) = Ring(iss + j)
  <2>1. Ring(tx.ackd + i) = Ring(iss + Dist(iss, tx.ackd) + i)
    BY <1>5, <1>6, RingDist
  <2>2. iss + Ackd + i = iss + j
    BY <1>5, <1>6
  <2> QED
    BY <2>1, <2>2 DEF Ackd
<1>10. m.f = "ACK" /\ m.seq = Add(tx.ackd, i) /\ m.data = mem[Ring(iss + j)]
  BY <1>2, <1>9 DEF Seg, ReadMem
<1> HIDE DEF j
<1>11. CASE j < Taken
  BY <1>8, <1>10, <1>11 DEF OutSeg
<1>12. CASE j >= Taken
  <2>1. j \in 1 .. written /\ j > written - WinMod
    <3>1. written + 1 - Taken < WinMod
      BY DEF Sending
    <3> QED
      BY <1>6, <1>7, <1>12, <3>1, Space
  <2>2. mem[Ring(iss + j)] = j
    BY <2>1 DEF Sending, InMemory
  <2> QED
    BY <1>7, <1>8, <1>10, <2>2 DEF OutSeg
<1> QED
  BY <1>6, <1>7, <1>11, <1>12

LEMMA SendOut ==
  ASSUME SendStep
  PROVE  \A m \in toPeer' : OutSeg(m, iss', Taken', Sentd')
<1>0. Types /\ Types' /\ Session /\ Sending /\ Pending /\ Next
  BY SendTypes
<1>1. iss' = iss
  BY SendIss
<1>2. /\ Taken \in Nat /\ Sentd \in Nat /\ iss \in Seq0 /\ written \in Nat
  BY <1>0, SendNumbers
<1>3. Taken' \in Nat /\ Taken <= Taken' /\ Sentd' \in Nat /\ Sentd <= Sentd'
  BY <1>2, TakenStep, SentStep
<1>4. \A m \in Segment : Dist(iss, m.seq) \in Nat
  BY <1>2, SegFields, DistIs
<1>5. \A m \in Segment : OutSeg(m, iss, Taken, Sentd) => OutSeg(m, iss, Taken', Sentd')
  <2> TAKE m \in Segment
  <2> DEFINE k == Dist(iss, m.seq)
  <2>1. k \in Nat
    BY <1>4
  <2>2. HAVE OutSeg(m, iss, Taken, Sentd)
  <2>3. m.f # "FIN" /\ (m.f = "ACK" /\ m.data # 0 => k < Taken \/ (k < Sentd /\ m.data = k))
    BY <2>2 DEF OutSeg
  <2> HIDE DEF k
  <2>4. m.f = "ACK" /\ m.data # 0 => k < Taken' \/ (k < Sentd' /\ m.data = k)
    BY <1>2, <1>3, <2>1, <2>3
  <2> QED
    BY <2>3, <2>4 DEF OutSeg, k
<1>6. toPeer' \subseteq Segment /\ toPeer \subseteq Segment
  BY <1>0 DEF Types, NetTypes
<1>7. \A m \in toPeer : OutSeg(m, iss, Taken', Sentd')
  BY <1>0, <1>5, <1>6 DEF Sending
<1>8. ASSUME NEW m \in toPeer', m \notin toPeer, TxEngine
      PROVE  OutSeg(m, iss, Taken', Sentd')
  <2>1. CASE m.f \in {"SYN", "SYN_ACK", "RST"} \/ (m.f = "ACK" /\ m.data = 0)
    BY <2>1 DEF OutSeg
  <2>2. CASE TxData
    <3>1. Sentd' = Sentd + 1 /\ Head(txq).arg = Sentd
      BY <2>2, SentStep
    <3>2. Send({Seg("ACK", tx.not_ackd, recvd, Head(txq).arg, AnyWin)})
      BY <2>2 DEF TxData
    <3>3. m = Seg("ACK", tx.not_ackd, recvd, Head(txq).arg, AnyWin)
      BY <1>8, <3>2, Kept
    <3>4. m.f = "ACK" /\ m.seq = tx.not_ackd /\ m.data = Sentd
      BY <3>1, <3>3 DEF Seg
    <3>5. Dist(iss, m.seq) = Sentd
      BY <3>4 DEF Sentd
    <3> QED
      BY <1>2, <3>1, <3>4, <3>5 DEF OutSeg
  <2>3. CASE TxRt
    <3>1. Send(RtData(Ring(tx.not_ackd - tx.ackd)) \cup {})
      BY <2>3 DEF TxRt, SendStep
    <3>2. m \in RtData(Ring(tx.not_ackd - tx.ackd))
      BY <1>8, <3>1, Kept
    <3>3. OutSeg(m, iss, Taken, Sentd)
      BY <1>0, <3>2, RtBytes
    <3> QED
      BY <1>5, <1>6, <3>3
  <2>4. ~TxFin
    BY NoFinSent
  <2>5. \/ \E t \in {"SYN", "SYN_ACK"} : m.f = t
        \/ m.f \in {"ACK", "RST"} /\ m.data = 0
        \/ TxData \/ TxFin \/ TxRt
    BY <1>8, TxSends
  <2> QED
    BY <2>1, <2>2, <2>3, <2>4, <2>5
<1> QED
  BY <1>0, <1>1, <1>7, <1>8, ToPeerStep

LEMMA SendIn ==
  ASSUME SendStep
  PROVE  (\A m \in toToe' : m \in OldSegs \/ AckOk(m, iss', Taken')) /\ Loaded'
<1>0. Types /\ Types' /\ Session /\ Sending /\ Pending /\ Next
  BY SendTypes
<1>1. iss' = iss /\ iss \in Isns
  BY <1>0, SendIss DEF Session
<1>2. /\ Taken \in Nat /\ Sentd \in Nat /\ Ackd \in Nat /\ Ackd <= Sentd /\ iss \in Seq0 /\ 1 <= Taken
      /\ Sentd <= MaxMoves + 1 /\ MaxMoves \in Nat
  BY <1>0, SendNumbers
<1>3. Taken' \in Nat /\ Taken <= Taken' /\ Sentd' \in Nat /\ Sentd <= Sentd'
  BY <1>2, TakenStep, SentStep
<1>4. \A m : AckOk(m, iss, Taken) => AckOk(m, iss, Taken')
  <2>1. \A k \in 1 .. Taken : k \in 1 .. Taken'
    BY <1>2, <1>3
  <2> QED
    BY <2>1 DEF AckOk
<1>5. \A m \in toToe : m \in OldSegs \/ AckOk(m, iss, Taken)
  BY <1>0 DEF Sending
<1>6. \A m \in toToe' : m \in OldSegs \/ AckOk(m, iss', Taken')
  <2>1. CASE PeerStep
    <3>1. PICK m : toToe' = toToe \cup {m} /\ m.ack = p.rnxt
      BY <1>0, <2>1, ConnPeerStep
    <3>2. Dist(iss, m.ack) \in 1 .. Taken
      BY <1>2, <3>1 DEF Taken
    <3>3. AckOk(m, iss, Taken)
      BY <3>2 DEF AckOk
    <3> QED
      BY <1>1, <1>4, <1>5, <3>1, <3>3
  <2>2. CASE toToe' \subseteq toToe
    BY <1>1, <1>4, <1>5, <2>2
  <2> QED
    BY <1>0, <2>1, <2>2, ToToeStep
<1>7. CASE rxm' = None
  BY <1>6, <1>7 DEF Loaded
<1>8. CASE rxm' = rxm /\ rxm # None
  <2>1. rxm' # None
    BY <1>8
  <2>2. Ackd' = Ackd /\ tx'.ackd = tx.ackd
    BY <2>1, AckdStep
  <2>3. Loaded
    BY <1>0 DEF Sending
  <2>4. Dist(iss, rxm.not_ackd) \in Nat
    BY <1>0, <1>2, <1>8, RxmFields, DistIs
  <2>5. Dist(iss, rxm.not_ackd) <= Sentd => Dist(iss, rxm.not_ackd) <= Sentd'
    BY <1>2, <1>3, <2>4
  <2>6. Loaded'
    BY <1>1, <1>4, <1>8, <2>2, <2>3, <2>5 DEF Loaded
  <2> QED
    BY <1>6, <2>6
<1>9. ASSUME NEW m \in toToe, RxLoad(m)
      PROVE  Loaded'
  <2>1. /\ rxm'.m = m /\ rxm'.f = m.f /\ rxm'.ackd = tx.ackd /\ rxm'.not_ackd = tx.not_ackd
        /\ UNCHANGED <<tx, p>>
    BY <1>9 DEF RxLoad
  <2>2. Ackd' = Ackd /\ Sentd' = Sentd /\ Taken' = Taken
    BY <1>1, <2>1 DEF Ackd, Sentd, Taken
  <2>3. CASE m \in OldSegs /\ m.f \in {"ACK", "FIN"}
    <3>1. Dist(iss, m.ack) > MaxMoves + 1
      BY <1>1, <2>3, NumbersAssumption
    <3>2. m.ack \in Seq0 /\ tx.ackd \in Seq0 /\ tx.not_ackd \in Seq0
      BY <1>0, Fields, SegFields DEF Types, NetTypes
    <3>3. Dist(iss, m.ack) \in Nat
      BY <1>2, <3>2, DistIs
    <3>4. ~(Dist(iss, m.ack) <= Dist(iss, tx.not_ackd))
      <4>1. ~(Dist(iss, m.ack) <= Sentd)
        BY <1>2, <3>1, <3>3
      <4> QED
        BY <4>1 DEF Sentd
    <3>5. Dist(iss, tx.ackd) <= Dist(iss, tx.not_ackd)
      BY <1>2 DEF Ackd, Sentd
    <3>6. ~AckInRange(tx.ackd, m.ack, tx.not_ackd)
      BY <1>2, <3>2, <3>4, <3>5, RangeDist
    <3> QED
      BY <2>1, <2>3, <3>6 DEF Loaded
  <2>4. CASE m \notin OldSegs
    <3>1. AckOk(m, iss, Taken)
      BY <1>5, <2>4
    <3>2. Dist(iss, rxm'.not_ackd) = Sentd
      BY <2>1 DEF Sentd
    <3>3. Ackd' <= Dist(iss, rxm'.not_ackd) /\ Dist(iss, rxm'.not_ackd) <= Sentd'
      BY <1>2, <2>2, <3>2
    <3> QED
      BY <1>1, <2>1, <2>2, <2>4, <3>1, <3>3 DEF Loaded
  <2>5. CASE m.f \notin {"ACK", "FIN"}
    BY <2>1, <2>5 DEF Loaded
  <2> QED
    BY <2>3, <2>4, <2>5
<1> QED
  BY <1>0, <1>6, <1>7, <1>8, <1>9, RxmStep

LEMMA SendingStep ==
  ASSUME SendStep
  PROVE  Sending'
<1>0. Types /\ Types' /\ Session /\ Sending /\ Pending /\ Next
  BY SendTypes
<1>1. /\ Ackd \in Nat /\ Taken \in Nat /\ Sentd \in Nat /\ Ackd <= Taken /\ Taken <= Sentd
      /\ 1 <= Taken
  BY <1>0, SendNumbers
<1>2. Taken' \in Nat /\ Taken <= Taken' /\ Taken' <= Sentd
  BY <1>1, TakenStep
<1>3. Sentd' \in Nat /\ Sentd <= Sentd'
  BY <1>1, SentStep
<1>4. Ackd' <= Taken
  BY <1>1, AckdStep
<1>5. Ackd' \in Nat
  BY <1>1, AckdStep
<1>6. Ackd' <= Taken' /\ Taken' <= Sentd' /\ 1 <= Taken'
  BY <1>1, <1>2, <1>3, <1>4, <1>5
<1>7. Queued' /\ Behind' <= written' + 1
  BY SendQueue DEF Queued, InQueue, Behind
<1> QED
  BY <1>6, <1>7, TakenStep, SendRoom, SendMem, SendOut, SendIn DEF Sending

LEMMA ConnStep ==
  ASSUME Types, ~SimOpen, Conn, Next
  PROVE  Conn'
<1>1. Session' /\ Pending'
  BY ConnSession, ConnPending DEF Conn
<1>2. Received'
  BY ConnReceived DEF Conn
<1>3. ASSUME ~tx'.finSent
      PROVE  Sending'
  <2>1. ~tx.finSent
    BY <1>3, FinStep DEF Conn
  <2>2. SendStep
    BY <1>3, <2>1 DEF SendStep, Conn
  <2> QED
    BY <2>2, SendingStep
<1> QED
  BY <1>1, <1>2, <1>3 DEF Conn

----------------------------------------------------------------------------
(* The session. *)

LEMMA PhaseStep ==
  ASSUME Types, ~SimOpen, Phase, Next
  PROVE  Phase'
<1>1. CASE Fresh
  BY <1>1, FreshStep, FreshHeard DEF Phase
<1>2. CASE Look
  BY <1>2, LookStep DEF Phase
<1>3. CASE Wait
  BY <1>3, WaitStep, WaitHeard DEF Phase
<1>4. CASE Dead
  BY <1>4, DeadStep DEF Phase
<1>5. CASE Hand
  BY <1>5, HandStep DEF Phase
<1>6. CASE Conn
  BY <1>6, ConnStep DEF Phase
<1> QED
  BY <1>1, <1>2, <1>3, <1>4, <1>5, <1>6 DEF Phase

\* How far it is from one number to a later one.
LEMMA DistBetween ==
  ASSUME NEW i \in Seq0, NEW a \in Seq0, NEW b \in Seq0, Dist(i, a) <= Dist(i, b)
  PROVE  Dist(a, b) = Dist(i, b) - Dist(i, a)
<1>1. /\ i \in Nat /\ i < SeqSpace /\ a \in Nat /\ a < SeqSpace /\ b \in Nat /\ b < SeqSpace
      /\ SeqSpace \in Nat
  BY SeqInt, Space
<1> DEFINE A == Dist(i, a)
           B == Dist(i, b)
           D == Dist(a, b)
<1>2. /\ A = IF a < i THEN a - i + SeqSpace ELSE a - i
      /\ B = IF b < i THEN b - i + SeqSpace ELSE b - i
      /\ D = IF b < a THEN b - a + SeqSpace ELSE b - a
  BY DistIs
<1>3. A <= B
  OBVIOUS
<1> HIDE DEF A, B, D
<1>4. D = B - A
  BY ONLY <1>1, <1>2, <1>3
<1> QED
  BY <1>4 DEF A, B, D

LEMMA PhaseStutter ==
  ASSUME Phase, UNCHANGED vars
  PROVE  Phase'
<1>1. /\ UNCHANGED <<life, st, recvd, tx, app, mem, iss, dlv, rxm, toPeer, toToe, p>>
      /\ UNCHANGED <<open, written, closes, apEv, tmEv, pend, txq, rt, ct>>
  BY DEF vars, appVars, evVars, timeVars
<1>2. Unheard => Unheard'
  BY <1>1 DEF Unheard, Empty, FirstSegs, StaleOnce, FirstEvents, OneOpens, NoSyn, NoSynEvent
<1>3. CASE Fresh
  BY <1>1, <1>2, <1>3 DEF Phase, Fresh
<1>4. CASE Look
  BY <1>1, <1>2, <1>4 DEF Phase, Look, NoSyn, NoSynEvent, Idle
<1>5. CASE Wait
  BY <1>1, <1>2, <1>5 DEF Phase, Wait, SynAtEvents, SynAtTx, SynSent, NoSyn, NoSynEvent
<1>6. CASE Dead
  BY <1>1, <1>2, <1>6 DEF Phase, Dead
<1>7. CASE Hand
  BY <1>1, <1>7 DEF Phase, Hand, Empty, NoSyn, AnswerAtTx, AnswerSent
<1>8. CASE Conn
  <2>1. Session' /\ Pending' /\ Received'
    BY <1>1, <1>8 DEF Conn, Session, Pending, Received
  <2>2. Sending => Sending'
    BY <1>1 DEF Sending, Ackd, Sentd, Taken, Behind, Loaded, Queued, InMemory
  <2> QED
    BY <1>1, <1>8, <2>1, <2>2 DEF Conn, Phase
<1> QED
  BY <1>3, <1>4, <1>5, <1>6, <1>7, <1>8 DEF Phase

LEMMA Inductive ==
  ASSUME ~SimOpen
  PROVE  Spec => []Inv
<1>1. Init => Inv
  BY InitTypes, PhaseInit DEF Inv, Phase
<1>2. Inv /\ [Next]_vars => Inv'
  BY TypesStep, PhaseStep, PhaseStutter DEF Inv
<1> QED
  BY <1>1, <1>2, PTL DEF Spec

\* Before both ends have each other's numbers nothing is written or delivered.
LEMMA Phases ==
  ASSUME Inv, ~Conn
  PROVE  Empty /\ st # "ESTABLISHED"
BY DEF Inv, Phase, Fresh, Look, Wait, Dead, Hand, Unheard, OneOpens

LEMMA Established ==
  ASSUME Inv, st = "ESTABLISHED"
  PROVE  Types /\ Session /\ Pending /\ Received /\ Sending /\ ~tx.finSent
<1>1. Conn /\ Types
  BY Phases DEF Inv
<1> QED
  BY <1>1 DEF Conn, Pending

\* The application is handed the bytes the peer sent, each once and in order,
\* whatever is lost, sent again or reordered and whatever of an earlier
\* connection arrives (rxTcpFSM, cases ACK and FIN).
THEOREM DeliveryCorrect ==
  ASSUME ~SimOpen
  PROVE  Spec => []DeliveredInOrder
<1>1. Inv => DeliveredInOrder
  <2> SUFFICES ASSUME Inv
               PROVE  DeliveredInOrder
    OBVIOUS
  <2>1. CASE Conn
    BY <2>1 DEF Conn, Received, DeliveredInOrder
  <2>2. CASE ~Conn
    <3>1. dlv = <<>>
      BY <2>2, Phases DEF Empty
    <3>2. Len(dlv) = 0 /\ 1 .. 0 = {} /\ [i \in {} |-> i] = <<>>
      BY <3>1
    <3> QED
      BY <3>1, <3>2 DEF DeliveredInOrder
  <2> QED
    BY <2>1, <2>2
<1> QED
  BY <1>1, Inductive, PTL

\* As long as no FIN was sent, the peer receives the bytes the application
\* wrote, each once and in order: fresh data, which passes the memory, and
\* repeated data, read from it, are the bytes their numbers stand for
\* (metaLoader, cases TX and RT).
THEOREM StreamCorrect ==
  ASSUME ~SimOpen
  PROVE  Spec => []StreamBeforeFin
<1>1. Inv => StreamBeforeFin
  <2> SUFFICES ASSUME Inv, ~tx.finSent
               PROVE  p.got = [i \in 1 .. Len(p.got) |-> i] /\ Len(p.got) <= written
    BY DEF StreamBeforeFin, StreamDelivered
  <2>1. CASE Conn
    <3>1. Types /\ Session /\ Sending
      BY <2>1 DEF Inv, Conn
    <3>2. Taken \in Nat /\ 1 <= Taken /\ Taken <= Sentd /\ Sentd \in Nat /\ Sentd <= written + 1
          /\ written \in Nat
      BY <3>1, SendNumbers
    <3>3. p.got = [i \in 1 .. Taken - 1 |-> i] /\ Taken - 1 \in Nat
      BY <3>1, <3>2 DEF Sending
    <3>4. Len(p.got) = Taken - 1
      BY <3>3
    <3> QED
      BY <3>2, <3>3, <3>4
  <2>2. CASE ~Conn
    <3>1. p.got = <<>> /\ written = 0
      BY <2>2, Phases DEF Empty
    <3>2. Len(p.got) = 0 /\ 1 .. 0 = {} /\ [i \in {} |-> i] = <<>>
      BY <3>1
    <3> QED
      BY <3>1, <3>2
  <2> QED
    BY <2>1, <2>2
<1> QED
  BY <1>1, Inductive, PTL

\* A connection is established only with the peer that is there now, and both
\* ends count from each other's numbers, whatever SYN, SYN_ACK or ACK of an
\* earlier connection is still in the network (rxTcpFSM).
THEOREM HandshakeCorrect ==
  ASSUME ~SimOpen
  PROVE  Spec => []HandshakeAgreed
<1>1. Inv => HandshakeAgreed
  <2> SUFFICES ASSUME Inv, st = "ESTABLISHED"
               PROVE  /\ p.irs = iss /\ p.st \in {"SYN_RCVD", "ESTAB", "RESET"}
                      /\ recvd = Add(PeerIsn, 1 + Len(dlv))
    BY DEF HandshakeAgreed
  <2>1. Session /\ Received
    BY Established
  <2> QED
    BY <2>1 DEF Session, Received, PeerSeq
<1> QED
  BY <1>1, Inductive, PTL

\* The writes on their way are as many as there are bytes behind not_ackd.
LEMMA EventsCounted ==
  ASSUME NEW tq \in Seq(GoodEvent), NEW aq \in Seq(GoodEvent), NEW n \in Nat, NEW w \in Nat,
         InQueue(tq, aq, n, w)
  PROVE  Cardinality(TxEvents(aq)) + Cardinality(TxEvents(tq)) = w + 1 - n
<1> DEFINE b == FirstBehind(tq, n)
           T == TxEvents(aq)
           h == [i \in T |-> aq[i].arg]
<1>1. /\ b \in Nat /\ b = IF HasTx(tq) THEN n + 1 ELSE n
      /\ \A i \in T : aq[i].arg \in b .. w
      /\ \A i, j \in T : i < j => aq[i].arg < aq[j].arg
      /\ \A v \in b .. w : \E i \in T : aq[i].arg = v
      /\ b <= w + 1
  BY QueueParts
<1>2. \A i \in T : i \in Nat
  BY DEF TxEvents
<1> HIDE DEF b, T
<1>3. h \in [T -> b .. w]
  BY <1>1
<1>4. ASSUME NEW i \in T, NEW j \in T, h[i] = h[j]
      PROVE  i = j
  <2>1. aq[i].arg = aq[j].arg /\ aq[i].arg \in Int
    BY <1>1, <1>4
  <2>2. i < j \/ j < i \/ i = j
    BY <1>2
  <2>3. ~(i < j) /\ ~(j < i)
    BY <1>1, <2>1
  <2> QED
    BY <2>2, <2>3
<1>5. h \in Bijection(T, b .. w)
  <2>1. \A v \in b .. w : \E i \in T : h[i] = v
    BY <1>1
  <2> HIDE DEF h
  <2> QED
    BY <1>3, <1>4, <2>1 DEF Bijection, Injection, Surjection, IsInjective
<1>6. IsFiniteSet(b .. w) /\ Cardinality(b .. w) = IF b > w THEN 0 ELSE w - b + 1
  BY <1>1, FS_Interval
<1>7. Cardinality(T) = w + 1 - b
  <2>1. h \in Injection(T, b .. w) /\ h \in Surjection(T, b .. w)
    BY <1>5 DEF Bijection
  <2> HIDE DEF h
  <2>2. Cardinality(T) = Cardinality(b .. w)
    BY <1>6, <2>1, FS_Injection
  <2> QED
    BY <1>1, <1>6, <2>2
<1>8. Cardinality(TxEvents(tq)) = IF HasTx(tq) THEN 1 ELSE 0
  <2>1. \A i \in TxEvents(tq) : i = 1
    BY QueueParts
  <2>2. CASE HasTx(tq)
    <3>1. 1 \in TxEvents(tq)
      BY <2>2, Tailed DEF HasTx, TxEvents
    <3>2. TxEvents(tq) = {1}
      BY <2>1, <3>1
    <3>3. Cardinality({1}) = 1
      BY FS_Singleton
    <3> QED
      BY <2>2, <3>2, <3>3
  <2>3. CASE ~HasTx(tq)
    <3>1. 1 \notin TxEvents(tq)
      BY <2>3 DEF HasTx, TxEvents
    <3>2. TxEvents(tq) = {}
      BY <2>1, <3>1
    <3> QED
      BY <2>3, <3>2, FS_EmptySet
  <2> QED
    BY <2>2, <2>3
<1>9. Cardinality(T) + Cardinality(TxEvents(tq)) = w + 1 - n
  BY <1>1, <1>7, <1>8
<1> QED
  BY <1>9 DEF T

\* In ESTABLISHED, every byte in flight is still where a retransmission will
\* look for it, and the two write pointers, kept by different processes, differ
\* by the writes whose events are on their way (tx_app_stream_if, metaLoader).
THEOREM BufferCorrect ==
  ASSUME ~SimOpen
  PROVE  Spec => []BufferKept
<1>1. Inv => BufferKept
  <2> SUFFICES ASSUME Inv, st = "ESTABLISHED"
               PROVE  /\ \A i \in 0 .. Dist(tx.ackd, tx.not_ackd) - 1 :
                           mem[Ring(tx.ackd + i)] = Dist(iss, Add(tx.ackd, i))
                      /\ Ring(app.mempt - tx.not_ackd) =
                           Cardinality(TxEvents(apEv)) + Cardinality(TxEvents(txq))
    BY DEF BufferKept
  <2>0. Types /\ Session /\ Sending
    BY Established
  <2>1. /\ iss \in Seq0 /\ iss \in Int /\ Ackd \in Nat /\ Sentd \in Nat /\ Ackd <= Sentd
        /\ Sentd <= written + 1 /\ written \in Nat /\ Sentd < SeqSpace /\ WinMod \in Nat
    BY <2>0, SendNumbers, Space
  <2>2. tx.ackd \in Seq0 /\ tx.ackd \in Int /\ tx.not_ackd \in Seq0 /\ tx.not_ackd \in Int
    BY <2>0, Fields, SeqInt
  <2>3. Ackd >= 1 /\ written + 1 - Ackd < WinMod /\ app.mempt = Ring(iss + 1 + written)
    BY <2>0 DEF Sending
  <2>4. Dist(tx.ackd, tx.not_ackd) = Sentd - Ackd
    BY <2>1, <2>2, DistBetween DEF Ackd, Sentd
  <2>5. ASSUME NEW i \in 0 .. Dist(tx.ackd, tx.not_ackd) - 1
        PROVE  mem[Ring(tx.ackd + i)] = Dist(iss, Add(tx.ackd, i))
    <3> DEFINE j == Ackd + i
    <3>1. i \in Nat /\ j \in 1 .. written /\ j > written - WinMod /\ j < SeqSpace
      BY <2>1, <2>3, <2>4, <2>5, Space
    <3>2. Dist(iss, Add(tx.ackd, i)) = j
      <4>1. Dist(iss, tx.ackd) + i < SeqSpace
        BY <3>1 DEF Ackd
      <4> QED
        BY <2>1, <2>2, <3>1, <4>1, DistAdd DEF Ackd
    <3>3. Ring(tx.ackd + i) = Ring(iss + j)
      <4>1. Ring(tx.ackd + i) = Ring(iss + Dist(iss, tx.ackd) + i)
        BY <2>1, <2>2, <3>1, RingDist
      <4>2. iss + Ackd + i = iss + j
        BY <2>1, <3>1
      <4> QED
        BY <4>1, <4>2 DEF Ackd
    <3> HIDE DEF j
    <3>4. mem[Ring(iss + j)] = j
      BY <2>0, <3>1 DEF Sending, InMemory
    <3> QED
      BY <3>2, <3>3, <3>4
  <2>6. Ring(app.mempt - tx.not_ackd) = written + 1 - Sentd
    <3> DEFINE x == iss + 1 + written
               b == tx.not_ackd
               y == iss + Sentd
    <3>1. x \in Int /\ y \in Int /\ b \in Int /\ x - y = written + 1 - Sentd /\ x - y \in Nat
          /\ x - y < WinMod
      BY <2>1, <2>2, <2>3
    <3>2. Ring(b + 0) = Ring(y + 0)
      <4>1. Ring(b + 0) = Ring(iss + Dist(iss, b) + 0)
        BY <2>1, <2>2, RingDist
      <4> QED
        BY <4>1 DEF Sentd
    <3>3. app.mempt = Ring(x)
      BY <2>3
    <3> HIDE DEF x, b, y
    <3>4. b + 0 = b /\ y + 0 = y /\ Ring(x) + (- b) = Ring(x) - b /\ x + (- b) = x - b /\ - b \in Int
      BY <3>1, RingIn
    <3>5. Ring(Ring(x) + (- b)) = Ring(x + (- b))
      BY <3>1, <3>4, RingRing
    <3>6. Ring(x - Ring(b)) = Ring(x - b) /\ Ring(x - Ring(y)) = Ring(x - y)
      BY <3>1, RingRing
    <3>7. Ring(x - y) = x - y
      BY <3>1, RingSelf
    <3>8. Ring(Ring(x) - b) = x - y
      BY <3>2, <3>4, <3>5, <3>6, <3>7
    <3> QED
      BY <3>1, <3>3, <3>8 DEF b
  <2>7. Cardinality(TxEvents(apEv)) + Cardinality(TxEvents(txq)) = written + 1 - Sentd
    <3>1. txq \in Seq(GoodEvent) /\ apEv \in Seq(GoodEvent) /\ InQueue(txq, apEv, Sentd, written)
      BY <2>0 DEF Types, EventTypes, Sending, Queued
    <3> QED
      BY <2>1, <3>1, EventsCounted
  <2> QED
    BY <2>5, <2>6, <2>7
<1> QED
  BY <1>1, Inductive, PTL

\* In ESTABLISHED, an acknowledgement that a later one overtook does not move
\* ackd back, though the range it is compared with was read at LOAD (rxTcpFSM,
\* case ACK).
THEOREM AckCorrect ==
  ASSUME ~SimOpen
  PROVE  Spec => AckForward
<1>1. ASSUME Inv, [Next]_vars, st = "ESTABLISHED", st' = "ESTABLISHED"
      PROVE  Dist(iss, tx.ackd) <= Dist(iss, tx'.ackd)
  <2>1. Types /\ Session /\ Pending /\ Received /\ Sending /\ ~tx.finSent
    BY <1>1, Established
  <2>2. Ackd \in Nat /\ Taken \in Nat
    BY <2>1, SendNumbers
  <2>3. CASE Next
    <3>1. Conn'
      BY <2>1, <2>3, ConnStep DEF Conn
    <3>2. ~tx'.finSent
      BY <1>1, <3>1 DEF Conn, Pending
    <3>3. SendStep
      BY <2>1, <2>3, <3>2 DEF SendStep
    <3>4. Ackd <= Ackd'
      BY <1>1, <2>2, <3>3, AckdStep
    <3> QED
      BY <3>3, <3>4, SendIss DEF Ackd
  <2>4. CASE UNCHANGED vars
    <3>1. tx' = tx
      BY <2>4 DEF vars
    <3> QED
      BY <2>2, <3>1 DEF Ackd
  <2> QED
    BY <1>1, <2>3, <2>4
<1>2. Inv /\ [Next]_vars =>
        [st = "ESTABLISHED" /\ st' = "ESTABLISHED" => Dist(iss, tx.ackd) <= Dist(iss, tx'.ackd)]_vars
  BY <1>1
<1> QED
  BY <1>2, Inductive, PTL DEF Spec, AckForward
=============================================================================
