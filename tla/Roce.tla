-------------------------------- MODULE Roce --------------------------------
(***************************************************************************)
(* One queue pair of the RoCE v2 engine (hw/services/network/hls/          *)
(* ib_transport_protocol): the requester, which issues writes and reads,   *)
(* numbers and keeps them for retransmission, and the responder, which     *)
(* executes them in the order of their packet sequence numbers, over a     *)
(* network that loses, duplicates and reorders packets.                    *)
(*                                                                         *)
(* A write arrives from the send queue one packet at a time (ONLY, or      *)
(* FIRST and LAST), a SEND is one packet; a read asks for ReadPkgs packets *)
(* and uses as many sequence numbers.  A request is known by its number in *)
(* issue order, which also stands for its payload and its addresses.       *)
(***************************************************************************)
EXTENDS Integers, Sequences, FiniteSets, SequencesExt, Functions

CONSTANTS
  MaxReq,      \* bound: requests issued
  Workloads,   \* what the send queue may carry, packet by packet
  ReadPkgs,    \* packets of a read: ceil(length / PMTU)
  PsnMod,      \* 2^24
  StartPsn,    \* the PSN agreed on when the queue pair is set up
  TableSize,   \* META_TABLE_SIZE
  MaxRetries,  \* RETRANS_RETRY_CNT
  MaxLate,     \* bound: expirations of the timer
  MaxFaults,   \* bound: packets lost, duplicated or overtaken
  EvCap,       \* depth of retransmitter2exh_eventFifo
  NetCap,      \* bound: packets under way in one direction
  QCap         \* depth of the FIFOs between two stages

ASSUME RoceAssumption ==
  /\ MaxReq \in Nat /\ ReadPkgs \in Nat \ {0} /\ TableSize \in Nat \ {0}
  /\ PsnMod \in Nat /\ PsnMod > MaxReq * ReadPkgs + 1
  /\ StartPsn \in 0 .. PsnMod - 1
  /\ {MaxRetries, MaxLate, MaxFaults} \subseteq Nat
  /\ NetCap \in Nat \ {0} /\ QCap \in Nat \ {0} /\ EvCap >= TableSize
  /\ \A w \in Workloads :
       /\ w \in Seq({"SEND", "ONLY", "FIRST", "LAST", "READ"})
       /\ Len(w) <= MaxReq
       /\ \A i \in 1 .. Len(w) - 1 : w[i] = "FIRST" <=> w[i + 1] = "LAST"
       /\ w # <<>> => w[1] # "LAST"

VARIABLES
  reqs,     \* the send queue's requests so far, in issue order
  next,     \* stateTableEntry.req_next_psn
  unack,    \* stateTableEntry.req_old_unack
  insq,     \* tx2retrans_insertRequest
  mtable,   \* meta_table of the retransmitter, a linked list
  ptr,      \* ptr_table: head, tail, valid
  freeq,    \* rt_freeListFifo
  rt,       \* rt_state, when it is not changed by one operation as a whole
  updq,     \* rx2retrans_upd
  nakq,     \* rx2retrans_req
  expired,  \* timer2retrans_req holds a request
  rtev,     \* retransmitter2exh_eventFifo
  rdinit,   \* retrans2rx_init: local address of a read response
  timer,    \* transportTimerTable: active, retries
  arx,      \* rx_ibh_fsm of the requester: packet and state read in LOAD
  aexh,     \* rx_fsm2exh_MetaFifo of the requester
  adma,     \* msn_table.vaddr of the requester
  epsn,     \* stateTableEntry.resp_epsn
  nakOk,    \* retryCounter = 7: the next gap is answered by a NAK
  bexh,     \* rx_fsm2exh_MetaFifo of the responder
  bdma,     \* msn_table.vaddr of the responder
  ackq,     \* rx_ackEventFifo
  readq,    \* rx_readEvenFifo
  fwd,      \* packets from the requester to the responder
  back,     \* packets from the responder to the requester
  psnOf,    \* history: the PSN each request was first sent with
  written,  \* history: writes executed by the responder
  landed,   \* history: read data stored by the requester
  faults,   \* history: faults of the network
  late,     \* history: how often the timer has expired
  miscut,   \* history: an entry was cut for a response that is not its own
  early     \* history: a response found no entry

txVars == <<reqs, next, psnOf>>
rtVars == <<insq, mtable, ptr, freeq, rt, updq, nakq, rtev, rdinit, miscut, early>>
tmVars == <<timer, expired, late>>
rxVars == <<unack, arx, aexh, adma, landed>>
rspVars == <<epsn, nakOk, bexh, bdma, ackq, readq, written>>
netVars == <<fwd, back, faults>>
vars == <<txVars, rtVars, tmVars, rxVars, rspVars, netVars>>

Psn == 0 .. PsnMod - 1
Plus(p, n) == (p + n) % PsnMod
None == [op |-> "NONE", req |-> 0, off |-> 0, len |-> 0, psn |-> -1]

\* Packets a request stands for, which is also how many PSNs it uses
Pkgs(kind) == IF kind = "READ" THEN ReadPkgs ELSE 1
IsWrite(op) == op \in {"ONLY", "FIRST", "LAST"}

\* qp_interface: both sides start from the PSN exchanged beforehand
Init ==
  /\ reqs = <<>> /\ next = StartPsn
  /\ unack = StartPsn /\ insq = <<>>
  /\ mtable = [i \in 0 .. TableSize - 1 |->
                [ev |-> None, next |-> 0, isTail |-> FALSE]]
  /\ ptr = [head |-> 0, tail |-> 0, valid |-> FALSE]
  /\ freeq = [i \in 1 .. TableSize |-> i - 1]
  /\ rt = "MAIN" /\ updq = <<>> /\ nakq = <<>> /\ expired = FALSE
  /\ rtev = <<>> /\ rdinit = <<>>
  /\ timer = [active |-> FALSE, retries |-> 0]
  /\ arx = None /\ aexh = <<>> /\ adma = <<0, 0>>
  /\ epsn = StartPsn /\ nakOk = TRUE /\ bexh = <<>> /\ bdma = 0
  /\ ackq = <<>> /\ readq = <<>> /\ fwd = <<>> /\ back = <<>>
  /\ psnOf = <<>> /\ written = <<>> /\ landed = {}
  /\ faults = 0 /\ late = 0 /\ miscut = FALSE /\ early = FALSE

-----------------------------------------------------------------------------
(* The requester sends.                                                    *)

\* What the send queue may hold next; rdma_req_parser has cut a write into
\* packets that follow each other.
NextKinds ==
  {w[Len(reqs) + 1] : w \in {v \in Workloads : IsStrictPrefix(reqs, v)}}

\* generate_exh starts the timer with every WRITE and READ_REQUEST
SetTimer(op) ==
  timer' = [timer EXCEPT !.active = @ \/ IsWrite(op) \/ op = "READ"]

\* meta_merger and generate_ibh, for a new request: it gets the next PSN
GenerateIbh(kind) ==
  [op |-> kind, req |-> Len(reqs) + 1, off |-> 0, len |-> Pkgs(kind), psn |-> next]

\* local_req_handler to generate_exh, for a new request: merge_retrans_request
\* joins its PSN with its addresses for the retransmitter.  A request read from the send queue before a
\* retransmission began, or between two of its packets, is sent as well.
LocalReq ==
  /\ Len(fwd) < NetCap /\ Len(insq) < QCap
  /\ \E k \in NextKinds :
       LET e == GenerateIbh(k)
       IN  /\ reqs' = Append(reqs, k)
           /\ fwd' = Append(fwd, e)
           /\ insq' = Append(insq, e)
           /\ next' = Plus(next, e.len)
           /\ psnOf' = Append(psnOf, next)
           /\ SetTimer(k)
  /\ UNCHANGED <<expired, late, mtable, ptr, freeq, rt, updq, nakq, rtev, rdinit, miscut, early,
                 rxVars, rspVars, back, faults>>

\* local_req_handler to generate_exh, for a retransmission: its PSN is given
LocalRetrans ==
  /\ rtev # <<>> /\ Len(fwd) < NetCap
  /\ fwd' = Append(fwd, Head(rtev))
  /\ rtev' = Tail(rtev)
  /\ SetTimer(Head(rtev).op)
  /\ UNCHANGED <<txVars, rxVars, rspVars, back, faults, expired, late, insq,
                 mtable, ptr, freeq, rt, updq, nakq, rdinit, miscut, early>>

-----------------------------------------------------------------------------
(* The retransmitter.  Its tables are read and written by one FSM only,    *)
(* which takes the requests in a fixed order; an operation is one step.    *)

\* The n-th index of the list that starts at ptr.head
Index[n \in 0 .. TableSize - 1] ==
  IF n = 0 THEN ptr.head ELSE mtable[Index[n - 1]].next

\* What the list holds, from its head to the first tail
Chain ==
  IF ~ptr.valid THEN <<>>
  ELSE LET n == CHOOSE k \in 0 .. TableSize - 1 :
                  /\ mtable[Index[k]].isTail
                  /\ \A j \in 0 .. k - 1 : ~mtable[Index[j]].isTail
       IN  [i \in 1 .. n + 1 |-> mtable[Index[i - 1]].ev]

\* releaseFifo, freelist_handler: the index is free again
MutRelease(i) == freeq
Release(i) == Append(freeq, i)

\* "Packet update": what is left to be answered after one packet
Cut(ev) == [ev EXCEPT !.off = @ + 1, !.len = @ - 1, !.psn = Plus(@, 1)]

\* UPDATE_0, UPDATE_1: the head of the list is what the response is for.  The
\* address of a read goes to the receiver; for a response with more to come the
\* entry is cut by a packet, else it is released.  Nothing is compared: after a
\* repeated ACK the entry cut can be a write, which then carries another PSN.
RetransUpdate ==
  /\ rt = "MAIN" /\ updq # <<>>
  /\ updq' = Tail(updq)
  /\ early' = (early \/ ~ptr.valid)
  /\ IF ~ptr.valid
     THEN UNCHANGED <<mtable, ptr, freeq, rdinit, miscut>>
     ELSE LET op == Head(updq)
              e  == mtable[ptr.head]
          IN  /\ rdinit' = IF op \in {"RESP_FIRST", "RESP_ONLY"}
                           THEN Append(rdinit, <<e.ev.req, e.ev.off>>)
                           ELSE rdinit
              /\ IF op \in {"RESP_FIRST", "RESP_MIDDLE"}
                 THEN /\ mtable' = [mtable EXCEPT ![ptr.head].ev = Cut(@)]
                      /\ miscut' = (miscut \/ e.ev.op # "READ" \/ e.ev.len <= 1)
                      /\ UNCHANGED <<ptr, freeq>>
                 ELSE /\ ptr' = [ptr EXCEPT !.head = e.next,
                                            !.valid = ~e.isTail]
                      /\ freeq' = Release(ptr.head)
                      /\ UNCHANGED <<mtable, miscut>>
  /\ UNCHANGED <<insq, rt, nakq, rtev, txVars, tmVars, rxVars, rspVars, netVars>>

\* RETRANS_0 .. RETRANS_2: everything from the PSN the NAK names.  A PSN that
\* is not in the list leaves the FSM in RETRANS_1, waiting for an entry that
\* it has not asked for.
RetransNak ==
  /\ rt = "MAIN" /\ updq = <<>> /\ nakq # <<>>
  /\ nakq' = Tail(nakq)
  /\ LET hits == {i \in 1 .. Len(Chain) : Chain[i].psn = Head(nakq)}
         from == CHOOSE i \in hits : \A j \in hits : i <= j
     IN  \/ /\ Chain = <<>>
            /\ UNCHANGED <<rt, rtev>>
         \/ /\ Chain # <<>> /\ hits = {}
            /\ rt' = "RETRANS_1"
            /\ UNCHANGED rtev
         \/ /\ hits # {}
            /\ Len(rtev) + Len(Chain) <= EvCap
            /\ rtev' = rtev \o SubSeq(Chain, from, Len(Chain))
            /\ UNCHANGED rt
  /\ UNCHANGED <<insq, mtable, ptr, freeq, updq, rdinit, miscut, early, txVars, tmVars, rxVars,
                 rspVars, netVars>>

\* TIMER_RETRANS_0, RETRANS_2: the whole list
RetransTimer ==
  /\ rt = "MAIN" /\ updq = <<>> /\ nakq = <<>> /\ expired
  /\ Len(rtev) + Len(Chain) <= EvCap
  /\ expired' = FALSE
  /\ rtev' = rtev \o Chain
  /\ UNCHANGED <<insq, mtable, ptr, freeq, rt, updq, nakq, rdinit, miscut, early, timer, late,
                 txVars, rxVars, rspVars, netVars>>

\* retrans_meta_table, append: the tail of the list gets a successor
MutLink(i) == mtable
Link(i) == [mtable EXCEPT ![ptr.tail].next = i, ![ptr.tail].isTail = FALSE]

\* INSERT_0, INSERT_1: an index of the free list, if there is one, becomes the
\* tail of the list
RetransInsert ==
  /\ rt = "MAIN" /\ updq = <<>> /\ nakq = <<>> /\ ~expired
  /\ insq # <<>> /\ freeq # <<>>
  /\ LET i == Head(freeq)
         e == [ev |-> Head(insq), next |-> 0, isTail |-> TRUE]
     IN  IF ptr.valid
         THEN /\ mtable' = [Link(i) EXCEPT ![i] = e]
              /\ ptr' = [ptr EXCEPT !.tail = i]
         ELSE /\ mtable' = [mtable EXCEPT ![i] = e]
              /\ ptr' = [head |-> i, tail |-> i, valid |-> TRUE]
  /\ insq' = Tail(insq) /\ freeq' = Tail(freeq)
  /\ UNCHANGED <<rt, updq, nakq, rtev, rdinit, miscut, early, txVars, tmVars, rxVars, rspVars,
                 netVars>>

\* transport_timer: the time of the queue pair is up.  It stays inactive until
\* something is sent; after MaxRetries nothing is retransmitted.
TimerExpires ==
  /\ timer.active /\ ~expired /\ late < MaxLate
  /\ timer' = [active  |-> FALSE,
               retries |-> IF timer.retries < MaxRetries
                           THEN timer.retries + 1 ELSE timer.retries]
  /\ expired' = (timer.retries < MaxRetries)
  /\ late' = late + 1
  /\ UNCHANGED <<txVars, rtVars, rxVars, rspVars, netVars>>

-----------------------------------------------------------------------------
(* The requester receives.                                                 *)

\* rx_ibh_fsm, LOAD: the state is read, with the last PSN sent so far
RxLoad ==
  /\ arx = None /\ back # <<>>
  /\ arx' = [pkt |-> Head(back), epsn |-> unack, maxf |-> Plus(next, -1)]
  /\ back' = Tail(back)
  /\ UNCHANGED <<unack, aexh, adma, landed, txVars, rtVars, tmVars, rspVars, fwd,
                 faults>>

\* The psn of an ACK lies between the oldest unacknowledged and the last sent
InWindow(lo, p, hi) ==
  \/ lo <= p /\ p <= hi
  \/ (lo <= p \/ p <= hi) /\ hi < lo

\* rx_ibh_fsm, PROCESS, of a response that is accepted: an ACK or NAK always,
\* read data in order.  An ACK ends here: rx_exh_fsm only logs it.
RxAccept ==
  /\ arx # None /\ Len(aexh) < QCap /\ Len(updq) < QCap
  /\ LET p   == arx.pkt
         ack == p.op \in {"ACK", "NAK"}
     IN  /\ p.psn = arx.epsn \/ ack
         /\ aexh' = IF p.op = "ACK" THEN aexh ELSE Append(aexh, p)
         /\ unack' = IF p.op # "NAK" /\ (ack => InWindow(arx.epsn, p.psn, arx.maxf))
                     THEN Plus(p.psn, 1) ELSE unack
         /\ updq' = IF p.op # "NAK" THEN Append(updq, p.op) ELSE updq
         /\ timer' = IF p.op = "RESP_MIDDLE" THEN timer
                     ELSE [active  |-> timer.active /\ p.psn # arx.maxf,
                           retries |-> 0]
  /\ arx' = None
  /\ UNCHANGED <<adma, landed, insq, mtable, ptr, freeq, rt, nakq, rtev, rdinit, miscut, early,
                 expired, late, txVars, rspVars, netVars>>

\* rx_ibh_fsm, PROCESS, of read data that is a duplicate or out of order: it is
\* dropped.  The retry counter of a response is always 0: there is no NAK.
RxDrop ==
  /\ arx # None
  /\ arx.pkt.op \notin {"ACK", "NAK"} /\ arx.pkt.psn # arx.epsn
  /\ arx' = None
  /\ UNCHANGED <<unack, aexh, adma, landed, txVars, rtVars, tmVars, rspVars,
                 netVars>>

\* rx_exh_fsm of the requester: a NAK starts a retransmission, read data is
\* stored at the address from the retransmitter or after the packet before
RxExh ==
  /\ aexh # <<>>
  /\ aexh' = Tail(aexh)
  /\ LET p     == Head(aexh)
         first == p.op \in {"RESP_FIRST", "RESP_ONLY"}
         at    == IF first THEN Head(rdinit) ELSE adma
     IN  \/ /\ p.op = "NAK" /\ Len(nakq) < QCap
            /\ nakq' = Append(nakq, p.psn)
            /\ UNCHANGED <<adma, landed, rdinit>>
         \/ /\ p.op # "NAK" /\ (first => rdinit # <<>>)
            /\ landed' = landed \cup {[at |-> at, data |-> <<p.req, p.off>>]}
            /\ rdinit' = IF first THEN Tail(rdinit) ELSE rdinit
            /\ adma' = IF p.op = "RESP_LAST" THEN adma ELSE <<at[1], at[2] + 1>>
            /\ UNCHANGED nakq
  /\ UNCHANGED <<unack, arx, insq, mtable, ptr, freeq, rt, updq, rtev, miscut, early, txVars,
                 tmVars, rspVars, netVars>>

-----------------------------------------------------------------------------
(* The responder.                                                          *)

Answer(op, psn) == [None EXCEPT !.op = op, !.psn = psn]

\* rx_process_exh: PSNs a packet stands for
NumPkg(p) == IF p.op = "READ" THEN p.len ELSE 1

\* rx_ibh_fsm of the responder, which alone changes its part of the state:
\* the packet expected next goes on
RespExpected ==
  /\ fwd # <<>> /\ Head(fwd).psn = epsn /\ Len(bexh) < QCap
  /\ bexh' = Append(bexh, Head(fwd))
  /\ epsn' = Plus(epsn, NumPkg(Head(fwd)))
  /\ nakOk' = TRUE
  /\ fwd' = Tail(fwd)
  /\ UNCHANGED <<bdma, ackq, readq, written, txVars, rtVars, tmVars, rxVars, back,
                 faults>>

\* A PSN from the first one, which is never moved on, up to the expected one
IsDuplicate(p) ==
  \/ StartPsn < epsn /\ StartPsn <= p /\ p < epsn
  \/ StartPsn > epsn /\ (p < epsn \/ StartPsn <= p)

\* Duplicates that are executed again
MutReexecuted(op) == op # "NAK"
Reexecuted(op) == op = "READ"

\* rx_ibh_fsm: a duplicate read is executed again, a duplicate write is only
\* acknowledged, and a duplicate SEND dropped
RespDuplicate ==
  /\ fwd # <<>> /\ Head(fwd).psn # epsn /\ IsDuplicate(Head(fwd).psn)
  /\ IF Reexecuted(Head(fwd).op)
     THEN /\ Len(bexh) < QCap
          /\ bexh' = Append(bexh, Head(fwd))
          /\ UNCHANGED ackq
     ELSE /\ IsWrite(Head(fwd).op) => Len(ackq) < QCap
          /\ ackq' = IF IsWrite(Head(fwd).op)
                     THEN Append(ackq, Answer("ACK", Head(fwd).psn)) ELSE ackq
          /\ UNCHANGED bexh
  /\ fwd' = Tail(fwd)
  /\ UNCHANGED <<epsn, nakOk, bdma, readq, written, txVars, rtVars, tmVars, rxVars,
                 back, faults>>

\* "Setting NAK to epsn": what a NAK asks for
MutNakPsn(p) == p.psn
NakPsn(p) == epsn

\* rx_ibh_fsm: a PSN ahead is dropped, with one NAK until the gap is closed
RespInvalid ==
  /\ fwd # <<>> /\ Head(fwd).psn # epsn /\ ~IsDuplicate(Head(fwd).psn)
  /\ nakOk => Len(ackq) < QCap
  /\ ackq' = IF nakOk THEN Append(ackq, Answer("NAK", NakPsn(Head(fwd)))) ELSE ackq
  /\ nakOk' = FALSE
  /\ fwd' = Tail(fwd)
  /\ UNCHANGED <<epsn, bexh, bdma, readq, written, txVars, rtVars, tmVars, rxVars,
                 back, faults>>

\* handle_read_requests: the packets of the answer to a read
ReadEvents(p) ==
  [i \in 1 .. p.len |->
     [p EXCEPT !.psn = Plus(@, i - 1), !.off = @ + i - 1, !.len = 1,
               !.op = CASE p.len = 1 -> "RESP_ONLY"
                        [] p.len > 1 /\ i = 1 -> "RESP_FIRST"
                        [] p.len > 1 /\ i = p.len -> "RESP_LAST"
                        [] OTHER -> "RESP_MIDDLE"]]

\* msn_table: the address after a packet of a write; anything else leaves 0
NextVaddr(p, at) == IF IsWrite(p.op) THEN at + 1 ELSE 0

\* rx_exh_fsm of the responder: the first packet of a write names its address,
\* the last goes after the one before.  A first packet of no length stays.
RespExh ==
  /\ bexh # <<>>
  /\ bexh' = Tail(bexh)
  /\ LET p  == Head(bexh)
         at == IF p.op = "LAST" THEN bdma ELSE p.req
     IN  \/ /\ p.op # "READ" /\ Len(ackq) < QCap
            /\ p.op \in {"ONLY", "FIRST"} => p.len # 0
            /\ written' = Append(written, [at |-> at, data |-> p.req])
            /\ bdma' = NextVaddr(p, at)
            /\ ackq' = Append(ackq, Answer("ACK", p.psn))
            /\ UNCHANGED readq
         \/ /\ p.op = "READ" /\ Len(readq) + p.len <= 2 * ReadPkgs
            /\ readq' = readq \o ReadEvents(p)
            /\ bdma' = IF p.len # 0 THEN NextVaddr(p, at) ELSE bdma
            /\ UNCHANGED <<ackq, written>>
  /\ UNCHANGED <<epsn, nakOk, txVars, rtVars, tmVars, rxVars, netVars>>

\* meta_merger and the header generation of the responder: acknowledgements
\* go before the answers to reads
RespSend ==
  /\ Len(back) < NetCap
  /\ IF ackq # <<>>
     THEN /\ back' = Append(back, Head(ackq))
          /\ ackq' = Tail(ackq)
          /\ UNCHANGED readq
     ELSE /\ readq # <<>>
          /\ back' = Append(back, Head(readq))
          /\ readq' = Tail(readq)
          /\ UNCHANGED ackq
  /\ UNCHANGED <<epsn, nakOk, bexh, bdma, written, txVars, rtVars, tmVars, rxVars,
                 fwd, faults>>

-----------------------------------------------------------------------------
(* The network: UDP over Ethernet.                                         *)

\* What one fault makes of the packets under way: one is lost, or sent twice,
\* or overtaken by the one behind it
Faulty(q) ==
  {RemoveAt(q, i) : i \in 1 .. Len(q)}
  \cup {Append(q, q[i]) : i \in 1 .. IF Len(q) < NetCap THEN Len(q) ELSE 0}
  \cup {[q EXCEPT ![i] = q[i + 1], ![i + 1] = q[i]] : i \in 1 .. Len(q) - 1}

Fault ==
  /\ faults < MaxFaults
  /\ \/ fwd' \in Faulty(fwd) /\ UNCHANGED back
     \/ back' \in Faulty(back) /\ UNCHANGED fwd
  /\ faults' = faults + 1
  /\ UNCHANGED <<txVars, rtVars, tmVars, rxVars, rspVars>>

Next ==
  \/ LocalReq \/ LocalRetrans
  \/ RetransUpdate \/ RetransNak \/ RetransTimer \/ RetransInsert
  \/ TimerExpires
  \/ RxLoad \/ RxAccept \/ RxDrop \/ RxExh
  \/ RespExpected \/ RespDuplicate \/ RespInvalid \/ RespExh \/ RespSend
  \/ Fault

Spec == Init /\ [][Next]_vars

-----------------------------------------------------------------------------
(* Properties.                                                             *)

Event == [op : {"NONE", "SEND", "ONLY", "FIRST", "LAST", "READ", "ACK", "NAK",
                "RESP_ONLY", "RESP_FIRST", "RESP_MIDDLE", "RESP_LAST"},
          req : 0 .. MaxReq, off : Nat, len : Int,
          psn : Psn \cup {-1}]

\* The types of the tables and FIFOs; every index of meta_table is in use or in
\* the free list, once.
TypeOK ==
  /\ reqs \in Seq({"SEND", "ONLY", "FIRST", "LAST", "READ"}) /\ Len(reqs) <= MaxReq
  /\ {next, unack, epsn} \subseteq Psn /\ psnOf \in Seq(Psn)
  /\ {insq, rtev, aexh, bexh, ackq, readq, fwd, back} \subseteq Seq(Event)
  /\ mtable \in [0 .. TableSize - 1 ->
                   [ev : Event, next : 0 .. TableSize - 1, isTail : BOOLEAN]]
  /\ ptr \in [head : 0 .. TableSize - 1, tail : 0 .. TableSize - 1,
              valid : BOOLEAN]
  /\ IsInjective(freeq) /\ Range(freeq) \subseteq 0 .. TableSize - 1
  /\ Len(Chain) + Len(freeq) = TableSize
  /\ rt \in {"MAIN", "RETRANS_1"} /\ {nakOk, expired, miscut, early} \subseteq BOOLEAN
  /\ timer \in [active : BOOLEAN, retries : 0 .. MaxRetries]
  /\ faults \in 0 .. MaxFaults /\ late \in 0 .. MaxLate

Payloads == [i \in 1 .. Len(written) |-> written[i].data]

\* Whatever the network and the retransmissions do, the payloads of writes and
\* sends reach the remote side in the order they were issued, each once and
\* none left out.  So until a read response cuts an entry of the retransmitter
\* that is not its read: a write sent again under another PSN is executed
\* twice, in the place of the one that PSN belongs to.
WritesInOrder ==
  ~miscut =>
    /\ \A i, j \in 1 .. Len(written) : i < j => Payloads[i] < Payloads[j]
    /\ \A d \in Range(Payloads) :
         /\ d \in 1 .. Len(reqs) /\ reqs[d] # "READ"
         /\ \A j \in 1 .. d - 1 : reqs[j] # "READ" => j \in Range(Payloads)

\* Writes that rx_ibh_fsm of the responder has accepted
Accepted == Range(Payloads) \cup {p.req : p \in Range(bexh)}

\* How far a PSN is from the first one
Distance(p) == (p - StartPsn) % PsnMod

\* Every write with a PSN before the one at that distance has been accepted
AcceptedBefore(d) ==
  \A j \in DOMAIN psnOf :
    reqs[j] # "READ" /\ Distance(psnOf[j]) < d => j \in Accepted

\* What the responder says is true when it says it and stays true: an ACK
\* covers writes it accepted up to that PSN, a NAK comes with every write
\* before the PSN it asks for accepted, and the data of a read carries the PSN
\* that request and offset stand for, read after every write issued before it.
\* So until an entry is cut for a response that is not its own.
AnswersHonest ==
  ~miscut => \A a \in Range(ackq) \cup Range(readq) \cup Range(back) :
    CASE a.op = "ACK" -> /\ Distance(a.psn) < Distance(epsn)
                         /\ AcceptedBefore(Distance(a.psn) + 1)
      [] a.op = "NAK" -> /\ a.psn \in Range(psnOf)
                         /\ AcceptedBefore(Distance(a.psn))
      [] OTHER -> /\ a.psn = Plus(psnOf[a.req], a.off)
                  /\ \A j \in 1 .. a.req - 1 :
                       reqs[j] # "READ" => j \in Range(Payloads)

\* Requests with a PSN that has not been acknowledged
Outstanding ==
  {i \in 1 .. Len(reqs) :
     Distance(psnOf[i]) + Pkgs(reqs[i]) > Distance(unack)}

\* Nothing was lost, overtaken or late, and reads are not mixed with writes:
\* an ACK would go before the answer to a read.
Undisturbed ==
  /\ faults = 0 /\ late = 0
  /\ \A i, j \in 1 .. Len(reqs) : reqs[i] = "READ" <=> reqs[j] = "READ"

\* As long as nothing disturbs the connection the retransmitter holds every
\* request that has not been answered, and never waits for an entry; data
\* is stored where the request says, on both sides, unless the answer to a read
\* was there before its entry, which UPDATE_0 says should not happen.
ListFollows ==
  Undisturbed =>
    /\ rt = "MAIN"
    /\ Outstanding \subseteq {e.req : e \in Range(Chain) \cup Range(insq)}
    /\ \A d \in Range(written) : d.at = d.data
    /\ ~early => \A d \in landed : d.at = d.data
=============================================================================
