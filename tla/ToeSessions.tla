----------------------------- MODULE ToeSessions -----------------------------
(***************************************************************************)
(* Which session a segment, an event or a timer of the TCP offload engine  *)
(* belongs to (hw/services/network/hls/toe): the port table, the metadata  *)
(* handler of the RX engine, the session lookup controller with its free   *)
(* list and reverse table, the state table with its locks, and the timers, *)
(* which know a session by its ID only.  Each is a process of its own; the *)
(* FIFOs between them are sequences, and full when they hold QCap.         *)
(*                                                                         *)
(* What happens to the data of one session is the subject of Toe: here the *)
(* comparisons of sequence numbers are nondeterministic, and events that   *)
(* set no timer are left out.  A port is its two bytes, of Base values     *)
(* each, so that its other byte order is another port.                     *)
(***************************************************************************)
EXTENDS Integers, Sequences, SequencesExt, FiniteSets

CONSTANTS
  MaxSessions,  \* MAX_SESSIONS
  Peers,        \* address and port of the other ends
  Base,         \* values of a byte of a port number (256 in the code)
  AppPorts,     \* ports the application asks to listen on
  NoId,         \* not a session
  None,         \* nothing
  MaxMoves,     \* bound: segments, opens and closes together
  QCap          \* depth of the FIFOs

ASSUME SessionsAssumption ==
  /\ MaxSessions \in Nat \ {0} /\ Base \in Nat /\ Base > 1 /\ Base % 2 = 0
  /\ NoId \notin Nat /\ MaxMoves \in Nat /\ QCap \in Nat \ {0}

Ids   == 0 .. MaxSessions - 1
Port  == (0 .. Base - 1) \X (0 .. Base - 1)    \* high byte first
Tuple == [peer : Peers, port : Port]

ASSUME AppPortsAssumption == AppPorts \subseteq Port

Swap(port) == <<port[2], port[1]>>
\* A number of 2^15 and more: a port for connections the application opens.
High(port) == port[1] >= Base \div 2

States == {"CLOSED", "SYN_SENT", "SYN_RECEIVED", "ESTABLISHED", "FIN_WAIT_1",
           "FIN_WAIT_2", "CLOSING", "TIME_WAIT", "LAST_ACK"}
Flags  == {"SYN", "SYN_ACK", "ACK", "FIN", "RST"}

\* None is no ID and none of the records the processes work on.
ASSUME NoneAssumption ==
  /\ None \notin Nat \cup {NoId}
  /\ None \notin [st : {"LUP_RSP", "UPD_WAIT", "UPD_RSP"}, src : {"RX", "TX_APP"}, t : Tuple,
                  create : BOOLEAN, id : Ids \cup {NoId}]
  /\ None \notin [f : Flags, t : Tuple, id : Ids \cup {NoId, None}]
  /\ None \notin [f : Flags, id : Ids, st : States]
  /\ None \notin [st : {"new", "asked"}, t : Tuple]

VARIABLES
  listening, \* listeningPortTable
  used,      \* freePortTable, the entries that are taken
  portq,     \* free ports on offer to the application
  counter,   \* sessionIdManager: IDs from here on were never used
  freeIds,   \* slc_sessionIdFreeList
  finIds,    \* slc_sessionIdFinFifo
  lookup,    \* the session table in RTL
  count,     \* usedSessionIDs
  slc,       \* the query lookupReplyHandler works on, or None
  ins,       \* sessionInsert_req
  del,       \* sessionDelete_req
  revIns,    \* reverseLupInsertFifo
  rev,       \* reverseLookupTable
  valid,     \* tupleValid
  rel,       \* stateTable2sLookup_releaseSession
  mh,        \* the segment the metadata handler looks up, or None
  fsmq,      \* rxEng_fsmMetaDataFifo: segments with the ID found
  fsm,       \* what the RX engine has loaded, or None
  appReq,    \* the tuple the application opens, or None
  appId,     \* sLookup2txApp_rsp: NoId, or None if there is no reply
  closing,   \* tai_closeSessionID and the state read, or None
  state,     \* state_table
  rxLock,    \* ID the RX engine has locked, or NoId
  txLock,    \* ID the application's interface has locked, or NoId
  timq,      \* timer2stateTable_releaseState
  evq,       \* events on their way to the TX engine
  rt, ct,    \* IDs whose retransmit or close timer is running
  moves      \* segments, opens and closes so far

portVars == <<listening, used, portq>>
idVars   == <<counter, freeIds, finIds>>
lupVars  == <<lookup, count, slc, ins, del>>
revVars  == <<revIns, rev, valid>>
rxVars   == <<mh, fsmq, fsm>>
appVars  == <<appReq, appId, closing>>
stVars   == <<state, rxLock, txLock>>
timeVars == <<evq, rt, ct>>
vars == <<portVars, idVars, lupVars, revVars, rel, rxVars, appVars, stVars, timq,
          timeVars, moves>>

Init ==
  /\ listening = {} /\ used = {} /\ portq = <<>>
  /\ counter = 0 /\ freeIds = <<>> /\ finIds = <<>>
  /\ lookup = [t \in Tuple |-> NoId] /\ count = 0 /\ slc = None
  /\ ins = <<>> /\ del = <<>> /\ revIns = <<>>
  /\ rev = [i \in Ids |-> None] /\ valid = [i \in Ids |-> FALSE] /\ rel = <<>>
  /\ mh = None /\ fsmq = <<>> /\ fsm = None
  /\ appReq = None /\ appId = None /\ closing = None
  /\ state = [i \in Ids |-> "CLOSED"] /\ rxLock = NoId /\ txLock = NoId
  /\ timq = <<>> /\ evq = <<>> /\ rt = {} /\ ct = {} /\ moves = 0

Room(q) == Len(q) < QCap
Move == moves < MaxMoves /\ moves' = moves + 1

----------------------------------------------------------------------------
(* The port table. *)

\* A low port is opened for good; a high one is refused.
Listen(port) ==
  /\ port \in AppPorts \ listening
  /\ listening' = IF High(port) THEN listening ELSE listening \cup {port}
  /\ UNCHANGED <<used, portq, idVars, lupVars, revVars, rel, rxVars, appVars, stVars,
                 timq, timeVars, moves>>

\* The cursor comes by a free port: it is taken and offered.
OfferPort(port) ==
  /\ High(port) /\ port \notin used /\ Room(portq)
  /\ used' = used \cup {port} /\ portq' = Append(portq, port)
  /\ UNCHANGED <<listening, idVars, lupVars, revVars, rel, rxVars, appVars, stVars,
                 timq, timeVars, moves>>

PortOpen(port) == port \in IF High(port) THEN used ELSE listening

\* The session's port comes in network byte order, and is compared as it comes.
ReleasePort(port) ==
  used' = IF High(Swap(port)) THEN used \ {Swap(port)} ELSE used

----------------------------------------------------------------------------
(* The metadata handler of the RX engine. *)

\* A segment for an open port is looked up; one for a closed port is answered
\* with a RST or ignored, without a session.
RxMeta(f, t) ==
  /\ Move /\ mh = None /\ PortOpen(t.port)
  /\ mh' = [f |-> f, t |-> t, id |-> None]
  /\ UNCHANGED <<portVars, idVars, lupVars, revVars, rel, fsmq, fsm, appVars, stVars,
                 timq, timeVars>>

\* The reply: with a session the segment goes on to the FSM, else it is dropped.
RxMetaReply ==
  /\ mh # None /\ mh.id # None
  /\ \/ /\ mh.id = NoId /\ UNCHANGED fsmq
     \/ /\ mh.id # NoId /\ Room(fsmq)
        /\ fsmq' = Append(fsmq, [f |-> mh.f, id |-> mh.id])
  /\ mh' = None
  /\ UNCHANGED <<portVars, idVars, lupVars, revVars, rel, fsm, appVars, stVars, timq,
                 timeVars, moves>>

----------------------------------------------------------------------------
(* The session lookup controller. *)

\* sessionIdManager: IDs that come back are handed out before new ones.
IdManager ==
  /\ \/ /\ finIds # <<>>
        /\ freeIds' = Append(freeIds, Head(finIds)) /\ finIds' = Tail(finIds)
        /\ UNCHANGED counter
     \/ /\ finIds = <<>> /\ counter < MaxSessions
        /\ freeIds' = Append(freeIds, counter) /\ counter' = counter + 1
        /\ UNCHANGED finIds
  /\ UNCHANGED <<portVars, lupVars, revVars, rel, rxVars, appVars, stVars, timq,
                 timeVars, moves>>

\* LUP_REQ: queries of the application come first.
LupReq ==
  /\ slc = None
  /\ \/ /\ appReq # None /\ appReq.st = "new"
        /\ slc' = [st |-> "LUP_RSP", src |-> "TX_APP", t |-> appReq.t, create |-> TRUE,
                   id |-> NoId]
        /\ appReq' = [appReq EXCEPT !.st = "asked"] /\ UNCHANGED mh
     \/ /\ ~(appReq # None /\ appReq.st = "new")
        /\ mh # None /\ mh.id = None
        /\ slc' = [st |-> "LUP_RSP", src |-> "RX", t |-> mh.t,
                   create |-> mh.f \in {"SYN", "SYN_ACK"}, id |-> NoId]
        /\ UNCHANGED <<appReq, mh>>
  /\ UNCHANGED <<portVars, idVars, lookup, count, ins, del, revVars, rel, fsmq, fsm,
                 appId, closing, stVars, timq, timeVars, moves>>

Reply(src, id) ==
  IF src = "RX" THEN mh' = [mh EXCEPT !.id = id] /\ UNCHANGED appId
                ELSE appId' = id /\ UNCHANGED mh

\* LUP_RSP: what the table says is passed on, unless a session is to be made
\* and an ID is free.
LupRsp ==
  /\ slc # None /\ slc.st = "LUP_RSP"
  /\ LET create == lookup[slc.t] = NoId /\ slc.create /\ freeIds # <<>> IN
     \/ /\ create /\ Room(ins)
        /\ ins' = Append(ins, [t |-> slc.t, id |-> Head(freeIds)])
        /\ freeIds' = Tail(freeIds)
        /\ slc' = [slc EXCEPT !.st = "UPD_WAIT"]
        /\ UNCHANGED <<mh, appId>>
     \/ /\ ~create
        /\ Reply(slc.src, lookup[slc.t]) /\ slc' = None
        /\ UNCHANGED <<ins, freeIds>>
  /\ UNCHANGED <<portVars, counter, finIds, lookup, count, del, revVars, rel, fsmq,
                 fsm, appReq, closing, stVars, timq, timeVars, moves>>

\* UPD_RSP: the new entry is in, the reverse table is told after the requester.
UpdRsp ==
  /\ slc # None /\ slc.st = "UPD_RSP" /\ Room(revIns)
  /\ Reply(slc.src, slc.id)
  /\ revIns' = Append(revIns, [t |-> slc.t, id |-> slc.id])
  /\ slc' = None
  /\ UNCHANGED <<portVars, idVars, lookup, count, ins, del, rev, valid, rel, fsmq,
                 fsm, appReq, closing, stVars, timq, timeVars, moves>>

MutRtlDelete(t) == lookup
RtlInsert(t, id) == [lookup EXCEPT ![t] = id]
RtlDelete(t) == [lookup EXCEPT ![t] = NoId]

\* updateRequestSender: inserts before deletes.  A delete gives the ID back.
UpdateSender ==
  /\ \/ /\ ins # <<>>
        /\ lookup' = RtlInsert(Head(ins).t, Head(ins).id)
        /\ slc' = [slc EXCEPT !.st = "UPD_RSP", !.id = Head(ins).id]
        /\ ins' = Tail(ins) /\ count' = count + 1
        /\ UNCHANGED <<del, finIds>>
     \/ /\ ins = <<>> /\ del # <<>> /\ Room(finIds)
        /\ lookup' = RtlDelete(Head(del).t)
        /\ finIds' = Append(finIds, Head(del).id)
        /\ del' = Tail(del) /\ count' = count - 1
        /\ UNCHANGED <<ins, slc>>
  /\ UNCHANGED <<portVars, counter, freeIds, revVars, rel, rxVars, appVars, stVars,
                 timq, timeVars, moves>>

MutReleasable(i) == TRUE
\* A session is given back once, however often it is released.
Releasable(i) == valid[i]

MutRevFirst == TRUE
\* The reverse table takes inserts before releases.
RevFirst == revIns = <<>>

\* reverseLookupTableInterface.
RevInsert ==
  /\ revIns # <<>>
  /\ rev' = [rev EXCEPT ![Head(revIns).id] = Head(revIns).t]
  /\ valid' = [valid EXCEPT ![Head(revIns).id] = TRUE]
  /\ revIns' = Tail(revIns)
  /\ UNCHANGED <<portVars, idVars, lupVars, rel, rxVars, appVars, stVars, timq,
                 timeVars, moves>>

RevRelease ==
  /\ RevFirst /\ rel # <<>>
  /\ LET i == Head(rel) IN
     /\ IF Releasable(i)
          THEN /\ Room(del) /\ del' = Append(del, [t |-> rev[i], id |-> i])
               /\ ReleasePort(rev[i].port)
          ELSE UNCHANGED <<del, used>>
     /\ valid' = [valid EXCEPT ![i] = FALSE]
  /\ rel' = Tail(rel)
  /\ UNCHANGED <<listening, portq, idVars, lookup, count, slc, ins, revIns, rev,
                 rxVars, appVars, stVars, timq, timeVars, moves>>

----------------------------------------------------------------------------
(* The state table.  A reader that will write locks the entry; the others    *)
(* wait, each for its own turn.                                              *)

MutRxMay(i) == TRUE
RxMay(i) == txLock # i
TxMay(i) == rxLock # i

\* rxTcpFSM, LOAD.
FsmLoad ==
  /\ fsm = None /\ fsmq # <<>>
  /\ LET m == Head(fsmq) IN
     /\ RxMay(m.id)
     /\ fsm' = [f |-> m.f, id |-> m.id, st |-> state[m.id]]
     /\ rxLock' = m.id
  /\ fsmq' = Tail(fsmq)
  /\ UNCHANGED <<portVars, idVars, lupVars, revVars, rel, mh, appVars, state, txLock,
                 timq, timeVars, moves>>

\* The state the FSM goes to; match and done are the comparisons of the
\* sequence and of the acknowledgement number.
FsmState(f, s, match, done) ==
  CASE f = "SYN" /\ s \in {"CLOSED", "SYN_SENT"}            -> "SYN_RECEIVED"
    [] f = "SYN" /\ s = "SYN_RECEIVED" /\ ~match            -> "CLOSED"
    [] f = "SYN_ACK" /\ s = "SYN_SENT" /\ done              -> "ESTABLISHED"
    [] f = "SYN_ACK" /\ s = "SYN_SENT" /\ ~done             -> "CLOSED"
    [] f = "ACK" /\ s = "SYN_RECEIVED" /\ done              -> "ESTABLISHED"
    [] f = "ACK" /\ s = "CLOSING" /\ done                   -> "TIME_WAIT"
    [] f = "ACK" /\ s = "LAST_ACK" /\ done                  -> "CLOSED"
    [] f = "FIN" /\ s = "ESTABLISHED" /\ match              -> "LAST_ACK"
    [] f = "FIN" /\ s \in {"FIN_WAIT_1", "FIN_WAIT_2"} /\ match ->
         IF done THEN "TIME_WAIT" ELSE "CLOSING"
    [] f = "RST" /\ match                                   -> "CLOSED"
    [] OTHER                                                -> s

\* Events that set the retransmit timer.
FsmEvent(f, s, match) ==
  CASE f = "SYN" /\ s \in {"CLOSED", "SYN_SENT"}      -> {"SYN_ACK"}
    [] f = "SYN" /\ s = "SYN_RECEIVED" /\ match       -> {"SYN_ACK"}
    [] f = "FIN" /\ s = "ESTABLISHED" /\ match        -> {"FIN"}
    [] OTHER                                          -> {}

\* rxTcpFSM, TRANSITION: events, timers and the state; CLOSED, even if it was
\* CLOSED before, releases the session.
FsmTransition ==
  /\ fsm # None
  /\ \E match, done \in BOOLEAN :
       LET s   == FsmState(fsm.f, fsm.st, match, done)
           evs == FsmEvent(fsm.f, fsm.st, match)
       IN  /\ evs # {} => Room(evq)
           /\ evq' = evq \o SetToSeq({[t |-> t, id |-> fsm.id] : t \in evs})
           /\ rt' = IF \/ fsm.f \in {"ACK", "SYN_ACK", "FIN"} /\ done
                       \/ fsm.f = "RST" /\ match
                      THEN rt \ {fsm.id} ELSE rt
           /\ ct' = IF s = "TIME_WAIT" /\ fsm.st # s THEN ct \cup {fsm.id} ELSE ct
           /\ state' = [state EXCEPT ![fsm.id] = s]
           /\ s = "CLOSED" => Room(rel)
           /\ rel' = IF s = "CLOSED" THEN Append(rel, fsm.id) ELSE rel
  /\ rxLock' = NoId /\ fsm' = None
  /\ UNCHANGED <<portVars, idVars, lupVars, revVars, mh, fsmq, appVars, txLock, timq,
                 moves>>

\* A timer's release: waits for both locks.
TimerRelease ==
  /\ timq # <<>> /\ Room(rel)
  /\ Head(timq) \notin {rxLock, txLock}
  /\ state' = [state EXCEPT ![Head(timq)] = "CLOSED"]
  /\ rel' = Append(rel, Head(timq)) /\ timq' = Tail(timq)
  /\ UNCHANGED <<portVars, idVars, lupVars, revVars, rxVars, appVars, rxLock, txLock,
                 timeVars, moves>>

----------------------------------------------------------------------------
(* The application's interface, the TX engine and the timers. *)

\* A connection is opened from the next port on offer.
AppOpen(q) ==
  /\ Move /\ appReq = None /\ portq # <<>>
  /\ appReq' = [st |-> "new", t |-> [peer |-> q, port |-> Head(portq)]]
  /\ portq' = Tail(portq)
  /\ UNCHANGED <<listening, used, idVars, lupVars, revVars, rel, rxVars, appId,
                 closing, stVars, timq, timeVars>>

\* The reply: with a session SYN is sent and the state written unread.
AppOpened ==
  /\ appId # None /\ closing = None
  /\ \/ /\ appId # NoId /\ TxMay(appId) /\ Room(evq)
        /\ evq' = Append(evq, [t |-> "SYN", id |-> appId])
        /\ state' = [state EXCEPT ![appId] = "SYN_SENT"]
        /\ txLock' = NoId
     \/ /\ appId = NoId
        /\ UNCHANGED <<evq, state, txLock>>
  /\ appId' = None /\ appReq' = None
  /\ UNCHANGED <<portVars, idVars, lupVars, revVars, rel, rxVars, closing, rxLock,
                 timq, rt, ct, moves>>

\* A close request reads and locks the state ...
AppClose(i) ==
  /\ Move /\ closing = None /\ appId = None /\ TxMay(i)
  /\ closing' = [id |-> i, st |-> state[i]] /\ txLock' = i
  /\ UNCHANGED <<portVars, idVars, lupVars, revVars, rel, rxVars, appReq, appId, state,
                 rxLock, timq, timeVars>>

\* ... and writes it back, as FIN_WAIT_1 if there is something to close.
AppClosed ==
  /\ closing # None /\ TxMay(closing.id)
  /\ \/ /\ closing.st \in {"ESTABLISHED", "FIN_WAIT_1", "FIN_WAIT_2"} /\ Room(evq)
        /\ evq' = Append(evq, [t |-> "FIN", id |-> closing.id])
        /\ state' = [state EXCEPT ![closing.id] = "FIN_WAIT_1"]
     \/ /\ closing.st \notin {"ESTABLISHED", "FIN_WAIT_1", "FIN_WAIT_2"}
        /\ state' = [state EXCEPT ![closing.id] = closing.st]
        /\ UNCHANGED evq
  /\ txLock' = NoId /\ closing' = None
  /\ UNCHANGED <<portVars, idVars, lupVars, revVars, rel, rxVars, appReq, appId,
                 rxLock, timq, rt, ct, moves>>

\* The TX engine sends what the event asks for to the tuple the reverse table
\* holds for the ID, and sets the retransmit timer of the ID.
TxEvent ==
  /\ evq # <<>>
  /\ rt' = rt \cup {Head(evq).id} /\ evq' = Tail(evq)
  /\ UNCHANGED <<portVars, idVars, lupVars, revVars, rel, rxVars, appVars, stVars,
                 timq, ct, moves>>

\* The retransmit timer: another try, or the session is given up.
RtTimeout(i) ==
  /\ i \in rt /\ rt' = rt \ {i}
  /\ \/ Room(evq) /\ evq' = Append(evq, [t |-> "RT", id |-> i]) /\ UNCHANGED timq
     \/ Room(timq) /\ timq' = Append(timq, i) /\ UNCHANGED evq
  /\ UNCHANGED <<portVars, idVars, lupVars, revVars, rel, rxVars, appVars, stVars, ct,
                 moves>>

CloseTimeout(i) ==
  /\ i \in ct /\ ct' = ct \ {i}
  /\ Room(timq) /\ timq' = Append(timq, i)
  /\ UNCHANGED <<portVars, idVars, lupVars, revVars, rel, rxVars, appVars, stVars, evq,
                 rt, moves>>

----------------------------------------------------------------------------
SessionLookup == IdManager \/ LupReq \/ LupRsp \/ UpdRsp \/ UpdateSender
                   \/ RevInsert \/ RevRelease
StateTable    == FsmLoad \/ FsmTransition \/ TimerRelease
AppIf         == AppOpened \/ AppClosed \/ \E q \in Peers : AppOpen(q)
                   \/ \E i \in Ids : AppClose(i)

Next ==
  \/ \E port \in Port : Listen(port) \/ OfferPort(port)
  \/ \E f \in Flags, t \in Tuple : RxMeta(f, t)
  \/ RxMetaReply \/ SessionLookup \/ StateTable \/ AppIf \/ TxEvent
  \/ \E i \in Ids : RtTimeout(i) \/ CloseTimeout(i)

Spec == Init /\ [][Next]_vars

----------------------------------------------------------------------------
(* Properties. *)

\* Tables hold sessions, queues hold no more than their depth (toe_internals.hpp).
TypeOK ==
  /\ listening \subseteq Port /\ used \subseteq Port /\ counter \in 0 .. MaxSessions
  /\ lookup \in [Tuple -> Ids \cup {NoId}] /\ count \in 0 .. MaxSessions
  /\ \A q \in {freeIds, finIds, rel, timq} : q \in Seq(Ids)
  /\ \A q \in {ins, del, revIns} : q \in Seq([t : Tuple, id : Ids])
  /\ rev \in [Ids -> Tuple \cup {None}] /\ valid \in [Ids -> BOOLEAN]
  /\ state \in [Ids -> States] /\ {rxLock, txLock} \subseteq Ids \cup {NoId}
  /\ rt \subseteq Ids /\ ct \subseteq Ids

Occurs(i, q) == Cardinality({k \in DOMAIN q : q[k] = i})

\* Through opens, resets, timeouts, late segments for IDs that were given back
\* and repeated releases, every ID that was ever handed out is in one place: the
\* free list, on its way into or out of it, or the entry of one tuple; and
\* regSessionCount counts the entries (sessionIdManager, updateRequestSender).
IdsAccounted ==
  /\ \A i \in Ids :
       Occurs(i, freeIds) + Occurs(i, finIds)
         + Cardinality({k \in DOMAIN ins : ins[k].id = i})
         + Cardinality({t \in Tuple : lookup[t] = i}) = IF i < counter THEN 1 ELSE 0
  /\ count = Cardinality({t \in Tuple : lookup[t] # NoId})

\* What comes in under a tuple goes out under the same tuple: the table of the
\* lookups and the reverse table, kept by two processes, agree but for the
\* inserts and deletes on their way (reverseLookupTableInterface).
ReverseAgrees ==
  \A t \in Tuple, i \in Ids :
    lookup[t] = i =>
      \/ valid[i] /\ rev[i] = t
      \/ slc # None /\ slc.st = "UPD_RSP" /\ slc.t = t /\ slc.id = i
      \/ \E k \in DOMAIN revIns : revIns[k] = [t |-> t, id |-> i]
      \/ \E k \in DOMAIN del : del[k] = [t |-> t, id |-> i]

\* No ID is lost: a session that is CLOSED is being made or being taken down.  A
\* release that the reverse table sees before the insert would be forgotten
\* (reverseLookupTableInterface, state_table).
NoDeadSession ==
  \A t \in Tuple, i \in Ids :
    lookup[t] = i /\ state[i] = "CLOSED" =>
      \/ slc # None /\ slc.st = "UPD_RSP" /\ slc.id = i
      \/ i = appId \/ (mh # None /\ mh.id = i) \/ (fsm # None /\ fsm.id = i)
      \/ \E k \in DOMAIN fsmq : fsmq[k].id = i
      \/ \E k \in DOMAIN rel : rel[k] = i
      \/ \E k \in DOMAIN del : del[k].id = i

\* The state the RX engine or the application's interface has read is still the
\* state when it writes: no timer, close or open request gets in between
\* (state_table).
ReadStateHolds ==
  /\ fsm # None => state[fsm.id] = fsm.st
  /\ closing # None => state[closing.id] = closing.st

=============================================================================
