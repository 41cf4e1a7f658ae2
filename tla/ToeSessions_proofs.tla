------------------------- MODULE ToeSessions_proofs -------------------------
(***************************************************************************)
(* The sessions of the TCP offload engine, for any number of sessions,     *)
(* peers and ports and any depth of the FIFOs: no ID is lost or handed out *)
(* twice, the two tables agree, no session is left over, and the locks of  *)
(* the state table protect what they are for.                              *)
(***************************************************************************)
EXTENDS ToeSessions, FiniteSetTheorems, SequenceTheorems, TLAPS

\* The registers of the processes, which TypeOK leaves open.
Registers ==
  /\ slc \in [st : {"LUP_RSP", "UPD_WAIT", "UPD_RSP"}, src : {"RX", "TX_APP"}, t : Tuple,
              create : BOOLEAN, id : Ids \cup {NoId}] \cup {None}
  /\ mh \in [f : Flags, t : Tuple, id : Ids \cup {NoId, None}] \cup {None}
  /\ fsmq \in Seq([f : Flags, id : Ids])
  /\ fsm \in [f : Flags, id : Ids, st : States] \cup {None}
  /\ appReq \in [st : {"new", "asked"}, t : Tuple] \cup {None}
  /\ appId \in Ids \cup {NoId, None}
  /\ closing \in [id : Ids, st : States] \cup {None}
  /\ evq \in Seq([t : {"SYN", "SYN_ACK", "FIN", "RT"}, id : Ids])
  /\ portq \in Seq(Port)

\* What has read a state has locked it, and not both have.
Locks ==
  /\ fsm # None => rxLock = fsm.id /\ state[fsm.id] = fsm.st
  /\ closing # None => txLock = closing.id /\ state[closing.id] = closing.st
  /\ fsm # None /\ closing # None => fsm.id # closing.id

\* The query in the lookup controller is the one its source waits for.
Queries ==
  /\ slc # None /\ slc.src = "RX" => mh # None /\ mh.id = None
  /\ slc # None /\ slc.src = "TX_APP" => appReq # None /\ appReq.st = "asked" /\ appId = None
  /\ appId # None => appReq # None /\ appReq.st = "asked"

\* Where an ID can be.
Free(i) == \E k \in DOMAIN freeIds : freeIds[k] = i
Fin(i)  == \E k \in DOMAIN finIds : finIds[k] = i
New(i)  == \E k \in DOMAIN ins : ins[k].id = i
Held(i) == \E t \in Tuple : lookup[t] = i

\* The insert on its way is the one the query waits for.
Inserts ==
  /\ slc # None /\ slc.st = "UPD_WAIT" =>
       lookup[slc.t] = NoId /\ \E i \in Ids : ins = <<[t |-> slc.t, id |-> i]>>
  /\ ~(slc # None /\ slc.st = "UPD_WAIT") => ins = <<>>

Once(q) == \A j, k \in DOMAIN q : q[j] = q[k] => j = k

\* An ID that was handed out is in one place and there once.
Places ==
  /\ Once(freeIds) /\ Once(finIds)
  /\ \A t, u \in Tuple : lookup[t] # NoId /\ lookup[t] = lookup[u] => t = u
  /\ \A i \in Ids :
       /\ i < counter <=> Free(i) \/ Fin(i) \/ New(i) \/ Held(i)
       /\ ~(Free(i) /\ Fin(i)) /\ ~(Free(i) /\ New(i)) /\ ~(Free(i) /\ Held(i))
       /\ ~(Fin(i) /\ New(i)) /\ ~(Fin(i) /\ Held(i)) /\ ~(New(i) /\ Held(i))

Entered == {t \in Tuple : lookup[t] # NoId}
Counted == IsFiniteSet(Entered) /\ count = Cardinality(Entered)

\* Where a session is on its way through the reverse table.
Coming(i)  == slc # None /\ slc.st = "UPD_RSP" /\ slc.id = i
ToRev(i)   == \E k \in DOMAIN revIns : revIns[k].id = i
Leaving(i) == \E k \in DOMAIN del : del[k].id = i
OnceId(q)  == \A j, k \in DOMAIN q : q[j].id = q[k].id => j = k

ReverseInv ==
  /\ slc # None /\ slc.st = "UPD_RSP" => slc.id \in Ids /\ lookup[slc.t] = slc.id
  /\ \A k \in DOMAIN revIns : lookup[revIns[k].t] = revIns[k].id
  /\ \A k \in DOMAIN del : lookup[del[k].t] = del[k].id
  /\ \A i \in Ids : valid[i] => rev[i] \in Tuple /\ lookup[rev[i]] = i
  /\ OnceId(revIns) /\ OnceId(del)
  /\ \A i \in Ids :
       /\ ~(Coming(i) /\ ToRev(i)) /\ ~(Coming(i) /\ Leaving(i)) /\ ~(Coming(i) /\ valid[i])
       /\ ~(ToRev(i) /\ Leaving(i)) /\ ~(ToRev(i) /\ valid[i]) /\ ~(Leaving(i) /\ valid[i])

SessionInv ==
  /\ TypeOK /\ Registers /\ Locks /\ Queries
  /\ Inserts /\ Places /\ Counted
  /\ ReverseInv /\ ReverseAgrees /\ NoDeadSession
-----------------------------------------------------------------------------
(* Facts about the constants, and what each part of the invariant reads. *)

LEMMA Consts ==
  /\ MaxSessions \in Nat \ {0}
  /\ Ids \subseteq Nat /\ NoId \notin Ids /\ None \notin Ids /\ None # NoId
  /\ NoId \notin Nat /\ None \notin Nat
BY SessionsAssumption, NoneAssumption DEF Ids

\* TypeOK with its quantifiers written out.
LEMMA TypesOf ==
  TypeOK <=>
    /\ listening \subseteq Port /\ used \subseteq Port /\ counter \in 0 .. MaxSessions
    /\ lookup \in [Tuple -> Ids \cup {NoId}] /\ count \in 0 .. MaxSessions
    /\ freeIds \in Seq(Ids) /\ finIds \in Seq(Ids) /\ rel \in Seq(Ids) /\ timq \in Seq(Ids)
    /\ ins \in Seq([t : Tuple, id : Ids]) /\ del \in Seq([t : Tuple, id : Ids])
    /\ revIns \in Seq([t : Tuple, id : Ids])
    /\ rev \in [Ids -> Tuple \cup {None}] /\ valid \in [Ids -> BOOLEAN]
    /\ state \in [Ids -> States] /\ rxLock \in Ids \cup {NoId} /\ txLock \in Ids \cup {NoId}
    /\ rt \subseteq Ids /\ ct \subseteq Ids
BY Zenon DEF TypeOK

LEMMA TypesNext ==
  TypeOK' <=>
    /\ listening' \subseteq Port /\ used' \subseteq Port /\ counter' \in 0 .. MaxSessions
    /\ lookup' \in [Tuple -> Ids \cup {NoId}] /\ count' \in 0 .. MaxSessions
    /\ freeIds' \in Seq(Ids) /\ finIds' \in Seq(Ids) /\ rel' \in Seq(Ids) /\ timq' \in Seq(Ids)
    /\ ins' \in Seq([t : Tuple, id : Ids]) /\ del' \in Seq([t : Tuple, id : Ids])
    /\ revIns' \in Seq([t : Tuple, id : Ids])
    /\ rev' \in [Ids -> Tuple \cup {None}] /\ valid' \in [Ids -> BOOLEAN]
    /\ state' \in [Ids -> States] /\ rxLock' \in Ids \cup {NoId} /\ txLock' \in Ids \cup {NoId}
    /\ rt' \subseteq Ids /\ ct' \subseteq Ids
BY Zenon DEF TypeOK

LEMMA LocksFrame ==
  Locks /\ UNCHANGED <<fsm, closing, rxLock, txLock, state>> => Locks'
BY DEF Locks

LEMMA QueriesFrame ==
  Queries /\ UNCHANGED <<slc, mh, appReq, appId>> => Queries'
BY DEF Queries

LEMMA InsertsFrame ==
  Inserts /\ UNCHANGED <<slc, lookup, ins>> => Inserts'
BY DEF Inserts

LEMMA PlacesFrame ==
  Places /\ UNCHANGED <<freeIds, finIds, ins, lookup, counter>> => Places'
BY DEF Places, Once, Free, Fin, New, Held

LEMMA CountedFrame ==
  Counted /\ UNCHANGED <<lookup, count>> => Counted'
BY DEF Counted, Entered

LEMMA ReverseFrame ==
  ReverseInv /\ ReverseAgrees /\ UNCHANGED <<slc, lookup, revIns, del, valid, rev>>
    => ReverseInv' /\ ReverseAgrees'
BY DEF ReverseInv, ReverseAgrees, Coming, ToRev, Leaving, OnceId

LEMMA NoDeadFrame ==
  NoDeadSession /\ UNCHANGED <<lookup, state, slc, appId, mh, fsm, fsmq, rel, del>> => NoDeadSession'
BY DEF NoDeadSession

\* What the session lookup controller alone changes.
LookupFrame == UNCHANGED <<slc, lookup, ins, freeIds, finIds, counter, count, revIns, del, valid, rev>>

LEMMA LookupKept ==
  ASSUME SessionInv, LookupFrame
  PROVE  Inserts' /\ Places' /\ Counted' /\ ReverseInv' /\ ReverseAgrees'
BY InsertsFrame, PlacesFrame, CountedFrame, ReverseFrame DEF SessionInv, LookupFrame
-----------------------------------------------------------------------------
LEMMA InitInv == Init => SessionInv
<1> SUFFICES ASSUME Init PROVE SessionInv
  OBVIOUS
<1>1. TypeOK
  <2>1. 0 \in 0 .. MaxSessions
    BY Consts
  <2>2. "CLOSED" \in States
    BY DEF States
  <2> QED
    BY <2>1, <2>2, TypesOf DEF Init
<1>2. Registers
  BY DEF Init, Registers
<1>3. Locks /\ Queries
  BY DEF Init, Locks, Queries
<1>4. \A t \in Tuple : lookup[t] = NoId
  BY DEF Init
<1>5. Inserts
  BY DEF Init, Inserts
<1>6. Places
  <2>1. \A i \in Ids : ~Free(i) /\ ~Fin(i) /\ ~New(i)
    BY DEF Init, Free, Fin, New
  <2>2. \A i \in Ids : ~Held(i) /\ ~(i < counter)
    BY <1>4, Consts DEF Init, Held, Ids
  <2>3. Once(freeIds) /\ Once(finIds)
    BY DEF Init, Once
  <2> QED
    BY <1>4, <2>1, <2>2, <2>3 DEF Places
<1>7. Counted
  <2>1. Entered = {}
    BY <1>4 DEF Entered
  <2> QED
    BY <2>1, FS_EmptySet DEF Counted, Init
<1>8. ReverseInv /\ ReverseAgrees
  BY <1>4, Consts DEF Init, ReverseInv, ReverseAgrees, Coming, ToRev, Leaving, OnceId
<1>9. NoDeadSession
  BY <1>4, Consts DEF NoDeadSession
<1> QED
  BY <1>1, <1>2, <1>3, <1>5, <1>6, <1>7, <1>8, <1>9 DEF SessionInv

\* The port table: TypeOK and portq only.
LEMMA PortSteps ==
  ASSUME SessionInv, NEW port \in Port, Listen(port) \/ OfferPort(port)
  PROVE  SessionInv'
<1>1. UNCHANGED <<idVars, lupVars, revVars, rel, rxVars, appVars, stVars, timq, timeVars>>
  BY DEF Listen, OfferPort
<1> USE <1>1 DEF idVars, lupVars, revVars, rxVars, appVars, stVars, timeVars
<1>2. listening' \subseteq Port /\ used' \subseteq Port /\ portq' \in Seq(Port)
  <2>1. CASE Listen(port)
    BY <2>1, TypesOf, AppPortsAssumption DEF Listen, SessionInv, Registers
  <2>2. CASE OfferPort(port)
    BY <2>2, TypesOf DEF OfferPort, SessionInv, Registers
  <2> QED
    BY <2>1, <2>2
<1>3. TypeOK'
  BY <1>2, TypesOf, TypesNext DEF SessionInv
<1>4. Registers'
  BY <1>2 DEF SessionInv, Registers
<1>5. Locks' /\ Queries' /\ NoDeadSession'
  BY LocksFrame, QueriesFrame, NoDeadFrame DEF SessionInv
<1>6. LookupFrame
  BY DEF LookupFrame
<1> QED
  BY <1>3, <1>4, <1>5, <1>6, LookupKept DEF SessionInv

-----------------------------------------------------------------------------
(* The metadata handler. *)

LEMMA RxMetaStep ==
  ASSUME SessionInv, NEW f \in Flags, NEW t \in Tuple, RxMeta(f, t)
  PROVE  SessionInv'
<1>1. UNCHANGED <<portVars, idVars, lupVars, revVars, rel, fsmq, fsm, appVars, stVars, timq, timeVars>>
  BY DEF RxMeta
<1> USE <1>1 DEF portVars, idVars, lupVars, revVars, appVars, stVars, timeVars
<1>2. mh = None /\ mh' = [f |-> f, t |-> t, id |-> None]
  BY DEF RxMeta
<1>3. TypeOK'
  BY TypesOf, TypesNext DEF SessionInv
<1>4. Registers'
  BY <1>2 DEF SessionInv, Registers
<1>5. Locks'
  BY LocksFrame DEF SessionInv
<1>6. Queries'
  BY <1>2 DEF SessionInv, Queries
<1>7. NoDeadSession'
  BY <1>2, Consts DEF SessionInv, NoDeadSession
<1>8. LookupFrame
  BY DEF LookupFrame
<1> QED
  BY <1>3, <1>4, <1>5, <1>6, <1>7, <1>8, LookupKept DEF SessionInv

LEMMA RxMetaReplyStep ==
  ASSUME SessionInv, RxMetaReply
  PROVE  SessionInv'
<1>1. UNCHANGED <<portVars, idVars, lupVars, revVars, rel, fsm, appVars, stVars, timq, timeVars>>
  BY DEF RxMetaReply
<1> USE <1>1 DEF portVars, idVars, lupVars, revVars, appVars, stVars, timeVars
<1>2. mh # None /\ mh.id # None /\ mh' = None
  BY DEF RxMetaReply
<1>3. \/ mh.id = NoId /\ fsmq' = fsmq
      \/ mh.id \in Ids /\ fsmq' = Append(fsmq, [f |-> mh.f, id |-> mh.id])
  BY <1>2 DEF RxMetaReply, SessionInv, Registers
<1>4. TypeOK'
  BY TypesOf, TypesNext DEF SessionInv
<1>5. Registers'
  <2>1. fsmq' \in Seq([f : Flags, id : Ids])
    <3> DEFINE M == [f : Flags, id : Ids]
               m == [f |-> mh.f, id |-> mh.id]
    <3>1. mh.f \in Flags /\ fsmq \in Seq(M)
      BY <1>2 DEF SessionInv, Registers
    <3>2. mh.id \in Ids => m \in M
      BY <3>1
    <3>3. fsmq' = fsmq \/ (mh.id \in Ids /\ fsmq' = Append(fsmq, m))
      BY <1>3
    <3> HIDE DEF M, m
    <3>4. fsmq' \in Seq(M)
      BY <3>1, <3>2, <3>3
    <3> QED
      BY <3>4 DEF M
  <2> QED
    BY <1>2, <2>1 DEF SessionInv, Registers
<1>6. Locks'
  BY LocksFrame DEF SessionInv
<1>7. Queries'
  BY <1>2 DEF SessionInv, Queries
<1>8. NoDeadSession'
  <2>1. \A k \in DOMAIN fsmq : k \in DOMAIN fsmq' /\ fsmq'[k] = fsmq[k]
    BY <1>3 DEF SessionInv, Registers
  <2>2. \A i \in Ids : mh.id = i => \E k \in DOMAIN fsmq' : fsmq'[k].id = i
    BY <1>3, Consts DEF SessionInv, Registers
  <2> QED
    BY <1>2, <2>1, <2>2 DEF SessionInv, NoDeadSession
<1>9. LookupFrame
  BY DEF LookupFrame
<1> QED
  BY <1>4, <1>5, <1>6, <1>7, <1>8, <1>9, LookupKept DEF SessionInv
-----------------------------------------------------------------------------
(* The session lookup controller. *)

\* Appending to a sequence adds one element.
LEMMA Appended ==
  ASSUME NEW S, NEW q \in Seq(S), NEW x \in S
  PROVE  /\ Append(q, x) \in Seq(S)
         /\ DOMAIN Append(q, x) = DOMAIN q \cup {Len(q) + 1}
         /\ Len(q) + 1 \notin DOMAIN q
         /\ Append(q, x)[Len(q) + 1] = x
         /\ \A k \in DOMAIN q : Append(q, x)[k] = q[k]
OBVIOUS

\* Taking the head moves the others up.
LEMMA Tailed ==
  ASSUME NEW S, NEW q \in Seq(S), q # <<>>
  PROVE  /\ Tail(q) \in Seq(S) /\ Head(q) \in S /\ Head(q) = q[1] /\ 1 \in DOMAIN q
         /\ \A k \in DOMAIN Tail(q) : k + 1 \in DOMAIN q /\ k + 1 # 1 /\ Tail(q)[k] = q[k + 1]
         /\ \A k \in DOMAIN q : k # 1 => k - 1 \in DOMAIN Tail(q) /\ Tail(q)[k - 1] = q[k]
         /\ \A j, k \in DOMAIN Tail(q) : j + 1 = k + 1 => j = k
OBVIOUS

\* An element appended that was not there leaves each element there once.
LEMMA OnceAppend ==
  ASSUME NEW S, NEW q \in Seq(S), NEW x \in S, Once(q), \A k \in DOMAIN q : q[k] # x
  PROVE  Once(Append(q, x))
BY Appended DEF Once

LEMMA OnceTail ==
  ASSUME NEW S, NEW q \in Seq(S), q # <<>>, Once(q)
  PROVE  Once(Tail(q)) /\ \A k \in DOMAIN Tail(q) : Tail(q)[k] # Head(q)
BY Tailed DEF Once

LEMMA IdManagerStep ==
  ASSUME SessionInv, IdManager
  PROVE  SessionInv'
<1>1. UNCHANGED <<portVars, lupVars, revVars, rel, rxVars, appVars, stVars, timq, timeVars>>
  BY DEF IdManager
<1> USE <1>1 DEF portVars, lupVars, revVars, rxVars, appVars, stVars, timeVars
<1>2. freeIds \in Seq(Ids) /\ finIds \in Seq(Ids) /\ counter \in 0 .. MaxSessions
  BY TypesOf DEF SessionInv
<1>3. /\ freeIds' \in Seq(Ids) /\ finIds' \in Seq(Ids) /\ counter' \in 0 .. MaxSessions
      /\ Places'
  <2>0. \A i \in Ids : New(i)' = New(i) /\ Held(i)' = Held(i)
    BY DEF New, Held
  <2>1. CASE /\ finIds # <<>> /\ counter' = counter
             /\ freeIds' = Append(freeIds, Head(finIds)) /\ finIds' = Tail(finIds)
    <3> DEFINE x == Head(finIds)
    <3>1. x \in Ids /\ Fin(x)
      BY <1>2, <2>1, Tailed DEF Fin
    <3>2. ~Free(x)
      BY <3>1 DEF SessionInv, Places
    <3>3. /\ freeIds' \in Seq(Ids) /\ finIds' \in Seq(Ids)
      BY <1>2, <2>1
    <3>4. Once(freeIds') /\ Once(finIds') /\ \A k \in DOMAIN finIds' : finIds'[k] # x
      BY <1>2, <2>1, <3>1, <3>2, OnceAppend, OnceTail DEF SessionInv, Places, Free
    <3>5. \A i \in Ids : Free(i)' <=> Free(i) \/ i = x
      BY <1>2, <2>1, <3>1, Appended DEF Free
    <3>6. \A i \in Ids : Fin(i)' <=> Fin(i) /\ i # x
      <4>1. \A k \in DOMAIN finIds' : k + 1 \in DOMAIN finIds /\ finIds'[k] = finIds[k + 1]
        BY <1>2, <2>1, Tailed
      <4>2. \A k \in DOMAIN finIds : finIds[k] # x => k - 1 \in DOMAIN finIds' /\ finIds'[k - 1] = finIds[k]
        BY <1>2, <2>1, Tailed
      <4> QED
        BY <3>4, <4>1, <4>2 DEF Fin
    <3> HIDE DEF x
    <3> QED
      BY <1>2, <2>0, <2>1, <3>1, <3>2, <3>3, <3>4, <3>5, <3>6 DEF SessionInv, Places, Once
  <2>2. CASE /\ finIds' = finIds /\ counter < MaxSessions
             /\ freeIds' = Append(freeIds, counter) /\ counter' = counter + 1
    <3>1. counter \in Ids /\ counter \in Nat /\ \A i \in Ids : i \in Nat
      BY <1>2, <2>2, Consts DEF Ids
    <3>2. ~Free(counter) /\ ~Fin(counter) /\ ~New(counter) /\ ~Held(counter)
      BY <3>1 DEF SessionInv, Places
    <3>3. freeIds' \in Seq(Ids) /\ counter' \in 0 .. MaxSessions
      BY <1>2, <2>2, <3>1, Consts
    <3>4. Once(freeIds')
      BY <1>2, <2>2, <3>1, <3>2, OnceAppend DEF SessionInv, Places, Free
    <3>5. \A i \in Ids : Free(i)' <=> Free(i) \/ i = counter
      BY <1>2, <2>2, <3>1, Appended DEF Free
    <3>6. \A i \in Ids : Fin(i)' <=> Fin(i)
      BY <2>2 DEF Fin
    <3>7. \A i \in Ids : i < counter' <=> i < counter \/ i = counter
      BY <2>2, <3>1
    <3> QED
      BY <1>2, <2>0, <2>2, <3>1, <3>2, <3>3, <3>4, <3>5, <3>6, <3>7 DEF SessionInv, Places, Once
  <2> QED
    BY <2>1, <2>2 DEF IdManager
<1>4. TypeOK'
  BY <1>3, TypesOf, TypesNext DEF SessionInv
<1>5. Registers'
  BY DEF SessionInv, Registers
<1>6. Locks' /\ Queries' /\ Inserts' /\ Counted'
  BY LocksFrame, QueriesFrame, InsertsFrame, CountedFrame DEF SessionInv
<1>7. ReverseInv' /\ ReverseAgrees' /\ NoDeadSession'
  BY ReverseFrame, NoDeadFrame DEF SessionInv
<1> QED
  BY <1>3, <1>4, <1>5, <1>6, <1>7 DEF SessionInv

\* The records of the processes, and that None is none of them.
SlcRec == [st : {"LUP_RSP", "UPD_WAIT", "UPD_RSP"}, src : {"RX", "TX_APP"}, t : Tuple,
           create : BOOLEAN, id : Ids \cup {NoId}]
SegRec == [f : Flags, t : Tuple, id : Ids \cup {NoId, None}]

LEMMA NotNone ==
  /\ \A x \in SlcRec : x # None
  /\ \A x \in SegRec : x # None
  /\ \A x \in [st : {"new", "asked"}, t : Tuple] : x # None
  /\ \A x \in [f : Flags, id : Ids, st : States] : x # None
BY NoneAssumption DEF SlcRec, SegRec

\* A query that moves on in the lookup controller.
LEMMA SlcFields ==
  ASSUME SessionInv, slc # None
  PROVE  /\ slc \in SlcRec
         /\ slc.st \in {"LUP_RSP", "UPD_WAIT", "UPD_RSP"} /\ slc.src \in {"RX", "TX_APP"}
         /\ slc.t \in Tuple /\ slc.create \in BOOLEAN /\ slc.id \in Ids \cup {NoId}
BY DEF SessionInv, Registers, SlcRec

LEMMA LupReqStep ==
  ASSUME SessionInv, LupReq
  PROVE  SessionInv'
<1>1. UNCHANGED <<portVars, idVars, lookup, count, ins, del, revVars, rel, fsmq, fsm, appId, closing,
                  stVars, timq, timeVars>>
  BY DEF LupReq
<1> USE <1>1 DEF portVars, idVars, revVars, stVars, timeVars
<1>2. slc = None /\ mh' = mh
  BY DEF LupReq
<1>3. /\ slc' \in SlcRec /\ slc'.st = "LUP_RSP"
      /\ slc'.src = "RX" => mh # None /\ mh.id = None
      /\ slc'.src = "TX_APP" => appReq # None /\ appReq.st = "new" /\ appReq' = [appReq EXCEPT !.st = "asked"]
      /\ slc'.src # "TX_APP" => appReq' = appReq
  <2>1. CASE /\ appReq # None /\ appReq.st = "new" /\ appReq' = [appReq EXCEPT !.st = "asked"]
             /\ slc' = [st |-> "LUP_RSP", src |-> "TX_APP", t |-> appReq.t, create |-> TRUE, id |-> NoId]
    <3>1. appReq.t \in Tuple
      BY <2>1 DEF SessionInv, Registers
    <3> QED
      BY <2>1, <3>1 DEF SlcRec
  <2>2. CASE /\ mh # None /\ mh.id = None /\ appReq' = appReq
             /\ slc' = [st |-> "LUP_RSP", src |-> "RX", t |-> mh.t,
                        create |-> mh.f \in {"SYN", "SYN_ACK"}, id |-> NoId]
    <3>1. mh.t \in Tuple /\ (mh.f \in {"SYN", "SYN_ACK"}) \in BOOLEAN
      BY <2>2 DEF SessionInv, Registers
    <3> QED
      BY <2>2, <3>1 DEF SlcRec
  <2> QED
    BY <2>1, <2>2 DEF LupReq
<1>4. TypeOK'
  BY TypesOf, TypesNext DEF SessionInv
<1>5. /\ appReq' \in [st : {"new", "asked"}, t : Tuple] \cup {None}
      /\ slc'.src = "TX_APP" => appReq' # None /\ appReq'.st = "asked"
  <2>1. CASE slc'.src = "TX_APP"
    <3>1. appReq \in [st : {"new", "asked"}, t : Tuple]
      BY <1>3, <2>1 DEF SessionInv, Registers
    <3>2. appReq' \in [st : {"new", "asked"}, t : Tuple] /\ appReq'.st = "asked"
      BY <1>3, <2>1, <3>1
    <3> QED
      BY <3>2, NotNone
  <2>2. CASE slc'.src # "TX_APP"
    BY <1>3, <2>2 DEF SessionInv, Registers
  <2> QED
    BY <2>1, <2>2
<1>6. Registers'
  BY <1>2, <1>3, <1>5 DEF SessionInv, Registers, SlcRec
<1>7. Locks'
  BY LocksFrame DEF SessionInv
<1>8. Queries'
  <2>1. slc'.src = "TX_APP" => appId = None
    BY <1>3 DEF SessionInv, Queries
  <2>2. appId # None => appReq' = appReq
    BY <1>3, <2>1 DEF SlcRec
  <2> QED
    BY <1>2, <1>3, <1>5, <2>1, <2>2 DEF SessionInv, Queries
<1>9. Inserts'
  BY <1>2, <1>3 DEF SessionInv, Inserts
<1>10. Places' /\ Counted'
  BY PlacesFrame, CountedFrame DEF SessionInv
<1>11. ReverseInv' /\ ReverseAgrees'
  BY <1>2, <1>3 DEF SessionInv, ReverseInv, ReverseAgrees, Coming, ToRev, Leaving, OnceId
<1>12. NoDeadSession'
  BY <1>2 DEF SessionInv, NoDeadSession
<1> QED
  BY <1>4, <1>6, <1>7, <1>8, <1>9, <1>10, <1>11, <1>12 DEF SessionInv

\* The reply reaches the process that asked, and nobody else.
LEMMA Replied ==
  ASSUME SessionInv, slc # None, NEW id \in Ids \cup {NoId}, Reply(slc.src, id),
         slc' = None, UNCHANGED appReq
  PROVE  /\ mh' \in SegRec \cup {None} /\ appId' \in Ids \cup {NoId, None}
         /\ Queries'
         /\ \A i \in Ids : mh # None /\ mh.id = i => mh' # None /\ mh'.id = i
         /\ \A i \in Ids : appId = i => appId' = i
         /\ id \in Ids => appId' = id \/ (mh' # None /\ mh'.id = id)
<1>1. CASE slc.src = "RX"
  <2>1. mh # None /\ mh.id = None /\ mh \in SegRec
    BY <1>1 DEF SessionInv, Queries, Registers, SegRec
  <2>2. mh' = [mh EXCEPT !.id = id] /\ appId' = appId
    BY <1>1 DEF Reply
  <2>3. mh' \in SegRec /\ mh'.id = id
    BY <2>1, <2>2 DEF SegRec
  <2>4. mh' # None
    BY <2>3, NotNone
  <2>5. Queries'
    BY <2>2 DEF SessionInv, Queries
  <2>6. appId' \in Ids \cup {NoId, None}
    BY <2>2 DEF SessionInv, Registers
  <2> QED
    BY <2>1, <2>2, <2>3, <2>4, <2>5, <2>6, Consts
<1>2. CASE slc.src = "TX_APP"
  <2>1. appReq # None /\ appReq.st = "asked" /\ appId = None
    BY <1>2 DEF SessionInv, Queries
  <2>2. mh' = mh /\ appId' = id
    BY <1>2 DEF Reply
  <2>3. Queries'
    BY <2>1, <2>2 DEF SessionInv, Queries
  <2>4. mh' \in SegRec \cup {None}
    BY <2>2 DEF SessionInv, Registers, SegRec
  <2> QED
    BY <2>1, <2>2, <2>3, <2>4, Consts
<1> QED
  BY <1>1, <1>2, SlcFields

\* A new session: its ID leaves the free list with the insert.
LEMMA LupRspCreate ==
  ASSUME SessionInv, LupRsp, lookup[slc.t] = NoId, freeIds # <<>>,
         ins' = Append(ins, [t |-> slc.t, id |-> Head(freeIds)]), freeIds' = Tail(freeIds),
         slc' = [slc EXCEPT !.st = "UPD_WAIT"], UNCHANGED <<mh, appId>>
  PROVE  SessionInv'
<1>1. UNCHANGED <<portVars, counter, finIds, lookup, count, del, revVars, rel, fsmq, fsm, appReq, closing,
                  stVars, timq, timeVars>>
  BY DEF LupRsp
<1> USE <1>1 DEF portVars, revVars, stVars, timeVars
<1>2. slc # None /\ slc.st = "LUP_RSP" /\ slc.t \in Tuple /\ slc \in SlcRec
  BY SlcFields DEF LupRsp
<1>3. slc' \in SlcRec /\ slc'.st = "UPD_WAIT" /\ slc'.src = slc.src /\ slc'.t = slc.t
  BY <1>2 DEF SlcRec
<1>4. slc' # None
  BY <1>3, NotNone
<1> DEFINE x == Head(freeIds)
<1>5. freeIds \in Seq(Ids) /\ x \in Ids /\ freeIds' \in Seq(Ids)
  BY Tailed, TypesOf DEF SessionInv
<1>6. ins = <<>>
  BY <1>2 DEF SessionInv, Inserts
<1>7. ins' = <<[t |-> slc.t, id |-> x]>>
  BY <1>6
<1>8. ins' \in Seq([t : Tuple, id : Ids])
  <2> DEFINE T == [t : Tuple, id : Ids]
             e == [t |-> slc.t, id |-> x]
  <2>1. e \in T /\ ins' = <<e>>
    BY <1>2, <1>5, <1>7
  <2>2. ins' = Append(ins, e) /\ ins \in Seq(T)
    BY TypesOf DEF SessionInv
  <2> HIDE DEF T, e
  <2>3. ins' \in Seq(T)
    BY <2>1, <2>2, AppendProperties
  <2> QED
    BY <2>3 DEF T
<1>9. Inserts'
  BY <1>3, <1>4, <1>5, <1>7 DEF Inserts
<1>10. Places'
  <2>1. Once(freeIds) /\ Once(finIds) /\ \A t, u \in Tuple : lookup[t] # NoId /\ lookup[t] = lookup[u] => t = u
    BY DEF SessionInv, Places
  <2>2. Once(freeIds') /\ \A k \in DOMAIN freeIds' : freeIds'[k] # x
    BY <1>5, <2>1, OnceTail
  <2>3. \A k \in DOMAIN freeIds' : k + 1 \in DOMAIN freeIds /\ freeIds'[k] = freeIds[k + 1]
    BY <1>5, Tailed
  <2>4. \A k \in DOMAIN freeIds : freeIds[k] # x => k - 1 \in DOMAIN freeIds' /\ freeIds'[k - 1] = freeIds[k]
    BY <1>5, Tailed
  <2>6. Free(x)
    BY <1>5, Tailed DEF Free
  <2> HIDE DEF x
  <2>5. \A i \in Ids : Free(i)' <=> Free(i) /\ i # x
    <3>1. ASSUME NEW i \in Ids, Free(i)' PROVE Free(i) /\ i # x
      BY <2>2, <2>3, <3>1 DEF Free
    <3>2. ASSUME NEW i \in Ids, Free(i), i # x PROVE Free(i)'
      BY <2>4, <3>2 DEF Free
    <3> QED
      BY <3>1, <3>2
  <2>7. \A i \in Ids : ~New(i) /\ (New(i)' <=> i = x)
    BY <1>6, <1>7 DEF New
  <2>8. \A i \in Ids : (Held(i)' <=> Held(i)) /\ (Fin(i)' <=> Fin(i))
    BY DEF Held, Fin
  <2> QED
    BY <1>5, <2>1, <2>2, <2>5, <2>6, <2>7, <2>8 DEF SessionInv, Places, Once
<1>11. TypeOK'
  BY <1>5, <1>8, TypesOf, TypesNext DEF SessionInv
<1>12. Registers'
  BY <1>3 DEF SessionInv, Registers, SlcRec
<1>13. Locks' /\ Counted'
  BY LocksFrame, CountedFrame DEF SessionInv
<1>14. Queries'
  BY <1>2, <1>3 DEF SessionInv, Queries
<1>15. ReverseInv' /\ ReverseAgrees'
  BY <1>2, <1>3 DEF SessionInv, ReverseInv, ReverseAgrees, Coming, ToRev, Leaving, OnceId
<1>16. NoDeadSession'
  BY <1>2, <1>3 DEF SessionInv, NoDeadSession
<1> QED
  BY <1>9, <1>10, <1>11, <1>12, <1>13, <1>14, <1>15, <1>16 DEF SessionInv

LEMMA LupRspStep ==
  ASSUME SessionInv, LupRsp
  PROVE  SessionInv'
<1>1. CASE /\ lookup[slc.t] = NoId /\ freeIds # <<>>
           /\ ins' = Append(ins, [t |-> slc.t, id |-> Head(freeIds)]) /\ freeIds' = Tail(freeIds)
           /\ slc' = [slc EXCEPT !.st = "UPD_WAIT"] /\ UNCHANGED <<mh, appId>>
  BY <1>1, LupRspCreate
<1>2. CASE Reply(slc.src, lookup[slc.t]) /\ slc' = None /\ UNCHANGED <<ins, freeIds>>
  <2>1. UNCHANGED <<portVars, counter, finIds, lookup, count, del, revVars, rel, fsmq, fsm, appReq,
                    closing, stVars, timq, timeVars, ins, freeIds>>
    BY <1>2 DEF LupRsp
  <2> USE <2>1 DEF portVars, revVars, stVars, timeVars
  <2>2. slc # None /\ slc.st = "LUP_RSP" /\ slc.t \in Tuple /\ slc' = None
    BY <1>2, SlcFields DEF LupRsp
  <2>3. lookup[slc.t] \in Ids \cup {NoId}
    BY <2>2, TypesOf DEF SessionInv
  <2>4. /\ mh' \in SegRec \cup {None} /\ appId' \in Ids \cup {NoId, None}
        /\ Queries'
        /\ \A i \in Ids : mh # None /\ mh.id = i => mh' # None /\ mh'.id = i
        /\ \A i \in Ids : appId = i => appId' = i
    BY <1>2, <2>2, <2>3, Replied
  <2>5. TypeOK'
    BY TypesOf, TypesNext DEF SessionInv
  <2>6. Registers'
    BY <2>2, <2>4 DEF SessionInv, Registers, SegRec
  <2>7. Locks' /\ Places' /\ Counted'
    BY LocksFrame, PlacesFrame, CountedFrame DEF SessionInv
  <2>8. Inserts'
    BY <2>2 DEF SessionInv, Inserts
  <2>9. ReverseInv' /\ ReverseAgrees'
    BY <2>2 DEF SessionInv, ReverseInv, ReverseAgrees, Coming, ToRev, Leaving, OnceId
  <2>10. NoDeadSession'
    BY <2>2, <2>4 DEF SessionInv, NoDeadSession
  <2> QED
    BY <2>4, <2>5, <2>6, <2>7, <2>8, <2>9, <2>10 DEF SessionInv
<1> QED
  BY <1>1, <1>2 DEF LupRsp

LEMMA UpdRspStep ==
  ASSUME SessionInv, UpdRsp
  PROVE  SessionInv'
<1>1. UNCHANGED <<portVars, idVars, lookup, count, ins, del, rev, valid, rel, fsmq, fsm, appReq, closing,
                  stVars, timq, timeVars>>
  BY DEF UpdRsp
<1> USE <1>1 DEF portVars, idVars, stVars, timeVars
<1>2. slc # None /\ slc.st = "UPD_RSP" /\ slc.t \in Tuple /\ slc' = None
  BY SlcFields DEF UpdRsp
<1> DEFINE x == slc.id
           e == [t |-> slc.t, id |-> x]
<1>3. x \in Ids /\ lookup[slc.t] = x
  BY <1>2 DEF SessionInv, ReverseInv
<1>4. revIns \in Seq([t : Tuple, id : Ids]) /\ e \in [t : Tuple, id : Ids] /\ revIns' = Append(revIns, e)
  BY <1>2, <1>3, TypesOf DEF SessionInv, UpdRsp
<1>5. /\ mh' \in SegRec \cup {None} /\ appId' \in Ids \cup {NoId, None}
      /\ Queries'
      /\ \A i \in Ids : mh # None /\ mh.id = i => mh' # None /\ mh'.id = i
      /\ \A i \in Ids : appId = i => appId' = i
      /\ appId' = x \/ (mh' # None /\ mh'.id = x)
  BY <1>2, <1>3, Replied DEF UpdRsp
<1>6. e.t = slc.t /\ e.id = x
  OBVIOUS
<1> HIDE DEF e
<1>7. /\ revIns' \in Seq([t : Tuple, id : Ids])
      /\ DOMAIN revIns' = DOMAIN revIns \cup {Len(revIns) + 1}
      /\ Len(revIns) + 1 \notin DOMAIN revIns
      /\ revIns'[Len(revIns) + 1] = e
      /\ \A k \in DOMAIN revIns : revIns'[k] = revIns[k]
  BY <1>4, Appended
<1> HIDE DEF x
<1>8. TypeOK'
  BY <1>7, TypesOf, TypesNext DEF SessionInv
<1>9. Registers'
  BY <1>2, <1>5 DEF SessionInv, Registers, SegRec
<1>10. Locks' /\ Places' /\ Counted'
  BY LocksFrame, PlacesFrame, CountedFrame DEF SessionInv
<1>11. Inserts'
  BY <1>2 DEF SessionInv, Inserts
<1>12. Coming(x) /\ ~ToRev(x) /\ ~Leaving(x) /\ ~valid[x]
  BY <1>2, <1>3 DEF Coming, SessionInv, ReverseInv, x
<1>13. ReverseInv'
  <2>1. \A i \in Ids : ToRev(i)' <=> ToRev(i) \/ i = x
    BY <1>6, <1>7 DEF ToRev
  <2>2. \A i \in Ids : ~Coming(i)' /\ (Leaving(i)' <=> Leaving(i))
    BY <1>2 DEF Coming, Leaving
  <2>3. OnceId(revIns') /\ OnceId(del')
    BY <1>6, <1>7, <1>12 DEF SessionInv, ReverseInv, OnceId, ToRev
  <2>4. \A k \in DOMAIN revIns' : lookup[revIns'[k].t] = revIns'[k].id
    BY <1>3, <1>6, <1>7 DEF SessionInv, ReverseInv
  <2> QED
    BY <1>2, <1>12, <2>1, <2>2, <2>3, <2>4 DEF SessionInv, ReverseInv, OnceId
<1>14. ReverseAgrees'
  <2> SUFFICES ASSUME NEW t \in Tuple, NEW i \in Ids, lookup[t] = i
               PROVE  \/ valid[i] /\ rev[i] = t
                      \/ \E k \in DOMAIN revIns' : revIns'[k] = [t |-> t, id |-> i]
                      \/ \E k \in DOMAIN del : del[k] = [t |-> t, id |-> i]
    BY <1>2 DEF ReverseAgrees
  <2>1. CASE slc.t = t /\ slc.id = i
    BY <1>7, <2>1 DEF e, x
  <2>2. CASE ~(slc.t = t /\ slc.id = i)
    BY <1>7, <2>2 DEF SessionInv, ReverseAgrees
  <2> QED
    BY <2>1, <2>2
<1>15. NoDeadSession'
  BY <1>2, <1>5 DEF SessionInv, NoDeadSession, x
<1> QED
  BY <1>5, <1>8, <1>9, <1>10, <1>11, <1>13, <1>14, <1>15 DEF SessionInv

LEMMA PairFields ==
  ASSUME NEW q \in Seq([t : Tuple, id : Ids]), NEW k \in DOMAIN q
  PROVE  q[k] \in [t : Tuple, id : Ids] /\ q[k].t \in Tuple /\ q[k].id \in Ids
<1>1. q[k] \in [t : Tuple, id : Ids]
  BY LenProperties, ElementOfSeq
<1> QED
  BY <1>1

\* No more tuples are entered than there are IDs.
LEMMA EnteredBounded ==
  ASSUME IsFiniteSet(Entered), lookup \in [Tuple -> Ids \cup {NoId}], Places
  PROVE  Cardinality(Entered) \in 0 .. MaxSessions
<1> DEFINE g == [t \in Entered |-> lookup[t]]
<1>1. g \in Injection(Entered, Ids)
  BY DEF Entered, Places, Injection, IsInjective
<1>2. IsFiniteSet(Ids) /\ Cardinality(Ids) = MaxSessions
  BY Consts, FS_Interval DEF Ids
<1>3. Cardinality(Entered) <= Cardinality(Ids)
  BY <1>1, <1>2, FS_Injection
<1>4. Cardinality(Entered) \in Nat
  BY FS_CardinalityType
<1> QED
  BY <1>2, <1>3, <1>4, Consts

LEMMA InsertStep ==
  ASSUME SessionInv, UpdateSender, ins # <<>>,
         lookup' = RtlInsert(Head(ins).t, Head(ins).id),
         slc' = [slc EXCEPT !.st = "UPD_RSP", !.id = Head(ins).id],
         ins' = Tail(ins), count' = count + 1, UNCHANGED <<del, finIds>>
  PROVE  SessionInv'
<1>1. UNCHANGED <<portVars, counter, freeIds, revVars, rel, rxVars, appVars, stVars, timq, timeVars, del, finIds>>
  BY DEF UpdateSender
<1> USE <1>1 DEF portVars, revVars, rxVars, appVars, stVars, timeVars
<1>2. slc # None /\ slc.st = "UPD_WAIT" /\ lookup[slc.t] = NoId /\ slc.t \in Tuple /\ slc \in SlcRec
  BY SlcFields DEF SessionInv, Inserts
<1>3. PICK x \in Ids : ins = <<[t |-> slc.t, id |-> x]>>
  BY <1>2 DEF SessionInv, Inserts
<1>4. Head(ins).t = slc.t /\ Head(ins).id = x /\ ins' = <<>>
  BY <1>3
<1>5. slc' \in SlcRec /\ slc'.st = "UPD_RSP" /\ slc'.src = slc.src /\ slc'.t = slc.t /\ slc'.id = x
  BY <1>2, <1>4 DEF SlcRec
<1>6. slc' # None
  BY <1>5, NotNone
<1>7. /\ lookup \in [Tuple -> Ids \cup {NoId}] /\ lookup' = [lookup EXCEPT ![slc.t] = x]
      /\ lookup' \in [Tuple -> Ids \cup {NoId}]
  BY <1>2, <1>4, TypesOf DEF SessionInv, RtlInsert
<1>8. New(x) /\ x # NoId
  BY <1>3, Consts DEF New
<1>9. \A i \in Ids : New(i) <=> i = x
  BY <1>3 DEF New
<1>10. Places'
  <2>1. \A i \in Ids : ~New(i)'
    BY <1>4 DEF New
  <2>2. \A i \in Ids : Held(i)' <=> Held(i) \/ i = x
    BY <1>2, <1>7, <1>8, Consts DEF Held
  <2>3. \A i \in Ids : (Free(i)' <=> Free(i)) /\ (Fin(i)' <=> Fin(i))
    BY DEF Free, Fin
  <2>4. ~Held(x)
    BY <1>8 DEF SessionInv, Places
  <2>5. \A t, u \in Tuple : lookup'[t] # NoId /\ lookup'[t] = lookup'[u] => t = u
    BY <1>7, <2>4 DEF Held, SessionInv, Places
  <2> QED
    BY <1>9, <2>1, <2>2, <2>3, <2>5 DEF SessionInv, Places, Once
<1>11. Counted'
  <2>1. Entered' = Entered \cup {slc.t} /\ slc.t \notin Entered
    BY <1>2, <1>7, <1>8 DEF Entered
  <2>2. IsFiniteSet(Entered) /\ count = Cardinality(Entered)
    BY DEF SessionInv, Counted
  <2>3. IsFiniteSet(Entered') /\ Cardinality(Entered') = Cardinality(Entered) + 1
    BY <2>1, <2>2, FS_AddElement
  <2> QED
    BY <2>2, <2>3 DEF Counted
<1>12. TypeOK'
  <2>1. count' \in 0 .. MaxSessions
    <3>1. (IsFiniteSet(Entered) /\ lookup \in [Tuple -> Ids \cup {NoId}] /\ Places
             => Cardinality(Entered) \in 0 .. MaxSessions)'
      BY EnteredBounded, PTL
    <3> QED
      BY <1>7, <1>10, <1>11, <3>1 DEF Counted
  <2>2. ins' \in Seq([t : Tuple, id : Ids])
    BY <1>4, EmptySeq
  <2> QED
    BY <1>7, <2>1, <2>2, TypesOf, TypesNext DEF SessionInv
<1>13. Registers'
  BY <1>5 DEF SessionInv, Registers, SlcRec
<1>14. Locks'
  BY LocksFrame DEF SessionInv
<1>15. Queries'
  BY <1>2, <1>5 DEF SessionInv, Queries
<1>16. Inserts'
  BY <1>4, <1>5 DEF Inserts
<1>17. \A t \in Tuple : lookup[t] # NoId => lookup'[t] = lookup[t] /\ lookup[t] # x
  <2>1. ~Held(x)
    BY <1>8 DEF SessionInv, Places
  <2> QED
    BY <1>2, <1>7, <2>1 DEF Held
<1>18. ~ToRev(x) /\ ~Leaving(x) /\ ~valid[x]
  <2>1. ASSUME NEW k \in DOMAIN revIns PROVE revIns[k].id # x
    <3>1. revIns[k].t \in Tuple /\ revIns[k].id \in Ids
      BY TypesOf, PairFields DEF SessionInv
    <3> QED
      BY <1>17, <3>1, Consts DEF SessionInv, ReverseInv
  <2>2. ASSUME NEW k \in DOMAIN del PROVE del[k].id # x
    <3>1. del[k].t \in Tuple /\ del[k].id \in Ids
      BY TypesOf, PairFields DEF SessionInv
    <3> QED
      BY <1>17, <3>1, Consts DEF SessionInv, ReverseInv
  <2>3. ~valid[x]
    BY <1>17, Consts DEF SessionInv, ReverseInv
  <2> QED
    BY <2>1, <2>2, <2>3 DEF ToRev, Leaving
<1>19. ReverseInv'
  <2>1. \A k \in DOMAIN revIns : lookup'[revIns[k].t] = revIns[k].id
    <3>1. \A k \in DOMAIN revIns : revIns[k].t \in Tuple /\ revIns[k].id \in Ids
      BY TypesOf, PairFields DEF SessionInv
    <3> QED
      BY <1>17, <3>1, Consts DEF SessionInv, ReverseInv
  <2>2. \A k \in DOMAIN del : lookup'[del[k].t] = del[k].id
    <3>1. \A k \in DOMAIN del : del[k].t \in Tuple /\ del[k].id \in Ids
      BY TypesOf, PairFields DEF SessionInv
    <3> QED
      BY <1>17, <3>1, Consts DEF SessionInv, ReverseInv
  <2>3. \A i \in Ids : valid[i] => rev[i] \in Tuple /\ lookup'[rev[i]] = i
    BY <1>17, Consts DEF SessionInv, ReverseInv
  <2>4. \A i \in Ids : (Coming(i)' <=> i = x) /\ (ToRev(i)' <=> ToRev(i)) /\ (Leaving(i)' <=> Leaving(i))
    BY <1>5, <1>6 DEF Coming, ToRev, Leaving
  <2>5. lookup'[slc.t] = x
    BY <1>2, <1>7
  <2> QED
    BY <1>5, <1>18, <2>1, <2>2, <2>3, <2>4, <2>5 DEF SessionInv, ReverseInv, OnceId
<1>20. ReverseAgrees'
  <2> SUFFICES ASSUME NEW t \in Tuple, NEW i \in Ids, lookup'[t] = i
               PROVE  \/ valid[i] /\ rev[i] = t
                      \/ slc' # None /\ slc'.st = "UPD_RSP" /\ slc'.t = t /\ slc'.id = i
                      \/ \E k \in DOMAIN revIns : revIns[k] = [t |-> t, id |-> i]
                      \/ \E k \in DOMAIN del : del[k] = [t |-> t, id |-> i]
    BY DEF ReverseAgrees
  <2>1. CASE t = slc.t
    BY <1>2, <1>5, <1>6, <1>7, <2>1
  <2>2. CASE t # slc.t
    <3>1. lookup[t] = i
      BY <1>7, <2>2
    <3> QED
      BY <1>2, <3>1 DEF SessionInv, ReverseAgrees
  <2> QED
    BY <2>1, <2>2
<1>21. NoDeadSession'
  <2> SUFFICES ASSUME NEW t \in Tuple, NEW i \in Ids, lookup'[t] = i, state[i] = "CLOSED", i # x
               PROVE  \/ i = appId \/ (mh # None /\ mh.id = i) \/ (fsm # None /\ fsm.id = i)
                      \/ \E k \in DOMAIN fsmq : fsmq[k].id = i
                      \/ \E k \in DOMAIN rel : rel[k] = i
                      \/ \E k \in DOMAIN del : del[k].id = i
    BY <1>5, <1>6 DEF NoDeadSession
  <2>1. lookup[t] = i
    BY <1>2, <1>7
  <2> QED
    BY <1>2, <2>1 DEF SessionInv, NoDeadSession
<1> QED
  BY <1>10, <1>11, <1>12, <1>13, <1>14, <1>15, <1>16, <1>19, <1>20, <1>21 DEF SessionInv

\* updateRequestSender takes a delete.
Deletes ==
  /\ ins = <<>> /\ del # <<>>
  /\ lookup' = RtlDelete(Head(del).t) /\ finIds' = Append(finIds, Head(del).id)
  /\ del' = Tail(del) /\ count' = count - 1 /\ UNCHANGED <<ins, slc>>

LEMMA DeleteStep ==
  ASSUME SessionInv, UpdateSender, Deletes
  PROVE  SessionInv'
<1>1. UNCHANGED <<portVars, counter, freeIds, revVars, rel, rxVars, appVars, stVars, timq, timeVars, ins, slc>>
  BY DEF UpdateSender, Deletes
<1> USE <1>1 DEF portVars, revVars, rxVars, appVars, stVars, timeVars
<1> DEFINE h == Head(del)
           x == h.id
           u == h.t
<1>2. del \in Seq([t : Tuple, id : Ids]) /\ finIds \in Seq(Ids)
  BY TypesOf DEF SessionInv
<1>3. /\ h = del[1] /\ 1 \in DOMAIN del /\ del' \in Seq([t : Tuple, id : Ids])
      /\ \A k \in DOMAIN del' : k + 1 \in DOMAIN del /\ k + 1 # 1 /\ del'[k] = del[k + 1]
      /\ \A k \in DOMAIN del : k # 1 => k - 1 \in DOMAIN del' /\ del'[k - 1] = del[k]
      /\ \A j, k \in DOMAIN del' : j + 1 = k + 1 => j = k
  BY <1>2, Tailed DEF Deletes
<1> HIDE DEF h
<1>4. u \in Tuple /\ x \in Ids /\ lookup[u] = x /\ Leaving(x)
  BY <1>2, <1>3, PairFields DEF SessionInv, ReverseInv, Leaving
<1>5. \A k \in DOMAIN del' : del'[k].id # x
  BY <1>3 DEF SessionInv, ReverseInv, OnceId
<1>6. finIds' = Append(finIds, x) /\ lookup' = [lookup EXCEPT ![u] = NoId]
  BY DEF h, RtlDelete, Deletes
<1> HIDE DEF x, u
<1>7. /\ lookup \in [Tuple -> Ids \cup {NoId}] /\ lookup' \in [Tuple -> Ids \cup {NoId}]
      /\ \A t \in Tuple : lookup'[t] = IF t = u THEN NoId ELSE lookup[t]
  BY <1>4, <1>6, TypesOf DEF SessionInv
<1>8. finIds' \in Seq(Ids)
  BY <1>2, <1>4, <1>6
<1>9. Held(x) /\ ~Fin(x) /\ x # NoId
  BY <1>4, Consts DEF Held, SessionInv, Places
<1>10. \A t \in Tuple : lookup[t] = x => t = u
  BY <1>4, <1>9 DEF SessionInv, Places
<1>11. Places'
  <2>1. \A i \in Ids : Held(i)' <=> Held(i) /\ i # x
    BY <1>4, <1>7, <1>10, Consts DEF Held
  <2>2. \A i \in Ids : Fin(i)' <=> Fin(i) \/ i = x
    BY <1>2, <1>4, <1>6, Appended DEF Fin
  <2>3. \A i \in Ids : (Free(i)' <=> Free(i)) /\ (New(i)' <=> New(i))
    BY DEF Free, New
  <2>4. Once(finIds')
    BY <1>2, <1>4, <1>6, <1>9, OnceAppend DEF Fin, SessionInv, Places
  <2>5. \A t, v \in Tuple : lookup'[t] # NoId /\ lookup'[t] = lookup'[v] => t = v
    BY <1>7 DEF SessionInv, Places
  <2> QED
    BY <1>4, <1>9, <2>1, <2>2, <2>3, <2>4, <2>5 DEF SessionInv, Places, Once
<1>12. Counted'
  <2>1. Entered' = Entered \ {u} /\ u \in Entered
    BY <1>4, <1>7, <1>9 DEF Entered
  <2>2. IsFiniteSet(Entered) /\ count = Cardinality(Entered)
    BY DEF SessionInv, Counted
  <2>3. IsFiniteSet(Entered') /\ Cardinality(Entered') = Cardinality(Entered) - 1
    BY <2>1, <2>2, FS_RemoveElement
  <2> QED
    BY <2>2, <2>3 DEF Counted, Deletes
<1>13. TypeOK'
  <2>1. count' \in 0 .. MaxSessions
    <3>1. (IsFiniteSet(Entered) /\ lookup \in [Tuple -> Ids \cup {NoId}] /\ Places
             => Cardinality(Entered) \in 0 .. MaxSessions)'
      BY EnteredBounded, PTL
    <3> QED
      BY <1>7, <1>11, <1>12, <3>1 DEF Counted
  <2> QED
    BY <1>3, <1>7, <1>8, <2>1, TypesOf, TypesNext DEF SessionInv
<1>14. Registers'
  BY DEF SessionInv, Registers
<1>15. Locks' /\ Queries'
  BY LocksFrame, QueriesFrame DEF SessionInv
<1>16. Inserts'
  <2>1. ~(slc # None /\ slc.st = "UPD_WAIT")
    BY DEF SessionInv, Inserts, Deletes
  <2> QED
    BY <2>1 DEF Inserts, SessionInv
<1>17. \A t \in Tuple : lookup[t] \in Ids /\ lookup[t] # x => lookup'[t] = lookup[t]
  BY <1>4, <1>7
<1>18. ~ToRev(x) /\ ~valid[x] /\ ~Coming(x)
  BY <1>4 DEF SessionInv, ReverseInv
<1>19. ReverseInv'
  <2>1. \A k \in DOMAIN revIns : lookup'[revIns[k].t] = revIns[k].id
    <3>1. \A k \in DOMAIN revIns : revIns[k].t \in Tuple /\ revIns[k].id \in Ids /\ revIns[k].id # x
      BY <1>18, TypesOf, PairFields DEF SessionInv, ToRev
    <3> QED
      BY <1>17, <3>1 DEF SessionInv, ReverseInv
  <2>2. \A k \in DOMAIN del' : lookup'[del'[k].t] = del'[k].id
    <3>1. \A k \in DOMAIN del' : del'[k].t \in Tuple /\ del'[k].id \in Ids
      BY <1>3, PairFields
    <3>2. \A k \in DOMAIN del' : lookup[del'[k].t] = del'[k].id
      BY <1>3 DEF SessionInv, ReverseInv
    <3> QED
      BY <1>5, <1>17, <3>1, <3>2
  <2>3. \A i \in Ids : valid[i] => rev[i] \in Tuple /\ lookup'[rev[i]] = i
    BY <1>17, <1>18 DEF SessionInv, ReverseInv
  <2>4. \A i \in Ids : Leaving(i)' => Leaving(i)
    BY <1>3 DEF Leaving
  <2>5. \A i \in Ids : (Coming(i)' <=> Coming(i)) /\ (ToRev(i)' <=> ToRev(i))
    BY DEF Coming, ToRev
  <2>6. slc # None /\ slc.st = "UPD_RSP" => slc.id \in Ids /\ lookup'[slc.t] = slc.id
    BY <1>17, <1>18, SlcFields DEF SessionInv, ReverseInv, Coming
  <2>7. OnceId(del')
    BY <1>3 DEF SessionInv, ReverseInv, OnceId
  <2> QED
    BY <2>1, <2>2, <2>3, <2>4, <2>5, <2>6, <2>7 DEF SessionInv, ReverseInv, OnceId
<1>20. ReverseAgrees'
  <2> SUFFICES ASSUME NEW t \in Tuple, NEW i \in Ids, lookup'[t] = i
               PROVE  \/ valid[i] /\ rev[i] = t
                      \/ slc # None /\ slc.st = "UPD_RSP" /\ slc.t = t /\ slc.id = i
                      \/ \E k \in DOMAIN revIns : revIns[k] = [t |-> t, id |-> i]
                      \/ \E k \in DOMAIN del' : del'[k] = [t |-> t, id |-> i]
    BY DEF ReverseAgrees
  <2>1. lookup[t] = i /\ t # u
    BY <1>7, Consts
  <2>2. ASSUME NEW k \in DOMAIN del, del[k] = [t |-> t, id |-> i]
        PROVE  \E j \in DOMAIN del' : del'[j] = [t |-> t, id |-> i]
    <3>1. k # 1
      BY <1>3, <2>1, <2>2 DEF u
    <3> QED
      BY <1>3, <2>2, <3>1
  <2> QED
    BY <2>1, <2>2 DEF SessionInv, ReverseAgrees
<1>21. NoDeadSession'
  <2> SUFFICES ASSUME NEW t \in Tuple, NEW i \in Ids, lookup'[t] = i, state[i] = "CLOSED"
               PROVE  \/ slc # None /\ slc.st = "UPD_RSP" /\ slc.id = i
                      \/ i = appId \/ (mh # None /\ mh.id = i) \/ (fsm # None /\ fsm.id = i)
                      \/ \E k \in DOMAIN fsmq : fsmq[k].id = i
                      \/ \E k \in DOMAIN rel : rel[k] = i
                      \/ \E k \in DOMAIN del' : del'[k].id = i
    BY DEF NoDeadSession
  <2>1. lookup[t] = i /\ i # x
    BY <1>7, <1>10, Consts
  <2>2. ASSUME NEW k \in DOMAIN del, del[k].id = i
        PROVE  \E j \in DOMAIN del' : del'[j].id = i
    <3>1. k # 1
      BY <1>3, <2>1, <2>2 DEF x
    <3> QED
      BY <1>3, <2>2, <3>1
  <2> QED
    BY <2>1, <2>2 DEF SessionInv, NoDeadSession
<1> QED
  BY <1>11, <1>12, <1>13, <1>14, <1>15, <1>16, <1>19, <1>20, <1>21 DEF SessionInv

LEMMA UpdateSenderStep ==
  ASSUME SessionInv, UpdateSender
  PROVE  SessionInv'
BY InsertStep, DeleteStep DEF UpdateSender, Deletes

LEMMA RevInsertStep ==
  ASSUME SessionInv, RevInsert
  PROVE  SessionInv'
<1>1. UNCHANGED <<portVars, idVars, lupVars, rel, rxVars, appVars, stVars, timq, timeVars>>
  BY DEF RevInsert
<1> USE <1>1 DEF portVars, idVars, lupVars, rxVars, appVars, stVars, timeVars
<1> DEFINE h == Head(revIns)
           x == h.id
           u == h.t
<1>2. revIns \in Seq([t : Tuple, id : Ids]) /\ revIns # <<>>
  BY TypesOf DEF SessionInv, RevInsert
<1>3. /\ h = revIns[1] /\ 1 \in DOMAIN revIns /\ revIns' \in Seq([t : Tuple, id : Ids])
      /\ \A k \in DOMAIN revIns' : k + 1 \in DOMAIN revIns /\ k + 1 # 1 /\ revIns'[k] = revIns[k + 1]
      /\ \A k \in DOMAIN revIns : k # 1 => k - 1 \in DOMAIN revIns' /\ revIns'[k - 1] = revIns[k]
      /\ \A j, k \in DOMAIN revIns' : j + 1 = k + 1 => j = k
  BY <1>2, Tailed DEF RevInsert
<1>4. rev' = [rev EXCEPT ![x] = u] /\ valid' = [valid EXCEPT ![x] = TRUE]
  BY DEF RevInsert
<1> HIDE DEF h
<1>5. u \in Tuple /\ x \in Ids /\ lookup[u] = x /\ ToRev(x)
  BY <1>2, <1>3, PairFields DEF SessionInv, ReverseInv, ToRev
<1>6. \A k \in DOMAIN revIns' : revIns'[k].id # x
  BY <1>3 DEF SessionInv, ReverseInv, OnceId
<1> HIDE DEF x, u
<1>7. /\ rev' \in [Ids -> Tuple \cup {None}] /\ valid' \in [Ids -> BOOLEAN]
      /\ \A i \in Ids : rev'[i] = IF i = x THEN u ELSE rev[i]
      /\ \A i \in Ids : valid'[i] <=> valid[i] \/ i = x
  BY <1>4, <1>5, TypesOf DEF SessionInv
<1>8. TypeOK'
  BY <1>3, <1>7, TypesOf, TypesNext DEF SessionInv
<1>9. Registers'
  BY DEF SessionInv, Registers
<1>10. Locks' /\ Queries' /\ Inserts' /\ Places' /\ Counted' /\ NoDeadSession'
  BY LocksFrame, QueriesFrame, InsertsFrame, PlacesFrame, CountedFrame, NoDeadFrame DEF SessionInv
<1>11. ReverseInv'
  <2>1. \A k \in DOMAIN revIns' : lookup[revIns'[k].t] = revIns'[k].id
    BY <1>3 DEF SessionInv, ReverseInv
  <2>2. \A i \in Ids : valid'[i] => rev'[i] \in Tuple /\ lookup[rev'[i]] = i
    BY <1>5, <1>7 DEF SessionInv, ReverseInv
  <2>3. \A i \in Ids : ToRev(i)' => ToRev(i) /\ i # x
    BY <1>3, <1>6 DEF ToRev
  <2>4. \A i \in Ids : (Coming(i)' <=> Coming(i)) /\ (Leaving(i)' <=> Leaving(i))
    BY DEF Coming, Leaving
  <2>5. OnceId(revIns')
    BY <1>3 DEF SessionInv, ReverseInv, OnceId
  <2>6. OnceId(del')
    BY DEF SessionInv, ReverseInv, OnceId
  <2>7. ASSUME NEW i \in Ids
        PROVE  /\ ~(Coming(i)' /\ ToRev(i)') /\ ~(Coming(i)' /\ Leaving(i)') /\ ~(Coming(i)' /\ valid'[i])
               /\ ~(ToRev(i)' /\ Leaving(i)') /\ ~(ToRev(i)' /\ valid'[i]) /\ ~(Leaving(i)' /\ valid'[i])
    BY <1>5, <1>7, <2>3, <2>4 DEF SessionInv, ReverseInv
  <2>8. /\ slc' # None /\ slc'.st = "UPD_RSP" => slc'.id \in Ids /\ lookup'[slc'.t] = slc'.id
        /\ \A k \in DOMAIN del' : lookup'[del'[k].t] = del'[k].id
    BY DEF SessionInv, ReverseInv
  <2> QED
    BY <2>1, <2>2, <2>5, <2>6, <2>7, <2>8 DEF ReverseInv
<1>12. ReverseAgrees'
  <2> SUFFICES ASSUME NEW t \in Tuple, NEW i \in Ids, lookup[t] = i
               PROVE  \/ valid'[i] /\ rev'[i] = t
                      \/ slc # None /\ slc.st = "UPD_RSP" /\ slc.t = t /\ slc.id = i
                      \/ \E k \in DOMAIN revIns' : revIns'[k] = [t |-> t, id |-> i]
                      \/ \E k \in DOMAIN del : del[k] = [t |-> t, id |-> i]
    BY DEF ReverseAgrees
  <2>1. CASE i = x
    <3>1. t = u
      BY <1>5, <2>1, Consts DEF SessionInv, Places
    <3> QED
      BY <1>7, <2>1, <3>1
  <2>2. CASE i # x
    <3>1. ASSUME NEW k \in DOMAIN revIns, revIns[k] = [t |-> t, id |-> i]
          PROVE  \E j \in DOMAIN revIns' : revIns'[j] = [t |-> t, id |-> i]
      <4>1. k # 1
        BY <1>3, <2>2, <3>1 DEF x
      <4> QED
        BY <1>3, <3>1, <4>1
    <3>2. valid[i] /\ rev[i] = t => valid'[i] /\ rev'[i] = t
      BY <1>7, <2>2
    <3> QED
      BY <3>1, <3>2 DEF SessionInv, ReverseAgrees
  <2> QED
    BY <2>1, <2>2
<1> QED
  BY <1>8, <1>9, <1>10, <1>11, <1>12 DEF SessionInv

\* A release: the session is deleted if it is in the reverse table.
LEMMA RevReleaseStep ==
  ASSUME SessionInv, RevRelease
  PROVE  SessionInv'
<1>1. UNCHANGED <<listening, portq, idVars, lookup, count, slc, ins, revIns, rev, rxVars, appVars, stVars,
                  timq, timeVars>>
  BY DEF RevRelease
<1> USE <1>1 DEF idVars, rxVars, appVars, stVars, timeVars
<1> DEFINE x == Head(rel)
<1>2. rel \in Seq(Ids) /\ rel # <<>> /\ revIns = <<>> /\ del \in Seq([t : Tuple, id : Ids])
  BY TypesOf DEF SessionInv, RevRelease, RevFirst
<1>3. /\ x \in Ids /\ rel' \in Seq(Ids)
      /\ \A k \in DOMAIN rel : rel[k] # x => k - 1 \in DOMAIN rel' /\ rel'[k - 1] = rel[k]
  BY <1>2, Tailed DEF RevRelease
<1>4. /\ valid' = [valid EXCEPT ![x] = FALSE]
      /\ valid[x] => del' = Append(del, [t |-> rev[x], id |-> x]) /\ ReleasePort(rev[x].port)
      /\ ~valid[x] => UNCHANGED <<del, used>>
  BY DEF RevRelease, Releasable
<1> HIDE DEF x
<1>5. valid' \in [Ids -> BOOLEAN] /\ \A i \in Ids : valid'[i] <=> valid[i] /\ i # x
  BY <1>3, <1>4, TypesOf DEF SessionInv
<1>6. used' \subseteq Port
  BY <1>4, TypesOf DEF SessionInv, ReleasePort
<1>7. valid[x] => rev[x] \in Tuple /\ lookup[rev[x]] = x
  BY <1>3 DEF SessionInv, ReverseInv
<1> DEFINE e == [t |-> rev[x], id |-> x]
<1>8. valid[x] => e \in [t : Tuple, id : Ids]
  BY <1>3, <1>7
<1>9. e.t = rev[x] /\ e.id = x
  OBVIOUS
<1>10. valid[x] => del' = Append(del, e)
  BY <1>4
<1> HIDE DEF e
<1>11. valid[x] => /\ del' \in Seq([t : Tuple, id : Ids])
                   /\ DOMAIN del' = DOMAIN del \cup {Len(del) + 1}
                   /\ Len(del) + 1 \notin DOMAIN del
                   /\ del'[Len(del) + 1] = e
                   /\ \A k \in DOMAIN del : del'[k] = del[k]
  <2> DEFINE T == [t : Tuple, id : Ids]
  <2>1. del \in Seq(T) /\ (valid[x] => e \in T)
    BY <1>2, <1>8
  <2> HIDE DEF T
  <2>2. valid[x] => /\ del' \in Seq(T)
                    /\ DOMAIN del' = DOMAIN del \cup {Len(del) + 1}
                    /\ Len(del) + 1 \notin DOMAIN del
                    /\ del'[Len(del) + 1] = e
                    /\ \A k \in DOMAIN del : del'[k] = del[k]
    BY <1>10, <2>1, Appended
  <2> QED
    BY <2>2 DEF T
<1>12. \A k \in DOMAIN del : k \in DOMAIN del' /\ del'[k] = del[k]
  BY <1>4, <1>11
<1>13. \A k \in DOMAIN del' : (k \in DOMAIN del /\ del'[k] = del[k])
                              \/ (valid[x] /\ k = Len(del) + 1 /\ del'[k] = e /\ k \notin DOMAIN del)
  BY <1>4, <1>11
<1>14. TypeOK'
  BY <1>2, <1>3, <1>4, <1>5, <1>6, <1>11, TypesOf, TypesNext DEF SessionInv
<1>15. Registers'
  BY DEF SessionInv, Registers
<1>16. Locks' /\ Queries' /\ Inserts' /\ Places' /\ Counted'
  BY LocksFrame, QueriesFrame, InsertsFrame, PlacesFrame, CountedFrame DEF SessionInv
<1>17. valid[x] => ~Leaving(x) /\ ~ToRev(x) /\ ~Coming(x)
  BY <1>3 DEF SessionInv, ReverseInv
<1>18. ReverseInv'
  <2>1. \A i \in Ids : Leaving(i)' => Leaving(i) \/ (valid[x] /\ i = x)
    BY <1>9, <1>13 DEF Leaving
  <2>2. \A i \in Ids : (Coming(i)' <=> Coming(i)) /\ (ToRev(i)' <=> ToRev(i))
    BY DEF Coming, ToRev
  <2>3. OnceId(del')
    BY <1>9, <1>13, <1>17 DEF OnceId, Leaving, SessionInv, ReverseInv
  <2>4. \A k \in DOMAIN del' : lookup[del'[k].t] = del'[k].id
    BY <1>7, <1>9, <1>13 DEF SessionInv, ReverseInv
  <2>5. \A i \in Ids : valid'[i] => rev[i] \in Tuple /\ lookup[rev[i]] = i
    BY <1>5 DEF SessionInv, ReverseInv
  <2>6. ASSUME NEW i \in Ids
        PROVE  /\ ~(Coming(i)' /\ ToRev(i)') /\ ~(Coming(i)' /\ Leaving(i)') /\ ~(Coming(i)' /\ valid'[i])
               /\ ~(ToRev(i)' /\ Leaving(i)') /\ ~(ToRev(i)' /\ valid'[i]) /\ ~(Leaving(i)' /\ valid'[i])
    BY <1>5, <1>17, <2>1, <2>2 DEF SessionInv, ReverseInv
  <2>7. /\ slc' # None /\ slc'.st = "UPD_RSP" => slc'.id \in Ids /\ lookup'[slc'.t] = slc'.id
        /\ \A k \in DOMAIN revIns' : lookup'[revIns'[k].t] = revIns'[k].id
        /\ OnceId(revIns')
    BY DEF SessionInv, ReverseInv, OnceId
  <2> QED
    BY <2>3, <2>4, <2>5, <2>6, <2>7 DEF ReverseInv
<1>19. ReverseAgrees'
  <2> SUFFICES ASSUME NEW t \in Tuple, NEW i \in Ids, lookup[t] = i
               PROVE  \/ valid'[i] /\ rev[i] = t
                      \/ slc # None /\ slc.st = "UPD_RSP" /\ slc.t = t /\ slc.id = i
                      \/ \E k \in DOMAIN revIns : revIns[k] = [t |-> t, id |-> i]
                      \/ \E k \in DOMAIN del' : del'[k] = [t |-> t, id |-> i]
    BY DEF ReverseAgrees
  <2>1. CASE i = x /\ valid[x] /\ rev[x] = t
    BY <1>11, <2>1 DEF e
  <2>2. CASE ~(i = x /\ valid[x] /\ rev[x] = t)
    <3>1. valid[i] /\ rev[i] = t => valid'[i]
      BY <1>5, <2>2
    <3> QED
      BY <1>12, <3>1 DEF SessionInv, ReverseAgrees
  <2> QED
    BY <2>1, <2>2
<1>20. NoDeadSession'
  <2> SUFFICES ASSUME NEW t \in Tuple, NEW i \in Ids, lookup[t] = i, state[i] = "CLOSED"
               PROVE  \/ slc # None /\ slc.st = "UPD_RSP" /\ slc.id = i
                      \/ i = appId \/ (mh # None /\ mh.id = i) \/ (fsm # None /\ fsm.id = i)
                      \/ \E k \in DOMAIN fsmq : fsmq[k].id = i
                      \/ \E k \in DOMAIN rel' : rel'[k] = i
                      \/ \E k \in DOMAIN del' : del'[k].id = i
    BY DEF NoDeadSession
  <2>1. CASE i # x
    <3>1. \A k \in DOMAIN rel : rel[k] = i => \E j \in DOMAIN rel' : rel'[j] = i
      BY <1>3, <2>1
    <3> QED
      BY <1>12, <3>1 DEF SessionInv, NoDeadSession
  <2>2. CASE i = x /\ valid[x]
    BY <1>9, <1>11, <2>2
  <2>3. CASE i = x /\ ~valid[x]
    <3>1. \/ slc # None /\ slc.st = "UPD_RSP" /\ slc.t = t /\ slc.id = i
          \/ \E k \in DOMAIN del : del[k] = [t |-> t, id |-> i]
      BY <1>2, <2>3 DEF SessionInv, ReverseAgrees
    <3>2. ASSUME NEW k \in DOMAIN del, del[k] = [t |-> t, id |-> i]
          PROVE  \E j \in DOMAIN del' : del'[j].id = i
      BY <1>12, <3>2
    <3> QED
      BY <3>1, <3>2
  <2> QED
    BY <2>1, <2>2, <2>3
<1> QED
  BY <1>14, <1>15, <1>16, <1>18, <1>19, <1>20 DEF SessionInv
-----------------------------------------------------------------------------
(* The state table. *)

LEMMA FsmLoadStep ==
  ASSUME SessionInv, FsmLoad
  PROVE  SessionInv'
<1>1. UNCHANGED <<portVars, idVars, lupVars, revVars, rel, mh, appVars, state, txLock, timq, timeVars>>
  BY DEF FsmLoad
<1> USE <1>1 DEF portVars, idVars, lupVars, revVars, appVars, timeVars
<1> DEFINE m == Head(fsmq)
           M == [f : Flags, id : Ids]
<1>2. fsmq \in Seq(M) /\ fsmq # <<>> /\ fsm = None
  BY DEF SessionInv, Registers, FsmLoad
<1>3. /\ fsmq' = Tail(fsmq) /\ txLock # m.id /\ rxLock' = m.id
      /\ fsm' = [f |-> m.f, id |-> m.id, st |-> state[m.id]]
  BY DEF FsmLoad, RxMay
<1> HIDE DEF M
<1>4. /\ m \in M /\ fsmq' \in Seq(M) /\ m = fsmq[1]
      /\ \A k \in DOMAIN fsmq : k # 1 => k - 1 \in DOMAIN fsmq' /\ fsmq'[k - 1] = fsmq[k]
  BY <1>2, <1>3, Tailed
<1> HIDE DEF m
<1>5. m.f \in Flags /\ m.id \in Ids
  BY <1>4 DEF M
<1>6. state[m.id] \in States
  BY <1>5, TypesOf DEF SessionInv
<1>7. /\ fsm' \in [f : Flags, id : Ids, st : States]
      /\ fsm'.id = m.id /\ fsm'.st = state[m.id]
  BY <1>3, <1>5, <1>6
<1>8. fsm' # None
  BY <1>7, NotNone
<1>9. TypeOK'
  BY <1>3, <1>5, TypesOf, TypesNext DEF SessionInv
<1>10. Registers'
  BY <1>4, <1>7 DEF SessionInv, Registers, M
<1>11. Locks'
  BY <1>3, <1>7 DEF SessionInv, Locks
<1>12. Queries'
  BY QueriesFrame DEF SessionInv
<1>13. NoDeadSession'
  <2>1. \A i \in Ids, k \in DOMAIN fsmq : fsmq[k].id = i =>
          fsm'.id = i \/ \E j \in DOMAIN fsmq' : fsmq'[j].id = i
    BY <1>4, <1>7
  <2> QED
    BY <1>2, <1>8, <2>1 DEF SessionInv, NoDeadSession
<1>14. LookupFrame
  BY DEF LookupFrame
<1> QED
  BY <1>9, <1>10, <1>11, <1>12, <1>13, <1>14, LookupKept DEF SessionInv

LEMMA SetToSeqSmall ==
  ASSUME NEW S, NEW e \in S
  PROVE  SetToSeq({}) \in Seq(S) /\ SetToSeq({e}) \in Seq(S)
<1>1. Cardinality({}) = 0 /\ Cardinality({e}) = 1
  BY FS_EmptySet, FS_Singleton
<1>2. SetToSeq({}) \in [1 .. 0 -> {}]
  <2>1. [i \in 1 .. 0 |-> e] \in [1 .. 0 -> {}] /\ IsInjective([i \in 1 .. 0 |-> e])
    BY DEF IsInjective
  <2> QED
    BY <1>1, <2>1 DEF SetToSeq
<1>3. SetToSeq({e}) \in [1 .. 1 -> {e}]
  <2>1. [i \in 1 .. 1 |-> e] \in [1 .. 1 -> {e}] /\ IsInjective([i \in 1 .. 1 |-> e])
    BY DEF IsInjective
  <2> QED
    BY <1>1, <2>1 DEF SetToSeq
<1>4. SetToSeq({}) \in [1 .. 0 -> S] /\ SetToSeq({e}) \in [1 .. 1 -> S]
  BY <1>2, <1>3
<1>5. \A n \in Nat : \A q \in [1 .. n -> S] : q \in Seq(S)
  BY SeqDef
<1> QED
  BY <1>4, <1>5

EvRec == [t : {"SYN", "SYN_ACK", "FIN", "RT"}, id : Ids]

\* What rxTcpFSM computes from what it has read.
LEMMA FsmResult ==
  ASSUME NEW f \in Flags, NEW s \in States, NEW match \in BOOLEAN, NEW done \in BOOLEAN
  PROVE  /\ FsmState(f, s, match, done) \in States
         /\ FsmEvent(f, s, match) \in {{}, {"SYN_ACK"}, {"FIN"}}
<1>1. FsmState(f, s, match, done) \in States
  BY DEF FsmState, States, Flags
<1>2. FsmEvent(f, s, match) \in {{}, {"SYN_ACK"}, {"FIN"}}
  BY DEF FsmEvent
<1> QED
  BY <1>1, <1>2

LEMMA EventsTyped ==
  ASSUME NEW q \in Seq(EvRec), NEW evs \in {{}, {"SYN_ACK"}, {"FIN"}}, NEW i \in Ids
  PROVE  q \o SetToSeq({[t |-> t, id |-> i] : t \in evs}) \in Seq(EvRec)
<1> DEFINE E == {[t |-> t, id |-> i] : t \in evs}
<1>1. [t |-> "SYN_ACK", id |-> i] \in EvRec /\ [t |-> "FIN", id |-> i] \in EvRec
  BY DEF EvRec
<1>2. E = {} \/ E = {[t |-> "SYN_ACK", id |-> i]} \/ E = {[t |-> "FIN", id |-> i]}
  OBVIOUS
<1> HIDE DEF E
<1>3. SetToSeq(E) \in Seq(EvRec)
  BY <1>1, <1>2, SetToSeqSmall
<1> QED
  BY <1>3, ConcatProperties DEF E

\* Nothing but the state and the releases of the session x change for
\* NoDeadSession, and if it is CLOSED it is released.
LEMMA StateWritten ==
  ASSUME SessionInv, NEW x \in Ids, NEW s, state' = [state EXCEPT ![x] = s],
         s = "CLOSED" => rel' = Append(rel, x), s # "CLOSED" => rel' = rel,
         UNCHANGED <<lookup, slc, mh, fsmq, del>>,
         \A i \in Ids : i # x /\ i = appId => i = appId',
         \A i \in Ids : i # x /\ fsm # None /\ fsm.id = i => fsm' # None /\ fsm'.id = i
  PROVE  NoDeadSession'
<1>1. rel \in Seq(Ids) /\ state \in [Ids -> States]
  BY TypesOf DEF SessionInv
<1>2. \A k \in DOMAIN rel : k \in DOMAIN rel' /\ rel'[k] = rel[k]
  BY <1>1, Appended
<1>3. s = "CLOSED" => \E k \in DOMAIN rel' : rel'[k] = x
  BY <1>1, Appended
<1>4. \A i \in Ids : state'[i] = IF i = x THEN s ELSE state[i]
  BY <1>1
<1> SUFFICES ASSUME NEW t \in Tuple, NEW i \in Ids, lookup[t] = i, state'[i] = "CLOSED"
             PROVE  \/ slc # None /\ slc.st = "UPD_RSP" /\ slc.id = i
                    \/ i = appId' \/ (mh # None /\ mh.id = i) \/ (fsm' # None /\ fsm'.id = i)
                    \/ \E k \in DOMAIN fsmq : fsmq[k].id = i
                    \/ \E k \in DOMAIN rel' : rel'[k] = i
                    \/ \E k \in DOMAIN del : del[k].id = i
  BY DEF NoDeadSession
<1>5. CASE i = x
  BY <1>3, <1>4, <1>5
<1>6. CASE i # x
  BY <1>2, <1>4, <1>6 DEF SessionInv, NoDeadSession
<1> QED
  BY <1>5, <1>6

LEMMA FsmTransitionStep ==
  ASSUME SessionInv, FsmTransition
  PROVE  SessionInv'
<1>1. UNCHANGED <<portVars, idVars, lupVars, revVars, mh, fsmq, appVars, txLock, timq>>
  BY DEF FsmTransition
<1> USE <1>1 DEF portVars, idVars, lupVars, revVars, appVars
<1> DEFINE x == fsm.id
<1>2. fsm # None /\ fsm' = None /\ rxLock' = NoId
  BY DEF FsmTransition
<1>3. fsm.f \in Flags /\ x \in Ids /\ fsm.st \in States /\ evq \in Seq(EvRec)
  BY <1>2 DEF SessionInv, Registers, EvRec
<1>4. PICK match \in BOOLEAN, done \in BOOLEAN :
        LET s   == FsmState(fsm.f, fsm.st, match, done)
            evs == FsmEvent(fsm.f, fsm.st, match)
        IN  /\ evq' = evq \o SetToSeq({[t |-> t, id |-> x] : t \in evs})
            /\ rt' \in {rt, rt \ {x}}
            /\ ct' \in {ct, ct \cup {x}}
            /\ state' = [state EXCEPT ![x] = s]
            /\ rel' = IF s = "CLOSED" THEN Append(rel, x) ELSE rel
  BY DEF FsmTransition
<1> DEFINE s == FsmState(fsm.f, fsm.st, match, done)
           evs == FsmEvent(fsm.f, fsm.st, match)
<1>5. s \in States /\ evs \in {{}, {"SYN_ACK"}, {"FIN"}}
  BY <1>3, FsmResult
<1>6. evq' \in Seq(EvRec)
  BY <1>3, <1>4, <1>5, EventsTyped
<1>7. state' = [state EXCEPT ![x] = s] /\ rel' = IF s = "CLOSED" THEN Append(rel, x) ELSE rel
  BY <1>4
<1> HIDE DEF s, evs, x
<1>8. TypeOK'
  <2>1. rel' \in Seq(Ids) /\ state' \in [Ids -> States]
    BY <1>3, <1>5, <1>7, TypesOf DEF SessionInv
  <2>2. rt' \subseteq Ids /\ ct' \subseteq Ids
    BY <1>3, <1>4, TypesOf DEF SessionInv
  <2> QED
    BY <1>2, <2>1, <2>2, TypesOf, TypesNext DEF SessionInv
<1>9. Registers'
  BY <1>2, <1>6 DEF SessionInv, Registers, EvRec
<1>10. Locks'
  <2>1. closing # None => closing.id # x /\ closing.id \in Ids
    BY <1>2 DEF SessionInv, Locks, Registers, x
  <2> QED
    BY <1>2, <1>3, <1>7, <2>1, TypesOf DEF SessionInv, Locks
<1>11. Queries'
  BY QueriesFrame DEF SessionInv
<1>12. NoDeadSession'
  <2>1. \A i \in Ids : i # x /\ fsm # None /\ fsm.id = i => fsm' # None /\ fsm'.id = i
    BY DEF x
  <2> QED
    BY <1>3, <1>7, <2>1, StateWritten
<1>13. LookupFrame
  BY DEF LookupFrame
<1> QED
  BY <1>8, <1>9, <1>10, <1>11, <1>12, <1>13, LookupKept DEF SessionInv

LEMMA TimerReleaseStep ==
  ASSUME SessionInv, TimerRelease
  PROVE  SessionInv'
<1>1. UNCHANGED <<portVars, idVars, lupVars, revVars, rxVars, appVars, rxLock, txLock, timeVars>>
  BY DEF TimerRelease
<1> USE <1>1 DEF portVars, idVars, lupVars, revVars, rxVars, appVars, timeVars
<1> DEFINE x == Head(timq)
<1>2. /\ timq # <<>> /\ x \notin {rxLock, txLock}
      /\ state' = [state EXCEPT ![x] = "CLOSED"] /\ rel' = Append(rel, x) /\ timq' = Tail(timq)
  BY DEF TimerRelease
<1>3. x \in Ids /\ timq' \in Seq(Ids)
  BY <1>2, Tailed, TypesOf DEF SessionInv
<1> HIDE DEF x
<1>4. TypeOK'
  <2>1. rel' \in Seq(Ids) /\ state' \in [Ids -> States]
    BY <1>2, <1>3, TypesOf DEF SessionInv, States
  <2> QED
    BY <1>3, <2>1, TypesOf, TypesNext DEF SessionInv
<1>5. Registers'
  BY DEF SessionInv, Registers
<1>6. Locks'
  BY <1>2, <1>3, TypesOf DEF SessionInv, Locks, Registers
<1>7. Queries'
  BY QueriesFrame DEF SessionInv
<1>8. NoDeadSession'
  BY <1>2, <1>3, StateWritten
<1>9. LookupFrame
  BY DEF LookupFrame
<1> QED
  BY <1>4, <1>5, <1>6, <1>7, <1>8, <1>9, LookupKept DEF SessionInv

-----------------------------------------------------------------------------
(* The application's interface, the TX engine and the timers. *)

LEMMA AppOpenStep ==
  ASSUME SessionInv, NEW q \in Peers, AppOpen(q)
  PROVE  SessionInv'
<1>1. UNCHANGED <<listening, used, idVars, lupVars, revVars, rel, rxVars, appId, closing, stVars, timq,
                  timeVars>>
  BY DEF AppOpen
<1> USE <1>1 DEF idVars, lupVars, revVars, rxVars, stVars, timeVars
<1>2. /\ appReq = None /\ portq # <<>> /\ portq' = Tail(portq)
      /\ appReq' = [st |-> "new", t |-> [peer |-> q, port |-> Head(portq)]]
  BY DEF AppOpen
<1>3. Head(portq) \in Port /\ portq' \in Seq(Port)
  BY <1>2, Tailed DEF SessionInv, Registers
<1>4. appReq' \in [st : {"new", "asked"}, t : Tuple]
  BY <1>2, <1>3 DEF Tuple
<1>5. TypeOK'
  BY TypesOf, TypesNext DEF SessionInv
<1>6. Registers'
  BY <1>3, <1>4 DEF SessionInv, Registers
<1>7. Locks' /\ NoDeadSession'
  BY LocksFrame, NoDeadFrame DEF SessionInv
<1>8. Queries'
  BY <1>2 DEF SessionInv, Queries
<1>9. LookupFrame
  BY DEF LookupFrame
<1> QED
  BY <1>5, <1>6, <1>7, <1>8, <1>9, LookupKept DEF SessionInv

\* An event on its way to the TX engine.
LEMMA EventAppended ==
  ASSUME NEW q \in Seq(EvRec), NEW i \in Ids, NEW t \in {"SYN", "SYN_ACK", "FIN", "RT"}
  PROVE  Append(q, [t |-> t, id |-> i]) \in Seq(EvRec)
<1>1. [t |-> t, id |-> i] \in EvRec
  BY DEF EvRec
<1> QED
  BY <1>1, Appended

LEMMA AppOpenedStep ==
  ASSUME SessionInv, AppOpened
  PROVE  SessionInv'
<1>1. UNCHANGED <<portVars, idVars, lupVars, revVars, rel, rxVars, closing, rxLock, timq, rt, ct>>
  BY DEF AppOpened
<1> USE <1>1 DEF portVars, idVars, lupVars, revVars, rxVars
<1>2. appId # None /\ closing = None /\ appId' = None /\ appReq' = None
  BY DEF AppOpened
<1>3. \/ /\ appId \in Ids /\ rxLock # appId /\ txLock' = NoId
         /\ evq' = Append(evq, [t |-> "SYN", id |-> appId])
         /\ state' = [state EXCEPT ![appId] = "SYN_SENT"]
      \/ appId = NoId /\ UNCHANGED <<evq, state, txLock>>
  BY <1>2 DEF AppOpened, TxMay, SessionInv, Registers
<1>4. evq' \in Seq(EvRec)
  BY <1>3, EventAppended DEF SessionInv, Registers, EvRec
<1>5. TypeOK'
  <2>1. state' \in [Ids -> States] /\ txLock' \in Ids \cup {NoId}
    BY <1>3, TypesOf DEF SessionInv, States
  <2> QED
    BY <2>1, TypesOf, TypesNext DEF SessionInv
<1>6. Registers'
  BY <1>2, <1>4 DEF SessionInv, Registers, EvRec
<1>7. Locks'
  BY <1>2, <1>3, TypesOf DEF SessionInv, Locks, Registers
<1>8. Queries'
  BY <1>2 DEF SessionInv, Queries, Registers
<1>9. NoDeadSession'
  <2>1. CASE appId \in Ids /\ state' = [state EXCEPT ![appId] = "SYN_SENT"]
    BY <2>1, StateWritten
  <2>2. CASE appId = NoId /\ state' = state
    BY <2>2, Consts DEF SessionInv, NoDeadSession
  <2> QED
    BY <1>3, <2>1, <2>2
<1>10. LookupFrame
  BY DEF LookupFrame
<1> QED
  BY <1>5, <1>6, <1>7, <1>8, <1>9, <1>10, LookupKept DEF SessionInv

LEMMA AppCloseStep ==
  ASSUME SessionInv, NEW i \in Ids, AppClose(i)
  PROVE  SessionInv'
<1>1. UNCHANGED <<portVars, idVars, lupVars, revVars, rel, rxVars, appReq, appId, state, rxLock, timq,
                  timeVars>>
  BY DEF AppClose
<1> USE <1>1 DEF portVars, idVars, lupVars, revVars, rxVars, timeVars
<1>2. closing = None /\ closing' = [id |-> i, st |-> state[i]] /\ txLock' = i /\ rxLock # i
  BY DEF AppClose, TxMay
<1>3. closing' \in [id : Ids, st : States] /\ closing'.id = i /\ closing'.st = state[i]
  BY <1>2, TypesOf DEF SessionInv
<1>4. TypeOK'
  BY <1>2, TypesOf, TypesNext DEF SessionInv
<1>5. Registers'
  BY <1>3 DEF SessionInv, Registers
<1>6. Locks'
  BY <1>2, <1>3 DEF SessionInv, Locks
<1>7. Queries' /\ NoDeadSession'
  BY QueriesFrame, NoDeadFrame DEF SessionInv
<1>8. LookupFrame
  BY DEF LookupFrame
<1> QED
  BY <1>4, <1>5, <1>6, <1>7, <1>8, LookupKept DEF SessionInv

LEMMA AppClosedStep ==
  ASSUME SessionInv, AppClosed
  PROVE  SessionInv'
<1>1. UNCHANGED <<portVars, idVars, lupVars, revVars, rel, rxVars, appReq, appId, rxLock, timq, rt, ct>>
  BY DEF AppClosed
<1> USE <1>1 DEF portVars, idVars, lupVars, revVars, rxVars
<1> DEFINE x == closing.id
<1>2. closing # None /\ closing' = None /\ txLock' = NoId
  BY DEF AppClosed
<1>3. x \in Ids /\ closing.st \in States /\ state[x] = closing.st /\ (fsm # None => fsm.id # x)
  BY <1>2 DEF SessionInv, Registers, Locks
<1>4. \/ /\ evq' = Append(evq, [t |-> "FIN", id |-> x])
         /\ state' = [state EXCEPT ![x] = "FIN_WAIT_1"]
      \/ state' = [state EXCEPT ![x] = closing.st] /\ evq' = evq
  BY DEF AppClosed
<1>5. evq' \in Seq(EvRec)
  BY <1>3, <1>4, EventAppended DEF SessionInv, Registers, EvRec
<1>6. state \in [Ids -> States] /\ (fsm # None => fsm.id \in Ids)
  BY TypesOf DEF SessionInv, Registers
<1>7. /\ state' \in [Ids -> States] /\ \A i \in Ids : i # x => state'[i] = state[i]
      /\ state' = state \/ state' = [state EXCEPT ![x] = "FIN_WAIT_1"]
  <2>1. "FIN_WAIT_1" \in States
    BY DEF States
  <2> HIDE DEF x
  <2> QED
    BY <1>3, <1>4, <1>6, <2>1
<1> HIDE DEF x
<1>8. TypeOK'
  BY <1>2, <1>7, TypesOf, TypesNext DEF SessionInv
<1>9. Registers'
  BY <1>2, <1>5 DEF SessionInv, Registers, EvRec
<1>10. Locks'
  BY <1>2, <1>3, <1>6, <1>7 DEF SessionInv, Locks
<1>11. Queries'
  BY QueriesFrame DEF SessionInv
<1>12. NoDeadSession'
  <2>1. CASE state' = [state EXCEPT ![x] = "FIN_WAIT_1"]
    BY <1>3, <2>1, StateWritten
  <2>2. CASE state' = state
    BY <2>2, NoDeadFrame DEF SessionInv
  <2> QED
    BY <1>7, <2>1, <2>2
<1>13. LookupFrame
  BY DEF LookupFrame
<1> QED
  BY <1>8, <1>9, <1>10, <1>11, <1>12, <1>13, LookupKept DEF SessionInv

\* The events and the timers: what they change is read by no other part.
LEMMA TimerSteps ==
  ASSUME SessionInv, NEW i \in Ids, TxEvent \/ RtTimeout(i) \/ CloseTimeout(i)
  PROVE  SessionInv'
<1>1. UNCHANGED <<portVars, idVars, lupVars, revVars, rel, rxVars, appVars, stVars>>
  BY DEF TxEvent, RtTimeout, CloseTimeout
<1> USE <1>1 DEF portVars, idVars, lupVars, revVars, rxVars, appVars, stVars
<1>2. evq \in Seq(EvRec) /\ timq \in Seq(Ids) /\ rt \subseteq Ids /\ ct \subseteq Ids
  BY TypesOf DEF SessionInv, Registers, EvRec
<1>3. evq' \in Seq(EvRec) /\ timq' \in Seq(Ids) /\ rt' \subseteq Ids /\ ct' \subseteq Ids
  <2>1. CASE TxEvent
    <3>1. evq' \in Seq(EvRec) /\ Head(evq) \in EvRec
      BY <1>2, <2>1, Tailed DEF TxEvent
    <3>2. Head(evq).id \in Ids
      BY <3>1 DEF EvRec
    <3>3. rt' = rt \cup {Head(evq).id} /\ ct' = ct /\ timq' = timq
      BY <2>1 DEF TxEvent
    <3> QED
      BY <1>2, <3>1, <3>2, <3>3
  <2>2. CASE RtTimeout(i)
    <3>1. rt' \subseteq Ids /\ ct' = ct
      BY <1>2, <2>2 DEF RtTimeout
    <3>2. \/ evq' = Append(evq, [t |-> "RT", id |-> i]) /\ timq' = timq
          \/ timq' = Append(timq, i) /\ evq' = evq
      BY <2>2 DEF RtTimeout
    <3>3. Append(evq, [t |-> "RT", id |-> i]) \in Seq(EvRec)
      BY <1>2, EventAppended
    <3>4. Append(timq, i) \in Seq(Ids)
      BY <1>2
    <3> QED
      BY <1>2, <3>1, <3>2, <3>3, <3>4
  <2>3. CASE CloseTimeout(i)
    <3>1. timq' = Append(timq, i) /\ ct' = ct \ {i} /\ rt' = rt /\ evq' = evq
      BY <2>3 DEF CloseTimeout
    <3> QED
      BY <1>2, <3>1, Appended
  <2> QED
    BY <2>1, <2>2, <2>3
<1>4. TypeOK'
  BY <1>3, TypesOf, TypesNext DEF SessionInv
<1>5. Registers'
  BY <1>3 DEF SessionInv, Registers, EvRec
<1>6. Locks' /\ Queries' /\ NoDeadSession'
  BY LocksFrame, QueriesFrame, NoDeadFrame DEF SessionInv
<1>7. LookupFrame
  BY DEF LookupFrame
<1> QED
  BY <1>4, <1>5, <1>6, <1>7, LookupKept DEF SessionInv

-----------------------------------------------------------------------------
LEMMA NextInv == SessionInv /\ [Next]_vars => SessionInv'
<1> SUFFICES ASSUME SessionInv, [Next]_vars PROVE SessionInv'
  OBVIOUS
<1>1. CASE UNCHANGED vars
  <2> USE <1>1 DEF vars, portVars, idVars, lupVars, revVars, rxVars, appVars, stVars, timeVars
  <2>1. TypeOK'
    BY TypesOf, TypesNext DEF SessionInv
  <2>2. Registers'
    BY DEF SessionInv, Registers
  <2>3. Locks' /\ Queries' /\ NoDeadSession'
    BY LocksFrame, QueriesFrame, NoDeadFrame DEF SessionInv
  <2>4. LookupFrame
    BY DEF LookupFrame
  <2> QED
    BY <2>1, <2>2, <2>3, <2>4, LookupKept DEF SessionInv
<1>2. CASE \E port \in Port : Listen(port) \/ OfferPort(port)
  BY <1>2, PortSteps
<1>3. CASE \E f \in Flags, t \in Tuple : RxMeta(f, t)
  BY <1>3, RxMetaStep
<1>4. CASE RxMetaReply
  BY <1>4, RxMetaReplyStep
<1>5. CASE SessionLookup
  BY <1>5, IdManagerStep, LupReqStep, LupRspStep, UpdRspStep, UpdateSenderStep, RevInsertStep,
     RevReleaseStep DEF SessionLookup
<1>6. CASE StateTable
  BY <1>6, FsmLoadStep, FsmTransitionStep, TimerReleaseStep DEF StateTable
<1>7. CASE AppIf
  BY <1>7, AppOpenStep, AppOpenedStep, AppCloseStep, AppClosedStep DEF AppIf
<1>8. CASE TxEvent
  <2>1. 0 \in Ids
    BY Consts DEF Ids
  <2> QED
    BY <1>8, <2>1, TimerSteps
<1>9. CASE \E i \in Ids : RtTimeout(i) \/ CloseTimeout(i)
  BY <1>9, TimerSteps
<1> QED
  BY <1>1, <1>2, <1>3, <1>4, <1>5, <1>6, <1>7, <1>8, <1>9 DEF Next

\* The parts of the invariant hold together in every reachable state, with any
\* number of sessions, peers and ports, and FIFOs of any depth.
THEOREM Inductive == Spec => []SessionInv
BY InitInv, NextInv, PTL DEF Spec

\* The tables of the TOE hold sessions and nothing else (toe_internals.hpp).
THEOREM TypeCorrect == Spec => []TypeOK
<1>1. SessionInv => TypeOK
  BY DEF SessionInv
<1> QED
  BY <1>1, Inductive, PTL

\* What comes in under a tuple goes out under the same tuple: the session table
\* and the reverse table agree but for what is on its way between them
\* (reverseLookupTableInterface).
THEOREM TablesAgree == Spec => []ReverseAgrees
<1>1. SessionInv => ReverseAgrees
  BY DEF SessionInv
<1> QED
  BY <1>1, Inductive, PTL

\* A session that is CLOSED is being made or being taken down: no ID is lost to
\* a release that overtakes the insert (reverseLookupTableInterface, state_table).
THEOREM NoSessionLost == Spec => []NoDeadSession
<1>1. SessionInv => NoDeadSession
  BY DEF SessionInv
<1> QED
  BY <1>1, Inductive, PTL

\* The locks of the state table do what they are for: what the RX engine or the
\* application's interface has read is the state when it writes (state_table).
THEOREM LockedStateHolds == Spec => []ReadStateHolds
<1>1. SessionInv => ReadStateHolds
  BY DEF SessionInv, Locks, ReadStateHolds
<1> QED
  BY <1>1, Inductive, PTL

\* How many there are of what there is at most one of.
LEMMA OneOrNone ==
  ASSUME NEW S, \A x, y \in S : x = y
  PROVE  Cardinality(S) = IF S = {} THEN 0 ELSE 1
<1>1. CASE S = {}
  BY <1>1, FS_EmptySet
<1>2. CASE S # {}
  <2>1. PICK x \in S : S = {x}
    BY <1>2
  <2> QED
    BY <1>2, <2>1, FS_Singleton
<1> QED
  BY <1>1, <1>2

\* Every ID that was ever handed out is in one place, the free list, a FIFO or
\* the entry of one tuple, and regSessionCount counts the entries
\* (sessionIdManager, updateRequestSender).
THEOREM EveryIdAccounted == Spec => []IdsAccounted
<1>1. ASSUME SessionInv PROVE IdsAccounted
  <2>1. count = Cardinality({t \in Tuple : lookup[t] # NoId})
    BY <1>1 DEF SessionInv, Counted, Entered
  <2>2. ASSUME NEW i \in Ids
        PROVE  Occurs(i, freeIds) + Occurs(i, finIds)
                 + Cardinality({k \in DOMAIN ins : ins[k].id = i})
                 + Cardinality({t \in Tuple : lookup[t] = i}) = IF i < counter THEN 1 ELSE 0
    <3>1. Occurs(i, freeIds) = IF Free(i) THEN 1 ELSE 0
      BY <1>1, OneOrNone DEF SessionInv, Places, Once, Occurs, Free
    <3>2. Occurs(i, finIds) = IF Fin(i) THEN 1 ELSE 0
      BY <1>1, OneOrNone DEF SessionInv, Places, Once, Occurs, Fin
    <3>3. Cardinality({k \in DOMAIN ins : ins[k].id = i}) = IF New(i) THEN 1 ELSE 0
      <4>1. \A j, k \in DOMAIN ins : j = k
        BY <1>1 DEF SessionInv, Inserts
      <4> QED
        BY <4>1, OneOrNone DEF New
    <3>4. Cardinality({t \in Tuple : lookup[t] = i}) = IF Held(i) THEN 1 ELSE 0
      <4>1. i # NoId
        BY Consts
      <4> QED
        BY <1>1, <4>1, OneOrNone DEF SessionInv, Places, Held
    <3>5. /\ i < counter <=> Free(i) \/ Fin(i) \/ New(i) \/ Held(i)
          /\ ~(Free(i) /\ Fin(i)) /\ ~(Free(i) /\ New(i)) /\ ~(Free(i) /\ Held(i))
          /\ ~(Fin(i) /\ New(i)) /\ ~(Fin(i) /\ Held(i)) /\ ~(New(i) /\ Held(i))
      BY <1>1 DEF SessionInv, Places
    <3> QED
      BY <3>1, <3>2, <3>3, <3>4, <3>5
  <2> QED
    BY <2>1, <2>2 DEF IdsAccounted
<1> QED
  BY <1>1, Inductive, PTL
=============================================================================
