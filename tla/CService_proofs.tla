--------------------------- MODULE CService_proofs ---------------------------
(***************************************************************************)
(* The daemon and its clients, for any number of clients, operators and    *)
(* tasks: no request is lost, answered twice or answered to a later task,  *)
(* through kills, crashes and SIGTERM at any point.                        *)
(***************************************************************************)
EXTENDS CService, FiniteSetTheorems, SequenceTheorems, TLAPS

\* Nothing of client c is on its way.
Quiet(c) ==
  /\ inbox[c] = <<>> /\ task_queue[c] = <<>> /\ running[c] = NoTask
  /\ cmpl_queue[c] = <<>> /\ outbox[c] = <<>>

\* The last request of client c is on its way to the daemon.
Requested(c) ==
  /\ \E o \in Oid : inbox[c] = <<[kind |-> "task", tid |-> tid[c], oid |-> o]>>
  /\ task_queue[c] = <<>> /\ running[c] = NoTask /\ cmpl_queue[c] = <<>> /\ outbox[c] = <<>>

\* It is queued, running, done or answered.
Queued(c) ==
  /\ inbox[c] = <<>> /\ task_queue[c] = <<tid[c]>> /\ running[c] = NoTask
  /\ cmpl_queue[c] = <<>> /\ outbox[c] = <<>>

Running(c) ==
  /\ inbox[c] = <<>> /\ task_queue[c] = <<>> /\ running[c] = tid[c]
  /\ cmpl_queue[c] = <<>> /\ outbox[c] = <<>>

Done(c) ==
  /\ inbox[c] = <<>> /\ task_queue[c] = <<>> /\ running[c] = NoTask
  /\ cmpl_queue[c] = <<tid[c]>> /\ outbox[c] = <<>>

Answered(c) ==
  /\ inbox[c] = <<>> /\ task_queue[c] = <<>> /\ running[c] = NoTask
  /\ cmpl_queue[c] = <<>> /\ outbox[c] = <<tid[c]>>

\* Where the request of a client is that waits, and of one that does not.
ClientInv(c) ==
  /\ cst[c] \in {"off", "idle"} => Quiet(c)
  /\ cst[c] = "waiting" =>
       /\ tid[c] \in Tid
       /\ Requested(c) \/ Queued(c) \/ Running(c) \/ Done(c) \/ Answered(c)

ServiceInv == TypeOK /\ \A c \in Client : ClientInv(c)

-----------------------------------------------------------------------------
(* What the proofs of the steps share. *)

LEMMA Consts ==
  MaxTasks \in Nat /\ NoTask \notin Tid /\ Tid \subseteq 0 .. MaxTasks
BY ServiceAssumption DEF Tid

LEMMA Messages ==
  /\ \A n \in Tid, o \in Oid :
       /\ [kind |-> "task", tid |-> n, oid |-> o] \in Message
       /\ [kind |-> "cut", tid |-> n, oid |-> o] \in Message
  /\ [kind |-> "bye"] \in Message
BY DEF Message

\* The state of client d, wherever it is kept.
Same(d) ==
  /\ cst'[d] = cst[d] /\ tid'[d] = tid[d] /\ inbox'[d] = inbox[d] /\ outbox'[d] = outbox[d]
  /\ task_queue'[d] = task_queue[d] /\ running'[d] = running[d] /\ cmpl_queue'[d] = cmpl_queue[d]

LEMMA SameKept ==
  ASSUME NEW d \in Client, ClientInv(d), Same(d)
  PROVE  ClientInv(d)'
BY DEF Same, ClientInv, Quiet, Requested, Queued, Running, Done, Answered

\* A client that is gone owes and is owed nothing.
LEMMA GoneKept ==
  ASSUME NEW d \in Client, cst'[d] = "gone"
  PROVE  ClientInv(d)'
BY DEF ClientInv

\* A step of one client, or on behalf of one.
LEMMA OneClient ==
  ASSUME ServiceInv, NEW c \in Client, ClientInv(c)', \A d \in Client \ {c} : Same(d), TypeOK'
  PROVE  ServiceInv'
BY SameKept DEF ServiceInv

\* A step that leaves the clients and their tasks alone.
LEMMA NoClientStep ==
  ASSUME ServiceInv, UNCHANGED <<clientVars, inbox, outbox, threadVars>>, TypeOK'
  PROVE  ServiceInv'
BY SameKept DEF ServiceInv, Same, clientVars, threadVars

LEMMA InitInv == Init => ServiceInv
<1> SUFFICES ASSUME Init PROVE ServiceInv
  OBVIOUS
<1>1. TypeOK
  BY Consts DEF Init, TypeOK
<1>2. \A c \in Client : ClientInv(c)
  BY DEF Init, ClientInv, Quiet
<1> QED
  BY <1>1, <1>2 DEF ServiceInv
-----------------------------------------------------------------------------
(* The clients. *)

LEMMA ConnectStep ==
  ASSUME ServiceInv, NEW c \in Client, Connect(c)
  PROVE  ServiceInv'
<1> USE DEF ServiceInv, Connect, threadVars
<1>1. TypeOK'
  BY DEF TypeOK, reqVars
<1>2. \A d \in Client \ {c} : Same(d)
  BY DEF Same, TypeOK
<1>3. ClientInv(c)'
  BY DEF ClientInv, Quiet, TypeOK
<1> QED
  BY <1>1, <1>2, <1>3, OneClient

LEMMA SendTaskStep ==
  ASSUME ServiceInv, NEW c \in Client, NEW o \in Oid, SendTask(c, o)
  PROVE  ServiceInv'
<1> DEFINE m == [kind |-> "task", tid |-> tid[c] + 1, oid |-> o]
<1>1. /\ cst[c] = "idle" /\ tid[c] < MaxTasks /\ cst' = [cst EXCEPT ![c] = "waiting"]
      /\ tid' = [tid EXCEPT ![c] = @ + 1] /\ inbox' = [inbox EXCEPT ![c] = Append(@, m)]
      /\ UNCHANGED <<outbox, daemon, backlog, clients, reqVars, rsp, threadVars>>
  BY DEF SendTask
<1>2. tid[c] + 1 \in Tid
  BY <1>1, Consts DEF ServiceInv, TypeOK, Tid
<1>3. m \in Message
  BY <1>2, Messages
<1>4. inbox[c] = <<>>
  BY <1>1 DEF ServiceInv, ClientInv, Quiet
<1>5. TypeOK'
  <2>1. inbox' \in [Client -> Seq(Message)]
    <3> HIDE DEF m
    <3> QED
      BY <1>1, <1>3 DEF ServiceInv, TypeOK
  <2>2. tid' \in [Client -> 0 .. MaxTasks] /\ cst' \in [Client -> {"off", "idle", "waiting", "gone"}]
    BY <1>1, <1>2, Consts DEF ServiceInv, TypeOK
  <2> QED
    BY <1>1, <2>1, <2>2 DEF ServiceInv, TypeOK, reqVars, threadVars
<1>6. \A d \in Client \ {c} : Same(d)
  BY <1>1 DEF ServiceInv, TypeOK, Same, threadVars
<1>7. ClientInv(c)'
  <2>1. inbox'[c] = <<m>> /\ tid'[c] = tid[c] + 1 /\ cst'[c] = "waiting"
    BY <1>1, <1>4 DEF ServiceInv, TypeOK
  <2>2. Requested(c)'
    BY <1>1, <2>1 DEF ServiceInv, ClientInv, Quiet, Requested, threadVars
  <2> QED
    BY <1>2, <2>1, <2>2 DEF ClientInv
<1> QED
  BY <1>5, <1>6, <1>7, OneClient

LEMMA ReadCompletionStep ==
  ASSUME ServiceInv, NEW c \in Client, ReadCompletion(c)
  PROVE  ServiceInv'
<1>1. /\ cst[c] = "waiting" /\ outbox[c] # <<>>
      /\ outbox' = [outbox EXCEPT ![c] = Tail(@)] /\ cst' = [cst EXCEPT ![c] = "idle"]
      /\ UNCHANGED <<tid, inbox, daemon, backlog, clients, reqVars, rsp, threadVars>>
  BY DEF ReadCompletion
<1>2. Answered(c)
  BY <1>1 DEF ServiceInv, ClientInv, Requested, Queued, Running, Done
<1>3. Tail(outbox[c]) = <<>>
  BY <1>2 DEF Answered
<1>4. TypeOK'
  BY <1>1, <1>3 DEF ServiceInv, TypeOK, reqVars, threadVars
<1>5. \A d \in Client \ {c} : Same(d)
  BY <1>1 DEF ServiceInv, TypeOK, Same, threadVars
<1>6. ClientInv(c)'
  <2>1. outbox'[c] = <<>> /\ cst'[c] = "idle"
    BY <1>1, <1>3 DEF ServiceInv, TypeOK
  <2> QED
    BY <1>1, <1>2, <2>1 DEF Answered, ClientInv, Quiet, threadVars
<1> QED
  BY <1>4, <1>5, <1>6, OneClient

\* A client that leaves, with what it has sent last.
LEMMA LeaveStep ==
  ASSUME ServiceInv, NEW c \in Client, Disconnect(c) \/ Kill(c) \/ Cut(c)
  PROVE  ServiceInv'
<1>1. /\ cst[c] \in {"idle", "waiting"} /\ cst' = [cst EXCEPT ![c] = "gone"]
      /\ UNCHANGED <<tid, outbox, daemon, backlog, clients, reqVars, rsp, threadVars>>
  BY DEF Disconnect, Kill, Cut
<1>2. inbox' \in [Client -> Seq(Message)] /\ \A d \in Client \ {c} : inbox'[d] = inbox[d]
  <2>1. CASE Disconnect(c)
    <3>1. inbox' = [inbox EXCEPT ![c] = Append(@, [kind |-> "bye"])]
      BY <2>1 DEF Disconnect
    <3> QED
      BY <3>1, Messages DEF ServiceInv, TypeOK
  <2>2. CASE inbox[c] # <<>> /\ inbox' = [inbox EXCEPT ![c][Len(inbox[c])].kind = "cut"]
    <3>1. Requested(c) /\ tid[c] \in Tid
      BY <1>1, <2>2 DEF ServiceInv, ClientInv, Quiet, Queued, Running, Done, Answered
    <3>2. PICK o \in Oid : inbox[c] = <<[kind |-> "task", tid |-> tid[c], oid |-> o]>>
      BY <3>1 DEF Requested
    <3> DEFINE m == [kind |-> "cut", tid |-> tid[c], oid |-> o]
    <3>3. [inbox[c] EXCEPT ![Len(inbox[c])].kind = "cut"] = <<m>>
      BY <3>2
    <3>4. m \in Message
      BY <3>1, Messages
    <3>5. inbox' = [inbox EXCEPT ![c] = <<m>>]
      BY <2>2, <3>3
    <3> HIDE DEF m
    <3> QED
      BY <3>4, <3>5 DEF ServiceInv, TypeOK
  <2>3. CASE UNCHANGED inbox
    BY <2>3 DEF ServiceInv, TypeOK
  <2> QED
    BY <2>1, <2>2, <2>3 DEF Kill, Cut
<1>3. TypeOK'
  BY <1>1, <1>2 DEF ServiceInv, TypeOK, reqVars, threadVars
<1>4. \A d \in Client \ {c} : Same(d)
  BY <1>1, <1>2 DEF ServiceInv, TypeOK, Same, threadVars
<1>5. ClientInv(c)'
  BY <1>1, GoneKept DEF ServiceInv, TypeOK
<1> QED
  BY <1>3, <1>4, <1>5, OneClient

-----------------------------------------------------------------------------
(* The main thread, and the steps of the other threads that touch no client. *)

LEMMA DaemonSteps ==
  ASSUME ServiceInv, NEW c \in Client,
         \/ accept_connection(c) \/ ReqLock(c) \/ ReqInvalid(c)
         \/ ReqPass \/ SigTerm \/ Exit \/ RspExit
  PROVE  ServiceInv'
<1>1. UNCHANGED <<clientVars, inbox, outbox, threadVars>>
  BY DEF accept_connection, ReqLock, ReqInvalid, ReqPass, SigTerm, Exit, RspExit
<1>2. /\ daemon' \in {"up", "stopping", "exited", "crashed"}
      /\ backlog' \subseteq Client /\ clients' \subseteq Client /\ rsp' \in BOOLEAN
  BY DEF ServiceInv, TypeOK, reqVars, accept_connection, ReqLock, ReqInvalid, ReqPass, SigTerm,
         Exit, RspExit
<1>3. /\ mtx_cli' \in {"free", "held"} /\ rpc' \in {"pass", "next", "read", "off"}
      /\ todo' \subseteq Client /\ cur' \in Client \cup {NoClient}
  BY DEF ServiceInv, TypeOK, reqVars, accept_connection, ReqLock, ReqInvalid, ReqPass, SigTerm,
         Exit, RspExit
<1>4. TypeOK'
  BY <1>1, <1>2, <1>3 DEF ServiceInv, TypeOK, clientVars, threadVars
<1> QED
  BY <1>1, <1>4, NoClientStep
-----------------------------------------------------------------------------
(* The request thread. *)

LEMMA ReqTaskStep ==
  ASSUME ServiceInv, NEW c \in Client, ReqTask(c)
  PROVE  ServiceInv'
<1> DEFINE m == Head(inbox[c])
<1>1. /\ inbox[c] # <<>> /\ m.kind = "task"
      /\ task_queue' = [task_queue EXCEPT ![c] = Append(@, m.tid)]
      /\ inbox' = [inbox EXCEPT ![c] = Tail(@)] /\ ReqUnlock
      /\ UNCHANGED <<clientVars, outbox, daemon, backlog, clients, todo, rsp, running, cmpl_queue>>
  BY DEF ReqTask
<1>2. inbox[c] \in Seq(Message) /\ m \in Message /\ Tail(inbox[c]) \in Seq(Message)
  BY <1>1 DEF ServiceInv, TypeOK
<1>3. m.tid \in Tid
  <2> HIDE DEF m
  <2> QED
    BY <1>1, <1>2 DEF Message
<1>4. TypeOK'
  <2> HIDE DEF m
  <2>1. inbox' \in [Client -> Seq(Message)] /\ task_queue' \in [Client -> Seq(Tid)]
    BY <1>1, <1>2, <1>3 DEF ServiceInv, TypeOK
  <2> QED
    BY <1>1, <2>1 DEF ServiceInv, TypeOK, ReqUnlock, clientVars
<1>5. \A d \in Client \ {c} : Same(d)
  BY <1>1 DEF ServiceInv, TypeOK, Same, clientVars
<1>6. ClientInv(c)'
  <2>1. cst[c] \notin {"off", "idle"}
    BY <1>1 DEF ServiceInv, ClientInv, Quiet
  <2>2. CASE cst[c] = "waiting"
    <3>1. Requested(c) /\ tid[c] \in Tid
      BY <1>1, <2>2 DEF ServiceInv, ClientInv, Queued, Running, Done, Answered
    <3>2. m.tid = tid[c] /\ Tail(inbox[c]) = <<>>
      BY <3>1 DEF Requested
    <3>3. inbox'[c] = <<>> /\ task_queue'[c] = <<tid[c]>>
      <4> HIDE DEF m
      <4> QED
        BY <1>1, <3>1, <3>2 DEF ServiceInv, TypeOK, Requested
    <3>4. Queued(c)'
      BY <1>1, <3>1, <3>3 DEF Requested, Queued, clientVars
    <3> QED
      BY <1>1, <2>2, <3>1, <3>4 DEF ClientInv, clientVars
  <2>3. CASE cst[c] = "gone"
    BY <1>1, <2>3, GoneKept DEF clientVars
  <2> QED
    BY <2>1, <2>2, <2>3 DEF ServiceInv, TypeOK
<1> QED
  BY <1>4, <1>5, <1>6, OneClient

LEMMA ReqCloseStep ==
  ASSUME ServiceInv, NEW c \in Client, ReqClose(c)
  PROVE  ServiceInv'
<1>1. /\ cst' = [cst EXCEPT ![c] = "gone"] /\ clients' = clients \ {c}
      /\ inbox' = [inbox EXCEPT ![c] = <<>>] /\ outbox' = [outbox EXCEPT ![c] = <<>>]
      /\ daemon' \in {"crashed", daemon} /\ ReqUnlock
      /\ UNCHANGED <<tid, backlog, todo, rsp, threadVars>>
  BY DEF ReqClose
<1>2. TypeOK'
  BY <1>1 DEF ServiceInv, TypeOK, ReqUnlock, threadVars
<1>3. \A d \in Client \ {c} : Same(d)
  BY <1>1 DEF ServiceInv, TypeOK, Same, threadVars
<1>4. ClientInv(c)'
  BY <1>1, GoneKept DEF ServiceInv, TypeOK
<1> QED
  BY <1>2, <1>3, <1>4, OneClient

\* What is read and forgotten was sent by a client that is gone.
LEMMA ReqNothingStep ==
  ASSUME ServiceInv, NEW c \in Client, ReqNothing(c)
  PROVE  ServiceInv'
<1>1. /\ ReqUnlock
      /\ UNCHANGED <<clientVars, outbox, daemon, backlog, clients, todo, rsp, threadVars>>
      /\ \/ /\ inbox[c] # <<>> /\ Head(inbox[c]).kind # "task"
            /\ inbox' = [inbox EXCEPT ![c] = Tail(@)]
         \/ cst[c] = "gone" /\ UNCHANGED inbox
  BY DEF ReqNothing
<1>2. cst[c] = "gone"
  <2>1. ASSUME inbox[c] # <<>>, Head(inbox[c]).kind # "task", cst[c] \in {"off", "idle", "waiting"}
        PROVE  FALSE
    <3>1. Requested(c)
      BY <2>1 DEF ServiceInv, ClientInv, Quiet, Queued, Running, Done, Answered
    <3> QED
      BY <2>1, <3>1 DEF Requested
  <2> QED
    BY <1>1, <2>1 DEF ServiceInv, TypeOK
<1>3. inbox' \in [Client -> Seq(Message)] /\ \A d \in Client \ {c} : inbox'[d] = inbox[d]
  <2>1. inbox[c] # <<>> => Tail(inbox[c]) \in Seq(Message)
    BY DEF ServiceInv, TypeOK
  <2> QED
    BY <1>1, <2>1 DEF ServiceInv, TypeOK
<1>4. TypeOK'
  BY <1>1, <1>3 DEF ServiceInv, TypeOK, ReqUnlock, clientVars, threadVars
<1>5. \A d \in Client \ {c} : Same(d)
  BY <1>1, <1>3 DEF Same, clientVars, threadVars
<1>6. ClientInv(c)'
  BY <1>1, <1>2, GoneKept DEF clientVars
<1> QED
  BY <1>4, <1>5, <1>6, OneClient
-----------------------------------------------------------------------------
(* The cThreads and the response thread. *)

LEMMA TakeTaskStep ==
  ASSUME ServiceInv, NEW c \in Client, TakeTask(c)
  PROVE  ServiceInv'
<1>1. /\ running[c] = NoTask /\ task_queue[c] # <<>>
      /\ running' = [running EXCEPT ![c] = Head(task_queue[c])]
      /\ task_queue' = [task_queue EXCEPT ![c] = Tail(@)]
      /\ UNCHANGED <<clientVars, inbox, outbox, daemon, backlog, clients, reqVars, rsp, cmpl_queue>>
  BY DEF TakeTask
<1>2. TypeOK'
  <2>1. running' \in [Client -> Tid \cup {NoTask}] /\ task_queue' \in [Client -> Seq(Tid)]
    BY <1>1 DEF ServiceInv, TypeOK
  <2> QED
    BY <1>1, <2>1 DEF ServiceInv, TypeOK, clientVars, reqVars
<1>3. \A d \in Client \ {c} : Same(d)
  BY <1>1 DEF ServiceInv, TypeOK, Same, clientVars
<1>4. ClientInv(c)'
  <2>1. cst[c] \notin {"off", "idle"}
    BY <1>1 DEF ServiceInv, ClientInv, Quiet
  <2>2. CASE cst[c] = "waiting"
    <3>1. Queued(c) /\ tid[c] \in Tid
      BY <1>1, <2>2 DEF ServiceInv, ClientInv, Requested, Running, Done, Answered
    <3>2. running'[c] = tid[c] /\ task_queue'[c] = <<>>
      BY <1>1, <3>1 DEF ServiceInv, TypeOK, Queued
    <3>3. Running(c)'
      BY <1>1, <3>1, <3>2 DEF Queued, Running, clientVars
    <3> QED
      BY <1>1, <2>2, <3>1, <3>3 DEF ClientInv, clientVars
  <2>3. CASE cst[c] = "gone"
    BY <1>1, <2>3, GoneKept DEF clientVars
  <2> QED
    BY <2>1, <2>2, <2>3 DEF ServiceInv, TypeOK
<1> QED
  BY <1>2, <1>3, <1>4, OneClient

LEMMA FinishTaskStep ==
  ASSUME ServiceInv, NEW c \in Client, FinishTask(c)
  PROVE  ServiceInv'
<1>1. /\ running[c] # NoTask
      /\ cmpl_queue' = [cmpl_queue EXCEPT ![c] = Append(@, running[c])]
      /\ running' = [running EXCEPT ![c] = NoTask]
      /\ UNCHANGED <<clientVars, inbox, outbox, daemon, backlog, clients, reqVars, rsp, task_queue>>
  BY DEF FinishTask
<1>2. TypeOK'
  <2>1. running' \in [Client -> Tid \cup {NoTask}] /\ cmpl_queue' \in [Client -> Seq(Tid)]
    BY <1>1 DEF ServiceInv, TypeOK
  <2> QED
    BY <1>1, <2>1 DEF ServiceInv, TypeOK, clientVars, reqVars
<1>3. \A d \in Client \ {c} : Same(d)
  BY <1>1 DEF ServiceInv, TypeOK, Same, clientVars
<1>4. ClientInv(c)'
  <2>1. cst[c] \notin {"off", "idle"}
    BY <1>1 DEF ServiceInv, ClientInv, Quiet
  <2>2. CASE cst[c] = "waiting"
    <3>1. Running(c) /\ tid[c] \in Tid
      BY <1>1, <2>2 DEF ServiceInv, ClientInv, Requested, Queued, Done, Answered
    <3>2. running'[c] = NoTask /\ cmpl_queue'[c] = <<tid[c]>>
      BY <1>1, <3>1 DEF ServiceInv, TypeOK, Running
    <3>3. Done(c)'
      BY <1>1, <3>1, <3>2 DEF Running, Done, clientVars
    <3> QED
      BY <1>1, <2>2, <3>1, <3>3 DEF ClientInv, clientVars
  <2>3. CASE cst[c] = "gone"
    BY <1>1, <2>3, GoneKept DEF clientVars
  <2> QED
    BY <2>1, <2>2, <2>3 DEF ServiceInv, TypeOK
<1> QED
  BY <1>2, <1>3, <1>4, OneClient

LEMMA RspSendStep ==
  ASSUME ServiceInv, NEW c \in Client, RspSend(c)
  PROVE  ServiceInv'
<1>1. /\ cmpl_queue[c] # <<>> /\ cmpl_queue' = [cmpl_queue EXCEPT ![c] = Tail(@)]
      /\ cst[c] = "gone" => daemon' = "crashed" /\ outbox' = outbox
      /\ cst[c] # "gone" => /\ outbox' = [outbox EXCEPT ![c] = Append(@, Head(cmpl_queue[c]))]
                            /\ daemon' = daemon
      /\ UNCHANGED <<clientVars, inbox, backlog, clients, reqVars, rsp, task_queue, running>>
  BY DEF RspSend
<1>2. /\ cmpl_queue' \in [Client -> Seq(Tid)] /\ outbox' \in [Client -> Seq(Tid)]
      /\ \A d \in Client \ {c} : outbox'[d] = outbox[d] /\ cmpl_queue'[d] = cmpl_queue[d]
  <2>1. Tail(cmpl_queue[c]) \in Seq(Tid) /\ Append(outbox[c], Head(cmpl_queue[c])) \in Seq(Tid)
    BY <1>1 DEF ServiceInv, TypeOK
  <2>2. outbox' = outbox \/ outbox' = [outbox EXCEPT ![c] = Append(outbox[c], Head(cmpl_queue[c]))]
    BY <1>1
  <2>3. cmpl_queue' = [cmpl_queue EXCEPT ![c] = Tail(cmpl_queue[c])]
    BY <1>1
  <2> QED
    BY <2>1, <2>2, <2>3 DEF ServiceInv, TypeOK
<1>3. TypeOK'
  BY <1>1, <1>2 DEF ServiceInv, TypeOK, clientVars, reqVars
<1>4. \A d \in Client \ {c} : Same(d)
  BY <1>1, <1>2 DEF Same, clientVars
<1>5. ClientInv(c)'
  <2>1. cst[c] \notin {"off", "idle"}
    BY <1>1 DEF ServiceInv, ClientInv, Quiet
  <2>2. CASE cst[c] = "waiting"
    <3>1. Done(c) /\ tid[c] \in Tid
      BY <1>1, <2>2 DEF ServiceInv, ClientInv, Requested, Queued, Running, Answered
    <3>2. cmpl_queue'[c] = <<>> /\ outbox'[c] = <<tid[c]>>
      BY <1>1, <2>2, <3>1 DEF ServiceInv, TypeOK, Done
    <3>3. Answered(c)'
      BY <1>1, <3>1, <3>2 DEF Done, Answered, clientVars
    <3> QED
      BY <1>1, <2>2, <3>1, <3>3 DEF ClientInv, clientVars
  <2>3. CASE cst[c] = "gone"
    BY <1>1, <2>3, GoneKept DEF clientVars
  <2> QED
    BY <2>1, <2>2, <2>3 DEF ServiceInv, TypeOK
<1> QED
  BY <1>3, <1>4, <1>5, OneClient
-----------------------------------------------------------------------------
LEMMA NextInv == ServiceInv /\ [Next]_vars => ServiceInv'
<1> SUFFICES ASSUME ServiceInv, [Next]_vars PROVE ServiceInv'
  OBVIOUS
<1>1. CASE UNCHANGED vars
  <2>1. TypeOK'
    BY <1>1 DEF ServiceInv, TypeOK, vars, clientVars, reqVars, threadVars
  <2> QED
    BY <1>1, <2>1, NoClientStep DEF vars
<1>2. ASSUME NEW c \in Client,
             \/ Connect(c) \/ (\E o \in Oid : SendTask(c, o)) \/ ReadCompletion(c)
             \/ Disconnect(c) \/ Kill(c) \/ Cut(c)
      PROVE  ServiceInv'
  BY <1>2, ConnectStep, SendTaskStep, ReadCompletionStep, LeaveStep
<1>3. ASSUME NEW c \in Client, accept_connection(c) \/ ReqLock(c) \/ Read(c)
      PROVE  ServiceInv'
  BY <1>3, DaemonSteps, ReqTaskStep, ReqCloseStep, ReqNothingStep DEF Read
<1>4. ASSUME NEW c \in Client, Thread(c) \/ RspSend(c)
      PROVE  ServiceInv'
  BY <1>4, TakeTaskStep, FinishTaskStep, RspSendStep DEF Thread
<1>5. CASE ReqPass \/ SigTerm \/ Exit \/ RspExit
  <2>1. CASE Client # {}
    BY <1>5, <2>1, DaemonSteps
  <2>2. CASE Client = {}
    <3>1. TypeOK'
      BY <1>5, <2>2 DEF ServiceInv, TypeOK, ReqPass, SigTerm, Exit, RspExit, clientVars, reqVars,
                       threadVars
    <3> QED
      BY <2>2, <3>1 DEF ServiceInv
  <2> QED
    BY <2>1, <2>2
<1> QED
  BY <1>1, <1>2, <1>3, <1>4, <1>5 DEF Next

\* Where the request of every client is, at any time, with any number of
\* clients, operators and tasks.
THEOREM Inductive == Spec => []ServiceInv
BY InitInv, NextInv, PTL DEF Spec

\* The queues of the daemon hold task IDs, and the sockets hold messages of the
\* three forms a client can send.
THEOREM TypeCorrect == Spec => []TypeOK
<1>1. ServiceInv => TypeOK
  BY DEF ServiceInv
<1> QED
  BY <1>1, Inductive, PTL

\* How often task n occurs in a queue, and in a socket.
In(q, n)    == Cardinality({i \in DOMAIN q : q[i] = n})
Asked(q, n) == Cardinality({i \in DOMAIN q : q[i].kind = "task" /\ q[i].tid = n})

LEMMA PlacesSum ==
  ASSUME NEW c \in Client, NEW n
  PROVE  Places(c, n) = Asked(inbox[c], n) + In(task_queue[c], n) + (IF running[c] = n THEN 1 ELSE 0)
                          + In(cmpl_queue[c], n) + In(outbox[c], n)
BY DEF Places, In, Asked

LEMMA Occurrences ==
  ASSUME NEW q, NEW n
  PROVE  /\ q = <<>> => In(q, n) = 0 /\ Asked(q, n) = 0
         /\ \A x : q = <<x>> => /\ In(q, n) = IF x = n THEN 1 ELSE 0
                               /\ Asked(q, n) = IF x.kind = "task" /\ x.tid = n THEN 1 ELSE 0
<1>1. Cardinality({}) = 0 /\ Cardinality({1}) = 1
  BY FS_EmptySet, FS_Singleton
<1>2. ASSUME q = <<>> PROVE In(q, n) = 0 /\ Asked(q, n) = 0
  <2>1. DOMAIN q = {}
    BY <1>2
  <2>2. {i \in DOMAIN q : q[i] = n} = {}
    BY <2>1
  <2>3. {i \in DOMAIN q : q[i].kind = "task" /\ q[i].tid = n} = {}
    BY <2>1
  <2> QED
    BY <1>1, <2>2, <2>3 DEF In, Asked
<1>3. ASSUME NEW x, q = <<x>>
      PROVE  /\ In(q, n) = IF x = n THEN 1 ELSE 0
             /\ Asked(q, n) = IF x.kind = "task" /\ x.tid = n THEN 1 ELSE 0
  <2>1. DOMAIN q = {1} /\ q[1] = x
    BY <1>3
  <2>2. {i \in DOMAIN q : q[i] = n} = IF x = n THEN {1} ELSE {}
    BY <2>1
  <2>3. {i \in DOMAIN q : q[i].kind = "task" /\ q[i].tid = n}
          = IF x.kind = "task" /\ x.tid = n THEN {1} ELSE {}
    BY <2>1
  <2> QED
    BY <1>1, <2>2, <2>3 DEF In, Asked
<1> QED
  BY <1>2, <1>3

\* A client that waits has exactly one request, task or completion on its way,
\* and a client that does not wait has none: requests are neither lost nor
\* answered twice, and no completion reaches a later task (cLib::task,
\* cService::processRequests, cThread::processRequests,
\* cService::processResponses).
THEOREM EveryRequestOneAnswer == Spec => []OneAnswer
<1>1. ASSUME ServiceInv PROVE OneAnswer
  <2> SUFFICES ASSUME NEW c \in Client, NEW n \in Tid
               PROVE  /\ cst[c] = "waiting" => Places(c, n) = IF n = tid[c] THEN 1 ELSE 0
                      /\ cst[c] \in {"off", "idle"} => Places(c, n) = 0
    <3>1. \A c \in Client : cst[c] \in {"off", "idle", "waiting", "gone"}
      BY <1>1 DEF ServiceInv, TypeOK
    <3>2. \A c \in Client : cst[c] = "waiting" => tid[c] \in Tid
      BY <1>1 DEF ServiceInv, ClientInv
    <3> QED
      BY <3>1, <3>2 DEF OneAnswer
  <2>1. n # NoTask
    BY Consts
  <2>2. cst[c] = "waiting" => tid[c] \in Tid
    BY <1>1 DEF ServiceInv, ClientInv
  <2> DEFINE one == IF n = tid[c] THEN 1 ELSE 0
  <2>3. Quiet(c) => Places(c, n) = 0
    BY <2>1, PlacesSum, Occurrences DEF Quiet
  <2>4. Requested(c) => Places(c, n) = one
    <3> SUFFICES ASSUME Requested(c) PROVE Places(c, n) = one
      OBVIOUS
    <3>1. PICK o \in Oid : inbox[c] = <<[kind |-> "task", tid |-> tid[c], oid |-> o]>>
      BY DEF Requested
    <3> DEFINE m == [kind |-> "task", tid |-> tid[c], oid |-> o]
    <3>2. m.kind = "task" /\ m.tid = tid[c] /\ inbox[c] = <<m>>
      BY <3>1
    <3> HIDE DEF m
    <3>3. Asked(inbox[c], n) = one
      BY <3>2, Occurrences
    <3> QED
      BY <2>1, <3>3, PlacesSum, Occurrences DEF Requested
  <2>5. Queued(c) => Places(c, n) = one
    <3>1. Queued(c) => In(task_queue[c], n) = one
      BY Occurrences DEF Queued
    <3> QED
      BY <2>1, <3>1, PlacesSum, Occurrences DEF Queued
  <2>6. Running(c) => Places(c, n) = one
    BY <2>1, PlacesSum, Occurrences DEF Running
  <2>7. Done(c) => Places(c, n) = one
    <3>1. Done(c) => In(cmpl_queue[c], n) = one
      BY Occurrences DEF Done
    <3> QED
      BY <2>1, <3>1, PlacesSum, Occurrences DEF Done
  <2>8. Answered(c) => Places(c, n) = one
    <3>1. Answered(c) => In(outbox[c], n) = one
      BY Occurrences DEF Answered
    <3> QED
      BY <2>1, <3>1, PlacesSum, Occurrences DEF Answered
  <2> QED
    BY <1>1, <2>2, <2>3, <2>4, <2>5, <2>6, <2>7, <2>8 DEF ServiceInv, ClientInv
<1> QED
  BY <1>1, Inductive, PTL
=============================================================================
