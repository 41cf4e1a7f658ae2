------------------------------ MODULE CService ------------------------------
(***************************************************************************)
(* The daemon of a vFPGA (sw/src/cService.cpp), the cThread that works for *)
(* each of its clients (sw/src/cThread.cpp) and the clients themselves     *)
(* (sw/include/cLib.hpp).                                                  *)
(*                                                                         *)
(* Four kinds of thread share the map of clients: the main thread accepts, *)
(* the request thread reads one request of each client in turn, the        *)
(* response thread sends completions, and a cThread per client runs the    *)
(* tasks.  The request thread holds mtx_cli while it reads a socket, and   *)
(* the read blocks; the response thread takes no lock.  Running a task,    *)
(* with the pLock and pUnlock that CSched models, is one interval here.    *)
(*                                                                         *)
(* A socket is the sequence of messages in flight.  Opcode 0, defOpClose,  *)
(* closes a connection.  ~cLib sends the opcode alone, four bytes, where   *)
(* the daemon reads a tid and an opcode.                                   *)
(***************************************************************************)
EXTENDS Naturals, Sequences, FiniteSets

CONSTANTS
  Client,       \* client connections
  Oid,          \* opcodes clients send
  task_map,     \* the operators the daemon has functions for
  MaxTasks,     \* bound: tasks of a client
  CanKill,      \* a client process may be killed
  CanTerm,      \* the daemon may be sent SIGTERM
  NoClient, NoTask

defOpClose == 0

ASSUME ServiceAssumption ==
  /\ IsFiniteSet(Client)
  /\ Oid \subseteq Nat /\ task_map \subseteq Nat \ {defOpClose}
  /\ MaxTasks \in Nat
  /\ {CanKill, CanTerm} \subseteq BOOLEAN
  /\ NoClient \notin Client
  /\ NoTask \notin 1 .. MaxTasks

VARIABLES
  cst,         \* off, idle, waiting for a completion or gone, for each client
  tid,         \* the tid of each client's last task
  inbox,       \* messages to the daemon
  outbox,      \* completions to the client
  daemon,      \* up, stopping (in the SIGTERM handler), exited or crashed
  backlog,     \* connections not accepted yet
  clients,     \* connections that have a cThread
  mtx_cli,     \* the mutex of the map
  rpc,         \* where the request thread is: pass, next, read or off
  todo,        \* clients left in its pass
  cur,         \* the client it reads from
  rsp,         \* the response thread is running
  task_queue,  \* tids queued in each cThread
  running,     \* the tid each cThread is running
  cmpl_queue   \* completions of each cThread

clientVars == <<cst, tid>>
reqVars    == <<mtx_cli, rpc, todo, cur>>
threadVars == <<task_queue, running, cmpl_queue>>
vars == <<clientVars, inbox, outbox, daemon, backlog, clients, reqVars, rsp, threadVars>>

Tid == 1 .. MaxTasks

\* A request, a request cut off behind its first part, and the message of ~cLib.
Message ==
  [kind : {"task", "cut"}, tid : Tid, oid : Oid] \cup {[kind |-> "bye"]}

TypeOK ==
  /\ cst \in [Client -> {"off", "idle", "waiting", "gone"}]
  /\ tid \in [Client -> 0 .. MaxTasks]
  /\ inbox \in [Client -> Seq(Message)]
  /\ outbox \in [Client -> Seq(Tid)]
  /\ daemon \in {"up", "stopping", "exited", "crashed"}
  /\ backlog \subseteq Client /\ clients \subseteq Client
  /\ mtx_cli \in {"free", "held"}
  /\ rpc \in {"pass", "next", "read", "off"}
  /\ todo \subseteq Client
  /\ cur \in Client \cup {NoClient}
  /\ rsp \in BOOLEAN
  /\ task_queue \in [Client -> Seq(Tid)]
  /\ running \in [Client -> Tid \cup {NoTask}]
  /\ cmpl_queue \in [Client -> Seq(Tid)]

Init ==
  /\ cst = [c \in Client |-> "off"]
  /\ tid = [c \in Client |-> 0]
  /\ inbox = [c \in Client |-> <<>>]
  /\ outbox = [c \in Client |-> <<>>]
  /\ daemon = "up"
  /\ backlog = {}
  /\ clients = {}
  /\ mtx_cli = "free"
  /\ rpc = "pass"
  /\ todo = {}
  /\ cur = NoClient
  /\ rsp = TRUE
  /\ task_queue = [c \in Client |-> <<>>]
  /\ running = [c \in Client |-> NoTask]
  /\ cmpl_queue = [c \in Client |-> <<>>]

\* The daemon process exists.
Alive == daemon \in {"up", "stopping"}
-----------------------------------------------------------------------------
(* Clients. *)

\* cLib::cLib: connect and send the pid.
Connect(c) ==
  /\ cst[c] = "off"
  /\ daemon = "up"
  /\ cst' = [cst EXCEPT ![c] = "idle"]
  /\ backlog' = backlog \cup {c}
  /\ UNCHANGED <<tid, inbox, outbox, daemon, clients, reqVars, rsp, threadVars>>

\* The first half of cLib::task.
SendTask(c, o) ==
  /\ Alive
  /\ cst[c] = "idle"
  /\ tid[c] < MaxTasks
  /\ tid' = [tid EXCEPT ![c] = @ + 1]
  /\ inbox' = [inbox EXCEPT ![c] = Append(@, [kind |-> "task", tid |-> tid[c] + 1, oid |-> o])]
  /\ cst' = [cst EXCEPT ![c] = "waiting"]
  /\ UNCHANGED <<outbox, daemon, backlog, clients, reqVars, rsp, threadVars>>

\* The second half: the client takes the first completion that comes.
ReadCompletion(c) ==
  /\ cst[c] = "waiting"
  /\ outbox[c] # <<>>
  /\ outbox' = [outbox EXCEPT ![c] = Tail(@)]
  /\ cst' = [cst EXCEPT ![c] = "idle"]
  /\ UNCHANGED <<tid, inbox, daemon, backlog, clients, reqVars, rsp, threadVars>>

\* ~cLib: the opcode alone, then the socket is closed.
Disconnect(c) ==
  /\ cst[c] = "idle"
  /\ inbox' = [inbox EXCEPT ![c] = Append(@, [kind |-> "bye"])]
  /\ cst' = [cst EXCEPT ![c] = "gone"]
  /\ UNCHANGED <<tid, outbox, daemon, backlog, clients, reqVars, rsp, threadVars>>

\* The client process ends anywhere, in the middle of a request too: its last
\* message is whole or cut.
Kill(c) ==
  /\ CanKill
  /\ cst[c] \in {"idle", "waiting"}
  /\ cst' = [cst EXCEPT ![c] = "gone"]
  /\ \/ UNCHANGED inbox
     \/ /\ inbox[c] # <<>>
        /\ inbox' = [inbox EXCEPT ![c][Len(inbox[c])].kind = "cut"]
  /\ UNCHANGED <<tid, outbox, daemon, backlog, clients, reqVars, rsp, threadVars>>

\* The daemon is gone: the next read or write fails and the client exits.
Cut(c) ==
  /\ ~Alive
  /\ cst[c] \in {"idle", "waiting"}
  /\ cst' = [cst EXCEPT ![c] = "gone"]
  /\ UNCHANGED <<tid, inbox, outbox, daemon, backlog, clients, reqVars, rsp, threadVars>>
-----------------------------------------------------------------------------
(* The main thread. *)

\* Mutant: mtx_cli is not released.
accept_connectionNoUnlock(c) ==
  /\ daemon = "up"
  /\ c \in backlog
  /\ mtx_cli = "free"
  /\ backlog' = backlog \ {c}
  /\ clients' = clients \cup {c}
  /\ mtx_cli' = "held"
  /\ UNCHANGED <<clientVars, inbox, outbox, daemon, rpc, todo, cur, rsp, threadVars>>

\* A connection gets its cThread, whether or not its pid could be read.
accept_connection(c) ==
  /\ daemon = "up"
  /\ c \in backlog
  /\ mtx_cli = "free"
  /\ backlog' = backlog \ {c}
  /\ clients' = clients \cup {c}
  /\ UNCHANGED <<clientVars, inbox, outbox, daemon, reqVars, rsp, threadVars>>

\* my_handler: the flags are cleared, then the threads are joined.
SigTerm ==
  /\ CanTerm
  /\ daemon = "up"
  /\ daemon' = "stopping"
  /\ UNCHANGED <<clientVars, inbox, outbox, backlog, clients, reqVars, rsp, threadVars>>

Exit ==
  /\ daemon = "stopping"
  /\ rpc = "off"
  /\ ~rsp
  /\ daemon' = "exited"
  /\ UNCHANGED <<clientVars, inbox, outbox, backlog, clients, reqVars, rsp, threadVars>>
-----------------------------------------------------------------------------
(* The request thread. *)

\* while(run_req): the next pass over the clients, or the end.
ReqPass ==
  /\ Alive
  /\ \/ rpc = "pass"
     \/ rpc = "next" /\ todo = {}
  /\ IF daemon = "up"
     THEN todo' = clients /\ rpc' = "next"
     ELSE todo' = {} /\ rpc' = "off"
  /\ UNCHANGED <<clientVars, inbox, outbox, daemon, backlog, clients, mtx_cli, cur, rsp, threadVars>>

ReqLock(c) ==
  /\ Alive
  /\ rpc = "next"
  /\ c \in todo
  /\ mtx_cli = "free"
  /\ mtx_cli' = "held"
  /\ rpc' = "read"
  /\ cur' = c
  /\ todo' = todo \ {c}
  /\ UNCHANGED <<clientVars, inbox, outbox, daemon, backlog, clients, rsp, threadVars>>

\* The iteration for one client is over.
ReqUnlock ==
  /\ mtx_cli' = "free"
  /\ rpc' = "next"
  /\ cur' = NoClient

\* Mutant: the task is queued twice.
ReqTaskTwice(c) ==
  /\ Alive
  /\ rpc = "read" /\ cur = c
  /\ inbox[c] # <<>>
  /\ LET m == Head(inbox[c])
     IN  /\ m.kind = "task" /\ m.oid \in task_map
         /\ task_queue' = [task_queue EXCEPT ![c] = @ \o <<m.tid, m.tid>>]
  /\ inbox' = [inbox EXCEPT ![c] = Tail(@)]
  /\ ReqUnlock
  /\ UNCHANGED <<clientVars, outbox, daemon, backlog, clients, todo, rsp, running, cmpl_queue>>

\* A request for a known operator is scheduled.
ReqTask(c) ==
  /\ Alive
  /\ rpc = "read" /\ cur = c
  /\ inbox[c] # <<>>
  /\ LET m == Head(inbox[c])
     IN  /\ m.kind = "task" /\ m.oid \in task_map
         /\ task_queue' = [task_queue EXCEPT ![c] = Append(@, m.tid)]
  /\ inbox' = [inbox EXCEPT ![c] = Tail(@)]
  /\ ReqUnlock
  /\ UNCHANGED <<clientVars, outbox, daemon, backlog, clients, todo, rsp, running, cmpl_queue>>

\* A request for an unknown operator is logged; then the end of task_map is
\* dereferenced.
ReqInvalid(c) ==
  /\ Alive
  /\ rpc = "read" /\ cur = c
  /\ inbox[c] # <<>>
  /\ Head(inbox[c]).kind = "task" /\ Head(inbox[c]).oid \notin task_map \cup {defOpClose}
  /\ daemon' = "crashed"
  /\ UNCHANGED <<clientVars, inbox, outbox, backlog, clients, reqVars, rsp, threadVars>>

\* A task with the opcode defOpClose: the socket is closed and the client
\* erased with its cThread, under the iterators of both loops.
ReqClose(c) ==
  /\ Alive
  /\ rpc = "read" /\ cur = c
  /\ inbox[c] # <<>>
  /\ Head(inbox[c]).kind \in {"task", "cut"} /\ Head(inbox[c]).oid = defOpClose
  /\ \/ daemon' = "crashed"
     \/ UNCHANGED daemon
  /\ clients' = clients \ {c}
  /\ cst' = [cst EXCEPT ![c] = "gone"]
  /\ inbox' = [inbox EXCEPT ![c] = <<>>]
  /\ outbox' = [outbox EXCEPT ![c] = <<>>]
  /\ ReqUnlock
  /\ UNCHANGED <<tid, backlog, todo, rsp, threadVars>>

\* Anything that is not a whole request is read and forgotten, as is the end of
\* the stream.
ReqNothing(c) ==
  /\ Alive
  /\ rpc = "read" /\ cur = c
  /\ \/ /\ inbox[c] # <<>>
        /\ \/ Head(inbox[c]).kind = "bye"
           \/ Head(inbox[c]).kind = "cut" /\ Head(inbox[c]).oid # defOpClose
        /\ inbox' = [inbox EXCEPT ![c] = Tail(@)]
     \/ /\ inbox[c] = <<>>
        /\ cst[c] = "gone"
        /\ UNCHANGED inbox
  /\ ReqUnlock
  /\ UNCHANGED <<clientVars, outbox, daemon, backlog, clients, todo, rsp, threadVars>>
-----------------------------------------------------------------------------
(* cThread::processRequests and the response thread. *)

TakeTask(c) ==
  /\ Alive
  /\ c \in clients
  /\ running[c] = NoTask
  /\ task_queue[c] # <<>>
  /\ running' = [running EXCEPT ![c] = Head(task_queue[c])]
  /\ task_queue' = [task_queue EXCEPT ![c] = Tail(@)]
  /\ UNCHANGED <<clientVars, inbox, outbox, daemon, backlog, clients, reqVars, rsp, cmpl_queue>>

\* Mutant: the tid is read after the task was moved from.
FinishTaskMoved(c) ==
  /\ Alive
  /\ running[c] # NoTask
  /\ cmpl_queue' = [cmpl_queue EXCEPT ![c] = Append(@, NoTask)]
  /\ running' = [running EXCEPT ![c] = NoTask]
  /\ UNCHANGED <<clientVars, inbox, outbox, daemon, backlog, clients, reqVars, rsp, task_queue>>

FinishTask(c) ==
  /\ Alive
  /\ running[c] # NoTask
  /\ cmpl_queue' = [cmpl_queue EXCEPT ![c] = Append(@, running[c])]
  /\ running' = [running EXCEPT ![c] = NoTask]
  /\ UNCHANGED <<clientVars, inbox, outbox, daemon, backlog, clients, reqVars, rsp, task_queue>>

\* A completion is popped and written to the socket.  If the client has closed
\* it, the write raises SIGPIPE, which the daemon neither ignores nor handles.
RspSend(c) ==
  /\ Alive
  /\ rsp
  /\ c \in clients
  /\ cmpl_queue[c] # <<>>
  /\ cmpl_queue' = [cmpl_queue EXCEPT ![c] = Tail(@)]
  /\ IF cst[c] = "gone"
     THEN daemon' = "crashed" /\ UNCHANGED outbox
     ELSE outbox' = [outbox EXCEPT ![c] = Append(@, Head(cmpl_queue[c]))] /\ UNCHANGED daemon
  /\ UNCHANGED <<clientVars, inbox, backlog, clients, reqVars, rsp, task_queue, running>>

\* while(run_rsp) ends.
RspExit ==
  /\ daemon = "stopping"
  /\ rsp
  /\ rsp' = FALSE
  /\ UNCHANGED <<clientVars, inbox, outbox, daemon, backlog, clients, reqVars, threadVars>>

Read(c) == ReqTask(c) \/ ReqInvalid(c) \/ ReqClose(c) \/ ReqNothing(c)

Thread(c) == TakeTask(c) \/ FinishTask(c)

Next ==
  \/ \E c \in Client :
       \/ Connect(c) \/ (\E o \in Oid : SendTask(c, o)) \/ ReadCompletion(c)
       \/ Disconnect(c) \/ Kill(c) \/ Cut(c)
       \/ accept_connection(c)
       \/ ReqLock(c) \/ Read(c)
       \/ Thread(c) \/ RspSend(c)
  \/ ReqPass \/ SigTerm \/ Exit \/ RspExit

Spec == Init /\ [][Next]_vars

\* The threads of the daemon poll for ever, tasks end, and a client takes the
\* completion it waits for.
Fairness ==
  /\ WF_vars(ReqPass) /\ WF_vars(Exit) /\ WF_vars(RspExit)
  /\ \A c \in Client :
       /\ SF_vars(accept_connection(c)) /\ SF_vars(ReqLock(c))
       /\ WF_vars(Read(c)) /\ WF_vars(Thread(c)) /\ WF_vars(RspSend(c))
       /\ WF_vars(ReadCompletion(c)) /\ WF_vars(Cut(c))

FairSpec == Spec /\ Fairness

\* Moreover no client keeps a connection it does not use.
BusyClients ==
  \A c \in Client : WF_vars((\E o \in Oid : SendTask(c, o)) \/ Disconnect(c))

BusySpec == FairSpec /\ BusyClients
-----------------------------------------------------------------------------
(* Properties. *)

\* The places where task n of client c is.
Places(c, n) ==
  LET In(s) == Cardinality({i \in DOMAIN s : s[i] = n})
  IN  Cardinality({i \in DOMAIN inbox[c] : inbox[c][i].kind = "task" /\ inbox[c][i].tid = n})
      + In(task_queue[c]) + (IF running[c] = n THEN 1 ELSE 0) + In(cmpl_queue[c]) + In(outbox[c])

\* While the daemon lives, a client that waits has exactly one request, task or
\* completion on its way, and a client that does not wait has none: no request
\* is lost or answered twice, and no completion reaches a later task.
OneAnswer ==
  Alive => \A c \in Client :
    /\ cst[c] = "waiting" => Places(c, tid[c]) = 1
    /\ \A n \in Tid : cst[c] # "gone" /\ (cst[c] # "waiting" \/ n # tid[c]) => Places(c, n) = 0

\* Every submitted task is answered, or the connection is cut, until SIGTERM,
\* which stops the response thread first.
TasksAnsweredUntilTerm ==
  \A c \in Client : cst[c] = "waiting" ~> cst[c] # "waiting" \/ daemon = "stopping"
=============================================================================
