------------------------------- MODULE CSched -------------------------------
(***************************************************************************)
(* The vFPGA scheduler of sw/src/cSched.cpp and the lock it implements for *)
(* the tasks of a daemon: cProcess::pLock / cProcess::pUnlock.             *)
(*                                                                         *)
(* A scheduled thread (a cThread of the daemon, whose cProcess has a       *)
(* csched) asks for the vFPGA by queueing a cLoad and waits until the      *)
(* scheduler thread announces its cpid.  A direct thread (of a process     *)
(* without a scheduler) takes the system-wide named mutex plock itself.    *)
(*                                                                         *)
(* Every critical section of the code is one step.  pUnlock is two steps,  *)
(* because it tests curr_cpid and stores curr_run under mtx_cmplt only,    *)
(* while the scheduler writes both under mtx_rcnfg.                        *)
(***************************************************************************)
EXTENDS Integers, FiniteSets

CONSTANTS
  Thread,       \* cThreads of the daemon: their cProcess has a csched
  Direct,       \* threads of processes without a scheduler
  Cpid,         \* Coyote process ids
  CpidOf,       \* the cpid of the cProcess each daemon thread runs in
  Oid,          \* operator ids
  Priority,     \* task priorities
  PRIORITY,     \* cSched(vfid, priority, .): order by priority
  REORDER,      \* cSched(vfid, ., reorder): order by operator id
  EN_PR,        \* fcnfg.en_pr: the shell supports partial reconfiguration
  CanTimeout,   \* a task may hold the vFPGA for longer than cmplTimeout
  CanStop,      \* the scheduler object may be destroyed
  MaxTasks,     \* bound: tasks a thread runs
  MaxCrashes,   \* bound: times the daemon dies and is started again
  NoReq         \* no request in the scheduler's hands

User == Thread \cup Direct

\* The initial values of curr_oid and curr_cpid.
NoOid  == -1
NoCpid == -1

\* struct cLoad.  thr and no identify the request: they name the pLock call
\* that queued it and are read by no action.
Request ==
  [thr : Thread, no : 1 .. MaxTasks, cpid : Cpid, oid : Oid, priority : Priority]

ASSUME ConstantsAssumption ==
  /\ Thread \cap Direct = {}
  /\ CpidOf \in [Thread -> Cpid]
  /\ Cpid \subseteq Nat /\ Oid \subseteq Nat /\ Priority \subseteq Nat
  /\ {PRIORITY, REORDER, EN_PR, CanTimeout, CanStop} \subseteq BOOLEAN
  /\ MaxTasks \in Nat /\ MaxCrashes \in Nat
  /\ NoReq \notin Request

VARIABLES
  bstreams,       \* operators whose bitstream is in the bitstream map
  fabric,         \* the operator the vFPGA is configured with
  plock,          \* the named mutex of the vFPGA region
  run,            \* cSched::run
  spc,            \* where the scheduler thread is
  request_queue,  \* queued cLoads
  curr_req,       \* the cLoad the scheduler is serving
  curr_oid,       \* the operator the scheduler believes is loaded
  curr_cpid,      \* the cpid the vFPGA is announced to
  curr_run,       \* the announced task has not completed
  upc,            \* where each user thread is
  load,           \* the cLoad of each thread's last pLock
  tasks,          \* tasks each thread has started
  bypassed,       \* history: lower-priority grants since the pLock
  crashes         \* daemon crashes so far

schedVars == <<run, spc, request_queue, curr_req, curr_oid>>
userVars  == <<upc, load, tasks, bypassed>>
vars == <<bstreams, fabric, plock, schedVars, curr_cpid, curr_run, userVars, crashes>>

SchedPc == {"off", "loop", "plock", "rcnfg", "grant", "wait", "done"}
UserPc  == {"idle", "wait", "run", "unlock"}

TypeOK ==
  /\ bstreams \subseteq Oid
  /\ fabric \in Oid \cup {NoOid}
  /\ plock \in {"free", "held"}
  /\ run \in BOOLEAN
  /\ spc \in SchedPc
  /\ request_queue \subseteq Request
  /\ curr_req \in Request \cup {NoReq}
  /\ curr_oid \in Oid \cup {NoOid}
  /\ curr_cpid \in Cpid \cup {NoCpid}
  /\ curr_run \in BOOLEAN
  /\ upc \in [User -> UserPc]
  /\ load \in [Thread -> Request \cup {NoReq}]
  /\ tasks \in [User -> 0 .. MaxTasks]
  /\ bypassed \in [Thread -> Nat]
  /\ crashes \in 0 .. MaxCrashes

Init ==
  /\ bstreams = {}
  /\ fabric = NoOid
  /\ plock = "free"
  /\ run = FALSE
  /\ spc = "off"
  /\ request_queue = {}
  /\ curr_req = NoReq
  /\ curr_oid = NoOid
  /\ curr_cpid = NoCpid
  /\ curr_run = FALSE
  /\ upc = [u \in User |-> "idle"]
  /\ load = [t \in Thread |-> NoReq]
  /\ tasks = [u \in User |-> 0]
  /\ bypassed = [t \in Thread |-> 0]
  /\ crashes = 0
-----------------------------------------------------------------------------
(* The bitstream map, filled before the service runs. *)

\* A second bitstream for an operator throws; the map is not changed then.
addBitstream(o) ==
  /\ spc = "off"
  /\ o \notin bstreams
  /\ bstreams' = bstreams \cup {o}
  /\ UNCHANGED <<fabric, plock, schedVars, curr_cpid, curr_run, userVars, crashes>>

removeBitstream(o) ==
  /\ spc = "off"
  /\ o \in bstreams
  /\ bstreams' = bstreams \ {o}
  /\ UNCHANGED <<fabric, plock, schedVars, curr_cpid, curr_run, userVars, crashes>>
\* cService::removeTask erases the operator's bitstream from the map, and not
\* its function from the task map.
removeTask(o) ==
  /\ spc = "off"
  /\ bstreams' = bstreams \ {o}
  /\ UNCHANGED <<fabric, plock, schedVars, curr_cpid, curr_run, userVars, crashes>>
-----------------------------------------------------------------------------
(* The scheduler thread. *)

\* Mutant: the comparison of priorities the wrong way round.
ServedBeforeReversed(q, r) ==
  \/ PRIORITY /\ r.priority > q.priority
  \/ REORDER /\ r.priority = q.priority /\ r.oid > q.oid

\* taskCmprSched: q is to be served before r.
ServedBefore(q, r) ==
  \/ PRIORITY /\ r.priority < q.priority
  \/ REORDER /\ r.priority = q.priority /\ r.oid > q.oid

\* What request_queue.top() may return.  With reorder and no priority the
\* comparison is not a strict weak order, and the top is any element.
Tops(Q) ==
  IF REORDER /\ ~PRIORITY
  THEN Q
  ELSE {r \in Q : \A q \in Q : ~ServedBefore(q, r)}

\* cService::run starts the scheduler only on a reconfigurable shell.
run_sched ==
  /\ spc = "off"
  /\ EN_PR
  /\ run' = TRUE
  /\ spc' = "loop"
  /\ UNCHANGED <<bstreams, fabric, plock, request_queue, curr_req, curr_oid,
                 curr_cpid, curr_run, userVars, crashes>>

SchedPop ==
  /\ spc = "loop"
  /\ \E r \in Tops(request_queue) :
       /\ curr_req' = r
       /\ request_queue' = request_queue \ {r}
  /\ spc' = "plock"
  /\ UNCHANGED <<bstreams, fabric, plock, run, curr_oid, curr_cpid, curr_run,
                 userVars, crashes>>

\* Mutant: the scheduler does not wait for plock.
SchedLockNoWait ==
  /\ spc = "plock"
  /\ plock' = "held"
  /\ spc' = "rcnfg"
  /\ UNCHANGED <<bstreams, fabric, run, request_queue, curr_req, curr_oid,
                 curr_cpid, curr_run, userVars, crashes>>

SchedLock ==
  /\ spc = "plock"
  /\ plock = "free"
  /\ plock' = "held"
  /\ spc' = "rcnfg"
  /\ UNCHANGED <<bstreams, fabric, run, request_queue, curr_req, curr_oid,
                 curr_cpid, curr_run, userVars, crashes>>

\* Mutant: only the first request of the service reconfigures the vFPGA.
SchedReconfigureOnce ==
  /\ spc = "rcnfg"
  /\ fabric' = IF curr_oid = NoOid /\ curr_req.oid \in bstreams
               THEN curr_req.oid ELSE fabric
  /\ curr_oid' = curr_req.oid
  /\ spc' = "grant"
  /\ UNCHANGED <<bstreams, plock, run, request_queue, curr_req, curr_cpid,
                 curr_run, userVars, crashes>>

\* reconfigure(oid) does nothing for an operator without a bitstream, and
\* curr_oid is updated all the same.
SchedReconfigure ==
  /\ spc = "rcnfg"
  /\ fabric' = IF curr_oid # curr_req.oid /\ curr_req.oid \in bstreams
               THEN curr_req.oid ELSE fabric
  /\ curr_oid' = curr_req.oid
  /\ spc' = "grant"
  /\ UNCHANGED <<bstreams, plock, run, request_queue, curr_req, curr_cpid,
                 curr_run, userVars, crashes>>

\* Mutant: the fields of the cLoad confused.
SchedGrantSwapped ==
  /\ spc = "grant"
  /\ curr_cpid' = curr_req.oid
  /\ curr_run' = TRUE
  /\ spc' = "wait"
  /\ UNCHANGED <<bstreams, fabric, plock, run, request_queue, curr_req,
                 curr_oid, userVars, crashes>>

SchedGrant ==
  /\ spc = "grant"
  /\ curr_cpid' = curr_req.cpid
  /\ curr_run' = TRUE
  /\ spc' = "wait"
  /\ bypassed' = [t \in Thread |->
       IF load[t] \in request_queue /\ load[t].priority > curr_req.priority
       THEN bypassed[t] + 1 ELSE bypassed[t]]
  /\ UNCHANGED <<bstreams, fabric, plock, run, request_queue, curr_req,
                 curr_oid, upc, load, tasks, crashes>>

\* mtx_cmplt is held by a thread between the two steps of pUnlock.
CmpltFree == \A t \in Thread : upc[t] # "unlock"

\* The end of one round: cv_cmplt.wait_for returns and plock is released.
SchedRelease ==
  /\ plock' = "free"
  /\ spc' = "loop"
  /\ curr_req' = NoReq
  /\ UNCHANGED <<bstreams, fabric, run, request_queue, curr_oid, curr_cpid,
                 curr_run, userVars, crashes>>

\* Mutant: the wait on cv_cmplt has no predicate.
SchedCompleteNoPredicate ==
  /\ spc = "wait"
  /\ CmpltFree
  /\ SchedRelease

SchedComplete ==
  /\ spc = "wait"
  /\ CmpltFree
  /\ ~curr_run
  /\ SchedRelease

\* "Task failed": curr_run and curr_cpid keep their values.
SchedTimeout ==
  /\ CanTimeout
  /\ spc = "wait"
  /\ CmpltFree
  /\ curr_run
  /\ SchedRelease

\* The destructor clears run; the thread leaves its loop when the queue is
\* empty, and the destructor then drops the bitstreams.  (Its loop erases from
\* the map it walks; where that ends the process, it is a Crash.)
SchedStop ==
  /\ CanStop
  /\ run
  /\ run' = FALSE
  /\ UNCHANGED <<bstreams, fabric, plock, spc, request_queue, curr_req, curr_oid,
                 curr_cpid, curr_run, userVars, crashes>>

\* Mutant: the loop ends with requests in the queue.
SchedExitEarly ==
  /\ spc = "loop"
  /\ ~run
  /\ spc' = "done"
  /\ bstreams' = {}
  /\ UNCHANGED <<fabric, plock, run, request_queue, curr_req, curr_oid,
                 curr_cpid, curr_run, userVars, crashes>>

SchedExit ==
  /\ spc = "loop"
  /\ ~run
  /\ request_queue = {}
  /\ spc' = "done"
  /\ bstreams' = {}
  /\ UNCHANGED <<fabric, plock, run, request_queue, curr_req, curr_oid,
                 curr_cpid, curr_run, userVars, crashes>>
-----------------------------------------------------------------------------
(* cProcess::pLock and cProcess::pUnlock. *)

\* Clients are accepted once run() has got past run_sched.
Serving == spc # "off" \/ ~EN_PR

\* pLock of a scheduled thread: queue the request, then wait.
pLock(t, o, p) ==
  /\ Serving
  /\ upc[t] = "idle"
  /\ tasks[t] < MaxTasks
  /\ LET r == [thr |-> t, no |-> tasks[t] + 1, cpid |-> CpidOf[t], oid |-> o, priority |-> p]
     IN  /\ request_queue' = request_queue \cup {r}
         /\ load' = [load EXCEPT ![t] = r]
  /\ upc' = [upc EXCEPT ![t] = "wait"]
  /\ tasks' = [tasks EXCEPT ![t] = @ + 1]
  /\ bypassed' = [bypassed EXCEPT ![t] = 0]
  /\ UNCHANGED <<bstreams, fabric, plock, run, spc, curr_req, curr_oid,
                 curr_cpid, curr_run, crashes>>

\* The wait on cv_rcnfg ends when the predicate holds.
pLockReturn(t) ==
  /\ upc[t] = "wait"
  /\ curr_run
  /\ curr_cpid = CpidOf[t]
  /\ upc' = [upc EXCEPT ![t] = "run"]
  /\ UNCHANGED <<bstreams, fabric, plock, schedVars, curr_cpid, curr_run, load,
                 tasks, bypassed, crashes>>

\* The task is over: pUnlock tests curr_cpid ...
pUnlock(t) ==
  /\ upc[t] = "run"
  /\ CmpltFree
  /\ upc' = [upc EXCEPT ![t] = IF curr_cpid = CpidOf[t] THEN "unlock" ELSE "idle"]
  /\ UNCHANGED <<bstreams, fabric, plock, schedVars, curr_cpid, curr_run, load,
                 tasks, bypassed, crashes>>

\* ... and then reports the completion.
pUnlockStore(t) ==
  /\ upc[t] = "unlock"
  /\ curr_run' = FALSE
  /\ upc' = [upc EXCEPT ![t] = "idle"]
  /\ UNCHANGED <<bstreams, fabric, plock, schedVars, curr_cpid, load, tasks,
                 bypassed, crashes>>

\* Without a scheduler pLock and pUnlock are plock.lock() and plock.unlock().
DirectRequest(d) ==
  /\ upc[d] = "idle"
  /\ tasks[d] < MaxTasks
  /\ upc' = [upc EXCEPT ![d] = "wait"]
  /\ tasks' = [tasks EXCEPT ![d] = @ + 1]
  /\ UNCHANGED <<bstreams, fabric, plock, schedVars, curr_cpid, curr_run, load,
                 bypassed, crashes>>

DirectLock(d) ==
  /\ upc[d] = "wait"
  /\ plock = "free"
  /\ plock' = "held"
  /\ upc' = [upc EXCEPT ![d] = "run"]
  /\ UNCHANGED <<bstreams, fabric, schedVars, curr_cpid, curr_run, load, tasks,
                 bypassed, crashes>>

DirectUnlock(d) ==
  /\ upc[d] = "run"
  /\ plock' = "free"
  /\ upc' = [upc EXCEPT ![d] = "idle"]
  /\ UNCHANGED <<bstreams, fabric, schedVars, curr_cpid, curr_run, load, tasks,
                 bypassed, crashes>>
-----------------------------------------------------------------------------
\* The daemon dies (a kill, a throwing reconfigure, exit in the SIGTERM
\* handler) and is started again: its memory is new, while the vFPGA and the
\* named mutex keep their state.
Crash ==
  /\ crashes < MaxCrashes
  /\ crashes' = crashes + 1
  /\ bstreams' = {}
  /\ run' = FALSE
  /\ spc' = "off"
  /\ request_queue' = {}
  /\ curr_req' = NoReq
  /\ curr_oid' = NoOid
  /\ curr_cpid' = NoCpid
  /\ curr_run' = FALSE
  /\ upc' = [u \in User |-> IF u \in Thread THEN "idle" ELSE upc[u]]
  /\ load' = [t \in Thread |-> NoReq]
  /\ bypassed' = [t \in Thread |-> 0]
  /\ UNCHANGED <<fabric, plock, tasks>>

SchedStep == SchedPop \/ SchedLock \/ SchedReconfigure \/ SchedGrant \/ SchedComplete \/ SchedExit

ThreadStep(t) == pLockReturn(t) \/ pUnlock(t) \/ pUnlockStore(t)

DirectStep(d) == DirectLock(d) \/ DirectUnlock(d)

Next ==
  \/ \E o \in Oid : addBitstream(o) \/ removeBitstream(o) \/ removeTask(o)
  \/ run_sched
  \/ SchedStep
  \/ SchedTimeout
  \/ SchedStop
  \/ \E t \in Thread : (\E o \in Oid, p \in Priority : pLock(t, o, p)) \/ ThreadStep(t)
  \/ \E d \in Direct : DirectRequest(d) \/ DirectStep(d)
  \/ Crash

Spec == Init /\ [][Next]_vars

\* The scheduler thread polls forever, a notified thread runs, and a task
\* ends: nothing obliges a thread to start a task or the daemon to crash.
Fairness ==
  /\ WF_vars(run_sched)
  /\ WF_vars(SchedStep)
  /\ \A t \in Thread : WF_vars(ThreadStep(t))
  /\ \A d \in Direct : WF_vars(DirectStep(d))

FairSpec == Spec /\ Fairness
-----------------------------------------------------------------------------
(* Properties. *)

\* The thread is between the return of pLock and the end of pUnlock.
Running(u) == upc[u] \in {"run", "unlock"}

\* At most one thread holds the vFPGA, whether it got it from the scheduler
\* or from plock: what cProcess::pLock promises, "Obtain vFPGA lock".
MutualExclusion ==
  \A u, v \in User : Running(u) /\ Running(v) => u = v

\* A task runs on the operator it asked for: while it holds the vFPGA the
\* region is configured with it, across crashes of the daemon as well, when
\* the scheduler's curr_oid and the fabric disagree.
OperatorLoaded ==
  \A t \in Thread : Running(t) /\ load[t].oid \in bstreams => fabric = load[t].oid

\* No pLock is forgotten: the request of a waiting thread is queued, or it is
\* the one being served and, once announced, still announced to its cpid.
NoLostRequest ==
  \A t \in Thread : upc[t] = "wait" =>
    \/ load[t] \in request_queue
    \/ /\ curr_req = load[t]
       /\ spc = "wait" => curr_run /\ curr_cpid = CpidOf[t]

\* With the priority flag at most one task of a lower priority gets the vFPGA
\* between a pLock and its grant: the one the scheduler had already popped.
BoundedBypass ==
  PRIORITY => \A t \in Thread : load[t] \in request_queue => bypassed[t] <= 1

\* A reconfiguration happens only with plock in the scheduler's hands and no
\* other process inside the region, even when tasks overrun cmplTimeout.
ReconfigExclusive ==
  [][fabric' # fabric =>
       /\ plock = "held" /\ plock' = "held"
       /\ \A d \in Direct : ~Running(d)]_vars

\* Every pLock returns: of a thread of the daemon if the scheduler was running
\* when it asked (a destroyed scheduler serves what is queued first), of a
\* thread without scheduler always.
LockGranted ==
  /\ \A t \in Thread : upc[t] = "wait" /\ run ~> upc[t] = "run"
  /\ \A d \in Direct : upc[d] = "wait" ~> upc[d] = "run"

\* The scheduler and its users implement an exclusive lock on the vFPGA that
\* is only acquired with the wanted operator in place.
Abstract == INSTANCE VFpgaLock WITH
  st   <- [u \in User |-> IF upc[u] = "unlock" THEN "run" ELSE upc[u]],
  want <- [t \in Thread |-> IF load[t] = NoReq THEN NoOid ELSE load[t].oid],
  lib  <- bstreams,
  op   <- fabric

ImplementsVFpgaLock == Abstract!Spec
=============================================================================
