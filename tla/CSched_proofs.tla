---------------------------- MODULE CSched_proofs ----------------------------
(***************************************************************************)
(* Proofs about the scheduler of module CSched, for any sets of threads,   *)
(* operators and priorities and any number of tasks and crashes.           *)
(***************************************************************************)
EXTENDS CSched, TLAPS

\* What the exclusion of scheduled threads rests on: every thread has a
\* cProcess of its own, and no task outlasts cmplTimeout.
Disciplined ==
  /\ \A t, u \in Thread : CpidOf[t] = CpidOf[u] => t = u
  /\ ~CanTimeout

Serves == spc \in {"plock", "rcnfg", "grant", "wait"}
Holds  == spc \in {"rcnfg", "grant", "wait"}

\* The users of plock: the scheduler for a round, or one direct thread.
PlockInv ==
  /\ Holds => plock = "held"
  /\ \A d \in Direct : upc[d] # "unlock"
  /\ \A d \in Direct : upc[d] = "run" => plock = "held" /\ ~Holds
  /\ \A d, e \in Direct : upc[d] = "run" /\ upc[e] = "run" => d = e

\* The scheduler's registers: what is announced is the request it serves, and
\* it believes loaded what the fabric holds.
RegisterInv ==
  /\ curr_req # NoReq <=> Serves
  /\ curr_run => spc = "wait"
  /\ spc = "wait" => curr_cpid = curr_req.cpid
  /\ spc \in {"grant", "wait"} => curr_oid = curr_req.oid
  /\ spc = "off" => curr_oid = NoOid
  /\ curr_oid \in bstreams => fabric = curr_oid

\* A request that is queued or being served belongs to a thread in pLock (or,
\* once announced, in its task); it is that thread's last one.
OwnerInv ==
  /\ \A r \in request_queue :
       load[r.thr] = r /\ upc[r.thr] = "wait" /\ r.cpid = CpidOf[r.thr]
  /\ curr_req # NoReq =>
       /\ curr_req.cpid = CpidOf[curr_req.thr]
       /\ spc # "wait" \/ curr_run => /\ curr_req \notin request_queue
                                      /\ load[curr_req.thr] = curr_req
                                      /\ upc[curr_req.thr] # "idle"
       /\ spc # "wait" => upc[curr_req.thr] = "wait"

\* A thread in its task is the one served; a thread in pLock is queued or served.
ThreadInv ==
  \A t \in Thread :
    /\ upc[t] # "idle" => load[t] \in Request /\ load[t].thr = t
    /\ Running(t) => curr_run /\ curr_req = load[t]
    /\ upc[t] = "wait" => \/ load[t] \in request_queue
                          \/ curr_req = load[t] /\ (spc = "wait" => curr_run)

SchedInv == PlockInv /\ RegisterInv /\ OwnerInv /\ ThreadInv
-----------------------------------------------------------------------------
(* Facts about the constants, one per use. *)

LEMMA Bounds == MaxTasks \in Nat /\ MaxCrashes \in Nat
  BY ConstantsAssumption

LEMMA CpidType == CpidOf \in [Thread -> Cpid]
  BY ConstantsAssumption

LEMMA NumberTypes == Oid \subseteq Nat /\ Cpid \subseteq Nat /\ Priority \subseteq Nat
  BY ConstantsAssumption

LEMMA Disjoint == \A t \in Thread, d \in Direct : t # d
  BY ConstantsAssumption

LEMMA NoReqFresh == NoReq \notin Request
  BY ConstantsAssumption

\* The fields of a request.
LEMMA RequestFields ==
  ASSUME NEW r \in Request
  PROVE  /\ r.thr \in Thread /\ r.cpid \in Cpid /\ r.oid \in Oid
         /\ r.priority \in Priority
  BY DEF Request

\* The cLoad that pLock queues.
NewLoad(t, o, p) ==
  [thr |-> t, no |-> tasks[t] + 1, cpid |-> CpidOf[t], oid |-> o, priority |-> p]

LEMMA pLockEffect ==
  ASSUME TypeOK, NEW t \in Thread, NEW o \in Oid, NEW p \in Priority, pLock(t, o, p)
  PROVE  /\ NewLoad(t, o, p) \in Request
         /\ NewLoad(t, o, p).thr = t /\ NewLoad(t, o, p).cpid = CpidOf[t]
         /\ request_queue' = request_queue \cup {NewLoad(t, o, p)}
         /\ load' = [load EXCEPT ![t] = NewLoad(t, o, p)]
         /\ upc[t] = "idle" /\ upc' = [upc EXCEPT ![t] = "wait"]
         /\ bypassed' = [bypassed EXCEPT ![t] = 0]
         /\ tasks' \in [User -> 0 .. MaxTasks]
         /\ UNCHANGED <<bstreams, fabric, plock, run, spc, curr_req, curr_oid,
                        curr_cpid, curr_run, crashes>>
<1>1. tasks[t] + 1 \in 1 .. MaxTasks /\ tasks' = [tasks EXCEPT ![t] = tasks[t] + 1]
  BY Bounds DEF pLock, TypeOK, User
<1>2. tasks' \in [User -> 0 .. MaxTasks]
  BY <1>1, Bounds DEF TypeOK, User
<1>3. NewLoad(t, o, p) \in Request
  BY <1>1, CpidType DEF Request, NewLoad
<1> QED
  BY <1>2, <1>3 DEF pLock, NewLoad
-----------------------------------------------------------------------------
\* TypeOK is not inductive as it stands: the scheduler reads curr_req's fields
\* and has a request exactly while it serves one.
TypeInv == TypeOK /\ (curr_req # NoReq <=> Serves)

LEMMA TypeInvInductive == Spec => []TypeInv
<1>1. ASSUME Init PROVE TypeInv
  <2>1. upc \in [User -> UserPc] /\ load \in [Thread -> Request \cup {NoReq}]
    BY <1>1 DEF Init, UserPc
  <2>2. tasks \in [User -> 0 .. MaxTasks] /\ crashes \in 0 .. MaxCrashes
    BY <1>1, Bounds DEF Init
  <2>3. bypassed \in [Thread -> Nat]
    BY <1>1 DEF Init
  <2>4. TypeOK
    BY <1>1, <2>1, <2>2, <2>3 DEF Init, TypeOK, SchedPc
  <2> QED
    BY <1>1, <2>4 DEF Init, TypeInv, Serves
<1>2. TypeInv /\ [Next]_vars => TypeInv'
  <2> SUFFICES ASSUME TypeInv, [Next]_vars PROVE TypeInv'
    OBVIOUS
  <2> USE DEF TypeInv, TypeOK, SchedPc, UserPc, schedVars, userVars, Serves
  <2>1. ASSUME NEW o \in Oid, addBitstream(o) \/ removeBitstream(o) \/ removeTask(o) PROVE TypeInv'
    BY <2>1 DEF addBitstream, removeBitstream, removeTask
  <2>2. CASE run_sched
    BY <2>2 DEF run_sched
  <2>3. CASE SchedPop
    BY <2>3, NoReqFresh DEF SchedPop, Tops
  <2>4. CASE SchedLock
    BY <2>4 DEF SchedLock
  <2>5. CASE SchedReconfigure
    BY <2>5, RequestFields DEF SchedReconfigure
  <2>6. CASE SchedGrant
    BY <2>6, RequestFields DEF SchedGrant
  <2>7. CASE SchedComplete \/ SchedTimeout
    BY <2>7 DEF SchedComplete, SchedTimeout, SchedRelease
  <2>8. CASE SchedStop \/ SchedExit
    BY <2>8 DEF SchedStop, SchedExit
  <2>9. ASSUME NEW t \in Thread, NEW o \in Oid, NEW p \in Priority, pLock(t, o, p)
        PROVE  TypeInv'
    BY <2>9, pLockEffect DEF User
  <2>10. ASSUME NEW t \in Thread, ThreadStep(t) PROVE TypeInv'
    BY <2>10 DEF ThreadStep, pLockReturn, pUnlock, pUnlockStore, User
  <2>11. ASSUME NEW d \in Direct, DirectRequest(d) \/ DirectStep(d) PROVE TypeInv'
    BY <2>11, Bounds DEF DirectRequest, DirectStep, DirectLock, DirectUnlock, User
  <2>12. CASE Crash
    <3>1. upc' \in [User -> UserPc] /\ load' \in [Thread -> Request \cup {NoReq}]
      BY <2>12 DEF Crash
    <3>2. bypassed' \in [Thread -> Nat] /\ crashes' \in 0 .. MaxCrashes
      BY <2>12, Bounds DEF Crash
    <3> QED
      BY <2>12, <3>1, <3>2 DEF Crash
  <2>13. CASE UNCHANGED vars
    BY <2>13 DEF vars
  <2> QED
    BY <2>1, <2>2, <2>3, <2>4, <2>5, <2>6, <2>7, <2>8, <2>9, <2>10, <2>11,
       <2>12, <2>13 DEF Next, SchedStep
<1> QED
  BY <1>1, <1>2, PTL DEF Spec

\* Type correctness of the scheduler: every step of every thread and of the
\* scheduler keeps each variable in its type.
THEOREM TypeCorrect == Spec => []TypeOK
  BY TypeInvInductive, PTL DEF TypeInv
-----------------------------------------------------------------------------
\* PlockInv needs no discipline: plock excludes direct threads from the region
\* while the scheduler has it, and from each other.
LEMMA PlockInvInductive == Spec => []PlockInv
<1>1. Init => PlockInv
  BY DEF Init, PlockInv, Holds, User
<1>2. PlockInv /\ TypeInv /\ [Next]_vars => PlockInv'
  <2> SUFFICES ASSUME PlockInv, TypeInv, [Next]_vars PROVE PlockInv'
    OBVIOUS
  <2> USE DEF TypeInv, TypeOK, schedVars, userVars, PlockInv, Holds
  <2>1. ASSUME NEW o \in Oid, addBitstream(o) \/ removeBitstream(o) \/ removeTask(o) PROVE PlockInv'
    BY <2>1 DEF addBitstream, removeBitstream, removeTask
  <2>2. CASE run_sched \/ SchedPop \/ SchedStop \/ SchedExit
    BY <2>2 DEF run_sched, SchedPop, SchedStop, SchedExit
  <2>3. CASE SchedLock
    BY <2>3 DEF SchedLock
  <2>4. CASE SchedReconfigure \/ SchedGrant
    BY <2>4 DEF SchedReconfigure, SchedGrant
  <2>5. CASE SchedComplete \/ SchedTimeout
    BY <2>5 DEF SchedComplete, SchedTimeout, SchedRelease
  <2>6. ASSUME NEW t \in Thread, NEW o \in Oid, NEW p \in Priority, pLock(t, o, p)
        PROVE  PlockInv'
    BY <2>6, Disjoint DEF pLock, User
  <2>7. ASSUME NEW t \in Thread, ThreadStep(t) PROVE PlockInv'
    BY <2>7, Disjoint DEF ThreadStep, pLockReturn, pUnlock, pUnlockStore, User
  <2>8. ASSUME NEW d \in Direct, DirectRequest(d) \/ DirectStep(d) PROVE PlockInv'
    BY <2>8 DEF DirectRequest, DirectStep, DirectLock, DirectUnlock, User
  <2>9. CASE Crash
    BY <2>9, Disjoint DEF Crash, User
  <2>10. CASE UNCHANGED vars
    BY <2>10 DEF vars
  <2> QED
    BY <2>1, <2>2, <2>3, <2>4, <2>5, <2>6, <2>7, <2>8, <2>9, <2>10 DEF Next, SchedStep
<1> QED
  BY <1>1, <1>2, TypeInvInductive, PTL DEF Spec

\* The vFPGA is reconfigured only by the scheduler, with plock in its hands and
\* no process without a scheduler inside the region: also when tasks outlive
\* cmplTimeout, when threads share a cpid and after crashes.
THEOREM Reconfigurations == Spec => ReconfigExclusive
<1>1. PlockInv /\ TypeInv /\ [Next]_vars
      => [fabric' # fabric => /\ plock = "held" /\ plock' = "held"
                             /\ \A d \in Direct : ~Running(d)]_vars
  <2> SUFFICES ASSUME PlockInv, Next, fabric' # fabric
               PROVE  /\ plock = "held" /\ plock' = "held"
                      /\ \A d \in Direct : ~Running(d)
    BY DEF vars
  <2>1. SchedReconfigure
    BY DEF Next, SchedStep, ThreadStep, DirectStep, addBitstream, removeBitstream, removeTask,
           run_sched, SchedPop, SchedLock, SchedGrant, SchedComplete, SchedTimeout,
           SchedRelease, SchedStop, SchedExit, pLock, pLockReturn, pUnlock, pUnlockStore,
           DirectRequest, DirectLock, DirectUnlock, Crash
  <2> QED
    BY <2>1 DEF SchedReconfigure, PlockInv, Holds, Running
<1> QED
  BY <1>1, PlockInvInductive, TypeInvInductive, PTL DEF Spec, ReconfigExclusive
-----------------------------------------------------------------------------
\* SchedInv is inductive when threads are disciplined.
LEMMA SchedInvInductive == ASSUME Disciplined PROVE Spec => []SchedInv
<1>1. Init => SchedInv
  BY DEF Init, SchedInv, PlockInv, RegisterInv, OwnerInv, ThreadInv, Serves, Holds,
         Running, User
<1>2. SchedInv /\ TypeInv /\ PlockInv' /\ [Next]_vars => SchedInv'
  <2> SUFFICES ASSUME SchedInv, TypeInv, PlockInv', [Next]_vars PROVE SchedInv'
    OBVIOUS
  <2> USE DEF TypeInv, TypeOK, schedVars, userVars, Serves, Holds, Running
  <2>1. ASSUME NEW o \in Oid, addBitstream(o) \/ removeBitstream(o) \/ removeTask(o) PROVE SchedInv'
    <3>1. RegisterInv'
      BY <2>1, NumberTypes DEF SchedInv, RegisterInv, NoOid, addBitstream, removeBitstream, removeTask
    <3>2. OwnerInv'
      BY <2>1 DEF SchedInv, OwnerInv, RegisterInv, ThreadInv, addBitstream, removeBitstream, removeTask
    <3>3. ThreadInv'
      BY <2>1 DEF SchedInv, ThreadInv, OwnerInv, RegisterInv, addBitstream, removeBitstream, removeTask
    <3> QED
      BY <3>1, <3>2, <3>3 DEF SchedInv
  <2>2. CASE run_sched
    <3>1. RegisterInv'
      BY <2>2 DEF SchedInv, RegisterInv, OwnerInv, run_sched
    <3>2. OwnerInv'
      BY <2>2 DEF SchedInv, OwnerInv, RegisterInv, ThreadInv, run_sched
    <3>3. ThreadInv'
      BY <2>2 DEF SchedInv, ThreadInv, OwnerInv, RegisterInv, run_sched
    <3> QED
      BY <3>1, <3>2, <3>3 DEF SchedInv
  <2>3. CASE SchedPop
    <3>1. RegisterInv'
      BY <2>3, RequestFields, NoReqFresh DEF SchedInv, RegisterInv, OwnerInv, SchedPop, Tops
    <3>2. OwnerInv'
      BY <2>3, RequestFields, NoReqFresh DEF SchedInv, OwnerInv, RegisterInv, ThreadInv, SchedPop, Tops
    <3>3. ThreadInv'
      BY <2>3, RequestFields, NoReqFresh DEF SchedInv, ThreadInv, OwnerInv, RegisterInv, SchedPop, Tops
    <3> QED
      BY <3>1, <3>2, <3>3 DEF SchedInv
  <2>4. CASE SchedLock
    <3>1. RegisterInv'
      BY <2>4, RequestFields, NoReqFresh DEF SchedInv, RegisterInv, OwnerInv, SchedLock
    <3>2. OwnerInv'
      BY <2>4, RequestFields, NoReqFresh DEF SchedInv, OwnerInv, RegisterInv, ThreadInv, SchedLock
    <3>3. ThreadInv'
      BY <2>4, RequestFields, NoReqFresh DEF SchedInv, ThreadInv, OwnerInv, RegisterInv, SchedLock
    <3> QED
      BY <3>1, <3>2, <3>3 DEF SchedInv
  <2>5. CASE SchedReconfigure
    <3>1. RegisterInv'
      BY <2>5, RequestFields, NoReqFresh DEF SchedInv, RegisterInv, OwnerInv, SchedReconfigure
    <3>2. OwnerInv'
      BY <2>5, RequestFields, NoReqFresh DEF SchedInv, OwnerInv, RegisterInv, ThreadInv, SchedReconfigure
    <3>3. ThreadInv'
      BY <2>5, RequestFields, NoReqFresh DEF SchedInv, ThreadInv, OwnerInv, RegisterInv, SchedReconfigure
    <3> QED
      BY <3>1, <3>2, <3>3 DEF SchedInv
  <2>6. CASE SchedGrant
    <3>1. RegisterInv'
      BY <2>6, RequestFields, NoReqFresh DEF SchedInv, RegisterInv, OwnerInv, SchedGrant
    <3>2. OwnerInv'
      BY <2>6, RequestFields, NoReqFresh DEF SchedInv, OwnerInv, RegisterInv, ThreadInv, SchedGrant
    <3>3. ThreadInv'
      BY <2>6, RequestFields, NoReqFresh DEF SchedInv, ThreadInv, OwnerInv, RegisterInv, SchedGrant
    <3> QED
      BY <3>1, <3>2, <3>3 DEF SchedInv
  <2>7. CASE SchedComplete
    <3>1. RegisterInv'
      BY <2>7, RequestFields, NoReqFresh DEF SchedInv, RegisterInv, OwnerInv, SchedComplete, SchedRelease, CmpltFree
    <3>2. OwnerInv'
      BY <2>7, RequestFields, NoReqFresh DEF SchedInv, OwnerInv, RegisterInv, ThreadInv, SchedComplete, SchedRelease, CmpltFree
    <3>3. ThreadInv'
      BY <2>7, RequestFields, NoReqFresh DEF SchedInv, ThreadInv, OwnerInv, RegisterInv, SchedComplete, SchedRelease, CmpltFree
    <3> QED
      BY <3>1, <3>2, <3>3 DEF SchedInv
  <2>8. CASE SchedStop \/ SchedExit
    <3>1. RegisterInv'
      BY <2>8, RequestFields, NoReqFresh DEF SchedInv, RegisterInv, OwnerInv, SchedStop, SchedExit
    <3>2. OwnerInv'
      BY <2>8, RequestFields, NoReqFresh DEF SchedInv, OwnerInv, RegisterInv, ThreadInv, SchedStop, SchedExit
    <3>3. ThreadInv'
      BY <2>8, RequestFields, NoReqFresh DEF SchedInv, ThreadInv, OwnerInv, RegisterInv, SchedStop, SchedExit
    <3> QED
      BY <3>1, <3>2, <3>3 DEF SchedInv
  <2>9. ASSUME NEW t \in Thread, NEW o \in Oid, NEW p \in Priority, pLock(t, o, p)
         PROVE  SchedInv'
    <3> DEFINE r == NewLoad(t, o, p)
    <3>a. r \in Request /\ r.thr = t /\ r.cpid = CpidOf[t]
      BY <2>9, pLockEffect
    <3>b. /\ request_queue' = request_queue \cup {r}
          /\ load' = [load EXCEPT ![t] = r]
          /\ upc[t] = "idle" /\ upc' = [upc EXCEPT ![t] = "wait"]
          /\ UNCHANGED <<spc, plock, curr_req, curr_oid, curr_cpid, curr_run, bstreams, fabric>>
      BY <2>9, pLockEffect
    <3> HIDE DEF r
    <3>1. RegisterInv'
      BY <3>b DEF SchedInv, RegisterInv
    <3>2. OwnerInv'
      <4>1. \A q \in request_queue : q.thr # t /\ q.thr \in Thread
        BY <3>b, RequestFields DEF SchedInv, OwnerInv
      <4>2. curr_req # NoReq /\ (spc # "wait" \/ curr_run) => curr_req.thr # t
        BY <3>b DEF SchedInv, OwnerInv
      <4> QED
        BY <3>a, <3>b, <4>1, <4>2, RequestFields DEF SchedInv, OwnerInv, User
    <3>3. ThreadInv'
      BY <3>a, <3>b, RequestFields, NoReqFresh DEF SchedInv, ThreadInv, User
    <3> QED
      BY <3>1, <3>2, <3>3 DEF SchedInv
  <2>10. ASSUME NEW t \in Thread, pLockReturn(t) PROVE SchedInv'
    <3>1. RegisterInv'
      BY <2>10, RequestFields, NoReqFresh DEF SchedInv, RegisterInv, OwnerInv, pLockReturn, User, CmpltFree, Disciplined
    <3>2. OwnerInv'
      BY <2>10, RequestFields, NoReqFresh DEF SchedInv, OwnerInv, RegisterInv, ThreadInv, pLockReturn, User, CmpltFree, Disciplined
    <3>3. ThreadInv'
      BY <2>10, RequestFields, NoReqFresh DEF SchedInv, ThreadInv, OwnerInv, RegisterInv, pLockReturn, User, CmpltFree, Disciplined
    <3> QED
      BY <3>1, <3>2, <3>3 DEF SchedInv
  <2>11. ASSUME NEW t \in Thread, pUnlock(t) PROVE SchedInv'
    <3>1. RegisterInv'
      BY <2>11, RequestFields, NoReqFresh DEF SchedInv, RegisterInv, OwnerInv, pUnlock, User, CmpltFree, Disciplined
    <3>2. OwnerInv'
      BY <2>11, RequestFields, NoReqFresh DEF SchedInv, OwnerInv, RegisterInv, ThreadInv, pUnlock, User, CmpltFree, Disciplined
    <3>3. ThreadInv'
      BY <2>11, RequestFields, NoReqFresh DEF SchedInv, ThreadInv, OwnerInv, RegisterInv, pUnlock, User, CmpltFree, Disciplined
    <3> QED
      BY <3>1, <3>2, <3>3 DEF SchedInv
  <2>12. ASSUME NEW t \in Thread, pUnlockStore(t) PROVE SchedInv'
    <3>1. RegisterInv'
      BY <2>12, RequestFields, NoReqFresh DEF SchedInv, RegisterInv, OwnerInv, pUnlockStore, User, CmpltFree, Disciplined
    <3>2. OwnerInv'
      BY <2>12, RequestFields, NoReqFresh DEF SchedInv, OwnerInv, RegisterInv, ThreadInv, pUnlockStore, User, CmpltFree, Disciplined
    <3>3. ThreadInv'
      BY <2>12, RequestFields, NoReqFresh DEF SchedInv, ThreadInv, OwnerInv, RegisterInv, pUnlockStore, User, CmpltFree, Disciplined
    <3> QED
      BY <3>1, <3>2, <3>3 DEF SchedInv
  <2>13. ASSUME NEW d \in Direct, DirectRequest(d) PROVE SchedInv'
    <3>1. RegisterInv'
      BY <2>13, Disjoint DEF SchedInv, RegisterInv, OwnerInv, DirectRequest, User
    <3>2. OwnerInv'
      BY <2>13, Disjoint, RequestFields, NoReqFresh DEF SchedInv, OwnerInv, RegisterInv, ThreadInv, DirectRequest, User
    <3>3. ThreadInv'
      BY <2>13, Disjoint, RequestFields, NoReqFresh DEF SchedInv, ThreadInv, OwnerInv, RegisterInv, DirectRequest, User
    <3> QED
      BY <3>1, <3>2, <3>3 DEF SchedInv
  <2>14. ASSUME NEW d \in Direct, DirectLock(d) \/ DirectUnlock(d) PROVE SchedInv'
    <3>1. RegisterInv'
      BY <2>14, Disjoint DEF SchedInv, RegisterInv, OwnerInv, DirectLock, DirectUnlock, User
    <3>2. OwnerInv'
      BY <2>14, Disjoint, RequestFields, NoReqFresh DEF SchedInv, OwnerInv, RegisterInv, ThreadInv, DirectLock, DirectUnlock, User
    <3>3. ThreadInv'
      BY <2>14, Disjoint, RequestFields, NoReqFresh DEF SchedInv, ThreadInv, OwnerInv, RegisterInv, DirectLock, DirectUnlock, User
    <3> QED
      BY <3>1, <3>2, <3>3 DEF SchedInv
  <2>15. CASE Crash
    <3>1. RegisterInv'
      BY <2>15, NumberTypes DEF SchedInv, RegisterInv, OwnerInv, Crash, User
    <3>2. OwnerInv'
      BY <2>15 DEF SchedInv, OwnerInv, RegisterInv, ThreadInv, Crash, User
    <3>3. ThreadInv'
      BY <2>15 DEF SchedInv, ThreadInv, OwnerInv, RegisterInv, Crash, User
    <3> QED
      BY <3>1, <3>2, <3>3 DEF SchedInv
  <2>16. CASE UNCHANGED vars
    <3>1. RegisterInv'
      BY <2>16 DEF SchedInv, RegisterInv, OwnerInv, vars
    <3>2. OwnerInv'
      BY <2>16 DEF SchedInv, OwnerInv, RegisterInv, ThreadInv, vars
    <3>3. ThreadInv'
      BY <2>16 DEF SchedInv, ThreadInv, OwnerInv, RegisterInv, vars
    <3> QED
      BY <3>1, <3>2, <3>3 DEF SchedInv
  <2> QED
    BY <2>1, <2>2, <2>3, <2>4, <2>5, <2>6, <2>7, <2>8, <2>9, <2>10, <2>11, <2>12, <2>13, <2>14, <2>15, <2>16, Disciplined
       DEF Next, SchedStep, ThreadStep, DirectStep, SchedTimeout, Disciplined
<1> QED
  BY <1>1, <1>2, TypeInvInductive, PlockInvInductive, PTL DEF Spec

\* The lock is exclusive: with one thread per cProcess and tasks shorter than
\* cmplTimeout no two threads are between pLock and pUnlock, however many
\* threads share the vFPGA, with or without the scheduler, across crashes.
THEOREM Exclusion == ASSUME Disciplined PROVE Spec => []MutualExclusion
<1>1. SchedInv /\ TypeInv => MutualExclusion
  <2> SUFFICES ASSUME SchedInv, TypeInv,
                      NEW u \in User, NEW v \in User, Running(u), Running(v)
               PROVE  u = v
    BY DEF MutualExclusion
  <2>1. CASE u \in Thread /\ v \in Thread
    BY <2>1 DEF SchedInv, ThreadInv, Running
  <2>2. CASE u \in Direct /\ v \in Direct
    BY <2>2 DEF SchedInv, PlockInv, Running
  <2>3. ASSUME NEW t \in Thread, NEW d \in Direct, Running(t), Running(d) PROVE FALSE
    BY <2>3 DEF SchedInv, PlockInv, ThreadInv, RegisterInv, Running, Holds
  <2> QED
    BY <2>1, <2>2, <2>3 DEF User
<1> QED
  BY <1>1, SchedInvInductive, TypeInvInductive, PTL

\* A running task finds its operator in the vFPGA.
THEOREM OperatorInPlace == ASSUME Disciplined PROVE Spec => []OperatorLoaded
<1>1. SchedInv => OperatorLoaded
  BY DEF SchedInv, OperatorLoaded, ThreadInv, RegisterInv
<1> QED
  BY <1>1, SchedInvInductive, PTL

\* No request of a waiting thread is dropped or announced to another one.
THEOREM RequestsKept == ASSUME Disciplined PROVE Spec => []NoLostRequest
<1>1. SchedInv /\ TypeInv => NoLostRequest
  BY NoReqFresh DEF SchedInv, TypeInv, TypeOK, NoLostRequest, ThreadInv, RegisterInv, OwnerInv
<1> QED
  BY <1>1, SchedInvInductive, TypeInvInductive, PTL
-----------------------------------------------------------------------------
\* While the scheduler brings a popped request to its grant, no queued request
\* of a higher priority has been bypassed yet.
BypassInv ==
  \A t \in Thread :
    /\ load[t] # NoReq => load[t].thr = t
    /\ load[t] \in request_queue =>
         /\ bypassed[t] <= 1
         /\ spc \in {"plock", "rcnfg", "grant"} /\ load[t].priority > curr_req.priority
              => bypassed[t] = 0

\* The priority order bounds how often a thread is overtaken, also when tasks
\* overrun cmplTimeout and when threads share a cProcess.
THEOREM BypassBounded == Spec => []BoundedBypass
<1>1. ASSUME PRIORITY PROVE Spec => []BypassInv
  <2>1. Init => BypassInv
    BY DEF Init, BypassInv
  <2>2. BypassInv /\ TypeInv /\ [Next]_vars => BypassInv'
    <3> SUFFICES ASSUME BypassInv, TypeInv, [Next]_vars PROVE BypassInv'
      OBVIOUS
    <3> USE DEF BypassInv, TypeInv, TypeOK, schedVars, userVars, Serves
    <3>1. CASE SchedPop
      <4>1. PICK r \in Tops(request_queue) : /\ curr_req' = r
                                             /\ request_queue' = request_queue \ {r}
        BY <3>1 DEF SchedPop
      <4>2. \A q \in request_queue : ~(q.priority > r.priority)
        BY <4>1, <1>1, RequestFields, NumberTypes DEF Tops, ServedBefore
      <4> QED
        BY <3>1, <4>1, <4>2 DEF SchedPop
    <3>2. CASE SchedGrant
      BY <3>2, RequestFields, NumberTypes DEF SchedGrant
    <3>3. ASSUME NEW t \in Thread, NEW o \in Oid, NEW p \in Priority, pLock(t, o, p)
          PROVE  BypassInv'
      <4> DEFINE r == NewLoad(t, o, p)
      <4>1. /\ load' = [load EXCEPT ![t] = r] /\ request_queue' = request_queue \cup {r}
            /\ bypassed' = [bypassed EXCEPT ![t] = 0] /\ UNCHANGED <<spc, curr_req>>
            /\ r \in Request /\ r.thr = t
        BY <3>3, pLockEffect
      <4> HIDE DEF r
      <4>2. \A u \in Thread \ {t} : load[u] \in request_queue \cup {r} => load[u] \in request_queue
        BY <4>1, NoReqFresh
      <4> QED
        BY <4>1, <4>2
    <3>4. CASE SchedLock \/ SchedReconfigure \/ SchedComplete \/ SchedTimeout \/ SchedExit
               \/ SchedStop \/ run_sched
      BY <3>4 DEF SchedLock, SchedReconfigure, SchedComplete, SchedTimeout, SchedRelease,
                  SchedExit, SchedStop, run_sched
    <3>5. ASSUME NEW t \in Thread, ThreadStep(t) PROVE BypassInv'
      BY <3>5 DEF ThreadStep, pLockReturn, pUnlock, pUnlockStore
    <3>6. ASSUME NEW d \in Direct, DirectRequest(d) \/ DirectStep(d) PROVE BypassInv'
      BY <3>6 DEF DirectRequest, DirectStep, DirectLock, DirectUnlock
    <3>7. ASSUME NEW o \in Oid, addBitstream(o) \/ removeBitstream(o) \/ removeTask(o) PROVE BypassInv'
      BY <3>7 DEF addBitstream, removeBitstream, removeTask
    <3>8. CASE Crash
      BY <3>8 DEF Crash
    <3>9. CASE UNCHANGED vars
      BY <3>9 DEF vars
    <3> QED
      BY <3>1, <3>2, <3>3, <3>4, <3>5, <3>6, <3>7, <3>8, <3>9 DEF Next, SchedStep
  <2> QED
    BY <2>1, <2>2, TypeInvInductive, PTL DEF Spec
<1>2. ASSUME PRIORITY PROVE BypassInv => BoundedBypass
  BY DEF BypassInv, BoundedBypass
<1>3. ASSUME ~PRIORITY PROVE BoundedBypass
  BY <1>3 DEF BoundedBypass
<1>4. CASE PRIORITY
  BY <1>1, <1>2, <1>4, PTL
<1>5. CASE ~PRIORITY
  BY <1>3, <1>5, PTL
<1> QED
  BY <1>4, <1>5
-----------------------------------------------------------------------------
(* The scheduler implements VFpgaLock. *)

\* The refinement mapping's values.
St   == [u \in User |-> IF upc[u] = "unlock" THEN "run" ELSE upc[u]]
Want == [t \in Thread |-> IF load[t] = NoReq THEN NoOid ELSE load[t].oid]

\* A step that leaves what the mapping reads alone is a stuttering step.
LEMMA Stutter ==
  ASSUME UNCHANGED <<upc, load, bstreams, fabric>>
  PROVE  UNCHANGED Abstract!vars
  BY DEF Abstract!vars

\* Nobody is in the vFPGA while the scheduler holds it without a grant.
LEMMA NobodyRuns ==
  ASSUME SchedInv, TypeInv, ~curr_run
  PROVE  /\ \A t \in Thread : St[t] # "run"
         /\ Holds => \A u \in User : St[u] # "run"
  BY DEF SchedInv, ThreadInv, PlockInv, Running, St, User, TypeInv, TypeOK, UserPc

\* The users of the vFPGA and the scheduler implement the abstract lock: every
\* step of theirs is one of its steps or leaves it unchanged.
THEOREM Refinement == ASSUME Disciplined PROVE Spec => ImplementsVFpgaLock
<1>1. Init => Abstract!Init
  BY DEF Init, Abstract!Init, Abstract!User, User
<1>2. SchedInv /\ TypeInv /\ [Next]_vars => [Abstract!Next]_(Abstract!vars)
  <2> SUFFICES ASSUME SchedInv, TypeInv, [Next]_vars
               PROVE  Abstract!Next \/ UNCHANGED Abstract!vars
    OBVIOUS
  <2> USE DEF schedVars, userVars
  <2>1. ASSUME NEW o \in Oid, addBitstream(o) \/ removeBitstream(o) \/ removeTask(o) PROVE Abstract!Next
    <3>1. ~curr_run /\ bstreams' \in SUBSET Oid
      BY <2>1 DEF addBitstream, removeBitstream, removeTask, SchedInv, RegisterInv, TypeInv, TypeOK
    <3>2. Abstract!Provide(bstreams')
      BY <2>1, <3>1, NobodyRuns DEF addBitstream, removeBitstream, removeTask, Abstract!Provide, St
    <3> QED
      BY <3>1, <3>2 DEF Abstract!Next
  <2>2. CASE run_sched \/ SchedPop \/ SchedLock \/ SchedGrant \/ SchedComplete \/ SchedStop
    BY <2>2, Stutter DEF run_sched, SchedPop, SchedLock, SchedGrant, SchedComplete,
                         SchedRelease, SchedStop
  <2>3. CASE SchedReconfigure
    <3>1. CASE fabric' = fabric
      BY <2>3, <3>1, Stutter DEF SchedReconfigure
    <3>2. CASE fabric' # fabric
      <4>1. fabric' = curr_req.oid /\ curr_req.oid \in bstreams /\ curr_req.oid \in Oid
        BY <2>3, <3>2 DEF SchedReconfigure, TypeInv, TypeOK
      <4>2. \A u \in User : St[u] # "run"
        BY <2>3, NobodyRuns DEF SchedReconfigure, SchedInv, RegisterInv, Holds
      <4>3. Abstract!Load(curr_req.oid)
        BY <2>3, <4>1, <4>2 DEF SchedReconfigure, Abstract!Load, Abstract!Vacant,
                                Abstract!User, User, St
      <4> QED
        BY <4>1, <4>3 DEF Abstract!Next
    <3> QED
      BY <3>1, <3>2
  <2>4. CASE SchedExit
    <3>1. ~curr_run /\ bstreams' \in SUBSET Oid
      BY <2>4 DEF SchedExit, SchedInv, RegisterInv
    <3>2. Abstract!Provide(bstreams')
      BY <2>4, <3>1, NobodyRuns DEF SchedExit, Abstract!Provide, St
    <3> QED
      BY <3>1, <3>2 DEF Abstract!Next
  <2>5. ASSUME NEW t \in Thread, NEW o \in Oid, NEW p \in Priority, pLock(t, o, p)
        PROVE  Abstract!Next
    <3> DEFINE r == NewLoad(t, o, p)
    <3>1. /\ r \in Request /\ r.oid = o /\ r # NoReq
          /\ load' = [load EXCEPT ![t] = r]
          /\ upc[t] = "idle" /\ upc' = [upc EXCEPT ![t] = "wait"]
          /\ UNCHANGED <<bstreams, fabric>>
      BY <2>5, pLockEffect, NoReqFresh DEF TypeInv, NewLoad
    <3> HIDE DEF r
    <3>2. t \in User /\ t \notin Direct
      BY Disjoint DEF User
    <3>3. St' = [St EXCEPT ![t] = "wait"] /\ St[t] = "idle"
      BY <3>1, <3>2 DEF St, TypeInv, TypeOK
    <3>4. Want' = [Want EXCEPT ![t] = o]
      BY <3>1 DEF Want, TypeInv, TypeOK
    <3>5. Abstract!Request(t)
      BY <3>1, <3>2, <3>3, <3>4 DEF Abstract!Request, St, Want
    <3> QED
      BY <3>2, <3>5 DEF Abstract!Next, Abstract!User, User
  <2>6. ASSUME NEW t \in Thread, pLockReturn(t) PROVE Abstract!Next
    <3>1. curr_req = load[t] /\ curr_run /\ spc = "wait" /\ load[t] # NoReq
      BY <2>6, RequestFields, CpidType DEF pLockReturn, SchedInv, RegisterInv, OwnerInv, TypeInv,
         TypeOK, Disciplined, Serves
    <3>2. \A u \in User : St[u] # "run"
      BY <2>6, <3>1 DEF pLockReturn, SchedInv, ThreadInv, OwnerInv, PlockInv, Running, St, User,
         TypeInv, TypeOK, UserPc, Holds
    <3>3. load[t].oid \in bstreams => fabric = load[t].oid
      BY <3>1 DEF SchedInv, RegisterInv
    <3>4. St' = [St EXCEPT ![t] = "run"] /\ St[t] = "wait" /\ t \in User
      BY <2>6 DEF pLockReturn, St, TypeInv, TypeOK, User
    <3>5. Want[t] = load[t].oid
      BY <3>1 DEF Want
    <3>6. UNCHANGED <<load, bstreams, fabric>>
      BY <2>6 DEF pLockReturn
    <3>7. Abstract!Acquire(t)
      BY <3>2, <3>3, <3>4, <3>5, <3>6
         DEF Abstract!Acquire, Abstract!Vacant, Abstract!User, User, St, Want
    <3> QED
      BY <3>4, <3>7 DEF Abstract!Next, Abstract!User, User
  <2>7. ASSUME NEW t \in Thread, pUnlock(t) \/ pUnlockStore(t)
        PROVE  Abstract!Next \/ UNCHANGED Abstract!vars
    <3>1. t \in User /\ St[t] = "run" /\ UNCHANGED <<load, bstreams, fabric>>
      BY <2>7 DEF pUnlock, pUnlockStore, St, User, TypeInv, TypeOK
    <3>2. CASE upc' = [upc EXCEPT ![t] = "idle"]
      <4>1. St' = [St EXCEPT ![t] = "idle"]
        BY <3>1, <3>2 DEF St, TypeInv, TypeOK
      <4>2. Abstract!Release(t)
        BY <3>1, <4>1 DEF Abstract!Release, St, Want
      <4> QED
        BY <3>1, <4>2 DEF Abstract!Next, Abstract!User, User
    <3>3. CASE upc[t] = "run" /\ upc' = [upc EXCEPT ![t] = "unlock"]
      <4>1. St' = St
        BY <3>1, <3>3 DEF St, TypeInv, TypeOK
      <4> QED
        BY <3>1, <4>1 DEF Abstract!vars, St, Want
    <3> QED
      BY <2>7, <3>2, <3>3 DEF pUnlock, pUnlockStore
  <2>8. ASSUME NEW d \in Direct, DirectRequest(d) PROVE Abstract!Next
    <3>1. d \in User /\ d \notin Thread
      BY Disjoint DEF User
    <3>2. St' = [St EXCEPT ![d] = "wait"] /\ St[d] = "idle"
      BY <2>8, <3>1 DEF DirectRequest, St, TypeInv, TypeOK
    <3>3. Abstract!Request(d)
      BY <2>8, <3>1, <3>2 DEF DirectRequest, Abstract!Request, St, Want
    <3> QED
      BY <3>1, <3>3 DEF Abstract!Next, Abstract!User, User
  <2>9. ASSUME NEW d \in Direct, DirectLock(d) PROVE Abstract!Next
    <3>1. d \in User /\ d \notin Thread
      BY Disjoint DEF User
    <3>2. \A u \in User : St[u] # "run"
      BY <2>9 DEF DirectLock, SchedInv, ThreadInv, RegisterInv, PlockInv, Running, Holds, St, User,
         TypeInv, TypeOK, UserPc
    <3>3. St' = [St EXCEPT ![d] = "run"] /\ St[d] = "wait"
      BY <2>9, <3>1 DEF DirectLock, St, TypeInv, TypeOK
    <3>4. Abstract!Acquire(d)
      BY <2>9, <3>1, <3>2, <3>3
         DEF DirectLock, Abstract!Acquire, Abstract!Vacant, Abstract!User, User, St, Want
    <3> QED
      BY <3>1, <3>4 DEF Abstract!Next, Abstract!User, User
  <2>10. ASSUME NEW d \in Direct, DirectUnlock(d) PROVE Abstract!Next
    <3>1. d \in User
      BY DEF User
    <3>2. St' = [St EXCEPT ![d] = "idle"] /\ St[d] = "run"
      BY <2>10, <3>1 DEF DirectUnlock, St, TypeInv, TypeOK
    <3>3. Abstract!Release(d)
      BY <2>10, <3>2 DEF DirectUnlock, Abstract!Release, St, Want
    <3> QED
      BY <3>1, <3>3 DEF Abstract!Next, Abstract!User, User
  <2>11. CASE Crash
    <3>1. St' = [u \in User |-> IF u \in Thread THEN "idle" ELSE St[u]]
      BY <2>11 DEF Crash, St
    <3>2. Want' = [t \in Thread |-> NoOid]
      BY <2>11 DEF Crash, Want
    <3>3. Abstract!Abort
      BY <2>11, <3>1, <3>2 DEF Crash, Abstract!Abort, Abstract!User, User, St, Want
    <3> QED
      BY <3>3 DEF Abstract!Next
  <2>12. CASE UNCHANGED vars
    BY <2>12, Stutter DEF vars
  <2> QED
    BY <2>1, <2>2, <2>3, <2>4, <2>5, <2>6, <2>7, <2>8, <2>9, <2>10, <2>11, <2>12, Disciplined
       DEF Next, SchedStep, ThreadStep, DirectStep, SchedTimeout, Disciplined
<1> QED
  BY <1>1, <1>2, SchedInvInductive, TypeInvInductive, PTL
     DEF Spec, ImplementsVFpgaLock, Abstract!Spec
=============================================================================
