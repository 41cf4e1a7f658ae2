------------------------------ MODULE VFpgaLock ------------------------------
(***************************************************************************)
(* What cProcess::pLock / pUnlock promise, independently of the scheduler: *)
(* one user at a time in the vFPGA, operators exchanged only while nobody  *)
(* is in it, and a scheduled user let in only with its operator loaded     *)
(* (if the service has a bitstream for it).                                *)
(***************************************************************************)
CONSTANTS Thread, Direct, Oid, NoOid

User == Thread \cup Direct

VARIABLES
  st,     \* each user: idle, waiting in pLock, or running on the vFPGA
  want,   \* the operator each scheduled user last asked for
  lib,    \* operators the service can load
  op      \* the operator in the vFPGA

vars == <<st, want, lib, op>>

Vacant == \A u \in User : st[u] # "run"

Init ==
  /\ st = [u \in User |-> "idle"]
  /\ want = [t \in Thread |-> NoOid]
  /\ lib = {}
  /\ op = NoOid

\* The service's set of operators changes while none of its users runs.
Provide(L) ==
  /\ \A t \in Thread : st[t] # "run"
  /\ lib' = L
  /\ UNCHANGED <<st, want, op>>

Request(u) ==
  /\ st[u] = "idle"
  /\ st' = [st EXCEPT ![u] = "wait"]
  /\ u \in Direct => want' = want
  /\ u \in Thread => \E o \in Oid : want' = [want EXCEPT ![u] = o]
  /\ UNCHANGED <<lib, op>>

Load(o) ==
  /\ Vacant
  /\ o \in lib
  /\ op' = o
  /\ UNCHANGED <<st, want, lib>>

Acquire(u) ==
  /\ st[u] = "wait"
  /\ Vacant
  /\ u \in Thread /\ want[u] \in lib => op = want[u]
  /\ st' = [st EXCEPT ![u] = "run"]
  /\ UNCHANGED <<want, lib, op>>

Release(u) ==
  /\ st[u] = "run"
  /\ st' = [st EXCEPT ![u] = "idle"]
  /\ UNCHANGED <<want, lib, op>>

\* The service dies: its users are gone, the vFPGA keeps its operator.
Abort ==
  /\ st' = [u \in User |-> IF u \in Thread THEN "idle" ELSE st[u]]
  /\ want' = [t \in Thread |-> NoOid]
  /\ lib' = {}
  /\ UNCHANGED op

Next ==
  \/ \E L \in SUBSET Oid : Provide(L)
  \/ \E u \in User : Request(u) \/ Acquire(u) \/ Release(u)
  \/ \E o \in Oid : Load(o)
  \/ Abort

Spec == Init /\ [][Next]_vars
=============================================================================
