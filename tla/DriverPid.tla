------------------------------ MODULE DriverPid ------------------------------
(***************************************************************************)
(* Coyote process ids: how the driver hands them to the cProcess objects   *)
(* of one vFPGA and takes them back (driver/fpga_fops.c, fpga_dev.c).      *)
(*                                                                         *)
(* A cProcess opens the device, registers the pid it works for, gets a     *)
(* cpid, and in its destructor unregisters and closes.  Closing runs       *)
(* fpga_release, which unregisters by the pid of the task that closes.     *)
(* The object of a daemon registers the pid of its client, not its own.    *)
(*                                                                         *)
(* A chunk list is linked through its chunks; since a chunk is linked at   *)
(* most once, the list is the sequence of the ids of its chunks.  The last *)
(* chunk of the array is linked, but the loop that numbers the chunks ends *)
(* before it: its id is the 0 of vzalloc.                                  *)
(***************************************************************************)
EXTENDS Naturals, Sequences, SequencesExt, FiniteSets

CONSTANTS
  Obj,        \* cProcess objects
  Pid,        \* host process ids
  ProcOf,     \* the process an object lives in: the task that closes its file
  RegPidOf,   \* the pid its constructor registers
  N,          \* N_CPID_MAX
  CanDie,     \* a process may end without running destructors
  NoPid       \* the zero of a fresh pid_array

ASSUME PidAssumption ==
  /\ IsFiniteSet(Obj)
  /\ ProcOf \in [Obj -> Pid] /\ RegPidOf \in [Obj -> Pid]
  /\ N \in Nat /\ N >= 2
  /\ CanDie \in BOOLEAN
  /\ NoPid \notin Pid

Cpid == 0 .. N - 1

VARIABLES
  pid_alloc,     \* the free list: ids of its chunks, head first
  used,          \* pid_chunks[.].used
  pid_array,     \* the pid registered for each cpid
  pid_cpid_map,  \* the hash: cpids entered for a pid, newest first
  st,            \* none, open, live (registered) or closing, for each object
  cpid,          \* the cpid the object was given
  full,          \* history: one cpid was registered with N - 1 in use
  oops           \* the kernel dereferenced the null end of the list

vars == <<pid_alloc, used, pid_array, pid_cpid_map, st, cpid, full, oops>>

\* The cpids handed out and not taken back.
Used == {k \in Cpid : used[k]}

\* An object uses its cpid from the registration to the destructor.
Live == {c \in Obj : st[c] = "live"}

TypeOK ==
  /\ pid_alloc \in Seq(Cpid)
  /\ used \in [Cpid -> BOOLEAN]
  /\ pid_array \in [Cpid -> Pid \cup {NoPid}]
  /\ pid_cpid_map \in [Pid -> Seq(Cpid)]
  /\ st \in [Obj -> {"none", "open", "live", "closing"}]
  /\ cpid \in [Obj -> Cpid]
  /\ full \in BOOLEAN /\ oops \in BOOLEAN

\* Mutant: chunks are numbered from 1.
InitListFromOne == [i \in 1 .. N |-> i]

\* The list init_fpga_devices builds.
InitList == [i \in 1 .. N |-> IF i = N THEN 0 ELSE i - 1]

Init ==
  /\ pid_alloc = InitList
  /\ used = [k \in Cpid |-> FALSE]
  /\ pid_array = [k \in Cpid |-> NoPid]
  /\ pid_cpid_map = [p \in Pid |-> <<>>]
  /\ st = [c \in Obj |-> "none"]
  /\ cpid = [c \in Obj |-> 0]
  /\ full = FALSE /\ oops = FALSE
-----------------------------------------------------------------------------
fpga_open(c) ==
  /\ st[c] = "none"
  /\ st' = [st EXCEPT ![c] = "open"]
  /\ UNCHANGED <<pid_alloc, used, pid_array, pid_cpid_map, cpid, full, oops>>

\* Mutant: the head is advanced before the pid is stored.
register_pidAdvanced(c) ==
  /\ st[c] = "open"
  /\ ~oops
  /\ Len(pid_alloc) > 1
  /\ LET k == Head(pid_alloc)
     IN  /\ cpid' = [cpid EXCEPT ![c] = k]
         /\ used' = [used EXCEPT ![k] = TRUE]
         /\ pid_array' = [pid_array EXCEPT ![pid_alloc[2]] = RegPidOf[c]]
         /\ pid_cpid_map' = [pid_cpid_map EXCEPT ![RegPidOf[c]] = <<k>> \o @]
  /\ pid_alloc' = Tail(pid_alloc)
  /\ st' = [st EXCEPT ![c] = "live"]
  /\ full' = (full \/ Cardinality(Used) >= N - 1)
  /\ UNCHANGED oops

\* IOCTL_REGISTER_PID.  num_free_pid_chunks is never decremented, so that its
\* test against 0 never fails.
register_pid(c) ==
  /\ st[c] = "open"
  /\ ~oops
  /\ pid_alloc # <<>>
  /\ LET k == Head(pid_alloc)
     IN  /\ cpid' = [cpid EXCEPT ![c] = k]
         /\ used' = [used EXCEPT ![k] = TRUE]
         /\ pid_array' = [pid_array EXCEPT ![k] = RegPidOf[c]]
         /\ pid_cpid_map' = [pid_cpid_map EXCEPT ![RegPidOf[c]] = <<k>> \o @]
  /\ pid_alloc' = Tail(pid_alloc)
  /\ st' = [st EXCEPT ![c] = "live"]
  /\ full' = (full \/ Cardinality(Used) >= N - 1)
  /\ UNCHANGED oops

\* The list is empty and its head is read: the driver is gone, with stat_lock
\* and card_pid_lock held.
RegisterOops(c) ==
  /\ st[c] = "open"
  /\ ~oops
  /\ pid_alloc = <<>>
  /\ oops' = TRUE
  /\ full' = (full \/ Cardinality(Used) >= N - 1)
  /\ UNCHANGED <<pid_alloc, used, pid_array, pid_cpid_map, st, cpid>>

\* Mutant: the chunk is marked free and not linked again.
unregister_pidLost(k) ==
  /\ used' = [used EXCEPT ![k] = FALSE]
  /\ UNCHANGED pid_alloc

\* unregister_pid: a chunk in use goes back to the head of the list.
unregister_pid(k) ==
  /\ used' = [used EXCEPT ![k] = FALSE]
  /\ pid_alloc' = IF used[k] THEN <<k>> \o pid_alloc ELSE pid_alloc

\* Mutant: the entry stays in the hash.
UnregisterIoctlKeepsEntry(c) ==
  /\ st[c] = "live"
  /\ ~oops
  /\ unregister_pid(cpid[c])
  /\ st' = [st EXCEPT ![c] = "closing"]
  /\ UNCHANGED <<pid_array, pid_cpid_map, cpid, full, oops>>

\* IOCTL_UNREGISTER_PID, the first step of ~cProcess.  hash_del unlinks the
\* entry the loop stands on, which ends the loop: one entry is deleted.
UnregisterIoctl(c) ==
  /\ st[c] = "live"
  /\ ~oops
  /\ LET p == pid_array[cpid[c]]
     IN  pid_cpid_map' = [pid_cpid_map EXCEPT ![p] = RemoveFirst(@, cpid[c])]
  /\ unregister_pid(cpid[c])
  /\ st' = [st EXCEPT ![c] = "closing"]
  /\ UNCHANGED <<pid_array, cpid, full, oops>>

\* The process of p ends: the kernel closes its files.
Die(p) ==
  /\ CanDie
  /\ \E c \in Obj : ProcOf[c] = p /\ st[c] # "none"
  /\ st' = [c \in Obj |-> IF ProcOf[c] = p /\ st[c] # "none" THEN "closing" ELSE st[c]]
  /\ UNCHANGED <<pid_alloc, used, pid_array, pid_cpid_map, cpid, full, oops>>

\* Mutant: only the hash entry goes.
fpga_releaseKeepsCpid(c) ==
  /\ st[c] = "closing"
  /\ pid_cpid_map' = [pid_cpid_map EXCEPT ![ProcOf[c]] =
                        IF @ = <<>> THEN @ ELSE Tail(@)]
  /\ st' = [st EXCEPT ![c] = "none"]
  /\ UNCHANGED <<pid_alloc, used, pid_array, cpid, full, oops>>

\* close(fd): the newest entry under the closing task's pid is unregistered,
\* whichever object it belongs to.
fpga_release(c) ==
  /\ st[c] = "closing"
  /\ LET p == ProcOf[c]
     IN  IF pid_cpid_map[p] = <<>>
         THEN UNCHANGED <<pid_alloc, used, pid_cpid_map>>
         ELSE /\ ~oops
              /\ unregister_pid(Head(pid_cpid_map[p]))
              /\ pid_cpid_map' = [pid_cpid_map EXCEPT ![p] = Tail(@)]
  /\ st' = [st EXCEPT ![c] = "none"]
  /\ UNCHANGED <<pid_array, cpid, full, oops>>

Next ==
  \/ \E c \in Obj : \/ fpga_open(c) \/ register_pid(c) \/ RegisterOops(c)
                    \/ UnregisterIoctl(c) \/ fpga_release(c)
  \/ \E p \in Pid : Die(p)

Spec == Init /\ [][Next]_vars
-----------------------------------------------------------------------------
\* Two live cProcess objects never share a cpid, the tag that keeps their TLB
\* entries and completion counters apart: "cProcess objects are isolated and
\* don't share any state" (cProcess.hpp).
Unshared == \A c, d \in Live : cpid[c] = cpid[d] => c = d

\* That holds until all cpids but one are in use and one more is registered:
\* the last chunk is then handed out, whose id init_fpga_devices leaves 0.
CpidUnique == ~full => Unshared

\* The page fault handler finds the address space of a live object: until one
\* too many is registered pid_array holds the pid the object registered.
FaultsResolve ==
  ~full => \A c \in Live : pid_array[cpid[c]] = RegPidOf[c]

\* A cpid is in use only while an object that was given it has not closed its
\* file: ended processes give their cpids back.
NoCpidLeak ==
  \A k \in Cpid : used[k] => \E c \in Obj : st[c] \in {"live", "closing"} /\ cpid[c] = k

\* register_pid reads the null end of the list only when too many cpids
\* are in use: no run of registrations and deaths loses a chunk.
NoOops == oops => full
=============================================================================
