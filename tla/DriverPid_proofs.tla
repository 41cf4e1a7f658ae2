--------------------------- MODULE DriverPid_proofs ---------------------------
(***************************************************************************)
(* The cpid table is sound for every N_CPID_MAX until one cpid too many is *)
(* registered, if each process holds one cProcess object and registers     *)
(* itself.                                                                 *)
(***************************************************************************)
EXTENDS DriverPid, FiniteSetTheorems, TLAPS

\* What the proofs ask of the users of the table.
OneEach ==
  /\ ProcOf = RegPidOf
  /\ \A c, d \in Obj : RegPidOf[c] = RegPidOf[d] => c = d

\* The ids the loop of init_fpga_devices assigns.
Proper == 0 .. N - 2

\* The list: proper free ids, each once, above the chunk the loop left out.
ListInv ==
  /\ Len(pid_alloc) >= 1 /\ pid_alloc[Len(pid_alloc)] = 0
  /\ \A i \in 1 .. Len(pid_alloc) - 1 : pid_alloc[i] \in Proper /\ ~used[pid_alloc[i]]
  /\ \A i, j \in 1 .. Len(pid_alloc) - 1 : pid_alloc[i] = pid_alloc[j] => i = j
  /\ \A k \in Proper : used[k] \/ \E i \in 1 .. Len(pid_alloc) - 1 : pid_alloc[i] = k
  /\ ~used[N - 1]

\* The object has a cpid and its entry in the hash.
Holds(c) == pid_cpid_map[RegPidOf[c]] # <<>>

\* The hash: an entry belongs to one object, which is live or being closed.
HashInv ==
  /\ \A c \in Obj : Holds(c) =>
       /\ pid_cpid_map[RegPidOf[c]] = <<cpid[c]>>
       /\ used[cpid[c]]
       /\ pid_array[cpid[c]] = RegPidOf[c]
       /\ st[c] \in {"live", "closing"}
  /\ \A c \in Obj : st[c] = "live" => Holds(c)
  /\ \A k \in Cpid : used[k] => \E c \in Obj : Holds(c) /\ cpid[c] = k

TableInv == TypeOK /\ ListInv /\ HashInv /\ ~oops

PidInv == ~full => TableInv
-----------------------------------------------------------------------------
LEMMA Constants ==
  /\ N \in Nat /\ N >= 2
  /\ ProcOf \in [Obj -> Pid] /\ RegPidOf \in [Obj -> Pid]
  /\ NoPid \notin Pid
BY PidAssumption

\* Removing the only element of a bucket empties it.
LEMMA RemoveOnly == ASSUME NEW k PROVE RemoveFirst(<<k>>, k) = <<>>
<1>1. \E i \in 1 .. Len(<<k>>) : <<k>>[i] = k
  OBVIOUS
<1>2. SelectInSeq(<<k>>, LAMBDA v : v = k) = 1
  <2>1. {i \in 1 .. Len(<<k>>) : <<k>>[i] = k} = {1}
    OBVIOUS
  <2>2. Min({1}) = 1
    BY DEF Min
  <2> QED
    BY <2>1, <2>2 DEF SelectInSeq
<1>3. RemoveAt(<<k>>, 1) = <<>>
  BY DEF RemoveAt
<1> QED
  BY <1>1, <1>2, <1>3 DEF RemoveFirst

\* Two objects hold different cpids: pid_array can name only one of them.
LEMMA HoldersDiffer ==
  ASSUME OneEach, HashInv, NEW c \in Obj, NEW d \in Obj,
         Holds(c), Holds(d), cpid[c] = cpid[d]
  PROVE  c = d
BY DEF OneEach, HashInv

\* While a slot is left the head of the list is a proper id.
LEMMA HeadIsProper ==
  ASSUME OneEach, TypeOK, ListInv, Cardinality(Used) < N - 1
  PROVE  Len(pid_alloc) >= 2
<1>1. Used \subseteq Proper
  BY Constants DEF Used, Proper, ListInv, Cpid
<1>2. IsFiniteSet(Proper) /\ Cardinality(Proper) = N - 1
  BY Constants, FS_Interval DEF Proper
<1>3. Used # Proper
  BY <1>2, Constants DEF OneEach
<1>4. PICK k \in Proper : k \notin Used
  BY <1>1, <1>3
<1>5. ~used[k]
  BY <1>4, Constants DEF Used, Proper, Cpid
<1>6. PICK i \in 1 .. Len(pid_alloc) - 1 : pid_alloc[i] = k
  BY <1>5 DEF ListInv
<1> QED
  BY <1>6 DEF TypeOK

-----------------------------------------------------------------------------
LEMMA InitInv == ASSUME OneEach, Init PROVE TableInv
<1>1. InitList \in Seq(Cpid) /\ Len(InitList) = N
  BY Constants DEF InitList, Cpid
<1>2. TypeOK
  <2>1. 0 \in Cpid
    BY Constants DEF Cpid
  <2>2. pid_cpid_map \in [Pid -> Seq(Cpid)]
    BY DEF Init
  <2>3. cpid \in [Obj -> Cpid]
    BY <2>1 DEF Init
  <2>4. used \in [Cpid -> BOOLEAN] /\ pid_array \in [Cpid -> Pid \cup {NoPid}]
    BY DEF Init
  <2>5. st \in [Obj -> {"none", "open", "live", "closing"}] /\ oops \in BOOLEAN
    BY DEF Init
  <2> QED
    BY <1>1, <2>2, <2>3, <2>4, <2>5 DEF TypeOK, Init
<1>3. ListInv
  <2>1. \A i \in 1 .. N - 1 : pid_alloc[i] = i - 1
    BY Constants DEF Init, InitList
  <2>2. pid_alloc[N] = 0
    BY Constants DEF Init, InitList
  <2>3. \A k \in Cpid : ~used[k]
    BY DEF Init
  <2>4. \A k \in Proper : k + 1 \in 1 .. N - 1 /\ pid_alloc[k + 1] = k
    BY <2>1, Constants DEF Proper
  <2>5. Proper \subseteq Cpid /\ N - 1 \in Cpid
    BY Constants DEF Proper, Cpid
  <2>6. Len(pid_alloc) = N
    BY <1>1 DEF Init
  <2> QED
    BY <2>1, <2>2, <2>3, <2>4, <2>5, <2>6, Constants DEF ListInv, Proper
<1>4. HashInv
  BY Constants DEF HashInv, Holds, Init
<1> QED
  BY <1>2, <1>3, <1>4 DEF TableInv, Init

LEMMA OpenStep ==
  ASSUME OneEach, TableInv, NEW c \in Obj, fpga_open(c)
  PROVE  TableInv'
<1>1. TypeOK'
  BY DEF fpga_open, TableInv, TypeOK
<1>2. ListInv'
  BY DEF fpga_open, TableInv, ListInv
<1>3. HashInv'
  BY Constants DEF fpga_open, TableInv, HashInv, Holds, TypeOK
<1> QED
  BY <1>1, <1>2, <1>3 DEF TableInv, fpga_open

LEMMA DieStep ==
  ASSUME OneEach, TableInv, NEW p \in Pid, Die(p)
  PROVE  TableInv'
<1>1. TypeOK'
  BY DEF Die, TableInv, TypeOK
<1>2. ListInv'
  BY DEF Die, TableInv, ListInv
<1>3. HashInv'
  BY Constants DEF Die, TableInv, HashInv, Holds, TypeOK
<1> QED
  BY <1>1, <1>2, <1>3 DEF TableInv, Die

LEMMA RegisterStep ==
  ASSUME OneEach, TableInv, NEW c \in Obj, register_pid(c), Cardinality(Used) < N - 1
  PROVE  TableInv'
<1> DEFINE k == Head(pid_alloc)
<1> DEFINE p == RegPidOf[c]
<1>1. Len(pid_alloc) >= 2 /\ Len(pid_alloc) \in Nat
  BY HeadIsProper DEF register_pid, TableInv, TypeOK
<1>2. k = pid_alloc[1] /\ k \in Proper /\ k \in Cpid /\ ~used[k]
  BY <1>1, Constants DEF TableInv, TypeOK, ListInv, Proper, Cpid
<1>3. p \in Pid /\ ~Holds(c) /\ pid_cpid_map[p] = <<>>
  BY Constants DEF register_pid, TableInv, HashInv, Holds
<1>4. /\ cpid' = [cpid EXCEPT ![c] = k]
      /\ used' = [used EXCEPT ![k] = TRUE]
      /\ pid_array' = [pid_array EXCEPT ![k] = p]
      /\ pid_cpid_map' = [pid_cpid_map EXCEPT ![p] = <<k>> \o pid_cpid_map[p]]
      /\ pid_alloc' = Tail(pid_alloc)
      /\ st' = [st EXCEPT ![c] = "live"]
      /\ full' \in BOOLEAN /\ oops' = oops
  BY DEF register_pid
<1>5. <<k>> \o pid_cpid_map[p] = <<k>>
  BY <1>3
<1>6. /\ pid_alloc' \in Seq(Cpid)
      /\ Len(pid_alloc') = Len(pid_alloc) - 1
      /\ \A i \in 1 .. Len(pid_alloc) - 1 : pid_alloc'[i] = pid_alloc[i + 1]
  BY <1>1, <1>4 DEF TableInv, TypeOK
<1> HIDE DEF k, p
<1>7. TypeOK'
  BY <1>2, <1>3, <1>4, <1>5, <1>6 DEF TableInv, TypeOK
<1>8. ListInv'
  <2>1. pid_alloc'[Len(pid_alloc')] = 0
    BY <1>1, <1>6 DEF TableInv, ListInv
  <2>2. \A i \in 1 .. Len(pid_alloc') - 1 :
          pid_alloc'[i] \in Proper /\ pid_alloc'[i] # k /\ ~used[pid_alloc'[i]]
    BY <1>1, <1>2, <1>6 DEF TableInv, ListInv
  <2>3. \A i \in 1 .. Len(pid_alloc') - 1 : ~used'[pid_alloc'[i]]
    BY <2>2, <1>4, Constants DEF TableInv, TypeOK, Proper, Cpid
  <2>4. \A i, j \in 1 .. Len(pid_alloc') - 1 : pid_alloc'[i] = pid_alloc'[j] => i = j
    BY <1>1, <1>6 DEF TableInv, ListInv
  <2>5. ASSUME NEW n \in Proper, ~used'[n]
        PROVE  \E i \in 1 .. Len(pid_alloc') - 1 : pid_alloc'[i] = n
    <3>1. n # k /\ ~used[n]
      BY <2>5, <1>2, <1>4, Constants DEF TableInv, TypeOK, Proper, Cpid
    <3>2. PICK i \in 1 .. Len(pid_alloc) - 1 : pid_alloc[i] = n
      BY <3>1 DEF TableInv, ListInv
    <3>3. i # 1
      BY <3>1, <3>2, <1>2
    <3>4. i - 1 \in 1 .. Len(pid_alloc') - 1
      BY <3>3, <1>1, <1>6
    <3>5. pid_alloc'[i - 1] = n
      BY <3>2, <3>3, <1>1, <1>6
    <3> QED
      BY <3>4, <3>5
  <2>6. ~used'[N - 1]
    BY <1>2, <1>4, Constants DEF TableInv, ListInv, TypeOK, Proper, Cpid
  <2> QED
    BY <1>1, <1>6, <2>1, <2>2, <2>3, <2>4, <2>5, <2>6 DEF ListInv
<1>9. HashInv'
  <2>1. Holds(c)' /\ pid_cpid_map'[RegPidOf[c]] = <<cpid'[c]>> /\ cpid'[c] = k
    BY <1>3, <1>4, <1>5 DEF Holds, p, TableInv, TypeOK
  <2>2. ASSUME NEW d \in Obj, d # c
        PROVE  /\ pid_cpid_map'[RegPidOf[d]] = pid_cpid_map[RegPidOf[d]]
               /\ Holds(d)' = Holds(d)
               /\ cpid'[d] = cpid[d] /\ st'[d] = st[d]
    BY <2>2, <1>4, Constants DEF OneEach, p, Holds, TableInv, TypeOK
  <2>3. ASSUME NEW d \in Obj, d # c, Holds(d)
        PROVE  cpid[d] # k /\ cpid[d] \in Cpid
    BY <2>3, <1>2 DEF TableInv, HashInv, TypeOK
  <2>4. ASSUME NEW d \in Obj, Holds(d)'
        PROVE  /\ pid_cpid_map'[RegPidOf[d]] = <<cpid'[d]>>
               /\ used'[cpid'[d]] /\ pid_array'[cpid'[d]] = RegPidOf[d]
               /\ st'[d] \in {"live", "closing"}
    <3>1. CASE d = c
      BY <3>1, <2>1, <1>2, <1>4 DEF p, TableInv, TypeOK
    <3>2. CASE d # c
      <4>1. Holds(d) /\ cpid'[d] = cpid[d]
        BY <3>2, <2>2, <2>4
      <4>2. cpid[d] # k /\ cpid[d] \in Cpid
        BY <3>2, <4>1, <2>3
      <4>3. used'[cpid[d]] = used[cpid[d]] /\ pid_array'[cpid[d]] = pid_array[cpid[d]]
        BY <4>2, <1>4 DEF TableInv, TypeOK
      <4> QED
        BY <3>2, <2>2, <4>1, <4>3 DEF TableInv, HashInv
    <3> QED
      BY <3>1, <3>2
  <2>5. \A d \in Obj : st'[d] = "live" => Holds(d)'
    BY <2>1, <2>2 DEF TableInv, HashInv
  <2>6. ASSUME NEW n \in Cpid, used'[n]
        PROVE  \E d \in Obj : Holds(d)' /\ cpid'[d] = n
    <3>1. CASE n = k
      BY <3>1, <2>1
    <3>2. CASE n # k
      <4>1. used[n]
        BY <3>2, <2>6, <1>4 DEF TableInv, TypeOK
      <4>2. PICK d \in Obj : Holds(d) /\ cpid[d] = n
        BY <4>1 DEF TableInv, HashInv
      <4>3. d # c
        BY <4>2, <1>3
      <4> QED
        BY <4>2, <4>3, <2>2
    <3> QED
      BY <3>1, <3>2
  <2> QED
    BY <2>4, <2>5, <2>6 DEF HashInv
<1> QED
  BY <1>4, <1>7, <1>8, <1>9 DEF TableInv

\* unregister_pid of the cpid that an object holds, with the deletion of its
\* entry: what the ioctl and the release have in common.
LEMMA GiveBackStep ==
  ASSUME OneEach, TableInv, NEW c \in Obj, Holds(c),
         unregister_pid(cpid[c]),
         pid_cpid_map' = [pid_cpid_map EXCEPT ![RegPidOf[c]] = <<>>],
         pid_array' = pid_array, cpid' = cpid, full' = full, oops' = oops,
         NEW s \in {"none", "closing"}, st' = [st EXCEPT ![c] = s]
  PROVE  TableInv'
<1> DEFINE k == cpid[c]
<1>1. k \in Cpid /\ used[k] /\ k # N - 1
  BY DEF TableInv, HashInv, TypeOK, ListInv
<1>2. k \in Proper
  BY <1>1, Constants DEF Proper, Cpid
<1>3. used' = [used EXCEPT ![k] = FALSE] /\ pid_alloc' = <<k>> \o pid_alloc
  BY <1>1 DEF unregister_pid
<1> HIDE DEF k
<1>4. /\ pid_alloc' \in Seq(Cpid)
      /\ Len(pid_alloc) \in Nat /\ Len(pid_alloc) >= 1
      /\ Len(pid_alloc') = Len(pid_alloc) + 1
      /\ pid_alloc'[1] = k
      /\ \A i \in 1 .. Len(pid_alloc) : pid_alloc'[i + 1] = pid_alloc[i]
  BY <1>1, <1>3 DEF TableInv, TypeOK, ListInv
<1>5. \A i \in 2 .. Len(pid_alloc') : i - 1 \in 1 .. Len(pid_alloc) /\ pid_alloc'[i] = pid_alloc[i - 1]
  <2> TAKE i \in 2 .. Len(pid_alloc')
  <2>1. i - 1 \in 1 .. Len(pid_alloc) /\ (i - 1) + 1 = i
    BY <1>4
  <2> QED
    BY <2>1, <1>4
<1>6. TypeOK'
  <2>1. pid_cpid_map' \in [Pid -> Seq(Cpid)]
    <3>1. <<>> \in Seq(Cpid)
      OBVIOUS
    <3> QED
      BY <3>1 DEF TableInv, TypeOK
  <2>2. st' \in [Obj -> {"none", "open", "live", "closing"}]
    BY DEF TableInv, TypeOK
  <2> QED
    BY <2>1, <2>2, <1>3, <1>4 DEF TableInv, TypeOK
<1>7. ListInv'
  <2>1. pid_alloc'[Len(pid_alloc')] = 0
    BY <1>4 DEF TableInv, ListInv
  <2>2. \A i \in 1 .. Len(pid_alloc) - 1 : pid_alloc[i] # k
    BY <1>1 DEF TableInv, ListInv
  <2>3. \A i \in 1 .. Len(pid_alloc') - 1 : pid_alloc'[i] \in Proper /\ ~used'[pid_alloc'[i]]
    <3> TAKE i \in 1 .. Len(pid_alloc') - 1
    <3>1. CASE i = 1
      BY <3>1, <1>1, <1>2, <1>3, <1>4 DEF TableInv, TypeOK
    <3>2. CASE i # 1
      <4>1. i - 1 \in 1 .. Len(pid_alloc) - 1 /\ pid_alloc'[i] = pid_alloc[i - 1]
        BY <3>2, <1>4, <1>5
      <4>2. pid_alloc[i - 1] \in Proper /\ ~used[pid_alloc[i - 1]]
        BY <4>1 DEF TableInv, ListInv
      <4>3. Proper \subseteq Cpid
        BY Constants DEF Proper, Cpid
      <4> QED
        BY <4>1, <4>2, <4>3, <1>3 DEF TableInv, TypeOK
    <3> QED
      BY <3>1, <3>2
  <2>4. \A i, j \in 1 .. Len(pid_alloc') - 1 : pid_alloc'[i] = pid_alloc'[j] => i = j
    <3> SUFFICES ASSUME NEW i \in 1 .. Len(pid_alloc') - 1, NEW j \in 1 .. Len(pid_alloc') - 1,
                        pid_alloc'[i] = pid_alloc'[j]
                 PROVE  i = j
      OBVIOUS
    <3>1. i # 1 => i - 1 \in 1 .. Len(pid_alloc) - 1 /\ pid_alloc'[i] = pid_alloc[i - 1]
      BY <1>4, <1>5
    <3>2. j # 1 => j - 1 \in 1 .. Len(pid_alloc) - 1 /\ pid_alloc'[j] = pid_alloc[j - 1]
      BY <1>4, <1>5
    <3>3. CASE i # 1 /\ j # 1
      BY <3>1, <3>2, <3>3 DEF TableInv, ListInv
    <3>4. CASE i = 1 \/ j = 1
      BY <3>1, <3>2, <3>4, <2>2, <1>4
    <3> QED
      BY <3>3, <3>4
  <2>5. ASSUME NEW n \in Proper, ~used'[n]
        PROVE  \E i \in 1 .. Len(pid_alloc') - 1 : pid_alloc'[i] = n
    <3>1. CASE n = k
      BY <3>1, <1>4
    <3>2. CASE n # k
      <4>1. ~used[n]
        BY <3>2, <2>5, <1>3 DEF TableInv, TypeOK
      <4>2. PICK i \in 1 .. Len(pid_alloc) - 1 : pid_alloc[i] = n
        BY <4>1 DEF TableInv, ListInv
      <4>3. i + 1 \in 1 .. Len(pid_alloc') - 1 /\ pid_alloc'[i + 1] = n
        BY <4>2, <1>4
      <4> QED
        BY <4>3
    <3> QED
      BY <3>1, <3>2
  <2>6. ~used'[N - 1]
    BY <1>1, <1>3, Constants DEF TableInv, ListInv, TypeOK, Cpid
  <2> QED
    BY <1>4, <2>1, <2>3, <2>4, <2>5, <2>6 DEF ListInv
<1>8. HashInv'
  <2>1. ~Holds(c)'
    BY Constants DEF Holds, TableInv, TypeOK
  <2>2. ASSUME NEW d \in Obj, d # c
        PROVE  /\ pid_cpid_map'[RegPidOf[d]] = pid_cpid_map[RegPidOf[d]]
               /\ Holds(d)' = Holds(d) /\ st'[d] = st[d]
    BY <2>2, Constants DEF OneEach, Holds, TableInv, TypeOK
  <2>3. ASSUME NEW d \in Obj, d # c, Holds(d)
        PROVE  cpid[d] # k /\ used'[cpid[d]] = used[cpid[d]]
    <3>1. cpid[d] # k
      BY <2>3, HoldersDiffer DEF k, TableInv
    <3> QED
      BY <3>1, <1>3 DEF TableInv, TypeOK
  <2>4. ASSUME NEW d \in Obj, Holds(d)'
        PROVE  /\ pid_cpid_map'[RegPidOf[d]] = <<cpid'[d]>>
               /\ used'[cpid'[d]] /\ pid_array'[cpid'[d]] = RegPidOf[d]
               /\ st'[d] \in {"live", "closing"}
    <3>1. d # c
      BY <2>1, <2>4
    <3>2. Holds(d)
      BY <3>1, <2>2, <2>4
    <3> QED
      BY <3>1, <3>2, <2>2, <2>3 DEF TableInv, HashInv
  <2>5. \A d \in Obj : st'[d] = "live" => Holds(d)'
    BY <2>2 DEF TableInv, HashInv, TypeOK
  <2>6. ASSUME NEW n \in Cpid, used'[n]
        PROVE  \E d \in Obj : Holds(d)' /\ cpid'[d] = n
    <3>1. n # k /\ used[n]
      BY <2>6, <1>1, <1>3 DEF TableInv, TypeOK
    <3>2. PICK d \in Obj : Holds(d) /\ cpid[d] = n
      BY <3>1 DEF TableInv, HashInv
    <3>3. d # c
      BY <3>1, <3>2 DEF k
    <3> QED
      BY <3>2, <3>3, <2>2
  <2> QED
    BY <2>4, <2>5, <2>6 DEF HashInv
<1> QED
  BY <1>6, <1>7, <1>8 DEF TableInv

LEMMA UnregisterStep ==
  ASSUME OneEach, TableInv, NEW c \in Obj, UnregisterIoctl(c)
  PROVE  TableInv'
<1>1. Holds(c) /\ pid_cpid_map[RegPidOf[c]] = <<cpid[c]>> /\ pid_array[cpid[c]] = RegPidOf[c]
  BY DEF UnregisterIoctl, TableInv, HashInv
<1>2. RemoveFirst(pid_cpid_map[RegPidOf[c]], cpid[c]) = <<>>
  BY <1>1, RemoveOnly
<1>3. pid_cpid_map' = [pid_cpid_map EXCEPT ![RegPidOf[c]] = <<>>]
  BY <1>1, <1>2 DEF UnregisterIoctl
<1> QED
  BY <1>1, <1>3, GiveBackStep DEF UnregisterIoctl

LEMMA ReleaseStep ==
  ASSUME OneEach, TableInv, NEW c \in Obj, fpga_release(c)
  PROVE  TableInv'
<1>1. ProcOf[c] = RegPidOf[c]
  BY DEF OneEach
<1>2. CASE Holds(c)
  <2>1. pid_cpid_map[RegPidOf[c]] = <<cpid[c]>>
    BY <1>2 DEF TableInv, HashInv
  <2>2. Head(<<cpid[c]>>) = cpid[c] /\ Tail(<<cpid[c]>>) = <<>> /\ <<cpid[c]>> # <<>>
    OBVIOUS
  <2>3. unregister_pid(cpid[c]) /\ pid_cpid_map' = [pid_cpid_map EXCEPT ![RegPidOf[c]] = <<>>]
    BY <1>1, <2>1, <2>2 DEF fpga_release
  <2> QED
    BY <1>2, <2>3, GiveBackStep DEF fpga_release
<1>3. CASE ~Holds(c)
  <2>1. /\ UNCHANGED <<pid_alloc, used, pid_cpid_map, pid_array, cpid, full, oops>>
        /\ st' = [st EXCEPT ![c] = "none"]
    BY <1>1, <1>3 DEF fpga_release, Holds
  <2>2. TypeOK'
    BY <2>1 DEF TableInv, TypeOK
  <2>3. ListInv'
    BY <2>1 DEF TableInv, ListInv
  <2>4. HashInv'
    BY <1>3, <2>1 DEF TableInv, HashInv, Holds, TypeOK
  <2> QED
    BY <2>1, <2>2, <2>3, <2>4 DEF TableInv
<1> QED
  BY <1>2, <1>3
-----------------------------------------------------------------------------
\* The invariant of a table that was never asked for too many cpids.
THEOREM TableInvariant == OneEach /\ Spec => []PidInv
<1> SUFFICES ASSUME OneEach PROVE Spec => []PidInv
  OBVIOUS
<1>1. Init => PidInv
  BY InitInv DEF PidInv
<1>2. PidInv /\ [Next]_vars => PidInv'
  <2> SUFFICES ASSUME PidInv, [Next]_vars, ~full' PROVE TableInv'
    BY DEF PidInv
  <2>1. CASE UNCHANGED vars
    <3>1. TableInv
      BY <2>1 DEF vars, PidInv
    <3>2. TypeOK'
      BY <2>1, <3>1 DEF vars, TableInv, TypeOK
    <3>3. ListInv'
      BY <2>1, <3>1 DEF vars, TableInv, ListInv
    <3>4. HashInv'
      BY <2>1, <3>1 DEF vars, TableInv, HashInv, Holds
    <3> QED
      BY <2>1, <3>1, <3>2, <3>3, <3>4 DEF vars, TableInv
  <2>2. ASSUME NEW c \in Obj, register_pid(c) \/ RegisterOops(c) PROVE TableInv'
    <3>1. ~full /\ TableInv /\ ~(Cardinality(Used) >= N - 1)
      BY <2>2 DEF register_pid, RegisterOops, PidInv
    <3>2. Cardinality(Used) < N - 1
      <4>1. Used \subseteq Cpid
        BY DEF Used
      <4>2. IsFiniteSet(Cpid)
        BY Constants, FS_Interval DEF Cpid
      <4>3. Cardinality(Used) \in Nat
        BY <4>1, <4>2, FS_Subset, FS_CardinalityType
      <4> QED
        BY <3>1, <4>3, Constants
    <3>3. pid_alloc # <<>>
      BY <3>1, <3>2, HeadIsProper DEF TableInv
    <3>4. register_pid(c)
      BY <2>2, <3>3 DEF RegisterOops
    <3> QED
      BY <3>1, <3>2, <3>4, RegisterStep
  <2>3. ASSUME NEW c \in Obj, fpga_open(c) PROVE TableInv'
    BY <2>3, OpenStep DEF fpga_open, PidInv
  <2>4. ASSUME NEW c \in Obj, UnregisterIoctl(c) PROVE TableInv'
    BY <2>4, UnregisterStep DEF UnregisterIoctl, PidInv
  <2>5. ASSUME NEW c \in Obj, fpga_release(c) PROVE TableInv'
    BY <2>5, ReleaseStep DEF fpga_release, PidInv
  <2>6. ASSUME NEW p \in Pid, Die(p) PROVE TableInv'
    BY <2>6, DieStep DEF Die, PidInv
  <2> QED
    BY <2>1, <2>2, <2>3, <2>4, <2>5, <2>6 DEF Next
<1> QED
  BY <1>1, <1>2, PTL DEF Spec

\* No two live cProcess objects share a cpid before the table is full, for
\* every size of it.
THEOREM CpidsUnique == OneEach /\ Spec => []CpidUnique
<1> SUFFICES ASSUME OneEach PROVE Spec => []CpidUnique
  OBVIOUS
<1>1. PidInv => CpidUnique
  BY HoldersDiffer DEF PidInv, TableInv, HashInv, CpidUnique, Unshared, Live
<1> QED
  BY <1>1, TableInvariant, PTL

\* The page fault handler finds the address space of every live object.
THEOREM FaultsFindTheirProcess == OneEach /\ Spec => []FaultsResolve
<1>1. PidInv => FaultsResolve
  BY DEF PidInv, TableInv, HashInv, FaultsResolve, Live
<1> QED
  BY <1>1, TableInvariant, PTL

\* Whatever dies, the cpid of a closed file is free again.
THEOREM CpidsComeBack == OneEach /\ Spec => [](~full => NoCpidLeak)
<1>1. PidInv => (~full => NoCpidLeak)
  BY DEF PidInv, TableInv, HashInv, NoCpidLeak
<1> QED
  BY <1>1, TableInvariant, PTL

\* The list runs dry only when too many cpids are asked for.
THEOREM ListNeverDry == OneEach /\ Spec => []NoOops
<1>1. PidInv => NoOops
  BY DEF PidInv, TableInv, NoOops
<1> QED
  BY <1>1, TableInvariant, PTL

-----------------------------------------------------------------------------
(* Types hold whoever uses the table, also when it is full. *)

\* What is left of a sequence of cpids when one of them is taken out.
LEMMA RemoveTyped ==
  ASSUME NEW q \in Seq(Cpid), NEW k
  PROVE  RemoveFirst(q, k) \in Seq(Cpid)
<1> DEFINE I == {i \in 1 .. Len(q) : q[i] = k}
<1>1. CASE I = {}
  BY <1>1 DEF RemoveFirst
<1>2. CASE I # {}
  <2>1. I \subseteq Nat /\ Len(q) \in Nat
    OBVIOUS
  <2>2. \E x \in I : \A y \in I : <<y, x>> \notin OpToRel(<, Nat)
    BY <1>2, <2>1, NatLessThanWellFounded, WFMin
  <2>3. \A x, y \in Nat : <<y, x>> \notin OpToRel(<, Nat) => x <= y
    <3>1. \A x, y \in Nat : y < x => <<y, x>> \in OpToRel(<, Nat)
      BY DEF OpToRel
    <3>2. \A x, y \in Nat : y < x \/ x <= y
      OBVIOUS
    <3> QED
      BY <3>1, <3>2
  <2>4. \E x \in I : \A y \in I : x <= y
    BY <2>1, <2>2, <2>3
  <2>5. Min(I) \in I
    BY <2>4 DEF Min
  <2>6. RemoveFirst(q, k) = RemoveAt(q, Min(I))
    BY <1>2 DEF RemoveFirst, SelectInSeq
  <2> DEFINE m == Min(I)
  <2>7. m \in 1 .. Len(q)
    BY <2>5
  <2> HIDE DEF m, I
  <2>8. SubSeq(q, 1, m - 1) \in Seq(Cpid) /\ SubSeq(q, m + 1, Len(q)) \in Seq(Cpid)
    BY <2>1, <2>7
  <2> QED
    BY <2>6, <2>8 DEF RemoveAt, m
<1> QED
  BY <1>1, <1>2

\* The table, the hash and the free list hold cpids and pids and nothing else,
\* also after one cpid too many was registered.
THEOREM TypeCorrect == Spec => []TypeOK
<1>1. Init => TypeOK
  <2> SUFFICES ASSUME Init PROVE TypeOK
    OBVIOUS
  <2>1. 0 \in Cpid /\ InitList \in Seq(Cpid)
    BY Constants DEF Cpid, InitList
  <2> QED
    BY <2>1 DEF Init, TypeOK
<1>2. TypeOK /\ [Next]_vars => TypeOK'
  <2> SUFFICES ASSUME TypeOK, [Next]_vars PROVE TypeOK'
    OBVIOUS
  <2> USE DEF TypeOK
  <2>1. CASE UNCHANGED vars
    BY <2>1 DEF vars
  <2>2. ASSUME NEW c \in Obj, fpga_open(c) \/ RegisterOops(c) PROVE TypeOK'
    BY <2>2 DEF fpga_open, RegisterOops
  <2>3. ASSUME NEW c \in Obj, register_pid(c) PROVE TypeOK'
    <3> DEFINE k == Head(pid_alloc)
    <3>1. k \in Cpid /\ Tail(pid_alloc) \in Seq(Cpid)
      BY <2>3 DEF register_pid
    <3>2. <<k>> \o pid_cpid_map[RegPidOf[c]] \in Seq(Cpid)
      BY <3>1, Constants
    <3>3. RegPidOf[c] \in Pid
      BY Constants
    <3> QED
      BY <2>3, <3>1, <3>2, <3>3 DEF register_pid
  <2>4. ASSUME NEW k \in Cpid, unregister_pid(k)
        PROVE  pid_alloc' \in Seq(Cpid) /\ used' \in [Cpid -> BOOLEAN]
    <3>1. <<k>> \o pid_alloc \in Seq(Cpid)
      OBVIOUS
    <3> QED
      BY <2>4, <3>1 DEF unregister_pid
  <2>5. ASSUME NEW c \in Obj, UnregisterIoctl(c) PROVE TypeOK'
    <3> DEFINE p == pid_array[cpid[c]]
    <3>1. p \in Pid => RemoveFirst(pid_cpid_map[p], cpid[c]) \in Seq(Cpid)
      BY RemoveTyped
    <3>2. pid_cpid_map' = [pid_cpid_map EXCEPT ![p] = RemoveFirst(@, cpid[c])]
      BY <2>5 DEF UnregisterIoctl
    <3> HIDE DEF p
    <3>3. pid_cpid_map' \in [Pid -> Seq(Cpid)]
      BY <3>1, <3>2
    <3>4. cpid[c] \in Cpid /\ unregister_pid(cpid[c])
      BY <2>5 DEF UnregisterIoctl
    <3>5. pid_alloc' \in Seq(Cpid) /\ used' \in [Cpid -> BOOLEAN]
      BY <2>4, <3>4
    <3> QED
      BY <2>5, <3>3, <3>5 DEF UnregisterIoctl
  <2>6. ASSUME NEW c \in Obj, fpga_release(c) PROVE TypeOK'
    <3> DEFINE p == ProcOf[c]
    <3>1. p \in Pid
      BY Constants
    <3>2. CASE pid_cpid_map[p] = <<>>
      BY <2>6, <3>2 DEF fpga_release
    <3>3. CASE pid_cpid_map[p] # <<>>
      <4>1. Head(pid_cpid_map[p]) \in Cpid /\ Tail(pid_cpid_map[p]) \in Seq(Cpid)
        BY <3>1, <3>3
      <4>2. unregister_pid(Head(pid_cpid_map[p]))
        BY <2>6, <3>3 DEF fpga_release
      <4>3. pid_alloc' \in Seq(Cpid) /\ used' \in [Cpid -> BOOLEAN]
        BY <2>4, <4>1, <4>2
      <4> QED
        BY <2>6, <3>1, <3>3, <4>1, <4>3 DEF fpga_release
    <3> QED
      BY <3>2, <3>3
  <2>7. ASSUME NEW p \in Pid, Die(p) PROVE TypeOK'
    BY <2>7 DEF Die
  <2> QED
    BY <2>1, <2>2, <2>3, <2>5, <2>6, <2>7 DEF Next
<1> QED
  BY <1>1, <1>2, PTL DEF Spec
=============================================================================
