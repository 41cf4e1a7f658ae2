--------------------------- MODULE DriverPR_proofs ---------------------------
(***************************************************************************)
(* Bitstream memory, for every number of regions, operators, addresses and *)
(* page arrays: the page arrays have one owner each, the hash of the       *)
(* driver agrees with what the daemons have mapped, and a reconfiguration  *)
(* loads the operator that was asked for.                                  *)
(***************************************************************************)
EXTENDS DriverPR, FiniteSetTheorems, TLAPS

\* What a daemon knows: the call it is in is about an operator, and the
\* addresses in its bitstream map are mapped and differ.
DaemonInv ==
  \A r \in Region :
    /\ pc[r] # "idle" => oid[r] \in Oid
    /\ pc[r] \in {"fill", "free"} => bstreams[r][oid[r]] # NoVaddr
    /\ \A o \in Oid : bstreams[r][o] # NoVaddr => bstreams[r][o] \in mapped_pages[r]
    /\ \A o, p \in Oid : bstreams[r][o] # NoVaddr /\ bstreams[r][o] = bstreams[r][p] => o = p

\* Entry i of the hash is for address v of region r.
IsFor(i, r, v) == pr_buff_map[i].reg = r /\ pr_buff_map[i].vaddr = v

\* Every address a daemon has mapped is in the hash, whatever failed or died.
MappedFound ==
  \A r \in Region : \A v \in mapped_pages[r] :
    \E i \in DOMAIN pr_buff_map : IsFor(i, r, v)

\* The memory of a bitstream holds it, unless it is just being read in.
Filled ==
  ~died /\ ~failed /\ ~prc_lock =>
    \A r \in Region : \A o \in Oid :
      bstreams[r][o] # NoVaddr /\ ~(pc[r] = "fill" /\ oid[r] = o) =>
        \A i \in DOMAIN pr_buff_map :
          IsFor(i, r, bstreams[r][o]) => content[pr_buff_map[i].pg] = o

\* PagesOwned and MapAgrees entry by entry, the form the steps preserve.
OwnedInv ==
  ~failed =>
    /\ \A p \in Page : p \in pages <=> p = curr_buff \/ \E i \in DOMAIN pr_buff_map : pr_buff_map[i].pg = p
    /\ \A i, j \in DOMAIN pr_buff_map : pr_buff_map[i].pg = pr_buff_map[j].pg => i = j
    /\ \A i \in DOMAIN pr_buff_map : pr_buff_map[i].pg # curr_buff

AgreesInv ==
  ~died /\ ~prc_lock =>
    /\ \A i \in DOMAIN pr_buff_map : pr_buff_map[i].vaddr \in mapped_pages[pr_buff_map[i].reg]
    /\ \A i, j \in DOMAIN pr_buff_map :
         IsFor(j, pr_buff_map[i].reg, pr_buff_map[i].vaddr) => i = j

PRInv ==
  /\ TypeOK /\ DaemonInv /\ MappedFound
  /\ OwnedInv /\ AgreesInv /\ Filled /\ RightBitstream
-----------------------------------------------------------------------------
(* The walk over the hash. *)

LEMMA LeastNat ==
  ASSUME NEW S, S \subseteq Nat, S # {}
  PROVE  \E x \in S : \A y \in S : x <= y
<1>1. \E x \in S : \A y \in S : <<y, x>> \notin OpToRel(<, Nat)
  BY NatLessThanWellFounded, WFMin
<1>2. \A x, y \in Nat : y < x => <<y, x>> \in OpToRel(<, Nat)
  BY DEF OpToRel
<1>3. \A x, y \in Nat : y < x \/ x <= y
  OBVIOUS
<1> QED
  BY <1>1, <1>2, <1>3

\* A set of positions that is not empty has a first and a last one.
LEMMA Extremes ==
  ASSUME NEW n \in Nat, NEW I, I \subseteq 1 .. n, I # {}
  PROVE  /\ Min(I) \in I /\ \A j \in I : Min(I) <= j
         /\ Max(I) \in I /\ \A j \in I : Max(I) >= j
<1>1. \E x \in I : \A y \in I : x <= y
  <2>1. I \subseteq Nat
    OBVIOUS
  <2> QED
    BY <2>1, LeastNat
<1>2. \E x \in I : \A y \in I : x >= y
  <2> DEFINE J == {n - i : i \in I}
  <2>1. \A i \in I : i \in Nat /\ n - i \in Nat
    OBVIOUS
  <2>2. J \subseteq Nat /\ J # {}
    BY <2>1
  <2>3. PICK x \in J : \A y \in J : x <= y
    BY <2>2, LeastNat
  <2>4. PICK i \in I : x = n - i
    OBVIOUS
  <2>5. \A y \in I : n - i <= n - y
    BY <2>3, <2>4
  <2>6. \A y \in I : i >= y
    BY <2>1, <2>5
  <2> QED
    BY <2>6
<1> QED
  BY <1>1, <1>2 DEF Min, Max

\* The newest and the oldest entry of an address in the hash are entries of it.
LEMMA WalkFinds ==
  ASSUME pr_buff_map \in Seq(Buffer), NEW r, NEW v,
         \E i \in DOMAIN pr_buff_map : IsFor(i, r, v)
  PROVE  /\ Newest(r, v) \in DOMAIN pr_buff_map /\ IsFor(Newest(r, v), r, v)
         /\ Oldest(r, v) \in DOMAIN pr_buff_map /\ IsFor(Oldest(r, v), r, v)
<1> DEFINE I == {i \in 1 .. Len(pr_buff_map) : pr_buff_map[i].vaddr = v /\ pr_buff_map[i].reg = r}
<1>1. I # {} /\ I \subseteq 1 .. Len(pr_buff_map) /\ Len(pr_buff_map) \in Nat
  BY DEF IsFor
<1>2. Newest(r, v) = Min(I) /\ Oldest(r, v) = Max(I)
  BY <1>1 DEF Newest, Oldest, SelectInSeq, SelectLastInSeq
<1>3. Min(I) \in I /\ Max(I) \in I
  BY <1>1, Extremes
<1> QED
  BY <1>2, <1>3 DEF IsFor

LEMMA EntryTyped ==
  ASSUME pr_buff_map \in Seq(Buffer), NEW i \in DOMAIN pr_buff_map
  PROVE  pr_buff_map[i].vaddr \in Vaddr /\ pr_buff_map[i].reg \in Region /\ pr_buff_map[i].pg \in Page
<1>1. pr_buff_map[i] \in Buffer
  OBVIOUS
<1> QED
  BY <1>1 DEF Buffer

\* A new entry comes first and moves the others back by one.
LEMMA Prepended ==
  ASSUME pr_buff_map \in Seq(Buffer), NEW b \in Buffer, pr_buff_map' = <<b>> \o pr_buff_map
  PROVE  /\ pr_buff_map' \in Seq(Buffer)
         /\ DOMAIN pr_buff_map' = 1 .. Len(pr_buff_map) + 1
         /\ pr_buff_map'[1] = b
         /\ \A i \in DOMAIN pr_buff_map : i + 1 \in DOMAIN pr_buff_map' /\ pr_buff_map'[i + 1] = pr_buff_map[i]
         /\ \A j \in DOMAIN pr_buff_map' :
              j # 1 => j - 1 \in DOMAIN pr_buff_map /\ pr_buff_map'[j] = pr_buff_map[j - 1]
OBVIOUS

\* Where the entry was that is at j when entry k is gone.
Before(k, j) == IF j < k THEN j ELSE j + 1

LEMMA Removed ==
  ASSUME pr_buff_map \in Seq(Buffer), NEW k \in DOMAIN pr_buff_map,
         pr_buff_map' = RemoveAt(pr_buff_map, k)
  PROVE  /\ pr_buff_map' \in Seq(Buffer)
         /\ \A j \in DOMAIN pr_buff_map' :
              /\ Before(k, j) \in DOMAIN pr_buff_map /\ Before(k, j) # k
              /\ pr_buff_map'[j] = pr_buff_map[Before(k, j)]
         /\ \A i \in DOMAIN pr_buff_map :
              i # k => \E j \in DOMAIN pr_buff_map' : Before(k, j) = i
         /\ \A i, j \in DOMAIN pr_buff_map' : Before(k, i) = Before(k, j) => i = j
<1> DEFINE n == Len(pr_buff_map)
           s == SubSeq(pr_buff_map, 1, k - 1)
           t == SubSeq(pr_buff_map, k + 1, n)
<1>1. n \in Nat /\ k \in 1 .. n /\ DOMAIN pr_buff_map = 1 .. n
  OBVIOUS
<1>2. s \in Seq(Buffer) /\ Len(s) = k - 1 /\ \A i \in 1 .. k - 1 : s[i] = pr_buff_map[i]
  BY <1>1
<1>3. t \in Seq(Buffer) /\ Len(t) = n - k /\ \A i \in 1 .. n - k : t[i] = pr_buff_map[k + i]
  BY <1>1
<1>4. pr_buff_map' = s \o t
  BY DEF RemoveAt
<1> HIDE DEF s, t, n
<1>5. /\ pr_buff_map' \in Seq(Buffer) /\ DOMAIN pr_buff_map' = 1 .. n - 1
      /\ \A j \in 1 .. n - 1 : pr_buff_map'[j] = IF j <= k - 1 THEN s[j] ELSE t[j - (k - 1)]
  BY <1>1, <1>2, <1>3, <1>4
<1>6. \A j \in 1 .. n - 1 : pr_buff_map'[j] = pr_buff_map[Before(k, j)]
  <2> SUFFICES ASSUME NEW j \in 1 .. n - 1
               PROVE  pr_buff_map'[j] = pr_buff_map[Before(k, j)]
    OBVIOUS
  <2>1. CASE j < k
    BY <1>1, <1>2, <1>5, <2>1 DEF Before
  <2>2. CASE ~(j < k)
    <3>1. j - (k - 1) \in 1 .. n - k /\ k + (j - (k - 1)) = j + 1 /\ ~(j <= k - 1)
      BY <1>1, <2>2
    <3> QED
      BY <1>3, <1>5, <2>2, <3>1 DEF Before
  <2> QED
    BY <2>1, <2>2
<1>7. \A i \in 1 .. n : i # k => \E j \in 1 .. n - 1 : Before(k, j) = i
  <2> SUFFICES ASSUME NEW i \in 1 .. n, i # k
               PROVE  \E j \in 1 .. n - 1 : Before(k, j) = i
    OBVIOUS
  <2>1. CASE i < k
    BY <1>1, <2>1 DEF Before
  <2>2. CASE i > k
    <3>1. i - 1 \in 1 .. n - 1 /\ Before(k, i - 1) = i
      BY <1>1, <2>2 DEF Before
    <3> QED
      BY <3>1
  <2> QED
    BY <1>1, <2>1, <2>2
<1>8. \A j \in 1 .. n - 1 : Before(k, j) \in 1 .. n /\ Before(k, j) # k
  BY <1>1 DEF Before
<1>9. \A i, j \in 1 .. n - 1 : Before(k, i) = Before(k, j) => i = j
  BY <1>1 DEF Before
<1> QED
  BY <1>1, <1>5, <1>6, <1>7, <1>8, <1>9
-----------------------------------------------------------------------------
(* The steps. *)

LEMMA Constants ==
  NoVaddr \notin Vaddr /\ NoPage \notin Page /\ Blank \notin Oid
BY PRAssumption

LEMMA InitInv == Init => PRInv
<1> SUFFICES ASSUME Init PROVE PRInv
  OBVIOUS
<1>1. TypeOK
  <2>1. pr_buff_map \in Seq(Buffer)
    BY DEF Init
  <2> QED
    BY <2>1 DEF Init, TypeOK, Pc
<1>2. DOMAIN pr_buff_map = {}
  BY DEF Init
<1>3. DaemonInv /\ MappedFound
  BY DEF Init, DaemonInv, MappedFound
<1>4. OwnedInv
  BY <1>2, Constants DEF Init, OwnedInv
<1>5. AgreesInv /\ Filled
  BY <1>2 DEF Init, AgreesInv, Filled
<1>6. RightBitstream
  BY DEF Init, RightBitstream
<1> QED
  BY <1>1, <1>3, <1>4, <1>5, <1>6 DEF PRInv

\* The pages, the hash and what the daemons have mapped are what they were.
Quiet == UNCHANGED <<driverVars, bstreams, mapped_pages, history>>

LEMMA QuietKeeps ==
  ASSUME PRInv, Quiet
  PROVE  MappedFound' /\ OwnedInv' /\ AgreesInv'
BY DEF PRInv, Quiet, driverVars, history, MappedFound, OwnedInv, AgreesInv, IsFor

LEMMA AddStep ==
  ASSUME PRInv, NEW r \in Region, NEW o \in Oid, addBitstream(r, o)
  PROVE  PRInv'
<1>1. TypeOK'
  BY DEF PRInv, TypeOK, addBitstream, driverVars, history, Pc
<1>2. DaemonInv'
  BY DEF PRInv, TypeOK, DaemonInv, addBitstream
<1>3. Quiet
  BY DEF addBitstream, Quiet
<1>4. Filled'
  <2>1. \A q \in Region : pc[q] = "fill" => pc'[q] = "fill" /\ oid'[q] = oid[q]
    BY DEF PRInv, TypeOK, addBitstream
  <2> QED
    BY <2>1 DEF PRInv, Filled, addBitstream, IsFor, driverVars, history
<1>5. RightBitstream'
  BY DEF PRInv, RightBitstream, addBitstream, history
<1> QED
  BY <1>1, <1>2, <1>3, <1>4, <1>5, QuietKeeps DEF PRInv

LEMMA RemoveStep ==
  ASSUME PRInv, NEW r \in Region, NEW o \in Oid, removeBitstream(r, o)
  PROVE  PRInv'
<1>1. TypeOK'
  BY DEF PRInv, TypeOK, removeBitstream, driverVars, history, Pc
<1>2. DaemonInv'
  BY DEF PRInv, TypeOK, DaemonInv, removeBitstream
<1>3. Quiet
  BY DEF removeBitstream, Quiet
<1>4. Filled'
  BY DEF PRInv, TypeOK, Filled, removeBitstream, IsFor, driverVars, history
<1>5. RightBitstream'
  BY DEF PRInv, RightBitstream, removeBitstream, history
<1> QED
  BY <1>1, <1>2, <1>3, <1>4, <1>5, QuietKeeps DEF PRInv

LEMMA RemoveTaskStep ==
  ASSUME PRInv, NEW r \in Region, NEW o \in Oid, removeTask(r, o)
  PROVE  PRInv'
<1>1. TypeOK'
  BY DEF PRInv, TypeOK, removeTask, driverVars, history
<1>2. DaemonInv'
  BY DEF PRInv, TypeOK, DaemonInv, removeTask
<1>3. MappedFound' /\ OwnedInv' /\ AgreesInv'
  BY DEF PRInv, removeTask, driverVars, history, MappedFound, OwnedInv, AgreesInv, IsFor
<1>4. Filled'
  BY DEF PRInv, TypeOK, Filled, removeTask, IsFor, driverVars, history
<1>5. RightBitstream'
  BY DEF PRInv, RightBitstream, removeTask, history
<1> QED
  BY <1>1, <1>2, <1>3, <1>4, <1>5 DEF PRInv

\* The address of an operator's bitstream is found by the walk.
LEMMA BitstreamFound ==
  ASSUME PRInv, NEW r \in Region, NEW o \in Oid, bstreams[r][o] # NoVaddr
  PROVE  \E i \in DOMAIN pr_buff_map : IsFor(i, r, bstreams[r][o])
BY DEF PRInv, DaemonInv, MappedFound

LEMMA ReconfigureStep ==
  ASSUME PRInv, NEW r \in Region, NEW o \in Oid, reconfigure(r, o)
  PROVE  PRInv'
<1> DEFINE i == Oldest(r, bstreams[r][o])
<1>1. i \in DOMAIN pr_buff_map /\ IsFor(i, r, bstreams[r][o])
  BY BitstreamFound, WalkFinds DEF PRInv, TypeOK, reconfigure
<1> HIDE DEF i
<1>2. pr_buff_map[i].pg \in Page
  BY <1>1, EntryTyped DEF PRInv, TypeOK
<1>3. fabric' = [fabric EXCEPT ![r] = content[pr_buff_map[i].pg]]
  BY DEF reconfigure, i
<1>4. TypeOK'
  BY <1>2, <1>3 DEF PRInv, TypeOK, reconfigure, driverVars, history
<1>5. Quiet
  BY DEF reconfigure, Quiet
<1>6. DaemonInv' /\ Filled'
  BY DEF PRInv, DaemonInv, Filled, reconfigure, IsFor, driverVars, history
<1>7. RightBitstream'
  <2> SUFFICES ASSUME ~died, ~failed
               PROVE  fabric'[r] = asked'[r] /\ \A q \in Region \ {r} : fabric'[q] = fabric[q] /\ asked'[q] = asked[q]
    BY DEF PRInv, RightBitstream, reconfigure, history
  <2>1. content[pr_buff_map[i].pg] = o
    BY <1>1 DEF PRInv, Filled, reconfigure
  <2> QED
    BY <1>3, <2>1 DEF PRInv, TypeOK, reconfigure
<1> QED
  BY <1>4, <1>5, <1>6, <1>7, QuietKeeps DEF PRInv
-----------------------------------------------------------------------------
\* The daemon's side of the ioctl that allocates, however it ends.
LEMMA AllocReturned ==
  ASSUME PRInv, NEW r \in Region, pc[r] = "alloc", AllocReturns(r),
         UNCHANGED <<content, pr_buff_map>>, prc_lock => prc_lock', failed => failed'
  PROVE  /\ DaemonInv' /\ MappedFound' /\ AgreesInv' /\ Filled' /\ RightBitstream'
         /\ pc' \in [Region -> Pc]
<1>1. pc' \in [Region -> Pc]
  BY DEF PRInv, TypeOK, AllocReturns, Pc
<1>2. DaemonInv'
  BY DEF PRInv, TypeOK, DaemonInv, AllocReturns
<1>3. MappedFound' /\ AgreesInv'
  BY DEF PRInv, MappedFound, AgreesInv, IsFor, AllocReturns
<1>4. Filled'
  <2>1. \A q \in Region : pc'[q] = "fill" <=> pc[q] = "fill"
    BY DEF PRInv, TypeOK, AllocReturns
  <2> QED
    BY <2>1 DEF PRInv, Filled, AllocReturns, IsFor
<1>5. RightBitstream'
  BY DEF PRInv, RightBitstream, AllocReturns
<1> QED
  BY <1>1, <1>2, <1>3, <1>4, <1>5

LEMMA AllocStep ==
  ASSUME PRInv, NEW r \in Region, alloc_pr_buffers(r)
  PROVE  PRInv'
<1>1. PICK p \in Page \ pages : curr_buff' = p /\ pages' = pages \cup {p}
  BY DEF alloc_pr_buffers
<1>2. /\ DaemonInv' /\ MappedFound' /\ AgreesInv' /\ Filled' /\ RightBitstream'
      /\ pc' \in [Region -> Pc]
  BY AllocReturned DEF alloc_pr_buffers
<1>3. TypeOK'
  BY <1>1, <1>2 DEF PRInv, TypeOK, alloc_pr_buffers, AllocReturns
<1>4. OwnedInv'
  BY <1>1, Constants DEF PRInv, OwnedInv, alloc_pr_buffers, TypeOK
<1> QED
  BY <1>2, <1>3, <1>4 DEF PRInv

LEMMA AllocPendingStep ==
  ASSUME PRInv, NEW r \in Region, AllocPending(r)
  PROVE  PRInv'
<1>2. /\ DaemonInv' /\ MappedFound' /\ AgreesInv' /\ Filled' /\ RightBitstream'
      /\ pc' \in [Region -> Pc]
  BY AllocReturned DEF AllocPending
<1>3. TypeOK'
  BY <1>2 DEF PRInv, TypeOK, AllocPending, AllocReturns
<1>4. OwnedInv'
  BY DEF PRInv, OwnedInv, AllocPending
<1> QED
  BY <1>2, <1>3, <1>4 DEF PRInv

LEMMA AllocNoArrayStep ==
  ASSUME PRInv, NEW r \in Region, AllocNoArray(r)
  PROVE  PRInv'
<1>2. /\ DaemonInv' /\ MappedFound' /\ AgreesInv' /\ Filled' /\ RightBitstream'
      /\ pc' \in [Region -> Pc]
  BY AllocReturned DEF AllocNoArray
<1>3. TypeOK'
  BY <1>2 DEF PRInv, TypeOK, AllocNoArray, AllocReturns
<1>4. OwnedInv'
  BY DEF OwnedInv, AllocNoArray
<1> QED
  BY <1>2, <1>3, <1>4 DEF PRInv

LEMMA AllocNoPagesStep ==
  ASSUME PRInv, NEW r \in Region, AllocNoPages(r)
  PROVE  PRInv'
<1>2. /\ DaemonInv' /\ MappedFound' /\ AgreesInv' /\ Filled' /\ RightBitstream'
      /\ pc' \in [Region -> Pc]
  BY AllocReturned DEF AllocNoPages
<1>3. TypeOK'
  BY <1>2 DEF PRInv, TypeOK, AllocNoPages, AllocReturns
<1>4. OwnedInv'
  BY DEF OwnedInv, AllocNoPages
<1> QED
  BY <1>2, <1>3, <1>4 DEF PRInv

\* A new entry keeps the old ones: what was found is still found.
LEMMA StillFound ==
  ASSUME pr_buff_map \in Seq(Buffer), NEW b \in Buffer, pr_buff_map' = <<b>> \o pr_buff_map,
         NEW r, NEW v, \E i \in DOMAIN pr_buff_map : IsFor(i, r, v)
  PROVE  (\E i \in DOMAIN pr_buff_map : IsFor(i, r, v))'
<1>1. PICK i \in DOMAIN pr_buff_map : IsFor(i, r, v)
  OBVIOUS
<1>2. i + 1 \in DOMAIN pr_buff_map' /\ pr_buff_map'[i + 1] = pr_buff_map[i]
  BY Prepended
<1> QED
  BY <1>1, <1>2 DEF IsFor

LEMMA MmapStep ==
  ASSUME PRInv, NEW r \in Region, fpga_mmap(r)
  PROVE  PRInv'
<1>1. PICK v \in Vaddr \ mapped_pages[r] :
        /\ pr_buff_map' = <<[vaddr |-> v, reg |-> r, pg |-> curr_buff]>> \o pr_buff_map
        /\ bstreams' = [bstreams EXCEPT ![r][oid[r]] = v]
        /\ mapped_pages' = [mapped_pages EXCEPT ![r] = @ \cup {v}]
  BY DEF fpga_mmap
<1> DEFINE b == [vaddr |-> v, reg |-> r, pg |-> curr_buff]
<1>2. b \in Buffer /\ curr_buff \in Page
  BY DEF PRInv, TypeOK, fpga_mmap, Buffer
<1>3. b.vaddr = v /\ b.reg = r /\ b.pg = curr_buff
  OBVIOUS
<1>4. pr_buff_map \in Seq(Buffer) /\ pr_buff_map' = <<b>> \o pr_buff_map
  BY <1>1 DEF PRInv, TypeOK
<1> HIDE DEF b
<1>5. oid[r] \in Oid
  BY DEF PRInv, DaemonInv, fpga_mmap
<1>6. TypeOK'
  <2>1. bstreams' \in [Region -> [Oid -> Vaddr \cup {NoVaddr}]]
    BY <1>1, <1>5 DEF PRInv, TypeOK
  <2>2. mapped_pages' \in [Region -> SUBSET Vaddr]
    BY <1>1 DEF PRInv, TypeOK
  <2>3. pr_buff_map' \in Seq(Buffer)
    BY <1>2, <1>4, Prepended
  <2>4. mlock' \in [Region -> {"free", "held"}] /\ pc' \in [Region -> Pc]
    BY DEF PRInv, TypeOK, fpga_mmap, Pc
  <2> QED
    BY <2>1, <2>2, <2>3, <2>4 DEF PRInv, TypeOK, fpga_mmap, history
<1>7. \A q \in Region, o \in Oid :
        bstreams'[q][o] = IF q = r /\ o = oid[r] THEN v ELSE bstreams[q][o]
  BY <1>1, <1>5 DEF PRInv, TypeOK
<1>8. \A q \in Region : mapped_pages'[q] = IF q = r THEN mapped_pages[r] \cup {v} ELSE mapped_pages[q]
  BY <1>1 DEF PRInv, TypeOK
<1>9. v # NoVaddr /\ v \notin mapped_pages[r]
  BY Constants
<1>10. \A q \in Region : pc'[q] = (IF q = r THEN "fill" ELSE pc[q]) /\ oid'[q] = oid[q]
  BY DEF PRInv, TypeOK, fpga_mmap
<1>11. DaemonInv'
  BY <1>5, <1>7, <1>8, <1>9, <1>10 DEF PRInv, DaemonInv
<1>12. MappedFound'
  <2> SUFFICES ASSUME NEW q \in Region, NEW w \in mapped_pages'[q]
               PROVE  (\E i \in DOMAIN pr_buff_map : IsFor(i, q, w))'
    BY DEF MappedFound
  <2>1. CASE w \in mapped_pages[q]
    BY <2>1, <1>2, <1>4, StillFound DEF PRInv, MappedFound
  <2>2. CASE w \notin mapped_pages[q]
    <3>1. q = r /\ w = v
      BY <2>2, <1>8
    <3>2. 1 \in DOMAIN pr_buff_map' /\ pr_buff_map'[1] = b
      BY <1>2, <1>4, Prepended
    <3> QED
      BY <3>1, <3>2, <1>3 DEF IsFor
  <2> QED
    BY <2>1, <2>2
<1>13. OwnedInv'
  <2> SUFFICES ASSUME ~failed PROVE OwnedInv'
    BY DEF fpga_mmap, OwnedInv, history
  <2>1. /\ \A p \in Page : p \in pages <=> p = curr_buff \/ \E i \in DOMAIN pr_buff_map : pr_buff_map[i].pg = p
        /\ \A i, j \in DOMAIN pr_buff_map : pr_buff_map[i].pg = pr_buff_map[j].pg => i = j
        /\ \A i \in DOMAIN pr_buff_map : pr_buff_map[i].pg # curr_buff
    BY DEF PRInv, OwnedInv
  <2>2. curr_buff' = NoPage /\ pages' = pages
    BY DEF fpga_mmap
  <2>3. \A p \in Page : (\E i \in DOMAIN pr_buff_map' : pr_buff_map'[i].pg = p)
                          <=> p = curr_buff \/ \E i \in DOMAIN pr_buff_map : pr_buff_map[i].pg = p
    <3>1. 1 \in DOMAIN pr_buff_map' /\ pr_buff_map'[1].pg = curr_buff
      BY <1>2, <1>3, <1>4, Prepended
    <3>2. \A i \in DOMAIN pr_buff_map : i + 1 \in DOMAIN pr_buff_map' /\ pr_buff_map'[i + 1] = pr_buff_map[i]
      BY <1>2, <1>4, Prepended
    <3>3. \A j \in DOMAIN pr_buff_map' :
            j # 1 => j - 1 \in DOMAIN pr_buff_map /\ pr_buff_map'[j] = pr_buff_map[j - 1]
      BY <1>2, <1>4, Prepended
    <3> QED
      BY <3>1, <3>2, <3>3
  <2>4. \A i, j \in DOMAIN pr_buff_map' : pr_buff_map'[i].pg = pr_buff_map'[j].pg => i = j
    BY <1>2, <1>3, <1>4, <2>1, Prepended
  <2>5. \A i \in DOMAIN pr_buff_map' : pr_buff_map'[i].pg # NoPage
    BY <1>2, <1>3, <1>4, Prepended, EntryTyped, Constants
  <2> QED
    BY <2>1, <2>2, <2>3, <2>4, <2>5, Constants DEF OwnedInv
<1>14. AgreesInv'
  <2> SUFFICES ASSUME ~died, ~prc_lock PROVE AgreesInv'
    BY DEF fpga_mmap, AgreesInv, history
  <2>1. \A i \in DOMAIN pr_buff_map : pr_buff_map[i].vaddr \in mapped_pages[pr_buff_map[i].reg]
    BY DEF PRInv, AgreesInv
  <2>2. \A i, j \in DOMAIN pr_buff_map : IsFor(j, pr_buff_map[i].reg, pr_buff_map[i].vaddr) => i = j
    BY DEF PRInv, AgreesInv
  <2>3. \A i \in DOMAIN pr_buff_map' : pr_buff_map'[i].vaddr \in mapped_pages'[pr_buff_map'[i].reg]
    BY <1>2, <1>3, <1>4, <1>8, <2>1, Prepended, EntryTyped
  <2>4. \A i \in DOMAIN pr_buff_map : ~IsFor(i, r, v)
    BY <1>9, <2>1 DEF IsFor
  <2>5. ASSUME NEW i \in DOMAIN pr_buff_map', NEW j \in DOMAIN pr_buff_map',
               IsFor(j, pr_buff_map[i].reg, pr_buff_map[i].vaddr)'
        PROVE  i = j
    BY <1>2, <1>3, <1>4, <2>2, <2>4, <2>5, Prepended DEF IsFor
  <2> QED
    BY <2>3, <2>5 DEF AgreesInv
<1>15. Filled'
  <2> SUFFICES ASSUME ~died, ~failed, ~prc_lock,
                      NEW q \in Region, NEW o \in Oid, bstreams'[q][o] # NoVaddr,
                      ~(pc'[q] = "fill" /\ oid'[q] = o),
                      NEW i \in DOMAIN pr_buff_map', IsFor(i, q, bstreams[q][o])'
               PROVE  content[pr_buff_map'[i].pg] = o
    BY DEF fpga_mmap, Filled, history
  <2>1. ~(q = r /\ o = oid[r]) /\ bstreams'[q][o] = bstreams[q][o]
    BY <1>7, <1>10
  <2>2. ~(q = r /\ bstreams[q][o] = v)
    BY <2>1, <1>9 DEF PRInv, DaemonInv
  <2>3. i # 1
    BY <2>1, <2>2, <1>2, <1>3, <1>4, Prepended DEF IsFor
  <2>4. i - 1 \in DOMAIN pr_buff_map /\ IsFor(i - 1, q, bstreams[q][o]) /\ pr_buff_map'[i] = pr_buff_map[i - 1]
    BY <2>1, <2>3, <1>2, <1>4, Prepended DEF IsFor
  <2>5. ~(pc[q] = "fill" /\ oid[q] = o)
    BY <2>1, <1>10
  <2> QED
    BY <2>1, <2>4, <2>5 DEF PRInv, Filled
<1>16. RightBitstream'
  BY DEF PRInv, RightBitstream, fpga_mmap, history
<1> QED
  BY <1>6, <1>11, <1>12, <1>13, <1>14, <1>15, <1>16 DEF PRInv

LEMMA MmapFailsStep ==
  ASSUME PRInv, NEW r \in Region, MmapFails(r)
  PROVE  PRInv'
<1>1. PICK v \in Vaddr \ mapped_pages[r] :
        pr_buff_map' = <<[vaddr |-> v, reg |-> r, pg |-> curr_buff]>> \o pr_buff_map
  BY DEF MmapFails
<1> DEFINE b == [vaddr |-> v, reg |-> r, pg |-> curr_buff]
<1>2. b \in Buffer
  BY DEF PRInv, TypeOK, MmapFails, Buffer
<1>3. pr_buff_map \in Seq(Buffer) /\ pr_buff_map' = <<b>> \o pr_buff_map
  BY <1>1 DEF PRInv, TypeOK
<1> HIDE DEF b
<1>4. TypeOK'
  <2>1. pr_buff_map' \in Seq(Buffer)
    BY <1>2, <1>3, Prepended
  <2> QED
    BY <2>1 DEF PRInv, TypeOK, MmapFails, Pc
<1>5. DaemonInv'
  BY DEF PRInv, TypeOK, DaemonInv, MmapFails
<1>6. MappedFound'
  <2> SUFFICES ASSUME NEW q \in Region, NEW w \in mapped_pages[q]
               PROVE  (\E i \in DOMAIN pr_buff_map : IsFor(i, q, w))'
    BY DEF MappedFound, MmapFails
  <2> QED
    BY <1>2, <1>3, StillFound DEF PRInv, MappedFound
<1>7. OwnedInv' /\ AgreesInv' /\ Filled' /\ RightBitstream'
  BY DEF OwnedInv, AgreesInv, Filled, RightBitstream, MmapFails
<1> QED
  BY <1>4, <1>5, <1>6, <1>7 DEF PRInv

LEMMA ReadInStep ==
  ASSUME PRInv, NEW r \in Region, ReadIn(r)
  PROVE  PRInv'
<1> DEFINE k == Newest(r, bstreams[r][oid[r]])
<1>1. oid[r] \in Oid /\ bstreams[r][oid[r]] # NoVaddr
  BY DEF PRInv, DaemonInv, ReadIn
<1>2. k \in DOMAIN pr_buff_map /\ IsFor(k, r, bstreams[r][oid[r]])
  BY <1>1, BitstreamFound, WalkFinds DEF PRInv, TypeOK
<1>3. content' = [content EXCEPT ![pr_buff_map[k].pg] = oid[r]]
  BY DEF ReadIn
<1> HIDE DEF k
<1>4. pr_buff_map[k].pg \in Page
  BY <1>2, EntryTyped DEF PRInv, TypeOK
<1>5. TypeOK'
  <2>1. content' \in [Page -> Oid \cup {Blank}]
    BY <1>1, <1>3, <1>4 DEF PRInv, TypeOK
  <2> QED
    BY <2>1 DEF PRInv, TypeOK, ReadIn, Pc, history
<1>6. DaemonInv'
  BY DEF PRInv, TypeOK, DaemonInv, ReadIn
<1>7. MappedFound' /\ OwnedInv' /\ AgreesInv'
  BY DEF PRInv, MappedFound, OwnedInv, AgreesInv, IsFor, ReadIn, history
<1>8. Filled'
  <2> SUFFICES ASSUME ~died, ~failed, ~prc_lock,
                      NEW q \in Region, NEW o \in Oid, bstreams[q][o] # NoVaddr,
                      NEW i \in DOMAIN pr_buff_map, IsFor(i, q, bstreams[q][o])
               PROVE  ~(pc'[q] = "fill" /\ oid'[q] = o) => content'[pr_buff_map[i].pg] = o
    BY DEF ReadIn, Filled, IsFor, history
  <2>1. pr_buff_map[i].pg \in Page
    BY EntryTyped DEF PRInv, TypeOK
  <2>2. CASE q = r /\ o = oid[r]
    <3>1. i = k
      BY <1>2, <2>2 DEF PRInv, AgreesInv, IsFor
    <3> QED
      BY <1>3, <1>4, <2>2, <3>1 DEF PRInv, TypeOK
  <2>3. CASE ~(q = r /\ o = oid[r])
    <3>1. i # k
      BY <1>1, <1>2, <2>3 DEF PRInv, DaemonInv, IsFor
    <3>2. pr_buff_map[i].pg # pr_buff_map[k].pg
      BY <3>1, <1>2 DEF PRInv, OwnedInv
    <3>3. content'[pr_buff_map[i].pg] = content[pr_buff_map[i].pg]
      BY <1>3, <2>1, <3>2 DEF PRInv, TypeOK
    <3>4. (pc'[q] = "fill" /\ oid'[q] = o) <=> (pc[q] = "fill" /\ oid[q] = o)
      BY <2>3, Constants DEF PRInv, TypeOK, ReadIn
    <3> QED
      BY <3>3, <3>4 DEF PRInv, Filled
  <2> QED
    BY <2>2, <2>3
<1>9. RightBitstream'
  BY DEF PRInv, RightBitstream, ReadIn, history
<1> QED
  BY <1>5, <1>6, <1>7, <1>8, <1>9 DEF PRInv

LEMMA FreeStep ==
  ASSUME PRInv, NEW r \in Region, free_pr_buffers(r)
  PROVE  PRInv'
<1> DEFINE v == bstreams[r][oid[r]]
           k == Newest(r, v)
<1>1. oid[r] \in Oid /\ v # NoVaddr /\ v \in mapped_pages[r]
  BY DEF PRInv, DaemonInv, free_pr_buffers
<1>2. k \in DOMAIN pr_buff_map /\ IsFor(k, r, v)
  BY <1>1, BitstreamFound, WalkFinds DEF PRInv, TypeOK
<1>3. /\ pages' = pages \ {pr_buff_map[k].pg}
      /\ pr_buff_map' = RemoveAt(pr_buff_map, k)
      /\ bstreams' = [bstreams EXCEPT ![r][oid[r]] = NoVaddr]
      /\ mapped_pages' = [mapped_pages EXCEPT ![r] = @ \ {v}]
  BY DEF free_pr_buffers
<1>4. pr_buff_map \in Seq(Buffer)
  BY DEF PRInv, TypeOK
<1> HIDE DEF v, k
<1>5. pr_buff_map[k].pg \in Page
  BY <1>2, <1>4, EntryTyped
<1>6. TypeOK'
  <2>1. bstreams' \in [Region -> [Oid -> Vaddr \cup {NoVaddr}]]
    BY <1>1, <1>3 DEF PRInv, TypeOK
  <2>2. mapped_pages' \in [Region -> SUBSET Vaddr]
    BY <1>3 DEF PRInv, TypeOK
  <2>3. pr_buff_map' \in Seq(Buffer)
    BY <1>2, <1>3, <1>4, Removed
  <2>4. pages' \subseteq Page
    BY <1>3 DEF PRInv, TypeOK
  <2>5. /\ mlock' \in [Region -> {"free", "held"}] /\ pc' \in [Region -> Pc]
        /\ oid' \in [Region -> Oid \cup {Blank}]
    BY DEF PRInv, TypeOK, free_pr_buffers, Pc
  <2> QED
    BY <2>1, <2>2, <2>3, <2>4, <2>5 DEF PRInv, TypeOK, free_pr_buffers, history
<1>7. \A q \in Region, o \in Oid :
        bstreams'[q][o] = IF q = r /\ o = oid[r] THEN NoVaddr ELSE bstreams[q][o]
  BY <1>1, <1>3 DEF PRInv, TypeOK
<1>8. \A q \in Region : mapped_pages'[q] = IF q = r THEN mapped_pages[r] \ {v} ELSE mapped_pages[q]
  BY <1>3 DEF PRInv, TypeOK
<1>9. \A q \in Region : IF q = r THEN pc'[q] = "idle" ELSE pc'[q] = pc[q] /\ oid'[q] = oid[q]
  BY DEF PRInv, TypeOK, free_pr_buffers
<1>10. DaemonInv'
  <2>1. \A q \in Region : (pc[q] # "idle" => oid[q] \in Oid)'
    BY <1>9 DEF PRInv, DaemonInv
  <2>2. \A q \in Region : (pc[q] \in {"fill", "free"} => bstreams[q][oid[q]] # NoVaddr)'
    BY <1>7, <1>9 DEF PRInv, DaemonInv
  <2>3. \A q \in Region, o \in Oid : (bstreams[q][o] # NoVaddr => bstreams[q][o] \in mapped_pages[q])'
    BY <1>1, <1>7, <1>8 DEF PRInv, DaemonInv, v
  <2>4. \A q \in Region, o, p \in Oid : (bstreams[q][o] # NoVaddr /\ bstreams[q][o] = bstreams[q][p] => o = p)'
    BY <1>7 DEF PRInv, DaemonInv
  <2> QED
    BY <2>1, <2>2, <2>3, <2>4 DEF DaemonInv
<1>11. /\ \A j \in DOMAIN pr_buff_map' :
            /\ Before(k, j) \in DOMAIN pr_buff_map /\ Before(k, j) # k
            /\ pr_buff_map'[j] = pr_buff_map[Before(k, j)]
       /\ \A i \in DOMAIN pr_buff_map :
            i # k => \E j \in DOMAIN pr_buff_map' : Before(k, j) = i
       /\ \A i, j \in DOMAIN pr_buff_map' : Before(k, i) = Before(k, j) => i = j
  BY <1>2, <1>3, <1>4, Removed
<1>12. MappedFound'
  <2> SUFFICES ASSUME NEW q \in Region, NEW w \in mapped_pages'[q]
               PROVE  (\E i \in DOMAIN pr_buff_map : IsFor(i, q, w))'
    BY DEF MappedFound
  <2>1. w \in mapped_pages[q] /\ ~(q = r /\ w = v)
    BY <1>8
  <2>2. PICK i \in DOMAIN pr_buff_map : IsFor(i, q, w)
    BY <2>1 DEF PRInv, MappedFound
  <2>3. i # k
    BY <1>2, <2>1, <2>2 DEF IsFor
  <2>4. PICK j \in DOMAIN pr_buff_map' : Before(k, j) = i
    BY <1>11, <2>3
  <2> QED
    BY <1>11, <2>2, <2>4 DEF IsFor
<1>13. OwnedInv'
  <2> SUFFICES ASSUME ~failed PROVE OwnedInv'
    BY DEF free_pr_buffers, OwnedInv, history
  <2>1. \A p \in Page : p \in pages <=> p = curr_buff \/ \E i \in DOMAIN pr_buff_map : pr_buff_map[i].pg = p
    BY DEF PRInv, OwnedInv
  <2>2. \A i, j \in DOMAIN pr_buff_map : pr_buff_map[i].pg = pr_buff_map[j].pg => i = j
    BY DEF PRInv, OwnedInv
  <2>3. \A i \in DOMAIN pr_buff_map : pr_buff_map[i].pg # curr_buff
    BY DEF PRInv, OwnedInv
  <2>4. curr_buff' = curr_buff
    BY DEF free_pr_buffers
  <2>5. \A p \in Page : (\E i \in DOMAIN pr_buff_map' : pr_buff_map'[i].pg = p)
                          <=> p # pr_buff_map[k].pg /\ \E i \in DOMAIN pr_buff_map : pr_buff_map[i].pg = p
    BY <1>2, <1>11, <2>2
  <2>6. \A p \in Page : (p \in pages <=> p = curr_buff \/ \E i \in DOMAIN pr_buff_map : pr_buff_map[i].pg = p)'
    BY <1>2, <1>3, <2>1, <2>3, <2>4, <2>5
  <2>7. \A i, j \in DOMAIN pr_buff_map' : pr_buff_map'[i].pg = pr_buff_map'[j].pg => i = j
    BY <1>11, <2>2
  <2>8. \A i \in DOMAIN pr_buff_map' : pr_buff_map'[i].pg # curr_buff
    BY <1>11, <2>3
  <2> QED
    BY <2>4, <2>6, <2>7, <2>8 DEF OwnedInv
<1>14. AgreesInv'
  <2> SUFFICES ASSUME ~died, ~prc_lock PROVE AgreesInv'
    BY DEF free_pr_buffers, AgreesInv, history
  <2>1. \A i \in DOMAIN pr_buff_map : pr_buff_map[i].vaddr \in mapped_pages[pr_buff_map[i].reg]
    BY DEF PRInv, AgreesInv
  <2>2. \A i, j \in DOMAIN pr_buff_map : IsFor(j, pr_buff_map[i].reg, pr_buff_map[i].vaddr) => i = j
    BY DEF PRInv, AgreesInv
  <2>3. \A i \in DOMAIN pr_buff_map : i # k => ~IsFor(i, r, v)
    BY <1>2, <2>2 DEF IsFor
  <2>4. \A i \in DOMAIN pr_buff_map : i # k => pr_buff_map[i].vaddr \in mapped_pages'[pr_buff_map[i].reg]
    BY <1>4, <1>8, <2>1, <2>3, EntryTyped DEF IsFor
  <2>5. \A i \in DOMAIN pr_buff_map' : pr_buff_map'[i].vaddr \in mapped_pages'[pr_buff_map'[i].reg]
    BY <1>11, <2>4
  <2>6. \A i, j \in DOMAIN pr_buff_map' : IsFor(j, pr_buff_map[i].reg, pr_buff_map[i].vaddr)' => i = j
    BY <1>11, <2>2 DEF IsFor
  <2> QED
    BY <2>5, <2>6 DEF AgreesInv
<1>15. Filled'
  <2> SUFFICES ASSUME ~died, ~failed, ~prc_lock,
                      NEW q \in Region, NEW o \in Oid, bstreams'[q][o] # NoVaddr,
                      ~(pc'[q] = "fill" /\ oid'[q] = o),
                      NEW i \in DOMAIN pr_buff_map', IsFor(i, q, bstreams[q][o])'
               PROVE  content[pr_buff_map'[i].pg] = o
    BY DEF free_pr_buffers, Filled, history
  <2>1. bstreams'[q][o] = bstreams[q][o] /\ ~(pc[q] = "fill" /\ oid[q] = o)
    BY <1>7, <1>9 DEF free_pr_buffers
  <2>2. IsFor(Before(k, i), q, bstreams[q][o])
    BY <1>11, <2>1 DEF IsFor
  <2> QED
    BY <1>11, <2>1, <2>2 DEF PRInv, Filled
<1>16. RightBitstream'
  BY DEF PRInv, RightBitstream, free_pr_buffers, history
<1> QED
  BY <1>6, <1>10, <1>12, <1>13, <1>14, <1>15, <1>16 DEF PRInv

LEMMA DieStep ==
  ASSUME PRInv, NEW r \in Region, Die(r)
  PROVE  PRInv'
<1>1. TypeOK'
  BY DEF PRInv, TypeOK, Die, driverVars, Pc
<1>2. DaemonInv'
  BY DEF PRInv, TypeOK, DaemonInv, Die
<1>3. MappedFound'
  BY DEF PRInv, TypeOK, MappedFound, IsFor, Die, driverVars
<1>4. OwnedInv'
  BY DEF PRInv, OwnedInv, Die, driverVars
<1>5. AgreesInv' /\ Filled' /\ RightBitstream'
  BY DEF AgreesInv, Filled, RightBitstream, Die
<1> QED
  BY <1>1, <1>2, <1>3, <1>4, <1>5 DEF PRInv

LEMMA NextInv == PRInv /\ [Next]_vars => PRInv'
<1> SUFFICES ASSUME PRInv, [Next]_vars PROVE PRInv'
  OBVIOUS
<1>1. CASE UNCHANGED vars
  BY <1>1 DEF vars, driverVars, history, PRInv, TypeOK, DaemonInv, MappedFound, OwnedInv,
              AgreesInv, Filled, RightBitstream, IsFor
<1>2. CASE Next
  BY <1>2, AddStep, RemoveStep, RemoveTaskStep, ReconfigureStep, AllocStep, AllocPendingStep,
     AllocNoArrayStep, AllocNoPagesStep, MmapStep, MmapFailsStep, ReadInStep, FreeStep, DieStep
     DEF Next, Step
<1> QED
  BY <1>1, <1>2

\* The invariant of bitstream memory, which the theorems below project.
THEOREM Inductive == Spec => []PRInv
BY InitInv, NextInv, PTL DEF Spec
-----------------------------------------------------------------------------
\* The variables of the driver and the daemons stay in their types; in
\* particular the walks of free_pr_buffers and reconfigure never run off the
\* hash.
THEOREM TypeCorrect == Spec => []TypeOK
<1>1. PRInv => TypeOK
  BY DEF PRInv
<1> QED
  BY <1>1, Inductive, PTL

\* Until an allocation fails every page array has one owner, curr_buff or one
\* entry of the hash, whatever daemons are killed (alloc_pr_buffers, fpga_mmap,
\* free_pr_buffers).
THEOREM PagesHaveOwners == Spec => []PagesOwned
<1>1. PRInv => PagesOwned
  <2> SUFFICES ASSUME PRInv, ~failed PROVE PagesOwned
    BY DEF PagesOwned
  <2>1. pages = {e.pg : e \in Entries} \cup ({curr_buff} \ {NoPage})
    <3>1. \A p \in Page : p \in {e.pg : e \in Entries} <=> \E i \in DOMAIN pr_buff_map : pr_buff_map[i].pg = p
      BY DEF Entries
    <3>2. {e.pg : e \in Entries} \subseteq Page
      BY EntryTyped DEF Entries, PRInv, TypeOK
    <3>3. pages \subseteq Page /\ curr_buff \in Page \cup {NoPage}
      BY DEF PRInv, TypeOK
    <3>4. \A p \in Page : p \in pages <=> p = curr_buff \/ \E i \in DOMAIN pr_buff_map : pr_buff_map[i].pg = p
      BY DEF PRInv, OwnedInv
    <3> QED
      BY <3>1, <3>2, <3>3, <3>4, Constants
  <2>2. \A e \in Entries : e.pg # curr_buff
    BY DEF PRInv, OwnedInv, Entries
  <2> QED
    BY <2>1, <2>2 DEF PRInv, OwnedInv, PagesOwned
<1> QED
  BY <1>1, Inductive, PTL

\* Until a daemon is killed or prc->lock is left locked the hash has exactly one
\* entry for each address a daemon has mapped.
THEOREM HashAgrees == Spec => []MapAgrees
<1>1. PRInv => MapAgrees
  <2> SUFFICES ASSUME PRInv, ~died, ~prc_lock PROVE MapAgrees
    BY DEF MapAgrees
  <2> DEFINE L == {<<e.reg, e.vaddr>> : e \in Entries}
             R == UNION {{<<r, v>> : v \in mapped_pages[r]} : r \in Region}
  <2>1. ASSUME NEW x \in L PROVE x \in R
    <3>1. PICK i \in DOMAIN pr_buff_map : x = <<pr_buff_map[i].reg, pr_buff_map[i].vaddr>>
      BY <2>1 DEF Entries
    <3>2. pr_buff_map[i].reg \in Region /\ pr_buff_map[i].vaddr \in mapped_pages[pr_buff_map[i].reg]
      BY EntryTyped DEF PRInv, TypeOK, AgreesInv
    <3> QED
      BY <3>1, <3>2
  <2>2. ASSUME NEW x \in R PROVE x \in L
    <3>1. PICK r \in Region : x \in {<<r, v>> : v \in mapped_pages[r]}
      BY <2>2
    <3>2. PICK v \in mapped_pages[r] : x = <<r, v>>
      BY <3>1
    <3>3. PICK i \in DOMAIN pr_buff_map : IsFor(i, r, v)
      BY DEF PRInv, MappedFound
    <3> QED
      BY <3>2, <3>3 DEF IsFor, Entries
  <2>3. L = R
    BY <2>1, <2>2
  <2>4. \A i, j \in DOMAIN pr_buff_map :
          pr_buff_map[i].reg = pr_buff_map[j].reg /\ pr_buff_map[i].vaddr = pr_buff_map[j].vaddr => i = j
    BY DEF PRInv, AgreesInv, IsFor
  <2> QED
    BY <2>3, <2>4 DEF MapAgrees
<1> QED
  BY <1>1, Inductive, PTL

\* Until a daemon is killed or an allocation fails, a region that was
\* reconfigured holds the operator asked for last (IOCTL_RECONFIG_LOAD).
THEOREM RightOperatorLoaded == Spec => []RightBitstream
<1>1. PRInv => RightBitstream
  BY DEF PRInv
<1> QED
  BY <1>1, Inductive, PTL
=============================================================================
