-------------------------- MODULE DriverMMU_proofs --------------------------
(***************************************************************************)
(* User memory of a vFPGA, for every number of processes, addresses, cpids *)
(* and chunks, and any number of maps, buffers and commands: card memory   *)
(* is neither lost nor given twice, no translation outlives its memory,    *)
(* nothing is left when the last process has gone, and a buffer is found   *)
(* by the process that asked for it.                                       *)
(***************************************************************************)
EXTENDS DriverMMU, FiniteSetTheorems, TLAPS

ProcTypes ==
  /\ st \in [Proc -> {"none", "live", "unreg", "dying", "closed"}]
  /\ cpid \in [Proc -> Cpid] /\ pid_alloc \in Seq(Cpid) /\ pid_array \in [Cpid -> Proc \cup {None}]
  /\ mem \in [Proc -> [Vaddr -> {"no", "user", "freed", "buff"}]]
  /\ upages \in [Proc -> SUBSET Vaddr] /\ nmaps \in 0 .. MaxMaps
BuffTypes == curr \in Entry \cup {None} /\ mlock \in Proc \cup {None} /\ nbuf \in 0 .. MaxBuf
CardTypes ==
  /\ head \in [Kind -> Chunk \cup {None}] /\ next \in [Kind -> [Chunk -> Chunk \cup {None}]]
  /\ used \in [Kind -> [Chunk -> BOOLEAN]] /\ spent \in BOOLEAN
Buckets == [Vaddr -> Seq(Entry)]
TlbType == tlb \in [Vaddr \X Cpid -> Paddr \cup {None}]
IrqType == [state : {"run"}] \cup [state : {"fault", "stuck"}, cmd : Vaddr \X Cpid]
HwTypes == cmds \subseteq Vaddr \X Cpid /\ ncmds \in 0 .. MaxCmds /\ irq \in IrqType
FlagTypes == {oops, alone, untidy, lost} \subseteq BOOLEAN

\* Whoever has or had a cpid is known to the fault handler.
PidInv ==
  /\ \A p \in Proc : st[p] # "none" => pid_array[cpid[p]] # None
  /\ \A p \in Proc : st[p] = "none" => \A v \in Vaddr : mem[p][v] = "no"
  /\ \A x \in cmds : pid_array[x[2]] # None
  /\ irq.state = "fault" => irq.cmd \in cmds

\* Who holds mlock finds the buffer it has allocated.
LockInv == ~oops /\ mlock # None => curr # None

\* Pinned pages carry no cpid, and driver-allocated buffers are huge pages.
NoCpid(s) == \A i \in 1 .. Len(s) : s[i].cpid = 0
BucketInv ==
  /\ \A v \in Vaddr : NoCpid(sbuff[v])
  /\ \A v \in Vaddr : v \notin Huge => lbuff[v] = <<>>

BaseInv ==
  /\ ProcTypes /\ BuffTypes /\ CardTypes /\ sbuff \in Buckets /\ lbuff \in Buckets
  /\ TlbType /\ HwTypes /\ FlagTypes
  /\ PidInv /\ LockInv /\ BucketInv

LEMMA BaseTyped == BaseInv => TypeOK
  BY DEF BaseInv, ProcTypes, BuffTypes, CardTypes, Buckets, TlbType, HwTypes, FlagTypes, IrqType, TypeOK
-----------------------------------------------------------------------------
(* Buckets. *)

LEMMA LeastNat ==
  ASSUME NEW S, S \subseteq Nat, S # {}
  PROVE  \E x \in S : \A y \in S : x <= y
<1>1. \E x \in S : \A y \in S : <<y, x>> \notin OpToRel(<, Nat)
  BY NatLessThanWellFounded, WFMin
<1>2. \A x, y \in Nat : y < x => <<y, x>> \in OpToRel(<, Nat)
  BY DEF OpToRel
<1>3. \A x, y \in Nat : y < x \/ x <= y
  OBVIOUS
<1> QED
  BY <1>1, <1>2, <1>3

LEMMA LeastIs ==
  ASSUME NEW S, S \subseteq Nat, S # {}
  PROVE  Min(S) \in S /\ \A y \in S : Min(S) <= y
  BY LeastNat DEF Min

\* The walk finds an entry of the cpid, if there is one.
LEMMA NewestIs ==
  ASSUME NEW s \in Seq(Entry), NEW k
  PROVE  /\ Newest(s, k) # 0 => Newest(s, k) \in 1 .. Len(s) /\ s[Newest(s, k)].cpid = k
         /\ Newest(s, k) = 0 => \A i \in 1 .. Len(s) : s[i].cpid # k
<1> DEFINE I == {i \in 1 .. Len(s) : s[i].cpid = k}
<1>1. Newest(s, k) = IF I # {} THEN Min(I) ELSE 0
  BY DEF Newest, SelectInSeq
<1>2. I # {} => Min(I) \in I
  <2>1. I \subseteq Nat
    OBVIOUS
  <2> QED
    BY <2>1, LeastIs
<1>3. \A i \in I : i # 0
  OBVIOUS
<1> QED
  BY <1>1, <1>2, <1>3

\* A new entry comes first and moves the others back by one.
LEMMA Prepended ==
  ASSUME NEW T, NEW s \in Seq(T), NEW e \in T
  PROVE  /\ <<e>> \o s \in Seq(T) /\ Len(<<e>> \o s) = Len(s) + 1 /\ (<<e>> \o s)[1] = e
         /\ \A i \in 1 .. Len(s) : i + 1 \in 1 .. Len(s) + 1 /\ (<<e>> \o s)[i + 1] = s[i]
         /\ \A j \in 1 .. Len(s) + 1 : j # 1 => j - 1 \in 1 .. Len(s) /\ (<<e>> \o s)[j] = s[j - 1]
OBVIOUS

\* Where the entry was that is at j when entry k is gone, and where it goes.
Before(k, j) == IF j < k THEN j ELSE j + 1
After(k, i) == IF i < k THEN i ELSE i - 1

LEMMA Removed ==
  ASSUME NEW T, NEW s \in Seq(T), NEW k \in 1 .. Len(s)
  PROVE  /\ RemoveAt(s, k) \in Seq(T) /\ Len(RemoveAt(s, k)) = Len(s) - 1
         /\ \A j \in 1 .. Len(s) - 1 : /\ Before(k, j) \in 1 .. Len(s) /\ Before(k, j) # k
                                       /\ RemoveAt(s, k)[j] = s[Before(k, j)]
         /\ \A i \in 1 .. Len(s) : i # k => /\ After(k, i) \in 1 .. Len(s) - 1
                                            /\ RemoveAt(s, k)[After(k, i)] = s[i]
<1> DEFINE a == SubSeq(s, 1, k - 1)
           b == SubSeq(s, k + 1, Len(s))
<1>1. a \in Seq(T) /\ Len(a) = k - 1 /\ \A i \in 1 .. k - 1 : a[i] = s[i]
  OBVIOUS
<1>2. b \in Seq(T) /\ Len(b) = Len(s) - k /\ \A i \in 1 .. Len(s) - k : b[i] = s[i + k]
  OBVIOUS
<1> HIDE DEF a, b
<1>3. RemoveAt(s, k) = a \o b
  BY DEF RemoveAt, a, b
<1>4. /\ RemoveAt(s, k) \in Seq(T) /\ Len(RemoveAt(s, k)) = Len(s) - 1
      /\ \A j \in 1 .. Len(s) - 1 : RemoveAt(s, k)[j] = IF j < k THEN a[j] ELSE b[j - k + 1]
  BY <1>1, <1>2, <1>3
<1>5. \A j \in 1 .. Len(s) - 1 : /\ Before(k, j) \in 1 .. Len(s) /\ Before(k, j) # k
                                 /\ RemoveAt(s, k)[j] = s[Before(k, j)]
  BY <1>1, <1>2, <1>4 DEF Before
<1>6. \A i \in 1 .. Len(s) : i # k => After(k, i) \in 1 .. Len(s) - 1 /\ Before(k, After(k, i)) = i
  BY DEF After, Before
<1> QED
  BY <1>4, <1>5, <1>6

-----------------------------------------------------------------------------
(* What the operations do to the types. *)

LEMMA Kinds == /\ \A v : KindOf(v) \in Kind /\ (KindOf(v) = "large" <=> v \in Huge)
               /\ "large" \in Kind /\ "small" \in Kind /\ "large" # "small"
  BY DEF KindOf, Kind

LEMMA Chunks == /\ 0 \in Chunk /\ NChunks - 1 \in Chunk /\ None \notin Chunk /\ NChunks \in Nat
                /\ \A c \in Chunk : ChunkId(c) \in Chunk /\ (c # NChunks - 1 => ChunkId(c) = c)
  BY MMUAssumption DEF Chunk, ChunkId

LEMMA CardAllocTyped ==
  ASSUME CardTypes, NEW k \in Kind, card_alloc(k)
  PROVE  CardTypes' /\ head[k] \in Chunk
<1>1. head[k] \in Chunk
  BY DEF CardTypes, card_alloc
<1>2. head' \in [Kind -> Chunk \cup {None}]
  BY <1>1 DEF CardTypes, card_alloc
<1>3. used' \in [Kind -> [Chunk -> BOOLEAN]]
  BY <1>1 DEF CardTypes, card_alloc
<1> QED
  BY <1>1, <1>2, <1>3 DEF CardTypes, card_alloc

LEMMA CardFreeTyped ==
  ASSUME CardTypes, NEW k \in Kind, NEW c \in Chunk, card_free(k, c)
  PROVE  CardTypes'
<1>1. head' \in [Kind -> Chunk \cup {None}]
  BY DEF CardTypes, card_free
<1>2. next' \in [Kind -> [Chunk -> Chunk \cup {None}]]
  BY DEF CardTypes, card_free
<1> QED
  BY <1>1, <1>2 DEF CardTypes, card_free

\* An enumeration of a finite set has each element once.
LEMMA Enumerated ==
  ASSUME NEW S, IsFiniteSet(S)
  PROVE  /\ SetToSeq(S) \in Seq(S)
         /\ \A i, j \in 1 .. Len(SetToSeq(S)) : SetToSeq(S)[i] = SetToSeq(S)[j] => i = j
         /\ \A x \in S : \E i \in 1 .. Len(SetToSeq(S)) : SetToSeq(S)[i] = x
<1> DEFINE n == Cardinality(S)
<1>1. n \in Nat /\ ExistsBijection(1 .. n, S)
  BY FS_CardinalityType
<1>2. PICK g \in Bijection(1 .. n, S) : TRUE
  BY <1>1 DEF ExistsBijection
<1>3. g \in [1 .. n -> S] /\ \A i, j \in 1 .. n : g[i] = g[j] => i = j
  BY <1>2 DEF Bijection, Injection, IsInjective
<1>4. IsInjective(g)
  BY <1>3 DEF IsInjective
<1> DEFINE f == SetToSeq(S)
<1>5. f \in [1 .. n -> S] /\ IsInjective(f)
  BY <1>3, <1>4 DEF SetToSeq
<1> HIDE DEF f
<1>6. f \in Seq(S) /\ Len(f) = n /\ \A i, j \in 1 .. n : f[i] = f[j] => i = j
  BY <1>1, <1>5 DEF IsInjective
<1>7. f \in Surjection(1 .. n, S)
  <2> HIDE DEF n
  <2>1. f \in Injection(1 .. n, S)
    BY <1>5 DEF Injection
  <2>2. Cardinality(1 .. n) = n
    BY <1>1, FS_Interval
  <2> QED
    BY <2>1, <2>2, FS_Injection DEF n
<1>8. \A x \in S : \E i \in 1 .. n : f[i] = x
  BY <1>7 DEF Surjection
<1> QED
  BY <1>6, <1>8 DEF f

LEMMA FiniteAddresses == \A S \in SUBSET Vaddr : IsFiniteSet(S)
<1>1. IsFiniteSet(Vaddr)
  BY MMUAssumption, FS_Union DEF Vaddr
<1> QED
  BY <1>1, FS_Subset

\* The chunk of the newest entry with cpid k at address v, and the addresses
\* where there is one.
CardAt(v, k) == sbuff[v][Newest(sbuff[v], k)].card
Hits(k) == {v \in Vaddr : Newest(sbuff[v], k) # 0}

LEMMA HitIs ==
  ASSUME sbuff \in Buckets, NEW k, NEW v \in Hits(k)
  PROVE  /\ Newest(sbuff[v], k) \in 1 .. Len(sbuff[v]) /\ sbuff[v][Newest(sbuff[v], k)] \in Entry
         /\ CardAt(v, k) \in Chunk /\ v \in Vaddr /\ sbuff[v] \in Seq(Entry)
<1>1. v \in Vaddr /\ Newest(sbuff[v], k) # 0 /\ sbuff[v] \in Seq(Entry)
  BY DEF Hits, Buckets
<1>2. Newest(sbuff[v], k) \in 1 .. Len(sbuff[v])
  BY <1>1, NewestIs
<1>3. sbuff[v][Newest(sbuff[v], k)] \in Entry
  BY <1>1, <1>2
<1> QED
  BY <1>1, <1>2, <1>3 DEF CardAt, Entry

\* The chunks that tlb_put_user_pages_cpid returns, one for each address of the
\* kind that has an entry of the cpid, in some order.
LEMMA ReturnedIs ==
  ASSUME sbuff \in Buckets, CardTypes, NEW kd \in Kind, NEW k
  PROVE  LET V == {v \in Hits(k) : KindOf(v) = kd /\ used[kd][CardAt(v, k)]}
             s == SetToSeq(V)
         IN  /\ Returned(kd, k) \in Seq(Chunk) /\ Len(Returned(kd, k)) = Len(s) /\ s \in Seq(V)
             /\ \A i \in 1 .. Len(s) : Returned(kd, k)[i] = CardAt(s[i], k)
             /\ \A i, j \in 1 .. Len(s) : s[i] = s[j] => i = j
             /\ \A v \in V : \E i \in 1 .. Len(s) : s[i] = v
<1> DEFINE V == {v \in Hits(k) : KindOf(v) = kd /\ used[kd][CardAt(v, k)]}
           s == SetToSeq(V)
<1>1. V \in SUBSET Vaddr
  BY DEF Hits
<1>2. s \in Seq(V) /\ (\A i, j \in 1 .. Len(s) : s[i] = s[j] => i = j)
      /\ \A v \in V : \E i \in 1 .. Len(s) : s[i] = v
  BY <1>1, FiniteAddresses, Enumerated
<1>3. Returned(kd, k) = [i \in 1 .. Len(s) |-> CardAt(s[i], k)]
  <2>1. V = {v \in Vaddr : KindOf(v) = kd /\ Newest(sbuff[v], k) # 0 /\ used[kd][CardAt(v, k)]}
    BY DEF Hits
  <2> QED
    BY <2>1 DEF Returned, CardAt
<1> HIDE DEF s
<1>4. \A i \in 1 .. Len(s) : CardAt(s[i], k) \in Chunk
  <2>1. \A i \in 1 .. Len(s) : s[i] \in Hits(k)
    BY <1>2
  <2> QED
    BY <2>1, HitIs
<1>5. Len(s) \in Nat
  BY <1>2
<1>6. Returned(kd, k) \in Seq(Chunk) /\ Len(Returned(kd, k)) = Len(s)
  BY <1>3, <1>4, <1>5
<1> QED
  BY <1>2, <1>3, <1>6 DEF s

LEMMA NoCpidKept ==
  ASSUME NEW s \in Seq(Entry), NoCpid(s)
  PROVE  /\ \A e \in Entry : e.cpid = 0 => NoCpid(<<e>> \o s)
         /\ \A i \in 1 .. Len(s) : NoCpid(RemoveAt(s, i))
<1>1. ASSUME NEW e \in Entry, e.cpid = 0 PROVE NoCpid(<<e>> \o s)
  <2>1. Len(s) \in Nat /\ \A j \in 1 .. Len(s) + 1 : j = 1 \/ j # 1
    OBVIOUS
  <2> QED
    BY <1>1, <2>1, Prepended DEF NoCpid
<1>2. ASSUME NEW i \in 1 .. Len(s) PROVE NoCpid(RemoveAt(s, i))
  <2>1. /\ Len(RemoveAt(s, i)) = Len(s) - 1
        /\ \A j \in 1 .. Len(s) - 1 : Before(i, j) \in 1 .. Len(s) /\ RemoveAt(s, i)[j] = s[Before(i, j)]
    BY Removed
  <2> QED
    BY <2>1 DEF NoCpid
<1> QED
  BY <1>1, <1>2

\* One word for the TLB.
LEMMA ServedOne ==
  ASSUME TlbType, NEW x \in Vaddr \X Cpid, NEW t \in Paddr \cup {None},
         NEW w, w = [at |-> x, to |-> t], tlb_service_dev({w})
  PROVE  TlbType' /\ tlb' = [tlb EXCEPT ![x] = t]
<1>1. w.at = x /\ w.to = t
  OBVIOUS
<1>2. tlb' = [y \in Vaddr \X Cpid |->
                IF \E u \in {w} : u.at = y THEN (CHOOSE u \in {w} : u.at = y).to ELSE tlb[y]]
  BY DEF tlb_service_dev
<1>3. ASSUME NEW y \in Vaddr \X Cpid PROVE tlb'[y] = IF y = x THEN t ELSE tlb[y]
  <2>1. CASE y = x
    <3>1. (CHOOSE u \in {w} : u.at = y) = w
      BY <1>1, <2>1
    <3> QED
      BY <1>1, <1>2, <2>1, <3>1
  <2>2. CASE y # x
    BY <1>1, <1>2, <2>2
  <2> QED
    BY <2>1, <2>2
<1>4. DOMAIN tlb' = Vaddr \X Cpid
  BY <1>2
<1>5. tlb' = [y \in Vaddr \X Cpid |-> IF y = x THEN t ELSE tlb[y]]
  BY <1>2, <1>3, <1>4
<1> QED
  BY <1>5 DEF TlbType

\* The end of tlb_get_user_pages.
Pinned(e, v, p) == e \in Entry /\ e.cpid = 0 /\ e.host = [proc |-> p, vaddr |-> v]
                   /\ e.card = ChunkId(head[KindOf(v)])
Translation(e) == [host |-> e.host, card |-> e.card]

LEMMA TranslationTyped ==
  ASSUME NEW e \in Entry
  PROVE  Translation(e) \in Paddr /\ Translation(e).host = e.host /\ Translation(e).card = e.card
  BY DEF Entry, Paddr, Translation

Mapped(e, v, k, p) ==
  /\ Pinned(e, v, p)
  /\ sbuff' = [sbuff EXCEPT ![v] = <<e>> \o sbuff[v]]
  /\ tlb' = [tlb EXCEPT ![<<v, k>>] = Translation(e)]

LEMMA MapPageIs ==
  ASSUME BaseInv, NEW v \in Vaddr, NEW k \in Cpid, NEW p \in Proc, MapPage(v, k, p)
  PROVE  /\ \E e : Mapped(e, v, k, p)
         /\ sbuff' \in Buckets /\ TlbType' /\ CardTypes' /\ untidy' \in BOOLEAN
         /\ \A u \in Vaddr : NoCpid(sbuff'[u])
<1>0. CardTypes /\ TlbType /\ sbuff \in Buckets /\ BucketInv
  BY DEF BaseInv
<1> DEFINE kd == KindOf(v)
           h == [proc |-> p, vaddr |-> v]
           e == [cpid |-> 0, host |-> h, card |-> ChunkId(head[kd])]
<1>1. /\ card_alloc(kd) /\ tlb_service_dev({[at |-> <<v, k>>, to |-> Translation(e)]})
      /\ sbuff' = [sbuff EXCEPT ![v] = <<e>> \o sbuff[v]]
      /\ untidy' = (untidy \/ sbuff[v] # <<>>)
  BY DEF MapPage, tlb_create_map, Translation
<1>2. CardTypes' /\ head[kd] \in Chunk
  BY <1>0, <1>1, Kinds, CardAllocTyped
<1>3. h \in Host /\ 0 \in Cpid
  BY MMUAssumption DEF Host, Cpid
<1>4. ChunkId(head[kd]) \in Chunk
  BY <1>2, Chunks
<1> HIDE DEF h
<1>5. e \in Entry /\ e.cpid = 0 /\ e.host = h /\ e.card = ChunkId(head[kd])
  BY <1>3, <1>4 DEF Entry
<1> HIDE DEF e, kd
<1>6. Pinned(e, v, p)
  BY <1>5 DEF Pinned, h, kd
<1>7. Translation(e) \in Paddr \cup {None} /\ <<v, k>> \in Vaddr \X Cpid
  BY <1>5, TranslationTyped
<1>8. TlbType' /\ tlb' = [tlb EXCEPT ![<<v, k>>] = Translation(e)]
  BY <1>0, <1>1, <1>7, ServedOne
<1>9. sbuff[v] \in Seq(Entry) /\ NoCpid(sbuff[v])
  BY <1>0 DEF Buckets, BucketInv
<1>10. <<e>> \o sbuff[v] \in Seq(Entry) /\ NoCpid(<<e>> \o sbuff[v])
  BY <1>5, <1>9, Prepended, NoCpidKept
<1>11. sbuff' \in Buckets /\ \A u \in Vaddr : NoCpid(sbuff'[u])
  <2>1. \A u \in Vaddr : NoCpid(sbuff[u])
    BY <1>0 DEF BucketInv
  <2> DEFINE s == <<e>> \o sbuff[v]
  <2>2. s \in Seq(Entry) /\ NoCpid(s) /\ sbuff' = [sbuff EXCEPT ![v] = s]
    BY <1>1, <1>10
  <2> HIDE DEF s
  <2>3. sbuff' \in Buckets /\ sbuff'[v] = s /\ \A u \in Vaddr : u # v => sbuff'[u] = sbuff[u]
    BY <1>0, <2>2 DEF Buckets
  <2> QED
    BY <2>1, <2>2, <2>3
<1>12. Mapped(e, v, k, p)
  BY <1>1, <1>6, <1>8 DEF Mapped
<1>13. untidy' \in BOOLEAN
  BY <1>1
<1> QED
  BY <1>2, <1>8, <1>11, <1>12, <1>13

\* tlb_put_user_pages.
LEMMA PutIs ==
  ASSUME BaseInv, NEW v \in Vaddr, NEW k \in Cpid, tlb_put_user_pages(v, k)
  PROVE  /\ sbuff' \in Buckets /\ TlbType' /\ CardTypes' /\ \A u \in Vaddr : NoCpid(sbuff'[u])
         /\ \/ v \notin Hits(k) /\ UNCHANGED <<cardVars, tlb, sbuff>>
            \/ /\ v \in Hits(k) /\ card_free(KindOf(v), CardAt(v, k))
               /\ sbuff' = [sbuff EXCEPT ![v] = RemoveAt(sbuff[v], Newest(sbuff[v], k))]
               /\ tlb' = [tlb EXCEPT ![<<v, k>>] = None]
<1>0. CardTypes /\ TlbType /\ sbuff \in Buckets /\ BucketInv
  BY DEF BaseInv
<1>1. CASE v \notin Hits(k)
  <2>1. UNCHANGED <<cardVars, tlb, sbuff>>
    BY <1>1 DEF tlb_put_user_pages, Hits
  <2> QED
    BY <1>0, <1>1, <2>1 DEF CardTypes, TlbType, cardVars, BucketInv
<1>2. CASE v \in Hits(k)
  <2> DEFINE i == Newest(sbuff[v], k)
  <2>1. /\ card_free(KindOf(v), CardAt(v, k)) /\ tlb_service_dev({[at |-> <<v, k>>, to |-> None]})
        /\ sbuff' = [sbuff EXCEPT ![v] = RemoveAt(sbuff[v], i)]
    BY <1>2 DEF tlb_put_user_pages, Hits, CardAt, tlb_create_unmap
  <2>2. i \in 1 .. Len(sbuff[v]) /\ CardAt(v, k) \in Chunk /\ sbuff[v] \in Seq(Entry)
    BY <1>0, <1>2, HitIs
  <2>3. CardTypes'
    BY <1>0, <2>1, <2>2, Kinds, CardFreeTyped
  <2>4. <<v, k>> \in Vaddr \X Cpid /\ None \in Paddr \cup {None}
    OBVIOUS
  <2>5. TlbType' /\ tlb' = [tlb EXCEPT ![<<v, k>>] = None]
    BY <1>0, <2>1, <2>4, ServedOne
  <2>6. NoCpid(sbuff[v])
    BY <1>0 DEF BucketInv
  <2> HIDE DEF i
  <2>7. RemoveAt(sbuff[v], i) \in Seq(Entry) /\ NoCpid(RemoveAt(sbuff[v], i))
    BY <2>2, <2>6, Removed, NoCpidKept
  <2>8. sbuff' \in Buckets /\ \A u \in Vaddr : NoCpid(sbuff'[u])
    <3>1. \A u \in Vaddr : NoCpid(sbuff[u])
      BY <1>0 DEF BucketInv
    <3> DEFINE s == RemoveAt(sbuff[v], i)
    <3>2. s \in Seq(Entry) /\ NoCpid(s) /\ sbuff' = [sbuff EXCEPT ![v] = s]
      BY <2>1, <2>7
    <3> HIDE DEF s
    <3>3. sbuff' \in Buckets /\ sbuff'[v] = s /\ \A u \in Vaddr : u # v => sbuff'[u] = sbuff[u]
      BY <1>0, <3>2 DEF Buckets
    <3> QED
      BY <3>1, <3>2, <3>3
  <2> QED
    BY <1>2, <2>1, <2>3, <2>5, <2>8 DEF i
<1> QED
  BY <1>1, <1>2

\* free_user_buffers.
LEMMA FreeIs ==
  ASSUME BaseInv, NEW v \in Vaddr, NEW k \in Cpid, free_user_buffers(v, k)
  PROVE  /\ lbuff' \in Buckets /\ TlbType' /\ CardTypes' /\ (v \notin Huge => lbuff' = lbuff)
         /\ LET i == Newest(lbuff[v], k)
            IN  \/ i = 0 /\ UNCHANGED <<cardVars, tlb, lbuff>>
                \/ /\ i \in 1 .. Len(lbuff[v]) /\ v \in Huge
                   /\ lbuff[v][i].cpid = k /\ lbuff[v][i].card \in Chunk
                   /\ card_free("large", lbuff[v][i].card)
                   /\ lbuff' = [lbuff EXCEPT ![v] = RemoveAt(lbuff[v], i)]
                   /\ tlb' = [tlb EXCEPT ![<<v, k>>] = None]
<1>0. CardTypes /\ TlbType /\ lbuff \in Buckets /\ BucketInv
  BY DEF BaseInv
<1> DEFINE i == Newest(lbuff[v], k)
<1>1. CASE i = 0
  <2>1. UNCHANGED <<cardVars, tlb, lbuff>>
    BY <1>1 DEF free_user_buffers
  <2> QED
    BY <1>0, <1>1, <2>1 DEF CardTypes, TlbType, cardVars
<1>2. CASE i # 0
  <2>1. /\ card_free("large", lbuff[v][i].card) /\ tlb_service_dev({[at |-> <<v, k>>, to |-> None]})
        /\ lbuff' = [lbuff EXCEPT ![v] = RemoveAt(lbuff[v], i)]
    BY <1>2 DEF free_user_buffers, tlb_create_unmap
  <2>2. lbuff[v] \in Seq(Entry)
    BY <1>0 DEF Buckets
  <2>3. i \in 1 .. Len(lbuff[v]) /\ lbuff[v][i].cpid = k
    BY <1>2, <2>2, NewestIs
  <2> HIDE DEF i
  <2>4. lbuff[v][i] \in Entry
    BY <2>2, <2>3
  <2>5. lbuff[v][i].card \in Chunk
    BY <2>4 DEF Entry
  <2>6. v \in Huge
    <3>1. lbuff[v] # <<>>
      BY <2>3
    <3> QED
      BY <3>1, <1>0 DEF BucketInv
  <2>7. CardTypes'
    BY <1>0, <2>1, <2>5, Kinds, CardFreeTyped
  <2>8. <<v, k>> \in Vaddr \X Cpid /\ None \in Paddr \cup {None}
    OBVIOUS
  <2>9. TlbType' /\ tlb' = [tlb EXCEPT ![<<v, k>>] = None]
    BY <1>0, <2>1, <2>8, ServedOne
  <2>10. RemoveAt(lbuff[v], i) \in Seq(Entry)
    BY <2>2, <2>3, Removed
  <2>11. lbuff' \in Buckets
    BY <1>0, <2>1, <2>10 DEF Buckets
  <2> QED
    BY <2>1, <2>3, <2>5, <2>6, <2>7, <2>9, <2>11 DEF i
<1> QED
  BY <1>1, <1>2

LEMMA GreatestIs ==
  ASSUME NEW n \in Nat, NEW I, I \subseteq 1 .. n, I # {}
  PROVE  Max(I) \in I /\ \A j \in I : Max(I) >= j
<1>1. \E x \in I : \A y \in I : x >= y
  <2> DEFINE J == {n - i : i \in I}
  <2>1. \A i \in I : i \in Nat /\ n - i \in Nat
    OBVIOUS
  <2>2. J \subseteq Nat /\ J # {}
    BY <2>1
  <2>3. PICK x \in J : \A y \in J : x <= y
    BY <2>2, LeastNat
  <2>4. PICK i \in I : x = n - i
    OBVIOUS
  <2>5. \A y \in I : n - i <= n - y
    BY <2>3, <2>4
  <2>6. \A y \in I : i >= y
    BY <2>1, <2>5
  <2> QED
    BY <2>6
<1> QED
  BY <1>1 DEF Max

\* The last time a chunk is given back.
LastFreed(ids, c) == SelectLastInSeq(ids, LAMBDA d : d = c)

LEMMA LastFreedIs ==
  ASSUME NEW ids \in Seq(Chunk), NEW c
  PROVE  \/ LastFreed(ids, c) = 0 /\ \A j \in 1 .. Len(ids) : ids[j] # c
         \/ LastFreed(ids, c) \in 1 .. Len(ids) /\ ids[LastFreed(ids, c)] = c
<1> DEFINE I == {i \in 1 .. Len(ids) : ids[i] = c}
<1>1. LastFreed(ids, c) = IF I # {} THEN Max(I) ELSE 0
  BY DEF LastFreed, SelectLastInSeq
<1>2. I # {} => Max(I) \in I
  <2>1. I \subseteq 1 .. Len(ids) /\ Len(ids) \in Nat
    OBVIOUS
  <2> QED
    BY <2>1, GreatestIs
<1> QED
  BY <1>1, <1>2

\* The links after a number of chunks was given back.
LEMMA FreedNextIs ==
  ASSUME CardTypes, NEW kd \in Kind, NEW ids \in Seq(Chunk)
  PROVE  /\ FreedHead(kd, ids) \in Chunk \cup {None}
         /\ FreedNext(kd, ids) \in [Chunk -> Chunk \cup {None}]
         /\ \A c \in Chunk : LastFreed(ids, c) = 0 => FreedNext(kd, ids)[c] = next[kd][c]
         /\ \A c \in Chunk : LastFreed(ids, c) = 1 => FreedNext(kd, ids)[c] = head[kd]
         /\ \A c \in Chunk : LastFreed(ids, c) > 1 => FreedNext(kd, ids)[c] = ids[LastFreed(ids, c) - 1]
<1>1. head[kd] \in Chunk \cup {None} /\ next[kd] \in [Chunk -> Chunk \cup {None}] /\ Len(ids) \in Nat
  BY DEF CardTypes
<1>2. FreedHead(kd, ids) \in Chunk \cup {None}
  BY <1>1 DEF FreedHead
<1> DEFINE F(c) == CASE LastFreed(ids, c) = 0 -> next[kd][c]
                     [] LastFreed(ids, c) = 1 -> head[kd]
                     [] OTHER -> ids[LastFreed(ids, c) - 1]
<1>3. FreedNext(kd, ids) = [c \in Chunk |-> F(c)]
  BY DEF FreedNext, LastFreed
<1>4. \A c \in Chunk : /\ LastFreed(ids, c) = 0 => F(c) = next[kd][c]
                       /\ LastFreed(ids, c) = 1 => F(c) = head[kd]
                       /\ LastFreed(ids, c) > 1 => F(c) = ids[LastFreed(ids, c) - 1]
  <2> SUFFICES ASSUME NEW c \in Chunk
               PROVE  /\ LastFreed(ids, c) = 0 => F(c) = next[kd][c]
                      /\ LastFreed(ids, c) = 1 => F(c) = head[kd]
                      /\ LastFreed(ids, c) > 1 => F(c) = ids[LastFreed(ids, c) - 1]
    OBVIOUS
  <2>1. LastFreed(ids, c) \in Nat
    BY <1>1, LastFreedIs
  <2> QED
    BY <2>1
<1> HIDE DEF F
<1>5. ASSUME NEW c \in Chunk PROVE F(c) \in Chunk \cup {None}
  <2>1. LastFreed(ids, c) = 0 \/ LastFreed(ids, c) \in 1 .. Len(ids)
    BY LastFreedIs
  <2>2. CASE LastFreed(ids, c) = 0
    BY <1>1, <1>4, <2>2
  <2>3. CASE LastFreed(ids, c) = 1
    BY <1>1, <1>4, <2>3
  <2>4. CASE LastFreed(ids, c) \in 1 .. Len(ids) /\ LastFreed(ids, c) # 1
    <3>1. LastFreed(ids, c) > 1 /\ LastFreed(ids, c) - 1 \in 1 .. Len(ids)
      BY <1>1, <2>4
    <3>2. ids[LastFreed(ids, c) - 1] \in Chunk
      BY <3>1
    <3> QED
      BY <1>4, <3>1, <3>2
  <2> QED
    BY <2>1, <2>2, <2>3, <2>4
<1>6. FreedNext(kd, ids) \in [Chunk -> Chunk \cup {None}] /\ \A c \in Chunk : FreedNext(kd, ids)[c] = F(c)
  BY <1>3, <1>5
<1> QED
  BY <1>2, <1>4, <1>6

\* tlb_put_user_pages_cpid.
LEMMA PutCpidIs ==
  ASSUME BaseInv, NEW k \in Cpid, tlb_put_user_pages_cpid(k)
  PROVE  /\ sbuff' \in Buckets /\ TlbType' /\ CardTypes' /\ \A u \in Vaddr : NoCpid(sbuff'[u])
         /\ \A v \in Vaddr : sbuff'[v] = IF v \in Hits(k) THEN RemoveAt(sbuff[v], Newest(sbuff[v], k)) ELSE sbuff[v]
         /\ \A x \in Vaddr \X Cpid : tlb'[x] = IF x[1] \in Hits(k) /\ x[2] = k THEN None ELSE tlb[x]
         /\ \A kd \in Kind : /\ head'[kd] = FreedHead(kd, Returned(kd, k))
                             /\ next'[kd] = FreedNext(kd, Returned(kd, k))
         /\ UNCHANGED <<used, spent>>
<1>0. CardTypes /\ TlbType /\ sbuff \in Buckets /\ BucketInv
  BY DEF BaseInv
<1> DEFINE Ret(kd) == Returned(kd, k)
           W == {tlb_create_unmap(v, k) : v \in Hits(k)}
<1>1. /\ head' = [kd \in Kind |-> FreedHead(kd, Ret(kd))]
      /\ next' = [kd \in Kind |-> FreedNext(kd, Ret(kd))]
      /\ tlb_service_dev(W)
      /\ sbuff' = [v \in Vaddr |-> IF v \in Hits(k) THEN RemoveAt(sbuff[v], Newest(sbuff[v], k)) ELSE sbuff[v]]
      /\ UNCHANGED <<used, spent>>
  BY DEF tlb_put_user_pages_cpid, Hits
<1>2. \A kd \in Kind : Ret(kd) \in Seq(Chunk)
  BY <1>0, ReturnedIs
<1> HIDE DEF Ret
<1>3. CardTypes'
  <2>1. \A kd \in Kind : /\ FreedHead(kd, Ret(kd)) \in Chunk \cup {None}
                         /\ FreedNext(kd, Ret(kd)) \in [Chunk -> Chunk \cup {None}]
    BY <1>0, <1>2, FreedNextIs
  <2>2. head' \in [Kind -> Chunk \cup {None}] /\ next' \in [Kind -> [Chunk -> Chunk \cup {None}]]
    BY <1>1, <2>1
  <2> QED
    BY <1>0, <1>1, <2>2 DEF CardTypes
<1>4. ASSUME NEW v \in Vaddr
      PROVE  /\ sbuff'[v] = IF v \in Hits(k) THEN RemoveAt(sbuff[v], Newest(sbuff[v], k)) ELSE sbuff[v]
             /\ sbuff'[v] \in Seq(Entry) /\ NoCpid(sbuff'[v])
  <2>1. sbuff'[v] = IF v \in Hits(k) THEN RemoveAt(sbuff[v], Newest(sbuff[v], k)) ELSE sbuff[v]
    BY <1>1
  <2>2. sbuff[v] \in Seq(Entry) /\ NoCpid(sbuff[v])
    BY <1>0 DEF Buckets, BucketInv
  <2>3. v \in Hits(k) => Newest(sbuff[v], k) \in 1 .. Len(sbuff[v])
    BY <1>0, HitIs
  <2>4. v \in Hits(k) => /\ RemoveAt(sbuff[v], Newest(sbuff[v], k)) \in Seq(Entry)
                         /\ NoCpid(RemoveAt(sbuff[v], Newest(sbuff[v], k)))
    BY <2>2, <2>3, Removed, NoCpidKept
  <2> QED
    BY <2>1, <2>2, <2>4
<1>5. sbuff' \in Buckets
  <2>1. DOMAIN sbuff' = Vaddr /\ sbuff' = [v \in Vaddr |-> sbuff'[v]]
    BY <1>1
  <2> QED
    BY <2>1, <1>4 DEF Buckets
<1>6. \A w \in W : \E v \in Hits(k) : w.at = <<v, k>> /\ w.to = None
  BY DEF tlb_create_unmap
<1>7. \A v \in Hits(k) : \E w \in W : w.at = <<v, k>>
  <2>1. \A v \in Hits(k) : tlb_create_unmap(v, k) \in W /\ tlb_create_unmap(v, k).at = <<v, k>>
    BY DEF tlb_create_unmap
  <2> QED
    BY <2>1
<1> HIDE DEF W
<1>8. tlb' = [x \in Vaddr \X Cpid |-> IF \E w \in W : w.at = x THEN (CHOOSE w \in W : w.at = x).to ELSE tlb[x]]
  BY <1>1 DEF tlb_service_dev
<1>9. ASSUME NEW x \in Vaddr \X Cpid
      PROVE  tlb'[x] = IF x[1] \in Hits(k) /\ x[2] = k THEN None ELSE tlb[x]
  <2>1. (\E w \in W : w.at = x) <=> x[1] \in Hits(k) /\ x[2] = k
    <3>1. \A v \in Hits(k) : <<v, k>> = x <=> v = x[1] /\ k = x[2]
      OBVIOUS
    <3> QED
      BY <3>1, <1>6, <1>7
  <2>2. CASE \E w \in W : w.at = x
    <3>1. (CHOOSE w \in W : w.at = x) \in W
      BY <2>2
    <3> QED
      BY <3>1, <2>1, <2>2, <1>6, <1>8
  <2>3. CASE ~\E w \in W : w.at = x
    BY <2>1, <2>3, <1>8
  <2> QED
    BY <2>2, <2>3
<1>10. TlbType'
  <2>1. tlb' = [x \in Vaddr \X Cpid |-> tlb'[x]]
    BY <1>8
  <2>2. \A x \in Vaddr \X Cpid : tlb'[x] \in Paddr \cup {None}
    BY <1>0, <1>9 DEF TlbType
  <2> QED
    BY <2>1, <2>2 DEF TlbType
<1>11. \A kd \in Kind : head'[kd] = FreedHead(kd, Returned(kd, k)) /\ next'[kd] = FreedNext(kd, Returned(kd, k))
  BY <1>1 DEF Ret
<1> QED
  BY <1>1, <1>3, <1>4, <1>5, <1>9, <1>10, <1>11

-----------------------------------------------------------------------------
(* BaseInv. *)

LEMMA BaseInit == Init => BaseInv
<1> SUFFICES ASSUME Init PROVE BaseInv
  OBVIOUS
<1>1. 0 \in Cpid /\ MaxCpid \in Nat /\ NChunks \in Nat /\ 0 \in 0 .. MaxMaps /\ 0 \in 0 .. MaxBuf /\ 0 \in 0 .. MaxCmds
  BY MMUAssumption DEF Cpid
<1>2. pid_alloc \in Seq(Cpid)
  BY <1>1 DEF Init, Cpid
<1>3. ProcTypes
  BY <1>1, <1>2 DEF Init, ProcTypes
<1>4. BuffTypes /\ TlbType /\ FlagTypes
  BY <1>1 DEF Init, BuffTypes, TlbType, FlagTypes
<1>5. sbuff \in Buckets /\ lbuff \in Buckets
  BY DEF Init, Buckets
<1>6. CardTypes
  <2>1. \A c \in Chunk : (IF c = NChunks - 1 THEN None ELSE c + 1) \in Chunk \cup {None}
    BY <1>1 DEF Chunk
  <2>2. next \in [Kind -> [Chunk -> Chunk \cup {None}]]
    BY <2>1 DEF Init, alloc_card_resources
  <2> QED
    BY <2>2, Chunks DEF Init, alloc_card_resources, CardTypes
<1>7. HwTypes /\ irq.state = "run"
  BY <1>1 DEF Init, HwTypes, IrqType
<1>8. PidInv /\ LockInv
  BY <1>7 DEF Init, PidInv, LockInv
<1>9. BucketInv
  BY DEF Init, BucketInv, NoCpid
<1> QED
  BY <1>3, <1>4, <1>5, <1>6, <1>7, <1>8, <1>9 DEF BaseInv

\* A process that exists gets or loses memory at one address.
LEMMA MemUpdated ==
  ASSUME ProcTypes, NEW p \in Proc, NEW v \in Vaddr, NEW m \in {"no", "user", "freed", "buff"},
         mem' = [mem EXCEPT ![p][v] = m]
  PROVE  /\ mem' \in [Proc -> [Vaddr -> {"no", "user", "freed", "buff"}]]
         /\ mem'[p][v] = m
         /\ \A q \in Proc, u \in Vaddr : q # p \/ u # v => mem'[q][u] = mem[q][u]
  BY DEF ProcTypes

\* What PidInv says of the memory and the commands, when the pids are the same.
LEMMA PidFrame ==
  ASSUME PidInv, UNCHANGED <<st, cpid, pid_array>>,
         \A q \in Proc : st[q] = "none" => mem'[q] = mem[q],
         \A x \in cmds' : pid_array[x[2]] # None,
         irq'.state = "fault" => irq'.cmd \in cmds'
  PROVE  PidInv'
  BY DEF PidInv

LEMMA ConstructBase ==
  ASSUME BaseInv, NEW p \in Proc, Construct(p)
  PROVE  BaseInv'
<1>0. ProcTypes /\ BuffTypes /\ CardTypes /\ sbuff \in Buckets /\ lbuff \in Buckets
      /\ TlbType /\ HwTypes /\ FlagTypes /\ PidInv /\ LockInv /\ BucketInv
  BY DEF BaseInv
<1> DEFINE k == Head(pid_alloc)
<1>1. /\ st[p] = "none" /\ pid_alloc # <<>> /\ cpid' = [cpid EXCEPT ![p] = k]
      /\ pid_array' = [pid_array EXCEPT ![k] = p] /\ pid_alloc' = Tail(pid_alloc)
      /\ st' = [st EXCEPT ![p] = "live"] /\ alone' = (alone /\ Registered = {})
      /\ UNCHANGED <<nmaps, mem, upages, sbuff, lbuff, buffVars, cardVars, tlb, hwVars, oops, untidy, lost>>
  BY DEF Construct
<1>2. UNCHANGED <<curr, mlock, nbuf, head, next, used, spent, cmds, ncmds, irq>>
  BY <1>1 DEF buffVars, cardVars, hwVars
<1>3. k \in Cpid /\ pid_alloc' \in Seq(Cpid)
  BY <1>0, <1>1 DEF ProcTypes
<1> HIDE DEF k
<1>4. ProcTypes'
  BY <1>0, <1>1, <1>3 DEF ProcTypes
<1>5. PidInv'
  <2>1. \A j \in Cpid : pid_array[j] # None => pid_array'[j] # None
    BY <1>0, <1>1, <1>3, MMUAssumption DEF ProcTypes
  <2>2. pid_array'[k] # None
    BY <1>0, <1>1, <1>3, MMUAssumption DEF ProcTypes
  <2>3. \A q \in Proc : st'[q] # "none" => pid_array'[cpid'[q]] # None
    <3> SUFFICES ASSUME NEW q \in Proc, st'[q] # "none" PROVE pid_array'[cpid'[q]] # None
      OBVIOUS
    <3>1. CASE q = p
      BY <3>1, <2>2, <1>0, <1>1 DEF ProcTypes
    <3>2. CASE q # p
      <4>1. st[q] # "none" /\ cpid'[q] = cpid[q] /\ cpid[q] \in Cpid
        BY <3>2, <1>0, <1>1 DEF ProcTypes
      <4> QED
        BY <4>1, <2>1, <1>0 DEF PidInv
    <3> QED
      BY <3>1, <3>2
  <2>4. \A q \in Proc : st'[q] = "none" => st[q] = "none"
    BY <1>0, <1>1 DEF ProcTypes
  <2>5. \A x \in cmds : x[2] \in Cpid
    BY <1>0 DEF HwTypes
  <2> QED
    BY <2>1, <2>3, <2>4, <2>5, <1>0, <1>1, <1>2 DEF PidInv
<1>6. FlagTypes'
  BY <1>0, <1>1 DEF FlagTypes
<1>7. BuffTypes' /\ CardTypes' /\ sbuff' \in Buckets /\ lbuff' \in Buckets /\ TlbType' /\ HwTypes' /\ LockInv' /\ BucketInv'
  BY <1>0, <1>1, <1>2 DEF BuffTypes, CardTypes, TlbType, HwTypes, LockInv, BucketInv
<1> QED
  BY <1>4, <1>5, <1>6, <1>7 DEF BaseInv

LEMMA UserMapBase ==
  ASSUME BaseInv, NEW p \in Proc, NEW v \in Vaddr, userMap(p, v)
  PROVE  BaseInv'
<1>0. ProcTypes /\ BuffTypes /\ CardTypes /\ sbuff \in Buckets /\ lbuff \in Buckets
      /\ TlbType /\ HwTypes /\ FlagTypes /\ PidInv /\ LockInv /\ BucketInv
  BY DEF BaseInv
<1>1. /\ st[p] = "live" /\ nmaps < MaxMaps /\ nmaps' = nmaps + 1
      /\ mem' = [mem EXCEPT ![p][v] = "user"]
      /\ UNCHANGED <<st, cpid, pid_alloc, pid_array, lbuff, buffVars, hwVars, alone, lost>>
      /\ \/ oops' = TRUE /\ UNCHANGED <<upages, cardVars, tlb, sbuff, untidy>>
         \/ MapPage(v, cpid[p], p) /\ upages' = [upages EXCEPT ![p] = @ \cup {v}] /\ oops' = oops
  BY DEF userMap
<1>2. UNCHANGED <<curr, mlock, nbuf, cmds, ncmds, irq>>
  BY <1>1 DEF buffVars, hwVars
<1>3. cpid[p] \in Cpid
  BY <1>0 DEF ProcTypes
<1>4. mem' \in [Proc -> [Vaddr -> {"no", "user", "freed", "buff"}]] /\ \A q \in Proc : q # p => mem'[q] = mem[q]
  BY <1>0, <1>1 DEF ProcTypes
<1>5. nmaps' \in 0 .. MaxMaps /\ upages' \in [Proc -> SUBSET Vaddr]
  BY <1>0, <1>1, MMUAssumption DEF ProcTypes
<1>6. ProcTypes'
  BY <1>0, <1>1, <1>4, <1>5 DEF ProcTypes
<1>7. PidInv'
  BY <1>0, <1>1, <1>2, <1>4, PidFrame DEF PidInv
<1>8. CardTypes' /\ TlbType' /\ sbuff' \in Buckets /\ untidy' \in BOOLEAN /\ \A u \in Vaddr : NoCpid(sbuff'[u])
  <2>1. CASE UNCHANGED <<upages, cardVars, tlb, sbuff, untidy>>
    BY <1>0, <2>1 DEF CardTypes, TlbType, cardVars, FlagTypes, BucketInv
  <2>2. CASE MapPage(v, cpid[p], p)
    BY <2>2, <1>3, MapPageIs
  <2> QED
    BY <1>1, <2>1, <2>2
<1>9. FlagTypes' /\ LockInv' /\ BuffTypes' /\ HwTypes'
  <2>1. oops' = TRUE \/ oops' = oops
    BY <1>1
  <2>2. FlagTypes'
    BY <1>0, <1>1, <2>1, <1>8 DEF FlagTypes
  <2>3. LockInv'
    BY <1>0, <1>2, <2>1 DEF LockInv
  <2> QED
    BY <1>0, <1>2, <2>2, <2>3 DEF BuffTypes, HwTypes
<1>10. lbuff' \in Buckets /\ BucketInv'
  BY <1>0, <1>1, <1>8 DEF BucketInv
<1> QED
  BY <1>6, <1>7, <1>8, <1>9, <1>10 DEF BaseInv

\* free() or munmap of memory of a process.
LEMMA FreedTyped ==
  ASSUME ProcTypes, NEW p \in Proc, NEW v \in Vaddr, FreedMem(p, v)
  PROVE  /\ mem' \in [Proc -> [Vaddr -> {"no", "user", "freed", "buff"}]]
         /\ \A q \in Proc : q # p => mem'[q] = mem[q]
         /\ mem'[p][v] # "buff" /\ \A u \in Vaddr : u # v => mem'[p][u] = mem[p][u]
<1> DEFINE m == IF v \in Small THEN "freed" ELSE "no"
<1>1. m \in {"no", "user", "freed", "buff"} /\ m # "buff" /\ mem' = [mem EXCEPT ![p][v] = m]
  BY DEF FreedMem
<1> HIDE DEF m
<1> QED
  BY <1>1 DEF ProcTypes

LEMMA FreeUserBase ==
  ASSUME BaseInv, NEW p \in Proc, NEW v \in Vaddr, freeUser(p, v)
  PROVE  BaseInv'
<1>0. ProcTypes /\ BuffTypes /\ CardTypes /\ sbuff \in Buckets /\ lbuff \in Buckets
      /\ TlbType /\ HwTypes /\ FlagTypes /\ PidInv /\ LockInv /\ BucketInv
  BY DEF BaseInv
<1>1. /\ st[p] = "live" /\ tlb_put_user_pages(v, cpid[p]) /\ FreedMem(p, v) /\ untidy' = (untidy \/ Busy(p))
      /\ UNCHANGED <<nmaps, st, cpid, pid_alloc, pid_array, upages, lbuff, buffVars, hwVars, oops, alone, lost>>
  BY DEF freeUser
<1>2. UNCHANGED <<curr, mlock, nbuf, cmds, ncmds, irq>>
  BY <1>1 DEF buffVars, hwVars
<1>3. cpid[p] \in Cpid
  BY <1>0 DEF ProcTypes
<1>4. mem' \in [Proc -> [Vaddr -> {"no", "user", "freed", "buff"}]] /\ \A q \in Proc : q # p => mem'[q] = mem[q]
  BY <1>0, <1>1, FreedTyped
<1>5. ProcTypes'
  BY <1>0, <1>1, <1>4 DEF ProcTypes
<1>6. PidInv'
  BY <1>0, <1>1, <1>2, <1>4, PidFrame DEF PidInv
<1>7. CardTypes' /\ TlbType' /\ sbuff' \in Buckets /\ \A u \in Vaddr : NoCpid(sbuff'[u])
  BY <1>1, <1>3, PutIs
<1>8. FlagTypes' /\ LockInv' /\ BuffTypes' /\ HwTypes'
  BY <1>0, <1>1, <1>2 DEF FlagTypes, LockInv, BuffTypes, HwTypes
<1>9. lbuff' \in Buckets /\ BucketInv'
  BY <1>0, <1>1, <1>7 DEF BucketInv
<1> QED
  BY <1>5, <1>6, <1>7, <1>8, <1>9 DEF BaseInv

LEMMA DestructorUnmapBase ==
  ASSUME BaseInv, NEW p \in Proc, NEW v \in Vaddr, DestructorUnmap(p, v)
  PROVE  BaseInv'
<1>0. ProcTypes /\ BuffTypes /\ CardTypes /\ sbuff \in Buckets /\ lbuff \in Buckets
      /\ TlbType /\ HwTypes /\ FlagTypes /\ PidInv /\ LockInv /\ BucketInv
  BY DEF BaseInv
<1>1. /\ st[p] = "unreg" /\ tlb_put_user_pages(v, cpid[p]) /\ upages' = [upages EXCEPT ![p] = @ \ {v}]
      /\ FreedMem(p, v) \/ mem' = mem
      /\ UNCHANGED <<nmaps, st, cpid, pid_alloc, pid_array, lbuff, buffVars, hwVars, oops, alone, untidy, lost>>
  BY DEF DestructorUnmap
<1>2. UNCHANGED <<curr, mlock, nbuf, cmds, ncmds, irq>>
  BY <1>1 DEF buffVars, hwVars
<1>3. cpid[p] \in Cpid
  BY <1>0 DEF ProcTypes
<1>4. mem' \in [Proc -> [Vaddr -> {"no", "user", "freed", "buff"}]] /\ \A q \in Proc : q # p => mem'[q] = mem[q]
  BY <1>0, <1>1, FreedTyped DEF ProcTypes
<1>5. ProcTypes'
  BY <1>0, <1>1, <1>4 DEF ProcTypes
<1>6. PidInv'
  BY <1>0, <1>1, <1>2, <1>4, PidFrame DEF PidInv
<1>7. CardTypes' /\ TlbType' /\ sbuff' \in Buckets /\ \A u \in Vaddr : NoCpid(sbuff'[u])
  BY <1>1, <1>3, PutIs
<1>8. FlagTypes' /\ LockInv' /\ BuffTypes' /\ HwTypes'
  BY <1>0, <1>1, <1>2 DEF FlagTypes, LockInv, BuffTypes, HwTypes
<1>9. lbuff' \in Buckets /\ BucketInv'
  BY <1>0, <1>1, <1>7 DEF BucketInv
<1> QED
  BY <1>5, <1>6, <1>7, <1>8, <1>9 DEF BaseInv

LEMMA AllocBase ==
  ASSUME BaseInv, NEW p \in Proc, alloc_user_buffers(p)
  PROVE  BaseInv'
<1>0. ProcTypes /\ BuffTypes /\ CardTypes /\ sbuff \in Buckets /\ lbuff \in Buckets
      /\ TlbType /\ HwTypes /\ FlagTypes /\ PidInv /\ LockInv /\ BucketInv
  BY DEF BaseInv
<1> DEFINE h == [buf |-> nbuf + 1]
           e == [cpid |-> cpid[p], host |-> h, card |-> ChunkId(head["large"])]
<1>1. /\ mlock' = p
      /\ UNCHANGED <<procVars, sbuff, lbuff, tlb, hwVars, alone, untidy, lost>>
      /\ \/ curr # None /\ UNCHANGED <<curr, nbuf, cardVars, oops>>
         \/ oops' = TRUE /\ UNCHANGED <<curr, nbuf, cardVars>>
         \/ nbuf < MaxBuf /\ nbuf' = nbuf + 1 /\ curr' = e /\ card_alloc("large") /\ oops' = oops
  BY DEF alloc_user_buffers
<1>2. UNCHANGED <<st, cpid, pid_alloc, pid_array, mem, upages, nmaps, cmds, ncmds, irq>>
  BY <1>1 DEF procVars, hwVars
<1>3. ProcTypes' /\ PidInv' /\ sbuff' \in Buckets /\ lbuff' \in Buckets /\ TlbType' /\ HwTypes' /\ BucketInv'
  BY <1>0, <1>1, <1>2 DEF ProcTypes, PidInv, TlbType, HwTypes, BucketInv
<1>4. FlagTypes' /\ mlock' \in Proc \cup {None}
  <2>1. oops' \in BOOLEAN
    BY <1>0, <1>1 DEF FlagTypes
  <2> QED
    BY <1>0, <1>1, <2>1 DEF FlagTypes
<1>5. nbuf' \in 0 .. MaxBuf /\ curr' \in Entry \cup {None} /\ CardTypes' /\ (oops' \/ curr' # None)
  <2>1. CASE curr # None /\ UNCHANGED <<curr, nbuf, cardVars, oops>>
    BY <1>0, <2>1 DEF BuffTypes, CardTypes, cardVars
  <2>2. CASE oops' = TRUE /\ UNCHANGED <<curr, nbuf, cardVars>>
    BY <1>0, <2>2 DEF BuffTypes, CardTypes, cardVars
  <2>3. CASE nbuf < MaxBuf /\ nbuf' = nbuf + 1 /\ curr' = e /\ card_alloc("large") /\ oops' = oops
    <3>1. nbuf' \in 0 .. MaxBuf /\ nbuf + 1 \in 1 .. MaxBuf
      BY <1>0, <2>3, MMUAssumption DEF BuffTypes
    <3>2. CardTypes' /\ head["large"] \in Chunk
      BY <1>0, <2>3, Kinds, CardAllocTyped
    <3>3. h \in Host /\ cpid[p] \in Cpid /\ ChunkId(head["large"]) \in Chunk
      BY <1>0, <3>1, <3>2, Chunks DEF Host, ProcTypes
    <3> HIDE DEF h
    <3>4. e \in Entry
      BY <3>3 DEF Entry
    <3>5. e # None
      BY <3>4, NoneAssumption
    <3> QED
      BY <2>3, <3>1, <3>2, <3>4, <3>5
  <2> QED
    BY <1>1, <2>1, <2>2, <2>3
<1> QED
  BY <1>3, <1>4, <1>5 DEF BaseInv, BuffTypes, LockInv

\* The mmap of getMem finds the buffer of the ioctl before it.
LEMMA MmapIs ==
  ASSUME BaseInv, NEW p \in Proc, NEW v \in Vaddr, fpga_mmap(p, v)
  PROVE  /\ curr \in Entry /\ v \in Huge
         /\ lbuff' = [lbuff EXCEPT ![v] = <<curr>> \o lbuff[v]] /\ lbuff' \in Buckets
         /\ tlb' = [tlb EXCEPT ![<<v, curr.cpid>>] = Translation(curr)] /\ TlbType'
<1>0. BuffTypes /\ lbuff \in Buckets /\ TlbType /\ LockInv
  BY DEF BaseInv
<1>1. curr \in Entry /\ v \in Huge
  <2>1. ~oops /\ mlock # None
    BY MMUAssumption DEF fpga_mmap
  <2> QED
    BY <1>0, <2>1 DEF fpga_mmap, LockInv, BuffTypes
<1>2. curr.cpid \in Cpid
  BY <1>1 DEF Entry
<1>3. Translation(curr) \in Paddr \cup {None} /\ <<v, curr.cpid>> \in Vaddr \X Cpid
  BY <1>1, <1>2, TranslationTyped
<1>4. tlb_service_dev({[at |-> <<v, curr.cpid>>, to |-> Translation(curr)]})
  BY DEF fpga_mmap, tlb_create_map, Translation
<1>5. TlbType' /\ tlb' = [tlb EXCEPT ![<<v, curr.cpid>>] = Translation(curr)]
  BY <1>0, <1>3, <1>4, ServedOne
<1> DEFINE s == <<curr>> \o lbuff[v]
<1>6. lbuff' = [lbuff EXCEPT ![v] = s]
  BY DEF fpga_mmap
<1>7. s \in Seq(Entry)
  BY <1>0, <1>1, Prepended DEF Buckets
<1> HIDE DEF s
<1>8. lbuff' \in Buckets
  BY <1>0, <1>6, <1>7 DEF Buckets
<1> QED
  BY <1>1, <1>5, <1>6, <1>8 DEF s

LEMMA MmapBase ==
  ASSUME BaseInv, NEW p \in Proc, NEW v \in Vaddr, fpga_mmap(p, v)
  PROVE  BaseInv'
<1>0. ProcTypes /\ BuffTypes /\ CardTypes /\ sbuff \in Buckets /\ lbuff \in Buckets
      /\ TlbType /\ HwTypes /\ FlagTypes /\ PidInv /\ LockInv /\ BucketInv
  BY DEF BaseInv
<1>1. /\ st[p] = "live" /\ mem' = [mem EXCEPT ![p][v] = "buff"] /\ curr' = None /\ mlock' = None
      /\ UNCHANGED <<nmaps, st, cpid, pid_alloc, pid_array, upages, sbuff, nbuf, cardVars, hwVars, oops, alone, untidy, lost>>
  BY DEF fpga_mmap
<1>2. UNCHANGED <<cmds, ncmds, irq, head, next, used, spent>>
  BY <1>1 DEF cardVars, hwVars
<1>3. v \in Huge /\ lbuff' = [lbuff EXCEPT ![v] = <<curr>> \o lbuff[v]] /\ lbuff' \in Buckets /\ TlbType'
  BY MmapIs
<1>4. mem' \in [Proc -> [Vaddr -> {"no", "user", "freed", "buff"}]] /\ \A q \in Proc : q # p => mem'[q] = mem[q]
  BY <1>0, <1>1 DEF ProcTypes
<1>5. ProcTypes'
  BY <1>0, <1>1, <1>4 DEF ProcTypes
<1>6. PidInv'
  BY <1>0, <1>1, <1>2, <1>4, PidFrame DEF PidInv
<1>7. CardTypes' /\ BuffTypes' /\ LockInv' /\ FlagTypes' /\ HwTypes' /\ sbuff' \in Buckets
  BY <1>0, <1>1, <1>2 DEF CardTypes, BuffTypes, LockInv, FlagTypes, HwTypes
<1>8. BucketInv'
  <2>1. \A u \in Vaddr : u # v => lbuff'[u] = lbuff[u]
    BY <1>0, <1>3 DEF Buckets
  <2> QED
    BY <1>0, <1>1, <1>3, <2>1 DEF BucketInv
<1> QED
  BY <1>3, <1>5, <1>6, <1>7, <1>8 DEF BaseInv

LEMMA MmapFailsBase ==
  ASSUME BaseInv, NEW p \in Proc, NEW v \in Vaddr, MmapFails(p, v)
  PROVE  BaseInv'
<1>0. ProcTypes /\ BuffTypes /\ CardTypes /\ sbuff \in Buckets /\ lbuff \in Buckets
      /\ TlbType /\ HwTypes /\ FlagTypes /\ PidInv /\ LockInv /\ BucketInv
  BY DEF BaseInv
<1> DEFINE s == <<curr>> \o lbuff[v]
<1>1. /\ ~oops /\ mlock = p /\ v \in Huge /\ mlock' = None /\ lost' = TRUE
      /\ lbuff' = lbuff \/ lbuff' = [lbuff EXCEPT ![v] = s]
      /\ UNCHANGED <<procVars, sbuff, curr, nbuf, cardVars, tlb, hwVars, oops, alone, untidy>>
  BY DEF MmapFails
<1>2. UNCHANGED <<st, cpid, pid_alloc, pid_array, mem, upages, nmaps, cmds, ncmds, irq, head, next, used, spent>>
  BY <1>1 DEF procVars, cardVars, hwVars
<1>3. curr \in Entry
  <2>1. mlock # None
    BY <1>1, MMUAssumption
  <2> QED
    BY <1>0, <1>1, <2>1 DEF LockInv, BuffTypes
<1>4. s \in Seq(Entry)
  BY <1>0, <1>3, Prepended DEF Buckets
<1> HIDE DEF s
<1>5. lbuff' \in Buckets /\ \A u \in Vaddr : u # v => lbuff'[u] = lbuff[u]
  BY <1>0, <1>1, <1>4 DEF Buckets
<1>6. BucketInv'
  BY <1>0, <1>1, <1>5 DEF BucketInv
<1>7. CardTypes' /\ BuffTypes' /\ LockInv' /\ FlagTypes' /\ HwTypes' /\ sbuff' \in Buckets /\ TlbType'
  BY <1>0, <1>1, <1>2 DEF CardTypes, BuffTypes, LockInv, FlagTypes, HwTypes, TlbType
<1>8. ProcTypes' /\ PidInv'
  BY <1>0, <1>2 DEF ProcTypes, PidInv
<1> QED
  BY <1>5, <1>6, <1>7, <1>8 DEF BaseInv

LEMMA FreeBuffBase ==
  ASSUME BaseInv, NEW p \in Proc, NEW v \in Vaddr, freeBuff(p, v)
  PROVE  BaseInv'
<1>0. ProcTypes /\ BuffTypes /\ CardTypes /\ sbuff \in Buckets /\ lbuff \in Buckets
      /\ TlbType /\ HwTypes /\ FlagTypes /\ PidInv /\ LockInv /\ BucketInv
  BY DEF BaseInv
<1>1. /\ st[p] \in {"live", "unreg"} /\ free_user_buffers(v, cpid[p]) /\ mem' = [mem EXCEPT ![p][v] = "no"]
      /\ UNCHANGED <<nmaps, st, cpid, pid_alloc, pid_array, upages, sbuff, buffVars, hwVars, oops, alone, untidy, lost>>
  BY DEF freeBuff
<1>2. UNCHANGED <<cmds, ncmds, irq, curr, mlock, nbuf>>
  BY <1>1 DEF buffVars, hwVars
<1>3. cpid[p] \in Cpid
  BY <1>0 DEF ProcTypes
<1>4. mem' \in [Proc -> [Vaddr -> {"no", "user", "freed", "buff"}]] /\ \A q \in Proc : q # p => mem'[q] = mem[q]
  BY <1>0, <1>1 DEF ProcTypes
<1>5. ProcTypes'
  BY <1>0, <1>1, <1>4 DEF ProcTypes
<1>6. PidInv'
  BY <1>0, <1>1, <1>2, <1>4, PidFrame DEF PidInv
<1>7. lbuff' \in Buckets /\ TlbType' /\ CardTypes' /\ (v \notin Huge => lbuff' = lbuff)
  BY <1>1, <1>3, FreeIs
<1>8. \A u \in Vaddr : u # v => lbuff'[u] = lbuff[u]
  <2>1. lbuff' = lbuff \/ \E s : lbuff' = [lbuff EXCEPT ![v] = s]
    BY <1>1, <1>3 DEF free_user_buffers
  <2> QED
    BY <2>1, <1>0 DEF Buckets
<1>9. BucketInv'
  BY <1>0, <1>1, <1>7, <1>8 DEF BucketInv
<1>10. BuffTypes' /\ LockInv' /\ FlagTypes' /\ HwTypes' /\ sbuff' \in Buckets
  BY <1>0, <1>1, <1>2 DEF BuffTypes, LockInv, FlagTypes, HwTypes
<1> QED
  BY <1>5, <1>6, <1>7, <1>9, <1>10 DEF BaseInv

\* The destructor's ioctl, and the release of the files of a process that died.
Unregister(p) ==
  /\ st[p] \in {"live", "dying"} /\ tlb_put_user_pages_cpid(cpid[p]) /\ pid_alloc' = <<cpid[p]>> \o pid_alloc
  /\ st' \in {[st EXCEPT ![p] = "unreg"], [st EXCEPT ![p] = "closed"]}
  /\ untidy' = (untidy \/ Busy(p))
  /\ UNCHANGED <<nmaps, cpid, pid_array, mem, upages, lbuff, curr, mlock, nbuf, cmds, ncmds, irq, oops, alone, lost>>

LEMMA Unregisters ==
  ASSUME NEW p \in Proc, UnregisterIoctl(p) \/ fpga_release(p)
  PROVE  Unregister(p)
  BY DEF UnregisterIoctl, fpga_release, Unregister, buffVars, hwVars

LEMMA UnregisterBase ==
  ASSUME BaseInv, NEW p \in Proc, Unregister(p)
  PROVE  BaseInv'
<1>0. ProcTypes /\ BuffTypes /\ CardTypes /\ sbuff \in Buckets /\ lbuff \in Buckets
      /\ TlbType /\ HwTypes /\ FlagTypes /\ PidInv /\ LockInv /\ BucketInv
  BY DEF BaseInv
<1>1. cpid[p] \in Cpid
  BY <1>0 DEF ProcTypes
<1>2. sbuff' \in Buckets /\ TlbType' /\ CardTypes' /\ \A u \in Vaddr : NoCpid(sbuff'[u])
  BY <1>1, PutCpidIs DEF Unregister
<1>3. pid_alloc' \in Seq(Cpid)
  BY <1>0, <1>1 DEF ProcTypes, Unregister
<1>4. /\ st' \in [Proc -> {"none", "live", "unreg", "dying", "closed"}]
      /\ \A q \in Proc : st'[q] = "none" <=> st[q] = "none"
  BY <1>0 DEF ProcTypes, Unregister
<1>5. ProcTypes'
  BY <1>0, <1>3, <1>4 DEF ProcTypes, Unregister
<1>6. PidInv'
  BY <1>0, <1>4 DEF PidInv, Unregister
<1>7. BuffTypes' /\ LockInv' /\ HwTypes' /\ lbuff' \in Buckets
  BY <1>0 DEF BuffTypes, LockInv, HwTypes, Unregister
<1>8. FlagTypes'
  BY <1>0 DEF FlagTypes, Unregister
<1>9. BucketInv'
  BY <1>0, <1>2 DEF BucketInv, Unregister
<1> QED
  BY <1>2, <1>5, <1>6, <1>7, <1>8, <1>9 DEF BaseInv

LEMMA EndBase ==
  ASSUME BaseInv, NEW p \in Proc, Close(p) \/ Die(p)
  PROVE  BaseInv'
<1>0. ProcTypes /\ BuffTypes /\ CardTypes /\ sbuff \in Buckets /\ lbuff \in Buckets
      /\ TlbType /\ HwTypes /\ FlagTypes /\ PidInv /\ LockInv /\ BucketInv
  BY DEF BaseInv
<1>1. /\ st[p] # "none" /\ st' \in {[st EXCEPT ![p] = "dying"], [st EXCEPT ![p] = "closed"]}
      /\ mem' \in {mem, [mem EXCEPT ![p] = [v \in Vaddr |-> "no"]]}
      /\ UNCHANGED <<nmaps, cpid, pid_alloc, pid_array, upages, sbuff, lbuff, curr, mlock, nbuf, head, next, used,
                     spent, tlb, cmds, ncmds, irq, oops, alone, untidy, lost>>
  BY DEF Close, Die, buffVars, cardVars, hwVars
<1>2. mem' \in [Proc -> [Vaddr -> {"no", "user", "freed", "buff"}]] /\ \A q \in Proc : q # p => mem'[q] = mem[q]
  BY <1>0, <1>1 DEF ProcTypes
<1>3. /\ st' \in [Proc -> {"none", "live", "unreg", "dying", "closed"}]
      /\ \A q \in Proc : st'[q] = "none" <=> st[q] = "none"
  BY <1>0, <1>1 DEF ProcTypes
<1>4. ProcTypes'
  BY <1>0, <1>1, <1>2, <1>3 DEF ProcTypes
<1>5. PidInv'
  BY <1>0, <1>1, <1>2, <1>3 DEF PidInv
<1>6. CardTypes' /\ BuffTypes' /\ LockInv' /\ FlagTypes' /\ HwTypes'
  BY <1>0, <1>1 DEF CardTypes, BuffTypes, LockInv, FlagTypes, HwTypes
<1>7. sbuff' \in Buckets /\ lbuff' \in Buckets /\ TlbType' /\ BucketInv'
  BY <1>0, <1>1 DEF TlbType, BucketInv
<1> QED
  BY <1>4, <1>5, <1>6, <1>7 DEF BaseInv

LEMMA HardwareBase ==
  ASSUME BaseInv, \/ \E p \in Proc, v \in Vaddr : invoke(p, v)
                  \/ \E x \in Vaddr \X Cpid : Access(x) \/ Evict(x)
  PROVE  BaseInv'
<1>0. ProcTypes /\ BuffTypes /\ CardTypes /\ sbuff \in Buckets /\ lbuff \in Buckets
      /\ TlbType /\ HwTypes /\ FlagTypes /\ PidInv /\ LockInv /\ BucketInv
  BY DEF BaseInv
<1>1. UNCHANGED <<st, cpid, pid_alloc, pid_array, mem, upages, nmaps, sbuff, lbuff, curr, mlock, nbuf, head, next,
                  used, spent, oops, alone, untidy, lost>>
  BY DEF invoke, Access, Evict, procVars, buffVars, cardVars
<1>2. ProcTypes' /\ BuffTypes' /\ CardTypes' /\ sbuff' \in Buckets /\ lbuff' \in Buckets /\ FlagTypes'
      /\ LockInv' /\ BucketInv'
  BY <1>0, <1>1 DEF ProcTypes, BuffTypes, CardTypes, FlagTypes, LockInv, BucketInv
<1>3. TlbType' /\ HwTypes' /\ PidInv'
  <2>1. ASSUME NEW p \in Proc, NEW v \in Vaddr, invoke(p, v) PROVE TlbType' /\ HwTypes' /\ PidInv'
    <3>1. /\ st[p] = "live" /\ ncmds < MaxCmds /\ ncmds' = ncmds + 1
          /\ cmds' = cmds \cup {<<v, cpid[p]>>} /\ tlb' = tlb /\ irq' = irq
      BY <2>1 DEF invoke
    <3>2. cpid[p] \in Cpid /\ pid_array[cpid[p]] # None
      BY <1>0, <3>1 DEF ProcTypes, PidInv
    <3>3. HwTypes'
      BY <1>0, <3>1, <3>2, MMUAssumption DEF HwTypes
    <3>4. \A x \in cmds' : pid_array[x[2]] # None
      BY <1>0, <3>1, <3>2 DEF PidInv
    <3>5. irq'.state = "fault" => irq'.cmd \in cmds'
      BY <1>0, <3>1 DEF PidInv
    <3> QED
      BY <1>0, <1>1, <3>1, <3>3, <3>4, <3>5, PidFrame DEF TlbType
  <2>2. ASSUME NEW x \in Vaddr \X Cpid, Access(x) PROVE TlbType' /\ HwTypes' /\ PidInv'
    <3>1. /\ x \in cmds /\ irq.state = "run" /\ ncmds' = ncmds /\ tlb' = tlb
          /\ \/ cmds' = cmds \ {x} /\ irq' = irq
             \/ irq' = [state |-> "fault", cmd |-> x] /\ cmds' = cmds
      BY <2>2 DEF Access
    <3>2. [state |-> "fault", cmd |-> x] \in IrqType
      BY DEF IrqType
    <3>3. HwTypes'
      BY <1>0, <3>1, <3>2 DEF HwTypes
    <3>4. irq'.state = "fault" => irq'.cmd \in cmds'
      BY <3>1
    <3>5. \A y \in cmds' : pid_array[y[2]] # None
      BY <1>0, <3>1 DEF PidInv
    <3> QED
      BY <1>0, <1>1, <3>1, <3>3, <3>4, <3>5, PidFrame DEF TlbType
  <2>3. ASSUME NEW x \in Vaddr \X Cpid, Evict(x) PROVE TlbType' /\ HwTypes' /\ PidInv'
    <3>1. ncmds < MaxCmds /\ tlb' = [tlb EXCEPT ![x] = None] /\ ncmds' = ncmds + 1 /\ cmds' = cmds /\ irq' = irq
      BY <2>3 DEF Evict
    <3>2. HwTypes' /\ TlbType'
      BY <1>0, <3>1, MMUAssumption DEF HwTypes, TlbType
    <3> QED
      BY <1>0, <1>1, <3>1, <3>2 DEF PidInv
  <2> QED
    BY <2>1, <2>2, <2>3
<1> QED
  BY <1>2, <1>3 DEF BaseInv

\* The fault handler maps the page of a process that it finds, or nothing.
LEMMA MissIs ==
  ASSUME BaseInv, fpga_tlb_miss_isr
  PROVE  \E v \in Vaddr, k \in Cpid :
           /\ irq.cmd = <<v, k>> /\ <<v, k>> \in cmds /\ pid_array[k] \in Proc
           /\ irq' \in IrqType /\ irq'.state # "fault"
           /\ UNCHANGED <<st, cpid, pid_alloc, pid_array, mem, upages, nmaps, lbuff, curr, mlock, nbuf, cmds, ncmds,
                          alone, lost>>
           /\ \/ Pinnable(pid_array[k], v) /\ MapPage(v, k, pid_array[k]) /\ oops' = oops
              \/ oops' \in {oops, TRUE} /\ UNCHANGED <<cardVars, tlb, sbuff, untidy>>
<1>0. HwTypes /\ ProcTypes /\ PidInv
  BY DEF BaseInv
<1>1. irq.state = "fault" /\ irq \in IrqType
  BY <1>0 DEF fpga_tlb_miss_isr, HwTypes
<1>2. irq \in [state : {"fault", "stuck"}, cmd : Vaddr \X Cpid]
  BY <1>1 DEF IrqType
<1>3. irq.cmd \in Vaddr \X Cpid /\ irq.cmd \in cmds
  BY <1>0, <1>1, <1>2 DEF PidInv
<1>4. PICK v \in Vaddr, k \in Cpid : irq.cmd = <<v, k>>
  BY <1>3
<1>5. irq.cmd[1] = v /\ irq.cmd[2] = k
  BY <1>4
<1>6. pid_array[k] \in Proc
  BY <1>0, <1>3, <1>5 DEF PidInv, ProcTypes
<1>7. /\ tlb_get_user_pages(v, k)
      /\ irq' = IF ~oops' /\ Pinnable(pid_array[k], v) THEN [state |-> "run"] ELSE [irq EXCEPT !.state = "stuck"]
      /\ UNCHANGED <<procVars, lbuff, buffVars, cmds, ncmds, alone, lost>>
  BY <1>5 DEF fpga_tlb_miss_isr
<1>8. /\ [state |-> "run"] \in IrqType /\ [state |-> "run"].state = "run"
      /\ [irq EXCEPT !.state = "stuck"] \in IrqType /\ [irq EXCEPT !.state = "stuck"].state = "stuck"
  BY <1>2 DEF IrqType
<1>9. irq' \in IrqType /\ irq'.state # "fault"
  BY <1>7, <1>8
<1>10. \/ Pinnable(pid_array[k], v) /\ MapPage(v, k, pid_array[k]) /\ oops' = oops
       \/ oops' \in {oops, TRUE} /\ UNCHANGED <<cardVars, tlb, sbuff, untidy>>
  BY <1>7 DEF tlb_get_user_pages
<1>11. UNCHANGED <<st, cpid, pid_alloc, pid_array, mem, upages, nmaps, lbuff, curr, mlock, nbuf, cmds, ncmds, alone, lost>>
  BY <1>7 DEF procVars, buffVars
<1> QED
  BY <1>3, <1>4, <1>6, <1>9, <1>10, <1>11

LEMMA MissBase ==
  ASSUME BaseInv, fpga_tlb_miss_isr
  PROVE  BaseInv'
<1>0. ProcTypes /\ BuffTypes /\ CardTypes /\ sbuff \in Buckets /\ lbuff \in Buckets
      /\ TlbType /\ HwTypes /\ FlagTypes /\ PidInv /\ LockInv /\ BucketInv
  BY DEF BaseInv
<1>1. PICK v \in Vaddr, k \in Cpid :
           /\ pid_array[k] \in Proc /\ irq' \in IrqType /\ irq'.state # "fault"
           /\ UNCHANGED <<st, cpid, pid_alloc, pid_array, mem, upages, nmaps, lbuff, curr, mlock, nbuf, cmds, ncmds,
                          alone, lost>>
           /\ \/ MapPage(v, k, pid_array[k]) /\ oops' = oops
              \/ oops' \in {oops, TRUE} /\ UNCHANGED <<cardVars, tlb, sbuff, untidy>>
  BY MissIs
<1>2. ProcTypes' /\ BuffTypes' /\ HwTypes' /\ lbuff' \in Buckets
  BY <1>0, <1>1 DEF ProcTypes, BuffTypes, HwTypes
<1>3. PidInv'
  BY <1>0, <1>1 DEF PidInv
<1>4. oops' \in {oops, TRUE}
  BY <1>1
<1>5. LockInv'
  BY <1>0, <1>1, <1>4 DEF LockInv
<1>6. CardTypes' /\ TlbType' /\ sbuff' \in Buckets /\ untidy' \in BOOLEAN /\ \A u \in Vaddr : NoCpid(sbuff'[u])
  <2>1. CASE UNCHANGED <<cardVars, tlb, sbuff, untidy>>
    BY <1>0, <2>1 DEF CardTypes, TlbType, cardVars, FlagTypes, BucketInv
  <2>2. CASE MapPage(v, k, pid_array[k])
    BY <2>2, <1>1, MapPageIs
  <2> QED
    BY <1>1, <2>1, <2>2
<1>7. FlagTypes'
  BY <1>0, <1>1, <1>4, <1>6 DEF FlagTypes
<1>8. BucketInv'
  BY <1>0, <1>1, <1>6 DEF BucketInv
<1> QED
  BY <1>2, <1>3, <1>5, <1>6, <1>7, <1>8 DEF BaseInv

\* The flat list of variables.
LEMMA AllUnchanged ==
  ASSUME UNCHANGED vars
  PROVE  UNCHANGED <<st, cpid, pid_alloc, pid_array, mem, upages, nmaps, sbuff, lbuff, curr, mlock, nbuf, head, next,
                     used, spent, tlb, cmds, ncmds, irq, oops, alone, untidy, lost>>
  BY DEF vars, procVars, buffVars, cardVars, hwVars

LEMMA BaseStep == BaseInv /\ [Next]_vars => BaseInv'
<1> SUFFICES ASSUME BaseInv, [Next]_vars PROVE BaseInv'
  OBVIOUS
<1>1. ASSUME NEW p \in Proc,
             \/ Construct(p) \/ alloc_user_buffers(p) \/ UnregisterIoctl(p)
             \/ Close(p) \/ Die(p) \/ fpga_release(p)
      PROVE  BaseInv'
  BY <1>1, ConstructBase, AllocBase, Unregisters, UnregisterBase, EndBase
<1>2. ASSUME NEW p \in Proc, NEW v \in Vaddr,
             \/ userMap(p, v) \/ freeUser(p, v) \/ fpga_mmap(p, v)
             \/ MmapFails(p, v) \/ freeBuff(p, v) \/ DestructorUnmap(p, v)
      PROVE  BaseInv'
  BY <1>2, UserMapBase, FreeUserBase, MmapBase, MmapFailsBase, FreeBuffBase, DestructorUnmapBase
<1>3. CASE UNCHANGED vars
  <2>1. UNCHANGED <<st, cpid, pid_alloc, pid_array, mem, upages, nmaps, sbuff, lbuff, curr, mlock, nbuf, head, next,
                     used, spent, tlb, cmds, ncmds, irq, oops, alone, untidy, lost>>
    BY <1>3, AllUnchanged
  <2> QED
    BY <2>1 DEF BaseInv, ProcTypes, BuffTypes, CardTypes, TlbType, HwTypes, FlagTypes, PidInv, LockInv, BucketInv
<1> QED
  BY <1>1, <1>2, <1>3, HardwareBase, MissBase DEF Next

\* The types of the model, and what every step rests on: who holds mlock finds
\* a buffer, and the fault handler finds a registered process for a command.
THEOREM BaseInductive == Spec => []BaseInv
  BY BaseInit, BaseStep, PTL DEF Spec

\* fpga_mmu.c and fpga_isr.c keep the types of the model: no cpid, chunk or
\* buffer outside their tables, for every number of processes and chunks.
THEOREM TypeCorrect == Spec => []TypeOK
  BY BaseInductive, BaseTyped, PTL

-----------------------------------------------------------------------------
(* Processes that use the vFPGA one after the other. *)

\* Nobody holds a cpid.
Idle == \A p \in Proc : st[p] \notin {"live", "dying"}

\* They all get cpid 0.
AloneInv ==
  alone =>
    /\ \A p, q \in Registered : p = q
    /\ \A p \in Proc : st[p] # "none" => cpid[p] = 0
    /\ Idle => pid_alloc # <<>> /\ pid_alloc[1] = 0
    /\ \A x \in cmds : x[2] = 0
    /\ \A x \in Vaddr \X Cpid : tlb[x] # None => x[2] = 0
    /\ curr # None => curr.cpid = 0
CurrInv == curr # None => "buf" \in DOMAIN curr.host

\* The other operations of a process, which leave the cpids alone.
UserStep ==
  \/ \E p \in Proc : alloc_user_buffers(p)
  \/ \E p \in Proc, v \in Vaddr :
       \/ userMap(p, v) \/ freeUser(p, v) \/ fpga_mmap(p, v) \/ MmapFails(p, v) \/ freeBuff(p, v)
       \/ DestructorUnmap(p, v) \/ invoke(p, v)
  \/ \E x \in Vaddr \X Cpid : Access(x) \/ Evict(x)
  \/ fpga_tlb_miss_isr

LEMMA UserSteps ==
  ASSUME UserStep
  PROVE  UNCHANGED <<st, cpid, pid_alloc, pid_array, alone>>
<1>1. ASSUME NEW p \in Proc, alloc_user_buffers(p) PROVE UNCHANGED <<st, cpid, pid_alloc, pid_array, alone>>
  BY <1>1 DEF alloc_user_buffers, procVars
<1>2. ASSUME NEW p \in Proc, NEW v \in Vaddr,
             userMap(p, v) \/ freeUser(p, v) \/ fpga_mmap(p, v)
      PROVE  UNCHANGED <<st, cpid, pid_alloc, pid_array, alone>>
  BY <1>2 DEF userMap, freeUser, fpga_mmap
<1>3. ASSUME NEW p \in Proc, NEW v \in Vaddr,
             MmapFails(p, v) \/ freeBuff(p, v) \/ DestructorUnmap(p, v) \/ invoke(p, v)
      PROVE  UNCHANGED <<st, cpid, pid_alloc, pid_array, alone>>
  BY <1>3 DEF MmapFails, freeBuff, DestructorUnmap, invoke, procVars
<1>4. ASSUME NEW x \in Vaddr \X Cpid, Access(x) \/ Evict(x) PROVE UNCHANGED <<st, cpid, pid_alloc, pid_array, alone>>
  BY <1>4 DEF Access, Evict, procVars
<1>5. CASE fpga_tlb_miss_isr
  BY <1>5 DEF fpga_tlb_miss_isr, procVars
<1> QED
  BY <1>1, <1>2, <1>3, <1>4, <1>5 DEF UserStep

LEMMA Steps ==
  ASSUME [Next]_vars
  PROVE  \/ UserStep \/ UNCHANGED vars
         \/ \E p \in Proc : Construct(p) \/ Unregister(p) \/ Close(p) \/ Die(p)
  BY Unregisters DEF Next, UserStep

LEMMA TlbSet ==
  ASSUME TlbType, NEW y \in Vaddr \X Cpid, NEW t, tlb' = [tlb EXCEPT ![y] = t]
  PROVE  \A x \in Vaddr \X Cpid : tlb'[x] = IF x = y THEN t ELSE tlb[x]
  BY DEF TlbType

\* Every new translation is under cpid 0.
LEMMA AloneTlb ==
  ASSUME BaseInv, AloneInv, alone, [Next]_vars
  PROVE  \A x \in Vaddr \X Cpid : tlb'[x] = tlb[x] \/ tlb'[x] = None \/ x[2] = 0
<1>0. TlbType /\ ProcTypes
  BY DEF BaseInv
<1>1. ASSUME NEW v \in Vaddr, NEW k \in Cpid, k = 0, NEW t, tlb' = [tlb EXCEPT ![<<v, k>>] = t]
      PROVE  \A x \in Vaddr \X Cpid : tlb'[x] = tlb[x] \/ x[2] = 0
  <2>1. <<v, k>> \in Vaddr \X Cpid /\ <<v, k>>[2] = 0
    BY <1>1
  <2> QED
    BY <1>0, <1>1, <2>1, TlbSet
<1>2. ASSUME NEW v \in Vaddr, NEW k \in Cpid, tlb' = [tlb EXCEPT ![<<v, k>>] = None]
      PROVE  \A x \in Vaddr \X Cpid : tlb'[x] = tlb[x] \/ tlb'[x] = None
  <2>1. <<v, k>> \in Vaddr \X Cpid
    OBVIOUS
  <2> QED
    BY <1>0, <1>2, <2>1, TlbSet
<1>3. ASSUME NEW p \in Proc, alloc_user_buffers(p) \/ Construct(p) \/ Close(p) \/ Die(p) PROVE tlb' = tlb
  BY <1>3 DEF alloc_user_buffers, Construct, Close, Die
<1>4. ASSUME NEW p \in Proc, Unregister(p)
      PROVE  \A x \in Vaddr \X Cpid : tlb'[x] = tlb[x] \/ tlb'[x] = None
  <2>1. cpid[p] \in Cpid /\ tlb_put_user_pages_cpid(cpid[p])
    BY <1>0, <1>4 DEF ProcTypes, Unregister
  <2> QED
    BY <2>1, PutCpidIs
<1>5. ASSUME NEW p \in Proc, NEW v \in Vaddr, userMap(p, v)
      PROVE  \A x \in Vaddr \X Cpid : tlb'[x] = tlb[x] \/ x[2] = 0
  <2>1. st[p] # "none" /\ (tlb' = tlb \/ MapPage(v, cpid[p], p)) /\ cpid[p] \in Cpid
    BY <1>0, <1>5 DEF userMap, ProcTypes
  <2>2. cpid[p] = 0
    BY <2>1 DEF AloneInv
  <2>3. CASE MapPage(v, cpid[p], p)
    <3>1. PICK e : Mapped(e, v, cpid[p], p)
      BY <2>1, <2>3, MapPageIs
    <3> QED
      BY <2>1, <2>2, <3>1, <1>1 DEF Mapped
  <2> QED
    BY <2>1, <2>3
<1>6. ASSUME NEW p \in Proc, NEW v \in Vaddr, freeUser(p, v) \/ DestructorUnmap(p, v) \/ freeBuff(p, v)
      PROVE  \A x \in Vaddr \X Cpid : tlb'[x] = tlb[x] \/ tlb'[x] = None
  <2>1. tlb_put_user_pages(v, cpid[p]) \/ free_user_buffers(v, cpid[p])
    BY <1>6 DEF freeUser, DestructorUnmap, freeBuff
  <2>2. cpid[p] \in Cpid
    BY <1>0 DEF ProcTypes
  <2>3. tlb' = tlb \/ tlb' = [tlb EXCEPT ![<<v, cpid[p]>>] = None]
    BY <2>1, <2>2, PutIs, FreeIs
  <2> QED
    BY <2>2, <2>3, <1>2
<1>7. ASSUME NEW p \in Proc, NEW v \in Vaddr, fpga_mmap(p, v)
      PROVE  \A x \in Vaddr \X Cpid : tlb'[x] = tlb[x] \/ x[2] = 0
  <2>1. curr \in Entry /\ tlb' = [tlb EXCEPT ![<<v, curr.cpid>>] = Translation(curr)]
    BY <1>7, MmapIs
  <2>2. curr # None /\ curr.cpid \in Cpid
    BY <2>1, NoneAssumption DEF Entry
  <2>3. curr.cpid = 0
    BY <2>2 DEF AloneInv
  <2> QED
    BY <2>1, <2>2, <2>3, <1>1
<1>8. ASSUME NEW p \in Proc, NEW v \in Vaddr, MmapFails(p, v) \/ invoke(p, v) PROVE tlb' = tlb
  BY <1>8 DEF MmapFails, invoke
<1>9. ASSUME NEW y \in Vaddr \X Cpid, Access(y) \/ Evict(y)
      PROVE  \A x \in Vaddr \X Cpid : tlb'[x] = tlb[x] \/ tlb'[x] = None
  BY <1>0, <1>9 DEF Access, Evict, TlbType
<1>10. ASSUME fpga_tlb_miss_isr
       PROVE  \A x \in Vaddr \X Cpid : tlb'[x] = tlb[x] \/ x[2] = 0
  <2>1. PICK v \in Vaddr, k \in Cpid : /\ <<v, k>> \in cmds /\ pid_array[k] \in Proc
                                       /\ MapPage(v, k, pid_array[k]) \/ tlb' = tlb
    BY <1>10, MissIs
  <2>2. k = 0
    <3>1. <<v, k>>[2] = 0
      BY <2>1 DEF AloneInv
    <3> QED
      BY <3>1
  <2>3. CASE MapPage(v, k, pid_array[k])
    <3>1. PICK e : Mapped(e, v, k, pid_array[k])
      BY <2>1, <2>3, MapPageIs
    <3> QED
      BY <2>2, <3>1, <1>1 DEF Mapped
  <2> QED
    BY <2>1, <2>3
<1>11. CASE UNCHANGED vars
  BY <1>11, AllUnchanged
<1>12. CASE UserStep
  BY <1>12, <1>3, <1>5, <1>6, <1>7, <1>8, <1>9, <1>10 DEF UserStep
<1> QED
  BY <1>3, <1>4, <1>11, <1>12, Steps

LEMMA AloneInit == Init => AloneInv /\ CurrInv
<1> SUFFICES ASSUME Init PROVE AloneInv /\ CurrInv
  OBVIOUS
<1>1. MaxCpid \in Nat
  BY MMUAssumption
<1>2. pid_alloc # <<>> /\ pid_alloc[1] = 0
  <2>1. pid_alloc = [i \in 1 .. MaxCpid + 1 |-> i - 1] /\ 1 \in 1 .. MaxCpid + 1
    BY <1>1 DEF Init
  <2>2. pid_alloc[1] = 1 - 1 /\ DOMAIN pid_alloc # {} /\ DOMAIN <<>> = {}
    BY <2>1
  <2> QED
    BY <2>2
<1>3. Registered = {} /\ cmds = {} /\ curr = None
  BY DEF Init, Registered
<1>4. \A x \in Vaddr \X Cpid : tlb[x] = None
  BY DEF Init
<1>5. \A p \in Proc : st[p] = "none"
  BY DEF Init
<1> QED
  BY <1>2, <1>3, <1>4, <1>5 DEF AloneInv, CurrInv

\* What a step may put into curr_user_buff.
LEMMA CurrSteps ==
  ASSUME BaseInv, [Next]_vars
  PROVE  \/ curr' \in {curr, None}
         \/ \E p \in Proc : /\ st[p] = "live" /\ mlock' = p /\ curr'.cpid = cpid[p] /\ "buf" \in DOMAIN curr'.host
<1>1. ASSUME NEW p \in Proc, alloc_user_buffers(p)
      PROVE  curr' = curr \/ (st[p] = "live" /\ mlock' = p /\ curr'.cpid = cpid[p] /\ "buf" \in DOMAIN curr'.host)
  <2>1. \/ curr' = curr
        \/ curr' = [cpid |-> cpid[p], host |-> [buf |-> nbuf + 1], card |-> ChunkId(head["large"])]
    BY <1>1 DEF alloc_user_buffers
  <2> QED
    BY <1>1, <2>1 DEF alloc_user_buffers
<1>2. ASSUME NEW p \in Proc, Construct(p) \/ Close(p) \/ Die(p) \/ Unregister(p) PROVE curr' = curr
  BY <1>2 DEF Construct, Close, Die, Unregister, buffVars
<1>3. ASSUME NEW p \in Proc, NEW v \in Vaddr,
             \/ userMap(p, v) \/ freeUser(p, v) \/ fpga_mmap(p, v) \/ MmapFails(p, v)
             \/ freeBuff(p, v) \/ DestructorUnmap(p, v) \/ invoke(p, v)
      PROVE  curr' \in {curr, None}
  BY <1>3 DEF userMap, freeUser, fpga_mmap, MmapFails, freeBuff, DestructorUnmap, invoke, buffVars
<1>4. ASSUME NEW x \in Vaddr \X Cpid, Access(x) \/ Evict(x) PROVE curr' = curr
  BY <1>4 DEF Access, Evict, buffVars
<1>5. ASSUME fpga_tlb_miss_isr PROVE curr' = curr
  BY <1>5 DEF fpga_tlb_miss_isr, buffVars
<1>6. CASE UNCHANGED vars
  BY <1>6, AllUnchanged
<1>7. CASE UserStep
  BY <1>7, <1>1, <1>3, <1>4, <1>5 DEF UserStep
<1> QED
  BY <1>2, <1>6, <1>7, Steps

\* Commands are sent by live processes, under their cpids.
LEMMA CmdSteps ==
  ASSUME BaseInv, [Next]_vars
  PROVE  cmds' \subseteq cmds \/ \E p \in Proc, v \in Vaddr : st[p] = "live" /\ cmds' = cmds \cup {<<v, cpid[p]>>}
<1>1. ASSUME NEW p \in Proc, NEW v \in Vaddr, invoke(p, v)
      PROVE  st[p] = "live" /\ cmds' = cmds \cup {<<v, cpid[p]>>}
  BY <1>1 DEF invoke
<1>2. ASSUME NEW p \in Proc, Construct(p) \/ Close(p) \/ Die(p) \/ Unregister(p) \/ alloc_user_buffers(p)
      PROVE  cmds' = cmds
  BY <1>2 DEF Construct, Close, Die, Unregister, alloc_user_buffers, hwVars
<1>3. ASSUME NEW p \in Proc, NEW v \in Vaddr,
             \/ userMap(p, v) \/ freeUser(p, v) \/ fpga_mmap(p, v) \/ MmapFails(p, v)
             \/ freeBuff(p, v) \/ DestructorUnmap(p, v)
      PROVE  cmds' = cmds
  BY <1>3 DEF userMap, freeUser, fpga_mmap, MmapFails, freeBuff, DestructorUnmap, hwVars
<1>4. ASSUME NEW x \in Vaddr \X Cpid, Access(x) \/ Evict(x) PROVE cmds' \subseteq cmds
  BY <1>4 DEF Access, Evict
<1>5. ASSUME fpga_tlb_miss_isr PROVE cmds' = cmds
  BY <1>5 DEF fpga_tlb_miss_isr
<1>6. CASE UNCHANGED vars
  BY <1>6, AllUnchanged
<1>7. CASE UserStep
  BY <1>7, <1>1, <1>2, <1>3, <1>4, <1>5 DEF UserStep
<1> QED
  BY <1>2, <1>6, <1>7, Steps

LEMMA AloneStep == BaseInv /\ AloneInv /\ CurrInv /\ [Next]_vars => AloneInv' /\ CurrInv'
<1> SUFFICES ASSUME BaseInv, AloneInv, CurrInv, [Next]_vars PROVE AloneInv' /\ CurrInv'
  OBVIOUS
<1>0. ProcTypes /\ HwTypes
  BY DEF BaseInv
<1>1. CurrInv'
  BY CurrSteps DEF CurrInv
<1>2. ASSUME alone' PROVE alone
  <2>1. alone' = alone \/ alone' = (alone /\ Registered = {})
    BY Steps, UserSteps, AllUnchanged DEF Construct, Unregister, Close, Die
  <2> QED
    BY <1>2, <2>1
<1>3. ASSUME alone'
      PROVE  /\ \A x \in cmds' : x[2] = 0
             /\ \A x \in Vaddr \X Cpid : tlb'[x] # None => x[2] = 0
             /\ curr' # None => curr'.cpid = 0
  <2>1. alone
    BY <1>2, <1>3
  <2>2. /\ \A p \in Proc : st[p] # "none" => cpid[p] = 0
        /\ \A x \in cmds : x[2] = 0
        /\ \A x \in Vaddr \X Cpid : tlb[x] # None => x[2] = 0
        /\ curr # None => curr.cpid = 0
    BY <2>1 DEF AloneInv
  <2>3. \A p \in Proc : st[p] = "live" => cpid[p] = 0
    BY <2>2
  <2>4. \A x \in cmds' : x[2] = 0
    BY <2>2, <2>3, CmdSteps
  <2>5. \A x \in Vaddr \X Cpid : tlb'[x] # None => x[2] = 0
    BY <2>1, <2>2, AloneTlb
  <2>6. curr' # None => curr'.cpid = 0
    BY <2>2, <2>3, CurrSteps
  <2> QED
    BY <2>4, <2>5, <2>6
<1>4. ASSUME alone'
      PROVE  /\ \A p, q \in Registered' : p = q
             /\ \A p \in Proc : st'[p] # "none" => cpid'[p] = 0
             /\ Idle' => pid_alloc' # <<>> /\ pid_alloc'[1] = 0
  <2>1. /\ \A p, q \in Registered : p = q
        /\ \A p \in Proc : st[p] # "none" => cpid[p] = 0
        /\ Idle => pid_alloc # <<>> /\ pid_alloc[1] = 0
    BY <1>2, <1>4 DEF AloneInv
  <2>2. CASE UNCHANGED <<st, cpid, pid_alloc>>
    BY <2>1, <2>2 DEF Registered, Idle
  <2>3. ASSUME NEW p \in Proc, Construct(p)
        PROVE  /\ \A q, r \in Registered' : q = r
               /\ \A q \in Proc : st'[q] # "none" => cpid'[q] = 0
               /\ ~Idle'
    <3>1. /\ Registered = {} /\ cpid' = [cpid EXCEPT ![p] = Head(pid_alloc)] /\ pid_alloc # <<>>
          /\ st' = [st EXCEPT ![p] = "live"]
      BY <1>4, <2>3 DEF Construct
    <3>2. Idle
      BY <3>1 DEF Idle, Registered
    <3>3. Head(pid_alloc) = 0
      BY <2>1, <3>1, <3>2, <1>0 DEF ProcTypes
    <3>4. Registered' = {p} /\ ~Idle'
      BY <1>0, <3>1 DEF Registered, Idle, ProcTypes
    <3> QED
      BY <1>0, <2>1, <3>1, <3>3, <3>4 DEF ProcTypes
  <2>4. ASSUME NEW p \in Proc, Unregister(p)
        PROVE  /\ Registered' \subseteq Registered
               /\ \A q \in Proc : st'[q] # "none" => cpid'[q] = 0
               /\ pid_alloc' # <<>> /\ pid_alloc'[1] = 0
    <3>1. /\ st[p] # "none" /\ cpid' = cpid /\ pid_alloc' = <<cpid[p]>> \o pid_alloc
          /\ st' \in {[st EXCEPT ![p] = "unreg"], [st EXCEPT ![p] = "closed"]}
          /\ st[p] \in {"live", "dying"}
      BY <2>4 DEF Unregister
    <3>2. cpid[p] = 0 /\ cpid[p] \in Cpid /\ pid_alloc \in Seq(Cpid)
      BY <1>0, <2>1, <3>1 DEF ProcTypes
    <3>3. pid_alloc' # <<>> /\ pid_alloc'[1] = 0
      BY <3>1, <3>2, Prepended
    <3>4. Registered' \subseteq Registered
      BY <1>0, <3>1 DEF Registered, ProcTypes
    <3> QED
      BY <1>0, <2>1, <3>1, <3>3, <3>4 DEF ProcTypes
  <2>5. ASSUME NEW p \in Proc, Close(p) \/ Die(p)
        PROVE  /\ Registered' \subseteq Registered /\ (Idle' => Idle)
               /\ UNCHANGED <<cpid, pid_alloc>> /\ \A q \in Proc : st'[q] # "none" => st[q] # "none"
    <3>1. /\ \/ st[p] = "live" /\ st' = [st EXCEPT ![p] = "dying"]
             \/ st[p] = "unreg" /\ st' = [st EXCEPT ![p] = "closed"]
          /\ UNCHANGED <<cpid, pid_alloc>>
      BY <2>5 DEF Close, Die
    <3>2. Registered' \subseteq Registered
      BY <1>0, <3>1 DEF Registered, ProcTypes
    <3>3. Idle' => Idle
      BY <1>0, <3>1 DEF Idle, ProcTypes
    <3> QED
      BY <1>0, <3>1, <3>2, <3>3 DEF ProcTypes
  <2>6. CASE UNCHANGED vars
    BY <2>2, <2>6, AllUnchanged
  <2>7. CASE UserStep
    BY <2>2, <2>7, UserSteps
  <2>8. CASE \E p \in Proc : Construct(p) \/ Unregister(p)
    BY <2>1, <2>3, <2>4, <2>8
  <2>9. CASE \E p \in Proc : Close(p) \/ Die(p)
    <3>1. PICK p \in Proc : Close(p) \/ Die(p)
      BY <2>9
    <3> QED
      BY <2>1, <2>5, <3>1
  <2> QED
    BY <2>6, <2>7, <2>8, <2>9, Steps
<1> QED
  BY <1>1, <1>3, <1>4 DEF AloneInv

-----------------------------------------------------------------------------
(* Translations and the memory behind them. *)

\* A bucket has the memory of a translation.
Backs(s, t) == \E i \in 1 .. Len(s) : s[i].host = t.host /\ s[i].card = t.card

BackedAt(x) ==
  tlb[x] # None =>
    \/ "buf" \in DOMAIN tlb[x].host /\ (~lost => Backs(lbuff[x[1]], tlb[x]))
    \/ Backs(sbuff[x[1]], tlb[x])

\* When an mmap has failed a buffer can be translated that is in no bucket any
\* more; a user page never is.
BackedInv == alone => \A x \in Vaddr \X Cpid : BackedAt(x)

LEMMA BacksPrepended ==
  ASSUME NEW s \in Seq(Entry), NEW e \in Entry
  PROVE  Backs(<<e>> \o s, Translation(e)) /\ \A t : Backs(s, t) => Backs(<<e>> \o s, t)
<1>1. /\ Len(<<e>> \o s) = Len(s) + 1 /\ (<<e>> \o s)[1] = e /\ Len(s) \in Nat
      /\ \A i \in 1 .. Len(s) : i + 1 \in 1 .. Len(s) + 1 /\ (<<e>> \o s)[i + 1] = s[i]
  BY Prepended
<1>2. 1 \in 1 .. Len(s) + 1
  BY <1>1
<1>3. Backs(<<e>> \o s, Translation(e))
  BY <1>1, <1>2, TranslationTyped DEF Backs
<1>4. ASSUME NEW t, Backs(s, t) PROVE Backs(<<e>> \o s, t)
  <2>1. PICK i \in 1 .. Len(s) : s[i].host = t.host /\ s[i].card = t.card
    BY <1>4 DEF Backs
  <2>2. i + 1 \in 1 .. Len(<<e>> \o s) /\ (<<e>> \o s)[i + 1] = s[i]
    BY <1>1
  <2> QED
    BY <2>1, <2>2 DEF Backs
<1> QED
  BY <1>3, <1>4

LEMMA BackedKept ==
  ASSUME NEW x, BackedAt(x), tlb'[x] = tlb[x] \/ tlb'[x] = None, lost => lost',
         \A t : Backs(sbuff[x[1]], t) => Backs(sbuff'[x[1]], t),
         ~lost' => \A t : Backs(lbuff[x[1]], t) => Backs(lbuff'[x[1]], t)
  PROVE  BackedAt(x)'
  BY DEF BackedAt

LEMMA BackedMap ==
  ASSUME BaseInv, NEW x \in Vaddr \X Cpid, BackedAt(x), lost' = lost, lbuff' = lbuff,
         NEW v \in Vaddr, NEW k \in Cpid, NEW p \in Proc, MapPage(v, k, p)
  PROVE  BackedAt(x)'
<1>0. TlbType /\ sbuff \in Buckets
  BY DEF BaseInv
<1>1. PICK e : Mapped(e, v, k, p)
  BY MapPageIs
<1>2. e \in Entry /\ tlb' = [tlb EXCEPT ![<<v, k>>] = Translation(e)]
  BY <1>1 DEF Mapped, Pinned
<1>3. <<v, k>> \in Vaddr \X Cpid /\ <<v, k>>[1] = v
  OBVIOUS
<1>4. tlb'[x] = IF x = <<v, k>> THEN Translation(e) ELSE tlb[x]
  BY <1>0, <1>2, <1>3 DEF TlbType
<1> DEFINE s == <<e>> \o sbuff[v]
<1>5. sbuff' = [sbuff EXCEPT ![v] = s] /\ sbuff[v] \in Seq(Entry)
  BY <1>0, <1>1 DEF Mapped, Buckets
<1>6. Backs(s, Translation(e)) /\ \A t : Backs(sbuff[v], t) => Backs(s, t)
  BY <1>2, <1>5, BacksPrepended
<1> HIDE DEF s
<1>7. sbuff'[v] = s /\ \A u \in Vaddr : u # v => sbuff'[u] = sbuff[u]
  BY <1>0, <1>5 DEF Buckets
<1>8. x[1] \in Vaddr
  OBVIOUS
<1>9. CASE x = <<v, k>>
  <2>1. tlb'[x] = Translation(e) /\ sbuff'[x[1]] = s
    BY <1>3, <1>4, <1>7, <1>9
  <2> QED
    BY <1>6, <2>1 DEF BackedAt
<1>10. CASE x # <<v, k>>
  <2>1. \A t : Backs(sbuff[x[1]], t) => Backs(sbuff'[x[1]], t)
    BY <1>6, <1>7, <1>8
  <2> QED
    BY <1>4, <1>10, <2>1, BackedKept
<1> QED
  BY <1>9, <1>10

LEMMA BackedInit == Init => BackedInv
  BY DEF Init, BackedInv, BackedAt

LEMMA BackedStep == BaseInv /\ AloneInv /\ BackedInv /\ AloneInv' /\ CurrInv /\ [Next]_vars => BackedInv'
<1> SUFFICES ASSUME BaseInv, AloneInv, AloneInv', CurrInv, BackedInv, [Next]_vars, alone', NEW x \in Vaddr \X Cpid
             PROVE  BackedAt(x)'
  BY DEF BackedInv
<1>0. TlbType /\ ProcTypes /\ sbuff \in Buckets /\ lbuff \in Buckets /\ BuffTypes
  BY DEF BaseInv
<1>1. alone
  BY Steps, UserSteps, AllUnchanged DEF Construct, Unregister, Close, Die
<1>2. BackedAt(x) /\ x[1] \in Vaddr /\ (tlb[x] # None => x[2] = 0)
  BY <1>1 DEF BackedInv, AloneInv
<1>3. \A p \in Proc : cpid[p] \in Cpid /\ (st[p] # "none" => cpid[p] = 0)
  BY <1>0, <1>1 DEF AloneInv, ProcTypes
<1>4. CASE UNCHANGED <<tlb, sbuff, lbuff, lost>>
  BY <1>2, <1>4 DEF BackedAt
<1>5. ASSUME NEW p \in Proc, alloc_user_buffers(p) \/ Construct(p) \/ Close(p) \/ Die(p)
      PROVE  UNCHANGED <<tlb, sbuff, lbuff, lost>>
  BY <1>5 DEF alloc_user_buffers, Construct, Close, Die
<1>6. ASSUME NEW p \in Proc, Unregister(p) PROVE BackedAt(x)'
  <2>1. /\ \A v \in Vaddr : sbuff'[v] = IF v \in Hits(cpid[p]) THEN RemoveAt(sbuff[v], Newest(sbuff[v], cpid[p])) ELSE sbuff[v]
        /\ tlb'[x] = IF x[1] \in Hits(cpid[p]) /\ x[2] = cpid[p] THEN None ELSE tlb[x]
    BY <1>3, <1>6, PutCpidIs DEF Unregister
  <2>2. cpid[p] = 0 /\ lbuff' = lbuff /\ lost' = lost
    BY <1>3, <1>6 DEF Unregister
  <2>3. CASE x[1] \in Hits(cpid[p])
    <3>1. tlb'[x] = None
      BY <1>2, <2>1, <2>2, <2>3
    <3> QED
      BY <3>1 DEF BackedAt
  <2>4. CASE x[1] \notin Hits(cpid[p])
    <3>1. tlb'[x] = tlb[x] /\ sbuff'[x[1]] = sbuff[x[1]]
      BY <1>2, <2>1, <2>4
    <3> QED
      BY <3>1, <2>2, <1>2 DEF BackedAt
  <2> QED
    BY <2>3, <2>4
<1>7. ASSUME NEW p \in Proc, NEW v \in Vaddr, userMap(p, v) PROVE BackedAt(x)'
  <2>1. lost' = lost /\ lbuff' = lbuff /\ (MapPage(v, cpid[p], p) \/ UNCHANGED <<tlb, sbuff>>)
    BY <1>7 DEF userMap
  <2> QED
    BY <1>2, <1>3, <1>4, <2>1, BackedMap
<1>8. ASSUME NEW p \in Proc, NEW v \in Vaddr, freeUser(p, v) \/ DestructorUnmap(p, v) PROVE BackedAt(x)'
  <2>1. cpid[p] = 0 /\ cpid[p] \in Cpid /\ tlb_put_user_pages(v, cpid[p]) /\ lbuff' = lbuff /\ lost' = lost
    BY <1>3, <1>8 DEF freeUser, DestructorUnmap
  <2>2. \/ UNCHANGED <<tlb, sbuff>>
        \/ /\ sbuff' = [sbuff EXCEPT ![v] = RemoveAt(sbuff[v], Newest(sbuff[v], cpid[p]))]
           /\ tlb' = [tlb EXCEPT ![<<v, cpid[p]>>] = None]
    BY <2>1, PutIs
  <2>3. CASE /\ sbuff' = [sbuff EXCEPT ![v] = RemoveAt(sbuff[v], Newest(sbuff[v], cpid[p]))]
             /\ tlb' = [tlb EXCEPT ![<<v, cpid[p]>>] = None]
    <3>1. <<v, cpid[p]>> \in Vaddr \X Cpid /\ (x = <<v, cpid[p]>> <=> x[1] = v /\ x[2] = 0)
      BY <2>1
    <3>2. tlb'[x] = IF x = <<v, cpid[p]>> THEN None ELSE tlb[x]
      BY <1>0, <2>3, <3>1 DEF TlbType
    <3>3. x[1] # v => sbuff'[x[1]] = sbuff[x[1]]
      BY <1>0, <1>2, <2>3 DEF Buckets
    <3>4. x[1] = v => tlb'[x] = None
      BY <1>2, <3>1, <3>2
    <3> QED
      BY <1>2, <2>1, <3>2, <3>3, <3>4 DEF BackedAt
  <2> QED
    BY <1>4, <2>1, <2>2, <2>3
<1>9. ASSUME NEW p \in Proc, NEW v \in Vaddr, freeBuff(p, v) PROVE BackedAt(x)'
  <2>1. cpid[p] = 0 /\ cpid[p] \in Cpid /\ free_user_buffers(v, cpid[p]) /\ sbuff' = sbuff /\ lost' = lost
    BY <1>3, <1>9 DEF freeBuff
  <2>2. \/ UNCHANGED <<tlb, lbuff>>
        \/ /\ lbuff' = [lbuff EXCEPT ![v] = RemoveAt(lbuff[v], Newest(lbuff[v], cpid[p]))]
           /\ tlb' = [tlb EXCEPT ![<<v, cpid[p]>>] = None]
    BY <2>1, FreeIs
  <2>3. CASE /\ lbuff' = [lbuff EXCEPT ![v] = RemoveAt(lbuff[v], Newest(lbuff[v], cpid[p]))]
             /\ tlb' = [tlb EXCEPT ![<<v, cpid[p]>>] = None]
    <3>1. <<v, cpid[p]>> \in Vaddr \X Cpid /\ (x = <<v, cpid[p]>> <=> x[1] = v /\ x[2] = 0)
      BY <2>1
    <3>2. tlb'[x] = IF x = <<v, cpid[p]>> THEN None ELSE tlb[x]
      BY <1>0, <2>3, <3>1 DEF TlbType
    <3>3. x[1] # v => lbuff'[x[1]] = lbuff[x[1]]
      BY <1>0, <1>2, <2>3 DEF Buckets
    <3>4. x[1] = v => tlb'[x] = None
      BY <1>2, <3>1, <3>2
    <3> QED
      BY <1>2, <2>1, <3>2, <3>3, <3>4 DEF BackedAt
  <2> QED
    BY <1>4, <2>1, <2>2, <2>3
<1>10. ASSUME NEW p \in Proc, NEW v \in Vaddr, fpga_mmap(p, v) PROVE BackedAt(x)'
  <2>1. /\ curr \in Entry /\ lbuff' = [lbuff EXCEPT ![v] = <<curr>> \o lbuff[v]]
        /\ tlb' = [tlb EXCEPT ![<<v, curr.cpid>>] = Translation(curr)]
    BY <1>10, MmapIs
  <2>2. sbuff' = sbuff /\ lost' = lost
    BY <1>10 DEF fpga_mmap
  <2>3. curr # None /\ curr.cpid \in Cpid /\ "buf" \in DOMAIN curr.host
    BY <2>1, NoneAssumption DEF Entry, CurrInv
  <2> DEFINE s == <<curr>> \o lbuff[v]
             y == <<v, curr.cpid>>
  <2>4. y \in Vaddr \X Cpid /\ y[1] = v
    BY <2>3
  <2>5. Backs(s, Translation(curr)) /\ \A t : Backs(lbuff[v], t) => Backs(s, t)
    <3>1. lbuff[v] \in Seq(Entry)
      BY <1>0 DEF Buckets
    <3> QED
      BY <2>1, <3>1, BacksPrepended
  <2>6. lbuff' = [lbuff EXCEPT ![v] = s]
    BY <2>1
  <2> HIDE DEF s
  <2>7. lbuff'[v] = s /\ \A u \in Vaddr : u # v => lbuff'[u] = lbuff[u]
    BY <1>0, <2>6 DEF Buckets
  <2>8. tlb'[x] = IF x = y THEN Translation(curr) ELSE tlb[x]
    BY <1>0, <2>1, <2>4 DEF TlbType
  <2> HIDE DEF y
  <2>9. CASE x = y
    <3>1. tlb'[x] = Translation(curr) /\ lbuff'[x[1]] = s
      BY <2>4, <2>7, <2>8, <2>9
    <3>2. "buf" \in DOMAIN tlb'[x].host
      BY <2>1, <2>3, <3>1, TranslationTyped
    <3> QED
      BY <2>5, <3>1, <3>2 DEF BackedAt
  <2>10. CASE x # y
    <3>1. \A t : Backs(lbuff[x[1]], t) => Backs(lbuff'[x[1]], t)
      BY <1>2, <2>5, <2>7
    <3> QED
      BY <1>2, <2>2, <2>8, <2>10, <3>1, BackedKept
  <2> QED
    BY <2>9, <2>10
<1>11. ASSUME NEW p \in Proc, NEW v \in Vaddr, MmapFails(p, v) PROVE BackedAt(x)'
  <2>1. UNCHANGED <<tlb, sbuff>> /\ lost'
    BY <1>11 DEF MmapFails
  <2> QED
    BY <1>2, <2>1, BackedKept
<1>12. ASSUME NEW p \in Proc, NEW v \in Vaddr, invoke(p, v) PROVE UNCHANGED <<tlb, sbuff, lbuff, lost>>
  BY <1>12 DEF invoke
<1>13. ASSUME NEW y \in Vaddr \X Cpid, Access(y) \/ Evict(y) PROVE BackedAt(x)'
  <2>1. UNCHANGED <<sbuff, lbuff, lost>> /\ (tlb' = tlb \/ tlb' = [tlb EXCEPT ![y] = None])
    BY <1>13 DEF Access, Evict
  <2>2. tlb'[x] = tlb[x] \/ tlb'[x] = None
    BY <1>0, <2>1 DEF TlbType
  <2> QED
    BY <1>2, <2>1, <2>2 DEF BackedAt
<1>14. ASSUME fpga_tlb_miss_isr PROVE BackedAt(x)'
  <2>1. PICK v \in Vaddr, k \in Cpid : /\ pid_array[k] \in Proc /\ lost' = lost /\ lbuff' = lbuff
                                       /\ MapPage(v, k, pid_array[k]) \/ UNCHANGED <<tlb, sbuff>>
    BY <1>14, MissIs
  <2> QED
    BY <1>2, <1>4, <2>1, BackedMap
<1>15. CASE UNCHANGED vars
  BY <1>4, <1>15, AllUnchanged
<1>16. CASE UserStep
  BY <1>16, <1>4, <1>5, <1>7, <1>8, <1>9, <1>10, <1>11, <1>12, <1>13, <1>14 DEF UserStep
<1> QED
  BY <1>4, <1>5, <1>6, <1>15, <1>16, Steps

-----------------------------------------------------------------------------
(* Tidy programs. *)

\* An address has one page, and whoever gives up the cpid leaves neither pages
\* nor commands behind.
TidyInv ==
  alone /\ ~untidy =>
    /\ \A v \in Vaddr : Len(sbuff[v]) <= 1
    /\ Idle => cmds = {} /\ \A v \in Vaddr : sbuff[v] = <<>>

LEMMA TidyInit == Init => TidyInv
<1> SUFFICES ASSUME Init PROVE TidyInv
  OBVIOUS
<1>1. cmds = {} /\ \A v \in Vaddr : sbuff[v] = <<>>
  BY DEF Init
<1> QED
  BY <1>1 DEF TidyInv

\* A page more, where there was none.
LEMMA TidyMap ==
  ASSUME BaseInv, TidyInv, alone, ~untidy', NEW v \in Vaddr, NEW k \in Cpid, NEW p \in Proc, MapPage(v, k, p)
  PROVE  \A u \in Vaddr : Len(sbuff'[u]) <= 1
<1>0. sbuff \in Buckets
  BY DEF BaseInv
<1>1. PICK e : Mapped(e, v, k, p)
  BY MapPageIs
<1>2. ~untidy /\ sbuff[v] = <<>> /\ e \in Entry
  BY <1>1 DEF MapPage, Mapped, Pinned
<1> DEFINE s == <<e>> \o sbuff[v]
<1>3. Len(s) = 1 /\ sbuff' = [sbuff EXCEPT ![v] = s]
  BY <1>1, <1>2 DEF Mapped
<1> HIDE DEF s
<1>4. sbuff'[v] = s /\ \A u \in Vaddr : u # v => sbuff'[u] = sbuff[u]
  BY <1>0, <1>3 DEF Buckets
<1>5. \A u \in Vaddr : Len(sbuff[u]) <= 1
  BY <1>2 DEF TidyInv
<1>6. Len(s) <= 1
  BY <1>3
<1> QED
  BY <1>4, <1>5, <1>6

\* A page less.
LEMMA TidyPut ==
  ASSUME BaseInv, NEW v \in Vaddr, NEW k \in Cpid, tlb_put_user_pages(v, k),
         \A u \in Vaddr : Len(sbuff[u]) <= 1
  PROVE  /\ \A u \in Vaddr : Len(sbuff'[u]) <= 1
         /\ (\A u \in Vaddr : sbuff[u] = <<>>) => \A u \in Vaddr : sbuff'[u] = <<>>
<1>0. sbuff \in Buckets
  BY DEF BaseInv
<1> DEFINE i == Newest(sbuff[v], k)
           s == RemoveAt(sbuff[v], i)
<1>1. sbuff' = sbuff \/ (v \in Hits(k) /\ sbuff' = [sbuff EXCEPT ![v] = s])
  BY PutIs
<1>2. CASE v \in Hits(k) /\ sbuff' = [sbuff EXCEPT ![v] = s]
  <2>1. i \in 1 .. Len(sbuff[v]) /\ sbuff[v] \in Seq(Entry)
    BY <1>0, <1>2, HitIs
  <2> HIDE DEF i
  <2>2. Len(s) = Len(sbuff[v]) - 1 /\ sbuff[v] # <<>> /\ Len(sbuff[v]) \in Nat
    BY <2>1, Removed
  <2> HIDE DEF s
  <2>3. sbuff'[v] = s /\ \A u \in Vaddr : u # v => sbuff'[u] = sbuff[u]
    BY <1>0, <1>2 DEF Buckets
  <2>4. Len(s) <= 1
    BY <2>2
  <2> QED
    BY <2>2, <2>3, <2>4
<1> QED
  BY <1>1, <1>2

\* The pages of cpid 0 are all there are.
LEMMA TidyPutCpid ==
  ASSUME BaseInv, tlb_put_user_pages_cpid(0), \A u \in Vaddr : Len(sbuff[u]) <= 1
  PROVE  \A u \in Vaddr : sbuff'[u] = <<>>
<1>0. sbuff \in Buckets /\ BucketInv /\ 0 \in Cpid
  BY MMUAssumption DEF BaseInv, Cpid
<1>1. /\ \A v \in Vaddr : sbuff'[v] = IF v \in Hits(0) THEN RemoveAt(sbuff[v], Newest(sbuff[v], 0)) ELSE sbuff[v]
      /\ sbuff' \in Buckets
  BY <1>0, PutCpidIs
<1> SUFFICES ASSUME NEW v \in Vaddr PROVE sbuff'[v] = <<>>
  OBVIOUS
<1>2. sbuff[v] \in Seq(Entry) /\ sbuff'[v] \in Seq(Entry) /\ NoCpid(sbuff[v])
  BY <1>0, <1>1 DEF Buckets, BucketInv
<1>3. CASE v \in Hits(0)
  <2>1. Newest(sbuff[v], 0) \in 1 .. Len(sbuff[v])
    BY <1>0, <1>3, HitIs
  <2>2. Len(sbuff'[v]) = Len(sbuff[v]) - 1 /\ Len(sbuff[v]) <= 1 /\ Len(sbuff[v]) \in Nat
    BY <1>1, <1>2, <1>3, <2>1, Removed
  <2>3. Len(sbuff'[v]) = 0
    <3>1. \A m \in Nat : \A j \in 1 .. m : m <= 1 => m - 1 = 0
      OBVIOUS
    <3> QED
      BY <2>1, <2>2, <3>1
  <2> QED
    BY <1>2, <2>3
<1>4. CASE v \notin Hits(0)
  <2>1. Newest(sbuff[v], 0) = 0
    BY <1>4 DEF Hits
  <2>2. \A i \in 1 .. Len(sbuff[v]) : sbuff[v][i].cpid # 0
    BY <1>2, <2>1, NewestIs
  <2>3. Len(sbuff[v]) \in Nat /\ ~(1 \in 1 .. Len(sbuff[v]))
    BY <1>2, <2>2 DEF NoCpid
  <2>4. Len(sbuff[v]) = 0
    BY <2>3
  <2> QED
    BY <1>1, <1>2, <1>4, <2>4
<1> QED
  BY <1>3, <1>4

LEMMA TidyStep == BaseInv /\ AloneInv /\ TidyInv /\ [Next]_vars => TidyInv'
<1> SUFFICES ASSUME BaseInv, AloneInv, TidyInv, [Next]_vars, alone', ~untidy'
             PROVE  /\ \A v \in Vaddr : Len(sbuff'[v]) <= 1
                    /\ Idle' => cmds' = {} /\ \A v \in Vaddr : sbuff'[v] = <<>>
  BY DEF TidyInv
<1> DEFINE Tidy1 == /\ \A v \in Vaddr : Len(sbuff'[v]) <= 1
                    /\ Idle' => cmds' = {} /\ \A v \in Vaddr : sbuff'[v] = <<>>
<1>0. ProcTypes
  BY DEF BaseInv
<1>1. alone
  BY Steps, UserSteps, AllUnchanged DEF Construct, Unregister, Close, Die
<1>2. \A p \in Proc : cpid[p] \in Cpid /\ (st[p] # "none" => cpid[p] = 0)
  BY <1>0, <1>1 DEF AloneInv, ProcTypes
<1>3. ASSUME ~untidy
      PROVE  /\ \A v \in Vaddr : Len(sbuff[v]) <= 1
             /\ Idle => cmds = {} /\ \A v \in Vaddr : sbuff[v] = <<>>
  BY <1>1, <1>3 DEF TidyInv
<1>4. ASSUME UNCHANGED <<untidy, sbuff>>, cmds' \subseteq cmds, Idle' => Idle PROVE Tidy1
  BY <1>3, <1>4
<1>5. ASSUME NEW p \in Proc, alloc_user_buffers(p) \/ Close(p) \/ Die(p) PROVE Tidy1
  <2>1. UNCHANGED <<untidy, sbuff, cmds>>
    BY <1>5 DEF alloc_user_buffers, Close, Die, hwVars
  <2>2. st' = st \/ (st[p] = "live" /\ st' = [st EXCEPT ![p] = "dying"])
        \/ (st[p] = "unreg" /\ st' = [st EXCEPT ![p] = "closed"])
    BY <1>5 DEF alloc_user_buffers, procVars, Close, Die
  <2>3. Idle' => Idle
    BY <1>0, <2>2 DEF Idle, ProcTypes
  <2> QED
    BY <1>4, <2>1, <2>3
<1>6. ASSUME NEW p \in Proc, Construct(p) PROVE Tidy1
  <2>1. UNCHANGED <<untidy, sbuff, cmds>> /\ st' = [st EXCEPT ![p] = "live"]
    BY <1>6 DEF Construct, hwVars
  <2>2. ~Idle'
    BY <1>0, <2>1 DEF Idle, ProcTypes
  <2> QED
    BY <1>3, <2>1, <2>2
<1>7. ASSUME NEW p \in Proc, Unregister(p) PROVE Tidy1
  <2>1. ~untidy /\ ~Busy(p) /\ cpid[p] = 0 /\ cmds' = cmds /\ tlb_put_user_pages_cpid(0)
    BY <1>2, <1>7 DEF Unregister
  <2>2. cmds = {}
    BY <1>1, <2>1 DEF AloneInv, Busy
  <2>3. \A v \in Vaddr : sbuff'[v] = <<>>
    BY <1>3, <2>1, TidyPutCpid
  <2>4. Len(<<>>) <= 1
    OBVIOUS
  <2> QED
    BY <2>1, <2>2, <2>3, <2>4
<1>8. ASSUME NEW p \in Proc, st[p] = "live", st' = st PROVE ~Idle'
  BY <1>8 DEF Idle
<1>9. ASSUME NEW p \in Proc, NEW v \in Vaddr, userMap(p, v) PROVE Tidy1
  <2>1. st[p] = "live" /\ st' = st /\ (MapPage(v, cpid[p], p) \/ UNCHANGED <<sbuff, untidy>>)
    BY <1>9 DEF userMap
  <2>2. \A u \in Vaddr : Len(sbuff'[u]) <= 1
    BY <1>1, <1>2, <1>3, <2>1, TidyMap
  <2> QED
    BY <1>8, <2>1, <2>2
<1>10. ASSUME NEW p \in Proc, NEW v \in Vaddr, freeUser(p, v) \/ DestructorUnmap(p, v) PROVE Tidy1
  <2>1. tlb_put_user_pages(v, cpid[p]) /\ UNCHANGED <<st, cmds>> /\ (untidy => untidy')
    <3>1. CASE freeUser(p, v)
      BY <3>1 DEF freeUser, hwVars
    <3>2. CASE DestructorUnmap(p, v)
      BY <3>2 DEF DestructorUnmap, hwVars
    <3> QED
      BY <1>10, <3>1, <3>2
  <2>2. \A u \in Vaddr : Len(sbuff[u]) <= 1
    BY <1>3, <2>1
  <2>3. /\ \A u \in Vaddr : Len(sbuff'[u]) <= 1
        /\ (\A u \in Vaddr : sbuff[u] = <<>>) => \A u \in Vaddr : sbuff'[u] = <<>>
    BY <1>2, <2>1, <2>2, TidyPut
  <2>4. Idle' <=> Idle
    BY <2>1 DEF Idle
  <2> QED
    BY <1>3, <2>1, <2>3, <2>4
<1>11. ASSUME NEW p \in Proc, NEW v \in Vaddr, freeBuff(p, v) \/ fpga_mmap(p, v) \/ MmapFails(p, v) PROVE Tidy1
  <2>1. UNCHANGED <<untidy, sbuff, cmds, st>>
    BY <1>11 DEF freeBuff, fpga_mmap, MmapFails, hwVars, procVars
  <2>2. Idle' <=> Idle
    BY <2>1 DEF Idle
  <2> QED
    BY <1>4, <2>1, <2>2
<1>12. ASSUME NEW p \in Proc, NEW v \in Vaddr, invoke(p, v) PROVE Tidy1
  <2>1. UNCHANGED <<untidy, sbuff>> /\ st' = st /\ st[p] = "live"
    BY <1>12 DEF invoke, procVars
  <2> QED
    BY <1>3, <1>8, <2>1
<1>13. ASSUME NEW x \in Vaddr \X Cpid, Access(x) \/ Evict(x) PROVE Tidy1
  <2>1. UNCHANGED <<untidy, sbuff, st>> /\ cmds' \subseteq cmds
    BY <1>13 DEF Access, Evict, procVars
  <2>2. Idle' <=> Idle
    BY <2>1 DEF Idle
  <2> QED
    BY <1>4, <2>1, <2>2
<1>14. ASSUME fpga_tlb_miss_isr PROVE Tidy1
  <2>1. PICK v \in Vaddr, k \in Cpid : /\ <<v, k>> \in cmds /\ pid_array[k] \in Proc /\ UNCHANGED <<st, cmds>>
                                       /\ MapPage(v, k, pid_array[k]) \/ UNCHANGED <<sbuff, untidy>>
    BY <1>14, MissIs
  <2>2. untidy => untidy'
    BY <2>1 DEF MapPage
  <2>3. ~Idle'
    <3>1. cmds # {}
      BY <2>1
    <3>2. ~Idle
      BY <1>3, <2>2, <3>1
    <3> QED
      BY <2>1, <3>2 DEF Idle
  <2>4. \A u \in Vaddr : Len(sbuff'[u]) <= 1
    BY <1>1, <1>3, <2>1, TidyMap
  <2> QED
    BY <2>3, <2>4
<1>15. ASSUME UNCHANGED vars PROVE Tidy1
  <2>1. UNCHANGED <<untidy, sbuff, cmds, st>>
    BY <1>15, AllUnchanged
  <2>2. Idle' <=> Idle
    BY <2>1 DEF Idle
  <2> QED
    BY <1>4, <2>1, <2>2
<1> HIDE DEF Tidy1
<1>16. ASSUME UserStep PROVE Tidy1
  BY <1>16, <1>5, <1>9, <1>10, <1>11, <1>12, <1>13, <1>14 DEF UserStep
<1>17. Tidy1
  BY <1>5, <1>6, <1>7, <1>15, <1>16, Steps
<1> QED
  BY <1>17 DEF Tidy1

\* No translation outlives the memory it names, as long as processes use the
\* vFPGA one after the other and no mmap fails: tlb_put_user_pages and
\* free_user_buffers take the translation out with the memory.
THEOREM TranslationsBacked == Spec => []TlbBacked
<1>1. BaseInv /\ BackedInv => TlbBacked
  <2> SUFFICES ASSUME BaseInv, BackedInv, alone, ~lost, NEW x \in Vaddr \X Cpid, tlb[x] # None
               PROVE  \E e \in ToSet(sbuff[x[1]] \o lbuff[x[1]]) : e.host = tlb[x].host /\ e.card = tlb[x].card
    BY DEF TlbBacked
  <2>1. Backs(sbuff[x[1]], tlb[x]) \/ Backs(lbuff[x[1]], tlb[x])
    BY DEF BackedInv, BackedAt
  <2> DEFINE a == sbuff[x[1]]
             b == lbuff[x[1]]
  <2>2. a \in Seq(Entry) /\ b \in Seq(Entry)
    BY DEF BaseInv, Buckets
  <2> HIDE DEF a, b
  <2>3. ToSet(a \o b) = {(a \o b)[i] : i \in DOMAIN (a \o b)}
    BY DEF ToSet
  <2>4. /\ \A i \in 1 .. Len(a) : i \in DOMAIN (a \o b) /\ (a \o b)[i] = a[i]
        /\ \A i \in 1 .. Len(b) : i + Len(a) \in DOMAIN (a \o b) /\ (a \o b)[i + Len(a)] = b[i]
    BY <2>2
  <2>5. (\A i \in 1 .. Len(a) : a[i] \in ToSet(a \o b)) /\ (\A i \in 1 .. Len(b) : b[i] \in ToSet(a \o b))
    BY <2>3, <2>4
  <2> QED
    BY <2>1, <2>5 DEF Backs, a, b
<1>2. Init => AloneInv /\ CurrInv /\ BackedInv
  BY AloneInit, BackedInit
<1>3. BaseInv /\ AloneInv /\ CurrInv /\ BackedInv /\ [Next]_vars => AloneInv' /\ CurrInv' /\ BackedInv'
  BY AloneStep, BackedStep
<1> QED
  BY <1>1, <1>2, <1>3, BaseInductive, PTL DEF Spec

\* When nobody is registered no user page is pinned or translated, as
\* fpga_release says, if the program was tidy: IOCTL_UNREGISTER_PID and
\* fpga_release give back one page per bucket, which then is every page.
THEOREM AllReleased == Spec => []NothingLeft
<1>1. BaseInv /\ BackedInv /\ TidyInv => NothingLeft
  <2> SUFFICES ASSUME BaseInv, BackedInv, TidyInv, alone, ~untidy, \A p \in Proc : st[p] \in {"none", "closed"}
               PROVE  /\ \A v \in Vaddr : sbuff[v] = <<>>
                      /\ \A x \in Vaddr \X Cpid : tlb[x] # None => "buf" \in DOMAIN tlb[x].host
    BY DEF NothingLeft
  <2>1. \A v \in Vaddr : sbuff[v] = <<>>
    BY DEF TidyInv, Idle
  <2>2. \A x \in Vaddr \X Cpid : ~Backs(sbuff[x[1]], tlb[x])
    BY <2>1 DEF Backs
  <2> QED
    BY <2>1, <2>2 DEF BackedInv, BackedAt
<1>2. Init => AloneInv /\ CurrInv /\ BackedInv /\ TidyInv
  BY AloneInit, BackedInit, TidyInit
<1>3. BaseInv /\ AloneInv /\ CurrInv /\ BackedInv /\ TidyInv /\ [Next]_vars
        => AloneInv' /\ CurrInv' /\ BackedInv' /\ TidyInv'
  BY AloneStep, BackedStep, TidyStep
<1> QED
  BY <1>1, <1>2, <1>3, BaseInductive, PTL DEF Spec

-----------------------------------------------------------------------------
(* Who a driver-allocated buffer belongs to. *)

\* The buffer that is allocated and not yet mapped is that of the process in
\* getMem.
CurrMine == ~lost /\ curr # None => mlock \in Proc /\ curr.cpid = cpid[mlock] /\ st[mlock] # "none"

\* The processes with a buffer at v, each with a hash entry of its own under
\* its cpid.  Cpids are given again, so that two processes may have the same.
Users(v) == {p \in Proc : mem[p][v] = "buff"}
Owners(f, U, s, k) ==
  /\ f \in [U -> 1 .. Len(s)]
  /\ \A p, q \in U : f[p] = f[q] => p = q
  /\ \A p \in U : s[f[p]].cpid = k[p]
OwnedAt(v) == \E f : Owners(f, Users(v), lbuff[v], cpid)
OwnerInv == ~lost => \A v \in Vaddr : OwnedAt(v)

LEMMA OwnerInit == Init => CurrMine /\ OwnerInv
<1> SUFFICES ASSUME Init PROVE CurrMine /\ OwnerInv
  OBVIOUS
<1>1. CurrMine
  BY DEF Init, CurrMine
<1>2. ASSUME NEW v \in Vaddr PROVE OwnedAt(v)
  <2>1. Users(v) = {}
    BY DEF Init, Users
  <2>2. Owners([p \in Users(v) |-> 1], Users(v), lbuff[v], cpid)
    BY <2>1 DEF Owners
  <2> QED
    BY <2>2 DEF OwnedAt
<1> QED
  BY <1>1, <1>2 DEF OwnerInv

LEMMA CurrMineStep == BaseInv /\ CurrMine /\ [Next]_vars => CurrMine'
<1> SUFFICES ASSUME BaseInv, CurrMine, [Next]_vars, ~lost', curr' # None
             PROVE  mlock' \in Proc /\ curr'.cpid = cpid'[mlock'] /\ st'[mlock'] # "none"
  BY DEF CurrMine
<1>0. ProcTypes
  BY DEF BaseInv
<1>1. CASE UNCHANGED <<curr, mlock, st, cpid, lost>>
  BY <1>1 DEF CurrMine
<1>2. ASSUME NEW p \in Proc, Construct(p)
      PROVE  mlock' \in Proc /\ curr'.cpid = cpid'[mlock'] /\ st'[mlock'] # "none"
  <2>1. /\ st[p] = "none" /\ UNCHANGED <<curr, mlock, lost>> /\ st' = [st EXCEPT ![p] = "live"]
        /\ cpid' = [cpid EXCEPT ![p] = Head(pid_alloc)]
    BY <1>2 DEF Construct, buffVars
  <2>2. mlock \in Proc /\ curr.cpid = cpid[mlock] /\ st[mlock] # "none"
    BY <2>1 DEF CurrMine
  <2>3. mlock # p
    BY <2>1, <2>2
  <2> QED
    BY <1>0, <2>1, <2>2, <2>3 DEF ProcTypes
<1>3. ASSUME NEW p \in Proc, Unregister(p) \/ Close(p) \/ Die(p)
      PROVE  mlock' \in Proc /\ curr'.cpid = cpid'[mlock'] /\ st'[mlock'] # "none"
  <2>1. /\ UNCHANGED <<curr, mlock, lost, cpid>>
        /\ st' \in {[st EXCEPT ![p] = "unreg"], [st EXCEPT ![p] = "closed"], [st EXCEPT ![p] = "dying"]}
    BY <1>3 DEF Unregister, Close, Die, buffVars
  <2>2. mlock \in Proc /\ curr.cpid = cpid[mlock] /\ st[mlock] # "none"
    BY <2>1 DEF CurrMine
  <2> QED
    BY <1>0, <2>1, <2>2 DEF ProcTypes
<1>4. ASSUME NEW p \in Proc, alloc_user_buffers(p)
      PROVE  mlock' \in Proc /\ curr'.cpid = cpid'[mlock'] /\ st'[mlock'] # "none"
  <2>1. /\ st[p] = "live" /\ mlock = None /\ mlock' = p /\ UNCHANGED <<st, cpid, lost>>
        /\ \/ curr' = curr
           \/ curr' = [cpid |-> cpid[p], host |-> [buf |-> nbuf + 1], card |-> ChunkId(head["large"])]
    BY <1>4 DEF alloc_user_buffers, procVars
  <2>2. curr = None
    BY <2>1, MMUAssumption DEF CurrMine
  <2>3. curr'.cpid = cpid[p]
    BY <2>1, <2>2
  <2> QED
    BY <2>1, <2>3
<1>5. ASSUME NEW p \in Proc, NEW v \in Vaddr, fpga_mmap(p, v) \/ MmapFails(p, v) PROVE FALSE
  BY <1>5 DEF fpga_mmap, MmapFails
<1>6. ASSUME NEW p \in Proc, NEW v \in Vaddr,
             userMap(p, v) \/ freeUser(p, v) \/ freeBuff(p, v) \/ DestructorUnmap(p, v) \/ invoke(p, v)
      PROVE  UNCHANGED <<curr, mlock, st, cpid, lost>>
  BY <1>6 DEF userMap, freeUser, freeBuff, DestructorUnmap, invoke, buffVars, procVars
<1>7. ASSUME NEW x \in Vaddr \X Cpid, Access(x) \/ Evict(x) PROVE UNCHANGED <<curr, mlock, st, cpid, lost>>
  BY <1>7 DEF Access, Evict, buffVars, procVars
<1>8. ASSUME fpga_tlb_miss_isr PROVE UNCHANGED <<curr, mlock, st, cpid, lost>>
  BY <1>8 DEF fpga_tlb_miss_isr, buffVars, procVars
<1>9. CASE UNCHANGED vars
  BY <1>1, <1>9, AllUnchanged
<1>10. CASE UserStep
  BY <1>1, <1>4, <1>5, <1>6, <1>7, <1>8, <1>10 DEF UserStep
<1> QED
  BY <1>2, <1>3, <1>9, <1>10, Steps

\* Fewer processes with a buffer, or the same.
LEMMA OwnersFewer ==
  ASSUME NEW v, OwnedAt(v), Users(v)' \subseteq Users(v), lbuff'[v] = lbuff[v],
         \A p \in Users(v) : cpid'[p] = cpid[p]
  PROVE  OwnedAt(v)'
<1>1. PICK f : Owners(f, Users(v), lbuff[v], cpid)
  BY DEF OwnedAt
<1> DEFINE g == [p \in Users(v)' |-> f[p]]
<1>2. /\ g \in [Users(v)' -> 1 .. Len(lbuff'[v])] /\ \A p \in Users(v)' : g[p] = f[p]
  BY <1>1 DEF Owners
<1> HIDE DEF g
<1>3. Owners(g, Users(v)', lbuff'[v], cpid')
  BY <1>1, <1>2 DEF Owners
<1> QED
  BY <1>3 DEF OwnedAt

\* fpga_mmap: a process more, with the entry in front.
LEMMA OwnersMore ==
  ASSUME BaseInv, NEW v \in Vaddr, OwnedAt(v), NEW p \in Proc, p \notin Users(v), Users(v)' = Users(v) \cup {p},
         cpid' = cpid, NEW e \in Entry, e.cpid = cpid[p], lbuff'[v] = <<e>> \o lbuff[v]
  PROVE  OwnedAt(v)'
<1>1. PICK f : Owners(f, Users(v), lbuff[v], cpid)
  BY DEF OwnedAt
<1>2. lbuff[v] \in Seq(Entry)
  BY DEF BaseInv, Buckets
<1> DEFINE s == lbuff[v]
           t == lbuff'[v]
<1>3. /\ Len(s) \in Nat /\ Len(t) = Len(s) + 1 /\ t[1] = e
      /\ \A i \in 1 .. Len(s) : i + 1 \in 1 .. Len(s) + 1 /\ t[i + 1] = s[i]
  BY <1>2, Prepended
<1>4. /\ \A q \in Users(v) : f[q] \in 1 .. Len(s) /\ s[f[q]].cpid = cpid[q]
      /\ \A q, r \in Users(v) : f[q] = f[r] => q = r
  BY <1>1 DEF Owners
<1> DEFINE g == [q \in Users(v) \cup {p} |-> IF q = p THEN 1 ELSE f[q] + 1]
<1> HIDE DEF s, t
<1>5. \A q \in Users(v) : g[q] = f[q] + 1 /\ g[q] \in 1 .. Len(t) /\ t[g[q]].cpid = cpid[q] /\ g[q] # 1
  <2> SUFFICES ASSUME NEW q \in Users(v)
               PROVE g[q] = f[q] + 1 /\ g[q] \in 1 .. Len(t) /\ t[g[q]].cpid = cpid[q] /\ g[q] # 1
    OBVIOUS
  <2>1. q # p /\ f[q] \in 1 .. Len(s)
    BY <1>4
  <2>2. g[q] = f[q] + 1
    BY <2>1
  <2>3. f[q] + 1 # 1
    BY <2>1, <1>3
  <2> HIDE DEF g
  <2> QED
    BY <2>1, <2>2, <2>3, <1>3, <1>4
<1>6. g[p] = 1 /\ 1 \in 1 .. Len(t) /\ t[1].cpid = cpid[p]
  BY <1>3
<1>7. g \in [Users(v)' -> 1 .. Len(t)]
  <2>1. \A q \in Users(v) \cup {p} : g[q] \in 1 .. Len(t)
    BY <1>5, <1>6
  <2> QED
    BY <2>1
<1> HIDE DEF g
<1>8. \A q, r \in Users(v) : f[q] + 1 = f[r] + 1 => f[q] = f[r]
  BY <1>3, <1>4
<1>9. \A q, r \in Users(v)' : g[q] = g[r] => q = r
  BY <1>4, <1>5, <1>6, <1>8
<1>10. Owners(g, Users(v)', lbuff'[v], cpid')
  BY <1>5, <1>6, <1>7, <1>9 DEF Owners, t
<1> QED
  BY <1>10 DEF OwnedAt

\* free_user_buffers: a process less.  The newest entry of its cpid may be that
\* of another process with the cpid, which then has the older one.
LEMMA OwnersLess ==
  ASSUME BaseInv, NEW v \in Vaddr, OwnedAt(v), NEW p \in Proc, p \in Users(v), Users(v)' = Users(v) \ {p},
         cpid' = cpid,
         LET i == Newest(lbuff[v], cpid[p])
         IN  i = 0 \/ lbuff'[v] = RemoveAt(lbuff[v], i)
  PROVE  OwnedAt(v)'
<1>1. PICK f : Owners(f, Users(v), lbuff[v], cpid)
  BY DEF OwnedAt
<1> DEFINE s == lbuff[v]
           t == lbuff'[v]
           i == Newest(s, cpid[p])
<1>2. s \in Seq(Entry) /\ Len(s) \in Nat
  BY DEF BaseInv, Buckets
<1>3. /\ \A q \in Users(v) : f[q] \in 1 .. Len(s) /\ s[f[q]].cpid = cpid[q]
      /\ \A q, r \in Users(v) : f[q] = f[r] => q = r
  BY <1>1 DEF Owners
<1>4. i \in 1 .. Len(s) /\ s[i].cpid = cpid[p]
  BY <1>2, <1>3, NewestIs
<1>5. t = RemoveAt(s, i)
  BY <1>4
<1> HIDE DEF i, t, s
<1>6. /\ Len(t) = Len(s) - 1
      /\ \A j \in 1 .. Len(s) : j # i => After(i, j) \in 1 .. Len(s) - 1 /\ t[After(i, j)] = s[j]
  BY <1>2, <1>4, <1>5, Removed
<1> DEFINE h == [q \in Users(v) |-> IF f[q] = i THEN f[p] ELSE f[q]]
<1>7. \A q \in Users(v) \ {p} : h[q] \in 1 .. Len(s) /\ h[q] # i /\ s[h[q]].cpid = cpid[q]
  BY <1>3, <1>4
<1>8. \A q, r \in Users(v) \ {p} : h[q] = h[r] => q = r
  BY <1>3
<1> DEFINE g == [q \in Users(v) \ {p} |-> After(i, h[q])]
<1> HIDE DEF h
<1>9. \A j, k \in 1 .. Len(s) : j # i /\ k # i /\ After(i, j) = After(i, k) => j = k
  BY <1>2, <1>4 DEF After
<1>10. \A q \in Users(v) \ {p} : g[q] = After(i, h[q]) /\ g[q] \in 1 .. Len(t) /\ t[g[q]].cpid = cpid[q]
  BY <1>6, <1>7
<1>11. \A q, r \in Users(v) \ {p} : g[q] = g[r] => q = r
  BY <1>7, <1>8, <1>9, <1>10
<1>12. g \in [Users(v) \ {p} -> 1 .. Len(t)]
  BY <1>10
<1> HIDE DEF g
<1>13. Owners(g, Users(v)', lbuff'[v], cpid')
  BY <1>10, <1>11, <1>12 DEF Owners, t
<1> QED
  BY <1>13 DEF OwnedAt

LEMMA OwnerStep == BaseInv /\ CurrMine /\ OwnerInv /\ [Next]_vars => OwnerInv'
<1> SUFFICES ASSUME BaseInv, CurrMine, OwnerInv, [Next]_vars, ~lost', NEW v \in Vaddr
             PROVE  OwnedAt(v)'
  BY DEF OwnerInv
<1>0. ProcTypes /\ PidInv /\ lbuff \in Buckets
  BY DEF BaseInv
<1>1. ASSUME NEW q \in Proc, q \in Users(v) PROVE st[q] # "none"
  BY <1>0, <1>1 DEF PidInv, Users
<1>2. ASSUME ~lost, lbuff' = lbuff, UNCHANGED cpid,
             \A q \in Proc : mem'[q][v] = "buff" => mem[q][v] = "buff"
      PROVE  OwnedAt(v)'
  <2>1. OwnedAt(v) /\ Users(v)' \subseteq Users(v)
    BY <1>2 DEF OwnerInv, Users
  <2> QED
    BY <1>2, <2>1, OwnersFewer
<1>3. ASSUME NEW p \in Proc, Construct(p) PROVE OwnedAt(v)'
  <2>1. st[p] = "none" /\ UNCHANGED <<mem, lbuff, lost>> /\ cpid' = [cpid EXCEPT ![p] = Head(pid_alloc)]
    BY <1>3 DEF Construct
  <2>2. OwnedAt(v) /\ Users(v)' = Users(v)
    BY <2>1 DEF OwnerInv, Users
  <2>3. \A q \in Users(v) : q # p /\ q \in Proc
    BY <1>1, <2>1 DEF Users
  <2>4. \A q \in Users(v) : cpid'[q] = cpid[q]
    BY <1>0, <2>1, <2>3 DEF ProcTypes
  <2> QED
    BY <2>1, <2>2, <2>4, OwnersFewer
<1>4. ASSUME NEW p \in Proc, Unregister(p) \/ Close(p) \/ alloc_user_buffers(p) PROVE OwnedAt(v)'
  <2>1. UNCHANGED <<mem, lbuff, lost, cpid>>
    BY <1>4 DEF Unregister, Close, alloc_user_buffers, procVars
  <2> QED
    BY <1>2, <2>1
<1>5. ASSUME NEW p \in Proc, Die(p) PROVE OwnedAt(v)'
  <2>1. UNCHANGED <<lbuff, lost, cpid>> /\ mem' = [mem EXCEPT ![p] = [u \in Vaddr |-> "no"]]
    BY <1>5 DEF Die
  <2>2. \A q \in Proc : mem'[q][v] = "buff" => mem[q][v] = "buff"
    BY <1>0, <2>1 DEF ProcTypes
  <2> QED
    BY <1>2, <2>1, <2>2
<1>6. ASSUME NEW p \in Proc, NEW u \in Vaddr, userMap(p, u) PROVE OwnedAt(v)'
  <2>1. UNCHANGED <<lbuff, lost, cpid>> /\ mem' = [mem EXCEPT ![p][u] = "user"]
    BY <1>6 DEF userMap
  <2>2. \A q \in Proc : mem'[q][v] = "buff" => mem[q][v] = "buff"
    BY <1>0, <2>1 DEF ProcTypes
  <2> QED
    BY <1>2, <2>1, <2>2
<1>7. ASSUME NEW p \in Proc, NEW u \in Vaddr, freeUser(p, u) \/ DestructorUnmap(p, u) PROVE OwnedAt(v)'
  <2>1. UNCHANGED <<lbuff, lost, cpid>> /\ (FreedMem(p, u) \/ mem' = mem)
    BY <1>7 DEF freeUser, DestructorUnmap
  <2>2. \A q \in Proc : mem'[q][v] = "buff" => mem[q][v] = "buff"
    <3>1. CASE FreedMem(p, u)
      <4>1. /\ \A q \in Proc : q # p => mem'[q] = mem[q]
            /\ mem'[p][u] # "buff" /\ \A w \in Vaddr : w # u => mem'[p][w] = mem[p][w]
        BY <1>0, <3>1, FreedTyped
      <4> QED
        BY <4>1
    <3> QED
      BY <2>1, <3>1
  <2> QED
    BY <1>2, <2>1, <2>2
<1>8. ASSUME NEW p \in Proc, NEW u \in Vaddr, invoke(p, u) PROVE UNCHANGED <<mem, lbuff, lost, cpid>>
  BY <1>8 DEF invoke, procVars
<1>9. ASSUME NEW x \in Vaddr \X Cpid, Access(x) \/ Evict(x) PROVE UNCHANGED <<mem, lbuff, lost, cpid>>
  BY <1>9 DEF Access, Evict, procVars
<1>10. ASSUME fpga_tlb_miss_isr PROVE UNCHANGED <<mem, lbuff, lost, cpid>>
  BY <1>10 DEF fpga_tlb_miss_isr, procVars
<1>11. ASSUME NEW p \in Proc, NEW u \in Vaddr, MmapFails(p, u) PROVE FALSE
  BY <1>11 DEF MmapFails
<1>12. ASSUME NEW p \in Proc, NEW u \in Vaddr, fpga_mmap(p, u) PROVE OwnedAt(v)'
  <2>1. /\ mlock = p /\ mem[p][u] = "no" /\ mem' = [mem EXCEPT ![p][u] = "buff"] /\ UNCHANGED <<lost, cpid>>
    BY <1>12 DEF fpga_mmap
  <2>2. curr \in Entry /\ lbuff' = [lbuff EXCEPT ![u] = <<curr>> \o lbuff[u]]
    BY <1>12, MmapIs
  <2>3. curr.cpid = cpid[p] /\ OwnedAt(v)
    BY <2>1, <2>2, NoneAssumption DEF CurrMine, OwnerInv
  <2>4. \A q \in Proc, w \in Vaddr : mem'[q][w] = IF q = p /\ w = u THEN "buff" ELSE mem[q][w]
    BY <1>0, <2>1 DEF ProcTypes
  <2>5. CASE u = v
    <3>1. p \notin Users(v) /\ Users(v)' = Users(v) \cup {p}
      BY <2>1, <2>4, <2>5 DEF Users
    <3>2. lbuff'[v] = <<curr>> \o lbuff[v]
      BY <1>0, <2>2, <2>5 DEF Buckets
    <3> QED
      BY <2>1, <2>2, <2>3, <3>1, <3>2, OwnersMore
  <2>6. CASE u # v
    <3>1. Users(v)' = Users(v)
      BY <2>4, <2>6 DEF Users
    <3>2. lbuff'[v] = lbuff[v]
      BY <1>0, <2>2, <2>6 DEF Buckets
    <3> QED
      BY <2>1, <2>3, <3>1, <3>2, OwnersFewer
  <2> QED
    BY <2>5, <2>6
<1>13. ASSUME NEW p \in Proc, NEW u \in Vaddr, freeBuff(p, u) PROVE OwnedAt(v)'
  <2>1. /\ mem[p][u] = "buff" /\ mem' = [mem EXCEPT ![p][u] = "no"] /\ UNCHANGED <<lost, cpid>>
        /\ free_user_buffers(u, cpid[p])
    BY <1>13 DEF freeBuff
  <2>2. cpid[p] \in Cpid /\ OwnedAt(v)
    BY <1>0, <2>1 DEF ProcTypes, OwnerInv
  <2>3. \/ Newest(lbuff[u], cpid[p]) = 0 /\ lbuff' = lbuff
        \/ lbuff' = [lbuff EXCEPT ![u] = RemoveAt(lbuff[u], Newest(lbuff[u], cpid[p]))]
    BY <2>1, <2>2, FreeIs
  <2>4. \A q \in Proc, w \in Vaddr : mem'[q][w] = IF q = p /\ w = u THEN "no" ELSE mem[q][w]
    BY <1>0, <2>1 DEF ProcTypes
  <2>5. CASE u = v
    <3>1. p \in Users(v) /\ Users(v)' = Users(v) \ {p}
      BY <2>1, <2>4, <2>5 DEF Users
    <3>2. Newest(lbuff[v], cpid[p]) = 0 \/ lbuff'[v] = RemoveAt(lbuff[v], Newest(lbuff[v], cpid[p]))
      BY <1>0, <2>3, <2>5 DEF Buckets
    <3> QED
      BY <2>1, <2>2, <3>1, <3>2, OwnersLess
  <2>6. CASE u # v
    <3>1. Users(v)' = Users(v)
      BY <2>4, <2>6 DEF Users
    <3>2. lbuff'[v] = lbuff[v]
      BY <1>0, <2>3, <2>6 DEF Buckets
    <3> QED
      BY <2>1, <2>2, <3>1, <3>2, OwnersFewer
  <2> QED
    BY <2>5, <2>6
<1>14. ASSUME UNCHANGED <<mem, lbuff, lost, cpid>> PROVE OwnedAt(v)'
  BY <1>2, <1>14
<1>15. CASE UNCHANGED vars
  BY <1>14, <1>15, AllUnchanged
<1>16. CASE UserStep
  BY <1>4, <1>6, <1>7, <1>8, <1>9, <1>10, <1>11, <1>12, <1>13, <1>14, <1>16 DEF UserStep
<1> QED
  BY <1>3, <1>4, <1>5, <1>15, <1>16, Steps

\* A buffer that getMem(HOST_2M) returned is in the hash under the caller's
\* cpid, however many processes use the vFPGA together: the mutex mlock keeps
\* the ioctl and the mmap of one process together.
THEOREM BuffersMine == Spec => []BufferMine
<1>1. BaseInv /\ OwnerInv => BufferMine
  <2> SUFFICES ASSUME BaseInv, OwnerInv, ~lost, NEW p \in Proc, NEW v \in Huge, mem[p][v] = "buff"
               PROVE  \E i \in DOMAIN lbuff[v] : lbuff[v][i].cpid = cpid[p]
    BY DEF BufferMine
  <2>1. v \in Vaddr /\ p \in Users(v)
    BY DEF Vaddr, Users
  <2>2. PICK f : Owners(f, Users(v), lbuff[v], cpid)
    BY <2>1 DEF OwnerInv, OwnedAt
  <2>3. f[p] \in 1 .. Len(lbuff[v]) /\ lbuff[v][f[p]].cpid = cpid[p]
    BY <2>1, <2>2 DEF Owners
  <2>4. lbuff[v] \in Seq(Entry)
    BY <2>1 DEF BaseInv, Buckets
  <2> QED
    BY <2>3, <2>4
<1>2. BaseInv /\ CurrMine /\ OwnerInv /\ [Next]_vars => CurrMine' /\ OwnerInv'
  BY CurrMineStep, OwnerStep
<1> QED
  BY <1>1, <1>2, OwnerInit, BaseInductive, PTL DEF Spec

-----------------------------------------------------------------------------
(* Card memory. *)

\* The places where a chunk can be: on the free list, in curr_user_buff, or in
\* the entries of an address.
FreePlace == <<"free", None>>
CurrPlace == <<"curr", None>>
SPlace(v) == <<"s", v>>
LPlace(v) == <<"l", v>>
Pages(k) == {v \in Vaddr : KindOf(v) = k}
Places(k) == {FreePlace, CurrPlace} \cup {SPlace(v) : v \in Pages(k)} \cup {LPlace(v) : v \in Pages(k)}
At(own, z) == {c \in Chunk : own[c] = z}

\* The entries of a bucket have the chunks of S, each once.
Holds(s, S) ==
  /\ \A i \in 1 .. Len(s) : s[i].card \in S
  /\ \A i, j \in 1 .. Len(s) : s[i].card = s[j].card => i = j
  /\ \A c \in S : \E i \in 1 .. Len(s) : s[i].card = c

\* Which chunk of kind k is where; us tells which were ever handed out.
Owned(own, k, sb, lb, cu, us) ==
  /\ own \in [Chunk -> Places(k)]
  /\ \A v \in Pages(k) : Holds(sb[v], At(own, SPlace(v))) /\ Holds(lb[v], At(own, LPlace(v)))
  /\ At(own, CurrPlace) = IF k = "large" /\ cu # None THEN {cu.card} ELSE {}
  /\ \A c \in Chunk : own[c] # FreePlace => us[c]

\* The free list from head h along the links nx has the chunks of F, each once,
\* and ends with the last chunk.
FreeList(q, F, h, nx) ==
  /\ q \in Seq(Chunk) /\ Len(q) >= 1
  /\ \A i \in 1 .. Len(q) : q[i] \in F
  /\ \A i, j \in 1 .. Len(q) : q[i] = q[j] => i = j
  /\ \A c \in F : \E i \in 1 .. Len(q) : q[i] = c
  /\ h = q[1] /\ q[Len(q)] = NChunks - 1 /\ nx[NChunks - 1] = None
  /\ \A i \in 1 .. Len(q) : i + 1 <= Len(q) => nx[q[i]] = q[i + 1]

Accounted(k, sb, lb, cu, us, h, nx) ==
  \E own : Owned(own, k, sb, lb, cu, us) /\ \E q : FreeList(q, At(own, FreePlace), h, nx)

\* Until the last chunk is handed out or an mmap fails.
Acct(k) == Accounted(k, sbuff, lbuff, curr, used[k], head[k], next[k])
CardInv == ~spent /\ ~lost => \A k \in Kind : Acct(k)

LEMMA HoldsPrepended ==
  ASSUME NEW s \in Seq(Entry), NEW S, Holds(s, S), NEW e \in Entry, e.card \notin S
  PROVE  Holds(<<e>> \o s, S \cup {e.card})
<1> DEFINE t == <<e>> \o s
<1>1. /\ Len(s) \in Nat /\ Len(t) = Len(s) + 1 /\ t[1] = e
      /\ \A i \in 1 .. Len(s) : i + 1 \in 1 .. Len(s) + 1 /\ t[i + 1] = s[i]
      /\ \A j \in 1 .. Len(s) + 1 : j # 1 => j - 1 \in 1 .. Len(s) /\ t[j] = s[j - 1]
  BY Prepended
<1> HIDE DEF t
<1>2. /\ \A i \in 1 .. Len(s) : s[i].card \in S
      /\ \A i, j \in 1 .. Len(s) : s[i].card = s[j].card => i = j
      /\ \A c \in S : \E i \in 1 .. Len(s) : s[i].card = c
  BY DEF Holds
<1>3. \A j \in 1 .. Len(t) : t[j].card \in S \cup {e.card} /\ (j # 1 => t[j].card # e.card)
  BY <1>1, <1>2
<1>4. \A i, j \in 1 .. Len(t) : t[i].card = t[j].card => i = j
  <2> SUFFICES ASSUME NEW i \in 1 .. Len(t), NEW j \in 1 .. Len(t), t[i].card = t[j].card PROVE i = j
    OBVIOUS
  <2>1. CASE i = 1 \/ j = 1
    BY <1>1, <1>3, <2>1
  <2>2. CASE i # 1 /\ j # 1
    <3>1. i - 1 \in 1 .. Len(s) /\ j - 1 \in 1 .. Len(s) /\ s[i - 1].card = s[j - 1].card
      BY <1>1, <2>2
    <3>2. i - 1 = j - 1
      BY <1>2, <3>1
    <3> QED
      BY <3>2, <1>1
  <2> QED
    BY <2>1, <2>2
<1>5. \A c \in S \cup {e.card} : \E i \in 1 .. Len(t) : t[i].card = c
  <2>1. 1 \in 1 .. Len(t) /\ t[1].card = e.card
    BY <1>1
  <2>2. ASSUME NEW c \in S PROVE \E i \in 1 .. Len(t) : t[i].card = c
    <3>1. PICK i \in 1 .. Len(s) : s[i].card = c
      BY <1>2
    <3>2. i + 1 \in 1 .. Len(t) /\ t[i + 1].card = c
      BY <1>1, <3>1
    <3> QED
      BY <3>2
  <2> QED
    BY <2>1, <2>2
<1> QED
  BY <1>3, <1>4, <1>5 DEF Holds, t

LEMMA HoldsRemoved ==
  ASSUME NEW s \in Seq(Entry), NEW S, Holds(s, S), NEW k \in 1 .. Len(s)
  PROVE  Holds(RemoveAt(s, k), S \ {s[k].card})
<1> DEFINE t == RemoveAt(s, k)
<1>0. /\ RemoveAt(s, k) \in Seq(Entry) /\ Len(RemoveAt(s, k)) = Len(s) - 1
      /\ \A j \in 1 .. Len(s) - 1 : /\ Before(k, j) \in 1 .. Len(s) /\ Before(k, j) # k
                                    /\ RemoveAt(s, k)[j] = s[Before(k, j)]
      /\ \A i \in 1 .. Len(s) : i # k => /\ After(k, i) \in 1 .. Len(s) - 1
                                         /\ RemoveAt(s, k)[After(k, i)] = s[i]
  BY Removed
<1>1. /\ Len(s) \in Nat /\ Len(t) = Len(s) - 1
      /\ \A j \in 1 .. Len(s) - 1 : Before(k, j) \in 1 .. Len(s) /\ Before(k, j) # k /\ t[j] = s[Before(k, j)]
      /\ \A i \in 1 .. Len(s) : i # k => After(k, i) \in 1 .. Len(s) - 1 /\ t[After(k, i)] = s[i]
  BY <1>0
<1> HIDE DEF t
<1>2. /\ \A i \in 1 .. Len(s) : s[i].card \in S
      /\ \A i, j \in 1 .. Len(s) : s[i].card = s[j].card => i = j
      /\ \A c \in S : \E i \in 1 .. Len(s) : s[i].card = c
  BY DEF Holds
<1>3. \A j \in 1 .. Len(t) : t[j].card \in S \ {s[k].card}
  <2> SUFFICES ASSUME NEW j \in 1 .. Len(s) - 1 PROVE t[j].card \in S \ {s[k].card}
    BY <1>1
  <2>1. Before(k, j) \in 1 .. Len(s) /\ Before(k, j) # k /\ t[j] = s[Before(k, j)]
    BY <1>1
  <2> QED
    BY <1>2, <2>1
<1>4. \A i, j \in 1 .. Len(s) - 1 : Before(k, i) = Before(k, j) => i = j
  BY <1>1 DEF Before
<1>5. \A i, j \in 1 .. Len(t) : t[i].card = t[j].card => i = j
  <2> SUFFICES ASSUME NEW i \in 1 .. Len(s) - 1, NEW j \in 1 .. Len(s) - 1, t[i].card = t[j].card PROVE i = j
    BY <1>1
  <2>1. Before(k, i) \in 1 .. Len(s) /\ Before(k, j) \in 1 .. Len(s) /\ s[Before(k, i)].card = s[Before(k, j)].card
    BY <1>1
  <2>2. Before(k, i) = Before(k, j)
    BY <1>2, <2>1
  <2> QED
    BY <1>4, <2>2
<1>6. ASSUME NEW c \in S \ {s[k].card} PROVE \E i \in 1 .. Len(t) : t[i].card = c
  <2>1. PICK i \in 1 .. Len(s) : s[i].card = c
    BY <1>2
  <2>2. After(k, i) \in 1 .. Len(t) /\ t[After(k, i)] = s[i]
    BY <1>1, <2>1
  <2> QED
    BY <2>1, <2>2
<1> QED
  BY <1>3, <1>5, <1>6 DEF Holds, t

\* card_alloc takes the head, unless the list has but the last chunk.
LEMMA FreePop ==
  ASSUME NEW q, NEW F, NEW h, NEW nx, FreeList(q, F, h, nx), h # NChunks - 1
  PROVE  h \in F /\ h \in Chunk /\ \E r : FreeList(r, F \ {h}, nx[h], nx)
<1>1. /\ q \in Seq(Chunk) /\ Len(q) >= 1 /\ Len(q) \in Nat
      /\ \A i \in 1 .. Len(q) : q[i] \in F
      /\ \A i, j \in 1 .. Len(q) : q[i] = q[j] => i = j
      /\ \A c \in F : \E i \in 1 .. Len(q) : q[i] = c
      /\ h = q[1] /\ q[Len(q)] = NChunks - 1 /\ nx[NChunks - 1] = None
      /\ \A i \in 1 .. Len(q) : i + 1 <= Len(q) => nx[q[i]] = q[i + 1]
  BY DEF FreeList
<1>2. Len(q) >= 2 /\ 1 \in 1 .. Len(q)
  BY <1>1
<1> DEFINE r == Tail(q)
<1>3. /\ r \in Seq(Chunk) /\ Len(r) = Len(q) - 1 /\ \A i \in 1 .. Len(r) : r[i] = q[i + 1] /\ i + 1 \in 1 .. Len(q)
  BY <1>1, <1>2
<1> HIDE DEF r
<1>4. \A i \in 1 .. Len(r) : r[i] \in F \ {h}
  <2> SUFFICES ASSUME NEW i \in 1 .. Len(r) PROVE r[i] \in F \ {h}
    OBVIOUS
  <2>1. r[i] = q[i + 1] /\ i + 1 \in 1 .. Len(q) /\ i + 1 # 1
    BY <1>1, <1>3
  <2> QED
    BY <1>1, <1>2, <2>1
<1>5. \A i, j \in 1 .. Len(r) : r[i] = r[j] => i = j
  <2> SUFFICES ASSUME NEW i \in 1 .. Len(r), NEW j \in 1 .. Len(r), r[i] = r[j] PROVE i = j
    OBVIOUS
  <2>1. i + 1 = j + 1
    BY <1>1, <1>3
  <2> QED
    BY <2>1, <1>1, <1>3
<1>6. ASSUME NEW c \in F \ {h} PROVE \E i \in 1 .. Len(r) : r[i] = c
  <2>1. PICK i \in 1 .. Len(q) : q[i] = c
    BY <1>1
  <2>2. i # 1
    BY <1>1, <2>1
  <2>3. i - 1 \in 1 .. Len(r) /\ (i - 1) + 1 = i
    BY <1>1, <1>3, <2>2
  <2> QED
    BY <1>3, <2>1, <2>3
<1>7. nx[h] = r[1] /\ r[Len(r)] = NChunks - 1 /\ Len(r) >= 1
  <2>1. 1 \in 1 .. Len(r) /\ Len(r) \in 1 .. Len(r) /\ Len(r) + 1 = Len(q)
    BY <1>1, <1>2, <1>3
  <2> QED
    BY <1>1, <1>2, <1>3, <2>1
<1>8. \A i \in 1 .. Len(r) : i + 1 <= Len(r) => nx[r[i]] = r[i + 1]
  <2> SUFFICES ASSUME NEW i \in 1 .. Len(r), i + 1 <= Len(r) PROVE nx[r[i]] = r[i + 1]
    OBVIOUS
  <2>1. i + 1 \in 1 .. Len(r) /\ i + 1 \in 1 .. Len(q) /\ (i + 1) + 1 <= Len(q)
    BY <1>1, <1>3
  <2> QED
    BY <1>1, <1>3, <2>1
<1>9. FreeList(r, F \ {h}, nx[h], nx)
  BY <1>1, <1>3, <1>4, <1>5, <1>6, <1>7, <1>8 DEF FreeList
<1> QED
  BY <1>1, <1>2, <1>9

\* card_free of several chunks, one after the other: the last becomes the head.
Linked(ids, h, nx, h2, nx2) ==
  /\ h2 = IF ids = <<>> THEN h ELSE ids[Len(ids)]
  /\ \A c \in Chunk : (\A i \in 1 .. Len(ids) : ids[i] # c) => nx2[c] = nx[c]
  /\ \A i \in 1 .. Len(ids) : nx2[ids[i]] = IF i = 1 THEN h ELSE ids[i - 1]

\* They were not on the list of the chunks of F, and now are on that of G.
Pushed(ids, F, G) ==
  /\ F \subseteq Chunk /\ F \subseteq G
  /\ \A i \in 1 .. Len(ids) : ids[i] \notin F /\ ids[i] \in G
  /\ \A i, j \in 1 .. Len(ids) : ids[i] = ids[j] => i = j
  /\ \A c \in G : c \in F \/ \E i \in 1 .. Len(ids) : ids[i] = c

LEMMA FreePush ==
  ASSUME NEW q, NEW F, NEW G, NEW h, NEW nx, NEW h2, NEW nx2, NEW ids \in Seq(Chunk),
         FreeList(q, F, h, nx), Linked(ids, h, nx, h2, nx2), Pushed(ids, F, G)
  PROVE  \E r : FreeList(r, G, h2, nx2)
<1>0. /\ F \subseteq Chunk /\ F \subseteq G
      /\ \A i \in 1 .. Len(ids) : ids[i] \notin F /\ ids[i] \in G
      /\ \A i, j \in 1 .. Len(ids) : ids[i] = ids[j] => i = j
      /\ \A c \in G : c \in F \/ \E i \in 1 .. Len(ids) : ids[i] = c
  BY DEF Pushed
<1> DEFINE m == Len(ids)
           n == Len(q)
           r == [j \in 1 .. m + n |-> IF j <= m THEN ids[m + 1 - j] ELSE q[j - m]]
<1>1. /\ q \in Seq(Chunk) /\ n >= 1 /\ n \in Nat
      /\ \A i \in 1 .. n : q[i] \in F
      /\ \A i, j \in 1 .. n : q[i] = q[j] => i = j
      /\ \A c \in F : \E i \in 1 .. n : q[i] = c
      /\ h = q[1] /\ q[n] = NChunks - 1 /\ nx[NChunks - 1] = None
      /\ \A i \in 1 .. n : i + 1 <= n => nx[q[i]] = q[i + 1]
  BY DEF FreeList
<1>2. m \in Nat /\ \A i \in 1 .. m : ids[i] \in Chunk
  OBVIOUS
<1>3. \A i \in 1 .. n : q[i] \in Chunk
  BY <1>1
<1> HIDE DEF m, n
<1>4. /\ \A j \in 1 .. m : m + 1 - j \in 1 .. m /\ r[j] = ids[m + 1 - j]
      /\ \A j \in 1 .. n : j + m \in 1 .. m + n /\ r[j + m] = q[j]
  <2>1. ASSUME NEW j \in 1 .. m PROVE m + 1 - j \in 1 .. m /\ r[j] = ids[m + 1 - j]
    BY <1>1, <1>2
  <2>2. ASSUME NEW j \in 1 .. n PROVE j + m \in 1 .. m + n /\ r[j + m] = q[j]
    <3>1. j + m \in 1 .. m + n /\ ~(j + m <= m) /\ (j + m) - m = j
      BY <1>1, <1>2
    <3> QED
      BY <3>1
  <2> QED
    BY <2>1, <2>2
<1>5. \A j \in 1 .. m + n : j \in 1 .. m \/ (j - m \in 1 .. n /\ j = (j - m) + m)
  BY <1>1, <1>2
<1>6. r \in Seq(Chunk) /\ Len(r) = m + n
  <2>1. \A j \in 1 .. m + n : r[j] \in Chunk
    BY <1>2, <1>3, <1>4, <1>5
  <2>2. m + n \in Nat /\ r = [j \in 1 .. m + n |-> r[j]]
    BY <1>1, <1>2
  <2> QED
    BY <2>1, <2>2
<1> HIDE DEF r
<1>7. \A j \in 1 .. m : r[j] \in G /\ r[j] \notin F
  BY <1>0, <1>2, <1>4 DEF m
<1>8. \A j \in 1 .. n : r[j + m] \in F
  BY <1>1, <1>4
<1>9. \A j \in 1 .. m + n : r[j] \in G
  BY <1>0, <1>5, <1>7, <1>8
<1>10. \A i, j \in 1 .. m + n : r[i] = r[j] => i = j
  <2> SUFFICES ASSUME NEW i \in 1 .. m + n, NEW j \in 1 .. m + n, r[i] = r[j] PROVE i = j
    OBVIOUS
  <2>1. CASE i \in 1 .. m /\ j \in 1 .. m
    <3>1. m + 1 - i \in 1 .. m /\ m + 1 - j \in 1 .. m /\ ids[m + 1 - i] = ids[m + 1 - j]
      BY <1>4, <2>1
    <3>2. m + 1 - i = m + 1 - j
      BY <1>0, <3>1 DEF m
    <3> QED
      BY <3>2, <1>2
  <2>2. CASE i \notin 1 .. m /\ j \notin 1 .. m
    <3>1. i - m \in 1 .. n /\ j - m \in 1 .. n /\ q[i - m] = q[j - m]
      <4>1. i - m \in 1 .. n /\ i = (i - m) + m /\ j - m \in 1 .. n /\ j = (j - m) + m
        BY <1>5, <2>2
      <4>2. r[i] = q[i - m] /\ r[j] = q[j - m]
        BY <1>4, <4>1
      <4> QED
        BY <4>1, <4>2
    <3>2. i - m = j - m
      BY <1>1, <3>1
    <3> QED
      BY <3>2, <1>1, <1>2
  <2>3. CASE (i \in 1 .. m /\ j \notin 1 .. m) \/ (i \notin 1 .. m /\ j \in 1 .. m)
    BY <1>5, <1>7, <1>8, <2>3
  <2> QED
    BY <2>1, <2>2, <2>3
<1>11. \A c \in G : \E j \in 1 .. m + n : r[j] = c
  <2>1. ASSUME NEW i \in 1 .. m PROVE \E j \in 1 .. m + n : r[j] = ids[i]
    <3>1. m + 1 - i \in 1 .. m /\ m + 1 - (m + 1 - i) = i /\ m + 1 - i \in 1 .. m + n
      BY <1>1, <1>2
    <3>2. r[m + 1 - i] = ids[i]
      BY <1>4, <3>1
    <3> QED
      BY <3>1, <3>2
  <2>2. ASSUME NEW c \in F PROVE \E j \in 1 .. m + n : r[j] = c
    <3>1. PICK i \in 1 .. n : q[i] = c
      BY <1>1
    <3> QED
      BY <1>4, <3>1
  <2> QED
    BY <1>0, <2>1, <2>2 DEF m
<1>12. /\ \A i \in 1 .. m : nx2[ids[i]] = IF i = 1 THEN h ELSE ids[i - 1]
       /\ \A c \in F : nx2[c] = nx[c]
       /\ h2 = IF m = 0 THEN h ELSE ids[m]
  BY <1>0, <1>2 DEF Linked, m
<1>13. h2 = r[1] /\ r[m + n] = NChunks - 1 /\ nx2[NChunks - 1] = None
  <2>1. n \in 1 .. n /\ n + m = m + n /\ 1 \in 1 .. n /\ NChunks - 1 \in F
    BY <1>1, <1>2
  <2>2. r[m + n] = NChunks - 1 /\ nx2[NChunks - 1] = None
    BY <1>1, <1>4, <1>12, <2>1
  <2>3. CASE m = 0
    <3>1. 1 + m = 1
      BY <2>3
    <3> QED
      BY <1>1, <1>4, <1>12, <2>1, <2>2, <2>3, <3>1
  <2>4. CASE m # 0
    <3>1. 1 \in 1 .. m /\ m + 1 - 1 = m
      BY <1>2, <2>4
    <3> QED
      BY <1>4, <1>12, <2>2, <2>4, <3>1
  <2> QED
    BY <2>3, <2>4
<1>14. ASSUME NEW j \in 1 .. m + n, j + 1 <= m + n PROVE nx2[r[j]] = r[j + 1]
  <2>1. CASE j \in 1 .. m /\ j # m
    <3>1. j + 1 \in 1 .. m /\ m + 1 - j \in 1 .. m /\ m + 1 - j # 1 /\ (m + 1 - j) - 1 = m + 1 - (j + 1)
      BY <1>2, <2>1
    <3>2. r[j] = ids[m + 1 - j] /\ r[j + 1] = ids[m + 1 - (j + 1)]
      BY <1>4, <3>1, <2>1
    <3>3. nx2[ids[m + 1 - j]] = ids[(m + 1 - j) - 1]
      BY <1>12, <3>1
    <3> QED
      BY <3>1, <3>2, <3>3
  <2>2. CASE j = m /\ j \in 1 .. m
    <3>1. m + 1 - j = 1 /\ j + 1 = 1 + m /\ 1 \in 1 .. n /\ 1 \in 1 .. m
      BY <1>1, <1>2, <2>2
    <3>2. r[j] = ids[1] /\ r[j + 1] = q[1]
      BY <1>4, <2>2, <3>1
    <3> QED
      BY <1>1, <1>12, <3>1, <3>2
  <2>3. CASE j \notin 1 .. m
    <3>1. j - m \in 1 .. n /\ j = (j - m) + m /\ j + 1 = (j - m + 1) + m /\ j - m + 1 \in 1 .. n /\ j - m + 1 <= n
      BY <1>1, <1>2, <1>14, <2>3
    <3>2. r[j] = q[j - m] /\ r[j + 1] = q[j - m + 1]
      BY <1>4, <3>1
    <3>3. nx2[q[j - m]] = nx[q[j - m]] /\ nx[q[j - m]] = q[j - m + 1]
      BY <1>1, <1>12, <3>1
    <3> QED
      BY <3>2, <3>3
  <2> QED
    BY <2>1, <2>2, <2>3
<1>15. m + n >= 1
  BY <1>1, <1>2
<1>16. FreeList(r, G, h2, nx2)
  BY <1>6, <1>9, <1>10, <1>11, <1>13, <1>14, <1>15 DEF FreeList
<1> QED
  BY <1>16

LEMMA PlacesDiffer ==
  /\ FreePlace # CurrPlace
  /\ \A v : SPlace(v) # FreePlace /\ SPlace(v) # CurrPlace /\ LPlace(v) # FreePlace /\ LPlace(v) # CurrPlace
  /\ \A u, v : /\ SPlace(u) # LPlace(v)
               /\ SPlace(u) = SPlace(v) => u = v
               /\ LPlace(u) = LPlace(v) => u = v
  BY DEF FreePlace, CurrPlace, SPlace, LPlace

LEMMA PageKinds ==
  /\ \A k : \A v \in Pages(k) : v \in Vaddr /\ KindOf(v) = k
  /\ \A v \in Vaddr : v \in Pages(KindOf(v))
  /\ \A k : /\ FreePlace \in Places(k) /\ CurrPlace \in Places(k)
            /\ \A v \in Pages(k) : SPlace(v) \in Places(k) /\ LPlace(v) \in Places(k)
  BY DEF Pages, Places

\* Nothing happens to the chunks of kind k.
LEMMA AcctSame ==
  ASSUME NEW k \in Kind, Acct(k), \A v \in Pages(k) : sbuff'[v] = sbuff[v] /\ lbuff'[v] = lbuff[v],
         k = "large" => curr' = curr, used'[k] = used[k], head'[k] = head[k], next'[k] = next[k]
  PROVE  Acct(k)'
<1>1. PICK own : Owned(own, k, sbuff, lbuff, curr, used[k]) /\ \E q : FreeList(q, At(own, FreePlace), head[k], next[k])
  BY DEF Acct, Accounted
<1>2. Owned(own, k, sbuff', lbuff', curr', used'[k])
  BY <1>1 DEF Owned
<1> QED
  BY <1>1, <1>2 DEF Acct, Accounted

\* tlb_get_user_pages: the head goes to the front of a bucket.
LEMMA AcctMap ==
  ASSUME BaseInv, NEW v \in Vaddr, NEW k \in Kind, k = KindOf(v), Acct(k), card_alloc(k), ~spent',
         NEW e \in Entry, e.card = ChunkId(head[k]),
         sbuff' = [sbuff EXCEPT ![v] = <<e>> \o sbuff[v]], UNCHANGED <<lbuff, curr>>
  PROVE  Acct(k)'
<1>0. CardTypes /\ sbuff \in Buckets
  BY DEF BaseInv
<1>1. PICK own : Owned(own, k, sbuff, lbuff, curr, used[k]) /\ \E q : FreeList(q, At(own, FreePlace), head[k], next[k])
  BY DEF Acct, Accounted
<1> DEFINE c == head[k]
           z == SPlace(v)
           own2 == [own EXCEPT ![c] = z]
<1>2. c # NChunks - 1
  BY DEF card_alloc
<1>3. c \in At(own, FreePlace) /\ c \in Chunk /\ \E r : FreeList(r, At(own, FreePlace) \ {c}, next[k][c], next[k])
  BY <1>1, <1>2, FreePop
<1>4. e.card = c /\ own[c] = FreePlace
  BY <1>2, <1>3, Chunks DEF At
<1>5. /\ used' = [used EXCEPT ![k][c] = TRUE] /\ head'[k] = next[k][c] /\ next' = next
  BY <1>0 DEF card_alloc, CardTypes
<1>6. used'[k] = [used[k] EXCEPT ![c] = TRUE]
  BY <1>0, <1>5 DEF CardTypes
<1>7. used'[k][c] = TRUE /\ \A d \in Chunk : d # c => used'[k][d] = used[k][d]
  <2>1. used[k] \in [Chunk -> BOOLEAN] /\ c \in Chunk
    BY <1>0, <1>3 DEF CardTypes
  <2> QED
    BY <1>6, <2>1
<1>8. v \in Pages(k) /\ z \in Places(k) /\ z # FreePlace /\ z # CurrPlace
  BY PageKinds, PlacesDiffer
<1>9. own \in [Chunk -> Places(k)]
  BY <1>1 DEF Owned
<1> HIDE DEF c, z
<1>10. /\ own2 \in [Chunk -> Places(k)]
       /\ At(own2, z) = At(own, z) \cup {c}
       /\ At(own2, FreePlace) = At(own, FreePlace) \ {c}
       /\ \A y : y # z /\ y # FreePlace => At(own2, y) = At(own, y)
       /\ \A d \in Chunk : own2[d] = IF d = c THEN z ELSE own[d]
  <2>1. own2 \in [Chunk -> Places(k)] /\ \A d \in Chunk : own2[d] = IF d = c THEN z ELSE own[d]
    BY <1>3, <1>8, <1>9
  <2> HIDE DEF own2
  <2>2. At(own2, z) = At(own, z) \cup {c} /\ At(own2, FreePlace) = At(own, FreePlace) \ {c}
    BY <1>3, <1>4, <1>8, <2>1 DEF At
  <2>3. \A y : y # z /\ y # FreePlace => At(own2, y) = At(own, y)
    BY <1>3, <1>4, <2>1 DEF At
  <2> QED
    BY <2>1, <2>2, <2>3
<1> HIDE DEF own2
<1> DEFINE s == <<e>> \o sbuff[v]
<1>11. sbuff[v] \in Seq(Entry) /\ Holds(sbuff[v], At(own, z)) /\ c \notin At(own, z)
  BY <1>0, <1>1, <1>4, <1>8 DEF Buckets, Owned, At, z
<1>12. Holds(s, At(own2, z))
  BY <1>4, <1>10, <1>11, HoldsPrepended
<1>13. sbuff' = [sbuff EXCEPT ![v] = s]
  OBVIOUS
<1> HIDE DEF s
<1>14. sbuff'[v] = s /\ \A u \in Vaddr : u # v => sbuff'[u] = sbuff[u]
  BY <1>0, <1>13 DEF Buckets
<1>15. ASSUME NEW u \in Pages(k)
       PROVE  Holds(sbuff'[u], At(own2, SPlace(u))) /\ Holds(lbuff'[u], At(own2, LPlace(u)))
  <2>1. Holds(sbuff[u], At(own, SPlace(u))) /\ Holds(lbuff[u], At(own, LPlace(u))) /\ u \in Vaddr
    BY <1>1, PageKinds DEF Owned
  <2>2. At(own2, LPlace(u)) = At(own, LPlace(u))
    BY <1>10, PlacesDiffer DEF z
  <2>3. CASE u = v
    BY <1>12, <1>14, <2>1, <2>2, <2>3 DEF z
  <2>4. CASE u # v
    <3>1. At(own2, SPlace(u)) = At(own, SPlace(u))
      BY <1>10, <2>4, PlacesDiffer DEF z
    <3> QED
      BY <1>14, <2>1, <2>2, <2>4, <3>1
  <2> QED
    BY <2>3, <2>4
<1>16. At(own2, CurrPlace) = IF k = "large" /\ curr' # None THEN {curr'.card} ELSE {}
  BY <1>1, <1>8, <1>10, PlacesDiffer DEF Owned
<1>17. \A d \in Chunk : own2[d] # FreePlace => used'[k][d]
  BY <1>1, <1>7, <1>10 DEF Owned
<1>18. Owned(own2, k, sbuff', lbuff', curr', used'[k])
  BY <1>10, <1>15, <1>16, <1>17 DEF Owned
<1>19. \E q : FreeList(q, At(own2, FreePlace), head'[k], next'[k])
  BY <1>3, <1>5, <1>10
<1> QED
  BY <1>18, <1>19 DEF Acct, Accounted

\* alloc_user_buffers: the head goes to curr_user_buff.
LEMMA AcctAlloc ==
  ASSUME BaseInv, Acct("large"), card_alloc("large"), ~spent', curr = None, curr' # None,
         curr'.card = ChunkId(head["large"]), UNCHANGED <<sbuff, lbuff>>
  PROVE  Acct("large")'
<1> DEFINE k == "large"
<1>0. CardTypes /\ k \in Kind
  BY Kinds DEF BaseInv
<1>1. PICK own : Owned(own, k, sbuff, lbuff, curr, used[k]) /\ \E q : FreeList(q, At(own, FreePlace), head[k], next[k])
  BY DEF Acct, Accounted
<1> DEFINE c == head[k]
           own2 == [own EXCEPT ![c] = CurrPlace]
<1>2. c # NChunks - 1
  BY DEF card_alloc
<1>3. c \in At(own, FreePlace) /\ c \in Chunk /\ \E r : FreeList(r, At(own, FreePlace) \ {c}, next[k][c], next[k])
  BY <1>1, <1>2, FreePop
<1>4. curr'.card = c /\ own[c] = FreePlace
  BY <1>2, <1>3, Chunks DEF At
<1>5. /\ used' = [used EXCEPT ![k][c] = TRUE] /\ head'[k] = next[k][c] /\ next' = next
  BY <1>0 DEF card_alloc, CardTypes
<1>6. used'[k] = [used[k] EXCEPT ![c] = TRUE]
  BY <1>0, <1>5 DEF CardTypes
<1>7. used'[k][c] = TRUE /\ \A d \in Chunk : d # c => used'[k][d] = used[k][d]
  <2>1. used[k] \in [Chunk -> BOOLEAN] /\ c \in Chunk
    BY <1>0, <1>3 DEF CardTypes
  <2> QED
    BY <1>6, <2>1
<1>8. own \in [Chunk -> Places(k)] /\ CurrPlace \in Places(k) /\ At(own, CurrPlace) = {}
  BY <1>1, PageKinds DEF Owned
<1> HIDE DEF c
<1>9. own2 \in [Chunk -> Places(k)] /\ \A d \in Chunk : own2[d] = IF d = c THEN CurrPlace ELSE own[d]
  BY <1>3, <1>8
<1> HIDE DEF own2
<1>10. At(own2, CurrPlace) = {c} /\ At(own2, FreePlace) = At(own, FreePlace) \ {c}
  <2>1. At(own2, CurrPlace) = At(own, CurrPlace) \cup {c}
    BY <1>3, <1>9, PlacesDiffer DEF At
  <2>2. At(own2, FreePlace) = At(own, FreePlace) \ {c}
    BY <1>3, <1>9, PlacesDiffer DEF At
  <2> QED
    BY <1>8, <2>1, <2>2
<1>11. \A y : y # CurrPlace /\ y # FreePlace => At(own2, y) = At(own, y)
  BY <1>3, <1>4, <1>9 DEF At
<1>12. ASSUME NEW u \in Pages(k)
       PROVE  Holds(sbuff'[u], At(own2, SPlace(u))) /\ Holds(lbuff'[u], At(own2, LPlace(u)))
  <2>1. Holds(sbuff[u], At(own, SPlace(u))) /\ Holds(lbuff[u], At(own, LPlace(u)))
    BY <1>1 DEF Owned
  <2>2. At(own2, LPlace(u)) = At(own, LPlace(u)) /\ At(own2, SPlace(u)) = At(own, SPlace(u))
    BY <1>11, PlacesDiffer
  <2> QED
    BY <2>1, <2>2
<1>13. \A d \in Chunk : own2[d] # FreePlace => used'[k][d]
  BY <1>1, <1>7, <1>9 DEF Owned
<1>14. Owned(own2, k, sbuff', lbuff', curr', used'[k])
  BY <1>4, <1>9, <1>10, <1>12, <1>13 DEF Owned
<1>15. \E q : FreeList(q, At(own2, FreePlace), head'[k], next'[k])
  BY <1>3, <1>5, <1>10
<1> QED
  BY <1>14, <1>15 DEF Acct, Accounted

\* fpga_mmap: the chunk of curr_user_buff goes to the front of a bucket.
LEMMA AcctMmap ==
  ASSUME BaseInv, NEW v \in Vaddr, v \in Huge, Acct("large"), curr \in Entry, curr' = None,
         lbuff' = [lbuff EXCEPT ![v] = <<curr>> \o lbuff[v]], UNCHANGED <<sbuff, used, head, next>>
  PROVE  Acct("large")'
<1> DEFINE k == "large"
<1>0. lbuff \in Buckets /\ curr # None
  BY NoneAssumption DEF BaseInv
<1>1. PICK own : Owned(own, k, sbuff, lbuff, curr, used[k]) /\ \E q : FreeList(q, At(own, FreePlace), head[k], next[k])
  BY DEF Acct, Accounted
<1> DEFINE c == curr.card
           z == LPlace(v)
           own2 == [own EXCEPT ![c] = z]
<1>2. c \in Chunk /\ own[c] = CurrPlace /\ At(own, CurrPlace) = {c}
  <2>1. At(own, CurrPlace) = {c}
    BY <1>0, <1>1 DEF Owned
  <2> QED
    BY <2>1 DEF At
<1>3. v \in Pages(k) /\ z \in Places(k) /\ z # FreePlace /\ z # CurrPlace
  BY PageKinds, PlacesDiffer, Kinds
<1>4. own \in [Chunk -> Places(k)]
  BY <1>1 DEF Owned
<1> HIDE DEF c, z
<1>5. own2 \in [Chunk -> Places(k)] /\ \A d \in Chunk : own2[d] = IF d = c THEN z ELSE own[d]
  BY <1>2, <1>3, <1>4
<1> HIDE DEF own2
<1>6. At(own2, z) = At(own, z) \cup {c} /\ At(own2, CurrPlace) = {}
  <2>1. At(own2, CurrPlace) = At(own, CurrPlace) \ {c}
    BY <1>2, <1>3, <1>5 DEF At
  <2>2. At(own2, z) = At(own, z) \cup {c}
    BY <1>2, <1>3, <1>5 DEF At
  <2> QED
    BY <1>2, <2>1, <2>2
<1>7. \A y : y # z /\ y # CurrPlace => At(own2, y) = At(own, y)
  BY <1>2, <1>5 DEF At
<1> DEFINE s == <<curr>> \o lbuff[v]
<1>8. lbuff[v] \in Seq(Entry) /\ Holds(lbuff[v], At(own, z)) /\ c \notin At(own, z)
  BY <1>0, <1>1, <1>2, <1>3 DEF Buckets, Owned, At, z
<1>9. Holds(s, At(own2, z))
  BY <1>6, <1>8, HoldsPrepended DEF c
<1>10. lbuff' = [lbuff EXCEPT ![v] = s]
  OBVIOUS
<1> HIDE DEF s
<1>11. lbuff'[v] = s /\ \A u \in Vaddr : u # v => lbuff'[u] = lbuff[u]
  BY <1>0, <1>10 DEF Buckets
<1>12. ASSUME NEW u \in Pages(k)
       PROVE  Holds(sbuff'[u], At(own2, SPlace(u))) /\ Holds(lbuff'[u], At(own2, LPlace(u)))
  <2>1. Holds(sbuff[u], At(own, SPlace(u))) /\ Holds(lbuff[u], At(own, LPlace(u))) /\ u \in Vaddr
    BY <1>1, PageKinds DEF Owned
  <2>2. At(own2, SPlace(u)) = At(own, SPlace(u))
    BY <1>7, PlacesDiffer DEF z
  <2>3. CASE u = v
    BY <1>9, <1>11, <2>1, <2>2, <2>3 DEF z
  <2>4. CASE u # v
    <3>1. At(own2, LPlace(u)) = At(own, LPlace(u))
      BY <1>7, <2>4, PlacesDiffer DEF z
    <3> QED
      BY <1>11, <2>1, <2>2, <2>4, <3>1
  <2> QED
    BY <2>3, <2>4
<1>13. \A d \in Chunk : own2[d] # FreePlace => used'[k][d]
  BY <1>1, <1>2, <1>5, PlacesDiffer DEF Owned
<1>14. Owned(own2, k, sbuff', lbuff', curr', used'[k])
  BY <1>5, <1>6, <1>12, <1>13 DEF Owned
<1>15. \E q : FreeList(q, At(own2, FreePlace), head'[k], next'[k])
  BY <1>1, <1>3, <1>7, PlacesDiffer
<1> QED
  BY <1>14, <1>15 DEF Acct, Accounted

\* card_free of one chunk that was handed out.
LEMMA FreeOne ==
  ASSUME CardTypes, NEW k \in Kind, NEW c \in Chunk, used[k][c], card_free(k, c),
         NEW F, F \subseteq Chunk, c \notin F, \E q : FreeList(q, F, head[k], next[k])
  PROVE  (\E q : FreeList(q, F \cup {c}, head'[k], next'[k])) /\ used'[k] = used[k]
<1>1. PICK q : FreeList(q, F, head[k], next[k])
  OBVIOUS
<1> DEFINE ids == <<c>>
<1>2. ids \in Seq(Chunk) /\ Len(ids) = 1 /\ ids[1] = c /\ ids # <<>> /\ 1 .. Len(ids) = {1}
  OBVIOUS
<1>3. head'[k] = c /\ next'[k] = [next[k] EXCEPT ![c] = head[k]] /\ used'[k] = used[k]
  BY DEF CardTypes, card_free
<1>4. next'[k][c] = head[k] /\ \A d \in Chunk : d # c => next'[k][d] = next[k][d]
  BY <1>3 DEF CardTypes
<1> HIDE DEF ids
<1>5. Linked(ids, head[k], next[k], head'[k], next'[k])
  BY <1>2, <1>3, <1>4 DEF Linked
<1> DEFINE G == F \cup {c}
<1>6. Pushed(ids, F, G)
  BY <1>2 DEF Pushed
<1> HIDE DEF G
<1>7. ids \in Seq(Chunk)
  BY <1>2
<1>8. \E r : FreeList(r, G, head'[k], next'[k])
  BY <1>1, <1>5, <1>6, <1>7, FreePush
<1> QED
  BY <1>3, <1>8 DEF G

\* tlb_put_user_pages: a chunk goes from a bucket to the head of the list.
LEMMA AcctPut ==
  ASSUME BaseInv, NEW v \in Vaddr, NEW k \in Kind, k = KindOf(v), Acct(k), NEW i \in 1 .. Len(sbuff[v]),
         card_free(k, sbuff[v][i].card), sbuff' = [sbuff EXCEPT ![v] = RemoveAt(sbuff[v], i)], UNCHANGED <<lbuff, curr>>
  PROVE  Acct(k)'
<1>0. CardTypes /\ sbuff \in Buckets
  BY DEF BaseInv
<1>1. PICK own : Owned(own, k, sbuff, lbuff, curr, used[k]) /\ \E q : FreeList(q, At(own, FreePlace), head[k], next[k])
  BY DEF Acct, Accounted
<1> DEFINE c == sbuff[v][i].card
           z == SPlace(v)
           F == At(own, FreePlace)
           own2 == [own EXCEPT ![c] = FreePlace]
<1>2. v \in Pages(k) /\ z \in Places(k) /\ z # FreePlace /\ z # CurrPlace /\ FreePlace \in Places(k)
  BY PageKinds, PlacesDiffer
<1>3. sbuff[v] \in Seq(Entry) /\ Holds(sbuff[v], At(own, z)) /\ own \in [Chunk -> Places(k)]
  BY <1>0, <1>1, <1>2 DEF Buckets, Owned
<1>4. c \in Chunk /\ own[c] = z
  BY <1>3 DEF Holds, At
<1>5. used[k][c] /\ F \subseteq Chunk /\ c \notin F
  BY <1>1, <1>2, <1>4 DEF Owned, At
<1>6. (\E q : FreeList(q, F \cup {c}, head'[k], next'[k])) /\ used'[k] = used[k]
  <2> HIDE DEF c, F
  <2>1. card_free(k, c) /\ \E q : FreeList(q, F, head[k], next[k])
    BY <1>1 DEF c, F
  <2> QED
    BY <1>0, <1>4, <1>5, <2>1, FreeOne
<1> DEFINE s == RemoveAt(sbuff[v], i)
<1>7. Holds(s, At(own, z) \ {c})
  BY <1>3, HoldsRemoved
<1>8. sbuff' = [sbuff EXCEPT ![v] = s]
  OBVIOUS
<1> HIDE DEF c, z, s
<1>9. own2 \in [Chunk -> Places(k)] /\ \A d \in Chunk : own2[d] = IF d = c THEN FreePlace ELSE own[d]
  BY <1>2, <1>3, <1>4
<1> HIDE DEF own2
<1>10. At(own2, z) = At(own, z) \ {c} /\ At(own2, FreePlace) = F \cup {c}
  BY <1>2, <1>4, <1>9 DEF At
<1>11. \A y : y # z /\ y # FreePlace => At(own2, y) = At(own, y)
  BY <1>4, <1>9 DEF At
<1>12. sbuff'[v] = s /\ \A u \in Vaddr : u # v => sbuff'[u] = sbuff[u]
  BY <1>0, <1>8 DEF Buckets
<1>13. ASSUME NEW u \in Pages(k)
       PROVE  Holds(sbuff'[u], At(own2, SPlace(u))) /\ Holds(lbuff'[u], At(own2, LPlace(u)))
  <2>1. Holds(sbuff[u], At(own, SPlace(u))) /\ Holds(lbuff[u], At(own, LPlace(u))) /\ u \in Vaddr
    BY <1>1, PageKinds DEF Owned
  <2>2. At(own2, LPlace(u)) = At(own, LPlace(u))
    BY <1>11, PlacesDiffer DEF z
  <2>3. CASE u = v
    BY <1>7, <1>10, <1>12, <2>1, <2>2, <2>3 DEF z
  <2>4. CASE u # v
    <3>1. At(own2, SPlace(u)) = At(own, SPlace(u))
      BY <1>11, <2>4, PlacesDiffer DEF z
    <3> QED
      BY <1>12, <2>1, <2>2, <2>4, <3>1
  <2> QED
    BY <2>3, <2>4
<1>14. At(own2, CurrPlace) = IF k = "large" /\ curr' # None THEN {curr'.card} ELSE {}
  BY <1>1, <1>2, <1>11, PlacesDiffer DEF Owned
<1>15. \A d \in Chunk : own2[d] # FreePlace => used'[k][d]
  BY <1>1, <1>6, <1>9 DEF Owned
<1>16. Owned(own2, k, sbuff', lbuff', curr', used'[k])
  BY <1>9, <1>13, <1>14, <1>15 DEF Owned
<1>17. \E q : FreeList(q, At(own2, FreePlace), head'[k], next'[k])
  BY <1>6, <1>10
<1> QED
  BY <1>16, <1>17 DEF Acct, Accounted

\* free_user_buffers does the same.
LEMMA AcctFree ==
  ASSUME BaseInv, NEW v \in Vaddr, NEW k \in Kind, k = KindOf(v), Acct(k), NEW i \in 1 .. Len(lbuff[v]),
         card_free(k, lbuff[v][i].card), lbuff' = [lbuff EXCEPT ![v] = RemoveAt(lbuff[v], i)], UNCHANGED <<sbuff, curr>>
  PROVE  Acct(k)'
<1>0. CardTypes /\ lbuff \in Buckets
  BY DEF BaseInv
<1>1. PICK own : Owned(own, k, sbuff, lbuff, curr, used[k]) /\ \E q : FreeList(q, At(own, FreePlace), head[k], next[k])
  BY DEF Acct, Accounted
<1> DEFINE c == lbuff[v][i].card
           z == LPlace(v)
           F == At(own, FreePlace)
           own2 == [own EXCEPT ![c] = FreePlace]
<1>2. v \in Pages(k) /\ z \in Places(k) /\ z # FreePlace /\ z # CurrPlace /\ FreePlace \in Places(k)
  BY PageKinds, PlacesDiffer
<1>3. lbuff[v] \in Seq(Entry) /\ Holds(lbuff[v], At(own, z)) /\ own \in [Chunk -> Places(k)]
  BY <1>0, <1>1, <1>2 DEF Buckets, Owned
<1>4. c \in Chunk /\ own[c] = z
  BY <1>3 DEF Holds, At
<1>5. used[k][c] /\ F \subseteq Chunk /\ c \notin F
  BY <1>1, <1>2, <1>4 DEF Owned, At
<1>6. (\E q : FreeList(q, F \cup {c}, head'[k], next'[k])) /\ used'[k] = used[k]
  <2> HIDE DEF c, F
  <2>1. card_free(k, c) /\ \E q : FreeList(q, F, head[k], next[k])
    BY <1>1 DEF c, F
  <2> QED
    BY <1>0, <1>4, <1>5, <2>1, FreeOne
<1> DEFINE s == RemoveAt(lbuff[v], i)
<1>7. Holds(s, At(own, z) \ {c})
  BY <1>3, HoldsRemoved
<1>8. lbuff' = [lbuff EXCEPT ![v] = s]
  OBVIOUS
<1> HIDE DEF c, z, s
<1>9. own2 \in [Chunk -> Places(k)] /\ \A d \in Chunk : own2[d] = IF d = c THEN FreePlace ELSE own[d]
  BY <1>2, <1>3, <1>4
<1> HIDE DEF own2
<1>10. At(own2, z) = At(own, z) \ {c} /\ At(own2, FreePlace) = F \cup {c}
  BY <1>2, <1>4, <1>9 DEF At
<1>11. \A y : y # z /\ y # FreePlace => At(own2, y) = At(own, y)
  BY <1>4, <1>9 DEF At
<1>12. lbuff'[v] = s /\ \A u \in Vaddr : u # v => lbuff'[u] = lbuff[u]
  BY <1>0, <1>8 DEF Buckets
<1>13. ASSUME NEW u \in Pages(k)
       PROVE  Holds(sbuff'[u], At(own2, SPlace(u))) /\ Holds(lbuff'[u], At(own2, LPlace(u)))
  <2>1. Holds(sbuff[u], At(own, SPlace(u))) /\ Holds(lbuff[u], At(own, LPlace(u))) /\ u \in Vaddr
    BY <1>1, PageKinds DEF Owned
  <2>2. At(own2, SPlace(u)) = At(own, SPlace(u))
    BY <1>11, PlacesDiffer DEF z
  <2>3. CASE u = v
    BY <1>7, <1>10, <1>12, <2>1, <2>2, <2>3 DEF z
  <2>4. CASE u # v
    <3>1. At(own2, LPlace(u)) = At(own, LPlace(u))
      BY <1>11, <2>4, PlacesDiffer DEF z
    <3> QED
      BY <1>12, <2>1, <2>2, <2>4, <3>1
  <2> QED
    BY <2>3, <2>4
<1>14. At(own2, CurrPlace) = IF k = "large" /\ curr' # None THEN {curr'.card} ELSE {}
  BY <1>1, <1>2, <1>11, PlacesDiffer DEF Owned
<1>15. \A d \in Chunk : own2[d] # FreePlace => used'[k][d]
  BY <1>1, <1>6, <1>9 DEF Owned
<1>16. Owned(own2, k, sbuff', lbuff', curr', used'[k])
  BY <1>9, <1>13, <1>14, <1>15 DEF Owned
<1>17. \E q : FreeList(q, At(own2, FreePlace), head'[k], next'[k])
  BY <1>6, <1>10
<1> QED
  BY <1>16, <1>17 DEF Acct, Accounted

\* The links that tlb_put_user_pages_cpid leaves.
LEMMA LinkedMany ==
  ASSUME CardTypes, NEW kd \in Kind, NEW ids \in Seq(Chunk), \A i, j \in 1 .. Len(ids) : ids[i] = ids[j] => i = j
  PROVE  Linked(ids, head[kd], next[kd], FreedHead(kd, ids), FreedNext(kd, ids))
<1>1. /\ \A c \in Chunk : LastFreed(ids, c) = 0 => FreedNext(kd, ids)[c] = next[kd][c]
      /\ \A c \in Chunk : LastFreed(ids, c) = 1 => FreedNext(kd, ids)[c] = head[kd]
      /\ \A c \in Chunk : LastFreed(ids, c) > 1 => FreedNext(kd, ids)[c] = ids[LastFreed(ids, c) - 1]
  BY FreedNextIs
<1>2. \A c \in Chunk : \/ LastFreed(ids, c) = 0 /\ \A j \in 1 .. Len(ids) : ids[j] # c
                       \/ LastFreed(ids, c) \in 1 .. Len(ids) /\ ids[LastFreed(ids, c)] = c
  BY LastFreedIs
<1>3. ASSUME NEW c \in Chunk, \A i \in 1 .. Len(ids) : ids[i] # c PROVE FreedNext(kd, ids)[c] = next[kd][c]
  BY <1>1, <1>2, <1>3
<1>4. ASSUME NEW i \in 1 .. Len(ids) PROVE FreedNext(kd, ids)[ids[i]] = IF i = 1 THEN head[kd] ELSE ids[i - 1]
  <2>1. ids[i] \in Chunk
    OBVIOUS
  <2>2. LastFreed(ids, ids[i]) = i
    BY <1>2, <2>1
  <2>3. i = 1 \/ i > 1
    OBVIOUS
  <2> QED
    BY <1>1, <2>1, <2>2, <2>3
<1> QED
  BY <1>3, <1>4 DEF Linked, FreedHead

LEMMA AcctPutCpid ==
  ASSUME BaseInv, NEW kd \in Kind, Acct(kd), NEW k \in Cpid, tlb_put_user_pages_cpid(k), UNCHANGED <<lbuff, curr>>
  PROVE  Acct(kd)'
<1>0. CardTypes /\ sbuff \in Buckets
  BY DEF BaseInv
<1>1. PICK own : Owned(own, kd, sbuff, lbuff, curr, used[kd]) /\ \E q : FreeList(q, At(own, FreePlace), head[kd], next[kd])
  BY DEF Acct, Accounted
<1>2. /\ \A v \in Vaddr : sbuff'[v] = IF v \in Hits(k) THEN RemoveAt(sbuff[v], Newest(sbuff[v], k)) ELSE sbuff[v]
      /\ head'[kd] = FreedHead(kd, Returned(kd, k)) /\ next'[kd] = FreedNext(kd, Returned(kd, k))
      /\ used' = used
  BY PutCpidIs
<1>3. own \in [Chunk -> Places(kd)] /\ (\A c \in Chunk : own[c] # FreePlace => used[kd][c])
      /\ \A v \in Pages(kd) : sbuff[v] \in Seq(Entry) /\ Holds(sbuff[v], At(own, SPlace(v)))
  BY <1>0, <1>1, PageKinds DEF Owned, Buckets
<1> DEFINE V == {v \in Hits(k) : KindOf(v) = kd /\ used[kd][CardAt(v, k)]}
<1>4. ASSUME NEW v \in Hits(k), KindOf(v) = kd
      PROVE  CardAt(v, k) \in Chunk /\ own[CardAt(v, k)] = SPlace(v) /\ v \in V /\ v \in Pages(kd)
  <2>1. Newest(sbuff[v], k) \in 1 .. Len(sbuff[v]) /\ CardAt(v, k) \in Chunk /\ v \in Vaddr
    BY <1>0, HitIs
  <2>2. v \in Pages(kd)
    BY <1>4, <2>1, PageKinds
  <2>3. own[CardAt(v, k)] = SPlace(v)
    BY <1>3, <2>1, <2>2 DEF Holds, CardAt, At
  <2>4. used[kd][CardAt(v, k)]
    BY <1>3, <2>1, <2>3, PlacesDiffer
  <2> QED
    BY <1>4, <2>1, <2>2, <2>3, <2>4
<1>5. V = {v \in Hits(k) : KindOf(v) = kd}
  BY <1>4
<1> DEFINE ids == Returned(kd, k)
           s == SetToSeq(V)
<1>6. /\ ids \in Seq(Chunk) /\ Len(ids) = Len(s) /\ s \in Seq(V)
      /\ \A i \in 1 .. Len(s) : ids[i] = CardAt(s[i], k)
      /\ \A i, j \in 1 .. Len(s) : s[i] = s[j] => i = j
      /\ \A v \in V : \E i \in 1 .. Len(s) : s[i] = v
  BY <1>0, ReturnedIs
<1> HIDE DEF s, ids, V
<1>7. \A i \in 1 .. Len(s) : s[i] \in V
  BY <1>6
<1>8. \A v \in V : v \in Hits(k) /\ KindOf(v) = kd /\ CardAt(v, k) \in Chunk /\ own[CardAt(v, k)] = SPlace(v)
  BY <1>4, <1>5
<1>9. \A i, j \in 1 .. Len(ids) : ids[i] = ids[j] => i = j
  <2> SUFFICES ASSUME NEW i \in 1 .. Len(ids), NEW j \in 1 .. Len(ids), ids[i] = ids[j] PROVE i = j
    OBVIOUS
  <2>1. i \in 1 .. Len(s) /\ j \in 1 .. Len(s) /\ CardAt(s[i], k) = CardAt(s[j], k)
    BY <1>6
  <2>2. SPlace(s[i]) = SPlace(s[j])
    BY <1>7, <1>8, <2>1
  <2> QED
    BY <1>6, <2>1, <2>2, PlacesDiffer
<1> DEFINE R == {CardAt(v, k) : v \in V}
           F == At(own, FreePlace)
           G == F \cup R
           own2 == [c \in Chunk |-> IF c \in R THEN FreePlace ELSE own[c]]
<1>10. Pushed(ids, F, G)
  <2>1. F \subseteq Chunk /\ F \subseteq G
    BY DEF At
  <2>2. ASSUME NEW i \in 1 .. Len(ids) PROVE ids[i] \notin F /\ ids[i] \in G
    <3>1. s[i] \in V /\ ids[i] = CardAt(s[i], k)
      BY <1>6, <1>7
    <3>2. own[ids[i]] # FreePlace
      BY <1>8, <3>1, PlacesDiffer
    <3> QED
      BY <3>1, <3>2 DEF At
  <2>3. ASSUME NEW c \in G PROVE c \in F \/ \E i \in 1 .. Len(ids) : ids[i] = c
    <3>1. CASE c \in R
      <4>1. PICK v \in V : c = CardAt(v, k)
        BY <3>1
      <4>2. PICK i \in 1 .. Len(s) : s[i] = v
        BY <1>6
      <4> QED
        BY <1>6, <4>1, <4>2
    <3> QED
      BY <3>1
  <2> HIDE DEF F, G
  <2> QED
    BY <1>9, <2>1, <2>2, <2>3 DEF Pushed
<1>11. Linked(ids, head[kd], next[kd], head'[kd], next'[kd])
  BY <1>0, <1>2, <1>6, <1>9, LinkedMany DEF ids
<1>12. \E q : FreeList(q, G, head'[kd], next'[kd])
  <2>1. PICK q : FreeList(q, F, head[kd], next[kd])
    BY <1>1
  <2>2. ids \in Seq(Chunk)
    BY <1>6
  <2> HIDE DEF F, G
  <2> QED
    BY <1>10, <1>11, <2>1, <2>2, FreePush
<1>13. R \subseteq Chunk /\ \A c \in R : \E v \in V : c = CardAt(v, k) /\ own[c] = SPlace(v)
  BY <1>8
<1> HIDE DEF R
<1>14. own2 \in [Chunk -> Places(kd)] /\ \A d \in Chunk : own2[d] = IF d \in R THEN FreePlace ELSE own[d]
  BY <1>3, PageKinds
<1> HIDE DEF own2
<1>15. At(own2, FreePlace) = G
  BY <1>13, <1>14 DEF At
<1>16. \A y : y # FreePlace => At(own2, y) = At(own, y) \ R
  BY <1>14 DEF At
<1>17. ASSUME NEW y, \A v \in V : SPlace(v) # y PROVE At(own, y) \ R = At(own, y)
  BY <1>13, <1>17 DEF At
<1>18. ASSUME NEW u \in Pages(kd)
       PROVE  Holds(sbuff'[u], At(own2, SPlace(u))) /\ Holds(lbuff'[u], At(own2, LPlace(u)))
  <2>1. Holds(sbuff[u], At(own, SPlace(u))) /\ Holds(lbuff[u], At(own, LPlace(u))) /\ u \in Vaddr /\ KindOf(u) = kd
    BY <1>1, PageKinds DEF Owned
  <2>2. At(own2, LPlace(u)) = At(own, LPlace(u))
    BY <1>16, <1>17, PlacesDiffer
  <2>3. CASE u \in Hits(k)
    <3>1. Newest(sbuff[u], k) \in 1 .. Len(sbuff[u]) /\ sbuff[u] \in Seq(Entry)
      BY <1>0, <2>3, HitIs
    <3>2. u \in V /\ CardAt(u, k) \in R
      BY <1>4, <2>1, <2>3 DEF R
    <3>3. At(own2, SPlace(u)) = At(own, SPlace(u)) \ R
      BY <1>16, PlacesDiffer
    <3>4. \A c \in R : own[c] = SPlace(u) => c = CardAt(u, k)
      BY <1>13, PlacesDiffer
    <3>5. At(own2, SPlace(u)) = At(own, SPlace(u)) \ {CardAt(u, k)}
      BY <3>2, <3>3, <3>4 DEF At
    <3>6. Holds(RemoveAt(sbuff[u], Newest(sbuff[u], k)), At(own, SPlace(u)) \ {sbuff[u][Newest(sbuff[u], k)].card})
      BY <2>1, <3>1, HoldsRemoved
    <3> QED
      BY <1>2, <2>1, <2>2, <2>3, <3>5, <3>6 DEF CardAt
  <2>4. CASE u \notin Hits(k)
    <3>1. \A v \in V : SPlace(v) # SPlace(u)
      BY <1>8, <2>4, PlacesDiffer
    <3>2. At(own2, SPlace(u)) = At(own, SPlace(u))
      BY <1>16, <1>17, <3>1, PlacesDiffer
    <3> QED
      BY <1>2, <2>1, <2>2, <2>4, <3>2
  <2> QED
    BY <2>3, <2>4
<1>19. At(own2, CurrPlace) = IF kd = "large" /\ curr' # None THEN {curr'.card} ELSE {}
  <2>1. At(own2, CurrPlace) = At(own, CurrPlace)
    BY <1>16, <1>17, PlacesDiffer
  <2> QED
    BY <1>1, <2>1 DEF Owned
<1>20. \A d \in Chunk : own2[d] # FreePlace => used'[kd][d]
  BY <1>2, <1>3, <1>14
<1>21. Owned(own2, kd, sbuff', lbuff', curr', used'[kd])
  BY <1>14, <1>18, <1>19, <1>20 DEF Owned
<1> QED
  BY <1>12, <1>15, <1>21 DEF Acct, Accounted

LEMMA CardInit == Init => CardInv
<1> SUFFICES ASSUME Init, NEW k \in Kind PROVE Acct(k)
  BY DEF CardInv
<1>0. NChunks \in Nat /\ NChunks >= 2
  BY MMUAssumption
<1>1. /\ \A v \in Vaddr : sbuff[v] = <<>> /\ lbuff[v] = <<>>
      /\ curr = None /\ head[k] = 0
      /\ next[k] = [c \in Chunk |-> IF c = NChunks - 1 THEN None ELSE c + 1]
  BY DEF Init, alloc_card_resources
<1> DEFINE own == [c \in Chunk |-> FreePlace]
           q == [i \in 1 .. NChunks |-> i - 1]
<1>2. own \in [Chunk -> Places(k)] /\ (\A c \in Chunk : own[c] = FreePlace) /\ At(own, FreePlace) = Chunk
  BY PageKinds DEF At
<1>3. \A y : y # FreePlace => At(own, y) = {}
  BY <1>2 DEF At
<1> HIDE DEF own
<1>4. Holds(<<>>, {})
  BY DEF Holds
<1>5. \A v \in Pages(k) : Holds(sbuff[v], At(own, SPlace(v))) /\ Holds(lbuff[v], At(own, LPlace(v)))
  <2>1. \A v \in Pages(k) : At(own, SPlace(v)) = {} /\ At(own, LPlace(v)) = {} /\ v \in Vaddr
    BY <1>3, PlacesDiffer, PageKinds
  <2> QED
    BY <1>1, <1>4, <2>1
<1>6. Owned(own, k, sbuff, lbuff, curr, used[k])
  BY <1>1, <1>2, <1>3, <1>5, PlacesDiffer DEF Owned
<1>7. q \in Seq(Chunk) /\ Len(q) = NChunks /\ \A i \in 1 .. NChunks : q[i] = i - 1 /\ q[i] \in Chunk
  BY <1>0 DEF Chunk
<1> HIDE DEF q
<1>8. \A i, j \in 1 .. Len(q) : q[i] = q[j] => i = j
  BY <1>0, <1>7
<1>9. \A c \in Chunk : \E i \in 1 .. Len(q) : q[i] = c
  <2> SUFFICES ASSUME NEW c \in Chunk PROVE \E i \in 1 .. Len(q) : q[i] = c
    OBVIOUS
  <2>1. c + 1 \in 1 .. NChunks /\ (c + 1) - 1 = c
    BY <1>0 DEF Chunk
  <2> QED
    BY <1>7, <2>1
<1>10. head[k] = q[1] /\ q[Len(q)] = NChunks - 1 /\ next[k][NChunks - 1] = None /\ Len(q) >= 1
  BY <1>0, <1>1, <1>7, Chunks
<1>11. \A i \in 1 .. Len(q) : i + 1 <= Len(q) => next[k][q[i]] = q[i + 1]
  <2> SUFFICES ASSUME NEW i \in 1 .. NChunks, i + 1 <= NChunks PROVE next[k][q[i]] = q[i + 1]
    BY <1>7
  <2>1. i + 1 \in 1 .. NChunks /\ i - 1 # NChunks - 1 /\ (i - 1) + 1 = (i + 1) - 1
    BY <1>0
  <2>2. q[i] = i - 1 /\ q[i] \in Chunk /\ q[i + 1] = (i + 1) - 1
    BY <1>7, <2>1
  <2> QED
    BY <1>1, <2>1, <2>2
<1>12. FreeList(q, Chunk, head[k], next[k])
  BY <1>7, <1>8, <1>9, <1>10, <1>11 DEF FreeList
<1> QED
  BY <1>2, <1>6, <1>12 DEF Acct, Accounted

\* Chunks of one kind, when the other is allocated or freed.
LEMMA CardOther ==
  ASSUME CardTypes, NEW kd \in Kind, NEW k \in Kind, k # kd,
         card_alloc(kd) \/ \E c \in Chunk : card_free(kd, c)
  PROVE  used'[k] = used[k] /\ head'[k] = head[k] /\ next'[k] = next[k]
  BY DEF CardTypes, card_alloc, card_free

LEMMA CardMap ==
  ASSUME BaseInv, NEW v \in Vaddr, NEW j \in Cpid, NEW p \in Proc, MapPage(v, j, p), ~spent',
         UNCHANGED <<lbuff, curr>>, NEW k \in Kind, Acct(k)
  PROVE  Acct(k)'
<1>0. CardTypes /\ sbuff \in Buckets
  BY DEF BaseInv
<1>1. PICK e : Mapped(e, v, j, p)
  BY MapPageIs
<1>2. e \in Entry /\ e.card = ChunkId(head[KindOf(v)]) /\ sbuff' = [sbuff EXCEPT ![v] = <<e>> \o sbuff[v]]
  BY <1>1 DEF Mapped, Pinned
<1>3. card_alloc(KindOf(v))
  BY DEF MapPage
<1>4. CASE k = KindOf(v)
  BY <1>2, <1>3, <1>4, AcctMap
<1>5. CASE k # KindOf(v)
  <2>1. used'[k] = used[k] /\ head'[k] = head[k] /\ next'[k] = next[k]
    BY <1>0, <1>3, <1>5, Kinds, CardOther
  <2>2. \A u \in Pages(k) : u \in Vaddr /\ u # v
    BY <1>5, PageKinds
  <2>3. \A u \in Pages(k) : sbuff'[u] = sbuff[u] /\ lbuff'[u] = lbuff[u]
    BY <1>0, <1>2, <2>2 DEF Buckets
  <2> QED
    BY <2>1, <2>3, AcctSame
<1> QED
  BY <1>4, <1>5

LEMMA CardPut ==
  ASSUME BaseInv, NEW v \in Vaddr, NEW j \in Cpid, tlb_put_user_pages(v, j),
         UNCHANGED <<lbuff, curr>>, NEW k \in Kind, Acct(k)
  PROVE  Acct(k)'
<1>0. CardTypes /\ sbuff \in Buckets
  BY DEF BaseInv
<1> DEFINE i == Newest(sbuff[v], j)
<1>1. \/ UNCHANGED <<cardVars, sbuff>>
      \/ /\ v \in Hits(j) /\ card_free(KindOf(v), CardAt(v, j))
         /\ sbuff' = [sbuff EXCEPT ![v] = RemoveAt(sbuff[v], i)]
  BY PutIs
<1>2. CASE UNCHANGED <<cardVars, sbuff>>
  BY <1>2, AcctSame DEF cardVars
<1>3. CASE /\ v \in Hits(j) /\ card_free(KindOf(v), CardAt(v, j))
           /\ sbuff' = [sbuff EXCEPT ![v] = RemoveAt(sbuff[v], i)]
  <2>1. i \in 1 .. Len(sbuff[v]) /\ CardAt(v, j) \in Chunk /\ card_free(KindOf(v), sbuff[v][i].card)
    BY <1>0, <1>3, HitIs DEF CardAt
  <2> HIDE DEF i
  <2>2. CASE k = KindOf(v)
    BY <1>3, <2>1, <2>2, AcctPut
  <2>3. CASE k # KindOf(v)
    <3>1. used'[k] = used[k] /\ head'[k] = head[k] /\ next'[k] = next[k]
      BY <1>0, <1>3, <2>1, <2>3, Kinds, CardOther
    <3>2. \A u \in Pages(k) : u \in Vaddr /\ u # v
      BY <2>3, PageKinds
    <3>3. \A u \in Pages(k) : sbuff'[u] = sbuff[u] /\ lbuff'[u] = lbuff[u]
      BY <1>0, <1>3, <3>2 DEF Buckets
    <3> QED
      BY <3>1, <3>3, AcctSame
  <2> QED
    BY <2>2, <2>3
<1> QED
  BY <1>1, <1>2, <1>3

LEMMA CardFreeBuff ==
  ASSUME BaseInv, NEW v \in Vaddr, NEW j \in Cpid, free_user_buffers(v, j),
         UNCHANGED <<sbuff, curr>>, NEW k \in Kind, Acct(k)
  PROVE  Acct(k)'
<1>0. CardTypes /\ lbuff \in Buckets
  BY DEF BaseInv
<1> DEFINE i == Newest(lbuff[v], j)
<1>1. \/ UNCHANGED <<cardVars, lbuff>>
      \/ /\ i \in 1 .. Len(lbuff[v]) /\ v \in Huge /\ lbuff[v][i].card \in Chunk
         /\ card_free("large", lbuff[v][i].card)
         /\ lbuff' = [lbuff EXCEPT ![v] = RemoveAt(lbuff[v], i)]
  BY FreeIs
<1> HIDE DEF i
<1>2. CASE UNCHANGED <<cardVars, lbuff>>
  BY <1>2, AcctSame DEF cardVars
<1>3. CASE /\ i \in 1 .. Len(lbuff[v]) /\ v \in Huge /\ lbuff[v][i].card \in Chunk
           /\ card_free("large", lbuff[v][i].card)
           /\ lbuff' = [lbuff EXCEPT ![v] = RemoveAt(lbuff[v], i)]
  <2>1. KindOf(v) = "large"
    BY <1>3, Kinds
  <2>2. CASE k = "large"
    BY <1>3, <2>1, <2>2, AcctFree
  <2>3. CASE k # "large"
    <3>1. used'[k] = used[k] /\ head'[k] = head[k] /\ next'[k] = next[k]
      BY <1>0, <1>3, <2>3, Kinds, CardOther
    <3>2. \A u \in Pages(k) : u \in Vaddr /\ u # v
      BY <2>1, <2>3, PageKinds
    <3>3. \A u \in Pages(k) : sbuff'[u] = sbuff[u] /\ lbuff'[u] = lbuff[u]
      BY <1>0, <1>3, <3>2 DEF Buckets
    <3> QED
      BY <3>1, <3>3, AcctSame
  <2> QED
    BY <2>2, <2>3
<1> QED
  BY <1>1, <1>2, <1>3

LEMMA CardStep == BaseInv /\ CardInv /\ [Next]_vars => CardInv'
<1> SUFFICES ASSUME BaseInv, CardInv, [Next]_vars, ~spent', ~lost', NEW k \in Kind
             PROVE  Acct(k)'
  BY DEF CardInv
<1>0. CardTypes /\ ProcTypes /\ sbuff \in Buckets /\ lbuff \in Buckets /\ \A p \in Proc : cpid[p] \in Cpid
  BY DEF BaseInv, ProcTypes
<1>1. ASSUME ~spent, ~lost PROVE Acct(k)
  BY <1>1 DEF CardInv
<1>2. ASSUME UNCHANGED <<sbuff, lbuff, curr, head, next, used, spent, lost>> PROVE Acct(k)'
  BY <1>1, <1>2, AcctSame
<1>3. ASSUME NEW p \in Proc, Construct(p) \/ Close(p) \/ Die(p)
      PROVE  UNCHANGED <<sbuff, lbuff, curr, head, next, used, spent, lost>>
  BY <1>3 DEF Construct, Close, Die, buffVars, cardVars
<1>4. ASSUME NEW p \in Proc, Unregister(p) PROVE Acct(k)'
  <2>1. tlb_put_user_pages_cpid(cpid[p]) /\ UNCHANGED <<lbuff, curr, lost, spent>>
    BY <1>4 DEF Unregister, tlb_put_user_pages_cpid
  <2> QED
    BY <1>0, <1>1, <2>1, AcctPutCpid
<1>5. ASSUME NEW p \in Proc, alloc_user_buffers(p) PROVE Acct(k)'
  <2>1. /\ UNCHANGED <<sbuff, lbuff, lost>>
        /\ \/ UNCHANGED <<curr, cardVars>>
           \/ /\ curr = None /\ card_alloc("large")
              /\ curr' = [cpid |-> cpid[p], host |-> [buf |-> nbuf + 1], card |-> ChunkId(head["large"])]
    BY <1>5 DEF alloc_user_buffers
  <2>2. CASE UNCHANGED <<curr, cardVars>>
    BY <1>2, <2>1, <2>2 DEF cardVars
  <2>3. CASE /\ curr = None /\ card_alloc("large")
             /\ curr' = [cpid |-> cpid[p], host |-> [buf |-> nbuf + 1], card |-> ChunkId(head["large"])]
    <3>1. ~spent /\ ~lost
      BY <2>1, <2>3 DEF card_alloc
    <3>2. curr'.card = ChunkId(head["large"]) /\ curr' # None
      <4>1. BaseInv' /\ mlock' = p /\ ~oops'
        BY <1>5, <2>3, AllocBase DEF alloc_user_buffers, card_alloc
      <4>2. mlock' # None
        BY <4>1, MMUAssumption
      <4> QED
        BY <2>3, <4>1, <4>2 DEF BaseInv, LockInv
    <3>3. CASE k = "large"
      BY <1>1, <2>1, <2>3, <3>1, <3>2, <3>3, AcctAlloc
    <3>4. CASE k # "large"
      <4>1. used'[k] = used[k] /\ head'[k] = head[k] /\ next'[k] = next[k]
        BY <1>0, <2>3, <3>4, Kinds, CardOther
      <4> QED
        BY <1>1, <2>1, <3>1, <3>4, <4>1, AcctSame
    <3> QED
      BY <3>3, <3>4
  <2> QED
    BY <2>1, <2>2, <2>3
<1>6. ASSUME NEW p \in Proc, NEW v \in Vaddr, userMap(p, v) PROVE Acct(k)'
  <2>1. UNCHANGED <<lbuff, curr, lost>> /\ (MapPage(v, cpid[p], p) \/ UNCHANGED <<cardVars, sbuff>>)
    BY <1>6 DEF userMap, buffVars
  <2>2. CASE MapPage(v, cpid[p], p)
    <3>1. ~spent /\ ~lost
      BY <2>1, <2>2 DEF MapPage, card_alloc
    <3> QED
      BY <1>0, <1>1, <2>1, <2>2, <3>1, CardMap
  <2>3. CASE UNCHANGED <<cardVars, sbuff>>
    BY <1>2, <2>1, <2>3 DEF cardVars
  <2> QED
    BY <2>1, <2>2, <2>3
<1>7. ASSUME NEW p \in Proc, NEW v \in Vaddr, freeUser(p, v) \/ DestructorUnmap(p, v) PROVE Acct(k)'
  <2>1. UNCHANGED <<lbuff, curr, lost>> /\ tlb_put_user_pages(v, cpid[p])
    BY <1>7 DEF freeUser, DestructorUnmap, buffVars
  <2>2. spent' = spent
    BY <2>1 DEF tlb_put_user_pages, cardVars, card_free
  <2> QED
    BY <1>0, <1>1, <2>1, <2>2, CardPut
<1>8. ASSUME NEW p \in Proc, NEW v \in Vaddr, freeBuff(p, v) PROVE Acct(k)'
  <2>1. UNCHANGED <<sbuff, curr, lost>> /\ free_user_buffers(v, cpid[p])
    BY <1>8 DEF freeBuff, buffVars
  <2>2. spent' = spent
    BY <2>1 DEF free_user_buffers, cardVars, card_free
  <2> QED
    BY <1>0, <1>1, <2>1, <2>2, CardFreeBuff
<1>9. ASSUME NEW p \in Proc, NEW v \in Vaddr, fpga_mmap(p, v) PROVE Acct(k)'
  <2>1. curr \in Entry /\ v \in Huge /\ lbuff' = [lbuff EXCEPT ![v] = <<curr>> \o lbuff[v]]
    BY <1>9, MmapIs
  <2>2. UNCHANGED <<sbuff, lost, used, head, next, spent>> /\ curr' = None
    BY <1>9 DEF fpga_mmap, cardVars
  <2>3. CASE k = "large"
    BY <1>1, <2>1, <2>2, <2>3, AcctMmap
  <2>4. CASE k # "large"
    <3>1. \A u \in Pages(k) : u \in Vaddr /\ u # v
      BY <2>1, <2>4, PageKinds, Kinds
    <3>2. \A u \in Pages(k) : sbuff'[u] = sbuff[u] /\ lbuff'[u] = lbuff[u]
      BY <1>0, <2>1, <2>2, <3>1 DEF Buckets
    <3> QED
      BY <1>1, <2>2, <2>4, <3>2, AcctSame
  <2> QED
    BY <2>3, <2>4
<1>10. ASSUME NEW p \in Proc, NEW v \in Vaddr, MmapFails(p, v) PROVE FALSE
  BY <1>10 DEF MmapFails
<1>11. ASSUME NEW p \in Proc, NEW v \in Vaddr, invoke(p, v)
       PROVE  UNCHANGED <<sbuff, lbuff, curr, head, next, used, spent, lost>>
  BY <1>11 DEF invoke, buffVars, cardVars
<1>12. ASSUME NEW x \in Vaddr \X Cpid, Access(x) \/ Evict(x)
       PROVE  UNCHANGED <<sbuff, lbuff, curr, head, next, used, spent, lost>>
  BY <1>12 DEF Access, Evict, buffVars, cardVars
<1>13. ASSUME fpga_tlb_miss_isr PROVE Acct(k)'
  <2>1. PICK v \in Vaddr, j \in Cpid : /\ pid_array[j] \in Proc /\ UNCHANGED <<lbuff, curr, lost>>
                                       /\ MapPage(v, j, pid_array[j]) \/ UNCHANGED <<cardVars, sbuff>>
    BY <1>13, MissIs
  <2>2. CASE MapPage(v, j, pid_array[j])
    <3>1. ~spent /\ ~lost
      BY <2>1, <2>2 DEF MapPage, card_alloc
    <3> QED
      BY <1>1, <2>1, <2>2, <3>1, CardMap
  <2>3. CASE UNCHANGED <<cardVars, sbuff>>
    BY <1>2, <2>1, <2>3 DEF cardVars
  <2> QED
    BY <2>1, <2>2, <2>3
<1>14. CASE UNCHANGED vars
  BY <1>2, <1>14, AllUnchanged
<1>15. CASE UserStep
  BY <1>2, <1>5, <1>6, <1>7, <1>8, <1>9, <1>10, <1>11, <1>12, <1>13, <1>15 DEF UserStep
<1> QED
  BY <1>2, <1>3, <1>4, <1>14, <1>15, Steps

\* A free list without repetition is no longer than the memory.
LEMMA ListShort ==
  ASSUME NEW q, NEW F, NEW h, NEW nx, FreeList(q, F, h, nx)
  PROVE  Len(q) \in Nat /\ Len(q) <= NChunks
<1> DEFINE n == Len(q)
           f == [i \in 1 .. n |-> q[i]]
<1>1. n \in Nat /\ NChunks \in Nat /\ Chunk = 0 .. NChunks - 1
  BY Chunks DEF FreeList, Chunk
<1>2. \A i \in 1 .. n : q[i] \in Chunk
  BY DEF FreeList
<1>3. f \in [1 .. n -> Chunk]
  BY <1>2
<1>4. \A i, j \in 1 .. n : f[i] = f[j] => i = j
  BY DEF FreeList
<1>5. f \in Injection(1 .. n, Chunk)
  <2> HIDE DEF f, n
  <2>1. DOMAIN f = 1 .. n
    BY <1>3
  <2> QED
    BY <1>3, <1>4, <2>1 DEF Injection, IsInjective
<1>6. IsFiniteSet(Chunk) /\ Cardinality(Chunk) = NChunks
  <2>1. 0 \in Int /\ NChunks - 1 \in Int
    BY <1>1
  <2>2. IsFiniteSet(0 .. NChunks - 1)
        /\ Cardinality(0 .. NChunks - 1) = IF 0 > NChunks - 1 THEN 0 ELSE NChunks - 1 - 0 + 1
    BY <2>1, FS_Interval
  <2>3. (IF 0 > NChunks - 1 THEN 0 ELSE NChunks - 1 - 0 + 1) = NChunks
    BY MMUAssumption
  <2> QED
    BY <1>1, <2>2, <2>3
<1>7. Cardinality(1 .. n) = n
  <2>1. 1 \in Int /\ n \in Int
    BY <1>1
  <2> HIDE DEF n
  <2>2. Cardinality(1 .. n) = IF 1 > n THEN 0 ELSE n - 1 + 1
    BY <2>1, FS_Interval
  <2> QED
    BY <1>1, <2>2
<1>8. Cardinality(1 .. n) <= Cardinality(Chunk)
  <2> HIDE DEF f, n
  <2> QED
    BY <1>5, <1>6, FS_Injection
<1> QED
  BY <1>1, <1>6, <1>7, <1>8

\* The walk goes along the free list and stays at its end.
LEMMA WalkIs ==
  ASSUME NEW k \in Kind, NEW F, NEW q, FreeList(q, F, head[k], next[k])
  PROVE  /\ \A i \in 0 .. NChunks : i < Len(q) => Walk(k)[i] = q[i + 1]
         /\ \A i \in 0 .. NChunks : ~(i < Len(q)) => Walk(k)[i] = None
<1> DEFINE n  == Len(q)
           T  == 0 .. NChunks
           Eq(g) == g = [i \in T |-> IF i = 0 THEN head[k] ELSE IF g[i - 1] = None THEN None ELSE next[k][g[i - 1]]]
           Right(g, i) == /\ i < n => g[i] = q[i + 1]
                          /\ ~(i < n) => g[i] = None
           w  == [i \in T |-> IF i < n THEN q[i + 1] ELSE None]
<1>1. n \in Nat /\ n >= 1 /\ NChunks \in Nat /\ n <= NChunks
  <2>1. n \in Nat /\ n <= NChunks
    BY ListShort
  <2> QED
    BY <2>1, Chunks DEF FreeList
<1>2. /\ head[k] = q[1] /\ q[n] = NChunks - 1 /\ next[k][NChunks - 1] = None
      /\ \A i \in 1 .. n : i + 1 <= n => next[k][q[i]] = q[i + 1]
      /\ \A i \in 1 .. n : q[i] # None
  BY Chunks DEF FreeList
<1>3. ASSUME NEW g, NEW i \in T, i # 0, Right(g, i - 1)
      PROVE  LET z == IF g[i - 1] = None THEN None ELSE next[k][g[i - 1]]
             IN  (i < n => z = q[i + 1]) /\ (~(i < n) => z = None)
  <2>1. i - 1 \in T /\ i \in Nat /\ i - 1 \in Nat /\ i - 1 + 1 = i
    BY <1>1, <1>3
  <2>2. CASE i < n
    <3>1. i \in 1 .. n /\ i + 1 <= n /\ i - 1 < n
      BY <1>1, <1>3, <2>1, <2>2
    <3>2. g[i - 1] = q[i]
      BY <1>3, <2>1, <3>1
    <3> QED
      BY <1>2, <2>2, <3>1, <3>2
  <2>3. CASE i = n
    <3>1. i \in 1 .. n /\ i - 1 < n
      BY <1>1, <2>1, <2>3
    <3>2. g[i - 1] = q[n]
      BY <1>3, <2>1, <2>3, <3>1
    <3>3. ~(i < n)
      BY <1>1, <2>3
    <3> QED
      BY <1>2, <2>3, <3>1, <3>2, <3>3
  <2>4. CASE i > n
    <3>1. ~(i - 1 < n) /\ ~(i < n)
      BY <1>1, <2>1, <2>4
    <3> QED
      BY <1>3, <3>1
  <2> QED
    BY <1>1, <2>1, <2>2, <2>3, <2>4
<1>4. Right(w, 0) /\ \A i \in T : Right(w, i)
  <2>1. 0 \in T
    BY <1>1
  <2> QED
    BY <2>1
<1>5. Eq(w)
  <2>1. \A i \in T : i # 0 => i - 1 \in T
    BY <1>1
  <2>2. 0 \in T /\ 0 < n
    BY <1>1
  <2>3. ASSUME NEW i \in T
        PROVE  w[i] = IF i = 0 THEN head[k] ELSE IF w[i - 1] = None THEN None ELSE next[k][w[i - 1]]
    <3>1. CASE i = 0
      BY <1>1, <1>2, <2>2, <3>1
    <3>2. CASE i # 0
      <4>1. Right(w, i) /\ Right(w, i - 1)
        BY <1>4, <2>1, <3>2
      <4> HIDE DEF w
      <4>2. LET z == IF w[i - 1] = None THEN None ELSE next[k][w[i - 1]]
            IN  (i < n => z = q[i + 1]) /\ (~(i < n) => z = None)
        BY <1>3, <3>2, <4>1
      <4> QED
        BY <3>2, <4>1, <4>2
    <3> QED
      BY <3>1, <3>2
  <2> QED
    BY <2>3
<1>6. Walk(k) = CHOOSE g : Eq(g)
  BY DEF Walk
<1>7. Eq(Walk(k))
  <2> HIDE DEF Eq, w
  <2> QED
    BY <1>5, <1>6
<1> DEFINE g == Walk(k)
<1>8. /\ g[0] = head[k]
      /\ \A i \in T : i # 0 => g[i] = IF g[i - 1] = None THEN None ELSE next[k][g[i - 1]]
  <2>1. 0 \in T
    BY <1>1
  <2> HIDE DEF g
  <2>2. Eq(g)
    BY <1>7 DEF g
  <2> QED
    BY <2>1, <2>2
<1> HIDE DEF g, Right, w, Eq
<1>9. \A i \in T : Right(g, i)
  <2> DEFINE A == {i \in T : ~Right(g, i)}
  <2>1. SUFFICES ASSUME A # {} PROVE FALSE
    OBVIOUS
  <2>2. PICK i \in A : \A y \in A : i <= y
    <3>1. A \subseteq Nat
      BY <1>1
    <3> HIDE DEF A
    <3> QED
      BY <2>1, <3>1, LeastNat
  <2>3. i \in T /\ ~Right(g, i)
    OBVIOUS
  <2>4. i # 0
    <3>1. Right(g, 0)
      BY <1>1, <1>2, <1>8 DEF Right
    <3> QED
      BY <2>3, <3>1
  <2>5. i - 1 \in T /\ ~(i <= i - 1)
    BY <1>1, <2>3, <2>4
  <2>6. Right(g, i - 1)
    BY <2>2, <2>5
  <2>7. LET z == IF g[i - 1] = None THEN None ELSE next[k][g[i - 1]]
        IN  (i < n => z = q[i + 1]) /\ (~(i < n) => z = None)
    BY <1>3, <2>3, <2>4, <2>6
  <2>8. Right(g, i)
    BY <1>8, <2>3, <2>4, <2>7 DEF Right
  <2> QED
    BY <2>3, <2>8
<1> QED
  BY <1>9 DEF Right, g

\* A buffer the driver knows of is in a bucket or is the current one.
LEMMA HeldIs ==
  ASSUME BaseInv, NEW k \in Kind
  PROVE  \A h : h \in Held(k) <=>
           \/ \E v \in Pages(k) : \E i \in 1 .. Len(sbuff[v]) : h = <<"s", v, i>>
           \/ \E v \in Pages(k) : \E i \in 1 .. Len(lbuff[v]) : h = <<"l", v, i>>
           \/ k = "large" /\ curr # None /\ h = <<"curr", curr.host, 1>>
<1>1. \A v \in Pages(k) : DOMAIN sbuff[v] = 1 .. Len(sbuff[v]) /\ DOMAIN lbuff[v] = 1 .. Len(lbuff[v])
  <2>1. \A v \in Pages(k) : sbuff[v] \in Seq(Entry) /\ lbuff[v] \in Seq(Entry)
    BY PageKinds DEF BaseInv, Buckets
  <2> QED
    BY <2>1
<1>2. \A a, v, D, h : h \in {a} \X {v} \X D <=> \E i \in D : h = <<a, v, i>>
  OBVIOUS
<1> DEFINE In(v) == ({"s"} \X {v} \X DOMAIN sbuff[v]) \cup ({"l"} \X {v} \X DOMAIN lbuff[v])
           Cur == IF k = "large" /\ curr # None THEN {<<"curr", curr.host, 1>>} ELSE {}
           All == UNION {In(v) : v \in Pages(k)}
<1>3. Held(k) = All \cup Cur
  BY DEF Held, Pages
<1>4. \A h : h \in Cur <=> k = "large" /\ curr # None /\ h = <<"curr", curr.host, 1>>
  OBVIOUS
<1>5. \A v \in Pages(k) : \A h : h \in In(v) <=> \/ \E i \in 1 .. Len(sbuff[v]) : h = <<"s", v, i>>
                                                 \/ \E i \in 1 .. Len(lbuff[v]) : h = <<"l", v, i>>
  <2> TAKE v \in Pages(k)
  <2> TAKE h
  <2>1. h \in {"s"} \X {v} \X DOMAIN sbuff[v] <=> \E i \in 1 .. Len(sbuff[v]) : h = <<"s", v, i>>
    BY <1>1, <1>2
  <2>2. h \in {"l"} \X {v} \X DOMAIN lbuff[v] <=> \E i \in 1 .. Len(lbuff[v]) : h = <<"l", v, i>>
    BY <1>1, <1>2
  <2> QED
    BY <2>1, <2>2
<1> HIDE DEF In, Cur
<1>6. \A h : h \in All <=> \E v \in Pages(k) : h \in In(v)
  BY Zenon
<1> HIDE DEF All
<1>7. \A h : h \in Held(k) <=> h \in All \/ h \in Cur
  BY <1>3
<1> QED
  BY <1>4, <1>5, <1>6, <1>7

LEMMA CardOfIs ==
  /\ \A v, i : CardOf(<<"s", v, i>>) = sbuff[v][i].card
  /\ \A v, i : CardOf(<<"l", v, i>>) = lbuff[v][i].card
  /\ \A x : CardOf(<<"curr", x, 1>>) = curr.card
  BY DEF CardOf

\* With every chunk at its place, the free list and the buffers split the memory.
LEMMA Partitioned ==
  ASSUME BaseInv, NEW k \in Kind, Acct(k)
  PROVE  /\ Walk(k)[NChunks] = None
         /\ \A g, h \in Held(k) : CardOf(g) = CardOf(h) => g = h
         /\ {CardOf(h) : h \in Held(k)} \cap Free(k) = {}
         /\ {CardOf(h) : h \in Held(k)} \cup Free(k) = Chunk
<1>1. PICK own : /\ Owned(own, k, sbuff, lbuff, curr, used[k])
                 /\ \E q : FreeList(q, At(own, FreePlace), head[k], next[k])
  BY DEF Acct, Accounted
<1>2. PICK q : FreeList(q, At(own, FreePlace), head[k], next[k])
  BY <1>1
<1> DEFINE n == Len(q)
<1>3. n \in Nat /\ NChunks \in Nat /\ n <= NChunks /\ NChunks \in 0 .. NChunks /\ ~(NChunks < n)
  <2>1. n \in Nat /\ n <= NChunks
    BY <1>2, ListShort
  <2> QED
    BY <2>1, Chunks
<1>4. /\ \A i \in 0 .. NChunks : i < n => Walk(k)[i] = q[i + 1]
      /\ \A i \in 0 .. NChunks : ~(i < n) => Walk(k)[i] = None
  BY <1>2, WalkIs
<1>5. Walk(k)[NChunks] = None
  BY <1>3, <1>4
<1>6. Free(k) = At(own, FreePlace)
  <2>1. /\ \A i \in 1 .. n : q[i] \in At(own, FreePlace)
        /\ \A c \in At(own, FreePlace) : \E i \in 1 .. n : q[i] = c
    BY <1>2 DEF FreeList
  <2>2. At(own, FreePlace) \subseteq Chunk /\ None \notin Chunk
    BY Chunks DEF At
  <2>3. \A c : c \in Free(k) <=> c # None /\ \E i \in 0 .. NChunks : c = Walk(k)[i]
    BY DEF Free
  <2>4. ASSUME NEW c \in Free(k) PROVE c \in At(own, FreePlace)
    <3>1. PICK i \in 0 .. NChunks : c = Walk(k)[i] /\ c # None
      BY <2>3, <2>4
    <3>2. i < n
      BY <1>4, <3>1
    <3>3. i + 1 \in 1 .. n
      BY <1>3, <3>2
    <3> QED
      BY <1>4, <2>1, <3>1, <3>2, <3>3
  <2>5. ASSUME NEW c \in At(own, FreePlace) PROVE c \in Free(k)
    <3>1. PICK j \in 1 .. n : q[j] = c
      BY <2>1
    <3>2. j - 1 \in 0 .. NChunks /\ j - 1 < n /\ j - 1 + 1 = j
      BY <1>3, <3>1
    <3>3. Walk(k)[j - 1] = c
      BY <1>4, <3>1, <3>2
    <3> QED
      BY <2>2, <2>3, <3>2, <3>3
  <2> QED
    BY <2>4, <2>5
<1>7. /\ own \in [Chunk -> Places(k)]
      /\ \A v \in Pages(k) : Holds(sbuff[v], At(own, SPlace(v))) /\ Holds(lbuff[v], At(own, LPlace(v)))
      /\ At(own, CurrPlace) = IF k = "large" /\ curr # None THEN {curr.card} ELSE {}
  BY <1>1 DEF Owned
<1>8. \A z, c : c \in At(own, z) <=> c \in Chunk /\ own[c] = z
  BY DEF At
<1> DEFINE IsS(h) == \E v \in Pages(k) : \E i \in 1 .. Len(sbuff[v]) : h = <<"s", v, i>>
           IsL(h) == \E v \in Pages(k) : \E i \in 1 .. Len(lbuff[v]) : h = <<"l", v, i>>
           IsC(h) == k = "large" /\ curr # None /\ h = <<"curr", curr.host, 1>>
<1>9. \A h : h \in Held(k) <=> IsS(h) \/ IsL(h) \/ IsC(h)
  BY HeldIs
<1>10. ASSUME NEW v \in Pages(k), NEW i \in 1 .. Len(sbuff[v])
       PROVE  CardOf(<<"s", v, i>>) \in Chunk /\ own[CardOf(<<"s", v, i>>)] = SPlace(v)
  BY <1>7, <1>8, <1>10, CardOfIs DEF Holds
<1>11. ASSUME NEW v \in Pages(k), NEW i \in 1 .. Len(lbuff[v])
       PROVE  CardOf(<<"l", v, i>>) \in Chunk /\ own[CardOf(<<"l", v, i>>)] = LPlace(v)
  BY <1>7, <1>8, <1>11, CardOfIs DEF Holds
<1>12. ASSUME k = "large", curr # None
       PROVE  CardOf(<<"curr", curr.host, 1>>) \in Chunk /\ own[CardOf(<<"curr", curr.host, 1>>)] = CurrPlace
  BY <1>7, <1>8, <1>12, CardOfIs
<1>13. \A h \in Held(k) : /\ CardOf(h) \in Chunk /\ own[CardOf(h)] # FreePlace
                          /\ IsC(h) => own[CardOf(h)] = CurrPlace
  <2> TAKE h \in Held(k)
  <2>1. CASE IsS(h)
    BY <2>1, <1>10, PlacesDiffer
  <2>2. CASE IsL(h)
    BY <2>2, <1>11, PlacesDiffer
  <2>3. CASE IsC(h)
    BY <2>3, <1>12, PlacesDiffer
  <2> QED
    BY <1>9, <2>1, <2>2, <2>3
<1>14. ASSUME NEW g \in Held(k), NEW h \in Held(k), CardOf(g) = CardOf(h), IsS(g) PROVE g = h
  <2>1. PICK v \in Pages(k) : \E i \in 1 .. Len(sbuff[v]) : g = <<"s", v, i>>
    BY <1>14
  <2>2. PICK i \in 1 .. Len(sbuff[v]) : g = <<"s", v, i>>
    BY <2>1
  <2>3. own[CardOf(h)] = SPlace(v)
    BY <1>10, <1>14, <2>2
  <2>4. IsS(h)
    <3>1. ~IsL(h)
      BY <1>11, <2>3, PlacesDiffer
    <3>2. ~IsC(h)
      BY <1>12, <2>3, PlacesDiffer
    <3> QED
      BY <1>9, <3>1, <3>2
  <2>5. PICK u \in Pages(k) : \E j \in 1 .. Len(sbuff[u]) : h = <<"s", u, j>>
    BY <2>4
  <2>6. PICK j \in 1 .. Len(sbuff[u]) : h = <<"s", u, j>>
    BY <2>5
  <2>7. u = v
    BY <1>10, <2>3, <2>6, PlacesDiffer
  <2>8. sbuff[v][i].card = sbuff[v][j].card
    BY <1>14, <2>2, <2>6, <2>7, CardOfIs
  <2>9. i = j
    BY <1>7, <2>6, <2>7, <2>8 DEF Holds
  <2> QED
    BY <2>2, <2>6, <2>7, <2>9
<1>15. ASSUME NEW g \in Held(k), NEW h \in Held(k), CardOf(g) = CardOf(h), IsL(g) PROVE g = h
  <2>1. PICK v \in Pages(k) : \E i \in 1 .. Len(lbuff[v]) : g = <<"l", v, i>>
    BY <1>15
  <2>2. PICK i \in 1 .. Len(lbuff[v]) : g = <<"l", v, i>>
    BY <2>1
  <2>3. own[CardOf(h)] = LPlace(v)
    BY <1>11, <1>15, <2>2
  <2>4. IsL(h)
    <3>1. ~IsS(h)
      BY <1>10, <2>3, PlacesDiffer
    <3>2. ~IsC(h)
      BY <1>12, <2>3, PlacesDiffer
    <3> QED
      BY <1>9, <3>1, <3>2
  <2>5. PICK u \in Pages(k) : \E j \in 1 .. Len(lbuff[u]) : h = <<"l", u, j>>
    BY <2>4
  <2>6. PICK j \in 1 .. Len(lbuff[u]) : h = <<"l", u, j>>
    BY <2>5
  <2>7. u = v
    BY <1>11, <2>3, <2>6, PlacesDiffer
  <2>8. lbuff[v][i].card = lbuff[v][j].card
    BY <1>15, <2>2, <2>6, <2>7, CardOfIs
  <2>9. i = j
    BY <1>7, <2>6, <2>7, <2>8 DEF Holds
  <2> QED
    BY <2>2, <2>6, <2>7, <2>9
<1>16. ASSUME NEW g \in Held(k), NEW h \in Held(k), CardOf(g) = CardOf(h), IsC(g) PROVE g = h
  <2>1. own[CardOf(h)] = CurrPlace
    BY <1>13, <1>16
  <2>2. ~IsS(h)
    BY <1>10, <2>1, PlacesDiffer
  <2>3. ~IsL(h)
    BY <1>11, <2>1, PlacesDiffer
  <2> QED
    BY <1>9, <1>16, <2>2, <2>3
<1>17. \A g, h \in Held(k) : CardOf(g) = CardOf(h) => g = h
  BY <1>9, <1>14, <1>15, <1>16
<1>18. ASSUME NEW c \in Chunk, own[c] # FreePlace PROVE \E h \in Held(k) : CardOf(h) = c
  <2>1. own[c] \in Places(k)
    BY <1>7
  <2>2. ASSUME NEW v \in Pages(k), own[c] = SPlace(v) PROVE \E h \in Held(k) : CardOf(h) = c
    <3>1. PICK i \in 1 .. Len(sbuff[v]) : sbuff[v][i].card = c
      BY <1>7, <1>8, <2>2 DEF Holds
    <3>2. <<"s", v, i>> \in Held(k)
      BY <1>9
    <3> QED
      BY <3>1, <3>2, CardOfIs
  <2>3. ASSUME NEW v \in Pages(k), own[c] = LPlace(v) PROVE \E h \in Held(k) : CardOf(h) = c
    <3>1. PICK i \in 1 .. Len(lbuff[v]) : lbuff[v][i].card = c
      BY <1>7, <1>8, <2>3 DEF Holds
    <3>2. <<"l", v, i>> \in Held(k)
      BY <1>9
    <3> QED
      BY <3>1, <3>2, CardOfIs
  <2>4. ASSUME own[c] = CurrPlace PROVE \E h \in Held(k) : CardOf(h) = c
    <3>1. c \in At(own, CurrPlace)
      BY <1>8, <2>4
    <3>2. k = "large" /\ curr # None /\ c = curr.card
      BY <1>7, <3>1
    <3>3. <<"curr", curr.host, 1>> \in Held(k)
      BY <1>9, <3>2
    <3> QED
      BY <3>2, <3>3, CardOfIs
  <2> QED
    BY <1>18, <2>1, <2>2, <2>3, <2>4 DEF Places
<1> HIDE DEF IsS, IsL, IsC
<1>19. {CardOf(h) : h \in Held(k)} \cap Free(k) = {}
  BY <1>6, <1>8, <1>13
<1>20. {CardOf(h) : h \in Held(k)} \cup Free(k) = Chunk
  BY <1>6, <1>8, <1>13, <1>18
<1> QED
  BY <1>5, <1>17, <1>19, <1>20

\* Card memory is neither lost nor given twice: the free list that card_alloc
\* takes from and card_free gives to ends, and every chunk is on it or held by
\* exactly one buffer of the driver, until the unnumbered last chunk is handed
\* out or an mmap fails half way.
THEOREM CardMemoryKept == Spec => []CardPartition
<1>1. BaseInv /\ CardInv => CardPartition
  BY Partitioned DEF CardInv, CardPartition
<1> QED
  BY <1>1, BaseInductive, CardInit, CardStep, PTL DEF Spec
=============================================================================
