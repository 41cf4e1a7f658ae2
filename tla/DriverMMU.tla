------------------------------ MODULE DriverMMU ------------------------------
(***************************************************************************)
(* User memory of one vFPGA: how the driver pins or allocates host pages,  *)
(* takes card memory for them, fills the TLBs and takes everything back    *)
(* (driver/fpga_mmu.c, fpga_fops.c, fpga_isr.c, fpga_dev.c), and how       *)
(* cProcess uses it (sw/src/cProcess.cpp).                                 *)
(*                                                                         *)
(* An address stands for one page; the pages of Huge are 2 MB pages, with  *)
(* a TLB and a card allocator of their own.  A process makes one cProcess; *)
(* the cpids are those before the last chunk of the table, whose handling  *)
(* is the subject of DriverPid.                                            *)
(*                                                                         *)
(* The card allocators link their chunks through `next`; the model keeps   *)
(* the links, because a chunk can come to be linked twice.  The buckets of *)
(* the page hashes are sequences, newest entry first; hash_del unlinks the *)
(* entry a walk stands on, and ends the walk of that bucket.               *)
(***************************************************************************)
EXTENDS Naturals, Sequences, SequencesExt, FiniteSets

CONSTANTS
  Proc,        \* processes, each with one cProcess
  Small,       \* addresses of 4 KB pages
  Huge,        \* addresses of 2 MB pages
  MaxCpid,     \* cpids are 0 .. MaxCpid
  NChunks,     \* N_SMALL_CHUNKS and N_LARGE_CHUNKS
  MaxMaps,     \* bound: calls of userMap
  MaxBuf,      \* bound: driver-allocated buffers
  MaxCmds,     \* bound: commands sent to the vFPGA and entries its TLB drops
  CanDie,      \* a process may end without its destructor
  None

Vaddr == Small \cup Huge
Cpid  == 0 .. MaxCpid
Chunk == 0 .. NChunks - 1
Kind  == {"small", "large"}
KindOf(v) == IF v \in Huge THEN "large" ELSE "small"

ASSUME MMUAssumption ==
  /\ IsFiniteSet(Proc) /\ IsFiniteSet(Small) /\ IsFiniteSet(Huge)
  /\ Small \cap Huge = {}
  /\ MaxCpid \in Nat
  /\ NChunks \in Nat /\ NChunks >= 2
  /\ MaxMaps \in Nat /\ MaxBuf \in Nat /\ MaxCmds \in Nat
  /\ CanDie \in BOOLEAN
  /\ None \notin Nat /\ None \notin Proc

VARIABLES
  st,        \* none, live, unreg (in the destructor), dying or closed
  cpid,      \* the cpid each process was given
  pid_alloc, \* the free cpids, the next one to be given first
  pid_array, \* the process registered for each cpid
  mem,       \* addresses a process has memory at: how it was obtained
  upages,    \* mapped_upages of each cProcess
  sbuff,     \* user_sbuff_map: pinned pages
  lbuff,     \* user_lbuff_map: driver-allocated buffers
  curr,      \* curr_user_buff: allocated, not yet mapped
  mlock,     \* who holds the named mutex mlock
  nmaps,     \* calls of userMap so far
  nbuf,      \* driver-allocated buffers so far
  head,      \* salloc, lalloc
  next,      \* chunks[.].next
  used,      \* chunks[.].used
  tlb,       \* sTlb and lTlb
  cmds,      \* commands the vFPGA has not completed
  ncmds,     \* commands sent and entries dropped so far
  irq,       \* the fault engine: running, faulted on a command, or stuck on it
  oops,      \* the kernel dereferenced a null pointer
  alone,     \* history: no two processes were registered together
  untidy,    \* history: an address was mapped twice, or memory or a cpid given
             \* back with a command on it still in the vFPGA
  lost,      \* history: an mmap failed
  spent      \* history: the unnumbered last chunk was handed out

procVars == <<st, cpid, pid_alloc, pid_array, mem, upages, nmaps>>
buffVars == <<curr, mlock, nbuf>>
cardVars == <<head, next, used, spent>>
hwVars   == <<cmds, ncmds, irq>>
vars == <<procVars, sbuff, lbuff, buffVars, cardVars, tlb, hwVars, oops, alone, untidy, lost>>

Host   == [proc : Proc, vaddr : Vaddr] \cup [buf : 1 .. MaxBuf]
Paddr  == [host : Host, card : Chunk]
Entry  == [cpid : Cpid, host : Host, card : Chunk]

\* None is neither a translation nor a hash entry.
ASSUME NoneAssumption == None \notin Paddr /\ None \notin Entry

TypeOK ==
  /\ st \in [Proc -> {"none", "live", "unreg", "dying", "closed"}]
  /\ cpid \in [Proc -> Cpid]
  /\ pid_alloc \in Seq(Cpid)
  /\ pid_array \in [Cpid -> Proc \cup {None}]
  /\ mem \in [Proc -> [Vaddr -> {"no", "user", "freed", "buff"}]]
  /\ upages \in [Proc -> SUBSET Vaddr]
  /\ sbuff \in [Vaddr -> Seq(Entry)] /\ lbuff \in [Vaddr -> Seq(Entry)]
  /\ curr \in Entry \cup {None}
  /\ mlock \in Proc \cup {None}
  /\ nbuf \in 0 .. MaxBuf /\ nmaps \in 0 .. MaxMaps
  /\ head \in [Kind -> Chunk \cup {None}]
  /\ next \in [Kind -> [Chunk -> Chunk \cup {None}]]
  /\ used \in [Kind -> [Chunk -> BOOLEAN]]
  /\ tlb \in [Vaddr \X Cpid -> Paddr \cup {None}]
  /\ cmds \subseteq Vaddr \X Cpid
  /\ ncmds \in 0 .. MaxCmds
  /\ irq \in [state : {"run"}] \cup [state : {"fault", "stuck"}, cmd : Vaddr \X Cpid]
  /\ {oops, alone, untidy, lost, spent} \subseteq BOOLEAN

\* Every chunk but the last is numbered, and linked to the one after it.
alloc_card_resources ==
  /\ head = [k \in Kind |-> 0]
  /\ next = [k \in Kind |-> [c \in Chunk |-> IF c = NChunks - 1 THEN None ELSE c + 1]]
  /\ used = [k \in Kind |-> [c \in Chunk |-> FALSE]]
  /\ spent = FALSE

\* Mutant: chunks are numbered from 1.
ChunkIdFromOne(c) == IF c = NChunks - 1 THEN 0 ELSE c + 2

\* chunks[.].id
ChunkId(c) == IF c = NChunks - 1 THEN 0 ELSE c

Init ==
  /\ st = [p \in Proc |-> "none"]
  /\ cpid = [p \in Proc |-> 0]
  /\ pid_alloc = [i \in 1 .. MaxCpid + 1 |-> i - 1]
  /\ pid_array = [k \in Cpid |-> None]
  /\ mem = [p \in Proc |-> [v \in Vaddr |-> "no"]]
  /\ upages = [p \in Proc |-> {}]
  /\ sbuff = [v \in Vaddr |-> <<>>] /\ lbuff = [v \in Vaddr |-> <<>>]
  /\ curr = None /\ mlock = None /\ nbuf = 0 /\ nmaps = 0
  /\ alloc_card_resources
  /\ tlb = [x \in Vaddr \X Cpid |-> None]
  /\ cmds = {} /\ ncmds = 0 /\ irq = [state |-> "run"]
  /\ oops = FALSE /\ alone = TRUE /\ untidy = FALSE /\ lost = FALSE
-----------------------------------------------------------------------------
(* Card memory. *)

\* card_alloc of one page.  num_free_chunks is never decremented, so that its
\* test never fails.
card_alloc(k) ==
  /\ head[k] # None
  /\ used' = [used EXCEPT ![k][head[k]] = TRUE]
  /\ head' = [head EXCEPT ![k] = next[k][@]]
  /\ spent' = (spent \/ head[k] = NChunks - 1)
  /\ UNCHANGED next

\* Mutant: the chunk becomes the head before its link is set.
card_freeHeadFirst(k, c) ==
  /\ head' = [head EXCEPT ![k] = IF used[k][c] THEN c ELSE @]
  /\ next' = [next EXCEPT ![k][c] = IF used[k][c] THEN head'[k] ELSE @]
  /\ UNCHANGED <<used, spent>>

\* The links after freeing chunk id c of kind k; `used` is left set.
card_free(k, c) ==
  /\ head' = [head EXCEPT ![k] = IF used[k][c] THEN c ELSE @]
  /\ next' = [next EXCEPT ![k][c] = IF used[k][c] THEN head[k] ELSE @]
  /\ UNCHANGED <<used, spent>>
-----------------------------------------------------------------------------
(* The TLBs. *)

\* The words that enter a page, or take it out, under a cpid.
tlb_create_map(v, k, e) == [at |-> <<v, k>>, to |-> [host |-> e.host, card |-> e.card]]
tlb_create_unmap(v, k)  == [at |-> <<v, k>>, to |-> None]

\* The TLB of the page size takes all words of a map array.
tlb_service_dev(words) ==
  tlb' = [x \in Vaddr \X Cpid |->
            IF \E w \in words : w.at = x THEN (CHOOSE w \in words : w.at = x).to ELSE tlb[x]]
-----------------------------------------------------------------------------
(* Pinned user pages. *)

Registered == {p \in Proc : st[p] \in {"live", "unreg", "dying"}}

\* What get_user_pages finds in a process: memory of its own, also after
\* free().  Pages that fpga_mmap remapped are not backed by struct pages.
Pinnable(p, v) == st[p] \in {"live", "unreg"} /\ mem[p][v] \in {"user", "freed"}

\* Some command of the process is in the vFPGA.
Busy(p) == \E x \in cmds : x[2] = cpid[p]

\* free() may leave 4 KB pages in the address space; munmap does not.
FreedMem(p, v) ==
  mem' = [mem EXCEPT ![p][v] = IF v \in Small THEN "freed" ELSE "no"]

\* The tail of tlb_get_user_pages: card memory, the TLB entry, the hash entry.
\* user_pg comes from kzalloc and its cpid is never set.
MapPage(v, k, p) ==
  LET entry == [cpid |-> 0, host |-> [proc |-> p, vaddr |-> v],
                card |-> ChunkId(head[KindOf(v)])]
  IN  /\ card_alloc(KindOf(v))
      /\ tlb_service_dev({tlb_create_map(v, k, entry)})
      /\ sbuff' = [sbuff EXCEPT ![v] = <<entry>> \o @]
      /\ untidy' = (untidy \/ sbuff[v] # <<>>)

\* tlb_get_user_pages for the process registered for k: a process that has
\* ended has no address space, and an empty card list no head.
tlb_get_user_pages(v, k) ==
  LET p == pid_array[k]
  IN  \/ /\ Pinnable(p, v) /\ head[KindOf(v)] # None
         /\ MapPage(v, k, p)
         /\ UNCHANGED oops
      \/ /\ st[p] \in {"live", "unreg"} /\ ~Pinnable(p, v)
         /\ UNCHANGED <<cardVars, tlb, sbuff, untidy, oops>>
      \/ /\ st[p] \in {"dying", "closed"} \/ (Pinnable(p, v) /\ head[KindOf(v)] = None)
         /\ oops' = TRUE
         /\ UNCHANGED <<cardVars, tlb, sbuff, untidy>>

\* The walk over a bucket: the newest entry with cpid k, or 0.
Newest(bucket, k) == SelectInSeq(bucket, LAMBDA e : e.cpid = k)

\* Mutant: the pages are released and the translation stays.
tlb_put_user_pagesKeepsTlb(v, k) ==
  LET i == Newest(sbuff[v], k)
  IN  IF i = 0 THEN UNCHANGED <<cardVars, tlb, sbuff>>
      ELSE /\ card_free(KindOf(v), sbuff[v][i].card)
           /\ sbuff' = [sbuff EXCEPT ![v] = RemoveAt(@, i)]
           /\ UNCHANGED tlb

\* tlb_put_user_pages: the newest entry at v that carries cpid k.
tlb_put_user_pages(v, k) ==
  LET i == Newest(sbuff[v], k)
  IN  IF i = 0 THEN UNCHANGED <<cardVars, tlb, sbuff>>
      ELSE /\ card_free(KindOf(v), sbuff[v][i].card)
           /\ tlb_service_dev({tlb_create_unmap(v, k)})
           /\ sbuff' = [sbuff EXCEPT ![v] = RemoveAt(@, i)]

\* The chunks of kind kd that tlb_put_user_pages_cpid gives back, in the order
\* of the buckets.
Returned(kd, k) ==
  LET card(v) == sbuff[v][Newest(sbuff[v], k)].card
      order   == SetToSeq({v \in Vaddr : /\ KindOf(v) = kd /\ Newest(sbuff[v], k) # 0
                                         /\ used[kd][card(v)]})
  IN  [i \in 1 .. Len(order) |-> card(order[i])]

\* card_free of one chunk after the other: each is linked to the one before.
FreedHead(kd, ids) == IF ids = <<>> THEN head[kd] ELSE ids[Len(ids)]
FreedNext(kd, ids) ==
  [c \in Chunk |-> LET i == SelectLastInSeq(ids, LAMBDA d : d = c)
                   IN  CASE i = 0 -> next[kd][c]
                         [] i = 1 -> head[kd]
                         [] OTHER -> ids[i - 1]]

\* tlb_put_user_pages_cpid: the newest entry with cpid k of every bucket.  A
\* bucket holds one address here.
tlb_put_user_pages_cpid(k) ==
  LET hit == {v \in Vaddr : Newest(sbuff[v], k) # 0}
  IN  /\ head' = [kd \in Kind |-> FreedHead(kd, Returned(kd, k))]
      /\ next' = [kd \in Kind |-> FreedNext(kd, Returned(kd, k))]
      /\ tlb_service_dev({tlb_create_unmap(v, k) : v \in hit})
      /\ sbuff' = [v \in Vaddr |-> IF v \in hit THEN RemoveAt(sbuff[v], Newest(sbuff[v], k))
                                   ELSE sbuff[v]]
      /\ UNCHANGED <<used, spent>>
-----------------------------------------------------------------------------
(* The cProcess and its ioctls. *)

\* The constructor: open and IOCTL_REGISTER_PID.
Construct(p) ==
  /\ ~oops /\ st[p] = "none" /\ pid_alloc # <<>>
  /\ cpid' = [cpid EXCEPT ![p] = Head(pid_alloc)]
  /\ pid_array' = [pid_array EXCEPT ![Head(pid_alloc)] = p]
  /\ pid_alloc' = Tail(pid_alloc)
  /\ st' = [st EXCEPT ![p] = "live"]
  /\ alone' = (alone /\ Registered = {})
  /\ UNCHANGED <<nmaps, mem, upages, sbuff, lbuff, buffVars, cardVars, tlb, hwVars, oops, untidy, lost>>

\* userMap of memory got from memalign or mmap, as getMem does it.  The ioctl
\* reports success whatever tlb_get_user_pages returns.
userMap(p, v) ==
  /\ ~oops /\ st[p] = "live" /\ mlock # p
  /\ mem[p][v] # "buff" /\ nmaps < MaxMaps
  /\ nmaps' = nmaps + 1
  /\ mem' = [mem EXCEPT ![p][v] = "user"]
  /\ IF head[KindOf(v)] = None
     THEN /\ oops' = TRUE
          /\ UNCHANGED <<upages, cardVars, tlb, sbuff, untidy>>
     ELSE /\ MapPage(v, cpid[p], p)
          /\ upages' = [upages EXCEPT ![p] = @ \cup {v}]
          /\ UNCHANGED oops
  /\ UNCHANGED <<st, cpid, pid_alloc, pid_array, lbuff, buffVars, hwVars, alone, lost>>

\* freeMem of such memory: userUnmap, then free or munmap.  mapped_upages keeps
\* the address.
freeUser(p, v) ==
  /\ ~oops /\ st[p] = "live" /\ mlock # p
  /\ mem[p][v] = "user" /\ v \in upages[p]
  /\ tlb_put_user_pages(v, cpid[p])
  /\ FreedMem(p, v)
  /\ untidy' = (untidy \/ Busy(p))
  /\ UNCHANGED <<nmaps, st, cpid, pid_alloc, pid_array, upages, lbuff, buffVars, hwVars, oops, alone, lost>>

\* Mutant: getMem does not take mlock.
alloc_user_buffersNoLock(p) ==
  /\ ~oops /\ st[p] = "live"
  /\ mlock' = p
  /\ IF curr # None
     THEN UNCHANGED <<curr, nbuf, cardVars, oops>>
     ELSE /\ nbuf < MaxBuf /\ head["large"] # None
          /\ nbuf' = nbuf + 1
          /\ curr' = [cpid |-> cpid[p], host |-> [buf |-> nbuf + 1],
                      card |-> ChunkId(head["large"])]
          /\ card_alloc("large")
          /\ UNCHANGED oops
  /\ UNCHANGED <<procVars, sbuff, lbuff, tlb, hwVars, alone, untidy, lost>>

\* getMem(HOST_2M): mLock and IOCTL_ALLOC_HOST_USER_MEM.  A buffer that nobody
\* mapped makes the ioctl do nothing, and report success.
alloc_user_buffers(p) ==
  /\ ~oops /\ st[p] = "live" /\ mlock = None
  /\ mlock' = p
  /\ IF curr # None
     THEN UNCHANGED <<curr, nbuf, cardVars, oops>>
     ELSE /\ nbuf < MaxBuf
          /\ IF head["large"] = None
             THEN oops' = TRUE /\ UNCHANGED <<curr, nbuf, cardVars>>
             ELSE /\ nbuf' = nbuf + 1
                  /\ curr' = [cpid |-> cpid[p], host |-> [buf |-> nbuf + 1],
                              card |-> ChunkId(head["large"])]
                  /\ card_alloc("large")
                  /\ UNCHANGED oops
  /\ UNCHANGED <<procVars, sbuff, lbuff, tlb, hwVars, alone, untidy, lost>>

\* The mmap of getMem, at a new address: the buffer goes into the hash and the
\* TLB under the cpid it was allocated for; mUnlock.
fpga_mmap(p, v) ==
  /\ ~oops /\ st[p] = "live" /\ mlock = p
  /\ v \in Huge /\ mem[p][v] = "no"
  /\ lbuff' = [lbuff EXCEPT ![v] = <<curr>> \o @]
  /\ tlb_service_dev({tlb_create_map(v, curr.cpid, curr)})
  /\ mem' = [mem EXCEPT ![p][v] = "buff"]
  /\ curr' = None /\ mlock' = None
  /\ UNCHANGED <<nmaps, st, cpid, pid_alloc, pid_array, upages, sbuff, nbuf, cardVars, hwVars, oops, alone, untidy, lost>>

\* That mmap fails, before it reaches the driver or in remap_pfn_range: then
\* the entry is already in the hash.  curr_user_buff keeps the buffer.
MmapFails(p, v) ==
  /\ ~oops /\ st[p] = "live" /\ mlock = p
  /\ v \in Huge /\ mem[p][v] = "no"
  /\ lbuff' \in {lbuff, [lbuff EXCEPT ![v] = <<curr>> \o @]}
  /\ mlock' = None /\ lost' = TRUE
  /\ UNCHANGED <<procVars, sbuff, curr, nbuf, cardVars, tlb, hwVars, oops, alone, untidy>>

\* free_user_buffers: the newest buffer at v under cpid k.
free_user_buffers(v, k) ==
  LET i == Newest(lbuff[v], k)
  IN  IF i = 0 THEN UNCHANGED <<lbuff, tlb, cardVars>>
      ELSE /\ card_free("large", lbuff[v][i].card)
           /\ tlb_service_dev({tlb_create_unmap(v, k)})
           /\ lbuff' = [lbuff EXCEPT ![v] = RemoveAt(@, i)]

\* freeMem(HOST_2M), by the program or by the destructor, which has already
\* given the cpid back: mLock, munmap, IOCTL_FREE_HOST_USER_MEM, mUnlock.
freeBuff(p, v) ==
  /\ ~oops /\ st[p] \in {"live", "unreg"} /\ mlock = None
  /\ mem[p][v] = "buff"
  /\ free_user_buffers(v, cpid[p])
  /\ mem' = [mem EXCEPT ![p][v] = "no"]
  /\ UNCHANGED <<nmaps, st, cpid, pid_alloc, pid_array, upages, sbuff, buffVars, hwVars, oops, alone, untidy, lost>>

\* ~cProcess, first step: IOCTL_UNREGISTER_PID releases the pages of the cpid
\* and the cpid.
UnregisterIoctl(p) ==
  /\ ~oops /\ st[p] = "live" /\ mlock # p
  /\ tlb_put_user_pages_cpid(cpid[p])
  /\ pid_alloc' = <<cpid[p]>> \o pid_alloc
  /\ st' = [st EXCEPT ![p] = "unreg"]
  /\ untidy' = (untidy \/ Busy(p))
  /\ UNCHANGED <<nmaps, cpid, pid_array, mem, upages, lbuff, buffVars, hwVars, oops, alone, lost>>

\* ~cProcess: userUnmap of a mapped page, under the cpid it no longer owns.
DestructorUnmap(p, v) ==
  /\ ~oops /\ st[p] = "unreg" /\ v \in upages[p]
  /\ tlb_put_user_pages(v, cpid[p])
  /\ upages' = [upages EXCEPT ![p] = @ \ {v}]
  /\ IF mem[p][v] = "user" THEN FreedMem(p, v) ELSE UNCHANGED mem
  /\ UNCHANGED <<nmaps, st, cpid, pid_alloc, pid_array, lbuff, buffVars, hwVars, oops, alone, untidy, lost>>

\* close: fpga_release has no cpid of the process left to give back.
Close(p) ==
  /\ st[p] = "unreg" /\ upages[p] = {}
  /\ \A v \in Vaddr : mem[p][v] # "buff"
  /\ st' = [st EXCEPT ![p] = "closed"]
  /\ UNCHANGED <<nmaps, cpid, pid_alloc, pid_array, mem, upages, sbuff, lbuff, buffVars, cardVars, tlb, hwVars,
                 oops, alone, untidy, lost>>

\* The process ends where it stands: its address space goes first ...
Die(p) ==
  /\ CanDie /\ st[p] = "live"
  /\ st' = [st EXCEPT ![p] = "dying"]
  /\ mem' = [mem EXCEPT ![p] = [v \in Vaddr |-> "no"]]
  /\ UNCHANGED <<nmaps, cpid, pid_alloc, pid_array, upages, sbuff, lbuff, buffVars, cardVars, tlb, hwVars,
                 oops, alone, untidy, lost>>

\* Mutant: the pages of a process that died are not released.
fpga_releaseKeepsPages(p) ==
  /\ ~oops /\ st[p] = "dying"
  /\ pid_alloc' = <<cpid[p]>> \o pid_alloc
  /\ st' = [st EXCEPT ![p] = "closed"]
  /\ untidy' = (untidy \/ Busy(p))
  /\ UNCHANGED <<nmaps, cpid, pid_array, mem, upages, sbuff, lbuff, buffVars, cardVars, tlb,
                 hwVars, oops, alone, lost>>

\* ... then its files: fpga_release gives back the pages of its cpid and the
\* cpid.
fpga_release(p) ==
  /\ ~oops /\ st[p] = "dying"
  /\ tlb_put_user_pages_cpid(cpid[p])
  /\ pid_alloc' = <<cpid[p]>> \o pid_alloc
  /\ st' = [st EXCEPT ![p] = "closed"]
  /\ untidy' = (untidy \/ Busy(p))
  /\ UNCHANGED <<nmaps, cpid, pid_array, mem, upages, lbuff, buffVars, hwVars, oops, alone, lost>>
-----------------------------------------------------------------------------
(* The vFPGA. *)

\* invoke: a command on an address, tagged with the cpid.
invoke(p, v) ==
  /\ st[p] = "live" /\ mem[p][v] \in {"user", "buff"} /\ ncmds < MaxCmds
  /\ ncmds' = ncmds + 1
  /\ cmds' = cmds \cup {<<v, cpid[p]>>}
  /\ UNCHANGED <<procVars, sbuff, lbuff, buffVars, cardVars, tlb, irq, oops, alone, untidy, lost>>

\* External: the hardware translates the address of a command, and completes
\* it or raises a page fault.
Access(x) ==
  /\ x \in cmds /\ irq.state = "run"
  /\ IF tlb[x] # None
     THEN cmds' = cmds \ {x} /\ UNCHANGED irq
     ELSE irq' = [state |-> "fault", cmd |-> x] /\ UNCHANGED cmds
  /\ UNCHANGED ncmds
  /\ UNCHANGED <<procVars, sbuff, lbuff, buffVars, cardVars, tlb, oops, alone, untidy, lost>>

\* External: the TLB is a cache.  That an entry is dropped matters to the
\* commands on its address only.
Evict(x) ==
  /\ x \in cmds /\ tlb[x] # None /\ ncmds < MaxCmds
  /\ tlb' = [tlb EXCEPT ![x] = None]
  /\ ncmds' = ncmds + 1
  /\ UNCHANGED <<procVars, sbuff, lbuff, buffVars, cardVars, cmds, irq, oops, alone, untidy, lost>>

\* The fault handler; the engine is started again only if pages were mapped.
fpga_tlb_miss_isr ==
  /\ ~oops /\ irq.state = "fault"
  /\ LET v == irq.cmd[1]
         k == irq.cmd[2]
     IN  /\ tlb_get_user_pages(v, k)
         /\ irq' = IF ~oops' /\ Pinnable(pid_array[k], v) THEN [state |-> "run"]
                   ELSE [irq EXCEPT !.state = "stuck"]
  /\ UNCHANGED <<procVars, lbuff, buffVars, cmds, ncmds, alone, lost>>

Next ==
  \/ \E p \in Proc :
       \/ Construct(p) \/ alloc_user_buffers(p) \/ UnregisterIoctl(p)
       \/ Close(p) \/ Die(p) \/ fpga_release(p)
       \/ \E v \in Vaddr : \/ userMap(p, v) \/ freeUser(p, v) \/ fpga_mmap(p, v)
                           \/ MmapFails(p, v) \/ freeBuff(p, v)
                           \/ DestructorUnmap(p, v) \/ invoke(p, v)
  \/ \E x \in Vaddr \X Cpid : Access(x) \/ Evict(x)
  \/ fpga_tlb_miss_isr

Spec == Init /\ [][Next]_vars
-----------------------------------------------------------------------------
\* The buffers the driver knows of, each with the chunk it holds of a kind.
Held(k) ==
  (UNION {({"s"} \X {v} \X DOMAIN sbuff[v]) \cup ({"l"} \X {v} \X DOMAIN lbuff[v])
          : v \in {u \in Vaddr : KindOf(u) = k}})
    \cup (IF k = "large" /\ curr # None THEN {<<"curr", curr.host, 1>>} ELSE {})

CardOf(h) ==
  CASE h[1] = "s" -> sbuff[h[2]][h[3]].card
    [] h[1] = "l" -> lbuff[h[2]][h[3]].card
    [] OTHER      -> curr.card

\* The free list: where the i-th step from the head ends.
Walk(k) ==
  LET at[i \in 0 .. NChunks] ==
        IF i = 0 THEN head[k] ELSE IF at[i - 1] = None THEN None ELSE next[k][at[i - 1]]
  IN  at

Free(k) == {Walk(k)[i] : i \in 0 .. NChunks} \ {None}

\* Card memory is neither lost nor given twice, whatever sequence of maps,
\* faults, frees and deaths: the free list ends, and every chunk is on it or
\* held by one buffer.  So until the last chunk is handed out, whose id
\* alloc_card_resources leaves 0, or an mmap fails between the hash and the
\* reset of curr_user_buff.
CardPartition ==
  ~spent /\ ~lost =>
    \A k \in Kind :
      /\ Walk(k)[NChunks] = None
      /\ \A g, h \in Held(k) : CardOf(g) = CardOf(h) => g = h
      /\ {CardOf(h) : h \in Held(k)} \cap Free(k) = {}
      /\ {CardOf(h) : h \in Held(k)} \cup Free(k) = Chunk

\* Every translation the vFPGA can use names host and card memory that the
\* driver holds for that address: nothing is released under the TLB.  So as
\* long as processes use the vFPGA one after the other.
TlbBacked ==
  alone /\ ~lost =>
    \A x \in Vaddr \X Cpid : tlb[x] # None =>
      \E e \in ToSet(sbuff[x[1]] \o lbuff[x[1]]) : e.host = tlb[x].host /\ e.card = tlb[x].card

\* When nobody is registered no user page is pinned or translated: closing
\* or dying releases "all leftover user pages" (fpga_fops.c).  So if processes
\* come one after the other, wait for their commands, and map no address
\* twice: one entry per bucket is released.
NothingLeft ==
  alone /\ ~untidy /\ (\A p \in Proc : st[p] \in {"none", "closed"}) =>
    /\ \A v \in Vaddr : sbuff[v] = <<>>
    /\ \A x \in Vaddr \X Cpid : tlb[x] # None => "buf" \in DOMAIN tlb[x].host

\* A buffer that getMem(HOST_2M) returned is in the hash under the caller's
\* cpid, where freeMem will look for it: mlock keeps the ioctl and the mmap of
\* one process together.  So without failing mmaps, whichever processes run.
BufferMine ==
  ~lost => \A p \in Proc, v \in Huge : st[p] = "live" /\ mem[p][v] = "buff" =>
             \E i \in DOMAIN lbuff[v] : lbuff[v][i].cpid = cpid[p]
=============================================================================
