------------------------------ MODULE DriverPR ------------------------------
(***************************************************************************)
(* Bitstream memory and partial reconfiguration: cSched::addBitstream,     *)
(* removeBitstream and reconfigure (sw/src/cSched.cpp) over the ioctls and *)
(* the mmap of the driver (driver/fpga_mmu.c, fpga_fops.c).                *)
(*                                                                         *)
(* Each vFPGA region has a daemon.  getMem is an ioctl that leaves the new *)
(* pages in prc->curr_buff and an mmap that takes them from there.  Two    *)
(* locks are meant to keep the pair together: mlock, a named mutex of the  *)
(* region, and prc->lock, a spinlock of the card, held within each call.   *)
(* A call under prc->lock is one step; what the model keeps of the lock is *)
(* whether a call has returned without releasing it.                       *)
(***************************************************************************)
EXTENDS Naturals, Sequences, SequencesExt, FiniteSets

CONSTANTS
  Region,    \* vFPGA regions of the card
  Oid,       \* operators
  Vaddr,     \* user virtual addresses; every daemon has its own space of them
  Page,      \* host page arrays, each as large as a bitstream
  MaxBuffers, \* bound: entries in the hash when a bitstream is added
  CanDie,    \* daemons may be killed and started again
  CanFail,   \* the kernel may run out of pages; bound: not after a kill, and no
             \* kill after it, since no property speaks of such behaviours
  NoVaddr, NoPage, Blank

ASSUME PRAssumption ==
  /\ IsFiniteSet(Page)
  /\ MaxBuffers \in Nat
  /\ {CanDie, CanFail} \subseteq BOOLEAN
  /\ NoVaddr \notin Vaddr /\ NoPage \notin Page /\ Blank \notin Oid

VARIABLES
  prc_lock,     \* prc->lock was left locked by a call that has returned
  curr_buff,    \* prc->curr_buff: pages allocated and not mapped (n_pages # 0)
  pages,        \* pages taken from the kernel
  content,      \* the bitstream in each page array
  pr_buff_map,  \* the hash of mapped buffers, newest first
  mlock,        \* the named mutex of each region
  pc,           \* where the daemon of each region is
  oid,          \* the operator it is adding or removing
  bstreams,     \* its bitstream map: the address of each operator's bitstream
  mapped_pages, \* the addresses it has mapped
  fabric,       \* the operator each region is configured with
  asked,        \* history: the operator last asked for
  died,         \* history: a daemon was killed
  failed        \* history: the kernel ran out of pages

driverVars == <<prc_lock, curr_buff, pages, content, pr_buff_map>>
history == <<died, failed>>
vars == <<driverVars, mlock, pc, oid, bstreams, mapped_pages, fabric, asked, history>>

Buffer == [vaddr : Vaddr, reg : Region, pg : Page]

Pc == {"idle", "alloc", "mmap", "fill", "free"}

TypeOK ==
  /\ prc_lock \in BOOLEAN
  /\ curr_buff \in Page \cup {NoPage}
  /\ pages \subseteq Page
  /\ content \in [Page -> Oid \cup {Blank}]
  /\ pr_buff_map \in Seq(Buffer)
  /\ mlock \in [Region -> {"free", "held"}]
  /\ pc \in [Region -> Pc]
  /\ oid \in [Region -> Oid \cup {Blank}]
  /\ bstreams \in [Region -> [Oid -> Vaddr \cup {NoVaddr}]]
  /\ mapped_pages \in [Region -> SUBSET Vaddr]
  /\ fabric \in [Region -> Oid \cup {Blank}]
  /\ asked \in [Region -> Oid \cup {Blank}]
  /\ died \in BOOLEAN /\ failed \in BOOLEAN

Init ==
  /\ prc_lock = FALSE
  /\ curr_buff = NoPage
  /\ pages = {}
  /\ content = [p \in Page |-> Blank]
  /\ pr_buff_map = <<>>
  /\ mlock = [r \in Region |-> "free"]
  /\ pc = [r \in Region |-> "idle"]
  /\ oid = [r \in Region |-> Blank]
  /\ bstreams = [r \in Region |-> [o \in Oid |-> NoVaddr]]
  /\ mapped_pages = [r \in Region |-> {}]
  /\ fabric = [r \in Region |-> Blank]
  /\ asked = [r \in Region |-> Blank]
  /\ died = FALSE /\ failed = FALSE
-----------------------------------------------------------------------------
(* addBitstream, up to getMem. *)

\* A bitstream that is not in the map yet: getMem takes mlock.
addBitstream(r, o) ==
  /\ pc[r] = "idle"
  /\ bstreams[r][o] = NoVaddr
  /\ Len(pr_buff_map) < MaxBuffers /\ mapped_pages[r] # Vaddr
  /\ mlock[r] = "free"
  /\ mlock' = [mlock EXCEPT ![r] = "held"]
  /\ pc' = [pc EXCEPT ![r] = "alloc"]
  /\ oid' = [oid EXCEPT ![r] = o]
  /\ UNCHANGED <<driverVars, bstreams, mapped_pages, fabric, asked, history>>

\* IOCTL_ALLOC_HOST_PR_MEM returns 0 whatever becomes of alloc_pr_buffers, so
\* that the daemon goes on to mmap.
AllocReturns(r) ==
  /\ pc' = [pc EXCEPT ![r] = "mmap"]
  /\ UNCHANGED <<mlock, oid, bstreams, mapped_pages, fabric, asked, died>>

\* Mutant: no test for pages that are not mapped yet.
alloc_pr_buffersNoTest(r) ==
  /\ pc[r] = "alloc"
  /\ ~prc_lock
  /\ \E p \in Page \ pages : curr_buff' = p /\ pages' = pages \cup {p}
  /\ UNCHANGED <<prc_lock, content, pr_buff_map, failed>>
  /\ AllocReturns(r)

alloc_pr_buffers(r) ==
  /\ pc[r] = "alloc"
  /\ ~prc_lock
  /\ curr_buff = NoPage
  /\ \E p \in Page \ pages : curr_buff' = p /\ pages' = pages \cup {p}
  /\ UNCHANGED <<prc_lock, content, pr_buff_map, failed>>
  /\ AllocReturns(r)

\* "allocated PR buffers exist and are not mapped": an early return with the
\* lock held.
AllocPending(r) ==
  /\ pc[r] = "alloc"
  /\ ~prc_lock
  /\ curr_buff # NoPage
  /\ prc_lock' = TRUE
  /\ UNCHANGED <<curr_buff, pages, content, pr_buff_map, failed>>
  /\ AllocReturns(r)

\* No memory for the array of page pointers: the other early return.  n_pages is
\* set, and mmap and every later call wait for the lock.
AllocNoArray(r) ==
  /\ CanFail /\ ~died
  /\ pc[r] = "alloc"
  /\ ~prc_lock
  /\ curr_buff = NoPage
  /\ prc_lock' = TRUE
  /\ UNCHANGED <<curr_buff, pages, content, pr_buff_map>>
  /\ failed' = TRUE
  /\ AllocReturns(r)

\* fail_alloc gives the pages back and leaves them in curr_buff.
AllocNoPages(r) ==
  /\ CanFail /\ ~died
  /\ pc[r] = "alloc"
  /\ ~prc_lock
  /\ curr_buff = NoPage
  /\ curr_buff' \in Page \ pages
  /\ UNCHANGED <<prc_lock, pages, content, pr_buff_map>>
  /\ failed' = TRUE
  /\ AllocReturns(r)

\* Mutant: curr_buff is reset before it is copied into the entry.
fpga_mmapResetFirst(r) ==
  /\ pc[r] = "mmap"
  /\ ~prc_lock
  /\ curr_buff # NoPage
  /\ \E v \in Vaddr \ mapped_pages[r] :
       /\ pr_buff_map' = <<[vaddr |-> v, reg |-> r, pg |-> NoPage]>> \o pr_buff_map
       /\ bstreams' = [bstreams EXCEPT ![r][oid[r]] = v]
       /\ mapped_pages' = [mapped_pages EXCEPT ![r] = @ \cup {v}]
  /\ curr_buff' = NoPage
  /\ mlock' = [mlock EXCEPT ![r] = "free"]
  /\ pc' = [pc EXCEPT ![r] = "fill"]
  /\ UNCHANGED <<prc_lock, pages, content, oid, fabric, asked, history>>

\* mmap(MMAP_PR): the pages of curr_buff, whoever allocated them, are mapped
\* at an address the kernel chooses and entered for the caller's region.  The
\* daemon then releases mlock.  The address is in the daemon's hands from here
\* on; bstreams records it at once, and no reconfiguration reads it before the
\* bitstream is filled in.
fpga_mmap(r) ==
  /\ pc[r] = "mmap"
  /\ ~prc_lock
  /\ curr_buff # NoPage
  /\ \E v \in Vaddr \ mapped_pages[r] :
       /\ pr_buff_map' = <<[vaddr |-> v, reg |-> r, pg |-> curr_buff]>> \o pr_buff_map
       /\ bstreams' = [bstreams EXCEPT ![r][oid[r]] = v]
       /\ mapped_pages' = [mapped_pages EXCEPT ![r] = @ \cup {v}]
  /\ curr_buff' = NoPage
  /\ mlock' = [mlock EXCEPT ![r] = "free"]
  /\ pc' = [pc EXCEPT ![r] = "fill"]
  /\ UNCHANGED <<prc_lock, pages, content, oid, fabric, asked, history>>

\* remap_pfn_range fails: the entry is in the hash already, the pages are still
\* in curr_buff and prc->lock is not released.  getMem releases mlock and throws.
MmapFails(r) ==
  /\ CanFail /\ ~died
  /\ pc[r] = "mmap"
  /\ ~prc_lock
  /\ curr_buff # NoPage
  /\ \E v \in Vaddr \ mapped_pages[r] :
       pr_buff_map' = <<[vaddr |-> v, reg |-> r, pg |-> curr_buff]>> \o pr_buff_map
  /\ prc_lock' = TRUE
  /\ mlock' = [mlock EXCEPT ![r] = "free"]
  /\ pc' = [pc EXCEPT ![r] = "idle"]
  /\ oid' = [oid EXCEPT ![r] = Blank]
  /\ failed' = TRUE
  /\ UNCHANGED <<curr_buff, pages, content, bstreams, mapped_pages, fabric, asked, died>>

\* Where the driver finds the newest and the oldest entry of an address in a
\* region: it walks the hash from the newest entry on.
Newest(r, v) == SelectInSeq(pr_buff_map, LAMBDA e : e.vaddr = v /\ e.reg = r)
Oldest(r, v) == SelectLastInSeq(pr_buff_map, LAMBDA e : e.vaddr = v /\ e.reg = r)

\* The bitstream file is read into the memory just mapped.
ReadIn(r) ==
  /\ pc[r] = "fill"
  /\ LET i == Newest(r, bstreams[r][oid[r]])
     IN  content' = [content EXCEPT ![pr_buff_map[i].pg] = oid[r]]
  /\ pc' = [pc EXCEPT ![r] = "idle"]
  /\ oid' = [oid EXCEPT ![r] = Blank]
  /\ UNCHANGED <<prc_lock, curr_buff, pages, pr_buff_map, mlock, bstreams, mapped_pages, fabric, asked, history>>
-----------------------------------------------------------------------------
(* removeBitstream. *)

\* freeMem takes mlock and unmaps the memory.
removeBitstream(r, o) ==
  /\ pc[r] = "idle"
  /\ bstreams[r][o] # NoVaddr
  /\ mlock[r] = "free"
  /\ mlock' = [mlock EXCEPT ![r] = "held"]
  /\ pc' = [pc EXCEPT ![r] = "free"]
  /\ oid' = [oid EXCEPT ![r] = o]
  /\ UNCHANGED <<driverVars, bstreams, mapped_pages, fabric, asked, history>>

\* Mutant: the entry stays in the hash.
free_pr_buffersKeepsEntry(r) ==
  /\ pc[r] = "free"
  /\ ~prc_lock
  /\ LET i == Newest(r, bstreams[r][oid[r]])
     IN  pages' = pages \ {pr_buff_map[i].pg}
  /\ bstreams' = [bstreams EXCEPT ![r][oid[r]] = NoVaddr]
  /\ mapped_pages' = [mapped_pages EXCEPT ![r] = @ \ {bstreams[r][oid[r]]}]
  /\ mlock' = [mlock EXCEPT ![r] = "free"]
  /\ pc' = [pc EXCEPT ![r] = "idle"]
  /\ oid' = [oid EXCEPT ![r] = Blank]
  /\ UNCHANGED <<prc_lock, curr_buff, content, pr_buff_map, fabric, asked, history>>

\* IOCTL_FREE_HOST_PR_MEM: the newest entry found is freed; hash_del ends the
\* loop.  The daemon then releases mlock and erases the bitstream.
free_pr_buffers(r) ==
  /\ pc[r] = "free"
  /\ ~prc_lock
  /\ LET i == Newest(r, bstreams[r][oid[r]])
     IN  /\ pages' = pages \ {pr_buff_map[i].pg}
         /\ pr_buff_map' = RemoveAt(pr_buff_map, i)
  /\ bstreams' = [bstreams EXCEPT ![r][oid[r]] = NoVaddr]
  /\ mapped_pages' = [mapped_pages EXCEPT ![r] = @ \ {bstreams[r][oid[r]]}]
  /\ mlock' = [mlock EXCEPT ![r] = "free"]
  /\ pc' = [pc EXCEPT ![r] = "idle"]
  /\ oid' = [oid EXCEPT ![r] = Blank]
  /\ UNCHANGED <<prc_lock, curr_buff, content, fabric, asked, history>>
\* cService::removeTask erases the bitstream of the operator from the map and
\* frees nothing: the memory stays mapped and in the hash.
removeTask(r, o) ==
  /\ pc[r] = "idle"
  /\ bstreams[r][o] # NoVaddr
  /\ bstreams' = [bstreams EXCEPT ![r][o] = NoVaddr]
  /\ UNCHANGED <<driverVars, mlock, pc, oid, mapped_pages, fabric, asked, history>>
-----------------------------------------------------------------------------
\* Mutant: the entries of all regions match.
reconfigureAnyRegion(r, o) ==
  /\ pc[r] = "idle"
  /\ bstreams[r][o] # NoVaddr
  /\ ~prc_lock
  /\ LET i == SelectLastInSeq(pr_buff_map, LAMBDA e : e.vaddr = bstreams[r][o])
     IN  fabric' = [fabric EXCEPT ![r] = content[pr_buff_map[i].pg]]
  /\ asked' = [asked EXCEPT ![r] = o]
  /\ UNCHANGED <<driverVars, mlock, pc, oid, bstreams, mapped_pages, history>>

\* IOCTL_RECONFIG_LOAD, under prc->lock, for the address of the operator's bitstream: every
\* entry found is sent to the configuration port, the oldest one last.
reconfigure(r, o) ==
  /\ pc[r] = "idle"
  /\ bstreams[r][o] # NoVaddr
  /\ ~prc_lock
  /\ LET i == Oldest(r, bstreams[r][o])
     IN  fabric' = [fabric EXCEPT ![r] = content[pr_buff_map[i].pg]]
  /\ asked' = [asked EXCEPT ![r] = o]
  /\ UNCHANGED <<driverVars, mlock, pc, oid, bstreams, mapped_pages, history>>

\* The daemon is killed and started again.  Its maps are gone; the named mutex
\* and the driver keep their state: fpga_release frees no bitstream memory.
Die(r) ==
  /\ CanDie /\ ~failed
  /\ bstreams' = [bstreams EXCEPT ![r] = [o \in Oid |-> NoVaddr]]
  /\ mapped_pages' = [mapped_pages EXCEPT ![r] = {}]
  /\ pc' = [pc EXCEPT ![r] = "idle"]
  /\ oid' = [oid EXCEPT ![r] = Blank]
  /\ died' = TRUE
  /\ UNCHANGED <<driverVars, mlock, fabric, asked, failed>>

\* What a call that was begun does next.
Step(r) ==
  \/ alloc_pr_buffers(r) \/ AllocPending(r) \/ AllocNoArray(r) \/ AllocNoPages(r)
  \/ fpga_mmap(r) \/ MmapFails(r) \/ ReadIn(r) \/ free_pr_buffers(r)

Next ==
  \E r \in Region :
    \/ \E o \in Oid : addBitstream(r, o) \/ removeBitstream(r, o)
                     \/ removeTask(r, o) \/ reconfigure(r, o)
    \/ Step(r)
    \/ Die(r)

Spec == Init /\ [][Next]_vars

\* A daemon inside a call goes on with it.
FairSpec == Spec /\ \A r \in Region : WF_vars(Step(r))
-----------------------------------------------------------------------------
(* Properties. *)

Entries == {pr_buff_map[i] : i \in DOMAIN pr_buff_map}

\* A reconfiguration leaves the region with the operator the daemon asked for.
\* A killed daemon leaves entries behind: an address that is given out again
\* then stands for two bitstreams, and the older one is loaded last.
RightBitstream ==
  ~died /\ ~failed => \A r \in Region : asked[r] # Blank => fabric[r] = asked[r]

\* Every page array taken from the kernel has one owner, curr_buff or one entry
\* of the hash, and nothing else is owned: none is leaked, mapped twice or used
\* after it was freed, daemons that are killed included.  It ends with the first
\* allocation that fails, whose pages stay in curr_buff.
PagesOwned ==
  ~failed =>
    /\ pages = {e.pg : e \in Entries} \cup ({curr_buff} \ {NoPage})
    /\ \A i, j \in DOMAIN pr_buff_map : pr_buff_map[i].pg = pr_buff_map[j].pg => i = j
    /\ \A e \in Entries : e.pg # curr_buff

\* The hash of the driver and the address spaces of the daemons agree: one
\* entry for each address a daemon has mapped and no other, failed allocations
\* and removed tasks included, until a daemon is killed or a call returns with
\* prc->lock held.
MapAgrees ==
  ~died /\ ~prc_lock =>
    /\ {<<e.reg, e.vaddr>> : e \in Entries} = UNION {{<<r, v>> : v \in mapped_pages[r]} : r \in Region}
    /\ \A i, j \in DOMAIN pr_buff_map :
         /\ pr_buff_map[i].reg = pr_buff_map[j].reg
         /\ pr_buff_map[i].vaddr = pr_buff_map[j].vaddr
         => i = j

\* addBitstream and removeBitstream return, whatever other regions do.
CallsReturn == \A r \in Region : pc[r] # "idle" ~> pc[r] = "idle"
=============================================================================
