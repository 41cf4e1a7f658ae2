# TLA+ models of vFPIO / Coyote

vFPIO runs several *virtual FPGA regions* (vFPGAs) on one card and shares each
of them between host processes. This directory holds TLA+ models of the software
that does the sharing and of the transport engines of the network stack, TLC configurations that check them
on small instances, and TLAPS proofs of the properties that matter most. Every definition is
translated from the source; `PROJECT.json` maps each of them to its lines.

    tlc -workers 2 -config SchedSafety.cfg MCCSched
    tlapm CSched_proofs.tla

## 1. Inventory

| part | state | operations | hard behaviours |
|---|---|---|---|
| **cSched** (`sw/src/cSched.cpp`) scheduler of one vFPGA | request queue, bitstream map, `curr_oid`, `curr_cpid`, `curr_run`, the named mutex `plock` | `addBitstream`, `removeBitstream`, `run_sched`, `processRequests`, `pLock`, `pUnlock`, destructor | three mutexes and two condition variables, completion time-out, a named mutex that survives a crash |
| **cProcess** (`sw/src/cProcess.cpp`) a user of a vFPGA | cpid, mapped pages, command FIFO counters | `pLock`/`pUnlock`, `userMap`, `getMem`, `invoke`, `checkCompleted`, RDMA exchange, destructor | order of the destructor, shared named mutexes, FIFO credit |
| **cThread / cTask** (`sw/src/cThread.cpp`) | task queue, completion queue | `scheduleTask`, `processRequests`, `getCompletedNext` | queue shared by two threads, join in the destructor |
| **cService / cLib** (`sw/src/cService.cpp`, `sw/include/cLib.hpp`) daemon and its clients | client map, sockets, task map | accept, request loop, response loop, SIGTERM; connect, task, close | blocking reads under a mutex, iterators invalidated by an erase, killed clients |
| **driver, cpids** (`driver/fpga_fops.c`, `fpga_dev.c`) | chunk list, `pid_array`, hash `pid_cpid_map` | open, register, unregister, release | exhaustion, processes that die, unregistering by pid |
| **driver, bitstreams** (`driver/fpga_mmu.c`, `fpga_fops.c`) | `prc->curr_buff`, hash `pr_buff_map`, `prc->lock` | alloc + mmap, free, reconfigure | an allocation in two calls under a lock of the region, in a variable of the card |
| **driver, user memory** (`driver/fpga_mmu.c`, `fpga_isr.c`) | user page map, card chunks, TLB | get/put user pages, page fault, card alloc/free | page faults racing unmaps and deaths |
| **RDMA exchange** (`ibvQpMap.cpp`, `ibvQpConn.cpp`) | queue pairs, sockets | master/slave exchange, sync, barrier | message order of two peers |
| **cArbiter** | cThreads, round-robin position | add, submit, collect | fairness of collection |
| **hardware MMU** (`hw/hdl/mmu`) | TLB FSMs, mutex, credits | lookup, miss interrupt, restart, credit return | two FSMs and one mutex, counters at their limits |
| **hardware command path** (`hw/hdl/slave`, `hw/hdl/user`) | command FIFOs, completion counters, `io_switch`, credits | command write, completion, credit | FIFO full, counters at their limits |
| **TOE** (`hw/services/network/hls/toe`) TCP offload engine | per session: state, RX and TX SAR tables, the application's copy of the pointers, timers; shared: session lookup, reverse table, free IDs, ports | open, listen, write, close; segments in and out; retransmission, delayed ACK, close timer; release of IDs and ports | some twenty processes joined by FIFOs, each with a copy of part of the state; loss, reordering, wrap |
| **RoCE v2** (`hw/services/network/hls/ib_transport_protocol`) | PSNs of requester and responder, retransmission list, timer, DMA address | request, retransmission, ACK/NAK, read response | loss, duplication, reordering; duplicates executed again; a linked list with its free list |
| **network glue** (`hw/hdl/network`, ARP, ICMP, UDP, IP cores) | credits, tables | – | credits at their limits |
| card DMA and striping, example operators, PCI/ECI/sysfs code | – | – | data path or set-up |

**Interaction.** A client (`cLib`) connects to the daemon (`cService`) of a vFPGA
and sends tasks. The daemon keeps a `cThread` with a `cProcess` per client; the
cThread runs the task's function, which calls `cProcess::pLock`, works with the
vFPGA, and calls `pUnlock`. In a daemon pLock queues a request with `cSched`,
which takes the system-wide `plock`, reconfigures the region through the driver
if another operator is loaded, and announces the cpid of the request; a process
without a scheduler takes `plock` itself. Constructor and destructor of a
cProcess register and unregister a cpid with the driver, which tags TLB entries
and page faults with it.

**What makes the parts correct.** One task at a time in a vFPGA, and on the
operator it asked for; no request lost, starved by lower priorities, or left when
the scheduler is destroyed (cSched). One cpid per live object, resolving to its
process, given back when processes die (cpid table). One owner per page array and
the right bitstream loaded (bitstream memory). Card memory given to one owner, and
no translation left for memory that was given back (user memory). One answer for
every task (cService). Both byte streams delivered in order and once, whatever the
network does; every session ID free or in use, never both (TOE). Every write
executed in order and once, and no answer that is not true (RoCE). `PROJECT.json` lists the hazards of the code with their lines and the
properties that cover each, or the reason why none does yet.

## 2. Modules

| module | models | state and steps |
|---|---|---|
| `CSched` | cSched, and pLock/pUnlock of cProcess | A step is a critical section. The scheduler thread is `SchedPop` (top of the queue), `SchedLock` (plock), `SchedReconfigure`, `SchedGrant` (under `mtx_rcnfg`), `SchedComplete` or `SchedTimeout` (`cv_cmplt.wait_for`). A scheduled user does `pLock`, `pLockReturn`, `pUnlock`, `pUnlockStore`; a direct user `DirectRequest`, `DirectLock`, `DirectUnlock`. `Crash` loses the daemon's memory and keeps `fabric` and `plock`. |
| `VFpgaLock` | the promise of pLock/pUnlock | an exclusive lock acquired only with the wanted operator in place; `CSched!ImplementsVFpgaLock` is the refinement |
| `DriverPid` | cpid table | one action per file operation and ioctl; a chunk list is the sequence of its ids, the hash a sequence of cpids per pid, newest first |
| `DriverPR` | bitstream memory and reconfiguration, from `getMem`/`freeMem`/`reconfigure` of cSched down to the driver | a call under `prc->lock` is one step; `prc_lock` records a call that returned without releasing it |
| `CService` | daemon, its cThreads, its clients | main, request and response threads and a cThread per client; a socket is a sequence of messages |
| `DriverMMU` | user memory of one vFPGA: pinning and driver-allocated buffers, card chunks, TLBs, fault handler, and the memory calls, constructor and destructor of cProcess | one action per ioctl, mmap and interrupt; hash buckets are sequences, newest first; the links of the card allocators are kept |
| `Toe` | one TCP session of the TOE with its application, and a correct peer behind a lossy, reordering network | `App*`, `EventEngine`, `Tx*` (metaLoader), `Rx*` (rxTcpFSM: `RxLoad` reads the tables, `RxAck`, `RxSyn`, ... act on what was read), `*Timeout`; `Peer*` is external |
| `ToeSessions` | which session a segment, event or timer belongs to: port table, metadata handler, session lookup with free list and reverse table, state table with its locks, timers | one action per process of the dataflow region; comparisons of sequence numbers are nondeterministic |
| `Roce` | one queue pair, requester on one side and responder on the other | `LocalReq`, `LocalRetrans`, the four operations of the retransmitter, `TimerExpires`, `RxLoad`/`RxAccept`/`RxDrop`/`RxExh` of the requester, `Resp*` of the responder; the network is external |
| `CSched_proofs`, `DriverPid_proofs`, `DriverPR_proofs`, `CService_proofs`, `DriverMMU_proofs`, `Toe_proofs`, `ToeSessions_proofs`, `Roce_proofs` | the theorems about each | section 5 |
| `MC*` | instances for TLC | values of constants; no definition is replaced |

`pLock` in `CSched` is what a task does between `TakeTask` and `FinishTask` in
`CService`; `addBitstream`, `removeBitstream` and `reconfigure` are single steps
on `bstreams` and `fabric` in `CSched` and are taken apart in `DriverPR`. A cpid is a
number of a list in `DriverMMU`; how it is given out and resolved is `DriverPid`.
A lookup is a step of `Toe` that finds the one session; `ToeSessions` has the
tables behind it, and leaves the data to `Toe`.

### Details worth knowing

* **pUnlock is two steps.** It tests `curr_cpid` and stores `curr_run` under
  `mtx_cmplt`, while the scheduler writes both under `mtx_rcnfg`. The scheduler
  cannot get past `cv_cmplt.wait_for` between the two (`CmpltFree`), but it can
  grant.
* **The queue.** `std::priority_queue` returns an element that none precedes, if
  the comparison is a strict weak order. With `reorder` and without `priority`
  `taskCmprSched` is not one (it orders operators only within equal
  priorities); `Tops` then allows any element.
* **reconfigure** does nothing for an operator without a bitstream, while
  `curr_oid` changes. `OperatorLoaded` therefore speaks of operators in the map.
* **Named mutexes.** Their names are `"vpga_mtx_user_" + vfid`, pointer
  arithmetic on a literal, so names of different regions differ by dropped
  characters; they are distinct for small region numbers and modelled as one
  mutex per region. The destructors remove `"vfpga_..."`, another name, so that
  the mutex of a region stays: `Crash` and `Die` keep it, held if it was.
* **The chunk list.** The numbering loop of `init_fpga_devices` leaves out the
  last chunk, whose id remains 0 (`InitList`), and `num_free_pid_chunks` is never
  decremented, so the test for a full table never fires: `RegisterOops` is the
  null dereference that follows. The history variable `full` says that a cpid was
  registered when all but one were in use; guarantees are stated up to there.
* **hash_del inside hash_for_each** ends the walk: one entry is removed.
* **removeTask** of cService erases the operator's bitstream from the map and
  leaves its function and the memory: a step of `CSched` and of `DriverPR`.
* **Failures under prc->lock.** The allocation ioctl reports success whatever
  `alloc_pr_buffers` returns. Two of its early returns and the one of
  `fpga_mmap` leave the lock locked; `prc_lock` stays TRUE, and all later calls
  wait. That mmap finds no pages is not reachable, and has no action.
* **~cLib** sends four bytes (the opcode) where the daemon reads eight: `bye` is
  read and forgotten (`ReqNothing`), and the cThread of the client remains. A
  *task* with opcode 0 closes the connection (`ReqClose`); the erase under the
  iterators of two loops is undefined, and the model either crashes or goes on.
* **Pinned pages carry no cpid.** `tlb_get_user_pages` never sets it, so that the
  calls that look for entries by cpid find those of cpid 0 only. `DriverMMU` keeps
  this: `TlbBacked` and `NothingLeft` speak of processes that use the vFPGA one
  after the other, each with cpid 0. For
  any other cpid the pages stay pinned, the chunks taken and the translations in
  the TLB, where the next cProcess with that cpid finds them.
* **Card chunks** are a linked list whose last chunk has the id of the first; a
  chunk can come to be linked twice, which is why the links are in the model and
  not a sequence. `FreedHead` and `FreedNext` are the list after a sequence of
  `card_free`s: each chunk is linked to the one before. The walks over a bucket end
  at the first match (`Newest`, in `DriverPR` also `Oldest`), because the code
  deletes the entry it stands on.
* **TOE, LOAD and TRANSITION.** rxTcpFSM acts on TX SAR values it read before; the
  application's table lags behind by the events under way. Both lags are in `Toe`.
* **TOE, FIN.** The FIN's sequence number counts as a byte in `usedLength`: a
  retransmission after a lost FIN sends a byte of stale memory (`ToeFin`). LAST_ACK
  and FIN_WAIT_1 are entered when the FIN event is queued; the FIN may overtake
  accepted writes, or not be sent at all. `StreamBeforeFin` therefore ends where a
  FIN was sent.
* **TOE, ports.** A released port is handed over in network byte order; `Swap`.
* **RoCE, the list.** The retransmitter takes each response for one to the head
  of its list. A duplicated ACK releases a request without an answer, a lost one
  shifts the list; a NAK for a PSN that is not in it leaves the FSM in RETRANS_1.
  `ListFollows` holds while nothing is lost, repeated or late and reads are not
  mixed with other requests.
* **RoCE, a response before its entry.** UPDATE_0 goes before INSERT_0, and a
  response that finds no entry is forgotten, with the comment "this should not
  happen". It can: nothing orders the insertion before the request is sent, and an
  insertion waits while the table is full. The history variable `early` says that
  it did. The address of that read is then never handed over, and the data of later
  packets goes to the address of the next read; with FIFOs of three entries TLC
  finds this on a perfect network in 22 steps. Where data of reads is stored is
  therefore claimed up to `early`; the list is complete even beyond it.
* **RoCE, a cut entry.** RESP_FIRST and RESP_MIDDLE advance the head of the list by
  one packet, whatever request it is (`Cut`). If an ACK was repeated, or a NAK or a
  timeout came in between, the head may be a write: its entry then names PSN + 1,
  and the next timeout sends the write again under the PSN of its successor, which
  the responder expects. With SEND, READ, SEND, one repeated ACK and one expiration
  the first SEND is executed twice and the last one never. The history variable
  `miscut` says that an entry was cut for a response that is not its own;
  `WritesInOrder` and `AnswersHonest` are stated up to there and need no other
  condition on the network. An entry cut to nothing is sent with length 0; the
  responder's FSM does not leave the first packet of a write without length
  (`RespExh`).
* **RoCE, the timer** is stopped by an answer to the last PSN sent when that
  answer was *loaded*: a request sent between `RxLoad` and `RxAccept` loses its
  timer.
* **RoCE, duplicates.** A duplicate read is executed again and sets the DMA address
  of the queue pair to 0, where the next packet of a write goes; acknowledgements
  overtake read responses, whose data is then dropped as a duplicate.
* **SIGPIPE** is not handled: a completion for a client that has gone ends the
  daemon (`RspSend`).

## 3. Runs

| run | result | question |
|---|---|---|
| `SchedSafety` | pass | Two daemon threads and one direct process, two operators, two priorities, both flags, one crash, destruction. `MutualExclusion`, `OperatorLoaded`, `NoLostRequest`, `BoundedBypass`, and `ImplementsVFpgaLock`. |
| `SchedTimeout` | pass | What remains when tasks outlive `cmplTimeout` and threads share a cpid: `ReconfigExclusive` (no reconfiguration with a direct process inside, or without plock). |
| `SchedLive` | pass | `LockGranted`: every pLock returns, with the irregular comparison, contention for plock and destruction with a filled queue. |
| `PidSafety` | pass | Four processes on a table of three cpids, dying at any point: `CpidUnique`, `FaultsResolve`, `NoCpidLeak`, `NoOops`. |
| `PRSafety` | pass | Two regions, two operators, killed daemons or failing allocations: `PagesOwned`, `MapAgrees`, `RightBitstream`. |
| `PRRegions` | violation | Two regions allocate at once: the second ioctl leaves `prc->lock` locked and nothing on the card returns (`CallsReturn`). |
| `ServSafety` | pass | Two clients, two tasks each, valid, unknown and closing opcodes, killed clients, SIGTERM: `OneAnswer`, and `TasksAnsweredUntilTerm` if no client sits idle. |
| `MmuSafety` | pass | Two processes map, fault, free, close and die: `CardPartition` (a chunk is free or held, once), `TlbBacked` (a translation names memory that is held) and `NothingLeft` (nothing stays pinned) as long as processes come one after the other, `BufferMine` (a buffer is entered for its owner). |
| `ToeConn` | pass | A session from open to close, loss and reordering, retransmission, wrap, segments of an earlier connection: `DeliveredInOrder`, `StreamBeforeFin`, `HandshakeAgreed`, `BufferKept`, `AckForward`. |
| `ToeFin` | violation | A lost FIN: the peer receives a byte the application never wrote (`StreamDelivered`). |
| `ToeSessions` | pass | Two IDs for connections that are opened, reset, timed out and closed while segments and releases for them are under way: `IdsAccounted`, `ReverseAgrees`, `NoDeadSession`, `ReadStateHolds`. |
| `Roce` | pass | Writes, reads and sends across the wrap of the PSN, one fault of the network and one expiration of the timer, FIFOs of the depth in the source: `WritesInOrder`, `AnswersHonest`, and `ListFollows` while nothing disturbs the connection. |

The violations are disagreements between the code and its comments or
documentation that `PROJECT.json` quotes under `findings`. Four more can be had by
changing a constant: two threads with one cpid break `MutualExclusion` (the grant
names a cpid, and every thread of that cProcess takes it); two objects of one
process break `CpidUnique` (closing the first file unregisters the second);
without `BusyClients` a connected, silent client stops the service, since the
request thread sits in `read` with `mtx_cli` held; with `SimOpen` the numbers of a
simultaneous open are drawn twice and `BufferKept` fails.

**Bounds.** `MaxTasks = 2` lets a thread ask again after a late completion of its
first task, which is what stale values of `curr_run`, `curr_cpid` or a second
answer need; two scheduled threads and a direct one give every kind of
competition for plock. One crash suffices, since a crash resets all it can reach.
`N = 3` with four objects goes past the last chunk, and objects reopen without
limit. `MaxBuffers` bounds the entries when a bitstream is added: 2 in `PRSafety`
(two live entries, or a live and a stale one; a third by concurrency after a
failed allocation), with two page arrays, so that freed pages are taken again;
3 with four page arrays in `PRRegions`, where no call waits for a page. Kills and
failing allocations are not combined in one behaviour (the properties about one exclude the other). Page arrays and addresses are symmetric in `PRSafety`, a run without
liveness properties.

`MmuSafety`: three chunks (the last with the id of the first), two maps, a buffer
and two commands let a page be mapped twice, faulted again and freed under a
command; processes are symmetric. States after an oops or a failed mmap are not
explored further (`Usable`): the driver is gone, or the properties claim nothing.
`ToeConn`: sequence numbers wrap at 8 and start at 6 and 7, so that they wrap in
the handshake; a window of one segment in a buffer of two makes pointers wrap; five
writes, closes and segments of the peer are enough for data in both directions, a
loss and a close; the old SYN and SYN_ACK have numbers that `NumbersAssumption` allows
(section 5). A released session is not explored (`InUse`): its reuse is in
`ToeSessions`, with two IDs, two peers and three opens, closes or segments, so
that an ID is taken again while something for its last owner is under way; a
second start, with a connection in place (`Connected`, which the first one
reaches), gets to TIME_WAIT and its timer. `Roce`: reads of
two packets, writes of one and two, PSNs from 6 modulo 8, a list of two entries
for three requests, so that an insertion waits for a release. One fault and one
expiration already combine a loss with a retransmission of what had arrived; more
of them multiply the states (6.3 million as it is). `QCap` is 2, the depth of
`rx2retrans_upd`, `tx2retrans_insertRequest` and `rx_fsm2exh_MetaFifo` in the source.

**Deadlock** is not checked: threads stop at `MaxTasks`; a daemon that has exited,
a `plock` left held by a crash, an oops in the driver and a leaked `prc->lock` are
states the code itself does not leave. The TOE and the RoCE engine rest when the
bounded supply of writes and packets is used up.

**Fairness.** `CSched`: the scheduler thread polls, notified threads run, tasks
end (weak fairness of `SchedStep`, `ThreadStep`, `DirectStep`); no fairness for
starting tasks, stopping or crashing. Weak fairness of the direct threads'
acquisition of plock suffices here because each thread runs a bounded number of
tasks. `DriverPR`: a daemon inside a call goes on. `CService`: the threads poll
for ever and tasks end; acquiring `mtx_cli` is strongly fair, because the request
thread sleeps between two holds of it. `BusyClients`, in `ServSafety` only, is an
assumption about the clients: one that is connected sends a task or closes. No
fairness is assumed in the other modules, which state safety only: neither engine
guarantees progress once its retries are used up.

## 4. Mutants

Each property of each passing run has a mutant, an operator defined before the
definition it replaces and named `Mut...` or marked `Mutant`: a plausible bug (no wait for plock, a
wait without predicate, an entry left in a hash, a missing unlock) under which TLC
finds the property violated.

## 5. Proofs

The proofs hold for every value of the constants that satisfies the named
`ASSUME`s of the modules.

**`CSched_proofs`.** `TypeCorrect`, `BypassBounded` and `Reconfigurations` need
nothing more.
`Exclusion`, `OperatorInPlace`, `RequestsKept` and `Refinement` assume
`Disciplined`: each daemon thread has a cpid of its own and no task outlives
`cmplTimeout`. Both are needed: without the first two threads take one grant,
and a time-out hands the region to the next request while the
task runs. The properties are not inductive: two running threads are excluded
because a running thread is the owner of the one announced request, which takes
the link from threads to requests and back. The invariant `SchedInv` has four
parts: `PlockInv` (who may hold plock; it holds without `Disciplined`, and gives
`Reconfigurations`), `RegisterInv` (registers of the scheduler
agree with the request it serves, and a believed operator is really loaded),
`OwnerInv` (a queued or served request belongs to the thread waiting for it) and
`ThreadInv` (a running thread is the one served; a waiting one is queued or
served). `BypassBounded` has an invariant of its own: once a request has been
bypassed, what the scheduler serves next does not precede it. `Refinement` shows
that each step of `CSched` is a step of `VFpgaLock` or a stutter under the mapping
of `CSched!Abstract`, using `SchedInv` where pLock returns (`Vacant`, operator in
place) and where the scheduler reconfigures.

**`DriverPid_proofs`.** Under `OneEach` (a process has one object and registers
itself; otherwise closing one file frees the cpid of another object) `TableInvariant` proves that until `full` the list,
the array and the hash agree: `ListInv` (each proper id is in use or on the list
once, above the chunk with the duplicate id), `HashInv` (an entry belongs to one
live or closing object and carries its cpid) and no oops. The one step that is
not local is registration: that the head is not the duplicate needs a free
proper id, by counting (`HeadIsProper`). `CpidsUnique`, `FaultsFindTheirProcess`,
`CpidsComeBack` and `ListNeverDry` follow. `CpidsComeBack` is proved while the
table was never full; TLC checks `NoCpidLeak` beyond that.

**`DriverPR_proofs`.** For any number of regions, operators, addresses and page
arrays, and kills, failed allocations and leaked locks in any order. `PRInv` adds
to the properties what a daemon knows (`DaemonInv`: the operator of the call it is
in is known, and the addresses in its bitstream map are mapped and differ), that a
mapped address has an entry in the hash whatever failed (`MappedFound`), and that
the memory of a bitstream holds it unless it is just being read in (`Filled`).
Without `Filled` a reconfiguration between the mmap and the read could load what
the pages held before; without `MappedFound` the walk that frees or loads could end
at nothing. `PagesOwned` and `MapAgrees` are carried entry by entry (`OwnedInv`,
`AgreesInv`), since a removal in the middle of the hash moves the others up.

**`CService_proofs`.** `OneAnswer` counts messages; the inductive form says where
the one message is: for a client that waits, in exactly one of inbox, task queue,
worker, completion queue and outbox, with the tid the client waits for, and for any
other client nowhere (`ClientInv`). Kills, the crash of an invalid iterator and
SIGTERM take everything of a client or of all of them away at once.

**`DriverMMU_proofs`** has four layers over `BaseInv` (the types; a cpid that
was ever used resolves; a held `mlock` means a pending buffer; pages in the user
hash carry cpid 0, and driver-allocated buffers are huge).
*Translations:* `AloneInv` (processes that come one after the other all get cpid
0, and so do their commands and translations) is what `TlbBacked` needs beyond
itself, because a put finds only entries with the caller's cpid; `BackedInv` says
in which of the two hashes a translation is backed, which matters after a failed
mmap.
*Leftovers:* `TidyInv` (one page per address, and neither pages nor commands once
nobody has the cpid) gives `NothingLeft`.
*Buffers:* that a process finds *some* entry with its cpid is not inductive, since
cpids are given again and freeing removes the newest entry with that cpid. `OwnerInv`
has an injective choice of entries for the processes with a buffer at an address;
`CurrMine` says that the pending buffer is that of the holder of `mlock`.
*Card memory:* `CardInv` states for each kind that there is a function from chunks
to places (free list, pending buffer, bucket of an address) which the buckets agree
with one to one, and a sequence without repetition, of the free chunks, that the
links follow from the head and that ends in the last chunk. Allocation takes its
first element, a free puts one in front, and `tlb_put_user_pages_cpid` several. That
the `used` flag is set for everything that is handed out is part of it: `card_free`
silently drops a chunk without it. `CardMemoryKept` then follows by showing that the
recursive walk of `CardPartition` is that sequence (`WalkIs`), and the pigeonhole
principle that it ends within the memory (`ListShort`).
`DriverMMU` assumes that `None` is neither a translation nor a hash entry.

**`Toe_proofs`.** For every sequence space, buffer size and set of windows, any
number of writes, segments and retries, and any loss and reordering; `TypeCorrect`
without condition, the others for a connection that one end opens (`~SimOpen`, as in
the runs; with both opening, the number is drawn twice and `BufferKept` is false).
`NumbersAssumption` says what TCP asks of the network and of the choice of initial
numbers: a connection does not go once round the sequence space while its first
segments live (it may wrap), a segment of an earlier connection has numbers outside
the range of this one, and the peer's first byte is not number 0, which the tables
hold before they are written and which the code cannot tell from a number received.
The SYN of an earlier connection only has to have another number; RSTs are not
restricted. `MaxRetries` is at least 1, as the timer counts a SYN it repeats.

The properties say nothing about most of the state, and the invariant is a case
distinction over the life of the connection (`Phase`): `Look` and `Wait`, the
application calls and its SYN is with the lookup, the event engine, the TX engine or
on the network; `Fresh` and `Hand`, the peer calls; `Dead`, an old SYN took the
session or the retries ran out first; `Conn`, both ends know each other's number. The
phases before `Conn` say that exactly one event draws the initial number and that
every SYN or SYN_ACK on the network carries it, from which `HandshakeAgreed` follows.
`Conn` has these parts:

* `Session`, `Pending`: no event draws a number again, and no FIN event precedes the
  end of ESTABLISHED;
* `Received`: what was delivered is 1, 2, ..., `recvd` is the number behind it, and a
  segment under way is an old one or holds the byte its number stands for. This is
  `DeliveredInOrder`, and goes on after the FINs;
* `Sending`, until the FIN is sent: acknowledged, taken by the peer, sent and written
  follow each other within one buffer (`Ackd <= Taken <= Sentd`,
  `written + 1 - Ackd < WinMod`); every write that was not sent has its event, in
  order (`InQueue`), and is in memory where the TX engine looks (`InMemory`); a segment
  the peer may take holds the right byte (`OutSeg`); an ACK under way names what the
  peer has (`AckOk`). `StreamBeforeFin` and `BufferKept` are read off it;
* `Loaded`, part of `Sending`: the ACK number is compared with the copies `RxLoad`
  took. `ackd` has not changed since and `not_ackd` can only have grown, so the stale
  copy accepts no ACK that the tables would refuse. `AckForward` rests on it.

Most lemmas are about distances modulo the sequence space and the buffer (`Dist`,
`Ring`): what adding one does to a distance, and that two pointers less than a
buffer apart are equal only if their numbers are.

**`ToeSessions_proofs`.** For any number of IDs, tuples and ports and any depth of
the FIFOs. `SessionInv`: an ID below the counter is in exactly one of free list,
finished list, insert on its way and session table, once (`Places`); the session
count is the number of entries (`Counted`); inserts and queries of the lookup
controller belong together (`Inserts`, `Queries`), and an entry is in exactly one
stage of its way to, in or from the reverse table (`ReverseInv`). Each release frees
one ID only because of the last part: a second release of the same session would
find the tuple of its successor. `Locks` says that what the FSM or the application
interface has read is locked and still so; that an unlock of one does not release
the other is what makes it inductive. `NoneAssumption` keeps `None` apart from what
the registers hold.

**`Roce_proofs`.** For every workload, read length, table size and PSN space that
holds the workload (`RoceAssumption`), and any number of faults and expirations.
`RoceInv` is: the PSNs of the requests follow each other (`InPhase`); the list and
the free list of the retransmitter share the table (`ListInv`: there is a sequence of
slots that the links follow and that is disjoint from the free list), without which
an insertion could overwrite a request that awaits its answer; and, until `miscut`,
`Sound`: every packet in a FIFO, in the list or on the network stands for what is left
of the request it names, the responder expects the first packet of a request, and
what it has executed or accepted are the writes before the expected PSN, in order. A
packet the responder accepts is therefore the next request and no other.
`ResponderHonest` needs this part as well: an ACK is true because of it.

`ListCorrect` (`ListFollows`) has an invariant of its own, `Flow`, which holds as long
as `Undisturbed` does and for any depth of the FIFOs. It places everything under way
on one line of positions, the distances of the PSNs from the first: the requests on
their way to the responder and those it has not executed (`Outbound`), the answers it
has queued or sent and the one the requester has loaded (`Inbound`), the answers the
retransmitter has not taken, its list and the requests not yet inserted (`Listed`),
the data that was not stored and the addresses that wait for it (`Reading`), and the
address of the second packet of a write (`Writing`). The queues follow each other
without a gap, so each is known by its length: the list holds the requests
`h + 1, h + 2, ...` up to the first in the insert FIFO, with `h` the number of requests
released, and `h` never runs ahead of the answers. If no response came before its
entry, the head is exactly what is left of the request answered next, and the g-th
address waiting is that of the g-th read to be stored. `Quiet` says that nothing is
retransmitted, and with `Flow` no packet is dropped or taken for a duplicate
(`NothingRepeated`). `RoceAssumption` says that a workload does not begin with the
second packet of a write, which rdma_req_parser never puts first.

**Only model-checked:**

* liveness (`LockGranted`, `TasksAnsweredUntilTerm`) and the two expected
  violations, which are out of the prover's reach or false;
* the session of `Toe` with `SimOpen`, where `BufferKept` fails (section 3), and
  `StreamDelivered`, which the run `ToeFin` refutes: the code keeps no promise about
  the outgoing stream once the FIN was sent.

## 6. Not modelled

* Known, and visible in the code without a model: without partial
  reconfiguration `cService::run` does not start the scheduler and pLock waits for
  ever (`Serving`); a daemon registers the pids of its clients, which
  `fpga_release` of a killed daemon does not find; the SIGTERM handler joins a
  thread that may sit in `read`; `n_pages` is capped without an error.
* `fpga_release` walks the hash without `stat_lock`; the handlers of `DriverPid`
  are atomic.
* Sizes: bitstreams, pages and messages are of one size.
* TOE: header parsing, checksums, the other builds (Nagle with its probe timer,
  reassembly in DDR). RoCE: header layout, alignment, the connection table, more
  than one queue pair, the credits of `rdma_flow.sv`, which count one ACK per
  request.
* The hardware MMU, command path, credits and I/O switch (SystemVerilog), the
  exchange of queue pairs over TCP, cArbiter.
* ARP, DHCP, ICMP, UDP and IP cores, card DMA and striping, example operators
  (data path), PCI, ECI and sysfs code (set-up, register access), the code
  generators.

## 7. Plan

1. **Done:** scheduler and lock, cpid table, bitstream memory, daemon, user memory,
   TCP session, session tables, RoCE queue pair, and the proofs of every safety
   property the passing runs check.
2. `Tlb`: the read and write FSMs of `hw/hdl/mmu` with mutex, miss interrupt and
   restart, composed with the fault handler of `DriverMMU`.
3. The command FIFO and completion counters of cProcess with the configuration
   slave of the hardware; the exchange and barrier of `ibvQpMap`.
