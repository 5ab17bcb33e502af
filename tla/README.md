# A TLA+ verification project for the VPP gateway

The repository builds and runs an IPsec/IKEv2 gateway: shell scripts at its top
level create network namespaces, build VPP from `src/vpp-src/vpp`, and configure
one VPP node whose `ipip0` tunnel is protected by an IKEv2 profile towards a
strongSwan peer. Practically all of the program's own logic is VPP. This project
models the parts of VPP whose correctness rests on what several threads, or two
peers, do at the same time.

Paths below are relative to `src/vpp-src/vpp/src`.

## Inventory

| component | state | operations | hard because |
|---|---|---|---|
| worker barrier (`vlib/threads.c`, `threads.h`) | `wait_at_barrier`, `workers_at_barrier`, `recursion_level`, `node_reforks_required`, the three words of `vlib_workers_sync` | `barrier_sync`, `barrier_release`, `barrier_check`, `node_refork`, `workers_sync`, `workers_continue`, `wait_one_loop` | every thread spins on words the others change; a late decrement is counted by the next barrier |
| main loop (`vlib/main.c`) | loop count, pending frames, process list | one iteration: RPC flush, barrier check, frame queue check, dispatch | the order of those points is what the other protocols rely on |
| RPC to main (`vlibmemory/memclnt_api.c`, `memory_api.c`) | pending and processing vectors, a lock | enqueue, flush, swap, handle | a request lost between flag and queue blocks every later caller |
| FIB entries (`vnet/fib`) | forwarding objects workers point to | install, uninstall, free after a grace period | objects are freed without the barrier |
| frame queue (`vlib/buffer_funcs.c`) | ring of slots with head, tail, valid bits | get slot, enqueue, dequeue, congestion drop | multi-producer ring without a lock; partial dequeue |
| IPsec SA (`vnet/ipsec/ipsec_sa.h`) | sequence number, high half, window bitmap | check, advance, shift | 32-bit wrap, two ESN cases, bitmap as a ring |
| IKEv2 (`plugins/ikev2/ikev2.c`) | IKE SAs, child SAs, message ids, the stored last packet, the IPsec SA database and tunnel protection it writes | init, auth, create child, rekey, informational, delete, the manager process | two peers, lost and repeated packets, retries that overlap late answers, shared IPsec SAs |
| SVM fifo (`svm/svm_fifo.c`, `.h`) | head, tail, chunk list, two lookup trees, out-of-order segments | enqueue in and out of order, dequeue, peek, drop, chunk allocation and collection | a producer and a consumer share the chunk list without a lock |
| session transmit path (`vnet/session`, `vnet/tcp`, `vcl`) | fill level, `has_event`, the notification flags, the worker's and the application's queues | write, epoll, dispatch of transmit events, acknowledgement, notification | two sides that sleep and wake each other by flags |
| message queue (`svm/message_queue.c`) | rings and a queue of descriptors | allocate, add, sub, free | several producers |
| bihash (`vppinfra/bihash_template.c`, `.h`) | bucket words, arrays of pairs, free lists, working copies | add, overwrite, delete, search, split | readers take no lock while pairs and arrays change under them |
| BFD, LACP, VRRP | session and port state machines, timers | packet in, timer, admin change | two peers, loss, timeouts |

The components that are not modelled, each with the reason, are listed in
`PROJECT.json`.

## Modules

| module | models |
|---|---|
| `WorkerBarrier` | the barrier with all its users |
| `MCWorkerBarrier` | instances of it for TLC: two or three workers |
| `WorkerBarrier_proofs` | the inductive invariant and the theorems |
| `WorkersSync_proofs` | the theorem on `vlib_workers_sync`, on top of that invariant |
| `FrameQueue` | frame queues: enqueue, dequeue and the poll of the main loop |
| `HandoffFrame` | how one call splits a frame by thread, for the next and the previous module |
| `HandoffSpec` | what handing off promises: a bounded FIFO per queue main and thread |
| `MCFrameQueue` | an instance of `FrameQueue` for TLC |
| `FrameQueue_proofs` | the inductive invariant of the rings and the theorems on them |
| `Handoff_proofs` | the refinement of `HandoffSpec` by `FrameQueue`, step by step |
| `AntiReplay` | the receive side of an IPsec SA: ESN and anti-replay window |
| `MCAntiReplay` | an instance of it for TLC |
| `AntiReplay_proofs` | the window, the refusals and the lost counter, for every width and size |
| `Ikev2`, `MCIkev2` | two IKEv2 instances, the link between them, and the IPsec SAs and tunnel protection each end installs |
| `SvmFifo`, `MCSvmFifo` | one fifo with its producer and its consumer |
| `SvmFifo_proofs` | the chunk list of a fifo, for every slice, and what its operators compute |
| `SvmStream_proofs` | the bytes and the out-of-order segments of a fifo, for every slice |
| `SessionTx`, `MCSessionTx` | an application writing to a TCP session, the session worker, and the flags and queues between them; the fifo is a byte count |
| `SessionTx_proofs` | no lost event and no lost notification, for every size and threshold |
| `Bihash`, `MCBihash` | a hash table with writers and readers |

Each module covers the words its threads or peers share; what one component uses of
another is in it as what that one promises. `Ikev2` uses the IPsec SA database, whose
receive side is `AntiReplay`. `SessionTx` uses a fifo as a FIFO of bytes with an exact
fill level, which is what `SvmFifo` checks. `FrameQueue` instantiates `HandoffSpec` with
a refinement mapping.

### WorkerBarrier

Shared words have the names of the code. `mpc` is where the main thread is:
`loop` (outside any barrier), `closing` (the spin of `barrier_sync`), `held`,
`opening` and `reforking` (the two spins of `barrier_release`), `initial` (the
spin of the initial barrier), `oneloop` (the spin of `wait_one_loop`), `panic`.
`wpc[w]` is where worker `w` is; each read or atomic update of a shared word is a
step of its own, so a worker that has decided to leave a spin but has not yet
uncounted itself is a state of the model. The sums and comparisons of two
volatile words in `vlib_workers_sync` and `vlib_workers_continue` are two reads,
in either order.

Data is abstracted to what the properties tell apart: the node graph to a
version number (`graph`) and each worker's copy to the version it was taken from
(`clone`); the FIB to one entry that is linked, unlinked or freed, and the set of
workers that hold a pointer to it (`ref`); the loop counts recorded by
`wait_one_loop` to the set of workers whose count has not changed (`behind`);
the RPC vectors to the number of requests in them.

`BootSpec` starts where `start_workers` has launched the threads; `SteadySpec`
starts after startup. A deadline of `BARRIER_SYNC_TIMEOUT` may expire at any time
of a wait (`Deadline`) and ends the process. Memory is sequentially consistent:
the words are `volatile`, the updates are atomic, and the target is x86.

Left out: the hold-down timer, which only delays a close; statistics, event
logs, clocks and performance callbacks; threads that are not workers.
`vlib_worker_thread_barrier_check` is also called from the middle of a node by a
frame queue producer that waits for a slot; no node in the tree asks to wait
(all pass `drop_on_congestion`), so the model checks only at the loop's head.

Bounds: `MaxGraph` graph changes, `MaxRecursion` nesting, `MaxSyncs` calls of
`vlib_workers_sync` between two barrier checks of a worker. Two graph changes
show a refork after a refork; nesting beyond two repeats the same code; three
workers are the fewest with one that enters, one that leaves and one that
watches. The code does not limit the calls of `vlib_workers_sync` in an iteration (a
session pool and a connection pool may both grow), so `MaxSyncs` is 2: the second call is
the one that can meet what the first left behind. `barrier_liveness` has two workers.

Fairness (`Fairness`): every worker is a thread of its own that polls, so its
steps are weakly fair; so are main's exits from its spins and the release that
ends a barrier section, because a section is a finite piece of code. `HandleRpc`
is strongly fair: the API process is signalled in every main loop iteration that
finds requests (`memclnt_queue_callback`), whatever main does in between.
`BarrierSync` and the route operations are not fair: nobody has to call them. The
liveness runs have no deadline, so that an abort is not taken for progress.

### FrameQueue

`elts`, `head` and `tail` are those of `vlib_frame_queue_t`, one ring per queue main
and thread. An element is a valid flag and the packets still in it: `pkts` stands
for `buffer_index` from `offset` on, `n_vectors` long. The other variables are the
thread's flag and counter for polling and the locals of
`vlib_buffer_enqueue_to_thread_inline` and `vlib_frame_queue_dequeue_inline`. `pc`
is where a thread is; every access to a word that two threads use is a step:

- producer: `LoadTail`, `Room`/`Congested`/`Drop` (the read of `head`), `Claim` (the
  compare-and-swap), `Fill`, `Publish`, `Notify`, `FreeDropped`;
- owner: `LoopHead`, `ClearCheck`, `Copy` or `DequeueNone`, `ResetElt`, `BumpHead`,
  `DequeueEnd`.

`delivered` and `freed` record what became of each packet. Memory is sequentially
consistent, as above. A packet has the thread that received it and a number; which
thread it goes to is arbitrary (`Routes` says which are possible). Left out: traces,
event logs, the two debug commands that change a live ring, the
auxiliary data on the dequeue side, and the barrier checks of a producer that waits.

`HandoffSpec` has neither rings nor flags: a frame is split by thread, each part is
appended to a FIFO or dropped when the FIFO is full, and the owner takes packets
from the front. In the refinement mapping an element is queued from the moment its
slot is claimed (its packets are those its thread is about to write), a drop happens
when the packets enter the drop list, and the owner's unfinished frame counts as
delivered.

Bounds: rings of 3 elements (64 by default), of which 2 can be in use, frames of 2 packets
(256), `VectorThreshold` 3 (so that a poll ends early), `CheckCount` 1 (100), three packets
from one source and one from the other. This is enough for a ring to be full, for two
elements to be claimed in one order and published in another (one by each thread, on the
ring of `a`), and for one to be taken in parts. The code insists on a power of two, to index
with a mask; the model takes the remainder, which is the same and lets a ring of three stand
for the smallest one with two elements in use. By the first
queue main `a` hands packets to `b` and to itself and `b` one to `a`, and packets that find
a full ring are dropped; by the second `a` hands packets to `b` and waits for room.

Fairness: every thread is weakly fair, as it has a core of its own and polls.

### AntiReplay

`seq`, `seq_hi`, `lost` and `flags` are the SA's; `window` is the set of bits that
are 1 in `replay_window` (shifted) or `replay_window_huge` (a ring), depending on the
flag. Init chooses any combination of flags the code allows. `Receive` is the first
check of `esp_decrypt_inline` (and of `ah_decrypt_inline`, which does the same),
`PostAccept` and `PostDrop` are the second one in `esp_decrypt_post_crypto`, with the
advance of the window and the lost counter. `flight` holds the packets in between;
they are finished in the order they were received, while others may still arrive,
which covers both whole frames and asynchronous engines. Decryption succeeds if the
high half used is the sender's. `accepted` records all numbers accepted, and `stray`
whether one of them was left of the window when it was (`LeftBehind`): a frame may hold
packets from both sides of a wrap, and the second check does not stop such a packet if it
is of the epoch before. From then on a bit of the window may stand for it.

`WindowShift`, `NLost` and `Cleared` follow `ipsec_sa_anti_replay_window_shift`:
`Cleared` is the word-by-word walk over a huge window, with the first, the full and the
last word. A shift by the width of the word or more is undefined in C; the model takes
what x86 and Arm do, a count modulo the width. `Bmi2` selects the build.

Words are scaled down: `SeqMod` 32 for 2^32, `UwordBits` 4 for 64, `HugeSize` 8,
`WrapDistance` a quarter of `SeqMod` as in the code. An SA starts at one of four
numbers (new, a few packets old, just before and just after a wrap) with everything
before it received, and receives three packets between `Behind` 9 before and `Ahead`
10 after its newest number: left of the window, in it, next to it, and a jump of more
than a window. The invariants quantify over all numbers that may come next, so three
arrivals mean every packet after any three.

`WordAssumption` and `ArrivalAssumption` say what the proofs need and the code has: the
huge window is a whole number of words, sequence numbers have two words, and no packet is
so old that it comes round the whole number space.

A packet whose payload type is not supported leaves `esp_decrypt_post_crypto` before
the lost counter is updated; packets of the model have a supported payload.

### Ikev2

`peer[p]` is one instance: its pool of IKE SAs (`sas`), the pending ones (`sais`),
`sa_by_rspi` (`byr`), the IPsec SA database with its lock counts (`sad`) and the
protection of the tunnel (`prot`). For the properties it also keeps the SPIs for which a
late SA_INIT response made an SA (`late`) and whether the process has ended because it read
a stored packet that was not there (`crashed`, set by `Crash`; it then starts afresh). Every handler is a function from an instance to an
instance and the packets it sends, named after the code; the actions are `Receive` (a
packet through `ikev2_node_internal`), `Tick` (a pass of the manager process), the
commands `Initiate`, `Rekey`, `DeleteChild`, `DeleteIke`, and the link: `Lose`,
`Duplicate`, `Cut`. SPIs, nonces and keys are numbers drawn in order; a key is known by
the nonce it comes from; integrity, identities and proposals are one verdict per
behaviour. A stored last packet, the resend of it for a repeated message id, the three
counters of the manager (retries of a rekey, keepalives, the countdown of the old id)
and the two ids an inbound SA alternates between are all there.

Assumed: one thread handles IKE (the code hands packets to it), the peers are both this
code, no NAT, the configured ids do not clash. In `ike_tunnel` the operator and the retry
timer are patient (`Patient`): they start nothing while an answer is on its way. Bounds:
`LivenessRetries`, `RekeyRetries` 1 (3), `OldIdTicks` 0, draws and requests as in the cfg,
two packets on a link, and two faults of the network (`MaxFaults`), each a packet lost,
repeated or overtaken by a later one. Loss and repetition are of the oldest packet on the
way; a later one becomes the oldest. That is one rekey with a lost answer, a repeated
request after it, a repeated SA_INIT response that arrives after the pending SA is gone, an
expiry, a deletion from either side and a re-initiation.

Fairness: once the link is cut, a pass of the manager with its timers due (`DueTick`) is
weakly fair for each instance, because the manager process wakes up every two seconds.
Before the cut nothing is assumed of it, and of the link and the operator never.

### SvmFifo

Bytes are their positions in the stream, so that "the right byte" is a fact of the
state. The calls are cut where the other side can look: the producer loads `head`,
allocates chunks, copies, and stores `tail`; the consumer loads `tail`, copies, unlinks
chunks, and stores `head`. `chunk` is the memory of the segment's chunks, `free` those
not in the fifo, `enq_tree` and `deq_tree` the two lookup trees (as sets of chunks),
`ooo_segments` the out-of-order list in order. A behaviour is one of three kinds of
fifo, as the session layer uses them: a receive fifo (out-of-order enqueues), a transmit
fifo (peeks and drops), a plain one. The allocator may fail at any time, and a chunk
loses its content when it is freed. Positions wrap at `W` (2^32): 18 here, which a few
calls reach, and the stream goes on.

`ConstantsOK` keeps the list below half the position space: with 2^32 positions, the size
of the fifo, its `min_alloc` and two chunks are together less than 2 GiB. The signed
comparisons (`f_pos_lt`) mean nothing beyond that. `FIFO_SEGMENT_MAX_FIFO_SIZE` is exactly
2 GiB, so the one case left out is a fifo within two chunks of the largest one a segment
would give.

Bounds: size 4 in chunks of 2 bytes, writes of 1 and 3 bytes at offsets 0 to 3, reads
of 1 and 4, peeks at 1 (the proofs are for every offset). Chunks are crossed, filled exactly, and exceeded; segments
touch, overlap, contain and collect each other.

Not in the model: `svm_fifo_set_size`, `segments` and `overwrite_head`, subscribers
(the notifications are in `SessionTx`). Stores of one thread are seen in order (x86). A
peek at exactly the fill level, which `svm_fifo_peek` accepts and which returns 0 bytes
(`svm_fifo_test.c:455` does it), is not in the model either: it copies nothing, but it looks
for the chunk of a position for which there may be none yet.

### SessionTx

The writer looks at the fifo, enqueues, sets `has_event` and posts an event; the worker
takes the event, clears and looks again; acknowledgements drop bytes and decide from the
two request flags, the fill level and `has_deq_ntf` whether to notify. Each of these
reads and writes is a step. A behaviour has one mode: `block` (a blocking write), `epoll`
(registered for EPOLLOUT before the first write) or `mod` (registers with
`EPOLL_CTL_MOD` when a write would block). The transport is a window that opens and
closes; `OpenAck` is the peer, which acknowledges what it got and does not shrink its
window.

Fairness: the application's steps are weakly fair, and so is the rest of a handler the
worker has begun. That it serves its message queue and its list of transmit events is
strongly fair: it polls both in every loop, whatever else it does in between. So is the
peer's acknowledgement, because retransmission and the persist timer, which are not
modelled, stand behind it. Not modelled: pacing, buffer
shortage, congestion recovery, a full message queue, closing, datagrams, cut-through
sessions.

Bounds: a fifo of 2, 5 bytes to send, a window of at most 2, a notification threshold of
1: the fifo fills and drains completely several times.

### Bihash

`buckets` are the bucket words, `mem` the arrays by offset, those next to a bucket and
the writers' working copies included. Writers store value and key of a pair apart,
publish words, and free arrays in the order of the code; a section under the allocation
lock is one step unless readers can see into it. A reader checks for an empty bucket,
waits for the lock, loads the offset, loads the flags, and compares keys one by one;
the compiled search loads the word again for each field, which C allows. A freed pair
keeps its key. The first word of a freed array is the link of its free list. A reader
that looks beyond an array sees an empty pair. A call that spins on the lock has not
begun.

`map` is what the table should hold. A search may find the value of any moment while it
ran; a change takes place with the store that makes it visible, and until its call
returns the old state counts as well (`before`).

Bounds: two buckets, one pair to a page, three keys in one bucket of which two collide
for ever and the third leaves with the first split, one in the other; four calls and one
search; two values, of which each writer stores its own (`Stores`), so that an add by the
other writer changes a value. That includes a split, a resplit, the linear fallback, a second split of a
linear bucket, the way back to an empty bucket, an array taken from the free list, and
both values of `BIHASH_KVP_AT_BUCKET_LEVEL`. The two colliding keys are
interchangeable, and so are the two writers with their values (`SYMMETRY`). A search that is
done keeps only whether its result is one the key had (`exact`) and whether the key was
there all the time (`present`).

Not in the model: big arrays returned to the heap, lazy instantiation, iteration, the
shared-memory variant, statistics, and the 16 bits of the reference count.

## Runs

| run | shows |
|---|---|
| `barrier_safety` | three workers, everything enabled after startup: the six safety properties and the type invariant |
| `barrier_liveness` | with every kind of wait enabled: barriers close and open; `SyncServed`: `vlib_workers_sync` is served while main is not held up in `wait_one_loop`; `OneLoopReturns`: main is held up there only by a worker that waits in `vlib_workers_sync` |
| `barrier_startup` | both initial barriers: startup completes |
| `handoff` | two threads hand off to each other and themselves, dropping on one queue main and waiting on the other: elements are never shared, no packet is lost, the rings implement `HandoffSpec` (order, drops only when full), and every packet is delivered or freed |
| `replay_window` | all kinds of SA, frames that hold a wrap included. `NoReplay`: no replay is accepted but one of the epoch before that a packet of its own frame has left behind the window; until a packet behind the window is accepted no fresh packet is refused and window, shown word and lost counter are exact |
| `ike_tunnel` | `SaIndexed`: a packet finds its SA, unless a late SA_INIT response has made another one for its SPI; `TunnelExact`: the tunnel has one owner, is protected by exactly its IPsec SAs with the right SPIs and keys, and nothing is left behind; `Agreement`: both ends hold the same child SA; `DeadPeerGone`: a dead peer's tunnel goes |
| `ike_rekey_window` | violation: see finding 1 |
| `fifo_stream` | `ReadExact`, `StreamIntact`: every byte that is or can be read is the right one; `ChunksConserved`; `OooExact`: the out-of-order list is exactly what was written ahead |
| `session_wakeup` | `TxCovered`: bytes in the fifo always have an event, a window to wait for, or somebody about to look; `WriterCovered`: so has a writer registered from the start; `AllDelivered`: its bytes all arrive |
| `session_lost_wakeup` | violation: see finding 2 |
| `bihash_table` | `TableExact`: an unlocked bucket holds exactly what it should; `ArraysConserved`: no array is lost or in two places; `PresentFound`: a reader that stays with the old array of a split finds every key that stays |
| `bihash_torn_search` | violation: see finding 3 |

`barrier_safety` and `barrier_liveness` do not check for deadlock because the system can
stop in them: that is the third item under "Described by a property". The runs of `AntiReplay`,
`Bihash` and `Ikev2` end when their bounded packets, calls and draws are used up, those of
`SessionTx` when all is sent or a writer sleeps for good (finding 2).
Workers are interchangeable, so `barrier_safety` uses symmetry.

Each property of a passing run has a fault: a definition named in a comment that
starts with "Fault:", placed before the definition it is a variant of, under which
the property fails. No specification uses it.

## Findings

1. A CREATE_CHILD_SA response is taken for the answer to the last rekey request,
   whatever its message id. After two requests in a row the answer to the first is
   installed with the SPI of the second, and the ends no longer match. It takes an
   impatient operator or retry timer; also a patient one can meet it, when an answer is
   lost and the retry is repeated by the network, because the responder resends its
   stored answer to the earlier request.
2. `EPOLL_CTL_MOD` (and `EPOLL_CTL_ADD`, `select` and a blocking write) look whether the
   fifo is full and then ask to be notified. A dequeue in between that takes everything
   notifies nobody, the request is for the next dequeue, and there is none: the writer
   sleeps with an empty fifo.
3. A bihash search loads the offset of a bucket and its flags apart. With a split in
   between it looks on the wrong page of the old array and misses a key that was in the
   table all the time, although the documentation says readers need no lock. Two further
   ways for a search to go wrong are left out of `PresentFound`: the old array is freed,
   its first key overwritten by a link and refilled while a slow reader still scans it;
   and the value of a new pair, stored before its key, is visible for a moment under a
   deleted key that was left in the slot.

Described by a property of a run, as its one exception:

- `NoReplay`: in a frame with packets from both sides of a wrap, the second check takes a
  packet of the earlier epoch left of the window for a good one, because it does not compare
  the high half the packet was decrypted with. A replay of such a packet is accepted.
- `SyncExclusive`: a second `vlib_workers_sync` between two barrier checks of a worker
  counts another worker that is already leaving `vlib_workers_continue`, and returns while
  that one goes on to the barrier.
- `OneLoopReturns`: `vlib_worker_wait_one_loop` without the barrier (the route API is marked
  thread safe) and `vlib_workers_sync` wait for each other for ever.
- `SaIndexed`, `TypeOK` of `Ikev2`: a late SA_INIT response makes an SA without keys under
  the index entry of the real one. A request with message id 0 for it counts as repeated, and
  the answer is copied from a stored packet that does not exist (`ikev2.c:3045`).

Without a run of their own. The first four were met with the constants given, and can be
seen again by checking the named property with them:

- `WorkerBarrier`, `BootSpec`, `ParkedWhileHeld`:
  `vlib_worker_thread_initial_barrier_sync_and_release` opens the barrier without waiting
  for the workers to leave. A process that takes the barrier right after it can hold it
  while a worker runs (`threads.h:212` asserts that this cannot be).
- `FrameQueue`, `WithAux` TRUE, `NoneLost`: the auxiliary data of dropped packets is
  collected in the same list as the packets, over them; the packets are leaked and the
  auxiliary words are freed as buffers.
- `AntiReplay`, `Bmi2` FALSE, `FreshPasses`: `pow2_mask (64)` is 0, and a huge window that
  moves by 64 from a word boundary keeps the bits of the word it should clear.
- `Ikev2`, `Patient` FALSE, `TunnelExact`: a command given while an answer is on its way
  changes the child SA the answer is for.
- After a lost rekey answer every retry names the SPI the responder has replaced; it never
  answers, the initiator gives up the child SA, and the tunnel stays down until the IKE SA
  goes. Half-open SAs of a responder and failed ones never expire. A repeated request is
  answered with the last packet generated, also when that was a request.
- `svm_fifo_dequeue_drop_all` can leave an exhausted, unlinked first chunk in the lookup
  tree for dequeues; the calls that follow do not use it.
- A ring of `frame_queue_nelts` elements takes one frame fewer than that, whereas
  `vlib.rst` says the size is "the number of frames which may be queued". A caller that
  does not drop on congestion and hands packets to its own thread, or in a circle, waits
  for ever; no caller in the tree does that. `vlib_frame_queue_main_init` chooses the
  dequeue function from the node of `fqm->node_index` before it sets that field
  (`threads.c:1654`).
- Without ESN, `seq + window_size` wraps for the last `window_size` numbers, and late
  packets among them are refused (`FreshPasses` leaves them out). With ESN and without
  anti-replay, late packets of the previous epoch are decrypted with the wrong high half.

## Proofs

`WorkerBarrier_proofs` proves, for every finite non-empty set of workers and every
value of the bounds, that `SteadySpec` keeps `TypeOK`, `ParkedWhileHeld`,
`NoStaleClone`, `ReforkIsolated`, `NoUseAfterFree` and `SyncRequested`.

None of them is inductive. `IInv` adds what the code relies on without saying so:

- `Counters`: each counter equals the number of workers between its increment and
  its decrement. That `workers_at_barrier = N` means "all parked" needs this and
  the next part.
- `MainPoint`: where workers can be for each point of main. While main closes the
  barrier no worker is on its way out of the previous one, because release waited
  for the count to be 0; this is what the initial barrier lacks.
- `ReforkCount`: the workers that owe a clone are exactly those counted, and while
  one does, none has gone back to its loop.
- `CloneInv`, `RefInv`, `RpcInv`: who may have an old clone, who may hold a
  pointer, and that a raised `wait_before_barrier` stands for a request.

`GotoCount` is the lemma behind all counting: how the number of workers at a set of
points changes when one moves. The assumptions are those of the module
(`WorkersAssumption`, `BoundsAssumption`).

`WorkersSync_proofs` proves `SyncExclusion`: `SteadySpec` keeps `SyncExclusive`, for any
number of workers and of calls in an iteration. `SyncInv` is inductive relative to `IInv`:

- `InSync`: a worker inside a call has been counted for it, and main is closing the barrier;
- `ReadInv`: a sum or comparison of two words that are read one after the other can
  be out of date; the value read first is still a bound for the current one;
- `StoppedInv`: once one worker has found all others stopped, either all are
  (`AllStopped`), or each has finished a call and is on its way to the barrier, there, or in
  a further call (`Draining`): the case of the exception.

`DoneLess` and `AllCounted` turn the equality of counters that the code tests into a
statement on where each worker is.

`SessionTx_proofs` proves `TypeOK`, `TxCovered` and `WriterCovered` for every fifo size,
threshold and amount of data. Both say what holds when nobody is inside a call; `IInv` says
it for every step of every call: `has_event` stands for an event that is queued, about to
be posted or the transport's to queue (`EventOK`, `TransportOwns`), unsent bytes without it
are about to be noticed (`BytesHaveEvent`), and a sleeping writer in front of a fifo with
room is owed a notification by the handler that made the room (`SleeperOK`).

`FrameQueue_proofs` proves `TypeOK` and `RingSafe` for every set of threads and queues and
size of ring, frame and packet set. The parts of `IInv`:

- `ProducerOK`: the tail a producer has read is not ahead of the ring's, there is still
  room for the element it is about to claim if nobody else has moved the tail (`head` only
  grows), and what it has claimed lies on the ring and is not valid;
- `OwnerOK`: the element the owner gives back is its oldest, taken to the last packet;
  once reset nobody has claimed it;
- `ClaimsApart`: no two threads have claimed the same element, which is what the
  compare-and-swap is for;
- `RingOK`: `RingSafe` without the counting: elements between `head` and `tail` are valid,
  claimed or about to be given back, the others empty;
- `LocalOK`: the locals of a thread inside and outside its two loops.

`Handoff_proofs` proves that `FrameQueue` implements `HandoffSpec` (`Refinement`) and, from
it and the abstract invariant `Accounted`, that no packet is lost (`NothingLost`). Each
action is a stutter but the claim (the abstract enqueue), the three ways to drop, the
frame's end and the copy out of an element (the abstract dequeue). That the claim
appends at the end and the copy takes the front is where `RingSafe` is used. The hypothesis
is `~WithAux`: with auxiliary data dropped packets are leaked (see above), and both
theorems are false.

What `clib_compress_u32` selects (`CompressProperties`) is an induction over data. It goes
through because the induction is on the least element of a set (`Induct`, from the
well-foundedness of the naturals), which takes no operator as a parameter.

`AntiReplay_proofs` proves, for every word width, window size, epoch and mix of arrivals,
`TypeOK` without a hypothesis, and, if `Bmi2`,

- `NoReplay`: no sequence number is accepted twice, but for a packet of the epoch before the
  newest that is left of the window;
- `WindowExact`: the numbers accepted among the last `window_size` have their bits in the
  window, no others until a packet left of the window is accepted, and so for the word shown
  to a client;
- `FreshPasses`: a number in or ahead of the window that was not accepted yet is not
  refused, and is decrypted with the right high half;
- `LostExact`: the lost counter is the number of packets that are too old and were never
  accepted.

`FreshPasses` and `LostExact` hold until a packet left of the window is accepted. The
hypothesis is needed: without it TLC refutes one of the invariants (see above).
`IInv` adds `EpochOK` (without ESN the high half stays 0), `AcceptedOK` (no accepted number
is newer than the newest), `WindowOK` (the window as above), and `FlightOK`: a packet in
flight that will decrypt is less than a turn of the low half behind the newest number and
less than a turn ahead of the window's lower bound (`Near`), and no packet before it will
move the window further than that. So the second check, which sees only low halves, takes
it for what it is, or for a packet ahead while it is left of the window: the exception.
The heart is `ClearedTurn`: the word-by-word walk clears exactly the places of the numbers
that enter the window, for every position of the old and new number in their words.
`NLostCount` counts bits and numbers by a bijection.

`SvmFifo_proofs` proves `ChunksConserved` for every finite set of chunks of any lengths.
The list from a chunk is the least set that holds it and that `next` does not leave
(`ListLeast`; a walk of as many steps as there are chunks meets them all, by the pigeonhole
principle), and from there on no proof looks at a walk again. `ListInv` adds that the list
ends, and with `end_chunk` (`EndsOK`): then the chunks from any chunk of it on hold the end
(`ListEnd`), so the consumer never takes away the chunk the producer links to. The rest of
the module is what the operators compute, once and for all, in integers instead of numbers
modulo `W`: `Compared` and `Counted` for positions, `AddOK` and `CollectOK` for the
out-of-order list (the bytes covered before and after), `FindNext`, `StopOK`, `CopyToOK` and
`CopyFromOK` for a list whose chunks follow each other without a gap (`Placed`).

`SvmStream_proofs` proves the other four invariants of the fifo, `TypeOK`, `OooExact`,
`StreamIntact` and `ReadExact`, for every set of chunks, lengths of chunks, size, `min_alloc`
and lengths and offsets of calls that satisfy `ConstantsOK`. None of them is inductive: a
read is right because the pointers are, the pointers are because the amounts are. `FifoInv`
has these three layers.

- `AmountInv` places everything on the list, counted from its first byte (`Place`): head,
  tail, the segments, and how far the call in progress may still go. `Used` counts what a
  consumer has taken but not yet published, because the producer still sees the old head:
  room is what the producer computed from a stale head, and stays enough. The bound on the
  list (`Total`) is what keeps the signed comparisons right.
- `PointerInv`: `tail_chunk` and `head_chunk` hold the tail and the head or are null, the
  lookup trees are the chunks of the list without a gap from `tail_chunk` (or `start_chunk`)
  on, up to the last segment at most (`EnqReach`; this is why emptying the tree with the list
  of segments loses nothing). After `svm_fifo_dequeue_drop_all` the tree of the peeks may
  hold freed chunks; the connection is gone by then, which `DeqOK` says.
- `DataInv`: a byte between head and tail, or in a segment, is the byte of its position.

A copy writes only outside what must be kept, an unlink frees only chunks the head has
passed, and a tail that collects segments takes in exactly what was written.

What stays with TLC: liveness under fairness and `ENABLED` (`AllConsumed`, `AllDelivered`,
`WriterWoken`, the liveness of the barrier, `DeadPeerGone`), which are out of the prover's
reach; the invariants of `Ikev2`, whose handlers fold over the pool of SAs and whose
agreement depends on the whole content of the link; and those of
`Bihash`, whose arrays are rebuilt by folds over all pairs and whose bound on array sizes
belongs to the instance.

## Not modelled

BFD, LACP and VRRP are state machines of two or more peers with timers, of the kind of
`Ikev2`; they come next if the project grows. The message queue is a ring under a lock, or
under a spinlock for several producers; `SessionTx` uses it as a queue that does not
overflow. The timer wheel, the SPD and the ESP and AH transformations, NAT, ACL and most
plugins are tables and transformations of packets with little interleaving of their own.
Drivers, the statistics segment, the CLI, generated API code and the shell scripts of the
test bed are input and output. `PROJECT.json` lists them all.

## Plan

1. Proofs: `ArraysConserved` of `Bihash` (its free lists must first be kept for every size of
   an array, not up to the bound of the instance), `SaIndexed` of `Ikev2`.
2. The sending side of an SA and the binding of an SA to a thread by
   compare-and-swap and handoff, which would compose `AntiReplay` with `FrameQueue`.
3. `MsgQueue`, and the receive side of a session, which would compose it with `SvmFifo`.
4. `Bfd`, `Lacp`, `Vrrp`.
