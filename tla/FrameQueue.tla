----------------------------- MODULE FrameQueue -----------------------------
(***************************************************************************)
(* Handing buffers from one thread to another: the frame queues of vlib    *)
(* (src/vpp-src/vpp/src/vlib/buffer_funcs.c, threads.h) and the part of    *)
(* the main loop that polls them (vlib/main.c).                            *)
(*                                                                         *)
(* Every thread has one input ring per frame queue main (fqm).  Any thread *)
(* puts packets on any ring, its own included: it claims an element by a   *)
(* compare-and-swap of tail, fills it, marks it valid and sets the owner's *)
(* check_frame_queues flag.  Only the owner takes elements off.            *)
(*                                                                         *)
(* Each access to a word that two threads use is a step; memory is         *)
(* sequentially consistent.  The remaining part of an element's            *)
(* buffer_index (from offset, n_vectors long) is the sequence pkts; traces *)
(* and counters are left out.                                              *)
(***************************************************************************)
EXTENDS Naturals, Sequences, FiniteSets, HandoffFrame

CONSTANTS
    Threads,            \* the threads that run the main loop
    NFqm,               \* number of frame queue mains
    Routes,             \* Routes[t][k]: the threads t hands packets to by main k
    Nelts,              \* elements of a ring (frame_queue_nelts)
    FrameSize,          \* VLIB_FRAME_SIZE
    VectorThreshold,    \* vector_threshold
    CheckCount,         \* iterations the rings are polled after the last
                        \* packet (100 in vlib_main_or_worker_loop)
    MaxPackets,         \* bound: packets each thread receives to hand off
    DropOnCongestion,   \* drop_on_congestion of each queue main's caller
    WithAux             \* the callers are of the _with_aux kind

\* (vlib_frame_queue_alloc takes powers of two only, to write n & (Nelts - 1)
\* for n % Nelts; nothing here depends on it.)
ASSUME RingAssumption ==
    /\ Nelts \in Nat \ {0, 1}
    /\ NFqm \in Nat \ {0}
    /\ FrameSize \in Nat \ {0}
    /\ VectorThreshold \in Nat \ {0}
    /\ CheckCount \in Nat \ {0}
ASSUME ThreadsAssumption ==
    /\ Routes \in [Threads -> [1 .. NFqm -> SUBSET Threads]]
    /\ MaxPackets \in [Threads -> Nat]
ASSUME CallerAssumption ==
    DropOnCongestion \in [1 .. NFqm -> BOOLEAN] /\ WithAux \in BOOLEAN

Fqms    == 1 .. NFqm
Queues  == Fqms \X Threads
Packets == Threads \X Nat

\* The auxiliary word that goes with packet p, taken for a buffer index.
AuxOf(p) == << "aux", p >>
Aux      == {"aux"} \X Packets

VARIABLES
    \* a ring: vlib_frame_queue_t
    elts, tail, head,
    \* per thread
    check_frame_queues, frame_queue_check_counter,
    pc,
    received,           \* packets handed to a handoff node so far
    fqm,                \* the queue main being polled
    \* locals of vlib_buffer_enqueue_to_thread_inline
    frame,              \* packets not yet enqueued, each with its ring
    my_tail, drop_list,
    \* locals of vlib_frame_queue_dequeue_inline
    f, vectors, processed,
    \* what became of the packets
    delivered,          \* put into frames for the queue's node, in order
    freed               \* what was passed to vlib_buffer_free

ringVars == << elts, tail, head >>
flagVars == << check_frame_queues, frame_queue_check_counter >>
enqVars  == << frame, my_tail, drop_list >>
deqVars  == << f, vectors, processed >>
outVars  == << delivered, freed >>
vars     == << ringVars, flagVars, pc, received, fqm, enqVars, deqVars, outVars >>

Pcs == {"loop", "clear", "deq", "reset", "bump", "deqend", "dispatch",
        "tail", "full", "wait", "cas", "fill", "valid", "notify", "free"}

TypeOK ==
    /\ elts \in [Queues -> [0 .. Nelts - 1 -> [valid : BOOLEAN, pkts : Seq(Packets)]]]
    /\ tail \in [Queues -> Nat]
    /\ head \in [Queues -> Nat]
    /\ check_frame_queues \in [Threads -> BOOLEAN]
    /\ frame_queue_check_counter \in [Threads -> 0 .. CheckCount]
    /\ pc \in [Threads -> Pcs]
    /\ received \in [Threads -> Nat]
    /\ fqm \in [Threads -> Fqms]
    /\ frame \in [Threads -> Seq([pkt : Packets, to : Queues])]
    /\ my_tail \in [Threads -> Nat]
    /\ drop_list \in [Threads -> Seq(Packets \cup Aux)]
    /\ f \in [Threads -> Seq(Packets)]
    /\ vectors \in [Threads -> Nat]
    /\ processed \in [Threads -> Nat]
    /\ delivered \in [Queues -> Seq(Packets)]
    /\ freed \in SUBSET (Packets \cup Aux)

\* vlib_frame_queue_alloc
EmptyElt == [valid |-> FALSE, pkts |-> << >>]

Init ==
    /\ elts = [q \in Queues |-> [i \in 0 .. Nelts - 1 |-> EmptyElt]]
    /\ tail = [q \in Queues |-> 0]
    /\ head = [q \in Queues |-> 0]
    /\ check_frame_queues = [t \in Threads |-> FALSE]
    /\ frame_queue_check_counter = [t \in Threads |-> 0]
    /\ pc = [t \in Threads |-> "loop"]
    /\ received = [t \in Threads |-> 0]
    /\ fqm = [t \in Threads |-> 1]
    /\ frame = [t \in Threads |-> << >>]
    /\ my_tail = [t \in Threads |-> 0]
    /\ drop_list = [t \in Threads |-> << >>]
    /\ f = [t \in Threads |-> << >>]
    /\ vectors = [t \in Threads |-> 0]
    /\ processed = [t \in Threads |-> 0]
    /\ delivered = [q \in Queues |-> << >>]
    /\ freed = {}

Goto(t, p) == pc' = [pc EXCEPT ![t] = p]

\* fq->elts + (n & (nelts - 1)), nelts being a power of two
Slot(n) == n % Nelts

Set(s) == {s[i] : i \in 1 .. Len(s)}


-----------------------------------------------------------------------------
(* vlib_buffer_enqueue_to_thread, called by a handoff node of thread t.     *)

\* The ring the next element goes to and its thread: those of the first
\* packet not yet handled.
Ring(t)   == frame[t][1].to
Target(t) == Ring(t)[2]

\* A handoff node is dispatched with a frame of packets.
Handoff(t) ==
    /\ pc[t] = "dispatch"
    /\ \E n \in 1 .. FrameSize, k \in Fqms :
        /\ received[t] + n <= MaxPackets[t]
        /\ received' = [received EXCEPT ![t] = @ + n]
        /\ \E to \in [1 .. n -> Routes[t][k]] :
              frame' = [frame EXCEPT ![t] =
                  [i \in 1 .. n |-> [pkt |-> << t, received[t] + i >>, to |-> << k, to[i] >>]]]
    /\ Goto(t, "tail")
    /\ UNCHANGED << ringVars, flagVars, fqm, my_tail, drop_list, deqVars, outVars >>

\* vlib_get_frame_queue_elt: tail = __atomic_load_n (&fq->tail)
LoadTail(t) ==
    /\ pc[t] = "tail"
    /\ my_tail' = [my_tail EXCEPT ![t] = tail[Ring(t)]]
    /\ Goto(t, "full")
    /\ UNCHANGED << ringVars, flagVars, received, fqm, frame, drop_list, deqVars, outVars >>

\* Fault: the ring is taken for full one element too late.
RingFullLate(t) == my_tail[t] + 1 > head[Ring(t)] + Nelts

\* new_tail >= fq->head + nelts
RingFull(t) == my_tail[t] + 1 >= head[Ring(t)] + Nelts

\* There is room,
Room(t) ==
    /\ pc[t] \in {"full", "wait"}
    /\ ~RingFull(t)
    /\ Goto(t, "cas")
    /\ UNCHANGED << ringVars, flagVars, received, fqm, enqVars, deqVars, outVars >>

\* or none and the caller waits for it (with barrier checks),
Congested(t) ==
    /\ pc[t] = "full"
    /\ RingFull(t)
    /\ ~DropOnCongestion[Ring(t)[1]]
    /\ Goto(t, "wait")
    /\ UNCHANGED << ringVars, flagVars, received, fqm, enqVars, deqVars, outVars >>

\* or none and the packets go to the drop list, overwritten there by the
\* auxiliary data if there is any.
Drop(t) ==
    /\ pc[t] = "full"
    /\ RingFull(t)
    /\ DropOnCongestion[Ring(t)[1]]
    /\ LET g == Group(frame[t])
       IN  drop_list' = [drop_list EXCEPT ![t] =
               @ \o IF WithAux THEN [i \in DOMAIN g |-> AuxOf(g[i])] ELSE g]
    /\ frame' = [frame EXCEPT ![t] = Rest(@)]
    /\ Goto(t, IF Rest(frame[t]) = << >> THEN "free" ELSE "tail")
    /\ UNCHANGED << ringVars, flagVars, received, fqm, my_tail, deqVars, outVars >>

\* Fault: the element is claimed with a plain store.
ClaimStored(t) ==
    /\ pc[t] = "cas"
    /\ tail' = [tail EXCEPT ![Ring(t)] = my_tail[t] + 1]
    /\ Goto(t, "fill")
    /\ UNCHANGED << elts, head, flagVars, received, fqm, enqVars, deqVars, outVars >>

\* __atomic_compare_exchange_n (&fq->tail, &tail, new_tail), or retry
Claim(t) ==
    /\ pc[t] = "cas"
    /\ \/ /\ tail[Ring(t)] = my_tail[t]
          /\ tail' = [tail EXCEPT ![Ring(t)] = my_tail[t] + 1]
          /\ Goto(t, "fill")
       \/ /\ tail[Ring(t)] # my_tail[t]
          /\ tail' = tail
          /\ Goto(t, "tail")
    /\ UNCHANGED << elts, head, flagVars, received, fqm, enqVars, deqVars, outVars >>

\* buffer_index and n_vectors of the element
Fill(t) ==
    /\ pc[t] = "fill"
    /\ elts' = [elts EXCEPT ![Ring(t)][Slot(my_tail[t] + 1)].pkts = Group(frame[t])]
    /\ Goto(t, "valid")
    /\ UNCHANGED << tail, head, flagVars, received, fqm, enqVars, deqVars, outVars >>

\* __atomic_store_n (&hf->valid, 1)
Publish(t) ==
    /\ pc[t] = "valid"
    /\ elts' = [elts EXCEPT ![Ring(t)][Slot(my_tail[t] + 1)].valid = TRUE]
    /\ Goto(t, "notify")
    /\ UNCHANGED << tail, head, flagVars, received, fqm, enqVars, deqVars, outVars >>

\* Fault: the owner of the ring is not told.
NotifyNobody(t) ==
    /\ pc[t] = "notify"
    /\ check_frame_queues' = check_frame_queues
    /\ frame' = [frame EXCEPT ![t] = Rest(@)]
    /\ Goto(t, IF Rest(frame[t]) = << >> THEN "free" ELSE "tail")
    /\ UNCHANGED << ringVars, frame_queue_check_counter, received, fqm, my_tail,
                    drop_list, deqVars, outVars >>

\* check_frame_queues = 1, and on to the next thread of the frame
Notify(t) ==
    /\ pc[t] = "notify"
    /\ check_frame_queues' = [check_frame_queues EXCEPT ![Target(t)] = TRUE]
    /\ frame' = [frame EXCEPT ![t] = Rest(@)]
    /\ Goto(t, IF Rest(frame[t]) = << >> THEN "free" ELSE "tail")
    /\ UNCHANGED << ringVars, frame_queue_check_counter, received, fqm, my_tail,
                    drop_list, deqVars, outVars >>

\* if (drop_on_congestion && n_drop) vlib_buffer_free ()
FreeDropped(t) ==
    /\ pc[t] = "free"
    /\ freed' = freed \cup Set(drop_list[t])
    /\ drop_list' = [drop_list EXCEPT ![t] = << >>]
    /\ Goto(t, "dispatch")
    /\ UNCHANGED << ringVars, flagVars, received, fqm, frame, my_tail, deqVars, delivered >>

-----------------------------------------------------------------------------
(* The poll of thread t's rings in its main loop.                          *)

\* Fault: the poll counter is not set when the flag is found.
LoopHeadUnset(t) ==
    /\ pc[t] = "loop"
    /\ frame_queue_check_counter' = frame_queue_check_counter
    /\ fqm' = [fqm EXCEPT ![t] = 1]
    /\ Goto(t, IF check_frame_queues[t] THEN "clear"
               ELSE IF frame_queue_check_counter[t] > 0 THEN "deq" ELSE "dispatch")
    /\ UNCHANGED << ringVars, check_frame_queues, received, enqVars, deqVars, outVars >>

\* if (vm->check_frame_queues + frame_queue_check_counter): the flag is read
\* here for the last time before it is cleared.
LoopHead(t) ==
    /\ pc[t] = "loop"
    /\ frame_queue_check_counter' = IF check_frame_queues[t]
            THEN [frame_queue_check_counter EXCEPT ![t] = CheckCount]
            ELSE frame_queue_check_counter
    /\ fqm' = [fqm EXCEPT ![t] = 1]
    /\ Goto(t, IF check_frame_queues[t] THEN "clear"
               ELSE IF frame_queue_check_counter[t] > 0 THEN "deq" ELSE "dispatch")
    /\ UNCHANGED << ringVars, check_frame_queues, received, enqVars, deqVars, outVars >>

ClearCheck(t) ==
    /\ pc[t] = "clear"
    /\ check_frame_queues' = [check_frame_queues EXCEPT ![t] = FALSE]
    /\ Goto(t, "deq")
    /\ UNCHANGED << ringVars, frame_queue_check_counter, received, fqm, enqVars,
                    deqVars, outVars >>

\* The ring polled, its oldest element, and whether that can be taken.  The
\* owner alone moves head; tail and valid change only towards TRUE while it
\* looks at them.
Polled(t) == << fqm[t], t >>
First(t)  == elts[Polled(t)][Slot(head[Polled(t)] + 1)]
Ready(t)  == head[Polled(t)] # tail[Polled(t)] /\ First(t).valid

\* fq->head == fq->tail, or the element is claimed but not valid yet
DequeueNone(t) ==
    /\ pc[t] = "deq"
    /\ ~Ready(t)
    /\ Goto(t, "deqend")
    /\ UNCHANGED << ringVars, flagVars, received, fqm, enqVars, deqVars, outVars >>

\* Fault: offset is not advanced past the packets copied.
CopyNoOffset(t) ==
    /\ pc[t] = "deq"
    /\ Ready(t)
    /\ LET q      == Polled(t)
           pkts   == First(t).pkts
           n_free == FrameSize - Len(f[t])
           n_copy == IF n_free < Len(pkts) THEN n_free ELSE Len(pkts)
           full   == f[t] \o SubSeq(pkts, 1, n_copy)
       IN  /\ elts' = [elts EXCEPT ![q][Slot(head[q] + 1)].pkts =
                                       SubSeq(pkts, 1, Len(pkts) - n_copy)]
           /\ f' = [f EXCEPT ![t] = IF n_copy = n_free THEN << >> ELSE full]
           /\ delivered' = IF n_copy = n_free
                              THEN [delivered EXCEPT ![q] = @ \o full] ELSE delivered
           /\ vectors' = [vectors EXCEPT ![t] = @ + n_copy]
           /\ Goto(t, IF n_copy = Len(pkts) THEN "reset"
                      ELSE IF vectors[t] + n_copy >= VectorThreshold THEN "deqend" ELSE "deq")
    /\ UNCHANGED << tail, head, flagVars, received, fqm, enqVars, processed, freed >>

\* Copy as much as fits into the frame and put the frame if it is full; an
\* element with packets left stays on the ring.
Copy(t) ==
    /\ pc[t] = "deq"
    /\ Ready(t)
    /\ LET q      == Polled(t)
           pkts   == First(t).pkts
           n_free == FrameSize - Len(f[t])
           n_copy == IF n_free < Len(pkts) THEN n_free ELSE Len(pkts)
           full   == f[t] \o SubSeq(pkts, 1, n_copy)
       IN  /\ elts' = [elts EXCEPT ![q][Slot(head[q] + 1)].pkts =
                                       SubSeq(pkts, n_copy + 1, Len(pkts))]
           /\ f' = [f EXCEPT ![t] = IF n_copy = n_free THEN << >> ELSE full]
           /\ delivered' = IF n_copy = n_free
                              THEN [delivered EXCEPT ![q] = @ \o full] ELSE delivered
           /\ vectors' = [vectors EXCEPT ![t] = @ + n_copy]
           /\ Goto(t, IF n_copy = Len(pkts) THEN "reset"
                      ELSE IF vectors[t] + n_copy >= VectorThreshold THEN "deqend" ELSE "deq")
    /\ UNCHANGED << tail, head, flagVars, received, fqm, enqVars, processed, freed >>

\* clib_memset (elt, 0, sz)
ResetElt(t) ==
    /\ pc[t] = "reset"
    /\ elts' = [elts EXCEPT ![Polled(t)][Slot(head[Polled(t)] + 1)] = EmptyElt]
    /\ Goto(t, "bump")
    /\ UNCHANGED << tail, head, flagVars, received, fqm, enqVars, deqVars, outVars >>

\* __atomic_store_n (&fq->head, fq->head + 1); processed++
BumpHead(t) ==
    /\ pc[t] = "bump"
    /\ head' = [head EXCEPT ![Polled(t)] = @ + 1]
    /\ processed' = [processed EXCEPT ![t] = @ + 1]
    /\ Goto(t, IF vectors[t] >= VectorThreshold THEN "deqend" ELSE "deq")
    /\ UNCHANGED << elts, tail, flagVars, received, fqm, enqVars, f, vectors, outVars >>

\* vlib_put_frame_to_node for the frame in hand, if any
PutFrame(t) ==
    /\ delivered' = [delivered EXCEPT ![Polled(t)] = @ \o f[t]]
    /\ f' = [f EXCEPT ![t] = << >>]
    /\ vectors' = [vectors EXCEPT ![t] = 0]

\* The end of a poll: the next queue main follows; after the last the poll
\* counter is set anew if there was work, else counted down.
DequeueEnd(t) ==
    /\ pc[t] = "deqend"
    /\ PutFrame(t)
    /\ \/ /\ fqm[t] < NFqm
          /\ fqm' = [fqm EXCEPT ![t] = @ + 1]
          /\ Goto(t, "deq")
          /\ UNCHANGED << processed, frame_queue_check_counter >>
       \/ /\ fqm[t] = NFqm
          /\ frame_queue_check_counter' = [frame_queue_check_counter EXCEPT ![t] =
                IF processed[t] > 0 THEN CheckCount ELSE @ - 1]
          /\ processed' = [processed EXCEPT ![t] = 0]
          /\ Goto(t, "dispatch")
          /\ fqm' = fqm
    /\ UNCHANGED << ringVars, check_frame_queues, received, enqVars, freed >>

\* The iteration ends.
LoopEnd(t) ==
    /\ pc[t] = "dispatch"
    /\ Goto(t, "loop")
    /\ UNCHANGED << ringVars, flagVars, received, fqm, enqVars, deqVars, outVars >>

ThreadNext(t) ==
    \/ Handoff(t) \/ LoadTail(t) \/ Room(t) \/ Congested(t) \/ Drop(t) \/ Claim(t)
    \/ Fill(t) \/ Publish(t) \/ Notify(t) \/ FreeDropped(t)
    \/ LoopHead(t) \/ ClearCheck(t) \/ DequeueNone(t) \/ Copy(t) \/ ResetElt(t)
    \/ BumpHead(t) \/ DequeueEnd(t) \/ LoopEnd(t)

Next == \E t \in Threads : ThreadNext(t)

Spec == Init /\ [][Next]_vars

\* Every thread polls on a core of its own.
FairSpec == Spec /\ \A t \in Threads : WF_vars(ThreadNext(t))

-----------------------------------------------------------------------------
(* Properties.                                                             *)

\* Thread t has claimed element n of ring q and not yet published it.
Claimed(t, q, n) ==
    pc[t] \in {"fill", "valid"} /\ Ring(t) = q /\ my_tail[t] + 1 = n

\* The ring keeps its producers and its consumer apart.  Each element from
\* head + 1 to tail is either claimed by exactly one thread and not valid,
\* or valid, or taken and about to be given back by the owner; no element
\* outside holds anything; and one element always stays unused.
RingSafe ==
    \A q \in Queues :
        /\ head[q] <= tail[q] /\ tail[q] < head[q] + Nelts
        /\ \A n \in head[q] + 1 .. tail[q] :
              LET owners == {t \in Threads : Claimed(t, q, n)}
                  given  == n = head[q] + 1 /\ pc[q[2]] = "bump" /\ Polled(q[2]) = q
              IN  IF elts[q][Slot(n)].valid THEN owners = {} /\ ~given
                  ELSE Cardinality(owners) + (IF given THEN 1 ELSE 0) = 1
        /\ \A n \in tail[q] + 1 .. head[q] + Nelts : elts[q][Slot(n)] = EmptyElt

\* Packets still on their way.
InFlight ==
    UNION ({Set(Group(frame[t])) \cup {e.pkt : e \in Set(Rest(frame[t]))} :
               t \in {u \in Threads : frame[u] # << >>}}
           \cup {Set(drop_list[t]) : t \in Threads}
           \cup {Set(f[t]) : t \in Threads}
           \cup {Set(elts[q][i].pkts) : q \in Queues, i \in 0 .. Nelts - 1})

\* "If you pass drop on congestion non-zero, all packets in the inbound
\* frame will be consumed one way or the other" (vlib.rst): a packet handed
\* to vlib_buffer_enqueue_to_thread is on its way, delivered or freed.
NoneLost ==
    \A t \in Threads : \A n \in 1 .. received[t] :
        \/ << t, n >> \in InFlight \cup freed
        \/ \E q \in Queues : << t, n >> \in Set(delivered[q])

\* What has become of packet n of thread t is settled for good.
Consumed(t, n) ==
    \/ << t, n >> \in freed
    \/ \E q \in Queues : << t, n >> \in Set(delivered[q])

\* Every packet handed off is eventually delivered to its thread or freed:
\* as each thread hands off MaxPackets packets at most, in the end all have
\* been that were handed off at all.
AllConsumed ==
    <>[](\A t \in Threads : \A n \in 1 .. received[t] : Consumed(t, n))

-----------------------------------------------------------------------------
(* The rings implement the FIFOs of HandoffSpec.  An element is queued when *)
(* its slot is claimed: until the slot is filled its packets are those the  *)
(* claiming thread is about to write.                                       *)

Contents(q, n) ==
    IF \E t \in Threads : pc[t] = "fill" /\ Claimed(t, q, n)
       THEN Group(frame[CHOOSE t \in Threads : pc[t] = "fill" /\ Claimed(t, q, n)])
       ELSE elts[q][Slot(n)].pkts

Abstract == INSTANCE HandoffSpec WITH
    Capacity  <- Nelts - 1,
    frame     <- [t \in Threads |-> IF pc[t] \in {"fill", "valid", "notify"}
                                       THEN Rest(frame[t]) ELSE frame[t]],
    queue     <- [q \in Queues |->
                    [i \in 1 .. tail[q] - head[q] |-> Contents(q, head[q] + i)]],
    delivered <- [q \in Queues |->
                    IF Polled(q[2]) = q THEN delivered[q] \o f[q[2]] ELSE delivered[q]],
    freed     <- freed \cup UNION {Set(drop_list[t]) : t \in Threads}

\* Every step of the handoff code is a step of HandoffSpec or invisible in it.
Implements == Abstract!Spec
=============================================================================
