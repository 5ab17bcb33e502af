---------------------------- MODULE HandoffSpec ----------------------------
(***************************************************************************)
(* What handing buffers between threads promises: for each queue main and  *)
(* each thread a bounded FIFO of elements.  A call of                      *)
(* vlib_buffer_enqueue_to_thread splits its frame by thread, appends each  *)
(* part in one step, or drops it when the FIFO is at its capacity and the  *)
(* caller lets it.  The owner takes packets from the oldest element, in    *)
(* order, and gives the element back once it is empty.  No ring, flag or   *)
(* counter is visible.                                                     *)
(***************************************************************************)
EXTENDS Naturals, Sequences, HandoffFrame

CONSTANTS Threads, Fqms, Routes, Capacity, FrameSize, MaxPackets, DropOnCongestion

VARIABLES
    received,   \* packets each thread has got to hand off
    frame,      \* what is left of the frame a thread is handing off
    queue,      \* the elements queued, each a sequence of packets
    delivered,  \* packets taken off, in order
    freed       \* packets dropped

vars == << received, frame, queue, delivered, freed >>

Queues == Fqms \X Threads

Init ==
    /\ received = [t \in Threads |-> 0]
    /\ frame = [t \in Threads |-> << >>]
    /\ queue = [q \in Queues |-> << >>]
    /\ delivered = [q \in Queues |-> << >>]
    /\ freed = {}

\* The packets of a frame belong together: t starts on the next frame when
\* the last one is done with.
Accept(t) ==
    /\ frame[t] = << >>
    /\ \E n \in 1 .. FrameSize, k \in Fqms : \E to \in [1 .. n -> Routes[t][k]] :
        /\ received[t] + n <= MaxPackets[t]
        /\ received' = [received EXCEPT ![t] = @ + n]
        /\ frame' = [frame EXCEPT ![t] =
              [i \in 1 .. n |-> [pkt |-> << t, received[t] + i >>, to |-> << k, to[i] >>]]]
    /\ UNCHANGED << queue, delivered, freed >>

Enqueue(t) ==
    /\ frame[t] # << >>
    /\ LET q == frame[t][1].to
       IN  /\ Len(queue[q]) < Capacity
           /\ queue' = [queue EXCEPT ![q] = Append(@, Group(frame[t]))]
    /\ frame' = [frame EXCEPT ![t] = Rest(@)]
    /\ UNCHANGED << received, delivered, freed >>

Drop(t) ==
    /\ frame[t] # << >>
    /\ LET q == frame[t][1].to
       IN  Len(queue[q]) = Capacity /\ DropOnCongestion[q[1]]
    /\ freed' = freed \cup {Group(frame[t])[i] : i \in 1 .. Len(Group(frame[t]))}
    /\ frame' = [frame EXCEPT ![t] = Rest(@)]
    /\ UNCHANGED << received, queue, delivered >>

Take(q) ==
    /\ queue[q] # << >>
    /\ \E n \in 1 .. Len(Head(queue[q])) :
        /\ queue' = [queue EXCEPT ![q][1] = SubSeq(@, n + 1, Len(@))]
        /\ delivered' = [delivered EXCEPT ![q] = @ \o SubSeq(Head(queue[q]), 1, n)]
    /\ UNCHANGED << received, frame, freed >>

GiveBack(q) ==
    /\ queue[q] # << >>
    /\ Head(queue[q]) = << >>
    /\ queue' = [queue EXCEPT ![q] = Tail(@)]
    /\ UNCHANGED << received, frame, delivered, freed >>

Next ==
    \/ \E t \in Threads : Accept(t) \/ Enqueue(t) \/ Drop(t)
    \/ \E q \in Queues : Take(q) \/ GiveBack(q)

Spec == Init /\ [][Next]_vars
=============================================================================
