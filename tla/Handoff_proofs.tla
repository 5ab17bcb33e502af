--------------------------- MODULE Handoff_proofs ---------------------------
(***************************************************************************)
(* The rings of FrameQueue implement the FIFOs of HandoffSpec, and hence   *)
(* no packet is lost, for every number of threads, queue mains, ring       *)
(* elements and packets.  The callers are those without auxiliary data     *)
(* (vlib_buffer_enqueue_to_thread): with it a congested ring frees the     *)
(* wrong indices, and neither result holds.                                *)
(***************************************************************************)
EXTENDS FrameQueue_proofs, SequenceTheorems

-----------------------------------------------------------------------------
(* The refinement mapping: the expressions FrameQueue substitutes for the  *)
(* variables of HandoffSpec.                                               *)

Sent == {"fill", "valid", "notify"}

AFrameOf(t)     == IF pc[t] \in Sent THEN Rest(frame[t]) ELSE frame[t]
AQueueOf(q)     == [i \in 1 .. tail[q] - head[q] |-> Contents(q, head[q] + i)]
ADeliveredOf(q) == IF Polled(q[2]) = q THEN delivered[q] \o f[q[2]] ELSE delivered[q]
Dropped         == UNION {Set(drop_list[t]) : t \in Threads}

AFrame     == [t \in Threads |-> AFrameOf(t)]
AQueue     == [q \in Queues |-> AQueueOf(q)]
ADelivered == [q \in Queues |-> ADeliveredOf(q)]
AFreed     == freed \cup Dropped

\* Thread t has claimed element n of ring q and not yet filled it.
Filling(t, q, n) == pc[t] = "fill" /\ Claimed(t, q, n)

\* An element claimed and not filled holds what its one claimant will write.
ContentsOK ==
    \A q, n :
      /\ \A t \in Threads : Filling(t, q, n) => Contents(q, n) = Group(frame[t])
      /\ (\A t \in Threads : ~Filling(t, q, n)) => Contents(q, n) = elts[q][Slot(n)].pkts

\* The invariant makes it so: no two threads claim one element.
LEMMA ContentsValue == IInv => ContentsOK
<1> SUFFICES ASSUME IInv, NEW q, NEW n
             PROVE  /\ \A t \in Threads : Filling(t, q, n) => Contents(q, n) = Group(frame[t])
                    /\ (\A t \in Threads : ~Filling(t, q, n))
                          => Contents(q, n) = elts[q][Slot(n)].pkts
  BY DEF ContentsOK
<1>1. ASSUME NEW t \in Threads, Filling(t, q, n)
      PROVE  Contents(q, n) = Group(frame[t])
  <2> DEFINE c == CHOOSE u \in Threads : pc[u] = "fill" /\ Claimed(u, q, n)
  <2>1. c \in Threads /\ Filling(c, q, n)
    BY <1>1 DEF Filling
  <2>2. Contents(q, n) = Group(frame[c])
    BY <1>1 DEF Contents, Filling
  <2> HIDE DEF c
  <2>3. my_tail[c] \in Nat /\ my_tail[t] \in Nat
    BY <2>1 DEF IInv, TypeOK
  <2>4. c = t
    BY <1>1, <2>1, <2>3 DEF IInv, ClaimsApart, Filling, Claimed, Claims
  <2> QED
    BY <2>2, <2>4
<1>2. ASSUME \A t \in Threads : ~Filling(t, q, n)
      PROVE  Contents(q, n) = elts[q][Slot(n)].pkts
  BY <1>2 DEF Contents, Filling
<1> QED
  BY <1>1, <1>2

\* An element keeps its contents when nobody starts or ends filling it, its
\* claimant keeps its frame and its slot keeps its packets.
LEMMA ContentsKept ==
  ASSUME IInv, IInv', NEW q, NEW n,
         \A u \in Threads : Filling(u, q, n)' <=> Filling(u, q, n),
         \A u \in Threads : Filling(u, q, n) => frame'[u] = frame[u],
         elts'[q][Slot(n)].pkts = elts[q][Slot(n)].pkts
  PROVE  Contents(q, n)' = Contents(q, n)
<1>1. /\ \A t \in Threads : Filling(t, q, n) => Contents(q, n) = Group(frame[t])
      /\ (\A t \in Threads : ~Filling(t, q, n)) => Contents(q, n) = elts[q][Slot(n)].pkts
  BY ContentsValue DEF ContentsOK
<1>2. /\ \A t \in Threads : Filling(t, q, n)' => Contents(q, n)' = Group(frame'[t])
      /\ (\A t \in Threads : ~Filling(t, q, n)')
             => Contents(q, n)' = elts'[q][Slot(n)].pkts
  <2>1. IInv' => ContentsOK'
    BY ContentsValue, PTL
  <2> QED
    BY <2>1 DEF ContentsOK
<1>3. CASE \E u \in Threads : Filling(u, q, n)
  BY <1>1, <1>2, <1>3
<1>4. CASE \A u \in Threads : ~Filling(u, q, n)
  BY <1>1, <1>2, <1>4
<1> QED
  BY <1>3, <1>4

\* A queue keeps its elements when its ring keeps its ends and the contents
\* between them.
LEMMA QueueKept ==
  ASSUME NEW q, head'[q] = head[q], tail'[q] = tail[q],
         head[q] \in Nat, tail[q] \in Nat,
         \A n \in head[q] + 1 .. tail[q] : Contents(q, n)' = Contents(q, n)
  PROVE  AQueueOf(q)' = AQueueOf(q)
<1>1. PICK h \in Nat : h = head[q] /\ h = head'[q]
  OBVIOUS
<1>2. AQueueOf(q) = [i \in 1 .. tail[q] - h |-> Contents(q, h + i)]
  BY <1>1 DEF AQueueOf
<1>3. AQueueOf(q)' = [i \in 1 .. tail[q] - h |-> Contents(q, h + i)']
  BY <1>1 DEF AQueueOf
<1>4. ASSUME NEW i \in 1 .. tail[q] - h
      PROVE  Contents(q, h + i)' = Contents(q, h + i)
  <2>1. h + i \in head[q] + 1 .. tail[q]
    BY <1>1
  <2> QED
    BY <2>1
<1> QED
  BY <1>2, <1>3, <1>4

\* The contents of an element on a ring are packets.
LEMMA ContentsType ==
  ASSUME IInv, NEW q \in Queues, NEW n \in head[q] + 1 .. tail[q]
  PROVE  Contents(q, n) \in Seq(Packets)
<1>1. ContentsOK
  BY ContentsValue
<1>2. CASE \E t \in Threads : Filling(t, q, n)
  <2>1. PICK t \in Threads : Filling(t, q, n)
    BY <1>2
  <2>2. Group(frame[t]) \in Seq(Packets)
    BY <2>1, ProducerType DEF Filling, Producing
  <2> QED
    BY <1>1, <2>1, <2>2 DEF ContentsOK
<1>3. CASE \A t \in Threads : ~Filling(t, q, n)
  <2>1. n \in Nat
    BY RingBounds
  <2>2. Slot(n) \in 0 .. Nelts - 1
    BY <2>1, SlotType
  <2>3. elts[q][Slot(n)].pkts \in Seq(Packets)
    <3>1. elts \in [Queues -> [0 .. Nelts - 1 -> Elt]]
      BY DEF IInv, TypeOK, Elt
    <3>2. elts[q][Slot(n)] \in Elt
      BY <2>2, <3>1
    <3> QED
      BY <3>2 DEF Elt
  <2> QED
    BY <1>1, <1>3, <2>3 DEF ContentsOK
<1> QED
  BY <1>2, <1>3

\* A queue is a sequence of elements, as long as its ring is filled.
LEMMA QueueType ==
  ASSUME IInv, NEW q \in Queues
  PROVE  /\ AQueueOf(q) \in Seq(Seq(Packets))
         /\ Len(AQueueOf(q)) = tail[q] - head[q]
         /\ \A i \in 1 .. tail[q] - head[q] : AQueueOf(q)[i] = Contents(q, head[q] + i)
<1> DEFINE k == tail[q] - head[q]
<1>1. k \in Nat /\ head[q] \in Nat /\ tail[q] \in Nat
  BY RingBounds
<1>2. ASSUME NEW i \in 1 .. k
      PROVE  Contents(q, head[q] + i) \in Seq(Packets)
  <2>1. head[q] + i \in head[q] + 1 .. tail[q]
    BY <1>1
  <2> QED
    BY <2>1, ContentsType
<1>3. AQueueOf(q) = [i \in 1 .. k |-> Contents(q, head[q] + i)]
  BY DEF AQueueOf
<1> HIDE DEF k
<1>4. AQueueOf(q) \in Seq(Seq(Packets)) /\ Len(AQueueOf(q)) = k
  BY <1>1, <1>2, <1>3
<1> QED
  BY <1>3, <1>4 DEF k

\* The other variables of HandoffSpec.
LEMMA OtherTypes ==
  ASSUME IInv
  PROVE  /\ \A t \in Threads : AFrameOf(t) \in Seq(Entry)
         /\ \A q \in Queues : /\ delivered[q] \in Seq(Packets)
                              /\ q[2] \in Threads /\ f[q[2]] \in Seq(Packets)
                              /\ ADeliveredOf(q) \in Seq(Packets)
<1>1. ASSUME NEW t \in Threads
      PROVE  AFrameOf(t) \in Seq(Entry)
  <2>1. CASE pc[t] \in Sent
    BY <2>1, ProducerType DEF AFrameOf, Sent, Producing
  <2>2. CASE pc[t] \notin Sent
    BY <2>2 DEF AFrameOf, IInv, TypeOK, Entry
  <2> QED
    BY <2>1, <2>2
<1>2. ASSUME NEW q \in Queues
      PROVE  /\ delivered[q] \in Seq(Packets)
             /\ q[2] \in Threads /\ f[q[2]] \in Seq(Packets)
             /\ ADeliveredOf(q) \in Seq(Packets)
  <2>1. delivered[q] \in Seq(Packets) /\ q[2] \in Threads
    BY DEF IInv, TypeOK, Queues
  <2>2. f[q[2]] \in Seq(Packets)
    BY <2>1 DEF IInv, TypeOK
  <2> QED
    BY <2>1, <2>2 DEF ADeliveredOf
<1> QED
  BY <1>1, <1>2

-----------------------------------------------------------------------------
(* Steps that HandoffSpec does not see.                                    *)

\* No thread other than t starts or ends filling an element in a step of t.
LEMMA FillingOthers ==
  ASSUME NEW t \in Threads, Others(t)
  PROVE  \A u \in Threads : u # t =>
            /\ \A q, n : Filling(u, q, n)' <=> Filling(u, q, n)
            /\ frame'[u] = frame[u]
  BY OthersView DEF Filling, Claimed

\* A step that leaves the rings alone and neither starts nor ends filling.
LEMMA QueuesKept ==
  ASSUME IInv, IInv', NEW t \in Threads, Others(t), UNCHANGED ringVars,
         pc[t] # "fill", pc'[t] # "fill"
  PROVE  AQueue' = AQueue
<1>1. \A q, n : ~Filling(t, q, n) /\ ~Filling(t, q, n)'
  BY DEF Filling
<1>2. ASSUME NEW q \in Queues
      PROVE  AQueueOf(q)' = AQueueOf(q)
  <2>1. \A n : Contents(q, n)' = Contents(q, n)
    BY <1>1, FillingOthers, ContentsKept DEF ringVars
  <2>2. head[q] \in Nat /\ tail[q] \in Nat
    BY RingBounds
  <2> QED
    BY <2>1, <2>2, QueueKept DEF ringVars
<1> QED
  BY <1>2 DEF AQueue

\* A step of t changes only the abstract frame of t.
LEMMA FramesKept ==
  ASSUME NEW t \in Threads, Others(t)
  PROVE  /\ \A u \in Threads : u # t => AFrameOf(u)' = AFrameOf(u)
         /\ AFrameOf(t)' = AFrameOf(t) => AFrame' = AFrame
<1>1. \A u \in Threads : u # t => AFrameOf(u)' = AFrameOf(u)
  BY OthersView DEF AFrameOf
<1> QED
  BY <1>1 DEF AFrame

\* The packets delivered stay when the frames for the queues' nodes do.
LEMMA DeliveredKept ==
  ASSUME UNCHANGED << delivered, f, fqm >>
  PROVE  ADelivered' = ADelivered
<1>1. \A q \in Queues : ADeliveredOf(q)' = ADeliveredOf(q)
  BY DEF ADeliveredOf, Polled
<1> QED
  BY <1>1 DEF ADelivered

\* A drop list of one thread grows by s and nothing is freed, or it is freed.
LEMMA DropSets ==
  ASSUME IInv, NEW t \in Threads, NEW s \in Seq(Packets \cup Aux),
         drop_list' = [drop_list EXCEPT ![t] = @ \o s], freed' = freed
  PROVE  AFreed' = AFreed \cup Set(s)
<1>1. drop_list \in [Threads -> Seq(Packets \cup Aux)]
  BY DEF IInv, TypeOK
<1>2. Set(drop_list'[t]) = Set(drop_list[t]) \cup Set(s)
  <2> DEFINE d == drop_list[t]
  <2>1. d \in Seq(Packets \cup Aux) /\ drop_list'[t] = d \o s
    BY <1>1
  <2> HIDE DEF d
  <2>2. /\ Len(d \o s) = Len(d) + Len(s)
        /\ \A i \in 1 .. Len(d) : (d \o s)[i] = d[i]
        /\ \A i \in 1 .. Len(s) : (d \o s)[Len(d) + i] = s[i]
    BY <2>1
  <2>3. ASSUME NEW i \in 1 .. Len(d) + Len(s)
        PROVE  (d \o s)[i] \in Set(d) \cup Set(s)
    <3>1. CASE i <= Len(d)
      BY <2>1, <2>2, <3>1 DEF Set
    <3>2. CASE i > Len(d)
      <4>1. i - Len(d) \in 1 .. Len(s) /\ i = Len(d) + (i - Len(d))
        BY <2>1, <3>2
      <4>2. (d \o s)[i] = s[i - Len(d)]
        BY <2>2, <4>1
      <4> QED
        BY <4>1, <4>2 DEF Set
    <3> QED
      BY <2>1, <3>1, <3>2
  <2>4. Set(d) \subseteq Set(d \o s)
    BY <2>1, <2>2 DEF Set
  <2>5. ASSUME NEW i \in 1 .. Len(s)
        PROVE  s[i] \in Set(d \o s)
    <3>1. Len(d) + i \in 1 .. Len(d \o s)
      BY <2>1, <2>2
    <3> QED
      BY <2>2, <3>1 DEF Set
  <2>6. Set(d \o s) \subseteq Set(d) \cup Set(s)
    BY <2>2, <2>3 DEF Set
  <2>7. Set(s) \subseteq Set(d \o s)
    BY <2>5 DEF Set
  <2>8. Set(d \o s) = Set(d) \cup Set(s)
    BY <2>4, <2>6, <2>7
  <2> QED
    BY <2>1, <2>8 DEF d
<1>3. \A u \in Threads : u # t => drop_list'[u] = drop_list[u]
  BY <1>1
<1>4. Dropped' = Dropped \cup Set(s)
  BY <1>2, <1>3 DEF Dropped
<1> QED
  BY <1>4 DEF AFreed

-----------------------------------------------------------------------------
(* The steps of the producers.                                             *)

\* The variables of HandoffSpec, as FrameQueue substitutes them.
AVars == << received, AFrame, AQueue, ADelivered, AFreed >>

\* The frame is split the same way in both specifications.
LEMMA SameSplit ==
  \A fr : Abstract!Group(fr) = Group(fr) /\ Abstract!Rest(fr) = Rest(fr)
  BY DEF Abstract!Group, Abstract!Rest, Abstract!Compress, Abstract!Mask,
         Abstract!CompressTo, Group, Rest, Compress, Mask, CompressTo

\* Handoff is Accept: nothing is left of the frame before.
LEMMA AcceptStep ==
  ASSUME IInv, IInv', NEW t \in Threads, Others(t), Handoff(t)
  PROVE  Abstract!Accept(t)
<1> USE DEF Goto, ringVars, flagVars, deqVars, outVars
<1>1. /\ pc[t] = "dispatch" /\ pc'[t] = "tail" /\ frame[t] = << >>
      /\ UNCHANGED << elts, tail, head, fqm, drop_list, f, delivered, freed >>
  BY DEF Handoff, IInv, TypeOK, LocalOK, Producing
<1>2. AQueue' = AQueue
  BY <1>1, QueuesKept
<1>3. ADelivered' = ADelivered
  BY <1>1, DeliveredKept
<1>4. AFreed' = AFreed
  BY <1>1 DEF AFreed, Dropped
<1>5. AFrame[t] = << >> /\ AFrameOf(t)' = frame'[t]
  BY <1>1 DEF AFrame, AFrameOf, Sent
<1>6. \A u \in Threads : u # t => AFrameOf(u)' = AFrameOf(u)
  BY FramesKept
<1>7. AFrame' = [AFrame EXCEPT ![t] = frame'[t]]
  BY <1>5, <1>6 DEF AFrame
<1>8. PICK n \in 1 .. FrameSize, k \in Fqms :
         /\ received[t] + n <= MaxPackets[t]
         /\ received' = [received EXCEPT ![t] = @ + n]
         /\ \E to \in [1 .. n -> Routes[t][k]] :
              frame' = [frame EXCEPT ![t] =
                  [i \in 1 .. n |-> [pkt |-> << t, received[t] + i >>, to |-> << k, to[i] >>]]]
  BY DEF Handoff
<1>9. PICK to \in [1 .. n -> Routes[t][k]] :
         frame' = [frame EXCEPT ![t] =
             [i \in 1 .. n |-> [pkt |-> << t, received[t] + i >>, to |-> << k, to[i] >>]]]
  BY <1>8
<1>10. frame'[t] =
         [i \in 1 .. n |-> [pkt |-> << t, received[t] + i >>, to |-> << k, to[i] >>]]
  BY <1>9 DEF IInv, TypeOK
<1>11. AFrame' = [AFrame EXCEPT ![t] =
         [i \in 1 .. n |-> [pkt |-> << t, received[t] + i >>, to |-> << k, to[i] >>]]]
  BY <1>7, <1>10
<1>12. \E m \in 1 .. FrameSize, l \in Fqms : \E w \in [1 .. m -> Routes[t][l]] :
          /\ received[t] + m <= MaxPackets[t]
          /\ received' = [received EXCEPT ![t] = @ + m]
          /\ AFrame' = [AFrame EXCEPT ![t] =
              [i \in 1 .. m |-> [pkt |-> << t, received[t] + i >>, to |-> << l, w[i] >>]]]
  BY <1>8, <1>11, Zenon
<1> QED
  BY <1>2, <1>3, <1>4, <1>5, <1>12, Zenon
  DEF Abstract!Accept, AFrame, AQueue, ADelivered, AFreed, AFrameOf, AQueueOf,
      ADeliveredOf, Dropped, Sent

\* A successful compare-and-swap is Enqueue: the ring had room, and the new
\* element counts as holding what t is about to write.
LEMMA EnqueueStep ==
  ASSUME IInv, IInv', NEW t \in Threads, Others(t), Claim(t), tail[Ring(t)] = my_tail[t]
  PROVE  Abstract!Enqueue(t)
<1> USE DEF Goto, ringVars, flagVars, enqVars, deqVars, outVars
<1>q. PICK q \in Queues : q = Ring(t)
  BY ProducerType DEF Claim, Producing
<1>h. PICK h \in Nat : h = head[q]
  BY RingBounds
<1>n. PICK n \in Nat : n = tail[q]
  BY RingBounds
<1>1. /\ pc[t] = "cas" /\ pc'[t] = "fill" /\ tail' = [tail EXCEPT ![q] = my_tail[t] + 1]
      /\ UNCHANGED << elts, head, received, frame, my_tail, fqm, drop_list, f, delivered, freed >>
  BY <1>q DEF Claim, IInv, TypeOK
<1>2. /\ frame[t] # << >> /\ frame[t][1].to = q /\ Ring(t)' = q
  BY <1>q, <1>1, ProducerType DEF Producing, Ring
<1>3. /\ my_tail[t] = n /\ h <= n /\ n + 1 < h + Nelts
      /\ tail'[q] = n + 1 /\ head'[q] = h
      /\ \A r \in Queues : r # q => tail'[r] = tail[r]
  <2>1. ProducerOK(t) /\ tail \in [Queues -> Nat]
    BY DEF IInv, TypeOK
  <2> QED
    BY <1>q, <1>h, <1>n, <1>1, <2>1, RingBounds DEF ProducerOK
<1>4. \A u \in Threads : \A r, m :
          Filling(u, r, m)' <=> (Filling(u, r, m) \/ (u = t /\ r = q /\ m = n + 1))
  BY <1>1, <1>2, <1>3, FillingOthers DEF Filling, Claimed
<1>5. ASSUME NEW r \in Queues, NEW m, r # q \/ m # n + 1
      PROVE  Contents(r, m)' = Contents(r, m)
  BY <1>1, <1>4, <1>5, ContentsKept
<1>6. Contents(q, n + 1)' = Group(frame[t])
  <2>1. IInv' => ContentsOK'
    BY ContentsValue, PTL
  <2>2. Filling(t, q, n + 1)'
    BY <1>4
  <2> QED
    BY <1>1, <2>1, <2>2 DEF ContentsOK
<1>7. AQueueOf(q)' = Append(AQueueOf(q), Group(frame[t])) /\ Len(AQueueOf(q)) = n - h
  <2> DEFINE s == AQueueOf(q)
             g == Group(frame[t])
  <2>1. /\ s \in Seq(Seq(Packets)) /\ Len(s) = n - h
        /\ \A i \in 1 .. n - h : s[i] = Contents(q, h + i)
    BY <1>h, <1>n, QueueType
  <2>2. g \in Seq(Packets)
    BY <1>1, ProducerType DEF Producing
  <2>3. AQueueOf(q)' = [i \in 1 .. (n + 1) - h |-> Contents(q, h + i)']
    BY <1>3 DEF AQueueOf
  <2>4. ASSUME NEW i \in 1 .. (n + 1) - h
        PROVE  Contents(q, h + i)' = IF i = (n + 1) - h THEN g ELSE Contents(q, h + i)
    <3>1. CASE i = (n + 1) - h
      <4>1. h + i = n + 1
        BY <3>1
      <4> QED
        BY <1>6, <3>1, <4>1
    <3>2. CASE i # (n + 1) - h
      <4>1. h + i # n + 1
        BY <3>2
      <4> QED
        BY <1>5, <3>2, <4>1
    <3> QED
      BY <3>1, <3>2
  <2> HIDE DEF s, g
  <2>5. Append(s, g) = [i \in 1 .. Len(s) + 1 |-> IF i = Len(s) + 1 THEN g ELSE s[i]]
    <3>1. /\ Append(s, g) \in Seq(Seq(Packets)) /\ Len(Append(s, g)) = Len(s) + 1
          /\ \A i \in 1 .. Len(s) : Append(s, g)[i] = s[i]
          /\ Append(s, g)[Len(s) + 1] = g
      BY <2>1, <2>2, AppendProperties
    <3> DEFINE a == Append(s, g)
    <3>2. a \in Seq(Seq(Packets)) /\ Len(a) = Len(s) + 1
      BY <3>1
    <3>3. \A i \in 1 .. Len(s) + 1 : a[i] = IF i = Len(s) + 1 THEN g ELSE s[i]
      BY <2>1, <3>1
    <3> HIDE DEF a
    <3>4. a = [i \in 1 .. Len(s) + 1 |-> IF i = Len(s) + 1 THEN g ELSE s[i]]
      BY <3>2, <3>3
    <3> QED
      BY <3>4 DEF a
  <2>6. ASSUME NEW i \in 1 .. (n + 1) - h
        PROVE  Contents(q, h + i)' = IF i = Len(s) + 1 THEN g ELSE s[i]
    <3>1. CASE i = (n + 1) - h
      <4>1. i = Len(s) + 1
        BY <2>1, <3>1
      <4> QED
        BY <2>4, <3>1, <4>1
    <3>2. CASE i # (n + 1) - h
      <4>1. i # Len(s) + 1 /\ i \in 1 .. n - h
        BY <1>3, <2>1, <3>2
      <4> QED
        BY <2>1, <2>4, <3>2, <4>1
    <3> QED
      BY <3>1, <3>2
  <2>7. (n + 1) - h = Len(s) + 1
    BY <2>1
  <2>8. AQueueOf(q)' = Append(s, g)
    BY <2>3, <2>5, <2>6, <2>7
  <2> QED
    BY <2>1, <2>8 DEF s, g
<1>8. \A r \in Queues : r # q => AQueueOf(r)' = AQueueOf(r)
  <2>1. ASSUME NEW r \in Queues, r # q
        PROVE  AQueueOf(r)' = AQueueOf(r)
    <3>1. head[r] \in Nat /\ tail[r] \in Nat /\ head'[r] = head[r] /\ tail'[r] = tail[r]
      BY <1>1, <1>3, <2>1, RingBounds
    <3>2. \A m : Contents(r, m)' = Contents(r, m)
      BY <1>5, <2>1
    <3> QED
      BY <3>1, <3>2, QueueKept
  <2> QED
    BY <2>1
<1>9. AQueue' = [AQueue EXCEPT ![q] = Append(@, Group(frame[t]))]
  BY <1>7, <1>8 DEF AQueue
<1>10. Len(AQueue[q]) < Nelts - 1 /\ Nelts \in Nat
  BY <1>3, <1>7, RingBounds DEF AQueue
<1>11. AFrame' = [AFrame EXCEPT ![t] = Rest(@)] /\ AFrame[t] = frame[t]
  <2>1. AFrameOf(t) = frame[t] /\ AFrameOf(t)' = Rest(frame[t])
    BY <1>1 DEF AFrameOf, Sent
  <2>2. \A u \in Threads : u # t => AFrameOf(u)' = AFrameOf(u)
    BY FramesKept
  <2> QED
    BY <2>1, <2>2 DEF AFrame
<1>12. ADelivered' = ADelivered
  BY <1>1, DeliveredKept
<1>13. AFreed' = AFreed
  BY <1>1 DEF AFreed, Dropped
<1>14. /\ AFrame[t] # << >>
       /\ Len(AQueue[AFrame[t][1].to]) < Nelts - 1
       /\ AQueue' = [AQueue EXCEPT ![AFrame[t][1].to] = Append(@, Group(AFrame[t]))]
       /\ AFrame' = [AFrame EXCEPT ![t] = Rest(@)]
       /\ UNCHANGED << received, ADelivered, AFreed >>
  BY <1>1, <1>2, <1>9, <1>10, <1>11, <1>12, <1>13
<1> QED
  BY <1>14, SameSplit
  DEF Abstract!Enqueue, AFrame, AQueue, ADelivered, AFreed, AFrameOf, AQueueOf,
      ADeliveredOf, Dropped, Sent

\* Drop is Drop: a tail as far ahead of head as t has seen it means that the
\* ring is full now.
LEMMA DropStep ==
  ASSUME IInv, IInv', NEW t \in Threads, Others(t), Drop(t), ~WithAux
  PROVE  Abstract!Drop(t)
<1> USE DEF Goto, ringVars, flagVars, enqVars, deqVars, outVars
<1>q. PICK q \in Queues : q = Ring(t)
  BY ProducerType DEF Drop, Producing
<1>1. /\ pc[t] = "full" /\ pc'[t] \in {"free", "tail"} /\ RingFull(t)
      /\ DropOnCongestion[q[1]]
      /\ drop_list' = [drop_list EXCEPT ![t] = @ \o Group(frame[t])]
      /\ frame' = [frame EXCEPT ![t] = Rest(@)]
      /\ UNCHANGED << elts, tail, head, received, fqm, f, delivered, freed >>
  BY <1>q DEF Drop, IInv, TypeOK
<1>2. /\ frame[t] # << >> /\ frame[t][1].to = q /\ Group(frame[t]) \in Seq(Packets)
  BY <1>q, <1>1, ProducerType DEF Producing, Ring
<1>3. Len(AQueue[q]) = Nelts - 1
  <2>1. Len(AQueue[q]) = tail[q] - head[q]
    BY QueueType DEF AQueue
  <2>2. my_tail[t] <= tail[q] /\ my_tail[t] \in Nat
    BY <1>q, <1>1 DEF IInv, TypeOK, ProducerOK
  <2> QED
    BY <1>q, <1>1, <2>1, <2>2, RingBounds, SMTT(30) DEF RingFull
<1>4. AQueue' = AQueue
  BY <1>1, QueuesKept
<1>5. ADelivered' = ADelivered
  BY <1>1, DeliveredKept
<1>6. AFreed' = AFreed \cup Set(Group(frame[t]))
  <2>1. Group(frame[t]) \in Seq(Packets \cup Aux)
    BY <1>2
  <2> QED
    BY <1>1, <2>1, DropSets
<1>7. AFrame' = [AFrame EXCEPT ![t] = Rest(@)] /\ AFrame[t] = frame[t]
  <2>1. AFrameOf(t) = frame[t] /\ AFrameOf(t)' = Rest(frame[t])
    BY <1>1 DEF AFrameOf, Sent, IInv, TypeOK
  <2>2. \A u \in Threads : u # t => AFrameOf(u)' = AFrameOf(u)
    BY FramesKept
  <2> QED
    BY <2>1, <2>2 DEF AFrame
<1>8. /\ AFrame[t] # << >>
      /\ Len(AQueue[AFrame[t][1].to]) = Nelts - 1 /\ DropOnCongestion[AFrame[t][1].to[1]]
      /\ AFreed' = AFreed \cup {Group(AFrame[t])[i] : i \in 1 .. Len(Group(AFrame[t]))}
      /\ AFrame' = [AFrame EXCEPT ![t] = Rest(@)]
      /\ UNCHANGED << received, AQueue, ADelivered >>
  BY <1>1, <1>2, <1>3, <1>4, <1>5, <1>6, <1>7 DEF Set
<1>9. /\ AFreed' = AFreed \cup {Abstract!Group(AFrame[t])[i] :
                                    i \in 1 .. Len(Abstract!Group(AFrame[t]))}
      /\ AFrame' = [AFrame EXCEPT ![t] = Abstract!Rest(@)]
  <2>1. Abstract!Group(AFrame[t]) = Group(AFrame[t]) /\ Abstract!Rest(AFrame[t]) = Rest(AFrame[t])
    BY SameSplit
  <2> QED
    BY <1>8, <2>1
<1> QED
  BY <1>8, <1>9
  DEF Abstract!Drop, AFrame, AQueue, ADelivered, AFreed, AFrameOf, AQueueOf,
      ADeliveredOf, Dropped, Sent

-----------------------------------------------------------------------------
(* The steps of the owner.                                                 *)

\* Assigning the first element the value it has changes nothing.
LEMMA FirstSame ==
  ASSUME NEW S, NEW s \in Seq(S), s # << >>, NEW e, s[1] = e
  PROVE  [s EXCEPT ![1] = e] = s
  OBVIOUS

\* The owner's oldest element is nobody's to fill, once valid or given back.
LEMMA FirstContents ==
  ASSUME IInv, NEW t \in Threads, head[Polled(t)] < tail[Polled(t)],
         First(t).valid \/ pc[t] = "bump"
  PROVE  /\ \A u \in Threads : ~Filling(u, Polled(t), head[Polled(t)] + 1)
         /\ Contents(Polled(t), head[Polled(t)] + 1) = First(t).pkts
         /\ AQueueOf(Polled(t))[1] = First(t).pkts
         /\ AQueueOf(Polled(t)) # << >>
<1> DEFINE q == Polled(t)
           n == head[q] + 1
<1>1. ASSUME NEW u \in Threads, Filling(u, q, n)
      PROVE  FALSE
  <2>1. CASE First(t).valid
    <3>1. Mine(u) = First(t)
      BY <1>1 DEF Filling, Claimed, Mine, First
    <3> QED
      BY <1>1, <2>1, <3>1 DEF IInv, ProducerOK, Filling, Claims
  <2>2. CASE pc[t] = "bump"
    BY <1>1, <2>2 DEF IInv, OwnerOK, Filling
  <2> QED
    BY <2>1, <2>2
<1>2. Contents(q, n) = First(t).pkts
  BY <1>1, ContentsValue DEF ContentsOK, First
<1>3. q \in Queues
  BY OwnerType DEF IInv
<1>4. 1 \in 1 .. tail[q] - head[q]
  BY <1>3, RingBounds
<1>5. AQueueOf(q)[1] = Contents(q, n)
  BY <1>3, <1>4, QueueType
<1>6. AQueueOf(q) # << >>
  BY <1>3, <1>4, QueueType
<1> QED
  BY <1>1, <1>2, <1>5, <1>6

\* What an assignment to the oldest element of the ring that t polls does to
\* the queues: the packets of the first element change, and no others.
LEMMA FirstSet ==
  ASSUME IInv, IInv', NEW t \in Threads, Others(t), head[Polled(t)] < tail[Polled(t)],
         First(t).valid, NEW v, NEW x,
         SlotSet(Polled(t), Slot(head[Polled(t)] + 1), [valid |-> v, pkts |-> x]),
         pc[t] # "fill", pc'[t] # "fill", UNCHANGED << tail, head >>
  PROVE  AQueue' = [AQueue EXCEPT ![Polled(t)][1] = x]
<1>q. PICK q \in Queues : q = Polled(t)
  BY OwnerType DEF IInv
<1>h. PICK h \in Nat : h = head[q] /\ h = head'[q]
  BY RingBounds
<1>1. /\ tail[q] \in Nat /\ Nelts \in Nat \ {0} /\ h < tail[q] /\ tail[q] < h + Nelts
  BY <1>q, <1>h, RingBounds
<1>n. PICK n \in head[q] + 1 .. tail[q] : n = h + 1
  BY <1>h, <1>1
<1>2. \A u \in Threads : \A r, m : Filling(u, r, m)' <=> Filling(u, r, m)
  BY FillingOthers DEF Filling
<1>3. \A u \in Threads : \A r, m : Filling(u, r, m) => frame'[u] = frame[u]
  BY FillingOthers DEF Filling
<1>4. SlotSet(q, Slot(n), [valid |-> v, pkts |-> x])
  BY <1>q, <1>h, <1>n
<1>5. Contents(q, n)' = x
  <2>1. \A u \in Threads : ~Filling(u, q, n)'
    BY <1>q, <1>h, <1>n, <1>2, FirstContents
  <2>2. IInv' => ContentsOK'
    BY ContentsValue, PTL
  <2>3. elts'[q][Slot(n)].pkts = x
    BY <1>4 DEF SlotSet
  <2> QED
    BY <2>1, <2>2, <2>3 DEF ContentsOK
<1>6. ASSUME NEW r \in Queues, NEW m \in head[r] + 1 .. tail[r], r # q \/ m # n
      PROVE  Contents(r, m)' = Contents(r, m)
  <2>1. m \in head[r] + 1 .. head[r] + Nelts
    BY RingBounds
  <2>2. elts'[r][Slot(m)] = elts[r][Slot(m)]
    BY <1>4, <1>6, <2>1, KeptElsewhere
  <2> QED
    BY <1>2, <1>3, <2>2, ContentsKept
<1>7. \A r \in Queues : r # q => AQueueOf(r)' = AQueueOf(r)
  <2>1. ASSUME NEW r \in Queues, r # q
        PROVE  AQueueOf(r)' = AQueueOf(r)
    <3>1. head[r] \in Nat /\ tail[r] \in Nat /\ head'[r] = head[r] /\ tail'[r] = tail[r]
      BY RingBounds
    <3>2. \A m \in head[r] + 1 .. tail[r] : Contents(r, m)' = Contents(r, m)
      BY <1>6, <2>1
    <3> QED
      BY <3>1, <3>2, QueueKept
  <2> QED
    BY <2>1
<1>8. AQueueOf(q)' = [AQueueOf(q) EXCEPT ![1] = x]
  <2>1. AQueueOf(q)' = [i \in 1 .. tail[q] - h |-> Contents(q, h + i)']
    BY <1>h DEF AQueueOf
  <2>2. AQueueOf(q) = [i \in 1 .. tail[q] - h |-> Contents(q, h + i)]
    BY <1>h DEF AQueueOf
  <2>3. ASSUME NEW i \in 1 .. tail[q] - h
        PROVE  Contents(q, h + i)' = IF i = 1 THEN x ELSE Contents(q, h + i)
    <3>1. CASE i = 1
      BY <1>5, <1>n, <3>1
    <3>2. CASE i # 1
      <4>1. h + i \in head[q] + 1 .. tail[q] /\ h + i # n
        BY <1>h, <1>1, <1>n, <3>2
      <4> QED
        BY <1>6, <3>2, <4>1
    <3> QED
      BY <3>1, <3>2
  <2>4. 1 \in 1 .. tail[q] - h
    BY <1>1
  <2> QED
    BY <2>1, <2>2, <2>3, <2>4, ZenonT(30)
<1> QED
  BY <1>q, <1>7, <1>8 DEF AQueue

\* Copy is Take, of as many packets as fit, or invisible if there are none.
LEMMA TakeStep ==
  ASSUME IInv, IInv', NEW t \in Threads, Others(t), Copy(t)
  PROVE  (\E q \in Queues : Abstract!Take(q)) \/ UNCHANGED AVars
<1> USE DEF Goto, ringVars, flagVars, enqVars, deqVars, outVars
<1>q. PICK q \in Queues : q = Polled(t)
  BY OwnerType DEF IInv
<1>p. PICK p \in Seq(Packets) : p = First(t).pkts
  BY OwnerType DEF IInv
<1>n. PICK n \in 0 .. Len(p) : n = NCopy(t)
  BY <1>p, CopyTakes
<1>0. n = 0 => p = << >>
  BY <1>p, <1>n, CopyTakes DEF NCopy
<1>1. /\ pc[t] = "deq" /\ pc'[t] \in {"reset", "deqend", "deq"}
      /\ head[q] # tail[q] /\ First(t).valid
      /\ UNCHANGED << tail, head, received, frame, my_tail, fqm, drop_list, freed >>
  BY <1>q DEF Copy, Ready, IInv, TypeOK
<1>2. head[q] < tail[q]
  BY <1>1, RingBounds
<1>3. /\ AQueue[q] # << >> /\ AQueue[q][1] = p
  BY <1>q, <1>p, <1>1, <1>2, FirstContents DEF AQueue
<1>4. AQueue' = [AQueue EXCEPT ![q][1] = SubSeq(p, n + 1, Len(p))]
  <2>1. SlotSet(Polled(t), Slot(head[Polled(t)] + 1), [valid |-> TRUE, pkts |-> Left(t)])
    BY CopySets
  <2>2. pc[t] # "fill" /\ pc'[t] # "fill"
    BY <1>1
  <2>3. AQueue' = [AQueue EXCEPT ![Polled(t)][1] = Left(t)]
    BY <1>q, <1>1, <1>2, <2>1, <2>2, FirstSet
  <2> QED
    BY <1>q, <1>p, <1>n, <2>3 DEF Left
<1>5. AFrame' = AFrame
  <2>1. AFrameOf(t)' = AFrameOf(t)
    BY <1>1 DEF AFrameOf, Sent
  <2> QED
    BY <2>1, FramesKept
<1>6. AFreed' = AFreed
  BY <1>1 DEF AFreed, Dropped
<1>7. ADelivered' = [ADelivered EXCEPT ![q] = @ \o SubSeq(p, 1, n)]
  <2> DEFINE s == SubSeq(p, 1, n)
  <2>0. s \in Seq(Packets)
    OBVIOUS
  <2>1. /\ f' = [f EXCEPT ![t] = IF NCopy(t) = NFree(t) THEN << >> ELSE f[t] \o s]
        /\ delivered' = IF NCopy(t) = NFree(t)
                        THEN [delivered EXCEPT ![q] = @ \o (f[t] \o s)] ELSE delivered
    BY <1>q, <1>p, <1>n DEF Copy, NCopy, NFree
  <2> HIDE DEF s
  <2>2. /\ delivered \in [Queues -> Seq(Packets)] /\ f \in [Threads -> Seq(Packets)]
        /\ q[2] = t
    BY <1>q DEF IInv, TypeOK, Polled
  <2>3. ADeliveredOf(q) = delivered[q] \o f[t]
    BY <1>q, <2>2 DEF ADeliveredOf
  <2>4. ADeliveredOf(q)' = delivered'[q] \o f'[t]
    BY <1>q, <1>1, <2>2 DEF ADeliveredOf, Polled
  <2>5. (delivered[q] \o f[t]) \o s = delivered[q] \o (f[t] \o s)
    <3>1. PICK a \in Seq(Packets), b \in Seq(Packets) : a = delivered[q] /\ b = f[t]
      BY <2>2
    <3>2. (a \o b) \o s = a \o (b \o s)
      BY <2>0
    <3> QED
      BY <3>1, <3>2
  <2>6. ADeliveredOf(q)' = ADeliveredOf(q) \o s
    <3>1. CASE NCopy(t) = NFree(t)
      <4>1. f'[t] = << >> /\ delivered'[q] = delivered[q] \o (f[t] \o s)
        BY <2>1, <2>2, <3>1
      <4>2. delivered[q] \o (f[t] \o s) \in Seq(Packets)
        BY <2>0, <2>2
      <4>3. delivered'[q] \o f'[t] = delivered[q] \o (f[t] \o s)
        BY <4>1, <4>2, ConcatEmptySeq
      <4> QED
        BY <2>3, <2>4, <2>5, <4>3
    <3>2. CASE NCopy(t) # NFree(t)
      <4>1. f'[t] = f[t] \o s /\ delivered'[q] = delivered[q]
        BY <2>1, <2>2, <3>2
      <4> QED
        BY <2>3, <2>4, <2>5, <4>1
    <3> QED
      BY <3>1, <3>2
  <2>7. ASSUME NEW r \in Queues, r # q
        PROVE  ADeliveredOf(r)' = ADeliveredOf(r)
    <3>1. delivered'[r] = delivered[r] /\ Polled(r[2])' = Polled(r[2])
      BY <1>1, <2>1, <2>2, <2>7 DEF Polled
    <3>2. Polled(r[2]) = r => f'[r[2]] = f[r[2]]
      <4>1. Polled(r[2]) = r => r[2] # t /\ r[2] \in Threads
        BY <1>q, <2>7 DEF Queues
      <4> QED
        BY <2>1, <2>2, <4>1
    <3> QED
      BY <3>1, <3>2 DEF ADeliveredOf
  <2> QED
    BY <2>6, <2>7 DEF ADelivered, s
<1>t. AQueue[q] \in Seq(Seq(Packets)) /\ ADelivered[q] \in Seq(Packets)
  BY QueueType, OtherTypes DEF AQueue, ADelivered
<1>8. CASE n = 0
  <2>1. SubSeq(p, n + 1, Len(p)) = p /\ SubSeq(p, 1, n) = << >> /\ p = << >>
    BY <1>0, <1>8
  <2>2. AQueue' = AQueue
    <3>1. [AQueue[q] EXCEPT ![1] = p] = AQueue[q]
      BY <1>3, <1>t
    <3>2. AQueue' = [AQueue EXCEPT ![q] = [AQueue[q] EXCEPT ![1] = p]]
      BY <1>4, <2>1
    <3> QED
      BY <3>1, <3>2 DEF AQueue
  <2>3. ADelivered' = ADelivered
    <3>1. ADelivered[q] \o << >> = ADelivered[q]
      BY <1>t, ConcatEmptySeq
    <3>2. ADelivered' = [ADelivered EXCEPT ![q] = ADelivered[q]]
      BY <1>7, <2>1, <3>1
    <3> QED
      BY <3>2 DEF ADelivered
  <2> QED
    BY <1>1, <1>5, <1>6, <2>2, <2>3 DEF AVars
<1>9. CASE n # 0
  <2>1. Head(AQueue[q]) = p /\ n \in 1 .. Len(Head(AQueue[q]))
    BY <1>3, <1>t, <1>9
  <2>2. /\ AQueue[q] # << >>
        /\ \E m \in 1 .. Len(Head(AQueue[q])) :
              /\ AQueue' = [AQueue EXCEPT ![q][1] = SubSeq(@, m + 1, Len(@))]
              /\ ADelivered' = [ADelivered EXCEPT ![q] = @ \o SubSeq(Head(AQueue[q]), 1, m)]
        /\ UNCHANGED << received, AFrame, AFreed >>
    <3>1. AQueue' = [AQueue EXCEPT ![q][1] = SubSeq(@, n + 1, Len(@))]
      BY <1>3, <1>4
    <3> QED
      BY <1>1, <1>3, <1>5, <1>6, <1>7, <2>1, <3>1
  <2>3. Abstract!Take(q)
    BY <2>2, Zenon
    DEF Abstract!Take, AFrame, AQueue, ADelivered, AFreed, AFrameOf, AQueueOf,
        ADeliveredOf, Dropped, Sent
  <2> QED
    BY <2>3
<1> QED
  BY <1>8, <1>9

\* ResetElt clears an element that had no packet left.
LEMMA ResetHidden ==
  ASSUME IInv, IInv', NEW t \in Threads, Others(t), ResetElt(t)
  PROVE  UNCHANGED AVars
<1> USE DEF Goto, ringVars, flagVars, enqVars, deqVars, outVars
<1>q. PICK q \in Queues : q = Polled(t)
  BY OwnerType DEF IInv
<1>1. /\ pc[t] = "reset" /\ pc'[t] = "bump"
      /\ UNCHANGED << tail, head, received, frame, fqm, drop_list, f, delivered, freed >>
  BY DEF ResetElt, IInv, TypeOK
<1>2. /\ head[Polled(t)] < tail[Polled(t)] /\ First(t).valid /\ First(t).pkts = << >>
  BY <1>1 DEF IInv, OwnerOK
<1>3. AQueue' = [AQueue EXCEPT ![q][1] = << >>]
  <2>1. SlotSet(Polled(t), Slot(head[Polled(t)] + 1), [valid |-> FALSE, pkts |-> << >>])
    BY ResetSets DEF IInv, EmptyElt
  <2>2. AQueue' = [AQueue EXCEPT ![Polled(t)][1] = << >>]
    BY <1>1, <1>2, <2>1, FirstSet
  <2> QED
    BY <1>q, <2>2
<1>4. AQueue[q][1] = << >> /\ AQueue[q] \in Seq(Seq(Packets)) /\ AQueue[q] # << >>
  BY <1>q, <1>2, FirstContents, QueueType DEF AQueue
<1>5. AQueue' = AQueue
  <2>1. [AQueue[q] EXCEPT ![1] = << >>] = AQueue[q]
    <3>1. PICK e : e = << >>
      OBVIOUS
    <3>2. [AQueue[q] EXCEPT ![1] = e] = AQueue[q]
      BY <1>4, <3>1, FirstSame, Zenon
    <3> QED
      BY <3>1, <3>2
  <2>2. AQueue' = [AQueue EXCEPT ![q] = [AQueue[q] EXCEPT ![1] = << >>]]
    BY <1>3
  <2> QED
    BY <2>1, <2>2 DEF AQueue
<1>6. AFrameOf(t)' = AFrameOf(t)
  BY <1>1 DEF AFrameOf, Sent
<1>7. AFrame' = AFrame /\ ADelivered' = ADelivered
  BY <1>1, <1>6, FramesKept, DeliveredKept
<1>8. AFreed' = AFreed
  BY <1>1 DEF AFreed, Dropped
<1> QED
  BY <1>1, <1>5, <1>7, <1>8 DEF AVars

\* BumpHead is GiveBack.
LEMMA GiveBackStep ==
  ASSUME IInv, IInv', NEW t \in Threads, Others(t), BumpHead(t)
  PROVE  \E q \in Queues : Abstract!GiveBack(q)
<1> USE DEF Goto, ringVars, flagVars, enqVars, deqVars, outVars
<1>q. PICK q \in Queues : q = Polled(t)
  BY OwnerType DEF IInv
<1>h. PICK h \in Nat : h = head[q]
  BY RingBounds
<1>1. /\ pc[t] = "bump" /\ pc'[t] \in {"deqend", "deq"}
      /\ head' = [head EXCEPT ![q] = @ + 1]
      /\ UNCHANGED << elts, tail, received, frame, my_tail, fqm, drop_list, f, delivered, freed >>
  BY <1>q DEF BumpHead, IInv, TypeOK
<1>2. /\ head[Polled(t)] < tail[Polled(t)] /\ First(t).pkts = << >>
  BY <1>1 DEF IInv, OwnerOK
<1>3. /\ h < tail[q] /\ tail[q] \in Nat /\ head'[q] = h + 1
      /\ \A r \in Queues : r # q => head'[r] = head[r]
  <2>1. head \in [Queues -> Nat]
    BY DEF IInv, TypeOK
  <2> QED
    BY <1>q, <1>h, <1>1, <1>2, <2>1, RingBounds
<1>4. AQueue[q] # << >> /\ AQueue[q][1] = << >> /\ AQueue[q] \in Seq(Seq(Packets))
  BY <1>q, <1>1, <1>2, FirstContents, QueueType DEF AQueue
<1>5. \A r, m : Contents(r, m)' = Contents(r, m)
  <2>1. \A u \in Threads : \A r, m : Filling(u, r, m)' <=> Filling(u, r, m)
    BY <1>1, FillingOthers DEF Filling
  <2> QED
    BY <1>1, <2>1, ContentsKept
<1>6. AQueueOf(q)' = Tail(AQueueOf(q))
  <2> DEFINE s == AQueueOf(q)
             k == tail[q] - h
  <2>1. /\ s \in Seq(Seq(Packets)) /\ Len(s) = k /\ k \in Nat \ {0}
        /\ \A i \in 1 .. k : s[i] = Contents(q, h + i)
    BY <1>h, <1>3, QueueType
  <2>2. AQueueOf(q)' = [i \in 1 .. k - 1 |-> Contents(q, (h + 1) + i)']
    <3>1. tail'[q] - head'[q] = k - 1
      BY <1>1, <1>3
    <3> QED
      BY <1>1, <1>3, <3>1 DEF AQueueOf
  <2>3. ASSUME NEW i \in 1 .. k - 1
        PROVE  Contents(q, (h + 1) + i)' = s[i + 1]
    <3>1. i + 1 \in 1 .. k /\ h + (i + 1) = (h + 1) + i
      BY <2>1
    <3>2. s[i + 1] = Contents(q, h + (i + 1))
      BY <2>1, <3>1
    <3> QED
      BY <1>5, <3>1, <3>2
  <2> HIDE DEF s, k
  <2>4. Tail(s) = [i \in 1 .. k - 1 |-> s[i + 1]]
    <3> DEFINE r == Tail(s)
    <3>1. s # << >>
      BY <2>1
    <3>2. /\ r \in Seq(Seq(Packets)) /\ Len(r) = k - 1
          /\ \A i \in 1 .. Len(r) : r[i] = s[i + 1]
      BY <2>1, <3>1, HeadTailProperties
    <3> HIDE DEF r
    <3>3. r = [i \in 1 .. k - 1 |-> s[i + 1]]
      BY <3>2
    <3> QED
      BY <3>3 DEF r
  <2> QED
    BY <2>2, <2>3, <2>4 DEF s
<1>7. \A r \in Queues : r # q => AQueueOf(r)' = AQueueOf(r)
  <2>1. ASSUME NEW r \in Queues, r # q
        PROVE  AQueueOf(r)' = AQueueOf(r)
    <3>1. head[r] \in Nat /\ tail[r] \in Nat /\ head'[r] = head[r] /\ tail'[r] = tail[r]
      BY <1>1, <1>3, <2>1, RingBounds
    <3> QED
      BY <1>5, <3>1, QueueKept
  <2> QED
    BY <2>1
<1>8. AQueue' = [AQueue EXCEPT ![q] = Tail(@)]
  BY <1>6, <1>7 DEF AQueue
<1>9. AFrameOf(t)' = AFrameOf(t)
  BY <1>1 DEF AFrameOf, Sent
<1>10. AFrame' = AFrame /\ ADelivered' = ADelivered
  BY <1>1, <1>9, FramesKept, DeliveredKept
<1>11. AFreed' = AFreed
  BY <1>1 DEF AFreed, Dropped
<1>12. /\ AQueue[q] # << >> /\ Head(AQueue[q]) = << >>
       /\ AQueue' = [AQueue EXCEPT ![q] = Tail(@)]
       /\ UNCHANGED << received, AFrame, ADelivered, AFreed >>
  BY <1>1, <1>4, <1>8, <1>10, <1>11
<1>13. Abstract!GiveBack(q)
  BY <1>12, Zenon
  DEF Abstract!GiveBack, AFrame, AQueue, ADelivered, AFreed, AFrameOf, AQueueOf,
      ADeliveredOf, Dropped, Sent
<1> QED
  BY <1>13

-----------------------------------------------------------------------------
(* The steps HandoffSpec does not see.                                     *)

\* A step that touches no ring, and leaves the packets of t where they are.
LEMMA QuietHidden ==
  ASSUME IInv, IInv', NEW t \in Threads, Others(t), UNCHANGED << elts, tail, head, received >>,
         pc[t] # "fill", pc'[t] # "fill", AFrameOf(t)' = AFrameOf(t),
         ADelivered' = ADelivered, AFreed' = AFreed
  PROVE  UNCHANGED AVars
  BY QueuesKept, FramesKept DEF AVars, ringVars

\* A step that only moves t from one place to another.
LEMMA MoveHidden ==
  ASSUME IInv, IInv', NEW t \in Threads, Others(t),
         UNCHANGED << elts, tail, head, received, frame, fqm, drop_list, f, delivered, freed >>,
         pc[t] \notin Sent, pc'[t] \notin Sent
  PROVE  UNCHANGED AVars
<1>1. AFrameOf(t)' = AFrameOf(t)
  BY DEF AFrameOf
<1>2. ADelivered' = ADelivered
  BY DeliveredKept
<1>3. AFreed' = AFreed
  BY DEF AFreed, Dropped
<1> QED
  BY <1>1, <1>2, <1>3, QuietHidden DEF Sent

\* Fill and Publish: the element holds what it was said to hold when claimed.
LEMMA WriteHidden ==
  ASSUME IInv, IInv', NEW t \in Threads, Others(t), pc[t] \in Claims,
         pc'[t] \in {"valid", "notify"}, NEW v, NEW x,
         SlotSet(Ring(t), Slot(my_tail[t] + 1), [valid |-> v, pkts |-> x]),
         Contents(Ring(t), my_tail[t] + 1) = x,
         UNCHANGED << tail, head, received, frame, my_tail, fqm, drop_list, f, delivered, freed >>
  PROVE  UNCHANGED AVars
<1>q. PICK q \in Queues : q = Ring(t)
  BY ProducerType DEF Claims, Producing
<1>n. PICK n \in head[q] + 1 .. tail[q] : n = my_tail[t] + 1
  <2>1. /\ my_tail[t] \in Nat /\ head[q] <= my_tail[t] /\ my_tail[t] < tail[q]
    BY <1>q DEF IInv, TypeOK, ProducerOK
  <2> QED
    BY <2>1, RingBounds
<1>1. SlotSet(q, Slot(n), [valid |-> v, pkts |-> x]) /\ Contents(q, n) = x
  BY <1>q, <1>n
<1>2. \A u \in Threads : \A r, m :
         (u # t \/ r # q \/ m # n) => (Filling(u, r, m)' <=> Filling(u, r, m))
  BY <1>q, <1>n, FillingOthers DEF Filling, Claimed
<1>3. \A u \in Threads : ~Filling(u, q, n)'
  <2>1. ASSUME NEW u \in Threads, u # t, Filling(u, q, n)
        PROVE  FALSE
    <3>1. my_tail[u] \in Nat /\ my_tail[t] \in Nat
      BY DEF IInv, TypeOK
    <3> QED
      BY <1>q, <1>n, <2>1, <3>1 DEF IInv, ClaimsApart, Filling, Claimed, Claims
  <2> QED
    BY <1>2, <2>1 DEF Filling
<1>4. Contents(q, n)' = x
  <2>1. IInv' => ContentsOK'
    BY ContentsValue, PTL
  <2>2. elts'[q][Slot(n)].pkts = x
    BY <1>1 DEF SlotSet
  <2> QED
    BY <1>3, <2>1, <2>2 DEF ContentsOK
<1>5. ASSUME NEW r \in Queues, NEW m \in head[r] + 1 .. tail[r]
      PROVE  Contents(r, m)' = Contents(r, m)
  <2>1. CASE r = q /\ m = n
    BY <1>1, <1>4, <2>1
  <2>2. CASE ~(r = q /\ m = n)
    <3>1. m \in head[r] + 1 .. head[r] + Nelts
      BY RingBounds
    <3>2. elts'[r][Slot(m)] = elts[r][Slot(m)]
      BY <1>1, <2>2, <3>1, KeptElsewhere
    <3>3. \A u \in Threads : Filling(u, r, m)' <=> Filling(u, r, m)
      BY <1>2, <2>2
    <3> QED
      BY <3>2, <3>3, ContentsKept
  <2> QED
    BY <2>1, <2>2
<1>6. AQueue' = AQueue
  <2>1. ASSUME NEW r \in Queues
        PROVE  AQueueOf(r)' = AQueueOf(r)
    <3>1. head[r] \in Nat /\ tail[r] \in Nat /\ head'[r] = head[r] /\ tail'[r] = tail[r]
      BY RingBounds
    <3> QED
      BY <1>5, <3>1, QueueKept
  <2> QED
    BY <2>1 DEF AQueue
<1>7. AFrameOf(t)' = AFrameOf(t)
  BY DEF AFrameOf, Sent, Claims
<1>8. AFrame' = AFrame /\ ADelivered' = ADelivered
  BY <1>7, FramesKept, DeliveredKept
<1>9. AFreed' = AFreed
  BY DEF AFreed, Dropped
<1> QED
  BY <1>6, <1>8, <1>9 DEF AVars

\* Fill writes the packets the element was claimed for.
LEMMA FillHidden ==
  ASSUME IInv, IInv', NEW t \in Threads, Others(t), Fill(t)
  PROVE  UNCHANGED AVars
<1> USE DEF Goto, ringVars, flagVars, enqVars, deqVars, outVars
<1>1. /\ pc[t] = "fill" /\ pc[t] \in Claims /\ pc'[t] \in {"valid", "notify"}
      /\ UNCHANGED << tail, head, received, frame, my_tail, fqm, drop_list, f, delivered, freed >>
  BY DEF Fill, IInv, TypeOK, Claims
<1>2. SlotSet(Ring(t), Slot(my_tail[t] + 1),
              [valid |-> Mine(t).valid, pkts |-> Group(frame[t])])
  BY FillSets
<1>3. Contents(Ring(t), my_tail[t] + 1) = Group(frame[t])
  <2>1. Filling(t, Ring(t), my_tail[t] + 1)
    BY <1>1 DEF Filling, Claimed
  <2> QED
    BY <2>1, ContentsValue DEF ContentsOK
<1> QED
  BY <1>1, <1>2, <1>3, WriteHidden

\* Publish leaves the packets alone.
LEMMA PublishHidden ==
  ASSUME IInv, IInv', NEW t \in Threads, Others(t), Publish(t)
  PROVE  UNCHANGED AVars
<1> USE DEF Goto, ringVars, flagVars, enqVars, deqVars, outVars
<1>1. /\ pc[t] = "valid" /\ pc[t] \in Claims /\ pc'[t] \in {"valid", "notify"}
      /\ UNCHANGED << tail, head, received, frame, my_tail, fqm, drop_list, f, delivered, freed >>
  BY DEF Publish, IInv, TypeOK, Claims
<1>2. SlotSet(Ring(t), Slot(my_tail[t] + 1), [valid |-> TRUE, pkts |-> Mine(t).pkts])
  BY PublishSets
<1>3. Contents(Ring(t), my_tail[t] + 1) = Mine(t).pkts
  <2>1. ASSUME NEW u \in Threads, Filling(u, Ring(t), my_tail[t] + 1)
        PROVE  FALSE
    <3>1. my_tail[u] \in Nat /\ my_tail[t] \in Nat
      BY DEF IInv, TypeOK
    <3>2. u = t
      BY <1>1, <2>1, <3>1 DEF IInv, ClaimsApart, Filling, Claimed, Claims
    <3> QED
      BY <1>1, <2>1, <3>2 DEF Filling
  <2> QED
    BY <2>1, ContentsValue DEF ContentsOK, Mine
<1> QED
  BY <1>1, <1>2, <1>3, WriteHidden

\* LoopHead turns to the first queue main with no packets in hand.
LEMMA LoopHeadHidden ==
  ASSUME IInv, IInv', NEW t \in Threads, Others(t), LoopHead(t)
  PROVE  UNCHANGED AVars
<1> USE DEF Goto, ringVars, flagVars, enqVars, deqVars, outVars
<1>1. /\ pc[t] = "loop" /\ pc'[t] \in {"clear", "deq", "dispatch"} /\ f[t] = << >>
      /\ UNCHANGED << elts, tail, head, received, frame, my_tail, drop_list, f, delivered, freed >>
  BY DEF LoopHead, IInv, TypeOK, LocalOK, Polling
<1>2. ASSUME NEW r \in Queues
      PROVE  ADeliveredOf(r)' = ADeliveredOf(r)
  <2>0. r[2] \in Threads /\ delivered[r] \in Seq(Packets)
    BY OtherTypes
  <2>1. CASE r[2] = t
    <3>1. delivered[r] \o f[r[2]] = delivered[r]
      BY <1>1, <2>0, <2>1, ConcatEmptySeq
    <3>2. delivered'[r] \o f'[r[2]] = delivered[r]
      BY <1>1, <3>1
    <3> QED
      BY <1>1, <3>1, <3>2 DEF ADeliveredOf
  <2>2. CASE r[2] # t
    BY <1>1, <2>0, <2>2, OthersView DEF ADeliveredOf
  <2> QED
    BY <2>1, <2>2
<1>3. ADelivered' = ADelivered
  BY <1>2 DEF ADelivered
<1>4. AFrameOf(t)' = AFrameOf(t)
  BY <1>1 DEF AFrameOf, Sent
<1>5. AFreed' = AFreed
  BY <1>1 DEF AFreed, Dropped
<1> QED
  BY <1>1, <1>3, <1>4, <1>5, QuietHidden

\* The end of a poll puts the frame in hand where its packets are counted
\* already, and turns to the next queue main with none.
LEMMA DequeueEndHidden ==
  ASSUME IInv, IInv', NEW t \in Threads, Others(t), DequeueEnd(t)
  PROVE  UNCHANGED AVars
<1> USE DEF Goto, ringVars, flagVars, enqVars, deqVars, outVars
<1>q. PICK q \in Queues : q = Polled(t)
  BY OwnerType DEF IInv
<1>1. /\ pc[t] = "deqend" /\ pc'[t] \in {"deq", "dispatch"}
      /\ UNCHANGED << elts, tail, head, received, frame, my_tail, drop_list, freed >>
  BY DEF DequeueEnd, IInv, TypeOK
<1>2. /\ delivered'[q] = delivered[q] \o f[t] /\ f'[t] = << >>
      /\ \A r \in Queues : r # q => delivered'[r] = delivered[r]
      /\ q[2] = t
  BY <1>q DEF DequeueEnd, PutFrame, IInv, TypeOK, Polled
<1>3. ASSUME NEW r \in Queues
      PROVE  ADeliveredOf(r)' = ADeliveredOf(r)
  <2>0. /\ r[2] \in Threads /\ delivered[r] \in Seq(Packets) /\ f[r[2]] \in Seq(Packets)
    BY OtherTypes
  <2>1. CASE r[2] = t
    <3>1. delivered'[r] \in Seq(Packets) /\ ADeliveredOf(r)' = delivered'[r]
      <4>1. delivered'[r] \in Seq(Packets)
        BY DEF IInv, TypeOK
      <4>2. delivered'[r] \o f'[r[2]] = delivered'[r]
        BY <1>2, <2>1, <4>1, ConcatEmptySeq
      <4> QED
        BY <4>1, <4>2 DEF ADeliveredOf
    <3>2. CASE r = q
      BY <1>q, <1>2, <2>1, <3>1, <3>2 DEF ADeliveredOf
    <3>3. CASE r # q
      BY <1>q, <1>2, <2>1, <3>1, <3>3 DEF ADeliveredOf
    <3> QED
      BY <3>2, <3>3
  <2>2. CASE r[2] # t
    <3>1. f'[r[2]] = f[r[2]] /\ Polled(r[2])' = Polled(r[2]) /\ delivered'[r] = delivered[r]
      BY <1>2, <2>0, <2>2 DEF Others, Polled
    <3> QED
      BY <3>1 DEF ADeliveredOf
  <2> QED
    BY <2>1, <2>2
<1>4. ADelivered' = ADelivered
  BY <1>3 DEF ADelivered
<1>5. AFrameOf(t)' = AFrameOf(t)
  BY <1>1 DEF AFrameOf, Sent
<1>6. AFreed' = AFreed
  BY <1>1 DEF AFreed, Dropped
<1> QED
  BY <1>1, <1>4, <1>5, <1>6, QuietHidden

\* Notify goes on to what is left of the frame.
LEMMA NotifyHidden ==
  ASSUME IInv, IInv', NEW t \in Threads, Others(t), Notify(t)
  PROVE  UNCHANGED AVars
<1> USE DEF Goto, ringVars, flagVars, enqVars, deqVars, outVars
<1>1. /\ pc[t] = "notify" /\ pc'[t] \in {"free", "tail"} /\ frame'[t] = Rest(frame[t])
      /\ UNCHANGED << elts, tail, head, received, fqm, drop_list, f, delivered, freed >>
  BY DEF Notify, IInv, TypeOK
<1>2. AFrameOf(t)' = AFrameOf(t)
  BY <1>1 DEF AFrameOf, Sent
<1>3. ADelivered' = ADelivered
  BY <1>1, DeliveredKept
<1>4. AFreed' = AFreed
  BY <1>1 DEF AFreed, Dropped
<1> QED
  BY <1>1, <1>2, <1>3, <1>4, QuietHidden

\* The packets of a drop list count as freed already.
LEMMA FreeHidden ==
  ASSUME IInv, IInv', NEW t \in Threads, Others(t), FreeDropped(t)
  PROVE  UNCHANGED AVars
<1> USE DEF Goto, ringVars, flagVars, enqVars, deqVars, outVars
<1>1. /\ pc[t] = "free" /\ pc'[t] = "dispatch"
      /\ freed' = freed \cup Set(drop_list[t]) /\ drop_list'[t] = << >>
      /\ \A u \in Threads : u # t => drop_list'[u] = drop_list[u]
      /\ UNCHANGED << elts, tail, head, received, frame, fqm, f, delivered >>
  BY DEF FreeDropped, IInv, TypeOK
<1>2. Set(drop_list'[t]) = {}
  BY <1>1 DEF Set
<1>4. \A u \in Threads : u # t => Set(drop_list'[u]) = Set(drop_list[u])
  BY <1>1
<1>5. AFreed' = AFreed
  <2>1. ASSUME NEW x
        PROVE  x \in AFreed' <=> x \in AFreed
    <3>1. x \in Dropped' <=> \E u \in Threads : u # t /\ x \in Set(drop_list[u])
      <4>1. x \in Dropped' <=> \E u \in Threads : x \in Set(drop_list'[u])
        BY DEF Dropped
      <4>2. x \notin Set(drop_list'[t])
        BY <1>2
      <4> QED
        BY <1>4, <4>1, <4>2, Zenon
    <3>2. x \in AFreed' <=> (x \in freed \/ x \in Set(drop_list[t]) \/ x \in Dropped')
      BY <1>1 DEF AFreed
    <3>3. x \in AFreed <=> (x \in freed \/ x \in Dropped)
      BY DEF AFreed
    <3>4. x \in Dropped <=> \E u \in Threads : x \in Set(drop_list[u])
      BY DEF Dropped
    <3> QED
      BY <3>1, <3>2, <3>3, <3>4, Zenon
  <2> QED
    BY <2>1
<1>6. AFrameOf(t)' = AFrameOf(t)
  BY <1>1 DEF AFrameOf, Sent
<1>7. ADelivered' = ADelivered
  BY <1>1, DeliveredKept
<1> QED
  BY <1>1, <1>5, <1>6, <1>7, QuietHidden

-----------------------------------------------------------------------------
(* The refinement.                                                         *)

\* The variables of HandoffSpec are the expressions above.
LEMMA SameVars == UNCHANGED AVars => UNCHANGED Abstract!vars
  BY Zenon
  DEF AVars, Abstract!vars, AFrame, AQueue, ADelivered, AFreed, AFrameOf, AQueueOf,
      ADeliveredOf, Dropped, Sent

\* Empty rings are empty FIFOs.
LEMMA InitImplements == Init => Abstract!Init
<1> SUFFICES ASSUME Init
             PROVE  Abstract!Init
  OBVIOUS
<1>1. AFrame = [t \in Threads |-> << >>]
  BY DEF Init, AFrame, AFrameOf, Sent
<1>2. AQueue = [q \in Queues |-> << >>]
  <2>1. ASSUME NEW q \in Queues
        PROVE  AQueueOf(q) = << >>
    BY DEF Init, AQueueOf
  <2> QED
    BY <2>1 DEF AQueue
<1>3. ADelivered = [q \in Queues |-> << >>]
  <2>1. ASSUME NEW q \in Queues
        PROVE  ADeliveredOf(q) = << >>
    BY DEF Init, ADeliveredOf, Queues
  <2> QED
    BY <2>1 DEF ADelivered
<1>4. AFreed = {}
  <2>1. \A t \in Threads : Set(drop_list[t]) = {}
    BY DEF Init, Set
  <2> QED
    BY <2>1 DEF Init, AFreed, Dropped
<1>5. received = [t \in Threads |-> 0]
  BY DEF Init
<1> QED
  BY <1>1, <1>2, <1>3, <1>4, <1>5
  DEF Abstract!Init, Abstract!Queues, Queues, AFrame, AQueue, ADelivered, AFreed, AFrameOf,
      AQueueOf, ADeliveredOf, Dropped, Sent

\* Every step of a thread is a step of HandoffSpec, or changes nothing there.
LEMMA StepImplements ==
  ASSUME ~WithAux, IInv, IInv', NEW t \in Threads, ThreadNext(t)
  PROVE  Abstract!Next \/ UNCHANGED AVars
<1>o. Others(t)
  BY OthersKeep DEF IInv
<1>n. pc \in [Threads -> Pcs]
  BY DEF IInv, TypeOK
<1>m. ASSUME UNCHANGED << elts, tail, head, received, frame, fqm, drop_list, f, delivered, freed >>,
             pc[t] \notin Sent, pc'[t] \notin Sent
      PROVE  UNCHANGED AVars
  BY <1>o, <1>m, MoveHidden
<1> USE DEF Goto, ringVars, flagVars, enqVars, deqVars, outVars
<1>1. CASE Handoff(t)
  BY <1>o, <1>1, AcceptStep DEF Abstract!Next
<1>2. CASE LoadTail(t)
  BY <1>n, <1>m, <1>2 DEF LoadTail, Sent
<1>3. CASE Room(t)
  BY <1>n, <1>m, <1>3 DEF Room, Sent
<1>4. CASE Congested(t)
  BY <1>n, <1>m, <1>4 DEF Congested, Sent
<1>5. CASE Drop(t)
  BY <1>o, <1>5, DropStep DEF Abstract!Next
<1>6. CASE Claim(t)
  <2>1. CASE tail[Ring(t)] = my_tail[t]
    BY <1>o, <1>6, <2>1, EnqueueStep DEF Abstract!Next
  <2>2. CASE tail[Ring(t)] # my_tail[t]
    BY <1>n, <1>m, <1>6, <2>2 DEF Claim, Sent
  <2> QED
    BY <2>1, <2>2
<1>7. CASE Fill(t)
  BY <1>o, <1>7, FillHidden
<1>8. CASE Publish(t)
  BY <1>o, <1>8, PublishHidden
<1>9. CASE Notify(t)
  BY <1>o, <1>9, NotifyHidden
<1>10. CASE FreeDropped(t)
  BY <1>o, <1>10, FreeHidden
<1>11. CASE LoopHead(t)
  BY <1>o, <1>11, LoopHeadHidden
<1>12. CASE ClearCheck(t)
  BY <1>n, <1>m, <1>12 DEF ClearCheck, Sent
<1>13. CASE DequeueNone(t)
  BY <1>n, <1>m, <1>13 DEF DequeueNone, Sent
<1>14. CASE Copy(t)
  BY <1>o, <1>14, TakeStep DEF Abstract!Next, Abstract!Queues, Queues
<1>15. CASE ResetElt(t)
  BY <1>o, <1>15, ResetHidden
<1>16. CASE BumpHead(t)
  BY <1>o, <1>16, GiveBackStep DEF Abstract!Next, Abstract!Queues, Queues
<1>17. CASE DequeueEnd(t)
  BY <1>o, <1>17, DequeueEndHidden
<1>18. CASE LoopEnd(t)
  BY <1>n, <1>m, <1>18 DEF LoopEnd, Sent
<1> QED
  BY <1>1, <1>2, <1>3, <1>4, <1>5, <1>6, <1>7, <1>8, <1>9, <1>10, <1>11, <1>12, <1>13,
     <1>14, <1>15, <1>16, <1>17, <1>18 DEF ThreadNext

\* A step that changes no variable is invisible.
LEMMA StutterImplements == UNCHANGED vars => UNCHANGED AVars
<1> SUFFICES ASSUME UNCHANGED vars
             PROVE  UNCHANGED AVars
  OBVIOUS
<1>1. UNCHANGED << elts, tail, head, pc, received, fqm, frame, my_tail, drop_list, f,
                   delivered, freed >>
  BY DEF vars, ringVars, flagVars, enqVars, deqVars, outVars
<1>2. AFrame' = AFrame /\ AFreed' = AFreed /\ ADelivered' = ADelivered
  BY <1>1 DEF AFrame, AFrameOf, AFreed, Dropped, ADelivered, ADeliveredOf, Polled
<1>3. AQueue' = AQueue
  BY <1>1 DEF AQueue, AQueueOf, Contents, Claimed, Ring
<1> QED
  BY <1>1, <1>2, <1>3 DEF AVars

\* The rings, with their flags, counters and retries, implement the bounded
\* FIFOs of HandoffSpec for every caller without auxiliary data.
THEOREM Refinement ==
  ASSUME ~WithAux
  PROVE  Spec => Implements
<1>1. IInv /\ IInv' /\ [Next]_vars => [Abstract!Next]_(Abstract!vars)
  <2> SUFFICES ASSUME IInv, IInv', [Next]_vars
               PROVE  Abstract!Next \/ UNCHANGED Abstract!vars
    OBVIOUS
  <2>1. CASE Next
    <3>1. PICK t \in Threads : ThreadNext(t)
      BY <2>1 DEF Next
    <3> QED
      BY <3>1, StepImplements, SameVars
  <2>2. CASE UNCHANGED vars
    BY <2>2, StutterImplements, SameVars
  <2> QED
    BY <2>1, <2>2
<1> QED
  BY <1>1, Inductive, InitImplements, PTL DEF Spec, Implements, Abstract!Spec

-----------------------------------------------------------------------------
(* No packet is lost: HandoffSpec keeps every packet in a frame, in a       *)
(* queue, delivered or freed.                                               *)

InFrames(p)  == \E u \in Threads : \E i \in 1 .. Len(AFrame[u]) : AFrame[u][i].pkt = p
InQueues(p)  == \E q \in Queues : \E i \in 1 .. Len(AQueue[q]) : p \in Set(AQueue[q][i])
Delivered(p) == \E q \in Queues : p \in Set(ADelivered[q])

Where(p) == InFrames(p) \/ InQueues(p) \/ Delivered(p) \/ p \in AFreed

Accounted == \A t \in Threads : \A n \in 1 .. received[t] : Where(<< t, n >>)

\* The types of the variables of HandoffSpec.
LEMMA ATypes ==
  ASSUME IInv
  PROVE  /\ \A t \in Threads : AFrame[t] \in Seq(Entry)
         /\ \A q \in Queues : AQueue[q] \in Seq(Seq(Packets)) /\ ADelivered[q] \in Seq(Packets)
  BY OtherTypes, QueueType DEF AFrame, AQueue, ADelivered

\* A new frame replaces an empty one and holds the packets received.
LEMMA AcceptKeeps ==
  ASSUME IInv, Accounted, NEW t \in Threads, Abstract!Accept(t)
  PROVE  Accounted'
<1>1. /\ AFrame[t] = << >> /\ UNCHANGED << AQueue, ADelivered, AFreed >>
      /\ \E n \in 1 .. FrameSize, k \in Fqms : \E to \in [1 .. n -> Routes[t][k]] :
            /\ received[t] + n <= MaxPackets[t]
            /\ received' = [received EXCEPT ![t] = @ + n]
            /\ AFrame' = [AFrame EXCEPT ![t] =
              [i \in 1 .. n |-> [pkt |-> << t, received[t] + i >>, to |-> << k, to[i] >>]]]
  BY Zenon
  DEF Abstract!Accept, AFrame, AQueue, ADelivered, AFreed, AFrameOf, AQueueOf,
      ADeliveredOf, Dropped, Sent
<1>2. PICK n \in 1 .. FrameSize, k \in Fqms : \E to \in [1 .. n -> Routes[t][k]] :
            /\ received' = [received EXCEPT ![t] = @ + n]
            /\ AFrame' = [AFrame EXCEPT ![t] =
              [i \in 1 .. n |-> [pkt |-> << t, received[t] + i >>, to |-> << k, to[i] >>]]]
  BY <1>1
<1>3. PICK to \in [1 .. n -> Routes[t][k]] :
            /\ received' = [received EXCEPT ![t] = @ + n]
            /\ AFrame' = [AFrame EXCEPT ![t] =
              [i \in 1 .. n |-> [pkt |-> << t, received[t] + i >>, to |-> << k, to[i] >>]]]
  BY <1>2
<1>4. /\ Len(AFrame'[t]) = n /\ \A i \in 1 .. n : AFrame'[t][i].pkt = << t, received[t] + i >>
      /\ \A u \in Threads : u # t => AFrame'[u] = AFrame[u]
  <2> DEFINE fr == [i \in 1 .. n |-> [pkt |-> << t, received[t] + i >>, to |-> << k, to[i] >>]]
  <2>1. Len(fr) = n /\ \A i \in 1 .. n : fr[i].pkt = << t, received[t] + i >>
    OBVIOUS
  <2>2. AFrame' = [AFrame EXCEPT ![t] = fr]
    BY <1>3
  <2> HIDE DEF fr
  <2>3. AFrame'[t] = fr /\ \A u \in Threads : u # t => AFrame'[u] = AFrame[u]
    BY <2>2 DEF AFrame
  <2> QED
    BY <2>1, <2>3
<1>5. /\ received'[t] = received[t] + n /\ received[t] \in Nat
      /\ \A u \in Threads : u # t => received'[u] = received[u]
  BY <1>3 DEF IInv, TypeOK
<1>6. \A p : InQueues(p)' <=> InQueues(p)
  BY <1>1 DEF InQueues
<1>7. \A p : Delivered(p)' <=> Delivered(p)
  BY <1>1 DEF Delivered
<1>8. ASSUME NEW p, InFrames(p)
      PROVE  InFrames(p)'
  <2>1. PICK u \in Threads : \E i \in 1 .. Len(AFrame[u]) : AFrame[u][i].pkt = p
    BY <1>8 DEF InFrames
  <2>2. u # t
    BY <1>1, <2>1
  <2> QED
    BY <1>4, <2>1, <2>2 DEF InFrames
<1>9. ASSUME NEW u \in Threads, NEW m \in 1 .. received'[u]
      PROVE  Where(<< u, m >>)'
  <2>1. CASE m \in 1 .. received[u]
    <3>1. Where(<< u, m >>)
      BY <2>1 DEF Accounted
    <3> QED
      BY <1>1, <1>6, <1>7, <1>8, <3>1 DEF Where
  <2>2. CASE m \notin 1 .. received[u]
    <3>1. u = t
      BY <1>5, <1>9, <2>2
    <3>2. m - received[t] \in 1 .. n /\ received[t] + (m - received[t]) = m
      BY <1>5, <1>9, <2>2, <3>1
    <3>3. AFrame'[t][m - received[t]].pkt = << u, m >>
      BY <1>4, <3>1, <3>2
    <3>4. InFrames(<< u, m >>)'
      BY <1>4, <3>2, <3>3 DEF InFrames
    <3> QED
      BY <3>4 DEF Where
  <2> QED
    BY <2>1, <2>2
<1> QED
  BY <1>9 DEF Accounted

\* The frame of t is split: each packet of it is in its first part or left.
LEMMA SplitKeeps ==
  ASSUME IInv, NEW t \in Threads, AFrame[t] # << >>,
         AFrame' = [AFrame EXCEPT ![t] = Rest(@)], NEW p, InFrames(p)
  PROVE  InFrames(p)' \/ p \in Set(Group(AFrame[t]))
<1>u. PICK u \in Threads : \E i \in 1 .. Len(AFrame[u]) : AFrame[u][i].pkt = p
  BY DEF InFrames
<1>1. PICK i \in 1 .. Len(AFrame[u]) : AFrame[u][i].pkt = p
  BY <1>u
<1>2. AFrame'[t] = Rest(AFrame[t]) /\ \A w \in Threads : w # t => AFrame'[w] = AFrame[w]
  BY DEF AFrame
<1>3. CASE u = t
  <2>1. \/ \E j \in 1 .. Len(Group(AFrame[t])) : Group(AFrame[t])[j] = AFrame[t][i].pkt
        \/ \E j \in 1 .. Len(Rest(AFrame[t])) : Rest(AFrame[t])[j].pkt = AFrame[t][i].pkt
    BY <1>1, <1>3, ATypes, SplitFrame
  <2> QED
    BY <1>1, <1>2, <1>3, <2>1 DEF InFrames, Set
<1>4. CASE u # t
  BY <1>1, <1>2, <1>4 DEF InFrames
<1> QED
  BY <1>3, <1>4

\* Enqueue moves packets from a frame to a queue.
LEMMA EnqueueKeeps ==
  ASSUME IInv, NEW t \in Threads, Abstract!Enqueue(t), NEW p, Where(p)
  PROVE  Where(p)'
<1>1. /\ AFrame[t] # << >>
      /\ AQueue' = [AQueue EXCEPT ![AFrame[t][1].to] = Append(@, Group(AFrame[t]))]
      /\ AFrame' = [AFrame EXCEPT ![t] = Rest(@)]
      /\ UNCHANGED << received, ADelivered, AFreed >>
  BY SameSplit
  DEF Abstract!Enqueue, AFrame, AQueue, ADelivered, AFreed, AFrameOf, AQueueOf,
      ADeliveredOf, Dropped, Sent
<1>2. AFrame[t] \in Seq(Entry) /\ AFrame[t][1] \in Entry
  BY <1>1, ATypes
<1>q. PICK q \in Queues : q = AFrame[t][1].to
  BY <1>2 DEF Entry
<1>g. PICK g \in Seq(Packets) : g = Group(AFrame[t])
  BY <1>1, <1>2, SplitFrame
<1>s. PICK s \in Seq(Seq(Packets)) : s = AQueue[q]
  BY ATypes
<1>3. /\ AQueue'[q] = Append(s, g)
      /\ \A r \in Queues : r # q => AQueue'[r] = AQueue[r]
  BY <1>1, <1>q, <1>g, <1>s DEF AQueue
<1>4. /\ Len(Append(s, g)) = Len(s) + 1 /\ Append(s, g)[Len(s) + 1] = g
      /\ \A i \in 1 .. Len(s) : Append(s, g)[i] = s[i]
  BY AppendProperties
<1>5. p \in Set(g) => InQueues(p)'
  <2>1. Len(s) + 1 \in 1 .. Len(Append(s, g))
    BY <1>4
  <2> QED
    BY <1>3, <1>4, <2>1 DEF InQueues
<1>6. InFrames(p) => InFrames(p)' \/ p \in Set(g)
  BY <1>1, <1>g, SplitKeeps
<1>7. InQueues(p) => InQueues(p)'
  <2> SUFFICES ASSUME InQueues(p)
               PROVE  InQueues(p)'
    OBVIOUS
  <2>r. PICK r \in Queues : \E i \in 1 .. Len(AQueue[r]) : p \in Set(AQueue[r][i])
    BY DEF InQueues
  <2>1. PICK i \in 1 .. Len(AQueue[r]) : p \in Set(AQueue[r][i])
    BY <2>r
  <2>2. CASE r = q
    <3>1. i \in 1 .. Len(AQueue'[q]) /\ AQueue'[q][i] = s[i]
      BY <1>s, <1>3, <1>4, <2>1, <2>2
    <3> QED
      BY <1>s, <2>1, <2>2, <3>1 DEF InQueues
  <2>3. CASE r # q
    BY <1>3, <2>1, <2>3 DEF InQueues
  <2> QED
    BY <2>2, <2>3
<1>8. Delivered(p)' <=> Delivered(p)
  BY <1>1 DEF Delivered
<1> QED
  BY <1>1, <1>5, <1>6, <1>7, <1>8 DEF Where

\* Drop moves packets from a frame to those freed.
LEMMA DropKeeps ==
  ASSUME IInv, NEW t \in Threads, Abstract!Drop(t), NEW p, Where(p)
  PROVE  Where(p)'
<1>1. /\ AFrame[t] # << >>
      /\ AFreed' = AFreed \cup {Abstract!Group(AFrame[t])[i] :
                                   i \in 1 .. Len(Abstract!Group(AFrame[t]))}
      /\ AFrame' = [AFrame EXCEPT ![t] = Abstract!Rest(@)]
      /\ UNCHANGED << received, AQueue, ADelivered >>
  BY DEF Abstract!Drop, AFrame, AQueue, ADelivered, AFreed, AFrameOf, AQueueOf,
         ADeliveredOf, Dropped, Sent
<1>2. Abstract!Group(AFrame[t]) = Group(AFrame[t]) /\ Abstract!Rest(AFrame[t]) = Rest(AFrame[t])
  BY SameSplit
<1>3. AFreed' = AFreed \cup Set(Group(AFrame[t])) /\ AFrame' = [AFrame EXCEPT ![t] = Rest(@)]
  BY <1>1, <1>2 DEF Set
<1>4. InFrames(p) => InFrames(p)' \/ p \in Set(Group(AFrame[t]))
  BY <1>1, <1>3, SplitKeeps
<1>5. (Delivered(p)' <=> Delivered(p)) /\ (InQueues(p)' <=> InQueues(p))
  BY <1>1 DEF Delivered, InQueues
<1> QED
  BY <1>1, <1>3, <1>4, <1>5 DEF Where

\* Take moves packets from a queue to those delivered.
LEMMA TakeKeeps ==
  ASSUME IInv, NEW q \in Queues, Abstract!Take(q), NEW p, Where(p)
  PROVE  Where(p)'
<1>1. /\ AQueue[q] # << >>
      /\ \E n \in 1 .. Len(Head(AQueue[q])) :
            /\ AQueue' = [AQueue EXCEPT ![q][1] = SubSeq(@, n + 1, Len(@))]
            /\ ADelivered' = [ADelivered EXCEPT ![q] = @ \o SubSeq(Head(AQueue[q]), 1, n)]
      /\ UNCHANGED << received, AFrame, AFreed >>
  BY Zenon
  DEF Abstract!Take, AFrame, AQueue, ADelivered, AFreed, AFrameOf, AQueueOf,
      ADeliveredOf, Dropped, Sent
<1>s. PICK s \in Seq(Seq(Packets)) : s = AQueue[q] /\ s # << >>
  BY <1>1, ATypes
<1>e. PICK e \in Seq(Packets) : e = s[1] /\ e = Head(AQueue[q])
  BY <1>s
<1>d. PICK d \in Seq(Packets) : d = ADelivered[q]
  BY ATypes
<1>2. PICK n \in 1 .. Len(e) :
            /\ AQueue' = [AQueue EXCEPT ![q][1] = SubSeq(@, n + 1, Len(@))]
            /\ ADelivered' = [ADelivered EXCEPT ![q] = @ \o SubSeq(e, 1, n)]
  BY <1>1, <1>e
<1>0. SubSeq(e, 1, n) \in Seq(Packets) /\ SubSeq(e, n + 1, Len(e)) \in Seq(Packets)
  OBVIOUS
<1>a. PICK a \in Seq(Packets) : a = SubSeq(e, 1, n)
  BY <1>0
<1>b. PICK b \in Seq(Packets) : b = SubSeq(e, n + 1, Len(e))
  BY <1>0
<1>3. /\ Len(a) = n /\ \A i \in 1 .. n : a[i] = e[i]
      /\ Len(b) = Len(e) - n /\ \A i \in 1 .. Len(e) - n : b[i] = e[n + i]
  BY <1>a, <1>b
<1>4. /\ AQueue'[q] = [s EXCEPT ![1] = b] /\ ADelivered'[q] = d \o a
      /\ \A r \in Queues : r # q => AQueue'[r] = AQueue[r] /\ ADelivered'[r] = ADelivered[r]
  BY <1>s, <1>e, <1>d, <1>a, <1>b, <1>2 DEF AQueue, ADelivered
<1>5. /\ Len(AQueue'[q]) = Len(s) /\ AQueue'[q][1] = b
      /\ \A i \in 1 .. Len(s) : i # 1 => AQueue'[q][i] = s[i]
  BY <1>s, <1>4
<1>6. /\ Len(d \o a) = Len(d) + n
      /\ \A i \in 1 .. Len(d) : (d \o a)[i] = d[i]
      /\ \A i \in 1 .. n : (d \o a)[Len(d) + i] = a[i]
  BY <1>3
<1>7. p \in Set(e) => (InQueues(p)' \/ Delivered(p)')
  <2> SUFFICES ASSUME NEW j \in 1 .. Len(e), p = e[j]
               PROVE  InQueues(p)' \/ Delivered(p)'
    BY DEF Set
  <2>1. CASE j <= n
    <3>1. Len(d) + j \in 1 .. Len(d \o a) /\ (d \o a)[Len(d) + j] = e[j]
      BY <1>3, <1>6, <2>1
    <3>2. p \in Set(ADelivered'[q])
      BY <1>4, <3>1 DEF Set
    <3> QED
      BY <3>2 DEF Delivered
  <2>2. CASE j > n
    <3>1. j - n \in 1 .. Len(b) /\ b[j - n] = e[j]
      <4>1. j - n \in 1 .. Len(e) - n /\ n + (j - n) = j
        BY <2>2
      <4> QED
        BY <1>3, <4>1
    <3>2. p \in Set(AQueue'[q][1]) /\ 1 \in 1 .. Len(AQueue'[q])
      BY <1>s, <1>5, <3>1 DEF Set
    <3> QED
      BY <3>2 DEF InQueues
  <2> QED
    BY <2>1, <2>2
<1>8. InQueues(p) => (InQueues(p)' \/ Delivered(p)')
  <2> SUFFICES ASSUME InQueues(p)
               PROVE  InQueues(p)' \/ Delivered(p)'
    OBVIOUS
  <2>r. PICK r \in Queues : \E i \in 1 .. Len(AQueue[r]) : p \in Set(AQueue[r][i])
    BY DEF InQueues
  <2>1. PICK i \in 1 .. Len(AQueue[r]) : p \in Set(AQueue[r][i])
    BY <2>r
  <2>2. CASE r = q /\ i = 1
    BY <1>s, <1>e, <1>7, <2>1, <2>2
  <2>3. CASE r = q /\ i # 1
    BY <1>s, <1>5, <2>1, <2>3 DEF InQueues
  <2>4. CASE r # q
    BY <1>4, <2>1, <2>4 DEF InQueues
  <2> QED
    BY <2>2, <2>3, <2>4
<1>9. Delivered(p) => Delivered(p)'
  <2> SUFFICES ASSUME NEW r \in Queues, p \in Set(ADelivered[r])
               PROVE  Delivered(p)'
    BY DEF Delivered
  <2>1. CASE r = q
    <3>1. PICK i \in 1 .. Len(d) : p = d[i]
      BY <1>d, <2>1 DEF Set
    <3>2. i \in 1 .. Len(d \o a) /\ (d \o a)[i] = p
      BY <1>3, <1>6, <3>1
    <3>3. p \in Set(ADelivered'[q])
      BY <1>4, <3>2 DEF Set
    <3> QED
      BY <3>3 DEF Delivered
  <2>2. CASE r # q
    BY <1>4, <2>2 DEF Delivered
  <2> QED
    BY <2>1, <2>2
<1>10. InFrames(p)' <=> InFrames(p)
  BY <1>1 DEF InFrames
<1> QED
  BY <1>1, <1>8, <1>9, <1>10 DEF Where

\* GiveBack removes an element without packets.
LEMMA GiveBackKeeps ==
  ASSUME IInv, NEW q \in Queues, Abstract!GiveBack(q), NEW p, Where(p)
  PROVE  Where(p)'
<1>1. /\ AQueue[q] # << >> /\ Head(AQueue[q]) = << >>
      /\ AQueue' = [AQueue EXCEPT ![q] = Tail(@)]
      /\ UNCHANGED << received, AFrame, ADelivered, AFreed >>
  BY Zenon
  DEF Abstract!GiveBack, AFrame, AQueue, ADelivered, AFreed, AFrameOf, AQueueOf,
      ADeliveredOf, Dropped, Sent
<1>s. PICK s \in Seq(Seq(Packets)) : s = AQueue[q] /\ s # << >> /\ Head(s) = << >>
  BY <1>1, ATypes
<1>2. AQueue'[q] = Tail(s) /\ \A r \in Queues : r # q => AQueue'[r] = AQueue[r]
  BY <1>1, <1>s DEF AQueue
<1>3. Len(Tail(s)) = Len(s) - 1 /\ \A i \in 1 .. Len(s) - 1 : Tail(s)[i] = s[i + 1]
  BY <1>s, HeadTailProperties
<1>4. InQueues(p) => InQueues(p)'
  <2> SUFFICES ASSUME InQueues(p)
               PROVE  InQueues(p)'
    OBVIOUS
  <2>r. PICK r \in Queues : \E i \in 1 .. Len(AQueue[r]) : p \in Set(AQueue[r][i])
    BY DEF InQueues
  <2>1. PICK i \in 1 .. Len(AQueue[r]) : p \in Set(AQueue[r][i])
    BY <2>r
  <2>2. CASE r = q
    <3>1. i # 1
      <4>1. Set(s[1]) = {}
        BY <1>s DEF Set
      <4> QED
        BY <1>s, <2>1, <2>2, <4>1
    <3>2. i - 1 \in 1 .. Len(AQueue'[q]) /\ AQueue'[q][i - 1] = s[i]
      <4>1. i - 1 \in 1 .. Len(s) - 1 /\ (i - 1) + 1 = i
        BY <1>s, <2>1, <2>2, <3>1
      <4> QED
        BY <1>2, <1>3, <4>1
    <3> QED
      BY <1>s, <2>1, <2>2, <3>2 DEF InQueues
  <2>3. CASE r # q
    BY <1>2, <2>1, <2>3 DEF InQueues
  <2> QED
    BY <2>2, <2>3
<1>5. (InFrames(p)' <=> InFrames(p)) /\ (Delivered(p)' <=> Delivered(p))
  BY <1>1 DEF InFrames, Delivered
<1> QED
  BY <1>1, <1>4, <1>5 DEF Where

\* Every packet received stays accounted for.
LEMMA AccountedNext ==
  ASSUME ~WithAux, IInv, IInv', Accounted, [Next]_vars
  PROVE  Accounted'
<1>k. ASSUME \A p : Where(p) => Where(p)', received' = received
      PROVE  Accounted'
  BY <1>k DEF Accounted
<1>u. ASSUME UNCHANGED AVars
      PROVE  Accounted'
  <2>1. \A p : Where(p)' <=> Where(p)
    BY <1>u DEF AVars, Where, InFrames, InQueues, Delivered
  <2> QED
    BY <1>u, <2>1 DEF AVars, Accounted
<1>1. CASE UNCHANGED vars
  BY <1>1, <1>u, StutterImplements
<1>2. CASE Next
  <2>1. PICK t \in Threads : ThreadNext(t)
    BY <1>2 DEF Next
  <2>2. CASE UNCHANGED AVars
    BY <1>u, <2>2
  <2>3. CASE Abstract!Next
    <3>0. \/ \E u \in Threads : Abstract!Accept(u) \/ Abstract!Enqueue(u) \/ Abstract!Drop(u)
          \/ \E q \in Queues : Abstract!Take(q) \/ Abstract!GiveBack(q)
      BY <2>3 DEF Abstract!Next, Abstract!Queues, Queues
    <3>1. ASSUME NEW u \in Threads, Abstract!Accept(u)
          PROVE  Accounted'
      BY <3>1, AcceptKeeps
    <3>2. ASSUME NEW u \in Threads, Abstract!Enqueue(u)
          PROVE  Accounted'
      <4>1. \A p : Where(p) => Where(p)'
        BY <3>2, EnqueueKeeps
      <4>2. received' = received
        BY <3>2 DEF Abstract!Enqueue
      <4> QED
        BY <1>k, <4>1, <4>2
    <3>3. ASSUME NEW u \in Threads, Abstract!Drop(u)
          PROVE  Accounted'
      <4>1. \A p : Where(p) => Where(p)'
        BY <3>3, DropKeeps
      <4>2. received' = received
        BY <3>3 DEF Abstract!Drop
      <4> QED
        BY <1>k, <4>1, <4>2
    <3>4. ASSUME NEW q \in Queues, Abstract!Take(q)
          PROVE  Accounted'
      <4>1. \A p : Where(p) => Where(p)'
        BY <3>4, TakeKeeps
      <4>2. received' = received
        BY <3>4 DEF Abstract!Take
      <4> QED
        BY <1>k, <4>1, <4>2
    <3>5. ASSUME NEW q \in Queues, Abstract!GiveBack(q)
          PROVE  Accounted'
      <4>1. \A p : Where(p) => Where(p)'
        BY <3>5, GiveBackKeeps
      <4>2. received' = received
        BY <3>5 DEF Abstract!GiveBack
      <4> QED
        BY <1>k, <4>1, <4>2
    <3> QED
      BY <3>0, <3>1, <3>2, <3>3, <3>4, <3>5
  <2> QED
    BY <2>1, <2>2, <2>3, StepImplements
<1> QED
  BY <1>1, <1>2

\* Where HandoffSpec has a packet, the rings, frames and drop lists have it.
LEMMA AccountedNoneLost ==
  ASSUME IInv, Accounted
  PROVE  NoneLost
<1>1. ASSUME NEW t \in Threads, frame[t] # << >>, NEW p,
             \/ p \in Set(Group(frame[t]))
             \/ \E i \in 1 .. Len(Rest(frame[t])) : Rest(frame[t])[i].pkt = p
      PROVE  p \in InFlight
  <2>1. p \in Set(Group(frame[t])) \cup {e.pkt : e \in Set(Rest(frame[t]))}
    BY <1>1 DEF Set
  <2> DEFINE B(u) == Set(Group(frame[u])) \cup {e.pkt : e \in Set(Rest(frame[u]))}
             K1 == {B(u) : u \in {w \in Threads : frame[w] # << >>}}
             K2 == {Set(drop_list[u]) : u \in Threads}
             K3 == {Set(f[u]) : u \in Threads}
             K4 == {Set(elts[q][i].pkts) : q \in Queues, i \in 0 .. Nelts - 1}
  <2>2. InFlight = UNION (K1 \cup K2 \cup K3 \cup K4)
    BY DEF InFlight
  <2>3. B(t) \in K1 /\ p \in B(t)
    BY <1>1, <2>1
  <2> HIDE DEF B, K1, K2, K3, K4
  <2> QED
    BY <2>2, <2>3
<1>2. ASSUME NEW t \in Threads, NEW p, p \in Set(drop_list[t]) \/ p \in Set(f[t])
      PROVE  p \in InFlight
  BY <1>2 DEF InFlight
<1>3. ASSUME NEW q \in Queues, NEW i \in 0 .. Nelts - 1, NEW p, p \in Set(elts[q][i].pkts)
      PROVE  p \in InFlight
  BY <1>3 DEF InFlight
<1>4. ASSUME NEW p, InFrames(p)
      PROVE  p \in InFlight
  <2>1. PICK u \in Threads : \E i \in 1 .. Len(AFrameOf(u)) : AFrameOf(u)[i].pkt = p
    BY <1>4 DEF InFrames, AFrame
  <2>2. PICK i \in 1 .. Len(AFrameOf(u)) : AFrameOf(u)[i].pkt = p
    BY <2>1
  <2>3. CASE pc[u] \in Sent
    <3>1. frame[u] # << >>
      BY <2>3 DEF IInv, LocalOK, Producing, Sent
    <3> QED
      BY <1>1, <2>2, <2>3, <3>1 DEF AFrameOf
  <2>4. CASE pc[u] \notin Sent
    <3>1. AFrameOf(u) = frame[u] /\ frame[u] \in Seq(Entry) /\ frame[u] # << >>
      <4>1. AFrameOf(u) = frame[u]
        BY <2>4 DEF AFrameOf
      <4>2. frame[u] \in Seq(Entry)
        BY DEF IInv, TypeOK, Entry
      <4>3. frame[u] # << >>
        BY <2>2, <4>1
      <4> QED
        BY <4>1, <4>2, <4>3
    <3>2. \/ \E j \in 1 .. Len(Group(frame[u])) : Group(frame[u])[j] = frame[u][i].pkt
          \/ \E j \in 1 .. Len(Rest(frame[u])) : Rest(frame[u])[j].pkt = frame[u][i].pkt
      BY <2>2, <3>1, SplitFrame
    <3>3. \/ p \in Set(Group(frame[u]))
          \/ \E j \in 1 .. Len(Rest(frame[u])) : Rest(frame[u])[j].pkt = p
      BY <2>2, <3>1, <3>2 DEF Set
    <3> QED
      BY <1>1, <3>1, <3>3
  <2> QED
    BY <2>3, <2>4
<1>5. ASSUME NEW p, InQueues(p)
      PROVE  p \in InFlight
  <2>1. PICK q \in Queues : \E i \in 1 .. Len(AQueueOf(q)) : p \in Set(AQueueOf(q)[i])
    BY <1>5 DEF InQueues, AQueue
  <2>2. PICK n \in head[q] + 1 .. tail[q] : p \in Set(Contents(q, n))
    <3>1. PICK i \in 1 .. Len(AQueueOf(q)) : p \in Set(AQueueOf(q)[i])
      BY <2>1
    <3>2. AQueueOf(q)[i] = Contents(q, head[q] + i) /\ head[q] + i \in head[q] + 1 .. tail[q]
      BY <3>1, QueueType, RingBounds, SMTT(30)
    <3> QED
      BY <3>1, <3>2
  <2>3. CASE \E t \in Threads : Filling(t, q, n)
    <3>1. PICK t \in Threads : Filling(t, q, n)
      BY <2>3
    <3>2. frame[t] # << >>
      BY <3>1, ProducerType DEF Filling, Producing
    <3>3. p \in Set(Group(frame[t]))
      BY <2>2, <3>1, ContentsValue DEF ContentsOK
    <3> QED
      BY <1>1, <3>2, <3>3
  <2>4. CASE \A t \in Threads : ~Filling(t, q, n)
    <3>1. p \in Set(elts[q][Slot(n)].pkts)
      BY <2>2, <2>4, ContentsValue DEF ContentsOK
    <3>2. n \in Nat
      BY RingBounds
    <3>3. Slot(n) \in 0 .. Nelts - 1
      BY <3>2, SlotType
    <3> QED
      BY <1>3, <3>1, <3>3
  <2> QED
    BY <2>3, <2>4
<1>6. ASSUME NEW p, Delivered(p)
      PROVE  p \in InFlight \/ \E q \in Queues : p \in Set(delivered[q])
  <2>1. PICK q \in Queues : p \in Set(ADeliveredOf(q))
    BY <1>6 DEF Delivered, ADelivered
  <2>2. PICK d \in Seq(Packets) : d = delivered[q]
    BY OtherTypes
  <2>3. PICK g \in Seq(Packets) : g = f[q[2]]
    BY OtherTypes
  <2>4. q[2] \in Threads
    BY OtherTypes
  <2>5. CASE ADeliveredOf(q) = d
    BY <2>1, <2>2, <2>5
  <2>6. CASE ADeliveredOf(q) = d \o g
    <3>1. PICK i \in 1 .. Len(d \o g) : p = (d \o g)[i]
      BY <2>1, <2>6 DEF Set
    <3>2. Len(d \o g) = Len(d) + Len(g)
      OBVIOUS
    <3>3. CASE i <= Len(d)
      <4>1. i \in 1 .. Len(d) /\ p = d[i]
        BY <3>1, <3>2, <3>3
      <4> QED
        BY <2>2, <4>1 DEF Set
    <3>4. CASE i > Len(d)
      <4>1. i - Len(d) \in 1 .. Len(g) /\ p = g[i - Len(d)]
        BY <3>1, <3>2, <3>4
      <4>2. p \in Set(f[q[2]])
        BY <2>3, <4>1 DEF Set
      <4> QED
        BY <1>2, <2>4, <4>2
    <3> QED
      BY <3>2, <3>3, <3>4
  <2> QED
    BY <2>2, <2>3, <2>5, <2>6 DEF ADeliveredOf
<1>7. ASSUME NEW p, p \in AFreed
      PROVE  p \in InFlight \/ p \in freed
  <2>1. CASE p \in Dropped
    <3>1. PICK t \in Threads : p \in Set(drop_list[t])
      BY <2>1 DEF Dropped
    <3> QED
      BY <1>2, <3>1
  <2> QED
    BY <1>7, <2>1 DEF AFreed
<1> SUFFICES ASSUME NEW t \in Threads, NEW n \in 1 .. received[t]
             PROVE  \/ << t, n >> \in InFlight \cup freed
                    \/ \E q \in Queues : << t, n >> \in Set(delivered[q])
  BY DEF NoneLost
<1>8. Where(<< t, n >>)
  BY DEF Accounted
<1> QED
  BY <1>4, <1>5, <1>6, <1>7, <1>8 DEF Where

\* No packet handed to vlib_buffer_enqueue_to_thread is lost: it is in a
\* frame, on a ring, on a drop list, delivered or freed.
THEOREM NothingLost ==
  ASSUME ~WithAux
  PROVE  Spec => []NoneLost
<1>1. Init => Accounted
  BY DEF Init, Accounted
<1>2. IInv /\ IInv' /\ Accounted /\ [Next]_vars => Accounted'
  BY AccountedNext
<1>3. IInv /\ Accounted => NoneLost
  BY AccountedNoneLost
<1> QED
  BY <1>1, <1>2, <1>3, Inductive, PTL DEF Spec
=============================================================================
