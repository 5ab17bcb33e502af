-------------------------- MODULE FrameQueue_proofs --------------------------
(***************************************************************************)
(* Proofs about FrameQueue, for every number of threads, queue mains, ring *)
(* elements and packets: the state has its types and the rings are safe.   *)
(* Handoff_proofs goes on from here to what the rings implement.           *)
(***************************************************************************)
EXTENDS FrameQueue, Integers, TLAPS, FiniteSetTheorems, NaturalsInduction, WellFoundedInduction

-----------------------------------------------------------------------------
(* The inductive invariant.                                                *)

Producing == {"tail", "full", "wait", "cas", "fill", "valid", "notify"}
Polling   == {"clear", "deq", "reset", "bump", "deqend"}
Claims    == {"fill", "valid"}

\* A thread holds a frame to hand off exactly while it enqueues; it polls
\* only while its counter lasts, and has room in its frame when it does.
LocalOK(t) ==
    /\ pc[t] \in Producing <=> frame[t] # << >>
    /\ pc[t] \in Polling => frame_queue_check_counter[t] > 0
    /\ pc[t] \notin Polling => f[t] = << >>
    /\ Len(f[t]) < FrameSize
    /\ pc[t] # "free" /\ pc[t] \notin Producing => drop_list[t] = << >>

\* The element a thread has claimed and not yet published.
Mine(t) == elts[Ring(t)][Slot(my_tail[t] + 1)]

\* What a producer knows of its ring: the tail it has read is not ahead of
\* the ring's, there is still room for the element it is about to claim, and
\* the one it has claimed is on the ring and not valid.
ProducerOK(t) ==
    /\ pc[t] \in {"full", "wait", "cas"} => my_tail[t] <= tail[Ring(t)]
    /\ pc[t] = "cas" => my_tail[t] + 1 < head[Ring(t)] + Nelts
    /\ pc[t] \in Claims =>
          /\ head[Ring(t)] <= my_tail[t] /\ my_tail[t] < tail[Ring(t)]
          /\ ~Mine(t).valid
    /\ pc[t] = "fill" => Mine(t).pkts = << >>
    /\ pc[t] = "valid" => Mine(t).pkts = Group(frame[t])

\* No two threads have claimed the same element.
ClaimsApart ==
    \A t, u \in Threads :
        (pc[t] \in Claims /\ pc[u] \in Claims /\ Ring(t) = Ring(u) /\ my_tail[t] = my_tail[u])
            => t = u

\* What the owner knows of the ring it polls: the element it gives back is
\* its oldest, taken to the last packet; once reset nobody has claimed it.
OwnerOK(t) ==
    pc[t] \in {"reset", "bump"} =>
        /\ head[Polled(t)] < tail[Polled(t)]
        /\ First(t).pkts = << >>
        /\ pc[t] = "reset" => First(t).valid
        /\ pc[t] = "bump" => ~First(t).valid
        /\ pc[t] = "bump" => \A u \in Threads : ~Claimed(u, Polled(t), head[Polled(t)] + 1)

Given(q, n) == n = head[q] + 1 /\ pc[q[2]] = "bump" /\ Polled(q[2]) = q

\* The elements of a ring: those between head and tail are valid, claimed or
\* about to be given back; the others are empty.
RingOK(q) ==
    /\ head[q] <= tail[q] /\ tail[q] < head[q] + Nelts
    /\ \A n \in head[q] + 1 .. tail[q] :
          \/ elts[q][Slot(n)].valid
          \/ \E t \in Threads : Claimed(t, q, n)
          \/ Given(q, n)
    /\ \A n \in tail[q] + 1 .. head[q] + Nelts : elts[q][Slot(n)] = EmptyElt

IInv ==
    /\ TypeOK
    /\ \A t \in Threads : LocalOK(t) /\ ProducerOK(t) /\ OwnerOK(t)
    /\ ClaimsApart
    /\ \A q \in Queues : RingOK(q)

-----------------------------------------------------------------------------
(* Splitting a frame.                                                      *)

\* Induction over an initial segment of the naturals, as a fact about sets.
LEMMA Induct ==
  ASSUME NEW n \in Nat, NEW G, 0 \in G,
         \A k \in 0 .. n - 1 : k \in G => k + 1 \in G
  PROVE  \A k \in 0 .. n : k \in G
<1> DEFINE T == {k \in 0 .. n : k \notin G}
<1>1. SUFFICES ASSUME T # {}
               PROVE  FALSE
  OBVIOUS
<1>2. T \subseteq Nat
  OBVIOUS
<1>3. \E x \in T : \A y \in T : ~(<<y, x>> \in OpToRel(<, Nat))
  <2> HIDE DEF T
  <2> QED
    BY <1>1, <1>2, WFMin, NatLessThanWellFounded
<1>4. PICK x \in T : \A y \in T : ~(y < x)
  BY <1>2, <1>3 DEF OpToRel
<1> QED
  BY <1>4

\* The recursive function of clib_compress_u32 is well defined.
LEMMA CompressToEqn ==
  ASSUME NEW S, NEW s \in Seq(S), NEW mask
  PROVE  CompressTo(s, mask) = [i \in 0 .. Len(s) |->
            IF i = 0 THEN << >>
            ELSE IF i \in mask THEN Append(CompressTo(s, mask)[i - 1], s[i])
                 ELSE CompressTo(s, mask)[i - 1]]
<1> DEFINE Step(g, i) == IF i \in mask THEN Append(g[i - 1], s[i]) ELSE g[i - 1]
           Is(g, k) == /\ g \in [0 .. k -> Seq(S)]
                       /\ g[0] = << >>
                       /\ \A i \in 1 .. k : g[i] = Step(g, i)
           G == {k \in 0 .. Len(s) : \E g : Is(g, k)}
<1>1. 0 \in G
  <2>1. Is([i \in 0 .. 0 |-> << >>], 0)
    OBVIOUS
  <2>2. 0 \in 0 .. Len(s)
    OBVIOUS
  <2> HIDE DEF Is
  <2> QED
    BY <2>1, <2>2
<1>2. ASSUME NEW k \in 0 .. Len(s) - 1, k \in G
      PROVE  k + 1 \in G
  <2>1. PICK g : Is(g, k)
    BY <1>2
  <2> DEFINE h == [i \in 0 .. k + 1 |-> IF i = k + 1 THEN Step(g, k + 1) ELSE g[i]]
  <2>2. Step(g, k + 1) \in Seq(S)
    BY <2>1
  <2>3. /\ h \in [0 .. k + 1 -> Seq(S)]
        /\ h[0] = << >>
        /\ h[k + 1] = Step(g, k + 1)
        /\ \A i \in 0 .. k : h[i] = g[i]
    BY <2>1, <2>2
  <2> HIDE DEF h
  <2>4. ASSUME NEW i \in 1 .. k + 1
        PROVE  h[i] = Step(h, i)
    <3>1. h[i - 1] = g[i - 1]
      BY <2>3
    <3>2. CASE i = k + 1
      BY <2>3, <3>1, <3>2
    <3>3. CASE i \in 1 .. k
      <4>1. g[i] = Step(g, i)
        BY <2>1, <3>3
      <4>2. h[i] = g[i]
        BY <2>3, <3>3
      <4> QED
        BY <3>1, <4>1, <4>2
    <3> QED
      BY <3>2, <3>3
  <2> HIDE DEF Step
  <2>5. Is(h, k + 1)
    BY <2>3, <2>4
  <2> HIDE DEF Is
  <2> QED
    BY <2>5
<1>3. Len(s) \in G
  <2>1. \A k \in 0 .. Len(s) - 1 : k \in G => k + 1 \in G
    BY <1>2
  <2>2. Len(s) \in Nat /\ Len(s) \in 0 .. Len(s)
    OBVIOUS
  <2> HIDE DEF G
  <2>3. \A k \in 0 .. Len(s) : k \in G
    BY <1>1, <2>1, <2>2, Induct
  <2> QED
    BY <2>2, <2>3
<1>4. PICK g : Is(g, Len(s))
  BY <1>3
<1> DEFINE F(c) == [i \in 0 .. Len(s) |->
            IF i = 0 THEN << >>
            ELSE IF i \in mask THEN Append(c[i - 1], s[i]) ELSE c[i - 1]]
<1>5. g = F(g)
  <2>1. ASSUME NEW i \in 0 .. Len(s)
        PROVE  g[i] = F(g)[i]
    <3>1. CASE i = 0
      BY <1>4, <3>1
    <3>2. CASE i \in 1 .. Len(s)
      <4>1. g[i] = Step(g, i)
        BY <1>4, <3>2
      <4> QED
        BY <3>2, <4>1
    <3> QED
      BY <3>1, <3>2
  <2>2. g \in [0 .. Len(s) -> Seq(S)]
    BY <1>4
  <2>3. F(g) = [i \in 0 .. Len(s) |-> F(g)[i]]
    OBVIOUS
  <2> HIDE DEF F
  <2> QED
    BY <2>1, <2>2, <2>3
<1>6. CompressTo(s, mask) = CHOOSE c : c = F(c)
  BY DEF CompressTo
<1> HIDE DEF F
<1>7. CompressTo(s, mask) = F(CompressTo(s, mask))
  BY <1>5, <1>6
<1> QED
  BY <1>7 DEF F

\* What clib_compress_u32 returns: elements the mask selects, and all of them.
LEMMA CompressProperties ==
  ASSUME NEW S, NEW s \in Seq(S), NEW mask
  PROVE  /\ Compress(s, mask) \in Seq(S)
         /\ \A j \in 1 .. Len(Compress(s, mask)) :
               \E i \in 1 .. Len(s) : i \in mask /\ Compress(s, mask)[j] = s[i]
         /\ \A i \in 1 .. Len(s) : i \in mask =>
               \E j \in 1 .. Len(Compress(s, mask)) : Compress(s, mask)[j] = s[i]
<1> DEFINE c == CompressTo(s, mask)
           P(k) == /\ c[k] \in Seq(S)
                   /\ \A j \in 1 .. Len(c[k]) : \E i \in 1 .. k : i \in mask /\ c[k][j] = s[i]
                   /\ \A i \in 1 .. k : i \in mask => \E j \in 1 .. Len(c[k]) : c[k][j] = s[i]
           G == {k \in Nat : P(k)}
<1>1. /\ c[0] = << >>
      /\ \A k \in 0 .. Len(s) - 1 :
            c[k + 1] = IF k + 1 \in mask THEN Append(c[k], s[k + 1]) ELSE c[k]
  <2>1. c = [i \in 0 .. Len(s) |-> IF i = 0 THEN << >>
                   ELSE IF i \in mask THEN Append(c[i - 1], s[i]) ELSE c[i - 1]]
    BY CompressToEqn
  <2> HIDE DEF c
  <2>2. c[0] = << >>
    BY <2>1
  <2>3. ASSUME NEW k \in 0 .. Len(s) - 1
        PROVE  c[k + 1] = IF k + 1 \in mask THEN Append(c[k], s[k + 1]) ELSE c[k]
    <3>1. k + 1 \in 0 .. Len(s) /\ k + 1 # 0 /\ (k + 1) - 1 = k
      OBVIOUS
    <3> QED
      BY <2>1, <3>1
  <2> QED
    BY <2>2, <2>3
<1> HIDE DEF c
<1>2. P(0)
  BY <1>1
<1>3. ASSUME NEW k \in 0 .. Len(s) - 1, P(k)
      PROVE  P(k + 1)
  <2>1. CASE k + 1 \in mask
    <3>1. c[k + 1] = Append(c[k], s[k + 1]) /\ s[k + 1] \in S /\ c[k] \in Seq(S)
      <4>1. k + 1 \in 1 .. Len(s) /\ k \in 0 .. Len(s) - 1
        OBVIOUS
      <4>2. s[k + 1] \in S
        BY <4>1
      <4>3. c[k] \in Seq(S)
        BY <1>3
      <4> QED
        BY <1>1, <2>1, <4>1, <4>2, <4>3
    <3>2. /\ c[k + 1] \in Seq(S) /\ Len(c[k + 1]) = Len(c[k]) + 1
          /\ \A j \in 1 .. Len(c[k]) : c[k + 1][j] = c[k][j]
          /\ c[k + 1][Len(c[k]) + 1] = s[k + 1]
      BY <3>1
    <3>3. ASSUME NEW j \in 1 .. Len(c[k + 1])
          PROVE  \E i \in 1 .. k + 1 : i \in mask /\ c[k + 1][j] = s[i]
      <4>1. CASE j \in 1 .. Len(c[k])
        <5>1. PICK i \in 1 .. k : i \in mask /\ c[k][j] = s[i]
          BY <1>3, <4>1
        <5> QED
          BY <3>2, <4>1, <5>1
      <4>2. CASE j = Len(c[k]) + 1
        BY <2>1, <3>2, <4>2
      <4> QED
        BY <3>1, <3>2, <4>1, <4>2
    <3>4. ASSUME NEW i \in 1 .. k + 1, i \in mask
          PROVE  \E j \in 1 .. Len(c[k + 1]) : c[k + 1][j] = s[i]
      <4>1. CASE i \in 1 .. k
        BY <1>3, <3>1, <3>2, <3>4, <4>1
      <4>2. CASE i = k + 1
        BY <3>1, <3>2, <4>2
      <4> QED
        BY <4>1, <4>2
    <3> QED
      BY <3>2, <3>3, <3>4
  <2>2. CASE k + 1 \notin mask
    <3>1. c[k + 1] = c[k]
      BY <1>1, <2>2
    <3> QED
      BY <1>3, <2>2, <3>1
  <2> QED
    BY <2>1, <2>2
<1> HIDE DEF P
<1>4. P(Len(s))
  <2>1. 0 \in G /\ \A k \in 0 .. Len(s) - 1 : k \in G => k + 1 \in G
    BY <1>2, <1>3
  <2>2. Len(s) \in Nat /\ Len(s) \in 0 .. Len(s)
    OBVIOUS
  <2> HIDE DEF G
  <2>3. \A k \in 0 .. Len(s) : k \in G
    BY <2>1, <2>2, Induct
  <2> QED
    BY <2>2, <2>3 DEF G
<1> QED
  BY <1>4 DEF P, Compress, c

Entry == [pkt : Packets, to : Queues]

\* A frame is split into the packets for the first ring and the rest, and no
\* packet is left out.
LEMMA SplitFrame ==
  ASSUME NEW fr \in Seq(Entry), fr # << >>
  PROVE  /\ Group(fr) \in Seq(Packets)
         /\ Rest(fr) \in Seq(Entry)
         /\ \A i \in 1 .. Len(fr) :
               \/ \E j \in 1 .. Len(Group(fr)) : Group(fr)[j] = fr[i].pkt
               \/ \E j \in 1 .. Len(Rest(fr)) : Rest(fr)[j].pkt = fr[i].pkt
<1> DEFINE others == (1 .. Len(fr)) \ Mask(fr)
           mine == Compress(fr, Mask(fr))
           rest == Compress(fr, others)
<1>1. /\ mine \in Seq(Entry)
      /\ \A i \in 1 .. Len(fr) : i \in Mask(fr) => \E j \in 1 .. Len(mine) : mine[j] = fr[i]
  BY CompressProperties
<1>2. /\ rest \in Seq(Entry)
      /\ \A i \in 1 .. Len(fr) : i \in others => \E j \in 1 .. Len(rest) : rest[j] = fr[i]
  <2> HIDE DEF others
  <2> QED
    BY CompressProperties
<1>3. Group(fr) = [j \in 1 .. Len(mine) |-> mine[j].pkt] /\ Rest(fr) = rest
  BY DEF Group, Rest
<1> HIDE DEF mine, rest
<1>4. /\ Group(fr) \in Seq(Packets) /\ Len(Group(fr)) = Len(mine)
      /\ \A j \in 1 .. Len(mine) : Group(fr)[j] = mine[j].pkt
  <2>1. \A j \in 1 .. Len(mine) : mine[j].pkt \in Packets
    <3>1. ASSUME NEW j \in 1 .. Len(mine)
          PROVE  mine[j] \in Entry
      BY <1>1
    <3> QED
      BY <3>1 DEF Entry
  <2> QED
    BY <1>1, <1>3, <2>1
<1>5. ASSUME NEW i \in 1 .. Len(fr)
      PROVE  \/ \E j \in 1 .. Len(Group(fr)) : Group(fr)[j] = fr[i].pkt
             \/ \E j \in 1 .. Len(Rest(fr)) : Rest(fr)[j].pkt = fr[i].pkt
  <2>1. CASE i \in Mask(fr)
    BY <1>1, <1>4, <2>1
  <2>2. CASE i \notin Mask(fr)
    BY <1>2, <1>3, <2>2
  <2> QED
    BY <2>1, <2>2
<1> QED
  BY <1>2, <1>3, <1>4, <1>5

-----------------------------------------------------------------------------
(* The slots of a ring.                                                    *)

\* Division with remainder.
LEMMA DivMod ==
  ASSUME NEW N \in Nat \ {0}, NEW a \in Nat
  PROVE  a = N * (a \div N) + (a % N) /\ a \div N \in Nat /\ a % N \in 0 .. N - 1
  OBVIOUS

\* Multiples of N are at least N apart.
LEMMA Multiples ==
  ASSUME NEW N \in Nat \ {0}, NEW p \in Int, NEW q \in Int, p < q
  PROVE  N * p + N <= N * q
<1>1. N * (q - p) >= N
  OBVIOUS
<1> QED
  BY <1>1

\* fq->elts + (n & (nelts - 1)) is an element of the ring.
LEMMA SlotType ==
  ASSUME NEW n \in Nat
  PROVE  Slot(n) \in 0 .. Nelts - 1
  BY RingAssumption, DivMod DEF Slot

\* A ring further on is the same slot.
LEMMA SlotWrap ==
  ASSUME NEW n \in Nat
  PROVE  Slot(n + Nelts) = Slot(n)
<1> DEFINE p == n \div Nelts
           r == n % Nelts
           p2 == (n + Nelts) \div Nelts
           r2 == (n + Nelts) % Nelts
<1>0. Nelts \in Nat \ {0}
  BY RingAssumption
<1>1. /\ p \in Int /\ r \in 0 .. Nelts - 1 /\ n = Nelts * p + r
      /\ p2 \in Int /\ r2 \in 0 .. Nelts - 1 /\ n + Nelts = Nelts * p2 + r2
  <2>1. n + Nelts \in Nat
    BY <1>0
  <2>2. p \in Int /\ r \in 0 .. Nelts - 1 /\ n = Nelts * p + r
    BY <1>0, DivMod
  <2>3. p2 \in Int /\ r2 \in 0 .. Nelts - 1 /\ n + Nelts = Nelts * p2 + r2
    <3>1. \A a \in Nat : /\ a \div Nelts \in Nat /\ a % Nelts \in 0 .. Nelts - 1
                        /\ a = Nelts * (a \div Nelts) + (a % Nelts)
      BY <1>0, DivMod
    <3>2. p2 \in Nat /\ r2 \in 0 .. Nelts - 1 /\ n + Nelts = Nelts * p2 + r2
      BY <2>1, <3>1, Zenon
    <3> HIDE DEF p2, r2
    <3> QED
      BY <3>2
  <2> QED
    BY <2>2, <2>3
<1> HIDE DEF p, r, p2, r2
<1>2. Nelts * (p + 1) + r = Nelts * p2 + r2
  BY <1>0, <1>1
<1>3. CASE p + 1 < p2
  BY <1>0, <1>1, <1>2, <1>3, Multiples
<1>4. CASE p2 < p + 1
  BY <1>0, <1>1, <1>2, <1>4, Multiples
<1>5. CASE p2 = p + 1
  BY <1>0, <1>1, <1>2, <1>5 DEF Slot, r, r2
<1> QED
  BY <1>1, <1>3, <1>4, <1>5

\* Positions less than a ring apart have slots of their own.
LEMMA SlotApart ==
  ASSUME NEW a \in Nat, NEW b \in Nat, a < b, b < a + Nelts
  PROVE  Slot(a) # Slot(b)
<1> SUFFICES ASSUME a % Nelts = b % Nelts
             PROVE  a + Nelts <= b
  BY RingAssumption DEF Slot
<1> DEFINE p == a \div Nelts
           q == b \div Nelts
           r == a % Nelts
<1>0. Nelts \in Nat \ {0}
  BY RingAssumption
<1>1. /\ p \in Int /\ q \in Int /\ r \in Int
      /\ a = Nelts * p + r /\ b = Nelts * q + r
  BY <1>0, DivMod
<1> HIDE DEF p, q, r
<1>2. p < q
  <2>1. CASE q = p
    BY <1>1, <2>1
  <2>2. CASE q < p
    BY <1>0, <1>1, <2>2, Multiples
  <2> QED
    BY <1>1, <2>1, <2>2
<1> QED
  BY <1>0, <1>1, <1>2, Multiples

-----------------------------------------------------------------------------
(* Type correctness.                                                       *)

\* A producer's ring, the packets it is handing over and those left.
LEMMA ProducerType ==
  ASSUME IInv, NEW t \in Threads, pc[t] \in Producing
  PROVE  /\ frame[t] \in Seq(Entry) /\ frame[t] # << >>
         /\ Ring(t) \in Queues /\ Ring(t)[1] \in Fqms /\ Target(t) \in Threads
         /\ Group(frame[t]) \in Seq(Packets) /\ Rest(frame[t]) \in Seq(Entry)
<1>1. frame[t] \in Seq(Entry) /\ frame[t] # << >>
  BY DEF IInv, TypeOK, LocalOK, Entry
<1>2. frame[t][1] \in Entry
  BY <1>1
<1>3. Ring(t) \in Queues
  BY <1>2 DEF Ring, Entry
<1>4. Ring(t)[1] \in Fqms /\ Target(t) \in Threads
  BY <1>3 DEF Queues, Target
<1> QED
  BY <1>1, <1>3, <1>4, SplitFrame

Elt == [valid : BOOLEAN, pkts : Seq(Packets)]

\* Assignments to the members of an element.
LEMMA EltExcept ==
  ASSUME NEW m \in Elt, NEW v \in BOOLEAN, NEW x \in Seq(Packets)
  PROVE  /\ [valid |-> v, pkts |-> x] \in Elt
         /\ m.valid \in BOOLEAN /\ m.pkts \in Seq(Packets)
         /\ [m EXCEPT !.valid = v] = [valid |-> v, pkts |-> m.pkts]
         /\ [m EXCEPT !.pkts = x] = [valid |-> m.valid, pkts |-> x]
  BY DEF Elt

\* The slot a producer has claimed or is going to.
LEMMA MineType ==
  ASSUME IInv, NEW t \in Threads, pc[t] \in Producing
  PROVE  /\ my_tail[t] \in Nat /\ Slot(my_tail[t] + 1) \in 0 .. Nelts - 1
         /\ Mine(t) \in Elt
<1>1. TypeOK /\ Ring(t) \in Queues
  BY ProducerType DEF IInv
<1>2. my_tail[t] \in Nat
  BY <1>1 DEF TypeOK
<1>3. Slot(my_tail[t] + 1) \in 0 .. Nelts - 1
  BY <1>2, SlotType
<1>4. elts \in [Queues -> [0 .. Nelts - 1 -> Elt]]
  BY <1>1 DEF TypeOK, Elt
<1> QED
  BY <1>1, <1>2, <1>3, <1>4 DEF Mine

\* The ring a thread polls, and the slot of its oldest element.
LEMMA OwnerType ==
  ASSUME TypeOK, NEW t \in Threads
  PROVE  /\ Polled(t) \in Queues /\ head[Polled(t)] \in Nat
         /\ Slot(head[Polled(t)] + 1) \in 0 .. Nelts - 1
         /\ First(t).valid \in BOOLEAN /\ First(t).pkts \in Seq(Packets)
<1>1. Polled(t) \in Queues
  BY DEF TypeOK, Polled, Queues
<1>2. head[Polled(t)] \in Nat
  BY <1>1 DEF TypeOK
<1>3. Slot(head[Polled(t)] + 1) \in 0 .. Nelts - 1
  BY <1>2, SlotType
<1> QED
  BY <1>1, <1>2, <1>3, ZenonT(30) DEF TypeOK, First

\* Ring q after its slot s has been given the value e; nothing else changes.
SlotSet(q, s, e) ==
    /\ elts'[q][s] = e
    /\ \A r \in Queues, i \in 0 .. Nelts - 1 : (r # q \/ i # s) => elts'[r][i] = elts[r][i]

\* An assignment to one element leaves the others alone.
LEMMA EltUpdate ==
  ASSUME TypeOK, NEW q \in Queues, NEW s \in 0 .. Nelts - 1, NEW e \in Elt,
         elts' = [elts EXCEPT ![q][s] = e]
  PROVE  elts' \in [Queues -> [0 .. Nelts - 1 -> Elt]] /\ SlotSet(q, s, e)
<1>1. elts \in [Queues -> [0 .. Nelts - 1 -> Elt]]
  BY DEF TypeOK, Elt
<1> QED
  BY <1>1 DEF SlotSet

\* Fill leaves the packets in the claimed element,
LEMMA FillSets ==
  ASSUME IInv, NEW t \in Threads, Fill(t)
  PROVE  /\ elts' \in [Queues -> [0 .. Nelts - 1 -> Elt]]
         /\ SlotSet(Ring(t), Slot(my_tail[t] + 1),
                    [valid |-> Mine(t).valid, pkts |-> Group(frame[t])])
<1> DEFINE q == Ring(t)
           s == Slot(my_tail[t] + 1)
           e == [valid |-> Mine(t).valid, pkts |-> Group(frame[t])]
<1>1. TypeOK /\ q \in Queues /\ s \in 0 .. Nelts - 1 /\ Group(frame[t]) \in Seq(Packets)
  BY ProducerType, MineType DEF IInv, Fill, Producing
<1>2. Mine(t) \in Elt
  BY MineType DEF Fill, Producing
<1>3. e \in Elt /\ e = [Mine(t) EXCEPT !.pkts = Group(frame[t])]
  BY <1>1, <1>2, EltExcept
<1>4. elts' = [elts EXCEPT ![q][s] = e]
  BY <1>3 DEF Fill, Mine
<1> HIDE DEF q, s, e
<1>5. elts' \in [Queues -> [0 .. Nelts - 1 -> Elt]] /\ SlotSet(q, s, e)
  BY <1>1, <1>3, <1>4, EltUpdate
<1> QED
  BY <1>5 DEF q, s, e

\* Publish marks it valid,
LEMMA PublishSets ==
  ASSUME IInv, NEW t \in Threads, Publish(t)
  PROVE  /\ elts' \in [Queues -> [0 .. Nelts - 1 -> Elt]]
         /\ SlotSet(Ring(t), Slot(my_tail[t] + 1), [valid |-> TRUE, pkts |-> Mine(t).pkts])
<1> DEFINE q == Ring(t)
           s == Slot(my_tail[t] + 1)
           e == [valid |-> TRUE, pkts |-> Mine(t).pkts]
<1>1. TypeOK /\ q \in Queues /\ s \in 0 .. Nelts - 1
  BY ProducerType, MineType DEF IInv, Publish, Producing
<1>2. Mine(t) \in Elt
  BY MineType DEF Publish, Producing
<1>3. e \in Elt /\ e = [Mine(t) EXCEPT !.valid = TRUE]
  <2>1. Mine(t).pkts \in Seq(Packets) /\ TRUE \in BOOLEAN
    BY <1>2 DEF Elt
  <2> QED
    BY <1>2, <2>1, EltExcept, Zenon
<1>4. elts' = [elts EXCEPT ![q][s] = e]
  BY <1>3 DEF Publish, Mine
<1> HIDE DEF q, s, e
<1>5. elts' \in [Queues -> [0 .. Nelts - 1 -> Elt]] /\ SlotSet(q, s, e)
  BY <1>1, <1>3, <1>4, EltUpdate
<1> QED
  BY <1>5 DEF q, s, e

\* ResetElt empties the oldest element,
LEMMA ResetSets ==
  ASSUME TypeOK, NEW t \in Threads, ResetElt(t)
  PROVE  /\ elts' \in [Queues -> [0 .. Nelts - 1 -> Elt]]
         /\ SlotSet(Polled(t), Slot(head[Polled(t)] + 1), EmptyElt)
<1>1. EmptyElt \in Elt
  BY DEF EmptyElt, Elt
<1>2. elts' = [elts EXCEPT ![Polled(t)][Slot(head[Polled(t)] + 1)] = EmptyElt]
  BY DEF ResetElt
<1> QED
  BY <1>1, <1>2, OwnerType, EltUpdate

\* What vlib_frame_queue_dequeue_inline takes from the oldest element.
NFree(t)  == FrameSize - Len(f[t])
NCopy(t)  == IF NFree(t) < Len(First(t).pkts) THEN NFree(t) ELSE Len(First(t).pkts)
Taken(t)  == SubSeq(First(t).pkts, 1, NCopy(t))
Left(t)   == SubSeq(First(t).pkts, NCopy(t) + 1, Len(First(t).pkts))

\* There is room in the frame, and what is taken and left adds up.
LEMMA CopyTakes ==
  ASSUME IInv, NEW t \in Threads
  PROVE  /\ NFree(t) \in Nat \ {0} /\ NCopy(t) \in 0 .. Len(First(t).pkts) /\ NCopy(t) <= NFree(t)
         /\ Taken(t) \in Seq(Packets) /\ Len(Taken(t)) = NCopy(t)
         /\ Left(t) \in Seq(Packets) /\ Len(Left(t)) = Len(First(t).pkts) - NCopy(t)
<1>1. TypeOK /\ Len(f[t]) < FrameSize /\ f[t] \in Seq(Packets)
  BY DEF IInv, LocalOK, TypeOK
<1>2. NFree(t) \in Nat \ {0}
  BY <1>1, RingAssumption DEF NFree
<1>3. First(t).pkts \in Seq(Packets)
  BY <1>1, OwnerType
<1>4. NCopy(t) \in 0 .. Len(First(t).pkts) /\ NCopy(t) <= NFree(t)
  BY <1>2, <1>3 DEF NCopy
<1> DEFINE p == First(t).pkts
           n == NCopy(t)
<1>5. p \in Seq(Packets) /\ n \in 0 .. Len(p)
  BY <1>3, <1>4
<1> HIDE DEF p, n
<1>6. /\ SubSeq(p, 1, n) \in Seq(Packets) /\ Len(SubSeq(p, 1, n)) = n
      /\ SubSeq(p, n + 1, Len(p)) \in Seq(Packets)
      /\ Len(SubSeq(p, n + 1, Len(p))) = Len(p) - n
  BY <1>5
<1> QED
  BY <1>2, <1>4, <1>6 DEF Taken, Left, p, n

\* and Copy leaves what it did not take in the oldest element, still valid.
LEMMA CopySets ==
  ASSUME IInv, NEW t \in Threads, Copy(t)
  PROVE  /\ elts' \in [Queues -> [0 .. Nelts - 1 -> Elt]]
         /\ SlotSet(Polled(t), Slot(head[Polled(t)] + 1), [valid |-> TRUE, pkts |-> Left(t)])
<1> DEFINE q == Polled(t)
           s == Slot(head[Polled(t)] + 1)
           e == [valid |-> TRUE, pkts |-> Left(t)]
<1>1. TypeOK /\ q \in Queues /\ s \in 0 .. Nelts - 1 /\ Left(t) \in Seq(Packets)
  BY OwnerType, CopyTakes DEF IInv
<1>2. First(t) \in Elt /\ First(t).valid
  BY <1>1 DEF TypeOK, First, Elt, Copy, Ready
<1>3. e \in Elt /\ e = [First(t) EXCEPT !.pkts = Left(t)]
  <2>1. First(t).valid = TRUE
    BY <1>2, EltExcept, Zenon
  <2> QED
    BY <1>1, <1>2, <2>1, EltExcept
<1>4. elts' = [elts EXCEPT ![q][s] = e]
  BY <1>3 DEF Copy, First, Left, NCopy, NFree
<1> HIDE DEF q, s, e
<1>5. elts' \in [Queues -> [0 .. Nelts - 1 -> Elt]] /\ SlotSet(q, s, e)
  BY <1>1, <1>3, <1>4, EltUpdate
<1> QED
  BY <1>5 DEF q, s, e

\* Every step keeps the types.
LEMMA TypeNext ==
  ASSUME IInv, NEW t \in Threads, ThreadNext(t)
  PROVE  TypeOK'
<1>t. TypeOK
  BY DEF IInv
<1>o. Polled(t) \in Queues /\ Len(First(t).pkts) \in Nat
  BY <1>t, OwnerType
<1>p. pc[t] \in Producing => Ring(t) \in Queues
  BY ProducerType
<1>c. NCopy(t) \in Nat
  BY <1>o, CopyTakes
<1> USE DEF Goto, Pcs, ringVars, flagVars, enqVars, deqVars, outVars
<1>1. CASE Handoff(t)
  <2>1. PICK n \in 1 .. FrameSize, k \in Fqms : \E to \in [1 .. n -> Routes[t][k]] :
            /\ received' = [received EXCEPT ![t] = @ + n]
            /\ frame' = [frame EXCEPT ![t] =
                  [i \in 1 .. n |-> [pkt |-> << t, received[t] + i >>, to |-> << k, to[i] >>]]]
    BY <1>1 DEF Handoff
  <2>2. PICK to \in [1 .. n -> Routes[t][k]] :
            frame' = [frame EXCEPT ![t] =
                  [i \in 1 .. n |-> [pkt |-> << t, received[t] + i >>, to |-> << k, to[i] >>]]]
    BY <2>1
  <2> DEFINE e(i) == [pkt |-> << t, received[t] + i >>, to |-> << k, to[i] >>]
  <2>3. ASSUME NEW i \in 1 .. n
        PROVE  e(i) \in Entry
    <3>1. << t, received[t] + i >> \in Packets
      BY <1>t DEF TypeOK, Packets
    <3>2. << k, to[i] >> \in Queues
      <4>1. Routes[t][k] \subseteq Threads
        BY ThreadsAssumption DEF Fqms
      <4> QED
        BY <4>1 DEF Queues
    <3> QED
      BY <3>1, <3>2 DEF Entry
  <2>4. [i \in 1 .. n |-> e(i)] \in Seq(Entry)
    <3> HIDE DEF e
    <3> QED
      BY <2>3
  <2>5. frame' \in [Threads -> Seq(Entry)]
    BY <1>t, <2>2, <2>4 DEF TypeOK, Entry
  <2>6. received' \in [Threads -> Nat]
    BY <1>t, <2>1 DEF TypeOK
  <2> QED
    BY <1>t, <1>1, <2>5, <2>6 DEF TypeOK, Handoff, Entry
<1>2. CASE LoadTail(t)
  BY <1>t, <1>2, ProducerType DEF TypeOK, LoadTail, Producing
<1>3. CASE Room(t)
  BY <1>t, <1>3 DEF TypeOK, Room
<1>4. CASE Congested(t)
  BY <1>t, <1>4 DEF TypeOK, Congested
<1>5. CASE Drop(t)
  <2> DEFINE g == Group(frame[t])
             l == IF WithAux THEN [i \in DOMAIN g |-> AuxOf(g[i])] ELSE g
  <2>1. g \in Seq(Packets) /\ Rest(frame[t]) \in Seq(Entry)
    BY <1>5, ProducerType DEF Drop, Producing
  <2>2. l \in Seq(Packets \cup Aux)
    <3> HIDE DEF g
    <3>1. CASE WithAux
      <4>1. \A i \in 1 .. Len(g) : AuxOf(g[i]) \in Aux
        BY <2>1 DEF AuxOf, Aux
      <4> QED
        BY <2>1, <3>1, <4>1
    <3>2. CASE ~WithAux
      BY <2>1, <3>2
    <3> QED
      BY <3>1, <3>2
  <2>3. drop_list' = [drop_list EXCEPT ![t] = @ \o l]
    BY <1>5 DEF Drop
  <2> HIDE DEF g, l
  <2>4. drop_list' \in [Threads -> Seq(Packets \cup Aux)]
    <3>1. drop_list \in [Threads -> Seq(Packets \cup Aux)]
      BY <1>t DEF TypeOK
    <3>2. drop_list[t] \o l \in Seq(Packets \cup Aux)
      BY <2>2, <3>1
    <3> QED
      BY <2>3, <3>1, <3>2
  <2>5. frame' \in [Threads -> Seq(Entry)]
    BY <1>t, <1>5, <2>1 DEF TypeOK, Drop, Entry
  <2>6. pc' \in [Threads -> Pcs]
    BY <1>t, <1>5 DEF TypeOK, Drop
  <2> QED
    BY <1>t, <1>5, <2>4, <2>5, <2>6 DEF TypeOK, Drop, Entry
<1>6. CASE Claim(t)
  <2>1. tail' \in [Queues -> Nat]
    <3>1. Ring(t) \in Queues /\ my_tail[t] + 1 \in Nat /\ tail \in [Queues -> Nat]
      BY <1>t, <1>p, <1>6 DEF TypeOK, Claim, Producing
    <3> QED
      BY <1>6, <3>1 DEF Claim
  <2>2. pc' \in [Threads -> Pcs]
    BY <1>t, <1>6 DEF TypeOK, Claim
  <2> QED
    BY <1>t, <1>6, <2>1, <2>2 DEF TypeOK, Claim
<1>7. CASE Fill(t)
  BY <1>t, <1>7, FillSets DEF TypeOK, Fill, Elt
<1>8. CASE Publish(t)
  BY <1>t, <1>8, PublishSets DEF TypeOK, Publish, Elt
<1>9. CASE Notify(t)
  BY <1>t, <1>9, ProducerType DEF TypeOK, Notify, Producing, Entry
<1>10. CASE FreeDropped(t)
  <2>1. Set(drop_list[t]) \subseteq Packets \cup Aux
    BY <1>t DEF TypeOK, Set
  <2>2. drop_list' \in [Threads -> Seq(Packets \cup Aux)]
    BY <1>t, <1>10 DEF TypeOK, FreeDropped
  <2> QED
    BY <1>t, <1>10, <2>1, <2>2 DEF TypeOK, FreeDropped
<1>11. CASE LoopHead(t)
  <2>1. fqm' \in [Threads -> Fqms]
    BY <1>t, <1>11, RingAssumption DEF TypeOK, LoopHead, Fqms
  <2>2. frame_queue_check_counter' \in [Threads -> 0 .. CheckCount]
    BY <1>t, <1>11, RingAssumption DEF TypeOK, LoopHead
  <2>3. pc' \in [Threads -> Pcs]
    BY <1>t, <1>11 DEF TypeOK, LoopHead
  <2> QED
    BY <1>t, <1>11, <2>1, <2>2, <2>3 DEF TypeOK, LoopHead
<1>12. CASE ClearCheck(t)
  BY <1>t, <1>12 DEF TypeOK, ClearCheck
<1>13. CASE DequeueNone(t)
  BY <1>t, <1>13 DEF TypeOK, DequeueNone
<1>14. CASE Copy(t)
  <2> DEFINE full == f[t] \o Taken(t)
  <2>1. /\ f' = [f EXCEPT ![t] = IF NCopy(t) = NFree(t) THEN << >> ELSE full]
        /\ delivered' = IF NCopy(t) = NFree(t)
                        THEN [delivered EXCEPT ![Polled(t)] = @ \o full] ELSE delivered
        /\ vectors' = [vectors EXCEPT ![t] = @ + NCopy(t)]
    BY <1>14 DEF Copy, NCopy, NFree, Taken
  <2>2. full \in Seq(Packets)
    BY <1>t, CopyTakes DEF TypeOK
  <2> HIDE DEF full
  <2>3. f' \in [Threads -> Seq(Packets)]
    BY <1>t, <2>1, <2>2 DEF TypeOK
  <2>4. delivered' \in [Queues -> Seq(Packets)]
    <3>1. delivered \in [Queues -> Seq(Packets)]
      BY <1>t DEF TypeOK
    <3> QED
      BY <1>o, <2>1, <2>2, <3>1
  <2>5. vectors' \in [Threads -> Nat]
    <3>1. vectors \in [Threads -> Nat]
      BY <1>t DEF TypeOK
    <3> QED
      BY <1>c, <2>1, <3>1
  <2>6. pc' \in [Threads -> Pcs]
    BY <1>t, <1>14 DEF TypeOK, Copy
  <2>7. elts' \in [Queues -> [0 .. Nelts - 1 -> Elt]]
    BY <1>14, CopySets
  <2> QED
    BY <1>t, <1>14, <2>3, <2>4, <2>5, <2>6, <2>7 DEF TypeOK, Copy, Elt
<1>15. CASE ResetElt(t)
  BY <1>t, <1>15, ResetSets DEF TypeOK, ResetElt, Elt
<1>16. CASE BumpHead(t)
  <2>1. head' \in [Queues -> Nat]
    <3>1. head \in [Queues -> Nat]
      BY <1>t DEF TypeOK
    <3> QED
      BY <1>o, <1>16, <3>1 DEF BumpHead
  <2>2. processed' \in [Threads -> Nat]
    BY <1>t, <1>16 DEF TypeOK, BumpHead
  <2>3. pc' \in [Threads -> Pcs]
    BY <1>t, <1>16 DEF TypeOK, BumpHead
  <2> QED
    BY <1>t, <1>16, <2>1, <2>2, <2>3 DEF TypeOK, BumpHead
<1>17. CASE DequeueEnd(t)
  <2>1. delivered' \in [Queues -> Seq(Packets)]
    <3>1. delivered \in [Queues -> Seq(Packets)] /\ f[t] \in Seq(Packets)
      BY <1>t DEF TypeOK
    <3> QED
      BY <1>o, <1>17, <3>1 DEF DequeueEnd, PutFrame
  <2>2. fqm' \in [Threads -> Fqms]
    <3>1. fqm \in [Threads -> Fqms]
      BY <1>t DEF TypeOK
    <3> QED
      BY <1>17, <3>1, RingAssumption DEF DequeueEnd, Fqms
  <2>3. frame_queue_check_counter' \in [Threads -> 0 .. CheckCount]
    <3>1. frame_queue_check_counter[t] > 0
      BY <1>17 DEF IInv, LocalOK, DequeueEnd, Polling
    <3>2. frame_queue_check_counter \in [Threads -> 0 .. CheckCount] /\ CheckCount \in Nat
      BY <1>t, RingAssumption DEF TypeOK
    <3> QED
      BY <1>17, <3>1, <3>2 DEF DequeueEnd
  <2>4. processed' \in [Threads -> Nat] /\ vectors' \in [Threads -> Nat]
    <3>1. processed \in [Threads -> Nat] /\ vectors \in [Threads -> Nat]
      BY <1>t DEF TypeOK
    <3>2. vectors' = [vectors EXCEPT ![t] = 0]
      BY <1>17 DEF DequeueEnd, PutFrame
    <3>3. processed' = processed \/ processed' = [processed EXCEPT ![t] = 0]
      BY <1>17 DEF DequeueEnd
    <3> QED
      BY <3>1, <3>2, <3>3
  <2>5. f' \in [Threads -> Seq(Packets)]
    BY <1>t, <1>17 DEF TypeOK, DequeueEnd, PutFrame
  <2>6. pc' \in [Threads -> Pcs]
    BY <1>t, <1>17 DEF TypeOK, DequeueEnd
  <2> QED
    BY <1>t, <1>17, <2>1, <2>2, <2>3, <2>4, <2>5, <2>6 DEF TypeOK, DequeueEnd
<1>18. CASE LoopEnd(t)
  BY <1>t, <1>18 DEF TypeOK, LoopEnd
<1> QED
  BY <1>1, <1>2, <1>3, <1>4, <1>5, <1>6, <1>7, <1>8, <1>9, <1>10, <1>11, <1>12, <1>13,
     <1>14, <1>15, <1>16, <1>17, <1>18 DEF ThreadNext

-----------------------------------------------------------------------------
(* Steps of one thread and the others.                                     *)

\* A step of t leaves the locals of the other threads alone.
Others(t) ==
    \A u \in Threads : u # t =>
        /\ pc'[u] = pc[u] /\ frame'[u] = frame[u] /\ my_tail'[u] = my_tail[u]
        /\ fqm'[u] = fqm[u] /\ f'[u] = f[u] /\ drop_list'[u] = drop_list[u]
        /\ frame_queue_check_counter'[u] = frame_queue_check_counter[u]

\* Every step is such a step.
LEMMA OthersKeep ==
  ASSUME TypeOK, NEW t \in Threads, ThreadNext(t)
  PROVE  Others(t)
<1> USE DEF TypeOK, Others, Goto, ringVars, flagVars, enqVars, deqVars, outVars
<1>1. CASE Handoff(t)
  BY <1>1 DEF Handoff
<1>2. CASE LoadTail(t)
  BY <1>2 DEF LoadTail
<1>3. CASE Room(t)
  BY <1>3 DEF Room
<1>4. CASE Congested(t)
  BY <1>4 DEF Congested
<1>5. CASE Drop(t)
  BY <1>5 DEF Drop
<1>6. CASE Claim(t)
  BY <1>6 DEF Claim
<1>7. CASE Fill(t)
  BY <1>7 DEF Fill
<1>8. CASE Publish(t)
  BY <1>8 DEF Publish
<1>9. CASE Notify(t)
  BY <1>9 DEF Notify
<1>10. CASE FreeDropped(t)
  BY <1>10 DEF FreeDropped
<1>11. CASE LoopHead(t)
  BY <1>11 DEF LoopHead
<1>12. CASE ClearCheck(t)
  BY <1>12 DEF ClearCheck
<1>13. CASE DequeueNone(t)
  BY <1>13 DEF DequeueNone
<1>14. CASE Copy(t)
  BY <1>14 DEF Copy
<1>15. CASE ResetElt(t)
  BY <1>15 DEF ResetElt
<1>16. CASE BumpHead(t)
  BY <1>16 DEF BumpHead
<1>17. CASE DequeueEnd(t)
  BY <1>17 DEF DequeueEnd, PutFrame
<1>18. CASE LoopEnd(t)
  BY <1>18 DEF LoopEnd
<1> QED
  BY <1>1, <1>2, <1>3, <1>4, <1>5, <1>6, <1>7, <1>8, <1>9, <1>10, <1>11, <1>12, <1>13,
     <1>14, <1>15, <1>16, <1>17, <1>18 DEF ThreadNext

\* What a thread holds agrees with where it is, after every step.
LEMMA LocalNext ==
  ASSUME IInv, NEW t \in Threads, ThreadNext(t), NEW u \in Threads
  PROVE  LocalOK(u)'
<1>t. TypeOK /\ LocalOK(u) /\ LocalOK(t)
  BY DEF IInv
<1>r. CheckCount \in Nat \ {0} /\ FrameSize \in Nat \ {0}
  BY RingAssumption
<1>c. /\ Taken(t) \in Seq(Packets) /\ Len(Taken(t)) = NCopy(t) /\ NCopy(t) <= NFree(t)
      /\ NCopy(t) \in Int
  <2>1. Len(First(t).pkts) \in Nat
    BY <1>t, OwnerType
  <2> QED
    BY <2>1, CopyTakes
<1>0. CASE u # t
  <2>1. Others(t)
    BY <1>t, OthersKeep
  <2> QED
    BY <1>t, <1>0, <2>1 DEF Others, LocalOK
<1> SUFFICES ASSUME u = t
             PROVE  LocalOK(t)'
  BY <1>0
<1> USE DEF TypeOK, LocalOK, Producing, Polling, Goto,
            ringVars, flagVars, enqVars, deqVars, outVars
<1>1. CASE Handoff(t)
  <2>1. /\ pc[t] = "dispatch" /\ pc'[t] = "tail"
        /\ UNCHANGED << frame_queue_check_counter, drop_list, f >>
    BY <1>t, <1>1 DEF Handoff
  <2>2. PICK n \in 1 .. FrameSize, k \in Fqms : \E to \in [1 .. n -> Routes[t][k]] :
            frame' = [frame EXCEPT ![t] =
                [i \in 1 .. n |-> [pkt |-> << t, received[t] + i >>, to |-> << k, to[i] >>]]]
    BY <1>1 DEF Handoff
  <2>3. DOMAIN frame'[t] = 1 .. n /\ 1 \in 1 .. n
    BY <1>t, <1>r, <2>2
  <2>4. frame'[t] # << >>
    BY <2>3
  <2> QED
    BY <1>t, <2>1, <2>4
<1>2. CASE LoadTail(t)
  BY <1>t, <1>2 DEF LoadTail
<1>3. CASE Room(t)
  BY <1>t, <1>3 DEF Room
<1>4. CASE Congested(t)
  BY <1>t, <1>4 DEF Congested
<1>5. CASE Drop(t)
  BY <1>t, <1>5 DEF Drop
<1>6. CASE Claim(t)
  BY <1>t, <1>6 DEF Claim
<1>7. CASE Fill(t)
  BY <1>t, <1>7 DEF Fill
<1>8. CASE Publish(t)
  BY <1>t, <1>8 DEF Publish
<1>9. CASE Notify(t)
  BY <1>t, <1>9 DEF Notify
<1>10. CASE FreeDropped(t)
  BY <1>t, <1>10 DEF FreeDropped
<1>11. CASE LoopHead(t)
  BY <1>t, <1>11, <1>r DEF LoopHead
<1>12. CASE ClearCheck(t)
  BY <1>t, <1>12 DEF ClearCheck
<1>13. CASE DequeueNone(t)
  BY <1>t, <1>13 DEF DequeueNone
<1>14. CASE Copy(t)
  <2>1. /\ f'[t] = IF NCopy(t) = NFree(t) THEN << >> ELSE f[t] \o Taken(t)
        /\ pc[t] = "deq" /\ pc'[t] \in {"reset", "deqend", "deq"}
        /\ UNCHANGED << frame, frame_queue_check_counter, drop_list >>
    BY <1>t, <1>14 DEF Copy, NCopy, NFree, Taken
  <2>2. Len(f[t] \o Taken(t)) = Len(f[t]) + NCopy(t) /\ NCopy(t) <= NFree(t)
        /\ NCopy(t) \in Int
    <3>1. f[t] \in Seq(Packets)
      BY <1>t
    <3> QED
      BY <1>c, <3>1
  <2>3. Len(f'[t]) < FrameSize
    <3>1. CASE NCopy(t) = NFree(t)
      BY <1>r, <2>1, <3>1
    <3>2. CASE NCopy(t) # NFree(t)
      BY <1>t, <1>r, <2>1, <2>2, <3>2 DEF NFree
    <3> QED
      BY <3>1, <3>2
  <2> QED
    BY <1>t, <2>1, <2>3
<1>15. CASE ResetElt(t)
  BY <1>t, <1>15 DEF ResetElt
<1>16. CASE BumpHead(t)
  BY <1>t, <1>16 DEF BumpHead
<1>17. CASE DequeueEnd(t)
  <2>1. /\ f'[t] = << >> /\ pc[t] = "deqend"
        /\ UNCHANGED << frame, drop_list >>
    BY <1>t, <1>17 DEF DequeueEnd, PutFrame
  <2>2. \/ pc'[t] = "deq" /\ UNCHANGED frame_queue_check_counter
        \/ pc'[t] = "dispatch"
    BY <1>t, <1>17 DEF DequeueEnd
  <2> QED
    BY <1>t, <1>r, <2>1, <2>2
<1>18. CASE LoopEnd(t)
  BY <1>t, <1>18 DEF LoopEnd
<1> QED
  BY <1>1, <1>2, <1>3, <1>4, <1>5, <1>6, <1>7, <1>8, <1>9, <1>10, <1>11, <1>12, <1>13,
     <1>14, <1>15, <1>16, <1>17, <1>18 DEF ThreadNext

-----------------------------------------------------------------------------
(* The rings.                                                              *)

Held == Claims \cup {"reset", "bump"}

\* The rings, the claims and the elements being given back are as before when
\* a step touches no ring and its thread holds no element.
LEMMA QuietNext ==
  ASSUME IInv, NEW t \in Threads, Others(t), UNCHANGED ringVars,
         pc[t] \notin Held, pc'[t] \notin Held
  PROVE  /\ \A u \in Threads : OwnerOK(u)'
         /\ \A u \in Threads : u # t => ProducerOK(u)'
         /\ ClaimsApart'
         /\ \A q \in Queues : RingOK(q)'
<1>1. elts' = elts /\ tail' = tail /\ head' = head
  BY DEF ringVars
<1>2. \A u \in Threads : u # t =>
          /\ Ring(u)' = Ring(u) /\ Polled(u)' = Polled(u)
          /\ pc'[u] = pc[u] /\ my_tail'[u] = my_tail[u]
  BY DEF Others, Ring, Polled
<1>3. \A u \in Threads : \A q, n : Claimed(u, q, n)' <=> Claimed(u, q, n)
  BY <1>2 DEF Claimed, Held, Claims
<1>4. ASSUME NEW u \in Threads
      PROVE  OwnerOK(u)'
  <2>1. CASE u = t
    BY <2>1 DEF OwnerOK, Held
  <2>2. CASE u # t
    <3>1. OwnerOK(u) /\ First(u)' = First(u)
      BY <1>1, <1>2, <2>2 DEF IInv, First
    <3> QED
      BY <1>1, <1>2, <1>3, <2>2, <3>1 DEF OwnerOK
  <2> QED
    BY <2>1, <2>2
<1>5. ASSUME NEW u \in Threads, u # t
      PROVE  ProducerOK(u)'
  <2>1. ProducerOK(u) /\ Mine(u)' = Mine(u) /\ frame'[u] = frame[u]
    BY <1>1, <1>2, <1>5 DEF IInv, Mine, Others
  <2> QED
    BY <1>1, <1>2, <1>5, <2>1 DEF ProducerOK
<1>6. ClaimsApart'
  BY <1>2 DEF IInv, ClaimsApart, Held, Claims
<1>7. ASSUME NEW q \in Queues
      PROVE  RingOK(q)'
  <2>1. RingOK(q) /\ q[2] \in Threads
    BY DEF IInv, Queues
  <2>2. \A n : Given(q, n)' <=> Given(q, n)
    BY <1>1, <1>2, <2>1 DEF Given, Held
  <2> QED
    BY <1>1, <1>3, <2>1, <2>2 DEF RingOK
<1> QED
  BY <1>4, <1>5, <1>6, <1>7

\* Elements of one ring, of which one is between head and tail, do not share
\* a slot.
LEMMA SlotOther ==
  ASSUME IInv, NEW q \in Queues, NEW n \in head[q] + 1 .. tail[q],
         NEW m \in head[q] + 1 .. head[q] + Nelts, m # n
  PROVE  /\ Slot(m) # Slot(n) /\ Slot(m) \in 0 .. Nelts - 1 /\ Slot(n) \in 0 .. Nelts - 1
<1>1. /\ head[q] \in Nat /\ tail[q] \in Nat /\ tail[q] < head[q] + Nelts /\ Nelts \in Nat
      /\ n \in Nat /\ m \in Nat
  BY RingAssumption DEF IInv, TypeOK, RingOK
<1>2. CASE m < n
  <2>1. n < m + Nelts
    BY <1>1
  <2> QED
    BY <1>1, <1>2, <2>1, SlotApart, SlotType
<1>3. CASE n < m
  <2>1. m < n + Nelts
    BY <1>1
  <2> QED
    BY <1>1, <1>3, <2>1, SlotApart, SlotType
<1> QED
  BY <1>1, <1>2, <1>3

\* The bounds of a ring and its numbers.
LEMMA RingBounds ==
  ASSUME IInv, NEW q \in Queues
  PROVE  /\ head[q] \in Nat /\ tail[q] \in Nat /\ Nelts \in Nat \ {0}
         /\ head[q] <= tail[q] /\ tail[q] < head[q] + Nelts
         /\ q[2] \in Threads
  BY RingAssumption DEF IInv, TypeOK, RingOK, Queues

\* An assignment to an element on a ring changes no other position.
LEMMA KeptElsewhere ==
  ASSUME IInv, NEW q \in Queues, NEW n \in head[q] + 1 .. tail[q], NEW e,
         SlotSet(q, Slot(n), e)
  PROVE  \A r \in Queues : \A m \in head[r] + 1 .. head[r] + Nelts :
             (r # q \/ m # n) => elts'[r][Slot(m)] = elts[r][Slot(m)]
<1> SUFFICES ASSUME NEW r \in Queues, NEW m \in head[r] + 1 .. head[r] + Nelts, r # q \/ m # n
             PROVE  elts'[r][Slot(m)] = elts[r][Slot(m)]
  OBVIOUS
<1>1. m \in Nat /\ Slot(m) \in 0 .. Nelts - 1
  <2>1. head[r] \in Nat /\ Nelts \in Nat
    BY RingBounds
  <2> QED
    BY <2>1, SlotType
<1>2. CASE r = q
  <2>1. Slot(m) # Slot(n)
    BY <1>2, SlotOther
  <2> QED
    BY <1>1, <2>1 DEF SlotSet
<1>3. CASE r # q
  BY <1>1, <1>3 DEF SlotSet
<1> QED
  BY <1>2, <1>3

RingsOK ==
    /\ \A u \in Threads : ProducerOK(u) /\ OwnerOK(u)
    /\ ClaimsApart
    /\ \A q \in Queues : RingOK(q)

\* Another thread's ring, the ring it polls and where it is, across a step.
LEMMA OthersView ==
  ASSUME NEW t \in Threads, Others(t)
  PROVE  \A u \in Threads : u # t =>
            /\ Ring(u)' = Ring(u) /\ Polled(u)' = Polled(u) /\ pc'[u] = pc[u]
            /\ my_tail'[u] = my_tail[u] /\ frame'[u] = frame[u]
  BY DEF Others, Ring, Polled

\* A successful compare-and-swap gives t the element after the last.
LEMMA ClaimNext ==
  ASSUME IInv, NEW t \in Threads, Others(t), pc[t] = "cas", tail[Ring(t)] = my_tail[t],
         tail' = [tail EXCEPT ![Ring(t)] = my_tail[t] + 1],
         pc'[t] = "fill", UNCHANGED << elts, head, frame, my_tail, fqm >>
  PROVE  RingsOK'
<1> DEFINE q == Ring(t)
           n == my_tail[t] + 1
<1>1. /\ q \in Queues /\ my_tail[t] \in Nat /\ Mine(t) \in Elt
  BY ProducerType, MineType DEF Producing
<1>2. /\ head[q] \in Nat /\ tail[q] \in Nat /\ Nelts \in Nat \ {0}
      /\ head[q] <= tail[q] /\ tail[q] < head[q] + Nelts
  BY <1>1, RingBounds
<1>3. /\ tail[q] = my_tail[t] /\ tail'[q] = n /\ n < head[q] + Nelts
      /\ \A r \in Queues : r # q => tail'[r] = tail[r]
      /\ \A r \in Queues : tail[r] \in Nat /\ head[r] \in Nat /\ tail'[r] >= tail[r]
      /\ \A r : /\ Ring(r)' = Ring(r) /\ Mine(r)' = Mine(r)
               /\ Polled(r)' = Polled(r) /\ First(r)' = First(r)
  <2>1. ProducerOK(t) /\ TypeOK
    BY DEF IInv
  <2>2. n < head[q] + Nelts
    BY <2>1 DEF ProducerOK
  <2>3. /\ tail'[q] = n /\ \A r \in Queues : r # q => tail'[r] = tail[r]
    BY <1>1, <2>1 DEF TypeOK
  <2>4. \A r : /\ Ring(r)' = Ring(r) /\ Mine(r)' = Mine(r)
               /\ Polled(r)' = Polled(r) /\ First(r)' = First(r)
    BY DEF Ring, Mine, Polled, First
  <2>5. \A r \in Queues : tail[r] \in Nat /\ head[r] \in Nat
    BY <2>1 DEF TypeOK
  <2> QED
    BY <1>1, <2>2, <2>3, <2>4, <2>5
<1>4. elts[q][Slot(n)] = EmptyElt
  BY <1>1, <1>2, <1>3 DEF IInv, RingOK
<1>5. \A u \in Threads : u # t => pc'[u] = pc[u]
  BY DEF Others
<1>6. \A u \in Threads : \A r, m :
          Claimed(u, r, m)' <=> (Claimed(u, r, m) \/ (u = t /\ r = q /\ m = n))
  BY <1>3, <1>5 DEF Claimed
<1> HIDE DEF q, n
<1>7. ASSUME NEW u \in Threads
      PROVE  ProducerOK(u)'
  <2>1. CASE u = t
    <3>1. ~Mine(t).valid /\ Mine(t).pkts = << >>
      BY <1>4 DEF Mine, EmptyElt, q, n
    <3> QED
      BY <1>1, <1>2, <1>3, <2>1, <3>1 DEF ProducerOK, Claims, q, n
  <2>2. CASE u # t
    <3>1. ProducerOK(u) /\ my_tail[u] \in Nat /\ pc'[u] = pc[u]
      BY <1>5, <2>2 DEF IInv, TypeOK
    <3>2. pc[u] \in Producing => Ring(u) \in Queues
      BY ProducerType
    <3> QED
      BY <1>3, <2>2, <3>1, <3>2 DEF ProducerOK, Producing, Claims
  <2> QED
    BY <2>1, <2>2
<1>8. ASSUME NEW u \in Threads
      PROVE  OwnerOK(u)'
  <2>1. OwnerOK(u) /\ Polled(u) \in Queues
    BY OwnerType DEF IInv
  <2>2. CASE u = t
    BY <2>2 DEF OwnerOK
  <2>3. CASE u # t
    <3>1. pc[u] \in {"reset", "bump"} => (head[Polled(u)] + 1 # n \/ Polled(u) # q)
      BY <1>1, <1>2, <1>3, <2>1 DEF OwnerOK, n
    <3> QED
      BY <1>3, <1>5, <1>6, <2>1, <2>3, <3>1 DEF OwnerOK
  <2> QED
    BY <2>2, <2>3
<1>9. ClaimsApart'
  <2>1. \A u \in Threads : (pc[u] \in Claims /\ Ring(u) = q) => my_tail[u] < my_tail[t]
    BY <1>3 DEF IInv, ProducerOK
  <2>2. \A u \in Threads : my_tail[u] \in Nat
    BY DEF IInv, TypeOK
  <2>3. ClaimsApart
    BY DEF IInv
  <2> QED
    BY <1>3, <1>5, <2>1, <2>2, <2>3 DEF ClaimsApart, q
<1>10. ASSUME NEW r \in Queues
       PROVE  RingOK(r)'
  <2>1. RingOK(r) /\ r[2] \in Threads
    BY DEF IInv, Queues
  <2>2. \A m : Given(r, m)' <=> Given(r, m)
    <3>1. pc[t] # "bump" /\ pc'[t] # "bump"
      OBVIOUS
    <3> QED
      BY <1>3, <1>5, <2>1, <3>1 DEF Given
  <2>3. CASE r # q
    BY <1>3, <1>6, <2>1, <2>2, <2>3 DEF RingOK
  <2>4. CASE r = q
    <3>1. head[r] <= tail'[r] /\ tail'[r] < head[r] + Nelts
      BY <1>1, <1>2, <1>3, <2>4
    <3>2. ASSUME NEW m \in head[r] + 1 .. tail'[r]
          PROVE  \/ elts[r][Slot(m)].valid
                 \/ \E u \in Threads : Claimed(u, r, m)'
                 \/ Given(r, m)'
      <4>1. CASE m = n
        BY <1>6, <2>4, <4>1
      <4>2. CASE m # n
        <5>1. m \in head[r] + 1 .. tail[r]
          BY <1>1, <1>2, <1>3, <2>4, <4>2 DEF n
        <5> QED
          BY <1>6, <2>1, <2>2, <2>4, <5>1 DEF RingOK
      <4> QED
        BY <4>1, <4>2
    <3>3. \A m \in tail'[r] + 1 .. head[r] + Nelts : elts[r][Slot(m)] = EmptyElt
      BY <1>1, <1>2, <1>3, <2>1, <2>4 DEF RingOK, n
    <3> QED
      BY <3>1, <3>2, <3>3 DEF RingOK
  <2> QED
    BY <2>3, <2>4
<1> QED
  BY <1>7, <1>8, <1>9, <1>10 DEF RingsOK

\* The elements that other threads hold stay as they are, unless it is
\* theirs that is assigned.
LEMMA KeptViews ==
  ASSUME IInv, NEW t \in Threads, Others(t), NEW q \in Queues,
         NEW n \in head[q] + 1 .. tail[q], NEW e, SlotSet(q, Slot(n), e), head' = head,
         NEW u \in Threads, u # t
  PROVE  /\ (pc[u] \in Claims /\ ~(Ring(u) = q /\ my_tail[u] + 1 = n)) => Mine(u)' = Mine(u)
         /\ (pc[u] \in {"reset", "bump"} /\ ~(Polled(u) = q /\ head[q] + 1 = n))
               => First(u)' = First(u)
<1>1. /\ Ring(u)' = Ring(u) /\ Polled(u)' = Polled(u) /\ my_tail'[u] = my_tail[u]
  BY OthersView
<1>2. ASSUME pc[u] \in Claims, ~(Ring(u) = q /\ my_tail[u] + 1 = n)
      PROVE  Mine(u)' = Mine(u)
  <2>1. Ring(u) \in Queues /\ my_tail[u] \in Nat
    BY <1>2, ProducerType, MineType DEF Claims, Producing
  <2>2. head[Ring(u)] <= my_tail[u] /\ my_tail[u] < tail[Ring(u)]
    BY <1>2 DEF IInv, ProducerOK
  <2>3. /\ head[Ring(u)] \in Nat /\ tail[Ring(u)] \in Nat /\ Nelts \in Nat
        /\ tail[Ring(u)] < head[Ring(u)] + Nelts
    BY <2>1, RingBounds
  <2>4. my_tail[u] + 1 \in head[Ring(u)] + 1 .. head[Ring(u)] + Nelts
    BY <2>1, <2>2, <2>3
  <2>5. elts'[Ring(u)][Slot(my_tail[u] + 1)] = elts[Ring(u)][Slot(my_tail[u] + 1)]
    BY <1>2, <2>1, <2>4, KeptElsewhere
  <2> QED
    BY <1>1, <2>5 DEF Mine
<1>3. ASSUME pc[u] \in {"reset", "bump"}, ~(Polled(u) = q /\ head[q] + 1 = n)
      PROVE  First(u)' = First(u)
  <2>1. Polled(u) \in Queues
    BY OwnerType DEF IInv
  <2>2. head[Polled(u)] \in Nat /\ Nelts \in Nat \ {0}
    BY <2>1, RingBounds
  <2>3. head[Polled(u)] + 1 \in head[Polled(u)] + 1 .. head[Polled(u)] + Nelts
    BY <2>2
  <2>4. elts'[Polled(u)][Slot(head[Polled(u)] + 1)] = elts[Polled(u)][Slot(head[Polled(u)] + 1)]
    BY <1>3, <2>1, <2>3, KeptElsewhere
  <2> QED
    BY <1>1, <2>4 DEF First
<1> QED
  BY <1>2, <1>3

\* Fill and Publish: t writes the element it has claimed, which nobody else
\* holds, and in the end it is valid or still t's.
LEMMA WriteNext ==
  ASSUME IInv, NEW t \in Threads, Others(t), pc[t] \in Claims,
         NEW v \in BOOLEAN, NEW x \in Seq(Packets),
         SlotSet(Ring(t), Slot(my_tail[t] + 1), [valid |-> v, pkts |-> x]),
         \/ pc'[t] = "valid" /\ ~v /\ x = Group(frame[t])
         \/ pc'[t] = "notify" /\ v,
         UNCHANGED << tail, head, frame, my_tail, fqm >>
  PROVE  RingsOK'
<1> DEFINE n == my_tail[t] + 1
           e == [valid |-> v, pkts |-> x]
<1>q. PICK q \in Queues : q = Ring(t)
  BY ProducerType DEF Claims, Producing
<1>1. /\ my_tail[t] \in Nat /\ ProducerOK(t) /\ ~Mine(t).valid
      /\ Mine(t) = elts[q][Slot(n)]
      /\ \A u : Ring(u)' = Ring(u) /\ Polled(u)' = Polled(u)
  BY <1>q, MineType DEF Claims, Producing, IInv, ProducerOK, Mine, Ring, Polled
<1>2. /\ head[q] \in Nat /\ tail[q] \in Nat /\ Nelts \in Nat \ {0}
      /\ head[q] <= tail[q] /\ tail[q] < head[q] + Nelts
  BY RingBounds
<1>3. n \in head[q] + 1 .. tail[q]
  BY <1>q, <1>1, <1>2 DEF ProducerOK
<1>4. SlotSet(q, Slot(n), e) /\ elts'[q][Slot(n)] = e
  BY <1>q DEF SlotSet
<1>5. \A u \in Threads : u # t => pc'[u] = pc[u]
  BY DEF Others
<1>6. \A u \in Threads : \A r, m : u # t => (Claimed(u, r, m)' <=> Claimed(u, r, m))
  BY <1>1, <1>5 DEF Claimed
<1>7. \A m : m = n => (Claimed(t, q, m)' <=> pc'[t] = "valid")
  BY <1>q, <1>1 DEF Claimed, Claims
<1>8. \A u \in Threads : u # t => ~Claimed(u, q, n)
  <2> SUFFICES ASSUME NEW u \in Threads, u # t, Claimed(u, q, n)
               PROVE  FALSE
    OBVIOUS
  <2>1. my_tail[u] \in Nat
    BY DEF IInv, TypeOK
  <2> QED
    BY <1>q, <1>1, <2>1 DEF IInv, ClaimsApart, Claimed, Claims
<1>9. ~(pc[q[2]] = "bump" /\ Polled(q[2]) = q /\ head[q] + 1 = n)
      /\ ~(pc[q[2]] = "reset" /\ Polled(q[2]) = q /\ head[q] + 1 = n)
  <2>1. q[2] \in Threads /\ OwnerOK(q[2])
    BY RingBounds DEF IInv
  <2>2. Claimed(t, q, n)
    BY <1>q DEF Claimed, Claims
  <2> QED
    BY <1>1, <2>1, <2>2 DEF OwnerOK, First
<1> HIDE DEF n, e
<1>10. ASSUME NEW u \in Threads
       PROVE  ProducerOK(u)'
  <2>1. CASE u = t
    <3>1. pc'[t] = "valid" => (~Mine(t)'.valid /\ Mine(t)'.pkts = Group(frame[t]))
      BY <1>q, <1>1, <1>4 DEF Mine, n, e
    <3> QED
      BY <1>1, <2>1, <3>1 DEF ProducerOK, Claims
  <2>2. CASE u # t
    <3>1. ProducerOK(u) /\ pc'[u] = pc[u]
      BY <1>5, <2>2 DEF IInv
    <3>2. pc[u] \in Claims => Mine(u)' = Mine(u)
      BY <1>3, <1>4, <1>8, <2>2, KeptViews DEF Claimed, Claims
    <3> QED
      BY <1>1, <3>1, <3>2 DEF ProducerOK, Claims
  <2> QED
    BY <2>1, <2>2
<1>11. ASSUME NEW u \in Threads
       PROVE  OwnerOK(u)'
  <2>1. OwnerOK(u) /\ Polled(u)[2] = u
    BY DEF IInv, Polled
  <2>2. CASE u = t
    BY <2>2 DEF OwnerOK
  <2>3. CASE u # t
    <3>1. pc[u] \in {"reset", "bump"} => First(u)' = First(u)
      BY <1>3, <1>4, <1>9, <2>1, <2>3, KeptViews
    <3>2. ASSUME pc[u] = "bump", NEW w \in Threads
          PROVE  ~Claimed(w, Polled(u), head[Polled(u)] + 1)'
      <4>0. ~Claimed(w, Polled(u), head[Polled(u)] + 1)
        BY <2>1, <3>2 DEF OwnerOK
      <4>1. CASE w # t
        BY <1>1, <1>5, <4>0, <4>1, OthersView DEF Claimed
      <4>2. CASE w = t
        BY <1>1, <4>0, <4>2 DEF Claimed, Claims
      <4> QED
        BY <4>1, <4>2
    <3> QED
      BY <1>1, <1>5, <2>1, <2>3, <3>1, <3>2 DEF OwnerOK
  <2> QED
    BY <2>2, <2>3
<1>12. ClaimsApart'
  BY <1>1, <1>5 DEF IInv, ClaimsApart, Claims
<1>13. ASSUME NEW r \in Queues
       PROVE  RingOK(r)'
  <2>1. RingOK(r) /\ r[2] \in Threads
    BY DEF IInv, Queues
  <2>2. \A m : Given(r, m)' <=> Given(r, m)
    <3>1. pc[t] # "bump" /\ pc'[t] # "bump"
      BY DEF Claims
    <3> QED
      BY <1>1, <1>5, <2>1, <3>1 DEF Given
  <2>0. /\ head[r] \in Nat /\ tail[r] \in Nat /\ Nelts \in Nat
        /\ head[r] <= tail[r] /\ tail[r] < head[r] + Nelts
    BY RingBounds
  <2>k. \A m \in head[r] + 1 .. head[r] + Nelts :
            (r # q \/ m # n) => elts'[r][Slot(m)] = elts[r][Slot(m)]
    BY <1>3, <1>4, KeptElsewhere
  <2>3. ASSUME NEW m \in head[r] + 1 .. tail[r]
        PROVE  \/ elts'[r][Slot(m)].valid
               \/ \E u \in Threads : Claimed(u, r, m)'
               \/ Given(r, m)'
    <3>1. CASE r = q /\ m = n
      <4>1. CASE pc'[t] = "valid"
        BY <1>7, <3>1, <4>1
      <4>2. CASE pc'[t] = "notify"
        <5>1. v /\ elts'[q][Slot(n)].valid = v
          BY <1>4, <4>2 DEF e
        <5> QED
          BY <3>1, <5>1
      <4> QED
        BY <4>1, <4>2
    <3>2. CASE ~(r = q /\ m = n)
      <4>1. m \in head[r] + 1 .. head[r] + Nelts
        BY <2>0
      <4>2. elts'[r][Slot(m)] = elts[r][Slot(m)]
        BY <2>k, <3>2, <4>1
      <4>3. CASE \E u \in Threads : Claimed(u, r, m)
        <5>1. PICK u \in Threads : Claimed(u, r, m)
          BY <4>3
        <5>2. u # t
          BY <1>q, <3>2, <5>1 DEF Claimed, n
        <5> QED
          BY <1>6, <5>1, <5>2
      <4> QED
        BY <2>1, <2>2, <4>2, <4>3 DEF RingOK
    <3> QED
      BY <3>1, <3>2
  <2>4. ASSUME NEW m \in tail[r] + 1 .. head[r] + Nelts
        PROVE  elts'[r][Slot(m)] = EmptyElt
    <3>1. m \in head[r] + 1 .. head[r] + Nelts /\ elts[r][Slot(m)] = EmptyElt
      BY <2>0, <2>1 DEF RingOK
    <3>2. r # q \/ m # n
      BY <1>2, <1>3, <2>0
    <3> QED
      BY <2>k, <3>1, <3>2
  <2> QED
    BY <2>1, <2>3, <2>4 DEF RingOK
<1> QED
  BY <1>10, <1>11, <1>12, <1>13 DEF RingsOK

\* Copy and ResetElt: t writes the oldest element of its own ring, which is
\* valid, and so claimed by nobody.
LEMMA TakeNext ==
  ASSUME IInv, NEW t \in Threads, Others(t), pc[t] \in {"deq", "reset"},
         head[Polled(t)] < tail[Polled(t)], First(t).valid,
         NEW v \in BOOLEAN, NEW x \in Seq(Packets),
         SlotSet(Polled(t), Slot(head[Polled(t)] + 1), [valid |-> v, pkts |-> x]),
         \/ v /\ pc'[t] \in {"deq", "deqend"}
         \/ v /\ pc'[t] = "reset" /\ x = << >>
         \/ ~v /\ pc'[t] = "bump" /\ x = << >>,
         UNCHANGED << tail, head, frame, my_tail, fqm >>
  PROVE  RingsOK'
<1> DEFINE e == [valid |-> v, pkts |-> x]
<1>q. PICK q \in Queues : q = Polled(t)
  BY OwnerType DEF IInv
<1>1. /\ q[2] = t /\ First(t) = elts[q][Slot(head[q] + 1)]
      /\ \A u : Ring(u)' = Ring(u) /\ Polled(u)' = Polled(u)
  BY <1>q DEF Ring, Polled, First
<1>2. /\ head[q] \in Nat /\ tail[q] \in Nat /\ Nelts \in Nat \ {0}
      /\ head[q] < tail[q] /\ tail[q] < head[q] + Nelts
  BY <1>q, RingBounds
<1>n. PICK n \in head[q] + 1 .. tail[q] : n = head[q] + 1
  BY <1>2
<1>4. SlotSet(q, Slot(n), e) /\ elts'[q][Slot(n)] = e
  BY <1>q, <1>n DEF SlotSet
<1>5. \A u \in Threads : u # t => pc'[u] = pc[u]
  BY DEF Others
<1>6. \A u \in Threads : \A r, m : Claimed(u, r, m)' <=> Claimed(u, r, m)
  BY <1>1, <1>5 DEF Claimed
<1>7. \A u \in Threads : ~Claimed(u, q, n)
  <2> SUFFICES ASSUME NEW u \in Threads, Claimed(u, q, n)
               PROVE  FALSE
    OBVIOUS
  <2>1. Mine(u) = First(t) /\ pc[u] \in Claims
    BY <1>1, <1>n DEF Mine, Claimed, Claims
  <2> QED
    BY <2>1 DEF IInv, ProducerOK
<1> HIDE DEF e
<1>10. ASSUME NEW u \in Threads
       PROVE  ProducerOK(u)'
  <2>1. CASE u = t
    BY <2>1 DEF ProducerOK, Claims
  <2>2. CASE u # t
    <3>1. ProducerOK(u) /\ pc'[u] = pc[u]
      BY <1>5, <2>2 DEF IInv
    <3>2. pc[u] \in Claims => Mine(u)' = Mine(u)
      BY <1>4, <1>7, <2>2, KeptViews DEF Claimed, Claims
    <3> QED
      BY <1>1, <3>1, <3>2 DEF ProducerOK, Claims
  <2> QED
    BY <2>1, <2>2
<1>11. ASSUME NEW u \in Threads
       PROVE  OwnerOK(u)'
  <2>1. OwnerOK(u) /\ Polled(u)[2] = u
    BY DEF IInv, Polled
  <2>2. CASE u = t
    <3>1. First(t)'.valid = v /\ First(t)'.pkts = x
      BY <1>q, <1>1, <1>n, <1>4 DEF First, e
    <3>2. \A w \in Threads : ~Claimed(w, Polled(t), head[Polled(t)] + 1)'
      BY <1>q, <1>1, <1>n, <1>5, <1>7 DEF Claimed
    <3> QED
      BY <1>q, <1>1, <1>2, <2>2, <3>1, <3>2 DEF OwnerOK
  <2>3. CASE u # t
    <3>1. pc[u] \in {"reset", "bump"} => First(u)' = First(u)
      BY <1>1, <1>4, <2>1, <2>3, KeptViews
    <3>2. \A w \in Threads : Claimed(w, Polled(u), head[Polled(u)] + 1)'
                               <=> Claimed(w, Polled(u), head[Polled(u)] + 1)
      BY <1>1, <1>5 DEF Claimed
    <3> QED
      BY <1>1, <1>5, <2>1, <2>3, <3>1, <3>2 DEF OwnerOK
  <2> QED
    BY <2>2, <2>3
<1>12. ClaimsApart'
  BY <1>1, <1>5 DEF IInv, ClaimsApart, Claims
<1>13. ASSUME NEW r \in Queues
       PROVE  RingOK(r)'
  <2>1. RingOK(r) /\ r[2] \in Threads
    BY DEF IInv, Queues
  <2>0. /\ head[r] \in Nat /\ tail[r] \in Nat /\ Nelts \in Nat
        /\ head[r] <= tail[r] /\ tail[r] < head[r] + Nelts
    BY RingBounds
  <2>k. \A m \in head[r] + 1 .. head[r] + Nelts :
            (r # q \/ m # n) => elts'[r][Slot(m)] = elts[r][Slot(m)]
    BY <1>4, KeptElsewhere
  <2>3. ASSUME NEW m \in head[r] + 1 .. tail[r]
        PROVE  \/ elts'[r][Slot(m)].valid
               \/ \E u \in Threads : Claimed(u, r, m)'
               \/ Given(r, m)'
    <3>1. CASE r = q /\ m = n
      <4>1. CASE v
        <5>1. elts'[q][Slot(n)].valid = v
          BY <1>4 DEF e
        <5> QED
          BY <3>1, <4>1, <5>1
      <4>2. CASE ~v
        BY <1>q, <1>1, <1>n, <3>1, <4>2 DEF Given
      <4> QED
        BY <4>1, <4>2
    <3>2. CASE ~(r = q /\ m = n)
      <4>1. m \in head[r] + 1 .. head[r] + Nelts
        BY <2>0
      <4>2. elts'[r][Slot(m)] = elts[r][Slot(m)]
        BY <2>k, <3>2, <4>1
      <4>3. Given(r, m) => Given(r, m)'
        BY <1>1, <1>5, <2>1 DEF Given
      <4> QED
        BY <1>6, <2>1, <4>2, <4>3 DEF RingOK
    <3> QED
      BY <3>1, <3>2
  <2>4. ASSUME NEW m \in tail[r] + 1 .. head[r] + Nelts
        PROVE  elts'[r][Slot(m)] = EmptyElt
    <3>1. m \in head[r] + 1 .. head[r] + Nelts /\ elts[r][Slot(m)] = EmptyElt
      BY <2>0, <2>1 DEF RingOK
    <3>2. r # q \/ m # n
      BY <1>2, <2>0
    <3> QED
      BY <2>k, <3>1, <3>2
  <2> QED
    BY <2>1, <2>3, <2>4 DEF RingOK
<1> QED
  BY <1>10, <1>11, <1>12, <1>13 DEF RingsOK

\* BumpHead: the oldest element is empty and becomes the last free one.
LEMMA BumpNext ==
  ASSUME IInv, NEW t \in Threads, Others(t), pc[t] = "bump", pc'[t] \in {"deq", "deqend"},
         head' = [head EXCEPT ![Polled(t)] = @ + 1],
         UNCHANGED << elts, tail, frame, my_tail, fqm >>
  PROVE  RingsOK'
<1>q. PICK q \in Queues : q = Polled(t)
  BY OwnerType DEF IInv
<1>1. /\ q[2] = t /\ OwnerOK(t) /\ First(t) = elts[q][Slot(head[q] + 1)]
      /\ \A u : Ring(u)' = Ring(u) /\ Polled(u)' = Polled(u) /\ Mine(u)' = Mine(u)
  BY <1>q DEF Ring, Polled, First, Mine, IInv
<1>2. /\ head[q] \in Nat /\ tail[q] \in Nat /\ Nelts \in Nat \ {0}
      /\ head[q] < tail[q] /\ tail[q] < head[q] + Nelts
  BY <1>q, <1>1, RingBounds DEF OwnerOK
<1>3. /\ head'[q] = head[q] + 1 /\ \A r \in Queues : r # q => head'[r] = head[r]
      /\ \A r \in Queues : head[r] \in Nat /\ tail[r] \in Nat
  BY <1>q DEF IInv, TypeOK
<1>4. elts[q][Slot(head[q] + 1)] = EmptyElt
  <2>1. elts[q][Slot(head[q] + 1)] \in Elt
    <3>1. Slot(head[q] + 1) \in 0 .. Nelts - 1
      BY <1>2, SlotType
    <3>2. elts \in [Queues -> [0 .. Nelts - 1 -> Elt]]
      BY DEF IInv, TypeOK, Elt
    <3> QED
      BY <3>1, <3>2
  <2>2. First(t).valid = FALSE /\ First(t).pkts = << >>
    BY <1>1, <2>1 DEF OwnerOK, Elt
  <2> QED
    BY <1>1, <2>1, <2>2 DEF Elt, EmptyElt
<1>5. \A u \in Threads : u # t => pc'[u] = pc[u]
  BY DEF Others
<1>6. \A u \in Threads : \A r, m : Claimed(u, r, m)' <=> Claimed(u, r, m)
  BY <1>1, <1>5 DEF Claimed
<1>7. \A u \in Threads : ~Claimed(u, q, head[q] + 1)
  BY <1>q, <1>1 DEF OwnerOK
<1>10. ASSUME NEW u \in Threads
       PROVE  ProducerOK(u)'
  <2>1. CASE u = t
    BY <2>1 DEF ProducerOK, Claims
  <2>2. CASE u # t
    <3>1. ProducerOK(u) /\ pc'[u] = pc[u] /\ my_tail[u] \in Nat
      BY <1>5, <2>2 DEF IInv, TypeOK
    <3>2. pc[u] \in Producing => Ring(u) \in Queues
      BY ProducerType
    <3>3. pc[u] \in Claims => head'[Ring(u)] <= my_tail[u]
      BY <1>3, <1>7, <3>1, <3>2 DEF ProducerOK, Claims, Producing, Claimed
    <3>4. pc[u] = "cas" => my_tail[u] + 1 < head'[Ring(u)] + Nelts
      BY <1>2, <1>3, <3>1, <3>2 DEF ProducerOK, Producing
    <3> QED
      BY <1>1, <3>1, <3>3, <3>4 DEF ProducerOK, Claims
  <2> QED
    BY <2>1, <2>2
<1>11. ASSUME NEW u \in Threads
       PROVE  OwnerOK(u)'
  <2>1. OwnerOK(u) /\ Polled(u)[2] = u /\ Polled(u) \in Queues
    BY OwnerType DEF IInv, Polled
  <2>2. CASE u = t
    BY <2>2 DEF OwnerOK
  <2>3. CASE u # t
    <3>1. Polled(u) # q
      BY <1>1, <2>1, <2>3
    <3>2. head'[Polled(u)] = head[Polled(u)] /\ First(u)' = First(u)
      BY <1>1, <1>3, <2>1, <3>1 DEF First
    <3>3. \A w \in Threads : Claimed(w, Polled(u), head[Polled(u)] + 1)'
                               <=> Claimed(w, Polled(u), head[Polled(u)] + 1)
      BY <1>1, <1>5, <3>2 DEF Claimed
    <3> QED
      BY <1>1, <1>5, <2>1, <2>3, <3>2, <3>3 DEF OwnerOK
  <2> QED
    BY <2>2, <2>3
<1>12. ClaimsApart'
  BY <1>1, <1>5 DEF IInv, ClaimsApart, Claims
<1>13. ASSUME NEW r \in Queues
       PROVE  RingOK(r)'
  <2>1. RingOK(r) /\ r[2] \in Threads
    BY DEF IInv, Queues
  <2>2. CASE r # q
    <3>1. \A m : Given(r, m)' <=> Given(r, m)
      BY <1>q, <1>1, <1>3, <1>5, <2>1, <2>2 DEF Given
    <3> QED
      BY <1>3, <1>6, <2>1, <2>2, <3>1 DEF RingOK
  <2>3. CASE r = q
    <3>1. ASSUME NEW m \in head'[r] + 1 .. tail[r]
          PROVE  elts[r][Slot(m)].valid \/ \E u \in Threads : Claimed(u, r, m)'
      <4>1. m \in head[r] + 1 .. tail[r] /\ ~Given(r, m)
        BY <1>2, <1>3, <2>3 DEF Given
      <4> QED
        BY <1>6, <2>1, <4>1 DEF RingOK
    <3>2. ASSUME NEW m \in tail[r] + 1 .. head'[r] + Nelts
          PROVE  elts[r][Slot(m)] = EmptyElt
      <4>1. CASE m = (head[r] + 1) + Nelts
        <5>1. Slot(m) = Slot(head[r] + 1)
          <6>1. head[r] + 1 \in Nat
            BY <1>2, <2>3
          <6> QED
            BY <4>1, <6>1, SlotWrap
        <5> QED
          BY <1>4, <2>3, <5>1
      <4>2. CASE m # (head[r] + 1) + Nelts
        <5>1. m \in tail[r] + 1 .. head[r] + Nelts
          BY <1>2, <1>3, <2>3, <4>2
        <5> QED
          BY <2>1, <5>1 DEF RingOK
      <4> QED
        BY <4>1, <4>2
    <3>3. head'[r] <= tail[r] /\ tail[r] < head'[r] + Nelts
      BY <1>2, <1>3, <2>3
    <3> QED
      BY <3>1, <3>2, <3>3 DEF RingOK
  <2> QED
    BY <2>2, <2>3
<1> QED
  BY <1>10, <1>11, <1>12, <1>13 DEF RingsOK

\* Every step keeps the rings, the claims and the elements being given back.
LEMMA RingNext ==
  ASSUME IInv, NEW t \in Threads, ThreadNext(t)
  PROVE  RingsOK'
<1>t. TypeOK /\ Others(t) /\ ProducerOK(t)
  BY OthersKeep DEF IInv
<1>p. pc[t] \in Producing => Ring(t) \in Queues
  BY ProducerType
<1>n. pc \in [Threads -> Pcs] /\ my_tail \in [Threads -> Nat] /\ tail \in [Queues -> Nat]
  BY <1>t DEF TypeOK
<1>q. ASSUME UNCHANGED ringVars, pc[t] \notin Held, pc'[t] \notin Held, ProducerOK(t)'
      PROVE  RingsOK'
  BY <1>t, <1>q, QuietNext DEF RingsOK
<1> USE DEF Goto, ringVars, flagVars, enqVars, deqVars, outVars
<1>1. CASE Handoff(t)
  BY <1>n, <1>1, <1>q DEF Handoff, ProducerOK, Held, Claims
<1>2. CASE LoadTail(t)
  <2>1. /\ UNCHANGED << elts, tail, head, frame >> /\ pc[t] = "tail" /\ pc'[t] = "full"
        /\ my_tail'[t] = tail[Ring(t)] /\ Ring(t)' = Ring(t)
    BY <1>n, <1>2 DEF LoadTail, Ring
  <2>2. tail[Ring(t)] \in Nat
    BY <1>n, <1>p, <2>1 DEF Producing
  <2> QED
    BY <1>q, <2>1, <2>2 DEF ProducerOK, Held, Claims
<1>3. CASE Room(t)
  <2>1. /\ UNCHANGED << elts, tail, head, frame, my_tail >>
        /\ pc[t] \in {"full", "wait"} /\ pc'[t] = "cas"
        /\ ~RingFull(t) /\ Ring(t)' = Ring(t)
    BY <1>n, <1>3 DEF Room, Ring
  <2>2. my_tail[t] + 1 < head[Ring(t)] + Nelts
    <3>1. Ring(t) \in Queues
      BY <1>p, <2>1 DEF Producing
    <3>2. head[Ring(t)] \in Nat /\ my_tail[t] \in Nat /\ Nelts \in Nat
      BY <1>n, <3>1, RingBounds
    <3> QED
      BY <2>1, <3>2 DEF RingFull
  <2> QED
    BY <1>t, <1>q, <2>1, <2>2 DEF ProducerOK, Held, Claims
<1>4. CASE Congested(t)
  <2>1. /\ UNCHANGED << elts, tail, head, frame, my_tail >>
        /\ pc[t] = "full" /\ pc'[t] = "wait" /\ Ring(t)' = Ring(t)
    BY <1>n, <1>4 DEF Congested, Ring
  <2> QED
    BY <1>t, <1>q, <2>1 DEF ProducerOK, Held, Claims
<1>5. CASE Drop(t)
  BY <1>n, <1>5, <1>q DEF Drop, ProducerOK, Held, Claims
<1>6. CASE Claim(t)
  <2>1. CASE tail[Ring(t)] = my_tail[t]
    BY <1>t, <1>n, <1>6, <2>1, ClaimNext DEF Claim
  <2>2. CASE tail[Ring(t)] # my_tail[t]
    BY <1>n, <1>6, <1>q, <2>2 DEF Claim, ProducerOK, Held, Claims
  <2> QED
    BY <2>1, <2>2
<1>7. CASE Fill(t)
  <2>1. /\ UNCHANGED << tail, head, frame, my_tail, fqm >>
        /\ pc[t] = "fill" /\ pc[t] \in Claims /\ pc[t] \in Producing /\ pc'[t] = "valid"
    BY <1>n, <1>7 DEF Fill, Claims, Producing
  <2>2. SlotSet(Ring(t), Slot(my_tail[t] + 1),
                [valid |-> Mine(t).valid, pkts |-> Group(frame[t])])
    BY <1>7, FillSets
  <2>3. Group(frame[t]) \in Seq(Packets) /\ Mine(t) \in Elt
    BY <2>1, ProducerType, MineType
  <2>4. Mine(t).valid \in BOOLEAN /\ ~Mine(t).valid
    BY <1>t, <2>1, <2>3 DEF Elt, ProducerOK
  <2> QED
    BY <1>t, <2>1, <2>2, <2>3, <2>4, WriteNext
<1>8. CASE Publish(t)
  <2>1. /\ UNCHANGED << tail, head, frame, my_tail, fqm >>
        /\ pc[t] \in Claims /\ pc[t] \in Producing /\ pc'[t] = "notify"
    BY <1>n, <1>8 DEF Publish, Claims, Producing
  <2>2. SlotSet(Ring(t), Slot(my_tail[t] + 1), [valid |-> TRUE, pkts |-> Mine(t).pkts])
    BY <1>8, PublishSets
  <2>3. Mine(t) \in Elt
    BY <2>1, MineType
  <2>4. Mine(t).pkts \in Seq(Packets) /\ TRUE \in BOOLEAN
    BY <2>3 DEF Elt
  <2> QED
    BY <1>t, <2>1, <2>2, <2>4, WriteNext, Zenon
<1>9. CASE Notify(t)
  BY <1>n, <1>9, <1>q DEF Notify, ProducerOK, Held, Claims
<1>10. CASE FreeDropped(t)
  BY <1>n, <1>10, <1>q DEF FreeDropped, ProducerOK, Held, Claims
<1>11. CASE LoopHead(t)
  BY <1>n, <1>11, <1>q DEF LoopHead, ProducerOK, Held, Claims
<1>12. CASE ClearCheck(t)
  BY <1>n, <1>12, <1>q DEF ClearCheck, ProducerOK, Held, Claims
<1>13. CASE DequeueNone(t)
  BY <1>n, <1>13, <1>q DEF DequeueNone, ProducerOK, Held, Claims
<1>14. CASE Copy(t)
  <2>1. /\ UNCHANGED << tail, head, frame, my_tail, fqm >> /\ pc[t] = "deq"
        /\ head[Polled(t)] # tail[Polled(t)] /\ First(t).valid
        /\ \/ pc'[t] \in {"deq", "deqend"}
           \/ pc'[t] = "reset" /\ NCopy(t) = Len(First(t).pkts)
    BY <1>n, <1>14 DEF Copy, Ready, NCopy, NFree
  <2>2. SlotSet(Polled(t), Slot(head[Polled(t)] + 1), [valid |-> TRUE, pkts |-> Left(t)])
    BY <1>14, CopySets
  <2>3. Left(t) \in Seq(Packets) /\ Len(Left(t)) = Len(First(t).pkts) - NCopy(t)
        /\ Len(First(t).pkts) \in Nat
    BY <1>t, CopyTakes, OwnerType
  <2>4. NCopy(t) = Len(First(t).pkts) => Left(t) = << >>
    BY <2>3
  <2>5. head[Polled(t)] < tail[Polled(t)]
    BY <1>t, <2>1, OwnerType, RingBounds
  <2>6. \/ TRUE /\ pc'[t] \in {"deq", "deqend"}
        \/ TRUE /\ pc'[t] = "reset" /\ Left(t) = << >>
    BY <2>1, <2>4
  <2>7. pc[t] \in {"deq", "reset"} /\ TRUE \in BOOLEAN
    BY <2>1
  <2> QED
    BY <1>t, <2>1, <2>2, <2>3, <2>5, <2>6, <2>7, TakeNext, Zenon
<1>15. CASE ResetElt(t)
  <2>1. /\ UNCHANGED << tail, head, frame, my_tail, fqm >>
        /\ pc[t] = "reset" /\ pc[t] \in {"deq", "reset"} /\ pc'[t] = "bump"
    BY <1>n, <1>15 DEF ResetElt
  <2>2. SlotSet(Polled(t), Slot(head[Polled(t)] + 1), [valid |-> FALSE, pkts |-> << >>])
    BY <1>t, <1>15, ResetSets DEF EmptyElt
  <2>3. head[Polled(t)] < tail[Polled(t)] /\ First(t).valid
    BY <2>1 DEF IInv, OwnerOK
  <2>4. << >> \in Seq(Packets) /\ FALSE \in BOOLEAN
    OBVIOUS
  <2> QED
    BY <1>t, <2>1, <2>2, <2>3, <2>4, TakeNext, Zenon
<1>16. CASE BumpHead(t)
  BY <1>t, <1>n, <1>16, BumpNext DEF BumpHead
<1>17. CASE DequeueEnd(t)
  <2>1. /\ UNCHANGED << elts, tail, head >> /\ pc[t] = "deqend"
        /\ pc'[t] \in {"deq", "dispatch"}
    BY <1>n, <1>17 DEF DequeueEnd
  <2> QED
    BY <1>q, <2>1 DEF ProducerOK, Held, Claims
<1>18. CASE LoopEnd(t)
  BY <1>n, <1>18, <1>q DEF LoopEnd, ProducerOK, Held, Claims
<1> QED
  BY <1>1, <1>2, <1>3, <1>4, <1>5, <1>6, <1>7, <1>8, <1>9, <1>10, <1>11, <1>12, <1>13,
     <1>14, <1>15, <1>16, <1>17, <1>18 DEF ThreadNext

-----------------------------------------------------------------------------
(* The theorems.                                                           *)

\* The invariant holds of the empty rings.
LEMMA InitInv == Init => IInv
<1> SUFFICES ASSUME Init
             PROVE  IInv
  OBVIOUS
<1>r. Nelts \in Nat \ {0, 1} /\ FrameSize \in Nat \ {0} /\ CheckCount \in Nat /\ 1 \in Fqms
  BY RingAssumption DEF Fqms
<1>1. TypeOK
  <2>1. elts \in [Queues -> [0 .. Nelts - 1 -> Elt]]
    <3>1. EmptyElt \in Elt
      BY DEF EmptyElt, Elt
    <3> QED
      BY <3>1 DEF Init
  <2> QED
    BY <1>r, <2>1 DEF Init, TypeOK, Elt, Pcs
<1>2. ASSUME NEW t \in Threads
      PROVE  LocalOK(t) /\ ProducerOK(t) /\ OwnerOK(t)
  BY <1>r DEF Init, LocalOK, ProducerOK, OwnerOK, Producing, Polling, Claims
<1>3. ClaimsApart
  BY DEF Init, ClaimsApart, Claims
<1>4. ASSUME NEW q \in Queues
      PROVE  RingOK(q)
  <2>1. head[q] = 0 /\ tail[q] = 0
    BY DEF Init
  <2>2. \A n \in Nat : elts[q][Slot(n)] = EmptyElt
    BY SlotType DEF Init
  <2> QED
    BY <1>r, <2>1, <2>2 DEF RingOK
<1> QED
  BY <1>1, <1>2, <1>3, <1>4 DEF IInv

\* Every step keeps the invariant.
LEMMA NextInv == IInv /\ [Next]_vars => IInv'
<1> SUFFICES ASSUME IInv, [Next]_vars
             PROVE  IInv'
  OBVIOUS
<1>1. CASE Next
  <2>1. PICK t \in Threads : ThreadNext(t)
    BY <1>1 DEF Next
  <2>2. TypeOK'
    BY <2>1, TypeNext
  <2>3. \A u \in Threads : LocalOK(u)'
    BY <2>1, LocalNext
  <2>4. RingsOK'
    BY <2>1, RingNext
  <2> QED
    BY <2>2, <2>3, <2>4 DEF IInv, RingsOK
<1>2. CASE UNCHANGED vars
  <2>1. UNCHANGED << elts, tail, head, frame_queue_check_counter, pc, fqm, frame, my_tail,
                     f, drop_list >>
    BY <1>2 DEF vars, ringVars, flagVars, enqVars, deqVars
  <2>2. TypeOK'
    BY <1>2 DEF IInv, TypeOK, vars, ringVars, flagVars, enqVars, deqVars, outVars
  <2>3. \A u : /\ Ring(u)' = Ring(u) /\ Polled(u)' = Polled(u)
               /\ Mine(u)' = Mine(u) /\ First(u)' = First(u)
    BY <2>1 DEF Ring, Polled, Mine, First
  <2>4. \A u, q, n : (Claimed(u, q, n)' <=> Claimed(u, q, n)) /\ (Given(q, n)' <=> Given(q, n))
    BY <2>1, <2>3 DEF Claimed, Given
  <2>5. \A u \in Threads : LocalOK(u)' /\ ProducerOK(u)' /\ OwnerOK(u)'
    BY <2>1, <2>3, <2>4 DEF IInv, LocalOK, ProducerOK, OwnerOK
  <2>6. ClaimsApart'
    BY <2>1, <2>3 DEF IInv, ClaimsApart
  <2>7. \A q \in Queues : RingOK(q)'
    BY <2>1, <2>4 DEF IInv, RingOK
  <2> QED
    BY <2>2, <2>5, <2>6, <2>7 DEF IInv
<1> QED
  BY <1>1, <1>2

\* The invariant holds in every reachable state.
LEMMA Inductive == Spec => []IInv
  BY InitInv, NextInv, PTL DEF Spec

\* Between head and tail the claims, the valid marks and the element being
\* given back are exclusive.
LEMMA Exclusive ==
  ASSUME IInv
  PROVE  RingSafe
<1> SUFFICES ASSUME NEW q \in Queues
             PROVE  /\ head[q] <= tail[q] /\ tail[q] < head[q] + Nelts
                    /\ \A n \in head[q] + 1 .. tail[q] :
                         LET owners == {t \in Threads : Claimed(t, q, n)}
                             given  == n = head[q] + 1 /\ pc[q[2]] = "bump" /\ Polled(q[2]) = q
                         IN  IF elts[q][Slot(n)].valid THEN owners = {} /\ ~given
                             ELSE Cardinality(owners) + (IF given THEN 1 ELSE 0) = 1
                    /\ \A n \in tail[q] + 1 .. head[q] + Nelts : elts[q][Slot(n)] = EmptyElt
  BY DEF RingSafe
<1>1. RingOK(q) /\ q[2] \in Threads
  BY DEF IInv, Queues
<1>2. ASSUME NEW n \in head[q] + 1 .. tail[q]
      PROVE  LET owners == {t \in Threads : Claimed(t, q, n)}
                 given  == n = head[q] + 1 /\ pc[q[2]] = "bump" /\ Polled(q[2]) = q
             IN  IF elts[q][Slot(n)].valid THEN owners = {} /\ ~given
                 ELSE Cardinality(owners) + (IF given THEN 1 ELSE 0) = 1
  <2> DEFINE owners == {t \in Threads : Claimed(t, q, n)}
  <2>1. ASSUME NEW t \in owners
        PROVE  ~elts[q][Slot(n)].valid /\ owners = {t} /\ ~Given(q, n)
    <3>1. t \in Threads /\ Claimed(t, q, n)
      BY <2>1
    <3>2. ~elts[q][Slot(n)].valid
      BY <3>1 DEF IInv, ProducerOK, Claimed, Claims, Mine
    <3>3. ASSUME NEW u \in Threads, Claimed(u, q, n)
          PROVE  u = t
      <4>1. my_tail[u] \in Nat /\ my_tail[t] \in Nat
        BY <3>1 DEF IInv, TypeOK
      <4> QED
        BY <3>1, <3>3, <4>1 DEF IInv, ClaimsApart, Claimed, Claims
    <3>4. ~Given(q, n)
      <4>1. OwnerOK(q[2])
        BY <1>1 DEF IInv
      <4> QED
        BY <3>1, <4>1 DEF OwnerOK, Given
    <3> QED
      BY <3>1, <3>2, <3>3, <3>4
  <2>2. Given(q, n) => ~elts[q][Slot(n)].valid
    <3>1. OwnerOK(q[2])
      BY <1>1 DEF IInv
    <3> QED
      BY <3>1 DEF OwnerOK, Given, First
  <2>3. elts[q][Slot(n)].valid \/ owners # {} \/ Given(q, n)
    BY <1>1 DEF RingOK
  <2> HIDE DEF owners
  <2>4. CASE elts[q][Slot(n)].valid
    BY <2>1, <2>2, <2>4 DEF Given, owners
  <2>5. CASE ~elts[q][Slot(n)].valid /\ owners # {}
    <3>1. PICK t : t \in owners
      BY <2>5
    <3>2. owners = {t} /\ ~Given(q, n)
      BY <2>1, <3>1
    <3>3. Cardinality(owners) = 1
      BY <3>2, FS_Singleton
    <3> QED
      BY <2>5, <3>2, <3>3 DEF Given, owners
  <2>6. CASE ~elts[q][Slot(n)].valid /\ owners = {}
    <3>1. Cardinality(owners) = 0
      BY <2>6, FS_EmptySet
    <3> QED
      BY <2>3, <2>6, <3>1 DEF Given, owners
  <2> QED
    BY <2>4, <2>5, <2>6
<1> QED
  BY <1>1, <1>2 DEF RingOK

\* The state of the handoff code has its types: in particular the poll
\* counter is never counted down below zero and no frame overflows.
THEOREM TypeCorrect == Spec => []TypeOK
<1>1. IInv => TypeOK
  BY DEF IInv
<1> QED
  BY <1>1, Inductive, PTL

\* The rings keep any number of producers and their one consumer apart: an
\* element between head and tail is valid, or claimed by exactly one thread,
\* or being given back; the rest are empty and one is never used.
THEOREM RingsSafe == Spec => []RingSafe
<1>1. IInv => RingSafe
  BY Exclusive
<1> QED
  BY <1>1, Inductive, PTL
=============================================================================
