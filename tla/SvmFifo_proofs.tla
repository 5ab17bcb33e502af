--------------------------- MODULE SvmFifo_proofs ---------------------------
(***************************************************************************)
(* The chunk list of a fifo, for every slice of a segment, whatever the    *)
(* lengths of its chunks: no chunk is lost and none is in two places.      *)
(*                                                                         *)
(* After that, what the operators of the fifo compute: comparisons of      *)
(* positions, ooo_segment_add and ooo_segment_try_collect, searching a     *)
(* list, and copying to and from its chunks.  Positions are compared       *)
(* modulo W in the code.  The lemmas count them from a fixed position,     *)
(* where the order of the code is the order of the integers because the    *)
(* list never spans half the position space.                               *)
(***************************************************************************)
EXTENDS SvmFifo, TLAPS, FiniteSetTheorems, SequenceTheorems, NaturalsInduction,
        WellFoundedInduction

-----------------------------------------------------------------------------
(* Natural numbers.                                                        *)

\* A set of natural numbers that is not empty has a least member.
LEMMA Least ==
  ASSUME NEW T, T \subseteq Nat, T # {}
  PROVE  \E x \in T : \A y \in T : x <= y
<1>1. \E x \in T : \A y \in T : ~(<<y, x>> \in OpToRel(<, Nat))
  BY WFMin, NatLessThanWellFounded
<1>2. PICK x \in T : \A y \in T : ~(y < x)
  BY <1>1 DEF OpToRel
<1> QED
  BY <1>2

\* Induction over an initial segment of the naturals, as a fact about sets.
LEMMA Induct ==
  ASSUME NEW n \in Nat, NEW G, 0 \in G,
         \A k \in 0 .. n - 1 : k \in G => k + 1 \in G
  PROVE  \A k \in 0 .. n : k \in G
<1> DEFINE T == {k \in 0 .. n : k \notin G}
<1>1. SUFFICES ASSUME T # {}
               PROVE  FALSE
  OBVIOUS
<1>2. T \subseteq Nat
  OBVIOUS
<1>3. PICK x \in T : \A y \in T : x <= y
  <2> HIDE DEF T
  <2> QED
    BY <1>1, <1>2, Least
<1>4. x \in 1 .. n /\ x - 1 \in 0 .. n - 1 /\ x - 1 \notin T
  BY <1>3
<1> QED
  BY <1>3, <1>4

-----------------------------------------------------------------------------
(* Walking a list.                                                         *)

N == Cardinality(Chunks)

\* The slice has finitely many chunks.
LEMMA NType == N \in Nat /\ IsFiniteSet(Chunks)
  BY ConstantsOK, FS_CardinalityType DEF N, ConstantsOK

\* The recursive function that follows next is well defined: it exists, so
\* the definition is an equation.
LEMMA WalkEqn ==
  ASSUME NEW ch, NEW c, NEW pos
  PROVE  LET w == Walk(ch, c, pos)
         IN  /\ DOMAIN w = 0 .. N
             /\ w[0].c = c
             /\ w[0].off = -Diff(pos, ch[c].start)
             /\ \A n \in 0 .. N - 1 : /\ w[n + 1].c = ch[w[n].c].next
                                     /\ w[n + 1].off = w[n].off + ChunkLen[w[n].c]
<1> DEFINE First == [c |-> c, off |-> -Diff(pos, ch[c].start)]
           Step(p) == [c |-> ch[p.c].next, off |-> p.off + ChunkLen[p.c]]
           F(g) == [n \in 0 .. N |-> IF n = 0 THEN First ELSE Step(g[n - 1])]
           Is(g, k) == /\ g = [n \in 0 .. k |-> g[n]]
                       /\ g[0] = First
                       /\ \A n \in 0 .. k - 1 : g[n + 1] = Step(g[n])
           G == {k \in Nat : \E g : Is(g, k)}
<1>w. Walk(ch, c, pos) = CHOOSE g : g = F(g)
  BY DEF Walk, N
<1>s. \A p : Step(p).c = ch[p.c].next /\ Step(p).off = p.off + ChunkLen[p.c]
  OBVIOUS
<1>f. First.c = c /\ First.off = -Diff(pos, ch[c].start)
  OBVIOUS
<1> HIDE DEF First, Step
<1>1. 0 \in G
  <2> DEFINE g == [n \in 0 .. 0 |-> First]
  <2>1. g[0] = First /\ g = [n \in 0 .. 0 |-> g[n]]
    OBVIOUS
  <2>2. Is(g, 0)
    <3> HIDE DEF g
    <3> QED
      BY <2>1
  <2> HIDE DEF Is, g
  <2> QED
    BY <2>2
<1>2. ASSUME NEW k \in 0 .. N - 1, k \in G
      PROVE  k + 1 \in G
  <2>0. k \in Nat /\ N \in Nat
    BY NType
  <2>1. PICK g : Is(g, k)
    BY <1>2
  <2> DEFINE h == [n \in 0 .. k + 1 |-> IF n = k + 1 THEN Step(g[k]) ELSE g[n]]
  <2>2. /\ h = [n \in 0 .. k + 1 |-> h[n]]
        /\ h[k + 1] = Step(g[k])
        /\ \A n \in 0 .. k : h[n] = g[n]
    BY <2>0
  <2> HIDE DEF h
  <2>3. h[0] = First
    BY <2>0, <2>1, <2>2
  <2>4. ASSUME NEW n \in 0 .. k
        PROVE  h[n + 1] = Step(h[n])
    <3>1. CASE n = k
      BY <2>0, <2>2, <3>1
    <3>2. CASE n \in 0 .. k - 1
      <4>1. g[n + 1] = Step(g[n])
        BY <2>1, <3>2
      <4>2. n \in 0 .. k /\ n + 1 \in 0 .. k
        BY <2>0, <3>2
      <4>3. h[n + 1] = g[n + 1] /\ h[n] = g[n]
        BY <2>2, <4>2
      <4> QED
        BY <4>1, <4>3
    <3> QED
      BY <2>0, <3>1, <3>2
  <2>5. Is(h, k + 1)
    <3>1. (k + 1) - 1 = k
      BY <2>0
    <3> QED
      BY <2>2, <2>3, <2>4, <3>1
  <2> HIDE DEF Is
  <2> QED
    BY <2>0, <2>5
<1>3. N \in G
  <2>1. \A k \in 0 .. N - 1 : k \in G => k + 1 \in G
    BY <1>2
  <2> HIDE DEF G
  <2>2. \A k \in 0 .. N : k \in G
    BY <1>1, <2>1, NType, Induct
  <2> QED
    BY <2>2, NType
<1>4. PICK g : Is(g, N)
  BY <1>3
<1>5. g = F(g)
  <2>1. ASSUME NEW n \in 0 .. N
        PROVE  g[n] = F(g)[n]
    <3>1. CASE n = 0
      BY <1>4, <2>1, <3>1
    <3>2. CASE n # 0
      <4>1. n - 1 \in 0 .. N - 1 /\ (n - 1) + 1 = n
        BY <2>1, <3>2, NType
      <4>2. g[n] = Step(g[n - 1])
        BY <1>4, <4>1
      <4> QED
        BY <2>1, <3>2, <4>2
    <3> QED
      BY <3>1, <3>2
  <2>2. F(g) = [n \in 0 .. N |-> F(g)[n]]
    OBVIOUS
  <2>3. g = [n \in 0 .. N |-> g[n]]
    BY <1>4
  <2> HIDE DEF F, Is
  <2> QED
    BY <2>1, <2>2, <2>3
<1> DEFINE w == Walk(ch, c, pos)
<1>6. w = F(w)
  <2> HIDE DEF F
  <2> QED
    BY <1>5, <1>w
<1> HIDE DEF w
<1>7. /\ DOMAIN w = 0 .. N
      /\ w[0] = First
  BY <1>6, NType
<1>8. ASSUME NEW n \in 0 .. N - 1
      PROVE  w[n + 1] = Step(w[n])
  <2>1. n + 1 \in 0 .. N /\ n + 1 # 0 /\ (n + 1) - 1 = n
    BY NType
  <2>2. w[n + 1] = F(w)[n + 1]
    BY <1>6
  <2> QED
    BY <2>1, <2>2
<1> QED
  BY <1>7, <1>8, <1>s, <1>f DEF w

\* The next pointers of the slice: each names a chunk or is null.
Linked(ch) == (\A c \in Ptr : ch[c].next \in Ptr) /\ ch[NoChunk].next = NoChunk

\* A set of chunks that following next does not leave.
Closed(ch, S) == \A d \in S : ch[d].next # NoChunk => ch[d].next \in S

\* Every chunk of a walk is a chunk or null, and null once it has been.
LEMMA WalkType ==
  ASSUME NEW ch, Linked(ch), NEW c \in Ptr, NEW pos
  PROVE  LET w == Walk(ch, c, pos)
         IN  /\ \A n \in 0 .. N : w[n].c \in Ptr
             /\ \A i, j \in 0 .. N : i <= j /\ w[i].c = NoChunk => w[j].c = NoChunk
<1> DEFINE w == Walk(ch, c, pos)
           G == {n \in 0 .. N : w[n].c \in Ptr}
<1>1. w[0].c = c /\ \A n \in 0 .. N - 1 : w[n + 1].c = ch[w[n].c].next
  BY WalkEqn
<1> HIDE DEF w
<1>2. \A n \in 0 .. N : w[n].c \in Ptr
  <2>1. 0 \in G
    BY <1>1, NType
  <2>2. \A n \in 0 .. N - 1 : n \in G => n + 1 \in G
    BY <1>1, NType DEF Linked
  <2> HIDE DEF G
  <2>3. \A n \in 0 .. N : n \in G
    BY <2>1, <2>2, NType, Induct
  <2> QED
    BY <2>3 DEF G
<1>3. ASSUME NEW i \in 0 .. N, w[i].c = NoChunk
      PROVE  \A j \in 0 .. N : i <= j => w[j].c = NoChunk
  <2> DEFINE H == {j \in 0 .. N : i <= j => w[j].c = NoChunk}
  <2>1. 0 \in H
    BY <1>3, NType
  <2>2. ASSUME NEW n \in 0 .. N - 1, n \in H
        PROVE  n + 1 \in H
    <3>1. n + 1 \in 0 .. N
      BY NType
    <3>2. CASE i <= n
      BY <1>1, <2>2, <3>1, <3>2 DEF Linked
    <3>3. CASE ~(i <= n)
      <4>1. i <= n + 1 => i = n + 1
        BY <3>3, NType
      <4> QED
        BY <1>3, <3>1, <4>1
    <3> QED
      BY <3>2, <3>3
  <2>3. \A n \in 0 .. N - 1 : n \in H => n + 1 \in H
    BY <2>2
  <2> HIDE DEF H
  <2>4. \A n \in 0 .. N : n \in H
    BY <2>1, <2>3, NType, Induct
  <2> QED
    BY <2>4 DEF H
<1> QED
  BY <1>2, <1>3 DEF w

\* Two equal places of a walk stay equal from there on.
LEMMA WalkShift ==
  ASSUME NEW ch, NEW c, NEW pos, NEW i \in 0 .. N, NEW j \in 0 .. N, i <= j,
         Walk(ch, c, pos)[i].c = Walk(ch, c, pos)[j].c
  PROVE  \A m \in 0 .. N - j : Walk(ch, c, pos)[i + m].c = Walk(ch, c, pos)[j + m].c
<1> DEFINE w == Walk(ch, c, pos)
           G == {m \in 0 .. N - j : w[i + m].c = w[j + m].c}
<1>1. \A n \in 0 .. N - 1 : w[n + 1].c = ch[w[n].c].next
  BY WalkEqn
<1>2. w[i].c = w[j].c
  OBVIOUS
<1> HIDE DEF w
<1>3. N - j \in Nat
  BY NType
<1>4. 0 \in G
  BY <1>2, <1>3
<1>5. ASSUME NEW m \in 0 .. (N - j) - 1, m \in G
      PROVE  m + 1 \in G
  <2>1. i + m \in 0 .. N - 1 /\ j + m \in 0 .. N - 1 /\ m + 1 \in 0 .. N - j
    BY NType
  <2>2. w[(i + m) + 1].c = ch[w[i + m].c].next /\ w[(j + m) + 1].c = ch[w[j + m].c].next
    BY <1>1, <2>1
  <2>3. w[i + m].c = w[j + m].c
    BY <1>5
  <2>4. i + (m + 1) = (i + m) + 1 /\ j + (m + 1) = (j + m) + 1
    BY NType
  <2> QED
    BY <2>1, <2>2, <2>3, <2>4
<1>6. \A m \in 0 .. (N - j) - 1 : m \in G => m + 1 \in G
  BY <1>5
<1> HIDE DEF G
<1>7. \A m \in 0 .. N - j : m \in G
  BY <1>3, <1>4, <1>6, Induct
<1> QED
  BY <1>7 DEF G, w

\* The list from a chunk is the least set of chunks that holds it and that
\* next does not leave.  A walk of as many steps as there are chunks meets
\* them all: otherwise it would have met more chunks than there are.
LEMMA ListLeast ==
  ASSUME NEW ch, Linked(ch), NEW c \in Chunks
  PROVE  /\ c \in List(ch, c)
         /\ List(ch, c) \subseteq Chunks
         /\ Closed(ch, List(ch, c))
         /\ \A S : c \in S /\ Closed(ch, S) => List(ch, c) \subseteq S
<1> DEFINE w == Walk(ch, c, 0)
           L == {w[n].c : n \in 0 .. N} \ {NoChunk}
<1>0. List(ch, c) = L /\ NoChunk \notin Chunks /\ c \in Ptr
  BY ConstantsOK DEF List, N, ConstantsOK, Ptr
<1>1. w[0].c = c /\ \A n \in 0 .. N - 1 : w[n + 1].c = ch[w[n].c].next
  BY WalkEqn
<1>2. /\ \A n \in 0 .. N : w[n].c \in Ptr
      /\ \A i, j \in 0 .. N : i <= j /\ w[i].c = NoChunk => w[j].c = NoChunk
  BY <1>0, WalkType
<1>3. \A i, j \in 0 .. N : i <= j /\ w[i].c = w[j].c =>
          \A m \in 0 .. N - j : w[i + m].c = w[j + m].c
  BY WalkShift
<1> HIDE DEF w
<1>4. c \in L
  BY <1>0, <1>1, NType
<1>5. L \subseteq Chunks
  BY <1>2 DEF Ptr
<1>6. ASSUME NEW d \in L, ch[d].next # NoChunk
      PROVE  ch[d].next \in L
  <2> DEFINE T == {n \in 0 .. N : w[n].c = d}
  <2>1. T \subseteq Nat /\ T # {}
    OBVIOUS
  <2>2. PICK n \in T : \A m \in T : n <= m
    <3> HIDE DEF T
    <3> QED
      BY <2>1, Least
  <2>3. CASE n < N
    <3>1. n \in 0 .. N - 1 /\ n + 1 \in 0 .. N
      BY <2>2, <2>3, NType
    <3> QED
      BY <1>1, <1>6, <2>2, <3>1
  <2>4. CASE n = N
    <3>1. ASSUME NEW i \in 0 .. N, NEW j \in 0 .. N, i < j, w[i].c = w[j].c
          PROVE  FALSE
      <4>1. N - j \in 0 .. N - j /\ i <= j
        BY <3>1, NType
      <4>2. w[i + (N - j)].c = w[j + (N - j)].c
        BY <1>3, <3>1, <4>1
      <4>3. j + (N - j) = N /\ i + (N - j) \in 0 .. N - 1
        BY <3>1, NType
      <4>4. i + (N - j) \in T
        BY <2>2, <2>4, <4>2, <4>3
      <4> QED
        BY <2>2, <2>4, <4>3, <4>4, NType
    <3>2. \A i \in 0 .. N : w[i].c \in Chunks
      <4>1. w[N].c = d /\ d # NoChunk
        BY <2>2, <2>4
      <4> QED
        BY <1>2, <4>1, NType DEF Ptr
    <3> DEFINE f == [i \in 0 .. N |-> w[i].c]
    <3>3. f \in Injection(0 .. N, Chunks)
      <4>1. f \in [0 .. N -> Chunks]
        BY <3>2
      <4>2. \A i, j \in 0 .. N : f[i] = f[j] => i = j
        <5>1. \A i, j \in 0 .. N : i < j \/ j < i \/ i = j
          BY NType
        <5> QED
          BY <3>1, <5>1
      <4> HIDE DEF f
      <4> QED
        BY <4>1, <4>2 DEF Injection, IsInjective
    <3>4. IsFiniteSet(0 .. N) /\ Cardinality(0 .. N) = N + 1
      BY NType, FS_Interval
    <3>5. Cardinality(0 .. N) <= Cardinality(Chunks)
      <4> HIDE DEF f
      <4> QED
        BY <3>3, NType, FS_Injection DEF ExistsInjection
    <3> QED
      BY <3>4, <3>5, NType DEF N
  <2> QED
    BY <2>2, <2>3, <2>4, NType
<1>7. ASSUME NEW S, c \in S, Closed(ch, S)
      PROVE  L \subseteq S
  <2> DEFINE G == {n \in 0 .. N : w[n].c \in S \union {NoChunk}}
  <2>1. 0 \in G
    BY <1>1, <1>7, NType
  <2>2. ASSUME NEW n \in 0 .. N - 1, n \in G
        PROVE  n + 1 \in G
    <3>1. n + 1 \in 0 .. N /\ w[n + 1].c = ch[w[n].c].next
      BY <1>1, NType
    <3> QED
      BY <1>7, <2>2, <3>1 DEF Closed, Linked
  <2>3. \A n \in 0 .. N - 1 : n \in G => n + 1 \in G
    BY <2>2
  <2> HIDE DEF G
  <2>4. \A n \in 0 .. N : n \in G
    BY <2>1, <2>3, NType, Induct
  <2> QED
    BY <2>4 DEF G
<1>8. Closed(ch, L)
  BY <1>6 DEF Closed
<1> HIDE DEF L
<1> QED
  BY <1>0, <1>4, <1>5, <1>7, <1>8

\* The list from a chunk is that chunk and the list from its next.
LEMMA ListStep ==
  ASSUME NEW ch, Linked(ch), NEW c \in Chunks
  PROVE  /\ ch[c].next = NoChunk => List(ch, c) = {c}
         /\ ch[c].next # NoChunk =>
               /\ ch[c].next \in Chunks
               /\ List(ch, c) = {c} \union List(ch, ch[c].next)
<1>0. NoChunk \notin Chunks /\ ch[c].next \in Chunks \union {NoChunk}
  BY ConstantsOK DEF ConstantsOK, Linked, Ptr
<1>1. /\ c \in List(ch, c) /\ Closed(ch, List(ch, c))
      /\ \A S : c \in S /\ Closed(ch, S) => List(ch, c) \subseteq S
  BY ListLeast
<1>2. ASSUME ch[c].next = NoChunk
      PROVE  List(ch, c) = {c}
  <2>1. Closed(ch, {c})
    BY <1>2 DEF Closed
  <2> QED
    BY <1>1, <2>1
<1>3. ASSUME ch[c].next # NoChunk
      PROVE  List(ch, c) = {c} \union List(ch, ch[c].next)
  <2> DEFINE d == ch[c].next
  <2>1. d \in Chunks
    BY <1>0, <1>3
  <2> HIDE DEF d
  <2>2. /\ d \in List(ch, d) /\ Closed(ch, List(ch, d))
        /\ \A S : d \in S /\ Closed(ch, S) => List(ch, d) \subseteq S
    BY <2>1, ListLeast
  <2>3. d \in List(ch, c)
    BY <1>1, <1>3 DEF Closed, d
  <2>4. List(ch, d) \subseteq List(ch, c)
    BY <1>1, <2>2, <2>3
  <2>5. Closed(ch, {c} \union List(ch, d))
    BY <2>2 DEF Closed, d
  <2>6. List(ch, c) \subseteq {c} \union List(ch, d)
    BY <1>1, <2>5
  <2> QED
    BY <1>1, <2>4, <2>6 DEF d
<1> QED
  BY <1>0, <1>2, <1>3

\* The lists from the chunks of a list are parts of it.
LEMMA ListPart ==
  ASSUME NEW ch, Linked(ch), NEW c \in Chunks, NEW d \in List(ch, c)
  PROVE  d \in Chunks /\ List(ch, d) \subseteq List(ch, c)
<1>1. List(ch, c) \subseteq Chunks /\ Closed(ch, List(ch, c))
  BY ListLeast
<1>2. \A S : d \in S /\ Closed(ch, S) => List(ch, d) \subseteq S
  BY <1>1, ListLeast
<1> QED
  BY <1>1, <1>2

\* A list that ends has the same end from wherever it is followed, and no
\* other chunk of it is without a next.
LEMMA ListEnd ==
  ASSUME NEW ch, Linked(ch), NEW c \in Chunks,
         NEW e \in List(ch, c), ch[e].next = NoChunk
  PROVE  \A d \in List(ch, c) : e \in List(ch, d) /\ (ch[d].next = NoChunk => d = e)
<1> DEFINE S == {d \in List(ch, c) : e \in List(ch, d)}
<1>1. /\ c \in List(ch, c) /\ Closed(ch, List(ch, c)) /\ List(ch, c) \subseteq Chunks
      /\ \A T : c \in T /\ Closed(ch, T) => List(ch, c) \subseteq T
  BY ListLeast
<1>2. c \in S
  BY <1>1
<1>3. Closed(ch, S)
  <2>1. SUFFICES ASSUME NEW d \in S, ch[d].next # NoChunk
                 PROVE  ch[d].next \in S
    BY DEF Closed
  <2>2. d \in Chunks /\ ch[d].next \in List(ch, c) /\ d # e
    BY <1>1, <2>1 DEF Closed
  <2>3. List(ch, d) = {d} \union List(ch, ch[d].next)
    BY <2>1, <2>2, ListStep
  <2> QED
    BY <2>2, <2>3
<1>4. List(ch, c) \subseteq S
  <2> HIDE DEF S
  <2> QED
    BY <1>1, <1>2, <1>3
<1>5. ASSUME NEW d \in List(ch, c), ch[d].next = NoChunk
      PROVE  d = e
  BY <1>1, <1>4, <1>5, ListStep
<1> QED
  BY <1>4, <1>5

\* Chunks off the list may change as they like.
LEMMA ListAgree ==
  ASSUME NEW ch, Linked(ch), NEW ch2, Linked(ch2), NEW c \in Chunks,
         \A d \in List(ch, c) : ch2[d].next = ch[d].next
  PROVE  List(ch2, c) = List(ch, c)
<1>1. /\ c \in List(ch, c) /\ Closed(ch, List(ch, c))
      /\ \A S : c \in S /\ Closed(ch, S) => List(ch, c) \subseteq S
  BY ListLeast
<1>2. /\ c \in List(ch2, c) /\ Closed(ch2, List(ch2, c))
      /\ \A S : c \in S /\ Closed(ch2, S) => List(ch2, c) \subseteq S
  BY ListLeast
<1>3. Closed(ch2, List(ch, c))
  BY <1>1 DEF Closed
<1>4. List(ch2, c) \subseteq List(ch, c)
  BY <1>1, <1>2, <1>3
<1>5. Closed(ch, List(ch2, c))
  BY <1>2, <1>4 DEF Closed
<1> QED
  BY <1>1, <1>2, <1>4, <1>5

\* What a search of the list finds is on it.
LEMMA FirstFromList ==
  ASSUME NEW ch, Linked(ch), NEW c \in Ptr, NEW those
  PROVE  /\ FirstFrom(ch, c, those) \in List(ch, c) \union {NoChunk}
         /\ c = NoChunk => FirstFrom(ch, c, those) = NoChunk
<1> DEFINE w == Walk(ch, c, 0)
           S == {n \in DOMAIN w : w[n].c \in those \union {NoChunk}}
           f == CHOOSE n \in S : \A m \in S : n <= m
<1>1. DOMAIN w = 0 .. N /\ w[0].c = c
  BY WalkEqn
<1>2. \A i, j \in 0 .. N : i <= j /\ w[i].c = NoChunk => w[j].c = NoChunk
  BY WalkType
<1>3. List(ch, c) = {w[n].c : n \in 0 .. N} \ {NoChunk}
  BY DEF List, N
<1>4. FirstFrom(ch, c, those) = IF S = {} THEN NoChunk ELSE w[f].c
  BY DEF FirstFrom
<1> HIDE DEF w
<1>5. S # {} => f \in 0 .. N
  <2>1. S \subseteq Nat
    BY <1>1
  <2> HIDE DEF S
  <2>2. S # {} => f \in S
    BY <2>1, Least
  <2> QED
    BY <1>1, <2>2 DEF S
<1> HIDE DEF S, f
<1>6. c = NoChunk => \A n \in 0 .. N : w[n].c = NoChunk
  <2>1. 0 \in 0 .. N /\ \A n \in 0 .. N : 0 <= n
    BY NType
  <2> QED
    BY <1>1, <1>2, <2>1
<1> QED
  BY <1>3, <1>4, <1>5, <1>6

\* The search for a chunk without a next does not fail on a list that ends.
LEMMA FirstFromEnd ==
  ASSUME NEW ch, Linked(ch), NEW c \in Chunks,
         NEW e \in List(ch, c), ch[e].next = NoChunk
  PROVE  FirstFrom(ch, c, {d \in Chunks : ch[d].next = NoChunk}) \in List(ch, c)
<1> DEFINE those == {d \in Chunks : ch[d].next = NoChunk}
           w == Walk(ch, c, 0)
           S == {n \in DOMAIN w : w[n].c \in those \union {NoChunk}}
           f == CHOOSE n \in S : \A m \in S : n <= m
<1>0. NoChunk \notin Chunks /\ c \in Ptr /\ e \in Chunks
  BY ConstantsOK, ListLeast DEF ConstantsOK, Ptr
<1>1. /\ DOMAIN w = 0 .. N /\ w[0].c = c
      /\ \A n \in 0 .. N - 1 : w[n + 1].c = ch[w[n].c].next
  BY WalkEqn
<1>2. \A n \in 0 .. N : w[n].c \in Ptr
  BY <1>0, WalkType
<1>3. List(ch, c) = {w[n].c : n \in 0 .. N} \ {NoChunk}
  BY DEF List, N
<1>4. FirstFrom(ch, c, those) = IF S = {} THEN NoChunk ELSE w[f].c
  BY DEF FirstFrom
<1> HIDE DEF w
<1>5. S # {} /\ S \subseteq 0 .. N
  BY <1>0, <1>1, <1>3
<1>6. f \in S /\ \A m \in S : f <= m
  <2>1. S \subseteq Nat
    BY <1>5
  <2> HIDE DEF S
  <2>2. \E x \in S : \A y \in S : x <= y
    BY <1>5, <2>1, Least
  <2> QED
    BY <2>2
<1> HIDE DEF f
<1>7. ASSUME w[f].c = NoChunk
      PROVE  FALSE
  <2>1. f # 0
    BY <1>0, <1>1, <1>7
  <2>2. f - 1 \in 0 .. N - 1 /\ f - 1 \in 0 .. N /\ (f - 1) + 1 = f /\ f - 1 < f
    BY <1>5, <1>6, <2>1, NType
  <2>3. f - 1 \notin S
    BY <1>5, <1>6, <2>2
  <2>4. w[f - 1].c \notin those \union {NoChunk}
    BY <1>1, <2>2, <2>3
  <2>5. ch[w[f - 1].c].next = NoChunk
    BY <1>1, <1>7, <2>2
  <2> QED
    BY <1>2, <2>2, <2>4, <2>5 DEF Ptr
<1> HIDE DEF S, those
<1>8. FirstFrom(ch, c, those) \in List(ch, c)
  BY <1>3, <1>4, <1>5, <1>6, <1>7
<1> QED
  BY <1>8 DEF those

-----------------------------------------------------------------------------
(* The inductive invariant of the chunk list.                              *)

\* Every chunk has its three fields.
Fields == \A c \in Ptr : chunk[c] = [start |-> chunk[c].start, next |-> chunk[c].next,
                                     data |-> chunk[c].data]

\* The list starts at start_chunk and ends with end_chunk.
EndsOK ==
    /\ start_chunk \in Chunks
    /\ end_chunk \in List(chunk, start_chunk)
    /\ chunk[end_chunk].next = NoChunk

ListInv == Fields /\ Linked(chunk) /\ EndsOK /\ ChunksConserved

\* A new fifo has the list of its first chunk.
LEMMA ListInit == Init => ListInv
<1> SUFFICES ASSUME Init
             PROVE  ListInv
  OBVIOUS
<1>1. FirstChunk \in Chunks /\ NoChunk \in Ptr
  BY ConstantsOK DEF ConstantsOK, Ptr
<1>2. /\ \A c \in Ptr : chunk[c] = [start |-> 0, next |-> NoChunk,
                               data |-> [i \in 0 .. ChunkLen[c] - 1 |-> Junk]]
      /\ start_chunk = FirstChunk /\ end_chunk = FirstChunk /\ free = Chunks \ {FirstChunk}
  BY DEF Init
<1>3. ASSUME NEW c \in Ptr
      PROVE  /\ chunk[c].next = NoChunk
             /\ chunk[c] = [start |-> chunk[c].start, next |-> chunk[c].next,
                            data |-> chunk[c].data]
  <2>1. PICK x : chunk[c] = [start |-> 0, next |-> NoChunk, data |-> x]
    BY <1>2, Zenon
  <2> QED
    BY <2>1
<1>4. Fields
  BY <1>3 DEF Fields
<1>5. Linked(chunk)
  BY <1>1, <1>3 DEF Linked
<1>6. List(chunk, FirstChunk) = {FirstChunk}
  BY <1>1, <1>3, <1>5, ListStep DEF Ptr
<1> QED
  BY <1>1, <1>2, <1>3, <1>4, <1>5, <1>6 DEF ListInv, EndsOK, ChunksConserved, Ptr

\* Writing bytes changes no link.
LEMMA CopyToNext ==
  ASSUME Fields, NEW c, NEW pos, NEW len
  PROVE  \A d \in Ptr :
            LET new == CopyTo(chunk, c, pos, len)[d]
            IN  /\ new.start = chunk[d].start /\ new.next = chunk[d].next
                /\ new = [start |-> new.start, next |-> new.next, data |-> new.data]
<1> DEFINE w == Walk(chunk, c, pos)
           At(d) == {n \in DOMAIN w : w[n].c = d}
           off(d) == w[CHOOSE n \in At(d) : TRUE].off
           data(d) == [i \in DOMAIN chunk[d].data |->
                         IF off(d) + i \in 0 .. len - 1 THEN Add(pos, off(d) + i)
                         ELSE chunk[d].data[i]]
           new == CopyTo(chunk, c, pos, len)
<1>1. ASSUME NEW d \in Ptr
      PROVE  new[d] = IF d = NoChunk \/ At(d) = {} THEN chunk[d]
                      ELSE [chunk[d] EXCEPT !.data = data(d)]
  BY DEF CopyTo
<1> HIDE DEF new, w, At, off, data
<1>2. ASSUME NEW d \in Ptr
      PROVE  /\ new[d].start = chunk[d].start /\ new[d].next = chunk[d].next
             /\ new[d] = [start |-> new[d].start, next |-> new[d].next, data |-> new[d].data]
  <2>1. PICK x, y, z : chunk[d] = [start |-> x, next |-> y, data |-> z]
    BY DEF Fields
  <2>2. new[d] = chunk[d] \/ new[d] = [start |-> x, next |-> y, data |-> data(d)]
    BY <1>1, <2>1
  <2> QED
    BY <2>1, <2>2
<1> QED
  BY <1>2 DEF new

\* A step that leaves the links and the ends of the list keeps the invariant.
LEMMA ListKept ==
  ASSUME ListInv, UNCHANGED << free, start_chunk, end_chunk >>,
         \A d \in Ptr :
            /\ chunk'[d].next = chunk[d].next
            /\ chunk'[d] = [start |-> chunk'[d].start, next |-> chunk'[d].next,
                            data |-> chunk'[d].data]
  PROVE  ListInv'
<1>1. Fields' /\ Linked(chunk')
  BY DEF ListInv, Linked, Fields, Ptr
<1>2. start_chunk \in Chunks /\ List(chunk, start_chunk) \subseteq Chunks
  BY ListLeast DEF ListInv, EndsOK
<1>3. List(chunk', start_chunk) = List(chunk, start_chunk)
  BY <1>1, <1>2, ListAgree DEF ListInv, Ptr
<1> QED
  BY <1>1, <1>2, <1>3 DEF ListInv, EndsOK, ChunksConserved, Ptr

\* f_try_chunk_alloc puts chunks that were free at the end of the list.
LEMMA ListAlloc ==
  ASSUME ListInv, NEW n, NEW s \in Lists(n), f_try_chunk_alloc(s),
         UNCHANGED start_chunk
  PROVE  ListInv'
<1> DEFINE L == List(chunk, start_chunk)
           R == {s[i] : i \in DOMAIN s}
           e == end_chunk
<1>1. PICK k \in Nat \ {0} : s \in [1 .. k -> free]
  <2>1. IsFiniteSet(free)
    BY NType, FS_Subset DEF ListInv, ChunksConserved
  <2>2. Cardinality(free) \in Nat
    BY <2>1, FS_CardinalityType
  <2>3. PICK k \in 1 .. Cardinality(free) : s \in [1 .. k -> free]
    BY DEF Lists
  <2> QED
    BY <2>2, <2>3
<1>2. \A i, j \in 1 .. k : s[i] = s[j] => i = j
  BY <1>1 DEF Lists
<1>3. Len(s) = k /\ DOMAIN s = 1 .. k /\ s \in Seq(free)
  BY <1>1
<1>4. /\ start_chunk \in Chunks /\ NoChunk \notin Chunks
      /\ start_chunk \in L /\ Closed(chunk, L) /\ L \subseteq Chunks
      /\ \A S : start_chunk \in S /\ Closed(chunk, S) => L \subseteq S
      /\ e \in L /\ chunk[e].next = NoChunk /\ free = Chunks \ L
      /\ Linked(chunk) /\ Fields
  BY ListLeast, ConstantsOK DEF ListInv, EndsOK, ChunksConserved, ConstantsOK
<1>5. R \subseteq free /\ R \subseteq Chunks /\ e \notin R
  BY <1>1, <1>3, <1>4
<1> HIDE DEF L
<1>6. /\ \A d \in Ptr : chunk'[d] = [start |-> chunk'[d].start, next |-> chunk'[d].next,
                                     data |-> chunk'[d].data]
      /\ \A d \in Ptr \ (R \union {e}) : chunk'[d].next = chunk[d].next
      /\ chunk'[e].next = s[1]
      /\ \A i \in 1 .. k : chunk'[s[i]].next = IF i = k THEN NoChunk ELSE s[i + 1]
      /\ free' = free \ R /\ end_chunk' = s[k]
  <2> DEFINE index(c) == CHOOSE i \in DOMAIN s : s[i] = c
             x(c) == Add(f_chunk_end(end_chunk), BytesTo(s)[index(c) - 1])
             y(c) == IF c = Last(s) THEN NoChunk ELSE s[index(c) + 1]
  <2>1. /\ \A c \in Ptr : chunk'[c] =
               IF c \in Range(s) THEN [start |-> x(c), next |-> y(c), data |-> chunk[c].data]
               ELSE IF c = end_chunk THEN [chunk[c] EXCEPT !.next = s[1]]
               ELSE chunk[c]
        /\ free' = free \ Range(s) /\ end_chunk' = s[Len(s)]
    BY DEF f_try_chunk_alloc
  <2>2. Range(s) = R /\ Last(s) = s[k]
    BY <1>3 DEF Range, Last
  <2>3. \A i \in 1 .. k : index(s[i]) = i
    BY <1>2, <1>3
  <2> HIDE DEF x, index, R
  <2>4. ASSUME NEW c \in Ptr
        PROVE  /\ chunk'[c] = [start |-> chunk'[c].start, next |-> chunk'[c].next,
                               data |-> chunk'[c].data]
               /\ chunk'[c].next = IF c \in R THEN y(c)
                                   ELSE IF c = end_chunk THEN s[1] ELSE chunk[c].next
    <3>1. PICK a, b, d : chunk[c] = [start |-> a, next |-> b, data |-> d]
      BY <1>4 DEF Fields
    <3> HIDE DEF y
    <3>2. chunk'[c] = IF c \in R THEN [start |-> x(c), next |-> y(c), data |-> d]
                      ELSE IF c = end_chunk THEN [start |-> a, next |-> s[1], data |-> d]
                      ELSE [start |-> a, next |-> b, data |-> d]
      <4>1. chunk[c].data = d
        BY <3>1
      <4>2. [chunk[c] EXCEPT !.next = s[1]] = [start |-> a, next |-> s[1], data |-> d]
        BY <3>1
      <4>3. chunk'[c] = IF c \in R THEN [start |-> x(c), next |-> y(c), data |-> chunk[c].data]
                        ELSE IF c = end_chunk THEN [chunk[c] EXCEPT !.next = s[1]]
                        ELSE chunk[c]
        BY <2>1, <2>2, Zenon
      <4> QED
        BY <3>1, <4>1, <4>2, <4>3
    <3> QED
      BY <3>1, <3>2
  <2>5. ASSUME NEW i \in 1 .. k
        PROVE  chunk'[s[i]].next = IF i = k THEN NoChunk ELSE s[i + 1]
    <3>1. s[i] \in R /\ s[i] \in Ptr
      BY <1>3, <1>5 DEF R, Ptr
    <3>2. s[i] = s[k] <=> i = k
      BY <1>1, <1>2
    <3> QED
      BY <2>2, <2>3, <2>4, <3>1, <3>2
  <2>6. e \in Ptr /\ e = end_chunk
    BY <1>4 DEF Ptr
  <2> QED
    BY <1>3, <1>5, <2>1, <2>2, <2>4, <2>5, <2>6
<1>7. Fields'
  BY <1>6 DEF Fields
<1>8. ASSUME NEW d \in Ptr
      PROVE  chunk'[d].next \in Ptr /\ (d = NoChunk => chunk'[d].next = NoChunk)
  <2>1. CASE d \in R
    <3>1. PICK i \in 1 .. k : d = s[i]
      BY <1>3, <2>1
    <3>2. i # k => s[i + 1] \in Chunks
      BY <1>1, <1>4
    <3> QED
      BY <1>4, <1>5, <1>6, <2>1, <3>1, <3>2 DEF Ptr
  <2>2. CASE d = e
    <3>1. s[1] \in Chunks
      BY <1>1, <1>4
    <3> QED
      BY <1>4, <1>6, <2>2, <3>1 DEF Ptr
  <2>3. CASE d \in Ptr \ (R \union {e})
    <3> HIDE DEF R
    <3> QED
      BY <1>4, <1>6, <2>3 DEF Linked
  <2> QED
    BY <2>1, <2>2, <2>3
<1>9. Linked(chunk')
  BY <1>8 DEF Linked, Ptr
<1> DEFINE M == List(chunk', start_chunk)
<1>10. /\ start_chunk \in M /\ Closed(chunk', M) /\ M \subseteq Chunks
       /\ \A S : start_chunk \in S /\ Closed(chunk', S) => M \subseteq S
  BY <1>4, <1>9, ListLeast
<1> HIDE DEF M
<1>11. Closed(chunk', L \union R)
  <2>1. SUFFICES ASSUME NEW d \in L \union R, chunk'[d].next # NoChunk
                 PROVE  chunk'[d].next \in L \union R
    BY DEF Closed
  <2>2. CASE d \in R
    <3>1. PICK i \in 1 .. k : d = s[i]
      BY <1>3, <2>2
    <3>2. i # k /\ i + 1 \in 1 .. k /\ chunk'[d].next = s[i + 1]
      BY <1>6, <2>1, <3>1
    <3> QED
      BY <1>3, <3>2
  <2>3. CASE d = e
    BY <1>3, <1>6, <2>3
  <2>4. CASE d \notin R /\ d # e
    <3> HIDE DEF R
    <3>1. chunk'[d].next = chunk[d].next
      BY <1>4, <1>6, <2>1, <2>4 DEF Ptr
    <3> QED
      BY <1>4, <2>1, <2>4, <3>1 DEF Closed
  <2> QED
    BY <2>2, <2>3, <2>4
<1>12. L \subseteq M
  <2> DEFINE T == {d \in L : d \in M}
  <2>1. start_chunk \in T
    BY <1>4, <1>10
  <2>2. Closed(chunk, T)
    <3>1. SUFFICES ASSUME NEW d \in T, chunk[d].next # NoChunk
                   PROVE  chunk[d].next \in T
      BY DEF Closed
    <3>2. d # e /\ d \notin R /\ d \in Ptr
      BY <1>4, <1>5, <3>1 DEF Ptr
    <3> HIDE DEF R
    <3>3. chunk'[d].next = chunk[d].next
      BY <1>6, <3>2
    <3> QED
      BY <1>4, <1>10, <3>1, <3>3 DEF Closed
  <2> HIDE DEF T
  <2>3. L \subseteq T
    BY <1>4, <2>1, <2>2
  <2> QED
    BY <2>3 DEF T
<1>13. \A i \in 1 .. k : s[i] \in M
  <2> DEFINE G == {i \in 0 .. k - 1 : s[i + 1] \in M}
  <2>1. 0 \in G
    <3>1. s[1] # NoChunk
      BY <1>1, <1>4
    <3> QED
      BY <1>4, <1>6, <1>10, <1>12, <3>1 DEF Closed
  <2>2. ASSUME NEW i \in 0 .. (k - 1) - 1, i \in G
        PROVE  i + 1 \in G
    <3>1. i + 1 \in 1 .. k /\ i + 1 # k /\ (i + 1) + 1 \in 1 .. k /\ i + 1 \in 0 .. k - 1
      OBVIOUS
    <3>2. s[(i + 1) + 1] # NoChunk
      BY <1>1, <1>4, <3>1
    <3>3. chunk'[s[i + 1]].next = s[(i + 1) + 1]
      BY <1>6, <3>1
    <3> QED
      BY <1>10, <2>2, <3>1, <3>2, <3>3 DEF Closed
  <2>3. \A i \in 0 .. (k - 1) - 1 : i \in G => i + 1 \in G
    BY <2>2
  <2> HIDE DEF G
  <2>4. \A i \in 0 .. k - 1 : i \in G
    BY <2>1, <2>3, Induct
  <2>5. ASSUME NEW i \in 1 .. k
        PROVE  s[i] \in M
    <3>1. i - 1 \in 0 .. k - 1 /\ (i - 1) + 1 = i
      OBVIOUS
    <3> QED
      BY <2>4, <3>1 DEF G
  <2> QED
    BY <2>5
<1>14. M = L \union R
  <2>1. M \subseteq L \union R
    <3> HIDE DEF R
    <3> QED
      BY <1>4, <1>10, <1>11
  <2>2. R \subseteq M
    BY <1>3, <1>13
  <2> QED
    BY <1>12, <2>1, <2>2
<1>15. end_chunk' \in M /\ chunk'[end_chunk'].next = NoChunk
  BY <1>6, <1>13
<1>16. free' = Chunks \ M
  <2> HIDE DEF R
  <2> QED
    BY <1>4, <1>6, <1>14
<1> QED
  BY <1>4, <1>7, <1>9, <1>15, <1>16 DEF ListInv, EndsOK, ChunksConserved, M

\* f_unlink_chunks takes the chunks before some chunk of the list off it, and
\* fsh_collect_chunks gives exactly these back.
LEMMA ListUnlink ==
  ASSUME ListInv, NEW pos, NEW ooo \in BOOLEAN, Collect(Unlink(pos, ooo).gone),
         start_chunk' = Unlink(pos, ooo).start, UNCHANGED end_chunk
  PROVE  ListInv'
<1> DEFINE L == List(chunk, start_chunk)
           found == svm_fifo_find_next_chunk(chunk, chunk[start_chunk].next, pos)
           c == IF found = NoChunk
                THEN FirstFrom(chunk, start_chunk, {d \in Chunks : chunk[d].next = NoChunk})
                ELSE found
           gone == L \ List(chunk, c)
<1>1. /\ start_chunk \in Chunks /\ NoChunk \notin Chunks /\ start_chunk \in Ptr
      /\ start_chunk \in L /\ L \subseteq Chunks
      /\ end_chunk \in L /\ chunk[end_chunk].next = NoChunk /\ free = Chunks \ L
      /\ Linked(chunk) /\ Fields
  BY ListLeast, ConstantsOK DEF ListInv, EndsOK, ChunksConserved, ConstantsOK, Ptr
<1>2. c \in L
  <2>1. chunk[start_chunk].next \in Ptr
    BY <1>1 DEF Linked
  <2>2. /\ found \in List(chunk, chunk[start_chunk].next) \union {NoChunk}
        /\ chunk[start_chunk].next = NoChunk => found = NoChunk
    BY <1>1, <2>1, FirstFromList DEF svm_fifo_find_next_chunk
  <2>3. CASE found = NoChunk
    BY <1>1, <2>3, FirstFromEnd
  <2>4. CASE found # NoChunk
    <3>1. chunk[start_chunk].next # NoChunk
      BY <2>2, <2>4
    <3>2. L = {start_chunk} \union List(chunk, chunk[start_chunk].next)
      BY <1>1, <3>1, ListStep
    <3> QED
      BY <2>2, <2>4, <3>2
  <2> QED
    BY <2>3, <2>4
<1>3. start_chunk' = c /\ Collect(gone)
  BY DEF Unlink
<1> HIDE DEF found, c, L
<1>4. c \in Chunks /\ List(chunk, c) \subseteq L /\ end_chunk \in List(chunk, c)
  BY <1>1, <1>2, ListPart, ListEnd DEF L
<1>5. /\ \A d \in Ptr : chunk'[d] = [start |-> chunk'[d].start, next |-> chunk'[d].next,
                                     data |-> chunk'[d].data]
      /\ \A d \in Ptr : chunk'[d].next = IF d \in gone THEN NoChunk ELSE chunk[d].next
      /\ free' = free \union gone
  <2> HIDE DEF gone
  <2>1. free' = free \union gone
    BY <1>3 DEF Collect
  <2>2. ASSUME NEW d \in Ptr
        PROVE  /\ chunk'[d] = [start |-> chunk'[d].start, next |-> chunk'[d].next,
                               data |-> chunk'[d].data]
               /\ chunk'[d].next = IF d \in gone THEN NoChunk ELSE chunk[d].next
    <3>1. PICK a, b, z : chunk[d] = [start |-> a, next |-> b, data |-> z]
      BY <1>1 DEF Fields
    <3> DEFINE junk == [i \in DOMAIN chunk[d].data |-> Junk]
    <3>2. chunk'[d] = IF d \in gone
                      THEN [start |-> 0, next |-> NoChunk, data |-> junk]
                      ELSE chunk[d]
      BY <1>3 DEF Collect
    <3> HIDE DEF junk
    <3> QED
      BY <3>1, <3>2
  <2> QED
    BY <2>1, <2>2
<1>6. Fields' /\ Linked(chunk')
  BY <1>1, <1>5 DEF Fields, Linked, Ptr
<1>7. List(chunk', c) = List(chunk, c)
  <2>1. \A d \in List(chunk, c) : chunk'[d].next = chunk[d].next
    BY <1>1, <1>4, <1>5 DEF Ptr
  <2> QED
    BY <1>1, <1>4, <1>6, <2>1, ListAgree
<1>8. chunk'[end_chunk].next = NoChunk
  BY <1>1, <1>4, <1>5 DEF Ptr
<1>9. free' = Chunks \ List(chunk, c)
  BY <1>1, <1>4, <1>5
<1> QED
  BY <1>3, <1>4, <1>6, <1>7, <1>8, <1>9 DEF ListInv, EndsOK, ChunksConserved

\* Every step keeps the chunk list.
LEMMA ListNext == ListInv /\ [Next]_vars => ListInv'
<1> SUFFICES ASSUME ListInv, [Next]_vars
             PROVE  ListInv'
  OBVIOUS
<1> USE DEF shared, prodVars, consVars, vars
<1>f. \A d \in Ptr : chunk[d] = [start |-> chunk[d].start, next |-> chunk[d].next,
                                 data |-> chunk[d].data]
  BY DEF ListInv, Fields
<1>k. UNCHANGED << chunk, free, start_chunk, end_chunk >> => ListInv'
  BY <1>f, ListKept
<1>c. ASSUME NEW c, NEW pos, NEW len, chunk' = CopyTo(chunk, c, pos, len),
             UNCHANGED << free, start_chunk, end_chunk >>
      PROVE  ListInv'
  <2>1. \A d \in Ptr :
          /\ chunk'[d].next = chunk[d].next
          /\ chunk'[d] = [start |-> chunk'[d].start, next |-> chunk'[d].next,
                          data |-> chunk'[d].data]
    BY <1>c, CopyToNext DEF ListInv
  <2> QED
    BY <1>c, <2>1, ListKept
<1>1. ASSUME NEW op \in {"enqueue", "segments", "partial"}, EnqueueStart(op)
      PROVE  ListInv'
  BY <1>1, <1>k DEF EnqueueStart
<1>2. CASE EnqueueWithOffsetStart
  BY <1>2, <1>k DEF EnqueueWithOffsetStart
<1>3. CASE ProvisionStart
  BY <1>3, <1>k DEF ProvisionStart
<1>4. CASE Alloc
  <2>1. PICK s \in Lists(prod.need) : f_try_chunk_alloc(s)
    BY <1>4 DEF Alloc
  <2>2. UNCHANGED start_chunk
    BY <1>4 DEF Alloc
  <2> QED
    BY <2>1, <2>2, ListAlloc
<1>5. CASE AllocFails
  BY <1>5, <1>k DEF AllocFails
<1>6. CASE CopyInOrder
  <2>1. chunk' = CopyTo(chunk, tail_chunk, tail, prod.len)
    BY <1>6 DEF CopyInOrder
  <2>2. UNCHANGED << free, start_chunk, end_chunk >>
    BY <1>6 DEF CopyInOrder
  <2> QED
    BY <2>1, <2>2, <1>c
<1>7. CASE CopyAtOffset
  <2>1. PICK c, pos, len : chunk' = CopyTo(chunk, c, pos, len)
    BY <1>7 DEF CopyAtOffset
  <2>2. UNCHANGED << free, start_chunk, end_chunk >>
    BY <1>7 DEF CopyAtOffset
  <2> QED
    BY <2>1, <2>2, <1>c
<1>8. CASE CopyInPlace
  <2>1. chunk' = CopyTo(chunk, tail_chunk, tail, prod.len)
    BY <1>8 DEF CopyInPlace
  <2>2. UNCHANGED << free, start_chunk, end_chunk >>
    BY <1>8 DEF CopyInPlace
  <2> QED
    BY <2>1, <2>2, <1>c
<1>9. CASE PublishTail
  BY <1>9, <1>k DEF PublishTail
<1>10. CASE DequeueStart \/ PeekStart \/ DropAllStart
  BY <1>10, <1>k DEF DequeueStart, PeekStart, DropAllStart, Stay
<1>11. CASE CopyOut \/ Peek \/ PublishHead
  BY <1>11, <1>k DEF CopyOut, Peek, PublishHead
<1>12. CASE UnlinkChunks
  <2> DEFINE pos == Add(head, cons.len)
  <2>1. UNCHANGED << end_chunk >>
    BY <1>12 DEF UnlinkChunks
  <2>2. \/ UNCHANGED << chunk, free, start_chunk >>
        \/ /\ Collect(Unlink(pos, cons.op = "drop").gone)
           /\ start_chunk' = Unlink(pos, cons.op = "drop").start
    BY <1>12 DEF UnlinkChunks
  <2>3. (cons.op = "drop") \in BOOLEAN
    OBVIOUS
  <2> HIDE DEF pos
  <2> QED
    BY <1>k, <2>1, <2>2, <2>3, ListUnlink
<1>13. CASE UNCHANGED vars
  BY <1>13, <1>k
<1> QED
  BY <1>1, <1>2, <1>3, <1>4, <1>5, <1>6, <1>7, <1>8, <1>9, <1>10, <1>11, <1>12, <1>13
     DEF Next, Producer, Consumer

\* No chunk is ever lost or in two places: f_try_chunk_alloc and
\* f_unlink_chunks, interleaved as they may be, keep the chunks of the slice
\* apart into the fifo's list and the free ones.
THEOREM ChunksKept == Spec => []ChunksConserved
<1>1. ListInv => ChunksConserved
  BY DEF ListInv
<1> QED
  BY <1>1, ListInit, ListNext, PTL DEF Spec

-----------------------------------------------------------------------------
(* Positions.                                                              *)

\* A remainder and its quotient.
LEMMA DivMod ==
  ASSUME NEW d \in Nat \ {0}, NEW a \in Int
  PROVE  a \div d \in Int /\ a % d \in 0 .. d - 1 /\ a = d * (a \div d) + (a % d)
  OBVIOUS

\* Different multiples of a number are at least that number apart.
LEMMA Multiples ==
  ASSUME NEW d \in Nat \ {0}, NEW p \in Int, NEW q \in Int, p < q
  PROVE  d * p + d <= d * q
<1>1. PICK k \in Nat \ {0} : q = p + k
  <2>1. q - p \in Nat \ {0} /\ q = p + (q - p)
    OBVIOUS
  <2> QED
    BY <2>1
<1>2. d * q = d * p + d * k
  BY <1>1
<1>3. d * k >= d
  OBVIOUS
<1> QED
  BY <1>2, <1>3

\* A number has one quotient and one remainder.
LEMMA DivModUnique ==
  ASSUME NEW d \in Nat \ {0}, NEW a \in Int, NEW q \in Int, NEW r \in 0 .. d - 1,
         a = d * q + r
  PROVE  a % d = r
<1>1. PICK p \in Int, s \in 0 .. d - 1 : s = a % d /\ a = d * p + s
  BY DivMod
<1>2. d * p + s = d * q + r
  BY <1>1
<1>3. ~(p < q)
  <2>1. p < q => d * p + d <= d * q
    BY Multiples
  <2> QED
    BY <1>2, <2>1
<1>4. ~(q < p)
  <2>1. q < p => d * q + d <= d * p
    BY Multiples
  <2> QED
    BY <1>2, <2>1
<1>5. p = q
  BY <1>3, <1>4
<1> QED
  BY <1>1, <1>2, <1>5

\* Remainders of numbers that are at most one turn away.
LEMMA ModNear ==
  ASSUME NEW d \in Nat \ {0}, NEW a \in Int
  PROVE  /\ a \in 0 .. d - 1 => a % d = a
         /\ a \in d .. 2 * d - 1 => a % d = a - d
         /\ a \in -d .. -1 => a % d = a + d
<1>1. ASSUME a \in 0 .. d - 1
      PROVE  a % d = a
  <2>1. a = d * 0 + a
    OBVIOUS
  <2> QED
    BY <1>1, <2>1, DivModUnique
<1>2. ASSUME a \in d .. 2 * d - 1
      PROVE  a % d = a - d
  <2>1. a = d * 1 + (a - d) /\ a - d \in 0 .. d - 1
    BY <1>2
  <2> QED
    BY <2>1, DivModUnique
<1>3. ASSUME a \in -d .. -1
      PROVE  a % d = a + d
  <2>1. a = d * (-1) + (a + d) /\ a + d \in 0 .. d - 1
    BY <1>3
  <2> QED
    BY <2>1, DivModUnique
<1> QED
  BY <1>1, <1>2, <1>3

\* What the assumptions on the constants say of the numbers.
LEMMA Numbers ==
  /\ W \in Nat \ {0} /\ Size \in Nat \ {0} /\ MinAlloc \in Nat \ {0} /\ MaxLen \in Nat \ {0}
  /\ 2 * (Size + MinAlloc + 2 * MaxLen - 2) < W
  /\ NoChunk \notin Chunks /\ ChunkLen[NoChunk] = 0
  /\ \A c \in Chunks : ChunkLen[c] \in Nat \ {0} /\ ChunkLen[c] <= MaxLen
<1>1. \A c \in Chunks : ChunkLen[c] \in 1 .. MaxLen
  BY ConstantsOK DEF ConstantsOK
<1>2. FirstChunk \in Chunks /\ MaxLen \in Nat
  BY ConstantsOK DEF ConstantsOK
<1>3. MaxLen \in Nat \ {0} /\ \A c \in Chunks : ChunkLen[c] \in Nat \ {0} /\ ChunkLen[c] <= MaxLen
  <2> HIDE DEF MaxLen
  <2> QED
    BY <1>1, <1>2
<1>4. /\ W \in Nat /\ Size \in Nat \ {0} /\ MinAlloc \in Nat \ {0}
      /\ 2 * (Size + MinAlloc + 2 * MaxLen - 2) < W
      /\ NoChunk \notin Chunks /\ ChunkLen[NoChunk] = 0
  BY ConstantsOK DEF ConstantsOK
<1> HIDE DEF MaxLen
<1> QED
  BY <1>3, <1>4

\* Add and Diff without the remainder.
LEMMA AddDiff ==
  /\ \A p, q \in Pos : Diff(p, q) = IF q <= p THEN p - q ELSE p - q + W
  /\ \A p \in Pos, n \in Pos : Add(p, n) = IF p + n < W THEN p + n ELSE p + n - W
<1>w. W \in Nat \ {0}
  BY Numbers
<1>1. ASSUME NEW p \in Pos, NEW q \in Pos
      PROVE  Diff(p, q) = IF q <= p THEN p - q ELSE p - q + W
  <2>1. PICK a \in Int : a = p - q
    BY <1>w DEF Pos
  <2>2. /\ a \in 0 .. W - 1 => a % W = a
        /\ a \in -W .. -1 => a % W = a + W
    BY <1>w, ModNear
  <2>3. (q <= p => a \in 0 .. W - 1) /\ (~(q <= p) => a \in -W .. -1)
    BY <1>w, <2>1 DEF Pos
  <2>4. Diff(p, q) = a % W
    BY <2>1 DEF Diff
  <2> QED
    BY <1>w, <2>1, <2>2, <2>3, <2>4 DEF Pos
<1>2. ASSUME NEW p \in Pos, NEW n \in Pos
      PROVE  Add(p, n) = IF p + n < W THEN p + n ELSE p + n - W
  <2>1. PICK a \in Int : a = p + n
    BY <1>w DEF Pos
  <2>2. /\ a \in 0 .. W - 1 => a % W = a
        /\ a \in W .. 2 * W - 1 => a % W = a - W
    BY <1>w, ModNear
  <2>3. (a < W => a \in 0 .. W - 1) /\ (~(a < W) => a \in W .. 2 * W - 1)
    BY <1>w, <2>1 DEF Pos
  <2>4. Add(p, n) = a % W
    BY <2>1 DEF Add
  <2> QED
    BY <1>w, <2>1, <2>2, <2>3, <2>4 DEF Pos
<1> QED
  BY <1>1, <1>2

\* Positions counted from some position b: the code's differences and sums are
\* those of the integers.
LEMMA Counted ==
  ASSUME NEW b \in Pos
  PROVE  /\ \A p \in Pos : Diff(p, b) \in Nat /\ Diff(p, b) < W
         /\ \A p, q \in Pos : Diff(p, q) = IF Diff(q, b) <= Diff(p, b)
                                           THEN Diff(p, b) - Diff(q, b)
                                           ELSE Diff(p, b) - Diff(q, b) + W
         /\ \A p \in Pos, n \in Nat : Diff(p, b) + n < W =>
               Add(p, n) \in Pos /\ Diff(Add(p, n), b) = Diff(p, b) + n
         /\ \A p, q \in Pos : Diff(p, b) = Diff(q, b) => p = q
         /\ Diff(b, b) = 0
         /\ \A p \in Pos : Add(b, Diff(p, b)) = p
<1>w. W \in Nat \ {0}
  BY Numbers
<1>1. \A p \in Pos : Diff(p, b) = IF b <= p THEN p - b ELSE p - b + W
  BY AddDiff
<1>2. \A p, q \in Pos : Diff(p, q) = IF q <= p THEN p - q ELSE p - q + W
  BY AddDiff
<1>3. \A p \in Pos, n \in Pos : Add(p, n) = IF p + n < W THEN p + n ELSE p + n - W
  BY AddDiff
<1>4. \A p \in Pos : Diff(p, b) \in Nat /\ Diff(p, b) < W
  BY <1>w, <1>1 DEF Pos
<1>5. ASSUME NEW p \in Pos, NEW q \in Pos
      PROVE  Diff(p, q) = IF Diff(q, b) <= Diff(p, b) THEN Diff(p, b) - Diff(q, b)
                          ELSE Diff(p, b) - Diff(q, b) + W
  <2>1. p \in Int /\ q \in Int /\ b \in Int /\ 0 <= p /\ p < W /\ 0 <= q /\ q < W
        /\ 0 <= b /\ b < W
    BY <1>w DEF Pos
  <2>2. /\ Diff(p, q) = IF q <= p THEN p - q ELSE p - q + W
        /\ Diff(p, b) = IF b <= p THEN p - b ELSE p - b + W
        /\ Diff(q, b) = IF b <= q THEN q - b ELSE q - b + W
    BY <1>1, <1>2
  <2> QED
    BY <1>w, <2>1, <2>2
<1>6. ASSUME NEW p \in Pos, NEW n \in Nat, Diff(p, b) + n < W
      PROVE  Add(p, n) \in Pos /\ Diff(Add(p, n), b) = Diff(p, b) + n
  <2>1. n \in Pos
    BY <1>w, <1>4, <1>6 DEF Pos
  <2>2. Add(p, n) = IF p + n < W THEN p + n ELSE p + n - W
    BY <1>3, <2>1
  <2>3. Add(p, n) \in Pos
    BY <1>w, <2>1, <2>2 DEF Pos
  <2>4. /\ Diff(Add(p, n), b) = IF b <= Add(p, n) THEN Add(p, n) - b ELSE Add(p, n) - b + W
        /\ Diff(p, b) = IF b <= p THEN p - b ELSE p - b + W
    BY <1>1, <2>3
  <2> QED
    BY <1>w, <1>6, <2>1, <2>2, <2>3, <2>4 DEF Pos
<1>7. \A p, q \in Pos : Diff(p, b) = Diff(q, b) => p = q
  BY <1>w, <1>1 DEF Pos
<1>8. Diff(b, b) = 0
  BY <1>w, <1>1 DEF Pos
<1>9. ASSUME NEW p \in Pos
      PROVE  Add(b, Diff(p, b)) = p
  <2>1. Diff(p, b) \in Pos
    BY <1>w, <1>4 DEF Pos
  <2> QED
    BY <1>w, <1>1, <1>3, <2>1 DEF Pos
<1> QED
  BY <1>4, <1>5, <1>6, <1>7, <1>8, <1>9

\* The signed comparisons, for positions less than half the space from b.
LEMMA Compared ==
  ASSUME NEW b \in Pos, NEW p \in Pos, NEW q \in Pos,
         2 * Diff(p, b) < W, 2 * Diff(q, b) < W
  PROVE  /\ f_pos_lt(p, q) <=> Diff(p, b) < Diff(q, b)
         /\ f_pos_leq(p, q) <=> Diff(p, b) <= Diff(q, b)
<1>w. W \in Nat \ {0}
  BY Numbers
<1>1. /\ Diff(p, b) \in Nat /\ Diff(q, b) \in Nat
      /\ Diff(p, q) = IF Diff(q, b) <= Diff(p, b) THEN Diff(p, b) - Diff(q, b)
                      ELSE Diff(p, b) - Diff(q, b) + W
      /\ Diff(p, b) = Diff(q, b) => p = q
  BY Counted
<1>2. f_pos_lt(p, q) <=> Diff(p, b) < Diff(q, b)
  BY <1>w, <1>1 DEF f_pos_lt
<1> QED
  BY <1>1, <1>2 DEF f_pos_leq

-----------------------------------------------------------------------------
(* Out-of-order segments, counted from the tail t.                         *)

\* Where segment i starts and ends.
From(segs, t, i) == Diff(segs[i].start, t)
To(segs, t, i) == From(segs, t, i) + segs[i].length

Segment == [start : Pos, length : Nat \ {0}]

\* The segments are sorted, do not touch each other or the tail, and end
\* within lim bytes.
SegsOK(segs, t, lim) ==
    /\ segs \in Seq(Segment)
    /\ \A i \in 1 .. Len(segs) : From(segs, t, i) > 0 /\ To(segs, t, i) <= lim
    /\ \A i, j \in 1 .. Len(segs) : i < j => To(segs, t, i) < From(segs, t, j)

\* Byte x past the tail is in a segment.
Covered(segs, t, x) ==
    \E i \in 1 .. Len(segs) : From(segs, t, i) <= x /\ x < To(segs, t, i)

\* r is segs with x in place of the segments between a and b.
IsSplice(r, segs, a, x, b) ==
    /\ r \in Seq(Segment)
    /\ Len(r) = a + 1 + Len(segs) + 1 - b
    /\ \A i \in 1 .. a : r[i] = segs[i]
    /\ r[a + 1] = x
    /\ \A i \in a + 2 .. Len(r) : r[i] = segs[i + b - a - 2]

\* The parts of a segment are numbers.
LEMMA SegType ==
  ASSUME NEW t \in Pos, NEW segs \in Seq(Segment)
  PROVE  \A i \in 1 .. Len(segs) :
            /\ segs[i] \in Segment /\ segs[i].start \in Pos /\ segs[i].length \in Nat \ {0}
            /\ From(segs, t, i) \in Nat /\ From(segs, t, i) < W /\ To(segs, t, i) \in Nat
            /\ From(segs, t, i) < To(segs, t, i)
<1> SUFFICES ASSUME NEW i \in 1 .. Len(segs)
             PROVE  /\ segs[i] \in Segment /\ segs[i].start \in Pos
                    /\ segs[i].length \in Nat \ {0}
                    /\ From(segs, t, i) \in Nat /\ From(segs, t, i) < W
                    /\ To(segs, t, i) \in Nat /\ From(segs, t, i) < To(segs, t, i)
  OBVIOUS
<1>1. segs[i] \in Segment
  OBVIOUS
<1>2. segs[i].start \in Pos /\ segs[i].length \in Nat \ {0}
  BY <1>1 DEF Segment
<1>3. From(segs, t, i) \in Nat /\ From(segs, t, i) < W
  BY <1>2, Counted DEF From
<1> QED
  BY <1>1, <1>2, <1>3 DEF To

\* A segment that fits between two others can take the place of those between
\* them.
LEMMA SpliceOK ==
  ASSUME NEW t \in Pos, NEW lim \in Nat, NEW segs, SegsOK(segs, t, lim),
         NEW a \in 0 .. Len(segs), NEW b \in a + 1 .. Len(segs) + 1,
         NEW x \in Segment, NEW r, IsSplice(r, segs, a, x, b),
         Diff(x.start, t) > 0, Diff(x.start, t) + x.length <= lim,
         a > 0 => To(segs, t, a) < Diff(x.start, t),
         b <= Len(segs) => Diff(x.start, t) + x.length < From(segs, t, b)
  PROVE  /\ SegsOK(r, t, lim)
         /\ \A y \in Nat : Covered(r, t, y) <=>
               \/ \E i \in 1 .. a : From(segs, t, i) <= y /\ y < To(segs, t, i)
               \/ Diff(x.start, t) <= y /\ y < Diff(x.start, t) + x.length
               \/ \E i \in b .. Len(segs) : From(segs, t, i) <= y /\ y < To(segs, t, i)
         /\ a + 1 \in 1 .. Len(r) /\ r[a + 1] = x
<1> DEFINE n == Len(segs)
           F(i) == From(segs, t, i)
           T(i) == To(segs, t, i)
           fx == Diff(x.start, t)
           tx == Diff(x.start, t) + x.length
<1>1. segs \in Seq(Segment) /\ n \in Nat
  BY DEF SegsOK
<1>2. \A i \in 1 .. n : F(i) \in Nat /\ T(i) \in Nat /\ F(i) < T(i) /\ F(i) > 0 /\ T(i) <= lim
  BY <1>1, SegType DEF SegsOK
<1>3. \A i, j \in 1 .. n : i < j => T(i) < F(j)
  BY DEF SegsOK
<1>4. fx \in Nat /\ tx \in Nat /\ fx < tx /\ fx > 0 /\ tx <= lim
  <2>1. x.start \in Pos /\ x.length \in Nat \ {0}
    BY DEF Segment
  <2>2. fx \in Nat
    BY <2>1, Counted
  <2> QED
    BY <2>1, <2>2
<1>5. \A i \in 1 .. a : T(i) < fx
  <2>1. SUFFICES ASSUME NEW i \in 1 .. a
                 PROVE  T(i) < fx
    OBVIOUS
  <2>2. a \in 1 .. n /\ i \in 1 .. n
    BY <1>1
  <2>3. T(a) < fx
    BY <2>2
  <2>4. i < a => T(i) < F(a)
    BY <1>3, <2>2
  <2> HIDE DEF T, F, fx
  <2> QED
    BY <1>2, <1>4, <2>2, <2>3, <2>4
<1>6. \A i \in b .. n : tx < F(i)
  <2>1. SUFFICES ASSUME NEW i \in b .. n
                 PROVE  tx < F(i)
    OBVIOUS
  <2>2. b \in 1 .. n /\ i \in 1 .. n
    BY <1>1
  <2>3. tx < F(b)
    BY <2>2
  <2>4. b < i => T(b) < F(i)
    BY <1>3, <2>2
  <2> HIDE DEF T, F, tx
  <2> QED
    BY <1>2, <1>4, <2>2, <2>3, <2>4
<1>7. /\ r \in Seq(Segment) /\ Len(r) = a + 1 + n + 1 - b /\ Len(r) \in Nat
      /\ \A i \in 1 .. a : From(r, t, i) = F(i) /\ To(r, t, i) = T(i)
      /\ From(r, t, a + 1) = fx /\ To(r, t, a + 1) = tx /\ r[a + 1] = x
      /\ \A i \in a + 2 .. Len(r) : /\ From(r, t, i) = F(i + b - a - 2)
                                    /\ To(r, t, i) = T(i + b - a - 2)
  BY DEF IsSplice, From, To
<1> DEFINE G(i) == From(r, t, i)
           U(i) == To(r, t, i)
<1>8. ASSUME NEW i \in 1 .. Len(r)
      PROVE  \/ i \in 1 .. a /\ i \in 1 .. n /\ G(i) = F(i) /\ U(i) = T(i)
             \/ i = a + 1 /\ G(i) = fx /\ U(i) = tx
             \/ /\ i \in a + 2 .. Len(r) /\ i + b - a - 2 \in b .. n
                /\ i + b - a - 2 \in 1 .. n
                /\ G(i) = F(i + b - a - 2) /\ U(i) = T(i + b - a - 2)
  <2>1. i \in 1 .. a \/ i = a + 1 \/ i \in a + 2 .. Len(r)
    BY <1>1, <1>7
  <2>2. i \in 1 .. a => i \in 1 .. n
    BY <1>1
  <2>3. i \in a + 2 .. Len(r) => i + b - a - 2 \in b .. n /\ i + b - a - 2 \in 1 .. n
    BY <1>1, <1>7
  <2> HIDE DEF F, T, fx, tx, G, U
  <2> QED
    BY <1>7, <2>1, <2>2, <2>3 DEF G, U
<1> HIDE DEF F, T, fx, tx, G, U
<1>9. \A i \in 1 .. Len(r) : G(i) > 0 /\ U(i) <= lim
  BY <1>2, <1>4, <1>8
<1>10. ASSUME NEW i \in 1 .. Len(r), NEW j \in 1 .. Len(r), i < j
       PROVE  U(i) < G(j)
  <2>1. CASE i \in 1 .. a /\ i \in 1 .. n /\ G(i) = F(i) /\ U(i) = T(i)
    <3>1. CASE j \in 1 .. a /\ j \in 1 .. n /\ G(j) = F(j) /\ U(j) = T(j)
      BY <1>3, <1>10, <2>1, <3>1
    <3>2. CASE j = a + 1 /\ G(j) = fx /\ U(j) = tx
      BY <1>5, <2>1, <3>2
    <3>3. CASE j + b - a - 2 \in b .. n /\ j + b - a - 2 \in 1 .. n
               /\ G(j) = F(j + b - a - 2)
      <4>1. tx < G(j) /\ T(i) < fx /\ F(j + b - a - 2) \in Nat /\ T(i) \in Nat
        BY <1>2, <1>5, <1>6, <2>1, <3>3
      <4> QED
        BY <1>4, <2>1, <3>3, <4>1
    <3> QED
      BY <1>8, <3>1, <3>2, <3>3
  <2>2. CASE i = a + 1 /\ G(i) = fx /\ U(i) = tx
    <3>1. j + b - a - 2 \in b .. n /\ G(j) = F(j + b - a - 2)
      BY <1>8, <1>10, <2>2
    <3> QED
      BY <1>6, <2>2, <3>1
  <2>3. CASE /\ i \in a + 2 .. Len(r) /\ i + b - a - 2 \in 1 .. n
             /\ G(i) = F(i + b - a - 2) /\ U(i) = T(i + b - a - 2)
    <3>1. j + b - a - 2 \in 1 .. n /\ G(j) = F(j + b - a - 2)
      BY <1>8, <1>10, <2>3
    <3>2. i + b - a - 2 < j + b - a - 2
      BY <1>10, <1>7
    <3>3. PICK k \in 1 .. n, m \in 1 .. n : k = i + b - a - 2 /\ m = j + b - a - 2
      BY <2>3, <3>1
    <3> QED
      BY <1>3, <2>3, <3>1, <3>2, <3>3
  <2> QED
    BY <1>8, <2>1, <2>2, <2>3
<1>11. ASSUME NEW y \in Nat
       PROVE  Covered(r, t, y) <=>
               \/ \E i \in 1 .. a : F(i) <= y /\ y < T(i)
               \/ fx <= y /\ y < tx
               \/ \E i \in b .. n : F(i) <= y /\ y < T(i)
  <2>1. Covered(r, t, y) <=> \E i \in 1 .. Len(r) : G(i) <= y /\ y < U(i)
    BY DEF Covered, G, U
  <2>2. ASSUME NEW i \in 1 .. Len(r), G(i) <= y, y < U(i)
        PROVE  \/ \E j \in 1 .. a : F(j) <= y /\ y < T(j)
               \/ fx <= y /\ y < tx
               \/ \E j \in b .. n : F(j) <= y /\ y < T(j)
    BY <1>8, <2>2
  <2>3. ASSUME NEW i \in 1 .. a, F(i) <= y, y < T(i)
        PROVE  \E j \in 1 .. Len(r) : G(j) <= y /\ y < U(j)
    <3>1. i \in 1 .. Len(r) /\ G(i) = F(i) /\ U(i) = T(i)
      BY <1>7, <1>1 DEF G, U
    <3> QED
      BY <2>3, <3>1
  <2>4. ASSUME fx <= y, y < tx
        PROVE  \E j \in 1 .. Len(r) : G(j) <= y /\ y < U(j)
    <3>1. a + 1 \in 1 .. Len(r) /\ G(a + 1) = fx /\ U(a + 1) = tx
      BY <1>7, <1>1 DEF G, U
    <3> QED
      BY <2>4, <3>1
  <2>5. ASSUME NEW i \in b .. n, F(i) <= y, y < T(i)
        PROVE  \E j \in 1 .. Len(r) : G(j) <= y /\ y < U(j)
    <3>1. PICK k \in a + 2 .. Len(r) : k + b - a - 2 = i
      <4>1. i - b + a + 2 \in a + 2 .. Len(r) /\ (i - b + a + 2) + b - a - 2 = i
        BY <1>7, <1>1
      <4> QED
        BY <4>1
    <3>2. G(k) = F(k + b - a - 2) /\ U(k) = T(k + b - a - 2) /\ k \in 1 .. Len(r)
      BY <1>7 DEF G, U
    <3> QED
      BY <2>5, <3>1, <3>2
  <2> QED
    BY <2>1, <2>2, <2>3, <2>4, <2>5
<1>12. a + 1 \in 1 .. Len(r)
  <2>1. Len(r) = a + 1 + n + 1 - b
    BY <1>7
  <2> QED
    BY <1>1, <2>1
<1>13. SegsOK(r, t, lim)
  BY <1>7, <1>9, <1>10 DEF SegsOK, G, U
<1> QED
  BY <1>7, <1>11, <1>12, <1>13 DEF F, T, fx, tx

\* The sequences the code's list operations build.
LEMMA Splices ==
  ASSUME NEW segs \in Seq(Segment), NEW x \in Segment
  PROVE  /\ \A a \in 0 .. Len(segs), b \in 1 .. Len(segs) + 1 : a < b =>
               IsSplice(SubSeq(segs, 1, a) \o <<x>> \o SubSeq(segs, b, Len(segs)), segs, a, x, b)
         /\ IsSplice(Append(segs, x), segs, Len(segs), x, Len(segs) + 1)
         /\ \A i \in 1 .. Len(segs) : /\ IsSplice([segs EXCEPT ![i] = x], segs, i - 1, x, i + 1)
                                      /\ IsSplice(InsertAt(segs, i, x), segs, i - 1, x, i)
<1>1. ASSUME NEW a \in 0 .. Len(segs), NEW b \in 1 .. Len(segs) + 1, a < b
      PROVE  IsSplice(SubSeq(segs, 1, a) \o <<x>> \o SubSeq(segs, b, Len(segs)), segs, a, x, b)
  <2> DEFINE p == SubSeq(segs, 1, a)
             q == SubSeq(segs, b, Len(segs))
             r == p \o <<x>> \o q
  <2>1. /\ p \in Seq(Segment) /\ Len(p) = a /\ \A i \in 1 .. a : p[i] = segs[i]
        /\ q \in Seq(Segment) /\ Len(q) = Len(segs) + 1 - b
        /\ \A i \in 1 .. Len(segs) + 1 - b : q[i] = segs[b + i - 1]
    <3>1. a \in Int /\ b \in Int /\ Len(segs) \in Nat
      OBVIOUS
    <3>2. /\ p \in Seq(Segment) /\ Len(p) = a
          /\ \A i \in 1 .. a : p[i] = segs[i]
      BY <3>1, SubSeqProperties
    <3>3. /\ q \in Seq(Segment) /\ Len(q) = Len(segs) + 1 - b
          /\ \A i \in 1 .. Len(segs) + 1 - b : q[i] = segs[b + i - 1]
      BY <3>1, SubSeqProperties
    <3> QED
      BY <3>2, <3>3
  <2> HIDE DEF p, q
  <2>2. /\ r \in Seq(Segment) /\ Len(r) = a + 1 + (Len(segs) + 1 - b)
        /\ \A i \in 1 .. Len(r) : r[i] = IF i <= a THEN p[i] ELSE IF i = a + 1 THEN x
                                         ELSE q[i - (a + 1)]
    <3> DEFINE o == p \o <<x>>
    <3>1. /\ o \in Seq(Segment) /\ Len(o) = a + 1
          /\ \A i \in 1 .. a + 1 : o[i] = IF i <= a THEN p[i] ELSE x
      <4>1. <<x>> \in Seq(Segment) /\ Len(<<x>>) = 1 /\ <<x>>[1] = x
        OBVIOUS
      <4>2. /\ o \in Seq(Segment) /\ Len(o) = Len(p) + 1
            /\ \A i \in 1 .. Len(p) + 1 : o[i] = IF i <= Len(p) THEN p[i] ELSE <<x>>[i - Len(p)]
        BY <2>1, <4>1, ConcatProperties
      <4>3. \A i \in 1 .. a + 1 : ~(i <= a) => i - a = 1
        OBVIOUS
      <4> HIDE DEF o
      <4> QED
        BY <2>1, <4>1, <4>2, <4>3
    <3> HIDE DEF o
    <3>2. /\ o \o q \in Seq(Segment) /\ Len(o \o q) = a + 1 + (Len(segs) + 1 - b)
          /\ \A i \in 1 .. Len(o \o q) : (o \o q)[i] = IF i <= a + 1 THEN o[i]
                                                      ELSE q[i - (a + 1)]
      <4>1. /\ o \o q \in Seq(Segment) /\ Len(o \o q) = Len(o) + Len(q)
            /\ \A i \in 1 .. Len(o) + Len(q) : (o \o q)[i] = IF i <= Len(o) THEN o[i]
                                                             ELSE q[i - Len(o)]
        BY <2>1, <3>1, ConcatProperties
      <4> QED
        BY <2>1, <3>1, <4>1
    <3>3. r = o \o q
      BY DEF o
    <3>4. \A i \in 1 .. Len(r) : (i <= a + 1 => i \in 1 .. a + 1) /\ (i <= a => i <= a + 1)
                              /\ (i = a + 1 => ~(i <= a) /\ i <= a + 1)
                              /\ (~(i <= a) /\ i <= a + 1 => i = a + 1)
      BY <3>2, <3>3
    <3> HIDE DEF r
    <3> QED
      BY <3>1, <3>2, <3>3, <3>4
  <2> HIDE DEF r
  <2>3. \A i \in 1 .. a : r[i] = segs[i]
    BY <2>1, <2>2
  <2>4. r[a + 1] = x
    BY <2>2
  <2>5. ASSUME NEW i \in a + 2 .. Len(r)
        PROVE  r[i] = segs[i + b - a - 2]
    <3>1. r[i] = q[i - (a + 1)]
      BY <2>2
    <3>2. i - (a + 1) \in 1 .. Len(segs) + 1 - b
      BY <2>2
    <3>3. q[i - (a + 1)] = segs[b + (i - (a + 1)) - 1]
      BY <2>1, <3>2
    <3>4. b + (i - (a + 1)) - 1 = i + b - a - 2
      BY <2>2
    <3> QED
      BY <3>1, <3>3, <3>4
  <2>6. Len(r) = a + 1 + Len(segs) + 1 - b
    BY <2>2
  <2>7. IsSplice(r, segs, a, x, b)
    BY <2>2, <2>3, <2>4, <2>5, <2>6 DEF IsSplice
  <2> QED
    BY <2>7 DEF r, p, q
<1>2. IsSplice(Append(segs, x), segs, Len(segs), x, Len(segs) + 1)
  BY DEF IsSplice
<1>3. ASSUME NEW i \in 1 .. Len(segs)
      PROVE  IsSplice([segs EXCEPT ![i] = x], segs, i - 1, x, i + 1)
  <2> DEFINE r == [segs EXCEPT ![i] = x]
  <2>1. r \in Seq(Segment) /\ Len(r) = Len(segs)
    OBVIOUS
  <2>2. \A j \in 1 .. Len(segs) : r[j] = IF j = i THEN x ELSE segs[j]
    OBVIOUS
  <2> HIDE DEF r
  <2>3. Len(r) = (i - 1) + 1 + Len(segs) + 1 - (i + 1)
    BY <2>1
  <2>4. \A j \in (i - 1) + 2 .. Len(r) : j + (i + 1) - (i - 1) - 2 = j /\ r[j] = segs[j]
    BY <2>1, <2>2
  <2>5. \A j \in 1 .. i - 1 : r[j] = segs[j]
    BY <2>2
  <2>6. r[(i - 1) + 1] = x
    BY <2>2
  <2>7. IsSplice(r, segs, i - 1, x, i + 1)
    BY <2>1, <2>3, <2>4, <2>5, <2>6 DEF IsSplice
  <2> QED
    BY <2>7 DEF r
<1>4. ASSUME NEW i \in 1 .. Len(segs)
      PROVE  IsSplice(InsertAt(segs, i, x), segs, i - 1, x, i)
  <2>1. i - 1 \in 0 .. Len(segs) /\ i \in 1 .. Len(segs) + 1 /\ i - 1 < i
    OBVIOUS
  <2> QED
    BY <1>1, <2>1 DEF InsertAt
<1> QED
  BY <1>1, <1>2, <1>3, <1>4

\* Where the code says a segment ends.
LEMMA SegEnd ==
  ASSUME NEW t \in Pos, NEW lim \in Nat, 2 * lim < W, NEW segs, SegsOK(segs, t, lim)
  PROVE  \A i \in 1 .. Len(segs) :
            /\ segs[i].start \in Pos /\ Diff(segs[i].start, t) = From(segs, t, i)
            /\ ooo_segment_end_pos(segs[i]) \in Pos
            /\ Diff(ooo_segment_end_pos(segs[i]), t) = To(segs, t, i)
            /\ 2 * From(segs, t, i) < W /\ 2 * To(segs, t, i) < W
            /\ From(segs, t, i) < To(segs, t, i)
            /\ From(segs, t, i) \in Nat /\ To(segs, t, i) \in Nat
            /\ From(segs, t, i) > 0 /\ To(segs, t, i) <= lim
<1> SUFFICES ASSUME NEW i \in 1 .. Len(segs)
             PROVE  /\ segs[i].start \in Pos /\ Diff(segs[i].start, t) = From(segs, t, i)
                    /\ ooo_segment_end_pos(segs[i]) \in Pos
                    /\ Diff(ooo_segment_end_pos(segs[i]), t) = To(segs, t, i)
                    /\ 2 * From(segs, t, i) < W /\ 2 * To(segs, t, i) < W
                    /\ From(segs, t, i) < To(segs, t, i)
                    /\ From(segs, t, i) \in Nat /\ To(segs, t, i) \in Nat
                    /\ From(segs, t, i) > 0 /\ To(segs, t, i) <= lim
  OBVIOUS
<1>w. W \in Nat \ {0}
  BY Numbers
<1>1. /\ segs[i].start \in Pos /\ segs[i].length \in Nat \ {0}
      /\ From(segs, t, i) \in Nat /\ To(segs, t, i) \in Nat
      /\ From(segs, t, i) < To(segs, t, i)
  BY SegType DEF SegsOK
<1>2. To(segs, t, i) <= lim /\ From(segs, t, i) > 0
  BY DEF SegsOK
<1>3. /\ Diff(segs[i].start, t) = From(segs, t, i)
      /\ To(segs, t, i) = Diff(segs[i].start, t) + segs[i].length
  BY DEF From, To
<1>4. Diff(segs[i].start, t) + segs[i].length < W
  BY <1>w, <1>1, <1>2, <1>3
<1>5. /\ Add(segs[i].start, segs[i].length) \in Pos
      /\ Diff(Add(segs[i].start, segs[i].length), t) = Diff(segs[i].start, t) + segs[i].length
  BY <1>1, <1>4, Counted
<1> QED
  BY <1>w, <1>1, <1>2, <1>3, <1>5 DEF ooo_segment_end_pos

\* ooo_segment_add's label check_tail: the segment is extended, the segments it
\* covers or touches become part of it.
LEMMA ExtendTailOK ==
  ASSUME NEW t \in Pos, NEW lim \in Nat, 2 * lim < W, NEW segs, SegsOK(segs, t, lim),
         NEW i \in 1 .. Len(segs), NEW end \in Pos, NEW newest,
         From(segs, t, i) <= Diff(end, t), Diff(end, t) <= lim
  PROVE  LET x == ExtendTail(segs, i, end, newest)
         IN  /\ SegsOK(x.segs, t, lim)
             /\ \A y \in Nat : Covered(x.segs, t, y) <=>
                   \/ Covered(segs, t, y)
                   \/ From(segs, t, i) <= y /\ y < Diff(end, t)
             /\ x.newest \in {newest, segs[i].start}
             /\ \E j \in 1 .. Len(x.segs) : x.segs[j].start = segs[i].start
<1> DEFINE n == Len(segs)
           F(j) == From(segs, t, j)
           T(j) == To(segs, t, j)
           E(j) == ooo_segment_end_pos(segs[j])
           en == Diff(end, t)
           x == ExtendTail(segs, i, end, newest)
<1>w. W \in Nat \ {0}
  BY Numbers
<1>1. segs \in Seq(Segment) /\ n \in Nat
  BY DEF SegsOK
<1>2. \A j \in 1 .. n : /\ segs[j].start \in Pos /\ Diff(segs[j].start, t) = F(j)
                        /\ E(j) \in Pos /\ Diff(E(j), t) = T(j)
                        /\ 2 * F(j) < W /\ 2 * T(j) < W
                        /\ F(j) < T(j) /\ F(j) \in Nat /\ T(j) \in Nat
                        /\ F(j) > 0 /\ T(j) <= lim
  BY SegEnd
<1>3. \A j, k \in 1 .. n : j < k => T(j) < F(k)
  BY DEF SegsOK
<1>4. en \in Nat /\ 2 * en < W /\ en <= lim /\ F(i) <= en
  <2>1. en \in Nat
    BY Counted
  <2> QED
    BY <1>w, <2>1
<1>5. \A j \in 1 .. n : /\ f_pos_leq(end, E(j)) <=> en <= T(j)
                        /\ f_pos_leq(E(j), end) <=> T(j) <= en
                        /\ f_pos_lt(end, E(j)) <=> en < T(j)
                        /\ f_pos_leq(segs[j].start, end) <=> F(j) <= en
  <2> SUFFICES ASSUME NEW j \in 1 .. n
               PROVE  /\ f_pos_leq(end, E(j)) <=> en <= T(j)
                      /\ f_pos_leq(E(j), end) <=> T(j) <= en
                      /\ f_pos_lt(end, E(j)) <=> en < T(j)
                      /\ f_pos_leq(segs[j].start, end) <=> F(j) <= en
    OBVIOUS
  <2>1. /\ segs[j].start \in Pos /\ Diff(segs[j].start, t) = F(j)
        /\ E(j) \in Pos /\ Diff(E(j), t) = T(j)
        /\ 2 * F(j) < W /\ 2 * T(j) < W
    BY <1>2
  <2>2. end \in Pos /\ Diff(end, t) = en /\ 2 * Diff(end, t) < W
    BY <1>4
  <2> HIDE DEF E, F, T, en
  <2>3. /\ f_pos_leq(end, E(j)) <=> Diff(end, t) <= Diff(E(j), t)
        /\ f_pos_lt(end, E(j)) <=> Diff(end, t) < Diff(E(j), t)
    BY <2>1, <2>2, Compared
  <2>4. f_pos_leq(E(j), end) <=> Diff(E(j), t) <= Diff(end, t)
    BY <2>1, <2>2, Compared
  <2>5. f_pos_leq(segs[j].start, end) <=> Diff(segs[j].start, t) <= Diff(end, t)
    BY <2>1, <2>2, Compared
  <2> QED
    BY <2>1, <2>2, <2>3, <2>4, <2>5
<1>6. CASE f_pos_leq(end, E(i))
  <2>1. x = [segs |-> segs, newest |-> newest]
    BY <1>6 DEF ExtendTail
  <2>2. x.segs = segs /\ x.newest = newest
    BY <2>1
  <2>3. en <= T(i)
    BY <1>5, <1>6
  <2>4. \A y \in Nat : F(i) <= y /\ y < en => Covered(segs, t, y)
    BY <1>2, <1>4, <2>3 DEF Covered
  <2> HIDE DEF x
  <2> QED
    BY <2>2, <2>4 DEF x
<1>7. CASE ~f_pos_leq(end, E(i))
  <2> DEFINE IsK(k) == /\ \A j \in i + 1 .. k - 1 : f_pos_leq(E(j), end)
                       /\ k <= n => f_pos_lt(end, E(k))
             k == CHOOSE k \in i + 1 .. n + 1 : IsK(k)
             join == k <= n /\ f_pos_leq(segs[k].start, end)
             stop == IF join THEN E(k) ELSE end
             b == IF join THEN k + 1 ELSE k
             new == [start |-> segs[i].start, length |-> Diff(stop, segs[i].start)]
             r == SubSeq(segs, 1, i - 1) \o <<new>> \o SubSeq(segs, b, n)
  <2>1. \E m \in i + 1 .. n + 1 : IsK(m)
    <3> DEFINE S == {m \in i + 1 .. n + 1 : m <= n => en < T(m)}
    <3>1. S \subseteq Nat /\ n + 1 \in S
      BY <1>1
    <3>2. PICK m \in S : \A y \in S : m <= y
      <4> HIDE DEF S
      <4> QED
        BY <3>1, Least
    <3>3. ASSUME NEW j \in i + 1 .. m - 1
          PROVE  f_pos_leq(E(j), end)
      <4>1. j \in 1 .. n /\ j \notin S /\ j \in i + 1 .. n + 1
        BY <1>1, <3>2
      <4>2. ~(en < T(j))
        BY <4>1
      <4> HIDE DEF S, F, T, E, en
      <4> QED
        BY <1>2, <1>4, <1>5, <4>1, <4>2
    <3>4. m <= n => f_pos_lt(end, E(m))
      <4>1. m <= n => m \in 1 .. n /\ en < T(m)
        BY <1>1, <3>2
      <4> HIDE DEF S, F, T, E, en
      <4> QED
        BY <1>5, <4>1
    <3> QED
      BY <3>2, <3>3, <3>4
  <2>2. k \in i + 1 .. n + 1 /\ IsK(k)
    BY <2>1
  <2>3. x = [segs |-> r, newest |-> segs[i].start]
    BY <1>7 DEF ExtendTail
  <2>4. x.segs = r /\ x.newest = segs[i].start
    <3> HIDE DEF r, x, k
    <3> QED
      BY <2>3
  <2> HIDE DEF k, x
  <2>5. /\ \A j \in i + 1 .. k - 1 : j \in 1 .. n /\ T(j) <= en
        /\ k <= n => k \in 1 .. n /\ en < T(k)
    <3>1. \A j \in i + 1 .. k - 1 : j \in 1 .. n
      BY <1>1, <2>2
    <3>2. k <= n => k \in 1 .. n
      BY <1>1, <2>2
    <3> HIDE DEF E, F, T, en, n
    <3> QED
      BY <1>5, <2>2, <3>1, <3>2
  <2>6. T(i) < en
    <3> HIDE DEF E, F, T, en
    <3> QED
      BY <1>2, <1>4, <1>5, <1>7
  <2> DEFINE st == Diff(stop, t)
  <2>7. /\ stop \in Pos /\ en <= st /\ st <= lim /\ st \in Nat
        /\ ~join => st = en
        /\ join => k \in 1 .. n /\ st = T(k) /\ F(k) <= en
        /\ ~join /\ k <= n => en < F(k)
    <3>1. CASE join
      <4>1. k \in 1 .. n /\ F(k) <= en /\ stop = E(k) /\ en < T(k)
        <5>1. k <= n /\ f_pos_leq(segs[k].start, end) /\ stop = E(k)
          BY <3>1
        <5> HIDE DEF E, F, T, en, n, stop, join
        <5> QED
          BY <1>5, <2>5, <5>1
      <4>2. T(k) \in Nat /\ E(k) \in Pos /\ Diff(E(k), t) = T(k) /\ T(k) <= lim
        BY <1>2, <4>1
      <4> HIDE DEF E, F, T, en, n, stop
      <4> QED
        BY <1>4, <3>1, <4>1, <4>2
    <3>2. CASE ~join
      <4>1. stop = end /\ (k <= n => ~(F(k) <= en) /\ F(k) \in Nat)
        <5>1. stop = end /\ (k <= n => ~f_pos_leq(segs[k].start, end))
          BY <3>2
        <5> HIDE DEF E, F, T, en, n, stop, join
        <5> QED
          BY <1>2, <1>5, <2>5, <5>1
      <4>2. st = en
        BY <4>1
      <4> HIDE DEF E, F, T, en, n, stop, join
      <4> QED
        BY <1>4, <3>2, <4>1, <4>2
    <3> QED
      BY <3>1, <3>2
  <2>8. /\ new \in Segment /\ new.start = segs[i].start /\ new.length = st - F(i)
        /\ Diff(new.start, t) = F(i) /\ Diff(new.start, t) + new.length = st
    <3>1. F(i) \in Nat /\ segs[i].start \in Pos /\ Diff(segs[i].start, t) = F(i) /\ F(i) < st
      <4> HIDE DEF F, T, en, st
      <4> QED
        BY <1>2, <1>4, <2>6, <2>7
    <3>2. Diff(stop, segs[i].start) = st - F(i)
      <4>1. Diff(stop, segs[i].start) = IF Diff(segs[i].start, t) <= Diff(stop, t)
                                        THEN Diff(stop, t) - Diff(segs[i].start, t)
                                        ELSE Diff(stop, t) - Diff(segs[i].start, t) + W
        BY <2>7, <3>1, Counted
      <4> HIDE DEF F, stop
      <4> QED
        BY <2>7, <3>1, <4>1
    <3>3. PICK len \in Nat \ {0} : len = st - F(i)
      BY <2>7, <3>1
    <3>4. new = [start |-> segs[i].start, length |-> len]
      BY <3>2, <3>3
    <3> HIDE DEF new, F, st
    <3> QED
      BY <2>7, <3>1, <3>3, <3>4 DEF Segment
  <2>9. b \in (i - 1) + 1 .. n + 1 /\ b \in 1 .. n + 1 /\ i - 1 \in 0 .. n /\ b \in i + 1 .. n + 1
    BY <1>1, <2>2, <2>7
  <2> HIDE DEF new
  <2>10. IsSplice(r, segs, i - 1, new, b)
    <3>1. i - 1 < b
      BY <2>9
    <3> HIDE DEF b
    <3> QED
      BY <1>1, <2>8, <2>9, <3>1, Splices
  <2>11. i - 1 > 0 => T(i - 1) < F(i)
    BY <1>1, <1>3
  <2>12. b <= n => st < F(b)
    <3>1. CASE join
      <4>1. b = k + 1 /\ k \in 1 .. n /\ st = T(k)
        BY <2>7, <3>1
      <4> HIDE DEF b, F, T, st
      <4> QED
        BY <1>1, <1>3, <4>1
    <3>2. CASE ~join
      <4>1. b = k
        BY <3>2
      <4> HIDE DEF b, F, T, st, join, en, n
      <4> QED
        BY <2>7, <3>2, <4>1
    <3> QED
      BY <3>1, <3>2
  <2> HIDE DEF r
  <2>13. /\ SegsOK(r, t, lim)
         /\ \A y \in Nat : Covered(r, t, y) <=>
               \/ \E j \in 1 .. i - 1 : F(j) <= y /\ y < T(j)
               \/ F(i) <= y /\ y < st
               \/ \E j \in b .. n : F(j) <= y /\ y < T(j)
         /\ (i - 1) + 1 \in 1 .. Len(r) /\ r[(i - 1) + 1] = new
    <3>1. /\ i - 1 > 0 => To(segs, t, i - 1) < Diff(new.start, t)
          /\ b <= Len(segs) => Diff(new.start, t) + new.length < From(segs, t, b)
          /\ Diff(new.start, t) > 0 /\ Diff(new.start, t) + new.length <= lim
      <4>1. F(i) > 0
        BY <1>2
      <4> QED
        BY <2>7, <2>8, <2>11, <2>12, <4>1
    <3>2. /\ SegsOK(r, t, lim)
          /\ \A y \in Nat : Covered(r, t, y) <=>
               \/ \E j \in 1 .. i - 1 : F(j) <= y /\ y < T(j)
               \/ Diff(new.start, t) <= y /\ y < Diff(new.start, t) + new.length
               \/ \E j \in b .. n : F(j) <= y /\ y < T(j)
          /\ (i - 1) + 1 \in 1 .. Len(r) /\ r[(i - 1) + 1] = new
      <4> HIDE DEF b
      <4> QED
        BY <2>8, <2>9, <2>10, <3>1, SpliceOK
    <3> QED
      BY <2>8, <3>2
  <2>14. ASSUME NEW y \in Nat
         PROVE  Covered(r, t, y) <=> Covered(segs, t, y) \/ (F(i) <= y /\ y < en)
    <3>1. Covered(segs, t, y) <=> \E j \in 1 .. n : F(j) <= y /\ y < T(j)
      BY DEF Covered
    <3>2. /\ b \in i + 1 .. n + 1
          /\ ~join => b = k
          /\ join => b = k + 1
      BY <2>9
    <3> HIDE DEF F, T, E, en, st, b, join, n
    <3>3. ASSUME Covered(r, t, y)
          PROVE  Covered(segs, t, y) \/ (F(i) <= y /\ y < en)
      <4>1. \A j \in b .. n : j \in 1 .. n
        BY <1>1, <3>2
      <4>2. \A j \in 1 .. i - 1 : j \in 1 .. n
        BY <1>1 DEF n
      <4>3. CASE F(i) <= y /\ y < st
        <5>1. CASE join
          <6>1. y < en \/ (F(k) <= y /\ y < T(k) /\ k \in 1 .. n)
            BY <1>2, <1>4, <2>7, <4>3, <5>1
          <6> QED
            BY <3>1, <4>3, <6>1
        <5>2. CASE ~join
          BY <2>7, <4>3, <5>2
        <5> QED
          BY <5>1, <5>2
      <4> QED
        BY <2>13, <3>1, <3>3, <4>1, <4>2, <4>3
    <3>4. ASSUME F(i) <= y, y < en
          PROVE  Covered(r, t, y)
      BY <1>4, <2>7, <2>13, <3>4
    <3>5. ASSUME NEW j \in 1 .. n, F(j) <= y, y < T(j)
          PROVE  Covered(r, t, y)
      <4>1. CASE j \in 1 .. i - 1
        BY <2>13, <3>5, <4>1
      <4>2. CASE j = i
        <5>1. y < st
          BY <1>2, <1>4, <2>6, <2>7, <3>5, <4>2
        <5> QED
          BY <2>13, <3>5, <4>2, <5>1
      <4>3. CASE j \in i + 1 .. k - 1
        <5>1. i < j /\ i \in 1 .. n
          BY <4>3 DEF n
        <5>2. T(i) < F(j) /\ T(j) <= en
          BY <1>3, <2>5, <4>3, <5>1
        <5>3. F(i) <= y /\ y < st
          BY <1>2, <1>4, <2>7, <3>5, <5>1, <5>2
        <5> QED
          BY <2>13, <5>3
      <4>4. CASE j = k /\ join
        <5>1. i < j /\ i \in 1 .. n
          BY <2>2, <4>4 DEF n
        <5>2. T(i) < F(j) /\ st = T(j)
          BY <1>3, <2>7, <4>4, <5>1
        <5>3. F(i) <= y /\ y < st
          BY <1>2, <2>7, <3>5, <5>1, <5>2
        <5> QED
          BY <2>13, <5>3
      <4>5. CASE j \in b .. n
        BY <2>13, <3>5, <4>5
      <4> QED
        BY <1>1, <2>2, <3>2, <4>1, <4>2, <4>3, <4>4, <4>5
    <3> QED
      BY <3>1, <3>3, <3>4, <3>5
  <2> QED
    BY <2>4, <2>8, <2>13, <2>14 DEF x
<1> QED
  BY <1>6, <1>7

\* ooo_segment_add: the bytes of the new segment are added to those recorded,
\* and nothing else is.
LEMMA AddOK ==
  ASSUME NEW t \in Pos, NEW lim \in Nat, 2 * lim < W, NEW segs, SegsOK(segs, t, lim),
         NEW pos \in Pos, NEW length \in Nat \ {0},
         Diff(pos, t) > 0, Diff(pos, t) + length <= lim
  PROVE  LET x == ooo_segment_add(segs, pos, length)
         IN  /\ SegsOK(x.segs, t, lim)
             /\ \A y \in Nat : Covered(x.segs, t, y) <=>
                   \/ Covered(segs, t, y)
                   \/ Diff(pos, t) <= y /\ y < Diff(pos, t) + length
             /\ x.newest # NoSeg => \E j \in 1 .. Len(x.segs) : x.segs[j].start = x.newest
<1> DEFINE n == Len(segs)
           F(j) == From(segs, t, j)
           T(j) == To(segs, t, j)
           E(j) == ooo_segment_end_pos(segs[j])
           end == Add(pos, length)
           off == Diff(pos, t)
           en == Diff(end, t)
           new == [start |-> pos, length |-> length]
           IsI(j) == /\ j = n \/ ~f_pos_lt(segs[j].start, pos)
                     /\ \A k \in 1 .. j - 1 : f_pos_lt(segs[k].start, pos)
           i == CHOOSE j \in 1 .. n : IsI(j)
           grown == [start |-> pos, length |-> Diff(E(i), pos)]
           x == ooo_segment_add(segs, pos, length)
           Good(r) == /\ SegsOK(r.segs, t, lim)
                      /\ \A y \in Nat : Covered(r.segs, t, y) <=>
                            \/ Covered(segs, t, y)
                            \/ off <= y /\ y < en
                      /\ r.newest # NoSeg =>
                            \E j \in 1 .. Len(r.segs) : r.segs[j].start = r.newest
<1>w. W \in Nat \ {0}
  BY Numbers
<1>1. segs \in Seq(Segment) /\ n \in Nat
  BY DEF SegsOK
<1>2. \A j \in 1 .. n : /\ segs[j].start \in Pos /\ Diff(segs[j].start, t) = F(j)
                        /\ E(j) \in Pos /\ Diff(E(j), t) = T(j)
                        /\ 2 * F(j) < W /\ 2 * T(j) < W
                        /\ F(j) < T(j) /\ F(j) \in Nat /\ T(j) \in Nat
                        /\ F(j) > 0 /\ T(j) <= lim
  BY SegEnd
<1>3. \A j, k \in 1 .. n : j < k => T(j) < F(k)
  BY DEF SegsOK
<1>4. /\ off \in Nat /\ off > 0 /\ end \in Pos /\ en = off + length /\ en \in Nat
      /\ 2 * off < W /\ 2 * en < W /\ en <= lim /\ off < en
  <2>1. off \in Nat
    BY Counted
  <2>2. off + length < W
    BY <1>w, <2>1
  <2>3. end \in Pos /\ en = off + length
    BY <2>2, Counted
  <2> HIDE DEF off, en, end
  <2> QED
    BY <1>w, <2>1, <2>3 DEF off
<1>5. \A j \in 1 .. n : /\ f_pos_lt(segs[j].start, pos) <=> F(j) < off
                        /\ f_pos_leq(pos, E(j)) <=> off <= T(j)
                        /\ f_pos_lt(end, segs[j].start) <=> en < F(j)
                        /\ f_pos_lt(E(j), pos) <=> T(j) < off
                        /\ f_pos_lt(pos, segs[j].start) <=> off < F(j)
  <2> SUFFICES ASSUME NEW j \in 1 .. n
               PROVE  /\ f_pos_lt(segs[j].start, pos) <=> F(j) < off
                      /\ f_pos_leq(pos, E(j)) <=> off <= T(j)
                      /\ f_pos_lt(end, segs[j].start) <=> en < F(j)
                      /\ f_pos_lt(E(j), pos) <=> T(j) < off
                      /\ f_pos_lt(pos, segs[j].start) <=> off < F(j)
    OBVIOUS
  <2>1. /\ segs[j].start \in Pos /\ Diff(segs[j].start, t) = F(j)
        /\ E(j) \in Pos /\ Diff(E(j), t) = T(j)
        /\ 2 * F(j) < W /\ 2 * T(j) < W
    BY <1>2
  <2>2. end \in Pos /\ Diff(end, t) = en /\ 2 * en < W /\ Diff(pos, t) = off /\ 2 * off < W
    BY <1>4
  <2> HIDE DEF E, F, T, en, off, end
  <2>3. /\ f_pos_lt(segs[j].start, pos) <=> Diff(segs[j].start, t) < Diff(pos, t)
        /\ f_pos_lt(pos, segs[j].start) <=> Diff(pos, t) < Diff(segs[j].start, t)
    BY <2>1, <2>2, Compared
  <2>4. /\ f_pos_leq(pos, E(j)) <=> Diff(pos, t) <= Diff(E(j), t)
        /\ f_pos_lt(E(j), pos) <=> Diff(E(j), t) < Diff(pos, t)
    BY <2>1, <2>2, Compared
  <2>5. f_pos_lt(end, segs[j].start) <=> Diff(end, t) < Diff(segs[j].start, t)
    BY <2>1, <2>2, Compared
  <2> QED
    BY <2>1, <2>2, <2>3, <2>4, <2>5
<1> HIDE DEF end, Good
<1>6. new \in Segment /\ new.start = pos /\ new.length = length
  BY DEF Segment
<1> HIDE DEF new
<1>7. CASE segs = <<>>
  <2>1. x = [segs |-> <<new>>, newest |-> pos]
    BY <1>7 DEF ooo_segment_add, new, end
  <2>2. x.segs = <<new>> /\ x.newest = pos /\ <<new>> = Append(segs, new) /\ n = 0
    BY <1>7, <2>1
  <2> HIDE DEF x
  <2>3. IsSplice(x.segs, segs, 0, new, 1)
    <3>1. IsSplice(Append(segs, new), segs, n, new, n + 1)
      BY <1>1, <1>6, Splices
    <3>2. n + 1 = 1
      BY <2>2
    <3> HIDE DEF n
    <3> QED
      BY <2>2, <3>1, <3>2
  <2>4. 0 \in 0 .. n /\ 1 \in 0 + 1 .. n + 1 /\ ~(1 <= n)
    BY <2>2
  <2>5. /\ SegsOK(x.segs, t, lim)
        /\ \A y \in Nat : Covered(x.segs, t, y) <=>
             \/ \E j \in 1 .. 0 : From(segs, t, j) <= y /\ y < To(segs, t, j)
             \/ Diff(new.start, t) <= y /\ y < Diff(new.start, t) + new.length
             \/ \E j \in 1 .. Len(segs) : From(segs, t, j) <= y /\ y < To(segs, t, j)
        /\ 0 + 1 \in 1 .. Len(x.segs) /\ x.segs[0 + 1] = new
    <3>1. PICK a \in 0 .. n, b \in 0 + 1 .. n + 1 : a = 0 /\ b = 1
      BY <2>4
    <3>2. /\ Diff(new.start, t) > 0 /\ Diff(new.start, t) + new.length <= lim
          /\ ~(a > 0) /\ ~(b <= n) /\ IsSplice(x.segs, segs, a, new, b) /\ b \in a + 1 .. n + 1
      BY <1>4, <1>6, <2>3, <2>4, <3>1
    <3>3. /\ SegsOK(x.segs, t, lim)
          /\ \A y \in Nat : Covered(x.segs, t, y) <=>
             \/ \E j \in 1 .. a : From(segs, t, j) <= y /\ y < To(segs, t, j)
             \/ Diff(new.start, t) <= y /\ y < Diff(new.start, t) + new.length
             \/ \E j \in b .. Len(segs) : From(segs, t, j) <= y /\ y < To(segs, t, j)
          /\ a + 1 \in 1 .. Len(x.segs) /\ x.segs[a + 1] = new
      BY <1>6, <3>1, <3>2, SpliceOK
    <3> QED
      BY <3>1, <3>3
  <2>6. x.segs[1].start = pos /\ 1 \in 1 .. Len(x.segs)
    BY <1>6, <2>5
  <2>7. \A y \in Nat : Covered(x.segs, t, y) <=> Covered(segs, t, y) \/ (off <= y /\ y < en)
    <3>1. \A y \in Nat : Covered(segs, t, y) <=>
             \E j \in 1 .. Len(segs) : From(segs, t, j) <= y /\ y < To(segs, t, j)
      BY DEF Covered
    <3>2. 1 .. 0 = {} /\ Diff(new.start, t) = off /\ Diff(new.start, t) + new.length = en
      BY <1>4, <1>6
    <3> HIDE DEF off, en
    <3> QED
      BY <2>5, <3>1, <3>2
  <2>8. Good(x)
    BY <2>2, <2>5, <2>6, <2>7 DEF Good
  <2> QED
    BY <1>4, <2>8 DEF x, Good
<1>8. CASE segs # <<>>
  <2>1. n \in Nat \ {0}
    BY <1>1, <1>8
  <2>2. \E j \in 1 .. n : IsI(j)
    <3> DEFINE S == {j \in 1 .. n : j = n \/ ~f_pos_lt(segs[j].start, pos)}
    <3>1. S \subseteq Nat /\ n \in S
      BY <2>1
    <3>2. PICK m \in S : \A y \in S : m <= y
      <4> HIDE DEF S
      <4> QED
        BY <3>1, Least
    <3>3. \A k \in 1 .. m - 1 : f_pos_lt(segs[k].start, pos)
      <4> SUFFICES ASSUME NEW k \in 1 .. m - 1
                   PROVE  f_pos_lt(segs[k].start, pos)
        OBVIOUS
      <4>1. k \in 1 .. n /\ k \notin S
        BY <2>1, <3>2
      <4> QED
        BY <4>1
    <3> QED
      BY <3>2, <3>3
  <2>3. i \in 1 .. n /\ IsI(i)
    BY <2>2
  <2> DEFINE touch == i > 1 /\ f_pos_leq(pos, ooo_segment_end_pos(segs[i - 1]))
             rest == IF f_pos_lt(end, segs[i].start)
                     THEN [segs |-> InsertAt(segs, i, new), newest |-> pos]
                     ELSE IF f_pos_lt(E(i), pos)
                     THEN [segs |-> Append(segs, new), newest |-> pos]
                     ELSE IF f_pos_lt(pos, segs[i].start)
                     THEN ExtendTail([segs EXCEPT ![i] = grown], i, end, pos)
                     ELSE ExtendTail(segs, i, end, NoSeg)
  <2>4. x = IF touch THEN ExtendTail(segs, i - 1, end, NoSeg) ELSE rest
    BY <1>8 DEF ooo_segment_add, new, end
  <2> HIDE DEF i, x
  <2>5. (i = n \/ off <= F(i)) /\ \A k \in 1 .. i - 1 : k \in 1 .. n /\ F(k) < off
    <3>1. \A k \in 1 .. i - 1 : k \in 1 .. n
      BY <2>1, <2>3
    <3>2. i = n \/ ~(F(i) < off)
      BY <1>5, <2>3
    <3>3. \A k \in 1 .. i - 1 : F(k) < off
      BY <1>5, <2>3, <3>1
    <3> HIDE DEF F, off
    <3> QED
      BY <1>2, <1>4, <2>3, <3>1, <3>2, <3>3
  <2>c. \A y \in Nat : Covered(segs, t, y) <=> \E j \in 1 .. n : F(j) <= y /\ y < T(j)
    BY DEF Covered
  <2>e. ASSUME NEW j \in 1 .. n, F(j) <= off, off <= T(j),
               x = ExtendTail(segs, j, end, NoSeg)
        PROVE  Good(x)
    <3>1. From(segs, t, j) <= Diff(end, t) /\ Diff(end, t) <= lim
      <4>1. F(j) <= en
        <5> HIDE DEF F, off, en
        <5> QED
          BY <1>2, <1>4, <2>e
      <4> QED
        BY <1>4, <4>1
    <3>2. /\ SegsOK(x.segs, t, lim)
          /\ \A y \in Nat : Covered(x.segs, t, y) <=>
                   \/ Covered(segs, t, y)
                   \/ From(segs, t, j) <= y /\ y < Diff(end, t)
          /\ x.newest \in {NoSeg, segs[j].start}
          /\ \E k \in 1 .. Len(x.segs) : x.segs[k].start = segs[j].start
      <4>1. PICK z : z = ExtendTail(segs, j, end, NoSeg)
        OBVIOUS
      <4>2. /\ SegsOK(z.segs, t, lim)
            /\ \A y \in Nat : Covered(z.segs, t, y) <=>
                   \/ Covered(segs, t, y)
                   \/ From(segs, t, j) <= y /\ y < Diff(end, t)
            /\ z.newest \in {NoSeg, segs[j].start}
            /\ \E k \in 1 .. Len(z.segs) : z.segs[k].start = segs[j].start
        <5>1. end \in Pos /\ j \in 1 .. Len(segs)
          BY <1>4
        <5>2. PICK none : none = NoSeg
          OBVIOUS
        <5>3. z = ExtendTail(segs, j, end, none)
          BY <4>1, <5>2
        <5> HIDE DEF F, T, E, off, en, n
        <5>4. /\ SegsOK(z.segs, t, lim)
              /\ \A y \in Nat : Covered(z.segs, t, y) <=>
                   \/ Covered(segs, t, y)
                   \/ From(segs, t, j) <= y /\ y < Diff(end, t)
              /\ z.newest \in {none, segs[j].start}
              /\ \E k \in 1 .. Len(z.segs) : z.segs[k].start = segs[j].start
          BY <3>1, <5>1, <5>3, ExtendTailOK
        <5> QED
          BY <5>2, <5>4
      <4> QED
        BY <2>e, <4>1, <4>2
    <3>3. \A y \in Nat : F(j) <= y /\ y < en <=> (F(j) <= y /\ y < off) \/ (off <= y /\ y < en)
      <4> HIDE DEF F, off, en
      <4> QED
        BY <1>2, <1>4, <2>e
    <3>4. \A y \in Nat : F(j) <= y /\ y < off => Covered(segs, t, y)
      <4> HIDE DEF F, T, off
      <4> QED
        BY <1>2, <1>4, <2>c, <2>e
    <3> HIDE DEF F, T, off, en
    <3> QED
      BY <3>2, <3>3, <3>4 DEF F, en, Good
  <2>6. ASSUME touch
        PROVE  Good(x)
    <3>1. i - 1 \in 1 .. n /\ i - 1 \in 1 .. i - 1
      BY <2>3, <2>6
    <3>2. F(i - 1) < off /\ off <= T(i - 1)
      BY <1>5, <2>5, <2>6, <3>1
    <3>3. x = ExtendTail(segs, i - 1, end, NoSeg)
      BY <2>4, <2>6
    <3>4. F(i - 1) <= off
      <4> HIDE DEF F, off
      <4> QED
        BY <1>2, <1>4, <3>1, <3>2
    <3> HIDE DEF touch, F, T, off, en
    <3> QED
      BY <2>e, <3>1, <3>2, <3>3, <3>4
  <2>7. ASSUME ~touch
        PROVE  Good(x)
    <3>1. x = rest
      BY <2>4, <2>7
    <3>2. i - 1 > 0 => i - 1 \in 1 .. n /\ T(i - 1) < off
      <4>1. i - 1 > 0 => i - 1 \in 1 .. n /\ ~(off <= T(i - 1))
        BY <1>5, <2>3, <2>7
      <4>2. i - 1 > 0 => T(i - 1) \in Nat
        BY <1>2, <4>1
      <4> HIDE DEF T, off
      <4> QED
        BY <1>4, <4>1, <4>2
    <3>3. \A j \in 1 .. n : j \in 1 .. i - 1 \/ j \in i .. n
      BY <2>3
    <3> HIDE DEF touch
    <3>4. CASE f_pos_lt(end, segs[i].start)
      <4>1. x.segs = InsertAt(segs, i, new) /\ x.newest = pos
        BY <3>1, <3>4
      <4>2. en < F(i)
        BY <1>5, <2>3, <3>4
      <4>3. IsSplice(x.segs, segs, i - 1, new, i)
        BY <1>1, <1>6, <2>3, <4>1, Splices
      <4>4. i - 1 \in 0 .. n /\ i \in (i - 1) + 1 .. n + 1
        BY <2>3
      <4>5. /\ i - 1 > 0 => To(segs, t, i - 1) < Diff(new.start, t)
            /\ i <= Len(segs) => Diff(new.start, t) + new.length < From(segs, t, i)
            /\ Diff(new.start, t) > 0 /\ Diff(new.start, t) + new.length <= lim
        BY <1>4, <1>6, <3>2, <4>2
      <4>6. /\ SegsOK(x.segs, t, lim)
            /\ \A y \in Nat : Covered(x.segs, t, y) <=>
                  \/ \E j \in 1 .. i - 1 : F(j) <= y /\ y < T(j)
                  \/ Diff(new.start, t) <= y /\ y < Diff(new.start, t) + new.length
                  \/ \E j \in i .. n : F(j) <= y /\ y < T(j)
            /\ (i - 1) + 1 \in 1 .. Len(x.segs) /\ x.segs[(i - 1) + 1] = new
        <5>1. PICK a \in 0 .. n, b \in (i - 1) + 1 .. n + 1 : a = i - 1 /\ b = i
          BY <4>4
        <5>2. /\ IsSplice(x.segs, segs, a, new, b) /\ b \in a + 1 .. n + 1
              /\ a > 0 => To(segs, t, a) < Diff(new.start, t)
              /\ b <= Len(segs) => Diff(new.start, t) + new.length < From(segs, t, b)
          BY <4>3, <4>5, <5>1
        <5>3. /\ SegsOK(x.segs, t, lim)
              /\ \A y \in Nat : Covered(x.segs, t, y) <=>
                  \/ \E j \in 1 .. a : F(j) <= y /\ y < T(j)
                  \/ Diff(new.start, t) <= y /\ y < Diff(new.start, t) + new.length
                  \/ \E j \in b .. n : F(j) <= y /\ y < T(j)
              /\ a + 1 \in 1 .. Len(x.segs) /\ x.segs[a + 1] = new
          BY <1>6, <4>5, <5>2, SpliceOK
        <5> QED
          BY <5>1, <5>3
      <4>7. \A j : j \in i .. n => j \in 1 .. n
        BY <2>3
      <4>8. Diff(new.start, t) = off /\ Diff(new.start, t) + new.length = en
        BY <1>4, <1>6
      <4> HIDE DEF F, T, off, en
      <4>9. \A y \in Nat : Covered(x.segs, t, y) <=> Covered(segs, t, y) \/ (off <= y /\ y < en)
        BY <2>5, <2>c, <3>3, <4>6, <4>7, <4>8
      <4> QED
        BY <1>6, <4>1, <4>6, <4>9 DEF Good
    <3>5. CASE ~f_pos_lt(end, segs[i].start) /\ f_pos_lt(E(i), pos)
      <4>1. x.segs = Append(segs, new) /\ x.newest = pos
        BY <3>1, <3>5
      <4>2. T(i) < off /\ i = n
        <5>1. T(i) < off
          BY <1>5, <2>3, <3>5
        <5> HIDE DEF F, T, off
        <5> QED
          BY <1>2, <1>4, <2>3, <2>5, <5>1
      <4>3. IsSplice(x.segs, segs, n, new, n + 1)
        BY <1>1, <1>6, <4>1, Splices
      <4>4. n \in 0 .. n /\ n + 1 \in n + 1 .. n + 1 /\ ~(n + 1 <= n)
        BY <1>1
      <4>5. /\ n > 0 => To(segs, t, n) < Diff(new.start, t)
            /\ Diff(new.start, t) > 0 /\ Diff(new.start, t) + new.length <= lim
        BY <1>4, <1>6, <4>2
      <4>6. /\ SegsOK(x.segs, t, lim)
            /\ \A y \in Nat : Covered(x.segs, t, y) <=>
                  \/ \E j \in 1 .. n : F(j) <= y /\ y < T(j)
                  \/ Diff(new.start, t) <= y /\ y < Diff(new.start, t) + new.length
                  \/ \E j \in n + 1 .. n : F(j) <= y /\ y < T(j)
            /\ n + 1 \in 1 .. Len(x.segs) /\ x.segs[n + 1] = new
        BY <1>6, <4>3, <4>4, <4>5, SpliceOK
      <4>7. n + 1 .. n = {}
        BY <1>1
      <4>8. Diff(new.start, t) = off /\ Diff(new.start, t) + new.length = en
        BY <1>4, <1>6
      <4> HIDE DEF F, T, off, en
      <4>9. \A y \in Nat : Covered(x.segs, t, y) <=> Covered(segs, t, y) \/ (off <= y /\ y < en)
        BY <2>c, <4>6, <4>7, <4>8
      <4> QED
        BY <1>6, <4>1, <4>6, <4>9 DEF Good
    <3>6. CASE /\ ~f_pos_lt(end, segs[i].start) /\ ~f_pos_lt(E(i), pos)
               /\ f_pos_lt(pos, segs[i].start)
      <4> DEFINE r == [segs EXCEPT ![i] = grown]
      <4>1. x = ExtendTail(r, i, end, pos)
        BY <3>1, <3>6
      <4>2. off < F(i) /\ ~(en < F(i))
        BY <1>5, <2>3, <3>6
      <4>3. F(i) \in Nat /\ T(i) \in Nat /\ off < T(i) /\ F(i) <= en /\ T(i) <= lim /\ F(i) < T(i)
        <5> HIDE DEF F, T, off, en
        <5> QED
          BY <1>2, <1>4, <2>3, <4>2
      <4>4. /\ grown \in Segment /\ grown.start = pos
            /\ Diff(grown.start, t) = off /\ Diff(grown.start, t) + grown.length = T(i)
        <5>1. E(i) \in Pos /\ Diff(E(i), t) = T(i)
          BY <1>2, <2>3
        <5>2. Diff(E(i), pos) = IF Diff(pos, t) <= Diff(E(i), t)
                                THEN Diff(E(i), t) - Diff(pos, t)
                                ELSE Diff(E(i), t) - Diff(pos, t) + W
          BY <5>1, Counted
        <5>3. Diff(E(i), pos) = T(i) - off
          <6> HIDE DEF T
          <6> QED
            BY <1>4, <4>3, <5>1, <5>2
        <5>4. PICK len \in Nat \ {0} : len = T(i) - off
          BY <1>4, <4>3
        <5>5. grown = [start |-> pos, length |-> len]
          BY <5>3, <5>4
        <5> HIDE DEF grown, T, off
        <5> QED
          BY <1>4, <4>3, <5>4, <5>5 DEF Segment, off
      <4> HIDE DEF grown
      <4>5. IsSplice(r, segs, i - 1, grown, i + 1)
        BY <1>1, <2>3, <4>4, Splices
      <4>6. i - 1 \in 0 .. n /\ i + 1 \in (i - 1) + 1 .. n + 1
        BY <2>3
      <4>7. /\ i - 1 > 0 => To(segs, t, i - 1) < Diff(grown.start, t)
            /\ i + 1 <= Len(segs) => Diff(grown.start, t) + grown.length < From(segs, t, i + 1)
            /\ Diff(grown.start, t) > 0 /\ Diff(grown.start, t) + grown.length <= lim
        <5>1. i + 1 <= n => T(i) < F(i + 1)
          BY <1>3, <2>3
        <5> QED
          BY <1>4, <3>2, <4>3, <4>4, <5>1
      <4> HIDE DEF r
      <4>8. /\ SegsOK(r, t, lim)
            /\ \A y \in Nat : Covered(r, t, y) <=>
                  \/ \E j \in 1 .. i - 1 : F(j) <= y /\ y < T(j)
                  \/ Diff(grown.start, t) <= y /\ y < Diff(grown.start, t) + grown.length
                  \/ \E j \in i + 1 .. n : F(j) <= y /\ y < T(j)
            /\ (i - 1) + 1 \in 1 .. Len(r) /\ r[(i - 1) + 1] = grown
        <5>1. PICK a \in 0 .. n, b \in (i - 1) + 1 .. n + 1 : a = i - 1 /\ b = i + 1
          BY <4>6
        <5>2. /\ IsSplice(r, segs, a, grown, b) /\ b \in a + 1 .. n + 1
              /\ a > 0 => To(segs, t, a) < Diff(grown.start, t)
              /\ b <= Len(segs) => Diff(grown.start, t) + grown.length < From(segs, t, b)
          BY <4>5, <4>7, <5>1
        <5>3. /\ SegsOK(r, t, lim)
              /\ \A y \in Nat : Covered(r, t, y) <=>
                  \/ \E j \in 1 .. a : F(j) <= y /\ y < T(j)
                  \/ Diff(grown.start, t) <= y /\ y < Diff(grown.start, t) + grown.length
                  \/ \E j \in b .. n : F(j) <= y /\ y < T(j)
              /\ a + 1 \in 1 .. Len(r) /\ r[a + 1] = grown
          BY <4>4, <4>7, <5>2, SpliceOK
        <5> QED
          BY <5>1, <5>3
      <4>9. i \in 1 .. Len(r) /\ r[i] = grown
        BY <2>3, <4>8
      <4>10. From(r, t, i) <= Diff(end, t) /\ Diff(end, t) <= lim /\ r[i].start = pos
             /\ From(r, t, i) = off
        BY <1>4, <4>4, <4>9 DEF From
      <4>11. /\ SegsOK(x.segs, t, lim)
             /\ \A y \in Nat : Covered(x.segs, t, y) <=>
                   \/ Covered(r, t, y)
                   \/ From(r, t, i) <= y /\ y < Diff(end, t)
             /\ x.newest \in {pos, r[i].start}
             /\ \E k \in 1 .. Len(x.segs) : x.segs[k].start = r[i].start
        <5>1. PICK z : z = ExtendTail(r, i, end, pos)
          OBVIOUS
        <5>2. /\ SegsOK(z.segs, t, lim)
              /\ \A y \in Nat : Covered(z.segs, t, y) <=>
                   \/ Covered(r, t, y)
                   \/ From(r, t, i) <= y /\ y < Diff(end, t)
              /\ z.newest \in {pos, r[i].start}
              /\ \E k \in 1 .. Len(z.segs) : z.segs[k].start = r[i].start
          <6>1. end \in Pos /\ SegsOK(r, t, lim) /\ i \in 1 .. Len(r)
            BY <1>4, <4>8, <4>9
          <6>2. From(r, t, i) <= Diff(end, t) /\ Diff(end, t) <= lim
            BY <4>10
          <6> HIDE DEF F, T, E, off, en, n
          <6>3. PICK q \in {r}, m \in 1 .. Len(r), new2 \in {pos} : m = i
            BY <6>1
          <6>4. /\ z = ExtendTail(q, m, end, new2) /\ SegsOK(q, t, lim) /\ m \in 1 .. Len(q)
                /\ From(q, t, m) <= Diff(end, t) /\ Diff(end, t) <= lim
            BY <5>1, <6>1, <6>2, <6>3
          <6>5. /\ SegsOK(z.segs, t, lim)
                /\ \A y \in Nat : Covered(z.segs, t, y) <=>
                     \/ Covered(q, t, y)
                     \/ From(q, t, m) <= y /\ y < Diff(end, t)
                /\ z.newest \in {new2, q[m].start}
                /\ \E k \in 1 .. Len(z.segs) : z.segs[k].start = q[m].start
            BY <6>1, <6>4, ExtendTailOK
          <6> QED
            BY <6>3, <6>5
        <5> QED
          BY <4>1, <5>1, <5>2
      <4>12. Diff(grown.start, t) = off /\ Diff(grown.start, t) + grown.length = T(i)
        BY <4>4
      <4>13. \A j \in 1 .. n : j \in 1 .. i - 1 \/ j = i \/ j \in i + 1 .. n
        BY <2>3
      <4>14. \A j : j \in i + 1 .. n => j \in 1 .. n
        BY <2>3
      <4>15. ASSUME NEW y \in Nat
             PROVE  Covered(x.segs, t, y) <=> Covered(segs, t, y) \/ (off <= y /\ y < en)
        <5>1. Covered(x.segs, t, y) <=>
                 \/ \E j \in 1 .. i - 1 : F(j) <= y /\ y < T(j)
                 \/ off <= y /\ y < T(i)
                 \/ \E j \in i + 1 .. n : F(j) <= y /\ y < T(j)
                 \/ off <= y /\ y < en
          <6> HIDE DEF F, T
          <6> QED
            BY <4>8, <4>10, <4>11, <4>12
        <5> HIDE DEF F, T, off, en
        <5>2. off <= y /\ y < T(i) => (off <= y /\ y < en) \/ (F(i) <= y /\ y < T(i))
          BY <1>4, <4>3
        <5>3. F(i) <= y => off <= y
          BY <1>4, <4>2, <4>3
        <5> QED
          BY <2>3, <2>5, <2>c, <4>13, <4>14, <5>1, <5>2, <5>3
      <4> HIDE DEF F, T, off, en
      <4> QED
        BY <4>10, <4>11, <4>15 DEF Good
    <3>7. CASE /\ ~f_pos_lt(end, segs[i].start) /\ ~f_pos_lt(E(i), pos)
               /\ ~f_pos_lt(pos, segs[i].start)
      <4>1. x = ExtendTail(segs, i, end, NoSeg)
        BY <3>1, <3>7
      <4>2. ~(T(i) < off) /\ ~(off < F(i))
        BY <1>5, <2>3, <3>7
      <4>3. F(i) <= off /\ off <= T(i)
        <5> HIDE DEF F, T, off
        <5> QED
          BY <1>2, <1>4, <2>3, <4>2
      <4> HIDE DEF F, T, off, en, rest
      <4> QED
        BY <2>3, <2>e, <4>1, <4>3
    <3> QED
      BY <3>4, <3>5, <3>6, <3>7
  <2>8. Good(x)
    BY <2>6, <2>7
  <2> QED
    BY <1>4, <2>8 DEF x, Good
<1> QED
  BY <1>7, <1>8

\* ooo_segment_try_collect: the tail, moved by n bytes, goes on to the end of the
\* segment it has reached; what is left of the segments is what lies past it.
LEMMA CollectOK ==
  ASSUME NEW t \in Pos, NEW lim \in Nat, 2 * lim < W, NEW segs, SegsOK(segs, t, lim),
         NEW n \in Nat \ {0}, n <= lim
  PROVE  LET x == ooo_segment_try_collect(segs, n, Add(t, n))
         IN  \E m \in n .. lim :
               /\ x.tail \in Pos /\ x.tail = Add(t, m) /\ Diff(x.tail, t) = m
               /\ SegsOK(x.segs, x.tail, lim - m)
               /\ \A y \in Nat : Covered(x.segs, x.tail, y) <=> Covered(segs, t, y + m)
               /\ \A y \in n .. m - 1 : Covered(segs, t, y)
<1> DEFINE l == Len(segs)
           F(j) == From(segs, t, j)
           T(j) == To(segs, t, j)
           t1 == Add(t, n)
           diff(j) == Diff(t1, segs[j].start)
           past(j) == diff(j) < n /\ segs[j].length <= diff(j)
           IsI(j) == (\A k \in 1 .. j - 1 : past(k)) /\ (j <= l => ~past(j))
           i == CHOOSE j \in 1 .. l + 1 : IsI(j)
           reached == i <= l /\ diff(i) < n
           x == ooo_segment_try_collect(segs, n, t1)
<1>w. W \in Nat \ {0}
  BY Numbers
<1>1. segs \in Seq(Segment) /\ l \in Nat
  BY DEF SegsOK
<1>2. \A j \in 1 .. l : /\ segs[j].start \in Pos /\ Diff(segs[j].start, t) = F(j)
                        /\ segs[j].length \in Nat \ {0} /\ T(j) = F(j) + segs[j].length
                        /\ F(j) < T(j) /\ F(j) \in Nat /\ T(j) \in Nat
                        /\ F(j) > 0 /\ T(j) <= lim
  BY <1>1, SegEnd, SegType DEF To
<1>3. \A j, k \in 1 .. l : j < k => T(j) < F(k)
  BY DEF SegsOK
<1>4. Diff(t, t) = 0 /\ t1 \in Pos /\ Diff(t1, t) = n
  <2>1. Diff(t, t) = 0
    BY Counted
  <2>2. Diff(t, t) + n < W
    BY <1>w, <2>1
  <2> QED
    BY <2>1, <2>2, Counted
<1>5. ASSUME NEW j \in 1 .. l
      PROVE  /\ diff(j) < n <=> F(j) <= n
             /\ F(j) <= n => diff(j) = n - F(j)
             /\ past(j) <=> T(j) <= n
  <2>1. /\ segs[j].start \in Pos /\ Diff(segs[j].start, t) = F(j)
        /\ segs[j].length \in Nat \ {0} /\ T(j) = F(j) + segs[j].length
        /\ F(j) \in Nat /\ F(j) > 0 /\ T(j) <= lim
    BY <1>2
  <2>2. diff(j) = IF Diff(segs[j].start, t) <= Diff(t1, t)
                  THEN Diff(t1, t) - Diff(segs[j].start, t)
                  ELSE Diff(t1, t) - Diff(segs[j].start, t) + W
    BY <1>4, <2>1, Counted
  <2>3. diff(j) = IF F(j) <= n THEN n - F(j) ELSE n - F(j) + W
    BY <1>4, <2>1, <2>2
  <2> HIDE DEF F, T, diff
  <2> QED
    BY <1>w, <2>1, <2>3
<1>6. i \in 1 .. l + 1 /\ IsI(i)
  <2> DEFINE S == {j \in 1 .. l + 1 : j <= l => ~past(j)}
  <2>1. S \subseteq Nat /\ l + 1 \in S
    BY <1>1
  <2>2. PICK m \in S : \A y \in S : m <= y
    <3> HIDE DEF S
    <3> QED
      BY <2>1, Least
  <2>3. \A k \in 1 .. m - 1 : past(k)
    <3> SUFFICES ASSUME NEW k \in 1 .. m - 1
                 PROVE  past(k)
      OBVIOUS
    <3>1. k \in 1 .. l + 1 /\ k \notin S
      BY <1>1, <2>2
    <3> HIDE DEF past
    <3> QED
      BY <3>1
  <2>4. \E j \in 1 .. l + 1 : IsI(j)
    BY <2>2, <2>3
  <2> HIDE DEF IsI
  <2> QED
    BY <2>4
<1>7. x = [segs |-> SubSeq(segs, IF reached THEN i + 1 ELSE i, Len(segs)),
           tail |-> IF reached THEN Add(t1, segs[i].length - diff(i)) ELSE t1]
  BY DEF ooo_segment_try_collect
<1> HIDE DEF i, x
<1> DEFINE k == IF reached THEN i + 1 ELSE i
           m == IF reached THEN T(i) ELSE n
<1>8. /\ \A j \in 1 .. i - 1 : j \in 1 .. l /\ T(j) <= n
      /\ i <= l => i \in 1 .. l /\ n < T(i)
      /\ reached <=> i <= l /\ F(i) <= n
  <2>1. \A j \in 1 .. i - 1 : j \in 1 .. l
    BY <1>1, <1>6
  <2>2. i <= l => i \in 1 .. l
    BY <1>1, <1>6
  <2> HIDE DEF past, l, F, T, diff
  <2>3. i <= l => ~(T(i) <= n)
    BY <1>5, <1>6, <2>2
  <2> QED
    BY <1>2, <1>5, <1>6, <2>1, <2>2, <2>3
<1>9. /\ k \in 1 .. l + 1 /\ m \in n .. lim
      /\ \A j \in k .. l : j \in 1 .. l /\ F(j) > m
      /\ \A j \in 1 .. k - 1 : j \in 1 .. l /\ T(j) <= m
  <2>1. CASE reached
    <3>1. k = i + 1 /\ m = T(i) /\ i \in 1 .. l /\ n < T(i)
      BY <1>8, <2>1
    <3>2. k \in 1 .. l + 1 /\ (\A j \in k .. l : j \in 1 .. l /\ i < j)
          /\ \A j \in 1 .. k - 1 : j = i \/ j \in 1 .. i - 1
      BY <1>1, <3>1
    <3> HIDE DEF F, T, k, m, l, reached
    <3> QED
      BY <1>2, <1>3, <1>8, <3>1, <3>2
  <2>2. CASE ~reached
    <3>1. k = i /\ m = n
      BY <2>2
    <3>2. (\A j \in i .. l : j \in 1 .. l /\ i \in 1 .. l /\ (j = i \/ i < j)) /\ i \in 1 .. l + 1
      BY <1>1, <1>6
    <3>3. i <= l => n < F(i)
      <4> HIDE DEF F, T, l, reached
      <4> QED
        BY <1>2, <1>8, <2>2
    <3>4. \A j \in i .. l : i <= l
      BY <1>1, <1>6
    <3> HIDE DEF F, T, k, m, l, reached
    <3> QED
      BY <1>2, <1>3, <1>8, <3>1, <3>2, <3>3, <3>4
  <2> QED
    BY <2>1, <2>2
<1>10. x.segs = SubSeq(segs, k, l) /\ x.tail = IF reached THEN Add(t1, segs[i].length - diff(i)) ELSE t1
  BY <1>7
<1> HIDE DEF reached, k
<1>11. x.tail \in Pos /\ Diff(x.tail, t) = m /\ x.tail = Add(t, m)
  <2>1. x.tail \in Pos /\ Diff(x.tail, t) = m
    <3>1. CASE reached
      <4>1. i \in 1 .. l /\ F(i) <= n /\ n < T(i) /\ m = T(i)
        BY <1>8, <3>1
      <4>2. /\ segs[i].length \in Nat \ {0} /\ T(i) = F(i) + segs[i].length
            /\ F(i) \in Nat /\ T(i) \in Nat /\ T(i) <= lim /\ diff(i) = n - F(i)
        BY <1>2, <1>5, <4>1
      <4> HIDE DEF F, T, diff
      <4>3. PICK a \in Nat : a = segs[i].length - diff(i) /\ n + a = T(i)
        <5>1. PICK b \in Nat, f \in Nat : b = segs[i].length /\ f = F(i)
          BY <4>2
        <5>2. T(i) = f + b /\ n < f + b /\ f <= n
          BY <4>1, <4>2, <5>1
        <5>3. b - (n - f) \in Nat /\ n + (b - (n - f)) = f + b
          BY <5>2
        <5> QED
          BY <4>2, <5>1, <5>2, <5>3
      <4>4. Diff(t1, t) + a < W
        BY <1>4, <1>w, <4>1, <4>2, <4>3
      <4>5. Add(t1, a) \in Pos /\ Diff(Add(t1, a), t) = Diff(t1, t) + a
        BY <1>4, <4>4, Counted
      <4> QED
        BY <1>4, <1>10, <3>1, <4>1, <4>3, <4>5
    <3>2. CASE ~reached
      BY <1>4, <1>10, <3>2
    <3> QED
      BY <3>1, <3>2
  <2>2. Add(t, Diff(x.tail, t)) = x.tail
    BY <2>1, Counted
  <2> QED
    BY <2>1, <2>2
<1> DEFINE r == x.segs
           u == x.tail
<1> HIDE DEF m
<1>12. /\ r \in Seq(Segment) /\ Len(r) = l + 1 - k
       /\ \A j \in 1 .. Len(r) : r[j] = segs[k + j - 1]
  <2>1. k \in Int /\ l \in Int /\ k \in 1 .. l + 1
    BY <1>1, <1>9
  <2>2. /\ SubSeq(segs, k, l) \in Seq(Segment)
        /\ Len(SubSeq(segs, k, l)) = IF k <= l THEN l - k + 1 ELSE 0
        /\ \A j \in 1 .. l - k + 1 : SubSeq(segs, k, l)[j] = segs[k + j - 1]
    BY <1>1, <2>1, SubSeqProperties
  <2> QED
    BY <1>10, <2>1, <2>2
<1> HIDE DEF r, u
<1>13. ASSUME NEW j \in 1 .. Len(r)
       PROVE  /\ k + j - 1 \in k .. l /\ k + j - 1 \in 1 .. l
              /\ From(r, u, j) = F(k + j - 1) - m /\ To(r, u, j) = T(k + j - 1) - m
  <2>1. PICK g \in k .. l : g = k + j - 1
    <3>1. k \in Nat /\ l \in Nat /\ Len(r) = l + 1 - k
      BY <1>1, <1>9, <1>12
    <3> HIDE DEF l
    <3>2. k + j - 1 \in k .. l
      BY <3>1
    <3> QED
      BY <3>2
  <2>2. g \in 1 .. l /\ F(g) > m /\ r[j] = segs[g]
    BY <1>9, <1>12, <2>1
  <2>3. /\ segs[g].start \in Pos /\ Diff(segs[g].start, t) = F(g)
        /\ segs[g].length \in Nat \ {0} /\ T(g) = F(g) + segs[g].length /\ F(g) \in Nat
    BY <1>2, <2>2
  <2>4. Diff(segs[g].start, u) = IF Diff(u, t) <= Diff(segs[g].start, t)
                                 THEN Diff(segs[g].start, t) - Diff(u, t)
                                 ELSE Diff(segs[g].start, t) - Diff(u, t) + W
    BY <1>11, <2>3, Counted DEF u
  <2>5. Diff(segs[g].start, u) = F(g) - m
    <3> HIDE DEF F, T
    <3> QED
      BY <1>9, <1>11, <2>2, <2>3, <2>4 DEF u
  <2>6. From(r, u, j) = F(g) - m
    BY <2>2, <2>5 DEF From
  <2>7. To(r, u, j) = From(r, u, j) + segs[g].length
    BY <2>2 DEF To
  <2>8. To(r, u, j) = T(g) - m
    <3>1. PICK b \in Nat, f \in Nat, d \in Nat : b = segs[g].length /\ f = F(g) /\ d = m
      BY <1>9, <2>3
    <3> QED
      BY <2>3, <2>6, <2>7, <3>1
  <2> HIDE DEF F, T
  <2> QED
    BY <2>1, <2>2, <2>6, <2>8
<1>14. SegsOK(r, u, lim - m)
  <2>1. ASSUME NEW j \in 1 .. Len(r)
        PROVE  From(r, u, j) > 0 /\ To(r, u, j) <= lim - m
    <3>1. PICK g \in k .. l : g = k + j - 1 /\ g \in 1 .. l
      BY <1>13
    <3>2. From(r, u, j) = F(g) - m /\ To(r, u, j) = T(g) - m /\ F(g) > m /\ T(g) <= lim
      BY <1>2, <1>9, <1>13, <3>1
    <3>3. F(g) \in Nat /\ T(g) \in Nat /\ m \in Nat
      BY <1>2, <1>9, <3>1
    <3> HIDE DEF F, T
    <3> QED
      BY <3>2, <3>3
  <2>2. ASSUME NEW a \in 1 .. Len(r), NEW b \in 1 .. Len(r), a < b
        PROVE  To(r, u, a) < From(r, u, b)
    <3>1. PICK g \in 1 .. l, h \in 1 .. l : g = k + a - 1 /\ h = k + b - 1
      BY <1>13
    <3>2. g < h
      BY <1>1, <1>9, <2>2, <3>1
    <3>3. To(r, u, a) = T(g) - m /\ From(r, u, b) = F(h) - m /\ T(g) < F(h)
      BY <1>3, <1>13, <3>1, <3>2
    <3>4. F(h) \in Nat /\ T(g) \in Nat /\ m \in Nat
      BY <1>2, <1>9, <3>1
    <3> HIDE DEF F, T
    <3> QED
      BY <3>3, <3>4
  <2> QED
    BY <1>12, <2>1, <2>2 DEF SegsOK
<1>15. ASSUME NEW y \in Nat
       PROVE  Covered(r, u, y) <=> Covered(segs, t, y + m)
  <2>1. /\ Covered(r, u, y) <=> \E j \in 1 .. Len(r) : From(r, u, j) <= y /\ y < To(r, u, j)
        /\ Covered(segs, t, y + m) <=> \E j \in 1 .. l : F(j) <= y + m /\ y + m < T(j)
    BY DEF Covered
  <2>m. m \in Nat
    BY <1>9
  <2>2. ASSUME NEW j \in 1 .. Len(r), From(r, u, j) <= y, y < To(r, u, j)
        PROVE  \E h \in 1 .. l : F(h) <= y + m /\ y + m < T(h)
    <3>1. PICK g \in 1 .. l : g = k + j - 1
      BY <1>13
    <3>2. From(r, u, j) = F(g) - m /\ To(r, u, j) = T(g) - m
      BY <1>13, <3>1
    <3>3. F(g) \in Nat /\ T(g) \in Nat
      BY <1>2
    <3> HIDE DEF F, T
    <3>4. F(g) <= y + m /\ y + m < T(g)
      BY <2>2, <2>m, <3>2, <3>3
    <3> QED
      BY <3>4
  <2>3. ASSUME NEW g \in 1 .. l, F(g) <= y + m, y + m < T(g)
        PROVE  \E j \in 1 .. Len(r) : From(r, u, j) <= y /\ y < To(r, u, j)
    <3>1. F(g) \in Nat /\ T(g) \in Nat
      BY <1>2
    <3>2. ~(g \in 1 .. k - 1)
      <4> HIDE DEF F, T
      <4> QED
        BY <1>9, <2>3, <2>m, <3>1
    <3>3. PICK j \in 1 .. Len(r) : g = k + j - 1
      <4>1. g - k + 1 \in 1 .. Len(r) /\ g = k + (g - k + 1) - 1
        BY <1>1, <1>9, <1>12, <3>2
      <4> QED
        BY <4>1
    <3>4. From(r, u, j) = F(g) - m /\ To(r, u, j) = T(g) - m
      BY <1>13, <3>3
    <3> HIDE DEF F, T
    <3>5. From(r, u, j) <= y /\ y < To(r, u, j)
      BY <2>3, <2>m, <3>1, <3>4
    <3> QED
      BY <3>5
  <2> QED
    BY <2>1, <2>2, <2>3
<1>16. \A y \in n .. m - 1 : Covered(segs, t, y)
  <2> SUFFICES ASSUME NEW y \in n .. m - 1
               PROVE  Covered(segs, t, y)
    OBVIOUS
  <2>1. reached
    <3>1. ~reached => m = n
      BY DEF m
    <3> QED
      BY <1>9, <3>1
  <2>2. m = T(i) /\ i \in 1 .. l /\ F(i) <= n
    BY <1>8, <2>1 DEF m
  <2>3. F(i) <= y /\ y < T(i)
    <3>1. F(i) \in Nat
      BY <1>2, <2>2
    <3> HIDE DEF F, T
    <3> QED
      BY <1>9, <2>2, <3>1
  <2> QED
    BY <2>2, <2>3 DEF Covered
<1> QED
  BY <1>9, <1>11, <1>14, <1>15, <1>16 DEF r, u, x

-----------------------------------------------------------------------------
(* The chunks of a list, counted from a position b.                        *)

\* The first byte of a chunk, and the byte after its last.
Beg(ch, b, c) == Diff(ch[c].start, b)
End(ch, b, c) == Beg(ch, b, c) + ChunkLen[c]

\* The list from s to e is a row of bytes without a gap, less than half the
\* position space from b.
Placed(ch, b, s, e) ==
    /\ Linked(ch) /\ s \in Chunks /\ e \in List(ch, s) /\ ch[e].next = NoChunk
    /\ b \in Pos /\ \A c \in List(ch, s) : ch[c].start \in Pos
    /\ \A c \in List(ch, s) : c # e => Beg(ch, b, ch[c].next) = End(ch, b, c)
    /\ 2 * End(ch, b, e) < W

\* Chunk c of the list from s holds byte x.
Holds(ch, b, s, c, x) == c \in List(ch, s) /\ Beg(ch, b, c) <= x /\ x < End(ch, b, c)

\* The numbers of a placed list.
LEMMA PlacedType ==
  ASSUME NEW ch, NEW b, NEW s, NEW e, Placed(ch, b, s, e)
  PROVE  /\ s \in List(ch, s) /\ List(ch, s) \subseteq Chunks /\ Closed(ch, List(ch, s))
         /\ \A c \in List(ch, s) :
              /\ c \in Chunks /\ ch[c].start \in Pos
              /\ Beg(ch, b, c) \in Nat /\ ChunkLen[c] \in Nat \ {0} /\ End(ch, b, c) \in Nat
              /\ Beg(ch, b, c) < End(ch, b, c) /\ Beg(ch, b, c) < W
              /\ End(ch, b, c) = Beg(ch, b, c) + ChunkLen[c]
              /\ c # e => /\ ch[c].next \in List(ch, s) /\ ch[c].next # NoChunk
                          /\ Beg(ch, b, ch[c].next) = End(ch, b, c)
<1>1. s \in List(ch, s) /\ List(ch, s) \subseteq Chunks /\ Closed(ch, List(ch, s))
  BY ListLeast DEF Placed
<1>2. ASSUME NEW c \in List(ch, s)
      PROVE  /\ c \in Chunks /\ ch[c].start \in Pos
             /\ Beg(ch, b, c) \in Nat /\ ChunkLen[c] \in Nat \ {0} /\ End(ch, b, c) \in Nat
             /\ Beg(ch, b, c) < End(ch, b, c) /\ Beg(ch, b, c) < W
             /\ End(ch, b, c) = Beg(ch, b, c) + ChunkLen[c]
  <2>1. c \in Chunks /\ ChunkLen[c] \in Nat \ {0}
    BY <1>1, Numbers
  <2>2. ch[c].start \in Pos /\ b \in Pos
    BY DEF Placed
  <2>3. Beg(ch, b, c) \in Nat /\ Beg(ch, b, c) < W
    BY <2>2, Counted DEF Beg
  <2>4. End(ch, b, c) = Beg(ch, b, c) + ChunkLen[c]
    BY DEF End
  <2> QED
    BY <2>1, <2>2, <2>3, <2>4
<1>3. ASSUME NEW c \in List(ch, s), c # e
      PROVE  /\ ch[c].next \in List(ch, s) /\ ch[c].next # NoChunk
             /\ Beg(ch, b, ch[c].next) = End(ch, b, c)
  <2>1. ch[c].next # NoChunk
    <3>1. \A d \in List(ch, s) : ch[d].next = NoChunk => d = e
      BY ListEnd DEF Placed
    <3> QED
      BY <1>3, <3>1
  <2>2. Beg(ch, b, ch[c].next) = End(ch, b, c)
    BY <1>3 DEF Placed
  <2> QED
    BY <1>1, <2>1, <2>2 DEF Closed
<1> QED
  BY <1>1, <1>2, <1>3

\* What is left of a placed list is placed.
LEMMA PlacedPart ==
  ASSUME NEW ch, NEW b, NEW s, NEW e, Placed(ch, b, s, e), NEW c \in List(ch, s)
  PROVE  Placed(ch, b, c, e) /\ List(ch, c) \subseteq List(ch, s) /\ e \in List(ch, c)
<1>1. Linked(ch) /\ s \in Chunks /\ e \in List(ch, s) /\ ch[e].next = NoChunk
  BY DEF Placed
<1>2. c \in Chunks /\ List(ch, c) \subseteq List(ch, s)
  BY <1>1, ListPart
<1>3. e \in List(ch, c)
  BY <1>1, ListEnd
<1> QED
  BY <1>1, <1>2, <1>3 DEF Placed

\* The list goes up: no chunk of it begins before the first or ends after the
\* last.
LEMMA Rising ==
  ASSUME NEW ch, NEW b, NEW s, NEW e, Placed(ch, b, s, e)
  PROVE  \A c \in List(ch, s) :
            /\ c = s \/ End(ch, b, s) <= Beg(ch, b, c)
            /\ End(ch, b, c) <= End(ch, b, e)
<1>1. /\ s \in List(ch, s) /\ Closed(ch, List(ch, s)) /\ Linked(ch) /\ s \in Chunks
      /\ \A S : s \in S /\ Closed(ch, S) => List(ch, s) \subseteq S
  BY PlacedType, ListLeast DEF Placed
<1>2. \A c \in List(ch, s) : /\ Beg(ch, b, c) \in Nat /\ End(ch, b, c) \in Nat
                             /\ Beg(ch, b, c) < End(ch, b, c)
                             /\ c # e => /\ ch[c].next \in List(ch, s)
                                         /\ Beg(ch, b, ch[c].next) = End(ch, b, c)
  BY PlacedType
<1>e. ch[e].next = NoChunk
  BY DEF Placed
<1> DEFINE S == {c \in List(ch, s) : c = s \/ End(ch, b, s) <= Beg(ch, b, c)}
<1>3. List(ch, s) \subseteq S
  <2>1. s \in S
    BY <1>1
  <2>2. ASSUME NEW c \in S, ch[c].next # NoChunk
        PROVE  ch[c].next \in S
    <3>1. c \in List(ch, s) /\ c # e
      BY <1>e, <2>2
    <3>2. /\ ch[c].next \in List(ch, s) /\ Beg(ch, b, ch[c].next) = End(ch, b, c)
          /\ End(ch, b, c) \in Nat /\ Beg(ch, b, c) \in Nat /\ Beg(ch, b, c) < End(ch, b, c)
          /\ End(ch, b, s) \in Nat
      BY <1>1, <1>2, <3>1
    <3>3. c = s \/ End(ch, b, s) <= Beg(ch, b, c)
      BY <2>2
    <3>4. End(ch, b, s) <= Beg(ch, b, ch[c].next)
      BY <3>2, <3>3
    <3> QED
      BY <3>2, <3>4
  <2>3. Closed(ch, S)
    BY <2>2 DEF Closed
  <2> HIDE DEF S
  <2> QED
    BY <1>1, <2>1, <2>3
<1>4. ASSUME NEW c \in List(ch, s)
      PROVE  End(ch, b, c) <= End(ch, b, e)
  <2>1. Placed(ch, b, c, e) /\ e \in List(ch, c) /\ List(ch, c) \subseteq List(ch, s)
    BY PlacedPart
  <2>2. /\ c \in List(ch, c) /\ Closed(ch, List(ch, c))
        /\ \A T : c \in T /\ Closed(ch, T) => List(ch, c) \subseteq T
    BY <2>1, ListLeast DEF Placed
  <2> DEFINE R == {d \in List(ch, c) : End(ch, b, c) <= End(ch, b, d)}
  <2>3. c \in R
    BY <1>2, <2>2
  <2>4. ASSUME NEW d \in R, ch[d].next # NoChunk
        PROVE  ch[d].next \in R
    <3>1. d \in List(ch, s) /\ d # e /\ ch[d].next \in List(ch, c)
      BY <1>e, <2>1, <2>2, <2>4 DEF Closed
    <3>2. /\ Beg(ch, b, ch[d].next) = End(ch, b, d) /\ End(ch, b, d) \in Nat
          /\ Beg(ch, b, ch[d].next) < End(ch, b, ch[d].next)
          /\ End(ch, b, ch[d].next) \in Nat /\ End(ch, b, c) \in Nat
      BY <1>2, <3>1
    <3>3. End(ch, b, c) <= End(ch, b, d)
      BY <2>4
    <3>4. End(ch, b, c) <= End(ch, b, ch[d].next)
      BY <3>2, <3>3
    <3> QED
      BY <3>1, <3>4
  <2>5. Closed(ch, R)
    BY <2>4 DEF Closed
  <2>6. List(ch, c) \subseteq R
    <3> HIDE DEF R
    <3> QED
      BY <2>2, <2>3, <2>5
  <2> QED
    BY <2>1, <2>6
<1> QED
  BY <1>3, <1>4

\* Two chunks of a list lie one before the other, and what is left of the list
\* from one of them is what lies at or past it.
LEMMA Ordered ==
  ASSUME NEW ch, NEW b, NEW s, NEW e, Placed(ch, b, s, e)
  PROVE  /\ \A c, d \in List(ch, s) : \/ c = d
                                      \/ End(ch, b, c) <= Beg(ch, b, d)
                                      \/ End(ch, b, d) <= Beg(ch, b, c)
         /\ \A c, d \in List(ch, s) : d \in List(ch, c) <=> Beg(ch, b, c) <= Beg(ch, b, d)
<1>1. /\ s \in List(ch, s) /\ Closed(ch, List(ch, s)) /\ Linked(ch) /\ s \in Chunks
      /\ List(ch, s) \subseteq Chunks
      /\ \A S : s \in S /\ Closed(ch, S) => List(ch, s) \subseteq S
  BY PlacedType, ListLeast DEF Placed
<1>2. \A c \in List(ch, s) : /\ Beg(ch, b, c) \in Nat /\ End(ch, b, c) \in Nat
                             /\ Beg(ch, b, c) < End(ch, b, c)
  BY PlacedType
<1>3. ASSUME NEW c \in List(ch, s), NEW d \in List(ch, s)
      PROVE  d \in List(ch, c) \/ c \in List(ch, d)
  <2> DEFINE S == {x \in List(ch, s) : x \in List(ch, c) \/ c \in List(ch, x)}
  <2>1. s \in S
    BY <1>1
  <2>2. ASSUME NEW x \in S, ch[x].next # NoChunk
        PROVE  ch[x].next \in S
    <3>1. x \in Chunks /\ ch[x].next \in List(ch, s) /\ c \in Chunks
      BY <1>1, <2>2 DEF Closed
    <3>2. CASE x \in List(ch, c)
      <4>1. Closed(ch, List(ch, c))
        BY <1>1, <3>1, ListLeast
      <4> QED
        BY <2>2, <3>1, <3>2, <4>1 DEF Closed
    <3>3. CASE c \in List(ch, x)
      <4>1. List(ch, x) = {x} \union List(ch, ch[x].next)
        BY <1>1, <2>2, <3>1, ListStep
      <4>2. CASE c = x
        <5>1. c \in List(ch, c) /\ Closed(ch, List(ch, c))
          BY <1>1, <3>1, ListLeast
        <5> QED
          BY <2>2, <3>1, <4>2, <5>1 DEF Closed
      <4> QED
        BY <3>1, <3>3, <4>1, <4>2
    <3> QED
      BY <2>2, <3>2, <3>3
  <2>3. Closed(ch, S)
    BY <2>2 DEF Closed
  <2>4. List(ch, s) \subseteq S
    <3> HIDE DEF S
    <3> QED
      BY <1>1, <2>1, <2>3
  <2> QED
    BY <2>4
<1>4. ASSUME NEW c \in List(ch, s), NEW d \in List(ch, c)
      PROVE  d = c \/ End(ch, b, c) <= Beg(ch, b, d)
  <2>1. Placed(ch, b, c, e)
    BY PlacedPart
  <2> QED
    BY <2>1, Rising
<1>5. ASSUME NEW c \in List(ch, s), NEW d \in List(ch, s)
      PROVE  c = d \/ End(ch, b, c) <= Beg(ch, b, d) \/ End(ch, b, d) <= Beg(ch, b, c)
  BY <1>3, <1>4
<1>6. ASSUME NEW c \in List(ch, s), NEW d \in List(ch, s)
      PROVE  d \in List(ch, c) <=> Beg(ch, b, c) <= Beg(ch, b, d)
  <2>1. c \in List(ch, c)
    BY <1>1, ListLeast
  <2>2. d \in List(ch, c) => Beg(ch, b, c) <= Beg(ch, b, d)
    BY <1>2, <1>4
  <2>3. ~(d \in List(ch, c)) => ~(Beg(ch, b, c) <= Beg(ch, b, d))
    <3>1. ~(d \in List(ch, c)) => c \in List(ch, d) /\ c # d
      BY <1>3, <2>1
    <3> QED
      BY <1>2, <1>4, <3>1
  <2> QED
    BY <2>2, <2>3
<1> QED
  BY <1>5, <1>6

\* Every byte between the first and the last is in some chunk.
LEMMA NoGap ==
  ASSUME NEW ch, NEW b, NEW s, NEW e, Placed(ch, b, s, e),
         NEW x \in Nat, Beg(ch, b, s) <= x, x < End(ch, b, e)
  PROVE  \E c \in List(ch, s) : Holds(ch, b, s, c, x)
<1>1. /\ s \in List(ch, s) /\ Closed(ch, List(ch, s)) /\ Linked(ch) /\ s \in Chunks
      /\ \A S : s \in S /\ Closed(ch, S) => List(ch, s) \subseteq S
      /\ e \in List(ch, s) /\ ch[e].next = NoChunk
  BY PlacedType, ListLeast DEF Placed
<1>2. \A c \in List(ch, s) : /\ Beg(ch, b, c) \in Nat /\ End(ch, b, c) \in Nat
                             /\ c # e => /\ ch[c].next \in List(ch, s)
                                         /\ Beg(ch, b, ch[c].next) = End(ch, b, c)
  BY PlacedType
<1> SUFFICES ASSUME \A c \in List(ch, s) : ~Holds(ch, b, s, c, x)
             PROVE  FALSE
  OBVIOUS
<1>3. \A c \in List(ch, s) : Beg(ch, b, c) <= x => End(ch, b, c) <= x
  BY <1>2 DEF Holds
<1> DEFINE S == {c \in List(ch, s) : End(ch, b, c) <= x}
<1>4. s \in S
  BY <1>1, <1>3
<1>5. ASSUME NEW c \in S, ch[c].next # NoChunk
      PROVE  ch[c].next \in S
  <2>1. c \in List(ch, s) /\ c # e
    BY <1>1, <1>5
  <2>2. ch[c].next \in List(ch, s) /\ Beg(ch, b, ch[c].next) = End(ch, b, c)
    BY <1>2, <2>1
  <2> QED
    BY <1>3, <2>2
<1>6. Closed(ch, S)
  BY <1>5 DEF Closed
<1>7. List(ch, s) \subseteq S
  <2> HIDE DEF S
  <2> QED
    BY <1>1, <1>4, <1>6
<1>8. End(ch, b, e) <= x
  BY <1>1, <1>7
<1> QED
  BY <1>1, <1>2, <1>8

\* f_chunk_includes_pos on a chunk of the list.
LEMMA Includes ==
  ASSUME NEW ch, NEW b, NEW s, NEW e, Placed(ch, b, s, e),
         NEW p \in Pos, 2 * Diff(p, b) < W, NEW c \in List(ch, s)
  PROVE  /\ f_chunk_includes_pos(ch, c, p) <=> Holds(ch, b, s, c, Diff(p, b))
         /\ Add(ch[c].start, ChunkLen[c]) \in Pos
         /\ Diff(Add(ch[c].start, ChunkLen[c]), b) = End(ch, b, c)
         /\ f_pos_lt(p, Add(ch[c].start, ChunkLen[c])) <=> Diff(p, b) < End(ch, b, c)
<1>w. W \in Nat \ {0}
  BY Numbers
<1>1. /\ ch[c].start \in Pos /\ Beg(ch, b, c) \in Nat /\ ChunkLen[c] \in Nat \ {0}
      /\ End(ch, b, c) \in Nat /\ Beg(ch, b, c) < End(ch, b, c) /\ e \in List(ch, s)
      /\ End(ch, b, c) = Beg(ch, b, c) + ChunkLen[c] /\ b \in Pos
  BY PlacedType DEF Placed
<1>2. End(ch, b, c) <= End(ch, b, e) /\ End(ch, b, e) \in Nat /\ 2 * End(ch, b, e) < W
  BY <1>1, Rising, PlacedType DEF Placed
<1>3. Diff(ch[c].start, b) = Beg(ch, b, c)
  BY DEF Beg
<1>4. 2 * Beg(ch, b, c) < W /\ 2 * End(ch, b, c) < W /\ Beg(ch, b, c) + ChunkLen[c] < W
  BY <1>w, <1>1, <1>2
<1>5. PICK len \in Nat : len = ChunkLen[c]
  BY <1>1
<1>6. PICK q : q = Add(ch[c].start, len)
  OBVIOUS
<1>7. q \in Pos /\ Diff(q, b) = End(ch, b, c)
  BY <1>1, <1>3, <1>4, <1>5, <1>6, Counted
<1>8. f_pos_lt(p, ch[c].start) <=> Diff(p, b) < Beg(ch, b, c)
  BY <1>1, <1>3, <1>4, Compared
<1>9. f_pos_lt(p, q) <=> Diff(p, b) < End(ch, b, c)
  BY <1>1, <1>4, <1>7, Compared
<1>10. Diff(p, b) \in Nat
  BY <1>1, Counted
<1>11. f_chunk_includes_pos(ch, c, p) <=> ~f_pos_lt(p, ch[c].start) /\ f_pos_lt(p, q)
  BY <1>5, <1>6 DEF f_chunk_includes_pos
<1> QED
  BY <1>1, <1>5, <1>6, <1>7, <1>8, <1>9, <1>10, <1>11 DEF Holds

-----------------------------------------------------------------------------
(* Searching and walking a placed list.                                    *)

\* Nothing follows a null pointer.
LEMMA ListNone ==
  ASSUME NEW ch, Linked(ch)
  PROVE  List(ch, NoChunk) = {}
<1> DEFINE w == Walk(ch, NoChunk, 0)
<1>1. w[0].c = NoChunk
  BY WalkEqn
<1>2. \A i, j \in 0 .. N : i <= j /\ w[i].c = NoChunk => w[j].c = NoChunk
  BY WalkType DEF Ptr
<1>3. List(ch, NoChunk) = {w[n].c : n \in 0 .. N} \ {NoChunk}
  BY DEF List, N
<1> HIDE DEF w
<1>4. 0 \in 0 .. N /\ \A j \in 0 .. N : 0 <= j
  BY NType
<1>5. \A j \in 0 .. N : w[j].c = NoChunk
  BY <1>1, <1>2, <1>4
<1> QED
  BY <1>3, <1>5

\* A search returns the first chunk of those sought.
LEMMA FirstFromFirst ==
  ASSUME NEW ch, Linked(ch), NEW c \in Chunks, NEW those, NoChunk \notin those
  PROVE  LET r == FirstFrom(ch, c, those)
         IN  /\ r = NoChunk => \A d \in List(ch, c) : d \notin those
             /\ r # NoChunk => /\ r \in List(ch, c) /\ r \in those
                               /\ \A d \in List(ch, c) : d \in those => d \in List(ch, r)
<1> DEFINE w == Walk(ch, c, 0)
           S == {n \in DOMAIN w : w[n].c \in those \union {NoChunk}}
           f == CHOOSE n \in S : \A m \in S : n <= m
           r == FirstFrom(ch, c, those)
<1>0. c \in Ptr
  BY DEF Ptr
<1>1. /\ DOMAIN w = 0 .. N /\ w[0].c = c
      /\ \A n \in 0 .. N - 1 : w[n + 1].c = ch[w[n].c].next
  BY WalkEqn
<1>2. /\ \A n \in 0 .. N : w[n].c \in Ptr
      /\ \A i, j \in 0 .. N : i <= j /\ w[i].c = NoChunk => w[j].c = NoChunk
  BY <1>0, WalkType
<1>3. List(ch, c) = {w[n].c : n \in 0 .. N} \ {NoChunk}
  BY DEF List, N
<1>4. r = IF S = {} THEN NoChunk ELSE w[f].c
  BY DEF FirstFrom
<1> HIDE DEF w
<1>5. S \subseteq 0 .. N
  BY <1>1
<1>6. S # {} => f \in S /\ \A m \in S : f <= m
  <2>1. S \subseteq Nat
    BY <1>5
  <2> HIDE DEF S
  <2>2. S # {} => \E x \in S : \A y \in S : x <= y
    BY <2>1, Least
  <2> QED
    BY <2>2
<1> HIDE DEF f, r
<1>7. ASSUME NEW d \in List(ch, c), d \in those
      PROVE  S # {} /\ w[f].c \in those /\ d \in List(ch, w[f].c)
  <2>1. PICK m \in 0 .. N : d = w[m].c /\ d # NoChunk
    BY <1>3
  <2>2. m \in S
    BY <1>1, <1>7, <2>1
  <2>3. f \in S /\ f <= m /\ f \in 0 .. N
    BY <1>5, <1>6, <2>2
  <2>4. w[f].c # NoChunk
    BY <1>2, <2>1, <2>3
  <2>5. w[f].c \in those
    BY <2>3, <2>4
  <2>6. w[f].c \in Chunks
    BY <1>2, <2>3, <2>4 DEF Ptr
  <2>7. w[f].c \in List(ch, w[f].c) /\ Closed(ch, List(ch, w[f].c))
    BY <2>6, ListLeast
  <2> DEFINE G == {n \in 0 .. N : f <= n /\ n <= m => w[n].c \in List(ch, w[f].c)}
  <2>8. 0 \in G
    <3>1. f <= 0 => f = 0
      BY <2>3, NType
    <3> QED
      BY <2>7, <3>1, NType
  <2>9. ASSUME NEW n \in 0 .. N - 1, n \in G
        PROVE  n + 1 \in G
    <3>1. n + 1 \in 0 .. N /\ n \in 0 .. N
      BY NType
    <3>2. SUFFICES ASSUME f <= n + 1, n + 1 <= m
                   PROVE  w[n + 1].c \in List(ch, w[f].c)
      BY <3>1
    <3>3. CASE f = n + 1
      BY <2>7, <3>3
    <3>4. CASE f <= n
      <4>1. w[n].c \in List(ch, w[f].c)
        BY <2>9, <3>2, <3>4
      <4>2. w[n + 1].c # NoChunk
        BY <1>2, <2>1, <3>1, <3>2
      <4>3. w[n + 1].c = ch[w[n].c].next
        BY <1>1
      <4> QED
        BY <2>7, <4>1, <4>2, <4>3 DEF Closed
    <3> QED
      BY <2>3, <3>2, <3>3, <3>4
  <2>10. \A n \in 0 .. N - 1 : n \in G => n + 1 \in G
    BY <2>9
  <2>11. m \in G
    <3> HIDE DEF G
    <3>1. \A n \in 0 .. N : n \in G
      BY <2>8, <2>10, NType, Induct
    <3> QED
      BY <3>1
  <2> QED
    BY <2>1, <2>3, <2>5, <2>11
<1>8. r # NoChunk => r \in those /\ r \in List(ch, c)
  BY <1>1, <1>3, <1>4, <1>5, <1>6
<1> HIDE DEF S
<1> QED
  BY <1>4, <1>7, <1>8 DEF r

\* svm_fifo_find_next_chunk finds the chunk that holds a position, unless the
\* position is before c or at the end of the list.
LEMMA FindNext ==
  ASSUME NEW ch, NEW b, NEW s, NEW e, Placed(ch, b, s, e), NEW c \in List(ch, s),
         NEW p \in Pos, Diff(p, b) <= End(ch, b, e)
  PROVE  LET r == svm_fifo_find_next_chunk(ch, c, p)
         IN  /\ Beg(ch, b, c) <= Diff(p, b) /\ Diff(p, b) < End(ch, b, e) =>
                  r \in List(ch, c) /\ Holds(ch, b, s, r, Diff(p, b)) /\ r # NoChunk
             /\ ~(Beg(ch, b, c) <= Diff(p, b) /\ Diff(p, b) < End(ch, b, e)) => r = NoChunk
<1> DEFINE x == Diff(p, b)
           those == {d \in Chunks : f_chunk_includes_pos(ch, d, p)}
           r == svm_fifo_find_next_chunk(ch, c, p)
<1>w. W \in Nat \ {0} /\ NoChunk \notin Chunks
  BY Numbers
<1>1. Linked(ch) /\ b \in Pos /\ e \in List(ch, s) /\ 2 * End(ch, b, e) < W
  BY DEF Placed
<1>2. /\ c \in Chunks /\ End(ch, b, e) \in Nat /\ x \in Nat
      /\ List(ch, s) \subseteq Chunks
  BY <1>1, PlacedType, Counted
<1>3. 2 * x < W
  BY <1>w, <1>1, <1>2
<1>4. \A d \in List(ch, s) : d \in those <=> Holds(ch, b, s, d, x)
  <2>1. \A d \in List(ch, s) : f_chunk_includes_pos(ch, d, p) <=> Holds(ch, b, s, d, x)
    BY <1>3, Includes
  <2> QED
    BY <1>2, <2>1
<1>5. r = FirstFrom(ch, c, those) /\ NoChunk \notin those
  BY <1>w DEF svm_fifo_find_next_chunk
<1> HIDE DEF those, r
<1>6. /\ r = NoChunk => \A d \in List(ch, c) : d \notin those
      /\ r # NoChunk => r \in List(ch, c) /\ r \in those
  BY <1>1, <1>2, <1>5, FirstFromFirst
<1>7. /\ Placed(ch, b, c, e) /\ List(ch, c) \subseteq List(ch, s)
      /\ \A d \in List(ch, c) : Beg(ch, b, c) <= Beg(ch, b, d) /\ End(ch, b, d) <= End(ch, b, e)
  <2>1. Placed(ch, b, c, e) /\ List(ch, c) \subseteq List(ch, s)
    BY PlacedPart
  <2>2. \A d \in List(ch, c) : End(ch, b, d) <= End(ch, b, e)
    BY <2>1, Rising
  <2>3. \A d \in List(ch, c) : Beg(ch, b, c) <= Beg(ch, b, d)
    BY <2>1, Ordered
  <2> QED
    BY <2>1, <2>2, <2>3
<1>8. ASSUME Beg(ch, b, c) <= x, x < End(ch, b, e)
      PROVE  r # NoChunk
  <2>1. PICK d \in List(ch, c) : Holds(ch, b, c, d, x)
    BY <1>2, <1>7, <1>8, NoGap
  <2>2. Holds(ch, b, s, d, x)
    BY <1>7, <2>1 DEF Holds
  <2> QED
    BY <1>4, <1>6, <1>7, <2>2
<1>9. ASSUME r # NoChunk
      PROVE  r \in List(ch, c) /\ Holds(ch, b, s, r, x) /\ Beg(ch, b, c) <= x /\ x < End(ch, b, e)
  <2>1. r \in List(ch, c) /\ Holds(ch, b, s, r, x)
    BY <1>4, <1>6, <1>7, <1>9
  <2>2. /\ Beg(ch, b, c) <= Beg(ch, b, r) /\ End(ch, b, r) <= End(ch, b, e)
        /\ Beg(ch, b, r) <= x /\ x < End(ch, b, r)
    BY <1>7, <2>1 DEF Holds
  <2>3. Beg(ch, b, r) \in Nat /\ End(ch, b, r) \in Nat /\ Beg(ch, b, c) \in Nat
    BY <1>7, <2>1, PlacedType
  <2> QED
    BY <1>2, <2>1, <2>2, <2>3
<1> HIDE DEF x
<1>10. /\ Beg(ch, b, c) <= x /\ x < End(ch, b, e) =>
                  r \in List(ch, c) /\ Holds(ch, b, s, r, x) /\ r # NoChunk
       /\ ~(Beg(ch, b, c) <= x /\ x < End(ch, b, e)) => r = NoChunk
  BY <1>8, <1>9
<1> QED
  BY <1>10 DEF x, r

\* The chunks before the one that includes a position are those that end at or
\* before it.
LEMMA BeforeOK ==
  ASSUME NEW ch, NEW b, NEW s, NEW e, Placed(ch, b, s, e), NEW c \in List(ch, s),
         NEW p \in Pos, Beg(ch, b, c) <= Diff(p, b), Diff(p, b) <= End(ch, b, e)
  PROVE  Before(ch, c, p) = {d \in List(ch, c) : End(ch, b, d) <= Diff(p, b)}
<1> DEFINE x == Diff(p, b)
           r == svm_fifo_find_next_chunk(ch, c, p)
<1>1. Linked(ch) /\ b \in Pos /\ e \in List(ch, s)
  BY DEF Placed
<1>2. Placed(ch, b, c, e) /\ List(ch, c) \subseteq List(ch, s) /\ e \in List(ch, c)
  BY PlacedPart
<1>3. \A d \in List(ch, s) : /\ Beg(ch, b, d) \in Nat /\ End(ch, b, d) \in Nat
                             /\ Beg(ch, b, d) < End(ch, b, d)
                             /\ End(ch, b, d) <= End(ch, b, e)
  BY PlacedType, Rising
<1>4. x \in Nat
  BY <1>1, Counted
<1>5. Before(ch, c, p) = List(ch, c) \ List(ch, r)
  BY DEF Before
<1>6. /\ x < End(ch, b, e) => r \in List(ch, c) /\ Holds(ch, b, s, r, x) /\ r # NoChunk
      /\ ~(x < End(ch, b, e)) => r = NoChunk
  BY FindNext
<1> HIDE DEF r
<1>7. CASE x < End(ch, b, e)
  <2>1. r \in List(ch, c) /\ r \in List(ch, s) /\ Beg(ch, b, r) <= x /\ x < End(ch, b, r)
    BY <1>6, <1>7 DEF Holds
  <2>2. ASSUME NEW d \in List(ch, c)
        PROVE  d \in List(ch, r) <=> ~(End(ch, b, d) <= x)
    <3>1. d \in List(ch, s)
      BY <1>2
    <3>2. d \in List(ch, r) <=> Beg(ch, b, r) <= Beg(ch, b, d)
      BY <2>1, <3>1, Ordered
    <3>3. r = d \/ End(ch, b, r) <= Beg(ch, b, d) \/ End(ch, b, d) <= Beg(ch, b, r)
      BY <2>1, <3>1, Ordered
    <3> HIDE DEF x
    <3> QED
      BY <1>3, <1>4, <2>1, <3>1, <3>2, <3>3
  <2> HIDE DEF x
  <2> QED
    BY <1>5, <2>2 DEF x
<1>8. CASE ~(x < End(ch, b, e))
  <2>1. List(ch, r) = {}
    BY <1>1, <1>6, <1>8, ListNone
  <2>2. x = End(ch, b, e)
    BY <1>2, <1>3, <1>4, <1>8
  <2>3. \A d \in List(ch, c) : End(ch, b, d) <= x
    BY <1>2, <1>3, <2>2
  <2> HIDE DEF x
  <2> QED
    BY <1>5, <2>1, <2>3 DEF x
<1> QED
  BY <1>7, <1>8

\* The chunks a walk meets do not depend on the position it starts at.
LEMMA WalkSame ==
  ASSUME NEW ch, NEW c, NEW p, NEW q
  PROVE  \A n \in 0 .. N : Walk(ch, c, p)[n].c = Walk(ch, c, q)[n].c
<1> DEFINE v == Walk(ch, c, p)
           w == Walk(ch, c, q)
           G == {n \in 0 .. N : v[n].c = w[n].c}
<1>1. v[0].c = c /\ \A n \in 0 .. N - 1 : v[n + 1].c = ch[v[n].c].next
  BY WalkEqn
<1>2. w[0].c = c /\ \A n \in 0 .. N - 1 : w[n + 1].c = ch[w[n].c].next
  BY WalkEqn
<1> HIDE DEF v, w
<1>3. 0 \in G
  BY <1>1, <1>2, NType
<1>4. \A n \in 0 .. N - 1 : n \in G => n + 1 \in G
  BY <1>1, <1>2, NType
<1>5. \A n \in 0 .. N : n \in G
  <2> HIDE DEF G
  <2> QED
    BY <1>3, <1>4, NType, Induct
<1> QED
  BY <1>5 DEF v, w

\* A walk from the chunk that holds a position meets every chunk from there on,
\* knows how far each is from the position, and ends.
LEMMA WalkOK ==
  ASSUME NEW ch, NEW b, NEW s, NEW e, Placed(ch, b, s, e),
         NEW p \in Pos, NEW c, Holds(ch, b, s, c, Diff(p, b))
  PROVE  LET w == Walk(ch, c, p)
         IN  /\ DOMAIN w = 0 .. N /\ w[0].c = c
             /\ \A n \in 0 .. N : /\ w[n].c \in List(ch, c) \union {NoChunk}
                                  /\ w[n].c # NoChunk => w[n].off = Beg(ch, b, w[n].c) - Diff(p, b)
             /\ \A n \in 0 .. N - 1 : w[n + 1].c = ch[w[n].c].next
             /\ \A d \in List(ch, c) : \E n \in 0 .. N : w[n].c = d
             /\ \A i, j \in 0 .. N : i <= j /\ w[i].c = NoChunk => w[j].c = NoChunk
             /\ w[N].c = NoChunk
<1> DEFINE x == Diff(p, b)
           w == Walk(ch, c, p)
<1>w. W \in Nat \ {0} /\ NoChunk \notin Chunks
  BY Numbers
<1>1. /\ Linked(ch) /\ b \in Pos /\ e \in List(ch, s) /\ ch[e].next = NoChunk
      /\ c \in List(ch, s) /\ Beg(ch, b, c) <= x /\ x < End(ch, b, c)
  BY DEF Placed, Holds
<1>2. Placed(ch, b, c, e) /\ List(ch, c) \subseteq List(ch, s) /\ e \in List(ch, c)
  BY <1>1, PlacedPart
<1>3. /\ c \in List(ch, c) /\ Closed(ch, List(ch, c)) /\ List(ch, c) \subseteq Chunks
      /\ \A d \in List(ch, c) : /\ ch[d].start \in Pos /\ Beg(ch, b, d) \in Nat
                                /\ ChunkLen[d] \in Nat \ {0}
                                /\ End(ch, b, d) = Beg(ch, b, d) + ChunkLen[d]
                                /\ d # e => Beg(ch, b, ch[d].next) = End(ch, b, d)
  BY <1>2, PlacedType
<1>4. x \in Nat
  BY <1>1, Counted
<1>5. /\ DOMAIN w = 0 .. N /\ w[0].c = c /\ w[0].off = -Diff(p, ch[c].start)
      /\ \A n \in 0 .. N - 1 : /\ w[n + 1].c = ch[w[n].c].next
                               /\ w[n + 1].off = w[n].off + ChunkLen[w[n].c]
  BY WalkEqn
<1>6. /\ \A i, j \in 0 .. N : i <= j /\ w[i].c = NoChunk => w[j].c = NoChunk
      /\ List(ch, c) = {w[n].c : n \in 0 .. N} \ {NoChunk}
  <2>1. c \in Ptr
    BY <1>3 DEF Ptr
  <2>2. \A i, j \in 0 .. N : i <= j /\ w[i].c = NoChunk => w[j].c = NoChunk
    BY <1>1, <2>1, WalkType
  <2>3. List(ch, c) = {Walk(ch, c, 0)[n].c : n \in 0 .. N} \ {NoChunk}
    BY DEF List, N
  <2>4. \A n \in 0 .. N : Walk(ch, c, 0)[n].c = w[n].c
    BY WalkSame
  <2> HIDE DEF w
  <2>5. {Walk(ch, c, 0)[n].c : n \in 0 .. N} = {w[n].c : n \in 0 .. N}
    BY <2>4
  <2> QED
    BY <2>2, <2>3, <2>5
<1> HIDE DEF w
<1>7. Diff(p, ch[c].start) = x - Beg(ch, b, c)
  <2>1. Diff(p, ch[c].start) = IF Diff(ch[c].start, b) <= Diff(p, b)
                               THEN Diff(p, b) - Diff(ch[c].start, b)
                               ELSE Diff(p, b) - Diff(ch[c].start, b) + W
    BY <1>1, <1>3, Counted
  <2> QED
    BY <1>1, <2>1 DEF Beg
<1> HIDE DEF x
<1> DEFINE G == {n \in 0 .. N : w[n].c # NoChunk => w[n].off = Beg(ch, b, w[n].c) - x}
<1>8. \A n \in 0 .. N : n \in G
  <2>1. 0 \in G
    <3>1. w[0].off = Beg(ch, b, c) - x
      BY <1>3, <1>4, <1>5, <1>7
    <3> QED
      BY <1>5, <3>1, NType
  <2>2. ASSUME NEW n \in 0 .. N - 1, n \in G
        PROVE  n + 1 \in G
    <3>1. n \in 0 .. N /\ n + 1 \in 0 .. N /\ n <= n + 1
      BY NType
    <3>2. SUFFICES ASSUME w[n + 1].c # NoChunk
                   PROVE  w[n + 1].off = Beg(ch, b, w[n + 1].c) - x
      BY <3>1
    <3>3. w[n].c # NoChunk
      BY <1>6, <3>1, <3>2
    <3>4. w[n].c \in List(ch, c) /\ w[n].c # e
      BY <1>1, <1>5, <1>6, <3>1, <3>2, <3>3
    <3>5. /\ w[n].off = Beg(ch, b, w[n].c) - x
          /\ Beg(ch, b, w[n].c) \in Nat /\ ChunkLen[w[n].c] \in Nat
          /\ Beg(ch, b, ch[w[n].c].next) = Beg(ch, b, w[n].c) + ChunkLen[w[n].c]
          /\ w[n + 1].c = ch[w[n].c].next /\ w[n + 1].off = w[n].off + ChunkLen[w[n].c]
      BY <1>3, <1>5, <2>2, <3>1, <3>3, <3>4
    <3> QED
      BY <1>4, <3>5
  <2>3. \A n \in 0 .. N - 1 : n \in G => n + 1 \in G
    BY <2>2
  <2> HIDE DEF G
  <2> QED
    BY <2>1, <2>3, NType, Induct
<1>9. w[N].c = NoChunk
  <2>1. SUFFICES ASSUME w[N].c # NoChunk
                 PROVE  FALSE
    OBVIOUS
  <2>2. ASSUME NEW n \in 0 .. N
        PROVE  /\ w[n].c \in List(ch, c) /\ w[n].c \in Chunks
               /\ w[n].off = Beg(ch, b, w[n].c) - x /\ w[n].off \in Int
               /\ n # N => w[n].off < w[n + 1].off
    <3>1. w[n].c # NoChunk
      BY <1>6, <2>1, NType
    <3>2. w[n].c \in List(ch, c) /\ w[n].c \in Chunks
      BY <1>3, <1>6, <3>1
    <3>3. w[n].off = Beg(ch, b, w[n].c) - x /\ w[n].off \in Int
      BY <1>3, <1>4, <1>8, <3>1, <3>2
    <3>4. ASSUME n # N
          PROVE  w[n].off < w[n + 1].off
      <4>1. n \in 0 .. N - 1
        BY <3>4, NType
      <4> QED
        BY <1>3, <1>5, <3>2, <3>3, <4>1
    <3> QED
      BY <3>2, <3>3, <3>4
  <2>3. ASSUME NEW i \in 0 .. N
        PROVE  \A j \in 0 .. N : i < j => w[i].off < w[j].off
    <3> DEFINE H == {j \in 0 .. N : i < j => w[i].off < w[j].off}
    <3>1. 0 \in H
      BY NType
    <3>2. ASSUME NEW j \in 0 .. N - 1, j \in H
          PROVE  j + 1 \in H
      <4>1. j \in 0 .. N /\ j + 1 \in 0 .. N /\ j # N /\ (i < j + 1 => i < j \/ i = j)
        BY NType
      <4>2. w[j].off < w[j + 1].off /\ w[j].off \in Int /\ w[j + 1].off \in Int /\ w[i].off \in Int
        BY <2>2, <4>1
      <4> QED
        BY <3>2, <4>1, <4>2
    <3>3. \A j \in 0 .. N - 1 : j \in H => j + 1 \in H
      BY <3>2
    <3>4. \A j \in 0 .. N : j \in H
      <4> HIDE DEF H
      <4> QED
        BY <3>1, <3>3, NType, Induct
    <3> QED
      BY <3>4
  <2>4. ASSUME NEW i \in 0 .. N, NEW j \in 0 .. N, w[i].c = w[j].c
        PROVE  i = j
    <3>1. w[i].off = w[j].off /\ w[i].off \in Int
      BY <2>2, <2>4
    <3> QED
      BY <2>3, <3>1, NType
  <2> DEFINE f == [i \in 0 .. N |-> w[i].c]
  <2>5. f \in Injection(0 .. N, Chunks)
    <3>1. f \in [0 .. N -> Chunks]
      BY <2>2
    <3>2. \A i, j \in 0 .. N : f[i] = f[j] => i = j
      BY <2>4
    <3> HIDE DEF f
    <3> QED
      BY <3>1, <3>2 DEF Injection, IsInjective
  <2>6. IsFiniteSet(0 .. N) /\ Cardinality(0 .. N) = N + 1
    BY NType, FS_Interval
  <2>7. Cardinality(0 .. N) <= Cardinality(Chunks)
    <3> HIDE DEF f
    <3> QED
      BY <2>5, NType, FS_Injection DEF ExistsInjection
  <2> QED
    BY <2>6, <2>7, NType DEF N
<1>10. \A n \in 0 .. N : /\ w[n].c \in List(ch, c) \union {NoChunk}
                         /\ w[n].c # NoChunk => w[n].off = Beg(ch, b, w[n].c) - x
  BY <1>6, <1>8
<1>11. \A d \in List(ch, c) : \E n \in 0 .. N : w[n].c = d
  BY <1>6
<1> HIDE DEF G
<1> QED
  BY <1>5, <1>6, <1>9, <1>10, <1>11 DEF w, x

\* A copy stops in the chunk that holds the byte after the last one copied, or
\* past the end of the list.
LEMMA StopOK ==
  ASSUME NEW ch, NEW b, NEW s, NEW e, Placed(ch, b, s, e),
         NEW p \in Pos, NEW c, Holds(ch, b, s, c, Diff(p, b)),
         NEW len \in Nat, Diff(p, b) + len <= End(ch, b, e)
  PROVE  LET r == Stop(ch, c, p, len)
         IN  /\ Diff(p, b) + len < End(ch, b, e) =>
                  Holds(ch, b, s, r, Diff(p, b) + len) /\ r # NoChunk
             /\ ~(Diff(p, b) + len < End(ch, b, e)) => r = NoChunk
<1> DEFINE x == Diff(p, b)
           w == Walk(ch, c, p)
           S == {n \in DOMAIN w : w[n].c = NoChunk \/ len < w[n].off + ChunkLen[w[n].c]}
           f == CHOOSE n \in S : \A m \in S : n <= m
           r == Stop(ch, c, p, len)
<1>1. /\ Linked(ch) /\ b \in Pos /\ e \in List(ch, s) /\ ch[e].next = NoChunk
      /\ c \in List(ch, s) /\ Beg(ch, b, c) <= x /\ x < End(ch, b, c) /\ NoChunk \notin Chunks
  BY Numbers DEF Placed, Holds
<1>2. Placed(ch, b, c, e) /\ List(ch, c) \subseteq List(ch, s) /\ e \in List(ch, c)
  BY <1>1, PlacedPart
<1>3. \A d \in List(ch, c) : /\ Beg(ch, b, d) \in Nat /\ ChunkLen[d] \in Nat \ {0}
                             /\ End(ch, b, d) \in Nat /\ d # NoChunk
                             /\ End(ch, b, d) = Beg(ch, b, d) + ChunkLen[d]
                             /\ d # e => Beg(ch, b, ch[d].next) = End(ch, b, d)
                             /\ End(ch, b, d) <= End(ch, b, e)
  BY <1>1, <1>2, PlacedType, Rising
<1>4. x \in Nat
  BY <1>1, Counted
<1>5. /\ DOMAIN w = 0 .. N /\ w[0].c = c
      /\ \A n \in 0 .. N : /\ w[n].c \in List(ch, c) \union {NoChunk}
                           /\ w[n].c # NoChunk => w[n].off = Beg(ch, b, w[n].c) - x
      /\ \A n \in 0 .. N - 1 : w[n + 1].c = ch[w[n].c].next
      /\ \A d \in List(ch, c) : \E n \in 0 .. N : w[n].c = d
      /\ \A i, j \in 0 .. N : i <= j /\ w[i].c = NoChunk => w[j].c = NoChunk
      /\ w[N].c = NoChunk
  BY WalkOK
<1>6. r = w[f].c
  BY DEF Stop
<1> HIDE DEF w, x, r
<1>7. S \subseteq Nat /\ N \in S
  BY <1>5, NType
<1>8. f \in S /\ \A m \in S : f <= m
  <2> HIDE DEF S
  <2>1. \E n \in S : \A m \in S : n <= m
    BY <1>7, Least
  <2> QED
    BY <2>1
<1> HIDE DEF f
<1>9. f \in 0 .. N /\ (r = NoChunk \/ len < w[f].off + ChunkLen[r])
  BY <1>5, <1>6, <1>8
<1>10. ASSUME NEW n \in 0 .. N, n < f
       PROVE  w[n].c \in List(ch, c) /\ End(ch, b, w[n].c) <= x + len
  <2>1. n \notin S
    BY <1>8, <1>9, <1>10
  <2>2. w[n].c # NoChunk /\ ~(len < w[n].off + ChunkLen[w[n].c])
    BY <1>5, <2>1
  <2>3. w[n].c \in List(ch, c) /\ w[n].off = Beg(ch, b, w[n].c) - x
    BY <1>5, <2>2
  <2> QED
    BY <1>3, <1>4, <2>2, <2>3
<1>11. ASSUME r = NoChunk
       PROVE  ~(x + len < End(ch, b, e))
  <2>1. PICK n \in 0 .. N : w[n].c = e
    BY <1>2, <1>5
  <2>2. ~(f <= n)
    BY <1>2, <1>3, <1>5, <1>6, <1>9, <1>11, <2>1
  <2>3. End(ch, b, e) <= x + len
    BY <1>9, <1>10, <2>1, <2>2
  <2> QED
    BY <1>2, <1>3, <1>4, <2>3
<1>12. ASSUME r # NoChunk
       PROVE  Holds(ch, b, s, r, x + len) /\ x + len < End(ch, b, e)
  <2>1. r \in List(ch, c) /\ w[f].off = Beg(ch, b, r) - x /\ len < w[f].off + ChunkLen[r]
    BY <1>5, <1>6, <1>9, <1>12
  <2>2. x + len < End(ch, b, r)
    BY <1>3, <1>4, <2>1
  <2>3. Beg(ch, b, r) <= x + len
    <3>1. CASE f = 0
      <4>1. r = c
        BY <1>5, <1>6, <3>1
      <4>2. Beg(ch, b, c) <= x
        BY <1>1 DEF x
      <4> QED
        BY <1>3, <1>4, <2>1, <4>1, <4>2
    <3>2. CASE f # 0
      <4>1. f - 1 \in 0 .. N - 1 /\ f - 1 \in 0 .. N /\ f - 1 < f /\ (f - 1) + 1 = f
        BY <1>9, <3>2, NType
      <4>2. PICK d : d = w[f - 1].c
        OBVIOUS
      <4>3. d \in List(ch, c) /\ End(ch, b, d) <= x + len /\ r = ch[d].next
        BY <1>5, <1>6, <1>10, <4>1, <4>2
      <4>4. d # e
        BY <1>1, <1>12, <4>3
      <4> QED
        BY <1>3, <4>3, <4>4
    <3> QED
      BY <3>1, <3>2
  <2>4. x + len < End(ch, b, e)
    BY <1>2, <1>3, <1>4, <2>1, <2>2
  <2> QED
    BY <1>2, <2>1, <2>2, <2>3, <2>4 DEF Holds
<1> QED
  BY <1>11, <1>12 DEF x, r

\* svm_fifo_copy_to_chunk writes the bytes asked for, each at its place, and no
\* other.
LEMMA CopyToOK ==
  ASSUME Fields, NEW b, NEW s, NEW e, Placed(chunk, b, s, e),
         NEW p \in Pos, NEW c, Holds(chunk, b, s, c, Diff(p, b)),
         NEW len \in Nat, Diff(p, b) + len <= End(chunk, b, e), NEW new,
         new = CopyTo(chunk, c, p, len)
  PROVE  /\ \A d \in Ptr : d \notin List(chunk, s) => new[d] = chunk[d]
         /\ \A d \in Ptr : DOMAIN new[d].data = DOMAIN chunk[d].data \/ new[d] = chunk[d]
         /\ \A d \in List(chunk, s) : \A i \in DOMAIN chunk[d].data :
              i \in 0 .. ChunkLen[d] - 1 =>
                new[d].data[i] =
                  IF /\ Diff(p, b) <= Beg(chunk, b, d) + i
                     /\ Beg(chunk, b, d) + i < Diff(p, b) + len
                  THEN Add(chunk[d].start, i) ELSE chunk[d].data[i]
<1> DEFINE x == Diff(p, b)
           w == Walk(chunk, c, p)
           Met(d) == {n \in DOMAIN w : w[n].c = d}
           off(d) == w[CHOOSE n \in Met(d) : TRUE].off
           data(d) == [i \in DOMAIN chunk[d].data |->
                         IF off(d) + i \in 0 .. len - 1 THEN Add(p, off(d) + i)
                         ELSE chunk[d].data[i]]
           L == List(chunk, s)
<1>0. W \in Nat \ {0} /\ NoChunk \notin Chunks
  BY Numbers
<1>1. /\ b \in Pos /\ c \in L /\ e \in L /\ Beg(chunk, b, c) <= x
      /\ x < End(chunk, b, c) /\ 2 * End(chunk, b, e) < W
  BY DEF Placed, Holds
<1>2. Placed(chunk, b, c, e) /\ List(chunk, c) \subseteq L
  BY <1>1, PlacedPart
<1>3. \A d \in L : /\ Beg(chunk, b, d) \in Nat /\ ChunkLen[d] \in Nat \ {0}
                   /\ End(chunk, b, d) \in Nat /\ d # NoChunk /\ d \in Ptr
                   /\ End(chunk, b, d) = Beg(chunk, b, d) + ChunkLen[d]
                   /\ End(chunk, b, d) <= End(chunk, b, e) /\ chunk[d].start \in Pos
  BY <1>0, PlacedType, Rising DEF Ptr
<1>4. x \in Nat
  BY <1>1, Counted
<1>5. /\ DOMAIN w = 0 .. N
      /\ \A n \in 0 .. N : /\ w[n].c \in List(chunk, c) \union {NoChunk}
                           /\ w[n].c # NoChunk => w[n].off = Beg(chunk, b, w[n].c) - x
      /\ \A d \in List(chunk, c) : \E n \in 0 .. N : w[n].c = d
  BY WalkOK
<1>6. ASSUME NEW d \in Ptr
      PROVE  new[d] = IF d = NoChunk \/ Met(d) = {} THEN chunk[d]
                      ELSE [chunk[d] EXCEPT !.data = data(d)]
  BY DEF CopyTo
<1> HIDE DEF w
<1>7. ASSUME NEW d \in Ptr, d \notin List(chunk, c)
      PROVE  new[d] = chunk[d]
  <2>1. d = NoChunk \/ Met(d) = {}
    BY <1>5, <1>7
  <2> HIDE DEF Met, data
  <2> QED
    BY <1>6, <2>1
<1>8. ASSUME NEW d \in List(chunk, c)
      PROVE  new[d].data = data(d) /\ off(d) = Beg(chunk, b, d) - x
  <2>1. d \in Ptr /\ d # NoChunk
    BY <1>2, <1>3
  <2>2. Met(d) # {}
    BY <1>5
  <2>3. PICK u, v, z : chunk[d] = [start |-> u, next |-> v, data |-> z]
    BY <2>1 DEF Fields
  <2>4. new[d] = [chunk[d] EXCEPT !.data = data(d)]
    <3> HIDE DEF Met, data
    <3> QED
      BY <1>6, <2>1, <2>2
  <2>5. new[d].data = data(d)
    <3> HIDE DEF data, Met
    <3>1. new[d] = [start |-> u, next |-> v, data |-> data(d)]
      BY <2>3, <2>4
    <3> QED
      BY <3>1
  <2>6. (CHOOSE n \in Met(d) : TRUE) \in Met(d)
    <3> HIDE DEF Met
    <3> QED
      BY <2>2
  <2>7. off(d) = Beg(chunk, b, d) - x
    <3>1. PICK n \in 0 .. N : w[n].c = d /\ off(d) = w[n].off
      BY <1>5, <2>6
    <3> HIDE DEF off
    <3> QED
      BY <1>5, <2>1, <3>1
  <2> QED
    BY <2>5, <2>7
<1> HIDE DEF Met, off
<1>9. ASSUME NEW d \in L, NEW i \in DOMAIN chunk[d].data, i \in 0 .. ChunkLen[d] - 1
      PROVE  new[d].data[i] = IF x <= Beg(chunk, b, d) + i /\ Beg(chunk, b, d) + i < x + len
                              THEN Add(chunk[d].start, i) ELSE chunk[d].data[i]
  <2>1. /\ Beg(chunk, b, d) \in Nat /\ End(chunk, b, d) = Beg(chunk, b, d) + ChunkLen[d]
        /\ ChunkLen[d] \in Nat /\ End(chunk, b, d) <= End(chunk, b, e)
        /\ chunk[d].start \in Pos /\ d \in Ptr /\ End(chunk, b, e) \in Nat
    BY <1>1, <1>3
  <2>2. CASE d \in List(chunk, c)
    <3>1. PICK j \in Nat : j = i
      BY <1>9, <2>1
    <3>2. new[d].data = data(d) /\ off(d) = Beg(chunk, b, d) - x
      BY <1>8, <2>2
    <3>3. data(d)[i] = IF off(d) + i \in 0 .. len - 1 THEN Add(p, off(d) + i)
                       ELSE chunk[d].data[i]
      BY <1>9
    <3> HIDE DEF data
    <3>4. off(d) + i \in 0 .. len - 1 <=>
            x <= Beg(chunk, b, d) + i /\ Beg(chunk, b, d) + i < x + len
      BY <1>4, <2>1, <3>1, <3>2
    <3>5. ASSUME off(d) + i \in 0 .. len - 1
          PROVE  Add(p, off(d) + i) = Add(chunk[d].start, i)
      <4>1. PICK k \in Nat : k = off(d) + i /\ x + k = Beg(chunk, b, d) + j
        BY <1>4, <2>1, <3>1, <3>2, <3>5
      <4>2. Beg(chunk, b, d) + j < W /\ x + k < W
        BY <1>0, <1>1, <1>9, <2>1, <3>1, <4>1
      <4>3. Add(p, k) \in Pos /\ Diff(Add(p, k), b) = x + k
        BY <1>1, <4>2, Counted
      <4>4. /\ Add(chunk[d].start, j) \in Pos
            /\ Diff(Add(chunk[d].start, j), b) = Beg(chunk, b, d) + j
        <5>1. PICK q \in Pos : q = chunk[d].start /\ Diff(q, b) = Beg(chunk, b, d)
          BY <2>1 DEF Beg
        <5>2. Diff(q, b) + j < W
          BY <4>2, <5>1
        <5>3. Add(q, j) \in Pos /\ Diff(Add(q, j), b) = Diff(q, b) + j
          BY <1>1, <5>2, Counted
        <5> QED
          BY <5>1, <5>3
      <4>5. Diff(Add(p, k), b) = Diff(Add(chunk[d].start, j), b)
        BY <4>1, <4>3, <4>4
      <4>6. Add(p, k) = Add(chunk[d].start, j)
        BY <1>1, <4>3, <4>4, <4>5, Counted
      <4> QED
        BY <3>1, <4>1, <4>6
    <3> HIDE DEF x
    <3> QED
      BY <3>2, <3>3, <3>4, <3>5
  <2>3. CASE d \notin List(chunk, c)
    <3>1. new[d] = chunk[d]
      BY <1>7, <2>1, <2>3
    <3>2. Beg(chunk, b, d) + i < x
      <4>1. ~(Beg(chunk, b, c) <= Beg(chunk, b, d))
        BY <1>1, <2>3, Ordered
      <4>2. End(chunk, b, d) <= Beg(chunk, b, c)
        <5>1. d = c \/ End(chunk, b, d) <= Beg(chunk, b, c) \/ End(chunk, b, c) <= Beg(chunk, b, d)
          BY <1>1, Ordered
        <5> QED
          BY <1>1, <1>3, <1>4, <2>1, <4>1, <5>1
      <4> QED
        BY <1>1, <1>3, <1>4, <1>9, <2>1, <4>2
    <3>3. ~(x <= Beg(chunk, b, d) + i)
      BY <1>4, <1>9, <2>1, <3>2
    <3> HIDE DEF x
    <3> QED
      BY <3>1, <3>3
  <2> QED
    BY <2>2, <2>3
<1>10. ASSUME NEW d \in Ptr
       PROVE  DOMAIN new[d].data = DOMAIN chunk[d].data \/ new[d] = chunk[d]
  <2>1. CASE d \in List(chunk, c)
    <3>1. new[d].data = data(d)
      BY <1>8, <2>1
    <3>2. DOMAIN data(d) = DOMAIN chunk[d].data
      OBVIOUS
    <3> QED
      BY <3>1, <3>2
  <2> QED
    BY <1>7, <2>1
<1> HIDE DEF data
<1> QED
  BY <1>2, <1>7, <1>9, <1>10 DEF x

\* svm_fifo_copy_from_chunk returns the bytes of the chunks that hold them.
LEMMA CopyFromOK ==
  ASSUME NEW ch, NEW b, NEW s, NEW e, Placed(ch, b, s, e),
         NEW p \in Pos, NEW c, Holds(ch, b, s, c, Diff(p, b)),
         NEW len \in Nat, Diff(p, b) + len <= End(ch, b, e)
  PROVE  \A j \in 0 .. len - 1 : \E d \in List(ch, s) :
            /\ Holds(ch, b, s, d, Diff(p, b) + j)
            /\ CopyFrom(ch, c, p, len)[j] = ch[d].data[Diff(p, b) + j - Beg(ch, b, d)]
<1> DEFINE x == Diff(p, b)
           w == Walk(ch, c, p)
           In(n, j) == j - w[n].off \in 0 .. ChunkLen[w[n].c] - 1
<1> SUFFICES ASSUME NEW j \in 0 .. len - 1
             PROVE  \E d \in List(ch, s) :
                      /\ Holds(ch, b, s, d, x + j)
                      /\ CopyFrom(ch, c, p, len)[j] = ch[d].data[x + j - Beg(ch, b, d)]
  OBVIOUS
<1>0. NoChunk \notin Chunks /\ ChunkLen[NoChunk] = 0
  BY Numbers
<1>1. b \in Pos /\ c \in List(ch, s) /\ e \in List(ch, s) /\ Beg(ch, b, c) <= x
  BY DEF Placed, Holds
<1>2. Placed(ch, b, c, e) /\ List(ch, c) \subseteq List(ch, s)
  BY <1>1, PlacedPart
<1>3. \A d \in List(ch, s) : /\ Beg(ch, b, d) \in Nat /\ ChunkLen[d] \in Nat \ {0} /\ d # NoChunk
                             /\ End(ch, b, d) = Beg(ch, b, d) + ChunkLen[d]
  BY <1>0, PlacedType
<1>4. x \in Nat
  BY <1>1, Counted
<1>5. /\ DOMAIN w = 0 .. N
      /\ \A n \in 0 .. N : /\ w[n].c \in List(ch, c) \union {NoChunk}
                           /\ w[n].c # NoChunk => w[n].off = Beg(ch, b, w[n].c) - x
      /\ \A d \in List(ch, c) : \E n \in 0 .. N : w[n].c = d
  BY WalkOK
<1>6. CopyFrom(ch, c, p, len)[j] =
        IF \E n \in DOMAIN w : In(n, j)
        THEN ch[w[CHOOSE n \in DOMAIN w : In(n, j)].c].data[j - w[CHOOSE n \in DOMAIN w : In(n, j)].off]
        ELSE Junk
  BY DEF CopyFrom
<1> HIDE DEF w, x
<1>7. ASSUME NEW n \in 0 .. N
      PROVE  In(n, j) <=> /\ w[n].c # NoChunk
                          /\ Holds(ch, b, s, w[n].c, x + j)
  <2>1. CASE w[n].c = NoChunk
    <3>1. 0 .. ChunkLen[w[n].c] - 1 = {}
      BY <1>0, <2>1
    <3> QED
      BY <2>1, <3>1
  <2>2. CASE w[n].c # NoChunk
    <3>1. PICK d \in List(ch, s) : d = w[n].c
      BY <1>2, <1>5, <2>2
    <3>2. w[n].off = Beg(ch, b, d) - x /\ Beg(ch, b, d) \in Nat /\ ChunkLen[d] \in Nat
          /\ End(ch, b, d) = Beg(ch, b, d) + ChunkLen[d]
      BY <1>3, <1>5, <2>2, <3>1
    <3>3. In(n, j) <=> j - (Beg(ch, b, d) - x) \in 0 .. ChunkLen[d] - 1
      BY <3>1, <3>2
    <3>4. j - (Beg(ch, b, d) - x) \in 0 .. ChunkLen[d] - 1 <=>
            Beg(ch, b, d) <= x + j /\ x + j < End(ch, b, d)
      BY <1>4, <3>2
    <3> HIDE DEF In
    <3> QED
      BY <2>2, <3>1, <3>3, <3>4 DEF Holds
  <2> QED
    BY <2>1, <2>2
<1>8. \E n \in 0 .. N : In(n, j)
  <2>1. Beg(ch, b, c) <= x + j /\ x + j < End(ch, b, e) /\ x + j \in Nat
    <3>1. Beg(ch, b, c) <= x /\ x + len <= End(ch, b, e) /\ Beg(ch, b, c) \in Nat
          /\ End(ch, b, e) \in Nat
      BY <1>1, <1>3 DEF x
    <3> QED
      BY <1>4, <3>1
  <2>2. PICK d \in List(ch, c) : Holds(ch, b, c, d, x + j)
    BY <1>2, <2>1, NoGap
  <2>3. PICK n \in 0 .. N : w[n].c = d
    BY <1>5
  <2> HIDE DEF In
  <2> QED
    BY <1>2, <1>3, <1>7, <2>2, <2>3 DEF Holds
<1>9. PICK n \in 0 .. N : In(n, j) /\ CopyFrom(ch, c, p, len)[j] = ch[w[n].c].data[j - w[n].off]
  <2>1. \E n \in DOMAIN w : In(n, j)
    BY <1>5, <1>8
  <2> HIDE DEF In
  <2>2. (CHOOSE n \in DOMAIN w : In(n, j)) \in DOMAIN w /\ In(CHOOSE n \in DOMAIN w : In(n, j), j)
    BY <2>1
  <2> QED
    BY <1>5, <1>6, <2>1, <2>2
<1>10. PICK d \in List(ch, s) : d = w[n].c /\ Holds(ch, b, s, d, x + j) /\ d # NoChunk
  <2> HIDE DEF In
  <2> QED
    BY <1>7, <1>9 DEF Holds
<1>11. j - w[n].off = x + j - Beg(ch, b, d)
  <2>1. w[n].off = Beg(ch, b, d) - x /\ Beg(ch, b, d) \in Nat
    BY <1>3, <1>5, <1>10
  <2> QED
    BY <1>4, <2>1
<1> HIDE DEF In
<1> QED
  BY <1>9, <1>10, <1>11
=============================================================================
