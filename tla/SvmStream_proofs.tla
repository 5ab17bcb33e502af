--------------------------- MODULE SvmStream_proofs ---------------------------
(***************************************************************************)
(* The bytes of a fifo, for every slice of a segment, whatever the lengths *)
(* of its chunks, the size of the fifo and the calls made: what is read is *)
(* what was enqueued at the positions read, nothing enqueued is lost, and  *)
(* the out-of-order segments are exactly what was written past the tail.   *)
(*                                                                         *)
(* The inductive invariant has three layers, each proved with the help of  *)
(* the ones before it: AmountInv (where head, tail and the segments are on *)
(* the list, counted from its first byte, and how far a call in progress   *)
(* may go), PointerInv (head_chunk, tail_chunk and the lookup trees point  *)
(* where the indexes say) and DataInv (every byte that must be there is    *)
(* the byte of its position).                                              *)
(***************************************************************************)
EXTENDS SvmFifo_proofs

-----------------------------------------------------------------------------
(* The amounts: where head, tail and the segments are on the list.         *)

\* Positions are counted from the first byte of the list.
Base == chunk[start_chunk].start
Place(p) == Diff(p, Base)
Total == End(chunk, Base, end_chunk)

\* The indexes as they will be once the call under way has stored them.
Hd == IF cons.at = "publish" THEN Add(head, cons.len) ELSE head
Tl == IF prod.at = "publish" THEN prod.tail ELSE tail

\* The bytes the consumer is done with and the producer still counts.
Taken == IF cons.at = "publish" THEN cons.len ELSE 0

\* The bytes of the fifo's size that are in use, and how far past the tail a
\* write may go.
Used == Place(Tl) - Place(Hd) + Taken
Room == IF Total - Place(Tl) < Size - Used THEN Total - Place(Tl) ELSE Size - Used

\* The head is in the first chunk or at its end, the tail between it and the
\* end of the list, and no more is in use than the fifo's size.  The consumer
\* unlinks what the head has passed, so the list is not much longer.
IndexOK ==
    /\ head \in Pos /\ tail \in Pos /\ Tl \in Pos
    /\ Place(Hd) <= ChunkLen[start_chunk]
    /\ Place(Hd) <= Place(tail) /\ Place(tail) <= Place(Tl) /\ Place(Tl) <= Total
    /\ Used <= Size
    /\ Total <= Place(Hd) + Size + MinAlloc + MaxLen - 2

\* A producer's call asks for no more than is free, for chunks only when it
\* would write past the end of the list, and writes only what is on the list.
ProdOK ==
    /\ prod.at \in {"idle", "alloc", "copy", "publish"}
    /\ prod.at \in {"alloc", "copy"} =>
        /\ prod = [at |-> prod.at, op |-> prod.op, len |-> prod.len, off |-> prod.off,
                   need |-> prod.need, old |-> prod.old]
        /\ prod.op \in {"enqueue", "segments", "partial", "offset", "nocopy", "fill"}
        /\ prod.len \in Nat \ {0} /\ prod.off \in Nat
        /\ prod.off + prod.len <= Size - Used
        /\ prod.op = "offset" => prod.off > 0 /\ kind = "rx"
        /\ prod.op # "offset" => prod.off = 0
        /\ prod.op \in {"nocopy", "fill"} => kind # "rx"
        /\ ooos_newest = NoSeg
    /\ prod.at = "alloc" =>
        /\ prod.need \in Nat \ {0}
        /\ Total + prod.need <= Place(Hd) + Size + MinAlloc - 1
        /\ prod.op # "fill" => /\ Total < Place(Tl) + prod.off + prod.len
                               /\ Place(Tl) + prod.off + prod.len <= Total + prod.need
    /\ prod.at = "copy" => prod.op # "fill" /\ prod.off + prod.len <= Total - Place(Tl)

\* A consumer's call reads and drops no more than was enqueued.
ConsOK ==
    /\ cons.at \in {"idle", "copy", "unlink", "publish", "closed"}
    /\ cons.at \in {"copy", "unlink", "publish"} =>
        /\ cons = [at |-> cons.at, op |-> cons.op, len |-> cons.len, off |-> cons.off]
        /\ cons.len \in Nat /\ cons.off \in Nat
        /\ cons.at = "copy" => cons.op \in {"dequeue", "peek"}
        /\ cons.at # "copy" => cons.op \in {"dequeue", "drop", "drop_all"}
        /\ cons.op # "peek" => cons.off = 0
        /\ cons.op # "drop_all" => cons.len > 0
        /\ cons.op = "drop_all" => kind # "rx"
    /\ cons.at \in {"copy", "unlink"} => cons.off + cons.len <= Place(tail) - Place(Hd)

\* The segments are sorted, lie past the tail and on the list, and are what was
\* written past the tail; only an rx fifo has any.
OooOK ==
    /\ SegsOK(ooo_segments, Tl, Room)
    /\ written = {p \in Pos : Covered(ooo_segments, Tl, Diff(p, Tl))}
    /\ ooos_newest # NoSeg =>
          \E i \in 1 .. Len(ooo_segments) : ooo_segments[i].start = ooos_newest
    /\ kind # "rx" => ooo_segments = <<>> /\ ooos_newest = NoSeg

PlaceOK == ListInv /\ Placed(chunk, Base, start_chunk, end_chunk)

AmountInv == PlaceOK /\ IndexOK /\ ProdOK /\ ConsOK /\ OooOK

\* The positions of len bytes from pos on.
LEMMA Span ==
  ASSUME NEW t \in Pos, NEW pos \in Pos, NEW len \in Nat, Diff(pos, t) + len < W
  PROVE  {Add(pos, i) : i \in 0 .. len - 1} =
         {p \in Pos : Diff(pos, t) <= Diff(p, t) /\ Diff(p, t) < Diff(pos, t) + len}
<1> DEFINE o == Diff(pos, t)
<1>w. W \in Nat \ {0} /\ o \in Nat
  BY Numbers, Counted
<1>1. ASSUME NEW i \in 0 .. len - 1
      PROVE  /\ Add(pos, i) \in Pos /\ o <= Diff(Add(pos, i), t)
             /\ Diff(Add(pos, i), t) < o + len
  <2>1. i \in Nat /\ o + i < W
    BY <1>w
  <2>2. Add(pos, i) \in Pos /\ Diff(Add(pos, i), t) = o + i
    BY <2>1, Counted
  <2> QED
    BY <1>w, <2>2
<1>2. ASSUME NEW p \in Pos, o <= Diff(p, t), Diff(p, t) < o + len
      PROVE  \E i \in 0 .. len - 1 : p = Add(pos, i)
  <2>1. Diff(p, t) \in Nat
    BY Counted
  <2>2. PICK i \in 0 .. len - 1 : o + i = Diff(p, t)
    <3>1. Diff(p, t) - o \in 0 .. len - 1 /\ o + (Diff(p, t) - o) = Diff(p, t)
      BY <1>w, <1>2, <2>1
    <3> QED
      BY <3>1
  <2>3. Add(pos, i) \in Pos /\ Diff(Add(pos, i), t) = o + i
    BY <1>w, <2>2, Counted
  <2>4. Add(pos, i) = p
    BY <2>2, <2>3, Counted
  <2> QED
    BY <2>4
<1> HIDE DEF o
<1>3. \A p : p \in {Add(pos, i) : i \in 0 .. len - 1} <=>
             p \in Pos /\ o <= Diff(p, t) /\ Diff(p, t) < o + len
  BY <1>1, <1>2
<1> QED
  BY <1>3 DEF o

\* A wider limit is as good.
LEMMA SegsWider ==
  ASSUME NEW segs, NEW t \in Pos, NEW a \in Int, NEW b \in Int, a <= b, SegsOK(segs, t, a)
  PROVE  SegsOK(segs, t, b)
<1>1. segs \in Seq(Segment)
  BY DEF SegsOK
<1>2. \A i \in 1 .. Len(segs) : To(segs, t, i) \in Nat
  BY <1>1, SegType
<1> QED
  BY <1>1, <1>2 DEF SegsOK

\* The numbers the amounts are made of.
LEMMA Amounts ==
  ASSUME PlaceOK, IndexOK, ConsOK
  PROVE  /\ Base \in Pos /\ Place(Base) = 0 /\ Hd \in Pos
         /\ Place(Hd) \in Nat /\ Place(tail) \in Nat /\ Place(Tl) \in Nat /\ Total \in Nat
         /\ Taken \in Nat /\ Taken <= Size
         /\ Place(Hd) <= MaxLen /\ Used \in Nat /\ Room \in Nat
         /\ Total <= Size + MinAlloc + 2 * MaxLen - 2 /\ 2 * Total < W
         /\ Place(Hd) + Size < Size + MinAlloc + 2 * MaxLen
         /\ Used = Place(Tl) - Place(Hd) + Taken
         /\ Room <= Total - Place(Tl) /\ Room <= Size - Used
         /\ Room = Total - Place(Tl) \/ Room = Size - Used
         /\ 2 * Room < W
         /\ f_chunk_end(end_chunk) \in Pos /\ Place(f_chunk_end(end_chunk)) = Total
<1> HIDE DEF MaxLen
<1>n. /\ W \in Nat \ {0} /\ Size \in Nat \ {0} /\ MinAlloc \in Nat \ {0} /\ MaxLen \in Nat \ {0}
      /\ 2 * (Size + MinAlloc + 2 * MaxLen - 2) < W
      /\ \A c \in Chunks : ChunkLen[c] \in Nat \ {0} /\ ChunkLen[c] <= MaxLen
  BY Numbers
<1>1. /\ start_chunk \in Chunks /\ Base \in Pos /\ end_chunk \in List(chunk, start_chunk)
      /\ Placed(chunk, Base, start_chunk, end_chunk)
  BY DEF PlaceOK, Placed
<1>2. /\ Total \in Nat /\ ChunkLen[end_chunk] \in Nat /\ chunk[end_chunk].start \in Pos
      /\ Total = Beg(chunk, Base, end_chunk) + ChunkLen[end_chunk]
      /\ Beg(chunk, Base, end_chunk) \in Nat
  BY <1>1, PlacedType DEF Total
<1>3. Taken \in Nat /\ (cons.at = "publish" => Taken = cons.len) /\ (cons.at # "publish" => Taken = 0)
  BY DEF Taken, ConsOK
<1>4. head \in Pos /\ tail \in Pos /\ Tl \in Pos
  BY DEF IndexOK
<1>5. Hd \in Pos
  <2>1. CASE cons.at = "publish"
    <3>1. PICK q \in Int : q = head + cons.len
      BY <1>3, <1>4, <1>n, <2>1 DEF Pos
    <3>2. q % W \in 0 .. W - 1
      BY <1>n, DivMod
    <3> QED
      BY <2>1, <3>1, <3>2 DEF Hd, Add, Pos
  <2>2. CASE cons.at # "publish"
    BY <1>4, <2>2 DEF Hd
  <2> QED
    BY <2>1, <2>2
<1>6. /\ Place(Hd) \in Nat /\ Place(tail) \in Nat /\ Place(Tl) \in Nat /\ Place(Base) = 0
      /\ Place(Hd) < W
  BY <1>1, <1>4, <1>5, Counted DEF Place
<1>7. /\ Place(Hd) <= MaxLen /\ Used = Place(Tl) - Place(Hd) + Taken
      /\ Place(Hd) <= Place(tail) /\ Place(tail) <= Place(Tl) /\ Place(Tl) <= Total
      /\ Used <= Size /\ Total <= Place(Hd) + Size + MinAlloc + MaxLen - 2
      /\ Room = IF Total - Place(Tl) < Size - Used THEN Total - Place(Tl) ELSE Size - Used
  <2>1. ChunkLen[start_chunk] \in Nat /\ ChunkLen[start_chunk] <= MaxLen
    BY <1>1, <1>n
  <2>2. Place(Hd) <= ChunkLen[start_chunk]
    BY DEF IndexOK
  <2>3. Place(Hd) <= MaxLen
    BY <1>6, <1>n, <2>1, <2>2
  <2> QED
    BY <2>3 DEF IndexOK, Used, Room
<1>8. /\ Total <= Size + MinAlloc + 2 * MaxLen - 2 /\ 2 * Total < W /\ Taken <= Size
      /\ Used \in Nat /\ Room \in Nat /\ Room <= Total - Place(Tl) /\ Room <= Size - Used
      /\ Room = Total - Place(Tl) \/ Room = Size - Used
      /\ 2 * Room < W /\ Place(Hd) + Size < Size + MinAlloc + 2 * MaxLen
  BY <1>2, <1>3, <1>6, <1>7, <1>n
<1>9. f_chunk_end(end_chunk) \in Pos /\ Place(f_chunk_end(end_chunk)) = Total
  <2>1. PICK len \in Nat, q \in Pos : len = ChunkLen[end_chunk] /\ q = chunk[end_chunk].start
    BY <1>2
  <2>2. Diff(q, Base) = Beg(chunk, Base, end_chunk)
    BY <2>1 DEF Beg
  <2>3. Diff(q, Base) + len < W
    BY <1>2, <1>8, <1>n, <2>1, <2>2
  <2>4. Add(q, len) \in Pos /\ Diff(Add(q, len), Base) = Diff(q, Base) + len
    BY <1>1, <2>3, Counted
  <2> QED
    BY <1>2, <2>1, <2>2, <2>4 DEF f_chunk_end, Place
<1> QED
  BY <1>1, <1>2, <1>3, <1>5, <1>6, <1>7, <1>8, <1>9

\* Distances from the head as it is stored: the bytes taken and not yet
\* published are counted.
LEMMA HeadDiff ==
  ASSUME PlaceOK, IndexOK, ConsOK, NEW q \in Pos, Place(Hd) <= Place(q),
         Place(q) - Place(Hd) + Taken < W
  PROVE  Diff(q, head) = Place(q) - Place(Hd) + Taken
<1>1. /\ Base \in Pos /\ Hd \in Pos /\ Place(Hd) \in Nat /\ Taken \in Nat /\ Taken <= Size
      /\ W \in Nat \ {0} /\ Size \in Nat /\ 2 * Size < W
  <2>1. /\ W \in Nat \ {0} /\ Size \in Nat /\ MinAlloc \in Nat \ {0} /\ MaxLen \in Nat \ {0}
        /\ 2 * (Size + MinAlloc + 2 * MaxLen - 2) < W
    BY Numbers
  <2> HIDE DEF MaxLen
  <2>2. 2 * Size < W
    BY <2>1
  <2> QED
    BY <2>1, <2>2, Amounts
<1>2. head \in Pos
  BY DEF IndexOK
<1>3. Place(q) \in Nat
  BY <1>1, Counted DEF Place
<1>4. Diff(q, Hd) = Place(q) - Place(Hd)
  <2>1. Diff(q, Hd) = IF Diff(Hd, Base) <= Diff(q, Base) THEN Diff(q, Base) - Diff(Hd, Base)
                      ELSE Diff(q, Base) - Diff(Hd, Base) + W
    BY <1>1, Counted
  <2> QED
    BY <2>1 DEF Place
<1>5. CASE cons.at # "publish"
  <2>1. Hd = head /\ Taken = 0
    BY <1>5 DEF Hd, Taken
  <2> QED
    BY <1>1, <1>3, <1>4, <2>1
<1>6. CASE cons.at = "publish"
  <2>1. PICK k \in Nat : k = Taken /\ k = cons.len
    BY <1>1, <1>6 DEF Taken
  <2>2. Hd = Add(head, k)
    BY <1>6, <2>1 DEF Hd
  <2>3. Diff(head, head) = 0 /\ Diff(head, head) + k < W
    BY <1>1, <1>2, <2>1, Counted
  <2>4. Diff(Hd, head) = k
    BY <1>2, <2>2, <2>3, Counted
  <2>5. Diff(q, Hd) = IF Diff(Hd, head) <= Diff(q, head) THEN Diff(q, head) - Diff(Hd, head)
                      ELSE Diff(q, head) - Diff(Hd, head) + W
    BY <1>1, <1>2, Counted
  <2>6. Diff(q, head) \in Nat
    BY <1>2, Counted
  <2> QED
    BY <1>1, <1>3, <1>4, <2>1, <2>4, <2>5, <2>6
<1> QED
  BY <1>5, <1>6

\* The amounts as the code computes them.
LEMMA Computed ==
  ASSUME PlaceOK, IndexOK, ConsOK
  PROVE  /\ f_cursize(head, tail) = Place(tail) - Place(Hd) + Taken
         /\ f_free_count(head, tail) = Size - (Place(tail) - Place(Hd) + Taken)
         /\ Diff(f_chunk_end(end_chunk), tail) = Total - Place(tail)
         /\ Diff(f_chunk_end(end_chunk), head) = Total - Place(Hd) + Taken
         /\ \A n \in Nat : Place(tail) + n <= Place(Hd) + Size =>
              /\ Add(tail, n) \in Pos /\ Place(Add(tail, n)) = Place(tail) + n
              /\ 2 * (Place(tail) + n) < W
              /\ f_pos_lt(f_chunk_end(end_chunk), Add(tail, n)) <=> Total < Place(tail) + n
<1> HIDE DEF MaxLen
<1>n. /\ W \in Nat \ {0} /\ Size \in Nat \ {0} /\ MinAlloc \in Nat \ {0} /\ MaxLen \in Nat \ {0}
      /\ 2 * (Size + MinAlloc + 2 * MaxLen - 2) < W
  BY Numbers
<1>1. /\ Base \in Pos /\ Hd \in Pos /\ Place(Hd) \in Nat /\ Place(tail) \in Nat
      /\ Place(Tl) \in Nat /\ Total \in Nat /\ Taken \in Nat /\ Taken <= Size
      /\ Place(Hd) <= MaxLen /\ 2 * Total < W /\ Total <= Size + MinAlloc + 2 * MaxLen - 2
      /\ Used = Place(Tl) - Place(Hd) + Taken
      /\ f_chunk_end(end_chunk) \in Pos /\ Place(f_chunk_end(end_chunk)) = Total
  BY Amounts
<1>2. /\ tail \in Pos /\ Place(Hd) <= Place(tail) /\ Place(tail) <= Place(Tl)
      /\ Place(Tl) <= Total /\ Used <= Size
  BY DEF IndexOK
<1>3. Diff(tail, head) = Place(tail) - Place(Hd) + Taken
  <2>1. Place(tail) - Place(Hd) + Taken < W
    BY <1>1, <1>2, <1>n
  <2> QED
    BY <1>2, <2>1, HeadDiff
<1>4. PICK q \in Pos : q = f_chunk_end(end_chunk) /\ Place(q) = Total
  BY <1>1
<1>5. Diff(q, head) = Total - Place(Hd) + Taken
  <2>1. Place(q) - Place(Hd) + Taken < W /\ Place(Hd) <= Place(q)
    BY <1>1, <1>2, <1>4, <1>n
  <2> QED
    BY <1>4, <2>1, HeadDiff
<1>6. Diff(q, tail) = Total - Place(tail)
  <2>1. Diff(q, tail) = IF Diff(tail, Base) <= Diff(q, Base) THEN Diff(q, Base) - Diff(tail, Base)
                      ELSE Diff(q, Base) - Diff(tail, Base) + W
    BY <1>1, <1>2, Counted
  <2> QED
    BY <1>1, <1>2, <1>4, <2>1 DEF Place
<1>7. ASSUME NEW n \in Nat, Place(tail) + n <= Place(Hd) + Size
      PROVE  /\ Add(tail, n) \in Pos /\ Place(Add(tail, n)) = Place(tail) + n
             /\ 2 * (Place(tail) + n) < W
             /\ f_pos_lt(q, Add(tail, n)) <=> Total < Place(tail) + n
  <2>1. 2 * (Place(tail) + n) < W
    BY <1>1, <1>7, <1>n
  <2>2. Diff(tail, Base) = Place(tail) /\ Diff(tail, Base) + n < W
    BY <1>1, <1>n, <2>1 DEF Place
  <2>3. Add(tail, n) \in Pos /\ Diff(Add(tail, n), Base) = Diff(tail, Base) + n
    BY <1>1, <1>2, <2>2, Counted
  <2>4. PICK r \in Pos : r = Add(tail, n) /\ Diff(r, Base) = Place(tail) + n
    BY <2>2, <2>3
  <2>5. f_pos_lt(q, r) <=> Diff(q, Base) < Diff(r, Base)
    <3>1. 2 * Diff(q, Base) < W /\ 2 * Diff(r, Base) < W
      BY <1>1, <1>4, <2>1, <2>4 DEF Place
    <3> QED
      BY <1>1, <3>1, Compared
  <2> QED
    BY <1>4, <2>1, <2>4, <2>5 DEF Place
<1> QED
  BY <1>3, <1>4, <1>5, <1>6, <1>7 DEF f_cursize, f_free_count

-----------------------------------------------------------------------------
(* The amounts are kept: steps that leave the list as it is.               *)

\* Two placed lists with the same links and the same first bytes.
LEMMA Unmoved ==
  ASSUME PlaceOK, ListInv', UNCHANGED << start_chunk, end_chunk >>,
         \A d \in Ptr : chunk'[d].start = chunk[d].start /\ chunk'[d].next = chunk[d].next
  PROVE  /\ PlaceOK' /\ Base' = Base /\ Total' = Total
         /\ \A p : Place(p)' = Place(p)
         /\ \A b, d : d \in Ptr => Beg(chunk', b, d) = Beg(chunk, b, d)
                                   /\ End(chunk', b, d) = End(chunk, b, d)
         /\ \A d \in Chunks : List(chunk', d) = List(chunk, d)
<1>1. /\ Placed(chunk, Base, start_chunk, end_chunk) /\ Linked(chunk) /\ Linked(chunk')
      /\ start_chunk \in Chunks /\ end_chunk \in Chunks
  <2>1. Placed(chunk, Base, start_chunk, end_chunk) /\ Linked(chunk')
    BY DEF PlaceOK, ListInv
  <2> QED
    BY <2>1, PlacedType DEF Placed
<1>2. Base' = Base /\ \A p : Place(p)' = Place(p)
  BY <1>1 DEF Base, Place, Ptr
<1>3. \A b, d : d \in Ptr => Beg(chunk', b, d) = Beg(chunk, b, d)
                             /\ End(chunk', b, d) = End(chunk, b, d)
  BY DEF Beg, End
<1>4. Total' = Total
  BY <1>1, <1>2, <1>3 DEF Total, Ptr
<1>5. \A d \in Chunks : List(chunk', d) = List(chunk, d)
  <2> TAKE d \in Chunks
  <2>1. List(chunk, d) \subseteq Chunks
    BY <1>1, ListLeast
  <2>2. \A x \in List(chunk, d) : chunk'[x].next = chunk[x].next
    BY <2>1 DEF Ptr
  <2>3. PICK new : new = chunk'
    OBVIOUS
  <2>4. List(new, d) = List(chunk, d)
    BY <1>1, <2>2, <2>3, ListAgree
  <2> QED
    BY <2>3, <2>4
<1>6. Placed(chunk', Base, start_chunk, end_chunk)
  <2>1. List(chunk', start_chunk) = List(chunk, start_chunk) /\ List(chunk, start_chunk) \subseteq Chunks
    BY <1>1, <1>5, PlacedType
  <2>2. \A c \in List(chunk, start_chunk) : c \in Ptr /\ chunk[c].next \in Ptr
    BY <1>1, <2>1 DEF Ptr, Linked
  <2> QED
    BY <1>1, <1>3, <2>1, <2>2 DEF Placed, Ptr
<1>7. PlaceOK'
  BY <1>2, <1>6 DEF PlaceOK
<1> QED
  BY <1>2, <1>3, <1>4, <1>5, <1>7

\* The chunks are as they were.
LEMMA SameChunks ==
  ASSUME PlaceOK, ListInv', UNCHANGED << start_chunk, end_chunk, chunk >>
  PROVE  PlaceOK' /\ Base' = Base /\ Total' = Total /\ (\A p : Place(p)' = Place(p))
  BY Unmoved

\* A consumer's step that takes D bytes of chunks off the list and moves the
\* head no further than the tail leaves the producer what it counts on.
LEMMA ConsKeeps ==
  ASSUME AmountInv, UNCHANGED << tail, prod, ooo_segments, ooos_newest, kind, written >>,
         PlaceOK', ConsOK', head' \in Pos, NEW D \in Nat,
         Place(tail)' = Place(tail) - D, Place(Tl)' = Place(Tl) - D, Total' = Total - D,
         Place(Hd)' \in Nat, Place(Hd)' >= Place(Hd) - D, Place(Hd)' <= Place(tail)',
         Place(Hd)' <= ChunkLen[start_chunk'], Used' \in Int, Used' <= Used
  PROVE  AmountInv'
<1> USE DEF AmountInv
<1> HIDE DEF MaxLen
<1>n. Size \in Nat /\ MinAlloc \in Nat /\ MaxLen \in Nat
  BY Numbers
<1>1. /\ Place(Hd) \in Nat /\ Place(tail) \in Nat /\ Place(Tl) \in Nat /\ Total \in Nat
      /\ Used \in Nat /\ Room \in Nat
      /\ Room <= Total - Place(Tl) /\ Room <= Size - Used
  BY Amounts
<1>2. Tl' = Tl /\ Tl \in Pos /\ tail \in Pos
  BY DEF Tl, IndexOK
<1>3. Room' \in Int /\ Room <= Room'
  <2>1. Room' = Total' - Place(Tl)' \/ Room' = Size - Used'
    BY DEF Room
  <2> QED
    BY <1>1, <1>n, <2>1
<1>4. IndexOK'
  <2>1. /\ Place(Hd)' <= Place(tail)' /\ Place(tail)' <= Place(Tl)' /\ Place(Tl)' <= Total'
        /\ Used' <= Size
        /\ Total' <= Place(Hd)' + Size + MinAlloc + MaxLen - 2
    BY <1>1, <1>n DEF IndexOK
  <2> QED
    BY <1>2, <2>1 DEF IndexOK
<1>5. ProdOK'
  <2>1. /\ prod.at \in {"idle", "alloc", "copy", "publish"}
        /\ prod.at \in {"alloc", "copy"} =>
            /\ prod = [at |-> prod.at, op |-> prod.op, len |-> prod.len, off |-> prod.off,
                       need |-> prod.need, old |-> prod.old]
            /\ prod.op \in {"enqueue", "segments", "partial", "offset", "nocopy", "fill"}
            /\ prod.len \in Nat \ {0} /\ prod.off \in Nat
            /\ prod.op = "offset" => prod.off > 0 /\ kind = "rx"
            /\ prod.op # "offset" => prod.off = 0
            /\ prod.op \in {"nocopy", "fill"} => kind # "rx"
            /\ ooos_newest = NoSeg
    BY DEF ProdOK
  <2>2. ASSUME prod.at \in {"alloc", "copy"}
        PROVE  prod.off + prod.len <= Size - Used'
    <3>1. prod.off + prod.len <= Size - Used
      BY <2>2 DEF ProdOK
    <3> QED
      BY <1>1, <1>n, <2>1, <2>2, <3>1
  <2>3. ASSUME prod.at = "alloc"
        PROVE  /\ prod.need \in Nat \ {0}
               /\ Total' + prod.need <= Place(Hd)' + Size + MinAlloc - 1
               /\ prod.op # "fill" => /\ Total' < Place(Tl)' + prod.off + prod.len
                                      /\ Place(Tl)' + prod.off + prod.len <= Total' + prod.need
    <3>1. /\ prod.need \in Nat \ {0}
          /\ Total + prod.need <= Place(Hd) + Size + MinAlloc - 1
          /\ prod.op # "fill" => /\ Total < Place(Tl) + prod.off + prod.len
                                 /\ Place(Tl) + prod.off + prod.len <= Total + prod.need
          /\ prod.off \in Nat /\ prod.len \in Nat
      BY <2>3 DEF ProdOK
    <3> QED
      BY <1>1, <1>n, <3>1
  <2>4. ASSUME prod.at = "copy"
        PROVE  prod.op # "fill" /\ prod.off + prod.len <= Total' - Place(Tl)'
    <3>1. prod.op # "fill" /\ prod.off + prod.len <= Total - Place(Tl)
      BY <2>4 DEF ProdOK
    <3> QED
      BY <1>1, <2>1, <2>4, <3>1
  <2> QED
    BY <2>1, <2>2, <2>3, <2>4 DEF ProdOK
<1>6. OooOK'
  <2>1. SegsOK(ooo_segments, Tl, Room')
    <3>0. PICK segs : segs = ooo_segments
      OBVIOUS
    <3>1. PICK r \in Int : r = Room'
      BY <1>3
    <3>2. SegsOK(segs, Tl, Room) /\ Room <= r
      BY <1>3, <3>0, <3>1 DEF OooOK
    <3>3. SegsOK(segs, Tl, r)
      BY <1>1, <1>2, <3>2, SegsWider
    <3> QED
      BY <3>0, <3>1, <3>3
  <2> QED
    BY <1>2, <2>1 DEF OooOK
<1> QED
  BY <1>4, <1>5, <1>6

\* A consumer's step that moves nothing.
LEMMA ConsStill ==
  ASSUME AmountInv, ListInv',
         UNCHANGED << chunk, start_chunk, end_chunk, head, tail, prod, ooo_segments, ooos_newest,
                      kind, written >>,
         cons.at # "publish", cons'.at # "publish",
         PlaceOK' /\ Place(tail)' = Place(tail) /\ Place(Hd)' = Place(Hd) => ConsOK'
  PROVE  AmountInv'
<1> USE DEF AmountInv
<1>1. PlaceOK' /\ Base' = Base /\ Total' = Total /\ (\A p : Place(p)' = Place(p))
  BY SameChunks
<1>2. Hd' = Hd /\ Tl' = Tl /\ Taken' = Taken
  BY DEF Hd, Tl, Taken
<1>3. Place(tail)' = Place(tail) /\ Place(Hd)' = Place(Hd) /\ Place(Tl)' = Place(Tl)
  BY <1>1, <1>2 DEF Place
<1>4. /\ Place(Hd) \in Nat /\ Place(tail) \in Nat /\ Place(Tl) \in Nat /\ Total \in Nat
      /\ Used \in Nat
  BY Amounts
<1>5. Used' = Used
  BY <1>2, <1>3 DEF Used
<1>6. head' \in Pos /\ Place(Hd) <= Place(tail) /\ Place(Hd) <= ChunkLen[start_chunk']
  BY DEF IndexOK
<1>7. /\ Place(tail)' = Place(tail) - 0 /\ Place(Tl)' = Place(Tl) - 0 /\ Total' = Total - 0
      /\ Place(Hd)' \in Nat /\ Place(Hd)' >= Place(Hd) - 0 /\ Place(Hd)' <= Place(tail)'
      /\ Place(Hd)' <= ChunkLen[start_chunk'] /\ Used' \in Int /\ Used' <= Used
  BY <1>1, <1>3, <1>4, <1>5, <1>6
<1>8. ConsOK'
  BY <1>1, <1>3
<1> QED
  BY <1>1, <1>6, <1>7, <1>8, ConsKeeps

-----------------------------------------------------------------------------
(* The consumer's steps.                                                   *)

\* The consumer asks for no more than was enqueued.
LEMMA ConsStartsOK ==
  ASSUME AmountInv, ListInv',
         DequeueStart \/ PeekStart \/ DropAllStart \/ CopyOut \/ Peek
  PROVE  AmountInv'
<1> USE DEF AmountInv
<1>0. UNCHANGED << chunk, start_chunk, end_chunk, head, tail, prod, ooo_segments, ooos_newest,
                   kind, written >>
  BY DEF DequeueStart, PeekStart, DropAllStart, CopyOut, Peek, Stay, shared, prodVars
<1>1. /\ Place(Hd) \in Nat /\ Place(tail) \in Nat /\ Place(Hd) <= Place(tail)
      /\ Taken \in Nat
  BY Amounts DEF IndexOK
<1>2. f_cursize(head, tail) = Place(tail) - Place(Hd) + Taken
  BY Computed
<1>3. ASSUME cons.at \in {"idle", "copy"}
      PROVE  Taken = 0 /\ cons.at # "publish"
  BY <1>3 DEF Taken
<1>4. \A n \in DeqLens : n \in Nat /\ n > 0
  BY ConstantsOK DEF ConstantsOK
<1>5. \A n \in PeekOffsets : n \in Nat
  BY ConstantsOK DEF ConstantsOK
<1>6. CASE DequeueStart
  <2>1. PICK len \in DeqLens, op \in {"dequeue", "drop"} :
          LET n == f_cursize(head, tail) IN
          /\ op = "dequeue" => kind # "tx"
          /\ cons' = [at |-> IF op = "dequeue" THEN "copy" ELSE "unlink", op |-> op,
                      len |-> IF n < len THEN n ELSE len, off |-> 0]
    BY <1>6 DEF DequeueStart
  <2>2. Taken = 0 /\ cons.at # "publish" /\ f_cursize(head, tail) # 0
    BY <1>3, <1>6 DEF DequeueStart
  <2>3. PICK m \in Nat : /\ m > 0 /\ m <= Place(tail) - Place(Hd)
                         /\ cons' = [at |-> IF op = "dequeue" THEN "copy" ELSE "unlink", op |-> op,
                                     len |-> m, off |-> 0]
    BY <1>1, <1>2, <1>4, <2>1, <2>2
  <2>4. cons'.at # "publish"
    BY <2>3
  <2>5. ASSUME Place(tail)' = Place(tail), Place(Hd)' = Place(Hd)
        PROVE  ConsOK'
    BY <1>1, <2>1, <2>3, <2>5 DEF ConsOK
  <2> QED
    BY <1>0, <2>2, <2>4, <2>5, ConsStill
<1>7. CASE PeekStart
  <2>1. PICK len \in DeqLens, off \in PeekOffsets :
          LET n == f_cursize(head, tail) IN
          /\ off < n
          /\ cons' = [at |-> "copy", op |-> "peek",
                      len |-> IF n - off < len THEN n - off ELSE len, off |-> off]
    BY <1>7 DEF PeekStart
  <2>2. Taken = 0 /\ cons.at # "publish"
    BY <1>3, <1>7 DEF PeekStart
  <2>3. PICK m \in Nat : /\ m > 0 /\ off + m <= Place(tail) - Place(Hd) /\ off \in Nat
                         /\ cons' = [at |-> "copy", op |-> "peek", len |-> m, off |-> off]
    BY <1>1, <1>2, <1>4, <1>5, <2>1, <2>2
  <2>4. cons'.at # "publish"
    BY <2>3
  <2>5. ASSUME Place(tail)' = Place(tail), Place(Hd)' = Place(Hd)
        PROVE  ConsOK'
    BY <1>1, <2>3, <2>5 DEF ConsOK
  <2> QED
    BY <1>0, <2>2, <2>4, <2>5, ConsStill
<1>8. CASE DropAllStart
  <2>1. /\ Taken = 0 /\ cons.at # "publish" /\ kind # "rx"
        /\ cons' = [at |-> "unlink", op |-> "drop_all", len |-> f_cursize(head, tail), off |-> 0]
    BY <1>3, <1>8 DEF DropAllStart
  <2>3. PICK m \in Nat : /\ m <= Place(tail) - Place(Hd)
                         /\ cons' = [at |-> "unlink", op |-> "drop_all", len |-> m, off |-> 0]
    BY <1>1, <1>2, <2>1
  <2>4. cons'.at # "publish"
    BY <2>3
  <2>5. ASSUME Place(tail)' = Place(tail), Place(Hd)' = Place(Hd)
        PROVE  ConsOK'
    BY <1>0, <1>1, <2>1, <2>3, <2>5 DEF ConsOK
  <2> QED
    BY <1>0, <2>1, <2>4, <2>5, ConsStill
<1>9. CASE CopyOut
  <2>1. cons.at = "copy" /\ cons.op = "dequeue" /\ cons' = [cons EXCEPT !.at = "unlink"]
    BY <1>9 DEF CopyOut
  <2>2. PICK n \in Nat, o \in Nat : /\ cons = [at |-> "copy", op |-> "dequeue", len |-> n, off |-> o]
                                    /\ n > 0 /\ o = 0 /\ o + n <= Place(tail) - Place(Hd)
    BY <2>1 DEF ConsOK
  <2>3. cons' = [at |-> "unlink", op |-> "dequeue", len |-> n, off |-> o]
    BY <2>1, <2>2
  <2>4. cons'.at # "publish" /\ cons.at # "publish"
    BY <2>1, <2>3
  <2>5. ASSUME Place(tail)' = Place(tail), Place(Hd)' = Place(Hd)
        PROVE  ConsOK'
    BY <1>1, <2>2, <2>3, <2>5 DEF ConsOK
  <2> QED
    BY <1>0, <2>4, <2>5, ConsStill
<1>10. CASE Peek
  <2>1. cons' = Idle /\ cons.at # "publish" /\ cons'.at # "publish"
    BY <1>10 DEF Peek, Idle
  <2>2. ConsOK'
    BY <2>1 DEF ConsOK, Idle
  <2> QED
    BY <1>0, <2>1, <2>2, ConsStill
<1> QED
  BY <1>6, <1>7, <1>8, <1>9, <1>10

\* The store of the head: what was taken is now free.
LEMMA PublishHeadOK ==
  ASSUME AmountInv, ListInv', PublishHead
  PROVE  AmountInv'
<1> USE DEF AmountInv
<1>0. /\ UNCHANGED << chunk, start_chunk, end_chunk, tail, prod, ooo_segments, ooos_newest,
                      kind, written >>
      /\ cons.at = "publish" /\ head' = Add(head, cons.len) /\ cons'.at \in {"idle", "closed"}
  BY DEF PublishHead, shared, prodVars, Idle
<1>1. PlaceOK' /\ Base' = Base /\ Total' = Total /\ (\A p : Place(p)' = Place(p))
  BY <1>0, SameChunks
<1>2. Hd' = Hd /\ Tl' = Tl /\ Taken' = 0 /\ head' = Hd
  BY <1>0 DEF Hd, Tl, Taken
<1>3. Place(tail)' = Place(tail) /\ Place(Hd)' = Place(Hd) /\ Place(Tl)' = Place(Tl)
  BY <1>0, <1>1, <1>2 DEF Place
<1>4. /\ Place(Hd) \in Nat /\ Place(tail) \in Nat /\ Place(Tl) \in Nat /\ Total \in Nat
      /\ Taken \in Nat /\ Hd \in Pos /\ Used = Place(Tl) - Place(Hd) + Taken
  BY Amounts
<1>5. Used' = Place(Tl)' - Place(Hd)' + Taken'
  BY DEF Used
<1>6. Place(Hd) <= Place(tail) /\ Place(Hd) <= ChunkLen[start_chunk']
  BY <1>0 DEF IndexOK
<1>7. /\ Place(tail)' = Place(tail) - 0 /\ Place(Tl)' = Place(Tl) - 0 /\ Total' = Total - 0
      /\ Place(Hd)' \in Nat /\ Place(Hd)' >= Place(Hd) - 0 /\ Place(Hd)' <= Place(tail)'
      /\ Place(Hd)' <= ChunkLen[start_chunk'] /\ Used' \in Int /\ Used' <= Used
  BY <1>1, <1>2, <1>3, <1>4, <1>5, <1>6
<1>8. ConsOK'
  BY <1>0 DEF ConsOK
<1>9. head' \in Pos
  BY <1>2, <1>4
<1> QED
  BY <1>0, <1>1, <1>7, <1>8, <1>9, ConsKeeps

\* f_unlink_chunks: the list then starts with the chunk that holds the position,
\* or with the last chunk when the position is the end of the list.
LEMMA UnlinkPlace ==
  ASSUME PlaceOK, NEW pos \in Pos, End(chunk, Base, start_chunk) <= Place(pos),
         Place(pos) <= Total, NEW ooo \in BOOLEAN, NEW u, u = Unlink(pos, ooo)
  PROVE  /\ u.start \in List(chunk, start_chunk)
         /\ u.gone = List(chunk, start_chunk) \ List(chunk, u.start)
         /\ Beg(chunk, Base, u.start) <= Place(pos) /\ Place(pos) <= End(chunk, Base, u.start)
         /\ Place(pos) < Total => Holds(chunk, Base, start_chunk, u.start, Place(pos))
         /\ Place(pos) = Total => u.start = end_chunk
         /\ svm_fifo_find_next_chunk(chunk, chunk[start_chunk].next, pos) =
               IF Place(pos) < Total THEN u.start ELSE NoChunk
<1> DEFINE L == List(chunk, start_chunk)
           nx == chunk[start_chunk].next
           found == svm_fifo_find_next_chunk(chunk, nx, pos)
           last == FirstFrom(chunk, start_chunk, {d \in Chunks : chunk[d].next = NoChunk})
           c == IF found = NoChunk THEN last ELSE found
<1>1. /\ Placed(chunk, Base, start_chunk, end_chunk) /\ Linked(chunk) /\ Base \in Pos
      /\ start_chunk \in Chunks /\ end_chunk \in L /\ chunk[end_chunk].next = NoChunk
  <2>1. Placed(chunk, Base, start_chunk, end_chunk)
    BY DEF PlaceOK
  <2> QED
    BY <2>1 DEF Placed
<1>2. /\ start_chunk \in L /\ L \subseteq Chunks
      /\ \A d \in L : /\ Beg(chunk, Base, d) \in Nat /\ End(chunk, Base, d) \in Nat
                      /\ Beg(chunk, Base, d) < End(chunk, Base, d)
                      /\ d # end_chunk => /\ chunk[d].next \in L /\ chunk[d].next # NoChunk
                                          /\ Beg(chunk, Base, chunk[d].next) = End(chunk, Base, d)
  BY <1>1, PlacedType
<1>3. Place(pos) \in Nat /\ Place(pos) = Diff(pos, Base) /\ Total = End(chunk, Base, end_chunk)
  BY <1>1, Counted DEF Place, Total
<1>4. last = end_chunk
  <2>1. last \in L
    BY <1>1, FirstFromEnd
  <2>2. last # NoChunk /\ NoChunk \notin {d \in Chunks : chunk[d].next = NoChunk}
    BY <1>2, <2>1, Numbers
  <2>3. last \in {d \in Chunks : chunk[d].next = NoChunk}
    BY <1>1, <2>2, FirstFromFirst
  <2> QED
    BY <1>1, <2>1, <2>3, ListEnd
<1>5. /\ Place(pos) < Total => Holds(chunk, Base, start_chunk, found, Place(pos)) /\ found # NoChunk
      /\ ~(Place(pos) < Total) => found = NoChunk
  <2>1. CASE start_chunk = end_chunk
    <3>1. nx = NoChunk /\ NoChunk \in Ptr
      BY <1>1, <2>1 DEF Ptr
    <3>2. found = NoChunk
      BY <1>1, <3>1, FirstFromList DEF svm_fifo_find_next_chunk
    <3>3. ~(Place(pos) < Total)
      BY <1>1, <1>2, <1>3, <2>1
    <3> QED
      BY <3>2, <3>3
  <2>2. CASE start_chunk # end_chunk
    <3>1. PICK d \in L : d = nx /\ Beg(chunk, Base, d) = End(chunk, Base, start_chunk)
      BY <1>2, <2>2
    <3>2. LET r == svm_fifo_find_next_chunk(chunk, d, pos)
          IN  /\ Beg(chunk, Base, d) <= Diff(pos, Base) /\ Diff(pos, Base) < End(chunk, Base, end_chunk) =>
                   Holds(chunk, Base, start_chunk, r, Diff(pos, Base)) /\ r # NoChunk
              /\ ~(Beg(chunk, Base, d) <= Diff(pos, Base) /\ Diff(pos, Base) < End(chunk, Base, end_chunk))
                   => r = NoChunk
      BY <1>1, <1>3, FindNext
    <3> QED
      BY <1>3, <3>1, <3>2
  <2> QED
    BY <2>1, <2>2
<1>6. u.start = c /\ u.gone = L \ List(chunk, c)
  BY DEF Unlink
<1> HIDE DEF found, last, c, L
<1>7. CASE Place(pos) < Total
  <2>1. u.start = found /\ found # NoChunk /\ Holds(chunk, Base, start_chunk, found, Place(pos))
    BY <1>5, <1>6, <1>7 DEF c
  <2>2. found \in L /\ Beg(chunk, Base, found) <= Place(pos) /\ Place(pos) < End(chunk, Base, found)
    BY <2>1 DEF Holds, L
  <2>3. Place(pos) <= End(chunk, Base, found) /\ Place(pos) # Total
    BY <1>2, <1>3, <1>7, <2>2
  <2> QED
    BY <1>6, <1>7, <2>1, <2>2, <2>3 DEF found, L
<1>8. CASE ~(Place(pos) < Total)
  <2>1. u.start = end_chunk /\ found = NoChunk
    BY <1>4, <1>5, <1>6, <1>8 DEF c
  <2>2. Place(pos) = Total
    BY <1>1, <1>2, <1>3, <1>8
  <2>3. /\ Beg(chunk, Base, u.start) <= Place(pos) /\ Place(pos) <= End(chunk, Base, u.start)
        /\ u.start \in L
    BY <1>1, <1>2, <1>3, <2>1, <2>2
  <2> QED
    BY <1>6, <1>8, <2>1, <2>2, <2>3 DEF found, L
<1> QED
  BY <1>7, <1>8

\* The chunks before c are taken off the list: places are counted from c on.
LEMMA Shifted ==
  ASSUME PlaceOK, ListInv', NEW c \in List(chunk, start_chunk), start_chunk' = c,
         UNCHANGED end_chunk, Collect(List(chunk, start_chunk) \ List(chunk, c))
  PROVE  /\ PlaceOK' /\ Base' = chunk[c].start /\ Base' \in Pos
         /\ Total' = Total - Beg(chunk, Base, c)
         /\ List(chunk', c) = List(chunk, c)
         /\ \A d \in List(chunk, c) : /\ chunk'[d] = chunk[d]
                                      /\ Beg(chunk', Base', d) = Beg(chunk, Base, d) - Beg(chunk, Base, c)
                                      /\ End(chunk', Base', d) = End(chunk, Base, d) - Beg(chunk, Base, c)
         /\ \A p \in Pos : Beg(chunk, Base, c) <= Place(p) =>
               Place(p)' = Place(p) - Beg(chunk, Base, c)
<1> DEFINE L == List(chunk, start_chunk)
           D == Beg(chunk, Base, c)
<1>1. /\ Placed(chunk, Base, start_chunk, end_chunk) /\ Linked(chunk) /\ Base \in Pos
      /\ start_chunk \in Chunks /\ end_chunk \in L /\ chunk[end_chunk].next = NoChunk
  <2>1. Placed(chunk, Base, start_chunk, end_chunk)
    BY DEF PlaceOK
  <2> QED
    BY <2>1 DEF Placed
<1>2. /\ start_chunk \in L /\ L \subseteq Chunks
      /\ \A d \in L : /\ chunk[d].start \in Pos
                      /\ Beg(chunk, Base, d) \in Nat /\ End(chunk, Base, d) \in Nat
                      /\ ChunkLen[d] \in Nat /\ End(chunk, Base, d) = Beg(chunk, Base, d) + ChunkLen[d]
                      /\ d # end_chunk => /\ chunk[d].next \in L /\ chunk[d].next # NoChunk
                                          /\ Beg(chunk, Base, chunk[d].next) = End(chunk, Base, d)
  BY <1>1, PlacedType
<1>3. /\ List(chunk, c) \subseteq L /\ end_chunk \in List(chunk, c) /\ c \in List(chunk, c)
      /\ Closed(chunk, List(chunk, c))
  <2>1. PICK b : b = Base
    OBVIOUS
  <2>2. Placed(chunk, b, c, end_chunk) /\ List(chunk, c) \subseteq L /\ end_chunk \in List(chunk, c)
    BY <1>1, <2>1, PlacedPart
  <2>3. c \in List(chunk, c) /\ Closed(chunk, List(chunk, c))
    BY <2>2, PlacedType
  <2> QED
    BY <2>2, <2>3
<1>4. \A d \in List(chunk, c) : chunk'[d] = chunk[d]
  BY <1>2, <1>3 DEF Collect, Ptr
<1>5. Base' = chunk[c].start /\ Base' \in Pos /\ D \in Nat
  BY <1>2, <1>3, <1>4 DEF Base
<1>6. \A d \in List(chunk, c) : D <= Beg(chunk, Base, d)
  BY <1>1, <1>3, Ordered
<1>7. ASSUME NEW p \in Pos, D <= Diff(p, Base)
      PROVE  Diff(p, Base') = Diff(p, Base) - D
  <2>1. PICK q \in Pos : q = Base' /\ Diff(q, Base) = D
    BY <1>5 DEF Beg
  <2>2. Diff(p, q) = IF Diff(q, Base) <= Diff(p, Base) THEN Diff(p, Base) - Diff(q, Base)
                     ELSE Diff(p, Base) - Diff(q, Base) + W
    BY <1>1, Counted
  <2> QED
    BY <1>7, <2>1, <2>2
<1>8. ASSUME NEW d \in List(chunk, c)
      PROVE  /\ Beg(chunk', Base', d) = Beg(chunk, Base, d) - D
             /\ End(chunk', Base', d) = End(chunk, Base, d) - D
  <2>1. PICK q \in Pos : q = chunk[d].start /\ Diff(q, Base) = Beg(chunk, Base, d)
    BY <1>2, <1>3 DEF Beg
  <2>2. Diff(q, Base') = Diff(q, Base) - D
    BY <1>6, <1>7, <2>1
  <2>3. Beg(chunk', Base', d) = Beg(chunk, Base, d) - D
    BY <1>4, <2>1, <2>2 DEF Beg
  <2>4. Beg(chunk, Base, d) \in Nat /\ ChunkLen[d] \in Nat
    BY <1>2, <1>3
  <2> QED
    BY <1>5, <2>3, <2>4 DEF End
<1>9. Total' = Total - D
  BY <1>3, <1>8 DEF Total
<1>10. List(chunk', c) = List(chunk, c) /\ Linked(chunk')
  <2>1. PICK new : new = chunk'
    OBVIOUS
  <2>2. Linked(new)
    BY <2>1 DEF ListInv
  <2>3. \A d \in List(chunk, c) : new[d].next = chunk[d].next
    BY <1>4, <2>1
  <2>4. List(new, c) = List(chunk, c)
    BY <1>1, <1>2, <2>2, <2>3, ListAgree
  <2> QED
    BY <2>1, <2>2, <2>4
<1>11. Placed(chunk', Base', c, end_chunk)
  <2>1. \A d \in List(chunk, c) : d # end_chunk => Beg(chunk', Base', chunk'[d].next) = End(chunk', Base', d)
    <3> TAKE d \in List(chunk, c)
    <3> HAVE d # end_chunk
    <3>1. chunk[d].next \in List(chunk, c) /\ Beg(chunk, Base, chunk[d].next) = End(chunk, Base, d)
      BY <1>2, <1>3 DEF Closed
    <3> QED
      BY <1>4, <1>8, <3>1
  <2>2. 2 * End(chunk', Base', end_chunk) < W
    <3>1. 2 * Total < W /\ Total \in Nat /\ W \in Nat
      BY <1>1, <1>2, Numbers DEF Placed, Total
    <3>2. End(chunk', Base', end_chunk) = Total - D /\ End(chunk', Base', end_chunk) \in Int
      BY <1>3, <1>5, <1>8, <3>1 DEF Total
    <3> QED
      BY <1>5, <3>1, <3>2
  <2>3. \A d \in List(chunk, c) : chunk'[d].start \in Pos
    BY <1>2, <1>3, <1>4
  <2>4. chunk'[end_chunk].next = NoChunk
    BY <1>1, <1>3, <1>4
  <2> QED
    BY <1>2, <1>3, <1>5, <1>10, <2>1, <2>2, <2>3, <2>4 DEF Placed
<1>12. PlaceOK'
  BY <1>11 DEF PlaceOK
<1>13. \A p \in Pos : D <= Place(p) => Place(p)' = Place(p) - D
  BY <1>7 DEF Place
<1> QED
  BY <1>4, <1>5, <1>8, <1>9, <1>10, <1>12, <1>13

\* The end of a dequeue or a drop: chunks the head has passed leave the list.
LEMMA UnlinkChunksOK ==
  ASSUME AmountInv, ListInv', UnlinkChunks
  PROVE  AmountInv'
<1> USE DEF AmountInv
<1> HIDE DEF MaxLen
<1>n. /\ W \in Nat \ {0} /\ Size \in Nat \ {0} /\ MinAlloc \in Nat \ {0} /\ MaxLen \in Nat \ {0}
      /\ 2 * (Size + MinAlloc + 2 * MaxLen - 2) < W
  BY Numbers
<1>0. /\ UNCHANGED << end_chunk, head, tail, prod, ooo_segments, ooos_newest, kind, written >>
      /\ cons.at = "unlink" /\ cons' = [cons EXCEPT !.at = "publish"]
  BY DEF UnlinkChunks, prodVars
<1>1. /\ Base \in Pos /\ Place(Hd) \in Nat /\ Place(tail) \in Nat /\ Place(Tl) \in Nat /\ Total \in Nat
      /\ Used \in Nat /\ Used = Place(Tl) - Place(Hd) + Taken /\ 2 * Total < W
      /\ Place(Hd) <= Place(tail) /\ Place(tail) <= Place(Tl) /\ Place(Tl) <= Total
      /\ head \in Pos /\ tail \in Pos /\ Tl \in Pos
      /\ Place(Hd) <= ChunkLen[start_chunk]
  BY Amounts DEF IndexOK
<1>2. Hd = head /\ Taken = 0 /\ Tl' = Tl
  BY <1>0 DEF Hd, Taken, Tl
<1>3. PICK n \in Nat : /\ n = cons.len /\ n <= Place(tail) - Place(Hd)
                       /\ cons'.at = "publish" /\ cons'.len = n
                       /\ ConsOK'
  <2>1. PICK n \in Nat, o \in Nat : /\ cons = [at |-> "unlink", op |-> cons.op, len |-> n, off |-> o]
                                    /\ o = 0 /\ o + n <= Place(tail) - Place(Hd)
    BY <1>0 DEF ConsOK
  <2>2. cons' = [at |-> "publish", op |-> cons.op, len |-> n, off |-> o]
    BY <1>0, <2>1
  <2>3. /\ cons.op \in {"dequeue", "drop", "drop_all"}
        /\ cons.op # "drop_all" => n > 0
        /\ cons.op = "drop_all" => kind # "rx"
    BY <1>0, <2>1 DEF ConsOK
  <2>4. ConsOK'
    BY <1>0, <2>1, <2>2, <2>3 DEF ConsOK
  <2> QED
    BY <1>1, <2>1, <2>2, <2>4
<1>4. PICK pos \in Pos : pos = Add(head, n) /\ Place(pos) = Place(Hd) + n
  <2>1. Diff(head, Base) = Place(Hd) /\ Diff(head, Base) + n < W
    BY <1>1, <1>2, <1>3, <1>n DEF Place
  <2>2. Add(head, n) \in Pos /\ Diff(Add(head, n), Base) = Diff(head, Base) + n
    BY <1>1, <2>1, Counted
  <2> QED
    BY <2>1, <2>2 DEF Place
<1>5. Hd' = pos /\ Taken' = n /\ Hd' = pos
  BY <1>0, <1>3, <1>4 DEF Hd, Taken
<1>6. Used' = Place(Tl)' - Place(Hd)' + n
  BY <1>5 DEF Used
<1>7. /\ Placed(chunk, Base, start_chunk, end_chunk) /\ start_chunk \in List(chunk, start_chunk)
      /\ ChunkLen[start_chunk] \in Nat
      /\ End(chunk, Base, start_chunk) = ChunkLen[start_chunk]
  <2>1. Placed(chunk, Base, start_chunk, end_chunk)
    BY DEF PlaceOK
  <2>2. start_chunk \in List(chunk, start_chunk) /\ ChunkLen[start_chunk] \in Nat
    BY <2>1, PlacedType
  <2>3. Beg(chunk, Base, start_chunk) = 0
    BY <1>1, Counted DEF Beg, Base
  <2> QED
    BY <2>1, <2>2, <2>3 DEF End
<1>8. f_pos_lt(pos, f_chunk_end(start_chunk)) <=> Place(pos) < ChunkLen[start_chunk]
  <2>1. 2 * Diff(pos, Base) < W /\ Place(pos) = Diff(pos, Base)
    BY <1>1, <1>3, <1>4, <1>n DEF Place
  <2>2. f_pos_lt(pos, Add(chunk[start_chunk].start, ChunkLen[start_chunk]))
           <=> Diff(pos, Base) < End(chunk, Base, start_chunk)
    BY <1>7, <2>1, Includes
  <2> QED
    BY <1>7, <2>1, <2>2 DEF f_chunk_end
<1>9. CASE f_pos_lt(pos, f_chunk_end(start_chunk))
  <2>1. UNCHANGED shared
    BY <1>3, <1>4, <1>9 DEF UnlinkChunks
  <2>2. UNCHANGED << chunk, start_chunk >>
    BY <2>1 DEF shared
  <2>3. PlaceOK' /\ Base' = Base /\ Total' = Total /\ (\A p : Place(p)' = Place(p))
    BY <1>0, <2>2, SameChunks
  <2>4. Place(tail)' = Place(tail) /\ Place(Tl)' = Place(Tl) /\ Place(Hd)' = Place(pos)
    BY <1>0, <1>2, <1>5, <2>3 DEF Place
  <2>5. Place(pos) <= ChunkLen[start_chunk]
    BY <1>1, <1>4, <1>7, <1>8, <1>9
  <2>6. /\ Place(tail)' = Place(tail) - 0 /\ Place(Tl)' = Place(Tl) - 0 /\ Total' = Total - 0
        /\ Place(Hd)' \in Nat /\ Place(Hd)' >= Place(Hd) - 0 /\ Place(Hd)' <= Place(tail)'
        /\ Place(Hd)' <= ChunkLen[start_chunk'] /\ Used' \in Int /\ Used' <= Used
    BY <1>1, <1>2, <1>3, <1>4, <1>6, <2>2, <2>3, <2>4, <2>5
  <2> QED
    BY <1>0, <1>1, <1>3, <2>3, <2>6, ConsKeeps
<1>10. CASE ~f_pos_lt(pos, f_chunk_end(start_chunk))
  <2>1. PICK ooo \in BOOLEAN : ooo = (cons.op = "drop")
    OBVIOUS
  <2>2. PICK u : u = Unlink(pos, ooo)
    OBVIOUS
  <2>3. Collect(u.gone) /\ start_chunk' = u.start
    BY <1>3, <1>4, <1>10, <2>1, <2>2 DEF UnlinkChunks
  <2>4. /\ u.start \in List(chunk, start_chunk)
        /\ u.gone = List(chunk, start_chunk) \ List(chunk, u.start)
        /\ Beg(chunk, Base, u.start) <= Place(pos) /\ Place(pos) <= End(chunk, Base, u.start)
    <3>1. End(chunk, Base, start_chunk) <= Place(pos) /\ Place(pos) <= Total
      BY <1>1, <1>3, <1>4, <1>7, <1>8, <1>10
    <3> QED
      BY <2>2, <3>1, UnlinkPlace
  <2>5. PICK c \in List(chunk, start_chunk) : c = u.start
    BY <2>4
  <2>6. PICK D \in Nat : D = Beg(chunk, Base, c) /\ D <= Place(pos) /\ Place(pos) <= D + ChunkLen[c]
    <3>1. Beg(chunk, Base, c) \in Nat /\ End(chunk, Base, c) = Beg(chunk, Base, c) + ChunkLen[c]
      BY <1>7, PlacedType
    <3> QED
      BY <2>4, <2>5, <3>1
  <2>7. /\ PlaceOK' /\ Total' = Total - D
        /\ \A p \in Pos : D <= Place(p) => Place(p)' = Place(p) - D
    <3>1. start_chunk' = c /\ Collect(List(chunk, start_chunk) \ List(chunk, c))
      BY <2>3, <2>4, <2>5
    <3> QED
      BY <1>0, <2>6, <3>1, Shifted
  <2>8. Place(tail)' = Place(tail) - D /\ Place(Tl)' = Place(Tl) - D /\ Place(Hd)' = Place(pos) - D
    <3>1. D <= Place(tail) /\ D <= Place(Tl)
      BY <1>1, <1>3, <1>4, <2>6
    <3>2. PICK a \in Pos, b \in Pos : a = tail /\ b = Tl
      BY <1>1
    <3>3. Place(a)' = Place(a) - D /\ Place(b)' = Place(b) - D /\ Place(pos)' = Place(pos) - D
      BY <2>6, <2>7, <3>1, <3>2
    <3>4. Place(tail)' = Place(a)' /\ Place(Tl)' = Place(b)' /\ Place(Hd)' = Place(pos)'
      BY <1>0, <1>2, <1>5, <3>2 DEF Place
    <3> QED
      BY <3>2, <3>3, <3>4
  <2>9. ChunkLen[c] \in Nat
    BY <1>7, PlacedType
  <2>10. /\ Place(Hd)' \in Nat /\ Place(Hd)' >= Place(Hd) - D /\ Place(Hd)' <= Place(tail)'
         /\ Place(Hd)' <= ChunkLen[start_chunk'] /\ Used' \in Int /\ Used' <= Used
    BY <1>1, <1>2, <1>3, <1>4, <1>6, <2>3, <2>5, <2>6, <2>8, <2>9
  <2> QED
    BY <1>0, <1>1, <1>3, <2>7, <2>8, <2>10, ConsKeeps
<1> QED
  BY <1>9, <1>10

-----------------------------------------------------------------------------
(* The producer's steps.                                                   *)

\* A producer's step that moves nothing.
LEMMA ProdStill ==
  ASSUME AmountInv, ListInv',
         UNCHANGED << chunk, start_chunk, end_chunk, head, tail, cons, ooo_segments, kind, written >>,
         ooos_newest' \in {NoSeg, ooos_newest},
         prod.at # "publish", prod'.at # "publish",
         ( /\ Place(Tl)' = Place(Tl) /\ Place(Hd)' = Place(Hd) /\ Total' = Total
           /\ Used' = Used ) => ProdOK'
  PROVE  AmountInv'
<1> USE DEF AmountInv
<1>1. PlaceOK' /\ Base' = Base /\ Total' = Total /\ (\A p : Place(p)' = Place(p))
  BY SameChunks
<1>2. Hd' = Hd /\ Tl' = Tl /\ Taken' = Taken
  BY DEF Hd, Tl, Taken
<1>3. Place(tail)' = Place(tail) /\ Place(Hd)' = Place(Hd) /\ Place(Tl)' = Place(Tl)
  BY <1>1, <1>2 DEF Place
<1>4. Used' = Used
  BY <1>2, <1>3 DEF Used
<1>5. Room' = Room
  BY <1>1, <1>3, <1>4 DEF Room
<1>6. IndexOK'
  BY <1>1, <1>2, <1>3, <1>4 DEF IndexOK
<1>7. ConsOK'
  BY <1>3 DEF ConsOK
<1>8. OooOK'
  BY <1>2, <1>5 DEF OooOK
<1>9. ProdOK'
  BY <1>1, <1>3, <1>4
<1> QED
  BY <1>1, <1>6, <1>7, <1>8, <1>9

\* A call that passed its checks asks for enough chunks, and not for too many.
LEMMA ProdCallOK ==
  ASSUME AmountInv, prod.at # "publish",
         NEW op \in {"enqueue", "segments", "partial", "offset", "nocopy", "fill"},
         NEW len \in Nat \ {0}, NEW off \in Nat, off + len <= Size - Used,
         op = "fill" => off = 0 /\ len = Size - Used /\ Total - Place(Hd) + Taken < Size,
         NEW p, p = ProdCall(op, len, off)
  PROVE  \E need \in Nat :
           /\ p = [at |-> IF need = 0 THEN "copy" ELSE "alloc",
                   op |-> op, len |-> len, off |-> off, need |-> need, old |-> tail_chunk]
           /\ need # 0 =>
                /\ Total + need <= Place(Hd) + Size + MinAlloc - 1
                /\ op # "fill" => Total < Place(Tl) + off + len
                /\ Place(Tl) + off + len <= Total + need
           /\ need = 0 => op # "fill" /\ off + len <= Total - Place(Tl)
<1> USE DEF AmountInv
<1> HIDE DEF MaxLen
<1>n. Size \in Nat \ {0} /\ MinAlloc \in Nat \ {0}
  BY Numbers
<1>1. /\ Place(Hd) \in Nat /\ Place(tail) \in Nat /\ Total \in Nat /\ Taken \in Nat
      /\ Used \in Nat /\ Used = Place(Tl) - Place(Hd) + Taken
      /\ Tl = tail /\ Place(Hd) <= Place(tail) /\ Place(tail) <= Total /\ Used <= Size
  BY Amounts DEF IndexOK, Tl
<1>2. /\ f_cursize(head, tail) = Used
      /\ Diff(f_chunk_end(end_chunk), tail) = Total - Place(tail)
      /\ f_pos_lt(f_chunk_end(end_chunk), Add(tail, off + len)) <=> Total < Place(tail) + off + len
  <2>1. off + len \in Nat /\ Place(tail) + (off + len) <= Place(Hd) + Size
    BY <1>1, <1>n
  <2>2. /\ f_cursize(head, tail) = Place(tail) - Place(Hd) + Taken
        /\ Diff(f_chunk_end(end_chunk), tail) = Total - Place(tail)
        /\ f_pos_lt(f_chunk_end(end_chunk), Add(tail, off + len)) <=> Total < Place(tail) + (off + len)
    BY <2>1, Computed
  <2> QED
    BY <1>1, <2>2
<1>3. PICK a \in Int : /\ a = AllocSize(off + len)
                       /\ a >= off + len - (Total - Place(tail))
                       /\ a = off + len - (Total - Place(tail)) \/ a <= MinAlloc
  <2>1. PICK want, rest : want = Size - f_cursize(head, tail)
                          /\ rest = Diff(f_chunk_end(end_chunk), tail)
    OBVIOUS
  <2>2. PICK min : min = IF MinAlloc < want THEN MinAlloc ELSE want
    OBVIOUS
  <2>3. AllocSize(off + len) = IF min < (off + len) - rest THEN (off + len) - rest ELSE min
    BY <2>1, <2>2 DEF AllocSize
  <2>4. want \in Int /\ rest = Total - Place(tail) /\ min \in Int /\ min <= MinAlloc
    BY <1>1, <1>2, <1>n, <2>1, <2>2
  <2> QED
    BY <1>1, <1>n, <2>3, <2>4
<1>4. PICK need : need = IF op = "fill" \/ Total < Place(tail) + off + len THEN a ELSE 0
  OBVIOUS
<1>5. p = [at |-> IF need = 0 THEN "copy" ELSE "alloc",
           op |-> op, len |-> len, off |-> off, need |-> need, old |-> tail_chunk]
  BY <1>2, <1>3, <1>4 DEF ProdCall
<1>6. CASE op = "fill" \/ Total < Place(tail) + off + len
  <2>1. need = a /\ a > 0
    BY <1>1, <1>3, <1>4, <1>6, <1>n
  <2>2. /\ Total + a <= Place(Hd) + Size + MinAlloc - 1
        /\ op # "fill" => Total < Place(Tl) + off + len
        /\ Place(Tl) + off + len <= Total + a
    BY <1>1, <1>3, <1>6, <1>n
  <2> QED
    BY <1>5, <2>1, <2>2
<1>7. CASE ~(op = "fill" \/ Total < Place(tail) + off + len)
  <2>1. need = 0
    BY <1>4, <1>7
  <2>2. op # "fill" /\ off + len <= Total - Place(Tl)
    BY <1>1, <1>7
  <2> QED
    BY <1>5, <2>1, <2>2
<1> QED
  BY <1>6, <1>7

\* The same, as the conjunct of the invariant.
LEMMA ProdStartOK ==
  ASSUME AmountInv, ListInv',
         UNCHANGED << chunk, start_chunk, end_chunk, head, tail, cons, ooo_segments, kind, written >>,
         ooos_newest' = NoSeg, prod.at = "idle",
         NEW op \in {"enqueue", "segments", "partial", "offset", "nocopy", "fill"},
         NEW len \in Nat \ {0}, NEW off \in Nat, off + len <= Size - Used,
         op = "fill" => off = 0 /\ len = Size - Used /\ Total - Place(Hd) + Taken < Size,
         op = "offset" => off > 0 /\ kind = "rx", op # "offset" => off = 0,
         op \in {"nocopy", "fill"} => kind # "rx",
         prod' = ProdCall(op, len, off)
  PROVE  AmountInv'
<1>1. PICK p : p = ProdCall(op, len, off)
  OBVIOUS
<1>2. PICK need \in Nat :
        /\ p = [at |-> IF need = 0 THEN "copy" ELSE "alloc",
                op |-> op, len |-> len, off |-> off, need |-> need, old |-> tail_chunk]
        /\ need # 0 =>
             /\ Total + need <= Place(Hd) + Size + MinAlloc - 1
             /\ op # "fill" => Total < Place(Tl) + off + len
             /\ Place(Tl) + off + len <= Total + need
        /\ need = 0 => op # "fill" /\ off + len <= Total - Place(Tl)
  BY <1>1, ProdCallOK
<1>3. prod' = [at |-> IF need = 0 THEN "copy" ELSE "alloc",
               op |-> op, len |-> len, off |-> off, need |-> need, old |-> tail_chunk]
  BY <1>1, <1>2
<1>4. prod'.at # "publish" /\ prod.at # "publish"
  BY <1>3
<1>5. ASSUME Place(Tl)' = Place(Tl), Place(Hd)' = Place(Hd), Total' = Total, Used' = Used
      PROVE  ProdOK'
  <2>1. CASE need = 0
    <3>1. prod' = [at |-> "copy", op |-> op, len |-> len, off |-> off, need |-> need, old |-> tail_chunk]
      BY <1>3, <2>1
    <3>2. op # "fill" /\ off + len <= Total' - Place(Tl)' /\ off + len <= Size - Used'
      BY <1>2, <1>5, <2>1
    <3> QED
      BY <3>1, <3>2 DEF ProdOK
  <2>2. CASE need # 0
    <3>1. prod' = [at |-> "alloc", op |-> op, len |-> len, off |-> off, need |-> need, old |-> tail_chunk]
      BY <1>3, <2>2
    <3>2. /\ Total' + need <= Place(Hd)' + Size + MinAlloc - 1
          /\ op # "fill" => Total' < Place(Tl)' + off + len
          /\ Place(Tl)' + off + len <= Total' + need /\ off + len <= Size - Used'
      BY <1>2, <1>5, <2>2
    <3> QED
      BY <2>2, <3>1, <3>2 DEF ProdOK
  <2> QED
    BY <2>1, <2>2
<1> QED
  BY <1>4, <1>5, ProdStill

\* The producer asks for no more than is free.
LEMMA ProdStartsOK ==
  ASSUME AmountInv, ListInv',
         \/ \E op \in {"enqueue", "segments", "partial"} : EnqueueStart(op)
         \/ EnqueueWithOffsetStart \/ ProvisionStart
  PROVE  AmountInv'
<1> USE DEF AmountInv
<1>0. /\ UNCHANGED << chunk, start_chunk, end_chunk, head, tail, cons, ooo_segments, kind, written >>
      /\ prod.at = "idle"
  BY DEF EnqueueStart, EnqueueWithOffsetStart, ProvisionStart, shared, prodVars
<1>1. /\ Used \in Nat /\ Tl = tail /\ Used = Place(Tl) - Place(Hd) + Taken /\ Size \in Nat
      /\ Used <= Size /\ Place(Hd) \in Nat /\ Taken \in Nat /\ Total \in Nat
  BY <1>0, Amounts, Numbers DEF Tl, IndexOK
<1>2. f_free_count(head, tail) = Size - Used
  BY <1>1, Computed
<1>3. (\A n \in EnqLens : n \in Nat \ {0}) /\ (\A n \in Offsets : n \in Nat \ {0})
  BY ConstantsOK DEF ConstantsOK
<1>4. ASSUME prod' = Idle, ooos_newest' \in {NoSeg, ooos_newest}
      PROVE  AmountInv'
  <2>1. ProdOK' /\ prod'.at # "publish" /\ prod.at # "publish"
    BY <1>0, <1>4 DEF ProdOK, Idle
  <2> QED
    BY <1>0, <1>4, <2>1, ProdStill
<1>5. ASSUME NEW op \in {"enqueue", "segments", "partial"}, EnqueueStart(op)
      PROVE  AmountInv'
  <2>1. PICK len \in EnqLens :
          prod' = IF f_free_count(head, tail) = 0 \/ (op = "segments" /\ f_free_count(head, tail) < len) THEN Idle
                  ELSE ProdCall(op, IF f_free_count(head, tail) < len THEN f_free_count(head, tail) ELSE len, 0)
    BY <1>5 DEF EnqueueStart
  <2>2. ooos_newest' = NoSeg
    BY <1>5 DEF EnqueueStart
  <2>3. CASE prod' = Idle
    BY <1>4, <2>2, <2>3
  <2>4. CASE prod' # Idle
    <3>1. PICK m \in Nat \ {0} : m <= Size - Used /\ prod' = ProdCall(op, m, 0)
      BY <1>1, <1>2, <1>3, <2>1, <2>4
    <3>2. 0 + m <= Size - Used /\ 0 \in Nat
      BY <1>1, <3>1
    <3> QED
      BY <1>0, <2>2, <3>1, <3>2, ProdStartOK
  <2> QED
    BY <2>3, <2>4
<1>6. CASE EnqueueWithOffsetStart
  <2>1. PICK len \in EnqLens, off \in Offsets :
          prod' = IF len + off > f_free_count(head, tail) THEN Idle ELSE ProdCall("offset", len, off)
    BY <1>6 DEF EnqueueWithOffsetStart
  <2>2. ooos_newest' = NoSeg /\ kind = "rx"
    BY <1>6 DEF EnqueueWithOffsetStart
  <2>3. CASE prod' = Idle
    BY <1>4, <2>2, <2>3
  <2>4. CASE prod' # Idle
    <3>1. /\ len \in Nat \ {0} /\ off \in Nat /\ off > 0 /\ off + len <= Size - Used
          /\ prod' = ProdCall("offset", len, off)
      BY <1>1, <1>2, <1>3, <2>1, <2>4
    <3> QED
      BY <1>0, <2>2, <3>1, ProdStartOK
  <2> QED
    BY <2>3, <2>4
<1>7. CASE ProvisionStart
  <2>1. ooos_newest' = NoSeg /\ kind # "rx"
    BY <1>7 DEF ProvisionStart, prodVars, OooOK
  <2>2. CASE \E len \in EnqLens : /\ len <= f_free_count(head, tail)
                                  /\ prod' = ProdCall("nocopy", len, 0)
    <3>1. PICK m \in Nat \ {0} : m <= Size - Used /\ prod' = ProdCall("nocopy", m, 0)
      BY <1>2, <1>3, <2>2
    <3>2. 0 + m <= Size - Used /\ 0 \in Nat
      BY <1>1, <3>1
    <3> QED
      BY <1>0, <2>1, <3>1, <3>2, ProdStartOK
  <2>3. CASE /\ Diff(f_chunk_end(end_chunk), head) < Size
             /\ prod' = ProdCall("fill", f_free_count(head, tail), 0)
    <3>1. Diff(f_chunk_end(end_chunk), head) = Total - Place(Hd) + Taken
      BY Computed
    <3>2. PICK m \in Nat \ {0} : m = Size - Used /\ prod' = ProdCall("fill", m, 0)
      <4>1. Place(Tl) \in Nat /\ Place(Tl) <= Total
        BY Amounts DEF IndexOK
      <4>2. Size - Used \in Nat \ {0}
        BY <1>1, <2>3, <3>1, <4>1
      <4> QED
        BY <1>2, <2>3, <4>2
    <3>3. 0 + m <= Size - Used /\ 0 \in Nat /\ Total - Place(Hd) + Taken < Size
      BY <1>1, <2>3, <3>1, <3>2
    <3> QED
      BY <1>0, <2>1, <3>2, <3>3, ProdStartOK
  <2> QED
    BY <1>7, <2>2, <2>3 DEF ProvisionStart
<1> QED
  BY <1>5, <1>6, <1>7

\* No memory: the call is cut to what fits, or given up.
LEMMA AllocFailsOK ==
  ASSUME AmountInv, ListInv', AllocFails
  PROVE  AmountInv'
<1> USE DEF AmountInv
<1>0. /\ UNCHANGED << chunk, start_chunk, end_chunk, head, tail, cons, ooo_segments, kind, written,
                      ooos_newest >>
      /\ prod.at = "alloc"
  BY DEF AllocFails, shared, prodVars
<1>1. /\ Used \in Nat /\ Tl = tail /\ Used = Place(Tl) - Place(Hd) + Taken
      /\ Place(Hd) \in Nat /\ Total \in Nat /\ Place(Tl) \in Nat /\ Place(Tl) <= Total
  BY <1>0, Amounts DEF Tl, IndexOK
<1>2. Diff(f_chunk_end(end_chunk), tail) = Total - Place(Tl)
  BY <1>1, Computed
<1>3. CASE ~(prod.op \in {"enqueue", "partial"} /\ Diff(f_chunk_end(end_chunk), tail) # 0)
  <2>1. prod' = Idle
    BY <1>3 DEF AllocFails
  <2>2. ProdOK' /\ prod'.at # "publish" /\ prod.at # "publish"
    BY <1>0, <2>1 DEF ProdOK, Idle
  <2> QED
    BY <1>0, <2>2, ProdStill
<1>4. CASE prod.op \in {"enqueue", "partial"} /\ Diff(f_chunk_end(end_chunk), tail) # 0
  <2>0. PICK rest : /\ rest = Diff(f_chunk_end(end_chunk), tail)
                    /\ prod' = [prod EXCEPT !.at = "copy", !.need = 0, !.len = rest]
    BY <1>4 DEF AllocFails
  <2>1. PICK len \in Nat \ {0} : len = Total - Place(Tl) /\ len = rest
    BY <1>1, <1>2, <1>4, <2>0
  <2>2. PICK op \in {"enqueue", "partial"}, l0 \in Nat \ {0}, need \in Nat \ {0} :
          /\ op = prod.op /\ l0 = prod.len /\ need = prod.need
          /\ prod.off = 0 /\ prod.off + l0 <= Size - Used
          /\ prod = [at |-> "alloc", op |-> op, len |-> l0, off |-> 0, need |-> need, old |-> prod.old]
          /\ ooos_newest = NoSeg
          /\ Total < Place(Tl) + prod.off + l0
    BY <1>0, <1>4 DEF ProdOK
  <2>3. PICK p : p = prod'
    OBVIOUS
  <2>4. p = [at |-> "copy", op |-> op, len |-> len, off |-> 0, need |-> 0, old |-> prod.old]
    <3>1. PICK q, old, a, b, c, d, e : /\ q = prod /\ p = [q EXCEPT !.at = "copy", !.need = 0, !.len = rest]
                        /\ q = [at |-> a, op |-> b, len |-> c, off |-> d, need |-> e, old |-> old]
                        /\ b = op /\ d = 0 /\ old = prod.old
      BY <2>0, <2>2, <2>3
    <3>2. p.at = "copy" /\ p.op = b /\ p.len = rest /\ p.off = d /\ p.need = 0 /\ p.old = old
      BY <3>1
    <3>3. p = [at |-> p.at, op |-> p.op, len |-> p.len, off |-> p.off, need |-> p.need, old |-> p.old]
      BY <3>1
    <3> QED
      BY <2>1, <3>1, <3>2, <3>3
  <2>5. prod'.at # "publish" /\ prod.at # "publish"
    BY <1>0, <2>3, <2>4
  <2>6. len <= Size - Used
    BY <1>1, <2>1, <2>2, Numbers
  <2>7. ASSUME Place(Tl)' = Place(Tl), Total' = Total, Used' = Used
        PROVE  ProdOK'
    <3>1. 0 + len <= Size - Used' /\ 0 + len <= Total' - Place(Tl)'
      BY <1>1, <2>1, <2>6, <2>7
    <3>2. prod' = [at |-> "copy", op |-> op, len |-> len, off |-> 0, need |-> 0, old |-> prod.old]
      BY <2>3, <2>4
    <3> QED
      BY <1>0, <2>2, <3>1, <3>2 DEF ProdOK
  <2> QED
    BY <1>0, <2>5, <2>7, ProdStill
<1> QED
  BY <1>3, <1>4

\* The store of the tail.
LEMMA PublishTailOK ==
  ASSUME AmountInv, ListInv', PublishTail
  PROVE  AmountInv'
<1> USE DEF AmountInv
<1>0. /\ UNCHANGED << chunk, start_chunk, end_chunk, head, cons, ooo_segments, ooos_newest, kind,
                      written >>
      /\ prod.at = "publish" /\ tail' = prod.tail /\ prod' = Idle
  BY DEF PublishTail, shared, prodVars
<1>1. PlaceOK' /\ Base' = Base /\ Total' = Total /\ (\A p : Place(p)' = Place(p))
  BY <1>0, SameChunks
<1>2. Hd' = Hd /\ Tl' = Tl /\ Taken' = Taken /\ tail' = Tl
  BY <1>0 DEF Hd, Tl, Taken, Idle
<1>3. Place(tail)' = Place(Tl) /\ Place(Hd)' = Place(Hd) /\ Place(Tl)' = Place(Tl)
  BY <1>1, <1>2 DEF Place
<1>4. Used' = Used /\ Room' = Room
  BY <1>1, <1>2, <1>3 DEF Used, Room
<1>5. /\ Place(Hd) \in Nat /\ Place(tail) \in Nat /\ Place(Tl) \in Nat /\ Total \in Nat
      /\ Place(Hd) <= Place(tail) /\ Place(tail) <= Place(Tl) /\ Place(Tl) <= Total
  BY Amounts DEF IndexOK
<1>6. IndexOK'
  <2>1. Place(Hd)' <= Place(tail)' /\ Place(tail)' <= Place(Tl)' /\ tail' \in Pos
    BY <1>2, <1>3, <1>5 DEF IndexOK
  <2> QED
    BY <1>0, <1>1, <1>2, <1>3, <1>4, <2>1 DEF IndexOK
<1>7. ConsOK'
  <2>1. ASSUME cons.at \in {"copy", "unlink"}
        PROVE  cons.off + cons.len <= Place(tail)' - Place(Hd)'
    <3>1. cons.off \in Nat /\ cons.len \in Nat /\ cons.off + cons.len <= Place(tail) - Place(Hd)
      BY <2>1 DEF ConsOK
    <3> QED
      BY <1>3, <1>5, <3>1
  <2> QED
    BY <1>0, <2>1 DEF ConsOK
<1>8. OooOK' /\ ProdOK'
  BY <1>0, <1>2, <1>4 DEF OooOK, ProdOK, Idle
<1> QED
  BY <1>1, <1>6, <1>7, <1>8

\* The recursive function that adds up the lengths is well defined.
LEMMA BytesEqn ==
  ASSUME NEW k \in Nat, NEW s, Len(s) = k
  PROVE  LET b == BytesTo(s)
         IN  b[0] = 0 /\ \A i \in 0 .. k - 1 : b[i + 1] = b[i] + ChunkLen[s[i + 1]]
<1> DEFINE Step(x, n) == x + ChunkLen[s[n]]
           F(g) == [n \in 0 .. k |-> IF n = 0 THEN 0 ELSE Step(g[n - 1], n)]
           Is(g, j) == /\ g = [n \in 0 .. j |-> g[n]]
                       /\ g[0] = 0
                       /\ \A n \in 0 .. j - 1 : g[n + 1] = Step(g[n], n + 1)
           G == {j \in Nat : \E g : Is(g, j)}
<1>w. BytesTo(s) = CHOOSE g : g = F(g)
  BY DEF BytesTo
<1>s. \A x, n : Step(x, n) = x + ChunkLen[s[n]]
  OBVIOUS
<1> HIDE DEF Step
<1>1. 0 \in G
  <2> DEFINE g == [n \in 0 .. 0 |-> 0]
  <2>1. g[0] = 0 /\ g = [n \in 0 .. 0 |-> g[n]]
    OBVIOUS
  <2>2. Is(g, 0)
    <3> HIDE DEF g
    <3> QED
      BY <2>1
  <2> HIDE DEF Is, g
  <2> QED
    BY <2>2
<1>2. ASSUME NEW j \in 0 .. k - 1, j \in G
      PROVE  j + 1 \in G
  <2>0. j \in Nat
    OBVIOUS
  <2>1. PICK g : Is(g, j)
    BY <1>2
  <2> DEFINE h == [n \in 0 .. j + 1 |-> IF n = j + 1 THEN Step(g[j], j + 1) ELSE g[n]]
  <2>2. /\ h = [n \in 0 .. j + 1 |-> h[n]]
        /\ h[j + 1] = Step(g[j], j + 1)
        /\ \A n \in 0 .. j : h[n] = g[n]
    BY <2>0
  <2> HIDE DEF h
  <2>3. h[0] = 0
    BY <2>0, <2>1, <2>2
  <2>4. ASSUME NEW n \in 0 .. j
        PROVE  h[n + 1] = Step(h[n], n + 1)
    <3>1. CASE n = j
      BY <2>0, <2>2, <3>1
    <3>2. CASE n \in 0 .. j - 1
      <4>1. g[n + 1] = Step(g[n], n + 1)
        BY <2>1, <3>2
      <4>2. n \in 0 .. j /\ n + 1 \in 0 .. j
        BY <2>0, <3>2
      <4>3. h[n + 1] = g[n + 1] /\ h[n] = g[n]
        BY <2>2, <4>2
      <4> QED
        BY <4>1, <4>3
    <3> QED
      BY <2>0, <3>1, <3>2
  <2>5. Is(h, j + 1)
    <3>1. (j + 1) - 1 = j
      BY <2>0
    <3> QED
      BY <2>2, <2>3, <2>4, <3>1
  <2> HIDE DEF Is
  <2> QED
    BY <2>0, <2>5
<1>3. k \in G
  <2>1. \A j \in 0 .. k - 1 : j \in G => j + 1 \in G
    BY <1>2
  <2> HIDE DEF G
  <2>2. \A j \in 0 .. k : j \in G
    BY <1>1, <2>1, Induct
  <2> QED
    BY <2>2
<1>4. PICK g : Is(g, k)
  BY <1>3
<1>5. g = F(g)
  <2>1. ASSUME NEW n \in 0 .. k
        PROVE  g[n] = IF n = 0 THEN 0 ELSE Step(g[n - 1], n)
    <3>1. CASE n = 0
      BY <1>4, <3>1
    <3>2. CASE n # 0
      <4>1. n - 1 \in 0 .. k - 1 /\ (n - 1) + 1 = n
        BY <3>2
      <4> QED
        BY <1>4, <3>2, <4>1
    <3> QED
      BY <3>1, <3>2
  <2> QED
    BY <1>4, <2>1
<1> HIDE DEF F, Is
<1>6. PICK b : b = BytesTo(s) /\ b = F(b)
  BY <1>w, <1>5
<1>7. b[0] = 0
  BY <1>6 DEF F
<1>8. ASSUME NEW i \in 0 .. k - 1
      PROVE  b[i + 1] = b[i] + ChunkLen[s[i + 1]]
  <2>1. i + 1 \in 0 .. k /\ i + 1 # 0 /\ (i + 1) - 1 = i
    OBVIOUS
  <2>2. b[i + 1] = Step(b[i], i + 1)
    BY <1>6, <2>1 DEF F
  <2> QED
    BY <1>s, <2>2
<1> QED
  BY <1>6, <1>7, <1>8

\* The lengths of chunks add up to natural numbers that grow.
LEMMA BytesGrow ==
  ASSUME NEW k \in Nat, NEW s, Len(s) = k, \A i \in 1 .. k : s[i] \in Chunks
  PROVE  LET b == BytesTo(s)
         IN  /\ b[0] = 0
             /\ \A i \in 0 .. k : b[i] \in Nat
             /\ \A i \in 0 .. k - 1 : b[i + 1] = b[i] + ChunkLen[s[i + 1]]
             /\ \A i \in 0 .. k : b[i] <= b[k]
<1>1. PICK b : b = BytesTo(s)
  OBVIOUS
<1>2. b[0] = 0 /\ \A i \in 0 .. k - 1 : b[i + 1] = b[i] + ChunkLen[s[i + 1]]
  BY <1>1, BytesEqn
<1>3. \A i \in 0 .. k - 1 : ChunkLen[s[i + 1]] \in Nat
  BY Numbers
<1>4. \A i \in 0 .. k : b[i] \in Nat
  <2> DEFINE G == {i \in 0 .. k : b[i] \in Nat}
  <2>1. 0 \in G
    BY <1>2
  <2>2. \A i \in 0 .. k - 1 : i \in G => i + 1 \in G
    BY <1>2, <1>3
  <2> HIDE DEF G
  <2>3. \A i \in 0 .. k : i \in G
    BY <2>1, <2>2, Induct
  <2> QED
    BY <2>3 DEF G
<1>5. \A i \in 0 .. k : b[i] <= b[k]
  <2> DEFINE G == {i \in 0 .. k : \A j \in 0 .. i : b[j] <= b[i]}
  <2>1. 0 \in G
    BY <1>2
  <2>2. ASSUME NEW i \in 0 .. k - 1, i \in G
        PROVE  i + 1 \in G
    <3>1. i + 1 \in 0 .. k /\ b[i] <= b[i + 1]
      BY <1>2, <1>3, <1>4
    <3>2. ASSUME NEW j \in 0 .. i + 1
          PROVE  b[j] <= b[i + 1]
      <4>1. j = i + 1 \/ j \in 0 .. i
        OBVIOUS
      <4>2. b[j] \in Nat /\ b[i] \in Nat /\ b[i + 1] \in Nat
        BY <1>4, <3>1
      <4> QED
        BY <2>2, <3>1, <4>1, <4>2
    <3> QED
      BY <3>1, <3>2
  <2> HIDE DEF G
  <2>3. \A i \in 0 .. k : i \in G
    BY <2>1, <2>2, Induct
  <2>4. k \in G
    BY <2>3
  <2> QED
    BY <2>4 DEF G
<1> QED
  BY <1>1, <1>2, <1>4, <1>5

\* f_try_chunk_alloc: the new chunks come after the end of the list, in the
\* order they were given, and no byte of a chunk changes.
LEMMA AllocShape ==
  ASSUME ListInv, ListInv', NEW n \in Nat, NEW s \in Lists(n), f_try_chunk_alloc(s),
         UNCHANGED start_chunk
  PROVE  \E k \in Nat \ {0} :
           /\ Len(s) = k /\ BytesTo(s)[k] >= n /\ BytesTo(s)[k - 1] < n
           /\ \A i \in 1 .. k : s[i] \in free /\ s[i] \in Chunks
           /\ List(chunk', start_chunk) = List(chunk, start_chunk) \union {s[i] : i \in 1 .. k}
           /\ end_chunk' = s[k]
           /\ tail_chunk' = IF tail_chunk = NoChunk THEN s[1] ELSE tail_chunk
           /\ \A d \in Ptr : chunk'[d].data = chunk[d].data
           /\ \A d \in List(chunk, start_chunk) :
                 /\ chunk'[d].start = chunk[d].start
                 /\ chunk'[d].next = IF d = end_chunk THEN s[1] ELSE chunk[d].next
           /\ \A i \in 1 .. k :
                 /\ chunk'[s[i]].start = Add(f_chunk_end(end_chunk), BytesTo(s)[i - 1])
                 /\ chunk'[s[i]].next = IF i = k THEN NoChunk ELSE s[i + 1]
<1> DEFINE L == List(chunk, start_chunk)
           R == {s[i] : i \in DOMAIN s}
           e == end_chunk
<1>1. PICK k \in Nat \ {0} : s \in [1 .. k -> free]
  <2>1. IsFiniteSet(free)
    BY NType, FS_Subset DEF ListInv, ChunksConserved
  <2>2. Cardinality(free) \in Nat
    BY <2>1, FS_CardinalityType
  <2>3. PICK k \in 1 .. Cardinality(free) : s \in [1 .. k -> free]
    BY DEF Lists
  <2> QED
    BY <2>2, <2>3
<1>2. \A i, j \in 1 .. k : s[i] = s[j] => i = j
  BY <1>1 DEF Lists
<1>3. Len(s) = k /\ DOMAIN s = 1 .. k /\ s \in Seq(free)
  BY <1>1
<1>4. /\ start_chunk \in Chunks /\ NoChunk \notin Chunks /\ L \subseteq Chunks
      /\ e \in L /\ free = Chunks \ L /\ Linked(chunk) /\ Fields
  BY ListLeast, ConstantsOK DEF ListInv, EndsOK, ChunksConserved, ConstantsOK
<1>5. R \subseteq free /\ R \subseteq Chunks /\ e \notin R /\ (\A d \in L : d \notin R)
  BY <1>1, <1>3, <1>4
<1> HIDE DEF L
<1> DEFINE index(c) == CHOOSE i \in DOMAIN s : s[i] = c
           x(c) == Add(f_chunk_end(end_chunk), BytesTo(s)[index(c) - 1])
           y(c) == IF c = Last(s) THEN NoChunk ELSE s[index(c) + 1]
<1>6. /\ \A c \in Ptr : chunk'[c] =
               IF c \in Range(s) THEN [start |-> x(c), next |-> y(c), data |-> chunk[c].data]
               ELSE IF c = end_chunk THEN [chunk[c] EXCEPT !.next = s[1]]
               ELSE chunk[c]
      /\ free' = free \ Range(s) /\ end_chunk' = s[Len(s)]
      /\ tail_chunk' = IF tail_chunk = NoChunk THEN s[1] ELSE tail_chunk
  BY DEF f_try_chunk_alloc
<1>7. Range(s) = R /\ Last(s) = s[k]
  BY <1>3 DEF Range, Last
<1>8. \A i \in 1 .. k : index(s[i]) = i
  BY <1>2, <1>3
<1>9. \A i \in 1 .. k : /\ x(s[i]) = Add(f_chunk_end(end_chunk), BytesTo(s)[i - 1])
                        /\ y(s[i]) = IF i = k THEN NoChunk ELSE s[i + 1]
  <2> TAKE i \in 1 .. k
  <2>1. s[i] = s[k] <=> i = k
    BY <1>1, <1>2
  <2> HIDE DEF index
  <2> QED
    BY <1>7, <1>8, <2>1
<1> HIDE DEF x, y, index, R
<1>10. ASSUME NEW c \in Ptr
       PROVE  /\ chunk'[c].start = IF c \in R THEN x(c) ELSE chunk[c].start
              /\ chunk'[c].next = IF c \in R THEN y(c)
                                  ELSE IF c = end_chunk THEN s[1] ELSE chunk[c].next
              /\ chunk'[c].data = chunk[c].data
  <2>1. PICK a, b, d : chunk[c] = [start |-> a, next |-> b, data |-> d]
    BY <1>4 DEF Fields
  <2>2. chunk'[c] = IF c \in R THEN [start |-> x(c), next |-> y(c), data |-> d]
                    ELSE IF c = end_chunk THEN [start |-> a, next |-> s[1], data |-> d]
                    ELSE [start |-> a, next |-> b, data |-> d]
    <3>1. chunk[c].data = d
      BY <2>1
    <3>2. [chunk[c] EXCEPT !.next = s[1]] = [start |-> a, next |-> s[1], data |-> d]
      BY <2>1
    <3>3. chunk'[c] = IF c \in R THEN [start |-> x(c), next |-> y(c), data |-> chunk[c].data]
                      ELSE IF c = end_chunk THEN [chunk[c] EXCEPT !.next = s[1]]
                      ELSE chunk[c]
      BY <1>6, <1>7, Zenon
    <3> QED
      BY <2>1, <3>1, <3>2, <3>3
  <2> QED
    BY <2>1, <2>2
<1>11. \A i \in 1 .. k : s[i] \in R /\ s[i] \in Ptr /\ s[i] \in Chunks /\ s[i] \in free
  BY <1>1, <1>3, <1>4, <1>5 DEF R, Ptr
<1>12. List(chunk', start_chunk) = L \union {s[i] : i \in 1 .. k}
  <2>1. R = {s[i] : i \in 1 .. k}
    BY <1>3 DEF R
  <2>2. free' = Chunks \ List(chunk', start_chunk) /\ List(chunk', start_chunk) \subseteq Chunks
    <3>1. Linked(chunk') /\ free' = Chunks \ List(chunk', start_chunk')
      BY DEF ListInv, ChunksConserved
    <3>2. PICK new : new = chunk'
      OBVIOUS
    <3>3. List(new, start_chunk) \subseteq Chunks
      BY <1>4, <3>1, <3>2, ListLeast
    <3> QED
      BY <3>1, <3>2, <3>3
  <2>3. free' = (Chunks \ L) \ R
    BY <1>4, <1>6, <1>7
  <2>4. L \subseteq Chunks /\ R \subseteq Chunks
    BY <1>4, <1>5
  <2>5. List(chunk', start_chunk) = L \union R
    BY <2>2, <2>3, <2>4
  <2> QED
    BY <2>1, <2>5
<1>13. \A d \in L : /\ d \in Ptr /\ d \notin R
                    /\ chunk'[d].start = chunk[d].start
                    /\ chunk'[d].next = IF d = end_chunk THEN s[1] ELSE chunk[d].next
  BY <1>4, <1>5, <1>10 DEF Ptr
<1>14. BytesTo(s)[k] >= n /\ BytesTo(s)[k - 1] < n
  BY <1>3 DEF Lists
<1>15. \A i \in 1 .. k :
          /\ chunk'[s[i]].start = Add(f_chunk_end(end_chunk), BytesTo(s)[i - 1])
          /\ chunk'[s[i]].next = IF i = k THEN NoChunk ELSE s[i + 1]
  BY <1>9, <1>10, <1>11
<1> QED
  BY <1>3, <1>6, <1>10, <1>11, <1>12, <1>13, <1>14, <1>15 DEF L

\* The list after f_try_chunk_alloc: longer by at least what was asked for, and
\* by less than a chunk more.
LEMMA AllocPlace ==
  ASSUME PlaceOK, ListInv', NEW n \in Nat, NEW s \in Lists(n), f_try_chunk_alloc(s),
         UNCHANGED start_chunk, 2 * (Total + n - 1 + MaxLen) < W
  PROVE  \E m \in Nat :
           /\ n <= m /\ m <= n - 1 + MaxLen
           /\ PlaceOK' /\ Base' = Base /\ Total' = Total + m
           /\ \A p : Place(p)' = Place(p)
           /\ List(chunk, start_chunk) \subseteq List(chunk', start_chunk)
           /\ \A d \in List(chunk, start_chunk) : /\ Beg(chunk', Base, d) = Beg(chunk, Base, d)
                                                  /\ End(chunk', Base, d) = End(chunk, Base, d)
           /\ \A d \in List(chunk', start_chunk) :
                 d \notin List(chunk, start_chunk) => d \in free /\ Total <= Beg(chunk', Base, d)
           /\ \A d \in Ptr : chunk'[d].data = chunk[d].data
           /\ \A d \in List(chunk, start_chunk) : chunk'[d].start = chunk[d].start
           /\ \E first \in List(chunk', start_chunk) :
                 /\ Beg(chunk', Base, first) = Total
                 /\ tail_chunk' = IF tail_chunk = NoChunk THEN first ELSE tail_chunk
<1> HIDE DEF MaxLen
<1>n. /\ W \in Nat \ {0} /\ MaxLen \in Nat \ {0}
      /\ \A c \in Chunks : ChunkLen[c] \in Nat \ {0} /\ ChunkLen[c] <= MaxLen
  BY Numbers
<1> DEFINE L == List(chunk, start_chunk)
           L2 == List(chunk', start_chunk)
           b == BytesTo(s)
<1>0. ListInv /\ Placed(chunk, Base, start_chunk, end_chunk)
  BY DEF PlaceOK
<1>1. PICK k \in Nat \ {0} :
        /\ Len(s) = k /\ b[k] >= n /\ b[k - 1] < n
        /\ \A i \in 1 .. k : s[i] \in free /\ s[i] \in Chunks
        /\ L2 = L \union {s[i] : i \in 1 .. k}
        /\ end_chunk' = s[k]
        /\ tail_chunk' = IF tail_chunk = NoChunk THEN s[1] ELSE tail_chunk
        /\ \A d \in Ptr : chunk'[d].data = chunk[d].data
        /\ \A d \in L : /\ chunk'[d].start = chunk[d].start
                        /\ chunk'[d].next = IF d = end_chunk THEN s[1] ELSE chunk[d].next
        /\ \A i \in 1 .. k : /\ chunk'[s[i]].start = Add(f_chunk_end(end_chunk), b[i - 1])
                             /\ chunk'[s[i]].next = IF i = k THEN NoChunk ELSE s[i + 1]
  BY <1>0, AllocShape
<1>2. /\ b[0] = 0
      /\ \A i \in 0 .. k : b[i] \in Nat
      /\ \A i \in 0 .. k - 1 : b[i + 1] = b[i] + ChunkLen[s[i + 1]]
      /\ \A i \in 0 .. k : b[i] <= b[k]
  BY <1>1, BytesGrow
<1> HIDE DEF b, L, L2
<1>3. PICK m \in Nat : m = b[k] /\ n <= m /\ m <= n - 1 + MaxLen
  <2>1. b[k] \in Nat /\ b[k - 1] \in Nat /\ b[k] = b[k - 1] + ChunkLen[s[k]]
    <3>1. k - 1 \in 0 .. k - 1 /\ (k - 1) + 1 = k /\ k - 1 \in 0 .. k /\ k \in 0 .. k
      OBVIOUS
    <3> QED
      BY <1>2, <3>1
  <2>2. ChunkLen[s[k]] \in Nat /\ ChunkLen[s[k]] <= MaxLen
    BY <1>1, <1>n
  <2> QED
    BY <1>1, <1>n, <2>1, <2>2
<1>4. /\ Linked(chunk) /\ Base \in Pos /\ start_chunk \in Chunks /\ end_chunk \in L
      /\ start_chunk \in L /\ L \subseteq Chunks
      /\ \A d \in L : /\ chunk[d].start \in Pos
                      /\ Beg(chunk, Base, d) \in Nat /\ End(chunk, Base, d) \in Nat
                      /\ ChunkLen[d] \in Nat /\ End(chunk, Base, d) = Beg(chunk, Base, d) + ChunkLen[d]
                      /\ d # end_chunk => /\ chunk[d].next \in L
                                          /\ Beg(chunk, Base, chunk[d].next) = End(chunk, Base, d)
  BY <1>0, PlacedType DEF Placed, L
<1>5. Total \in Nat /\ Total = End(chunk, Base, end_chunk) /\ 2 * (Total + m) < W
  BY <1>3, <1>4, <1>n DEF Total
<1>6. PICK q \in Pos : q = f_chunk_end(end_chunk) /\ Diff(q, Base) = Total
  <2>1. PICK a \in Pos, len \in Nat : /\ a = chunk[end_chunk].start /\ len = ChunkLen[end_chunk]
                                      /\ Diff(a, Base) = Beg(chunk, Base, end_chunk)
    BY <1>4 DEF Beg
  <2>2. Diff(a, Base) + len < W /\ Diff(a, Base) + len = Total
    BY <1>3, <1>4, <1>5, <1>n, <2>1
  <2>3. Add(a, len) \in Pos /\ Diff(Add(a, len), Base) = Diff(a, Base) + len
    BY <1>4, <2>2, Counted
  <2> QED
    BY <2>1, <2>2, <2>3 DEF f_chunk_end
<1>7. ASSUME NEW i \in 1 .. k
      PROVE  /\ chunk'[s[i]].start \in Pos
             /\ Beg(chunk', Base, s[i]) = Total + b[i - 1]
             /\ End(chunk', Base, s[i]) = Total + b[i]
  <2>1. i - 1 \in 0 .. k - 1 /\ i - 1 \in 0 .. k /\ (i - 1) + 1 = i /\ i \in 0 .. k
    OBVIOUS
  <2>2. PICK x \in Nat : x = b[i - 1] /\ x <= m
    BY <1>2, <1>3, <2>1
  <2>3. Diff(q, Base) + x < W
    BY <1>3, <1>5, <1>6, <1>n, <2>2
  <2>4. Add(q, x) \in Pos /\ Diff(Add(q, x), Base) = Diff(q, Base) + x
    BY <1>4, <2>3, Counted
  <2>5. chunk'[s[i]].start = Add(q, x)
    BY <1>1, <1>6, <2>2
  <2>6. Beg(chunk', Base, s[i]) = Total + x
    BY <1>6, <2>4, <2>5 DEF Beg
  <2>7. b[i] = x + ChunkLen[s[i]] /\ ChunkLen[s[i]] \in Nat
    BY <1>1, <1>2, <1>n, <2>1, <2>2
  <2>8. End(chunk', Base, s[i]) = Total + x + ChunkLen[s[i]]
    BY <2>6 DEF End
  <2> QED
    BY <1>5, <2>2, <2>4, <2>5, <2>6, <2>7, <2>8
<1>8. ASSUME NEW d \in L
      PROVE  /\ Beg(chunk', Base, d) = Beg(chunk, Base, d)
             /\ End(chunk', Base, d) = End(chunk, Base, d)
  BY <1>1 DEF Beg, End
<1>9. Base' = Base /\ \A p : Place(p)' = Place(p)
  BY <1>1, <1>4 DEF Base, Place
<1>10. Total' = Total + m
  BY <1>1, <1>3, <1>7, <1>9 DEF Total
<1>11. L \subseteq L2 /\ (\A d \in L2 : d \in L \/ \E i \in 1 .. k : d = s[i])
       /\ (\A i \in 1 .. k : s[i] \in L2 /\ s[i] \notin L)
  <2>1. free = Chunks \ L
    BY <1>0 DEF ListInv, ChunksConserved, L
  <2> QED
    BY <1>1, <2>1
<1>12. Placed(chunk', Base, start_chunk, end_chunk')
  <2>1. Linked(chunk')
    BY DEF ListInv
  <2>2. ASSUME NEW d \in L2
        PROVE  /\ chunk'[d].start \in Pos
               /\ d # end_chunk' => Beg(chunk', Base, chunk'[d].next) = End(chunk', Base, d)
    <3>1. CASE d \in L /\ d # end_chunk
      <4>1. chunk'[d].next = chunk[d].next /\ chunk[d].next \in L
        BY <1>1, <1>4, <3>1
      <4> QED
        BY <1>1, <1>4, <1>8, <3>1, <4>1
    <3>2. CASE d = end_chunk
      <4>1. chunk'[d].next = s[1] /\ 1 \in 1 .. k /\ 1 - 1 = 0
        BY <1>1, <1>4, <3>2
      <4>2. Beg(chunk', Base, s[1]) = Total + b[0]
        BY <1>7, <4>1
      <4>3. Beg(chunk', Base, s[1]) = Total /\ End(chunk', Base, d) = Total
        BY <1>2, <1>4, <1>5, <1>8, <3>2, <4>2
      <4>4. chunk'[d].start \in Pos
        BY <1>1, <1>4, <3>2
      <4> QED
        BY <4>1, <4>3, <4>4
    <3>3. CASE d \notin L
      <4>1. PICK i \in 1 .. k : d = s[i]
        BY <1>11, <3>3
      <4>2. ASSUME d # end_chunk'
            PROVE  Beg(chunk', Base, chunk'[d].next) = End(chunk', Base, d)
        <5>1. i # k /\ i + 1 \in 1 .. k /\ (i + 1) - 1 = i
          BY <1>1, <4>1, <4>2
        <5>2. Beg(chunk', Base, s[i + 1]) = Total + b[i]
          BY <1>7, <5>1
        <5> QED
          BY <1>1, <1>7, <4>1, <5>1, <5>2
      <4> QED
        BY <1>7, <4>1, <4>2
    <3> QED
      BY <1>4, <3>1, <3>2, <3>3
  <2>3. end_chunk' \in L2 /\ chunk'[end_chunk'].next = NoChunk
    <3>1. k \in 1 .. k
      OBVIOUS
    <3>2. chunk'[s[k]].next = NoChunk /\ end_chunk' = s[k]
      BY <1>1, <3>1
    <3>3. s[k] \in L2
      BY <1>11, <3>1
    <3> QED
      BY <3>2, <3>3
  <2>4. 2 * End(chunk', Base, end_chunk') < W
    BY <1>5, <1>9, <1>10 DEF Total
  <2> QED
    BY <1>4, <2>1, <2>2, <2>3, <2>4 DEF Placed, L2
<1>13. PlaceOK'
  BY <1>9, <1>12 DEF PlaceOK
<1>14. \A d \in L2 : d \notin L => d \in free /\ Total <= Beg(chunk', Base, d)
  <2> TAKE d \in L2
  <2> HAVE d \notin L
  <2>1. PICK i \in 1 .. k : d = s[i]
    BY <1>11
  <2>2. b[i - 1] \in Nat
    BY <1>2
  <2>3. d \in free
    BY <1>1, <2>1
  <2>4. Beg(chunk', Base, d) = Total + b[i - 1]
    BY <1>7, <2>1
  <2> QED
    BY <1>5, <2>2, <2>3, <2>4
<1>15. s[1] \in L2 /\ Beg(chunk', Base, s[1]) = Total
  <2>1. 1 \in 1 .. k /\ 1 - 1 = 0
    OBVIOUS
  <2> QED
    BY <1>2, <1>5, <1>7, <1>11, <2>1
<1> QED
  BY <1>1, <1>3, <1>8, <1>9, <1>10, <1>11, <1>13, <1>14, <1>15 DEF L, L2

\* What a call does with the chunks it was given.
LEMMA AllocOK ==
  ASSUME AmountInv, ListInv', Alloc
  PROVE  AmountInv'
<1> USE DEF AmountInv
<1> HIDE DEF MaxLen
<1>n. /\ W \in Nat \ {0} /\ Size \in Nat \ {0} /\ MinAlloc \in Nat \ {0} /\ MaxLen \in Nat \ {0}
      /\ 2 * (Size + MinAlloc + 2 * MaxLen - 2) < W
  BY Numbers
<1>0. /\ UNCHANGED << start_chunk, head, tail, cons, ooo_segments, kind, written, ooos_newest >>
      /\ prod.at = "alloc"
      /\ prod' = IF prod.op = "fill" THEN Idle ELSE [prod EXCEPT !.at = "copy", !.need = 0]
  BY DEF Alloc
<1>1. /\ Used \in Nat /\ Tl = tail /\ Used = Place(Tl) - Place(Hd) + Taken /\ Taken \in Nat
      /\ Place(Hd) \in Nat /\ Total \in Nat /\ Place(Tl) \in Nat /\ Place(Tl) <= Total
      /\ Place(Hd) <= MaxLen /\ Room \in Nat /\ Room <= Total - Place(Tl) /\ Room <= Size - Used
  BY <1>0, Amounts DEF Tl, IndexOK
<1>2. PICK len \in Nat \ {0}, off \in Nat, need \in Nat \ {0} :
        /\ prod = [at |-> "alloc", op |-> prod.op, len |-> len, off |-> off, need |-> need,
                   old |-> prod.old]
        /\ prod.op \in {"enqueue", "segments", "partial", "offset", "nocopy", "fill"}
        /\ off + len <= Size - Used
        /\ prod.op = "offset" => off > 0 /\ kind = "rx"
        /\ prod.op # "offset" => off = 0
        /\ prod.op \in {"nocopy", "fill"} => kind # "rx"
        /\ ooos_newest = NoSeg /\ need = prod.need
        /\ Total + need <= Place(Hd) + Size + MinAlloc - 1
        /\ prod.op # "fill" => Place(Tl) + off + len <= Total + need
  BY <1>0 DEF ProdOK
<1>3. PICK m \in Nat : /\ need <= m /\ m <= need - 1 + MaxLen
                       /\ PlaceOK' /\ Base' = Base /\ Total' = Total + m
                       /\ \A p : Place(p)' = Place(p)
  <2>1. PICK s \in Lists(need) : f_try_chunk_alloc(s)
    BY <1>2 DEF Alloc
  <2>2. 2 * (Total + need - 1 + MaxLen) < W
    BY <1>1, <1>2, <1>n
  <2> QED
    BY <1>0, <2>1, <2>2, AllocPlace
<1>4. prod'.at # "publish" /\ prod.at # "publish"
  <2>1. CASE prod.op = "fill"
    BY <1>0, <2>1 DEF Idle
  <2>2. CASE prod.op # "fill"
    <3>1. prod' = [prod EXCEPT !.at = "copy", !.need = 0]
      BY <1>0, <2>2
    <3> QED
      BY <1>0, <1>2, <3>1
  <2> QED
    BY <2>1, <2>2
<1>5. Hd' = Hd /\ Tl' = Tl /\ Taken' = Taken
  BY <1>0, <1>4 DEF Hd, Tl, Taken
<1>6. Place(tail)' = Place(tail) /\ Place(Hd)' = Place(Hd) /\ Place(Tl)' = Place(Tl) /\ Used' = Used
  BY <1>0, <1>3, <1>5 DEF Place, Used
<1>7. Room' \in Int /\ Room <= Room'
  <2>1. Room' = Total' - Place(Tl)' \/ Room' = Size - Used'
    BY DEF Room
  <2> QED
    BY <1>1, <1>3, <1>6, <1>n, <2>1
<1>8. IndexOK'
  <2>1. Place(Tl) <= Total + m /\ Total + m <= Place(Hd) + Size + MinAlloc + MaxLen - 2
    BY <1>1, <1>2, <1>3, <1>n
  <2> QED
    BY <1>0, <1>3, <1>5, <1>6, <2>1 DEF IndexOK
<1>9. ConsOK'
  BY <1>0, <1>6 DEF ConsOK
<1>10. OooOK'
  <2>0. PICK segs : segs = ooo_segments
    OBVIOUS
  <2>1. PICK r \in Int : r = Room'
    BY <1>7
  <2>2. SegsOK(segs, Tl, Room) /\ Room <= r /\ Tl \in Pos
    BY <1>7, <2>0, <2>1 DEF OooOK, IndexOK
  <2>3. SegsOK(segs, Tl, r)
    BY <1>1, <2>2, SegsWider
  <2> QED
    BY <1>0, <1>5, <2>0, <2>1, <2>3 DEF OooOK
<1>11. ProdOK'
  <2>1. CASE prod.op = "fill"
    BY <1>0, <2>1 DEF Idle, ProdOK
  <2>2. CASE prod.op # "fill"
    <3>1. PICK q, p, op, old : /\ q = prod /\ p = prod' /\ p = [q EXCEPT !.at = "copy", !.need = 0]
                               /\ op = prod.op /\ old = prod.old
      BY <1>0, <2>2
    <3>2. q = [at |-> "alloc", op |-> op, len |-> len, off |-> off, need |-> need, old |-> old]
      BY <1>2, <3>1
    <3>3. p = [at |-> "copy", op |-> op, len |-> len, off |-> off, need |-> 0, old |-> old]
      <4>1. PICK l, o, d, a : l = len /\ o = off /\ d = need /\ a = "alloc"
        OBVIOUS
      <4>2. q = [at |-> a, op |-> op, len |-> l, off |-> o, need |-> d, old |-> old]
        BY <3>2, <4>1
      <4>3. p.at = "copy" /\ p.op = op /\ p.len = l /\ p.off = o /\ p.need = 0 /\ p.old = old
        BY <3>1, <4>2
      <4>4. p = [at |-> p.at, op |-> p.op, len |-> p.len, off |-> p.off, need |-> p.need, old |-> p.old]
        BY <3>1, <4>2
      <4> QED
        BY <4>1, <4>3, <4>4
    <3>4. off + len <= Total' - Place(Tl)' /\ off + len <= Size - Used'
      BY <1>1, <1>2, <1>3, <1>6, <2>2
    <3>5. prod' = [at |-> "copy", op |-> op, len |-> len, off |-> off, need |-> 0, old |-> old]
      BY <3>1, <3>3
    <3>6. /\ op \in {"enqueue", "segments", "partial", "offset", "nocopy", "fill"} /\ op # "fill"
          /\ op = "offset" => off > 0 /\ kind' = "rx"
          /\ op # "offset" => off = 0
          /\ op \in {"nocopy", "fill"} => kind' # "rx"
          /\ ooos_newest' = NoSeg
      BY <1>0, <1>2, <2>2, <3>1
    <3> QED
      BY <3>4, <3>5, <3>6 DEF ProdOK
  <2> QED
    BY <2>1, <2>2
<1> QED
  BY <1>3, <1>8, <1>9, <1>10, <1>11

\* Writing bytes leaves the list and the places on it.
LEMMA Rewritten ==
  ASSUME PlaceOK, ListInv', UNCHANGED << start_chunk, end_chunk >>, NEW c, NEW pos, NEW len,
         chunk' = CopyTo(chunk, c, pos, len)
  PROVE  /\ PlaceOK' /\ Base' = Base /\ Total' = Total
         /\ \A p : Place(p)' = Place(p)
         /\ \A b, d : d \in Ptr => Beg(chunk', b, d) = Beg(chunk, b, d)
                                   /\ End(chunk', b, d) = End(chunk, b, d)
         /\ \A d \in Chunks : List(chunk', d) = List(chunk, d)
         /\ \A d \in Ptr : chunk'[d].start = chunk[d].start /\ chunk'[d].next = chunk[d].next
<1>1. Fields
  BY DEF PlaceOK, ListInv
<1>2. PICK x, y, z : x = c /\ y = pos /\ z = len
  OBVIOUS
<1>3. \A d \in Ptr : LET r == CopyTo(chunk, x, y, z)[d]
                     IN  /\ r.start = chunk[d].start /\ r.next = chunk[d].next
                         /\ r = [start |-> r.start, next |-> r.next, data |-> r.data]
  BY <1>1, CopyToNext
<1>4. \A d \in Ptr : chunk'[d].start = chunk[d].start /\ chunk'[d].next = chunk[d].next
  BY <1>2, <1>3
<1> QED
  BY <1>4, Unmoved

\* A call is about to write no more than there is room for.
LEMMA CopyRoom ==
  ASSUME AmountInv, prod.at = "copy"
  PROVE  /\ Tl = tail /\ tail \in Pos /\ Room \in Nat /\ 2 * Room < W
         /\ prod.len \in Nat \ {0} /\ prod.off \in Nat /\ prod.off + prod.len <= Room
         /\ SegsOK(ooo_segments, tail, Room)
<1> USE DEF AmountInv
<1>1. Tl = tail /\ tail \in Pos
  BY DEF Tl, IndexOK
<1>2. /\ Room \in Nat /\ 2 * Room < W
      /\ Room = Total - Place(Tl) \/ Room = Size - Used
  BY Amounts
<1>3. /\ prod.len \in Nat \ {0} /\ prod.off \in Nat
      /\ prod.off + prod.len <= Size - Used /\ prod.off + prod.len <= Total - Place(Tl)
  BY DEF ProdOK
<1>4. SegsOK(ooo_segments, tail, Room)
  BY <1>1 DEF OooOK
<1> QED
  BY <1>1, <1>2, <1>3, <1>4

\* A call that moves the tail by m bytes uses m bytes of the room.
LEMMA TailMoves ==
  ASSUME AmountInv, PlaceOK', Base' = Base, Total' = Total, prod.at = "copy",
         UNCHANGED << start_chunk, end_chunk, head, tail, kind, cons >>,
         NEW m \in Nat, m <= Room, NEW t2, t2 = Add(tail, m),
         prod' = [at |-> "publish", tail |-> t2]
  PROVE  /\ IndexOK' /\ ProdOK' /\ ConsOK'
         /\ Tl' = t2 /\ t2 \in Pos /\ Place(Tl)' = Place(tail) + m /\ Place(t2) = Place(tail) + m
         /\ Place(tail)' = Place(tail) /\ Place(Hd)' = Place(Hd) /\ Hd' = Hd
         /\ Room' = Room - m
<1> USE DEF AmountInv
<1> HIDE DEF MaxLen
<1>n. /\ W \in Nat \ {0} /\ Size \in Nat \ {0}
  BY Numbers
<1>1. /\ Used \in Nat /\ Tl = tail /\ Used = Place(Tl) - Place(Hd) + Taken
      /\ Place(Hd) \in Nat /\ Total \in Nat /\ Place(tail) \in Nat /\ Place(tail) <= Total
      /\ Place(Hd) <= Place(tail) /\ 2 * Total < W /\ Taken \in Nat
      /\ Room \in Nat /\ Room <= Total - Place(Tl) /\ Room <= Size - Used
      /\ Base \in Pos /\ tail \in Pos
  BY Amounts DEF Tl, IndexOK
<1>2. t2 \in Pos /\ Place(t2) = Place(tail) + m
  <2>1. Diff(tail, Base) = Place(tail) /\ Diff(tail, Base) + m < W
    BY <1>1, <1>n DEF Place
  <2>2. Add(tail, m) \in Pos /\ Diff(Add(tail, m), Base) = Diff(tail, Base) + m
    BY <1>1, <2>1, Counted
  <2> QED
    BY <2>1, <2>2 DEF Place
<1>3. Tl' = t2 /\ Hd' = Hd /\ Taken' = Taken
  BY DEF Tl, Hd, Taken
<1>4. Place(tail)' = Place(tail) /\ Place(Hd)' = Place(Hd) /\ Place(Tl)' = Place(tail) + m
  BY <1>2, <1>3 DEF Place
<1>5. Used' = Used + m
  <2>1. Used' = Place(Tl)' - Place(Hd)' + Taken'
    BY DEF Used
  <2> QED
    BY <1>1, <1>3, <1>4, <2>1
<1>6. Room' = Room - m
  <2>1. Room = IF Total - Place(Tl) < Size - Used THEN Total - Place(Tl) ELSE Size - Used
    BY DEF Room
  <2>2. Room' = IF Total' - Place(Tl)' < Size - Used' THEN Total' - Place(Tl)' ELSE Size - Used'
    BY DEF Room
  <2> QED
    BY <1>1, <1>4, <1>5, <1>n, <2>1, <2>2
<1>7. IndexOK'
  <2>1. Place(tail) <= Place(tail) + m /\ Place(tail) + m <= Total /\ Used + m <= Size
    BY <1>1, <1>n
  <2> QED
    BY <1>1, <1>2, <1>3, <1>4, <1>5, <2>1 DEF IndexOK
<1>8. ProdOK'
  BY DEF ProdOK
<1>9. ConsOK'
  BY <1>4 DEF ConsOK
<1> QED
  BY <1>2, <1>3, <1>4, <1>6, <1>7, <1>8, <1>9

\* An in-order enqueue.
LEMMA CopyInOrderOK ==
  ASSUME AmountInv, ListInv', CopyInOrder
  PROVE  AmountInv'
<1>0. /\ UNCHANGED << start_chunk, end_chunk, head, tail, cons, kind, ooos_newest >>
      /\ prod.at = "copy" /\ chunk' = CopyTo(chunk, tail_chunk, tail, prod.len)
      /\ prod.op \in {"enqueue", "segments", "partial"}
  BY DEF CopyInOrder
<1>1. PlaceOK' /\ Base' = Base /\ Total' = Total
  <2>1. PICK c, pos, len : chunk' = CopyTo(chunk, c, pos, len)
    BY <1>0
  <2> QED
    BY <1>0, <2>1, Rewritten DEF AmountInv
<1>2. PICK n \in Nat \ {0}, lim \in Nat, t \in Pos :
        /\ n = prod.len /\ lim = Room /\ t = tail /\ n <= lim /\ 2 * lim < W
        /\ SegsOK(ooo_segments, t, lim)
  <2>1. /\ tail \in Pos /\ Room \in Nat /\ 2 * Room < W
        /\ prod.len \in Nat \ {0} /\ prod.off \in Nat /\ prod.off + prod.len <= Room
        /\ SegsOK(ooo_segments, tail, Room)
    BY <1>0, CopyRoom
  <2>2. prod.len <= Room
    BY <2>1
  <2> QED
    BY <2>1, <2>2
<1>3. PICK segs, x : segs = ooo_segments /\ x = ooo_segment_try_collect(segs, n, Add(t, n))
  OBVIOUS
<1>4. PICK m \in n .. lim :
        /\ x.tail \in Pos /\ x.tail = Add(t, m) /\ Diff(x.tail, t) = m
        /\ SegsOK(x.segs, x.tail, lim - m)
        /\ \A y \in Nat : Covered(x.segs, x.tail, y) <=> Covered(segs, t, y + m)
        /\ \A y \in n .. m - 1 : Covered(segs, t, y)
  BY <1>2, <1>3, CollectOK
<1>5. /\ prod' = [at |-> "publish", tail |-> x.tail]
      /\ written' = written \ {Add(t, i) : i \in 0 .. m - 1}
      /\ ooo_segments = <<>> => ooo_segments' = ooo_segments
      /\ ooo_segments # <<>> => ooo_segments' = x.segs
  BY <1>2, <1>3, <1>4 DEF CopyInOrder
<1>6. PICK t2 \in Pos : t2 = x.tail
  BY <1>4
<1>7. m \in Nat /\ m <= Room /\ t2 = Add(tail, m) /\ prod' = [at |-> "publish", tail |-> t2]
  BY <1>2, <1>4, <1>5, <1>6
<1>8. IndexOK' /\ ProdOK' /\ ConsOK' /\ Tl' = t2 /\ Room' = lim - m
  BY <1>0, <1>1, <1>2, <1>7, TailMoves
<1>9. PICK r : r = ooo_segments'
  OBVIOUS
<1>10. /\ SegsOK(r, t2, lim - m)
       /\ \A y \in Nat : Covered(r, t2, y) <=> Covered(segs, t, y + m)
  <2>1. CASE segs # <<>>
    <3>1. r = x.segs
      BY <1>3, <1>5, <1>9, <2>1
    <3> QED
      BY <1>4, <1>6, <3>1
  <2>2. CASE segs = <<>>
    <3>1. r = <<>>
      BY <1>3, <1>5, <1>9, <2>2
    <3>2. Len(segs) = 0 /\ Len(r) = 0 /\ r \in Seq(Segment)
      BY <2>2, <3>1
    <3> QED
      BY <3>2 DEF SegsOK, Covered
  <2> QED
    BY <2>1, <2>2
<1>11. written' = {p \in Pos : Covered(r, t2, Diff(p, t2))}
  <2>n. W \in Nat \ {0}
    BY Numbers
  <2>1. {Add(t, i) : i \in 0 .. m - 1} = {p \in Pos : 0 <= Diff(p, t) /\ Diff(p, t) < 0 + m}
    <3>1. Diff(t, t) = 0
      BY Counted
    <3>2. Diff(t, t) + m < W /\ m \in Nat
      BY <1>2, <1>4, <2>n, <3>1
    <3> QED
      BY <3>1, <3>2, Span
  <2>2. written = {p \in Pos : Covered(segs, t, Diff(p, t))}
    <3>1. Tl = tail
      BY <1>0, CopyRoom
    <3> QED
      BY <1>2, <1>3, <3>1 DEF AmountInv, OooOK
  <2>3. ASSUME NEW p \in Pos
        PROVE  Covered(r, t2, Diff(p, t2)) <=> Covered(segs, t, Diff(p, t)) /\ ~(Diff(p, t) < m)
    <3>1. PICK a \in Nat, z \in Nat : a = Diff(p, t) /\ z = Diff(p, t2) /\ a < W
      BY Counted
    <3>2. Diff(t2, t) = m
      BY <1>4, <1>6
    <3>3. z = IF m <= a THEN a - m ELSE a - m + W
      <4>1. Diff(p, t2) = IF Diff(t2, t) <= Diff(p, t) THEN Diff(p, t) - Diff(t2, t)
                          ELSE Diff(p, t) - Diff(t2, t) + W
        BY Counted
      <4> QED
        BY <3>1, <3>2, <4>1
    <3>4. CASE m <= a
      <4>1. z + m = a /\ ~(a < m)
        BY <1>4, <3>1, <3>3, <3>4
      <4> QED
        BY <1>10, <3>1, <4>1
    <3>5. CASE ~(m <= a)
      <4>1. z > lim - m /\ a < m
        BY <1>2, <1>4, <2>n, <3>1, <3>3, <3>5
      <4>2. ~Covered(r, t2, z)
        <5>1. \A i \in 1 .. Len(r) : To(r, t2, i) <= lim - m
          BY <1>10 DEF SegsOK
        <5>2. \A i \in 1 .. Len(r) : To(r, t2, i) \in Nat
          BY <1>10, SegType DEF SegsOK
        <5> QED
          BY <1>4, <4>1, <5>1, <5>2 DEF Covered
      <4> QED
        BY <3>1, <4>1, <4>2
    <3> QED
      BY <1>4, <3>1, <3>4, <3>5
  <2>4. \A p \in Pos : Diff(p, t) \in Nat
    BY Counted
  <2>5. \A p : p \in written' <=> p \in Pos /\ Covered(r, t2, Diff(p, t2))
    <3> TAKE p
    <3>1. p \in written' <=> p \in written /\ ~(p \in {Add(t, i) : i \in 0 .. m - 1})
      BY <1>5
    <3>2. p \in written <=> p \in Pos /\ Covered(segs, t, Diff(p, t))
      BY <2>2
    <3>3. p \in {Add(t, i) : i \in 0 .. m - 1} <=> p \in Pos /\ Diff(p, t) < m
      BY <1>4, <2>1, <2>4
    <3> QED
      BY <2>3, <3>1, <3>2, <3>3
  <2> QED
    BY <2>5
<1>12. OooOK'
  <2>1. ooos_newest = NoSeg
    BY <1>0 DEF AmountInv, ProdOK
  <2>2. kind # "rx" => ooo_segments = <<>>
    BY DEF AmountInv, OooOK
  <2> QED
    BY <1>0, <1>5, <1>8, <1>9, <1>10, <1>11, <2>1, <2>2 DEF OooOK
<1> QED
  BY <1>1, <1>8, <1>12 DEF AmountInv

\* An out-of-order enqueue.
LEMMA CopyAtOffsetOK ==
  ASSUME AmountInv, ListInv', CopyAtOffset
  PROVE  AmountInv'
<1>0. /\ UNCHANGED << start_chunk, end_chunk, head, tail, cons, kind >>
      /\ prod.at = "copy" /\ prod.op = "offset" /\ prod' = Idle
      /\ \E c : chunk' = CopyTo(chunk, c, Add(tail, prod.off), prod.len)
  BY DEF CopyAtOffset
<1>1. PlaceOK' /\ Base' = Base /\ Total' = Total
  <2>1. PICK c, pos, len : chunk' = CopyTo(chunk, c, pos, len)
    BY <1>0
  <2> QED
    BY <1>0, <2>1, Rewritten DEF AmountInv
<1>2. PICK n \in Nat \ {0}, off \in Nat, lim \in Nat, t \in Pos :
        /\ n = prod.len /\ off = prod.off /\ lim = Room /\ t = tail /\ off + n <= lim /\ 2 * lim < W
        /\ SegsOK(ooo_segments, t, lim) /\ off > 0 /\ Tl = t
  <2>1. /\ Tl = tail /\ tail \in Pos /\ Room \in Nat /\ 2 * Room < W
        /\ prod.len \in Nat \ {0} /\ prod.off \in Nat /\ prod.off + prod.len <= Room
        /\ SegsOK(ooo_segments, tail, Room)
    BY <1>0, CopyRoom
  <2>2. prod.off > 0
    BY <1>0 DEF AmountInv, ProdOK
  <2> QED
    BY <2>1, <2>2
<1>n. W \in Nat \ {0}
  BY Numbers
<1>3. PICK pos \in Pos : pos = Add(t, off) /\ Diff(pos, t) = off
  <2>1. Diff(t, t) = 0 /\ Diff(t, t) + off < W
    BY <1>2, <1>n, Counted
  <2>2. Add(t, off) \in Pos /\ Diff(Add(t, off), t) = Diff(t, t) + off
    BY <2>1, Counted
  <2> QED
    BY <2>1, <2>2
<1>4. PICK segs, x : segs = ooo_segments /\ x = ooo_segment_add(segs, pos, n)
  OBVIOUS
<1>5. /\ SegsOK(x.segs, t, lim)
      /\ \A y \in Nat : Covered(x.segs, t, y) <=> Covered(segs, t, y) \/ (off <= y /\ y < off + n)
      /\ x.newest # NoSeg => \E j \in 1 .. Len(x.segs) : x.segs[j].start = x.newest
  <2>1. Diff(pos, t) > 0 /\ Diff(pos, t) + n <= lim /\ 2 * lim < W /\ SegsOK(segs, t, lim)
    BY <1>2, <1>3, <1>4
  <2>2. /\ SegsOK(x.segs, t, lim)
        /\ \A y \in Nat : Covered(x.segs, t, y) <=>
              \/ Covered(segs, t, y)
              \/ Diff(pos, t) <= y /\ y < Diff(pos, t) + n
        /\ x.newest # NoSeg => \E j \in 1 .. Len(x.segs) : x.segs[j].start = x.newest
    BY <1>4, <2>1, AddOK
  <2> QED
    BY <1>3, <2>2
<1>6. /\ ooo_segments' = x.segs /\ ooos_newest' = x.newest
      /\ written' = written \union {Add(pos, i) : i \in 0 .. n - 1}
  BY <1>2, <1>3, <1>4 DEF CopyAtOffset
<1>7. Hd' = Hd /\ Tl' = Tl /\ Taken' = Taken
  BY <1>0 DEF Hd, Tl, Taken, Idle
<1>8. Place(tail)' = Place(tail) /\ Place(Hd)' = Place(Hd) /\ Place(Tl)' = Place(Tl)
  BY <1>0, <1>1, <1>7 DEF Place
<1>9. Used' = Used /\ Room' = Room
  BY <1>1, <1>7, <1>8 DEF Used, Room
<1>10. IndexOK' /\ ConsOK' /\ ProdOK'
  <2>1. IndexOK'
    BY <1>0, <1>1, <1>7, <1>8, <1>9 DEF AmountInv, IndexOK
  <2>2. ConsOK'
    BY <1>0, <1>8 DEF AmountInv, ConsOK
  <2>3. ProdOK'
    BY <1>0 DEF ProdOK, Idle
  <2> QED
    BY <2>1, <2>2, <2>3
<1>11. written' = {p \in Pos : Covered(x.segs, t, Diff(p, t))}
  <2>1. {Add(pos, i) : i \in 0 .. n - 1} = {p \in Pos : off <= Diff(p, t) /\ Diff(p, t) < off + n}
    <3>1. Diff(pos, t) + n < W /\ n \in Nat
      BY <1>2, <1>3, <1>n
    <3> QED
      BY <1>3, <3>1, Span
  <2>2. written = {p \in Pos : Covered(segs, t, Diff(p, t))}
    BY <1>2, <1>4 DEF AmountInv, OooOK
  <2>3. \A p \in Pos : Diff(p, t) \in Nat
    BY Counted
  <2>4. \A p : p \in written' <=> p \in Pos /\ Covered(x.segs, t, Diff(p, t))
    BY <1>5, <1>6, <2>1, <2>2, <2>3
  <2> QED
    BY <2>4
<1>12. OooOK'
  <2>1. kind = "rx"
    BY <1>0 DEF AmountInv, ProdOK
  <2> QED
    BY <1>0, <1>2, <1>5, <1>6, <1>7, <1>9, <1>11, <2>1 DEF OooOK
<1> QED
  BY <1>1, <1>10, <1>12 DEF AmountInv

\* Bytes written in place.
LEMMA CopyInPlaceOK ==
  ASSUME AmountInv, ListInv', CopyInPlace
  PROVE  AmountInv'
<1>0. /\ UNCHANGED << start_chunk, end_chunk, head, tail, cons, kind, ooo_segments, ooos_newest, written >>
      /\ prod.at = "copy" /\ prod.op = "nocopy"
      /\ chunk' = CopyTo(chunk, tail_chunk, tail, prod.len)
      /\ prod' = [at |-> "publish", tail |-> Add(tail, prod.len)]
  BY DEF CopyInPlace
<1>1. PlaceOK' /\ Base' = Base /\ Total' = Total
  <2>1. PICK c, pos, len : chunk' = CopyTo(chunk, c, pos, len)
    BY <1>0
  <2> QED
    BY <1>0, <2>1, Rewritten DEF AmountInv
<1>2. PICK n \in Nat : n = prod.len /\ n <= Room /\ Room \in Nat
  <2>1. /\ Room \in Nat /\ prod.len \in Nat \ {0} /\ prod.off \in Nat
        /\ prod.off + prod.len <= Room
    BY <1>0, CopyRoom
  <2>2. prod.len <= Room
    BY <2>1
  <2> QED
    BY <2>1, <2>2
<1>3. PICK t2 : t2 = Add(tail, n)
  OBVIOUS
<1>4. prod' = [at |-> "publish", tail |-> t2]
  BY <1>0, <1>2, <1>3
<1>5. IndexOK' /\ ProdOK' /\ ConsOK' /\ Tl' = t2
  BY <1>0, <1>1, <1>2, <1>3, <1>4, TailMoves
<1>6. kind # "rx" /\ ooo_segments = <<>> /\ ooos_newest = NoSeg
  BY <1>0 DEF AmountInv, ProdOK, OooOK
<1>7. written = {p \in Pos : Covered(ooo_segments, Tl, Diff(p, Tl))}
  BY DEF AmountInv, OooOK
<1>8. \A t, y : ~Covered(<<>>, t, y)
  BY DEF Covered
<1>9. \A t, lim : SegsOK(<<>>, t, lim)
  BY DEF SegsOK
<1>10. written = {}
  BY <1>6, <1>7, <1>8
<1>11. OooOK'
  <2>1. {p \in Pos : Covered(<<>>, t2, Diff(p, t2))} = {}
    BY <1>8
  <2> QED
    BY <1>0, <1>5, <1>6, <1>9, <1>10, <2>1 DEF OooOK
<1> QED
  BY <1>1, <1>5, <1>11 DEF AmountInv

-----------------------------------------------------------------------------
(* The amounts of every reachable state.                                   *)

\* A new fifo has one chunk and is empty.
LEMMA AmountInit == Init => AmountInv
<1> SUFFICES ASSUME Init PROVE AmountInv
  OBVIOUS
<1> HIDE DEF MaxLen
<1>n. /\ W \in Nat \ {0} /\ Size \in Nat \ {0} /\ MinAlloc \in Nat \ {0} /\ MaxLen \in Nat \ {0}
      /\ 2 * (Size + MinAlloc + 2 * MaxLen - 2) < W
      /\ \A c \in Chunks : ChunkLen[c] \in Nat \ {0} /\ ChunkLen[c] <= MaxLen
  BY Numbers
<1>0. /\ chunk = [c \in Ptr |-> [start |-> 0, next |-> NoChunk,
                                 data |-> [i \in 0 .. ChunkLen[c] - 1 |-> Junk]]]
      /\ start_chunk = FirstChunk /\ end_chunk = FirstChunk
      /\ head = 0 /\ tail = 0 /\ ooo_segments = <<>> /\ ooos_newest = NoSeg
      /\ prod.at = "idle" /\ cons.at = "idle" /\ written = {}
  BY DEF Init, Idle
<1>1. ListInv
  BY ListInit
<1>2. FirstChunk \in Chunks /\ FirstChunk \in Ptr /\ Linked(chunk)
  BY <1>1, ConstantsOK DEF ConstantsOK, Ptr, ListInv
<1>3. \A c \in Ptr : chunk[c].start = 0 /\ chunk[c].next = NoChunk
  BY <1>0
<1>4. List(chunk, FirstChunk) = {FirstChunk}
  BY <1>2, <1>3, ListStep
<1>5. 0 \in Pos /\ Diff(0, 0) = 0
  <2>1. 0 \in Pos
    BY <1>n DEF Pos
  <2> QED
    BY <2>1, Counted
<1>6. /\ Base = 0 /\ Beg(chunk, 0, FirstChunk) = 0
      /\ End(chunk, 0, FirstChunk) = ChunkLen[FirstChunk] /\ ChunkLen[FirstChunk] \in Nat \ {0}
      /\ ChunkLen[FirstChunk] <= MaxLen
  <2>1. Base = 0 /\ Beg(chunk, 0, FirstChunk) = 0
    BY <1>0, <1>2, <1>3, <1>5 DEF Base, Beg
  <2>2. ChunkLen[FirstChunk] \in Nat \ {0} /\ ChunkLen[FirstChunk] <= MaxLen
    BY <1>2, <1>n
  <2> QED
    BY <2>1, <2>2 DEF End
<1>7. PlaceOK
  <2>1. 2 * End(chunk, 0, FirstChunk) < W
    BY <1>6, <1>n
  <2> QED
    BY <1>0, <1>1, <1>2, <1>3, <1>4, <1>5, <1>6, <2>1 DEF PlaceOK, Placed
<1>8. /\ Hd = 0 /\ Tl = 0 /\ Taken = 0 /\ Place(Hd) = 0 /\ Place(tail) = 0 /\ Place(Tl) = 0
      /\ Total = ChunkLen[FirstChunk]
  BY <1>0, <1>5, <1>6 DEF Hd, Tl, Taken, Place, Total
<1>9. Used = 0
  BY <1>8 DEF Used
<1>10. IndexOK
  <2>1. /\ 0 <= ChunkLen[FirstChunk] /\ 0 <= Size
        /\ ChunkLen[FirstChunk] <= 0 + Size + MinAlloc + MaxLen - 2
    BY <1>6, <1>n
  <2> QED
    BY <1>0, <1>5, <1>8, <1>9, <2>1 DEF IndexOK
<1>11. ProdOK /\ ConsOK
  BY <1>0 DEF ProdOK, ConsOK
<1>12. OooOK
  <2>1. SegsOK(<<>>, Tl, Room)
    BY DEF SegsOK
  <2>2. \A t, y : ~Covered(<<>>, t, y)
    BY DEF Covered
  <2>3. {p \in Pos : Covered(<<>>, Tl, Diff(p, Tl))} = {}
    BY <2>2
  <2> QED
    BY <1>0, <2>1, <2>3 DEF OooOK
<1> QED
  BY <1>7, <1>10, <1>11, <1>12 DEF AmountInv

\* Every step keeps the amounts.
LEMMA AmountNext == AmountInv /\ [Next]_vars => AmountInv'
<1> SUFFICES ASSUME AmountInv, [Next]_vars PROVE AmountInv'
  OBVIOUS
<1>1. ListInv'
  BY ListNext DEF AmountInv, PlaceOK
<1>2. CASE Producer
  BY <1>1, <1>2, ProdStartsOK, AllocOK, AllocFailsOK, CopyInOrderOK, CopyAtOffsetOK,
     CopyInPlaceOK, PublishTailOK DEF Producer
<1>3. CASE Consumer
  BY <1>1, <1>3, ConsStartsOK, UnlinkChunksOK, PublishHeadOK DEF Consumer
<1>4. CASE UNCHANGED vars
  <2>1. UNCHANGED << chunk, start_chunk, end_chunk, head, tail, cons, ooo_segments, kind, written,
                     ooos_newest, prod >>
    BY <1>4 DEF vars, shared, prodVars
  <2>2. PlaceOK' /\ Base' = Base /\ Total' = Total /\ (\A p : Place(p)' = Place(p))
    BY <1>1, <2>1, SameChunks DEF AmountInv
  <2>3. Hd' = Hd /\ Tl' = Tl /\ Taken' = Taken
    BY <2>1 DEF Hd, Tl, Taken
  <2>4. Place(tail)' = Place(tail) /\ Place(Hd)' = Place(Hd) /\ Place(Tl)' = Place(Tl)
    BY <2>1, <2>2, <2>3 DEF Place
  <2>5. Used' = Used /\ Room' = Room
    BY <2>2, <2>3, <2>4 DEF Used, Room
  <2>6. IndexOK'
    BY <2>1, <2>2, <2>3, <2>4, <2>5 DEF AmountInv, IndexOK
  <2>7. ConsOK'
    BY <2>1, <2>4 DEF AmountInv, ConsOK
  <2>8. OooOK'
    BY <2>1, <2>3, <2>5 DEF AmountInv, OooOK
  <2>9. ProdOK'
    BY <2>1, <2>2, <2>4, <2>5 DEF AmountInv, ProdOK
  <2> QED
    BY <2>2, <2>6, <2>7, <2>8, <2>9 DEF AmountInv
<1> QED
  BY <1>2, <1>3, <1>4 DEF Next

\* What the segments of AmountInv say of the positions.
LEMMA OooFromAmounts == AmountInv => OooExact
<1> SUFFICES ASSUME AmountInv PROVE OooExact
  OBVIOUS
<1> DEFINE t == IF prod.at = "publish" THEN prod.tail ELSE tail
           from(i) == Diff(ooo_segments[i].start, t)
           to(i) == from(i) + ooo_segments[i].length
           n == Len(ooo_segments)
<1>1. PICK T \in Pos : T = Tl
  BY DEF AmountInv, IndexOK
<1>2. t = T
  BY <1>1 DEF Tl
<1>3. PICK segs \in Seq(Segment) : segs = ooo_segments /\ SegsOK(segs, T, Room)
  BY <1>1 DEF AmountInv, OooOK, SegsOK
<1>4. n = Len(segs) /\ n \in Nat /\ \A i \in 1 .. n : from(i) = From(segs, T, i) /\ to(i) = To(segs, T, i)
  BY <1>2, <1>3 DEF From, To
<1>5. Room \in Nat /\ Room <= Size /\ 2 * Room < W /\ W \in Nat \ {0}
  <2>1. /\ Room \in Nat /\ Room <= Size - Used /\ Used \in Nat /\ 2 * Room < W
        /\ Size \in Nat /\ W \in Nat \ {0}
    BY Amounts, Numbers DEF AmountInv
  <2> QED
    BY <2>1
<1>6. \A i \in 1 .. n : /\ from(i) \in Nat /\ to(i) \in Nat /\ from(i) > 0 /\ to(i) <= Room
                        /\ from(i) < W
  BY <1>3, <1>4, SegType DEF SegsOK
<1>7. \A i \in 1 .. n : i # 1 => to(i - 1) < from(i)
  <2> TAKE i \in 1 .. n
  <2> HAVE i # 1
  <2>1. i - 1 \in 1 .. n /\ i - 1 < i
    BY <1>4
  <2>2. \A a, b \in 1 .. Len(segs) : a < b => To(segs, T, a) < From(segs, T, b)
    BY <1>3 DEF SegsOK
  <2> QED
    BY <1>4, <2>1, <2>2
<1> HIDE DEF from, to
<1>8. \A i \in 1 .. n : from(i) > (IF i = 1 THEN 0 ELSE to(i - 1)) /\ to(i) <= Size
  <2> TAKE i \in 1 .. n
  <2>1. to(i) <= Size /\ from(i) > 0
    BY <1>5, <1>6, Numbers
  <2>2. i # 1 => i - 1 \in 1 .. n
    BY <1>4
  <2> QED
    BY <1>6, <1>7, <2>1, <2>2
<1>9. \A p : p \in written <=> p \in Pos /\ \E i \in 1 .. n : from(i) <= Diff(p, T) /\ Diff(p, T) < to(i)
  <2>1. written = {p \in Pos : Covered(segs, T, Diff(p, T))}
    BY <1>1, <1>3 DEF AmountInv, OooOK
  <2> QED
    BY <1>4, <2>1 DEF Covered
<1>10. written = {Add(t, j) : j \in UNION {from(i) .. to(i) - 1 : i \in 1 .. n}}
  <2>1. ASSUME NEW p \in written
        PROVE  \E j \in UNION {from(i) .. to(i) - 1 : i \in 1 .. n} : p = Add(t, j)
    <3>1. p \in Pos
      BY <1>9, <2>1
    <3>2. PICK i \in 1 .. n : from(i) <= Diff(p, T) /\ Diff(p, T) < to(i)
      BY <1>9, <2>1
    <3>3. Diff(p, T) \in Nat /\ Add(T, Diff(p, T)) = p
      BY <3>1, Counted
    <3>4. Diff(p, T) \in from(i) .. to(i) - 1
      BY <1>6, <3>2, <3>3
    <3> QED
      BY <1>2, <3>3, <3>4
  <2>2. ASSUME NEW i \in 1 .. n, NEW j \in from(i) .. to(i) - 1
        PROVE  Add(t, j) \in written
    <3>1. j \in Nat /\ j < W /\ from(i) <= j /\ j < to(i)
      BY <1>5, <1>6
    <3>2. Diff(T, T) = 0
      BY Counted
    <3>3. Diff(T, T) + j < W /\ Diff(T, T) + j = j
      BY <3>1, <3>2
    <3>4. Add(T, j) \in Pos /\ Diff(Add(T, j), T) = j
      BY <3>1, <3>3, Counted
    <3> QED
      BY <1>2, <1>9, <3>1, <3>4
  <2> HIDE DEF t, n
  <2> QED
    BY <2>1, <2>2
<1>11. ooos_newest # NoSeg => \E i \in 1 .. n : ooo_segments[i].start = ooos_newest
  BY DEF AmountInv, OooOK
<1> QED
  BY <1>8, <1>10, <1>11 DEF OooExact, from, to

\* The out-of-order list of an rx fifo (ooo_segment_add,
\* ooo_segment_try_collect) is sorted, its segments touch neither each other
\* nor the tail, and together they are exactly what svm_fifo_enqueue_with_offset
\* has written past the tail, whatever the consumer does meanwhile.
THEOREM OooAlwaysExact == Spec => []OooExact
<1>1. Spec => []AmountInv
  BY AmountInit, AmountNext, PTL DEF Spec
<1> QED
  BY <1>1, OooFromAmounts, PTL

-----------------------------------------------------------------------------
(* The lookup trees.                                                       *)

\* f_find_node_rbtree finds the last chunk of the tree that starts at or before
\* the position.
LEMMA FloorOK ==
  ASSUME NEW b, NEW s, NEW e, Placed(chunk, b, s, e),
         NEW tree, tree \subseteq List(chunk, s), NEW p \in Pos, 2 * Diff(p, b) < W,
         NEW root \in tree, Beg(chunk, b, root) <= Diff(p, b)
  PROVE  /\ Floor(tree, p) \in tree /\ Beg(chunk, b, Floor(tree, p)) <= Diff(p, b)
         /\ \A d \in tree : Beg(chunk, b, d) <= Diff(p, b) =>
               Beg(chunk, b, d) <= Beg(chunk, b, Floor(tree, p))
<1> DEFINE S == {c \in tree : f_pos_leq(chunk[c].start, p)}
<1>n. W \in Nat \ {0} /\ b \in Pos
  BY Numbers DEF Placed
<1>1. \A c \in List(chunk, s) : /\ chunk[c].start \in Pos /\ Beg(chunk, b, c) \in Nat
                                /\ Beg(chunk, b, c) <= End(chunk, b, e) /\ 2 * Beg(chunk, b, c) < W
                                /\ End(chunk, b, e) \in Nat
  <2>1. \A c \in List(chunk, s) : /\ chunk[c].start \in Pos /\ Beg(chunk, b, c) \in Nat
                                  /\ End(chunk, b, c) \in Nat
                                  /\ Beg(chunk, b, c) < End(chunk, b, c)
                                  /\ End(chunk, b, c) <= End(chunk, b, e)
    BY PlacedType, Rising
  <2>2. 2 * End(chunk, b, e) < W /\ e \in List(chunk, s)
    BY DEF Placed
  <2> QED
    BY <1>n, <2>1, <2>2
<1>2. ASSUME NEW c \in List(chunk, s), NEW q \in Pos, 2 * Diff(q, b) < W
      PROVE  f_pos_leq(chunk[c].start, q) <=> Beg(chunk, b, c) <= Diff(q, b)
  <2>1. PICK a \in Pos : a = chunk[c].start /\ Diff(a, b) = Beg(chunk, b, c)
    BY <1>1 DEF Beg
  <2>2. 2 * Diff(a, b) < W
    BY <1>1, <2>1
  <2>3. f_pos_leq(a, q) <=> Diff(a, b) <= Diff(q, b)
    BY <1>2, <1>n, <2>2, Compared
  <2> QED
    BY <2>1, <2>3
<1>3. S \subseteq List(chunk, s) /\ root \in S
      /\ \A c \in tree : c \in S <=> Beg(chunk, b, c) <= Diff(p, b)
  BY <1>2
<1> HIDE DEF S
<1>4. PICK m \in S : \A d \in S : Beg(chunk, b, d) <= Beg(chunk, b, m)
  <2> DEFINE T == {End(chunk, b, e) - Beg(chunk, b, c) : c \in S}
  <2>1. T \subseteq Nat /\ T # {}
    BY <1>1, <1>3
  <2> HIDE DEF T
  <2>2. PICK x \in T : \A y \in T : x <= y
    BY <2>1, Least
  <2>3. PICK m \in S : x = End(chunk, b, e) - Beg(chunk, b, m)
    BY <2>2 DEF T
  <2>4. ASSUME NEW d \in S
        PROVE  Beg(chunk, b, d) <= Beg(chunk, b, m)
    <3>1. End(chunk, b, e) - Beg(chunk, b, d) \in T
      BY DEF T
    <3>2. x <= End(chunk, b, e) - Beg(chunk, b, d)
      BY <2>2, <3>1
    <3> QED
      BY <1>1, <1>3, <2>3, <3>2
  <2> QED
    BY <2>4
<1>5. ASSUME NEW c \in S, NEW d \in S
      PROVE  f_pos_leq(chunk[d].start, chunk[c].start) <=> Beg(chunk, b, d) <= Beg(chunk, b, c)
  <2>1. PICK a \in Pos : a = chunk[c].start /\ Diff(a, b) = Beg(chunk, b, c)
    BY <1>1, <1>3 DEF Beg
  <2>2. 2 * Diff(a, b) < W
    BY <1>1, <1>3, <2>1
  <2>3. f_pos_leq(chunk[d].start, a) <=> Beg(chunk, b, d) <= Diff(a, b)
    BY <1>2, <1>3, <2>2
  <2> QED
    BY <2>1, <2>3
<1>6. Floor(tree, p) = CHOOSE c \in S : \A d \in S : f_pos_leq(chunk[d].start, chunk[c].start)
  <2>1. S # {}
    BY <1>3
  <2> QED
    BY <2>1 DEF Floor, S
<1>7. \E c \in S : \A d \in S : f_pos_leq(chunk[d].start, chunk[c].start)
  BY <1>4, <1>5
<1>8. PICK c : /\ c = Floor(tree, p) /\ c \in S
               /\ \A d \in S : f_pos_leq(chunk[d].start, chunk[c].start)
  BY <1>6, <1>7
<1>9. c \in tree /\ \A d \in S : Beg(chunk, b, d) <= Beg(chunk, b, c)
  BY <1>5, <1>8 DEF S
<1> QED
  BY <1>3, <1>8, <1>9

\* The chunks of a list up to the one that holds a position, and past c: what
\* f_update_ooo_enq and f_update_ooo_deq go over.
LEMMA UptoOK ==
  ASSUME NEW b, NEW s, NEW e, Placed(chunk, b, s, e), NEW c \in List(chunk, s),
         NEW p \in Pos, End(chunk, b, c) <= Diff(p, b), Diff(p, b) <= End(chunk, b, e),
         NEW first, first = chunk[c].next, NEW upto,
         upto = svm_fifo_find_next_chunk(chunk, first, p)
  PROVE  /\ \A d : d \in List(chunk, first) <=>
               d \in List(chunk, s) /\ Beg(chunk, b, c) < Beg(chunk, b, d)
         /\ \A d \in List(chunk, first) :
               d \notin List(chunk, chunk[upto].next) <=> Beg(chunk, b, d) <= Diff(p, b)
<1> DEFINE L == List(chunk, s)
<1>1. /\ Linked(chunk) /\ b \in Pos /\ s \in Chunks /\ e \in L /\ chunk[e].next = NoChunk
  BY DEF Placed
<1>2. /\ s \in L /\ L \subseteq Chunks
      /\ \A d \in L : /\ Beg(chunk, b, d) \in Nat /\ End(chunk, b, d) \in Nat
                      /\ Beg(chunk, b, d) < End(chunk, b, d)
                      /\ d # e => /\ chunk[d].next \in L /\ chunk[d].next # NoChunk
                                  /\ Beg(chunk, b, chunk[d].next) = End(chunk, b, d)
  BY PlacedType
<1>3. Diff(p, b) \in Nat
  BY <1>1, Counted
<1>4. \A d \in L : End(chunk, b, d) <= End(chunk, b, e)
  BY Rising
<1>5. \A x, d \in L : \/ x = d
                      \/ End(chunk, b, x) <= Beg(chunk, b, d)
                      \/ End(chunk, b, d) <= Beg(chunk, b, x)
  BY Ordered
<1>6. \A x, d \in L : d \in List(chunk, x) <=> Beg(chunk, b, x) <= Beg(chunk, b, d)
  BY Ordered
<1>7. \A x \in L : List(chunk, x) \subseteq L
  BY PlacedPart
<1> HIDE DEF L
\* What follows a chunk of the list.
<1>8. ASSUME NEW x \in L
      PROVE  \A d : d \in List(chunk, chunk[x].next) <=> d \in L /\ Beg(chunk, b, x) < Beg(chunk, b, d)
  <2>1. CASE x = e
    <3>1. List(chunk, chunk[x].next) = {}
      BY <1>1, <2>1, ListNone
    <3>2. ASSUME NEW d \in L
          PROVE  ~(Beg(chunk, b, x) < Beg(chunk, b, d))
      <4>1. /\ d = x \/ End(chunk, b, d) <= Beg(chunk, b, x) \/ End(chunk, b, x) <= Beg(chunk, b, d)
            /\ End(chunk, b, d) <= End(chunk, b, x)
        BY <1>4, <1>5, <2>1
      <4> QED
        BY <1>2, <4>1
    <3> QED
      BY <3>1, <3>2
  <2>2. CASE x # e
    <3>1. PICK y \in L : y = chunk[x].next /\ Beg(chunk, b, y) = End(chunk, b, x)
      BY <1>2, <2>2
    <3>2. ASSUME NEW d \in L
          PROVE  Beg(chunk, b, y) <= Beg(chunk, b, d) <=> Beg(chunk, b, x) < Beg(chunk, b, d)
      <4>1. d = x \/ End(chunk, b, d) <= Beg(chunk, b, x) \/ End(chunk, b, x) <= Beg(chunk, b, d)
        BY <1>5
      <4> QED
        BY <1>2, <3>1, <4>1
    <3> QED
      BY <1>6, <1>7, <3>1, <3>2
  <2> QED
    BY <2>1, <2>2
<1>9. \A d : d \in List(chunk, first) <=> d \in L /\ Beg(chunk, b, c) < Beg(chunk, b, d)
  BY <1>8 DEF L
<1>10. ASSUME NEW d \in List(chunk, first)
       PROVE  d \notin List(chunk, chunk[upto].next) <=> Beg(chunk, b, d) <= Diff(p, b)
  <2>1. d \in L /\ Beg(chunk, b, c) < Beg(chunk, b, d)
    BY <1>9
  <2>2. c # e
    <3>1. \A x \in L : ~(Beg(chunk, b, e) < Beg(chunk, b, x))
      BY <1>1, <1>8, ListNone
    <3> QED
      BY <2>1, <3>1
  <2>3. PICK y \in L : y = first /\ Beg(chunk, b, y) = End(chunk, b, c)
    BY <1>2, <2>2 DEF L
  <2>4. LET r == svm_fifo_find_next_chunk(chunk, y, p)
        IN  /\ Beg(chunk, b, y) <= Diff(p, b) /\ Diff(p, b) < End(chunk, b, e) =>
                 Holds(chunk, b, s, r, Diff(p, b)) /\ r # NoChunk
            /\ ~(Beg(chunk, b, y) <= Diff(p, b) /\ Diff(p, b) < End(chunk, b, e)) => r = NoChunk
    BY FindNext DEF L
  <2>5. /\ Diff(p, b) < End(chunk, b, e) => Holds(chunk, b, s, upto, Diff(p, b))
        /\ ~(Diff(p, b) < End(chunk, b, e)) => upto = NoChunk
    BY <2>3, <2>4
  <2>6. CASE Diff(p, b) < End(chunk, b, e)
    <3>1. upto \in L /\ Beg(chunk, b, upto) <= Diff(p, b) /\ Diff(p, b) < End(chunk, b, upto)
      BY <2>5, <2>6 DEF Holds, L
    <3>2. d \in List(chunk, chunk[upto].next) <=> Beg(chunk, b, upto) < Beg(chunk, b, d)
      BY <1>8, <2>1, <3>1
    <3>3. d = upto \/ End(chunk, b, d) <= Beg(chunk, b, upto) \/ End(chunk, b, upto) <= Beg(chunk, b, d)
      BY <1>5, <2>1, <3>1
    <3> QED
      BY <1>2, <1>3, <2>1, <3>1, <3>2, <3>3
  <2>7. CASE ~(Diff(p, b) < End(chunk, b, e))
    <3>1. List(chunk, chunk[upto].next) = {}
      BY <1>1, <2>5, <2>7, ListNone DEF Linked
    <3>2. Beg(chunk, b, d) <= Diff(p, b)
      BY <1>1, <1>2, <1>3, <1>4, <2>1, <2>7
    <3> QED
      BY <3>1, <3>2
  <2> QED
    BY <2>6, <2>7
<1> QED
  BY <1>9, <1>10 DEF L

\* A tree that starts at root and has no holes keeps to that, and the chunk
\* found holds the position looked up.
LEMMA LookupOK ==
  ASSUME NEW b, NEW s, NEW e, Placed(chunk, b, s, e), NEW root \in List(chunk, s),
         NEW tree, tree \subseteq List(chunk, s), tree # {} => root \in tree,
         \A c \in tree : Beg(chunk, b, root) <= Beg(chunk, b, c),
         \A c \in tree, d \in List(chunk, s) :
            Beg(chunk, b, root) <= Beg(chunk, b, d) /\ Beg(chunk, b, d) <= Beg(chunk, b, c) => d \in tree,
         NEW p \in Pos, NEW q \in Pos, Beg(chunk, b, root) <= Diff(p, b),
         Diff(p, b) < Diff(q, b), Diff(q, b) <= End(chunk, b, e),
         NEW old, NEW r, r = UpdateLookup(tree, root, old, p, q)
  PROVE  /\ Holds(chunk, b, s, r.c, Diff(p, b)) /\ r.c # NoChunk
         /\ r.tree \subseteq List(chunk, s) /\ root \in r.tree
         /\ \A c \in r.tree : Beg(chunk, b, root) <= Beg(chunk, b, c)
         /\ \A c \in r.tree, d \in List(chunk, s) :
              Beg(chunk, b, root) <= Beg(chunk, b, d) /\ Beg(chunk, b, d) <= Beg(chunk, b, c) => d \in r.tree
         /\ \A c \in r.tree : c \in tree \/ Beg(chunk, b, c) <= Diff(q, b)
<1> DEFINE L == List(chunk, s)
           B(x) == Beg(chunk, b, x)
           E(x) == End(chunk, b, x)
           t0 == IF tree = {} THEN {root} ELSE tree
           c == IF tree = {} THEN root ELSE Floor(tree, p)
           first == chunk[c].next
           known == FirstFrom(chunk, first, t0)
           upto == svm_fifo_find_next_chunk(chunk, first, q)
           more == List(chunk, first) \ (List(chunk, known) \union List(chunk, chunk[upto].next))
           added == IF f_chunk_includes_pos(chunk, c, q) THEN {} ELSE more
           found == {d \in added \union {c} : f_chunk_includes_pos(chunk, d, p)}
<1>1. /\ Linked(chunk) /\ b \in Pos /\ e \in L /\ chunk[e].next = NoChunk /\ 2 * E(e) < W
      /\ NoChunk \notin Chunks /\ W \in Nat
  BY Numbers DEF Placed
<1>2. /\ L \subseteq Chunks
      /\ \A d \in L : /\ B(d) \in Nat /\ E(d) \in Nat /\ B(d) < E(d)
                      /\ d # e => /\ chunk[d].next \in L /\ chunk[d].next # NoChunk
                                  /\ B(chunk[d].next) = E(d)
  BY PlacedType
<1>3. /\ Diff(p, b) \in Nat /\ Diff(q, b) \in Nat
  BY <1>1, Counted
<1>4. 2 * Diff(p, b) < W /\ 2 * Diff(q, b) < W /\ Diff(p, b) < E(e)
  BY <1>1, <1>2, <1>3
<1>5. \A d \in L : E(d) <= E(e)
  BY Rising
<1>6. \A x, d \in L : x = d \/ E(x) <= B(d) \/ E(d) <= B(x)
  BY Ordered
<1>7. \A d \in L : /\ f_chunk_includes_pos(chunk, d, p) <=> B(d) <= Diff(p, b) /\ Diff(p, b) < E(d)
                   /\ f_chunk_includes_pos(chunk, d, q) <=> B(d) <= Diff(q, b) /\ Diff(q, b) < E(d)
  <2> TAKE d \in L
  <2>1. f_chunk_includes_pos(chunk, d, p) <=> Holds(chunk, b, s, d, Diff(p, b))
    BY <1>4, Includes
  <2>2. f_chunk_includes_pos(chunk, d, q) <=> Holds(chunk, b, s, d, Diff(q, b))
    BY <1>4, Includes
  <2> QED
    BY <2>1, <2>2 DEF Holds
<1>8. /\ t0 \subseteq L /\ root \in t0 /\ tree \subseteq t0 /\ (\A x \in t0 : B(root) <= B(x))
      /\ \A x \in t0, d \in L : B(root) <= B(d) /\ B(d) <= B(x) => d \in t0
      /\ \A x \in t0 : x \in tree \/ x = root
  <2>1. CASE tree = {}
    <3>1. \A d \in L : B(root) <= B(d) /\ B(d) <= B(root) => d = root
      BY <1>2, <1>6
    <3> QED
      BY <1>2, <2>1, <3>1
  <2>2. CASE tree # {}
    BY <2>2
  <2> QED
    BY <2>1, <2>2
<1>9. c \in t0 /\ c \in L /\ B(c) <= Diff(p, b) /\ \A d \in t0 : B(d) <= Diff(p, b) => B(d) <= B(c)
  <2>1. CASE tree = {}
    BY <1>2, <1>8, <2>1
  <2>2. CASE tree # {}
    <3>1. root \in tree
      BY <2>2
    <3>2. /\ Floor(tree, p) \in tree /\ B(Floor(tree, p)) <= Diff(p, b)
          /\ \A d \in tree : B(d) <= Diff(p, b) => B(d) <= B(Floor(tree, p))
      BY <1>4, <3>1, FloorOK
    <3> QED
      BY <2>2, <3>2
  <2> QED
    BY <2>1, <2>2
<1>10. r.tree = (t0 \union added) \ {NoChunk} /\ r.c = IF found = {} THEN old ELSE CHOOSE d \in found : TRUE
  BY DEF UpdateLookup
<1>11. PICK holder \in L : B(holder) <= Diff(p, b) /\ Diff(p, b) < E(holder)
  <2>1. s \in L /\ B(s) <= B(root)
    <3>1. s \in L /\ (root = s \/ E(s) <= B(root))
      BY Rising, PlacedType
    <3> QED
      BY <1>2, <3>1
  <2>2. B(s) <= Diff(p, b)
    BY <1>2, <1>3, <2>1
  <2>3. \E h \in L : Holds(chunk, b, s, h, Diff(p, b))
    BY <1>3, <1>4, <2>2, NoGap
  <2> QED
    BY <2>3 DEF Holds
<1> HIDE DEF t0, c, L
\* Nothing is added, or the chunks from c on up to the one that holds q.
<1>12. \/ added = {} /\ Diff(p, b) < E(c)
       \/ /\ \A d : d \in added <=> d \in L /\ B(c) < B(d) /\ B(d) <= Diff(q, b)
          /\ \A d \in t0 : B(d) <= B(c)
  <2>1. CASE f_chunk_includes_pos(chunk, c, q)
    <3>1. Diff(q, b) < E(c) /\ added = {}
      BY <1>7, <1>9, <2>1
    <3> QED
      BY <1>2, <1>3, <1>9, <3>1
  <2>2. CASE ~f_chunk_includes_pos(chunk, c, q)
    <3>1. E(c) <= Diff(q, b) /\ added = more
      BY <1>2, <1>3, <1>7, <1>9, <2>2
    <3>2. \A d : d \in List(chunk, first) <=> d \in L /\ B(c) < B(d)
      BY <1>9, <3>1, UptoOK DEF L
    <3>3. \A d \in List(chunk, first) :
             d \notin List(chunk, chunk[upto].next) <=> B(d) <= Diff(q, b)
      BY <1>9, <3>1, UptoOK DEF L
    <3>4. CASE \E x \in t0 : B(c) < B(x)
      <4>1. PICK x \in t0 : B(c) < B(x)
        BY <3>4
      <4>2. x \in L /\ x # c /\ E(c) <= B(x)
        BY <1>2, <1>6, <1>8, <1>9, <4>1
      <4>3. c # e
        BY <1>2, <1>5, <1>9, <4>2
      <4>4. first \in L /\ first # NoChunk /\ B(first) = E(c)
        BY <1>2, <1>9, <4>3
      <4>5. B(root) <= B(first)
        BY <1>2, <1>8, <1>9, <4>4
      <4>6. first \in t0
        BY <1>8, <4>2, <4>4, <4>5
      <4>7. known = first
        <5>1. first \in Chunks /\ NoChunk \notin t0
          BY <1>1, <1>2, <1>8, <4>4
        <5>2. PICK y \in Chunks : y = first
          BY <5>1
        <5>3. LET k == FirstFrom(chunk, y, t0)
              IN  /\ k = NoChunk => \A d \in List(chunk, y) : d \notin t0
                  /\ k # NoChunk => /\ k \in List(chunk, y) /\ k \in t0
                                    /\ \A d \in List(chunk, y) : d \in t0 => d \in List(chunk, k)
          BY <1>1, <5>1, FirstFromFirst
        <5>4. y \in List(chunk, y)
          BY <1>1, ListLeast
        <5>5. PICK k : k = FirstFrom(chunk, y, t0) /\ k \in List(chunk, y) /\ y \in List(chunk, k)
          BY <4>6, <5>2, <5>3, <5>4
        <5>6. k \in L /\ y \in L
          BY <3>2, <4>4, <5>2, <5>5
        <5>7. B(y) <= B(k) /\ B(k) <= B(y)
          BY <5>5, <5>6, Ordered DEF L
        <5>8. k = y
          BY <1>2, <1>6, <5>6, <5>7
        <5> QED
          BY <5>2, <5>5, <5>8
      <4>8. added = {}
        BY <3>1, <4>7
      <4>9. Diff(p, b) < E(c)
        BY <1>2, <1>3, <1>9, <4>4, <4>6
      <4> QED
        BY <4>8, <4>9
    <3>5. CASE ~\E x \in t0 : B(c) < B(x)
      <4>1. \A d \in t0 : B(d) <= B(c)
        BY <1>2, <1>8, <1>9, <3>5
      <4>2. List(chunk, known) = {}
        <5>1. known \in List(chunk, first) \union {NoChunk} /\ (first = NoChunk => known = NoChunk)
          <6>1. first \in Ptr
            BY <1>1, <1>2, <1>9 DEF Linked, Ptr
          <6> QED
            BY <1>1, <6>1, FirstFromList
        <5>2. known = NoChunk
          <6>1. CASE first = NoChunk
            BY <5>1, <6>1
          <6>2. CASE first # NoChunk
            <7>1. first \in Chunks
              BY <1>1, <1>2, <1>9, <6>2 DEF Linked, Ptr
            <7>2. NoChunk \notin t0
              BY <1>1, <1>2, <1>8
            <7>3. known # NoChunk => known \in List(chunk, first) /\ known \in t0
              BY <1>1, <7>1, <7>2, FirstFromFirst
            <7> QED
              BY <3>2, <3>5, <7>3
          <6> QED
            BY <6>1, <6>2
        <5> QED
          BY <1>1, <5>2, ListNone
      <4>3. \A d : d \in added <=> d \in L /\ B(c) < B(d) /\ B(d) <= Diff(q, b)
        BY <3>1, <3>2, <3>3, <4>2
      <4> QED
        BY <4>1, <4>3
    <3> QED
      BY <3>4, <3>5
  <2> QED
    BY <2>1, <2>2
<1> HIDE DEF added
<1>13. added \subseteq L /\ holder \in added \union {c}
  <2>1. CASE added = {} /\ Diff(p, b) < E(c)
    <3>1. holder = c
      BY <1>2, <1>3, <1>6, <1>9, <1>11, <2>1
    <3> QED
      BY <2>1, <3>1
  <2>2. CASE /\ \A d : d \in added <=> d \in L /\ B(c) < B(d) /\ B(d) <= Diff(q, b)
             /\ \A d \in t0 : B(d) <= B(c)
    <3>1. holder = c \/ B(c) < B(holder)
      BY <1>2, <1>3, <1>6, <1>9, <1>11
    <3>2. B(holder) <= Diff(q, b)
      BY <1>2, <1>3, <1>11
    <3> QED
      BY <1>11, <2>2, <3>1, <3>2
  <2> QED
    BY <1>12, <2>1, <2>2
<1>14. found = {holder}
  <2>1. holder \in found
    BY <1>7, <1>11, <1>13
  <2>2. ASSUME NEW d \in found
        PROVE  d = holder
    <3>1. d \in L /\ B(d) <= Diff(p, b) /\ Diff(p, b) < E(d)
      BY <1>7, <1>9, <1>13, <2>2
    <3> QED
      BY <1>2, <1>3, <1>6, <1>11, <3>1
  <2> HIDE DEF found
  <2> QED
    BY <2>1, <2>2
<1>15. r.c = holder /\ Holds(chunk, b, s, holder, Diff(p, b)) /\ holder # NoChunk
  <2>1. r.c = holder
    BY <1>10, <1>14
  <2>2. Holds(chunk, b, s, holder, Diff(p, b))
    BY <1>11 DEF Holds, L
  <2>3. holder # NoChunk
    BY <1>1, <1>2, <1>11
  <2> QED
    BY <2>1, <2>2, <2>3
<1>16. r.tree = t0 \union added
  BY <1>1, <1>2, <1>8, <1>10, <1>13
<1>17. \A x \in t0 \union added : B(root) <= B(x)
  <2>1. ASSUME NEW x \in added
        PROVE  B(root) <= B(x)
    <3>1. B(c) < B(x) /\ B(root) <= B(c) /\ x \in L
      BY <1>8, <1>9, <1>12, <1>13
    <3> QED
      BY <1>2, <1>9, <3>1 DEF L
  <2> QED
    BY <1>8, <2>1
<1>18. ASSUME NEW x \in t0 \union added, NEW d \in L, B(root) <= B(d), B(d) <= B(x)
       PROVE  d \in t0 \union added
  <2>1. CASE x \in t0
    BY <1>8, <1>18, <2>1
  <2>2. CASE x \notin t0
    <3>1. x \in L /\ B(c) < B(x) /\ B(x) <= Diff(q, b)
      BY <1>12, <1>18, <2>2
    <3>2. B(d) <= Diff(q, b)
      BY <1>2, <1>3, <1>18, <3>1
    <3>3. CASE B(c) < B(d)
      BY <1>12, <1>18, <2>2, <3>2, <3>3
    <3>4. CASE ~(B(c) < B(d))
      <4>1. B(d) <= B(c)
        BY <1>2, <1>9, <3>4
      <4> QED
        BY <1>8, <1>9, <1>18, <4>1
    <3> QED
      BY <3>3, <3>4
  <2> QED
    BY <2>1, <2>2
<1>19. \A x \in t0 \union added : x \in tree \/ B(x) <= Diff(q, b)
  <2>1. B(root) <= Diff(q, b)
    BY <1>2, <1>3 DEF L
  <2> QED
    BY <1>8, <1>12, <2>1
<1> QED
  BY <1>8, <1>13, <1>15, <1>16, <1>17, <1>18, <1>19 DEF L

-----------------------------------------------------------------------------
(* The chunk pointers.                                                     *)

\* The chunks of the list, counted from its first byte.
OnList == List(chunk, start_chunk)
Begin(c) == Beg(chunk, Base, c)
Finish(c) == End(chunk, Base, c)
HoldsAt(c, x) == c \in OnList /\ Begin(c) <= x /\ x < Finish(c)

\* tail_chunk is the chunk the next in-order byte goes to, null when that one
\* has yet to be allocated.
TailOK ==
    /\ tail_chunk = NoChunk => Place(Tl) = Total
    /\ tail_chunk # NoChunk => HoldsAt(tail_chunk, Place(Tl))
    /\ prod.at \in {"alloc", "copy"} /\ ooo_segments # <<>> => prod.old = tail_chunk

\* The lookup tree of the producer holds chunks of the list from tail_chunk on,
\* without holes, none of them further than the out-of-order data goes.
EnqTree ==
    /\ enq_tree \subseteq OnList
    /\ enq_tree # {} => tail_chunk \in enq_tree /\ ooo_segments # <<>>
    /\ \A c \in enq_tree : Place(Tl) < Finish(c)
EnqWhole ==
    \A c \in enq_tree, d \in OnList :
        Begin(tail_chunk) <= Begin(d) /\ Begin(d) <= Begin(c) => d \in enq_tree
EnqReach ==
    \A c \in enq_tree : \E y \in Nat :
        Covered(ooo_segments, Tl, y) /\ Begin(c) <= Place(Tl) + y + 1
EnqLast ==
    ooo_enq # NoChunk => ooo_enq \in OnList /\ Place(Tl) < Finish(ooo_enq) /\ ooo_segments # <<>>
EnqOK == EnqTree /\ EnqWhole /\ EnqReach /\ EnqLast

\* head_chunk, when it is known, is the chunk of the next byte to read; a
\* dequeue moves it before it moves the head.
Hx == IF cons.at = "unlink" /\ cons.op = "dequeue" THEN Add(head, cons.len) ELSE Hd
HeadOK ==
    /\ head_chunk # NoChunk => HoldsAt(head_chunk, Place(Hx))
    /\ ooo_deq # NoChunk => ooo_deq \in OnList

\* The lookup tree of a tx fifo's consumer holds chunks of the list from
\* start_chunk on, without holes, until the connection is gone.
Gone == cons.at = "closed" \/ (cons.at = "publish" /\ cons.op = "drop_all")
DeqOK ==
    /\ kind # "tx" => deq_tree = {}
    /\ cons.at \in {"copy", "unlink"} /\ cons.op = "dequeue" => kind # "tx"
    /\ ~Gone => /\ deq_tree \subseteq OnList
                /\ deq_tree # {} => start_chunk \in deq_tree
                /\ \A c \in deq_tree, d \in OnList : Begin(d) <= Begin(c) => d \in deq_tree

PointerInv == TailOK /\ EnqOK /\ HeadOK /\ DeqOK

\* The numbers of the list.
LEMMA OnListType ==
  ASSUME PlaceOK
  PROVE  /\ OnList \subseteq Chunks /\ NoChunk \notin OnList /\ start_chunk \in OnList
         /\ end_chunk \in OnList /\ Total = Finish(end_chunk) /\ Total \in Nat
         /\ Base \in Pos /\ 2 * Total < W /\ Begin(start_chunk) = 0
         /\ \A c \in OnList : /\ c \in Chunks /\ c \in Ptr /\ c # NoChunk /\ chunk[c].start \in Pos
                              /\ Begin(c) \in Nat /\ Finish(c) \in Nat /\ Begin(c) < Finish(c)
                              /\ Finish(c) <= Total /\ ChunkLen[c] \in Nat
                              /\ Finish(c) = Begin(c) + ChunkLen[c]
         /\ \A c, d \in OnList : c = d \/ Finish(c) <= Begin(d) \/ Finish(d) <= Begin(c)
         /\ \A c, d \in OnList : d \in List(chunk, c) <=> Begin(c) <= Begin(d)
         /\ \A c, x : HoldsAt(c, x) <=> Holds(chunk, Base, start_chunk, c, x)
         /\ Placed(chunk, Base, start_chunk, end_chunk)
<1>1. Placed(chunk, Base, start_chunk, end_chunk)
  BY DEF PlaceOK
<1>2. /\ OnList \subseteq Chunks /\ start_chunk \in OnList
      /\ \A c \in OnList : /\ c \in Chunks /\ chunk[c].start \in Pos
                           /\ Begin(c) \in Nat /\ Finish(c) \in Nat /\ Begin(c) < Finish(c)
                           /\ ChunkLen[c] \in Nat /\ Finish(c) = Begin(c) + ChunkLen[c]
  BY <1>1, PlacedType DEF OnList, Begin, Finish
<1>3. \A c \in OnList : Finish(c) <= Finish(end_chunk)
  BY <1>1, Rising DEF OnList, Begin, Finish
<1>4. \A c, d \in OnList : c = d \/ Finish(c) <= Begin(d) \/ Finish(d) <= Begin(c)
  BY <1>1, Ordered DEF OnList, Begin, Finish
<1>5. \A c, d \in OnList : d \in List(chunk, c) <=> Begin(c) <= Begin(d)
  BY <1>1, Ordered DEF OnList, Begin, Finish
<1>6. /\ end_chunk \in OnList /\ Total = Finish(end_chunk) /\ Base \in Pos
      /\ 2 * Total < W
  BY <1>1 DEF Placed, OnList, Total, Finish
<1>7. Begin(start_chunk) = 0
  BY <1>6, Counted DEF Begin, Beg, Base
<1>8. NoChunk \notin Chunks
  BY Numbers
<1>9. \A c, x : HoldsAt(c, x) <=> Holds(chunk, Base, start_chunk, c, x)
  BY DEF HoldsAt, Holds, OnList, Begin, Finish
<1> QED
  BY <1>1, <1>2, <1>3, <1>4, <1>5, <1>6, <1>7, <1>8, <1>9 DEF Ptr

\* A step takes chunks that end within the first D bytes off the list, and puts
\* new ones at its end.
Carried(D) ==
    /\ \A c \in OnList : D < Finish(c) =>
          c \in OnList' /\ Begin(c)' = Begin(c) - D /\ Finish(c)' = Finish(c) - D
    /\ \A c \in OnList' :
          \/ c \in OnList /\ Begin(c)' = Begin(c) - D /\ Finish(c)' = Finish(c) - D
          \/ c \notin OnList /\ Total - D <= Begin(c)'

\* A step that moves no chunk.
LEMMA CarryStill ==
  ASSUME PlaceOK, ListInv', UNCHANGED << start_chunk, end_chunk >>,
         \A d \in Ptr : chunk'[d].start = chunk[d].start /\ chunk'[d].next = chunk[d].next
  PROVE  /\ Carried(0) /\ OnList' = OnList
         /\ \A c \in OnList : Begin(c)' = Begin(c) /\ Finish(c)' = Finish(c)
         /\ \A c, x : HoldsAt(c, x)' <=> HoldsAt(c, x)
<1>1. /\ OnList \subseteq Chunks /\ start_chunk \in Chunks
      /\ \A c \in OnList : c \in Ptr /\ Begin(c) \in Nat /\ Finish(c) \in Nat
  BY OnListType
<1>2. /\ Base' = Base
      /\ \A b, d : d \in Ptr => Beg(chunk', b, d) = Beg(chunk, b, d)
                                /\ End(chunk', b, d) = End(chunk, b, d)
      /\ \A d \in Chunks : List(chunk', d) = List(chunk, d)
  BY Unmoved
<1>3. OnList' = OnList
  BY <1>1, <1>2 DEF OnList
<1>4. \A c \in OnList : Begin(c)' = Begin(c) /\ Finish(c)' = Finish(c)
  BY <1>1, <1>2 DEF Begin, Finish
<1>5. Carried(0)
  BY <1>1, <1>3, <1>4 DEF Carried
<1>6. \A c, x : HoldsAt(c, x)' <=> HoldsAt(c, x)
  BY <1>3, <1>4 DEF HoldsAt
<1> QED
  BY <1>3, <1>4, <1>5, <1>6

\* f_unlink_chunks: the chunks before c go.
LEMMA CarryUnlink ==
  ASSUME PlaceOK, ListInv', NEW c \in OnList, start_chunk' = c,
         UNCHANGED end_chunk, Collect(OnList \ List(chunk, c))
  PROVE  /\ Carried(Begin(c)) /\ Begin(c) \in Nat /\ PlaceOK' /\ Total' = Total - Begin(c)
         /\ OnList' = List(chunk, c) /\ Base' = chunk[c].start
         /\ \A d \in OnList' : /\ d \in OnList /\ chunk'[d] = chunk[d]
                               /\ Begin(d)' = Begin(d) - Begin(c)
                               /\ Finish(d)' = Finish(d) - Begin(c)
         /\ \A p \in Pos : Begin(c) <= Place(p) => Place(p)' = Place(p) - Begin(c)
         /\ \A d \in OnList : d \in OnList' <=> Begin(c) < Finish(d)
<1>1. /\ \A d \in OnList : Begin(d) \in Nat /\ Finish(d) \in Nat /\ Begin(d) < Finish(d)
      /\ \A a, d \in OnList : a = d \/ Finish(a) <= Begin(d) \/ Finish(d) <= Begin(a)
      /\ \A a, d \in OnList : d \in List(chunk, a) <=> Begin(a) <= Begin(d)
  BY OnListType
<1>2. /\ PlaceOK' /\ Base' = chunk[c].start /\ Total' = Total - Begin(c)
      /\ List(chunk', c) = List(chunk, c)
      /\ \A d \in List(chunk, c) : /\ chunk'[d] = chunk[d]
                                   /\ Begin(d)' = Begin(d) - Begin(c)
                                   /\ Finish(d)' = Finish(d) - Begin(c)
      /\ \A p \in Pos : Begin(c) <= Place(p) => Place(p)' = Place(p) - Begin(c)
  <2>1. c \in List(chunk, start_chunk) /\ Collect(List(chunk, start_chunk) \ List(chunk, c))
    BY DEF OnList
  <2>2. PICK x \in List(chunk, start_chunk) : x = c
    BY <2>1
  <2>3. /\ PlaceOK' /\ Base' = chunk[x].start
        /\ Total' = Total - Beg(chunk, Base, x)
        /\ List(chunk', x) = List(chunk, x)
        /\ \A d \in List(chunk, x) : /\ chunk'[d] = chunk[d]
                                     /\ Beg(chunk', Base', d) = Beg(chunk, Base, d) - Beg(chunk, Base, x)
                                     /\ End(chunk', Base', d) = End(chunk, Base, d) - Beg(chunk, Base, x)
        /\ \A p \in Pos : Beg(chunk, Base, x) <= Place(p) =>
              Place(p)' = Place(p) - Beg(chunk, Base, x)
    BY <2>1, <2>2, Shifted
  <2> QED
    BY <2>2, <2>3 DEF Begin, Finish
<1>3. OnList' = List(chunk, c)
  BY <1>2 DEF OnList
<1>4. List(chunk, c) \subseteq OnList
  <2>1. Placed(chunk, Base, start_chunk, end_chunk)
    BY OnListType
  <2> QED
    BY <2>1, PlacedPart DEF OnList
<1>5. \A d \in OnList : d \in OnList' <=> Begin(c) < Finish(d)
  <2> TAKE d \in OnList
  <2>1. c = d \/ Finish(c) <= Begin(d) \/ Finish(d) <= Begin(c)
    BY <1>1
  <2>2. d \in OnList' <=> Begin(c) <= Begin(d)
    BY <1>1, <1>3
  <2> QED
    BY <1>1, <2>1, <2>2
<1>6. Carried(Begin(c))
  BY <1>2, <1>3, <1>4, <1>5 DEF Carried
<1> QED
  BY <1>1, <1>2, <1>3, <1>4, <1>5, <1>6

\* f_try_chunk_alloc: new chunks at the end.
LEMMA CarryAlloc ==
  ASSUME AmountInv, ListInv', Alloc
  PROVE  /\ Carried(0) /\ PlaceOK' /\ Base' = Base /\ Total \in Nat /\ Total' \in Nat /\ Total < Total'
         /\ \A p : Place(p)' = Place(p)
         /\ \A d \in Ptr : chunk'[d].data = chunk[d].data
         /\ \A d \in OnList : chunk'[d].start = chunk[d].start
         /\ tail_chunk # NoChunk => tail_chunk' = tail_chunk
         /\ tail_chunk = NoChunk => tail_chunk' \in OnList' /\ Begin(tail_chunk)' = Total
<1> HIDE DEF MaxLen
<1>n. /\ W \in Nat \ {0} /\ Size \in Nat \ {0} /\ MinAlloc \in Nat \ {0} /\ MaxLen \in Nat \ {0}
      /\ 2 * (Size + MinAlloc + 2 * MaxLen - 2) < W
  BY Numbers
<1>0. UNCHANGED start_chunk /\ prod.at = "alloc"
  BY DEF Alloc
<1>1. Place(Hd) \in Nat /\ Total \in Nat /\ Place(Hd) <= MaxLen
  BY Amounts DEF AmountInv
<1>2. PICK need \in Nat \ {0} :
        /\ need = prod.need /\ Total + need <= Place(Hd) + Size + MinAlloc - 1
  BY <1>0 DEF AmountInv, ProdOK
<1>3. PICK s \in Lists(need) : f_try_chunk_alloc(s)
  BY <1>2 DEF Alloc
<1>4. 2 * (Total + need - 1 + MaxLen) < W
  BY <1>1, <1>2, <1>n
<1>5. PICK m \in Nat :
        /\ need <= m /\ m <= need - 1 + MaxLen
        /\ PlaceOK' /\ Base' = Base /\ Total' = Total + m
        /\ \A p : Place(p)' = Place(p)
        /\ List(chunk, start_chunk) \subseteq List(chunk', start_chunk)
        /\ \A d \in List(chunk, start_chunk) : /\ Beg(chunk', Base, d) = Beg(chunk, Base, d)
                                               /\ End(chunk', Base, d) = End(chunk, Base, d)
        /\ \A d \in List(chunk', start_chunk) :
              d \notin List(chunk, start_chunk) => d \in free /\ Total <= Beg(chunk', Base, d)
        /\ \A d \in Ptr : chunk'[d].data = chunk[d].data
        /\ \A d \in List(chunk, start_chunk) : chunk'[d].start = chunk[d].start
        /\ \E first \in List(chunk', start_chunk) :
              /\ Beg(chunk', Base, first) = Total
              /\ tail_chunk' = IF tail_chunk = NoChunk THEN first ELSE tail_chunk
  BY <1>0, <1>3, <1>4, AllocPlace DEF AmountInv
<1>6. \A c \in OnList : Begin(c) \in Nat /\ Finish(c) \in Nat
  BY OnListType DEF AmountInv
<1>7. /\ OnList \subseteq OnList'
      /\ \A c \in OnList : Begin(c)' = Begin(c) /\ Finish(c)' = Finish(c)
      /\ \A c \in OnList' : c \notin OnList => Total <= Begin(c)'
  BY <1>0, <1>5 DEF OnList, Begin, Finish
<1>8. Carried(0)
  BY <1>1, <1>6, <1>7 DEF Carried
<1>9. /\ tail_chunk # NoChunk => tail_chunk' = tail_chunk
      /\ tail_chunk = NoChunk => tail_chunk' \in OnList' /\ Begin(tail_chunk)' = Total
  BY <1>0, <1>5 DEF OnList, Begin
<1>10. Total < Total' /\ Total' \in Nat
  BY <1>1, <1>5
<1> QED
  BY <1>1, <1>5, <1>8, <1>9, <1>10 DEF OnList

\* The numbers of the list, as a formula that also holds of the next state.
ListNumbers ==
    /\ OnList \subseteq Chunks /\ NoChunk \notin OnList /\ start_chunk \in OnList
    /\ Total \in Nat /\ Begin(start_chunk) = 0
    /\ \A c \in OnList : Begin(c) \in Nat /\ Finish(c) \in Nat /\ Begin(c) < Finish(c)
                        /\ Finish(c) <= Total
    /\ \A c, d \in OnList : c = d \/ Finish(c) <= Begin(d) \/ Finish(d) <= Begin(c)

\* The chunks on the list of the fifo are disjoint intervals of its size, which
\* f_chunk_end and the walks along c->next rely on.
LEMMA OnListNumbers == PlaceOK => ListNumbers
  BY OnListType DEF ListNumbers

\* The same of the next state.
LEMMA OnListNumbersNext ==
  PlaceOK' => /\ OnList' \subseteq Chunks /\ NoChunk \notin OnList' /\ start_chunk' \in OnList'
              /\ Total' \in Nat /\ Begin(start_chunk)' = 0
              /\ \A c \in OnList' : Begin(c)' \in Nat /\ Finish(c)' \in Nat /\ Begin(c)' < Finish(c)'
                                   /\ Finish(c)' <= Total'
              /\ \A c, d \in OnList' : c = d \/ Finish(c)' <= Begin(d)' \/ Finish(d)' <= Begin(c)'
<1>1. PlaceOK' => ListNumbers'
  BY OnListNumbers, PTL
<1> QED
  BY <1>1 DEF ListNumbers

\* Steps that do not move the tail leave the producer its chunks.
LEMMA TailKept ==
  ASSUME AmountInv, PlaceOK', TailOK, EnqOK, NEW D \in Nat, Carried(D), D <= Place(Tl),
         Place(Tl)' = Place(Tl) - D, Tl' = Tl, UNCHANGED << ooo_segments, enq_tree, ooo_enq >>,
         tail_chunk # NoChunk => tail_chunk' = tail_chunk,
         tail_chunk = NoChunk => (tail_chunk' = NoChunk /\ Total' = Total - D)
                                 \/ HoldsAt(tail_chunk, Place(Tl))',
         prod'.at \in {"alloc", "copy"} /\ ooo_segments # <<>> => prod'.old = tail_chunk'
  PROVE  TailOK' /\ EnqOK'
<1>1. /\ NoChunk \notin OnList /\ Total \in Nat
      /\ \A c \in OnList : /\ Begin(c) \in Nat /\ Finish(c) \in Nat /\ Begin(c) < Finish(c)
                           /\ Finish(c) <= Total
      /\ \A c, d \in OnList : c = d \/ Finish(c) <= Begin(d) \/ Finish(d) <= Begin(c)
  BY OnListType DEF AmountInv
<1>2. Place(Tl) \in Nat
  BY Amounts DEF AmountInv
<1>3. NoChunk \notin OnList'
  BY OnListNumbersNext
\* Chunks that end past the tail are still there.
<1>4. ASSUME NEW c \in OnList, Place(Tl) < Finish(c)
      PROVE  /\ c \in OnList' /\ Begin(c)' = Begin(c) - D /\ Finish(c)' = Finish(c) - D
             /\ Place(Tl)' < Finish(c)'
  <2>1. D < Finish(c)
    BY <1>1, <1>2, <1>4
  <2>2. c \in OnList' /\ Begin(c)' = Begin(c) - D /\ Finish(c)' = Finish(c) - D
    BY <2>1 DEF Carried
  <2> QED
    BY <1>1, <1>2, <1>4, <2>2
<1>5. ASSUME tail_chunk # NoChunk
      PROVE  /\ tail_chunk \in OnList /\ Begin(tail_chunk) <= Place(Tl)
             /\ tail_chunk \in OnList' /\ Begin(tail_chunk)' = Begin(tail_chunk) - D
             /\ HoldsAt(tail_chunk, Place(Tl))'
  <2>1. tail_chunk \in OnList /\ Begin(tail_chunk) <= Place(Tl) /\ Place(Tl) < Finish(tail_chunk)
    BY <1>5 DEF TailOK, HoldsAt
  <2>2. PICK c \in OnList : c = tail_chunk /\ c = tail_chunk'
    BY <1>5, <2>1
  <2>3. c \in OnList' /\ Begin(c)' = Begin(c) - D /\ Place(Tl)' < Finish(c)'
    BY <1>4, <2>1, <2>2
  <2>4. Begin(c)' <= Place(Tl)'
    BY <1>1, <1>2, <2>1, <2>2, <2>3
  <2>5. /\ Begin(tail_chunk)' = Begin(c)' /\ Finish(tail_chunk)' = Finish(c)'
    BY <2>2 DEF Begin, Finish, Beg, End
  <2> QED
    BY <2>1, <2>2, <2>3, <2>4, <2>5 DEF HoldsAt
<1>6. TailOK'
  <2>1. CASE tail_chunk # NoChunk
    BY <1>3, <1>5, <2>1 DEF TailOK
  <2>2. CASE tail_chunk = NoChunk
    <3>1. Place(Tl) = Total
      BY <2>2 DEF TailOK
    <3>2. HoldsAt(tail_chunk, Place(Tl))' => tail_chunk' # NoChunk
      BY <1>3 DEF HoldsAt
    <3> QED
      BY <2>2, <3>1, <3>2 DEF TailOK
  <2> QED
    BY <2>1, <2>2
<1>7. CASE enq_tree = {}
  <2>1. ooo_enq # NoChunk => ooo_enq \in OnList' /\ Place(Tl)' < Finish(ooo_enq)' /\ ooo_segments # <<>>
    <3>1. SUFFICES ASSUME ooo_enq # NoChunk
                   PROVE  ooo_enq \in OnList' /\ Place(Tl)' < Finish(ooo_enq)' /\ ooo_segments # <<>>
      OBVIOUS
    <3>2. PICK c \in OnList : c = ooo_enq /\ Place(Tl) < Finish(c) /\ ooo_segments # <<>>
      BY <3>1 DEF EnqOK, EnqTree, EnqWhole, EnqReach, EnqLast
    <3>3. c \in OnList' /\ Place(Tl)' < Finish(c)'
      BY <1>4, <3>2
    <3>4. Finish(ooo_enq)' = Finish(c)'
      BY <3>2 DEF Finish, End, Beg
    <3> QED
      BY <3>2, <3>3, <3>4
  <2> QED
    BY <1>6, <1>7, <2>1 DEF EnqOK, EnqTree, EnqWhole, EnqReach, EnqLast
<1>8. CASE enq_tree # {}
  <2>1. tail_chunk \in enq_tree /\ enq_tree \subseteq OnList /\ ooo_segments # <<>> /\ tail_chunk # NoChunk
    BY <1>1, <1>8 DEF EnqOK, EnqTree, EnqWhole, EnqReach, EnqLast
  <2>2. \A c \in enq_tree : Place(Tl) < Finish(c)
    BY DEF EnqOK, EnqTree, EnqWhole, EnqReach, EnqLast
  <2>3. enq_tree \subseteq OnList' /\ \A c \in enq_tree : Place(Tl)' < Finish(c)'
    BY <1>4, <2>1, <2>2
  <2>4. ASSUME NEW c \in enq_tree, NEW d \in OnList',
               Begin(tail_chunk)' <= Begin(d)', Begin(d)' <= Begin(c)'
        PROVE  d \in enq_tree
    <3>1. c \in OnList /\ Begin(c)' = Begin(c) - D /\ Begin(tail_chunk)' = Begin(tail_chunk) - D
          /\ tail_chunk \in OnList
      BY <1>4, <1>5, <2>1, <2>2
    <3>2. d \in OnList /\ Begin(d)' = Begin(d) - D
      <4>1. CASE d \notin OnList
        <5>1. Total - D <= Begin(d)'
          BY <4>1 DEF Carried
        <5>2. Total - D <= Begin(c) - D
          <6>1. Begin(d)' \in Int
            BY OnListNumbersNext
          <6> QED
            BY <1>1, <2>4, <3>1, <5>1, <6>1
        <5> QED
          BY <1>1, <3>1, <5>2
      <4> QED
        BY <4>1 DEF Carried
    <3>3. Begin(tail_chunk) <= Begin(d) /\ Begin(d) <= Begin(c)
      BY <1>1, <2>4, <3>1, <3>2
    <3> QED
      BY <3>2, <3>3 DEF EnqOK, EnqTree, EnqWhole, EnqReach, EnqLast
  <2>5. ASSUME NEW c \in enq_tree
        PROVE  \E y \in Nat : Covered(ooo_segments, Tl, y) /\ Begin(c)' <= Place(Tl)' + y + 1
    <3>1. PICK y \in Nat : Covered(ooo_segments, Tl, y) /\ Begin(c) <= Place(Tl) + y + 1
      BY DEF EnqOK, EnqTree, EnqWhole, EnqReach, EnqLast
    <3>2. Begin(c)' = Begin(c) - D /\ Begin(c) \in Nat
      BY <1>1, <1>4, <2>1, <2>2
    <3>3. Begin(c)' <= Place(Tl)' + y + 1
      BY <1>2, <3>1, <3>2
    <3> QED
      BY <3>1, <3>3
  <2>6. ooo_enq # NoChunk => ooo_enq \in OnList' /\ Place(Tl)' < Finish(ooo_enq)'
    <3>1. SUFFICES ASSUME ooo_enq # NoChunk
                   PROVE  ooo_enq \in OnList' /\ Place(Tl)' < Finish(ooo_enq)'
      OBVIOUS
    <3>2. PICK c \in OnList : c = ooo_enq /\ Place(Tl) < Finish(c)
      BY <3>1 DEF EnqOK, EnqTree, EnqWhole, EnqReach, EnqLast
    <3>3. c \in OnList' /\ Place(Tl)' < Finish(c)'
      BY <1>4, <3>2
    <3>4. Finish(ooo_enq)' = Finish(c)'
      BY <3>2 DEF Finish, End, Beg
    <3> QED
      BY <3>2, <3>3, <3>4
  <2>7. tail_chunk' = tail_chunk /\ Begin(tail_chunk)' = Beg(chunk', Base', tail_chunk)
    BY <2>1 DEF Begin
  <2>9. EnqTree'
    BY <2>1, <2>3, <2>7 DEF EnqTree
  <2>10. EnqWhole'
    BY <2>4 DEF EnqWhole
  <2>11. EnqReach'
    <3>1. \A y : Covered(ooo_segments, Tl, y)' <=> Covered(ooo_segments, Tl, y)
      BY DEF Covered, From, To
    <3> QED
      BY <2>5, <3>1 DEF EnqReach
  <2>12. EnqLast'
    BY <2>1, <2>6 DEF EnqLast
  <2> QED
    BY <1>6, <2>9, <2>10, <2>11, <2>12 DEF EnqOK
<1> QED
  BY <1>6, <1>7, <1>8

\* The producer's steps leave the consumer its chunks.
LEMMA HeadKept ==
  ASSUME AmountInv, PlaceOK', HeadOK, DeqOK, Carried(0), \A p : Place(p)' = Place(p),
         UNCHANGED << start_chunk, head_chunk, ooo_deq, deq_tree, head, kind, cons >>
  PROVE  HeadOK' /\ DeqOK'
<1>1. /\ Total \in Nat
      /\ \A c \in OnList : /\ Begin(c) \in Nat /\ Finish(c) \in Nat /\ Begin(c) < Finish(c)
                           /\ Finish(c) <= Total
  BY OnListType DEF AmountInv
<1>2. \A c \in OnList : c \in OnList' /\ Begin(c)' = Begin(c) /\ Finish(c)' = Finish(c)
  BY <1>1 DEF Carried
<1>3. Hx' = Hx /\ Place(Hx)' = Place(Hx)
  <2>1. Hx' = Hx
    BY DEF Hx, Hd
  <2>2. PICK p : p = Hx
    OBVIOUS
  <2>3. Place(Hx)' = Place(p)'
    BY <2>1, <2>2 DEF Place
  <2> QED
    BY <2>1, <2>2, <2>3
<1>4. HeadOK'
  <2>1. ASSUME head_chunk # NoChunk
        PROVE  HoldsAt(head_chunk, Place(Hx))'
    <3>1. PICK c \in OnList : c = head_chunk /\ Begin(c) <= Place(Hx) /\ Place(Hx) < Finish(c)
      BY <2>1 DEF HeadOK, HoldsAt
    <3>2. c \in OnList' /\ Begin(c)' = Begin(c) /\ Finish(c)' = Finish(c)
      BY <1>2
    <3>3. Begin(head_chunk)' = Begin(c)' /\ Finish(head_chunk)' = Finish(c)'
      BY <3>1 DEF Begin, Finish, Beg, End
    <3> QED
      BY <1>3, <3>1, <3>2, <3>3 DEF HoldsAt
  <2>2. ooo_deq # NoChunk => ooo_deq \in OnList'
    BY <1>2 DEF HeadOK
  <2> QED
    BY <2>1, <2>2 DEF HeadOK
<1>5. DeqOK'
  <2>1. Gone' <=> Gone
    BY DEF Gone
  <2>2. ASSUME ~Gone
        PROVE  /\ deq_tree \subseteq OnList'
               /\ \A c \in deq_tree, d \in OnList' : Begin(d)' <= Begin(c)' => d \in deq_tree
    <3>1. deq_tree \subseteq OnList /\ \A c \in deq_tree, d \in OnList : Begin(d) <= Begin(c) => d \in deq_tree
      BY <2>2 DEF DeqOK
    <3>2. ASSUME NEW c \in deq_tree, NEW d \in OnList', Begin(d)' <= Begin(c)'
          PROVE  d \in deq_tree
      <4>1. c \in OnList /\ Begin(c)' = Begin(c)
        BY <1>2, <3>1
      <4>2. d \in OnList
        <5>1. SUFFICES ASSUME d \notin OnList PROVE FALSE
          OBVIOUS
        <5>2. Total - 0 <= Begin(d)'
          BY <5>1 DEF Carried
        <5>3. Begin(d)' \in Int
          BY OnListNumbersNext
        <5> QED
          BY <1>1, <3>2, <4>1, <5>2, <5>3
      <4> QED
        BY <1>2, <3>1, <3>2, <4>1, <4>2
    <3> QED
      BY <1>2, <3>1, <3>2
  <2> QED
    BY <2>1, <2>2 DEF DeqOK
<1> QED
  BY <1>4, <1>5

\* Where there is out-of-order data the list goes on past the tail.
LEMMA SegsRoom ==
  ASSUME AmountInv, ooo_segments # << >>
  PROVE  Place(Tl) < Total /\ kind = "rx" /\ (TailOK => tail_chunk # NoChunk)
<1>1. SegsOK(ooo_segments, Tl, Room) /\ Tl \in Pos /\ ooo_segments \in Seq(Segment) /\ kind = "rx"
  BY DEF AmountInv, OooOK, IndexOK, SegsOK
<1>2. /\ Place(Tl) \in Nat /\ Total \in Nat /\ Room \in Nat /\ 2 * Room < W
      /\ Room <= Total - Place(Tl)
  BY Amounts DEF AmountInv
<1>3. 1 \in 1 .. Len(ooo_segments)
  BY <1>1
<1>4. /\ From(ooo_segments, Tl, 1) \in Nat /\ To(ooo_segments, Tl, 1) \in Nat
      /\ From(ooo_segments, Tl, 1) < To(ooo_segments, Tl, 1) /\ To(ooo_segments, Tl, 1) <= Room
  BY <1>1, <1>2, <1>3, SegEnd
<1>5. Place(Tl) < Total
  BY <1>2, <1>4
<1> QED
  BY <1>1, <1>2, <1>5 DEF TailOK

\* The same of the next state.
LEMMA SegsRoomNext == AmountInv' /\ ooo_segments' # << >> => Place(Tl)' < Total'
<1>1. AmountInv /\ ooo_segments # << >> => Place(Tl) < Total
  BY SegsRoom
<1>2. (AmountInv /\ ooo_segments # << >> => Place(Tl) < Total)'
  BY <1>1, PTL
<1> QED
  BY <1>2

\* Calls of the producer begin, fail or publish their tail.
LEMMA ProdStillPointers ==
  ASSUME AmountInv, AmountInv', PointerInv,
         UNCHANGED << chunk, start_chunk, end_chunk, head, kind, cons, tail_chunk, ooo_segments,
                      ooo_enq, enq_tree, head_chunk, ooo_deq, deq_tree >>,
         Tl' = Tl,
         prod'.at \in {"alloc", "copy"} /\ ooo_segments # <<>> => prod'.old = tail_chunk
  PROVE  PointerInv'
<1>1. /\ PlaceOK /\ PlaceOK' /\ ListInv' /\ Carried(0) /\ (\A p : Place(p)' = Place(p)) /\ Total' = Total
      /\ Total \in Nat /\ Place(Tl) \in Nat
  <2>1. PlaceOK /\ PlaceOK' /\ ListInv'
    BY DEF AmountInv, PlaceOK
  <2> QED
    BY <2>1, CarryStill, SameChunks, Amounts DEF AmountInv
<1>2. Place(Tl)' = Place(Tl) - 0 /\ 0 <= Place(Tl)
  <2>1. PICK p : p = Tl
    OBVIOUS
  <2>2. Place(Tl)' = Place(p)'
    BY <2>1 DEF Place
  <2> QED
    BY <1>1, <2>1, <2>2
<1>3. TailOK' /\ EnqOK'
  <2>1. TailOK /\ EnqOK /\ PlaceOK'
    BY <1>1 DEF PointerInv
  <2>2. Total' = Total - 0
    BY <1>1
  <2> QED
    BY <1>1, <1>2, <2>1, <2>2, TailKept
<1>4. HeadOK' /\ DeqOK'
  BY <1>1, HeadKept DEF PointerInv
<1> QED
  BY <1>3, <1>4 DEF PointerInv

\* The producer's calls begin, go on without memory, publish their tail.
LEMMA ProdStepsPointers ==
  ASSUME AmountInv, AmountInv', PointerInv,
         \/ \E op \in {"enqueue", "segments", "partial"} : EnqueueStart(op)
         \/ EnqueueWithOffsetStart \/ ProvisionStart \/ AllocFails \/ PublishTail
  PROVE  PointerInv'
<1>1. UNCHANGED << chunk, start_chunk, end_chunk, head, kind, cons, tail_chunk, ooo_segments,
                   ooo_enq, enq_tree, head_chunk, ooo_deq, deq_tree >>
  BY DEF EnqueueStart, EnqueueWithOffsetStart, ProvisionStart, AllocFails, PublishTail,
         shared, consVars, prodVars
<1>2. CASE \/ \E op \in {"enqueue", "segments", "partial"} : EnqueueStart(op)
           \/ EnqueueWithOffsetStart \/ ProvisionStart
  <2>1. prod.at = "idle" /\ tail' = tail
        /\ (prod' = Idle \/ \E op, len, off : prod' = ProdCall(op, len, off))
    BY <1>2 DEF EnqueueStart, EnqueueWithOffsetStart, ProvisionStart
  <2>2. CASE prod' = Idle
    BY <1>1, <2>1, <2>2, ProdStillPointers DEF Idle, Tl
  <2>3. CASE \E op, len, off : prod' = ProdCall(op, len, off)
    <3>1. prod'.old = tail_chunk /\ prod'.at \in {"alloc", "copy"}
      BY <2>3 DEF ProdCall
    <3> QED
      BY <1>1, <2>1, <3>1, ProdStillPointers DEF Tl
  <2> QED
    BY <2>1, <2>2, <2>3
<1>3. CASE AllocFails
  <2>1. /\ prod.at = "alloc" /\ tail' = tail
        /\ \/ prod' = Idle
           \/ prod' = [prod EXCEPT !.at = "copy", !.need = 0, !.len = Diff(f_chunk_end(end_chunk), tail)]
    BY <1>3 DEF AllocFails
  <2>2. CASE prod' = Idle
    BY <1>1, <2>1, <2>2, ProdStillPointers DEF Idle, Tl
  <2>3. CASE prod' # Idle
    <3>1. prod'.old = prod.old /\ prod'.at = "copy"
      <4>1. prod = [at |-> prod.at, op |-> prod.op, len |-> prod.len, off |-> prod.off,
                    need |-> prod.need, old |-> prod.old]
        BY <2>1 DEF AmountInv, ProdOK
      <4>2. PICK q : q = prod
        OBVIOUS
      <4>3. PICK p : p = prod'
        OBVIOUS
      <4>4. PICK r : r = Diff(f_chunk_end(end_chunk), tail)
        OBVIOUS
      <4>5. p = [q EXCEPT !.at = "copy", !.need = 0, !.len = r]
        BY <2>1, <2>3, <4>2, <4>3, <4>4
      <4>6. q = [at |-> q.at, op |-> q.op, len |-> q.len, off |-> q.off, need |-> q.need, old |-> q.old]
        BY <4>1, <4>2
      <4>7. p.old = q.old /\ p.at = "copy"
        BY <4>5, <4>6
      <4> QED
        BY <4>2, <4>3, <4>7
    <3>2. ooo_segments # << >> => prod.old = tail_chunk
      BY <2>1 DEF PointerInv, TailOK
    <3> QED
      BY <1>1, <2>1, <3>1, <3>2, ProdStillPointers DEF Tl
  <2> QED
    BY <2>2, <2>3
<1>4. CASE PublishTail
  <2>1. prod.at = "publish" /\ tail' = prod.tail /\ prod' = Idle
    BY <1>4 DEF PublishTail
  <2> QED
    BY <1>1, <2>1, ProdStillPointers DEF Idle, Tl
<1> QED
  BY <1>2, <1>3, <1>4

\* The producer gets more chunks.
LEMMA AllocPointers ==
  ASSUME AmountInv, AmountInv', PointerInv, Alloc
  PROVE  PointerInv'
<1>1. PlaceOK /\ PlaceOK' /\ ListInv' /\ TailOK /\ EnqOK /\ HeadOK /\ DeqOK
  BY DEF AmountInv, PlaceOK, PointerInv
<1>2. /\ Carried(0) /\ Total \in Nat /\ Total' \in Nat /\ Total < Total'
      /\ \A p : Place(p)' = Place(p)
      /\ tail_chunk # NoChunk => tail_chunk' = tail_chunk
      /\ tail_chunk = NoChunk => tail_chunk' \in OnList' /\ Begin(tail_chunk)' = Total
  BY <1>1, CarryAlloc
<1>3. /\ prod.at = "alloc"
      /\ prod' = IF prod.op = "fill" THEN Idle ELSE [prod EXCEPT !.at = "copy", !.need = 0]
      /\ UNCHANGED << start_chunk, ooo_segments, ooo_enq, enq_tree, head_chunk, ooo_deq, deq_tree,
                      head, tail, kind, cons >>
  BY DEF Alloc, consVars
<1>4. prod'.at # "publish" /\ (prod'.at \in {"alloc", "copy"} => prod'.old = prod.old)
  <2>1. prod = [at |-> prod.at, op |-> prod.op, len |-> prod.len, off |-> prod.off,
                need |-> prod.need, old |-> prod.old]
    BY <1>3 DEF AmountInv, ProdOK
  <2>2. PICK q : q = prod
    OBVIOUS
  <2>3. PICK p : p = prod'
    OBVIOUS
  <2>4. q = [at |-> q.at, op |-> q.op, len |-> q.len, off |-> q.off, need |-> q.need, old |-> q.old]
    BY <2>1, <2>2
  <2>5. p = IF q.op = "fill" THEN Idle ELSE [q EXCEPT !.at = "copy", !.need = 0]
    BY <1>3, <2>2, <2>3
  <2>6. p.at # "publish" /\ (p.at \in {"alloc", "copy"} => p.old = q.old)
    BY <2>4, <2>5 DEF Idle
  <2> QED
    BY <2>2, <2>3, <2>6
<1>5. Tl' = Tl /\ Place(Tl) \in Nat
  <2>1. Place(Tl) \in Nat
    BY Amounts DEF AmountInv
  <2> QED
    BY <1>3, <1>4, <2>1 DEF Tl
<1>6. Place(Tl)' = Place(Tl) - 0 /\ 0 <= Place(Tl)
  <2>1. PICK p : p = Tl
    OBVIOUS
  <2>2. Place(Tl)' = Place(p)'
    BY <1>5, <2>1 DEF Place
  <2> QED
    BY <1>2, <1>5, <2>1, <2>2
<1>7. ASSUME tail_chunk = NoChunk
      PROVE  HoldsAt(tail_chunk, Place(Tl))'
  <2>1. Place(Tl) = Total
    BY <1>1, <1>7 DEF TailOK
  <2>2. PICK c : c = tail_chunk'
    OBVIOUS
  <2>3. c \in OnList' /\ Begin(c)' = Total /\ Finish(tail_chunk)' = Finish(c)' /\ Begin(tail_chunk)' = Total
    BY <1>2, <1>7, <2>2 DEF Begin, Finish, Beg, End
  <2>4. Begin(c)' < Finish(c)'
    BY <1>1, <2>3, OnListNumbersNext
  <2> QED
    BY <1>2, <1>5, <1>6, <2>1, <2>2, <2>3, <2>4 DEF HoldsAt
<1>8. ooo_segments # <<>> => tail_chunk # NoChunk /\ prod.old = tail_chunk
  BY <1>1, <1>3, SegsRoom DEF TailOK
<1>9. prod'.at \in {"alloc", "copy"} /\ ooo_segments # <<>> => prod'.old = tail_chunk'
  BY <1>2, <1>4, <1>8
<1>10. TailOK' /\ EnqOK'
  BY <1>1, <1>2, <1>3, <1>5, <1>6, <1>7, <1>9, TailKept
<1>11. HeadOK' /\ DeqOK'
  BY <1>1, <1>2, <1>3, HeadKept
<1> QED
  BY <1>10, <1>11 DEF PointerInv

\* The segments r past the position t2 are those past t from m bytes on.
SameSegs(r, t2, segs, t, m) == \A y \in Nat : Covered(r, t2, y) <=> Covered(segs, t, y + m)

\* An in-order enqueue moves the tail by m bytes to t2, r is the out-of-order
\* data it leaves.
MovesTo(t2, m, r, lim, c, tree) ==
    /\ t2 \in Pos /\ m \in Nat /\ Place(t2) = Place(Tl) + m /\ Place(t2) <= Total
    /\ lim \in Nat /\ 2 * lim < W /\ SegsOK(r, t2, lim) /\ SameSegs(r, t2, ooo_segments, Tl, m)
    /\ r # <<>> => Place(t2) < Total
    /\ c = svm_fifo_find_next_chunk(chunk, tail_chunk, t2)
    /\ LET left == enq_tree \ Before(chunk, tail_chunk, t2)
       IN  tree = IF r = <<>> THEN left \ {c} ELSE left

\* The chunks the tail has passed leave the tree, which goes on from the chunk
\* of the new tail or is empty.
LEMMA TreeMoves ==
  ASSUME PlaceOK, EnqOK, HoldsAt(tail_chunk, Place(Tl)), Place(Tl) \in Nat,
         NEW t2, NEW m, NEW r, NEW lim, NEW c, NEW tree, MovesTo(t2, m, r, lim, c, tree)
  PROVE  /\ Place(t2) < Total => HoldsAt(c, Place(t2)) /\ c # NoChunk
         /\ ~(Place(t2) < Total) => c = NoChunk
         /\ tree \subseteq OnList /\ (tree # {} => c \in tree /\ r # <<>>)
         /\ \A x \in tree : Place(t2) < Finish(x)
         /\ \A x \in tree, d \in OnList : Begin(c) <= Begin(d) /\ Begin(d) <= Begin(x) => d \in tree
         /\ \A x \in tree : \E y \in Nat : Covered(r, t2, y) /\ Begin(x) <= Place(t2) + y + 1
<1> DEFINE left == enq_tree \ Before(chunk, tail_chunk, t2)
<1>0. /\ t2 \in Pos /\ m \in Nat /\ Place(t2) = Place(Tl) + m /\ Place(t2) <= Total
      /\ lim \in Nat /\ 2 * lim < W /\ SegsOK(r, t2, lim) /\ SameSegs(r, t2, ooo_segments, Tl, m)
      /\ r # <<>> => Place(t2) < Total
      /\ c = svm_fifo_find_next_chunk(chunk, tail_chunk, t2)
      /\ tree = IF r = <<>> THEN left \ {c} ELSE left
  BY DEF MovesTo
<1>1. /\ \A x \in OnList : Begin(x) \in Nat /\ Finish(x) \in Nat /\ Begin(x) < Finish(x)
      /\ \A x, d \in OnList : x = d \/ Finish(x) <= Begin(d) \/ Finish(d) <= Begin(x)
      /\ \A x, d \in OnList : d \in List(chunk, x) <=> Begin(x) <= Begin(d)
      /\ \A x, y : HoldsAt(x, y) <=> Holds(chunk, Base, start_chunk, x, y)
      /\ Placed(chunk, Base, start_chunk, end_chunk) /\ Total \in Nat
      /\ NoChunk \notin OnList /\ Total = Finish(end_chunk)
  BY OnListType
<1>2. PICK tc \in OnList : tc = tail_chunk /\ Begin(tc) <= Place(Tl) /\ Place(Tl) < Finish(tc)
  BY DEF HoldsAt
<1>3. Place(t2) \in Nat /\ Begin(tc) <= Place(t2)
  BY <1>0, <1>1, <1>2
<1>4. /\ tc \in List(chunk, start_chunk) /\ Begin(tc) = Beg(chunk, Base, tc)
      /\ Place(t2) = Diff(t2, Base) /\ Total = End(chunk, Base, end_chunk)
      /\ \A x : Begin(x) = Beg(chunk, Base, x) /\ Finish(x) = End(chunk, Base, x)
  BY DEF OnList, Begin, Finish, Place, Total
<1>5. /\ Place(t2) < Total => HoldsAt(c, Place(t2)) /\ c # NoChunk
      /\ ~(Place(t2) < Total) => c = NoChunk
  <2>1. LET f == svm_fifo_find_next_chunk(chunk, tc, t2)
        IN  /\ Beg(chunk, Base, tc) <= Diff(t2, Base) /\ Diff(t2, Base) < End(chunk, Base, end_chunk) =>
                 f \in List(chunk, tc) /\ Holds(chunk, Base, start_chunk, f, Diff(t2, Base)) /\ f # NoChunk
            /\ ~(Beg(chunk, Base, tc) <= Diff(t2, Base) /\ Diff(t2, Base) < End(chunk, Base, end_chunk))
                 => f = NoChunk
    BY <1>0, <1>1, <1>4, FindNext
  <2> QED
    BY <1>0, <1>1, <1>2, <1>3, <1>4, <2>1
<1>6. Before(chunk, tc, t2) = {d \in List(chunk, tc) : Finish(d) <= Place(t2)}
  <2>1. Beg(chunk, Base, tc) <= Diff(t2, Base) /\ Diff(t2, Base) <= End(chunk, Base, end_chunk)
    BY <1>0, <1>3, <1>4
  <2>2. Before(chunk, tc, t2) = {d \in List(chunk, tc) : End(chunk, Base, d) <= Diff(t2, Base)}
    BY <1>0, <1>1, <1>4, <2>1, BeforeOK
  <2> QED
    BY <1>0, <1>4, <2>2
<1>7. enq_tree \subseteq OnList /\ \A x \in enq_tree : Place(Tl) < Finish(x) /\ Begin(tc) <= Begin(x)
  <2>1. enq_tree \subseteq OnList /\ \A x \in enq_tree : Place(Tl) < Finish(x)
    BY DEF EnqOK, EnqTree
  <2>2. ASSUME NEW x \in enq_tree
        PROVE  Begin(tc) <= Begin(x)
    <3>1. x = tc \/ Finish(x) <= Begin(tc) \/ Finish(tc) <= Begin(x)
      BY <1>0, <1>1, <2>1
    <3> QED
      BY <1>0, <1>1, <1>2, <2>1, <3>1
  <2> QED
    BY <1>0, <2>1, <2>2
<1>8. \A x : x \in left <=> x \in enq_tree /\ Place(t2) < Finish(x)
  <2>1. ASSUME NEW x \in enq_tree
        PROVE  x \in Before(chunk, tc, t2) <=> ~(Place(t2) < Finish(x))
    BY <1>0, <1>1, <1>3, <1>6, <1>7
  <2> QED
    BY <1>0, <1>2, <2>1
\* A chunk of the list that ends past the new tail: c itself or one past it.
<1> HIDE DEF left
<1>9. ASSUME NEW x \in OnList, Place(t2) < Finish(x), c # NoChunk
      PROVE  c \in OnList /\ Begin(c) <= Begin(x) /\ Begin(c) <= Place(t2) /\ Place(t2) < Finish(c)
             /\ Begin(tc) <= Begin(c) /\ (Begin(x) <= Place(t2) => x = c)
  <2>1. Place(t2) < Total
    BY <1>0, <1>5, <1>9
  <2>2. c \in OnList /\ Begin(c) <= Place(t2) /\ Place(t2) < Finish(c)
    BY <1>0, <1>5, <2>1 DEF HoldsAt
  <2>3. (x = c \/ Finish(x) <= Begin(c) \/ Finish(c) <= Begin(x))
        /\ (tc = c \/ Finish(tc) <= Begin(c) \/ Finish(c) <= Begin(tc))
    BY <1>0, <1>1, <2>2
  <2> QED
    BY <1>0, <1>1, <1>2, <1>3, <1>9, <2>2, <2>3
<1>10. ASSUME NEW x \in left
       PROVE  \E y \in Nat : Covered(ooo_segments, Tl, y) /\ Begin(x) <= Place(Tl) + y + 1
  BY <1>0, <1>8 DEF EnqOK, EnqReach
<1>11. ASSUME r = <<>>
       PROVE  tree = {}
  <2>1. SUFFICES ASSUME NEW x \in left, x # c
                 PROVE  FALSE
    BY <1>0, <1>11
  <2>2. PICK y \in Nat : Covered(ooo_segments, Tl, y) /\ Begin(x) <= Place(Tl) + y + 1
    BY <1>0, <1>10
  <2>3. \A z \in Nat : ~Covered(r, t2, z)
    BY <1>0, <1>11 DEF Covered
  <2>4. y < m
    <3>1. SUFFICES ASSUME m <= y PROVE FALSE
      BY <1>0, <2>2
    <3>2. PICK z \in Nat : y = z + m
      BY <1>0, <3>1
    <3> QED
      BY <1>0, <2>2, <2>3, <3>2 DEF SameSegs
  <2>5. x \in OnList /\ Place(t2) < Finish(x) /\ Begin(x) <= Place(t2)
    BY <1>0, <1>1, <1>7, <1>8, <2>2, <2>4
  <2>6. Place(t2) < Total
    BY <1>0, <1>1, <1>3, <2>5, OnListType
  <2> QED
    BY <1>0, <1>5, <1>9, <2>1, <2>5, <2>6
<1>12. CASE r = <<>>
  <2>1. \A x : x \notin tree
    BY <1>0, <1>11, <1>12
  <2>2. tree \subseteq OnList /\ ~(tree # {})
    BY <1>0, <1>11, <1>12, <2>1
  <2> QED
    BY <1>0, <1>5, <2>1, <2>2
<1>13. CASE r # <<>>
  <2>1. tree = left /\ c # NoChunk /\ Place(t2) < Total
    BY <1>0, <1>5, <1>13
  <2>2. tree \subseteq OnList /\ \A x \in tree : x \in enq_tree /\ Place(t2) < Finish(x)
    BY <1>0, <1>7, <1>8, <2>1
  <2>3. ASSUME NEW x \in tree
        PROVE  c \in tree
    <3>1. c \in OnList /\ Begin(c) <= Begin(x) /\ Place(t2) < Finish(c) /\ Begin(tc) <= Begin(c)
      BY <1>0, <1>9, <2>1, <2>2
    <3>2. c \in enq_tree
      BY <1>0, <1>2, <2>2, <3>1 DEF EnqOK, EnqWhole
    <3> QED
      BY <1>0, <1>8, <2>1, <3>1, <3>2
  <2>4. ASSUME NEW x \in tree, NEW d \in OnList, Begin(c) <= Begin(d), Begin(d) <= Begin(x)
        PROVE  d \in tree
    <3>1. c \in OnList /\ Begin(c) <= Begin(x) /\ Place(t2) < Finish(c) /\ Begin(tc) <= Begin(c)
      BY <1>0, <1>9, <2>1, <2>2
    <3>2. d = c \/ Finish(d) <= Begin(c) \/ Finish(c) <= Begin(d)
      BY <1>0, <1>1, <3>1
    <3>3. Place(t2) < Finish(d) /\ Begin(tc) <= Begin(d)
      BY <1>0, <1>1, <1>3, <2>4, <3>1, <3>2
    <3>4. d \in enq_tree
      BY <1>0, <1>2, <2>2, <2>4, <3>3 DEF EnqOK, EnqWhole
    <3> QED
      BY <1>0, <1>8, <2>1, <3>3, <3>4
  <2>5. ASSUME NEW x \in tree
        PROVE  \E y \in Nat : Covered(r, t2, y) /\ Begin(x) <= Place(t2) + y + 1
    <3>1. PICK y \in Nat : Covered(ooo_segments, Tl, y) /\ Begin(x) <= Place(Tl) + y + 1
      BY <1>0, <1>10, <2>1
    <3>2. Begin(x) \in Nat
      BY <1>0, <1>1, <2>2
    <3>3. CASE m <= y
      <4>1. PICK z \in Nat : y = z + m
        BY <1>0, <3>3
      <4>2. Covered(r, t2, z)
        BY <1>0, <3>1, <4>1 DEF SameSegs
      <4>3. Begin(x) <= Place(t2) + z + 1
        BY <1>0, <3>1, <3>2, <4>1
      <4> QED
        BY <1>0, <4>2, <4>3
    <3>4. CASE ~(m <= y)
      <4>1. 1 \in 1 .. Len(r)
        BY <1>0, <1>13 DEF SegsOK
      <4>2. PICK z \in Nat : z = From(r, t2, 1) /\ z < To(r, t2, 1)
        BY <1>0, <4>1, SegEnd
      <4>3. Covered(r, t2, z)
        BY <1>0, <4>1, <4>2 DEF Covered
      <4>4. Begin(x) <= Place(t2) + z + 1
        BY <1>0, <3>1, <3>2, <3>4, <4>2
      <4> QED
        BY <1>0, <4>3, <4>4
    <3> QED
      BY <1>0, <3>3, <3>4
  <2> QED
    BY <1>0, <1>5, <1>13, <2>2, <2>3, <2>4, <2>5
<1> QED
  BY <1>0, <1>12, <1>13

\* A step of the producer that moves no chunk, by what it sets.
LEMMA TailSet ==
  ASSUME PlaceOK, OnList' = OnList,
         \A x \in OnList : Begin(x)' = Begin(x) /\ Finish(x)' = Finish(x),
         Total' = Total, NEW t2 \in Pos, Tl' = t2, Place(Tl)' = Place(t2), Place(t2) <= Total,
         NEW c, tail_chunk' = c, NEW tree, enq_tree' = tree, NEW r, ooo_segments' = r,
         NEW last, ooo_enq' = last, prod'.at \notin {"alloc", "copy"},
         Place(t2) < Total => HoldsAt(c, Place(t2)) /\ c # NoChunk,
         ~(Place(t2) < Total) => c = NoChunk,
         tree \subseteq OnList, tree # {} => c \in tree /\ r # <<>>,
         \A x \in tree : Place(t2) < Finish(x),
         \A x \in tree, d \in OnList : Begin(c) <= Begin(d) /\ Begin(d) <= Begin(x) => d \in tree,
         \A x \in tree : \E y \in Nat : Covered(r, t2, y) /\ Begin(x) <= Place(t2) + y + 1,
         last # NoChunk => last \in OnList /\ Place(t2) < Finish(last) /\ r # <<>>
  PROVE  TailOK' /\ EnqOK'
<1>1. Total \in Nat /\ Place(t2) \in Nat /\ NoChunk \notin OnList
  <2>1. Total \in Nat /\ Base \in Pos /\ NoChunk \notin OnList
    BY OnListType
  <2> QED
    BY <2>1, Counted DEF Place
<1>2. Begin(tail_chunk)' = Begin(c)' /\ Finish(tail_chunk)' = Finish(c)'
      /\ Finish(ooo_enq)' = Finish(last)'
  BY DEF Begin, Finish, Beg, End
<1>3. TailOK'
  <2>1. CASE Place(t2) < Total
    <3>1. c \in OnList /\ Begin(c) <= Place(t2) /\ Place(t2) < Finish(c) /\ c # NoChunk
      BY <2>1 DEF HoldsAt
    <3>2. HoldsAt(tail_chunk, Place(Tl))'
      BY <1>2, <3>1 DEF HoldsAt
    <3> QED
      BY <3>1, <3>2 DEF TailOK
  <2>2. CASE ~(Place(t2) < Total)
    <3>1. Place(Tl)' = Total' /\ tail_chunk' = NoChunk
      BY <1>1, <2>2
    <3> QED
      BY <3>1 DEF TailOK
  <2> QED
    BY <2>1, <2>2
<1>4. EnqTree'
  BY DEF EnqTree
<1>5. EnqWhole'
  <2>1. ASSUME NEW x \in tree, NEW d \in OnList, Begin(tail_chunk)' <= Begin(d)', Begin(d)' <= Begin(x)'
        PROVE  d \in tree
    <3>1. c \in OnList /\ x \in OnList
      BY <2>1
    <3>2. Begin(c) <= Begin(d) /\ Begin(d) <= Begin(x)
      BY <1>2, <2>1, <3>1
    <3> QED
      BY <3>2
  <2> QED
    BY <2>1 DEF EnqWhole
<1>6. EnqReach'
  <2>1. ASSUME NEW x \in tree
        PROVE  \E y \in Nat : Covered(r, t2, y) /\ Begin(x)' <= Place(Tl)' + y + 1
    <3>1. Begin(x)' = Begin(x)
      OBVIOUS
    <3> QED
      BY <3>1
  <2>2. \A y : Covered(ooo_segments, Tl, y)' <=> Covered(r, t2, y)
    BY DEF Covered, From, To
  <2> QED
    BY <2>1, <2>2 DEF EnqReach
<1>7. EnqLast'
  BY <1>2 DEF EnqLast
<1> QED
  BY <1>3, <1>4, <1>5, <1>6, <1>7 DEF EnqOK

\* What a copy into the chunks leaves as it is.
LEMMA CopyStill ==
  ASSUME AmountInv, AmountInv', NEW c, NEW pos, NEW len, chunk' = CopyTo(chunk, c, pos, len),
         UNCHANGED << start_chunk, end_chunk >>
  PROVE  /\ PlaceOK /\ PlaceOK' /\ Carried(0) /\ OnList' = OnList /\ Base' = Base /\ Total' = Total
         /\ \A x \in OnList : Begin(x)' = Begin(x) /\ Finish(x)' = Finish(x)
         /\ \A p : Place(p)' = Place(p)
<1>1. PlaceOK /\ ListInv'
  BY DEF AmountInv, PlaceOK
<1>2. /\ PlaceOK' /\ Base' = Base /\ Total' = Total /\ \A p : Place(p)' = Place(p)
      /\ \A d \in Ptr : chunk'[d].start = chunk[d].start /\ chunk'[d].next = chunk[d].next
  BY <1>1, Rewritten
<1>3. /\ Carried(0) /\ OnList' = OnList
      /\ \A x \in OnList : Begin(x)' = Begin(x) /\ Finish(x)' = Finish(x)
  BY <1>1, <1>2, CarryStill
<1> QED
  BY <1>1, <1>2, <1>3

\* tail_chunk is there while a call copies.
LEMMA CopyChunk ==
  ASSUME AmountInv, TailOK, prod.at = "copy"
  PROVE  /\ HoldsAt(tail_chunk, Place(Tl)) /\ tail_chunk # NoChunk
         /\ Holds(chunk, Base, start_chunk, tail_chunk, Diff(tail, Base))
         /\ Place(tail) \in Nat /\ Total \in Nat /\ Place(Tl) = Place(tail)
         /\ Place(tail) + prod.off + prod.len <= Total
<1>1. /\ Tl = tail /\ Room \in Nat /\ prod.len \in Nat \ {0} /\ prod.off \in Nat
      /\ prod.off + prod.len <= Room
  BY CopyRoom
<1>2. Place(tail) \in Nat /\ Total \in Nat /\ Room <= Total - Place(Tl)
  BY Amounts DEF AmountInv
<1>3. Place(Tl) < Total /\ Place(tail) + prod.off + prod.len <= Total
  BY <1>1, <1>2
<1>4. HoldsAt(tail_chunk, Place(Tl)) /\ tail_chunk # NoChunk
  BY <1>1, <1>2, <1>3 DEF TailOK
<1>5. Holds(chunk, Base, start_chunk, tail_chunk, Place(Tl))
  BY <1>4, OnListType DEF AmountInv
<1> QED
  BY <1>1, <1>2, <1>3, <1>4, <1>5 DEF Place

\* In-order enqueue.
LEMMA CopyInOrderPointers ==
  ASSUME AmountInv, AmountInv', PointerInv, CopyInOrder
  PROVE  PointerInv'
<1>0. /\ UNCHANGED << start_chunk, end_chunk, head, tail, cons, kind, head_chunk, ooo_deq, deq_tree >>
      /\ prod.at = "copy" /\ chunk' = CopyTo(chunk, tail_chunk, tail, prod.len)
      /\ prod.op \in {"enqueue", "segments", "partial"}
  BY DEF CopyInOrder, consVars
<1>1. TailOK /\ EnqOK /\ HeadOK /\ DeqOK
  BY DEF PointerInv
<1>2. /\ PlaceOK /\ PlaceOK' /\ Carried(0) /\ OnList' = OnList /\ Base' = Base /\ Total' = Total
      /\ \A x \in OnList : Begin(x)' = Begin(x) /\ Finish(x)' = Finish(x)
      /\ \A p : Place(p)' = Place(p)
  <2>1. PICK c, pos, len : chunk' = CopyTo(chunk, c, pos, len)
    BY <1>0
  <2> QED
    BY <1>0, <2>1, CopyStill
<1>3. HeadOK' /\ DeqOK'
  BY <1>0, <1>1, <1>2, HeadKept
<1>4. PICK n \in Nat \ {0}, lim \in Nat, t \in Pos :
        /\ n = prod.len /\ lim = Room /\ t = tail /\ n <= lim /\ 2 * lim < W
        /\ SegsOK(ooo_segments, t, lim) /\ Tl = t
  <2>1. /\ tail \in Pos /\ Room \in Nat /\ 2 * Room < W /\ Tl = tail
        /\ prod.len \in Nat \ {0} /\ prod.off \in Nat /\ prod.off + prod.len <= Room
        /\ SegsOK(ooo_segments, tail, Room)
    BY <1>0, CopyRoom
  <2>2. prod.len <= Room
    BY <2>1
  <2> QED
    BY <2>1, <2>2
<1>5. PICK segs, x : segs = ooo_segments /\ x = ooo_segment_try_collect(segs, n, Add(t, n))
  OBVIOUS
<1>6. PICK m \in n .. lim :
        /\ x.tail \in Pos /\ x.tail = Add(t, m)
        /\ SegsOK(x.segs, x.tail, lim - m)
        /\ \A y \in Nat : Covered(x.segs, x.tail, y) <=> Covered(segs, t, y + m)
        /\ \A y \in n .. m - 1 : Covered(segs, t, y)
  BY <1>4, <1>5, CollectOK
<1>7. PICK t2 \in Pos : t2 = x.tail
  BY <1>6
<1>8. prod' = [at |-> "publish", tail |-> t2] /\ prod'.at \notin {"alloc", "copy"}
  BY <1>4, <1>5, <1>7 DEF CopyInOrder
<1>9. /\ Tl' = t2 /\ Place(Tl)' = Place(t2) /\ Place(t2) = Place(tail) + m /\ Room' = Room - m
  <2>1. m \in Nat /\ m <= Room /\ t2 = Add(tail, m)
    BY <1>4, <1>6, <1>7
  <2> QED
    BY <1>0, <1>2, <1>8, <2>1, TailMoves
<1>10. /\ HoldsAt(tail_chunk, Place(Tl)) /\ tail_chunk # NoChunk
       /\ Holds(chunk, Base, start_chunk, tail_chunk, Diff(tail, Base))
       /\ Place(tail) \in Nat /\ Total \in Nat /\ Place(Tl) = Place(tail)
  BY <1>0, <1>1, CopyChunk
<1>11. m \in Nat /\ Place(t2) \in Nat /\ Place(t2) <= Total /\ lim - m \in Nat /\ 2 * (lim - m) < W
       /\ lim <= Total - Place(tail)
  <2>1. lim <= Total - Place(tail)
    BY <1>4, <1>10, Amounts DEF AmountInv
  <2>2. W \in Nat
    BY Numbers
  <2> QED
    BY <1>4, <1>6, <1>9, <1>10, <2>1, <2>2
<1>12. CASE ooo_segments = <<>>
  <2>1. m = n
    <3>1. \A y \in n .. m - 1 : FALSE
      BY <1>5, <1>6, <1>12 DEF Covered
    <3>2. m > n => n \in n .. m - 1
      BY <1>6
    <3> QED
      BY <1>6, <3>1, <3>2
  <2>2. PICK c : c = tail_chunk' /\ c = Stop(chunk, tail_chunk, tail, n)
    BY <1>4, <1>12 DEF CopyInOrder
  <2>3. LET r == Stop(chunk, tail_chunk, tail, n)
        IN  /\ Diff(tail, Base) + n < End(chunk, Base, end_chunk) =>
                 Holds(chunk, Base, start_chunk, r, Diff(tail, Base) + n) /\ r # NoChunk
            /\ ~(Diff(tail, Base) + n < End(chunk, Base, end_chunk)) => r = NoChunk
    <3>1. Placed(chunk, Base, start_chunk, end_chunk) /\ tail \in Pos
      BY <1>2, <1>4, OnListType
    <3>2. PICK tc : tc = tail_chunk
      OBVIOUS
    <3>3. Diff(tail, Base) + n <= End(chunk, Base, end_chunk)
      BY <1>9, <1>11, <2>1 DEF Place, Total
    <3>4. Holds(chunk, Base, start_chunk, tc, Diff(tail, Base)) /\ n \in Nat
      BY <1>10, <3>2
    <3>5. LET r == Stop(chunk, tc, tail, n)
          IN  /\ Diff(tail, Base) + n < End(chunk, Base, end_chunk) =>
                   Holds(chunk, Base, start_chunk, r, Diff(tail, Base) + n) /\ r # NoChunk
              /\ ~(Diff(tail, Base) + n < End(chunk, Base, end_chunk)) => r = NoChunk
      BY <3>1, <3>3, <3>4, StopOK
    <3> QED
      BY <3>2, <3>5
  <2>4. /\ Place(t2) < Total => HoldsAt(c, Place(t2)) /\ c # NoChunk
        /\ ~(Place(t2) < Total) => c = NoChunk
    <3>1. Place(t2) = Diff(tail, Base) + n /\ Total = End(chunk, Base, end_chunk)
      BY <1>9, <2>1 DEF Place, Total
    <3>2. \A y : HoldsAt(c, y) <=> Holds(chunk, Base, start_chunk, c, y)
      BY <1>2, OnListType
    <3> QED
      BY <2>2, <2>3, <3>1, <3>2
  <2>5. enq_tree' = {} /\ ooo_enq' = NoChunk /\ ooo_segments' = <<>>
    <3>1. enq_tree = {} /\ ooo_enq = NoChunk
      BY <1>1, <1>12 DEF EnqOK, EnqTree, EnqLast
    <3> QED
      BY <1>12, <3>1 DEF CopyInOrder
  <2>6. TailOK' /\ EnqOK'
    <3>1. PICK tree, r, last : tree = {} /\ r = <<>> /\ last = NoChunk
                               /\ enq_tree' = tree /\ ooo_segments' = r /\ ooo_enq' = last
      BY <2>5
    <3>2. /\ tree \subseteq OnList /\ (tree # {} => c \in tree /\ r # <<>>)
          /\ \A z \in tree : Place(t2) < Finish(z)
          /\ \A z \in tree, d \in OnList : Begin(c) <= Begin(d) /\ Begin(d) <= Begin(z) => d \in tree
          /\ \A z \in tree : \E y \in Nat : Covered(r, t2, y) /\ Begin(z) <= Place(t2) + y + 1
          /\ last # NoChunk => last \in OnList /\ Place(t2) < Finish(last) /\ r # <<>>
      BY <3>1
    <3> QED
      BY <1>2, <1>8, <1>9, <1>11, <2>2, <2>4, <3>1, <3>2, TailSet
  <2> QED
    BY <1>3, <2>6 DEF PointerInv
<1>13. CASE ooo_segments # <<>>
  <2>1. prod.old = tail_chunk
    BY <1>0, <1>1, <1>13 DEF TailOK
  <2>2. PICK c, left, r, tree :
          /\ c = svm_fifo_find_next_chunk(chunk, tail_chunk, t2)
          /\ left = enq_tree \ Before(chunk, tail_chunk, t2) /\ r = x.segs
          /\ tree = IF r = <<>> THEN left \ {c} ELSE left
    OBVIOUS
  <2>3. /\ ooo_segments' = r /\ tail_chunk' = c /\ enq_tree' = tree /\ ooo_enq' = NoChunk
    <3>1. prod.op = "enqueue" \/ prod.op # "enqueue"
      OBVIOUS
    <3> QED
      BY <1>4, <1>5, <1>7, <1>13, <2>1, <2>2 DEF CopyInOrder
  <2>4. SameSegs(r, t2, ooo_segments, Tl, m) /\ SegsOK(r, t2, lim - m)
    BY <1>4, <1>5, <1>6, <1>7, <2>2 DEF SameSegs
  <2>5. r # <<>> => Place(t2) < Total
    BY <1>2, <1>9, <2>3, SegsRoomNext
  <2>6. Place(t2) = Place(Tl) + m /\ Place(Tl) \in Nat
    BY <1>9, <1>10
  <2>7. /\ Place(t2) < Total => HoldsAt(c, Place(t2)) /\ c # NoChunk
        /\ ~(Place(t2) < Total) => c = NoChunk
        /\ tree \subseteq OnList /\ (tree # {} => c \in tree /\ r # <<>>)
        /\ \A z \in tree : Place(t2) < Finish(z)
        /\ \A z \in tree, d \in OnList : Begin(c) <= Begin(d) /\ Begin(d) <= Begin(z) => d \in tree
        /\ \A z \in tree : \E y \in Nat : Covered(r, t2, y) /\ Begin(z) <= Place(t2) + y + 1
    <3>1. MovesTo(t2, m, r, lim - m, c, tree)
      BY <1>11, <2>2, <2>4, <2>5, <2>6 DEF MovesTo
    <3> QED
      BY <1>1, <1>2, <1>10, <2>6, <3>1, TreeMoves
  <2>8. TailOK' /\ EnqOK'
    <3>1. PICK last : last = NoChunk /\ ooo_enq' = last
      BY <2>3
    <3> QED
      BY <1>2, <1>8, <1>9, <1>11, <2>3, <2>7, <3>1, TailSet
  <2> QED
    BY <1>3, <2>8 DEF PointerInv
<1> QED
  BY <1>12, <1>13

\* The producer's tree does not reach back before tail_chunk.
LEMMA TreeFrom ==
  ASSUME PlaceOK, EnqOK, HoldsAt(tail_chunk, Place(Tl)), Place(Tl) \in Nat
  PROVE  \A x \in enq_tree : Begin(tail_chunk) <= Begin(x)
<1> SUFFICES ASSUME NEW x \in enq_tree
             PROVE  Begin(tail_chunk) <= Begin(x)
  OBVIOUS
<1>1. x \in OnList /\ Place(Tl) < Finish(x)
  BY DEF EnqOK, EnqTree
<1>2. tail_chunk \in OnList /\ Begin(tail_chunk) <= Place(Tl) /\ Place(Tl) < Finish(tail_chunk)
  BY DEF HoldsAt
<1>3. /\ x = tail_chunk \/ Finish(x) <= Begin(tail_chunk) \/ Finish(tail_chunk) <= Begin(x)
      /\ Begin(x) \in Nat /\ Finish(x) \in Nat /\ Begin(tail_chunk) \in Nat
      /\ Finish(tail_chunk) \in Nat /\ Begin(tail_chunk) < Finish(tail_chunk)
  BY <1>1, <1>2, OnListType
<1> QED
  BY <1>1, <1>2, <1>3

\* f_update_ooo_enq finds the chunk of an out-of-order write.
LEMMA OffsetChunk ==
  ASSUME AmountInv, PointerInv, prod.at = "copy", NEW pos, pos = Add(tail, prod.off), NEW l,
         l = IF ooo_enq = NoChunk \/ ~f_chunk_includes_pos(chunk, ooo_enq, pos)
             THEN UpdateLookup(enq_tree, tail_chunk, ooo_enq, pos, Add(pos, prod.len))
             ELSE [tree |-> enq_tree, c |-> ooo_enq]
  PROVE  /\ pos \in Pos /\ Place(pos) = Place(tail) + prod.off
         /\ Place(pos) + prod.len <= Total
         /\ HoldsAt(l.c, Place(pos)) /\ Holds(chunk, Base, start_chunk, l.c, Diff(pos, Base))
         /\ l.tree \subseteq OnList
         /\ l.tree # {} => tail_chunk \in l.tree
         /\ \A x \in l.tree : Begin(tail_chunk) <= Begin(x)
         /\ \A x \in l.tree, d \in OnList :
               Begin(tail_chunk) <= Begin(d) /\ Begin(d) <= Begin(x) => d \in l.tree
         /\ \A x \in l.tree : x \in enq_tree \/ Begin(x) <= Place(pos) + prod.len
<1>0. TailOK /\ EnqOK /\ PlaceOK
  BY DEF PointerInv, AmountInv
<1>1. /\ Tl = tail /\ tail \in Pos /\ prod.len \in Nat \ {0} /\ prod.off \in Nat
      /\ HoldsAt(tail_chunk, Place(Tl)) /\ tail_chunk # NoChunk
      /\ Place(tail) \in Nat /\ Total \in Nat /\ Place(Tl) = Place(tail)
      /\ Place(tail) + prod.off + prod.len <= Total
  BY <1>0, CopyRoom, CopyChunk
<1>2. /\ Base \in Pos /\ 2 * Total < W /\ W \in Nat /\ Placed(chunk, Base, start_chunk, end_chunk)
      /\ \A x, y : HoldsAt(x, y) <=> Holds(chunk, Base, start_chunk, x, y)
      /\ \A x : Begin(x) = Beg(chunk, Base, x) /\ Finish(x) = End(chunk, Base, x)
      /\ OnList = List(chunk, start_chunk) /\ Total = End(chunk, Base, end_chunk)
      /\ \A p : Place(p) = Diff(p, Base)
  <2>1. W \in Nat
    BY Numbers
  <2> QED
    BY <1>0, <2>1, OnListType DEF Begin, Finish, OnList, Total, Place
<1>3. PICK off \in Nat, len \in Nat : off = prod.off /\ len = prod.len /\ len > 0
  BY <1>1
<1>4. pos \in Pos /\ Place(pos) = Place(tail) + off
  <2>1. Diff(tail, Base) + off < W
    BY <1>1, <1>2, <1>3
  <2> QED
    BY <1>1, <1>2, <1>3, <2>1, Counted
<1>5. PICK q \in Pos : q = Add(pos, prod.len) /\ Place(q) = Place(pos) + len
  <2>1. Diff(pos, Base) + len < W
    BY <1>1, <1>2, <1>3, <1>4
  <2> QED
    BY <1>2, <1>3, <1>4, <2>1, Counted
<1>6. Place(q) <= Total /\ Place(pos) \in Nat /\ Place(pos) < Place(q) /\ 2 * Place(pos) < W
  BY <1>1, <1>2, <1>3, <1>4, <1>5
<1>7. /\ enq_tree \subseteq OnList /\ (enq_tree # {} => tail_chunk \in enq_tree)
      /\ \A x \in enq_tree : Begin(tail_chunk) <= Begin(x)
      /\ \A x \in enq_tree, d \in OnList :
            Begin(tail_chunk) <= Begin(d) /\ Begin(d) <= Begin(x) => d \in enq_tree
  BY <1>0, <1>1, TreeFrom DEF EnqOK, EnqTree, EnqWhole
<1>8. CASE ooo_enq = NoChunk \/ ~f_chunk_includes_pos(chunk, ooo_enq, pos)
  <2>1. l = UpdateLookup(enq_tree, tail_chunk, ooo_enq, pos, q)
    BY <1>5, <1>8
  <2>r. PICK root \in List(chunk, start_chunk) : root = tail_chunk
    BY <1>1, <1>2 DEF HoldsAt
  <2>2. PICK tree, old : tree = enq_tree /\ root = tail_chunk /\ old = ooo_enq
    BY <2>r
  <2>3. Beg(chunk, Base, root) <= Diff(pos, Base)
    <3>1. Begin(tail_chunk) \in Nat /\ Begin(tail_chunk) <= Place(Tl)
      BY <1>0, <1>1, OnListType DEF HoldsAt
    <3> QED
      BY <1>1, <1>2, <1>3, <1>4, <2>2, <3>1
  <2>4. /\ Holds(chunk, Base, start_chunk, l.c, Diff(pos, Base))
        /\ l.tree \subseteq List(chunk, start_chunk) /\ root \in l.tree
        /\ \A c \in l.tree : Beg(chunk, Base, root) <= Beg(chunk, Base, c)
        /\ \A c \in l.tree, d \in List(chunk, start_chunk) :
              Beg(chunk, Base, root) <= Beg(chunk, Base, d) /\ Beg(chunk, Base, d) <= Beg(chunk, Base, c)
                 => d \in l.tree
        /\ \A c \in l.tree : c \in tree \/ Beg(chunk, Base, c) <= Diff(q, Base)
    <3>1. /\ tree \subseteq List(chunk, start_chunk) /\ (tree # {} => root \in tree)
          /\ \A c \in tree : Beg(chunk, Base, root) <= Beg(chunk, Base, c)
          /\ \A c \in tree, d \in List(chunk, start_chunk) :
                Beg(chunk, Base, root) <= Beg(chunk, Base, d) /\ Beg(chunk, Base, d) <= Beg(chunk, Base, c)
                   => d \in tree
      BY <1>2, <1>7, <2>2
    <3>2. /\ Diff(pos, Base) < Diff(q, Base) /\ Diff(q, Base) <= End(chunk, Base, end_chunk)
          /\ l = UpdateLookup(tree, root, old, pos, q)
      BY <1>2, <1>6, <2>1, <2>2
    <3> QED
      BY <1>2, <1>4, <2>3, <3>1, <3>2, LookupOK
  <2> QED
    BY <1>1, <1>2, <1>3, <1>4, <1>5, <1>6, <2>2, <2>4
<1>9. CASE ~(ooo_enq = NoChunk \/ ~f_chunk_includes_pos(chunk, ooo_enq, pos))
  <2>1. l.tree = enq_tree /\ l.c = ooo_enq
    BY <1>9
  <2>2. ooo_enq \in List(chunk, start_chunk) /\ f_chunk_includes_pos(chunk, ooo_enq, pos)
    BY <1>0, <1>2, <1>9 DEF EnqOK, EnqLast
  <2>3. Holds(chunk, Base, start_chunk, ooo_enq, Diff(pos, Base))
    <3>1. PICK c \in List(chunk, start_chunk) : c = ooo_enq /\ f_chunk_includes_pos(chunk, c, pos)
      BY <2>2
    <3>2. 2 * Diff(pos, Base) < W
      BY <1>2, <1>6
    <3>3. Holds(chunk, Base, start_chunk, c, Diff(pos, Base))
      BY <1>2, <1>4, <3>1, <3>2, Includes
    <3> QED
      BY <3>1, <3>3
  <2> QED
    BY <1>1, <1>2, <1>3, <1>4, <1>5, <1>6, <1>7, <2>1, <2>3
<1> QED
  BY <1>8, <1>9

\* Out-of-order enqueue.
LEMMA CopyAtOffsetPointers ==
  ASSUME AmountInv, AmountInv', PointerInv, CopyAtOffset
  PROVE  PointerInv'
<1>0. /\ UNCHANGED << start_chunk, end_chunk, head, tail, cons, kind, head_chunk, ooo_deq, deq_tree,
                      tail_chunk >>
      /\ prod.at = "copy" /\ prod.op = "offset" /\ prod' = Idle
  BY DEF CopyAtOffset, consVars
<1>1. TailOK /\ EnqOK /\ HeadOK /\ DeqOK
  BY DEF PointerInv
<1>2. PICK pos, l, add :
        /\ pos = Add(tail, prod.off) /\ add = ooo_segment_add(ooo_segments, pos, prod.len)
        /\ l = IF ooo_enq = NoChunk \/ ~f_chunk_includes_pos(chunk, ooo_enq, pos)
               THEN UpdateLookup(enq_tree, tail_chunk, ooo_enq, pos, Add(pos, prod.len))
               ELSE [tree |-> enq_tree, c |-> ooo_enq]
  OBVIOUS
<1>3. /\ ooo_segments' = add.segs /\ enq_tree' = l.tree
      /\ chunk' = CopyTo(chunk, l.c, pos, prod.len) /\ ooo_enq' = Stop(chunk, l.c, pos, prod.len)
  BY <1>2 DEF CopyAtOffset
<1>4. /\ PlaceOK /\ PlaceOK' /\ Carried(0) /\ OnList' = OnList /\ Base' = Base /\ Total' = Total
      /\ \A x \in OnList : Begin(x)' = Begin(x) /\ Finish(x)' = Finish(x)
      /\ \A p : Place(p)' = Place(p)
  <2>1. PICK c, len : chunk' = CopyTo(chunk, c, pos, len)
    BY <1>3
  <2> QED
    BY <1>0, <2>1, CopyStill
<1>5. HeadOK' /\ DeqOK'
  BY <1>0, <1>1, <1>4, HeadKept
<1>6. /\ pos \in Pos /\ Place(pos) = Place(tail) + prod.off
      /\ Place(pos) + prod.len <= Total
      /\ HoldsAt(l.c, Place(pos)) /\ Holds(chunk, Base, start_chunk, l.c, Diff(pos, Base))
      /\ l.tree \subseteq OnList
      /\ l.tree # {} => tail_chunk \in l.tree
      /\ \A x \in l.tree : Begin(tail_chunk) <= Begin(x)
      /\ \A x \in l.tree, d \in OnList :
            Begin(tail_chunk) <= Begin(d) /\ Begin(d) <= Begin(x) => d \in l.tree
      /\ \A x \in l.tree : x \in enq_tree \/ Begin(x) <= Place(pos) + prod.len
  BY <1>0, <1>2, OffsetChunk
<1>7. /\ Tl = tail /\ tail \in Pos /\ prod.len \in Nat \ {0} /\ prod.off \in Nat \ {0}
      /\ HoldsAt(tail_chunk, Place(Tl)) /\ tail_chunk # NoChunk
      /\ Place(tail) \in Nat /\ Total \in Nat /\ Place(Tl) = Place(tail)
      /\ Place(tail) + prod.off + prod.len <= Total
      /\ Room \in Nat /\ 2 * Room < W /\ prod.off + prod.len <= Room
      /\ SegsOK(ooo_segments, tail, Room)
  <2>1. prod.off > 0
    BY <1>0 DEF AmountInv, ProdOK
  <2> QED
    BY <1>0, <1>1, <2>1, CopyRoom, CopyChunk
<1>8. PICK off \in Nat \ {0}, len \in Nat \ {0} : off = prod.off /\ len = prod.len
  BY <1>7
<1>9. PICK r : /\ r = ooo_segments' /\ r # <<>>
               /\ \A y \in Nat : Covered(r, tail, y) <=>
                     Covered(ooo_segments, tail, y) \/ (off <= y /\ y < off + len)
  <2>1. Diff(pos, tail) = off
    <3>1. W \in Nat /\ 2 * Room < W /\ off < W
      BY <1>7, <1>8, Numbers
    <3>2. off \in Nat /\ Diff(tail, tail) = 0
      BY <1>7, Counted
    <3>3. Diff(tail, tail) + off < W
      BY <3>1, <3>2
    <3>4. Diff(Add(tail, off), tail) = Diff(tail, tail) + off
      BY <1>7, <3>2, <3>3, Counted
    <3> QED
      BY <1>2, <1>8, <3>2, <3>4
  <2>2. PICK lim \in Nat, t \in Pos, segs \in {ooo_segments} :
          lim = Room /\ t = tail /\ segs = ooo_segments
    BY <1>7
  <2>3. LET x == ooo_segment_add(segs, pos, len)
        IN  \A y \in Nat : Covered(x.segs, t, y) <=>
                  \/ Covered(segs, t, y)
                  \/ Diff(pos, t) <= y /\ y < Diff(pos, t) + len
    <3>1. /\ 2 * lim < W /\ SegsOK(segs, t, lim) /\ Diff(pos, t) > 0 /\ Diff(pos, t) + len <= lim
      BY <1>7, <1>8, <2>1, <2>2
    <3> QED
      BY <1>6, <1>8, <3>1, AddOK
  <2>4. PICK r : r = ooo_segments'
    OBVIOUS
  <2>5. \A y \in Nat : Covered(r, tail, y) <=>
                     Covered(ooo_segments, tail, y) \/ (off <= y /\ y < off + len)
    BY <1>2, <1>3, <1>8, <2>1, <2>2, <2>3, <2>4
  <2>6. r # <<>>
    <3>1. Covered(r, tail, off)
      <4>1. off \in Nat /\ off <= off /\ off < off + len
        OBVIOUS
      <4> QED
        BY <2>5, <4>1
    <3> QED
      BY <3>1 DEF Covered
  <2> QED
    BY <2>4, <2>5, <2>6
<1>10. PICK last : /\ last = ooo_enq'
                   /\ last # NoChunk => last \in OnList /\ Place(tail) < Finish(last) /\ r # <<>>
  <2>1. PICK last, c : last = ooo_enq' /\ c = l.c /\ last = Stop(chunk, c, pos, len)
    BY <1>3, <1>8
  <2>2. /\ Placed(chunk, Base, start_chunk, end_chunk) /\ len \in Nat
        /\ Diff(pos, Base) + len <= End(chunk, Base, end_chunk)
        /\ Holds(chunk, Base, start_chunk, c, Diff(pos, Base))
    BY <1>4, <1>6, <1>8, <2>1, OnListType DEF Place, Total
  <2>3. LET z == Stop(chunk, c, pos, len)
        IN  /\ Diff(pos, Base) + len < End(chunk, Base, end_chunk) =>
                 Holds(chunk, Base, start_chunk, z, Diff(pos, Base) + len) /\ z # NoChunk
            /\ ~(Diff(pos, Base) + len < End(chunk, Base, end_chunk)) => z = NoChunk
    BY <1>6, <2>2, StopOK
  <2>4. last # NoChunk => HoldsAt(last, Place(pos) + len)
    BY <1>4, <2>1, <2>3, OnListType DEF Place
  <2>5. ASSUME last # NoChunk
        PROVE  last \in OnList /\ Place(tail) < Finish(last)
    <3>1. last \in OnList /\ Place(pos) + len < Finish(last) /\ Finish(last) \in Nat
      BY <1>4, <2>4, <2>5, OnListType DEF HoldsAt
    <3> QED
      BY <1>6, <1>7, <1>8, <3>1
  <2> QED
    BY <1>9, <2>1, <2>5
<1>11. PICK tree : tree = enq_tree' /\ tree = l.tree
  BY <1>3
<1>12. \A x \in tree : Place(tail) < Finish(x)
  <2> TAKE x \in tree
  <2>1. x \in OnList /\ Begin(tail_chunk) <= Begin(x)
    BY <1>6, <1>11
  <2>2. tail_chunk \in OnList /\ Begin(tail_chunk) <= Place(tail) /\ Place(tail) < Finish(tail_chunk)
    BY <1>7 DEF HoldsAt
  <2>3. /\ x = tail_chunk \/ Finish(x) <= Begin(tail_chunk) \/ Finish(tail_chunk) <= Begin(x)
        /\ Begin(x) \in Nat /\ Finish(x) \in Nat /\ Begin(x) < Finish(x)
        /\ Begin(tail_chunk) \in Nat /\ Finish(tail_chunk) \in Nat
    BY <1>4, <2>1, <2>2, OnListType
  <2> QED
    BY <1>7, <2>1, <2>2, <2>3
<1>13. ASSUME NEW x \in tree
       PROVE  \E y \in Nat : Covered(r, tail, y) /\ Begin(x) <= Place(tail) + y + 1
  <2>1. CASE x \in enq_tree
    <3>1. PICK y \in Nat : Covered(ooo_segments, tail, y) /\ Begin(x) <= Place(tail) + y + 1
      BY <1>1, <1>7, <2>1 DEF EnqOK, EnqReach
    <3> QED
      BY <1>9, <3>1
  <2>2. CASE x \notin enq_tree
    <3>1. Begin(x) <= Place(pos) + len
      BY <1>6, <1>8, <1>11, <2>2
    <3>2. PICK y \in Nat : y = off + len - 1 /\ off <= y /\ y < off + len
      BY <1>8
    <3>3. Begin(x) <= Place(tail) + y + 1
      <4>1. Place(pos) + len = Place(tail) + y + 1
        BY <1>6, <1>7, <1>8, <3>2
      <4> QED
        BY <3>1, <4>1
    <3> QED
      BY <1>9, <3>2, <3>3
  <2> QED
    BY <2>1, <2>2
<1>14. PICK c : c = tail_chunk' /\ c = tail_chunk /\ HoldsAt(c, Place(tail)) /\ c # NoChunk
  BY <1>0, <1>7
<1>15. TailOK' /\ EnqOK'
  <2>1. Tl' = tail /\ Place(Tl)' = Place(tail) /\ prod'.at \notin {"alloc", "copy"}
    <3>1. Tl' = tail /\ prod'.at \notin {"alloc", "copy"}
      BY <1>0 DEF Tl, Idle
    <3>2. PICK p : p = tail
      OBVIOUS
    <3>3. Place(Tl)' = Place(p)'
      BY <3>1, <3>2 DEF Place
    <3> QED
      BY <1>4, <3>1, <3>2, <3>3
  <2>2. PICK t2 \in Pos : t2 = tail
    BY <1>7
  <2>3. Place(t2) < Total /\ Place(t2) <= Total
    BY <1>7, <1>8, <2>2
  <2>4. /\ tree \subseteq OnList /\ (tree # {} => c \in tree /\ r # <<>>)
        /\ \A x \in tree, d \in OnList : Begin(c) <= Begin(d) /\ Begin(d) <= Begin(x) => d \in tree
    BY <1>6, <1>9, <1>11, <1>14
  <2> QED
    BY <1>4, <1>9, <1>10, <1>11, <1>12, <1>13, <1>14, <2>1, <2>2, <2>3, <2>4, TailSet
<1> QED
  BY <1>5, <1>15 DEF PointerInv

\* svm_fifo_enqueue_nocopy: a fifo without out-of-order data.
LEMMA CopyInPlacePointers ==
  ASSUME AmountInv, AmountInv', PointerInv, CopyInPlace
  PROVE  PointerInv'
<1>0. /\ UNCHANGED << start_chunk, end_chunk, head, tail, cons, kind, head_chunk, ooo_deq, deq_tree,
                      ooo_segments, ooo_enq, enq_tree >>
      /\ prod.at = "copy" /\ prod.op = "nocopy" /\ chunk' = CopyTo(chunk, tail_chunk, tail, prod.len)
      /\ tail_chunk' = svm_fifo_find_next_chunk(chunk, tail_chunk, Add(tail, prod.len))
      /\ prod' = [at |-> "publish", tail |-> Add(tail, prod.len)]
  BY DEF CopyInPlace, consVars
<1>1. TailOK /\ EnqOK /\ HeadOK /\ DeqOK
  BY DEF PointerInv
<1>2. /\ PlaceOK /\ PlaceOK' /\ Carried(0) /\ OnList' = OnList /\ Base' = Base /\ Total' = Total
      /\ \A x \in OnList : Begin(x)' = Begin(x) /\ Finish(x)' = Finish(x)
      /\ \A p : Place(p)' = Place(p)
  <2>1. PICK c, pos, len : chunk' = CopyTo(chunk, c, pos, len)
    BY <1>0
  <2> QED
    BY <1>0, <2>1, CopyStill
<1>3. HeadOK' /\ DeqOK'
  BY <1>0, <1>1, <1>2, HeadKept
<1>4. ooo_segments = <<>> /\ enq_tree = {} /\ ooo_enq = NoChunk
  <2>1. ooo_segments = <<>>
    BY <1>0 DEF AmountInv, ProdOK, OooOK
  <2> QED
    BY <1>1, <2>1 DEF EnqOK, EnqTree, EnqLast
<1>5. /\ Tl = tail /\ tail \in Pos /\ Room \in Nat /\ 2 * Room < W
      /\ prod.len \in Nat \ {0} /\ prod.off \in Nat /\ prod.off + prod.len <= Room
      /\ HoldsAt(tail_chunk, Place(Tl)) /\ Place(tail) \in Nat /\ Total \in Nat
      /\ Place(tail) + prod.off + prod.len <= Total
  BY <1>0, <1>1, CopyRoom, CopyChunk
<1>6. PICK m \in Nat, t2 \in {Add(tail, prod.len)} : m = prod.len /\ m <= Room /\ t2 = Add(tail, m)
  BY <1>5
<1>7. /\ Tl' = t2 /\ t2 \in Pos /\ Place(Tl)' = Place(t2) /\ Place(t2) = Place(tail) + m
  BY <1>0, <1>2, <1>6, TailMoves
<1>8. PICK c, r, tree, last :
        /\ c = tail_chunk' /\ r = ooo_segments' /\ tree = enq_tree' /\ last = ooo_enq'
        /\ r = <<>> /\ tree = {} /\ last = NoChunk
  BY <1>0, <1>4
<1>9. MovesTo(t2, m, r, Room - m, c, tree)
  <2>1. Place(t2) <= Total /\ Room - m \in Nat /\ 2 * (Room - m) < W /\ Place(t2) = Place(Tl) + m
    <3>1. W \in Nat
      BY Numbers
    <3> QED
      BY <1>5, <1>6, <1>7, <3>1
  <2>2. SegsOK(r, t2, Room - m) /\ SameSegs(r, t2, ooo_segments, Tl, m)
    BY <1>4, <1>8 DEF SegsOK, SameSegs, Covered
  <2>3. tree = (enq_tree \ Before(chunk, tail_chunk, t2)) \ {c}
    BY <1>4, <1>8
  <2> QED
    BY <1>0, <1>6, <1>7, <1>8, <2>1, <2>2, <2>3 DEF MovesTo
<1>10. /\ Place(t2) < Total => HoldsAt(c, Place(t2)) /\ c # NoChunk
       /\ ~(Place(t2) < Total) => c = NoChunk
       /\ tree \subseteq OnList /\ (tree # {} => c \in tree /\ r # <<>>)
       /\ \A z \in tree : Place(t2) < Finish(z)
       /\ \A z \in tree, d \in OnList : Begin(c) <= Begin(d) /\ Begin(d) <= Begin(z) => d \in tree
       /\ \A z \in tree : \E y \in Nat : Covered(r, t2, y) /\ Begin(z) <= Place(t2) + y + 1
  BY <1>1, <1>2, <1>5, <1>9, TreeMoves
<1>11. TailOK' /\ EnqOK'
  <2>1. prod'.at \notin {"alloc", "copy"} /\ Place(t2) <= Total
    BY <1>0, <1>5, <1>6, <1>7
  <2> QED
    BY <1>2, <1>7, <1>8, <1>10, <2>1, TailSet
<1> QED
  BY <1>3, <1>11 DEF PointerInv

\* A consumer's step that moves no chunk leaves the producer what it has.
LEMMA ConsStillTail ==
  ASSUME AmountInv, AmountInv', PointerInv,
         UNCHANGED << chunk, start_chunk, end_chunk, tail, prod, tail_chunk, ooo_segments, ooo_enq,
                      enq_tree >>
  PROVE  /\ TailOK' /\ EnqOK' /\ PlaceOK /\ OnList' = OnList
         /\ \A x \in OnList : Begin(x)' = Begin(x) /\ Finish(x)' = Finish(x)
         /\ \A p : Place(p)' = Place(p)
<1>1. PlaceOK /\ PlaceOK' /\ ListInv'
  BY DEF AmountInv, PlaceOK
<1>2. /\ Carried(0) /\ OnList' = OnList /\ (\A p : Place(p)' = Place(p)) /\ Total' = Total
      /\ \A x \in OnList : Begin(x)' = Begin(x) /\ Finish(x)' = Finish(x)
  BY <1>1, CarryStill, SameChunks
<1>3. Tl' = Tl /\ Place(Tl) \in Nat /\ Total \in Nat
  BY Amounts DEF AmountInv, Tl
<1>4. Place(Tl)' = Place(Tl) - 0 /\ 0 <= Place(Tl) /\ Total' = Total - 0
  <2>1. PICK p : p = Tl
    OBVIOUS
  <2>2. Place(Tl)' = Place(p)'
    BY <1>3, <2>1 DEF Place
  <2> QED
    BY <1>2, <1>3, <2>1, <2>2
<1>5. TailOK' /\ EnqOK'
  <2>1. prod'.at \in {"alloc", "copy"} /\ ooo_segments # <<>> => prod'.old = tail_chunk'
    BY DEF PointerInv, TailOK
  <2> QED
    BY <1>1, <1>2, <1>3, <1>4, <2>1, TailKept DEF PointerInv
<1> QED
  BY <1>1, <1>2, <1>5

\* The same, by what the step sets.
LEMMA HeadSet ==
  ASSUME PlaceOK, OnList' = OnList, UNCHANGED << start_chunk, kind >>,
         \A x \in OnList : Begin(x)' = Begin(x) /\ Finish(x)' = Finish(x),
         \A p : Place(p)' = Place(p),
         NEW hx, Hx' = hx, NEW hc, head_chunk' = hc, hc # NoChunk => HoldsAt(hc, Place(hx)),
         NEW od, ooo_deq' = od, od # NoChunk => od \in OnList,
         NEW tree, deq_tree' = tree, kind # "tx" => tree = {},
         cons'.at \in {"copy", "unlink"} /\ cons'.op = "dequeue" => kind # "tx",
         ~Gone' => /\ tree \subseteq OnList /\ (tree # {} => start_chunk \in tree)
                   /\ \A c \in tree, d \in OnList : Begin(d) <= Begin(c) => d \in tree
  PROVE  HeadOK' /\ DeqOK'
<1>1. Place(Hx)' = Place(hx) /\ Begin(head_chunk)' = Begin(hc)' /\ Finish(head_chunk)' = Finish(hc)'
  <2>1. Place(Hx)' = Place(hx)'
    BY DEF Place
  <2> QED
    BY <2>1 DEF Begin, Finish, Beg, End
<1>2. HeadOK'
  <2>1. ASSUME hc # NoChunk
        PROVE  HoldsAt(head_chunk, Place(Hx))'
    <3>1. hc \in OnList /\ Begin(hc) <= Place(hx) /\ Place(hx) < Finish(hc)
      BY <2>1 DEF HoldsAt
    <3> QED
      BY <1>1, <3>1 DEF HoldsAt
  <2> QED
    BY <2>1 DEF HeadOK
<1>3. DeqOK'
  <2>1. ASSUME ~Gone', NEW c \in tree, NEW d \in OnList, Begin(d)' <= Begin(c)'
        PROVE  d \in tree
    <3>1. c \in OnList
      BY <2>1
    <3> QED
      BY <2>1, <3>1
  <2> QED
    BY <2>1 DEF DeqOK
<1> QED
  BY <1>2, <1>3

\* A dequeue, drop or peek begins.
LEMMA ConsStartPointers ==
  ASSUME AmountInv, AmountInv', PointerInv, DequeueStart \/ PeekStart \/ DropAllStart
  PROVE  PointerInv'
<1>0. /\ UNCHANGED << chunk, start_chunk, end_chunk, tail, prod, tail_chunk, ooo_segments, ooo_enq,
                      enq_tree, head, head_chunk, ooo_deq, deq_tree, kind >>
      /\ cons.at = "idle"
  BY DEF DequeueStart, PeekStart, DropAllStart, Stay, shared, prodVars, consVars
<1>1. /\ cons'.at \in {"copy", "unlink"}
      /\ cons'.at = "unlink" => cons'.op # "dequeue"
      /\ cons'.op = "dequeue" => kind # "tx"
  <2>1. CASE DequeueStart
    <3>1. PICK op, n, o :
            /\ op \in {"dequeue", "drop"} /\ (op = "dequeue" => kind # "tx")
            /\ cons' = [at |-> IF op = "dequeue" THEN "copy" ELSE "unlink", op |-> op,
                        len |-> n, off |-> o]
      BY <2>1 DEF DequeueStart
    <3> QED
      BY <3>1
  <2>2. CASE PeekStart
    <3>1. \E n, o : cons' = [at |-> "copy", op |-> "peek", len |-> n, off |-> o]
      BY <2>2 DEF PeekStart
    <3> QED
      BY <3>1
  <2>3. CASE DropAllStart
    BY <2>3 DEF DropAllStart
  <2> QED
    BY <2>1, <2>2, <2>3
<1>2. /\ TailOK' /\ EnqOK' /\ PlaceOK /\ OnList' = OnList
      /\ \A x \in OnList : Begin(x)' = Begin(x) /\ Finish(x)' = Finish(x)
      /\ \A p : Place(p)' = Place(p)
  BY <1>0, ConsStillTail
<1>3. Hx = head /\ Hx' = head /\ ~Gone
  BY <1>0, <1>1 DEF Hx, Hd, Gone
<1>4. PICK hx, hc, od, tree : hx = head /\ hc = head_chunk /\ od = ooo_deq /\ tree = deq_tree
  OBVIOUS
<1>5. HeadOK' /\ DeqOK'
  <2>1. /\ hc # NoChunk => HoldsAt(hc, Place(hx))
        /\ od # NoChunk => od \in OnList
        /\ kind # "tx" => tree = {}
        /\ tree \subseteq OnList /\ (tree # {} => start_chunk \in tree)
        /\ \A c \in tree, d \in OnList : Begin(d) <= Begin(c) => d \in tree
    BY <1>3, <1>4 DEF PointerInv, HeadOK, DeqOK
  <2>2. Hx' = hx /\ head_chunk' = hc /\ ooo_deq' = od /\ deq_tree' = tree
    BY <1>0, <1>3, <1>4
  <2> QED
    BY <1>0, <1>1, <1>2, <2>1, <2>2, HeadSet
<1> QED
  BY <1>2, <1>5 DEF PointerInv

\* The consumer publishes its head.
LEMMA PublishHeadPointers ==
  ASSUME AmountInv, AmountInv', PointerInv, PublishHead
  PROVE  PointerInv'
<1>0. /\ UNCHANGED << chunk, start_chunk, end_chunk, tail, prod, tail_chunk, ooo_segments, ooo_enq,
                      enq_tree, head_chunk, ooo_deq, deq_tree, kind >>
      /\ cons.at = "publish" /\ head' = Add(head, cons.len)
      /\ cons' = IF cons.op = "drop_all" /\ kind = "tx" THEN [at |-> "closed"] ELSE Idle
  BY DEF PublishHead, shared, prodVars, consVars
<1>1. /\ cons'.at \in {"idle", "closed"}
      /\ cons'.at = "closed" <=> cons.op = "drop_all" /\ kind = "tx"
  BY <1>0 DEF Idle
<1>2. /\ TailOK' /\ EnqOK' /\ PlaceOK /\ OnList' = OnList
      /\ \A x \in OnList : Begin(x)' = Begin(x) /\ Finish(x)' = Finish(x)
      /\ \A p : Place(p)' = Place(p)
  BY <1>0, ConsStillTail
<1>3. Hx' = Hx
  BY <1>0, <1>1 DEF Hx, Hd
<1>4. PICK hx, hc, od, tree : hx = Hx /\ hc = head_chunk /\ od = ooo_deq /\ tree = deq_tree
  OBVIOUS
<1>5. HeadOK' /\ DeqOK'
  <2>1. /\ hc # NoChunk => HoldsAt(hc, Place(hx))
        /\ od # NoChunk => od \in OnList
        /\ kind # "tx" => tree = {}
    BY <1>4 DEF PointerInv, HeadOK, DeqOK
  <2>2. Hx' = hx /\ head_chunk' = hc /\ ooo_deq' = od /\ deq_tree' = tree
    BY <1>0, <1>3, <1>4
  <2>3. ~Gone' => /\ tree \subseteq OnList /\ (tree # {} => start_chunk \in tree)
                  /\ \A c \in tree, d \in OnList : Begin(d) <= Begin(c) => d \in tree
    <3>1. CASE Gone'
      BY <3>1
    <3>2. CASE ~Gone'
      <4>1. ~Gone \/ tree = {}
        BY <1>0, <1>1, <2>1, <3>2 DEF Gone
      <4> QED
        BY <1>4, <4>1 DEF PointerInv, DeqOK
    <3> QED
      BY <3>1, <3>2
  <2>4. cons'.at \in {"copy", "unlink"} /\ cons'.op = "dequeue" => kind # "tx"
    BY <1>1
  <2> QED
    BY <1>0, <1>2, <2>1, <2>2, <2>3, <2>4, HeadSet
<1> QED
  BY <1>2, <1>5 DEF PointerInv

\* The positions a call of the consumer is about.
LEMMA ConsPlaces ==
  ASSUME AmountInv, cons.at \in {"copy", "unlink"}, NEW p, p = Add(head, cons.off),
         NEW q, q = Add(p, cons.len)
  PROVE  /\ Hd = head /\ head \in Pos /\ p \in Pos /\ q \in Pos
         /\ cons.off \in Nat /\ cons.len \in Nat /\ Place(head) \in Nat /\ Total \in Nat
         /\ Place(tail) \in Nat /\ Place(Tl) \in Nat
         /\ Place(p) = Place(head) + cons.off /\ Place(q) = Place(head) + cons.off + cons.len
         /\ Place(q) <= Place(tail) /\ Place(tail) <= Place(Tl) /\ Place(q) <= Total
         /\ 2 * Total < W /\ W \in Nat
         /\ Placed(chunk, Base, start_chunk, end_chunk) /\ PlaceOK /\ Base \in Pos
         /\ Begin(start_chunk) = 0 /\ start_chunk \in OnList
<1>1. /\ cons.len \in Nat /\ cons.off \in Nat /\ cons.off + cons.len <= Place(tail) - Place(Hd)
      /\ Hd = head /\ PlaceOK
  BY DEF AmountInv, ConsOK, Hd
<1>2. /\ Base \in Pos /\ Place(Hd) \in Nat /\ Place(tail) \in Nat /\ Place(Tl) \in Nat /\ Total \in Nat
      /\ 2 * Total < W
  BY Amounts DEF AmountInv
<1>3. head \in Pos /\ Place(tail) <= Place(Tl) /\ Place(Tl) <= Total
  BY DEF AmountInv, IndexOK
<1>4. W \in Nat /\ Placed(chunk, Base, start_chunk, end_chunk) /\ Begin(start_chunk) = 0
      /\ start_chunk \in OnList
  BY <1>1, Numbers, OnListType
<1>5. p \in Pos /\ Place(p) = Place(head) + cons.off
  <2>1. Diff(head, Base) + cons.off < W
    BY <1>1, <1>2, <1>3, <1>4 DEF Place
  <2> QED
    BY <1>1, <1>2, <1>3, <2>1, Counted DEF Place
<1>6. q \in Pos /\ Place(q) = Place(p) + cons.len
  <2>1. Diff(p, Base) + cons.len < W
    BY <1>1, <1>2, <1>3, <1>4, <1>5 DEF Place
  <2> QED
    BY <1>1, <1>2, <1>5, <2>1, Counted DEF Place
<1> QED
  BY <1>1, <1>2, <1>3, <1>4, <1>5, <1>6

\* svm_fifo_find_chunk, from the start of the list.
LEMMA FindChunk ==
  ASSUME PlaceOK, NEW p \in Pos, Place(p) <= Total
  PROVE  /\ Place(p) < Total => /\ HoldsAt(svm_fifo_find_chunk(p), Place(p))
                                /\ svm_fifo_find_chunk(p) # NoChunk
         /\ ~(Place(p) < Total) => svm_fifo_find_chunk(p) = NoChunk
<1>1. /\ Placed(chunk, Base, start_chunk, end_chunk) /\ start_chunk \in List(chunk, start_chunk)
      /\ Beg(chunk, Base, start_chunk) = 0 /\ Base \in Pos
      /\ \A c, x : HoldsAt(c, x) <=> Holds(chunk, Base, start_chunk, c, x)
  BY OnListType DEF OnList, Begin
<1>2. Diff(p, Base) \in Nat /\ Diff(p, Base) <= End(chunk, Base, end_chunk)
  BY <1>1, Counted DEF Place, Total
<1>3. PICK s : s = start_chunk
  OBVIOUS
<1>4. LET r == svm_fifo_find_next_chunk(chunk, s, p)
      IN  /\ Beg(chunk, Base, s) <= Diff(p, Base) /\ Diff(p, Base) < End(chunk, Base, end_chunk) =>
               r \in List(chunk, s) /\ Holds(chunk, Base, s, r, Diff(p, Base)) /\ r # NoChunk
          /\ ~(Beg(chunk, Base, s) <= Diff(p, Base) /\ Diff(p, Base) < End(chunk, Base, end_chunk))
               => r = NoChunk
  <2>1. Placed(chunk, Base, s, end_chunk) /\ s \in List(chunk, s)
    BY <1>1, <1>3
  <2> QED
    BY <1>2, <2>1, FindNext
<1>5. Beg(chunk, Base, s) <= Diff(p, Base)
  BY <1>1, <1>2, <1>3
<1> QED
  BY <1>1, <1>3, <1>4, <1>5 DEF svm_fifo_find_chunk, Place, Total

\* Where svm_fifo_dequeue reads from.
LEMMA DequeueChunk ==
  ASSUME AmountInv, PointerInv, cons.at = "copy", cons.op = "dequeue"
  PROVE  HoldsAt(HeadChunk, Place(head)) /\ Place(head) + cons.len <= Total /\ cons.off = 0
<1>1. cons.off = 0 /\ cons.len > 0
  BY DEF AmountInv, ConsOK
<1>2. PICK p, q : p = Add(head, cons.off) /\ q = Add(p, cons.len)
  OBVIOUS
<1>3. /\ Hd = head /\ head \in Pos /\ cons.len \in Nat /\ Place(head) \in Nat /\ Total \in Nat
      /\ Place(q) = Place(head) + cons.off + cons.len /\ Place(q) <= Total /\ PlaceOK
  BY <1>2, ConsPlaces
<1>4. Place(head) < Total /\ Place(head) + cons.len <= Total
  BY <1>1, <1>3
<1>5. HoldsAt(HeadChunk, Place(head))
  <2>1. CASE head_chunk = NoChunk
    BY <1>3, <1>4, <2>1, FindChunk DEF HeadChunk
  <2>2. CASE head_chunk # NoChunk
    <3>1. Hx = head
      BY <1>3 DEF Hx
    <3> QED
      BY <2>2, <3>1 DEF HeadChunk, PointerInv, HeadOK
  <2> QED
    BY <2>1, <2>2
<1> QED
  BY <1>1, <1>4, <1>5

\* Where svm_fifo_peek reads from, and what it leaves of the tree.
LEMMA PeekChunk ==
  ASSUME AmountInv, PointerInv, cons.at = "copy", cons.op = "peek",
         NEW pos, pos = Add(head, cons.off)
  PROVE  /\ HoldsAt(PeekLookup.c, Place(pos)) /\ Place(pos) + cons.len <= Total
         /\ kind # "tx" => PeekLookup.tree = {}
         /\ PeekLookup.tree \subseteq OnList
         /\ PeekLookup.tree # {} => start_chunk \in PeekLookup.tree
         /\ \A c \in PeekLookup.tree, d \in OnList : Begin(d) <= Begin(c) => d \in PeekLookup.tree
<1>1. cons.len > 0
  BY DEF AmountInv, ConsOK
<1>2. PICK q : q = Add(pos, cons.len)
  OBVIOUS
<1>3. /\ pos \in Pos /\ q \in Pos /\ cons.len \in Nat /\ cons.off \in Nat
      /\ Place(head) \in Nat /\ Total \in Nat
      /\ Place(pos) = Place(head) + cons.off
      /\ Place(q) = Place(head) + cons.off + cons.len /\ Place(q) <= Total /\ PlaceOK
      /\ 2 * Total < W /\ W \in Nat
      /\ Placed(chunk, Base, start_chunk, end_chunk) /\ Begin(start_chunk) = 0
      /\ start_chunk \in OnList
  BY <1>2, ConsPlaces
<1>4. /\ Place(pos) \in Nat /\ Place(pos) < Place(q) /\ Place(pos) < Total
      /\ Place(pos) + cons.len <= Total /\ 2 * Place(pos) < W
  BY <1>1, <1>3
<1>5. /\ \A x, y : HoldsAt(x, y) <=> Holds(chunk, Base, start_chunk, x, y)
      /\ \A x : Begin(x) = Beg(chunk, Base, x) /\ Finish(x) = End(chunk, Base, x)
      /\ OnList = List(chunk, start_chunk) /\ Total = End(chunk, Base, end_chunk)
      /\ \A p : Place(p) = Diff(p, Base)
      /\ \A x \in OnList : Begin(x) \in Nat
  BY <1>3, OnListType DEF Begin, Finish, OnList, Total, Place
<1>6. /\ kind # "tx" => deq_tree = {}
      /\ deq_tree \subseteq OnList /\ (deq_tree # {} => start_chunk \in deq_tree)
      /\ \A c \in deq_tree, d \in OnList : Begin(d) <= Begin(c) => d \in deq_tree
  <2>1. ~Gone
    BY DEF Gone
  <2> QED
    BY <2>1 DEF PointerInv, DeqOK
<1>7. PICK l : l = PeekLookup
  OBVIOUS
<1>8. l = IF ooo_deq # NoChunk /\ f_chunk_includes_pos(chunk, ooo_deq, pos)
          THEN [tree |-> deq_tree, c |-> ooo_deq]
          ELSE IF kind = "tx"
          THEN UpdateLookup(deq_tree, start_chunk, ooo_deq, pos, q)
          ELSE [tree |-> deq_tree, c |-> svm_fifo_find_chunk(pos)]
  BY <1>2, <1>7 DEF PeekLookup
<1>9. CASE ooo_deq # NoChunk /\ f_chunk_includes_pos(chunk, ooo_deq, pos)
  <2>1. l.tree = deq_tree /\ l.c = ooo_deq
    BY <1>8, <1>9
  <2>2. HoldsAt(ooo_deq, Place(pos))
    <3>1. PICK c \in List(chunk, start_chunk) : c = ooo_deq
      BY <1>5, <1>9 DEF PointerInv, HeadOK
    <3>2. 2 * Diff(pos, Base) < W
      BY <1>4, <1>5
    <3>3. Holds(chunk, Base, start_chunk, c, Diff(pos, Base))
      BY <1>3, <1>9, <3>1, <3>2, Includes
    <3> QED
      BY <1>5, <3>1, <3>3
  <2> QED
    BY <1>4, <1>6, <1>7, <2>1, <2>2
<1>10. CASE ~(ooo_deq # NoChunk /\ f_chunk_includes_pos(chunk, ooo_deq, pos)) /\ kind = "tx"
  <2>1. l = UpdateLookup(deq_tree, start_chunk, ooo_deq, pos, q)
    BY <1>8, <1>10
  <2>r. PICK root \in List(chunk, start_chunk) : root = start_chunk
    BY <1>3, <1>5
  <2>2. PICK tree, old : tree = deq_tree /\ old = ooo_deq
    OBVIOUS
  <2>3. /\ Holds(chunk, Base, start_chunk, l.c, Diff(pos, Base))
        /\ l.tree \subseteq List(chunk, start_chunk) /\ root \in l.tree
        /\ \A c \in l.tree, d \in List(chunk, start_chunk) :
              Beg(chunk, Base, root) <= Beg(chunk, Base, d) /\ Beg(chunk, Base, d) <= Beg(chunk, Base, c)
                 => d \in l.tree
    <3>1. /\ tree \subseteq List(chunk, start_chunk) /\ (tree # {} => root \in tree)
          /\ \A c \in tree : Beg(chunk, Base, root) <= Beg(chunk, Base, c)
          /\ \A c \in tree, d \in List(chunk, start_chunk) :
                Beg(chunk, Base, root) <= Beg(chunk, Base, d) /\ Beg(chunk, Base, d) <= Beg(chunk, Base, c)
                   => d \in tree
      <4>1. \A c \in tree : Begin(root) <= Begin(c)
        BY <1>3, <1>5, <1>6, <2>r, <2>2
      <4> QED
        BY <1>5, <1>6, <2>r, <2>2, <4>1
    <3>2. /\ Diff(pos, Base) < Diff(q, Base) /\ Diff(q, Base) <= End(chunk, Base, end_chunk)
          /\ l = UpdateLookup(tree, root, old, pos, q)
          /\ Beg(chunk, Base, root) <= Diff(pos, Base)
      BY <1>3, <1>4, <1>5, <2>1, <2>r, <2>2
    <3> QED
      BY <1>3, <3>1, <3>2, LookupOK
  <2>4. \A c \in l.tree, d \in OnList : Begin(d) <= Begin(c) => d \in l.tree
    <3> TAKE c \in l.tree, d \in OnList
    <3>1. Begin(root) <= Begin(d)
      BY <1>3, <1>5, <2>r
    <3> QED
      BY <1>5, <2>3, <3>1
  <2> QED
    BY <1>4, <1>5, <1>7, <1>10, <2>r, <2>3, <2>4
<1>11. CASE ~(ooo_deq # NoChunk /\ f_chunk_includes_pos(chunk, ooo_deq, pos)) /\ kind # "tx"
  <2>1. l.tree = deq_tree /\ l.c = svm_fifo_find_chunk(pos)
    BY <1>8, <1>11
  <2>2. HoldsAt(svm_fifo_find_chunk(pos), Place(pos))
    BY <1>3, <1>4, FindChunk
  <2> QED
    BY <1>4, <1>6, <1>7, <2>1, <2>2
<1> QED
  BY <1>9, <1>10, <1>11

\* Where a copy that starts on the list stops.
LEMMA StopAt ==
  ASSUME PlaceOK, NEW c, NEW p \in Pos, HoldsAt(c, Place(p)), NEW len \in Nat,
         Place(p) + len <= Total
  PROVE  Stop(chunk, c, p, len) # NoChunk => HoldsAt(Stop(chunk, c, p, len), Place(p) + len)
<1>1. Placed(chunk, Base, start_chunk, end_chunk)
      /\ \A x, y : HoldsAt(x, y) <=> Holds(chunk, Base, start_chunk, x, y)
  BY OnListType
<1>2. /\ Holds(chunk, Base, start_chunk, c, Diff(p, Base))
      /\ Diff(p, Base) + len <= End(chunk, Base, end_chunk)
  BY <1>1 DEF Place, Total
<1>3. LET r == Stop(chunk, c, p, len)
      IN  /\ Diff(p, Base) + len < End(chunk, Base, end_chunk) =>
               Holds(chunk, Base, start_chunk, r, Diff(p, Base) + len) /\ r # NoChunk
          /\ ~(Diff(p, Base) + len < End(chunk, Base, end_chunk)) => r = NoChunk
  BY <1>1, <1>2, StopOK
<1> QED
  BY <1>1, <1>3 DEF Place

\* The copy of a dequeue.
LEMMA CopyOutPointers ==
  ASSUME AmountInv, AmountInv', PointerInv, CopyOut
  PROVE  PointerInv'
<1>0. /\ UNCHANGED << chunk, start_chunk, end_chunk, tail, prod, tail_chunk, ooo_segments, ooo_enq,
                      enq_tree, head, ooo_deq, deq_tree, kind >>
      /\ cons.at = "copy" /\ cons.op = "dequeue" /\ cons' = [cons EXCEPT !.at = "unlink"]
      /\ head_chunk' = Stop(chunk, HeadChunk, head, cons.len)
  BY DEF CopyOut, shared, prodVars
<1>1. cons'.at = "unlink" /\ cons'.op = "dequeue" /\ cons'.len = cons.len
  <2>1. cons = [at |-> cons.at, op |-> cons.op, len |-> cons.len, off |-> cons.off]
    BY <1>0 DEF AmountInv, ConsOK
  <2>2. PICK k : k = cons
    OBVIOUS
  <2>3. PICK k2 : k2 = cons' /\ k2 = [k EXCEPT !.at = "unlink"]
    BY <1>0, <2>2
  <2>4. k = [at |-> k.at, op |-> k.op, len |-> k.len, off |-> k.off]
    BY <2>1, <2>2
  <2>5. k2.at = "unlink" /\ k2.op = k.op /\ k2.len = k.len
    BY <2>3, <2>4
  <2> QED
    BY <1>0, <2>2, <2>3, <2>5
<1>2. /\ TailOK' /\ EnqOK' /\ PlaceOK /\ OnList' = OnList
      /\ \A x \in OnList : Begin(x)' = Begin(x) /\ Finish(x)' = Finish(x)
      /\ \A p : Place(p)' = Place(p)
  BY <1>0, ConsStillTail
<1>3. PICK hx : hx = Add(head, cons.len) /\ Hx' = hx
  BY <1>0, <1>1 DEF Hx
<1>4. /\ HoldsAt(HeadChunk, Place(head)) /\ Place(head) + cons.len <= Total /\ cons.off = 0
  BY <1>0, DequeueChunk
<1>5. head \in Pos /\ cons.len \in Nat /\ Place(hx) = Place(head) + cons.len
  <2>1. PICK p, q : p = Add(head, cons.off) /\ q = Add(p, cons.len)
    OBVIOUS
  <2>2. /\ head \in Pos /\ p \in Pos /\ Place(p) = Place(head) + cons.off /\ Base \in Pos
        /\ cons.len \in Nat /\ Place(head) \in Nat
        /\ Place(q) = Place(head) + cons.off + cons.len
    BY <1>0, <2>1, ConsPlaces
  <2>3. p = head
    <3>1. Diff(p, Base) = Diff(head, Base)
      BY <1>4, <2>2 DEF Place
    <3> QED
      BY <2>2, <3>1, Counted
  <2> QED
    BY <1>3, <1>4, <2>1, <2>2, <2>3
<1>6. PICK hc : hc = head_chunk' /\ (hc # NoChunk => HoldsAt(hc, Place(hx)))
  <2>2. PICK d : d = HeadChunk
    OBVIOUS
  <2>3. Stop(chunk, d, head, cons.len) # NoChunk =>
           HoldsAt(Stop(chunk, d, head, cons.len), Place(head) + cons.len)
    BY <1>2, <1>4, <1>5, <2>2, StopAt
  <2> QED
    BY <1>0, <1>5, <2>2, <2>3
<1>7. PICK od, tree : od = ooo_deq /\ tree = deq_tree
  OBVIOUS
<1>8. HeadOK' /\ DeqOK'
  <2>1. ~Gone
    BY <1>0 DEF Gone
  <2>2. /\ od # NoChunk => od \in OnList
        /\ kind # "tx" => tree = {}
        /\ kind # "tx"
        /\ tree \subseteq OnList /\ (tree # {} => start_chunk \in tree)
        /\ \A c \in tree, d \in OnList : Begin(d) <= Begin(c) => d \in tree
    BY <1>0, <1>7, <2>1 DEF PointerInv, HeadOK, DeqOK
  <2>3. ooo_deq' = od /\ deq_tree' = tree
    BY <1>0, <1>7
  <2> QED
    BY <1>0, <1>2, <1>3, <1>6, <2>2, <2>3, HeadSet
<1> QED
  BY <1>2, <1>8 DEF PointerInv

\* A peek.
LEMMA PeekPointers ==
  ASSUME AmountInv, AmountInv', PointerInv, Peek
  PROVE  PointerInv'
<1>0. /\ UNCHANGED << chunk, start_chunk, end_chunk, tail, prod, tail_chunk, ooo_segments, ooo_enq,
                      enq_tree, head, head_chunk, kind >>
      /\ cons.at = "copy" /\ cons.op = "peek" /\ cons' = Idle
      /\ deq_tree' = PeekLookup.tree
      /\ ooo_deq' = Stop(chunk, PeekLookup.c, Add(head, cons.off), cons.len)
  BY DEF Peek, shared, prodVars
<1>1. /\ TailOK' /\ EnqOK' /\ PlaceOK /\ OnList' = OnList
      /\ \A x \in OnList : Begin(x)' = Begin(x) /\ Finish(x)' = Finish(x)
      /\ \A p : Place(p)' = Place(p)
  BY <1>0, ConsStillTail
<1>2. PICK pos, q : pos = Add(head, cons.off) /\ q = Add(pos, cons.len)
  OBVIOUS
<1>3. pos \in Pos /\ cons.len \in Nat
  BY <1>0, <1>2, ConsPlaces
<1>4. PICK c, tree : c = PeekLookup.c /\ tree = PeekLookup.tree
  OBVIOUS
<1>5. /\ HoldsAt(c, Place(pos)) /\ Place(pos) + cons.len <= Total
      /\ kind # "tx" => tree = {}
      /\ tree \subseteq OnList
      /\ tree # {} => start_chunk \in tree
      /\ \A x \in tree, d \in OnList : Begin(d) <= Begin(x) => d \in tree
  BY <1>0, <1>2, <1>4, PeekChunk
<1>6. PICK od : od = ooo_deq' /\ (od # NoChunk => od \in OnList)
  <2>1. Stop(chunk, c, pos, cons.len) # NoChunk =>
           HoldsAt(Stop(chunk, c, pos, cons.len), Place(pos) + cons.len)
    BY <1>1, <1>3, <1>5, StopAt
  <2> QED
    BY <1>0, <1>2, <1>4, <2>1 DEF HoldsAt
<1>7. PICK hx, hc : hx = head /\ hc = head_chunk
  OBVIOUS
<1>8. Hx = head /\ Hx' = head /\ cons'.at = "idle"
  BY <1>0 DEF Hx, Hd, Idle
<1>9. HeadOK' /\ DeqOK'
  <2>1. hc # NoChunk => HoldsAt(hc, Place(hx))
    BY <1>7, <1>8 DEF PointerInv, HeadOK
  <2>2. head_chunk' = hc /\ deq_tree' = tree /\ Hx' = hx
    BY <1>0, <1>4, <1>7, <1>8
  <2> QED
    BY <1>0, <1>1, <1>5, <1>6, <1>8, <2>1, <2>2, HeadSet
<1> QED
  BY <1>1, <1>9 DEF PointerInv

\* A search from a null pointer finds nothing.
LEMMA FirstFromNone ==
  ASSUME NEW ch, Linked(ch), NEW those
  PROVE  FirstFrom(ch, NoChunk, those) = NoChunk
<1> DEFINE w == Walk(ch, NoChunk, 0)
           S == {n \in DOMAIN w : w[n].c \in those \union {NoChunk}}
<1>1. w[0].c = NoChunk /\ DOMAIN w = 0 .. N
  BY WalkEqn
<1>2. \A i, j \in 0 .. N : i <= j /\ w[i].c = NoChunk => w[j].c = NoChunk
  BY WalkType DEF Ptr
<1>3. FirstFrom(ch, NoChunk, those) =
        IF S = {} THEN NoChunk ELSE w[CHOOSE n \in S : \A m \in S : n <= m].c
  BY DEF FirstFrom
<1> HIDE DEF w
<1>4. N \in Nat /\ 0 \in 0 .. N /\ \A j \in 0 .. N : 0 <= j
  BY NType
<1>5. \A j \in 0 .. N : w[j].c = NoChunk
  BY <1>1, <1>2, <1>4
<1>6. 0 \in S /\ S \subseteq 0 .. N
  BY <1>1, <1>4
<1> HIDE DEF S
<1>7. \E n \in S : \A m \in S : n <= m
  BY <1>4, <1>6
<1>8. (CHOOSE n \in S : \A m \in S : n <= m) \in 0 .. N
  BY <1>6, <1>7
<1> QED
  BY <1>3, <1>5, <1>8

\* The position the head goes to.
LEMMA UnlinkPos ==
  ASSUME AmountInv, cons.at = "unlink", NEW pos, pos = Add(head, cons.len)
  PROVE  /\ Hd = head /\ head \in Pos /\ pos \in Pos /\ Place(head) \in Nat /\ Total \in Nat
         /\ cons.len \in Nat /\ Place(pos) = Place(head) + cons.len /\ Place(pos) <= Total
         /\ Place(pos) <= Place(Tl) /\ Place(Tl) \in Nat
         /\ 2 * Total < W /\ W \in Nat /\ Placed(chunk, Base, start_chunk, end_chunk) /\ PlaceOK
         /\ start_chunk \in OnList /\ Begin(start_chunk) = 0
<1>1. cons.off = 0
  BY DEF AmountInv, ConsOK
<1>2. PICK p, q : p = Add(head, cons.off) /\ q = Add(p, cons.len)
  OBVIOUS
<1>3. /\ Hd = head /\ head \in Pos /\ p \in Pos /\ q \in Pos
      /\ cons.len \in Nat /\ Place(head) \in Nat /\ Total \in Nat
      /\ Place(p) = Place(head) + cons.off /\ Place(q) = Place(head) + cons.off + cons.len
      /\ Place(q) <= Total /\ Place(q) <= Place(tail) /\ Place(tail) <= Place(Tl)
      /\ Place(tail) \in Nat /\ Place(Tl) \in Nat
      /\ 2 * Total < W /\ W \in Nat
      /\ Placed(chunk, Base, start_chunk, end_chunk) /\ PlaceOK /\ Base \in Pos
      /\ start_chunk \in OnList /\ Begin(start_chunk) = 0
  BY <1>2, ConsPlaces
<1>4. p = head
  <2>1. Diff(p, Base) = Diff(head, Base)
    BY <1>1, <1>3 DEF Place
  <2> QED
    BY <1>3, <2>1, Counted
<1> QED
  BY <1>1, <1>2, <1>3, <1>4

\* svm_fifo_dequeue_drop_all moves head_chunk to the chunk of the tail.
LEMMA DropAllChunk ==
  ASSUME AmountInv, PointerInv, cons.at = "unlink", cons.op = "drop_all",
         NEW pos, pos = Add(head, cons.len), NEW hc,
         hc = IF head_chunk = NoChunk \/ ~f_chunk_includes_pos(chunk, head_chunk, head)
              THEN svm_fifo_find_chunk(head) ELSE head_chunk,
         NEW moved, moved = svm_fifo_find_next_chunk(chunk, hc, pos)
  PROVE  moved # NoChunk => HoldsAt(moved, Place(pos))
<1>1. cons.off = 0
  BY DEF AmountInv, ConsOK
<1>2. /\ Hd = head /\ head \in Pos /\ pos \in Pos /\ Place(head) \in Nat /\ Total \in Nat
      /\ cons.len \in Nat /\ Place(pos) = Place(head) + cons.len /\ Place(pos) <= Total
      /\ 2 * Total < W /\ W \in Nat /\ Placed(chunk, Base, start_chunk, end_chunk) /\ PlaceOK
  BY UnlinkPos
<1>3. Hx = head
  BY <1>2 DEF Hx
<1>4. /\ \A x, y : HoldsAt(x, y) <=> Holds(chunk, Base, start_chunk, x, y)
      /\ \A x \in OnList : Finish(x) <= Total /\ Finish(x) \in Nat
      /\ \A p : Place(p) = Diff(p, Base)
      /\ \A x : Begin(x) = Beg(chunk, Base, x)
      /\ OnList = List(chunk, start_chunk) /\ Total = End(chunk, Base, end_chunk)
      /\ \A x \in OnList : Begin(x) \in Nat
  BY <1>2, OnListType DEF Place, OnList, Total, Begin
<1>5. CASE Place(head) < Total
  <2>1. HoldsAt(hc, Place(head))
    <3>1. CASE head_chunk = NoChunk \/ ~f_chunk_includes_pos(chunk, head_chunk, head)
      BY <1>2, <1>5, <3>1, FindChunk
    <3>2. CASE ~(head_chunk = NoChunk \/ ~f_chunk_includes_pos(chunk, head_chunk, head))
      <4>1. hc = head_chunk /\ hc # NoChunk
        BY <3>2
      <4> QED
        BY <1>3, <4>1 DEF PointerInv, HeadOK
    <3> QED
      BY <3>1, <3>2
  <2>2. hc \in List(chunk, start_chunk) /\ Begin(hc) <= Place(head)
    BY <1>4, <2>1 DEF HoldsAt
  <2>3. LET f == svm_fifo_find_next_chunk(chunk, hc, pos)
        IN  /\ Beg(chunk, Base, hc) <= Diff(pos, Base) /\ Diff(pos, Base) < End(chunk, Base, end_chunk) =>
                 f \in List(chunk, hc) /\ Holds(chunk, Base, start_chunk, f, Diff(pos, Base)) /\ f # NoChunk
            /\ ~(Beg(chunk, Base, hc) <= Diff(pos, Base) /\ Diff(pos, Base) < End(chunk, Base, end_chunk))
                 => f = NoChunk
    <3>1. Diff(pos, Base) <= End(chunk, Base, end_chunk)
      BY <1>2, <1>4
    <3> QED
      BY <1>2, <2>2, <3>1, FindNext
  <2> QED
    BY <1>4, <2>3
<1>6. CASE ~(Place(head) < Total)
  <2>1. Place(head) = Total
    BY <1>2, <1>6
  <2>2. head_chunk = NoChunk
    <3>1. SUFFICES ASSUME head_chunk # NoChunk PROVE FALSE
      OBVIOUS
    <3>2. head_chunk \in OnList /\ Place(head) < Finish(head_chunk)
      BY <1>3, <3>1 DEF PointerInv, HeadOK, HoldsAt
    <3> QED
      BY <1>2, <1>4, <2>1, <3>2
  <2>3. hc = NoChunk
    BY <1>2, <1>6, <2>1, <2>2, FindChunk
  <2>4. moved = NoChunk
    BY <1>2, <2>3, FirstFromNone DEF svm_fifo_find_next_chunk, Placed
  <2> QED
    BY <2>4
<1> QED
  BY <1>5, <1>6

\* The end of a dequeue or drop that keeps all chunks.
LEMMA KeepAllPointers ==
  ASSUME AmountInv, AmountInv', PointerInv, UnlinkChunks, NEW pos, pos = Add(head, cons.len),
         f_pos_lt(pos, f_chunk_end(start_chunk))
  PROVE  PointerInv'
<1>0. /\ UNCHANGED << chunk, start_chunk, end_chunk, tail, prod, tail_chunk, ooo_segments, ooo_enq,
                      enq_tree, head, ooo_deq, kind >>
      /\ cons.at = "unlink" /\ cons' = [cons EXCEPT !.at = "publish"]
  BY DEF UnlinkChunks, shared, prodVars
<1>1. /\ cons'.at = "publish" /\ cons'.op = cons.op /\ cons'.len = cons.len /\ cons.off = 0
      /\ cons.op \in {"dequeue", "drop", "drop_all"}
  <2>1. cons = [at |-> cons.at, op |-> cons.op, len |-> cons.len, off |-> cons.off] /\ cons.off = 0
        /\ cons.op \in {"dequeue", "drop", "drop_all"}
    BY <1>0 DEF AmountInv, ConsOK
  <2>2. PICK k : k = cons
    OBVIOUS
  <2>3. PICK k2 : k2 = cons' /\ k2 = [k EXCEPT !.at = "publish"]
    BY <1>0, <2>2
  <2>4. k = [at |-> k.at, op |-> k.op, len |-> k.len, off |-> k.off]
    BY <2>1, <2>2
  <2>5. k2.at = "publish" /\ k2.op = k.op /\ k2.len = k.len
    BY <2>3, <2>4
  <2> QED
    BY <2>1, <2>2, <2>3, <2>5
<1>2. /\ TailOK' /\ EnqOK' /\ PlaceOK /\ OnList' = OnList
      /\ \A x \in OnList : Begin(x)' = Begin(x) /\ Finish(x)' = Finish(x)
      /\ \A p : Place(p)' = Place(p)
  BY <1>0, ConsStillTail
<1>3. Hx' = pos
  BY <1>0, <1>1 DEF Hx, Hd
<1>4. PICK hc, tree, od : hc = head_chunk' /\ tree = deq_tree' /\ od = ooo_deq
  OBVIOUS
<1>5. CASE cons.op = "drop_all"
  <2>1. PICK h : h = IF head_chunk = NoChunk \/ ~f_chunk_includes_pos(chunk, head_chunk, head)
                     THEN svm_fifo_find_chunk(head) ELSE head_chunk
    OBVIOUS
  <2>2. hc = svm_fifo_find_next_chunk(chunk, h, pos) /\ tree = deq_tree \ Before(chunk, h, pos)
    BY <1>4, <1>5, <2>1 DEF UnlinkChunks
  <2>3. hc # NoChunk => HoldsAt(hc, Place(pos))
    BY <1>0, <1>5, <2>1, <2>2, DropAllChunk
  <2>4. /\ od # NoChunk => od \in OnList
        /\ kind # "tx" => tree = {}
    BY <1>4, <2>2 DEF PointerInv, HeadOK, DeqOK
  <2>5. Gone' /\ ~(cons'.at \in {"copy", "unlink"})
    BY <1>1, <1>5 DEF Gone
  <2>6. Hx' = pos /\ head_chunk' = hc /\ ooo_deq' = od /\ deq_tree' = tree
    BY <1>0, <1>3, <1>4
  <2>7. HeadOK' /\ DeqOK'
    BY <1>0, <1>2, <2>3, <2>4, <2>5, <2>6, HeadSet
  <2> QED
    BY <1>2, <2>7 DEF PointerInv
<1>6. CASE cons.op # "drop_all"
  <2>1. hc = head_chunk /\ tree = deq_tree
    BY <1>4, <1>6 DEF UnlinkChunks
  <2>2. hc # NoChunk => HoldsAt(hc, Place(pos))
    <3>1. CASE cons.op = "dequeue"
      <4>1. Hx = pos
        BY <1>0, <3>1 DEF Hx
      <4> QED
        BY <2>1, <4>1 DEF PointerInv, HeadOK
    <3>2. CASE cons.op # "dequeue"
      <4> SUFFICES ASSUME hc # NoChunk PROVE HoldsAt(hc, Place(pos))
        OBVIOUS
      <4>1. Hx = head
        BY <1>0, <3>2 DEF Hx, Hd
      <4>2. hc \in OnList /\ Begin(hc) <= Place(head) /\ Place(head) < Finish(hc)
        BY <2>1, <4>1 DEF PointerInv, HeadOK, HoldsAt
      <4>3. /\ pos \in Pos /\ Place(head) \in Nat /\ Place(pos) = Place(head) + cons.len
            /\ cons.len \in Nat /\ Place(pos) <= Total /\ Total \in Nat /\ 2 * Total < W /\ W \in Nat
            /\ Placed(chunk, Base, start_chunk, end_chunk) /\ start_chunk \in OnList
            /\ Begin(start_chunk) = 0
        BY <1>0, <1>1, UnlinkPos
      <4>4. Place(pos) < Finish(start_chunk)
        <5>1. PICK s : s = start_chunk /\ s \in List(chunk, s)
          BY <4>3 DEF OnList
        <5>2. 2 * Diff(pos, Base) < W
          BY <4>3 DEF Place
        <5>3. f_pos_lt(pos, Add(chunk[s].start, ChunkLen[s])) <=> Diff(pos, Base) < End(chunk, Base, s)
          BY <4>3, <5>1, <5>2, Includes
        <5> QED
          BY <5>1, <5>3 DEF f_chunk_end, Place, Finish
      <4>5. /\ hc = start_chunk \/ Finish(hc) <= Begin(start_chunk) \/ Finish(start_chunk) <= Begin(hc)
            /\ Finish(hc) \in Nat /\ Begin(hc) \in Nat /\ Finish(start_chunk) \in Nat /\ Begin(hc) < Finish(hc)
        BY <1>2, <4>2, <4>3, OnListType
      <4>6. hc = start_chunk
        BY <4>2, <4>3, <4>4, <4>5
      <4> QED
        BY <4>3, <4>4, <4>6 DEF HoldsAt
    <3> QED
      BY <3>1, <3>2
  <2>3. /\ od # NoChunk => od \in OnList
        /\ kind # "tx" => tree = {}
        /\ tree \subseteq OnList /\ (tree # {} => start_chunk \in tree)
        /\ \A c \in tree, d \in OnList : Begin(d) <= Begin(c) => d \in tree
    <3>1. ~Gone
      BY <1>0 DEF Gone
    <3> QED
      BY <1>4, <2>1, <3>1 DEF PointerInv, HeadOK, DeqOK
  <2>5. ~(cons'.at \in {"copy", "unlink"})
    BY <1>1
  <2>6. Hx' = pos /\ head_chunk' = hc /\ ooo_deq' = od /\ deq_tree' = tree
    BY <1>0, <1>3, <1>4
  <2>7. HeadOK' /\ DeqOK'
    BY <1>0, <1>2, <2>2, <2>3, <2>5, <2>6, HeadSet
  <2> QED
    BY <1>2, <2>7 DEF PointerInv
<1> QED
  BY <1>5, <1>6

\* The end of a dequeue or drop that unlinks chunks.
LEMMA UnlinkSomePointers ==
  ASSUME AmountInv, AmountInv', PointerInv, UnlinkChunks, NEW pos, pos = Add(head, cons.len),
         ~f_pos_lt(pos, f_chunk_end(start_chunk))
  PROVE  PointerInv'
<1>0. /\ UNCHANGED << end_chunk, tail, prod, tail_chunk, ooo_segments, ooo_enq, enq_tree, head, kind >>
      /\ cons.at = "unlink" /\ cons' = [cons EXCEPT !.at = "publish"]
  BY DEF UnlinkChunks, prodVars
<1>1. /\ cons'.at = "publish" /\ cons'.op = cons.op /\ cons'.len = cons.len
      /\ cons.op \in {"dequeue", "drop", "drop_all"}
  <2>1. cons = [at |-> cons.at, op |-> cons.op, len |-> cons.len, off |-> cons.off]
        /\ cons.op \in {"dequeue", "drop", "drop_all"}
    BY <1>0 DEF AmountInv, ConsOK
  <2>2. PICK k : k = cons
    OBVIOUS
  <2>3. PICK k2 : k2 = cons' /\ k2 = [k EXCEPT !.at = "publish"]
    BY <1>0, <2>2
  <2>4. k = [at |-> k.at, op |-> k.op, len |-> k.len, off |-> k.off]
    BY <2>1, <2>2
  <2>5. k2.at = "publish" /\ k2.op = k.op /\ k2.len = k.len
    BY <2>3, <2>4
  <2> QED
    BY <2>1, <2>2, <2>3, <2>5
<1>2. /\ Hd = head /\ head \in Pos /\ pos \in Pos /\ Place(head) \in Nat /\ Total \in Nat
      /\ cons.len \in Nat /\ Place(pos) = Place(head) + cons.len /\ Place(pos) <= Total
      /\ Place(pos) <= Place(Tl) /\ Place(Tl) \in Nat
      /\ 2 * Total < W /\ W \in Nat /\ Placed(chunk, Base, start_chunk, end_chunk) /\ PlaceOK
      /\ start_chunk \in OnList /\ Begin(start_chunk) = 0
  BY <1>0, UnlinkPos
<1>3. Place(pos) \in Nat /\ 2 * Place(pos) < W
  BY <1>2
<1>4. End(chunk, Base, start_chunk) <= Place(pos)
  <2>1. PICK s : s = start_chunk /\ s \in List(chunk, s)
    BY <1>2 DEF OnList
  <2>2. 2 * Diff(pos, Base) < W
    BY <1>3 DEF Place
  <2>3. f_pos_lt(pos, Add(chunk[s].start, ChunkLen[s])) <=> Diff(pos, Base) < End(chunk, Base, s)
    BY <1>2, <2>1, <2>2, Includes
  <2>4. End(chunk, Base, start_chunk) \in Nat
    BY <1>2, OnListType DEF Finish
  <2> QED
    BY <1>3, <2>1, <2>3, <2>4 DEF f_chunk_end, Place
<1>5. PICK ooo \in BOOLEAN : ooo <=> cons.op = "drop"
  OBVIOUS
<1>6. PICK u : u = Unlink(pos, cons.op = "drop")
  OBVIOUS
<1>7. u = Unlink(pos, ooo)
  <2>1. ooo = (cons.op = "drop")
    BY <1>5, Zenon
  <2> QED
    BY <1>6, <2>1
<1>8. PICK c : /\ c = u.start /\ c \in OnList /\ u.gone = OnList \ List(chunk, c)
               /\ Begin(c) <= Place(pos) /\ Place(pos) <= Finish(c)
               /\ Place(pos) < Total => HoldsAt(c, Place(pos))
               /\ svm_fifo_find_next_chunk(chunk, chunk[start_chunk].next, pos) =
                     IF Place(pos) < Total THEN c ELSE NoChunk
  <2>1. /\ u.start \in List(chunk, start_chunk)
        /\ u.gone = List(chunk, start_chunk) \ List(chunk, u.start)
        /\ Beg(chunk, Base, u.start) <= Place(pos) /\ Place(pos) <= End(chunk, Base, u.start)
        /\ Place(pos) < Total => Holds(chunk, Base, start_chunk, u.start, Place(pos))
        /\ svm_fifo_find_next_chunk(chunk, chunk[start_chunk].next, pos) =
              IF Place(pos) < Total THEN u.start ELSE NoChunk
    BY <1>2, <1>4, <1>7, UnlinkPlace
  <2> QED
    BY <1>2, <2>1, OnListType DEF OnList, Begin, Finish
<1>9. /\ Collect(OnList \ List(chunk, c)) /\ start_chunk' = c
  BY <1>6, <1>8 DEF UnlinkChunks
<1>10. PlaceOK' /\ ListInv'
  BY DEF AmountInv, PlaceOK
<1>11. /\ Carried(Begin(c)) /\ Begin(c) \in Nat /\ Total' = Total - Begin(c)
       /\ OnList' = List(chunk, c)
       /\ \A d \in OnList' : /\ d \in OnList /\ Begin(d)' = Begin(d) - Begin(c)
                             /\ Finish(d)' = Finish(d) - Begin(c)
       /\ \A p \in Pos : Begin(c) <= Place(p) => Place(p)' = Place(p) - Begin(c)
       /\ \A d \in OnList : d \in OnList' <=> Begin(c) < Finish(d)
  BY <1>0, <1>2, <1>8, <1>9, <1>10, CarryUnlink
<1>12. /\ \A d \in OnList : Begin(d) \in Nat /\ Finish(d) \in Nat /\ Begin(d) < Finish(d)
       /\ \A x, d \in OnList : d \in List(chunk, x) <=> Begin(x) <= Begin(d)
       /\ \A x, y : HoldsAt(x, y) <=> Holds(chunk, Base, start_chunk, x, y)
       /\ NoChunk \notin OnList
  BY <1>2, OnListType
<1>13. TailOK' /\ EnqOK'
  <2>1. Tl' = Tl /\ Tl \in Pos
    BY <1>0 DEF Tl, AmountInv, IndexOK
  <2>2. PICK D \in Nat : D = Begin(c)
    BY <1>11
  <2>3. PICK t \in Pos : t = Tl
    BY <2>1
  <2>4. D <= Place(t)
    BY <1>2, <1>8, <2>2, <2>3
  <2>5. Place(Tl)' = Place(Tl) - D
    <3>1. Place(t)' = Place(t) - D
      BY <1>11, <2>2, <2>4
    <3>2. Place(Tl)' = Place(t)'
      BY <2>1, <2>3 DEF Place
    <3> QED
      BY <2>3, <3>1, <3>2
  <2>6. prod'.at \in {"alloc", "copy"} /\ ooo_segments # <<>> => prod'.old = tail_chunk'
    BY <1>0 DEF PointerInv, TailOK
  <2>7. Carried(D) /\ D <= Place(Tl) /\ Total' = Total - D
    BY <1>11, <2>2, <2>3, <2>4
  <2> QED
    BY <1>0, <1>10, <2>1, <2>5, <2>6, <2>7, TailKept DEF PointerInv
<1>14. Hx' = pos /\ Place(Hx)' = Place(pos) - Begin(c)
  <2>1. Hx' = pos
    BY <1>0, <1>1 DEF Hx, Hd
  <2>2. Place(Hx)' = Place(pos)'
    BY <2>1 DEF Place
  <2> QED
    BY <1>2, <1>8, <1>11, <2>1, <2>2
\* A chunk that held the new head still does.
<1>15. ASSUME NEW x, HoldsAt(x, Place(pos)), x = head_chunk'
       PROVE  HoldsAt(head_chunk, Place(Hx))'
  <2>1. x \in OnList /\ Begin(x) <= Place(pos) /\ Place(pos) < Finish(x)
    BY <1>15 DEF HoldsAt
  <2>2. Begin(c) < Finish(x) /\ Begin(x) \in Nat /\ Finish(x) \in Nat
    BY <1>3, <1>8, <1>11, <1>12, <2>1
  <2>3. x \in OnList' /\ Begin(x)' = Begin(x) - Begin(c) /\ Finish(x)' = Finish(x) - Begin(c)
    BY <1>11, <2>1, <2>2
  <2>4. Begin(x)' <= Place(Hx)' /\ Place(Hx)' < Finish(x)'
    BY <1>3, <1>11, <1>14, <2>1, <2>2, <2>3
  <2>5. Begin(head_chunk)' = Begin(x)' /\ Finish(head_chunk)' = Finish(x)'
    BY <1>15 DEF Begin, Finish, Beg, End
  <2> QED
    BY <1>15, <2>3, <2>4, <2>5 DEF HoldsAt
<1>16. ASSUME head_chunk' # NoChunk
       PROVE  HoldsAt(head_chunk, Place(Hx))'
  <2>1. CASE cons.op = "drop"
    <3>1. head_chunk' = IF f_chunk_includes_pos(chunk, c, pos) THEN c ELSE NoChunk
      BY <1>6, <1>8, <2>1 DEF UnlinkChunks
    <3>2. head_chunk' = c /\ f_chunk_includes_pos(chunk, c, pos)
      BY <1>16, <3>1
    <3>3. HoldsAt(c, Place(pos))
      <4>1. c \in List(chunk, start_chunk) /\ 2 * Diff(pos, Base) < W
        BY <1>3, <1>8 DEF OnList, Place
      <4>2. Holds(chunk, Base, start_chunk, c, Diff(pos, Base))
        BY <1>2, <3>2, <4>1, Includes
      <4> QED
        BY <1>12, <4>2 DEF Place
    <3> QED
      BY <1>15, <3>2, <3>3
  <2>2. CASE cons.op = "dequeue"
    <3>1. head_chunk' = head_chunk
      BY <2>2 DEF UnlinkChunks
    <3>2. Hx = pos
      BY <1>0, <2>2 DEF Hx
    <3>3. HoldsAt(head_chunk, Place(pos))
      BY <1>16, <3>1, <3>2 DEF PointerInv, HeadOK
    <3> QED
      BY <1>15, <3>1, <3>3
  <2>3. CASE cons.op = "drop_all"
    <3>1. PICK h : h = IF head_chunk = NoChunk \/ ~f_chunk_includes_pos(chunk, head_chunk, head)
                       THEN svm_fifo_find_chunk(head) ELSE head_chunk
      OBVIOUS
    <3>2. PICK moved : moved = head_chunk' /\ moved = svm_fifo_find_next_chunk(chunk, h, pos)
      BY <2>3, <3>1 DEF UnlinkChunks
    <3>3. moved # NoChunk => HoldsAt(moved, Place(pos))
      BY <1>0, <2>3, <3>1, <3>2, DropAllChunk
    <3> QED
      BY <1>15, <1>16, <3>2, <3>3
  <2> QED
    BY <1>1, <2>1, <2>2, <2>3
<1>17. ooo_deq' # NoChunk => ooo_deq' \in OnList'
  <2>1. SUFFICES ASSUME ooo_deq' # NoChunk
                 PROVE  ooo_deq' \in OnList'
    OBVIOUS
  <2>2. ooo_deq' = u.ooo
    BY <1>6 DEF UnlinkChunks
  <2>3. u.ooo = IF ooo /\ ooo_deq # NoChunk /\ ~f_pos_lt(chunk[ooo_deq].start, f_chunk_end(u.start))
                THEN ooo_deq ELSE NoChunk
    BY <1>7 DEF Unlink
  <2>4. /\ ooo_deq' = ooo_deq /\ ooo_deq # NoChunk
        /\ ~f_pos_lt(chunk[ooo_deq].start, f_chunk_end(c))
    BY <1>8, <2>1, <2>2, <2>3
  <2>5. PICK d \in OnList : d = ooo_deq /\ ~f_pos_lt(chunk[d].start, f_chunk_end(c))
    BY <2>4 DEF PointerInv, HeadOK
  <2>6. /\ d \in List(chunk, start_chunk) /\ c \in List(chunk, start_chunk)
        /\ chunk[d].start \in Pos /\ Base \in Pos
        /\ Begin(d) = Beg(chunk, Base, d) /\ Begin(d) = Diff(chunk[d].start, Base)
        /\ Begin(d) < Finish(d) /\ Finish(d) <= Total
    BY <1>2, <1>8, <2>5, OnListType DEF OnList, Begin, Beg
  <2>7. 2 * Diff(chunk[d].start, Base) < W
    BY <1>2, <1>12, <2>5, <2>6
  <2>8. f_pos_lt(chunk[d].start, Add(chunk[c].start, ChunkLen[c])) <=>
           Diff(chunk[d].start, Base) < End(chunk, Base, c)
    BY <1>2, <2>6, <2>7, Includes
  <2>9. ~(Begin(d) < Finish(c))
    BY <2>5, <2>6, <2>8 DEF f_chunk_end, Finish
  <2>10. Begin(c) < Finish(d)
    BY <1>8, <1>12, <2>5, <2>9
  <2> QED
    BY <1>11, <2>4, <2>5, <2>10
<1>18. HeadOK'
  BY <1>16, <1>17 DEF HeadOK
<1>19. DeqOK'
  <2>1. ~Gone
    BY <1>0 DEF Gone
  <2>2. /\ kind # "tx" => deq_tree = {}
        /\ cons.op = "dequeue" => kind # "tx"
        /\ deq_tree \subseteq OnList
        /\ \A x \in deq_tree, d \in OnList : Begin(d) <= Begin(x) => d \in deq_tree
    BY <1>0, <2>1 DEF PointerInv, DeqOK
  <2>3. u.tree \subseteq deq_tree
    BY <1>7 DEF Unlink
  <2>4. CASE cons.op = "drop_all"
    <3>1. Gone'
      BY <1>1, <2>4 DEF Gone
    <3>2. deq_tree' \subseteq deq_tree
      BY <2>4 DEF UnlinkChunks
    <3>3. kind # "tx" => deq_tree' = {}
      BY <2>2, <3>2
    <3> QED
      BY <1>0, <1>1, <3>1, <3>3 DEF DeqOK
  <2>5. CASE cons.op # "drop_all"
    <3>1. deq_tree' = u.tree
      BY <1>6, <2>5 DEF UnlinkChunks
    <3>2. CASE deq_tree' = {}
      BY <1>0, <1>1, <3>2 DEF DeqOK
    <3>3. CASE deq_tree' # {}
      <4>1. ooo
        <5>1. deq_tree # {}
          BY <2>3, <3>1, <3>3
        <5>2. cons.op # "dequeue"
          BY <2>2, <5>1
        <5> QED
          BY <1>1, <1>5, <2>5, <5>2
      <4>2. \A d : d \in deq_tree' <=>
                d \in deq_tree /\ ~(d \in IF Place(pos) < Total THEN OnList \ List(chunk, c) ELSE OnList)
        <5>1. PICK found : found = svm_fifo_find_next_chunk(chunk, chunk[start_chunk].next, pos)
          OBVIOUS
        <5>2. u.tree = deq_tree \ (IF found = NoChunk THEN List(chunk, start_chunk) ELSE u.gone)
          BY <1>7, <4>1, <5>1 DEF Unlink
        <5>3. found = NoChunk <=> ~(Place(pos) < Total)
          BY <1>8, <1>12, <5>1
        <5> QED
          BY <1>8, <3>1, <5>2, <5>3 DEF OnList
      <4>3. Place(pos) < Total
        BY <2>2, <3>3, <4>2
      <4>4. \A d : d \in deq_tree' <=> d \in deq_tree /\ d \in OnList'
        BY <1>11, <2>2, <4>2, <4>3
      <4>5. c \in deq_tree' /\ c \in OnList'
        <5>1. PICK x \in deq_tree' : x \in deq_tree /\ x \in OnList'
          BY <3>3, <4>4
        <5>2. x \in OnList /\ Begin(c) <= Begin(x)
          BY <1>8, <1>11, <1>12, <5>1
        <5>3. c \in deq_tree
          BY <1>8, <2>2, <5>1, <5>2
        <5>4. c \in OnList'
          BY <1>8, <1>11, <1>12
        <5> QED
          BY <4>4, <5>3, <5>4
      <4>6. ASSUME NEW x \in deq_tree', NEW d \in OnList', Begin(d)' <= Begin(x)'
            PROVE  d \in deq_tree'
        <5>1. x \in deq_tree /\ x \in OnList' /\ x \in OnList /\ d \in OnList
          BY <1>11, <4>4, <4>6
        <5>2. Begin(d) <= Begin(x)
          <6>1. Begin(d)' = Begin(d) - Begin(c) /\ Begin(x)' = Begin(x) - Begin(c)
                /\ Begin(d) \in Nat /\ Begin(x) \in Nat
            BY <1>11, <1>12, <4>6, <5>1
          <6> QED
            BY <1>11, <4>6, <6>1
        <5> QED
          BY <2>2, <4>4, <4>6, <5>1, <5>2
      <4>7. kind # "tx" => deq_tree' = {}
        BY <2>2, <2>3, <3>1
      <4> QED
        BY <1>0, <1>1, <1>9, <4>4, <4>5, <4>6, <4>7 DEF DeqOK
    <3> QED
      BY <3>2, <3>3
  <2> QED
    BY <2>4, <2>5
<1> QED
  BY <1>13, <1>18, <1>19 DEF PointerInv

\* A new fifo has one chunk.
LEMMA PointerInit == Init => PointerInv
<1> SUFFICES ASSUME Init
             PROVE  PointerInv
  OBVIOUS
<1>1. AmountInv
  BY AmountInit
<1>2. /\ start_chunk = FirstChunk /\ head_chunk = FirstChunk /\ tail_chunk = FirstChunk
      /\ head = 0 /\ tail = 0 /\ ooo_segments = <<>> /\ ooo_enq = NoChunk /\ ooo_deq = NoChunk
      /\ enq_tree = {} /\ deq_tree = {} /\ prod = Idle /\ cons = Idle
  BY DEF Init
<1>3. start_chunk \in OnList /\ Begin(start_chunk) = 0 /\ 0 < Finish(start_chunk)
  BY <1>1, OnListType DEF AmountInv
<1>4. Base = 0 /\ Diff(0, 0) = 0 /\ NoChunk # FirstChunk
  <2>1. FirstChunk \in Ptr /\ NoChunk # FirstChunk /\ W \in Nat \ {0} /\ 0 \in Pos
    BY ConstantsOK, Numbers DEF ConstantsOK, Ptr, Pos
  <2>2. Base = 0
    BY <2>1 DEF Init, Base
  <2> QED
    BY <2>1, <2>2, Counted
<1>5. Tl = 0 /\ Hx = 0 /\ Place(Tl) = 0 /\ Place(Hx) = 0
  BY <1>2, <1>4 DEF Tl, Hx, Hd, Idle, Place
<1>6. HoldsAt(start_chunk, 0)
  BY <1>3 DEF HoldsAt
<1>7. TailOK
  BY <1>2, <1>4, <1>5, <1>6 DEF TailOK
<1>8. EnqOK
  BY <1>2 DEF EnqOK, EnqTree, EnqWhole, EnqReach, EnqLast
<1>9. HeadOK
  BY <1>2, <1>5, <1>6 DEF HeadOK
<1>10. DeqOK
  BY <1>2 DEF DeqOK, Idle
<1> QED
  BY <1>7, <1>8, <1>9, <1>10 DEF PointerInv

\* Every step keeps the pointers where they belong.
LEMMA PointerNext == AmountInv /\ PointerInv /\ [Next]_vars => PointerInv'
<1> SUFFICES ASSUME AmountInv, PointerInv, [Next]_vars
             PROVE  PointerInv'
  OBVIOUS
<1>1. AmountInv'
  BY AmountNext
<1>2. CASE \/ \E op \in {"enqueue", "segments", "partial"} : EnqueueStart(op)
           \/ EnqueueWithOffsetStart \/ ProvisionStart \/ AllocFails \/ PublishTail
  BY <1>1, <1>2, ProdStepsPointers
<1>3. CASE Alloc
  BY <1>1, <1>3, AllocPointers
<1>4. CASE CopyInOrder
  BY <1>1, <1>4, CopyInOrderPointers
<1>5. CASE CopyAtOffset
  BY <1>1, <1>5, CopyAtOffsetPointers
<1>6. CASE CopyInPlace
  BY <1>1, <1>6, CopyInPlacePointers
<1>7. CASE DequeueStart \/ PeekStart \/ DropAllStart
  BY <1>1, <1>7, ConsStartPointers
<1>8. CASE CopyOut
  BY <1>1, <1>8, CopyOutPointers
<1>9. CASE Peek
  BY <1>1, <1>9, PeekPointers
<1>10. CASE UnlinkChunks
  <2>1. PICK pos : pos = Add(head, cons.len)
    OBVIOUS
  <2> QED
    BY <1>1, <1>10, <2>1, KeepAllPointers, UnlinkSomePointers
<1>11. CASE PublishHead
  BY <1>1, <1>11, PublishHeadPointers
<1>12. CASE UNCHANGED vars
  <2>1. UNCHANGED << chunk, start_chunk, end_chunk, head, head_chunk, tail, tail_chunk, ooo_segments,
                     ooo_enq, enq_tree, ooo_deq, deq_tree, kind, prod, cons >>
    BY <1>12 DEF vars, shared, prodVars, consVars
  <2>2. Tl' = Tl /\ (prod'.at \in {"alloc", "copy"} /\ ooo_segments # <<>> => prod'.old = tail_chunk)
    BY <2>1 DEF Tl, PointerInv, TailOK
  <2> QED
    BY <1>1, <2>1, <2>2, ProdStillPointers
<1> QED
  BY <1>2, <1>3, <1>4, <1>5, <1>6, <1>7, <1>8, <1>9, <1>10, <1>11, <1>12 DEF Next, Producer, Consumer

-----------------------------------------------------------------------------
(* The bytes.                                                              *)

\* Chunks hold bytes.
DataType ==
    /\ DOMAIN chunk = Ptr /\ deq_tree \subseteq Chunks
    /\ \A c \in Ptr : chunk[c].start \in Pos /\ chunk[c].data \in [0 .. ChunkLen[c] - 1 -> 0 .. W]

\* The bytes that must be there: those between head and tail and those of the
\* out-of-order segments.
Kept(x) ==
    \/ Place(Hd) <= x /\ x < Place(Tl)
    \/ Place(Tl) <= x /\ Covered(ooo_segments, Tl, x - Place(Tl))

\* Each of them is the byte of its position.
DataOK ==
    \A c \in OnList : \A i \in 0 .. ChunkLen[c] - 1 :
        Kept(Begin(c) + i) => chunk[c].data[i] = Add(chunk[c].start, i)

DataInv == DataType /\ DataOK

\* A step that leaves the chunks as they are and asks for no further byte.
LEMMA DataStill ==
  ASSUME PlaceOK, DataInv, UNCHANGED chunk, OnList' = OnList,
         \A c \in OnList : Begin(c)' = Begin(c),
         \A x \in Nat : Kept(x)' => Kept(x), deq_tree' \subseteq Chunks
  PROVE  DataInv'
<1>1. DataType'
  BY DEF DataInv, DataType
<1>2. DataOK'
  <2>1. ASSUME NEW c \in OnList, NEW i \in 0 .. ChunkLen[c] - 1, Kept(Begin(c) + i)'
        PROVE  chunk[c].data[i] = Add(chunk[c].start, i)
    <3>1. PICK x \in Nat : x = Begin(c) + i
      BY OnListType
    <3>2. (Begin(c) + i)' = x
      BY <3>1
    <3>3. Kept(x)'
      BY <2>1, <3>2 DEF Kept
    <3> QED
      BY <3>1, <3>3 DEF DataInv, DataOK
  <2> QED
    BY <2>1 DEF DataOK
<1> QED
  BY <1>1, <1>2 DEF DataInv

\* A copy changes data only, byte by byte.
LEMMA CopyToShape ==
  ASSUME Fields, DOMAIN chunk = Ptr, NEW c, NEW p, NEW len, NEW new, new = CopyTo(chunk, c, p, len)
  PROVE  /\ DOMAIN new = Ptr
         /\ \A d \in Ptr : /\ new[d].start = chunk[d].start
                           /\ \/ new[d].data = chunk[d].data
                              \/ new[d].data = [i \in DOMAIN chunk[d].data |-> new[d].data[i]]
<1> DEFINE w == Walk(chunk, c, p)
           Met(d) == {n \in DOMAIN w : w[n].c = d}
           off(d) == w[CHOOSE n \in Met(d) : TRUE].off
           data(d) == [i \in DOMAIN chunk[d].data |->
                         IF off(d) + i \in 0 .. len - 1 THEN Add(p, off(d) + i)
                         ELSE chunk[d].data[i]]
<1>1. DOMAIN new = Ptr
  BY DEF CopyTo
<1>2. ASSUME NEW d \in Ptr
      PROVE  new[d] = IF d = NoChunk \/ Met(d) = {} THEN chunk[d]
                      ELSE [chunk[d] EXCEPT !.data = data(d)]
  BY DEF CopyTo
<1>3. ASSUME NEW d \in Ptr
      PROVE  /\ new[d].start = chunk[d].start
             /\ \/ new[d].data = chunk[d].data
                \/ new[d].data = [i \in DOMAIN chunk[d].data |-> new[d].data[i]]
  <2>1. chunk[d] = [start |-> chunk[d].start, next |-> chunk[d].next, data |-> chunk[d].data]
    BY DEF Fields
  <2>2. CASE d = NoChunk \/ Met(d) = {}
    BY <1>2, <2>2
  <2>3. CASE ~(d = NoChunk \/ Met(d) = {})
    <3>1. new[d] = [chunk[d] EXCEPT !.data = data(d)]
      BY <1>2, <2>3
    <3>2. PICK f : f = data(d)
      OBVIOUS
    <3>3. f = [i \in DOMAIN chunk[d].data |-> f[i]]
      BY <3>2
    <3>4. PICK e : e = new[d] /\ e = [chunk[d] EXCEPT !.data = f]
      BY <3>1, <3>2
    <3> HIDE DEF data
    <3>5. e.data = f /\ e.start = chunk[d].start
      BY <2>1, <3>4
    <3> QED
      BY <3>3, <3>4, <3>5
  <2> QED
    BY <2>2, <2>3
<1> QED
  BY <1>1, <1>3

\* A copy into the list: what must be there then was there or is written now.
LEMMA DataCopied ==
  ASSUME AmountInv, AmountInv', DataInv, UNCHANGED << start_chunk, end_chunk, deq_tree >>,
         NEW c, NEW p \in Pos, HoldsAt(c, Place(p)), NEW len \in Nat, Place(p) + len <= Total,
         chunk' = CopyTo(chunk, c, p, len),
         \A x \in Nat : Kept(x)' => Kept(x) \/ (Place(p) <= x /\ x < Place(p) + len)
  PROVE  DataInv'
<1>1. /\ PlaceOK /\ PlaceOK' /\ OnList' = OnList
      /\ \A x \in OnList : Begin(x)' = Begin(x) /\ Finish(x)' = Finish(x)
  BY CopyStill
<1>2. /\ Fields /\ Placed(chunk, Base, start_chunk, end_chunk)
      /\ Holds(chunk, Base, start_chunk, c, Diff(p, Base))
      /\ Diff(p, Base) + len <= End(chunk, Base, end_chunk)
      /\ DOMAIN chunk = Ptr /\ deq_tree \subseteq Chunks
      /\ \A d \in Ptr : chunk[d].start \in Pos /\ chunk[d].data \in [0 .. ChunkLen[d] - 1 -> 0 .. W]
  <2>1. Fields
    BY <1>1 DEF PlaceOK, ListInv
  <2> QED
    BY <1>1, <2>1, OnListType DEF Place, Total, DataInv, DataType
<1>3. \A d \in OnList : d \in Ptr /\ Begin(d) \in Nat /\ ChunkLen[d] \in Nat
                        /\ Begin(d) = Beg(chunk, Base, d)
  BY <1>1, OnListType DEF Begin
<1>4. /\ \A d \in Ptr : d \notin OnList => chunk'[d] = chunk[d]
      /\ \A d \in OnList : \A i \in 0 .. ChunkLen[d] - 1 :
           chunk'[d].data[i] =
             IF Place(p) <= Begin(d) + i /\ Begin(d) + i < Place(p) + len
             THEN Add(chunk[d].start, i) ELSE chunk[d].data[i]
  <2>1. PICK new : new = chunk' /\ new = CopyTo(chunk, c, p, len)
    OBVIOUS
  <2>2. /\ \A d \in Ptr : d \notin List(chunk, start_chunk) => new[d] = chunk[d]
        /\ \A d \in List(chunk, start_chunk) : \A i \in DOMAIN chunk[d].data :
              i \in 0 .. ChunkLen[d] - 1 =>
                new[d].data[i] =
                  IF /\ Diff(p, Base) <= Beg(chunk, Base, d) + i
                     /\ Beg(chunk, Base, d) + i < Diff(p, Base) + len
                  THEN Add(chunk[d].start, i) ELSE chunk[d].data[i]
    BY <1>2, <2>1, CopyToOK
  <2>3. \A d \in OnList : DOMAIN chunk[d].data = 0 .. ChunkLen[d] - 1
    BY <1>2, <1>3
  <2> QED
    BY <1>3, <2>1, <2>2, <2>3 DEF OnList, Place
<1>5. /\ DOMAIN chunk' = Ptr
      /\ \A d \in Ptr : /\ chunk'[d].start = chunk[d].start
                        /\ \/ chunk'[d].data = chunk[d].data
                           \/ chunk'[d].data = [i \in DOMAIN chunk[d].data |-> chunk'[d].data[i]]
  <2>1. PICK new : new = chunk' /\ new = CopyTo(chunk, c, p, len)
    OBVIOUS
  <2>2. /\ DOMAIN new = Ptr
        /\ \A d \in Ptr : /\ new[d].start = chunk[d].start
                          /\ \/ new[d].data = chunk[d].data
                             \/ new[d].data = [i \in DOMAIN chunk[d].data |-> new[d].data[i]]
    BY <1>2, <2>1, CopyToShape
  <2> QED
    BY <2>1, <2>2
<1>6. ASSUME NEW d \in OnList, NEW i \in 0 .. ChunkLen[d] - 1
      PROVE  Add(chunk[d].start, i) \in 0 .. W
  <2>1. d \in Ptr /\ chunk[d].start \in Pos /\ W \in Nat \ {0} /\ ChunkLen[d] \in Nat
    BY <1>2, <1>3, Numbers
  <2>2. (chunk[d].start + i) % W \in 0 .. W - 1
    <3>1. PICK s \in Int : s = chunk[d].start + i
      BY <2>1 DEF Pos
    <3>2. s % W \in 0 .. W - 1
      BY <2>1, <3>1, DivMod
    <3> QED
      BY <3>1, <3>2
  <2> QED
    BY <2>1, <2>2 DEF Add
<1>7. ASSUME NEW d \in Ptr
      PROVE  chunk'[d].data \in [0 .. ChunkLen[d] - 1 -> 0 .. W]
  <2>1. chunk[d].data \in [0 .. ChunkLen[d] - 1 -> 0 .. W]
    BY <1>2
  <2>2. CASE chunk'[d].data = chunk[d].data
    BY <2>1, <2>2
  <2>3. CASE chunk'[d].data # chunk[d].data
    <3>1. d \in OnList
      BY <1>4, <2>3
    <3>2. PICK f : f = chunk'[d].data /\ f = [i \in DOMAIN chunk[d].data |-> f[i]]
      BY <1>5, <2>3
    <3>3. DOMAIN chunk[d].data = 0 .. ChunkLen[d] - 1
      BY <2>1
    <3>4. \A i \in 0 .. ChunkLen[d] - 1 : f[i] \in 0 .. W
      <4> TAKE i \in 0 .. ChunkLen[d] - 1
      <4>1. chunk[d].data[i] \in 0 .. W
        BY <2>1
      <4>2. f[i] = Add(chunk[d].start, i) \/ f[i] = chunk[d].data[i]
        BY <1>4, <3>1, <3>2
      <4>3. Add(chunk[d].start, i) \in 0 .. W
        BY <1>6, <3>1
      <4> QED
        BY <4>1, <4>2, <4>3
    <3> QED
      BY <3>2, <3>3, <3>4
  <2> QED
    BY <2>2, <2>3
<1>8. DataType'
  BY <1>2, <1>5, <1>7 DEF DataType
<1>9. DataOK'
  <2>1. ASSUME NEW d \in OnList, NEW i \in 0 .. ChunkLen[d] - 1, Kept(Begin(d) + i)'
        PROVE  chunk'[d].data[i] = Add(chunk'[d].start, i)
    <3>1. PICK x \in Nat : x = Begin(d) + i
      BY <1>3
    <3>2. (Begin(d) + i)' = x
      BY <1>1, <3>1
    <3>3. Kept(x)'
      BY <2>1, <3>2 DEF Kept
    <3>4. chunk'[d].start = chunk[d].start
      BY <1>3, <1>5
    <3>5. CASE Place(p) <= x /\ x < Place(p) + len
      BY <1>4, <3>1, <3>4, <3>5
    <3>6. CASE ~(Place(p) <= x /\ x < Place(p) + len)
      <4>1. Kept(Begin(d) + i)
        BY <3>1, <3>3, <3>6
      <4>2. chunk[d].data[i] = Add(chunk[d].start, i)
        BY <4>1 DEF DataInv, DataOK
      <4> QED
        BY <1>4, <3>1, <3>4, <3>6, <4>2
    <3> QED
      BY <3>5, <3>6
  <2> QED
    BY <1>1, <2>1 DEF DataOK
<1> QED
  BY <1>8, <1>9 DEF DataInv

\* Kept, with the end of the stream and the segments given.
LEMMA KeptIs ==
  ASSUME NEW x, NEW h, h = Place(Hd), NEW t, t = Tl, NEW y, y = Place(Tl), NEW segs, segs = ooo_segments
  PROVE  Kept(x) <=> (h <= x /\ x < y) \/ (y <= x /\ Covered(segs, t, x - y))
  BY DEF Kept

\* The same for the next state.
LEMMA KeptNext ==
  ASSUME NEW x, NEW h, h = Place(Hd)', NEW t, t = Tl', NEW y, y = Place(Tl)',
         NEW segs, segs = ooo_segments'
  PROVE  Kept(x)' <=> (h <= x /\ x < y) \/ (y <= x /\ Covered(segs, t, x - y))
  BY DEF Kept, Covered, From, To, Diff

\* A step that moves no byte: the tail stays, the head may go on.
LEMMA NothingMoved ==
  ASSUME AmountInv, AmountInv', DataInv, UNCHANGED << chunk, start_chunk, end_chunk, ooo_segments >>,
         Tl' = Tl, NEW h \in Pos, Hd' = h, Place(Hd) <= Place(h), deq_tree' \subseteq Chunks
  PROVE  DataInv'
<1>1. /\ PlaceOK /\ OnList' = OnList /\ (\A p : Place(p)' = Place(p))
      /\ \A c \in OnList : Begin(c)' = Begin(c)
  <2>1. PlaceOK /\ PlaceOK' /\ ListInv'
    BY DEF AmountInv, PlaceOK
  <2> QED
    BY <2>1, CarryStill, SameChunks
<1>2. Place(Hd)' = Place(h) /\ Place(Tl)' = Place(Tl)
  <2>1. PICK t : t = Tl
    OBVIOUS
  <2>2. Place(Hd)' = Place(h)' /\ Place(Tl)' = Place(t)'
    BY <2>1 DEF Place
  <2> QED
    BY <1>1, <2>1, <2>2
<1>3. ASSUME NEW x \in Nat, Kept(x)'
      PROVE  Kept(x)
  <2>1. Place(Hd) \in Nat /\ Place(Tl) \in Nat
    BY Amounts DEF AmountInv
  <2>2. Place(h) \in Nat
    BY <1>1, OnListType, Counted DEF Place
  <2>3. PICK a \in Nat, b \in Nat, y \in Nat, t \in {Tl}, segs \in {ooo_segments} :
          a = Place(Hd) /\ b = Place(h) /\ y = Place(Tl) /\ t = Tl /\ segs = ooo_segments
    BY <2>1, <2>2
  <2>4. b = Place(Hd)' /\ y = Place(Tl)' /\ t = Tl' /\ segs = ooo_segments'
    BY <1>2, <2>3
  <2>5. (b <= x /\ x < y) \/ (y <= x /\ Covered(segs, t, x - y))
    BY <1>3, <2>4, KeptNext
  <2>6. (a <= x /\ x < y) \/ (y <= x /\ Covered(segs, t, x - y))
    BY <2>3, <2>5
  <2> QED
    BY <2>3, <2>6, KeptIs
<1> QED
  BY <1>1, <1>3, DataStill

\* The producer's calls begin, go on without memory, publish their tail.
LEMMA ProdStepsData ==
  ASSUME AmountInv, AmountInv', DataInv,
         \/ \E op \in {"enqueue", "segments", "partial"} : EnqueueStart(op)
         \/ EnqueueWithOffsetStart \/ ProvisionStart \/ AllocFails \/ PublishTail
  PROVE  DataInv'
<1>1. UNCHANGED << chunk, start_chunk, end_chunk, head, cons, ooo_segments, deq_tree >>
  BY DEF EnqueueStart, EnqueueWithOffsetStart, ProvisionStart, AllocFails, PublishTail,
         shared, consVars, prodVars
<1>2. Tl' = Tl
  <2>1. CASE \/ \E op \in {"enqueue", "segments", "partial"} : EnqueueStart(op)
             \/ EnqueueWithOffsetStart \/ ProvisionStart
    <3>1. prod.at = "idle" /\ tail' = tail
          /\ (prod' = Idle \/ \E op, len, off : prod' = ProdCall(op, len, off))
      BY <2>1 DEF EnqueueStart, EnqueueWithOffsetStart, ProvisionStart
    <3>2. prod'.at # "publish"
      BY <3>1 DEF ProdCall, Idle
    <3> QED
      BY <3>1, <3>2 DEF Tl
  <2>2. CASE AllocFails
    <3>1. /\ prod.at = "alloc" /\ tail' = tail
          /\ \/ prod' = Idle
             \/ prod' = [prod EXCEPT !.at = "copy", !.need = 0,
                                     !.len = Diff(f_chunk_end(end_chunk), tail)]
      BY <2>2 DEF AllocFails
    <3>2. prod = [at |-> prod.at, op |-> prod.op, len |-> prod.len, off |-> prod.off,
                  need |-> prod.need, old |-> prod.old]
      BY <3>1 DEF AmountInv, ProdOK
    <3>3. PICK q, p, r : q = prod /\ p = prod' /\ r = Diff(f_chunk_end(end_chunk), tail)
      OBVIOUS
    <3>4. /\ q = [at |-> q.at, op |-> q.op, len |-> q.len, off |-> q.off, need |-> q.need,
                  old |-> q.old]
          /\ p = Idle \/ p = [q EXCEPT !.at = "copy", !.need = 0, !.len = r]
      BY <3>1, <3>2, <3>3
    <3>5. p.at # "publish"
      <4>1. CASE p = Idle
        BY <4>1 DEF Idle
      <4>2. CASE p # Idle
        <5>1. p.at = "copy"
          BY <3>4, <4>2
        <5> QED
          BY <5>1
      <4> QED
        BY <4>1, <4>2
    <3> QED
      BY <3>1, <3>3, <3>5 DEF Tl
  <2>3. CASE PublishTail
    BY <2>3 DEF PublishTail, Idle, Tl
  <2> QED
    BY <2>1, <2>2, <2>3
<1>3. Hd' = Hd /\ Hd \in Pos /\ Place(Hd) \in Nat
  BY <1>1, Amounts DEF Hd, AmountInv
<1>4. PICK h \in Pos : h = Hd
  BY <1>3
<1>5. Place(Hd) <= Place(h) /\ Hd' = h /\ deq_tree' \subseteq Chunks
  BY <1>1, <1>3, <1>4 DEF DataInv, DataType
<1> QED
  BY <1>1, <1>2, <1>5, NothingMoved

\* The consumer's calls begin, copy bytes out, publish their head.
LEMMA ConsStepsData ==
  ASSUME AmountInv, AmountInv', PointerInv, DataInv,
         DequeueStart \/ PeekStart \/ DropAllStart \/ CopyOut \/ Peek \/ PublishHead
  PROVE  DataInv'
<1>1. UNCHANGED << chunk, start_chunk, end_chunk, tail, prod, ooo_segments >>
  BY DEF DequeueStart, PeekStart, DropAllStart, CopyOut, Peek, PublishHead, Stay, shared, prodVars
<1>2. deq_tree' \subseteq Chunks
  <2>1. CASE Peek
    <3>1. PICK pos : pos = Add(head, cons.off)
      OBVIOUS
    <3>2. PeekLookup.tree \subseteq OnList
      BY <2>1, <3>1, PeekChunk DEF Peek
    <3>3. OnList \subseteq Chunks
      BY OnListType DEF AmountInv
    <3> QED
      BY <2>1, <3>2, <3>3 DEF Peek
  <2>2. CASE ~Peek
    BY <2>2 DEF DataInv, DataType, DequeueStart, PeekStart, DropAllStart, CopyOut, PublishHead, Stay,
                consVars
  <2> QED
    BY <2>1, <2>2
<1>3. Hd' = Hd
  <2>1. CASE DequeueStart \/ PeekStart \/ DropAllStart \/ Peek
    BY <2>1 DEF DequeueStart, PeekStart, DropAllStart, Peek, Idle, Hd, Stay
  <2>2. CASE CopyOut
    <3>1. cons.at = "copy" /\ head' = head
      BY <2>2 DEF CopyOut
    <3>2. cons = [at |-> cons.at, op |-> cons.op, len |-> cons.len, off |-> cons.off]
      BY <3>1 DEF AmountInv, ConsOK
    <3>3. PICK k, k2 : k = cons /\ k2 = cons' /\ k2 = [k EXCEPT !.at = "unlink"]
      BY <2>2 DEF CopyOut
    <3>4. k = [at |-> k.at, op |-> k.op, len |-> k.len, off |-> k.off]
      BY <3>2, <3>3
    <3>5. k2.at = "unlink"
      BY <3>3, <3>4
    <3> QED
      BY <3>1, <3>3, <3>5 DEF Hd
  <2>3. CASE PublishHead
    BY <2>3 DEF PublishHead, Idle, Hd
  <2> QED
    BY <2>1, <2>2, <2>3
<1>4. Tl' = Tl
  BY <1>1 DEF Tl
<1>5. Hd \in Pos /\ Place(Hd) \in Nat
  BY Amounts DEF AmountInv
<1>6. PICK h \in Pos : h = Hd
  BY <1>5
<1>7. Place(Hd) <= Place(h) /\ Hd' = h
  BY <1>3, <1>5, <1>6
<1> QED
  BY <1>1, <1>2, <1>4, <1>7, NothingMoved

\* The chunks of the list start at positions.
StartsOK == \A d \in OnList : chunk[d].start \in Pos /\ d \in Chunks

\* Every chunk the fifo's list reaches is a chunk of the slice, its start_byte
\* a position of the ring.
LEMMA ListStarts == PlaceOK => StartsOK
  BY OnListType DEF StartsOK

\* The same for the next state.
LEMMA ListStartsNext == PlaceOK' => \A d \in OnList' : chunk'[d].start \in Pos /\ d \in Chunks
<1>1. PlaceOK' => StartsOK'
  BY ListStarts, PTL
<1> QED
  BY <1>1 DEF StartsOK

\* New chunks lie past everything that must be there.
LEMMA AllocData ==
  ASSUME AmountInv, AmountInv', DataInv, Alloc
  PROVE  DataInv'
<1>1. PlaceOK /\ PlaceOK' /\ ListInv'
  BY DEF AmountInv, PlaceOK
<1>2. /\ Carried(0) /\ Total \in Nat /\ (\A p : Place(p)' = Place(p))
      /\ \A d \in Ptr : chunk'[d].data = chunk[d].data
      /\ \A d \in OnList : chunk'[d].start = chunk[d].start
  BY <1>1, CarryAlloc
<1>3. UNCHANGED << ooo_segments, deq_tree, head, tail, cons >> /\ prod.at = "alloc"
  BY DEF Alloc, consVars
<1>4. Hd' = Hd /\ Tl' = Tl
  <2>1. prod'.at # "publish"
    <3>1. prod = [at |-> prod.at, op |-> prod.op, len |-> prod.len, off |-> prod.off,
                  need |-> prod.need, old |-> prod.old]
      BY <1>3 DEF AmountInv, ProdOK
    <3>2. PICK q, p : q = prod /\ p = prod'
      OBVIOUS
    <3>3. /\ q = [at |-> q.at, op |-> q.op, len |-> q.len, off |-> q.off, need |-> q.need,
                  old |-> q.old]
          /\ p = IF q.op = "fill" THEN Idle ELSE [q EXCEPT !.at = "copy", !.need = 0]
      BY <3>1, <3>2 DEF Alloc
    <3>4. p.at # "publish"
      BY <3>3 DEF Idle
    <3> QED
      BY <3>2, <3>4
  <2> QED
    BY <1>3, <2>1 DEF Hd, Tl
<1>5. Place(Hd)' = Place(Hd) /\ Place(Tl)' = Place(Tl)
  <2>1. PICK t, h : t = Tl /\ h = Hd
    OBVIOUS
  <2>2. Place(Hd)' = Place(h)' /\ Place(Tl)' = Place(t)'
    BY <1>4, <2>1 DEF Place
  <2> QED
    BY <1>2, <2>1, <2>2
<1>6. ASSUME NEW x \in Nat, Kept(x)'
      PROVE  Kept(x) /\ x < Total
  <2>1. /\ Place(Hd) \in Nat /\ Place(Tl) \in Nat /\ Place(Tl) <= Total /\ Room \in Nat
        /\ Room <= Total - Place(Tl) /\ SegsOK(ooo_segments, Tl, Room) /\ Tl \in Pos
    BY Amounts DEF AmountInv, IndexOK, OooOK
  <2>a. ooo_segments \in Seq(Segment)
    BY <2>1 DEF SegsOK
  <2>2. PICK h \in Nat, y \in Nat, lim \in Nat, t \in Pos, segs \in Seq(Segment) :
          /\ h = Place(Hd) /\ t = Tl /\ y = Place(Tl) /\ segs = ooo_segments /\ lim = Room
          /\ SegsOK(segs, t, lim) /\ y <= Total /\ lim <= Total - y
    BY <2>1, <2>a
  <2>3. h = Place(Hd)' /\ t = Tl' /\ y = Place(Tl)' /\ segs = ooo_segments'
    BY <1>3, <1>4, <1>5, <2>2
  <2>4. (h <= x /\ x < y) \/ (y <= x /\ Covered(segs, t, x - y))
    BY <1>6, <2>3, KeptNext
  <2>5. Kept(x)
    BY <2>2, <2>4, KeptIs
  <2>6. y <= x /\ Covered(segs, t, x - y) => x - y < lim
    <3>1. ASSUME NEW i \in 1 .. Len(segs), x - y < To(segs, t, i), y <= x
          PROVE  x - y < lim
      <4>1. To(segs, t, i) <= lim /\ segs[i] \in Segment
        BY <2>2 DEF SegsOK
      <4>2. To(segs, t, i) \in Int
        <5>1. PICK p \in Pos, n \in Nat : segs[i].start = p /\ segs[i].length = n
          BY <4>1 DEF Segment
        <5>2. Diff(p, t) \in Nat
          BY <2>2, Counted
        <5> QED
          BY <5>1, <5>2 DEF To, From
      <4> QED
        BY <2>2, <3>1, <4>1, <4>2
    <3> QED
      BY <3>1 DEF Covered
  <2> QED
    BY <1>2, <2>2, <2>4, <2>5, <2>6
<1>7. /\ DOMAIN chunk = Ptr /\ deq_tree \subseteq Chunks
      /\ \A d \in Ptr : chunk[d].start \in Pos /\ chunk[d].data \in [0 .. ChunkLen[d] - 1 -> 0 .. W]
  BY DEF DataInv, DataType
<1>8. DOMAIN chunk' = Ptr
  <2>1. PICK s : f_try_chunk_alloc(s)
    BY DEF Alloc
  <2> QED
    BY <2>1 DEF f_try_chunk_alloc
<1>9. \A d \in OnList' : chunk'[d].start \in Pos /\ d \in Chunks
  BY <1>1, ListStartsNext
<1>10. ASSUME NEW d \in Ptr, d \notin OnList'
       PROVE  chunk'[d] = chunk[d]
  <2>1. PICK n \in Nat : n = prod.need
    BY <1>3 DEF AmountInv, ProdOK
  <2>2. PICK s \in Lists(n) : f_try_chunk_alloc(s)
    BY <2>1 DEF Alloc
  <2>3. PICK k \in Nat : DOMAIN s = 1 .. k /\ Len(s) = k
    <3>1. PICK k \in Nat : s \in [1 .. k -> free]
      <4>1. Cardinality(free) \in Nat \/ Cardinality(free) \notin Nat
        OBVIOUS
      <4>2. PICK k \in 1 .. Cardinality(free) : s \in [1 .. k -> free]
        BY <2>2 DEF Lists
      <4> QED
        BY <4>2
    <3> QED
      BY <3>1
  <2>4. List(chunk', start_chunk) = OnList \union {s[i] : i \in 1 .. k}
    <3>1. PICK j \in Nat \ {0} :
            Len(s) = j /\ List(chunk', start_chunk) = List(chunk, start_chunk) \union {s[i] : i \in 1 .. j}
      <4>1. UNCHANGED start_chunk /\ ListInv
        BY <1>1 DEF Alloc, PlaceOK
      <4> QED
        BY <1>1, <2>2, <4>1, AllocShape
    <3> QED
      BY <2>3, <3>1 DEF OnList
  <2>5. d \notin Range(s) /\ d # end_chunk
    <3>1. OnList' = List(chunk', start_chunk)
      BY DEF OnList, Alloc
    <3>2. end_chunk \in OnList
      BY <1>1, OnListType
    <3> QED
      BY <1>10, <2>3, <2>4, <3>1, <3>2 DEF Range
  <2> QED
    BY <2>2, <2>5 DEF f_try_chunk_alloc
<1>11. DataType'
  <2>1. \A d \in Ptr : chunk'[d].start \in Pos
    BY <1>7, <1>9, <1>10
  <2> QED
    BY <1>2, <1>3, <1>7, <1>8, <2>1 DEF DataType
<1>12. DataOK'
  <2>1. ASSUME NEW d \in OnList', NEW i \in 0 .. ChunkLen[d] - 1, Kept(Begin(d) + i)'
        PROVE  chunk'[d].data[i] = Add(chunk'[d].start, i)
    <3>1. Begin(d)' \in Nat /\ d \in Ptr /\ i \in Nat
      <4>1. Begin(d)' \in Nat /\ d \in Chunks
        BY <1>1, <1>9, OnListNumbersNext
      <4>2. ChunkLen[d] \in Nat
        BY <4>1, Numbers
      <4> QED
        BY <4>1, <4>2 DEF Ptr
    <3>2. PICK x \in Nat : x = Begin(d)' + i
      BY <3>1
    <3>3. Kept(x)'
      BY <2>1, <3>2 DEF Kept
    <3>4. Kept(x) /\ x < Total
      BY <1>6, <3>3
    <3>5. d \in OnList /\ Begin(d)' = Begin(d)
      <4>1. \/ d \in OnList /\ Begin(d)' = Begin(d) - 0
            \/ Total - 0 <= Begin(d)'
        BY <1>2 DEF Carried
      <4>2. d \in OnList => Begin(d) \in Nat
        BY <1>1, OnListType
      <4> QED
        BY <1>2, <3>1, <3>2, <3>4, <4>1, <4>2
    <3>6. chunk[d].data[i] = Add(chunk[d].start, i)
      BY <3>2, <3>4, <3>5 DEF DataInv, DataOK
    <3> QED
      BY <1>2, <3>1, <3>5, <3>6
  <2> QED
    BY <2>1 DEF DataOK
<1> QED
  BY <1>11, <1>12 DEF DataInv

\* An in-order copy fills the gap between the old tail and the segments that
\* the new tail takes in.
LEMMA CopyInOrderData ==
  ASSUME AmountInv, AmountInv', PointerInv, DataInv, CopyInOrder
  PROVE  DataInv'
<1>0. /\ UNCHANGED << start_chunk, end_chunk, head, tail, cons, kind, deq_tree >>
      /\ prod.at = "copy" /\ chunk' = CopyTo(chunk, tail_chunk, tail, prod.len)
  BY DEF CopyInOrder, consVars
<1>1. /\ PlaceOK' /\ Base' = Base /\ Total' = Total
  <2>1. PICK c, pos, len : chunk' = CopyTo(chunk, c, pos, len)
    BY <1>0
  <2> QED
    BY <1>0, <2>1, CopyStill
<1>2. PICK n \in Nat \ {0}, lim \in Nat, t \in Pos :
        /\ n = prod.len /\ lim = Room /\ t = tail /\ n <= lim /\ 2 * lim < W
        /\ SegsOK(ooo_segments, t, lim) /\ Tl = t
  <2>1. /\ tail \in Pos /\ Room \in Nat /\ 2 * Room < W /\ Tl = tail
        /\ prod.len \in Nat \ {0} /\ prod.off \in Nat /\ prod.off + prod.len <= Room
        /\ SegsOK(ooo_segments, tail, Room)
    BY <1>0, CopyRoom
  <2>2. prod.len <= Room
    BY <2>1
  <2> QED
    BY <2>1, <2>2
<1>3. PICK segs, x : segs = ooo_segments /\ x = ooo_segment_try_collect(segs, n, Add(t, n))
  OBVIOUS
<1>4. PICK m \in n .. lim :
        /\ x.tail \in Pos /\ x.tail = Add(t, m)
        /\ \A y \in Nat : Covered(x.segs, x.tail, y) <=> Covered(segs, t, y + m)
        /\ \A y \in n .. m - 1 : Covered(segs, t, y)
  BY <1>2, <1>3, CollectOK
<1>5. PICK t2 \in Pos : t2 = x.tail
  BY <1>4
<1>6. prod' = [at |-> "publish", tail |-> t2]
  BY <1>2, <1>3, <1>5 DEF CopyInOrder
<1>7. /\ Tl' = t2 /\ Place(Tl)' = Place(tail) + m /\ Place(Hd)' = Place(Hd)
  <2>1. m \in Nat /\ m <= Room /\ t2 = Add(tail, m)
    BY <1>2, <1>4, <1>5
  <2> QED
    BY <1>0, <1>1, <1>6, <2>1, TailMoves
<1>8. PICK c : /\ c = tail_chunk /\ HoldsAt(c, Place(t)) /\ Place(t) \in Nat
               /\ Place(t) + n <= Total /\ Place(Tl) = Place(t)
  <2>1. /\ HoldsAt(tail_chunk, Place(Tl)) /\ Place(tail) \in Nat /\ Total \in Nat
        /\ Place(Tl) = Place(tail) /\ Place(tail) + prod.off + prod.len <= Total
    BY <1>0, CopyChunk DEF PointerInv
  <2>2. prod.off \in Nat /\ prod.len \in Nat
    BY <1>0, CopyRoom
  <2>3. Place(tail) + prod.len <= Total
    BY <2>1, <2>2
  <2> QED
    BY <1>2, <2>1, <2>3
<1>9. PICK r : r = ooo_segments' /\ \A y \in Nat : Covered(r, t2, y) <=> Covered(segs, t, y + m)
  <2>1. CASE segs = <<>>
    <3>1. PICK r : r = ooo_segments' /\ r = <<>>
      BY <1>3, <2>1 DEF CopyInOrder
    <3> QED
      BY <2>1, <3>1 DEF Covered
  <2>2. CASE segs # <<>>
    <3>1. ooo_segments' = x.segs
      BY <1>2, <1>3, <2>2 DEF CopyInOrder
    <3> QED
      BY <1>4, <1>5, <3>1
  <2> QED
    BY <2>1, <2>2
<1>10. ASSUME NEW y \in Nat, Kept(y)'
       PROVE  Kept(y) \/ (Place(t) <= y /\ y < Place(t) + n)
  <2>1. PICK h \in Nat, b \in Nat : h = Place(Hd) /\ b = Place(t)
    <3>1. Place(Hd) \in Nat
      BY Amounts DEF AmountInv
    <3> QED
      BY <1>8, <3>1
  <2>2. PICK b2 \in Nat : b2 = b + m /\ b2 = Place(Tl)' /\ h = Place(Hd)' /\ b = Place(Tl)
    BY <1>2, <1>4, <1>7, <1>8, <2>1
  <2>3. (h <= y /\ y < b2) \/ (b2 <= y /\ Covered(r, t2, y - b2))
    BY <1>7, <1>9, <1>10, <2>2, KeptNext
  <2>4. Kept(y) <=> (h <= y /\ y < b) \/ (b <= y /\ Covered(segs, t, y - b))
    BY <1>2, <1>3, <2>1, <2>2, KeptIs
  <2>5. CASE b2 <= y
    <3>1. PICK z \in Nat : z = y - b2
      BY <2>5
    <3>2. Covered(segs, t, z + m)
      BY <1>9, <2>2, <2>3, <2>5, <3>1
    <3>3. z + m = y - b /\ b <= y
      BY <1>4, <2>2, <2>5, <3>1
    <3> QED
      BY <2>4, <3>2, <3>3
  <2>6. CASE b + n <= y /\ y < b2
    <3>1. y - b \in n .. m - 1 /\ b <= y
      BY <1>4, <2>2, <2>6
    <3> QED
      BY <1>4, <2>4, <3>1
  <2>7. CASE y < b
    <3>1. h <= y
      BY <1>4, <2>2, <2>3, <2>7
    <3> QED
      BY <2>4, <2>7, <3>1
  <2>8. b2 <= y \/ (b + n <= y /\ y < b2) \/ y < b \/ (b <= y /\ y < b + n)
    OBVIOUS
  <2> QED
    BY <2>1, <2>5, <2>6, <2>7, <2>8
<1>11. chunk' = CopyTo(chunk, c, t, n)
  BY <1>0, <1>2, <1>8
<1>12. UNCHANGED << start_chunk, end_chunk, deq_tree >> /\ n \in Nat
  BY <1>0
<1> QED
  BY <1>8, <1>10, <1>11, <1>12, DataCopied

\* Data written in place.
LEMMA CopyInPlaceData ==
  ASSUME AmountInv, AmountInv', PointerInv, DataInv, CopyInPlace
  PROVE  DataInv'
<1>0. /\ UNCHANGED << start_chunk, end_chunk, head, tail, cons, kind, deq_tree, ooo_segments >>
      /\ prod.at = "copy" /\ prod.op = "nocopy" /\ chunk' = CopyTo(chunk, tail_chunk, tail, prod.len)
      /\ prod' = [at |-> "publish", tail |-> Add(tail, prod.len)]
  BY DEF CopyInPlace, consVars
<1>1. /\ PlaceOK' /\ Base' = Base /\ Total' = Total
  <2>1. PICK c, pos, len : chunk' = CopyTo(chunk, c, pos, len)
    BY <1>0
  <2> QED
    BY <1>0, <2>1, CopyStill
<1>2. PICK n \in Nat, t \in Pos : n = prod.len /\ t = tail /\ n <= Room /\ Tl = t
  <2>1. /\ tail \in Pos /\ Room \in Nat /\ Tl = tail
        /\ prod.len \in Nat \ {0} /\ prod.off \in Nat /\ prod.off + prod.len <= Room
    BY <1>0, CopyRoom
  <2>2. prod.len <= Room
    BY <2>1
  <2> QED
    BY <2>1, <2>2
<1>3. PICK t2 : t2 = Add(tail, n)
  OBVIOUS
<1>4. /\ Tl' = t2 /\ Place(Tl)' = Place(tail) + n /\ Place(Hd)' = Place(Hd)
  BY <1>0, <1>1, <1>2, <1>3, TailMoves
<1>5. PICK c : /\ c = tail_chunk /\ HoldsAt(c, Place(t)) /\ Place(t) \in Nat
               /\ Place(t) + n <= Total /\ Place(Tl) = Place(t)
  <2>1. /\ HoldsAt(tail_chunk, Place(Tl)) /\ Place(tail) \in Nat /\ Total \in Nat
        /\ Place(Tl) = Place(tail) /\ Place(tail) + prod.off + prod.len <= Total
    BY <1>0, CopyChunk DEF PointerInv
  <2>2. prod.off \in Nat /\ prod.len \in Nat
    BY <1>0, CopyRoom
  <2>3. Place(tail) + prod.len <= Total
    BY <2>1, <2>2
  <2> QED
    BY <1>2, <2>1, <2>3
<1>6. PICK r : r = ooo_segments' /\ r = <<>>
  BY <1>0 DEF AmountInv, ProdOK, OooOK
<1>7. ASSUME NEW y \in Nat, Kept(y)'
      PROVE  Kept(y) \/ (Place(t) <= y /\ y < Place(t) + n)
  <2>1. PICK h \in Nat, b \in Nat : h = Place(Hd) /\ b = Place(t)
    <3>1. Place(Hd) \in Nat
      BY Amounts DEF AmountInv
    <3> QED
      BY <1>5, <3>1
  <2>2. PICK b2 \in Nat : b2 = b + n /\ b2 = Place(Tl)' /\ h = Place(Hd)' /\ b = Place(Tl)
    BY <1>2, <1>4, <1>5, <2>1
  <2>3. (h <= y /\ y < b2) \/ (b2 <= y /\ Covered(r, t2, y - b2))
    BY <1>4, <1>6, <1>7, <2>2, KeptNext
  <2>4. h <= y /\ y < b2
    BY <1>6, <2>3 DEF Covered
  <2>5. h <= y /\ y < b => Kept(y)
    BY <2>1, <2>2 DEF Kept
  <2> QED
    BY <2>1, <2>2, <2>4, <2>5
<1>8. chunk' = CopyTo(chunk, c, t, n) /\ UNCHANGED << start_chunk, end_chunk, deq_tree >>
  BY <1>0, <1>2, <1>5
<1> QED
  BY <1>5, <1>7, <1>8, DataCopied

\* An out-of-order copy.
LEMMA CopyAtOffsetData ==
  ASSUME AmountInv, AmountInv', PointerInv, DataInv, CopyAtOffset
  PROVE  DataInv'
<1>0. /\ UNCHANGED << start_chunk, end_chunk, head, tail, cons, kind, deq_tree >>
      /\ prod.at = "copy" /\ prod.op = "offset" /\ prod' = Idle
  BY DEF CopyAtOffset, consVars
<1>1. PICK pos, l, add :
        /\ pos = Add(tail, prod.off) /\ add = ooo_segment_add(ooo_segments, pos, prod.len)
        /\ l = IF ooo_enq = NoChunk \/ ~f_chunk_includes_pos(chunk, ooo_enq, pos)
               THEN UpdateLookup(enq_tree, tail_chunk, ooo_enq, pos, Add(pos, prod.len))
               ELSE [tree |-> enq_tree, c |-> ooo_enq]
  OBVIOUS
<1>2. ooo_segments' = add.segs /\ chunk' = CopyTo(chunk, l.c, pos, prod.len)
  BY <1>1 DEF CopyAtOffset
<1>3. /\ pos \in Pos /\ Place(pos) = Place(tail) + prod.off /\ Place(pos) + prod.len <= Total
      /\ HoldsAt(l.c, Place(pos))
  BY <1>0, <1>1, OffsetChunk
<1>4. /\ Tl = tail /\ tail \in Pos /\ prod.len \in Nat \ {0} /\ prod.off \in Nat \ {0}
      /\ Place(tail) \in Nat /\ Place(Tl) = Place(tail)
      /\ Room \in Nat /\ 2 * Room < W /\ prod.off + prod.len <= Room
      /\ SegsOK(ooo_segments, tail, Room)
  <2>1. prod.off > 0
    BY <1>0 DEF AmountInv, ProdOK
  <2> QED
    BY <1>0, <2>1, CopyRoom, CopyChunk DEF PointerInv
<1>5. PICK off \in Nat \ {0}, len \in Nat \ {0}, t \in Pos, lim \in Nat :
        off = prod.off /\ len = prod.len /\ t = tail /\ lim = Room
  BY <1>4
<1>6. PICK segs, r : /\ segs = ooo_segments /\ r = ooo_segments'
                     /\ \A y \in Nat : Covered(r, t, y) <=>
                           Covered(segs, t, y) \/ (off <= y /\ y < off + len)
  <2>1. Diff(pos, t) = off
    <3>1. W \in Nat /\ off < W
      BY <1>4, <1>5, Numbers
    <3>2. off \in Nat /\ Diff(t, t) = 0
      BY Counted
    <3>3. Diff(t, t) + off < W
      BY <3>1, <3>2
    <3>4. Diff(Add(t, off), t) = Diff(t, t) + off
      BY <3>2, <3>3, Counted
    <3> QED
      BY <1>1, <1>5, <3>2, <3>4
  <2>2. PICK segs : segs = ooo_segments
    OBVIOUS
  <2>3. /\ 2 * lim < W /\ SegsOK(segs, t, lim) /\ Diff(pos, t) > 0 /\ Diff(pos, t) + len <= lim
    BY <1>4, <1>5, <2>1, <2>2
  <2>4. LET x == ooo_segment_add(segs, pos, len)
        IN  \A y \in Nat : Covered(x.segs, t, y) <=>
                  \/ Covered(segs, t, y)
                  \/ Diff(pos, t) <= y /\ y < Diff(pos, t) + len
    BY <1>3, <2>3, AddOK
  <2> QED
    BY <1>1, <1>2, <1>5, <2>1, <2>2, <2>4
<1>7. Tl' = t /\ Hd' = Hd
  BY <1>0, <1>5 DEF Tl, Hd, Idle
<1>8. \A p : Place(p)' = Place(p)
  <2>1. PICK c, len2 : chunk' = CopyTo(chunk, c, pos, len2)
    BY <1>2
  <2> QED
    BY <1>0, <2>1, CopyStill
<1>9. ASSUME NEW y \in Nat, Kept(y)'
      PROVE  Kept(y) \/ (Place(pos) <= y /\ y < Place(pos) + len)
  <2>1. PICK h \in Nat, b \in Nat, hd \in {Hd} : h = Place(Hd) /\ b = Place(Tl)
    <3>1. Place(Hd) \in Nat
      BY Amounts DEF AmountInv
    <3> QED
      BY <1>4, <3>1
  <2>2. h = Place(Hd)' /\ b = Place(Tl)' /\ t = Tl /\ b = Place(t)
    <3>1. Place(Hd)' = Place(hd)' /\ Place(Tl)' = Place(t)' /\ t = Tl
      BY <1>4, <1>5, <1>7, <2>1 DEF Place
    <3> QED
      BY <1>8, <2>1, <3>1
  <2>3. (h <= y /\ y < b) \/ (b <= y /\ Covered(r, t, y - b))
    BY <1>6, <1>7, <1>9, <2>2, KeptNext
  <2>4. Kept(y) <=> (h <= y /\ y < b) \/ (b <= y /\ Covered(segs, t, y - b))
    BY <1>6, <2>1, <2>2, KeptIs
  <2>5. CASE y < b
    BY <2>3, <2>4, <2>5
  <2>6. CASE b <= y
    <3>1. PICK z \in Nat : z = y - b
      BY <2>6
    <3>2. Covered(segs, t, z) \/ (off <= z /\ z < off + len)
      BY <1>6, <2>3, <2>6, <3>1
    <3>3. Place(pos) = b + off
      BY <1>3, <1>4, <1>5, <2>1
    <3> QED
      BY <2>4, <2>6, <3>1, <3>2, <3>3
  <2> QED
    BY <2>5, <2>6
<1>10. PICK c : c = l.c /\ HoldsAt(c, Place(pos)) /\ chunk' = CopyTo(chunk, c, pos, len)
  BY <1>2, <1>3, <1>5
<1>11. UNCHANGED << start_chunk, end_chunk, deq_tree >> /\ len \in Nat /\ Place(pos) + len <= Total
  BY <1>0, <1>3, <1>5
<1> QED
  BY <1>3, <1>9, <1>10, <1>11, DataCopied

\* The end of a dequeue or drop within the first chunk.
LEMMA KeepAllData ==
  ASSUME AmountInv, AmountInv', DataInv, UnlinkChunks, NEW pos, pos = Add(head, cons.len),
         f_pos_lt(pos, f_chunk_end(start_chunk)), cons'.at = "publish", cons'.len = cons.len
  PROVE  DataInv'
<1>1. /\ UNCHANGED << chunk, start_chunk, end_chunk, tail, prod, ooo_segments, head >>
      /\ cons.at = "unlink" /\ deq_tree' \subseteq deq_tree
  BY DEF UnlinkChunks, shared, prodVars
<1>2. Hd = head /\ pos \in Pos /\ Place(head) \in Nat /\ cons.len \in Nat
      /\ Place(pos) = Place(head) + cons.len
  BY <1>1, UnlinkPos
<1>3. Tl' = Tl /\ Hd' = pos /\ Place(Hd) <= Place(pos) /\ deq_tree' \subseteq Chunks
  BY <1>1, <1>2 DEF Tl, Hd, DataInv, DataType
<1> QED
  BY <1>1, <1>2, <1>3, NothingMoved

\* The end of a dequeue or drop that gives chunks back: nothing in them is
\* wanted any more.
LEMMA UnlinkSomeData ==
  ASSUME AmountInv, AmountInv', DataInv, UnlinkChunks, NEW pos, pos = Add(head, cons.len),
         ~f_pos_lt(pos, f_chunk_end(start_chunk)), cons'.at = "publish", cons'.len = cons.len
  PROVE  DataInv'
<1>0. /\ UNCHANGED << end_chunk, tail, prod, ooo_segments, head >> /\ cons.at = "unlink"
  BY DEF UnlinkChunks, prodVars
<1>1. /\ Hd = head /\ head \in Pos /\ pos \in Pos /\ Place(head) \in Nat /\ Total \in Nat
      /\ cons.len \in Nat /\ Place(pos) = Place(head) + cons.len /\ Place(pos) <= Total
      /\ Place(pos) <= Place(Tl) /\ Place(Tl) \in Nat
      /\ 2 * Total < W /\ W \in Nat /\ Placed(chunk, Base, start_chunk, end_chunk) /\ PlaceOK
      /\ start_chunk \in OnList /\ Begin(start_chunk) = 0
  BY <1>0, UnlinkPos
<1>2. Place(pos) \in Nat /\ 2 * Place(pos) < W /\ Place(head) <= Place(pos)
  BY <1>1
<1>3. End(chunk, Base, start_chunk) <= Place(pos)
  <2>1. PICK s : s = start_chunk /\ s \in List(chunk, s)
    BY <1>1 DEF OnList
  <2>2. 2 * Diff(pos, Base) < W
    BY <1>2 DEF Place
  <2>3. f_pos_lt(pos, Add(chunk[s].start, ChunkLen[s])) <=> Diff(pos, Base) < End(chunk, Base, s)
    BY <1>1, <2>1, <2>2, Includes
  <2>4. End(chunk, Base, start_chunk) \in Nat
    BY <1>1, OnListType DEF Finish
  <2> QED
    BY <1>2, <2>1, <2>3, <2>4 DEF f_chunk_end, Place
<1>4. PICK ooo \in BOOLEAN : ooo <=> cons.op = "drop"
  OBVIOUS
<1>5. PICK u : u = Unlink(pos, cons.op = "drop")
  OBVIOUS
<1>6. u = Unlink(pos, ooo)
  <2>1. ooo = (cons.op = "drop")
    BY <1>4, Zenon
  <2> QED
    BY <1>5, <2>1
<1>7. PICK c : /\ c = u.start /\ c \in OnList /\ u.gone = OnList \ List(chunk, c)
               /\ Begin(c) <= Place(pos)
  <2>1. /\ u.start \in List(chunk, start_chunk)
        /\ u.gone = List(chunk, start_chunk) \ List(chunk, u.start)
        /\ Beg(chunk, Base, u.start) <= Place(pos)
    BY <1>1, <1>3, <1>6, UnlinkPlace
  <2> QED
    BY <2>1 DEF OnList, Begin
<1>8. /\ Collect(OnList \ List(chunk, c)) /\ start_chunk' = c
  BY <1>5, <1>7 DEF UnlinkChunks
<1>9. PlaceOK' /\ ListInv'
  BY DEF AmountInv, PlaceOK
<1>10. /\ Begin(c) \in Nat /\ OnList' = List(chunk, c)
       /\ \A d \in OnList' : d \in OnList /\ chunk'[d] = chunk[d] /\ Begin(d)' = Begin(d) - Begin(c)
       /\ \A p \in Pos : Begin(c) <= Place(p) => Place(p)' = Place(p) - Begin(c)
  BY <1>0, <1>1, <1>7, <1>8, <1>9, CarryUnlink
<1>11. /\ DOMAIN chunk = Ptr /\ deq_tree \subseteq Chunks
       /\ \A d \in Ptr : chunk[d].start \in Pos /\ chunk[d].data \in [0 .. ChunkLen[d] - 1 -> 0 .. W]
  BY DEF DataInv, DataType
<1>12. DataType'
  <2>1. PICK gone : gone = OnList \ List(chunk, c) /\ Collect(gone)
    BY <1>8
  <2>2. chunk' = [d \in Ptr |->
                    IF d \in gone THEN [start |-> 0, next |-> NoChunk,
                                        data |-> [i \in DOMAIN chunk[d].data |-> Junk]]
                    ELSE chunk[d]]
    BY <2>1 DEF Collect
  <2>3. ASSUME NEW d \in Ptr
        PROVE  chunk'[d].start \in Pos /\ chunk'[d].data \in [0 .. ChunkLen[d] - 1 -> 0 .. W]
    <3>1. CASE d \notin gone
      BY <1>11, <2>2, <3>1
    <3>2. CASE d \in gone
      <4>1. chunk'[d] = [start |-> 0, next |-> NoChunk,
                         data |-> [i \in DOMAIN chunk[d].data |-> Junk]]
        BY <2>2, <3>2
      <4>2. DOMAIN chunk[d].data = 0 .. ChunkLen[d] - 1
        BY <1>11
      <4>3. chunk'[d].start = 0 /\ chunk'[d].data = [i \in 0 .. ChunkLen[d] - 1 |-> Junk]
        BY <4>1, <4>2
      <4>4. 0 \in Pos /\ Junk \in 0 .. W
        BY Numbers DEF Pos, Junk
      <4> QED
        BY <4>3, <4>4
    <3> QED
      BY <3>1, <3>2
  <2>4. deq_tree' \subseteq Chunks
    <3>1. u.tree \subseteq deq_tree
      BY <1>6 DEF Unlink
    <3>2. deq_tree' \subseteq deq_tree
      BY <1>5, <3>1 DEF UnlinkChunks
    <3> QED
      BY <1>11, <3>2
  <2>5. DOMAIN chunk' = Ptr
    BY <2>2
  <2> QED
    BY <2>3, <2>4, <2>5 DEF DataType
<1>13. PICK D \in Nat : D = Begin(c) /\ D <= Place(pos)
  BY <1>7, <1>10
<1>14. /\ Tl' = Tl /\ Tl \in Pos /\ Hd' = pos
       /\ Place(Tl)' = Place(Tl) - D /\ Place(Hd)' = Place(pos) - D
  <2>1. Tl' = Tl /\ Tl \in Pos /\ Hd' = pos
    BY <1>0 DEF Tl, Hd, AmountInv, IndexOK
  <2>2. PICK t \in Pos : t = Tl
    BY <2>1
  <2>3. D <= Place(t)
    BY <1>1, <1>2, <1>13, <2>2
  <2>4. Place(t)' = Place(t) - D /\ Place(pos)' = Place(pos) - D
    BY <1>1, <1>10, <1>13, <2>3
  <2>5. Place(Tl)' = Place(t)' /\ Place(Hd)' = Place(pos)'
    BY <2>1, <2>2 DEF Place
  <2> QED
    BY <2>1, <2>2, <2>4, <2>5
<1>15. ASSUME NEW x \in Nat, Kept(x)'
       PROVE  Kept(x + D)
  <2>1. PICK h \in Nat, p \in Nat, y \in Nat, t \in {Tl}, segs \in {ooo_segments} :
          h = Place(Hd) /\ p = Place(pos) /\ y = Place(Tl) /\ h <= p
    BY <1>1, <1>2
  <2>2. /\ p - D = Place(Hd)' /\ y - D = Place(Tl)' /\ t = Tl' /\ segs = ooo_segments'
        /\ t = Tl /\ segs = ooo_segments
    BY <1>0, <1>14, <2>1
  <2>3. PICK p2 \in Int, y2 \in Int : p2 = p - D /\ y2 = y - D
    OBVIOUS
  <2>4. (p2 <= x /\ x < y2) \/ (y2 <= x /\ Covered(segs, t, x - y2))
    BY <1>15, <2>2, <2>3, KeptNext
  <2>5. PICK z \in Nat : z = x + D
    OBVIOUS
  <2>6. x - y2 = z - y
    BY <2>3, <2>5
  <2>7. (h <= z /\ z < y) \/ (y <= z /\ Covered(segs, t, z - y))
    BY <2>1, <2>3, <2>4, <2>5, <2>6
  <2>8. Kept(z)
    BY <2>1, <2>2, <2>7, KeptIs
  <2> QED
    BY <2>5, <2>8
<1>16. DataOK'
  <2>1. ASSUME NEW d \in OnList', NEW i \in 0 .. ChunkLen[d] - 1, Kept(Begin(d) + i)'
        PROVE  chunk'[d].data[i] = Add(chunk'[d].start, i)
    <3>1. d \in OnList /\ chunk'[d] = chunk[d] /\ Begin(d)' = Begin(d) - D
      BY <1>10, <1>13
    <3>2. Begin(d)' \in Nat /\ i \in Nat /\ Begin(d) \in Nat
      <4>1. Begin(d)' \in Nat
        BY <1>9, OnListNumbersNext
      <4>2. ChunkLen[d] \in Nat /\ Begin(d) \in Nat
        BY <1>1, <3>1, OnListType
      <4> QED
        BY <4>1, <4>2
    <3>3. PICK x \in Nat : x = Begin(d)' + i
      BY <3>2
    <3>4. Kept(x)'
      BY <2>1, <3>3 DEF Kept
    <3>5. Kept(x + D) /\ x + D = Begin(d) + i
      BY <1>15, <3>1, <3>2, <3>3, <3>4
    <3>6. Kept(Begin(d) + i)
      BY <3>5
    <3> QED
      BY <3>1, <3>6 DEF DataInv, DataOK
  <2> QED
    BY <2>1 DEF DataOK
<1> QED
  BY <1>12, <1>16 DEF DataInv

\* A new fifo holds nothing.
LEMMA DataInit == Init => DataInv
<1> SUFFICES ASSUME Init
             PROVE  DataInv
  OBVIOUS
<1>1. /\ chunk = [c \in Ptr |-> [start |-> 0, next |-> NoChunk,
                                 data |-> [i \in 0 .. ChunkLen[c] - 1 |-> Junk]]]
      /\ deq_tree = {} /\ head = 0 /\ tail = 0 /\ ooo_segments = <<>> /\ prod = Idle /\ cons = Idle
  BY DEF Init
<1>2. DataType
  <2>1. 0 \in Pos /\ Junk \in 0 .. W
    BY Numbers DEF Pos, Junk
  <2>2. ASSUME NEW c \in Ptr
        PROVE  chunk[c].start \in Pos /\ chunk[c].data \in [0 .. ChunkLen[c] - 1 -> 0 .. W]
    <3>1. chunk[c].start = 0 /\ chunk[c].data = [i \in 0 .. ChunkLen[c] - 1 |-> Junk]
      BY <1>1
    <3> QED
      BY <2>1, <3>1
  <2> QED
    BY <1>1, <2>2 DEF DataType
<1>3. DataOK
  <2>1. ASSUME NEW x \in Nat
        PROVE  ~Kept(x)
    <3>1. Place(Hd) = Place(Tl) /\ Place(Hd) \in Nat
      <4>1. Hd = Tl
        BY <1>1 DEF Hd, Tl, Idle
      <4>2. Place(Hd) \in Nat
        BY AmountInit, Amounts DEF AmountInv
      <4> QED
        BY <4>1, <4>2
    <3>2. \A y : ~Covered(ooo_segments, Tl, y)
      BY <1>1 DEF Covered
    <3> QED
      BY <3>1, <3>2 DEF Kept
  <2>2. \A c \in OnList : \A i \in 0 .. ChunkLen[c] - 1 : Begin(c) + i \in Nat
    BY AmountInit, OnListType DEF AmountInv
  <2> QED
    BY <2>1, <2>2 DEF DataOK
<1> QED
  BY <1>2, <1>3 DEF DataInv

\* Every step keeps the bytes.
LEMMA DataNext == AmountInv /\ PointerInv /\ DataInv /\ [Next]_vars => DataInv'
<1> SUFFICES ASSUME AmountInv, PointerInv, DataInv, [Next]_vars
             PROVE  DataInv'
  OBVIOUS
<1>1. AmountInv'
  BY AmountNext
<1>2. CASE \/ \E op \in {"enqueue", "segments", "partial"} : EnqueueStart(op)
           \/ EnqueueWithOffsetStart \/ ProvisionStart \/ AllocFails \/ PublishTail
  BY <1>1, <1>2, ProdStepsData
<1>3. CASE Alloc
  BY <1>1, <1>3, AllocData
<1>4. CASE CopyInOrder
  BY <1>1, <1>4, CopyInOrderData
<1>5. CASE CopyAtOffset
  BY <1>1, <1>5, CopyAtOffsetData
<1>6. CASE CopyInPlace
  BY <1>1, <1>6, CopyInPlaceData
<1>7. CASE DequeueStart \/ PeekStart \/ DropAllStart \/ CopyOut \/ Peek \/ PublishHead
  BY <1>1, <1>7, ConsStepsData
<1>8. CASE UnlinkChunks
  <2>1. PICK pos : pos = Add(head, cons.len)
    OBVIOUS
  <2>2. cons'.at = "publish" /\ cons'.len = cons.len
    <3>1. cons = [at |-> cons.at, op |-> cons.op, len |-> cons.len, off |-> cons.off]
      BY <1>8 DEF UnlinkChunks, AmountInv, ConsOK
    <3>2. PICK k, k2 : k = cons /\ k2 = cons' /\ k2 = [k EXCEPT !.at = "publish"]
      BY <1>8 DEF UnlinkChunks
    <3>3. k = [at |-> k.at, op |-> k.op, len |-> k.len, off |-> k.off]
      BY <3>1, <3>2
    <3>4. k2.at = "publish" /\ k2.len = k.len
      BY <3>2, <3>3
    <3> QED
      BY <3>2, <3>4
  <2> QED
    BY <1>1, <1>8, <2>1, <2>2, KeepAllData, UnlinkSomeData
<1>9. CASE UNCHANGED vars
  <2>1. UNCHANGED << chunk, start_chunk, end_chunk, head, tail, ooo_segments, deq_tree, prod, cons >>
    BY <1>9 DEF vars, shared, prodVars, consVars
  <2>2. Hd \in Pos /\ Place(Hd) \in Nat
    BY Amounts DEF AmountInv
  <2>3. PICK h \in Pos : h = Hd
    BY <2>2
  <2>4. Tl' = Tl /\ Hd' = h /\ Place(Hd) <= Place(h) /\ deq_tree' \subseteq Chunks
    BY <2>1, <2>2, <2>3 DEF Tl, Hd, DataInv, DataType
  <2> QED
    BY <1>1, <2>1, <2>4, NothingMoved
<1> QED
  BY <1>2, <1>3, <1>4, <1>5, <1>6, <1>7, <1>8, <1>9 DEF Next, Producer, Consumer

-----------------------------------------------------------------------------
(* What is read.                                                           *)

\* A read of bytes that are there returns them.
LEMMA ReadBytes ==
  ASSUME AmountInv, DataInv, NEW c, NEW p \in Pos, HoldsAt(c, Place(p)), NEW len \in Nat,
         Place(Hd) <= Place(p), Place(p) + len <= Place(Tl)
  PROVE  CopyFrom(chunk, c, p, len) = [j \in 0 .. len - 1 |-> Add(p, j)]
<1>1. /\ PlaceOK /\ Base \in Pos /\ Total \in Nat /\ 2 * Total < W /\ Place(Tl) <= Total
      /\ Place(Tl) \in Nat /\ Placed(chunk, Base, start_chunk, end_chunk) /\ W \in Nat
      /\ \A x, y : HoldsAt(x, y) <=> Holds(chunk, Base, start_chunk, x, y)
  BY OnListType, Amounts, Numbers DEF AmountInv, IndexOK
<1>2. PICK x \in Nat : x = Place(p) /\ x = Diff(p, Base)
  BY <1>1, Counted DEF Place
<1>3. /\ Holds(chunk, Base, start_chunk, c, Diff(p, Base))
      /\ Diff(p, Base) + len <= End(chunk, Base, end_chunk)
  <2>1. x + len <= Total
    BY <1>1, <1>2
  <2> QED
    BY <1>1, <1>2, <2>1 DEF Total
<1>4. PICK f : f = CopyFrom(chunk, c, p, len) /\ f = [j \in 0 .. len - 1 |-> f[j]]
  BY DEF CopyFrom
<1>5. ASSUME NEW j \in 0 .. len - 1
      PROVE  f[j] = Add(p, j)
  <2>1. PICK d \in OnList : /\ HoldsAt(d, x + j)
                            /\ f[j] = chunk[d].data[x + j - Begin(d)]
    <3>1. PICK d \in List(chunk, start_chunk) :
            /\ Holds(chunk, Base, start_chunk, d, Diff(p, Base) + j)
            /\ CopyFrom(chunk, c, p, len)[j] = chunk[d].data[Diff(p, Base) + j - Beg(chunk, Base, d)]
      BY <1>1, <1>3, CopyFromOK
    <3> QED
      BY <1>1, <1>2, <1>4, <3>1 DEF OnList, Begin
  <2>2. /\ Begin(d) \in Nat /\ Finish(d) = Begin(d) + ChunkLen[d] /\ ChunkLen[d] \in Nat
        /\ chunk[d].start \in Pos /\ Begin(d) = Diff(chunk[d].start, Base)
        /\ Begin(d) <= x + j /\ x + j < Finish(d)
    BY <1>1, <2>1, OnListType DEF Begin, Beg, HoldsAt
  <2>3. PICK i \in 0 .. ChunkLen[d] - 1 : i = x + j - Begin(d) /\ Begin(d) + i = x + j
    BY <2>2
  <2>4. PICK y \in Nat : y = x + j /\ Place(Hd) <= y /\ y < Place(Tl)
    <3>1. Place(Hd) \in Nat
      BY Amounts DEF AmountInv
    <3> QED
      BY <1>1, <1>2, <3>1
  <2>5. Kept(Begin(d) + i)
    <3>1. Kept(y)
      BY <2>4 DEF Kept
    <3> QED
      BY <2>3, <2>4, <3>1
  <2>6. f[j] = Add(chunk[d].start, i)
    BY <2>1, <2>3, <2>5 DEF DataInv, DataOK
  <2>7. /\ Add(chunk[d].start, i) \in Pos /\ Diff(Add(chunk[d].start, i), Base) = y
        /\ Add(p, j) \in Pos /\ Diff(Add(p, j), Base) = y
    <3>1. PICK s \in Pos : s = chunk[d].start
      BY <2>2
    <3>2. y < W /\ i \in Nat /\ j \in Nat /\ Diff(s, Base) + i = y /\ Diff(p, Base) + j = y
      <4>1. y < W
        BY <1>1, <2>4
      <4> QED
        BY <1>2, <2>2, <2>3, <2>4, <3>1, <4>1
    <3>3. /\ Add(s, i) \in Pos /\ Diff(Add(s, i), Base) = Diff(s, Base) + i
          /\ Add(p, j) \in Pos /\ Diff(Add(p, j), Base) = Diff(p, Base) + j
      BY <1>1, <3>2, Counted
    <3> QED
      BY <3>1, <3>2, <3>3
  <2>8. Add(chunk[d].start, i) = Add(p, j)
    BY <1>1, <2>7, Counted
  <2> QED
    BY <2>6, <2>8
<1> QED
  BY <1>4, <1>5

\* Every enqueued byte is found from start_chunk.
LEMMA StreamFromData == AmountInv /\ DataInv => StreamIntact
<1> SUFFICES ASSUME AmountInv, DataInv
             PROVE  StreamIntact
  OBVIOUS
<1>1. /\ PlaceOK /\ Base \in Pos /\ Hd \in Pos /\ Place(Hd) \in Nat /\ Place(tail) \in Nat
      /\ Place(Tl) \in Nat /\ Total \in Nat /\ Taken \in Nat /\ Used <= Size /\ Size \in Nat
      /\ Used = Place(Tl) - Place(Hd) + Taken /\ 2 * Total < W /\ W \in Nat /\ tail \in Pos
      /\ Place(Hd) <= Place(tail) /\ Place(tail) <= Place(Tl) /\ Place(Tl) <= Total
  BY Amounts, Numbers DEF AmountInv, IndexOK
<1>2. f_cursize(head, tail) <= Size
  <2>1. f_cursize(head, tail) = Place(tail) - Place(Hd) + Taken
    BY Computed DEF AmountInv
  <2> QED
    BY <1>1, <2>1
<1>3. PICK h \in Pos : h = Hd /\ h = IF cons.at = "publish" THEN Add(head, cons.len) ELSE head
  BY <1>1 DEF Hd
<1>4. f_cursize(h, tail) = Place(tail) - Place(h)
  <2>1. Diff(tail, h) = IF Diff(h, Base) <= Diff(tail, Base)
                        THEN Diff(tail, Base) - Diff(h, Base)
                        ELSE Diff(tail, Base) - Diff(h, Base) + W
    BY <1>1, Counted
  <2> QED
    BY <1>1, <1>3, <2>1 DEF f_cursize, Place
<1>5. ASSUME NEW i \in 0 .. f_cursize(h, tail) - 1, NEW pos, pos = Add(h, i)
      PROVE  CopyFrom(chunk, svm_fifo_find_chunk(pos), pos, 1) = [j \in {0} |-> pos]
  <2>1. i \in Nat /\ Place(h) + i < Place(tail) /\ Place(h) \in Nat
    BY <1>1, <1>3, <1>4
  <2>2. pos \in Pos /\ Place(pos) = Place(h) + i
    <3>1. Diff(h, Base) + i < W
      BY <1>1, <2>1 DEF Place
    <3>2. Add(h, i) \in Pos /\ Diff(Add(h, i), Base) = Diff(h, Base) + i
      BY <1>1, <2>1, <3>1, Counted
    <3> QED
      BY <1>5, <3>2 DEF Place
  <2>3. Place(pos) < Total /\ Place(pos) \in Nat /\ Place(Hd) <= Place(pos)
        /\ Place(pos) + 1 <= Place(Tl)
    BY <1>1, <1>3, <2>1, <2>2
  <2>4. PICK c : c = svm_fifo_find_chunk(pos) /\ HoldsAt(c, Place(pos))
    BY <1>1, <2>2, <2>3, FindChunk
  <2>5. PICK one \in Nat : one = 1 /\ Place(pos) + one <= Place(Tl)
    BY <2>3
  <2>6. CopyFrom(chunk, c, pos, one) = [j \in 0 .. one - 1 |-> Add(pos, j)]
    <3>1. PICK p \in Pos : /\ p = pos /\ HoldsAt(c, Place(p)) /\ Place(Hd) <= Place(p)
                           /\ Place(p) + one <= Place(Tl)
      BY <2>2, <2>3, <2>4, <2>5
    <3>2. CopyFrom(chunk, c, p, one) = [j \in 0 .. one - 1 |-> Add(p, j)]
      BY <3>1, ReadBytes
    <3> QED
      BY <3>1, <3>2
  <2>7. Add(pos, 0) = pos
    <3>1. Add(pos, Diff(pos, pos)) = pos /\ Diff(pos, pos) = 0
      BY <2>2, Counted
    <3> QED
      BY <3>1
  <2>8. 0 .. one - 1 = {0}
    BY <2>5
  <2>9. [j \in 0 .. one - 1 |-> Add(pos, j)] = [j \in {0} |-> pos]
    BY <2>7, <2>8
  <2> QED
    BY <2>4, <2>5, <2>6, <2>9
<1> QED
  BY <1>2, <1>3, <1>5 DEF StreamIntact

\* A dequeue or a peek copies out the bytes it asked for.
LEMMA ReadFromData == AmountInv /\ PointerInv /\ DataInv => ReadExact
<1> SUFFICES ASSUME AmountInv, PointerInv, DataInv, cons.at = "copy"
             PROVE  BytesRead = [j \in 0 .. cons.len - 1 |-> Add(head, cons.off + j)]
  BY DEF ReadExact
<1>1. PICK p, q : p = Add(head, cons.off) /\ q = Add(p, cons.len)
  OBVIOUS
<1>2. /\ Hd = head /\ head \in Pos /\ p \in Pos /\ q \in Pos
      /\ cons.off \in Nat /\ cons.len \in Nat /\ Place(head) \in Nat /\ Total \in Nat
      /\ Place(tail) \in Nat /\ Place(Tl) \in Nat
      /\ Place(p) = Place(head) + cons.off /\ Place(q) = Place(head) + cons.off + cons.len
      /\ Place(q) <= Place(tail) /\ Place(tail) <= Place(Tl) /\ Place(q) <= Total
      /\ 2 * Total < W /\ W \in Nat /\ Base \in Pos
  BY <1>1, ConsPlaces
<1>3. cons.op \in {"dequeue", "peek"} /\ (cons.op = "dequeue" => cons.off = 0)
  BY DEF AmountInv, ConsOK
<1>4. PICK c : /\ c = IF cons.op = "peek" THEN PeekLookup.c ELSE HeadChunk
               /\ HoldsAt(c, Place(p))
  <2>1. CASE cons.op = "peek"
    BY <1>1, <2>1, PeekChunk
  <2>2. CASE cons.op = "dequeue"
    <3>1. HoldsAt(HeadChunk, Place(head))
      BY <2>2, DequeueChunk
    <3>2. Place(p) = Place(head)
      BY <1>2, <1>3, <2>2
    <3> QED
      BY <2>2, <3>1, <3>2
  <2> QED
    BY <1>3, <2>1, <2>2
<1>5. PICK n \in Nat, o \in Nat : n = cons.len /\ o = cons.off
  BY <1>2
<1>6. CopyFrom(chunk, c, p, n) = [j \in 0 .. n - 1 |-> Add(p, j)]
  <2>1. Place(Hd) <= Place(p) /\ Place(p) + n <= Place(Tl)
    BY <1>2, <1>5
  <2> QED
    BY <1>2, <1>4, <2>1, ReadBytes
<1>7. ASSUME NEW j \in 0 .. n - 1
      PROVE  Add(p, j) = Add(head, o + j)
  <2>1. PICK x \in Nat : x = Place(head) /\ x = Diff(head, Base) /\ Diff(p, Base) = x + o
    BY <1>2, <1>5 DEF Place
  <2>2. x + o + j < W /\ j \in Nat /\ o + j \in Nat
    <3>1. x + o + n <= Total
      BY <1>2, <1>5, <2>1
    <3> QED
      BY <1>2, <3>1
  <2>3. /\ Diff(p, Base) + j < W /\ Diff(head, Base) + (o + j) < W
        /\ Diff(p, Base) + j = Diff(head, Base) + (o + j)
    BY <2>1, <2>2
  <2>4. /\ Add(p, j) \in Pos /\ Diff(Add(p, j), Base) = Diff(p, Base) + j
        /\ Add(head, o + j) \in Pos /\ Diff(Add(head, o + j), Base) = Diff(head, Base) + (o + j)
    BY <1>2, <2>2, <2>3, Counted
  <2> QED
    BY <1>2, <2>3, <2>4, Counted
<1>8. BytesRead = CopyFrom(chunk, c, p, n)
  BY <1>1, <1>4, <1>5 DEF BytesRead
<1>9. [j \in 0 .. n - 1 |-> Add(p, j)] = [j \in 0 .. n - 1 |-> Add(head, o + j)]
  BY <1>7
<1> QED
  BY <1>5, <1>6, <1>8, <1>9

\* The variables have their types.
LEMMA TypeFromData == AmountInv /\ PointerInv /\ DataInv => TypeOK
<1> SUFFICES ASSUME AmountInv, PointerInv, DataInv
             PROVE  TypeOK
  OBVIOUS
<1>1. /\ PlaceOK /\ ListInv /\ OnList \subseteq Chunks /\ start_chunk \in OnList /\ end_chunk \in OnList
      /\ NoChunk \notin OnList
  BY OnListType DEF AmountInv, PlaceOK
<1>2. DOMAIN chunk = Ptr /\ deq_tree \subseteq Chunks
  BY DEF DataInv, DataType
<1>3. ASSUME NEW c \in Ptr
      PROVE  chunk[c] \in [start : Pos, next : Ptr, data : [0 .. ChunkLen[c] - 1 -> 0 .. W]]
  <2>1. /\ chunk[c] = [start |-> chunk[c].start, next |-> chunk[c].next, data |-> chunk[c].data]
        /\ chunk[c].next \in Ptr
    BY <1>1 DEF ListInv, Fields, Linked
  <2>2. chunk[c].start \in Pos /\ chunk[c].data \in [0 .. ChunkLen[c] - 1 -> 0 .. W]
    BY DEF DataInv, DataType
  <2> QED
    BY <2>1, <2>2
<1>4. free \subseteq Chunks
  BY <1>1 DEF ListInv, ChunksConserved
<1>5. {head_chunk, tail_chunk, ooo_enq, ooo_deq} \subseteq Ptr /\ enq_tree \subseteq Chunks
  <2>1. /\ head_chunk # NoChunk => head_chunk \in OnList
        /\ ooo_deq # NoChunk => ooo_deq \in OnList
    BY DEF PointerInv, HeadOK, HoldsAt
  <2>2. /\ tail_chunk # NoChunk => tail_chunk \in OnList
        /\ ooo_enq # NoChunk => ooo_enq \in OnList
        /\ enq_tree \subseteq OnList
    BY DEF PointerInv, TailOK, HoldsAt, EnqOK, EnqTree, EnqLast
  <2> QED
    BY <1>1, <2>1, <2>2 DEF Ptr
<1>6. head \in Pos /\ tail \in Pos /\ written \subseteq Pos
  BY DEF AmountInv, IndexOK, OooOK
<1>7. ooo_segments \in Seq([start : Pos, length : 1 .. Size])
  <2>1. /\ SegsOK(ooo_segments, Tl, Room) /\ Tl \in Pos /\ Room \in Nat /\ Size \in Nat
        /\ Room <= Size - Used /\ Used \in Nat
    BY Amounts, Numbers DEF AmountInv, IndexOK, OooOK
  <2>2. PICK t \in Pos, lim \in Nat, segs \in {ooo_segments} : lim <= Size /\ SegsOK(segs, t, lim)
    BY <2>1
  <2>3. segs \in Seq(Segment)
    BY <2>2 DEF SegsOK
  <2>4. ASSUME NEW i \in 1 .. Len(segs)
        PROVE  segs[i] \in [start : Pos, length : 1 .. Size]
    <3>1. segs[i] \in Segment /\ To(segs, t, i) <= lim
      BY <2>2, <2>3 DEF SegsOK
    <3>2. PICK p \in Pos, n \in Nat \ {0} : segs[i] = [start |-> p, length |-> n]
      BY <3>1 DEF Segment
    <3>3. Diff(p, t) \in Nat /\ To(segs, t, i) = Diff(p, t) + n
      BY <3>2, Counted DEF To, From
    <3>4. n \in 1 .. Size
      BY <2>1, <2>2, <3>1, <3>3
    <3> QED
      BY <3>2, <3>4
  <2>5. segs \in Seq([start : Pos, length : 1 .. Size])
    <3>1. PICK S : S = [start : Pos, length : 1 .. Size]
      OBVIOUS
    <3>2. \A i \in 1 .. Len(segs) : segs[i] \in S
      BY <2>4, <3>1
    <3>3. segs \in Seq(S)
      BY <2>3, <3>2
    <3> QED
      BY <3>1, <3>3
  <2> QED
    BY <2>2, <2>5
<1>8. ooos_newest \in 0 .. W
  <2>1. W \in Nat \ {0}
    BY Numbers
  <2>2. CASE ooos_newest = NoSeg
    BY <2>1, <2>2 DEF NoSeg
  <2>3. CASE ooos_newest # NoSeg
    <3>1. PICK i \in 1 .. Len(ooo_segments) : ooo_segments[i].start = ooos_newest
      BY <2>3 DEF AmountInv, OooOK
    <3>2. ooo_segments \in Seq(Segment)
      BY DEF AmountInv, OooOK, SegsOK
    <3>3. ooo_segments[i] \in Segment
      BY <3>1, <3>2
    <3>4. ooos_newest \in Pos
      BY <3>1, <3>3 DEF Segment
    <3> QED
      BY <2>1, <3>4 DEF Pos
  <2> QED
    BY <2>2, <2>3
<1> QED
  BY <1>1, <1>2, <1>3, <1>4, <1>5, <1>6, <1>7, <1>8 DEF TypeOK

-----------------------------------------------------------------------------
(* The theorems.                                                           *)

\* The inductive invariant: amounts, pointers, bytes.
FifoInv == AmountInv /\ PointerInv /\ DataInv

\* It holds in every reachable state.
LEMMA FifoInvariant == Spec => []FifoInv
<1>1. Init => FifoInv
  BY AmountInit, PointerInit, DataInit DEF FifoInv
<1>2. FifoInv /\ [Next]_vars => FifoInv'
  BY AmountNext, PointerNext, DataNext DEF FifoInv
<1> QED
  BY <1>1, <1>2, PTL DEF Spec

\* The fifo's fields keep their types: indexes are positions, chunk pointers
\* name chunks of the slice, segments lie within the size of the fifo.
THEOREM FifoTypeCorrect == Spec => []TypeOK
<1>1. FifoInv => TypeOK
  BY TypeFromData DEF FifoInv
<1> QED
  BY <1>1, FifoInvariant, PTL

\* Nothing enqueued is lost: every byte the consumer is not done with is found
\* from start_chunk and holds what was enqueued at its position, whatever
\* chunks the producer links and the consumer gives back meanwhile.
THEOREM StreamAlwaysIntact == Spec => []StreamIntact
<1>1. FifoInv => StreamIntact
  BY StreamFromData DEF FifoInv
<1> QED
  BY <1>1, FifoInvariant, PTL

\* svm_fifo_dequeue and svm_fifo_peek copy out the bytes of the stream at the
\* positions asked for, at whatever moment of the producer's calls they copy.
THEOREM ReadAlwaysExact == Spec => []ReadExact
<1>1. FifoInv => ReadExact
  BY ReadFromData DEF FifoInv
<1> QED
  BY <1>1, FifoInvariant, PTL
=============================================================================
