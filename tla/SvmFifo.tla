------------------------------- MODULE SvmFifo -------------------------------
(***************************************************************************)
(* The shared memory byte fifo between an application and the session      *)
(* layer (svm/svm_fifo.c, svm/svm_fifo.h): one producer and one consumer,  *)
(* no lock.  Each side owns one index (tail, head) and reads the other's;  *)
(* the bytes live in a list of chunks that the producer extends at its end *)
(* and the consumer unlinks at its start, while out-of-order data is       *)
(* tracked past the tail by the producer.                                  *)
(*                                                                         *)
(* A byte is the stream position it belongs to, so that a read can be      *)
(* compared with what it should have returned.  Positions are u32 in the   *)
(* code and counted modulo W here.  The segment allocator (fifo_segment.c) *)
(* is shared with the other fifos of the segment: it may fail at any time, *)
(* and the content of a chunk is lost when the chunk is collected.         *)
(***************************************************************************)
EXTENDS Integers, Sequences, FiniteSets, SequencesExt

CONSTANTS
    Chunks,     \* the chunks of the segment slice
    NoChunk,    \* a null chunk pointer
    ChunkLen,   \* the length of a chunk, for each chunk
    FirstChunk, \* the chunk a new fifo is given
    Size,       \* shr->size
    MinAlloc,   \* shr->min_alloc
    W,          \* positions are numbers modulo W (2^32 in the code)
    Kinds,      \* which lookup trees the fifo has: subset of {"rx", "tx", "plain"}
    EnqLens,    \* lengths the producer asks for
    Offsets,    \* offsets of out-of-order enqueues
    DeqLens,    \* lengths the consumer asks for
    PeekOffsets \* offsets of peeks

VARIABLES
    chunk,          \* start_byte, next and data of every chunk
    free,           \* the free lists of the slice
    start_chunk, end_chunk,
    head, head_chunk,          \* written by the consumer only
    tail, tail_chunk,          \* written by the producer only
    ooo_segments, ooos_newest, \* out-of-order segments, sorted by position
    ooo_enq, enq_tree,         \* chunk of the last out-of-order write, lookup tree
    ooo_deq, deq_tree,         \* chunk of the last peek, lookup tree
    kind,           \* what the fifo is used for
    prod, cons,     \* the call each side is in
    written         \* history: positions past tail that hold their byte

shared == <<chunk, free, start_chunk>>
prodVars == <<end_chunk, tail_chunk, ooo_segments, ooos_newest, ooo_enq, enq_tree, written>>
consVars == <<head_chunk, ooo_deq, deq_tree>>
vars == <<shared, prodVars, consVars, head, tail, kind, prod, cons>>

Ptr == Chunks \union {NoChunk}
Pos == 0 .. W - 1
Junk == W                   \* a byte nobody wrote
NoSeg == W                  \* OOO_SEGMENT_INVALID_INDEX
Idle == [at |-> "idle"]

MaxLen == CHOOSE n \in {ChunkLen[c] : c \in Chunks} : \A c \in Chunks : ChunkLen[c] <= n

(***************************************************************************)
(* The list never spans half the position space: the signed comparisons of *)
(* positions would turn around.                                            *)
(***************************************************************************)
ASSUME ConstantsOK ==
    /\ IsFiniteSet(Chunks) /\ FirstChunk \in Chunks /\ NoChunk \notin Chunks
    /\ MaxLen \in Nat /\ ChunkLen[NoChunk] = 0
    /\ \A c \in Chunks : ChunkLen[c] \in 1 .. MaxLen
    /\ Size \in Nat \ {0} /\ MinAlloc \in Nat \ {0} /\ W \in Nat
    /\ 2 * (Size + MinAlloc + 2 * MaxLen - 2) < W
    /\ Kinds \subseteq {"rx", "tx", "plain"}
    /\ EnqLens \union Offsets \union DeqLens \subseteq Nat \ {0}
    /\ PeekOffsets \subseteq Nat

-----------------------------------------------------------------------------
(* Positions and chunks.                                                   *)
\* Fault: positions do not wrap.
AddUnwrapped(a, n) == a + n
Add(a, n) == (a + n) % W
Diff(a, b) == (a - b) % W
f_pos_lt(a, b) == 2 * Diff(a, b) >= W
f_pos_leq(a, b) == a = b \/ f_pos_lt(a, b)
f_chunk_end(c) == Add(chunk[c].start, ChunkLen[c])
f_chunk_includes_pos(ch, c, pos) ==
    ~f_pos_lt(pos, ch[c].start) /\ f_pos_lt(pos, Add(ch[c].start, ChunkLen[c]))
f_cursize(h, t) == Diff(t, h)
f_free_count(h, t) == Size - f_cursize(h, t)

\* The chunks met from c on by following next; off counts the bytes from the
\* position pos, which lies in c, to the first byte of each.
Walk(ch, c, pos) ==
    LET w[n \in 0 .. Cardinality(Chunks)] ==
            IF n = 0 THEN [c |-> c, off |-> -Diff(pos, ch[c].start)]
            ELSE LET p == w[n - 1] IN [c |-> ch[p.c].next, off |-> p.off + ChunkLen[p.c]]
    IN  w

List(ch, c) == {Walk(ch, c, 0)[n].c : n \in 0 .. Cardinality(Chunks)} \ {NoChunk}

\* The first chunk from c on that is one of those, or a null pointer.
FirstFrom(ch, c, those) ==
    LET w == Walk(ch, c, 0)
        S == {n \in DOMAIN w : w[n].c \in those \union {NoChunk}}
    IN  IF S = {} THEN NoChunk ELSE w[CHOOSE n \in S : \A m \in S : n <= m].c

svm_fifo_find_next_chunk(ch, c, pos) ==
    FirstFrom(ch, c, {d \in Chunks : f_chunk_includes_pos(ch, d, pos)})

\* The chunks from c up to the one that includes pos, that one left out.
Before(ch, c, pos) ==
    List(ch, c) \ List(ch, svm_fifo_find_next_chunk(ch, c, pos))

\* svm_fifo_copy_to_chunk: the bytes pos .. pos+len-1 written from c on.
CopyTo(ch, c, pos, len) ==
    LET w == Walk(ch, c, pos)
        At(d) == {n \in DOMAIN w : w[n].c = d}
    IN  [d \in Ptr |->
           IF d = NoChunk \/ At(d) = {} THEN ch[d]
           ELSE LET off == w[CHOOSE n \in At(d) : TRUE].off IN
                [ch[d] EXCEPT !.data = [i \in DOMAIN @ |->
                    IF off + i \in 0 .. len - 1 THEN Add(pos, off + i) ELSE @[i]]]]

\* svm_fifo_copy_from_chunk: the len bytes read from pos on.
CopyFrom(ch, c, pos, len) ==
    LET w == Walk(ch, c, pos)
        In(n, j) == j - w[n].off \in 0 .. ChunkLen[w[n].c] - 1
    IN  [j \in 0 .. len - 1 |->
           IF \E n \in DOMAIN w : In(n, j)
           THEN LET n == CHOOSE n \in DOMAIN w : In(n, j) IN ch[w[n].c].data[j - w[n].off]
           ELSE Junk]

\* The chunk a copy of len bytes stops in: the next one (or null) when it
\* used up the last byte of its chunk.
Stop(ch, c, pos, len) ==
    LET w == Walk(ch, c, pos)
        S == {n \in DOMAIN w : w[n].c = NoChunk \/ len < w[n].off + ChunkLen[w[n].c]}
    IN  w[CHOOSE n \in S : \A m \in S : n <= m].c

\* f_find_node_rbtree: the chunk of the tree with the greatest start <= pos.
Floor(tree, pos) ==
    LET S == {c \in tree : f_pos_leq(chunk[c].start, pos)}
    IN  IF S = {} THEN NoChunk
        ELSE CHOOSE c \in S : \A d \in S : f_pos_leq(chunk[d].start, chunk[c].start)

\* f_update_ooo_enq, f_update_ooo_deq with a tree: the tree after the chunks
\* up to the one that includes to were added, root being the first of an empty
\* tree, and the chunk found for from (old when none was met).
UpdateLookup(tree, root, old, from, to) ==
    LET c     == IF tree = {} THEN root ELSE Floor(tree, from)
        t0    == IF tree = {} THEN {root} ELSE tree
        first == chunk[c].next
        known == FirstFrom(chunk, first, t0)
        upto  == svm_fifo_find_next_chunk(chunk, first, to)
        added == IF f_chunk_includes_pos(chunk, c, to) THEN {}
                 ELSE List(chunk, first) \ (List(chunk, known) \union List(chunk, chunk[upto].next))
        found == {d \in added \union {c} : f_chunk_includes_pos(chunk, d, from)}
    IN  [tree |-> (t0 \union added) \ {NoChunk},
         c    |-> IF found = {} THEN old ELSE CHOOSE d \in found : TRUE]

-----------------------------------------------------------------------------
(* Out-of-order segments: the linked list is a sequence here.              *)
ooo_segment_end_pos(s) == Add(s.start, s.length)

\* Fault: the segments covered whole are taken out, the one that is only
\* touched stays.
ExtendTailOnly(segs, i, end, newest) ==
    LET s == segs[i] IN
    IF f_pos_leq(end, ooo_segment_end_pos(s)) THEN [segs |-> segs, newest |-> newest]
    ELSE [segs |-> SubSeq(segs, 1, i - 1) \o <<[start |-> s.start, length |-> Diff(end, s.start)]>>
                   \o SelectSeq(SubSeq(segs, i + 1, Len(segs)),
                                LAMBDA r : f_pos_lt(end, ooo_segment_end_pos(r))),
          newest |-> s.start]

\* The tail of segment i moved to at least end, the segments it now covers
\* or touches taken out (the label check_tail).
ExtendTail(segs, i, end, newest) ==
    LET s == segs[i] IN
    IF f_pos_leq(end, ooo_segment_end_pos(s)) THEN [segs |-> segs, newest |-> newest]
    ELSE LET k == CHOOSE k \in i + 1 .. Len(segs) + 1 :
                    /\ \A j \in i + 1 .. k - 1 : f_pos_leq(ooo_segment_end_pos(segs[j]), end)
                    /\ k <= Len(segs) => f_pos_lt(end, ooo_segment_end_pos(segs[k]))
             join == k <= Len(segs) /\ f_pos_leq(segs[k].start, end)
             stop == IF join THEN ooo_segment_end_pos(segs[k]) ELSE end
         IN  [segs |-> SubSeq(segs, 1, i - 1)
                       \o <<[start |-> s.start, length |-> Diff(stop, s.start)]>>
                       \o SubSeq(segs, IF join THEN k + 1 ELSE k, Len(segs)),
              newest |-> s.start]

ooo_segment_add(segs, pos, length) ==
    LET end == Add(pos, length)
        new == [start |-> pos, length |-> length]
        i   == CHOOSE i \in 1 .. Len(segs) :
                 /\ i = Len(segs) \/ ~f_pos_lt(segs[i].start, pos)
                 /\ \A j \in 1 .. i - 1 : f_pos_lt(segs[j].start, pos)
        s   == segs[i]
        grown == [start |-> pos, length |-> Diff(ooo_segment_end_pos(s), pos)]
    IN  CASE segs = <<>> -> [segs |-> <<new>>, newest |-> pos]
          [] segs # <<>> /\ i > 1 /\ f_pos_leq(pos, ooo_segment_end_pos(segs[i - 1])) ->
               ExtendTail(segs, i - 1, end, NoSeg)
          [] OTHER ->
               IF f_pos_lt(end, s.start)
               THEN [segs |-> InsertAt(segs, i, new), newest |-> pos]
               ELSE IF f_pos_lt(ooo_segment_end_pos(s), pos)
               THEN [segs |-> Append(segs, new), newest |-> pos]
               ELSE IF f_pos_lt(pos, s.start)
               THEN ExtendTail([segs EXCEPT ![i] = grown], i, end, pos)
               ELSE ExtendTail(segs, i, end, NoSeg)

\* Fault: the part of the segment the tail had already passed is counted again.
CollectWhole(segs, n, t) ==
    LET reached == segs # <<>> /\ Diff(t, segs[1].start) < n
    IN  [segs |-> IF reached THEN Tail(segs) ELSE segs,
         tail |-> IF reached THEN Add(t, segs[1].length) ELSE t]

\* The segments the tail t, just moved by n bytes, has reached are taken out
\* and the tail goes to the end of the one it lies in.
ooo_segment_try_collect(segs, n, t) ==
    LET diff(i) == Diff(t, segs[i].start)
        past(i) == diff(i) < n /\ segs[i].length <= diff(i)
        i == CHOOSE i \in 1 .. Len(segs) + 1 :
               (\A j \in 1 .. i - 1 : past(j)) /\ (i <= Len(segs) => ~past(i))
        reached == i <= Len(segs) /\ diff(i) < n
    IN  [segs |-> SubSeq(segs, IF reached THEN i + 1 ELSE i, Len(segs)),
         tail |-> IF reached THEN Add(t, segs[i].length - diff(i)) ELSE t]

-----------------------------------------------------------------------------
(* A new fifo: svm_fifo_init after fs_try_alloc_fifo, ooo lookups as        *)
(* transport_fifos_init_ooo sets them up for a TCP connection.              *)
Init ==
    /\ kind \in Kinds
    /\ chunk = [c \in Ptr |-> [start |-> 0, next |-> NoChunk,
                               data |-> [i \in 0 .. ChunkLen[c] - 1 |-> Junk]]]
    /\ free = Chunks \ {FirstChunk}
    /\ start_chunk = FirstChunk /\ end_chunk = FirstChunk
    /\ head_chunk = FirstChunk /\ tail_chunk = FirstChunk
    /\ head = 0 /\ tail = 0
    /\ ooo_segments = <<>> /\ ooos_newest = NoSeg
    /\ ooo_enq = NoChunk /\ ooo_deq = NoChunk
    /\ enq_tree = {} /\ deq_tree = {}
    /\ prod = Idle /\ cons = Idle
    /\ written = {}

-----------------------------------------------------------------------------
(* The producer.                                                           *)

\* What f_try_chunk_alloc asks the segment for.
AllocSize(len) ==
    LET want == Size - f_cursize(head, tail)
        min  == IF MinAlloc < want THEN MinAlloc ELSE want
        lack == len - Diff(f_chunk_end(end_chunk), tail)
    IN  IF min < lack THEN lack ELSE min

\* A call that passed its checks; it needs more chunks (need # 0) when it would
\* write past the end of the list.
ProdCall(op, len, off) ==
    LET need == IF op = "fill" \/ f_pos_lt(f_chunk_end(end_chunk), Add(tail, off + len))
                THEN AllocSize(off + len) ELSE 0
    IN  [at |-> IF need = 0 THEN "copy" ELSE "alloc",
         op |-> op, len |-> len, off |-> off, need |-> need, old |-> tail_chunk]

\* svm_fifo_enqueue, and svm_fifo_enqueue_segments in its two forms: the head
\* is loaded, as much as is free is asked for, or all or nothing.
EnqueueStart(op) ==
    /\ prod.at = "idle"
    /\ ooos_newest' = NoSeg
    /\ \E len \in EnqLens :
         LET n == f_free_count(head, tail) IN
         prod' = IF n = 0 \/ (op = "segments" /\ n < len) THEN Idle
                 ELSE ProdCall(op, IF n < len THEN n ELSE len, 0)
    /\ UNCHANGED <<shared, consVars, head, tail, kind, cons,
                   end_chunk, tail_chunk, ooo_segments, ooo_enq, enq_tree, written>>

\* svm_fifo_enqueue_with_offset
EnqueueWithOffsetStart ==
    /\ prod.at = "idle" /\ kind = "rx"
    /\ ooos_newest' = NoSeg
    /\ \E len \in EnqLens, off \in Offsets :
         prod' = IF len + off > f_free_count(head, tail) THEN Idle ELSE ProdCall("offset", len, off)
    /\ UNCHANGED <<shared, consVars, head, tail, kind, cons,
                   end_chunk, tail_chunk, ooo_segments, ooo_enq, enq_tree, written>>

\* svm_fifo_provision_chunks, for data written in place, and svm_fifo_fill_chunk_list
ProvisionStart ==
    /\ prod.at = "idle" /\ kind # "rx"
    /\ \/ \E len \in EnqLens :
            /\ len <= f_free_count(head, tail)
            /\ prod' = ProdCall("nocopy", len, 0)
       \/ /\ Diff(f_chunk_end(end_chunk), head) < Size
          /\ prod' = ProdCall("fill", f_free_count(head, tail), 0)
    /\ UNCHANGED <<shared, consVars, prodVars, head, tail, kind, cons>>

\* The bytes the first i chunks of s hold together.
BytesTo(s) ==
    LET b[i \in 0 .. Len(s)] == IF i = 0 THEN 0 ELSE b[i - 1] + ChunkLen[s[i]] IN b

\* fsh_alloc_chunk: chunks that together hold n bytes, none of them needless.
Lists(n) ==
    {s \in UNION {[1 .. k -> free] : k \in 1 .. Cardinality(free)} :
        /\ \A i, j \in DOMAIN s : i # j => s[i] # s[j]
        /\ BytesTo(s)[Len(s)] >= n /\ BytesTo(s)[Len(s) - 1] < n}

\* f_try_chunk_alloc; linking the list is what the consumer can see of it.
f_try_chunk_alloc(s) ==
    LET from(i) == BytesTo(s)[i - 1]
        index(c) == CHOOSE i \in DOMAIN s : s[i] = c
    IN  /\ chunk' = [c \in Ptr |->
             IF c \in Range(s)
             THEN [start |-> Add(f_chunk_end(end_chunk), from(index(c))),
                   next |-> IF c = Last(s) THEN NoChunk ELSE s[index(c) + 1],
                   data |-> chunk[c].data]
             ELSE IF c = end_chunk THEN [chunk[c] EXCEPT !.next = s[1]]
             ELSE chunk[c]]
        /\ free' = free \ Range(s)
        /\ end_chunk' = s[Len(s)]
        /\ tail_chunk' = IF tail_chunk = NoChunk THEN s[1] ELSE tail_chunk

Alloc ==
    /\ prod.at = "alloc"
    /\ \E s \in Lists(prod.need) : f_try_chunk_alloc(s)
    /\ prod' = IF prod.op = "fill" THEN Idle ELSE [prod EXCEPT !.at = "copy", !.need = 0]
    /\ UNCHANGED <<start_chunk, ooo_segments, ooos_newest, ooo_enq, enq_tree, written,
                   consVars, head, tail, kind, cons>>

\* No memory: an enqueue takes what fits, the other calls give up.
AllocFails ==
    /\ prod.at = "alloc"
    /\ LET rest == Diff(f_chunk_end(end_chunk), tail) IN
       prod' = IF prod.op \in {"enqueue", "partial"} /\ rest # 0
               THEN [prod EXCEPT !.at = "copy", !.need = 0, !.len = rest] ELSE Idle
    /\ UNCHANGED <<shared, consVars, prodVars, head, tail, kind, cons>>

\* The bytes of an in-order enqueue, then the segments the tail has reached.
CopyInOrder ==
    /\ prod.at = "copy" /\ prod.op \in {"enqueue", "segments", "partial"}
    /\ LET old == IF prod.op = "enqueue" THEN tail_chunk ELSE prod.old
           t1  == Add(tail, prod.len)
           col == ooo_segment_try_collect(ooo_segments, prod.len, t1)
           c   == svm_fifo_find_next_chunk(chunk, old, col.tail)
           left == enq_tree \ Before(chunk, old, col.tail)
       IN  /\ chunk' = CopyTo(chunk, tail_chunk, tail, prod.len)
           /\ IF ooo_segments = <<>>
              THEN /\ tail_chunk' = Stop(chunk, tail_chunk, tail, prod.len)
                   /\ UNCHANGED <<ooo_segments, ooo_enq, enq_tree>>
              ELSE /\ ooo_segments' = col.segs
                   /\ tail_chunk' = c
                   /\ enq_tree' = IF col.segs = <<>> THEN left \ {c} ELSE left
                   /\ ooo_enq' = NoChunk
           /\ written' = written \ {Add(tail, i) : i \in 0 .. Diff(col.tail, tail) - 1}
           /\ prod' = [at |-> "publish", tail |-> col.tail]
    /\ UNCHANGED <<free, start_chunk, end_chunk, ooos_newest, consVars, head, tail, kind, cons>>

\* The bytes of an out-of-order enqueue; the tail does not move.
CopyAtOffset ==
    /\ prod.at = "copy" /\ prod.op = "offset"
    /\ LET pos == Add(tail, prod.off)
           add == ooo_segment_add(ooo_segments, pos, prod.len)
           lookup == IF ooo_enq = NoChunk \/ ~f_chunk_includes_pos(chunk, ooo_enq, pos)
                     THEN UpdateLookup(enq_tree, tail_chunk, ooo_enq, pos, Add(pos, prod.len))
                     ELSE [tree |-> enq_tree, c |-> ooo_enq]
       IN  /\ ooo_segments' = add.segs /\ ooos_newest' = add.newest
           /\ enq_tree' = lookup.tree
           /\ chunk' = CopyTo(chunk, lookup.c, pos, prod.len)
           /\ ooo_enq' = Stop(chunk, lookup.c, pos, prod.len)
           /\ written' = written \union {Add(pos, i) : i \in 0 .. prod.len - 1}
    /\ prod' = Idle
    /\ UNCHANGED <<free, start_chunk, end_chunk, tail_chunk, consVars, head, tail, kind, cons>>

\* The application fills the provisioned chunks and svm_fifo_enqueue_nocopy
\* moves the tail.
CopyInPlace ==
    /\ prod.at = "copy" /\ prod.op = "nocopy"
    /\ chunk' = CopyTo(chunk, tail_chunk, tail, prod.len)
    /\ LET t1 == Add(tail, prod.len) IN
         /\ tail_chunk' = svm_fifo_find_next_chunk(chunk, tail_chunk, t1)
         /\ prod' = [at |-> "publish", tail |-> t1]
    /\ UNCHANGED <<free, start_chunk, end_chunk, ooo_segments, ooos_newest, ooo_enq, enq_tree,
                   written, consVars, head, tail, kind, cons>>

PublishTail ==
    /\ prod.at = "publish"
    /\ tail' = prod.tail
    /\ prod' = Idle
    /\ UNCHANGED <<shared, consVars, prodVars, head, kind, cons>>

-----------------------------------------------------------------------------
(* The consumer.                                                           *)
svm_fifo_find_chunk(pos) == svm_fifo_find_next_chunk(chunk, start_chunk, pos)
Stay == <<shared, prodVars, consVars, head, tail, kind, prod>>

\* svm_fifo_dequeue, svm_fifo_dequeue_drop: the tail is loaded; nothing is
\* done on an empty fifo.
DequeueStart ==
    /\ cons.at = "idle" /\ f_cursize(head, tail) # 0
    /\ \E len \in DeqLens, op \in {"dequeue", "drop"} :
         LET n == f_cursize(head, tail) IN
         /\ op = "dequeue" => kind # "tx"
         /\ cons' = [at |-> IF op = "dequeue" THEN "copy" ELSE "unlink", op |-> op,
                     len |-> IF n < len THEN n ELSE len, off |-> 0]
    /\ UNCHANGED Stay

\* svm_fifo_peek; left out is an offset of exactly the fill level, at which
\* nothing is read.
PeekStart ==
    /\ cons.at = "idle"
    /\ \E len \in DeqLens, off \in PeekOffsets :
         LET n == f_cursize(head, tail) IN
         /\ off < n
         /\ cons' = [at |-> "copy", op |-> "peek", len |-> IF n - off < len THEN n - off ELSE len,
                     off |-> off]
    /\ UNCHANGED Stay

\* svm_fifo_dequeue_drop_all; the session layer calls it on the fifo of a
\* TCP connection once the connection is gone.
DropAllStart ==
    /\ cons.at = "idle" /\ kind # "rx"
    /\ cons' = [at |-> "unlink", op |-> "drop_all", len |-> f_cursize(head, tail), off |-> 0]
    /\ UNCHANGED Stay

\* Where a copy starts: for a dequeue the chunk of the head, for a peek the
\* chunk of the last peek or the one the lookup finds.
HeadChunk == IF head_chunk = NoChunk THEN svm_fifo_find_chunk(head) ELSE head_chunk

\* Fault: a peek that starts where the last one did not still goes on from there.
PeekLast ==
    LET pos == Add(head, cons.off) IN
    IF ooo_deq # NoChunk THEN [tree |-> deq_tree, c |-> ooo_deq]
    ELSE IF kind = "tx"
    THEN UpdateLookup(deq_tree, start_chunk, ooo_deq, pos, Add(pos, cons.len))
    ELSE [tree |-> deq_tree, c |-> svm_fifo_find_chunk(pos)]

PeekLookup ==
    LET pos == Add(head, cons.off) IN
    IF ooo_deq # NoChunk /\ f_chunk_includes_pos(chunk, ooo_deq, pos)
    THEN [tree |-> deq_tree, c |-> ooo_deq]
    ELSE IF kind = "tx"
    THEN UpdateLookup(deq_tree, start_chunk, ooo_deq, pos, Add(pos, cons.len))
    ELSE [tree |-> deq_tree, c |-> svm_fifo_find_chunk(pos)]
BytesRead ==
    CopyFrom(chunk, IF cons.op = "peek" THEN PeekLookup.c ELSE HeadChunk,
             Add(head, cons.off), cons.len)

CopyOut ==
    /\ cons.at = "copy" /\ cons.op = "dequeue"
    /\ head_chunk' = Stop(chunk, HeadChunk, head, cons.len)
    /\ cons' = [cons EXCEPT !.at = "unlink"]
    /\ UNCHANGED <<shared, prodVars, ooo_deq, deq_tree, head, tail, kind, prod>>

Peek ==
    /\ cons.at = "copy" /\ cons.op = "peek"
    /\ deq_tree' = PeekLookup.tree
    /\ ooo_deq' = Stop(chunk, PeekLookup.c, Add(head, cons.off), cons.len)
    /\ cons' = Idle
    /\ UNCHANGED <<shared, prodVars, head_chunk, head, tail, kind, prod>>

\* f_unlink_chunks: the chunks before the one that includes pos, the last one
\* of the list always stays.  fsh_collect_chunks gives them back.
Unlink(pos, maybe_ooo) ==
    LET found == svm_fifo_find_next_chunk(chunk, chunk[start_chunk].next, pos)
        c == IF found = NoChunk
             THEN FirstFrom(chunk, start_chunk, {d \in Chunks : chunk[d].next = NoChunk})
             ELSE found
        gone == List(chunk, start_chunk) \ List(chunk, c)
        cleared == IF found = NoChunk THEN List(chunk, start_chunk) ELSE gone
    IN  [start |-> c, gone |-> gone,
         tree |-> IF maybe_ooo THEN deq_tree \ cleared ELSE deq_tree,
         ooo |-> IF maybe_ooo /\ ooo_deq # NoChunk /\ ~f_pos_lt(chunk[ooo_deq].start, f_chunk_end(c))
                 THEN ooo_deq ELSE NoChunk]

\* Fault: unlinked chunks are not given back.
CollectNone(gone) == UNCHANGED <<chunk, free>>

Collect(gone) ==
    /\ chunk' = [c \in Ptr |->
         IF c \in gone THEN [start |-> 0, next |-> NoChunk,
                             data |-> [i \in DOMAIN chunk[c].data |-> Junk]]
         ELSE chunk[c]]
    /\ free' = free \union gone

\* The end of svm_fifo_dequeue, svm_fifo_dequeue_drop and
\* svm_fifo_dequeue_drop_all up to the store of the head.
UnlinkChunks ==
    /\ cons.at = "unlink"
    /\ LET pos == Add(head, cons.len)
           u == Unlink(pos, cons.op = "drop")
           hc == IF head_chunk = NoChunk \/ ~f_chunk_includes_pos(chunk, head_chunk, head)
                 THEN svm_fifo_find_chunk(head) ELSE head_chunk
           all == cons.op = "drop_all"
           tree == IF all THEN deq_tree \ Before(chunk, hc, pos) ELSE deq_tree
           moved == IF all THEN svm_fifo_find_next_chunk(chunk, hc, pos) ELSE head_chunk
       IN  IF f_pos_lt(pos, f_chunk_end(start_chunk))
           THEN /\ head_chunk' = moved /\ deq_tree' = tree
                /\ UNCHANGED <<shared, ooo_deq>>
           ELSE /\ Collect(u.gone)
                /\ start_chunk' = u.start
                /\ head_chunk' = IF cons.op # "drop" THEN moved
                                 ELSE IF f_chunk_includes_pos(chunk, u.start, pos) THEN u.start ELSE NoChunk
                /\ deq_tree' = IF all THEN tree ELSE u.tree
                /\ ooo_deq' = u.ooo
    /\ cons' = [cons EXCEPT !.at = "publish"]
    /\ UNCHANGED <<prodVars, head, tail, kind, prod>>

PublishHead ==
    /\ cons.at = "publish"
    /\ head' = Add(head, cons.len)
    /\ cons' = IF cons.op = "drop_all" /\ kind = "tx" THEN [at |-> "closed"] ELSE Idle
    /\ UNCHANGED <<shared, prodVars, consVars, tail, kind, prod>>

-----------------------------------------------------------------------------
Producer ==
    \/ \E op \in {"enqueue", "segments", "partial"} : EnqueueStart(op)
    \/ EnqueueWithOffsetStart \/ ProvisionStart
    \/ Alloc \/ AllocFails
    \/ CopyInOrder \/ CopyAtOffset \/ CopyInPlace
    \/ PublishTail

Consumer ==
    \/ DequeueStart \/ PeekStart \/ DropAllStart
    \/ CopyOut \/ Peek \/ UnlinkChunks \/ PublishHead

Next == Producer \/ Consumer
Spec == Init /\ [][Next]_vars

-----------------------------------------------------------------------------
(* Properties.                                                             *)

\* The variables keep their types: indexes are u32, chunk pointers name a
\* chunk of the slice or are null.
TypeOK ==
    /\ DOMAIN chunk = Ptr
    /\ \A c \in Ptr : chunk[c] \in [start : Pos, next : Ptr, data : [0 .. ChunkLen[c] - 1 -> 0 .. W]]
    /\ free \subseteq Chunks
    /\ {start_chunk, end_chunk} \subseteq Chunks
    /\ {head_chunk, tail_chunk, ooo_enq, ooo_deq} \subseteq Ptr
    /\ {head, tail} \subseteq Pos
    /\ ooo_segments \in Seq([start : Pos, length : 1 .. Size]) /\ ooos_newest \in 0 .. W
    /\ enq_tree \subseteq Chunks /\ deq_tree \subseteq Chunks
    /\ written \subseteq Pos

\* A consumer that copies bytes out (svm_fifo_dequeue, svm_fifo_peek) gets, at
\* whatever moment of the producer's call it copies, the bytes of the stream at
\* the positions it asked for: never an overwritten, unwritten or freed byte.
ReadExact ==
    cons.at = "copy" =>
        BytesRead = [j \in 0 .. cons.len - 1 |-> Add(head, cons.off + j)]

\* Every enqueued byte the consumer is not done with can be reached from
\* start_chunk and still holds what was enqueued, and the fifo never holds more
\* than its size.
StreamIntact ==
    LET h == IF cons.at = "publish" THEN Add(head, cons.len) ELSE head IN
    /\ f_cursize(head, tail) <= Size
    /\ \A i \in 0 .. f_cursize(h, tail) - 1 :
         LET pos == Add(h, i) IN
         CopyFrom(chunk, svm_fifo_find_chunk(pos), pos, 1) = [j \in {0} |-> pos]

\* No chunk is lost and none is in two places: a chunk of the slice is either
\* in the fifo's list or free.
ChunksConserved == free = Chunks \ List(chunk, start_chunk)

\* The out-of-order list is sorted, its segments neither touch each other nor
\* the tail, and together they are exactly the positions past the tail that
\* were written; the newest segment, which the session layer reports for
\* selective acknowledgements, is one of them.
OooExact ==
    LET t == IF prod.at = "publish" THEN prod.tail ELSE tail
        from(i) == Diff(ooo_segments[i].start, t)
        to(i) == from(i) + ooo_segments[i].length
        n == Len(ooo_segments)
    IN  /\ \A i \in 1 .. n : from(i) > (IF i = 1 THEN 0 ELSE to(i - 1)) /\ to(i) <= Size
        /\ written = {Add(t, j) : j \in UNION {from(i) .. to(i) - 1 : i \in 1 .. n}}
        /\ ooos_newest # NoSeg => \E i \in 1 .. n : ooo_segments[i].start = ooos_newest
=============================================================================
