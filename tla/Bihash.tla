------------------------------- MODULE Bihash -------------------------------
(***************************************************************************)
(* The bounded-index extensible hash of vppinfra (bihash_template.[ch]).   *)
(*                                                                         *)
(* A bucket is one 64-bit word: where its array of key-value pairs is, how *)
(* many pages that has (2^log2_pages), whether they are searched one page  *)
(* or all of them, how many pairs are in use, and a lock that only writers *)
(* take.  A writer changes pairs in place where it can and otherwise       *)
(* builds an array twice or four times the size.  A reader takes no lock:  *)
(* it waits while the lock bit is set and then loads the offset, the flags *)
(* and the pairs one after the other.                                      *)
(*                                                                         *)
(* A pair is free when its value is; its key stays behind.  The first word *)
(* of a freed array is the link of the free list, over the first key.      *)
(*                                                                         *)
(* map is what the table should hold, a call counting from the moment it   *)
(* is visible, or, to a reader that cares, from its return; a reader keeps *)
(* what its key was mapped to while it searched (seen) and whether the     *)
(* array it looks at is still the one it needs (still).  Nothing else      *)
(* reads these.                                                            *)
(***************************************************************************)
EXTENDS Integers, Sequences, SequencesExt, FiniteSets, FiniteSetsExt, TLC

CONSTANTS
    Keys, Values,
    Hash,           \* the hash of every key
    Log2Buckets,    \* log2_nbuckets
    KvpPerPage,     \* BIHASH_KVP_PER_PAGE
    Levels,         \* values of BIHASH_KVP_AT_BUCKET_LEVEL, a subset of BOOLEAN
    Adds,           \* kinds of add called: subset of {"add", "add_new", "add_stale"}
    Writers, Readers,
    Stores,         \* the values each writer stores
    MaxOps, MaxSearches     \* bounds on the calls of writers and of readers

ASSUME ConstantsOK ==
    /\ Hash \in [Keys -> Nat] /\ Stores \in [Writers -> SUBSET Values]
    /\ {Log2Buckets, KvpPerPage, MaxOps, MaxSearches} \subseteq Nat /\ KvpPerPage > 0
    /\ Levels \subseteq BOOLEAN /\ Adds \subseteq {"add", "add_new", "add_stale"}
    /\ "free" \notin Values /\ "nokey" \notin Keys

VARIABLES
    level,          \* BIHASH_KVP_AT_BUCKET_LEVEL of this table
    buckets,        \* the words
    mem,            \* the arrays, by offset
    freelists,      \* of arrays, by log2_pages
    alloc_lock,     \* held or not
    writer, ops,
    reader, searches,
    map, before     \* before: what calls still under way have replaced in map

table == <<level, buckets, mem, freelists, alloc_lock>>
vars == <<table, writer, ops, reader, searches, map, before>>

Free == "free"
NoKey == "nokey"
NBuckets == 2 ^ Log2Buckets
Buckets == 0 .. NBuckets - 1
MaxLog2 == 2 + CHOOSE n \in 0 .. Cardinality(Keys) :
                   2 ^ n * KvpPerPage >= Cardinality(Keys) /\ \A m \in 0 .. n - 1 : 2 ^ m * KvpPerPage < Cardinality(Keys)

\* Offsets: of an array of pages, of the pairs next to a bucket, of a writer's
\* working copy.
Value(n) == <<"value", n>>
Home(b) == <<"bucket", b>>
Copy(w) == <<"copy", w>>
None == <<"none">>

EmptyKvp == [key |-> NoKey, value |-> Free]
NewArray(log2) == [i \in 0 .. 2 ^ log2 * KvpPerPage - 1 |-> EmptyKvp]

EmptyWord == [offset |-> None, lock |-> FALSE, linear |-> FALSE, log2 |-> 0, refcnt |-> 0]

Init ==
    /\ level \in Levels
    /\ buckets = [b \in Buckets |->
                    IF level THEN [EmptyWord EXCEPT !.offset = Home(b), !.refcnt = 1] ELSE EmptyWord]
    /\ mem = IF level THEN [o \in {Home(b) : b \in Buckets} |-> NewArray(0)] ELSE <<>>
    /\ freelists = [l \in 0 .. MaxLog2 |-> <<>>]
    /\ alloc_lock = FALSE
    /\ writer = [w \in Writers |-> [at |-> "idle"]] /\ ops = 0
    /\ reader = [r \in Readers |-> [at |-> "idle"]] /\ searches = 0
    /\ map = [k \in Keys |-> Free] /\ before = [w \in Writers |-> {}]

-----------------------------------------------------------------------------
(* Buckets, pages and arrays.                                              *)
BucketOf(k) == Hash[k] % NBuckets
IsFree(kv) == kv.value = Free
bucket_is_empty(b) == IF level THEN b.log2 = 0 /\ b.refcnt = 1 ELSE b.offset = None

\* extract_bits: the page of a key in an array of 2^log2 pages.
PageOf(k, log2) == (Hash[k] \div NBuckets) % 2 ^ log2

\* The pairs a search for k looks at, given the flags of its bucket.
FirstSlot(k, linear, log2) == IF linear THEN 0 ELSE PageOf(k, log2) * KvpPerPage
Limit(linear, log2) == IF linear THEN 2 ^ log2 * KvpPerPage ELSE KvpPerPage
Slots(k, linear, log2) ==
    LET f == FirstSlot(k, linear, log2) IN f .. f + Limit(linear, log2) - 1

\* value_alloc: an array from the free list or a new one, its pairs marked free.
value_alloc(m, fl, log2) ==
    IF fl[log2] = <<>>
    THEN LET o == Value(Cardinality({p \in DOMAIN m : p[1] = "value"}) + 1) IN
         [m |-> [p \in DOMAIN m \union {o} |-> IF p = o THEN NewArray(log2) ELSE m[p]], fl |-> fl, offset |-> o]
    ELSE LET o == Head(fl[log2]) IN
         [m |-> [m EXCEPT ![o] = [i \in DOMAIN @ |-> [@[i] EXCEPT !.value = Free]]],
          fl |-> [fl EXCEPT ![log2] = Tail(@)], offset |-> o]

\* value_free: the link of the free list goes over the first key.
FreedMem(m, o) == [m EXCEPT ![o][0].key = NoKey]
FreedList(fl, o, log2) == [fl EXCEPT ![log2] = <<o>> \o @]

\* One attempt to put the pairs kvs into a new array of 2^log2 pages, each on
\* the first free slot of its page (or of the array); given back if one does
\* not fit (split_and_rehash, split_and_rehash_linear and the add after them).
Attempt(m, fl, kvs, linear, log2) ==
    LET a == value_alloc(m, fl, log2)
        Put(s, kv) ==
            LET room == {i \in Slots(kv.key, linear, log2) : IsFree(s.array[i])} IN
            IF ~s.ok \/ room = {} THEN [s EXCEPT !.ok = FALSE] ELSE [s EXCEPT !.array[Min(room)] = kv]
        s == FoldLeft(Put, [array |-> a.m[a.offset], ok |-> TRUE], kvs)
        filled == [a.m EXCEPT ![a.offset] = s.array]
    IN  IF s.ok
        THEN [ok |-> TRUE, m |-> filled, fl |-> a.fl, offset |-> a.offset, linear |-> linear, log2 |-> log2]
        ELSE [ok |-> FALSE, m |-> FreedMem(filled, a.offset), fl |-> FreedList(a.fl, a.offset, log2)]

\* Fault: the word of an array that needs a linear search does not say so.
SplitUnflagged(m, fl, kvs, old) ==
    LET once == Attempt(m, fl, kvs, FALSE, old + 1) IN
    IF once.ok THEN once ELSE [Attempt(once.m, once.fl, kvs, TRUE, old + 1) EXCEPT !.linear = FALSE]

\* Twice the pages, then four times, then twice and a linear search.
SplitAndRehash(m, fl, kvs, old) ==
    LET once == Attempt(m, fl, kvs, FALSE, old + 1) IN
    IF once.ok THEN once
    ELSE LET twice == Attempt(once.m, once.fl, kvs, FALSE, old + 2) IN
         IF twice.ok THEN twice ELSE Attempt(twice.m, twice.fl, kvs, TRUE, old + 1)

-----------------------------------------------------------------------------
(* Changes to the table and what the readers of bucket b see of them.      *)
Changes(w, k, v) ==
    /\ map' = [map EXCEPT ![k] = v]
    /\ before' = [before EXCEPT ![w] = @ \union {<<k, map[k]>>}]

Mapped(k) == {map[k]} \union {c[2] : c \in {c \in UNION {before[w] : w \in Writers} : c[1] = k}}

\* A reader is done for when the flags it is about to load are those of another
\* array than the offset it has, or when its array is used for something else.
Observe(b, flags, reused) ==
    LET Spoilt(s) == \/ flags /\ s.at = "flags" /\ BucketOf(s.key) = b
                     \/ s.at \in {"flags", "compare", "read"} /\ s.offset \in reused
    IN  reader' = [r \in Readers |->
            LET s == reader[r] IN
            IF s.at \in {"idle", "done"} THEN s
            ELSE [s EXCEPT !.seen = @ \union {map'[s.key]}, !.still = @ /\ ~Spoilt(s)]]

-----------------------------------------------------------------------------
(* Writers: clib_bihash_add_del_inline_with_hash.                          *)
Key(w) == writer[w].key
Bucket(w) == BucketOf(Key(w))
Word(w) == buckets[Bucket(w)]
Array(w) == mem[Word(w).offset]
IsAdd(w) == writer[w].op # "del"
Kvp(w) == [key |-> Key(w), value |-> writer[w].value]

NoArray(w) == Word(w).offset = None

\* What a call still needs once it has chosen what to do.
Then(w, to) == [at |-> to, key |-> Key(w), value |-> writer[w].value]
Goes(w, to) == writer' = [writer EXCEPT ![w].at = to]
Returns(w) ==
    /\ writer' = [writer EXCEPT ![w] = [at |-> "idle"]]
    /\ before' = [before EXCEPT ![w] = {}]
Unlocked(word) == [word EXCEPT !.lock = FALSE]

\* op: "add", "add_new" (is_add = 2), "add_stale" (with is_stale_cb) or "del".
\* A call that spins on the bucket's lock has not begun.
Call(w, op, k, v) ==
    /\ writer[w].at = "idle" /\ ops < MaxOps /\ ~buckets[BucketOf(k)].lock
    /\ buckets' = [buckets EXCEPT ![BucketOf(k)].lock = TRUE]
    /\ writer' = [writer EXCEPT ![w] = [at |-> "work", op |-> op, key |-> k, value |-> v]]
    /\ ops' = ops + 1
    /\ UNCHANGED <<level, mem, freelists, alloc_lock, reader, searches, map, before>>

\* First element of the bucket: an array of one page, filled before it is seen.
FirstElt(w) ==
    /\ writer[w].at = "work" /\ IsAdd(w) /\ NoArray(w) /\ ~alloc_lock
    /\ LET a == value_alloc(mem, freelists, 0) IN
       /\ mem' = [a.m EXCEPT ![a.offset][0] = Kvp(w)]
       /\ freelists' = a.fl
       /\ writer' = [writer EXCEPT ![w] = Then(w, "publish_first") @@ [new |-> a.offset]]
    /\ UNCHANGED <<level, buckets, alloc_lock, ops, reader, searches, map, before>>

PublishFirst(w) ==
    /\ writer[w].at = "publish_first"
    /\ buckets' = [buckets EXCEPT ![Bucket(w)] = [EmptyWord EXCEPT !.offset = writer[w].new, !.refcnt = 1]]
    /\ map' = [map EXCEPT ![Key(w)] = writer[w].value]
    /\ Observe(Bucket(w), TRUE, {})
    /\ Returns(w)
    /\ UNCHANGED <<level, mem, freelists, alloc_lock, ops, searches>>

WorkSlots(w) == Slots(Key(w), Word(w).linear, Word(w).log2)
Hit(w) == IF NoArray(w) THEN {} ELSE {i \in WorkSlots(w) : ~IsFree(Array(w)[i]) /\ Array(w)[i].key = Key(w)}
Vacant(w) == {i \in WorkSlots(w) : IsFree(Array(w)[i])}
Store(w, i, field, x) == mem' = [mem EXCEPT ![Word(w).offset][i][field] = x]
UnlockBucket(w) == buckets' = [buckets EXCEPT ![Bucket(w)] = Unlocked(@)]

\* The key is there: its value is overwritten, unless that was ruled out.
Replace(w) ==
    /\ writer[w].at = "work" /\ IsAdd(w) /\ Hit(w) # {}
    /\ IF writer[w].op = "add_new"
       THEN UNCHANGED <<mem, map, reader>>
       ELSE /\ Store(w, Min(Hit(w)), "value", writer[w].value)
            /\ map' = [map EXCEPT ![Key(w)] = writer[w].value]
            /\ Observe(Bucket(w), FALSE, {})
    /\ UnlockBucket(w)
    /\ Returns(w)
    /\ UNCHANGED <<level, freelists, alloc_lock, ops, searches>>

\* A free slot: the value first, then the key.
AddValue(w) ==
    /\ writer[w].at = "work" /\ IsAdd(w) /\ ~NoArray(w) /\ Hit(w) = {} /\ Vacant(w) # {}
    /\ Store(w, Min(Vacant(w)), "value", writer[w].value)
    /\ writer' = [writer EXCEPT ![w] = Then(w, "key") @@ [slot |-> Min(Vacant(w))]]
    /\ UNCHANGED <<level, buckets, freelists, alloc_lock, ops, reader, searches, map, before>>

AddKey(w) ==
    /\ writer[w].at = "key"
    /\ Store(w, writer[w].slot, "key", Key(w))
    /\ Changes(w, Key(w), writer[w].value)
    /\ Observe(Bucket(w), FALSE, {})
    /\ Goes(w, "count")
    /\ UNCHANGED <<level, buckets, freelists, alloc_lock, ops, searches>>

CountAndUnlock(w) ==
    /\ writer[w].at = "count"
    /\ buckets' = [buckets EXCEPT ![Bucket(w)] = [Unlocked(@) EXCEPT !.refcnt = @ + 1]]
    /\ Returns(w)
    /\ UNCHANGED <<level, mem, freelists, alloc_lock, ops, reader, searches, map>>

\* No room, but the callback calls pair i stale: it is copied over, key and
\* value in whatever order the copy goes.
OverwriteStale(w, i, field) ==
    /\ writer[w].at = "work" /\ writer[w].op = "add_stale"
    /\ ~NoArray(w) /\ Hit(w) = {} /\ Vacant(w) = {} /\ i \in WorkSlots(w)
    /\ Store(w, i, field, Kvp(w)[field])
    /\ Changes(w, Array(w)[i].key, Free)
    /\ Observe(Bucket(w), FALSE, {})
    /\ writer' = [writer EXCEPT ![w] = Then(w, "stale") @@
                    [slot |-> i, field |-> IF field = "key" THEN "value" ELSE "key"]]
    /\ UNCHANGED <<level, buckets, freelists, alloc_lock, ops, searches>>

OverwriteRest(w) ==
    /\ writer[w].at = "stale"
    /\ Store(w, writer[w].slot, writer[w].field, Kvp(w)[writer[w].field])
    /\ map' = [map EXCEPT ![Key(w)] = writer[w].value]
    /\ Observe(Bucket(w), FALSE, {})
    /\ UnlockBucket(w)
    /\ Returns(w)
    /\ UNCHANGED <<level, freelists, alloc_lock, ops, searches>>

NotFound(w) ==
    /\ writer[w].at = "work" /\ ~IsAdd(w) /\ Hit(w) = {}
    /\ UnlockBucket(w)
    /\ Returns(w)
    /\ UNCHANGED <<level, mem, freelists, alloc_lock, ops, reader, searches, map>>

\* Fault: the key is overwritten by the mark, not the value.
MarkKeyFree(w) ==
    /\ writer[w].at = "work" /\ ~IsAdd(w) /\ Hit(w) # {}
    /\ Store(w, Min(Hit(w)), "key", Free)
    /\ Changes(w, Key(w), Free)
    /\ Observe(Bucket(w), FALSE, {})
    /\ writer' = [writer EXCEPT ![w] = Then(w, "deleted")]
    /\ UNCHANGED <<level, buckets, freelists, alloc_lock, ops, searches>>

MarkFree(w) ==
    /\ writer[w].at = "work" /\ ~IsAdd(w) /\ Hit(w) # {}
    /\ Store(w, Min(Hit(w)), "value", Free)
    /\ Changes(w, Key(w), Free)
    /\ Observe(Bucket(w), FALSE, {})
    /\ writer' = [writer EXCEPT ![w] = Then(w, "deleted")]
    /\ UNCHANGED <<level, buckets, freelists, alloc_lock, ops, searches>>

\* The last pair gone, the array is given back: the bucket goes back to the
\* pairs next to it, or to nothing.
LastGone(w) == IF level THEN Word(w).refcnt = 2 /\ Word(w).log2 > 0 ELSE Word(w).refcnt = 1

Deleted(w) ==
    /\ writer[w].at = "deleted"
    /\ LET b == Bucket(w)
           home == [EmptyWord EXCEPT !.offset = Home(b), !.refcnt = 1]
       IN  IF LastGone(w)
           THEN /\ buckets' = [buckets EXCEPT ![b] = IF level THEN home ELSE EmptyWord]
                /\ mem' = IF level
                          THEN [mem EXCEPT ![Home(b)] = [i \in DOMAIN @ |-> [@[i] EXCEPT !.value = Free]]]
                          ELSE mem
                /\ writer' = [writer EXCEPT ![w] = [at |-> "free", old |-> Word(w)]]
                /\ UNCHANGED <<map, before>> /\ Observe(b, TRUE, {Home(b)})
           ELSE /\ buckets' = [buckets EXCEPT ![b] = [Unlocked(@) EXCEPT !.refcnt = @ - 1]]
                /\ Returns(w)
                /\ UNCHANGED <<mem, reader, map>>
    /\ UNCHANGED <<level, freelists, alloc_lock, ops, searches>>

FreeBackingStore(w) ==
    /\ writer[w].at = "free" /\ ~alloc_lock
    /\ mem' = FreedMem(mem, writer[w].old.offset)
    /\ freelists' = FreedList(freelists, writer[w].old.offset, writer[w].old.log2)
    /\ map' = map /\ Observe(0, FALSE, {writer[w].old.offset})
    /\ Returns(w)
    /\ UNCHANGED <<level, buckets, alloc_lock, ops, searches>>

\* Fault: the old array is given back as soon as the copy is made.
CopyAndClear(w) ==
    /\ writer[w].at = "work" /\ IsAdd(w) /\ ~NoArray(w) /\ Hit(w) = {} /\ Vacant(w) = {} /\ ~alloc_lock
    /\ alloc_lock' = TRUE
    /\ mem' = FreedMem([o \in DOMAIN mem \union {Copy(w)} |-> IF o = Copy(w) THEN Array(w) ELSE mem[o]], Word(w).offset)
    /\ buckets' = [buckets EXCEPT ![Bucket(w)].offset = Copy(w)]
    /\ UNCHANGED <<map, before>> /\ Observe(Bucket(w), FALSE, {Copy(w)})
    /\ writer' = [writer EXCEPT ![w] = Then(w, "split") @@ [saved |-> Word(w)]]
    /\ UNCHANGED <<level, freelists, ops, searches>>

\* Out of space: the readers are sent to a working copy (whose word is locked)
make_working_copy(w) ==
    /\ writer[w].at = "work" /\ IsAdd(w) /\ ~NoArray(w) /\ Hit(w) = {} /\ Vacant(w) = {} /\ ~alloc_lock
    /\ alloc_lock' = TRUE
    /\ mem' = [o \in DOMAIN mem \union {Copy(w)} |-> IF o = Copy(w) THEN Array(w) ELSE mem[o]]
    /\ buckets' = [buckets EXCEPT ![Bucket(w)].offset = Copy(w)]
    /\ UNCHANGED <<map, before>> /\ Observe(Bucket(w), FALSE, {Copy(w)})
    /\ writer' = [writer EXCEPT ![w] = Then(w, "split") @@ [saved |-> Word(w)]]
    /\ UNCHANGED <<level, freelists, ops, searches>>

\* A new array is made from the copy and the new pair ...
Split(w) ==
    /\ writer[w].at = "split"
    /\ LET n == Cardinality(DOMAIN mem[Copy(w)])
           live == SelectSeq([i \in 1 .. n |-> mem[Copy(w)][i - 1]], LAMBDA kv : ~IsFree(kv))
           new == SplitAndRehash(mem, freelists, Append(live, Kvp(w)), writer[w].saved.log2)
       IN  /\ mem' = new.m
           /\ freelists' = new.fl
           /\ writer' = [writer EXCEPT ![w] = [@ EXCEPT !.at = "expand_ok"] @@
                [new |-> [EmptyWord EXCEPT !.offset = new.offset, !.linear = new.linear,
                                           !.log2 = new.log2, !.refcnt = writer[w].saved.refcnt + 1]]]
    /\ UNCHANGED <<level, buckets, alloc_lock, ops, reader, searches, map, before>>

\* ... takes the place of the old one ...
ExpandOk(w) ==
    /\ writer[w].at = "expand_ok"
    /\ buckets' = [buckets EXCEPT ![Bucket(w)] = writer[w].new]
    /\ Changes(w, Key(w), writer[w].value)
    /\ Observe(Bucket(w), TRUE, {})
    /\ Goes(w, "free_old")
    /\ UNCHANGED <<level, mem, freelists, alloc_lock, ops, searches>>

\* Fault: with pairs next to the buckets, no old array is freed.
FreeOldNever(w) ==
    /\ writer[w].at = "free_old"
    /\ IF level
       THEN UNCHANGED <<mem, freelists, map, reader>>
       ELSE /\ mem' = FreedMem(mem, writer[w].saved.offset)
            /\ freelists' = FreedList(freelists, writer[w].saved.offset, writer[w].saved.log2)
            /\ map' = map /\ Observe(0, FALSE, {writer[w].saved.offset})
    /\ alloc_lock' = FALSE
    /\ Returns(w)
    /\ UNCHANGED <<level, buckets, ops, searches>>

\* ... and that is freed, unless it is the one next to the bucket.
FreeOld(w) ==
    /\ writer[w].at = "free_old"
    /\ IF level /\ writer[w].saved.log2 = 0
       THEN UNCHANGED <<mem, freelists, map, reader>>
       ELSE /\ mem' = FreedMem(mem, writer[w].saved.offset)
            /\ freelists' = FreedList(freelists, writer[w].saved.offset, writer[w].saved.log2)
            /\ map' = map /\ Observe(0, FALSE, {writer[w].saved.offset})
    /\ alloc_lock' = FALSE
    /\ Returns(w)
    /\ UNCHANGED <<level, buckets, ops, searches>>

-----------------------------------------------------------------------------
(* Readers: clib_bihash_search_inline_2_with_hash.  The compiler loads the *)
(* word of the bucket anew for each of its fields.                         *)
RBucket(r) == buckets[BucketOf(reader[r].key)]
RKvp(r) ==
    LET s == reader[r] IN
    IF s.offset \in DOMAIN mem /\ s.i \in DOMAIN mem[s.offset] THEN mem[s.offset][s.i] ELSE EmptyKvp

RGoes(r, to) == reader' = [reader EXCEPT ![r].at = to]
\* The result is one the key had, and the key was there all the time.
Done(s, v) == [at |-> "done", exact |-> v \in s.seen, present |-> s.still /\ Free \notin s.seen]
Found(r, v) == reader' = [reader EXCEPT ![r] = Done(@, v)]
ReaderStep == UNCHANGED <<table, writer, ops, searches, map, before>>

Search(r, k) ==
    /\ reader[r].at \in {"idle", "done"} /\ searches < MaxSearches
    /\ searches' = searches + 1
    /\ LET s == [at |-> "lock", key |-> k, seen |-> Mapped(k), still |-> TRUE] IN
       reader' = [reader EXCEPT ![r] =
                    IF bucket_is_empty(buckets[BucketOf(k)])
                    THEN Done(s, Free) ELSE s]
    /\ UNCHANGED <<table, writer, ops, map, before>>

WaitUnlocked(r) ==
    /\ reader[r].at = "lock" /\ ~RBucket(r).lock
    /\ RGoes(r, "offset")
    /\ ReaderStep

LoadOffset(r) ==
    /\ reader[r].at = "offset"
    /\ reader' = [reader EXCEPT ![r] = [@ EXCEPT !.at = "flags"] @@ [offset |-> RBucket(r).offset]]
    /\ ReaderStep

LoadFlags(r) ==
    /\ reader[r].at = "flags"
    /\ LET b == RBucket(r)
           f == FirstSlot(reader[r].key, b.linear, b.log2)
       IN  reader' = [reader EXCEPT ![r] = [@ EXCEPT !.at = "compare"] @@
                        [i |-> f, end |-> f + Limit(b.linear, b.log2)]]
    /\ ReaderStep

KeyCompare(r) ==
    /\ reader[r].at = "compare"
    /\ CASE RKvp(r).key = reader[r].key -> RGoes(r, "read")
         [] RKvp(r).key # reader[r].key /\ reader[r].i + 1 < reader[r].end ->
                reader' = [reader EXCEPT ![r].i = @ + 1]
         [] OTHER -> Found(r, Free)
    /\ ReaderStep

ReadValue(r) ==
    /\ reader[r].at = "read"
    /\ Found(r, RKvp(r).value)
    /\ ReaderStep

-----------------------------------------------------------------------------
Write(w) ==
    \/ \E op \in Adds, k \in Keys, v \in Stores[w] : Call(w, op, k, v)
    \/ \E k \in Keys : Call(w, "del", k, Free)
    \/ FirstElt(w) \/ PublishFirst(w) \/ Replace(w) \/ AddValue(w) \/ AddKey(w) \/ CountAndUnlock(w)
    \/ \E i \in 0 .. 2 ^ MaxLog2 * KvpPerPage, f \in {"key", "value"} : OverwriteStale(w, i, f)
    \/ OverwriteRest(w) \/ NotFound(w) \/ MarkFree(w) \/ Deleted(w) \/ FreeBackingStore(w)
    \/ make_working_copy(w) \/ Split(w) \/ ExpandOk(w) \/ FreeOld(w)

Read(r) ==
    \/ \E k \in Keys : Search(r, k)
    \/ WaitUnlocked(r) \/ LoadOffset(r) \/ LoadFlags(r) \/ KeyCompare(r) \/ ReadValue(r)

Next == (\E w \in Writers : Write(w)) \/ (\E r \in Readers : Read(r))

Spec == Init /\ [][Next]_vars

-----------------------------------------------------------------------------
(* Properties.                                                             *)

\* The variables keep their types.
TypeOK ==
    /\ \A b \in Buckets : buckets[b].offset \in DOMAIN mem \union {None} /\ buckets[b].log2 \in 0 .. MaxLog2
    /\ \A o \in DOMAIN mem : \A i \in DOMAIN mem[o] :
        mem[o][i].key \in Keys \union {NoKey} /\ mem[o][i].value \in Values \union {Free}
    /\ map \in [Keys -> Values \union {Free}]

\* A bucket nobody has locked holds exactly what it should: a search by its
\* word finds the value of every key of the table and nothing for the others,
\* behind no left-over key of a freed pair, and the reference count is right.
Lookup(k) ==
    LET b == buckets[BucketOf(k)]
        same == {i \in Slots(k, b.linear, b.log2) : mem[b.offset][i].key = k}
    IN  IF b.offset = None \/ same = {} THEN Free ELSE mem[b.offset][Min(same)].value

TableExact ==
    \A b \in Buckets : ~buckets[b].lock =>
        LET here == {k \in Keys : BucketOf(k) = b} IN
        /\ \A k \in here : Lookup(k) = map[k]
        /\ buckets[b].refcnt = Cardinality({k \in here : map[k] # Free}) + (IF level THEN 1 ELSE 0)

\* Every array is in one place: in a bucket, on a free list, or in the hands
\* of the writer that makes, replaces or frees it.
InHand(w) ==
    CASE writer[w].at = "publish_first" -> <<writer[w].new>>
      [] writer[w].at = "free" -> <<writer[w].old.offset>>
      [] writer[w].at = "split" -> <<writer[w].saved.offset>>
      [] writer[w].at = "expand_ok" -> <<writer[w].saved.offset, writer[w].new.offset>>
      [] writer[w].at = "free_old" -> <<writer[w].saved.offset>>
      [] OTHER -> <<>>

Holders(o) ==
    LET In(s) == {n \in DOMAIN s : s[n] = o}
    IN  Cardinality({b \in Buckets : buckets[b].offset = o})
        + Cardinality(UNION {{l} \X In(freelists[l]) : l \in 0 .. MaxLog2})
        + Cardinality(UNION {{w} \X In(InHand(w)) : w \in Writers})

ArraysConserved == \A o \in DOMAIN mem : o[1] = "value" => Holders(o) = 1

\* A search needs no lock against writers that change pairs in place, or that
\* split its bucket while it reads the old array: a key that was in the table
\* all the time is found, with a value it had.  Left out are the two ways in
\* which an exchange of arrays does reach a reader: between its loads of the
\* offset and of the flags, and when the old array is freed before it is done.
PresentFound ==
    \A r \in Readers : (reader[r].at = "done" /\ reader[r].present) => reader[r].exact

\* docs/developer/corearchitecture/bihash.rst: "no reader locking is required
\* to search a bihash table".  A search finds what its key was mapped to, or
\* not mapped to, at some time while it ran.
SearchExact ==
    \A r \in Readers : reader[r].at = "done" => reader[r].exact
=============================================================================
