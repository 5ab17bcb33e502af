----------------------------- MODULE AntiReplay -----------------------------
(***************************************************************************)
(* The receive side of an IPsec SA: sequence numbers, extended sequence    *)
(* numbers (ESN) and the anti-replay window (src/vpp-src/vpp/src/vnet/     *)
(* ipsec/ipsec_sa.h, esp_decrypt.c, ah_decrypt.c).                         *)
(*                                                                         *)
(* A packet carries the low half of its number.  Before decryption the SA  *)
(* guesses the high half from the window and drops what it takes for a     *)
(* replay; decryption succeeds if the guess is right; after it the packet  *)
(* is checked again and the window advanced.  All packets of a frame are   *)
(* checked before the first of them is decrypted.                          *)
(*                                                                         *)
(* The window is a 64-bit word that is shifted, or, if it is larger than   *)
(* that ("huge"), a bitmap used as a ring.  Either is modelled as the set  *)
(* of its bits that are 1.  Words have SeqMod values instead of 2^32 and   *)
(* UwordBits bits instead of 64; arithmetic on them wraps as in C.  An SA  *)
(* is used by the one thread it is bound to.                               *)
(***************************************************************************)
EXTENDS Integers, Sequences, FiniteSets

CONSTANTS
    SeqMod,         \* values of the u32 words seq and seq_hi
    UwordBits,      \* bits of a uword, and of the window that is not huge
    HugeSize,       \* bits of a huge window
    WrapDistance,   \* 1 << 30
    Bmi2,           \* the build has the instruction behind pow2_mask
    Starts,         \* numbers the SA may have reached, all received
    Ahead, Behind,  \* bounds: how far from the newest number packets are
    MaxFlight,      \* bound: packets between the two checks
    MaxArrivals     \* bound: packets received

ASSUME WordAssumption ==
    /\ \E k \in 1 .. UwordBits : UwordBits = 2 ^ k
    /\ \E k \in 1 .. HugeSize  : HugeSize = 2 ^ k
    /\ UwordBits \in Nat \ {0, 1} /\ HugeSize \in Nat
    /\ UwordBits < HugeSize /\ HugeSize % UwordBits = 0
    /\ SeqMod \in Nat /\ SeqMod % HugeSize = 0 /\ 2 * HugeSize <= SeqMod
    /\ WrapDistance \in 1 .. SeqMod - 1
    /\ Bmi2 \in BOOLEAN
\* Numbers have two words, and no packet comes round the number space.
ASSUME ArrivalAssumption ==
    /\ Starts \subseteq 0 .. SeqMod * SeqMod - 1
    /\ Ahead \in Nat /\ Behind \in 0 .. SeqMod * (SeqMod - 1)
    /\ MaxFlight \in Nat /\ MaxArrivals \in Nat

VARIABLES
    flags,          \* USE_ESN, USE_ANTI_REPLAY, ANTI_REPLAY_HUGE of the SA
    seq, seq_hi,    \* the newest number received
    window,         \* replay_window or replay_window_huge
    lost,           \* IPSEC_SA_ERROR_LOST
    flight,         \* packets between the two checks, with the guess
    accepted,       \* numbers of the packets that were accepted
    arrived,        \* packets received so far
    \* for the properties only
    stray           \* a packet was accepted that the window had left behind

saVars == << seq, seq_hi, window, lost >>
vars   == << flags, saVars, flight, accepted, arrived, stray >>

\* IPSEC_SA_ANTI_REPLAY_WINDOW_SIZE
WindowSize == IF flags.huge THEN HugeSize ELSE UwordBits

\* The number of the newest packet, and the halves of a number.
Top   == seq_hi * SeqMod + seq
Lo(n) == n % SeqMod
Hi(n) == n \div SeqMod

TypeOK ==
    /\ flags \in [esn : BOOLEAN, ar : BOOLEAN, huge : BOOLEAN]
    /\ seq \in 0 .. SeqMod - 1
    /\ seq_hi \in 0 .. SeqMod - 1
    /\ window \subseteq 0 .. WindowSize - 1
    /\ lost \in Nat
    /\ flight \in Seq([num : Nat, hi : 0 .. SeqMod - 1])
    /\ accepted \subseteq Nat
    /\ arrived \in 0 .. MaxArrivals
    /\ stray \in BOOLEAN

\* ipsec_sa_add_and_lock, and what follows it if the first packets arrive
\* in order: the window is all ones from the beginning.
Init ==
    /\ flags \in [esn : BOOLEAN, ar : BOOLEAN, huge : BOOLEAN]
    /\ flags.huge => flags.ar
    /\ \E n \in Starts :
        /\ ~flags.esn => n < SeqMod
        /\ seq = Lo(n) /\ seq_hi = Hi(n)
        /\ accepted = 1 .. n
    /\ window = 0 .. WindowSize - 1
    /\ lost = 0
    /\ flight = << >>
    /\ arrived = 0
    /\ stray = FALSE

-----------------------------------------------------------------------------
(* The checks.                                                             *)

\* A shift of a uword by n bits, n taken modulo its width by the processor.
ShiftCount(n) == (n % SeqMod) % UwordBits

\* pow2_mask (n) as the set of its bits
Pow2Mask(n) == IF n = UwordBits /\ ~Bmi2 THEN {} ELSE 0 .. n - 1

\* IPSEC_SA_ANTI_REPLAY_WINDOW_LOWER_BOUND
LowerBound == (seq - WindowSize + 1) % SeqMod

\* The window does not reach back into the previous epoch.
CaseA == seq >= WindowSize - 1

\* The bit of sequence number s.
Bit(s) ==
    IF flags.huge THEN s % WindowSize ELSE ShiftCount(WindowSize + s - seq - 1)

ipsec_sa_anti_replay_check(s) == Bit(s) \in window

\* Fault: the previous epoch is forgotten once the low half has wrapped.
HiSeqReqCaseA(s) ==
    CASE ~flags.esn             -> 0
      [] flags.esn /\ ~flags.ar -> IF s < seq /\ seq - s > WrapDistance
                                      THEN (seq_hi + 1) % SeqMod ELSE seq_hi
      [] flags.esn /\ flags.ar  -> IF CaseA /\ s < LowerBound
                                      THEN (seq_hi + 1) % SeqMod ELSE seq_hi

\* The high half to decrypt with: *hi_seq_req.
HiSeqReq(s) ==
    CASE ~flags.esn             -> 0
      [] flags.esn /\ ~flags.ar -> IF s < seq /\ seq - s > WrapDistance
                                      THEN (seq_hi + 1) % SeqMod ELSE seq_hi
      [] flags.esn /\ flags.ar  ->
            IF CaseA THEN IF s < LowerBound THEN (seq_hi + 1) % SeqMod ELSE seq_hi
                     ELSE IF s < LowerBound THEN seq_hi ELSE (seq_hi - 1) % SeqMod

\* Is the packet left of the window or already in it?  The verdict of
\* ipsec_sa_anti_replay_and_sn_advance before (post = FALSE) and after
\* decryption with hi_seq_used.
OutOfWindow(s) == seq >= (s + WindowSize) % SeqMod

Replayed(s, hi_seq_used, post) ==
    flags.ar /\
    IF ~flags.esn
       THEN s <= seq /\ (OutOfWindow(s) \/ ipsec_sa_anti_replay_check(s))
    ELSE IF s < LowerBound
       THEN IF CaseA THEN post /\ hi_seq_used = seq_hi
                     ELSE s <= seq /\ ipsec_sa_anti_replay_check(s)
       ELSE (CaseA => s <= seq) /\ ipsec_sa_anti_replay_check(s)

-----------------------------------------------------------------------------
(* The window.                                                             *)

\* Bits j of word i of a huge window, as positions in the ring.
Word(i, js) == {(i % (HugeSize \div UwordBits)) * UwordBits + j : j \in js}

\* Fault: the last word is left as it is.
ClearedFullWords(inc) ==
    LET lower == (seq + 1) % HugeSize
        start == lower % UwordBits
        block == lower \div UwordBits
        end   == ((lower + inc) % HugeSize) % UwordBits
        full  == (inc + start - UwordBits - end) \div UwordBits
    IN  IF start + inc <= UwordBits
           THEN Word(block, {start + j : j \in Pow2Mask(inc)})
           ELSE Word(block, start .. UwordBits - 1)
                \cup (UNION {Word(block + k, 0 .. UwordBits - 1) : k \in 1 .. full})

\* The bits of a huge window that are counted and cleared, word by word,
\* when it moves by inc: the rest of the first word, the full words and the
\* beginning of the last.
Cleared(inc) ==
    LET lower == (seq + 1) % HugeSize
        start == lower % UwordBits
        end   == ((lower + inc) % HugeSize) % UwordBits
        block == lower \div UwordBits
        full  == (inc + start - UwordBits - end) \div UwordBits
    IN  IF start + inc <= UwordBits
           THEN Word(block, {start + j : j \in Pow2Mask(inc)})
           ELSE Word(block, start .. UwordBits - 1)
                \cup (UNION {Word(block + k, 0 .. UwordBits - 1) : k \in 1 .. full})
                \cup Word(block + full + 1, Pow2Mask(end))

\* The bits that leave the window when it moves by inc < WindowSize.
Leaving(inc) == window \cap (IF flags.huge THEN Cleared(inc) ELSE Pow2Mask(inc))

\* Fault: the newest packet is marked one bit too far.
WindowShiftHigh(inc) ==
    LET kept == IF inc < WindowSize THEN window \ Leaving(inc) ELSE {}
    IN  IF flags.huge THEN kept \cup {(seq + inc) % WindowSize}
                      ELSE {i - inc : i \in kept} \cup {WindowSize}

\* ipsec_sa_anti_replay_window_shift: the window,
WindowShift(inc) ==
    LET kept == IF inc < WindowSize THEN window \ Leaving(inc) ELSE {}
    IN  IF flags.huge THEN kept \cup {(seq + inc) % WindowSize}
                      ELSE {i - inc : i \in kept} \cup {WindowSize - 1}

\* Fault: the holes of a window that is left behind are not counted.
NLostJump(inc) ==
    IF inc < WindowSize THEN inc - Cardinality(Leaving(inc)) ELSE inc - WindowSize

\* and the result, the numbers that can no longer be received.
NLost(inc) ==
    IF inc < WindowSize
       THEN inc - Cardinality(Leaving(inc))
       ELSE (WindowSize - Cardinality(window)) + (inc - WindowSize)

\* ipsec_sa_anti_replay_advance.  wrap = hi_seq - sa->seq_hi is an int.
Wraps(hi_seq)    == (hi_seq - seq_hi) % SeqMod \in 1 .. SeqMod \div 2 - 1
Moves(s, hi_seq) ==
    \/ s > seq /\ (flags.esn => hi_seq = seq_hi)
    \/ flags.esn /\ Wraps(hi_seq)

Advance(s, hi_seq) ==
    IF Moves(s, hi_seq)
       THEN LET pos == (s - seq) % SeqMod
            IN  /\ window' = WindowShift(pos)
                /\ lost' = lost + NLost(pos)
                /\ seq' = s
                /\ seq_hi' = IF flags.esn THEN hi_seq ELSE seq_hi
       ELSE /\ window' = window \cup {Bit(s)}
            /\ UNCHANGED << seq, seq_hi, lost >>

\* ipsec_sa_anti_replay_get_64b_window: what the API and the CLI show.
get_64b_window ==
    LET tl  == seq % WindowSize
        msb == UwordBits - 1
    IN  IF ~flags.huge THEN window
        ELSE {j \in 0 .. msb :
                IF tl + j >= msb THEN tl + j - msb \in window
                                 ELSE WindowSize - msb + tl + j \in window}

-----------------------------------------------------------------------------
(* The packets.                                                            *)

\* Numbers of packets that may arrive now: new, late, or sent again.  A
\* peer without ESN stops at the largest low half.
Arriving ==
    {n \in Top - Behind .. Top + Ahead :
        n >= 1 /\ Hi(n) < SeqMod /\ (flags.esn \/ n < SeqMod)}

\* The check before decryption.
Receive(n) ==
    /\ arrived < MaxArrivals
    /\ Len(flight) < MaxFlight
    /\ arrived' = arrived + 1
    /\ flight' = IF Replayed(Lo(n), 0, FALSE) THEN flight
                 ELSE Append(flight, [num |-> n, hi |-> HiSeqReq(Lo(n))])
    /\ UNCHANGED << flags, saVars, accepted, stray >>

\* The integrity check covers the number the peer used.
Decrypts(p) == ~flags.esn \/ p.hi = Hi(p.num)

\* Fault: the check is not repeated.
AcceptsOnce(p) == Decrypts(p)

\* The check after decryption.
Accepts(p) == Decrypts(p) /\ ~Replayed(Lo(p.num), p.hi, TRUE)

PostDrop ==
    /\ flight # << >>
    /\ ~Accepts(Head(flight))
    /\ flight' = Tail(flight)
    /\ UNCHANGED << flags, saVars, accepted, arrived, stray >>

\* Number n is left of the window.
LeftBehind(n) == flags.ar /\ n <= Top - WindowSize

PostAccept ==
    /\ flight # << >>
    /\ Accepts(Head(flight))
    /\ Advance(Lo(Head(flight).num), Head(flight).hi)
    /\ accepted' = accepted \cup {Head(flight).num}
    /\ stray' = (stray \/ LeftBehind(Head(flight).num))
    /\ flight' = Tail(flight)
    /\ UNCHANGED << flags, arrived >>

Next == (\E n \in Arriving : Receive(n)) \/ PostDrop \/ PostAccept

Spec == Init /\ [][Next]_vars

-----------------------------------------------------------------------------
(* Properties.                                                             *)

\* No packet is accepted twice: the check after decryption sees what was
\* accepted since the first one, "so this time the successive s+1 packet
\* will be dropped" (esp_decrypt.c).  The exception is a frame in which the
\* low half wraps: the second check does not compare the high half with the
\* epoch before the newest, and so does not stop a packet of it that another
\* packet of the frame has moved the window past.
NoReplay ==
    flags.ar /\ flight # << >> /\ Accepts(Head(flight)) =>
        \/ Head(flight).num \notin accepted
        \/ flags.esn /\ LeftBehind(Head(flight).num) /\ Head(flight).hi = seq_hi - 1

\* The bit that stands for number Top - i.
BitBehind(i) == IF flags.huge THEN (Top - i) % WindowSize ELSE WindowSize - 1 - i

\* The window, shifted word or ring, has the bit of each of the last
\* WindowSize numbers that was accepted, numbers before 1 counting as
\* accepted, and no other as long as no packet was accepted that it had left
\* behind.  The word shown to a client has the newest UwordBits of its bits.
Marked(n) == n < 1 \/ n \in accepted
WindowExact ==
    flags.ar =>
        /\ \A i \in 0 .. WindowSize - 1 :
              /\ Marked(Top - i) => BitBehind(i) \in window
              /\ ~stray /\ BitBehind(i) \in window => Marked(Top - i)
        /\ \A i \in 0 .. UwordBits - 1 :
              UwordBits - 1 - i \in get_64b_window <=> BitBehind(i) \in window

\* The lost counter is the number of packets that were not accepted and are
\* now too old to be, as long as none was accepted that was too old.
LostExact ==
    flags.ar /\ ~stray => lost = Cardinality({n \in 1 .. Top - WindowSize : n \notin accepted})

\* Numbers the window can place: those in it and those less than a full turn
\* of the low half ahead of its lower bound.
Placeable(n) ==
    /\ n >= 1
    /\ Top - WindowSize < n /\ n <= Top - WindowSize + SeqMod
    /\ Hi(n) < SeqMod /\ (flags.esn \/ n < SeqMod)

Welcome(n) == HiSeqReq(Lo(n)) = Hi(n) /\ ~Replayed(Lo(n), 0, FALSE)

\* A packet in or ahead of the window that was not accepted yet passes the
\* first check and is decrypted with the high half its sender used, as long
\* as no packet was accepted that the window had left behind.  Without ESN
\* the end of the number space is excepted, where s + window_size wraps.
\* Without a window the high half is right for a packet of the same epoch that
\* is at most WrapDistance old, or less than SeqMod - WrapDistance ahead.
FreshPasses ==
    IF flags.ar
    THEN ~stray => \A n \in (Top - WindowSize + 1 .. Top - WindowSize + SeqMod) \ accepted :
            Placeable(n) /\ (flags.esn \/ n + WindowSize < SeqMod) => Welcome(n)
    ELSE \A n \in Top - WrapDistance .. Top + SeqMod - WrapDistance - 1 :
            flags.esn /\ n >= seq_hi * SeqMod /\ Hi(n) < SeqMod => HiSeqReq(Lo(n)) = Hi(n)
=============================================================================
