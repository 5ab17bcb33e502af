---------------------------- MODULE HandoffFrame ----------------------------
(***************************************************************************)
(* The frame a handoff node passes to vlib_buffer_enqueue_to_thread        *)
(* (vlib/buffer_funcs.c) as a sequence of packets, each with the ring it   *)
(* goes to, and how one call splits it by thread.                          *)
(***************************************************************************)
EXTENDS Naturals, Sequences

\* clib_compress_u32: the elements of s that the mask selects, in order
CompressTo(s, mask) ==
    LET c[i \in 0 .. Len(s)] ==
            IF i = 0 THEN << >>
            ELSE IF i \in mask THEN Append(c[i - 1], s[i]) ELSE c[i - 1]
    IN  c
Compress(s, mask) == CompressTo(s, mask)[Len(s)]

\* clib_mask_compare_u16: the elements that go where the first one goes
Mask(fr) == {i \in 1 .. Len(fr) : fr[i].to = fr[1].to}

\* The packets of those elements, and what is left of the frame without them
\* (used_elts).
Group(fr) ==
    LET mine == Compress(fr, Mask(fr))
    IN  [i \in 1 .. Len(mine) |-> mine[i].pkt]
Rest(fr)  == Compress(fr, (1 .. Len(fr)) \ Mask(fr))
=============================================================================
