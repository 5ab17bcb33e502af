----------------------------- MODULE MCSvmFifo -----------------------------
EXTENDS SvmFifo, TLC

CONSTANTS c1, c2, c3, c4

\* The smallest chunk holds two bytes; the fifo needs up to three of them.
Length == [c \in Chunks |-> 2] @@ (NoChunk :> 0)
Sym == Permutations(Chunks \ {FirstChunk})
=============================================================================
