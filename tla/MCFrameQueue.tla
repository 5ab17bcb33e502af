---------------------------- MODULE MCFrameQueue ----------------------------
(***************************************************************************)
(* Instances of FrameQueue for TLC.                                        *)
(***************************************************************************)
EXTENDS FrameQueue, TLC

CONSTANTS a, b

\* By the first queue main, which drops, a hands packets to b and to itself and
\* b hands one to a; by the second a hands packets to b and waits for room.
Mutual    == [t \in Threads |-> IF t = a THEN << {a, b}, {b} >> ELSE << {a}, {} >>]
Mixed     == [t \in Threads |-> IF t = a THEN 3 ELSE 1]
DropsWait == << TRUE, FALSE >>
=============================================================================
