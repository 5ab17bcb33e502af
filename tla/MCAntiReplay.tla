---------------------------- MODULE MCAntiReplay ----------------------------
(***************************************************************************)
(* Instances of AntiReplay for TLC.                                        *)
(***************************************************************************)
EXTENDS AntiReplay
=============================================================================
