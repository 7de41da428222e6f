----------------------------- MODULE MCLosSwtmr -----------------------------
(* Two control blocks.                                                     *)
EXTENDS LosSwtmr

TwoBlocks == <<0, 1>>
=============================================================================
