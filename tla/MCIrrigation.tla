---------------------------- MODULE MCIrrigation ----------------------------
(* The converter's scale is cut down: 100 stands for the raw 3441 of dry   *)
(* soil, and a word has 16 bits.                                           *)
EXTENDS Irrigation
=============================================================================
