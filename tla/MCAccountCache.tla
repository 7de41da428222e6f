--------------------------- MODULE MCAccountCache ---------------------------
(* An account whose cache takes one of a few values.                       *)
EXTENDS AccountCache
=============================================================================
