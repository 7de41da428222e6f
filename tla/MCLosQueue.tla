----------------------------- MODULE MCLosQueue -----------------------------
(* Two tasks and the scheduler's interrupts, two messages, queues of one   *)
(* and two cells, one mail box.                                            *)
EXTENDS LosQueue
=============================================================================
