------------------------------ MODULE MCLosSem ------------------------------
(* Three tasks, a binary semaphore and one that counts to two.             *)
EXTENDS LosSem
=============================================================================
