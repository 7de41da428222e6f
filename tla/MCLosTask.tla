----------------------------- MODULE MCLosTask ------------------------------
(* Three control blocks besides the idle task's; the scheduler has just    *)
(* been started with one task.  No task's name means anything.             *)
EXTENDS LosTask, TLC

AnyTask == Permutations(Tasks)
=============================================================================
