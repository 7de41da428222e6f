----------------------------- MODULE MCLosEvent -----------------------------
(* Two application tasks, a system task, two event bits and bit 25.        *)
EXTENDS LosEvent, TLC

\* The two bits and the two tasks that may wait are interchangeable.
Symmetry == Permutations(Bits) \cup Permutations(Tasks \ SystemTasks)
=============================================================================
