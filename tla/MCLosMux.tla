------------------------------ MODULE MCLosMux ------------------------------
(* Three tasks of three priorities and two mutexes.                        *)
EXTENDS LosMux

Prio == [t \in Tasks |-> t]
=============================================================================
