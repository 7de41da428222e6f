----------------------------- MODULE LatestValue -----------------------------
(***************************************************************************)
(* What an account's cache promises: it remembers the last value committed *)
(* and not yet read, hands it out once, and the value a reader holds does  *)
(* not change under it while newer values arrive.                          *)
(***************************************************************************)
CONSTANTS Value,  \* what can be committed
          None    \* no value

VARIABLES fresh,  \* the last committed value nobody has read, or None
          held    \* the value a reader is looking at, or None

Init == fresh = None /\ held = None

Put(v) == fresh' = v /\ held' = held

Take == held = None /\ fresh # None /\ held' = fresh /\ fresh' = None

Release == held # None /\ held' = None /\ fresh' = fresh

\* A reader that copies the value out at once.
Fetch == held = None /\ fresh # None /\ fresh' = None /\ held' = None

Next == (\E v \in Value : Put(v)) \/ Take \/ Release \/ Fetch

Spec == Init /\ [][Next]_<<fresh, held>>
=============================================================================
