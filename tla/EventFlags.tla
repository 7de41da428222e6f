----------------------------- MODULE EventFlags -----------------------------
(***************************************************************************)
(* The pure part of the kernel's event flags: which bits a read returns,   *)
(* what the read leaves behind and which waiting task a write wakes.       *)
(* A UINT32 of event bits is the set of its 1 bits; a reading mode is the  *)
(* set of its LOS_WAITMODE_* bits, "OTHER" standing for any undefined one. *)
(***************************************************************************)
CONSTANTS Bits,    \* the event bits in use
          ErrBit   \* bit 25, LOS_ERRTYPE_ERROR, reserved for error codes

ASSUME ErrBitAssumption == ErrBit \notin Bits

Masks == SUBSET (Bits \cup {ErrBit})
Modes == SUBSET {"OR", "AND", "CLR", "OTHER"}

\* The first check that fails decides the error code, "OK" when none does.
OsEventReadParamCheck(inited, mask, mode) ==
  IF ~inited THEN "NOT_INITIALIZED"
  ELSE IF mask = {} THEN "EVENTMASK_INVALID"
  ELSE IF ErrBit \in mask THEN "SETBIT_INVALID"
  ELSE IF \/ {"OR", "AND"} \subseteq mode
          \/ "OTHER" \in mode
          \/ mode \cap {"OR", "AND"} = {}
       THEN "FLAGS_INVALID"
  ELSE "OK"

\* What LOS_EventPoll returns: the bits of the mask that satisfy the mode.
Polled(id, mask, mode) ==
  IF "OR" \in mode
  THEN id \cap mask
  ELSE IF mask # {} /\ mask \subseteq id THEN mask ELSE {}

\* What LOS_EventPoll leaves in *eventID.
AfterPoll(id, mask, mode) ==
  IF "CLR" \in mode THEN id \ Polled(id, mask, mode) ELSE id

\* Mutant: the AND test looks at the bits just written only.
WakesOnOneWrite(id, mask, mode, events) ==
  \/ "OR" \in mode /\ mask \cap events # {}
  \/ "AND" \in mode /\ mask \subseteq events

\* Mutant: the AND test is satisfied by a single bit.
WakesOnAnyBit(id, mask, mode, events) == mask \cap id # {}

\* LOS_EventWrite's test on a waiting task, id being the event after the write.
Wakes(id, mask, mode, events) ==
  \/ "OR" \in mode /\ mask \cap events # {}
  \/ "AND" \in mode /\ mask \subseteq id
=============================================================================
