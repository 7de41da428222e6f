--------------------------- MODULE LosEventProofs ---------------------------
(***************************************************************************)
(* Proofs about LosEvent for any number of tasks and event bits.  The      *)
(* inductive invariant adds two facts to the checked invariants.  A task   *)
(* inside LOS_EventRead has a nonempty mask and a mode with OR or AND,     *)
(* which is what OsEventReadParamCheck lets through: otherwise a write     *)
(* could complete the mask of a waiter no test of LOS_EventWrite           *)
(* recognises.  And a call under way on a destroyed event was there before *)
(* the destroy, since the checks let no later call through.                *)
(***************************************************************************)
EXTENDS LosEvent, TLAPS

\* A task inside LOS_EventRead passed OsEventReadParamCheck.
WaitIsChecked ==
  \A t \in Tasks :
    taskStatus[t] \in {"checked", "pend", "woken"} =>
      /\ wait[t].mask # {}
      /\ wait[t].mode \cap {"OR", "AND"} # {}

\* Calls under way on a destroyed event were overtaken by the destroy.
LateCallsAreKnown == ~inited /\ CallUnderWay => overtaken

IInv ==
  /\ TypeOK
  /\ LateCallsAreKnown
  /\ WaitIsChecked
  /\ NoMissedWakeup
  /\ WaitersAreListed
  /\ WokenFindsItsEvent

-----------------------------------------------------------------------------
\* LOS_EventPoll finds nothing it was not asked for, and takes only what it finds.
LEMMA PollBounds ==
  ASSUME NEW id, NEW mask, NEW mode
  PROVE  /\ Polled(id, mask, mode) \subseteq id
         /\ Polled(id, mask, mode) \subseteq mask
         /\ AfterPoll(id, mask, mode) \subseteq id
BY DEF Polled, AfterPoll

\* More bits never turn a successful LOS_EventPoll into a failing one.
LEMMA PollMonotone ==
  ASSUME NEW id, NEW id2, id \subseteq id2, NEW mask, NEW mode,
         Polled(id, mask, mode) # {}
  PROVE  Polled(id2, mask, mode) # {}
BY DEF Polled

\* The test of LOS_EventWrite is complete: a waiter it leaves asleep still
\* has no event after the write.
LEMMA WakesComplete ==
  ASSUME NEW id, NEW mask, NEW mode, NEW events,
         mode \cap {"OR", "AND"} # {},
         Polled(id, mask, mode) = {},
         ~Wakes(id \cup events, mask, mode, events)
  PROVE  Polled(id \cup events, mask, mode) = {}
<1>1. CASE "OR" \in mode
  BY <1>1 DEF Polled, Wakes
<1>2. CASE "OR" \notin mode
  <2>1. "AND" \in mode
    BY <1>2
  <2>2. QED
    BY <1>2, <2>1 DEF Polled, Wakes
<1>3. QED
  BY <1>1, <1>2

\* The test of LOS_EventWrite is sound: a waiter it wakes has an event.
LEMMA WakesSound ==
  ASSUME NEW id, NEW mask, NEW mode, NEW events,
         mask # {},
         Wakes(id \cup events, mask, mode, events)
  PROVE  Polled(id \cup events, mask, mode) # {}
BY DEF Polled, Wakes

\* A read that passes the check has a mask of event bits and one waiting mode.
LEMMA ParamCheckOK ==
  ASSUME NEW mask \in Masks, NEW mode \in ReadModes, inited \in BOOLEAN,
         OsEventReadParamCheck(inited, mask, mode) = "OK"
  PROVE  /\ inited
         /\ mask # {}
         /\ mode \cap {"OR", "AND"} # {}
BY DEF OsEventReadParamCheck

\* The state after LOS_EventInit.
LEMMA InitType == Init => TypeOK
<1>1. NoWait \in Wait
  BY DEF NoWait, Wait, TimeOuts, Masks
<1>2. QED
  BY <1>1, TaskAssumption DEF Init, TypeOK, Status

-----------------------------------------------------------------------------
\* Type correctness: every step of the kernel's event code keeps the control
\* block and the tasks' wait records within their types.
THEOREM TypeCorrect == Spec => []TypeOK
<1> USE TaskAssumption, ErrBitAssumption DEF TypeOK, Masks, Wait, Status, TimeOuts, NoWait, Robs
<1>1. TypeOK /\ [Next]_vars => TypeOK'
  <2> SUFFICES ASSUME TypeOK, [Next]_vars PROVE TypeOK'
    OBVIOUS
  <2>0. ASSUME NEW t \in Tasks, NEW mask \in Masks, NEW mode \in ReadModes,
               NEW timeOut \in TimeOuts, LOS_EventRead(t, mask, mode, timeOut)
        PROVE  TypeOK'
    BY <2>0 DEF LOS_EventRead
  <2>1. ASSUME NEW t \in Tasks, EventReadLocked(t)
        PROVE  TypeOK'
    <3>1. AfterPoll(uwEventID, wait[t].mask, wait[t].mode) \in SUBSET Bits
      BY PollBounds
    <3>2. CASE EventReadPends(t)
      BY <2>1, <3>2 DEF EventReadLocked, EventReadPends
    <3>3. CASE EventReadReturns(t) /\ UNCHANGED <<uwEventID, robbed>>
      BY <2>1, <3>3 DEF EventReadLocked, EventReadReturns
    <3>4. CASE /\ uwEventID' = AfterPoll(uwEventID, wait[t].mask, wait[t].mode)
               /\ robbed' = Robs(uwEventID')
               /\ EventReadReturns(t)
      BY <2>1, <3>1, <3>4 DEF EventReadLocked, EventReadReturns
    <3>5. QED
      BY <2>1, <3>2, <3>3, <3>4 DEF EventReadLocked
  <2>2. ASSUME NEW t \in Tasks, EventReadResume(t)
        PROVE  TypeOK'
    <3>1. AfterPoll(uwEventID, wait[t].mask, wait[t].mode) \in SUBSET Bits
      BY PollBounds
    <3>2. QED
      BY <2>2, <3>1 DEF EventReadResume
  <2>3. ASSUME NEW t \in Tasks, PendTimeout(t)
        PROVE  TypeOK'
    BY <2>3 DEF PendTimeout
  <2>4. ASSUME NEW events \in Masks, LOS_EventWrite(events)
        PROVE  TypeOK'
    BY <2>4 DEF LOS_EventWrite
  <2>41. ASSUME NEW events \in Masks, EventWriteLocked(events)
        PROVE  TypeOK'
    BY <2>41 DEF EventWriteLocked, Resumed
  <2>5. ASSUME NEW mask \in Masks, LOS_EventClear(mask)
        PROVE  TypeOK'
    BY <2>5 DEF LOS_EventClear
  <2>6. CASE LOS_EventDestroy
    <3>1. CallUnderWay \in BOOLEAN
      BY DEF CallUnderWay
    <3>2. /\ overtaken' \in BOOLEAN /\ inited' \in BOOLEAN
          /\ UNCHANGED <<uwEventID, stEventList, g_losTaskLock, taskStatus, wait, writing,
                         fault, robbed>>
      BY ONLY <2>6, <3>1 DEF LOS_EventDestroy
    <3>3. QED
      BY <3>2
  <2>7. CASE LOS_EventInit
    BY <2>7 DEF LOS_EventInit
  <2>8. ASSUME NEW t \in Tasks, LOS_TaskLock(t)
        PROVE  TypeOK'
    BY <2>8 DEF LOS_TaskLock
  <2>9. ASSUME NEW t \in Tasks, LOS_TaskUnlock(t)
        PROVE  TypeOK'
    BY <2>9 DEF LOS_TaskUnlock
  <2>10. CASE UNCHANGED vars
    BY <2>10 DEF vars
  <2> HIDE DEF TypeOK, Masks, Wait, Status, TimeOuts, NoWait, Robs
  <2>11. QED
    BY <2>0, <2>1, <2>2, <2>3, <2>4, <2>41, <2>5, <2>6, <2>7, <2>8, <2>9, <2>10 DEF Next
<1>2. QED
  BY <1>1, InitType, PTL DEF Spec

-----------------------------------------------------------------------------
\* Every step keeps the inductive invariant.
LEMMA StepKeepsIInv ==
  ASSUME IInv, TypeOK', [Next]_vars
  PROVE  IInv'
<1> USE TaskAssumption, ErrBitAssumption
        DEF IInv, WaitIsChecked, LateCallsAreKnown, NoMissedWakeup, WaitersAreListed,
            WokenFindsItsEvent
<1>0. ASSUME NEW t \in Tasks, NEW mask \in Masks, NEW mode \in ReadModes,
             NEW timeOut \in TimeOuts, LOS_EventRead(t, mask, mode, timeOut)
      PROVE  IInv'
  <2>1. inited /\ mask # {} /\ mode \cap {"OR", "AND"} # {}
    BY <1>0, ParamCheckOK DEF LOS_EventRead, TypeOK
  <2>2. /\ taskStatus' = [taskStatus EXCEPT ![t] = "checked"]
        /\ wait'[t].mask = mask
        /\ wait'[t].mode = mode
        /\ \A u \in Tasks \ {t} : wait'[u] = wait[u]
        /\ taskStatus[t] = "user"
    BY <1>0 DEF LOS_EventRead, TypeOK
  <2>3. QED
    BY <1>0, <2>1, <2>2 DEF LOS_EventRead, TypeOK
<1>1. ASSUME NEW t \in Tasks, EventReadLocked(t)
      PROVE  IInv'
  <2>1. /\ taskStatus[t] = "checked" /\ ~fault
        /\ UNCHANGED <<inited, writing, overtaken>>
    BY <1>1 DEF EventReadLocked, CanRun
  <2>2. CASE EventReadPends(t) /\ Polled(uwEventID, wait[t].mask, wait[t].mode) = {}
    <3>1. CASE inited
      BY <2>1, <2>2, <3>1 DEF EventReadPends, CallUnderWay, TypeOK
    <3>2. CASE ~inited
      BY <2>1, <2>2, <3>2 DEF EventReadPends, CallUnderWay, TypeOK
    <3>3. QED
      BY <3>1, <3>2
  <2>3. CASE EventReadReturns(t) /\ UNCHANGED <<uwEventID, robbed>>
    BY <2>1, <2>3 DEF EventReadReturns, CallUnderWay, TypeOK
  <2>4. CASE /\ uwEventID' = AfterPoll(uwEventID, wait[t].mask, wait[t].mode)
             /\ robbed' = Robs(uwEventID')
             /\ EventReadReturns(t)
    <3>1. uwEventID' \subseteq uwEventID
      BY <2>4, PollBounds
    <3>2. \A u \in Tasks : taskStatus[u] = "woken" /\ u \notin robbed'
                             => u \notin robbed /\ uwEventID \subseteq uwEventID'
      BY <2>4 DEF Robs, TypeOK
    <3>3. /\ taskStatus' = [taskStatus EXCEPT ![t] = "user"]
          /\ \A u \in Tasks \ {t} : wait'[u] = wait[u]
          /\ UNCHANGED <<stEventList, fault>>
      BY <2>4 DEF EventReadReturns, TypeOK
    <3>4. NoMissedWakeup'
      BY <3>1, <3>3, PollMonotone DEF TypeOK
    <3>5. WokenFindsItsEvent'
      BY <3>2, <3>3, PollMonotone DEF TypeOK
    <3>6. WaitersAreListed' /\ WaitIsChecked'
      BY <2>1, <3>3 DEF TypeOK
    <3>7. LateCallsAreKnown'
      BY <2>1, <3>3 DEF CallUnderWay, TypeOK
    <3>8. QED
      BY <3>4, <3>5, <3>6, <3>7
  <2>5. QED
    BY <1>1, <2>2, <2>3, <2>4 DEF EventReadLocked
<1>2. ASSUME NEW t \in Tasks, EventReadResume(t)
      PROVE  IInv'
  <2>1. /\ taskStatus' = [taskStatus EXCEPT ![t] = "user"]
        /\ \A u \in Tasks \ {t} : wait'[u] = wait[u]
        /\ UNCHANGED <<stEventList, inited, writing, fault, overtaken>>
        /\ taskStatus[t] \in {"woken", "timeout"}
    BY <1>2 DEF EventReadResume, TypeOK
  <2>2. uwEventID' \subseteq uwEventID
    BY <1>2, PollBounds DEF EventReadResume
  <2>3. \A u \in Tasks \ {t} : taskStatus[u] = "woken" /\ u \notin robbed'
                               => u \notin robbed /\ uwEventID \subseteq uwEventID'
    BY <1>2 DEF EventReadResume, Robs, TypeOK
  <2>4. NoMissedWakeup'
    BY <2>1, <2>2, PollMonotone DEF TypeOK
  <2>5. WokenFindsItsEvent'
    BY <2>1, <2>3, PollMonotone DEF TypeOK
  <2>6. WaitersAreListed'
    BY <1>2, <2>1 DEF EventReadResume, TypeOK
  <2>7. WaitIsChecked'
    BY <2>1 DEF TypeOK
  <2>8. LateCallsAreKnown'
    BY <2>1 DEF CallUnderWay, TypeOK
  <2>9. QED
    BY <2>4, <2>5, <2>6, <2>7, <2>8
<1>3. ASSUME NEW t \in Tasks, PendTimeout(t)
      PROVE  IInv'
  BY <1>3 DEF PendTimeout, CallUnderWay, TypeOK
<1>31. ASSUME NEW events \in Masks, LOS_EventWrite(events)
      PROVE  IInv'
  BY <1>31 DEF LOS_EventWrite, CallUnderWay, TypeOK
<1>4. ASSUME NEW events \in Masks, EventWriteLocked(events)
      PROVE  IInv'
  <2> DEFINE woken == Resumed(uwEventID \cup events, events)
  <2>1. /\ uwEventID' = uwEventID \cup events
        /\ stEventList' = stEventList \ woken
        /\ UNCHANGED <<inited, wait, robbed, overtaken>>
        /\ events \in writing
        /\ writing' \subseteq writing
        /\ fault' = ~inited
        /\ \A u \in Tasks : taskStatus'[u] = IF u \in woken THEN "woken" ELSE taskStatus[u]
    BY <1>4 DEF EventWriteLocked
  <2>2. \A u \in woken : u \in stEventList
                        /\ Wakes(uwEventID \cup events, wait[u].mask, wait[u].mode, events)
    BY DEF Resumed
  <2>3. NoMissedWakeup'
    <3> SUFFICES ASSUME NEW u \in Tasks, taskStatus'[u] = "pend"
                 PROVE  Polled(uwEventID', wait[u].mask, wait[u].mode) = {}
      BY <2>1
    <3>1. taskStatus[u] = "pend" /\ u \in stEventList /\ u \notin woken
      BY <2>1
    <3>2. ~Wakes(uwEventID \cup events, wait[u].mask, wait[u].mode, events)
      BY <3>1 DEF Resumed
    <3>3. QED
      BY <2>1, <3>1, <3>2, WakesComplete
  <2>4. WokenFindsItsEvent'
    <3> SUFFICES ASSUME NEW u \in Tasks, taskStatus'[u] = "woken", u \notin robbed
                 PROVE  Polled(uwEventID', wait[u].mask, wait[u].mode) # {}
      BY <2>1
    <3>1. CASE u \in woken
      <4>1. taskStatus[u] = "pend"
        BY <2>2, <3>1
      <4>2. wait[u].mask # {}
        BY <4>1
      <4>3. Wakes(uwEventID \cup events, wait[u].mask, wait[u].mode, events)
        BY <2>2, <3>1
      <4>4. Polled(uwEventID \cup events, wait[u].mask, wait[u].mode) # {}
        BY <4>2, <4>3, WakesSound
      <4>5. QED
        BY <2>1, <4>4
    <3>2. CASE u \notin woken
      BY <2>1, <3>2, PollMonotone
    <3>3. QED
      BY <3>1, <3>2
  <2>5. WaitersAreListed'
    BY <2>1, <2>2 DEF CallUnderWay
  <2>6. WaitIsChecked'
    BY <2>1, <2>2
  <2>7. LateCallsAreKnown'
    BY <2>1 DEF CallUnderWay
  <2>8. QED
    BY <2>3, <2>4, <2>5, <2>6, <2>7
<1>5. ASSUME NEW mask \in Masks, LOS_EventClear(mask)
      PROVE  IInv'
  <2>1. uwEventID' \subseteq uwEventID
    BY <1>5 DEF LOS_EventClear
  <2>2. \A u \in Tasks : taskStatus[u] = "woken" /\ u \notin robbed'
                           => u \notin robbed /\ uwEventID \subseteq uwEventID'
    BY <1>5 DEF LOS_EventClear, Robs, TypeOK
  <2>3. NoMissedWakeup'
    BY <1>5, <2>1, PollMonotone DEF LOS_EventClear
  <2>4. WokenFindsItsEvent'
    BY <1>5, <2>2, PollMonotone DEF LOS_EventClear
  <2>5. QED
    BY <1>5, <2>3, <2>4 DEF LOS_EventClear, CallUnderWay
<1>6. CASE LOS_EventDestroy
  BY <1>6 DEF LOS_EventDestroy, CallUnderWay
<1>7. CASE LOS_EventInit
  <2>1. /\ uwEventID' = {}
        /\ stEventList' = {}
        /\ inited' = TRUE
        /\ UNCHANGED <<taskStatus, wait, fault>>
        /\ ~inited /\ ~fault
    BY <1>7 DEF LOS_EventInit
  <2>2. \A u \in Tasks : taskStatus[u] = "woken" /\ u \notin robbed'
                           => u \notin robbed /\ uwEventID \subseteq uwEventID'
    BY <1>7 DEF LOS_EventInit, Robs, TypeOK
  <2>3. WokenFindsItsEvent'
    BY <2>1, <2>2, PollMonotone
  <2>4. QED
    BY <2>1, <2>3
<1>8. ASSUME NEW t \in Tasks, LOS_TaskLock(t)
      PROVE  IInv'
  BY <1>8 DEF LOS_TaskLock, CallUnderWay
<1>9. ASSUME NEW t \in Tasks, LOS_TaskUnlock(t)
      PROVE  IInv'
  BY <1>9 DEF LOS_TaskUnlock, CallUnderWay
<1>10. CASE UNCHANGED vars
  BY <1>10 DEF vars, CallUnderWay
<1>11. QED
  BY <1>0, <1>1, <1>2, <1>3, <1>31, <1>4, <1>5, <1>6, <1>7, <1>8, <1>9, <1>10 DEF Next

\* The inductive invariant holds of every reachable state.
LEMMA InductiveInvariant == Spec => []IInv
<1>1. Init => IInv
  BY InitType DEF Init, IInv, WaitIsChecked, LateCallsAreKnown, NoMissedWakeup,
         WaitersAreListed, WokenFindsItsEvent
<1>2. TypeOK' /\ IInv /\ [Next]_vars => IInv'
  BY StepKeepsIInv
<1>3. QED
  BY <1>1, <1>2, TypeCorrect, PTL DEF Spec

\* No task sleeps in LOS_EventRead on an event that has already happened,
\* whatever tasks, interrupts, timeouts and clears interleave.
THEOREM NeverMissesWakeup == Spec => []NoMissedWakeup
<1>1. IInv => NoMissedWakeup
  BY DEF IInv
<1>2. QED
  BY <1>1, InductiveInvariant, PTL

\* The list of the control block and the status of the tasks never disagree,
\* LOS_EventDestroy never leaves a sleeper behind, and the list of a destroyed
\* event is followed only by a call that was past its check before the destroy.
THEOREM AlwaysListed == Spec => []WaitersAreListed
<1>1. IInv => WaitersAreListed
  BY DEF IInv
<1>2. QED
  BY <1>1, InductiveInvariant, PTL

\* LOS_EventRead comes back empty-handed from a wake-up only when the bits
\* were taken by somebody else in between.
THEOREM WokenFinds == Spec => []WokenFindsItsEvent
<1>1. IInv => WokenFindsItsEvent
  BY DEF IInv
<1>2. QED
  BY <1>1, InductiveInvariant, PTL
=============================================================================
