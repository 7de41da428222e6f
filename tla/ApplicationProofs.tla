-------------------------- MODULE ApplicationProofs -------------------------
(***************************************************************************)
(* Proofs about the applications.                                          *)
(*                                                                         *)
(* CountDown, for any times the user rolls to, any backlog of expiries and *)
(* any length of a count-down: the checked invariants are made inductive by*)
(* saying, for every place in a click handler or in the receiver, what the *)
(* other two tasks can be doing meanwhile.                                 *)
(*                                                                         *)
(* Irrigation, for any scale of the converter, width of a word and         *)
(* threshold: its safety invariant is inductive.                           *)
(*                                                                         *)
(* AccountCache, for any set of values: the ping-pong buffer of a data     *)
(* centre account implements LatestValue.                                  *)
(*                                                                         *)
(* PageManager, for any pages, routes and cache modes: between two handlers*)
(* every page is in one of five phases, and only the two pages of a switch *)
(* are in sight.                                                           *)
(*                                                                         *)
(* DataCenter, for any accounts and IDs, of which those with up to two     *)
(* followers are deleted: the vectors of both sides agree and implement    *)
(* FollowGraph.                                                            *)
(***************************************************************************)
EXTENDS CountDown, Irrigation, AccountCache, PageManager, DataCenter, SequenceTheorems,
        TLAPS

-----------------------------------------------------------------------------
(* The count-down application                                              *)

\* The timer is stopped and nothing of it is left to be run.
Quiet == swtmr = "CREATED" /\ handlerQueue = 0 /\ cb = "wait"

Starting == {"min", "sec", "total", "send"}
Clearing == {"clearSec", "sendClear", "clear"}
Serving  == {"woken", "stop", "zeroCount", "zeroTime"}

\* One event at a time: the receiver is woken by it, and has still to read it.
EventsAreServed ==
  /\ rx = "woken" => uwEventID \in {{FLAGS_MSK1}, {FLAGS_MSK2}}
  /\ rx # "woken" => uwEventID = {}

\* Where the handlers are, given the state of the button.
ButtonFitsHandler ==
  /\ ui \in Starting => button_status = BT_START
  /\ ui = "pause" => button_status = BT_PAUSE
  /\ ui \in {"continue", "started"} <=> button_status = BT_CONTINUE

\* A handler that a click started has the receiver asleep, but for clear_ok after its event.
ReceiverFitsHandler ==
  /\ ui \notin {"idle", "clear"} => rx = "pend"
  /\ rx \in Serving => \/ ui = "clear" /\ uwEventID \subseteq {FLAGS_MSK2}
                       \/ ui = "idle" /\ rx = "woken" /\ uwEventID = {FLAGS_MSK1}

\* When the timer is known to be off.
TimerIsOff ==
  /\ ui \in Starting \cup {"continue"} => Quiet
  /\ button_status = BT_WAIT => Quiet
  /\ button_status = BT_PAUSE /\ ui # "pause" => Quiet
  /\ FLAGS_MSK1 \in uwEventID => Quiet /\ button_status = BT_START
  /\ ui = "clear" /\ rx \notin {"woken", "stop"} => swtmr = "CREATED"

\* What start_ok has copied so far, and what it has computed from it.
CopiesAreFresh ==
  /\ ui \in {"sec", "total"} => ui_TimeID[1] = rollers[1]
  /\ ui = "total" => ui_TimeID[2] = rollers[2]
  /\ ui = "send" \/ FLAGS_MSK1 \in uwEventID => countTime = rollers[1] * 60 + rollers[2]

\* The seconds counted, with those still to be counted, are bounded.
InHand == IF cb \in {"load", "store"} THEN handlerQueue + 1 ELSE handlerQueue
CountIsBounded ==
  /\ countTime \in 0 .. 659
  /\ g_timerCount1 + InHand <= MaxCount + MaxBacklog
  /\ loaded <= MaxCount + MaxBacklog
  /\ cb = "store" => loaded + InHand <= MaxCount + MaxBacklog
  /\ cb = "store" /\ swtmr = "TICKING" => loaded = g_timerCount1

\* From the reset of a clear to the next event that starts the timer nothing is counted
\* and nothing is left to be counted, unless the reset came before a late expiry.
CountIsReset ==
  (\/ ui \in Starting \/ button_status = BT_WAIT \/ FLAGS_MSK1 \in uwEventID
   \/ ui = "clear" /\ rx \notin {"woken", "stop", "zeroCount"}) =>
     (g_timerCount1 = 0 /\ InHand = 0) \/ lateExpiry

IInv ==
  /\ TypeOK
  /\ EventsAreServed
  /\ ButtonFitsHandler
  /\ ReceiverFitsHandler
  /\ TimerIsOff
  /\ CopiesAreFresh
  /\ CountIsBounded
  /\ CountIsReset

-----------------------------------------------------------------------------
\* A pair of roller positions, and the pair with one of them replaced.
LEMMA PairFacts ==
  ASSUME NEW A, NEW B, NEW p \in A \X B, NEW x
  PROVE  /\ p[1] \in A /\ p[2] \in B
         /\ [p EXCEPT ![1] = x] = <<x, p[2]>>
         /\ [p EXCEPT ![2] = x] = <<p[1], x>>
OBVIOUS

\* The 32-bit arithmetic of Timer1_Callback gives numbers of minutes and seconds.
LEMMA TimeFacts ==
  ASSUME NEW diff \in Int, diff > -4294967296
  PROVE  MinutesOf(diff) \in Nat /\ SecondsOf(diff) \in 0 .. 59
BY SMT DEF MinutesOf, SecondsOf

\* lv_roller_set_selected selects one of the options.
LEMMA RollerFacts ==
  ASSUME NEW id \in Nat
  PROVE  RollerShows(id, 11) \in 0 .. 10 /\ RollerShows(id, 60) \in 0 .. 59
BY DEF RollerShows

\* The product of start_ok does not wrap round for a time on the rollers.
LEMMA TotalFacts ==
  ASSUME NEW min \in 0 .. 10, NEW sec \in 0 .. 59
  PROVE  TotalOf(min, sec) = min * 60 + sec
BY SMT DEF TotalOf

\* The counters are numbers, and what a callback reads is bounded.
LEMMA BoundFacts ==
  ASSUME IInv
  PROVE  /\ MaxCount \in Nat /\ MaxBacklog \in Nat
         /\ g_timerCount1 \in Nat /\ loaded \in Nat /\ handlerQueue \in Nat
         /\ \A count \in Counts : /\ MinutesOf(countTime - count) \in Nat
                                  /\ SecondsOf(countTime - count) \in 0 .. 59
<1>1. /\ MaxCount \in Nat /\ MaxBacklog \in Nat /\ MaxCount + MaxBacklog < 2147483647
  BY BoundAssumption, SMT
<1>2. /\ g_timerCount1 \in Nat /\ loaded \in Nat /\ handlerQueue \in Nat
      /\ countTime \in 0 .. 659
      /\ g_timerCount1 <= MaxCount + MaxBacklog /\ loaded <= MaxCount + MaxBacklog
  BY <1>1, SMT DEF IInv, TypeOK, CountIsBounded, CountIsReset, InHand
<1>3. ASSUME NEW count \in Counts
      PROVE  countTime - count \in Int /\ countTime - count > -4294967296
  BY <1>1, <1>2, <1>3, SMT DEF Counts
<1>4. QED
  BY <1>1, <1>2, <1>3, TimeFacts, SMT

\* OS_Event_example.
LEMMA InitIInv == Init => IInv
<1> SUFFICES ASSUME Init PROVE IInv
  OBVIOUS
<1>1. TypeOK
  <2>1. MaxBacklog \in Nat /\ MaxCount \in Nat
    BY BoundAssumption, SMT
  <2>2. /\ rollers \in Time /\ ui_TimeID \in Nat \X (0 .. 59)
        /\ uwEventID \subseteq {FLAGS_MSK1, FLAGS_MSK2}
    BY SMT DEF Init, Time
  <2>3. lateExpiry \in BOOLEAN
    BY Zenon DEF Init
  <2>4. /\ countTime \in Int /\ handlerQueue \in 0 .. MaxBacklog
        /\ g_timerCount1 \in 0 .. MaxCount + MaxBacklog + 1
        /\ loaded \in 0 .. MaxCount + MaxBacklog + 1
    BY <2>1, SMT DEF Init
  <2>5. QED
    BY <2>2, <2>3, <2>4, Zenon DEF Init, TypeOK
<1>2. EventsAreServed /\ ButtonFitsHandler /\ ReceiverFitsHandler /\ TimerIsOff
  BY SMT DEF Init, EventsAreServed, ButtonFitsHandler, ReceiverFitsHandler, TimerIsOff, Quiet,
             Starting, Serving, BT_WAIT, BT_START, BT_PAUSE, BT_CONTINUE, FLAGS_MSK1
<1>3. CopiesAreFresh /\ CountIsBounded /\ CountIsReset
  BY BoundAssumption, SMT DEF Init, CopiesAreFresh, CountIsBounded, CountIsReset, InHand,
                              FLAGS_MSK1
<1>4. QED
  BY <1>1, <1>2, <1>3 DEF IInv

\* start_ok computes the time that the rollers show: for such times its product does not wrap.
LEMMA TotalStep ==
  ASSUME IInv, TotalSeconds
  PROVE  countTime' = rollers'[1] * 60 + rollers'[2] /\ countTime' \in 0 .. 659
<1>1. rollers[1] \in 0 .. 10 /\ rollers[2] \in 0 .. 59
  BY DEF IInv, TypeOK, Time
<1>2. countTime' = TotalOf(rollers[1], rollers[2]) /\ rollers' = rollers
  BY DEF IInv, CopiesAreFresh, TotalSeconds, data
<1>3. TotalOf(rollers[1], rollers[2]) = rollers[1] * 60 + rollers[2]
  BY ONLY <1>1, TotalFacts, Zenon
<1>4. rollers[1] * 60 + rollers[2] \in 0 .. 659
  BY ONLY <1>1, SMT
<1>5. QED
  BY ONLY <1>2, <1>3, <1>4, Zenon

\* The steps of the click handlers.
LEMMA LvglKeepsIInv ==
  ASSUME IInv, Lvgl
  PROVE  IInv'
<1> USE DEF IInv, EventsAreServed, ButtonFitsHandler, ReceiverFitsHandler, TimerIsOff,
            Quiet, Starting, Serving, CopiesAreFresh, CountIsBounded, CountIsReset, InHand, data,
            LowPriorityRuns, InputArrives, LOS_SwtmrStart, LOS_SwtmrStop, LOS_EventWrite,
            BT_WAIT, BT_START, BT_PAUSE, BT_CONTINUE, FLAGS_MSK1, FLAGS_MSK2
<1>0. TypeOK
  OBVIOUS
<1>1. CASE ReadMinutes
  BY <1>0, <1>1 DEF ReadMinutes, TypeOK, Time
<1>2. CASE ReadSeconds
  BY <1>0, <1>2 DEF ReadSeconds, TypeOK, Time
<1>3. CASE TotalSeconds
  <2>2. /\ ui = "total" /\ ui' = "send"
        /\ Quiet /\ rx = "pend" /\ uwEventID = {} /\ button_status = BT_START
        /\ UNCHANGED <<button_status, rollers, ui_TimeID, g_timerCount1, loaded, swtmr,
                       handlerQueue, uwEventID, rx, cb, lateExpiry>>
    BY <1>3 DEF TotalSeconds
  <2>3. countTime' = rollers'[1] * 60 + rollers'[2] /\ countTime' \in 0 .. 659
    BY <1>3, TotalStep
  <2>4. TypeOK'
    BY <1>0, <2>2, <2>3 DEF TypeOK
  <2>5. CopiesAreFresh' /\ CountIsBounded' /\ CountIsReset'
    BY <2>2, <2>3
  <2>6. /\ EventsAreServed' /\ ButtonFitsHandler' /\ ReceiverFitsHandler'
        /\ TimerIsOff'
    BY <2>2
  <2>7. QED
    BY ONLY <2>4, <2>5, <2>6
<1>4. CASE SendStart
  <2>1. /\ uwEventID' = {FLAGS_MSK1} /\ rx' = "woken" /\ rx = "pend"
        /\ ui = "send" /\ ui' = "idle" /\ UNCHANGED <<data, swtmr, handlerQueue, cb>>
    BY <1>4 DEF SendStart
  <2>2. TypeOK'
    BY <1>0, <2>1 DEF TypeOK
  <2>3. /\ EventsAreServed' /\ ButtonFitsHandler' /\ ReceiverFitsHandler'
        /\ TimerIsOff'
    BY <2>1
  <2>4. CopiesAreFresh' /\ CountIsBounded' /\ CountIsReset'
    BY <2>1
  <2>5. QED
    BY ONLY <2>2, <2>3, <2>4
<1>5. CASE PauseTimer
  BY <1>0, <1>5 DEF PauseTimer, TypeOK
<1>6. CASE ContinueTimer
  BY <1>0, <1>6 DEF ContinueTimer, TypeOK
<1>7. CASE ContinueStatus
  BY <1>0, <1>7 DEF ContinueStatus, TypeOK
<1>8. CASE ClearSeconds
  BY <1>0, <1>8 DEF ClearSeconds, TypeOK, Time
<1>9. CASE SendClear
  <2>1. uwEventID' = {FLAGS_MSK2} /\ rx' = "woken"
    BY <1>9 DEF SendClear
  <2>2. QED
    BY <1>0, <1>9, <2>1 DEF SendClear, TypeOK
<1>10. CASE ClearStatus
  BY <1>0, <1>10 DEF ClearStatus, TypeOK
<1>11. QED
  BY <1>1, <1>2, <1>3, <1>4, <1>5, <1>6, <1>7, <1>8, <1>9, <1>10 DEF Lvgl

\* The steps of OS_Thread_EventReceiverOR.
LEMMA ReceiverKeepsIInv ==
  ASSUME IInv, Receiver
  PROVE  IInv'
<1> USE DEF IInv, EventsAreServed, ButtonFitsHandler, ReceiverFitsHandler, TimerIsOff,
            Quiet, Starting, Serving, CopiesAreFresh, CountIsBounded, CountIsReset, InHand, data,
            LowPriorityRuns, InputArrives, LOS_SwtmrStart, LOS_SwtmrStop, LOS_EventWrite,
            BT_WAIT, BT_START, BT_PAUSE, BT_CONTINUE, FLAGS_MSK1, FLAGS_MSK2
<1>0. TypeOK
  OBVIOUS
<1>1. CASE ReadEvent
  <2>1. /\ rx \in {"read", "woken"} /\ uwEventID' = {}
        /\ \/ rx = "read" /\ uwEventID = {} /\ rx' = "pend" /\ swtmr' = swtmr
           \/ rx = "woken" /\ uwEventID = {FLAGS_MSK1} /\ rx' = "delay" /\ swtmr' = "TICKING"
           \/ rx = "woken" /\ uwEventID = {FLAGS_MSK2} /\ rx' = "stop" /\ swtmr' = swtmr
        /\ UNCHANGED <<data, handlerQueue, ui, cb>>
    BY <1>0, <1>1 DEF ReadEvent, Serves, ReadMask, ReadMode, Event!Polled, Event!AfterPoll
  <2>2. TypeOK'
    BY <1>0, <2>1 DEF TypeOK
  <2>3. CountIsReset'
    BY <2>1
  <2>4. CopiesAreFresh' /\ CountIsBounded'
    BY <2>1
  <2>5. EventsAreServed' /\ ButtonFitsHandler' /\ ReceiverFitsHandler' /\ TimerIsOff'
    BY <2>1
  <2>6. QED
    BY ONLY <2>2, <2>3, <2>4, <2>5
<1>2. CASE StopTimer
  BY <1>0, <1>2 DEF StopTimer, TypeOK
<1>3. CASE ZeroCount
  <2>1. /\ rx = "zeroCount" /\ rx' = "zeroTime" /\ g_timerCount1' = 0
        /\ UNCHANGED <<button_status, rollers, ui_TimeID, countTime, loaded, swtmr,
                       handlerQueue, uwEventID, ui, cb>>
    BY <1>3 DEF ZeroCount
  <2>2. lateExpiry' \in BOOLEAN
    BY <1>3 DEF ZeroCount
  <2>3. InHand = 0 \/ lateExpiry'
    <3>1. InHand = ToCount /\ InHand \in Nat
      BY BoundFacts, SMT DEF ToCount
    <3>2. InHand = 0 \/ ToCount > 0
      BY ONLY <3>1, SMT
    <3>3. lateExpiry' = (ToCount > 0)
      BY <1>3, Zenon DEF ZeroCount
    <3>4. QED
      BY ONLY <3>2, <3>3, Zenon
  <2>4. TypeOK'
    BY <1>0, <2>1, <2>2, BoundFacts DEF TypeOK
  <2>5. CountIsReset'
    BY <2>1, <2>3
  <2>6. CountIsBounded'
    BY <1>0, <2>1, BoundFacts
  <2>7. /\ EventsAreServed' /\ ButtonFitsHandler' /\ ReceiverFitsHandler'
        /\ TimerIsOff' /\ CopiesAreFresh'
    BY <2>1
  <2>8. QED
    BY ONLY <2>4, <2>5, <2>6, <2>7
<1>4. CASE ZeroTime
  BY <1>0, <1>4 DEF ZeroTime, TypeOK
<1>5. QED
  BY <1>1, <1>2, <1>3, <1>4 DEF Receiver

\* The steps of Swt_Task and Timer1_Callback.
LEMMA SwtTaskKeepsIInv ==
  ASSUME IInv, SwtTask
  PROVE  IInv'
<1> USE DEF IInv, EventsAreServed, ButtonFitsHandler, ReceiverFitsHandler, TimerIsOff,
            Quiet, Starting, Serving, CopiesAreFresh, CountIsBounded, CountIsReset, InHand, data,
            LowPriorityRuns, InputArrives, LOS_SwtmrStart, LOS_SwtmrStop, LOS_EventWrite,
            BT_WAIT, BT_START, BT_PAUSE, BT_CONTINUE, FLAGS_MSK1, FLAGS_MSK2
<1>0. TypeOK
  OBVIOUS
<1>1. CASE TakeItem
  BY <1>0, <1>1, BoundFacts DEF TakeItem, TypeOK
<1>2. CASE LoadCount
  BY <1>0, <1>2, BoundFacts DEF LoadCount, TypeOK
<1>3. CASE StoreCount
  BY <1>0, <1>3, BoundFacts DEF StoreCount, TypeOK
<1>4. CASE Compare
  BY <1>0, <1>4, BoundFacts DEF Compare, TypeOK
<1>5. CASE TimeOut
  BY <1>0, <1>5, BoundFacts DEF TimeOut, TypeOK
<1>6. CASE Finish
  <2>1. FLAGS_MSK1 \notin uwEventID /\ ui \notin Starting
    BY <1>6 DEF Finish
  <2>2. TypeOK'
    BY <1>0, <1>6, BoundFacts DEF Finish, TypeOK, Time
  <2>3. QED
    BY <1>0, <1>6, <2>1, <2>2, BoundFacts DEF Finish
<1>7. CASE RefreshMinutes
  BY <1>0, <1>7, BoundFacts DEF RefreshMinutes, TypeOK
<1>8. CASE RefreshSeconds
  <2>1. FLAGS_MSK1 \notin uwEventID /\ ui \notin Starting
    BY <1>8 DEF RefreshSeconds
  <2>2. ui_TimeID' \in Nat \X (0 .. 59)
    BY <1>0, <1>8, BoundFacts DEF RefreshSeconds, TypeOK
  <2>3. rollers' \in Time
    BY <1>8, <2>2, RollerFacts DEF RefreshSeconds, Time
  <2>4. TypeOK'
    BY <1>0, <1>8, <2>2, <2>3, BoundFacts DEF RefreshSeconds, TypeOK
  <2>5. QED
    BY <1>0, <1>8, <2>1, <2>4, BoundFacts DEF RefreshSeconds
<1>9. QED
  BY <1>1, <1>2, <1>3, <1>4, <1>5, <1>6, <1>7, <1>8 DEF SwtTask

\* The user's input.
LEMMA UserKeepsIInv ==
  ASSUME IInv, User
  PROVE  IInv'
<1> USE DEF IInv, EventsAreServed, ButtonFitsHandler, ReceiverFitsHandler, TimerIsOff,
            Quiet, Starting, Serving, CopiesAreFresh, CountIsBounded, CountIsReset, InHand,
            LowPriorityRuns, InputArrives,
            BT_WAIT, BT_START, BT_PAUSE, BT_CONTINUE, FLAGS_MSK1, FLAGS_MSK2
<1>0. TypeOK
  OBVIOUS
<1>1. ASSUME NEW time \in Picks, RollTo(time) PROVE IInv'
  <2>1. time \in Time
    BY BoundAssumption, SMT DEF Time
  <2>2. QED
    BY <1>0, <1>1, <2>1 DEF RollTo, TypeOK
<1>2. CASE StartClick
  <2>1. /\ ui = "idle" /\ rx = "pend" /\ cb = "wait" /\ handlerQueue = 0 /\ uwEventID = {}
        /\ \/ button_status = BT_WAIT /\ button_status' = BT_START /\ ui' = "min"
           \/ button_status = BT_START /\ button_status' = BT_PAUSE /\ ui' = "pause"
           \/ button_status = BT_PAUSE /\ button_status' = BT_CONTINUE /\ ui' = "continue"
        /\ UNCHANGED <<rollers, ui_TimeID, countTime, g_timerCount1, loaded, swtmr,
                       handlerQueue, uwEventID, rx, cb, lateExpiry>>
    BY <1>0, <1>2 DEF StartClick, CaseOf, TypeOK
  <2>2. TypeOK'
    BY <1>0, <2>1 DEF TypeOK
  <2>3. QED
    BY <2>1, <2>2
<1>3. CASE ClearClick
  <2>1. /\ ui = "idle" /\ rx = "pend" /\ cb = "wait" /\ handlerQueue = 0 /\ uwEventID = {}
        /\ ui' = "clearSec"
        /\ UNCHANGED <<button_status, ui_TimeID, countTime, g_timerCount1, loaded, swtmr,
                       handlerQueue, uwEventID, rx, cb, lateExpiry>>
    BY <1>3 DEF ClearClick
  <2>2. rollers' \in Time
    BY <1>0, <1>3, PairFacts DEF ClearClick, TypeOK, Time
  <2>3. TypeOK'
    BY <1>0, <2>1, <2>2 DEF TypeOK
  <2>4. QED
    BY <2>1, <2>3
<1>4. QED
  BY <1>1, <1>2, <1>3 DEF User

\* The tick interrupt: an expiry is queued only below the bounds.
LEMMA TickKeepsIInv ==
  ASSUME IInv, TickExpires \/ DelayEnds
  PROVE  IInv'
<1> USE DEF IInv, EventsAreServed, ButtonFitsHandler, ReceiverFitsHandler, TimerIsOff,
            Quiet, Starting, Serving, CopiesAreFresh, CountIsBounded, CountIsReset, InHand, data,
            BT_WAIT, BT_START, BT_PAUSE, BT_CONTINUE, FLAGS_MSK1, FLAGS_MSK2
<1>0. TypeOK
  OBVIOUS
<1>1. CASE TickExpires
  <2>1. TypeOK'
    BY <1>0, <1>1, BoundFacts DEF TickExpires, TypeOK
  <2>2. CountIsBounded'
    BY <1>0, <1>1, BoundFacts DEF TickExpires, TypeOK
  <2>3. QED
    BY <1>1, <2>1, <2>2 DEF TickExpires
<1>2. CASE DelayEnds
  BY <1>0, <1>2 DEF DelayEnds, TypeOK
<1>3. QED
  BY <1>1, <1>2

\* Every step keeps the invariant.
LEMMA NextIInv == IInv /\ [Next]_vars => IInv'
<1> SUFFICES ASSUME IInv, [Next]_vars PROVE IInv'
  OBVIOUS
<1>1. CASE UNCHANGED vars
  BY <1>1 DEF vars, IInv, TypeOK, EventsAreServed, ButtonFitsHandler, ReceiverFitsHandler,
              TimerIsOff, Quiet, CopiesAreFresh, CountIsBounded, CountIsReset, InHand
<1>2. QED
  BY <1>1, UserKeepsIInv, LvglKeepsIInv, ReceiverKeepsIInv, SwtTaskKeepsIInv, TickKeepsIInv
     DEF Next

\* The inductive invariant holds in every reachable state.
LEMMA AlwaysIInv == Spec => []IInv
BY InitIInv, NextIInv, PTL DEF Spec

-----------------------------------------------------------------------------
\* A paused count-down stands still: after case BT_PAUSE of start_ok nothing of the
\* timer is left, neither a queued expiry nor a callback half way nor an event that
\* would start it again, whatever the ticks and the two tasks did before.
THEOREM PauseAlwaysFreezes == Spec => []PauseFreezes
<1>1. IInv => PauseFreezes
  BY DEF IInv, TimerIsOff, Quiet, PauseFreezes, BT_PAUSE, BT_START
<1>2. QED
  BY <1>1, AlwaysIInv, PTL

\* Once a click has been served, the timer runs only under a button that shows Pause,
\* and all variables keep their types.
THEOREM TimerAlwaysFollowsButton == Spec => []TimerFollowsButton
<1>1. IInv => TimerFollowsButton
  BY DEF IInv, TypeOK, TimerIsOff, ButtonFitsHandler, Quiet, Settled, TimerFollowsButton,
         BT_WAIT, BT_START, BT_PAUSE, BT_CONTINUE
<1>2. QED
  BY <1>1, AlwaysIInv, PTL

\* No callback of an earlier count-down gets between the statements of start_ok: the
\* receiver starts the timer for the time on the rollers, with nothing counted, unless the
\* reset of the last clear_ok came before an expiry that Swt_Task counts after it.
THEOREM StartAlwaysTakesRollers == Spec => []StartTakesRollers
<1>1. IInv => StartTakesRollers
  BY DEF IInv, CopiesAreFresh, CountIsReset, StartTakesRollers
<1>2. QED
  BY <1>1, AlwaysIInv, PTL

\* The product of start_ok never wraps round, although Timer1_Callback may leave a wrapped
\* number of minutes in the global it multiplies: it has read the rollers again.
THEOREM TotalNeverWraps == Spec => [](countTime \in 0 .. 659)
<1>1. IInv => countTime \in 0 .. 659
  BY DEF IInv, CountIsBounded
<1>2. QED
  BY <1>1, AlwaysIInv, PTL

-----------------------------------------------------------------------------
(* The irrigation application                                              *)

\* A number below the modulus is its own remainder.
LEMMA SmallRemainder ==
  ASSUME NEW w \in Nat, NEW x \in Nat, x < w
  PROVE  x % w = x
BY Z3

\* A part of the whole is at most 100 per cent.
LEMMA PartOfWhole ==
  ASSUME NEW m \in Nat \ {0}, NEW x \in 0 .. m
  PROVE  (100 * x) \div m \in 0 .. 100
BY Z3

\* Neither the difference nor the product of adc_humidity and adc_light wraps round
\* for a reading that is not above MAX_HUMIDITY.
LEMMA PercentFacts ==
  ASSUME NEW v \in Readings, v <= MaxHumidity
  PROVE  Percent(v) \in 0 .. 100
<1> DEFINE x == MaxHumidity - v
<1>1. /\ MaxHumidity \in Nat \ {0} /\ Word \in Nat
      /\ x \in 0 .. MaxHumidity /\ x \in Nat /\ x < Word
      /\ 100 * x \in Nat /\ 100 * x < Word
  BY IrrigationAssumption
<1> HIDE DEF x
<1>2. x % Word = x /\ (100 * x) % Word = 100 * x
  BY <1>1, SmallRemainder
<1>3. QED
  BY <1>1, <1>2, PartOfWhole DEF Percent, x

\* A step of the sampling task keeps the reason of the pump.
LEMMA SamplerKeepsReason ==
  ASSUME \A v \in Readings : v <= MaxHumidity,
         PumpHasReason, Sampler
  PROVE  PumpHasReason'
<1> USE DEF PumpHasReason, IrrigationTypeOK, Step
<1>1. ASSUME NEW opened \in BOOLEAN, Start(opened) PROVE PumpHasReason'
  BY <1>1 DEF Start
<1>2. ASSUME NEW v \in Readings, NEW ok \in BOOLEAN, adc_humidity(v, ok)
      PROVE  PumpHasReason'
  BY <1>2, PercentFacts DEF adc_humidity
<1>3. CASE Pass
  BY <1>3 DEF Pass, SetHumiData, SetLightData, Awake
<1>4. CASE Decide
  <2>1. decision' \in BOOLEAN
    BY <1>4 DEF Decide, Wanted
  <2>2. QED
    BY <1>4, <2>1 DEF Decide
<1>5. CASE Drive
  BY <1>5 DEF Drive
<1>6. ASSUME NEW v \in Readings, NEW ok \in BOOLEAN, adc_light(v, ok)
      PROVE  PumpHasReason'
  BY <1>6, PercentFacts DEF adc_light
<1>7. ASSUME NEW opened \in BOOLEAN, Request(opened) PROVE PumpHasReason'
  BY <1>7 DEF Request
<1>8. ASSUME NEW ok \in BOOLEAN, i2c_temperature(ok) PROVE PumpHasReason'
  <2>1. NextIndex(tempIndex) \in -1 .. History - 1
    BY IrrigationAssumption DEF NextIndex
  <2>2. QED
    BY <1>8, <2>1 DEF i2c_temperature
<1>9. CASE Draw
  BY <1>9 DEF Draw
<1>10. QED
  BY <1>1, <1>2, <1>3, <1>4, <1>5, <1>6, <1>7, <1>8, <1>9 DEF Sampler

\* A step of display_test, or of a handler it calls, does too.
LEMMA UiKeepsReason ==
  ASSUME PumpHasReason, Ui
  PROVE  PumpHasReason'
<1> USE DEF PumpHasReason, IrrigationTypeOK
<1>1. CASE HandlerStarts
  BY <1>1 DEF HandlerStarts
<1>2. CASE HandlerEnds
  BY <1>2 DEF HandlerEnds
<1>3. CASE WateringCtrl
  BY <1>3 DEF WateringCtrl
<1>4. CASE WateringCtrlDrives
  BY <1>4 DEF WateringCtrlDrives
<1>5. CASE GetTepmData
  BY <1>5 DEF GetTepmData
<1>6. QED
  BY <1>1, <1>2, <1>3, <1>4, <1>5 DEF Ui

\* The pump runs only if the sampling task asked for it last, the switch is on or a
\* write of the pin is under way, however the writes of the two tasks fall; and humidity
\* and light are percentages, for readings up to MAX_HUMIDITY.
THEOREM PumpAlwaysHasReason ==
  ASSUME \A v \in Readings : v <= MaxHumidity
  PROVE  IrrigationSpec => []PumpHasReason
<1>1. IrrigationInit => PumpHasReason
  <2>1. -1 \in -1 .. History - 1
    BY IrrigationAssumption
  <2>2. IrrigationInit => {checked, pumpStatus, decision, pump} \subseteq BOOLEAN /\ ~pump
    BY Zenon DEF IrrigationInit
  <2>3. IrrigationInit => IrrigationTypeOK
    BY <2>1, <2>2, SMT DEF IrrigationInit, IrrigationTypeOK
  <2>4. QED
    BY <2>2, <2>3, Zenon DEF PumpHasReason
<1>2. PumpHasReason /\ [IrrigationNext]_irrigationVars => PumpHasReason'
  <2>1. CASE UNCHANGED irrigationVars
    BY <2>1 DEF irrigationVars, PumpHasReason, IrrigationTypeOK
  <2>2. QED
    BY <2>1, SamplerKeepsReason, UiKeepsReason DEF IrrigationNext
<1>3. QED
  BY <1>1, <1>2, PTL DEF IrrigationSpec

-----------------------------------------------------------------------------
(* The cache of an account                                                 *)

\* At most one buffer is readable, apart from the one that Publish holds.
CacheInv == CacheTypeOK /\ OnlyOneFresh

\* A commit writes the buffer that was not read last, so never the one in the
\* subscribers' hands.
LEMMA WritesTheOther == ASSUME CacheTypeOK PROVE GetWriteBuf = Other(readIndex)
  BY DEF CacheTypeOK, GetWriteBuf, Other, Index

\* Outside Publish the only readable buffer is the one not read last, and it is
\* the one GetReadBuf finds.
LEMMA ReadsTheOther ==
  ASSUME CacheInv, ~publishing, Readable
  PROVE  /\ GetReadBuf = Other(readIndex)
         /\ readAvaliable[Other(readIndex)]
  BY DEF CacheInv, CacheTypeOK, OnlyOneFresh, GetReadBuf, Readable,
     Other, Index

\* The swap between the two buffers is its own inverse and has no fixed point.
LEMMA OtherIsOther ==
  ASSUME NEW i \in Index
  PROVE  Other(i) \in Index /\ Other(i) # i /\ Other(Other(i)) = i
  BY DEF Index, Other

\* One step of Commit, Publish or Pull keeps the typing and the single fresh buffer.
LEMMA StepKeepsCacheInv ==
  ASSUME CacheInv, [CacheNext]_cacheVars
  PROVE  CacheInv'
<1> USE DEF CacheInv
<1>t. /\ readIndex \in Index /\ Other(readIndex) \in Index
      /\ Other(readIndex) # readIndex
  BY OtherIsOther DEF CacheTypeOK
<1>1. ASSUME NEW v \in Value, Commit(v) PROVE CacheInv'
  <2>1. /\ buffer' = [buffer EXCEPT ![Other(readIndex)] = v]
        /\ readAvaliable' = [readAvaliable EXCEPT ![Other(readIndex)] = TRUE]
        /\ writeIndex' = readIndex
        /\ UNCHANGED <<readIndex, publishing>>
    BY <1>1, WritesTheOther, OtherIsOther DEF Commit, SetWriteDone, CacheTypeOK
  <2>2. v # None
    BY NoneAssumption
  <2>3. CacheTypeOK'
    BY <2>1, <1>t DEF CacheTypeOK
  <2>4. OnlyOneFresh'
    BY <2>1, <2>2, <1>t DEF CacheTypeOK, OnlyOneFresh
  <2> QED BY <2>3, <2>4
<1>2. CASE PublishBegin
  <2>1. readIndex' = Other(readIndex) /\ readAvaliable[Other(readIndex)]
    BY <1>2, ReadsTheOther DEF PublishBegin
  <2> QED BY <1>2, <1>t, <2>1 DEF PublishBegin, CacheTypeOK, OnlyOneFresh
<1>3. CASE PublishEnd
  BY <1>3, <1>t DEF PublishEnd, SetReadDone, CacheTypeOK, OnlyOneFresh
<1>4. CASE Pull
  <2>1. readIndex' = Other(readIndex) /\ GetReadBuf = Other(readIndex)
    BY <1>4, ReadsTheOther DEF Pull
  <2>2. readAvaliable' = [readAvaliable EXCEPT ![Other(readIndex)] = FALSE]
    BY <1>4, <2>1 DEF Pull, SetReadDone
  <2> QED BY <1>4, <1>t, <2>1, <2>2 DEF Pull, CacheTypeOK, OnlyOneFresh
<1>5. CASE UNCHANGED cacheVars
  BY <1>5 DEF cacheVars, CacheTypeOK, OnlyOneFresh
<1> QED BY <1>1, <1>2, <1>3, <1>4, <1>5 DEF CacheNext

\* The typing and the single fresh buffer hold in every state of the cache.
LEMMA CacheInvHolds ==
  CacheSpec => []CacheInv
<1>1. CacheInit => CacheInv
  BY DEF CacheInit, CacheInv, CacheTypeOK, OnlyOneFresh, Index
<1> QED BY <1>1, StepKeepsCacheInv, PTL DEF CacheSpec

\* PingPongBuffer.c and its users keep every index at 0 or 1.
THEOREM CacheTypeCorrect ==
  CacheSpec => []CacheTypeOK
  BY CacheInvHolds, PTL DEF CacheInv

\* Two readable buffers exist only while Publish holds one of them, so the fixed
\* order in which GetReadBuf looks at the buffers never serves an older value.
THEOREM OneFresh ==
  CacheSpec => []OnlyOneFresh
  BY CacheInvHolds, PTL DEF CacheInv

\* A step of the cache is a step of LatestValue or leaves what it shows unchanged.
LEMMA StepRefines ==
  ASSUME CacheInv, CacheInv', [CacheNext]_cacheVars
  PROVE  [Latest!Next]_<<freshValue, heldValue>>
<1> USE DEF CacheInv
<1>t. /\ readIndex \in Index /\ Other(readIndex) \in Index
      /\ Other(readIndex) # readIndex
      /\ Other(Other(readIndex)) = readIndex
  BY OtherIsOther DEF CacheTypeOK
<1>1. ASSUME NEW v \in Value, Commit(v) PROVE Latest!Put(v)
  <2>1. /\ buffer' = [buffer EXCEPT ![Other(readIndex)] = v]
        /\ readAvaliable' = [readAvaliable EXCEPT ![Other(readIndex)] = TRUE]
        /\ UNCHANGED <<readIndex, publishing>>
    BY <1>1, WritesTheOther DEF Commit, SetWriteDone
  <2>2. Other(readIndex)' = Other(readIndex)
    BY <2>1 DEF Other
  <2>3. freshValue' = v
    BY <2>1, <2>2, <1>t DEF freshValue, CacheTypeOK
  <2>4. heldValue' = heldValue
    BY <2>1, <1>t DEF heldValue, CacheTypeOK
  <2> QED BY <2>3, <2>4 DEF Latest!Put
<1>2. CASE PublishBegin
  <2>1. /\ readIndex' = Other(readIndex) /\ readAvaliable[Other(readIndex)]
        /\ ~publishing /\ publishing' /\ buffer' = buffer /\ readAvaliable' = readAvaliable
    BY <1>2, ReadsTheOther DEF PublishBegin
  <2>2. Other(readIndex)' = readIndex
    BY <2>1, <1>t DEF Other
  <2>3. ~readAvaliable[readIndex] /\ buffer[Other(readIndex)] # None
    BY <2>1, <1>t DEF OnlyOneFresh, CacheTypeOK
  <2>4. freshValue' = None /\ heldValue = None
    BY <2>1, <2>2, <2>3 DEF freshValue, heldValue
  <2>5. heldValue' = freshValue /\ freshValue # None
    BY <2>1, <2>3 DEF freshValue, heldValue
  <2> QED BY <2>4, <2>5 DEF Latest!Take, Latest!Next
<1>3. CASE PublishEnd
  <2>1. readAvaliable' = [readAvaliable EXCEPT ![readIndex] = FALSE]
    BY <1>3 DEF PublishEnd, SetReadDone
  <2>2. /\ publishing /\ ~publishing' /\ buffer' = buffer /\ readIndex' = readIndex
        /\ buffer[readIndex] # None
    BY <1>3, <1>t DEF PublishEnd, OnlyOneFresh, CacheTypeOK
  <2>3. Other(readIndex)' = Other(readIndex)
    BY <2>2 DEF Other
  <2>4. readAvaliable'[Other(readIndex)] = readAvaliable[Other(readIndex)]
    BY <2>1, <1>t DEF CacheTypeOK
  <2>5. freshValue' = freshValue
    BY <2>2, <2>3, <2>4 DEF freshValue
  <2>6. heldValue # None /\ heldValue' = None
    BY <2>2 DEF heldValue
  <2> QED BY <2>5, <2>6 DEF Latest!Release, Latest!Next
<1>4. CASE Pull
  <2>1. /\ readIndex' = Other(readIndex) /\ readAvaliable[Other(readIndex)]
        /\ ~publishing /\ ~publishing' /\ buffer' = buffer
        /\ readAvaliable' = [readAvaliable EXCEPT ![Other(readIndex)] = FALSE]
    BY <1>4, ReadsTheOther DEF Pull, SetReadDone
  <2>2. Other(readIndex)' = readIndex
    BY <2>1, <1>t DEF Other
  <2>3. ~readAvaliable[readIndex] /\ buffer[Other(readIndex)] # None
    BY <2>1, <1>t DEF OnlyOneFresh, CacheTypeOK
  <2>4. readAvaliable'[readIndex] = readAvaliable[readIndex]
    BY <2>1, <1>t DEF CacheTypeOK
  <2>5. freshValue' = None /\ freshValue # None
    BY <2>1, <2>2, <2>3, <2>4 DEF freshValue
  <2>6. heldValue = None /\ heldValue' = None
    BY <2>1 DEF heldValue
  <2> QED BY <2>5, <2>6 DEF Latest!Fetch, Latest!Next
<1>5. CASE UNCHANGED cacheVars
  BY <1>5 DEF cacheVars, freshValue, heldValue, Other
<1> QED BY <1>1, <1>2, <1>3, <1>4, <1>5 DEF CacheNext, Latest!Next

\* Commit, Publish and Pull on the two buffers implement the abstract cache: the
\* last commit wins, nothing is handed out twice, and what subscribers are looking
\* at does not change under them.
THEOREM CacheImplements ==
  CacheSpec => ImplementsLatestValue
<1>1. CacheInit => Latest!Init
  BY DEF CacheInit, Latest!Init, freshValue, heldValue, Index,
     Other
<1> QED BY <1>1, CacheInvHolds, StepRefines, PTL DEF CacheSpec, ImplementsLatestValue,
           Latest!Spec

-----------------------------------------------------------------------------
(* The page manager                                                        *)

\* The five phases of a page between two handlers: not loaded; loaded, cached and out of
\* sight; its animation in; in front; its animation out.
Off(r) ==
  /\ r.state = "IDLE" /\ r.life = "unload" /\ r.stash = 0
  /\ ~r.root /\ ~r.cached /\ ~r.busy /\ ~r.drag /\ ~r.lost
Asleep(r) ==
  r.state = "WILL_APPEAR" /\ r.life = "didDisappear" /\ r.root /\ r.cached /\ ~r.busy /\ ~r.lost
Appearing(r) ==
  r.state = "DID_APPEAR" /\ r.life = "willAppear" /\ r.root /\ r.busy /\ ~r.lost
InFront(r) ==
  r.state = "ACTIVITY" /\ r.life = "didAppear" /\ r.root /\ ~r.busy /\ ~r.lost
Leaving(r) ==
  r.state = "DID_DISAPPEAR" /\ r.life = "willDisappear" /\ r.root /\ r.busy /\ ~r.lost
Hidden(r) == Off(r) \/ Asleep(r)

\* The stack has every page once, all of them installed; its top is current; it is empty
\* only before the first Push; and a switch has two ends.
StackFits ==
  /\ \A i, j \in 1 .. Len(PageStack) : PageStack[i] = PageStack[j] => i = j
  /\ \A i \in 1 .. Len(PageStack) : PageStack[i] \in PagePool
  /\ PageStack = <<>> => /\ PagePrev = NoPage /\ ~IsSwitchReq
                         /\ \A p \in Pages : Off(page[p])
  /\ PageCurrent = GetStackTop
  /\ PageStack # <<>> /\ ~IsSwitchReq => PagePrev = PageCurrent
  /\ PagePrev \in PagePool \cup {NoPage}
  /\ IsSwitchReq => PagePrev # PageCurrent

\* Only the two pages of a switch are in sight, and until both animations have ended one
\* of them is busy.
PhasesFit ==
  /\ \A p \in Pages \ PagePool : Off(page[p])
  /\ \A p \in Pages : p # PagePrev /\ p # PageCurrent => Hidden(page[p])
  /\ PageCurrent # NoPage => \/ InFront(page[PageCurrent])
                             \/ IsSwitchReq /\ Appearing(page[PageCurrent])
  /\ IsSwitchReq /\ PagePrev # NoPage => Leaving(page[PagePrev]) \/ Hidden(page[PagePrev])
  /\ IsSwitchReq => page[PageCurrent].busy \/ (PagePrev # NoPage /\ page[PagePrev].busy)

\* Only a page that may be cached is, and the automatic cache ends with the page's stay in
\* the stack.
CacheFits ==
  \A p \in Pages : page[p].cached =>
    CacheMode[p] # "off" /\ (CacheMode[p] = "auto" => InStack(p))

\* A page without animation is at the bottom, the bottom page cannot be dragged, and the
\* type of the page in front is current; while pages are popped it is the type of the one
\* that leaves.
AnimFits ==
  /\ CacheFits
  /\ \A i \in 2 .. Len(PageStack) : SwitchAnimTypeUpdate(PageStack[i]) # "none"
  /\ PageStack # <<>> => ~page[PageStack[1]].drag
  /\ PageStack # <<>> /\ (~IsSwitchReq \/ IsPushing)
       => AnimCurrent = SwitchAnimTypeUpdate(PageCurrent)
  /\ IsSwitchReq => IF IsPushing THEN PagePrev # NoPage => Len(PageStack) > 1
                                  ELSE AnimCurrent # "none"

PageInv == PageTypeOK /\ StackFits /\ PhasesFit

\* A page that SwitchTo can bring in: loaded if and only if it is cached.
Wakeable(r) ==
  /\ ~r.busy /\ ~r.lost
  /\ IF r.cached THEN r.root /\ r.life = "didDisappear" ELSE ~r.root /\ r.life = "unload"

\* A hidden page is one.
LEMMA HiddenIsWakeable ==
  ASSUME NEW r \in PageBase, Hidden(r)
  PROVE  Wakeable(r)
BY DEF Hidden, Off, Asleep, Wakeable

\* The phase in which a page is tells its other fields apart.
LEMMA Unbroken ==
  ASSUME NEW r \in PageBase,
         Hidden(r) \/ Appearing(r) \/ InFront(r) \/ Leaving(r)
  PROVE  r.life # "broken" /\ ~r.lost /\ (r.state = "IDLE" => r.stash = 0)
BY DEF Hidden, Off, Asleep, Appearing, InFront, Leaving

\* A callback is the next one of the life cycle, or breaks it; it changes nothing else.
LEMMA CallFacts ==
  ASSUME NEW r \in PageBase, NEW call \in Calls, call \in MayFollow(r.life)
  PROVE  Called(r, call) = [r EXCEPT !.life = call] /\ Called(r, call) \in PageBase
BY DEF Called, PageBase

\* SwitchTo sets the state of the page it brings in, and StateUpdate loads it if it has to
\* and starts its animation.
LEMMA PageWakes ==
  ASSUME NEW r \in PageBase, Wakeable(r), NEW mode, NEW on \in BOOLEAN
  PROVE  LET s == StateUpdate([r EXCEPT !.state = IF r.cached THEN "WILL_APPEAR" ELSE "LOAD"],
                              mode, on)
         IN  /\ s \in PageBase /\ Appearing(s) /\ (s.drag => r.drag \/ on)
             /\ s.cached => r.cached \/ mode # "off"
<1>1. ASSUME NEW q \in PageBase, q.life \in {"load", "didDisappear"}, q.root, ~q.lost
      PROVE  /\ StateWillAppearExecute(q) \in PageBase
             /\ Appearing(StateWillAppearExecute(q))
             /\ StateWillAppearExecute(q).drag => q.drag
             /\ StateWillAppearExecute(q).cached => q.cached
  <2> DEFINE c == [q EXCEPT !.busy = TRUE, !.state = "DID_APPEAR"]
  <2>1. c \in PageBase
    BY DEF PageBase, States
  <2>2. c.life = q.life /\ c.root /\ ~c.lost /\ c.busy /\ c.state = "DID_APPEAR"
        /\ (c.drag => q.drag) /\ (c.cached => q.cached)
    BY <1>1 DEF PageBase
  <2>3. StateWillAppearExecute(q) = Called(c, "willAppear")
    BY DEF StateWillAppearExecute
  <2> HIDE DEF c
  <2>4. "willAppear" \in Calls /\ "willAppear" \in MayFollow(c.life)
    BY <1>1, <2>2 DEF MayFollow, Calls
  <2>5. QED
    BY <2>1, <2>2, <2>3, <2>4, CallFacts DEF Appearing, PageBase
<1>2. CASE r.cached
  <2> DEFINE q == [r EXCEPT !.state = "WILL_APPEAR"]
  <2>1. q \in PageBase
    BY DEF PageBase, States
  <2>2. /\ q.life = "didDisappear" /\ q.root /\ ~q.lost /\ (q.drag => r.drag)
        /\ q.state = "WILL_APPEAR"
    BY <1>2 DEF Wakeable, PageBase
  <2> HIDE DEF q
  <2>3. StateUpdate(q, mode, on) = StateWillAppearExecute(q)
    BY <2>2 DEF StateUpdate
  <2>4. [r EXCEPT !.state = IF r.cached THEN "WILL_APPEAR" ELSE "LOAD"] = q
    BY <1>2 DEF q
  <2>5. QED
    BY <1>1, <1>2, <2>1, <2>2, <2>3, <2>4
<1>3. CASE ~r.cached
  <2> DEFINE q == [r EXCEPT !.state = "LOAD"]
  <2>1. q \in PageBase
    BY DEF PageBase, States
  <2>2. q.life = "unload" /\ ~q.root /\ ~q.lost /\ q.state = "LOAD"
    BY <1>3 DEF Wakeable, PageBase
  <2> HIDE DEF q
  <2> DEFINE c == [q EXCEPT !.root = TRUE, !.lost = @ \/ q.root, !.drag = on,
                            !.cached = (mode # "off"), !.state = "WILL_APPEAR"]
  <2>3. c \in PageBase
    <3>1. PICK kept \in BOOLEAN : kept = (mode # "off")
      BY Zenon
    <3>2. PICK lost \in BOOLEAN : lost = (q.lost \/ q.root)
      BY Zenon
    <3>3. [q EXCEPT !.root = TRUE, !.lost = lost, !.drag = on, !.cached = kept,
                    !.state = "WILL_APPEAR"] \in PageBase
      BY <2>1 DEF PageBase, States
    <3>4. QED
      BY <3>1, <3>2, <3>3, Zenon
  <2>4. /\ c.life = "unload" /\ c.root /\ ~c.lost /\ (c.drag => on)
        /\ c.cached => mode # "off"
    BY <2>1, <2>2 DEF PageBase
  <2>5. StateUpdate(q, mode, on) = StateWillAppearExecute(Called(c, "load"))
    BY <2>2 DEF StateUpdate, StateLoadExecute
  <2> HIDE DEF c
  <2>6. "load" \in Calls /\ "load" \in MayFollow(c.life)
    BY <2>4 DEF MayFollow, Calls
  <2>7. /\ Called(c, "load") \in PageBase /\ Called(c, "load").life = "load"
        /\ Called(c, "load").root /\ ~Called(c, "load").lost
        /\ Called(c, "load").drag => on
        /\ Called(c, "load").cached => mode # "off"
    BY <2>3, <2>4, <2>6, CallFacts DEF PageBase
  <2>8. [r EXCEPT !.state = IF r.cached THEN "WILL_APPEAR" ELSE "LOAD"] = q
    BY <1>3 DEF q
  <2>9. QED
    BY <1>1, <2>5, <2>7, <2>8
<1>4. QED
  BY <1>2, <1>3

\* The page in front starts to leave.
LEMMA PageLeaves ==
  ASSUME NEW r \in PageBase, InFront(r), NEW mode, NEW on
  PROVE  LET s == StateUpdate(r, mode, on)
         IN  s \in PageBase /\ Leaving(s) /\ (s.drag <=> r.drag) /\ (s.cached <=> r.cached)
BY DEF StateUpdate, StateWillDisappearExecute, Called, MayFollow, InFront, Leaving,
       PageBase, States, Calls

\* The end of its animation brings a page to the front.
LEMMA PageAppears ==
  ASSUME NEW r \in PageBase, Appearing(r), NEW mode, NEW on
  PROVE  LET s == [StateUpdate(r, mode, on) EXCEPT !.busy = FALSE]
         IN  s \in PageBase /\ InFront(s) /\ (s.drag <=> r.drag) /\ (s.cached <=> r.cached)
BY DEF StateUpdate, StateDidAppearExecute, Called, MayFollow, Appearing, InFront,
       PageBase, States, Calls

\* What StateUnloadExecute leaves of a loaded page that has disappeared.
LEMMA PageUnloads ==
  ASSUME NEW r \in PageBase, r.root, r.life = "didDisappear", ~r.lost
  PROVE  LET s == StateUnloadExecute(r)
         IN  s \in PageBase /\ Off([s EXCEPT !.busy = FALSE]) /\ (~r.busy => Off(s))
<1> DEFINE c == [r EXCEPT !.root = FALSE, !.cached = FALSE, !.drag = FALSE, !.stash = 0,
                         !.state = "IDLE"]
           s == StateUnloadExecute(r)
<1>1. c \in PageBase
  BY DEF PageBase, States
<1>2. /\ c.state = "IDLE" /\ c.life = "didDisappear" /\ c.stash = 0
      /\ ~c.root /\ ~c.cached /\ (c.busy <=> r.busy) /\ ~c.drag /\ ~c.lost
  BY DEF PageBase
<1>3. s = Called(c, "unload")
  BY DEF StateUnloadExecute
<1> HIDE DEF c, s
<1>4. "unload" \in Calls /\ "unload" \in MayFollow(c.life)
  BY <1>2 DEF MayFollow, Calls
<1>5. /\ s \in PageBase
      /\ s.state = "IDLE" /\ s.life = "unload" /\ s.stash = 0
      /\ ~s.root /\ ~s.cached /\ (s.busy <=> r.busy) /\ ~s.drag /\ ~s.lost
  BY <1>1, <1>2, <1>3, <1>4, CallFacts DEF PageBase
<1>6. Off([s EXCEPT !.busy = FALSE]) /\ (~r.busy => Off(s))
  BY <1>5 DEF Off, PageBase
<1>7. QED
  BY <1>5, <1>6 DEF s

\* The end of its animation hides the page that leaves, and unloads it unless it is cached.
LEMMA PageHides ==
  ASSUME NEW r \in PageBase, Leaving(r), NEW mode, NEW on
  PROVE  LET s == [StateUpdate(r, mode, on) EXCEPT !.busy = FALSE]
         IN  s \in PageBase /\ Hidden(s) /\ (s.drag => r.drag) /\ (s.cached => r.cached)
<1> DEFINE d == StateDidDisappearExecute(r)
<1>1. /\ d \in PageBase /\ d.root /\ d.life = "didDisappear" /\ ~d.lost /\ (d.drag => r.drag)
      /\ (d.cached <=> r.cached) /\ (r.cached => d.state = "WILL_APPEAR")
  BY DEF StateDidDisappearExecute, Called, MayFollow, Leaving, PageBase, States, Calls
<1>2. StateUpdate(r, mode, on) = IF r.cached THEN d ELSE StateUnloadExecute(d)
  BY DEF StateUpdate, Leaving
<1> HIDE DEF d
<1>3. CASE r.cached
  BY <1>1, <1>2, <1>3 DEF Hidden, Asleep, PageBase
<1>4. CASE ~r.cached
  <2>1. /\ StateUpdate(r, mode, on) \in PageBase
        /\ Off([StateUpdate(r, mode, on) EXCEPT !.busy = FALSE])
    BY <1>1, <1>2, <1>4, PageUnloads
  <2>2. QED
    BY <2>1 DEF Hidden, Off, PageBase
<1>5. QED
  BY <1>3, <1>4

\* FourceUnload ends the life of a page that is hidden or in front.
LEMMA PageIsForced ==
  ASSUME NEW r \in PageBase, Hidden(r) \/ InFront(r)
  PROVE  FourceUnload(r) \in PageBase /\ Off(FourceUnload(r))
<1>1. CASE Off(r)
  BY <1>1 DEF Off, PageBase, States, FourceUnload, StateUnloadExecute
<1>2. CASE Asleep(r)
  BY <1>2, PageUnloads DEF Asleep, FourceUnload
<1>3. CASE InFront(r)
  <2> DEFINE d == Called(Called(r, "willDisappear"), "didDisappear")
  <2>1. d \in PageBase /\ d.root /\ d.life = "didDisappear" /\ ~d.lost /\ ~d.busy
    BY <1>3 DEF InFront, Called, MayFollow, PageBase, States, Calls
  <2>2. FourceUnload(r) = StateUnloadExecute(d)
    BY <1>3 DEF FourceUnload, InFront
  <2> HIDE DEF d
  <2>3. QED
    BY <2>1, <2>2, PageUnloads
<1>4. QED
  BY <1>1, <1>2, <1>3 DEF Hidden

\* The animation types: what a page asks for is a type that SwitchTo can play.
LEMMA TypeFacts ==
  ASSUME NEW p \in Pages
  PROVE  /\ SwitchAnimTypeUpdate(p) \in {"over", "move", "fade", "none"}
         /\ p # NoPage
BY PageAssumption DEF SwitchAnimTypeUpdate

\* The deletion of unloaded roots touches the finger and the spring-backs only.
LEMMA DeletionFacts ==
  ASSUME PageTypeOK, RootsAreDeleted
  PROVE  IsBusy' \in BOOLEAN /\ springs' \subseteq Pages /\ pressed' \in Pages \cup {NoPage}
BY DEF PageTypeOK, RootsAreDeleted

\* StateUnloadExecute ends the cache of a page that has a root.
LEMMA UnloadedIsUncached ==
  ASSUME NEW r \in PageBase, r.root
  PROVE  ~StateUnloadExecute(r).cached
BY DEF StateUnloadExecute, Called, PageBase

\* SwitchTo brings one page in and sends the other one out.  A page that is alone in the
\* stack does not get drag callbacks.
Switched(new, push, stk, pages, prev) ==
  /\ page' \in [Pages -> PageBase]
  /\ Appearing(page'[new])
  /\ prev # NoPage => Leaving(page'[prev])
  /\ \A p \in Pages : p # new /\ p # prev => page'[p] = pages[p]
  /\ \A p \in Pages : p # new \/ Len(stk) < 2 => (page'[p].drag => pages[p].drag)
  /\ \A p \in Pages : page'[p].cached => pages[p].cached \/ (p = new /\ CacheMode[p] # "off")
  /\ IsBusy' \in BOOLEAN /\ springs' \subseteq Pages /\ pressed' \in Pages \cup {NoPage}
  /\ IsSwitchReq' = TRUE /\ PageCurrent' = new /\ IsPushing' = push
  /\ PagePrev' = prev
  /\ AnimCurrent' = IF push THEN SwitchAnimTypeUpdate(new) ELSE AnimCurrent
  /\ AnimCurrent' \in {"over", "move", "fade", "none"}

\* It does so for a page that can be brought in and a page in front, if there is one.
LEMMA SwitchFacts ==
  ASSUME NEW new, NEW push, NEW stk, NEW pages, NEW prev, PageTypeOK,
         new \in Pages, push \in BOOLEAN, stk \in Seq(Pages),
         pages \in [Pages -> PageBase], prev \in Pages \cup {NoPage},
         prev # new, Wakeable(pages[new]), prev # NoPage => InFront(pages[prev]),
         SwitchTo(new, push, stk, pages, prev)
  PROVE  Switched(new, push, stk, pages, prev)
<1> DEFINE type == IF push THEN SwitchAnimTypeUpdate(new) ELSE AnimCurrent
           q    == [pages[new] EXCEPT !.state =
                      IF pages[new].cached THEN "WILL_APPEAR" ELSE "LOAD"]
           pg1  == [pages EXCEPT ![new] = q]
           pg1s == [pages EXCEPT ![new].state =
                      IF pages[new].cached THEN "WILL_APPEAR" ELSE "LOAD"]
           drag == DragEnabled(stk, pg1, type)
           pg2  == [p \in Pages |->
                      IF p = prev THEN StateUpdate(pg1[p], CacheMode[p], drag) ELSE pg1[p]]
<1>1. drag \in BOOLEAN /\ (Len(stk) < 2 => ~drag)
  BY DEF DragEnabled, TopAfterOf
<1>2. pg1s = pg1
  OBVIOUS
<1>3. /\ IsSwitchReq' = TRUE /\ PageCurrent' = new /\ IsPushing' = push
      /\ PagePrev' = prev /\ AnimCurrent' = type /\ RootsAreDeleted
      /\ page' = [pg2 EXCEPT ![new] = StateUpdate(pg2[new], CacheMode[new], drag)]
  BY <1>2 DEF SwitchTo
<1>4. type \in {"over", "move", "fade", "none"}
  BY TypeFacts DEF PageTypeOK
<1>5. pg1[new] = q /\ \A p \in Pages : p # new => pg1[p] = pages[p]
  OBVIOUS
<1>6. pg2[new] = q /\ \A p \in Pages : p # new /\ p # prev => pg2[p] = pages[p]
  BY <1>5
<1>7. prev # NoPage => pg2[prev] = StateUpdate(pages[prev], CacheMode[prev], drag)
  BY <1>5
<1> HIDE DEF drag, q, pg2
<1>8. /\ page'[new] = StateUpdate(q, CacheMode[new], drag)
      /\ \A p \in Pages : p # new => page'[p] = pg2[p]
      /\ page' = [p \in Pages |-> page'[p]]
  BY <1>3, <1>6 DEF pg2
<1>9. /\ page'[new] \in PageBase /\ Appearing(page'[new])
      /\ page'[new].drag => pages[new].drag \/ drag
      /\ page'[new].cached => pages[new].cached \/ CacheMode[new] # "off"
  BY <1>1, <1>8, PageWakes DEF q
<1>10. prev # NoPage => /\ page'[prev] \in PageBase /\ Leaving(page'[prev])
                        /\ (page'[prev].drag <=> pages[prev].drag)
                        /\ (page'[prev].cached <=> pages[prev].cached)
  BY <1>7, <1>8, PageLeaves
<1>11. \A p \in Pages : p # new /\ p # prev => page'[p] = pages[p] /\ page'[p] \in PageBase
  BY <1>6, <1>8
<1>12. \A p \in Pages : page'[p] \in PageBase
  BY <1>9, <1>10, <1>11, TypeFacts
<1>13. page' \in [Pages -> PageBase]
  BY <1>8, <1>12
<1>14. \A p \in Pages : p # new \/ Len(stk) < 2 => (page'[p].drag => pages[p].drag)
  BY <1>1, <1>9, <1>10, <1>11, TypeFacts
<1>15. \A p \in Pages : page'[p].cached => pages[p].cached \/ (p = new /\ CacheMode[p] # "off")
  BY <1>9, <1>10, <1>11, TypeFacts
<1>16. IsBusy' \in BOOLEAN /\ springs' \subseteq Pages /\ pressed' \in Pages \cup {NoPage}
  BY <1>3, DeletionFacts
<1>17. QED
  BY <1>3, <1>4, <1>9, <1>10, <1>11, <1>13, <1>14, <1>15, <1>16 DEF Switched

\* Facts about the stack that hold when no switch is in progress.
LEMMA RestFacts ==
  ASSUME PageInv, SwitchAnimStateCheck
  PROVE  /\ \A p \in Pages : p # GetStackTop => Hidden(page[p])
         /\ PageStack # <<>> => /\ GetStackTop \in Pages /\ InFront(page[GetStackTop])
                               /\ PagePrev = GetStackTop
         /\ PageStack = <<>> => PagePrev = NoPage /\ GetStackTop = NoPage
<1>1. PageStack # <<>> => GetStackTop = PageStack[Len(PageStack)] /\ GetStackTop \in Pages
  BY DEF PageInv, PageTypeOK, GetStackTop, TopOf
<1>2. PageStack = <<>> => GetStackTop = NoPage
  BY DEF GetStackTop, TopOf
<1>3. QED
  BY <1>1, <1>2, TypeFacts DEF PageInv, StackFits, PhasesFit, SwitchAnimStateCheck

\* What SwitchTo is called with: a stack of installed pages, each once, and pages that are
\* all hidden but the one that leaves.
Switchable(stk, pages, prev) ==
  /\ stk \in Seq(Pages) /\ stk # <<>>
  /\ \A i, j \in 1 .. Len(stk) : stk[i] = stk[j] => i = j
  /\ \A i \in 1 .. Len(stk) : stk[i] \in PagePool
  /\ pages \in [Pages -> PageBase] /\ prev \in PagePool \cup {NoPage}
  /\ prev # TopOf(stk) /\ Wakeable(pages[TopOf(stk)])
  /\ prev # NoPage => InFront(pages[prev])
  /\ \A p \in Pages : p # TopOf(stk) /\ p # prev => Hidden(pages[p])
  /\ \A p \in Pages \ PagePool : Off(pages[p])

\* The page that SwitchTo brings in is the top of the new stack.
LEMMA SwitchableFacts ==
  ASSUME NEW stk, NEW pages, NEW prev, PageTypeOK, Switchable(stk, pages, prev)
  PROVE  /\ TopOf(stk) = stk[Len(stk)] /\ TopOf(stk) \in PagePool /\ TopOf(stk) \in Pages
         /\ TopOf(stk) # NoPage /\ prev \in Pages \cup {NoPage} /\ prev # TopOf(stk)
<1>1. stk \in Seq(Pages) /\ stk # <<>> /\ Len(stk) \in 1 .. Len(stk)
  BY DEF Switchable
<1>2. TopOf(stk) = stk[Len(stk)]
  BY <1>1 DEF TopOf
<1>3. QED
  BY <1>1, <1>2, TypeFacts DEF Switchable, PageTypeOK

\* The switch itself.
LEMMA TopIsSwitched ==
  ASSUME NEW push, NEW stk, NEW pages, NEW prev, PageTypeOK, push \in BOOLEAN,
         Switchable(stk, pages, prev), SwitchTo(TopOf(stk), push, stk, pages, prev)
  PROVE  Switched(TopOf(stk), push, stk, pages, prev)
<1>1. /\ TopOf(stk) \in Pages /\ prev \in Pages \cup {NoPage} /\ prev # TopOf(stk)
  BY SwitchableFacts
<1>2. /\ stk \in Seq(Pages) /\ pages \in [Pages -> PageBase]
      /\ Wakeable(pages[TopOf(stk)])
      /\ prev # NoPage => InFront(pages[prev])
  BY DEF Switchable
<1>3. QED
  BY <1>1, <1>2, SwitchFacts, Zenon

\* A switch to the top of the new stack, on pages that have no more drag callbacks than
\* before; a page that left the stack has no automatic cache.
SwitchesTo(stk, push, prev) ==
  \E pages \in [Pages -> PageBase] :
    /\ Switchable(stk, pages, prev) /\ SwitchTo(TopOf(stk), push, stk, pages, prev)
    /\ \A p \in Pages : pages[p].drag => page[p].drag
    /\ \A p \in Pages : pages[p].cached =>
         /\ page[p].cached
         /\ CacheMode[p] = "auto" /\ InStack(p) => \E i \in 1 .. Len(stk) : stk[i] = p

\* A switch keeps the invariant.
LEMMA SwitchKeepsPageInv ==
  ASSUME NEW push, NEW stk, NEW prev, PageInv, push \in BOOLEAN,
         SwitchesTo(stk, push, prev), PageStack' = stk, PagePool' = PagePool
  PROVE  PageInv'
<1> DEFINE new == TopOf(stk)
<1> PICK pages \in [Pages -> PageBase] :
      Switchable(stk, pages, prev) /\ SwitchTo(TopOf(stk), push, stk, pages, prev)
  BY Zenon DEF SwitchesTo
<1>0. PageTypeOK
  BY DEF PageInv
<1>1. /\ new = stk[Len(stk)] /\ new \in PagePool /\ new \in Pages /\ new # NoPage
      /\ prev \in Pages \cup {NoPage} /\ prev # new
  BY <1>0, SwitchableFacts
<1>2. /\ page' \in [Pages -> PageBase]
      /\ Appearing(page'[new])
      /\ prev # NoPage => Leaving(page'[prev])
      /\ \A p \in Pages : p # new /\ p # prev => page'[p] = pages[p]
      /\ IsSwitchReq' = TRUE /\ PageCurrent' = new /\ IsPushing' = push
      /\ PagePrev' = prev
      /\ IsBusy' \in BOOLEAN /\ springs' \subseteq Pages /\ pressed' \in Pages \cup {NoPage}
      /\ AnimCurrent' \in {"over", "move", "fade", "none"}
  <2>1. Switched(new, push, stk, pages, prev)
    BY <1>0, TopIsSwitched, Zenon
  <2>2. QED
    BY ONLY <2>1 DEF Switched
<1> HIDE DEF new
<1>3. PageTypeOK'
  BY <1>1, <1>2 DEF PageInv, PageTypeOK, Switchable
<1>4. StackFits'
  <2>1. GetStackTop' = new
    BY DEF GetStackTop, new
  <2>2. QED
    BY <1>1, <1>2, <2>1 DEF StackFits, Switchable
<1>5. PhasesFit'
  <2>1. \A p \in Pages \ PagePool : Off(page'[p])
    BY <1>1, <1>2, TypeFacts DEF Switchable
  <2>2. \A p \in Pages : p # new /\ p # prev => Hidden(page'[p])
    BY <1>2 DEF new, Switchable
  <2>3. page'[new].busy
    BY <1>2 DEF Appearing
  <2>4. QED
    BY <1>2, <2>1, <2>2, <2>3 DEF PhasesFit
<1>6. QED
  BY <1>3, <1>4, <1>5 DEF PageInv

\* PageManager::Push.
LEMMA PushSwitches ==
  ASSUME PageInv, NEW p \in Pages, NEW s \in StashSizes \cup {0}, Push(p, s)
  PROVE  /\ SwitchesTo(PageStack', TRUE, PagePrev) /\ PagePool' = PagePool
         /\ Len(PageStack') = Len(PageStack) + 1 /\ PageStack'[Len(PageStack')] = p
         /\ \A i \in 1 .. Len(PageStack) : PageStack'[i] = PageStack[i]
<1>1. PageTypeOK /\ StackFits /\ PhasesFit /\ SwitchAnimStateCheck
  BY DEF PageInv, Push
<1>2. PICK st \in Stashed(page[p], s) :
        SwitchTo(p, TRUE, PageStack', [page EXCEPT ![p].stash = st], PagePrev)
  BY DEF Push
<1> DEFINE stk   == Append(PageStack, p)
           pages == [page EXCEPT ![p] = [page[p] EXCEPT !.stash = st]]
<1>3. PageStack' = stk /\ PagePool' = PagePool /\ p \in PagePool /\ ~InStack(p)
  BY DEF Push
<1>4. /\ stk \in Seq(Pages) /\ stk # <<>> /\ TopOf(stk) = p /\ Len(stk) = Len(PageStack) + 1
      /\ \A i \in 1 .. Len(PageStack) : stk[i] = PageStack[i]
      /\ stk[Len(PageStack) + 1] = p
  <2>1. PageStack \in Seq(Pages)
    BY <1>1 DEF PageTypeOK
  <2>2. /\ stk \in Seq(Pages) /\ stk # <<>> /\ Len(stk) = Len(PageStack) + 1
        /\ \A i \in 1 .. Len(PageStack) : stk[i] = PageStack[i]
        /\ stk[Len(PageStack) + 1] = p
    BY <2>1, AppendProperties
  <2>3. QED
    BY <2>2 DEF TopOf
<1>5. /\ \A i, j \in 1 .. Len(stk) : stk[i] = stk[j] => i = j
      /\ \A i \in 1 .. Len(stk) : stk[i] \in PagePool
  <2> HIDE DEF stk
  <2>1. Len(PageStack) \in Nat
    BY <1>1 DEF PageTypeOK
  <2>2. \A i \in 1 .. Len(stk) : \/ i \in 1 .. Len(PageStack) /\ stk[i] = PageStack[i]
                                 \/ i = Len(PageStack) + 1 /\ stk[i] = p
    BY <1>4, <2>1
  <2>3. \A i \in 1 .. Len(PageStack) : PageStack[i] # p /\ PageStack[i] \in PagePool
    BY <1>1, <1>3 DEF InStack, StackFits
  <2>4. \A i, j \in 1 .. Len(PageStack) : PageStack[i] = PageStack[j] => i = j
    BY <1>1 DEF StackFits
  <2>5. QED
    BY <1>3, <2>2, <2>3, <2>4
<1>6. page[p] \in PageBase /\ st \in StashSizes \cup {0}
  BY <1>1 DEF PageTypeOK, Stashed, PageBase
<1>7. /\ p # GetStackTop /\ PagePrev = GetStackTop /\ Hidden(page[p]) /\ p # NoPage
      /\ \A q \in Pages : q # GetStackTop => Hidden(page[q])
      /\ PagePrev # NoPage => PagePrev \in Pages /\ InFront(page[PagePrev])
  <2>1. p # GetStackTop
    BY <1>1, <1>3, TypeFacts DEF InStack, GetStackTop, TopOf, PageTypeOK
  <2>2. QED
    BY <1>1, <2>1, RestFacts, TypeFacts
<1>8. /\ [page[p] EXCEPT !.stash = st] \in PageBase /\ Wakeable([page[p] EXCEPT !.stash = st])
  <2>1. Wakeable(page[p])
    BY <1>6, <1>7, HiddenIsWakeable
  <2>2. QED
    BY <1>6, <2>1 DEF Wakeable, PageBase
<1>9. /\ pages \in [Pages -> PageBase] /\ Wakeable(pages[p])
      /\ \A q \in Pages : q # p => pages[q] = page[q]
      /\ \A q \in Pages : pages[q].drag => page[q].drag
      /\ \A q \in Pages : pages[q].cached => page[q].cached
  <2>1. /\ [page[p] EXCEPT !.stash = st].drag => page[p].drag
        /\ [page[p] EXCEPT !.stash = st].cached => page[p].cached
    BY <1>6 DEF PageBase
  <2>2. QED
    BY <1>1, <1>8, <2>1 DEF PageTypeOK
<1>10. SwitchTo(p, TRUE, stk, pages, PagePrev)
  BY <1>2, <1>3
<1>11. PagePrev \in PagePool \cup {NoPage}
  BY <1>1 DEF StackFits
<1>12. \A q \in Pages \ PagePool : Off(pages[q])
  BY <1>1, <1>3, <1>9 DEF PhasesFit
<1>13. /\ PagePrev # TopOf(stk) /\ Wakeable(pages[TopOf(stk)])
       /\ PagePrev # NoPage => InFront(pages[PagePrev])
       /\ \A q \in Pages : q # TopOf(stk) /\ q # PagePrev => Hidden(pages[q])
       /\ SwitchTo(TopOf(stk), TRUE, stk, pages, PagePrev)
  BY <1>4, <1>7, <1>9, <1>10
<1>s. \A q \in Pages : InStack(q) => \E i \in 1 .. Len(stk) : stk[i] = q
  <2> HIDE DEF stk
  <2>1. Len(PageStack) \in Nat
    BY <1>1 DEF PageTypeOK
  <2>2. QED
    BY <1>4, <2>1 DEF InStack
<1> HIDE DEF stk, pages
<1>14. Switchable(stk, pages, PagePrev)
  BY <1>4, <1>5, <1>9, <1>11, <1>12, <1>13 DEF Switchable
<1>15. SwitchesTo(stk, TRUE, PagePrev)
  BY <1>9, <1>13, <1>14, <1>s, Zenon DEF SwitchesTo
<1>16. QED
  BY <1>3, <1>4, <1>15

\* PageManager::Pop, of a page that is not the last one.
LEMMA PopSwitches ==
  ASSUME PageInv, Careful, Pop
  PROVE  /\ SwitchesTo(PageStack', FALSE, PagePrev) /\ PagePool' = PagePool
         /\ Len(PageStack) > 1 /\ Len(PageStack') = Len(PageStack) - 1
         /\ \A i \in 1 .. Len(PageStack') : PageStack'[i] = PageStack[i]
<1> DEFINE n     == Len(PageStack)
           top   == PageStack[n]
           stk   == SubSeq(PageStack, 1, n - 1)
           pages == Popped(top)
<1>1. PageTypeOK /\ StackFits /\ PhasesFit /\ SwitchAnimStateCheck
  BY DEF PageInv, Pop
<1>2. n \in Nat /\ n > 1 /\ PageStack # <<>>
  BY <1>1 DEF Pop, PageTypeOK
<1>3. /\ stk \in Seq(Pages) /\ Len(stk) = n - 1 /\ stk # <<>>
      /\ \A i \in 1 .. n - 1 : stk[i] = PageStack[i]
  <2>1. PageStack \in Seq(Pages)
    BY <1>1 DEF PageTypeOK
  <2>2. \A i \in 1 .. n - 1 : PageStack[i] \in Pages
    BY <2>1
  <2>3. stk \in Seq(Pages) /\ Len(stk) = n - 1 /\ \A i \in 1 .. n - 1 : stk[i] = PageStack[i]
    BY <1>2, <2>1, <2>2, SubSeqProperties
  <2> HIDE DEF stk
  <2>4. stk # <<>>
    BY <1>2, <2>3
  <2>5. QED
    BY <2>3, <2>4, Zenon
<1>4. /\ TopOf(stk) = PageStack[n - 1] /\ TopOf(stk) \in Pages /\ top \in Pages
      /\ top # TopOf(stk) /\ top \in PagePool /\ GetStackTop = top
  BY <1>1, <1>2, <1>3 DEF TopOf, StackFits, PageTypeOK, GetStackTop
<1>5. /\ PageStack' = stk /\ PagePool' = PagePool
      /\ SwitchTo(TopOf(stk), FALSE, stk, pages, PagePrev)
  BY <1>2, <1>3, <1>4 DEF Pop
<1>6. /\ \A i, j \in 1 .. Len(stk) : stk[i] = stk[j] => i = j
      /\ \A i \in 1 .. Len(stk) : stk[i] \in PagePool
  BY <1>1, <1>2, <1>3 DEF StackFits
<1>7. /\ PagePrev = top /\ InFront(page[top]) /\ top # NoPage
      /\ \A q \in Pages : q # top => Hidden(page[q]) /\ page[q] \in PageBase
  BY <1>1, <1>2, <1>4, RestFacts, TypeFacts DEF PageTypeOK
<1>8. PICK c \in BOOLEAN : c = (page[top].cached /\ CacheMode[top] # "auto")
  BY Zenon
<1>9. pages = [page EXCEPT ![top] = [page[top] EXCEPT !.cached = c]]
  BY <1>8 DEF Popped
<1>10. page[top] \in PageBase
  BY <1>1, <1>4 DEF PageTypeOK
<1>11. [page[top] EXCEPT !.cached = c] \in PageBase /\ InFront([page[top] EXCEPT !.cached = c])
  BY <1>7, <1>10 DEF PageBase, InFront
<1>12. /\ pages \in [Pages -> PageBase] /\ InFront(pages[top])
       /\ \A q \in Pages : q # top => pages[q] = page[q]
       /\ \A q \in Pages : pages[q].drag => page[q].drag
       /\ \A q \in Pages : pages[q].cached =>
            page[q].cached /\ (q = top => CacheMode[q] # "auto")
  <2>1. /\ [page[top] EXCEPT !.cached = c].drag => page[top].drag
        /\ [page[top] EXCEPT !.cached = c].cached => page[top].cached /\ CacheMode[top] # "auto"
    BY <1>8, <1>10 DEF PageBase
  <2>2. QED
    BY <1>1, <1>4, <1>9, <1>11, <2>1 DEF PageTypeOK
<1>s. /\ Len(PageStack) > 1 /\ Len(PageStack') = Len(PageStack) - 1
      /\ \A i \in 1 .. Len(PageStack') : PageStack'[i] = PageStack[i]
  BY <1>2, <1>3, <1>5
<1>c. \A q \in Pages : pages[q].cached =>
        /\ page[q].cached
        /\ CacheMode[q] = "auto" /\ InStack(q) => \E i \in 1 .. Len(stk) : stk[i] = q
  <2> SUFFICES ASSUME NEW q \in Pages, pages[q].cached, CacheMode[q] = "auto", InStack(q)
               PROVE  \E i \in 1 .. Len(stk) : stk[i] = q
    BY <1>12
  <2>1. PICK i \in 1 .. n : PageStack[i] = q
    BY DEF InStack
  <2>2. q # top
    BY <1>12
  <2>3. i \in 1 .. n - 1
    BY <1>2, <2>1, <2>2
  <2>4. i \in 1 .. Len(stk) /\ stk[i] = q
    BY <1>3, <2>1, <2>3
  <2>5. QED
    BY <2>4
<1> HIDE DEF pages, stk, top, n
<1>13. Wakeable(pages[TopOf(stk)])
  BY <1>4, <1>7, <1>12, HiddenIsWakeable
<1>14. \A q \in Pages \ PagePool : Off(pages[q])
  BY <1>1, <1>4, <1>12 DEF PhasesFit
<1>15. /\ \A q \in Pages : q # TopOf(stk) /\ q # top => Hidden(pages[q])
       /\ SwitchTo(TopOf(stk), FALSE, stk, pages, top)
  BY <1>5, <1>7, <1>12
<1>16. QED
  <2>1. Switchable(stk, pages, top)
    BY <1>3, <1>4, <1>6, <1>12, <1>13, <1>14, <1>15 DEF Switchable
  <2>2. SwitchesTo(stk, FALSE, top)
    BY <1>12, <1>15, <1>c, <2>1, Zenon DEF SwitchesTo
  <2>3. QED
    BY <1>5, <1>7, <1>s, <2>2

\* PageManager::BackHome, from a page above the bottom one.
LEMMA BackHomeSwitches ==
  ASSUME PageInv, Careful, BackHome
  PROVE  /\ SwitchesTo(PageStack', FALSE, NoPage) /\ PagePool' = PagePool
         /\ Len(PageStack) > 1 /\ Len(PageStack') = 1 /\ PageStack'[1] = PageStack[1]
<1> DEFINE n      == Len(PageStack)
           bottom == PageStack[1]
           stk    == <<bottom>>
           pages  == SetStackClear
<1>1. PageTypeOK /\ StackFits /\ PhasesFit /\ SwitchAnimStateCheck
  BY DEF PageInv, BackHome
<1>2. n \in Nat /\ n > 1 /\ PageStack # <<>>
  BY <1>1 DEF BackHome, PageTypeOK
<1>3. /\ stk \in Seq(Pages) /\ Len(stk) = 1 /\ stk # <<>> /\ stk[1] = bottom
      /\ TopOf(stk) = bottom /\ bottom \in Pages /\ bottom \in PagePool
      /\ PageStack[n] # bottom /\ GetStackTop = PageStack[n] /\ PageStack[n] \in Pages
  BY <1>1, <1>2 DEF PageTypeOK, StackFits, TopOf, GetStackTop
<1>4. /\ PageStack' = stk /\ PagePool' = PagePool
      /\ SwitchTo(bottom, FALSE, stk, pages, NoPage)
  BY <1>2 DEF BackHome
<1>5. /\ InFront(page[PageStack[n]]) /\ bottom # NoPage
      /\ \A q \in Pages : q # PageStack[n] => Hidden(page[q])
      /\ \A q \in Pages : page[q] \in PageBase
  BY <1>1, <1>2, <1>3, RestFacts, TypeFacts DEF PageTypeOK
<1>6. ASSUME NEW q \in Pages, q # bottom
      PROVE  /\ pages[q] \in PageBase /\ Hidden(pages[q]) /\ (pages[q].drag => page[q].drag)
             /\ pages[q].cached => page[q].cached /\ ~InStack(q)
  <2>1. CASE InStack(q)
    <3>1. pages[q] = FourceUnload(page[q])
      BY <1>6, <2>1 DEF SetStackClear
    <3>2. QED
      BY <1>5, <2>1, <3>1, PageIsForced DEF Hidden, Off
  <2>2. CASE ~InStack(q)
    <3>1. pages[q] = page[q]
      BY <2>2 DEF SetStackClear
    <3>2. q # PageStack[n]
      BY <1>2, <2>2 DEF InStack
    <3>3. QED
      BY <1>5, <2>2, <3>1, <3>2
  <2>3. QED
    BY <2>1, <2>2
<1>7. pages[bottom] = page[bottom] /\ pages = [q \in Pages |-> pages[q]]
  BY <1>3 DEF SetStackClear
<1>8. ASSUME NEW q \in Pages \ PagePool PROVE Off(pages[q])
  <2>1. ~InStack(q)
    BY <1>1 DEF StackFits, InStack
  <2>2. pages[q] = page[q]
    BY <2>1 DEF SetStackClear
  <2>3. QED
    BY <1>1, <2>2 DEF PhasesFit
<1>s. Len(PageStack) > 1 /\ Len(PageStack') = 1 /\ PageStack'[1] = PageStack[1]
  BY <1>2, <1>3, <1>4
<1> HIDE DEF pages, stk, n, bottom
<1>9. pages \in [Pages -> PageBase] /\ Wakeable(pages[bottom])
  BY <1>3, <1>5, <1>6, <1>7, HiddenIsWakeable
<1>10. /\ \A i, j \in 1 .. Len(stk) : stk[i] = stk[j] => i = j
       /\ \A i \in 1 .. Len(stk) : stk[i] \in PagePool
  BY <1>3
<1>11. Switchable(stk, pages, NoPage)
  BY <1>3, <1>5, <1>6, <1>8, <1>9, <1>10 DEF Switchable
<1>12. SwitchTo(TopOf(stk), FALSE, stk, pages, NoPage)
  BY <1>3, <1>4
<1>13. \A q \in Pages : pages[q].drag => page[q].drag
  BY <1>6, <1>7
<1>c. \A q \in Pages : pages[q].cached =>
        /\ page[q].cached
        /\ CacheMode[q] = "auto" /\ InStack(q) => \E i \in 1 .. Len(stk) : stk[i] = q
  BY <1>3, <1>6, <1>7
<1>14. SwitchesTo(stk, FALSE, NoPage)
  BY <1>9, <1>11, <1>12, <1>13, <1>c, Zenon DEF SwitchesTo
<1>15. QED
  BY <1>4, <1>s, <1>14

\* What the end of an animation finds: a switch is in progress, and the page is one of the
\* two that take part in it.
LEMMA FinishFacts ==
  ASSUME PageInv, NEW p \in Pages, page[p].busy
  PROVE  /\ IsSwitchReq /\ PageCurrent \in Pages /\ PageStack # <<>>
         /\ PagePrev # PageCurrent
         /\ \/ p = PageCurrent /\ Appearing(page[p])
            \/ p = PagePrev /\ Leaving(page[p])
<1>1. PageTypeOK /\ StackFits /\ PhasesFit
  BY DEF PageInv
<1>2. ~Hidden(page[p]) /\ ~InFront(page[p])
  BY DEF Hidden, Off, Asleep, InFront
<1>3. PageStack # <<>>
  BY <1>1, <1>2 DEF StackFits, Hidden
<1>4. PageCurrent \in Pages /\ PageCurrent # NoPage
  BY <1>1, <1>3, TypeFacts DEF StackFits, GetStackTop, TopOf, PageTypeOK
<1>5. p = PagePrev \/ p = PageCurrent
  BY <1>1, <1>2 DEF PhasesFit
<1>6. IsSwitchReq
  BY <1>1, <1>2, <1>3, <1>4, <1>5 DEF StackFits, PhasesFit
<1>7. QED
  BY <1>1, <1>2, <1>3, <1>4, <1>5, <1>6, TypeFacts DEF StackFits, PhasesFit

\* PageManager::onSwitchAnimFinish.
LEMMA FinishKeepsPageInv ==
  ASSUME PageInv, NEW p \in Pages, onSwitchAnimFinish(p)
  PROVE  PageInv'
<1> DEFINE q == [StateUpdate(page[p], CacheMode[p], FALSE) EXCEPT !.busy = FALSE]
           finished == SwitchReqCheck(page')
<1>1. PageTypeOK /\ StackFits /\ PhasesFit /\ page[p].busy /\ page[p] \in PageBase
  BY DEF PageInv, onSwitchAnimFinish, PageTypeOK
<1>2. /\ page' = [page EXCEPT ![p] = q]
      /\ IsSwitchReq' = (IsSwitchReq /\ ~finished)
      /\ PagePrev' = IF finished THEN PageCurrent ELSE PagePrev
      /\ AnimCurrent' = IF finished /\ ~IsPushing
                        THEN SwitchAnimTypeUpdate(PageCurrent) ELSE AnimCurrent
      /\ UNCHANGED <<PagePool, PageStack, PageCurrent, IsPushing>>
      /\ IsBusy' \in BOOLEAN /\ springs' \subseteq Pages /\ pressed' \in Pages \cup {NoPage}
  BY <1>1, DeletionFacts DEF onSwitchAnimFinish
<1>3. /\ IsSwitchReq /\ PageCurrent \in Pages /\ PageStack # <<>>
      /\ PagePrev # PageCurrent
      /\ \/ p = PageCurrent /\ Appearing(page[p])
         \/ p = PagePrev /\ Leaving(page[p])
  BY <1>1, FinishFacts
<1>4. /\ q \in PageBase
      /\ p = PageCurrent => InFront(q)
      /\ p = PagePrev => Hidden(q)
  BY <1>1, <1>3, PageAppears, PageHides
<1> HIDE DEF q
<1>5. /\ page' \in [Pages -> PageBase] /\ page'[p] = q
      /\ \A r \in Pages : r # p => page'[r] = page[r]
  BY <1>1, <1>2, <1>4 DEF PageTypeOK
<1>6. /\ finished <=> (~page'[PageCurrent].busy /\ (PagePrev # NoPage => ~page'[PagePrev].busy))
      /\ finished \in BOOLEAN
  BY DEF SwitchReqCheck
<1> HIDE DEF finished
<1>7. /\ IsSwitchReq' <=> ~finished
      /\ IsSwitchReq' \in BOOLEAN
  BY <1>2, <1>3, <1>6
<1>8. PageTypeOK'
  <2>1. AnimCurrent' \in {"over", "move", "fade", "none"}
    BY <1>1, <1>2, <1>3, TypeFacts DEF PageTypeOK
  <2>2. QED
    BY <1>1, <1>2, <1>5, <1>7, <2>1 DEF PageTypeOK
<1>9. GetStackTop' = GetStackTop
  BY <1>2 DEF GetStackTop
<1>10. PageCurrent \in PagePool
  BY <1>1, <1>3 DEF StackFits, GetStackTop, TopOf, PageTypeOK
<1>11. StackFits'
  BY <1>1, <1>2, <1>3, <1>7, <1>9, <1>10 DEF StackFits
<1>12. \A r \in Pages : r # PagePrev /\ r # PageCurrent => Hidden(page'[r])
  BY <1>1, <1>3, <1>5 DEF PhasesFit
<1>13. PagePrev # NoPage => PagePrev \in Pages
  BY <1>1 DEF PageTypeOK
<1>14. \/ InFront(page'[PageCurrent])
       \/ Appearing(page'[PageCurrent])
  BY <1>1, <1>3, <1>4, <1>5, TypeFacts DEF PhasesFit
<1>15. PagePrev # NoPage => Leaving(page'[PagePrev]) \/ Hidden(page'[PagePrev])
  BY <1>1, <1>3, <1>4, <1>5, <1>13 DEF PhasesFit
<1>16. /\ Appearing(page'[PageCurrent]) => page'[PageCurrent].busy
       /\ Leaving(page'[PagePrev]) => page'[PagePrev].busy
  BY DEF Appearing, Leaving
<1>17. \A r \in Pages \ PagePool : Off(page'[r])
  <2>1. p \in PagePool
    BY <1>1, <1>3, <1>10, TypeFacts DEF StackFits
  <2>2. QED
    BY <1>1, <1>5, <2>1 DEF PhasesFit
<1>18. PhasesFit'
  <2>1. CASE finished
    <3>1. InFront(page'[PageCurrent]) /\ (PagePrev # NoPage => Hidden(page'[PagePrev]))
      BY <1>6, <1>14, <1>15, <1>16, <2>1
    <3>2. \A r \in Pages : r # PageCurrent => Hidden(page'[r])
      BY <1>12, <3>1, TypeFacts
    <3>3. QED
      BY <1>2, <1>7, <1>17, <2>1, <3>1, <3>2 DEF PhasesFit
  <2>2. CASE ~finished
    <3>1. /\ PagePrev' = PagePrev /\ PageCurrent' = PageCurrent /\ PagePool' = PagePool
          /\ IsSwitchReq'
      BY <1>2, <1>7, <2>2
    <3>2. page'[PageCurrent].busy \/ (PagePrev # NoPage /\ page'[PagePrev].busy)
      BY <1>6, <2>2
    <3>3. QED
      BY <1>12, <1>14, <1>15, <1>17, <3>1, <3>2 DEF PhasesFit
  <2>3. QED
    BY <2>1, <2>2
<1>19. QED
  BY <1>8, <1>11, <1>18 DEF PageInv

\* PageManager::Install and Uninstall.
LEMMA PoolKeepsPageInv ==
  ASSUME PageInv, Careful, NEW p \in Pages, Install(p) \/ Uninstall(p)
  PROVE  PageInv'
<1> DEFINE q == IF Install(p) THEN NewPage
                ELSE IF page[p].cached THEN StateUnloadExecute(page[p]) ELSE page[p]
<1>1. PageTypeOK /\ StackFits /\ PhasesFit /\ page[p] \in PageBase
  BY DEF PageInv, PageTypeOK
<1>2. /\ page' = [page EXCEPT ![p] = q]
      /\ PagePool' = PagePool \cup {p} \/ PagePool' = PagePool \ {p}
      /\ UNCHANGED <<PageStack, PagePrev, PageCurrent, IsSwitchReq, IsPushing, AnimCurrent>>
      /\ IsBusy' \in BOOLEAN /\ springs' \subseteq Pages /\ pressed' \in Pages \cup {NoPage}
  BY <1>1, DeletionFacts DEF Install, Uninstall, dragVars, PageTypeOK
<1>3. NewPage \in PageBase /\ Off(NewPage)
  BY DEF NewPage, Off, PageBase, States, Calls
<1>4. ~InStack(p)
  BY <1>1 DEF Install, Uninstall, InStack, StackFits
<1>5. PageCurrent # p /\ PagePrev # p
  <2>1. PageCurrent # p
    BY <1>1, <1>4, TypeFacts DEF StackFits, GetStackTop, TopOf, InStack, PageTypeOK
  <2>2. CASE Install(p)
    BY <1>1, <2>1, <2>2, TypeFacts DEF Install, StackFits
  <2>3. CASE Uninstall(p)
    <3>1. ~IsSwitchReq
      BY <2>3 DEF Uninstall, SwitchAnimStateCheck
    <3>2. PagePrev = NoPage \/ PagePrev = PageCurrent
      BY <1>1, <3>1 DEF StackFits
    <3>3. QED
      BY <2>1, <3>2, TypeFacts
  <2>4. QED
    BY <2>1, <2>2, <2>3
<1>6. q \in PageBase /\ Off(q)
  <2>1. Hidden(page[p])
    BY <1>1, <1>5 DEF PhasesFit
  <2>2. CASE Install(p)
    BY <1>3, <2>2
  <2>3. CASE ~Install(p) /\ page[p].cached
    <3>1. Asleep(page[p])
      BY <2>1, <2>3 DEF Hidden, Off
    <3>2. QED
      BY <1>1, <2>3, <3>1, PageUnloads DEF Asleep
  <2>4. CASE ~Install(p) /\ ~page[p].cached
    BY <1>1, <2>1, <2>4 DEF Hidden, Asleep
  <2>5. QED
    BY <2>2, <2>3, <2>4
<1> HIDE DEF q
<1>7. /\ page' \in [Pages -> PageBase] /\ page'[p] = q
      /\ \A r \in Pages : r # p => page'[r] = page[r]
  BY <1>1, <1>2, <1>6 DEF PageTypeOK
<1>8. PageTypeOK'
  BY <1>1, <1>2, <1>7 DEF PageTypeOK
<1>9. StackFits'
  <2>1. GetStackTop' = GetStackTop
    BY <1>2 DEF GetStackTop
  <2>2. \A i \in 1 .. Len(PageStack) : PageStack[i] # p
    BY <1>4 DEF InStack
  <2>3. \A i \in 1 .. Len(PageStack) : PageStack[i] \in PagePool'
    BY <1>1, <1>2, <2>2 DEF StackFits
  <2>4. PagePrev \in PagePool' \cup {NoPage}
    BY <1>1, <1>2, <1>5 DEF StackFits
  <2>5. PageStack = <<>> => \A r \in Pages : Off(page'[r])
    BY <1>1, <1>6, <1>7 DEF StackFits
  <2>6. QED
    BY <1>1, <1>2, <2>1, <2>3, <2>4, <2>5 DEF StackFits
<1>10. PhasesFit'
  <2>1. /\ PageCurrent # NoPage => page'[PageCurrent] = page[PageCurrent]
        /\ PagePrev # NoPage => page'[PagePrev] = page[PagePrev]
    BY <1>1, <1>5, <1>7 DEF PageTypeOK
  <2>2. \A r \in Pages : r # PagePrev /\ r # PageCurrent => Hidden(page'[r])
    BY <1>1, <1>6, <1>7 DEF PhasesFit, Hidden
  <2>3. \A r \in Pages \ PagePool' : Off(page'[r])
    BY <1>1, <1>2, <1>6, <1>7 DEF PhasesFit
  <2>4. IsSwitchReq => PageCurrent # NoPage
    BY <1>1, TypeFacts DEF StackFits, GetStackTop, TopOf, PageTypeOK
  <2>5. QED
    BY <1>1, <1>2, <2>1, <2>2, <2>3, <2>4 DEF PhasesFit
<1>11. QED
  BY <1>8, <1>9, <1>10 DEF PageInv

\* The callbacks of a drag, which only start and stop the spring-back.
LEMMA DragKeepsPageInv ==
  ASSUME PageInv,
         \E p \in Pages : DragPressed(p) \/ DragReleased(p) \/ onRootAnimFinish(p)
  PROVE  PageInv'
<1>1. /\ IsBusy' \in BOOLEAN /\ springs' \subseteq Pages /\ pressed' \in Pages \cup {NoPage}
      /\ UNCHANGED <<PagePool, PageStack, PagePrev, PageCurrent, page,
                     IsSwitchReq, IsPushing, AnimCurrent>>
  BY DEF PageInv, PageTypeOK, onRootAnimFinish, DragPressed, DragReleased, switchVars
<1>2. PageTypeOK'
  BY <1>1 DEF PageInv, PageTypeOK
<1>3. StackFits' /\ PhasesFit'
  BY <1>1 DEF PageInv, StackFits, PhasesFit, GetStackTop
<1>4. QED
  BY <1>2, <1>3 DEF PageInv

\* The constructor of the manager.
LEMMA InitPageInv == PageInit => PageInv
<1> SUFFICES ASSUME PageInit PROVE PageInv
  OBVIOUS
<1>1. NewPage \in PageBase /\ Off(NewPage)
  BY DEF NewPage, Off, PageBase, States, Calls
<1>2. PageTypeOK
  <2>1. page \in [Pages -> PageBase]
    BY <1>1 DEF PageInit
  <2>2. IsSwitchReq \in BOOLEAN /\ IsPushing \in BOOLEAN
    BY Zenon DEF PageInit
  <2>3. PagePool \subseteq Pages /\ PageStack \in Seq(Pages)
    BY DEF PageInit
  <2>4. /\ {PagePrev, PageCurrent, pressed} \subseteq Pages \cup {NoPage}
        /\ IsBusy \in BOOLEAN /\ springs \subseteq Pages
    BY DEF PageInit
  <2>5. QED
    BY <2>1, <2>2, <2>3, <2>4 DEF PageInit, PageTypeOK
<1>3. \A p \in Pages : Off(page[p])
  BY <1>1 DEF PageInit
<1>4. StackFits
  BY <1>3 DEF PageInit, StackFits, GetStackTop, TopOf
<1>5. PhasesFit
  BY <1>3 DEF PageInit, PhasesFit, Hidden
<1>6. QED
  BY <1>2, <1>4, <1>5 DEF PageInv

\* Every step keeps the invariant, if the callers leave the bottom page alone.
LEMMA NextPageInv ==
  ASSUME Careful, PageInv, [PageNext]_pageVars
  PROVE  PageInv'
<1>1. CASE UNCHANGED pageVars
  BY <1>1 DEF pageVars, switchVars, dragVars, PageInv, PageTypeOK, StackFits, PhasesFit, GetStackTop
<1>2. CASE PageNext
  <2>1. ASSUME NEW p \in Pages, NEW s \in StashSizes \cup {0}, Push(p, s) PROVE PageInv'
    BY <2>1, PushSwitches, SwitchKeepsPageInv, Zenon
  <2>2. CASE Pop
    BY <2>2, PopSwitches, SwitchKeepsPageInv, Zenon
  <2>3. CASE BackHome
    BY <2>3, BackHomeSwitches, SwitchKeepsPageInv, Zenon
  <2>4. QED
    BY <1>2, <2>1, <2>2, <2>3, PoolKeepsPageInv, FinishKeepsPageInv, DragKeepsPageInv
    DEF PageNext
<1>3. QED
  BY <1>1, <1>2

\* The stack and the phases fit in every reachable state.
LEMMA AlwaysPageInv ==
  ASSUME Careful
  PROVE  PageSpec => []PageInv
<1>1. PageInv /\ [PageNext]_pageVars => PageInv'
  BY NextPageInv
<1>2. QED
  BY <1>1, InitPageInv, PTL DEF PageSpec

\* A page whatever it does is in one of its phases.
LEMMA PhaseOfEach ==
  ASSUME PageInv, NEW p \in Pages
  PROVE  Hidden(page[p]) \/ Appearing(page[p]) \/ InFront(page[p]) \/ Leaving(page[p])
<1>1. PageTypeOK /\ StackFits /\ PhasesFit
  BY DEF PageInv
<1>2. CASE PageStack = <<>>
  BY <1>1, <1>2 DEF StackFits, Hidden
<1>3. CASE PageStack # <<>>
  BY <1>1, <1>3, TypeFacts DEF StackFits, PhasesFit
<1>4. QED
  BY <1>2, <1>3

\* A page sees its callbacks in the order of its life cycle, and no root is overwritten,
\* whatever mixture of Push, Pop, BackHome, caching and ends of animations it meets.
THEOREM LifecycleStaysInOrder ==
  ASSUME Careful
  PROVE  PageSpec => []LifecycleInOrder
<1>1. PageInv => LifecycleInOrder
  <2> SUFFICES ASSUME PageInv PROVE LifecycleInOrder
    OBVIOUS
  <2>1. PageTypeOK
    BY DEF PageInv
  <2>2. ASSUME NEW p \in Pages PROVE page[p].life # "broken" /\ ~page[p].lost
    <3>1. page[p] \in PageBase
      BY <2>1 DEF PageTypeOK
    <3>2. QED
      BY <3>1, PhaseOfEach, Unbroken
  <2>3. QED
    BY <2>1, <2>2 DEF LifecycleInOrder
<1>2. QED
  BY <1>1, AlwaysPageInv, PTL

\* Between switches the top of the stack is the only page in front, PagePrev and
\* PageCurrent name it, and all others are unloaded or cached.
THEOREM TopIsAlwaysShown ==
  ASSUME Careful
  PROVE  PageSpec => []TopIsShown
<1>1. PageInv => TopIsShown
  <2> SUFFICES ASSUME PageInv, ~IsSwitchReq, PageStack # <<>>
               PROVE  /\ PagePrev = GetStackTop /\ PageCurrent = GetStackTop
                      /\ page[GetStackTop].state = "ACTIVITY" /\ page[GetStackTop].root
                      /\ \A p \in Pages \ {GetStackTop} :
                           \/ page[p].state = "IDLE" /\ ~page[p].root
                           \/ page[p].state = "WILL_APPEAR" /\ page[p].root /\ page[p].cached
    BY DEF TopIsShown
  <2>1. PageTypeOK /\ StackFits /\ PhasesFit
    BY DEF PageInv
  <2>2. PagePrev = GetStackTop /\ PageCurrent = GetStackTop /\ GetStackTop # NoPage
    BY <2>1, TypeFacts DEF StackFits, GetStackTop, TopOf, PageTypeOK
  <2>3. InFront(page[GetStackTop]) /\ \A p \in Pages \ {GetStackTop} : Hidden(page[p])
    BY <2>1, <2>2 DEF PhasesFit
  <2>4. QED
    BY <2>2, <2>3 DEF InFront, Hidden, Off, Asleep
<1>2. QED
  BY <1>1, AlwaysPageInv, PTL

\* Uninstall frees no page that the manager or an animation refers to, and leaves neither
\* root nor stash behind.
THEOREM FreedPageIsUnused ==
  ASSUME Careful
  PROVE  PageSpec => []NoFreedPage
<1>1. PageInv => NoFreedPage
  <2> SUFFICES ASSUME PageInv PROVE NoFreedPage
    OBVIOUS
  <2>1. PageTypeOK /\ StackFits /\ PhasesFit
    BY DEF PageInv
  <2>2. {PagePrev, PageCurrent} \subseteq PagePool \cup {NoPage}
    BY <2>1 DEF StackFits, GetStackTop, TopOf, PageTypeOK
  <2>3. \A p \in Pages \ PagePool : ~page[p].busy /\ ~page[p].root
    BY <2>1 DEF PhasesFit, Off
  <2>4. ASSUME NEW p \in Pages PROVE page[p].state = "IDLE" => page[p].stash = 0
    <3>1. page[p] \in PageBase
      BY <2>1 DEF PageTypeOK
    <3>2. QED
      BY <3>1, PhaseOfEach, Unbroken
  <2>5. QED
    BY <2>2, <2>3, <2>4 DEF NoFreedPage
<1>2. QED
  BY <1>1, AlwaysPageInv, PTL

\* Pages without animation are pushed onto the empty stack only, as the application does
\* with its first page.
NoneIsFirst == \A r \in Routes : SwitchAnimTypeUpdate(r[2]) = "none" => r[1] = NoPage

\* A switch keeps the types in order, if the pages above the bottom one have an animation
\* and the bottom one stays.
LEMMA SwitchKeepsAnim ==
  ASSUME NEW push, NEW stk, NEW prev, PageInv, AnimFits, push \in BOOLEAN,
         SwitchesTo(stk, push, prev), PageStack' = stk,
         \A i \in 2 .. Len(stk) : SwitchAnimTypeUpdate(stk[i]) # "none",
         PageStack # <<>> => stk[1] = PageStack[1],
         IF push THEN prev # NoPage => Len(stk) > 1 ELSE AnimCurrent # "none"
  PROVE  AnimFits'
<1>1. PICK pages \in [Pages -> PageBase] :
        /\ Switchable(stk, pages, prev) /\ SwitchTo(TopOf(stk), push, stk, pages, prev)
        /\ \A p \in Pages : pages[p].drag => page[p].drag
        /\ \A p \in Pages : pages[p].cached =>
             /\ page[p].cached
             /\ CacheMode[p] = "auto" /\ InStack(p) => \E i \in 1 .. Len(stk) : stk[i] = p
  BY Zenon DEF SwitchesTo
<1>2. PageTypeOK /\ StackFits
  BY DEF PageInv
<1> DEFINE new == TopOf(stk)
           n   == Len(stk)
<1>3. new = stk[n] /\ new \in Pages
  BY <1>1, <1>2, SwitchableFacts
<1>4. /\ \A p \in Pages : p # new \/ n < 2 => (page'[p].drag => pages[p].drag)
      /\ \A p \in Pages : page'[p].cached => pages[p].cached \/ (p = new /\ CacheMode[p] # "off")
      /\ IsSwitchReq' = TRUE /\ PageCurrent' = new /\ IsPushing' = push /\ PagePrev' = prev
      /\ AnimCurrent' = IF push THEN SwitchAnimTypeUpdate(new) ELSE AnimCurrent
  <2>1. Switched(new, push, stk, pages, prev)
    BY <1>1, <1>2, TopIsSwitched, Zenon
  <2>2. QED
    BY ONLY <2>1 DEF Switched
<1>5. stk \in Seq(Pages) /\ n \in Nat /\ n > 0 /\ stk[1] \in Pages
  BY <1>1 DEF Switchable
<1>6. ~page[stk[1]].drag
  BY <1>2, <1>5 DEF StackFits, AnimFits, Off
<1>7. stk[1] # new \/ n < 2
  BY <1>1, <1>3, <1>5 DEF Switchable
<1>8. ~page'[stk[1]].drag
  BY <1>1, <1>4, <1>5, <1>6, <1>7
<1> HIDE DEF new, n
<1>9. CacheFits'
  <2> SUFFICES ASSUME NEW p \in Pages, page'[p].cached
               PROVE  CacheMode[p] # "off" /\ (CacheMode[p] = "auto" => InStack(p)')
    BY DEF CacheFits
  <2>1. InStack(p)' <=> \E i \in 1 .. n : stk[i] = p
    BY DEF InStack, n
  <2>2. CASE p = new
    <3>1. InStack(p)'
      BY <1>3, <1>5, <2>1, <2>2
    <3>2. CacheMode[p] # "off"
      BY <1>1, <1>4, <2>2 DEF AnimFits, CacheFits
    <3>3. QED
      BY <3>1, <3>2
  <2>3. CASE p # new
    <3>1. pages[p].cached
      BY <1>4, <2>3
    <3>2. page[p].cached /\ (CacheMode[p] = "auto" /\ InStack(p) => InStack(p)')
      BY <1>1, <2>1, <3>1 DEF n
    <3>3. QED
      BY <3>2 DEF AnimFits, CacheFits
  <2>4. QED
    BY <2>2, <2>3
<1>10. QED
  BY <1>4, <1>8, <1>9 DEF AnimFits, n

\* Every step keeps the types in order.
LEMMA NextAnim ==
  ASSUME Careful, NoneIsFirst, PageInv, AnimFits, [PageNext]_pageVars
  PROVE  AnimFits'
<1>1. PageTypeOK /\ StackFits /\ Len(PageStack) \in Nat
  BY DEF PageInv, PageTypeOK
<1>2. ASSUME NEW p \in Pages, NEW s \in StashSizes \cup {0}, Push(p, s) PROVE AnimFits'
  <2> DEFINE stk == PageStack'
             n   == Len(PageStack)
  <2>1. /\ SwitchesTo(stk, TRUE, PagePrev)
        /\ Len(stk) = n + 1 /\ stk[n + 1] = p
        /\ \A i \in 1 .. n : stk[i] = PageStack[i]
    BY <1>1, <1>2, PushSwitches
  <2>2. n > 0 => SwitchAnimTypeUpdate(p) # "none"
    <3>1. <<GetStackTop, p>> \in Routes
      BY <1>2 DEF Push
    <3>2. n > 0 => GetStackTop \in Pages
      BY <1>1 DEF GetStackTop, TopOf, PageTypeOK
    <3>3. QED
      BY <3>1, <3>2, TypeFacts DEF NoneIsFirst
  <2>3. \A i \in 2 .. Len(stk) : SwitchAnimTypeUpdate(stk[i]) # "none"
    BY <1>1, <2>1, <2>2 DEF AnimFits
  <2>4. PageStack # <<>> => stk[1] = PageStack[1]
    BY <1>1, <2>1 DEF PageTypeOK
  <2>5. PagePrev # NoPage => Len(stk) > 1
    BY <1>1, <2>1 DEF StackFits, PageTypeOK
  <2>6. QED
    BY <2>1, <2>3, <2>4, <2>5, SwitchKeepsAnim, Zenon
<1>t. SwitchAnimStateCheck /\ Len(PageStack) > 1 => AnimCurrent # "none"
  <2> DEFINE n == Len(PageStack)
  <2> SUFFICES ASSUME SwitchAnimStateCheck, n > 1 PROVE AnimCurrent # "none"
    OBVIOUS
  <2>1. ~IsSwitchReq /\ PageStack # <<>> /\ PageCurrent = PageStack[n]
    BY <1>1 DEF SwitchAnimStateCheck, StackFits, GetStackTop, TopOf
  <2>2. n \in 2 .. n
    BY <1>1
  <2>3. QED
    BY <2>1, <2>2 DEF AnimFits
<1>3. CASE Pop
  <2> DEFINE stk == PageStack'
  <2>1. /\ SwitchesTo(stk, FALSE, PagePrev)
        /\ Len(PageStack) > 1 /\ Len(stk) = Len(PageStack) - 1
        /\ \A i \in 1 .. Len(stk) : stk[i] = PageStack[i]
    BY <1>3, PopSwitches
  <2>2. \A i \in 2 .. Len(stk) : SwitchAnimTypeUpdate(stk[i]) # "none"
    BY <1>1, <2>1 DEF AnimFits
  <2>3. PageStack # <<>> => stk[1] = PageStack[1]
    BY <1>1, <2>1
  <2>4. AnimCurrent # "none"
    BY <1>3, <1>t, <2>1 DEF Pop
  <2>5. QED
    BY <2>1, <2>2, <2>3, <2>4, SwitchKeepsAnim, Zenon
<1>4. CASE BackHome
  <2> DEFINE stk == PageStack'
  <2>1. /\ SwitchesTo(stk, FALSE, NoPage) /\ Len(stk) = 1 /\ stk[1] = PageStack[1]
        /\ Len(PageStack) > 1
    BY <1>4, BackHomeSwitches
  <2>2. \A i \in 2 .. Len(stk) : SwitchAnimTypeUpdate(stk[i]) # "none"
    BY <2>1
  <2>3. AnimCurrent # "none"
    BY <1>4, <1>t, <2>1 DEF BackHome
  <2>4. QED
    BY <2>1, <2>2, <2>3, SwitchKeepsAnim, Zenon
<1>5. ASSUME NEW p \in Pages, onSwitchAnimFinish(p) PROVE AnimFits'
  <2>1. /\ page[p].busy /\ page[p] \in PageBase /\ PageStack' = PageStack
        /\ PageCurrent' = PageCurrent /\ IsPushing' = IsPushing
        /\ page' = [page EXCEPT ![p] =
                      [StateUpdate(page[p], CacheMode[p], FALSE) EXCEPT !.busy = FALSE]]
    BY <1>1, <1>5 DEF onSwitchAnimFinish, PageTypeOK
  <2>2. (page'[p].drag => page[p].drag) /\ (page'[p].cached => page[p].cached)
    BY <1>1, <2>1, FinishFacts, PageAppears, PageHides DEF PageTypeOK
  <2>3. \A q \in Pages : /\ page'[q].drag => page[q].drag
                         /\ page'[q].cached => page[q].cached
    BY <1>1, <2>1, <2>2 DEF PageTypeOK
  <2>4. PageStack # <<>> => PageStack[1] \in Pages
    BY <1>1 DEF PageTypeOK
  <2>5. /\ ~IsSwitchReq' => \/ ~IsSwitchReq \/ IsPushing
                            \/ AnimCurrent' = SwitchAnimTypeUpdate(PageCurrent)
        /\ \/ AnimCurrent' = AnimCurrent
           \/ AnimCurrent' = SwitchAnimTypeUpdate(PageCurrent)
        /\ IsSwitchReq' => IsSwitchReq /\ PagePrev' = PagePrev /\ AnimCurrent' = AnimCurrent
    <3> DEFINE finished == SwitchReqCheck(page')
    <3>1. /\ IsSwitchReq' = (IsSwitchReq /\ ~finished)
          /\ AnimCurrent' = IF finished /\ ~IsPushing
                            THEN SwitchAnimTypeUpdate(PageCurrent) ELSE AnimCurrent
          /\ PagePrev' = IF finished THEN PageCurrent ELSE PagePrev
      BY <1>5 DEF onSwitchAnimFinish
    <3> HIDE DEF finished
    <3>2. QED
      BY <3>1
  <2>6. CacheFits'
    BY <2>1, <2>3 DEF AnimFits, CacheFits, InStack
  <2>7. QED
    BY <2>1, <2>3, <2>4, <2>5, <2>6 DEF AnimFits
<1>6. ASSUME NEW p \in Pages, Install(p) \/ Uninstall(p) PROVE AnimFits'
  <2>1. /\ \A q \in Pages : q # p => page'[q] = page[q]
        /\ ~page'[p].cached
    <3>1. page[p] \in PageBase
      BY <1>1 DEF PageTypeOK
    <3>2. ~NewPage.cached
      BY DEF NewPage
    <3>3. page[p].cached => ~StateUnloadExecute(page[p]).cached
      BY <3>1, PhaseOfEach, UnloadedIsUncached
      DEF Hidden, Off, Asleep, Appearing, InFront, Leaving
    <3>4. QED
      BY <1>1, <1>6, <3>1, <3>2, <3>3 DEF Install, Uninstall, PageTypeOK
  <2>2. UNCHANGED <<PageStack, PagePrev, PageCurrent, IsSwitchReq, IsPushing, AnimCurrent>>
    BY <1>6 DEF Install, Uninstall
  <2>3. ~InStack(p)
    BY <1>1, <1>6 DEF Install, Uninstall, InStack, StackFits
  <2>4. PageStack # <<>> => PageStack[1] \in Pages /\ PageStack[1] # p
    BY <1>1, <2>3 DEF PageTypeOK, InStack
  <2>5. CacheFits'
    BY <2>1, <2>2 DEF AnimFits, CacheFits, InStack
  <2>6. QED
    BY <2>1, <2>2, <2>4, <2>5 DEF AnimFits
<1>7. CASE \/ UNCHANGED pageVars
           \/ \E p \in Pages : DragPressed(p) \/ DragReleased(p) \/ onRootAnimFinish(p)
  BY <1>7 DEF onRootAnimFinish, DragPressed, DragReleased, pageVars, switchVars, AnimFits,
              CacheFits, InStack
<1>8. QED
  BY <1>2, <1>3, <1>4, <1>5, <1>6, <1>7 DEF PageNext

\* While the type without getter is current, the pages of the stack have no drag callbacks,
\* and only a popped page that is cached for good still has them; for callers that push
\* pages without animation first, as this program does.
THEOREM DragAlwaysHasGetter ==
  ASSUME Careful, NoneIsFirst
  PROVE  PageSpec => []DragHasGetter
<1>1. PageInit => AnimFits
  BY DEF PageInit, AnimFits, CacheFits, NewPage
<1>2. PageInv /\ AnimFits /\ [PageNext]_pageVars => AnimFits'
  BY NextAnim
<1>3. PageInv /\ AnimFits => DragHasGetter
  <2> SUFFICES ASSUME PageInv, AnimFits, AnimCurrent = "none", NEW p \in Pages, page[p].drag
               PROVE  ~InStack(p) /\ CacheMode[p] = "on"
    BY DEF DragHasGetter
  <2>1. PageTypeOK /\ StackFits /\ PhasesFit
    BY DEF PageInv
  <2> DEFINE n == Len(PageStack)
  <2>2. PageStack # <<>> /\ n \in Nat /\ n > 0 /\ PageCurrent = PageStack[n]
    BY <2>1 DEF StackFits, GetStackTop, TopOf, PageTypeOK, Off
  <2>3. n = 1 /\ (~IsSwitchReq \/ IsPushing)
    <3>1. n \in 2 .. n => SwitchAnimTypeUpdate(PageStack[n]) # "none"
      BY DEF AnimFits
    <3>2. ~IsSwitchReq \/ IsPushing => SwitchAnimTypeUpdate(PageStack[n]) = "none"
      BY <2>2 DEF AnimFits
    <3>3. ~IsSwitchReq \/ IsPushing
      BY DEF AnimFits
    <3>4. ~(n \in 2 .. n)
      BY <3>1, <3>2, <3>3, Zenon
    <3> HIDE DEF n
    <3>5. n = 1
      BY <2>2, <3>4
    <3>6. QED
      BY <3>3, <3>5
  <2>4. PagePrev = NoPage \/ PagePrev = PageCurrent
    BY <2>1, <2>2, <2>3 DEF AnimFits, StackFits
  <2>5. ~InStack(p)
    BY <2>2, <2>3 DEF AnimFits, InStack
  <2>6. p # PageCurrent
    BY <2>2, <2>5 DEF InStack
  <2>7. page[p].cached
    BY <2>1, <2>4, <2>6, TypeFacts DEF PhasesFit, Hidden, Off, Asleep
  <2>8. QED
    BY <2>5, <2>7, PageAssumption DEF AnimFits, CacheFits
<1>4. QED
  BY <1>1, <1>2, <1>3, AlwaysPageInv, PTL DEF PageSpec

-----------------------------------------------------------------------------
(* The data centre                                                         *)

\* No account is twice in the vector.
Distinct(vec) == \A i, j \in 1 .. Len(vec) : vec[i] = vec[j] => i = j

\* No ID is twice in it, so that Find has one answer at most.
OneEach(vec) == \A i, j \in 1 .. Len(vec) : Id[vec[i]] = Id[vec[j]] => i = j

\* DataCenter::Find in a vector that has no ID twice.
LEMMA FindFacts ==
  ASSUME NEW vec \in Seq(Accounts), NEW id, OneEach(vec)
  PROVE  /\ \A b : Contains(vec, b) /\ Id[b] = id => Find(vec, id) = {b}
         /\ (\A b : Contains(vec, b) => Id[b] # id) => Find(vec, id) = {}
         /\ \A b \in Find(vec, id) : Contains(vec, b) /\ Id[b] = id /\ b \in Accounts
<1> DEFINE I == {i \in 1 .. Len(vec) : Id[vec[i]] = id}
           at == SelectInSeq(vec, LAMBDA a : Id[a] = id)
<1>1. at = IF I # {} THEN Min(I) ELSE 0
  BY DEF SelectInSeq
<1>2. Find(vec, id) = IF at = 0 THEN {} ELSE {vec[at]}
  BY DEF Find
<1> HIDE DEF at
<1>3. ASSUME NEW k \in I PROVE at = k /\ k # 0
  <2>1. I = {k}
    BY DEF OneEach
  <2>2. QED
    BY <1>1, <2>1 DEF Min
<1>4. \A b : Contains(vec, b) /\ Id[b] = id => \E k \in I : vec[k] = b
  BY DEF Contains
<1>5. \A k \in I : Contains(vec, vec[k]) /\ Id[vec[k]] = id /\ vec[k] \in Accounts
  BY DEF Contains
<1> HIDE DEF I
<1>6. ASSUME NEW k \in I PROVE Find(vec, id) = {vec[k]}
  BY <1>2, <1>3, Zenon
<1>7. ASSUME I = {} PROVE Find(vec, id) = {}
  BY <1>1, <1>2, <1>7
<1>8. ASSUME NEW b \in Find(vec, id)
      PROVE  Contains(vec, b) /\ Id[b] = id /\ b \in Accounts
  <2>1. PICK k \in I : vec[k] = b
    BY <1>6, <1>7
  <2>2. QED
    BY <1>5, <2>1
<1>9. ASSUME \A b : Contains(vec, b) => Id[b] # id PROVE Find(vec, id) = {}
  BY <1>5, <1>7, <1>9
<1>10. ASSUME NEW b, Contains(vec, b), Id[b] = id PROVE Find(vec, id) = {b}
  BY <1>4, <1>6, <1>10
<1>11. QED
  BY <1>8, <1>9, <1>10

\* DataCenter::Remove in a vector that has no account twice.
LEMMA RemoveFacts ==
  ASSUME NEW vec \in Seq(Accounts), NEW a, Distinct(vec)
  PROVE  /\ VecRemove(vec, a) \in Seq(Accounts)
         /\ \A b : Contains(VecRemove(vec, a), b) <=> Contains(vec, b) /\ b # a
         /\ Distinct(VecRemove(vec, a))
         /\ OneEach(vec) => OneEach(VecRemove(vec, a))
         /\ ~Contains(vec, a) => VecRemove(vec, a) = vec
<1> DEFINE I == {i \in 1 .. Len(vec) : vec[i] = a}
           r == VecRemove(vec, a)
<1>1. SelectInSeq(vec, LAMBDA v : v = a) = IF I # {} THEN Min(I) ELSE 0
  BY DEF SelectInSeq
<1>2. r = IF Contains(vec, a) THEN RemoveAt(vec, SelectInSeq(vec, LAMBDA v : v = a)) ELSE vec
  BY DEF VecRemove, RemoveFirst, Contains
<1>3. ASSUME NEW k \in I PROVE I = {k} /\ Min(I) = k /\ k \in 1 .. Len(vec)
  <2>1. I = {k}
    BY DEF Distinct
  <2>2. QED
    BY <2>1 DEF Min
<1>4. ~Contains(vec, a) => r = vec
  BY <1>2
<1>5. ASSUME NEW k \in 1 .. Len(vec), vec[k] = a
      PROVE  /\ r \in Seq(Accounts) /\ Len(r) = Len(vec) - 1
             /\ \A i \in 1 .. Len(r) : r[i] = IF i < k THEN vec[i] ELSE vec[i + 1]
  <2>1. k \in I /\ Contains(vec, a)
    BY <1>5 DEF Contains
  <2> HIDE DEF I, r
  <2>2. r = SubSeq(vec, 1, k - 1) \o SubSeq(vec, k + 1, Len(vec))
    BY <1>1, <1>2, <1>3, <2>1 DEF RemoveAt
  <2> DEFINE s == SubSeq(vec, 1, k - 1)  t == SubSeq(vec, k + 1, Len(vec))
  <2>3. /\ s \in Seq(Accounts) /\ Len(s) = k - 1 /\ \A i \in 1 .. k - 1 : s[i] = vec[i]
    <3>1. \A i \in 1 .. k - 1 : vec[i] \in Accounts
      OBVIOUS
    <3>2. QED
      BY <3>1, SubSeqProperties
  <2>4. /\ t \in Seq(Accounts) /\ Len(t) = Len(vec) - k
        /\ \A i \in 1 .. Len(vec) - k : t[i] = vec[i + k]
    <3>1. \A i \in k + 1 .. Len(vec) : vec[i] \in Accounts
      OBVIOUS
    <3>2. /\ t \in Seq(Accounts)
          /\ Len(t) = IF k + 1 <= Len(vec) THEN Len(vec) - (k + 1) + 1 ELSE 0
          /\ \A i \in 1 .. Len(vec) - (k + 1) + 1 : t[i] = vec[k + 1 + i - 1]
      BY <3>1, SubSeqProperties
    <3>3. QED
      BY <3>2
  <2> HIDE DEF s, t
  <2>5. r = s \o t
    BY <2>2 DEF s, t
  <2>6. /\ r \in Seq(Accounts) /\ Len(r) = Len(s) + Len(t)
        /\ \A i \in 1 .. Len(s) + Len(t) : r[i] = IF i <= Len(s) THEN s[i] ELSE t[i - Len(s)]
    BY <2>3, <2>4, <2>5, ConcatProperties
  <2>7. Len(r) = Len(vec) - 1
    BY <2>3, <2>4, <2>6
  <2>8. ASSUME NEW i \in 1 .. Len(r) PROVE r[i] = IF i < k THEN vec[i] ELSE vec[i + 1]
    <3>1. CASE i < k
      BY <2>3, <2>4, <2>6, <2>7, <3>1
    <3>2. CASE ~(i < k)
      <4>1. r[i] = t[i - (k - 1)] /\ i - (k - 1) \in 1 .. Len(vec) - k
        BY <2>3, <2>4, <2>6, <2>7, <3>2
      <4>2. (i - (k - 1)) + k = i + 1
        OBVIOUS
      <4>3. QED
        BY <2>4, <3>2, <4>1, <4>2
    <3>3. QED
      BY <3>1, <3>2
  <2>9. QED
    BY <2>6, <2>7, <2>8
<1> HIDE DEF I, r
<1>6. ASSUME Contains(vec, a)
      PROVE  /\ r \in Seq(Accounts)
             /\ \A b : Contains(r, b) <=> Contains(vec, b) /\ b # a
             /\ Distinct(r)
             /\ OneEach(vec) => OneEach(r)
  <2>1. PICK k \in 1 .. Len(vec) : vec[k] = a
    BY <1>6 DEF Contains
  <2>2. /\ r \in Seq(Accounts) /\ Len(r) = Len(vec) - 1
        /\ \A i \in 1 .. Len(r) : r[i] = IF i < k THEN vec[i] ELSE vec[i + 1]
    BY <1>5, <2>1
  <2>3. ASSUME NEW b, Contains(r, b) PROVE Contains(vec, b) /\ b # a
    BY <2>1, <2>2, <2>3 DEF Contains, Distinct
  <2>4. ASSUME NEW b, Contains(vec, b), b # a PROVE Contains(r, b)
    <3>1. PICK i \in 1 .. Len(vec) : vec[i] = b
      BY <2>4 DEF Contains
    <3>2. i # k
      BY <2>1, <2>4, <3>1
    <3>3. CASE i < k
      BY <2>2, <3>1, <3>3 DEF Contains
    <3>4. CASE i > k
      <4>1. i - 1 \in 1 .. Len(r) /\ r[i - 1] = b
        BY <2>2, <3>1, <3>4
      <4>2. QED
        BY <4>1 DEF Contains
    <3>5. QED
      BY <3>2, <3>3, <3>4
  <2> DEFINE From(i) == IF i < k THEN i ELSE i + 1
  <2>a. ASSUME NEW i \in 1 .. Len(r) PROVE From(i) \in 1 .. Len(vec) /\ r[i] = vec[From(i)]
    BY <2>2
  <2>b. ASSUME NEW i \in 1 .. Len(r), NEW j \in 1 .. Len(r), From(i) = From(j) PROVE i = j
    BY <2>b
  <2> HIDE DEF From
  <2>5. Distinct(r)
    BY <2>a, <2>b, Zenon DEF Distinct
  <2>6. ASSUME OneEach(vec), NEW i \in 1 .. Len(r), NEW j \in 1 .. Len(r), Id[r[i]] = Id[r[j]]
        PROVE  i = j
    <3>1. Id[vec[From(i)]] = Id[vec[From(j)]]
      BY <2>6, <2>a, Zenon
    <3>2. From(i) = From(j)
      BY <2>6, <2>a, <3>1, Zenon DEF OneEach
    <3>3. QED
      BY <2>b, <3>2, Zenon
  <2>7. QED
    BY <2>2, <2>3, <2>4, <2>5, <2>6 DEF OneEach
<1>7. QED
  BY <1>4, <1>6 DEF r

\* vector::push_back.
LEMMA AppendFacts ==
  ASSUME NEW vec \in Seq(Accounts), NEW a \in Accounts
  PROVE  /\ Append(vec, a) \in Seq(Accounts)
         /\ \A b : Contains(Append(vec, a), b) <=> Contains(vec, b) \/ b = a
         /\ Distinct(vec) /\ ~Contains(vec, a) => Distinct(Append(vec, a))
         /\ OneEach(vec) /\ (\A b : Contains(vec, b) => Id[b] # Id[a]) => OneEach(Append(vec, a))
<1> DEFINE n == Append(vec, a)
<1>1. /\ n \in Seq(Accounts) /\ Len(n) = Len(vec) + 1 /\ Len(vec) \in Nat
      /\ \A i \in 1 .. Len(vec) : n[i] = vec[i]
      /\ n[Len(vec) + 1] = a
  OBVIOUS
<1> HIDE DEF n
<1>2. \A b : Contains(n, b) <=> Contains(vec, b) \/ b = a
  BY <1>1 DEF Contains
<1>3. Distinct(vec) /\ ~Contains(vec, a) => Distinct(n)
  BY <1>1 DEF Contains, Distinct
<1>4. OneEach(vec) /\ (\A b : Contains(vec, b) => Id[b] # Id[a]) => OneEach(n)
  BY <1>1 DEF Contains, OneEach
<1>5. QED
  BY <1>1, <1>2, <1>3, <1>4 DEF n

\* An empty vector, and what the checked properties say of any.
LEMMA VectorFacts ==
  /\ \A b : ~Contains(<<>>, b)
  /\ Distinct(<<>>) /\ OneEach(<<>>) /\ <<>> \in Seq(Accounts)
  /\ \A vec \in Seq(Accounts) :
       /\ OneEach(vec) => Distinct(vec)
       /\ OneEach(vec) => IsInjective([i \in DOMAIN vec |-> Id[vec[i]]])
       /\ Distinct(vec) => IsInjective(vec)
       /\ \A b : b \in ToSet(vec) <=> Contains(vec, b)
       /\ \A b : Contains(vec, b) => b \in Accounts
<1>1. (\A b : ~Contains(<<>>, b)) /\ Distinct(<<>>) /\ OneEach(<<>>) /\ <<>> \in Seq(Accounts)
  BY DEF Contains, Distinct, OneEach
<1>2. ASSUME NEW vec \in Seq(Accounts)
      PROVE  /\ OneEach(vec) => Distinct(vec)
             /\ OneEach(vec) => IsInjective([i \in DOMAIN vec |-> Id[vec[i]]])
             /\ Distinct(vec) => IsInjective(vec)
             /\ \A b : b \in ToSet(vec) <=> Contains(vec, b)
             /\ \A b : Contains(vec, b) => b \in Accounts
  <2>1. DOMAIN vec = 1 .. Len(vec)
    OBVIOUS
  <2>2. QED
    BY <2>1 DEF OneEach, Distinct, IsInjective, ToSet, Contains
<1>3. QED
  BY <1>1, <1>2

-----------------------------------------------------------------------------
\* The pool has live accounts of different IDs, and not AccountMain; AccountMain follows
\* those of another ID than its own.
PoolFits ==
  /\ Main \in alive
  /\ OneEach(pool)
  /\ \A a \in Accounts : Contains(pool, a) => a \in alive \ {Main}
  /\ \A a \in Accounts : Contains(pool, a) /\ Id[a] # Id[Main] => Contains(publishers[Main], a)

\* An address without account has nothing: no vector, no timer.
DeadHaveNothing ==
  \A a \in Accounts \ alive :
    publishers[a] = <<>> /\ subscribers[a] = <<>> /\ timer[a] = "none"

\* The vectors of both sides agree and are without duplicates, and who is followed is in
\* the pool.
SidesAgree ==
  \A a \in Accounts :
    /\ OneEach(publishers[a]) /\ Distinct(subscribers[a])
    /\ \A b \in Accounts :
         /\ Contains(publishers[a], b) <=> Contains(subscribers[b], a)
         /\ Contains(publishers[a], b) => Contains(pool, b)

CentreInv == CentreTypeOK /\ PoolFits /\ DeadHaveNothing /\ SidesAgree

\* One round of the loop of ~Account, for a subscriber that follows the account.
LEMMA RoundFacts ==
  ASSUME NEW st, NEW a \in Accounts, NEW i, NEW s, NEW pubs,
         st.slots[i] = s, st.pubs = pubs, pubs[s] \in Seq(Accounts),
         OneEach(pubs[s]), Contains(pubs[s], a)
  PROVE  /\ UnfollowRound(a, st, i).pubs = [pubs EXCEPT ![s] = VecRemove(@, a)]
         /\ UnfollowRound(a, st, i).slots = EraseInPlace(st.slots, st.len, s)
<1>1. Find(pubs[s], Id[a]) = {a}
  BY FindFacts, Zenon
<1>2. a \in Find(pubs[s], Id[a])
  BY <1>1
<1>3. Find(st.pubs[st.slots[i]], Id[a]) # {}
  BY <1>2
<1>4. QED
  BY <1>3 DEF UnfollowRound

\* The loop "Let subscribers unfollow" with up to two subscribers: each is told.
LEMMA UnfollowFacts ==
  ASSUME CentreInv, NEW a \in Accounts, Len(subscribers[a]) <= 2
  PROVE  AfterUnfollow(a) = [s \in Accounts |-> VecRemove(publishers[s], a)]
<1> DEFINE n == Len(subscribers[a])
           r0 == [slots |-> subscribers[a], len |-> n, pubs |-> publishers]
           r1 == UnfollowRound(a, r0, 1)
           r2 == UnfollowRound(a, r1, 2)
           w == [i \in 0 .. n |-> IF i = 0 THEN r0 ELSE IF i = 1 THEN r1 ELSE r2]
           after == [s \in Accounts |-> VecRemove(publishers[s], a)]
<1>1. AfterUnfollow(a)
        = (CHOOSE g : g = [i \in 0 .. n |-> IF i = 0 THEN r0 ELSE UnfollowRound(a, g[i - 1], i)])
          [n].pubs
  BY DEF AfterUnfollow
<1>2. subscribers[a] \in Seq(Accounts) /\ publishers \in [Accounts -> Seq(Accounts)]
  BY DEF CentreInv, CentreTypeOK
<1>3. n \in {0, 1, 2}
  <2>1. n \in Nat /\ n <= 2
    BY <1>2
  <2> HIDE DEF n
  <2>2. QED
    BY <2>1
<1>4. w = [i \in 0 .. n |-> IF i = 0 THEN r0 ELSE UnfollowRound(a, w[i - 1], i)]
  <2> HIDE DEF r0, n
  <2>1. n >= 1 => w[0] = r0
    BY <1>3
  <2>2. n >= 2 => w[1] = r1
    BY <1>3
  <2>3. QED
    BY <1>3, <2>1, <2>2
<1> HIDE DEF w
<1>5. PICK g : /\ g = [i \in 0 .. n |-> IF i = 0 THEN r0 ELSE UnfollowRound(a, g[i - 1], i)]
               /\ AfterUnfollow(a) = g[n].pubs
  BY <1>1, <1>4, Zenon
<1>6. /\ n = 0 => AfterUnfollow(a) = r0.pubs
      /\ n = 1 => AfterUnfollow(a) = r1.pubs
      /\ n = 2 => AfterUnfollow(a) = r2.pubs
  <2> HIDE DEF r0, n
  <2>1. g[0] = r0
    BY <1>3, <1>5
  <2>2. n \in {1, 2} => g[1] = r1
    BY <1>5, <2>1
  <2>3. n = 2 => g[2] = r2
    BY <1>5, <2>2
  <2>4. QED
    BY <1>5, <2>1, <2>2, <2>3
<1>7. ASSUME NEW s \in Accounts
      PROVE  /\ publishers[s] \in Seq(Accounts) /\ OneEach(publishers[s])
             /\ Contains(publishers[s], a) <=> Contains(subscribers[a], s)
             /\ ~Contains(subscribers[a], s) => VecRemove(publishers[s], a) = publishers[s]
  <2>0. publishers[s] \in Seq(Accounts)
    BY <1>2
  <2>1. /\ publishers[s] \in Seq(Accounts) /\ OneEach(publishers[s])
        /\ Contains(publishers[s], a) <=> Contains(subscribers[a], s)
    BY <2>0, Zenon DEF CentreInv, SidesAgree
  <2>2. Distinct(publishers[s])
    BY <2>1, VectorFacts
  <2>3. QED
    BY <2>1, <2>2, RemoveFacts
<1>8. r0.pubs = publishers /\ r0.slots = subscribers[a] /\ r0.len = n
  OBVIOUS
<1> HIDE DEF r0
<1>9. CASE n = 0
  <2>1. \A s \in Accounts : ~Contains(subscribers[a], s)
    BY <1>9 DEF Contains
  <2>2. QED
    BY <1>2, <1>6, <1>7, <1>8, <1>9, <2>1
<1> DEFINE s1 == subscribers[a][1]
<1>10. ASSUME n \in {1, 2}
       PROVE  /\ s1 \in Accounts /\ r1.pubs = [publishers EXCEPT ![s1] = VecRemove(@, a)]
              /\ r1.slots = EraseInPlace(subscribers[a], n, s1)
  <2>1. s1 \in Accounts /\ Contains(subscribers[a], s1)
    BY <1>2, <1>10 DEF Contains
  <2>2. r0.slots[1] = s1
    BY <1>8
  <2> HIDE DEF s1, n
  <2>3. r0.pubs[s1] \in Seq(Accounts) /\ OneEach(r0.pubs[s1]) /\ Contains(r0.pubs[s1], a)
    BY <1>7, <1>8, <2>1, Zenon
  <2>4. /\ r1.pubs = [r0.pubs EXCEPT ![s1] = VecRemove(@, a)]
        /\ r1.slots = EraseInPlace(r0.slots, r0.len, s1)
    BY <2>2, <2>3, RoundFacts
  <2>5. QED
    BY <1>8, <2>1, <2>4, Zenon
<1>11. CASE n = 1
  <2>1. \A s \in Accounts : Contains(subscribers[a], s) <=> s = subscribers[a][1]
    BY <1>2, <1>11 DEF Contains
  <2>2. QED
    BY <1>2, <1>6, <1>7, <1>10, <1>11, <2>1
<1>12. CASE n = 2
  <2> DEFINE s2 == subscribers[a][2]
  <2>1. /\ s1 \in Accounts /\ s2 \in Accounts /\ s1 # s2
        /\ \A s \in Accounts : Contains(subscribers[a], s) <=> s \in {s1, s2}
    <3>1. Distinct(subscribers[a])
      BY DEF CentreInv, SidesAgree
    <3>2. QED
      BY <1>2, <1>12, <3>1 DEF Contains, Distinct
  <2>2. r1.slots[2] = s2
    BY <1>2, <1>10, <1>12 DEF EraseInPlace
  <2>3. /\ r1.pubs = [publishers EXCEPT ![s1] = VecRemove(@, a)]
        /\ r1.pubs[s2] = publishers[s2]
    BY <1>2, <1>10, <1>12, <2>1
  <2> HIDE DEF s1, s2, r1, n
  <2>4. r2.pubs = [r1.pubs EXCEPT ![s2] = VecRemove(@, a)]
    <3>1. /\ r1.pubs[s2] \in Seq(Accounts) /\ OneEach(r1.pubs[s2])
          /\ Contains(r1.pubs[s2], a)
      BY <1>7, <2>1, <2>3, Zenon
    <3>2. QED
      BY <2>2, <3>1, RoundFacts
  <2>5. ASSUME NEW s \in Accounts PROVE r2.pubs[s] = VecRemove(publishers[s], a)
    <3> HIDE DEF r2
    <3>1. CASE s \notin {s1, s2}
      <4>1. r2.pubs[s] = publishers[s]
        BY <1>2, <2>1, <2>3, <2>4, <3>1
      <4>2. QED
        BY <1>7, <2>1, <3>1, <4>1
    <3>2. CASE s = s1
      BY <1>2, <2>1, <2>3, <2>4, <3>2
    <3>3. CASE s = s2
      BY <1>2, <2>1, <2>3, <2>4, <3>3
    <3>4. QED
      BY <3>1, <3>2, <3>3
  <2>6. r2.pubs = after
    BY <1>2, <2>3, <2>4, <2>5
  <2>7. QED
    BY <1>6, <1>12, <2>6
<1>13. QED
  BY <1>3, <1>9, <1>11, <1>12

\* The vectors of one account.
LEMMA EachVector ==
  ASSUME CentreInv, NEW a \in Accounts
  PROVE  /\ publishers[a] \in Seq(Accounts) /\ OneEach(publishers[a]) /\ Distinct(publishers[a])
         /\ subscribers[a] \in Seq(Accounts) /\ Distinct(subscribers[a])
         /\ \A b : Contains(publishers[a], b) => b \in Accounts /\ Contains(pool, b)
         /\ \A b : Contains(subscribers[a], b) => b \in Accounts
<1>1. publishers[a] \in Seq(Accounts) /\ subscribers[a] \in Seq(Accounts)
  BY DEF CentreInv, CentreTypeOK
<1>2. /\ OneEach(publishers[a]) /\ Distinct(subscribers[a])
      /\ \A b \in Accounts : Contains(publishers[a], b) => Contains(pool, b)
  BY DEF CentreInv, SidesAgree
<1>3. QED
  BY <1>1, <1>2, VectorFacts

\* The pool.
LEMMA PoolFacts ==
  ASSUME CentreInv
  PROVE  /\ pool \in Seq(Accounts) /\ OneEach(pool) /\ Distinct(pool)
         /\ \A b : Contains(pool, b) => b \in Accounts /\ b \in alive \ {Main}
         /\ alive \subseteq Accounts /\ Main \in alive
<1>1. pool \in Seq(Accounts) /\ OneEach(pool)
  BY DEF CentreInv, CentreTypeOK, PoolFits
<1>2. QED
  BY <1>1, VectorFacts DEF CentreInv, CentreTypeOK, PoolFits

\* What Account::Subscribe finds.
LEMMA SubscribableFacts ==
  ASSUME NEW s \in Accounts, NEW id, NEW vec \in Seq(Accounts), CentreInv, OneEach(vec)
  PROVE  /\ \A p \in Subscribable(s, id, vec) :
              /\ p \in Accounts /\ Contains(vec, p) /\ Id[p] = id /\ id # Id[s]
              /\ \A b : Contains(publishers[s], b) => Id[b] # id
         /\ id # Id[s] /\ (\A b : Contains(publishers[s], b) => Id[b] # id)
              => \A p : Contains(vec, p) /\ Id[p] = id => Subscribable(s, id, vec) = {p}
<1>1. publishers[s] \in Seq(Accounts) /\ OneEach(publishers[s])
  BY EachVector
<1>2. /\ \A b : Contains(publishers[s], b) /\ Id[b] = id => Find(publishers[s], id) = {b}
      /\ (\A b : Contains(publishers[s], b) => Id[b] # id) => Find(publishers[s], id) = {}
  BY <1>1, FindFacts, Zenon
<1>3. ASSUME NEW p \in Subscribable(s, id, vec)
      PROVE  /\ p \in Accounts /\ Contains(vec, p) /\ Id[p] = id /\ id # Id[s]
             /\ \A b : Contains(publishers[s], b) => Id[b] # id
  <2>1. id # Id[s] /\ Find(publishers[s], id) = {} /\ p \in Find(vec, id)
    BY DEF Subscribable, SearchAccount
  <2>2. p \in Accounts /\ Contains(vec, p) /\ Id[p] = id
    BY <2>1, FindFacts, Zenon
  <2>3. QED
    BY <1>2, <2>1, <2>2
<1>4. ASSUME NEW p, Contains(vec, p), Id[p] = id, id # Id[s],
             \A b : Contains(publishers[s], b) => Id[b] # id
      PROVE  Subscribable(s, id, vec) = {p}
  <2>1. Find(vec, id) = {p}
    BY <1>4, FindFacts, Zenon
  <2>2. QED
    BY <1>2, <1>4, <2>1 DEF Subscribable, SearchAccount
<1>5. QED
  BY <1>3, <1>4

\* What a successful Account::Subscribe changes.
LEMMA LinkFacts ==
  ASSUME NEW s \in Accounts, NEW p \in Accounts, CentreInv, Link(s, p),
         \A b : Contains(publishers[s], b) => Id[b] # Id[p]
  PROVE  /\ publishers' \in [Accounts -> Seq(Accounts)]
         /\ subscribers' \in [Accounts -> Seq(Accounts)]
         /\ \A x \in Accounts : OneEach(publishers'[x]) /\ Distinct(subscribers'[x])
         /\ \A x \in Accounts : \A y :
              Contains(publishers'[x], y) <=> Contains(publishers[x], y) \/ (x = s /\ y = p)
         /\ \A x \in Accounts : \A y :
              Contains(subscribers'[x], y) <=> Contains(subscribers[x], y) \/ (x = p /\ y = s)
         /\ \A x \in Accounts : x # s => publishers'[x] = publishers[x]
         /\ \A x \in Accounts : x # p => subscribers'[x] = subscribers[x]
<1>1. /\ publishers \in [Accounts -> Seq(Accounts)]
      /\ subscribers \in [Accounts -> Seq(Accounts)]
  BY DEF CentreInv, CentreTypeOK
<1>2. ~Contains(subscribers[p], s)
  <2>1. ~Contains(publishers[s], p)
    OBVIOUS
  <2>2. QED
    BY <2>1 DEF CentreInv, SidesAgree
<1>3. /\ Append(publishers[s], p) \in Seq(Accounts)
      /\ OneEach(Append(publishers[s], p))
      /\ \A y : Contains(Append(publishers[s], p), y) <=> Contains(publishers[s], y) \/ y = p
  BY EachVector, AppendFacts, Zenon
<1>4. /\ Append(subscribers[p], s) \in Seq(Accounts)
      /\ Distinct(Append(subscribers[p], s))
      /\ \A y : Contains(Append(subscribers[p], s), y) <=> Contains(subscribers[p], y) \/ y = s
  BY <1>2, EachVector, AppendFacts, Zenon
<1>5. /\ publishers' = [publishers EXCEPT ![s] = Append(publishers[s], p)]
      /\ subscribers' = [subscribers EXCEPT ![p] = Append(subscribers[p], s)]
  BY DEF Link
<1>6. /\ publishers'[s] = Append(publishers[s], p)
      /\ subscribers'[p] = Append(subscribers[p], s)
      /\ \A x \in Accounts : x # s => publishers'[x] = publishers[x]
      /\ \A x \in Accounts : x # p => subscribers'[x] = subscribers[x]
  BY <1>1, <1>5
<1>7. /\ publishers' \in [Accounts -> Seq(Accounts)]
      /\ subscribers' \in [Accounts -> Seq(Accounts)]
  BY <1>1, <1>3, <1>4, <1>5
<1>8. ASSUME NEW x \in Accounts
      PROVE  /\ OneEach(publishers'[x]) /\ Distinct(subscribers'[x])
             /\ \A y : Contains(publishers'[x], y)
                         <=> Contains(publishers[x], y) \/ (x = s /\ y = p)
             /\ \A y : Contains(subscribers'[x], y)
                         <=> Contains(subscribers[x], y) \/ (x = p /\ y = s)
  <2>1. OneEach(publishers[x]) /\ Distinct(subscribers[x])
    BY EachVector
  <2>2. QED
    BY <1>3, <1>4, <1>6, <2>1, Zenon
<1>9. QED
  BY <1>6, <1>7, <1>8

-----------------------------------------------------------------------------
\* DataCenter::DataCenter.
LEMMA InitCentreInv == CentreInit => CentreInv
BY MainAssumption, VectorFacts
   DEF CentreInit, CentreInv, CentreTypeOK, PoolFits, DeadHaveNothing, SidesAgree, TimerState

\* Account::Subscribe appends one pair to the relation.
LEMMA SubscribeFacts ==
  ASSUME CentreInv, NEW s \in Accounts, NEW id, Subscribe(s, id)
  PROVE  \E p \in Accounts : s \in alive /\ p \in alive /\ s # p /\ Contains(pool, p)
                             /\ Link(s, p) /\ \A b : Contains(publishers[s], b) => Id[b] # Id[p]
<1>1. PICK p \in Subscribable(s, id, pool) : s \in alive /\ Link(s, p)
  BY DEF Subscribe
<1>2. /\ p \in Accounts /\ Contains(pool, p) /\ Id[p] = id /\ id # Id[s]
      /\ \A b : Contains(publishers[s], b) => Id[b] # id
  BY PoolFacts, SubscribableFacts, Zenon
<1>3. QED
  BY <1>1, <1>2, PoolFacts

\* It keeps the invariant.
LEMMA SubscribeKeepsInv ==
  ASSUME CentreInv, NEW s \in Accounts, NEW id, Subscribe(s, id)
  PROVE  CentreInv'
<1>1. PICK p \in Accounts : s \in alive /\ p \in alive /\ s # p /\ Contains(pool, p)
                            /\ Link(s, p) /\ \A b : Contains(publishers[s], b) => Id[b] # Id[p]
  BY SubscribeFacts
<1>2. /\ publishers' \in [Accounts -> Seq(Accounts)]
      /\ subscribers' \in [Accounts -> Seq(Accounts)]
      /\ \A x \in Accounts : OneEach(publishers'[x]) /\ Distinct(subscribers'[x])
      /\ \A x \in Accounts : \A y :
           Contains(publishers'[x], y) <=> Contains(publishers[x], y) \/ (x = s /\ y = p)
      /\ \A x \in Accounts : \A y :
           Contains(subscribers'[x], y) <=> Contains(subscribers[x], y) \/ (x = p /\ y = s)
      /\ \A x \in Accounts : x # s => publishers'[x] = publishers[x]
      /\ \A x \in Accounts : x # p => subscribers'[x] = subscribers[x]
  BY <1>1, LinkFacts
<1>3. alive' = alive /\ pool' = pool /\ timer' = timer
  BY DEF Subscribe
<1>4. CentreTypeOK'
  BY <1>2, <1>3 DEF CentreInv, CentreTypeOK
<1>5. PoolFits'
  BY <1>2, <1>3, MainAssumption DEF CentreInv, PoolFits
<1>6. DeadHaveNothing'
  BY <1>1, <1>2, <1>3 DEF CentreInv, DeadHaveNothing
<1>7. SidesAgree'
  BY <1>1, <1>2, <1>3 DEF CentreInv, SidesAgree
<1>8. QED
  BY <1>4, <1>5, <1>6, <1>7 DEF CentreInv

\* The subscription of s to p ends, and no other one does.
Unlinks(s, p) ==
  /\ Contains(publishers[s], p) /\ s \in alive
  /\ publishers' \in [Accounts -> Seq(Accounts)]
  /\ subscribers' \in [Accounts -> Seq(Accounts)]
  /\ \A x \in Accounts : OneEach(publishers'[x]) /\ Distinct(subscribers'[x])
  /\ \A x \in Accounts : \A y :
       Contains(publishers'[x], y) <=> Contains(publishers[x], y) /\ ~(x = s /\ y = p)
  /\ \A x \in Accounts : \A y :
       Contains(subscribers'[x], y) <=> Contains(subscribers[x], y) /\ ~(x = p /\ y = s)
  /\ \A x \in Accounts : x # s => publishers'[x] = publishers[x]
  /\ \A x \in Accounts : x # p => subscribers'[x] = subscribers[x]

\* Account::Unsubscribe takes one pair out of the relation.
LEMMA UnsubscribeFacts ==
  ASSUME CentreInv, NEW s \in Accounts, NEW id, Unsubscribe(s, id)
  PROVE  \E p \in Accounts : Unlinks(s, p)
<1>1. PICK p \in Find(publishers[s], id) :
        /\ s \in alive
        /\ publishers' = [publishers EXCEPT ![s] = VecRemove(publishers[s], p)]
        /\ subscribers' = [subscribers EXCEPT ![p] = VecRemove(subscribers[p], s)]
  BY DEF Unsubscribe
<1>2. p \in Accounts /\ Contains(publishers[s], p)
  BY EachVector, FindFacts, Zenon
<1>3. /\ publishers \in [Accounts -> Seq(Accounts)]
      /\ subscribers \in [Accounts -> Seq(Accounts)]
  BY DEF CentreInv, CentreTypeOK
<1>4. /\ VecRemove(publishers[s], p) \in Seq(Accounts)
      /\ OneEach(VecRemove(publishers[s], p))
      /\ \A y : Contains(VecRemove(publishers[s], p), y) <=> Contains(publishers[s], y) /\ y # p
  BY EachVector, RemoveFacts, Zenon
<1>5. /\ VecRemove(subscribers[p], s) \in Seq(Accounts)
      /\ Distinct(VecRemove(subscribers[p], s))
      /\ \A y : Contains(VecRemove(subscribers[p], s), y)
                  <=> Contains(subscribers[p], y) /\ y # s
  BY <1>2, EachVector, RemoveFacts, Zenon
<1>6. /\ publishers'[s] = VecRemove(publishers[s], p)
      /\ subscribers'[p] = VecRemove(subscribers[p], s)
      /\ \A x \in Accounts : x # s => publishers'[x] = publishers[x]
      /\ \A x \in Accounts : x # p => subscribers'[x] = subscribers[x]
  BY <1>1, <1>2, <1>3
<1>7. /\ publishers' \in [Accounts -> Seq(Accounts)]
      /\ subscribers' \in [Accounts -> Seq(Accounts)]
  BY <1>1, <1>2, <1>3, <1>4, <1>5
<1>8. ASSUME NEW x \in Accounts
      PROVE  /\ OneEach(publishers'[x]) /\ Distinct(subscribers'[x])
             /\ \A y : Contains(publishers'[x], y)
                         <=> Contains(publishers[x], y) /\ ~(x = s /\ y = p)
             /\ \A y : Contains(subscribers'[x], y)
                         <=> Contains(subscribers[x], y) /\ ~(x = p /\ y = s)
  <2>1. OneEach(publishers[x]) /\ Distinct(subscribers[x])
    BY EachVector
  <2>2. QED
    BY <1>4, <1>5, <1>6, <2>1, Zenon
<1>9. QED
  BY <1>1, <1>2, <1>6, <1>7, <1>8 DEF Unlinks

\* It keeps the invariant; AccountMain never calls it.
LEMMA UnsubscribeKeepsInv ==
  ASSUME CentreInv, NEW s \in Accounts \ {Main}, NEW id, Unsubscribe(s, id)
  PROVE  CentreInv'
<1>0. PICK p \in Accounts : Unlinks(s, p)
  BY UnsubscribeFacts
<1>1. /\ Contains(publishers[s], p) /\ s \in alive
      /\ publishers' \in [Accounts -> Seq(Accounts)]
      /\ subscribers' \in [Accounts -> Seq(Accounts)]
      /\ \A x \in Accounts : OneEach(publishers'[x]) /\ Distinct(subscribers'[x])
      /\ \A x \in Accounts : \A y :
           Contains(publishers'[x], y) <=> Contains(publishers[x], y) /\ ~(x = s /\ y = p)
      /\ \A x \in Accounts : \A y :
           Contains(subscribers'[x], y) <=> Contains(subscribers[x], y) /\ ~(x = p /\ y = s)
      /\ \A x \in Accounts : x # s => publishers'[x] = publishers[x]
      /\ \A x \in Accounts : x # p => subscribers'[x] = subscribers[x]
  BY <1>0 DEF Unlinks
<1>2. p \in alive
  BY <1>1, EachVector, PoolFacts
<1>3. alive' = alive /\ pool' = pool /\ timer' = timer
  BY DEF Unsubscribe
<1>4. CentreTypeOK'
  BY <1>1, <1>3 DEF CentreInv, CentreTypeOK
<1>5. PoolFits'
  BY <1>1, <1>3, MainAssumption DEF CentreInv, PoolFits
<1>6. DeadHaveNothing'
  BY <1>1, <1>2, <1>3 DEF CentreInv, DeadHaveNothing
<1>7. SidesAgree'
  BY <1>1, <1>3 DEF CentreInv, SidesAgree
<1>8. QED
  BY <1>4, <1>5, <1>6, <1>7 DEF CentreInv

\* Account::Account: outside the pool, in it with the ID of AccountMain, or in it and
\* followed by AccountMain.
LEMMA NewFacts ==
  ASSUME CentreInv, NEW a \in Accounts, New(a)
  PROVE  /\ a \notin alive /\ alive' = alive \cup {a}
         /\ timer' = [timer EXCEPT ![a] = "none"]
         /\ \/ UNCHANGED <<pool, publishers, subscribers>>
            \/ /\ pool' = Append(pool, a) /\ \A b : Contains(pool, b) => Id[b] # Id[a]
               /\ \/ UNCHANGED <<publishers, subscribers>> /\ Id[a] = Id[Main]
                  \/ Link(Main, a) /\ \A b : Contains(publishers[Main], b) => Id[b] # Id[a]
<1>1. a \notin alive /\ alive' = alive \cup {a} /\ timer' = [timer EXCEPT ![a] = "none"]
  BY DEF New, ClearPriv
<1>2. CASE ~Addable(Id[a])
  BY <1>1, <1>2 DEF New
<1>3. CASE Addable(Id[a])
  <2>1. \A b : Contains(pool, b) => Id[b] # Id[a]
    <3>1. Find(pool, Id[a]) = {}
      BY <1>3 DEF Addable, SearchAccount
    <3>2. ASSUME NEW b, Contains(pool, b), Id[b] = Id[a] PROVE FALSE
      <4>1. Find(pool, Id[a]) = {b}
        BY <3>2, PoolFacts, FindFacts, Zenon
      <4>2. QED
        BY <3>1, <4>1
    <3>3. QED
      BY <3>2
  <2>2. pool' = Append(pool, a)
    BY <1>3 DEF New
  <2>3. pool' \in Seq(Accounts) /\ OneEach(pool') /\ Contains(pool', a)
    BY <2>1, <2>2, PoolFacts, AppendFacts, Zenon
  <2>4. \A b : Contains(publishers[Main], b) => Id[b] # Id[a]
    BY <2>1, MainAssumption, EachVector
  <2>5. CASE Id[a] = Id[Main]
    <3>1. Subscribable(Main, Id[a], pool') = {}
      BY <2>5 DEF Subscribable
    <3>2. QED
      BY <1>1, <1>3, <2>1, <2>2, <2>5, <3>1 DEF New
  <2>6. CASE Id[a] # Id[Main]
    <3>1. Subscribable(Main, Id[a], pool') = {a}
      <4>1. PICK vec \in Seq(Accounts) : vec = pool'
        BY <2>3
      <4>2. OneEach(vec) /\ Contains(vec, a)
        BY <2>3, <4>1
      <4>3. \A p : Contains(vec, p) /\ Id[p] = Id[a] => Subscribable(Main, Id[a], vec) = {p}
        BY <2>4, <2>6, <4>2, MainAssumption, SubscribableFacts
      <4>4. QED
        BY <4>1, <4>2, <4>3, Zenon
    <3>2. Link(Main, a)
      BY <1>3, <3>1 DEF New
    <3>3. QED
      BY <1>1, <2>1, <2>2, <2>4, <3>2
  <2>7. QED
    BY <2>5, <2>6
<1>4. QED
  BY <1>2, <1>3

\* It keeps the invariant.
LEMMA NewKeepsInv ==
  ASSUME CentreInv, NEW a \in Accounts, New(a)
  PROVE  CentreInv'
<1>1. a \notin alive /\ alive' = alive \cup {a} /\ timer' = [timer EXCEPT ![a] = "none"]
  BY NewFacts
<1>2. a # Main /\ ~Contains(pool, a) /\ alive \subseteq Accounts
  BY <1>1, PoolFacts
<1>3. /\ timer' \in [Accounts -> TimerState] /\ alive' \subseteq Accounts /\ Main \in alive'
      /\ \A x \in Accounts \ alive' : timer'[x] = "none" /\ x # a /\ x \in Accounts \ alive
  BY <1>1, <1>2, PoolFacts DEF CentreInv, CentreTypeOK, DeadHaveNothing, TimerState
<1>4. CASE UNCHANGED <<pool, publishers, subscribers>>
  <2>1. pool' = pool /\ publishers' = publishers /\ subscribers' = subscribers
    BY <1>4
  <2>2. CentreTypeOK'
    BY <1>3, <2>1 DEF CentreInv, CentreTypeOK
  <2>3. PoolFits' /\ DeadHaveNothing' /\ SidesAgree'
    BY <1>1, <1>3, <2>1 DEF CentreInv, PoolFits, DeadHaveNothing, SidesAgree
  <2>4. QED
    BY <2>2, <2>3 DEF CentreInv
<1>5. ASSUME pool' = Append(pool, a), \A b : Contains(pool, b) => Id[b] # Id[a]
      PROVE  /\ pool' \in Seq(Accounts) /\ OneEach(pool')
             /\ \A b : Contains(pool', b) <=> Contains(pool, b) \/ b = a
  BY <1>5, PoolFacts, AppendFacts, Zenon
<1>6. CASE /\ pool' = Append(pool, a) /\ \A b : Contains(pool, b) => Id[b] # Id[a]
           /\ UNCHANGED <<publishers, subscribers>> /\ Id[a] = Id[Main]
  <2>1. /\ publishers' = publishers /\ subscribers' = subscribers
        /\ pool' \in Seq(Accounts) /\ OneEach(pool')
        /\ \A b : Contains(pool', b) <=> Contains(pool, b) \/ b = a
    BY <1>5, <1>6
  <2>2. CentreTypeOK'
    BY <1>3, <2>1 DEF CentreInv, CentreTypeOK
  <2>3. PoolFits'
    BY <1>1, <1>2, <1>3, <1>6, <2>1 DEF CentreInv, PoolFits
  <2>4. DeadHaveNothing' /\ SidesAgree'
    BY <1>3, <2>1 DEF CentreInv, DeadHaveNothing, SidesAgree
  <2>5. QED
    BY <2>2, <2>3, <2>4 DEF CentreInv
<1>7. CASE /\ pool' = Append(pool, a) /\ \A b : Contains(pool, b) => Id[b] # Id[a]
           /\ Link(Main, a) /\ \A b : Contains(publishers[Main], b) => Id[b] # Id[a]
  <2>1. /\ pool' \in Seq(Accounts) /\ OneEach(pool')
        /\ \A b : Contains(pool', b) <=> Contains(pool, b) \/ b = a
    BY <1>5, <1>7
  <2>2. /\ publishers' \in [Accounts -> Seq(Accounts)]
        /\ subscribers' \in [Accounts -> Seq(Accounts)]
        /\ \A x \in Accounts : OneEach(publishers'[x]) /\ Distinct(subscribers'[x])
        /\ \A x \in Accounts : \A y :
             Contains(publishers'[x], y) <=> Contains(publishers[x], y) \/ (x = Main /\ y = a)
        /\ \A x \in Accounts : \A y :
             Contains(subscribers'[x], y) <=> Contains(subscribers[x], y) \/ (x = a /\ y = Main)
        /\ \A x \in Accounts : x # Main => publishers'[x] = publishers[x]
        /\ \A x \in Accounts : x # a => subscribers'[x] = subscribers[x]
    <3>1. Link(Main, a) /\ \A b : Contains(publishers[Main], b) => Id[b] # Id[a]
      BY <1>7
    <3>2. QED
      BY ONLY CentreInv, a \in Accounts, <3>1, MainAssumption, LinkFacts, Zenon
  <2>3. CentreTypeOK'
    BY <1>3, <2>1, <2>2 DEF CentreInv, CentreTypeOK
  <2>4. PoolFits'
    BY <1>1, <1>2, <1>3, <2>1, <2>2, MainAssumption DEF CentreInv, PoolFits
  <2>5. DeadHaveNothing'
    BY <1>3, <2>2 DEF CentreInv, DeadHaveNothing
  <2>6. SidesAgree'
    BY <2>1, <2>2, MainAssumption DEF CentreInv, SidesAgree
  <2>7. QED
    BY <2>3, <2>4, <2>5, <2>6 DEF CentreInv
<1>8. QED
  BY <1>4, <1>6, <1>7, NewFacts

\* Account::~Account with up to two followers takes the account out of every vector.
LEMMA DeleteFacts ==
  ASSUME CentreInv, MaxFollowers <= 2, NEW a \in Accounts, Delete(a)
  PROVE  /\ a \in alive \ {Main} /\ alive' = alive \ {a}
         /\ timer' = [timer EXCEPT ![a] = "none"]
         /\ pool' \in Seq(Accounts) /\ OneEach(pool')
         /\ \A b : Contains(pool', b) <=> Contains(pool, b) /\ b # a
         /\ publishers' \in [Accounts -> Seq(Accounts)]
         /\ subscribers' \in [Accounts -> Seq(Accounts)]
         /\ \A x \in Accounts : OneEach(publishers'[x]) /\ Distinct(subscribers'[x])
         /\ \A x \in Accounts : \A y :
              Contains(publishers'[x], y) <=> Contains(publishers[x], y) /\ a \notin {x, y}
         /\ \A x \in Accounts : \A y :
              Contains(subscribers'[x], y) <=> Contains(subscribers[x], y) /\ a \notin {x, y}
         /\ publishers'[a] = <<>> /\ subscribers'[a] = <<>>
         /\ \A x \in Accounts : publishers[x] = <<>> => publishers'[x] = <<>>
         /\ \A x \in Accounts : subscribers[x] = <<>> => subscribers'[x] = <<>>
<1>1. /\ a \in alive \ {Main} /\ alive' = alive \ {a} /\ timer' = [timer EXCEPT ![a] = "none"]
      /\ pool' = VecRemove(pool, a) /\ Len(subscribers[a]) <= MaxFollowers
      /\ publishers' = [AfterUnfollow(a) EXCEPT ![a] = <<>>]
      /\ subscribers' = [p \in Accounts |->
           IF p = a THEN <<>>
           ELSE IF Contains(publishers[a], p) THEN VecRemove(subscribers[p], a)
           ELSE subscribers[p]]
  BY DEF Delete
<1>2. Len(subscribers[a]) <= 2
  <2>1. subscribers[a] \in Seq(Accounts)
    BY EachVector
  <2>2. Len(subscribers[a]) \in Nat
    BY <2>1
  <2>3. QED
    BY <1>1, <2>2, MaxFollowersAssumption
<1>3. AfterUnfollow(a) = [s \in Accounts |-> VecRemove(publishers[s], a)]
  BY <1>2, UnfollowFacts
<1>4. /\ pool' \in Seq(Accounts) /\ OneEach(pool')
      /\ \A b : Contains(pool', b) <=> Contains(pool, b) /\ b # a
  BY <1>1, PoolFacts, RemoveFacts, Zenon
<1>5. ASSUME NEW x \in Accounts
      PROVE  /\ publishers'[x] = IF x = a THEN <<>> ELSE VecRemove(publishers[x], a)
             /\ subscribers'[x] = IF x = a THEN <<>>
                                  ELSE IF Contains(publishers[a], x)
                                  THEN VecRemove(subscribers[x], a) ELSE subscribers[x]
  BY <1>1, <1>3
<1>6. ASSUME NEW x \in Accounts
      PROVE  /\ publishers'[x] \in Seq(Accounts) /\ OneEach(publishers'[x])
             /\ publishers[x] = <<>> => publishers'[x] = <<>>
             /\ \A y : Contains(publishers'[x], y)
                         <=> Contains(publishers[x], y) /\ a \notin {x, y}
  <2>1. CASE x = a
    <3>1. publishers'[x] = <<>>
      BY <1>5, <2>1
    <3>2. QED
      BY <2>1, <3>1, VectorFacts
  <2>2. CASE x # a
    <3>1. publishers'[x] = VecRemove(publishers[x], a)
      BY <1>5, <2>2
    <3>2. /\ VecRemove(publishers[x], a) \in Seq(Accounts)
          /\ OneEach(VecRemove(publishers[x], a))
          /\ \A y : Contains(VecRemove(publishers[x], a), y)
                      <=> Contains(publishers[x], y) /\ y # a
          /\ ~Contains(publishers[x], a) => VecRemove(publishers[x], a) = publishers[x]
      BY EachVector, RemoveFacts, Zenon
    <3>3. QED
      BY <2>2, <3>1, <3>2, VectorFacts
  <2>3. QED
    BY <2>1, <2>2
<1>7. ASSUME NEW x \in Accounts
      PROVE  /\ subscribers'[x] \in Seq(Accounts) /\ Distinct(subscribers'[x])
             /\ subscribers[x] = <<>> => subscribers'[x] = <<>>
             /\ \A y : Contains(subscribers'[x], y)
                         <=> Contains(subscribers[x], y) /\ a \notin {x, y}
  <2>1. CASE x = a
    <3>1. subscribers'[x] = <<>>
      BY <1>5, <2>1
    <3>2. QED
      BY <2>1, <3>1, VectorFacts
  <2>2. CASE x # a
    <3>1. Contains(publishers[a], x) <=> Contains(subscribers[x], a)
      BY DEF CentreInv, SidesAgree
    <3>2. /\ VecRemove(subscribers[x], a) \in Seq(Accounts)
          /\ Distinct(VecRemove(subscribers[x], a))
          /\ \A y : Contains(VecRemove(subscribers[x], a), y)
                      <=> Contains(subscribers[x], y) /\ y # a
          /\ ~Contains(subscribers[x], a) => VecRemove(subscribers[x], a) = subscribers[x]
      BY EachVector, RemoveFacts, Zenon
    <3>3. subscribers'[x] = VecRemove(subscribers[x], a)
      BY <1>5, <2>2, <3>1, <3>2
    <3>4. QED
      BY <2>2, <3>2, <3>3, VectorFacts
  <2>3. QED
    BY <2>1, <2>2
<1>8. /\ publishers' \in [Accounts -> Seq(Accounts)]
      /\ subscribers' \in [Accounts -> Seq(Accounts)]
  <2>1. /\ publishers' = [x \in Accounts |-> publishers'[x]]
        /\ subscribers' = [x \in Accounts |-> subscribers'[x]]
    BY <1>1, <1>3
  <2>2. QED
    BY <1>6, <1>7, <2>1
<1>9. publishers'[a] = <<>> /\ subscribers'[a] = <<>>
  BY <1>5
<1>10. QED
  BY <1>1, <1>4, <1>6, <1>7, <1>8, <1>9

\* It keeps the invariant.
LEMMA DeleteKeepsInv ==
  ASSUME CentreInv, MaxFollowers <= 2, NEW a \in Accounts, Delete(a)
  PROVE  CentreInv'
<1>1. /\ a \in alive \ {Main} /\ alive' = alive \ {a}
      /\ timer' = [timer EXCEPT ![a] = "none"]
      /\ pool' \in Seq(Accounts) /\ OneEach(pool')
      /\ publishers' \in [Accounts -> Seq(Accounts)]
      /\ subscribers' \in [Accounts -> Seq(Accounts)]
  BY DeleteFacts
<1>2. /\ \A b : Contains(pool', b) <=> Contains(pool, b) /\ b # a
      /\ \A x \in Accounts : \A y :
           Contains(publishers'[x], y) <=> Contains(publishers[x], y) /\ a \notin {x, y}
  BY DeleteFacts
<1>3. CentreTypeOK'
  BY <1>1 DEF CentreInv, CentreTypeOK, TimerState
<1>4. PoolFits'
  BY <1>1, <1>2, MainAssumption DEF CentreInv, PoolFits
<1>5. DeadHaveNothing'
  BY DeleteFacts DEF CentreInv, CentreTypeOK, DeadHaveNothing
<1>6. SidesAgree'
  BY DeleteFacts DEF CentreInv, SidesAgree
<1>7. QED
  BY <1>3, <1>4, <1>5, <1>6 DEF CentreInv

\* The timer of an account.
LEMMA TimerKeepsInv ==
  ASSUME CentreInv, NEW a \in Accounts, NEW on, SetTimerPeriod(a, on) \/ SetTimerEnable(a, on)
  PROVE  CentreInv' /\ UNCHANGED <<alive, pool, publishers, subscribers>>
<1>1. /\ a \in alive
      /\ alive' = alive /\ pool' = pool /\ publishers' = publishers /\ subscribers' = subscribers
      /\ \E t \in TimerState : timer' = [timer EXCEPT ![a] = t]
  BY DEF SetTimerPeriod, SetTimerEnable, TimerState
<1>2. CentreTypeOK' /\ DeadHaveNothing'
  BY <1>1 DEF CentreInv, CentreTypeOK, DeadHaveNothing
<1>3. PoolFits' /\ SidesAgree'
  BY <1>1 DEF CentreInv, PoolFits, SidesAgree
<1>4. QED
  BY <1>1, <1>2, <1>3 DEF CentreInv

\* Every step keeps the invariant.
LEMMA NextCentreInv ==
  ASSUME MaxFollowers <= 2, CentreInv, [CentreNext]_centreVars
  PROVE  CentreInv'
<1>1. CASE UNCHANGED centreVars
  BY <1>1 DEF centreVars, CentreInv, CentreTypeOK, PoolFits, DeadHaveNothing, SidesAgree
<1>2. ASSUME NEW a \in Accounts, New(a) \/ Delete(a) PROVE CentreInv'
  BY <1>2, NewKeepsInv, DeleteKeepsInv
<1>3. ASSUME NEW s \in Accounts, NEW p \in Accounts, Subscribe(s, Id[p]) PROVE CentreInv'
  BY <1>3, SubscribeKeepsInv
<1>4. ASSUME NEW s \in Accounts \ {Main}, NEW p \in Accounts, Unsubscribe(s, Id[p])
      PROVE  CentreInv'
  BY <1>4, UnsubscribeKeepsInv
<1>5. ASSUME NEW a \in Accounts, NEW b \in BOOLEAN, SetTimerPeriod(a, b) \/ SetTimerEnable(a, b)
      PROVE  CentreInv'
  BY <1>5, TimerKeepsInv
<1>6. QED
  BY <1>1, <1>2, <1>3, <1>4, <1>5 DEF CentreNext

\* The invariant always holds.
LEMMA AlwaysCentreInv ==
  ASSUME MaxFollowers <= 2
  PROVE  CentreSpec => []CentreInv
<1>1. CentreInv /\ [CentreNext]_centreVars => CentreInv'
  BY NextCentreInv
<1>2. QED
  BY <1>1, InitCentreInv, PTL DEF CentreSpec

\* Whatever order accounts are created, followed and deleted in, no vector, pool entry or
\* timer of Account.cpp points to freed memory, and the two sides of a subscription agree.
THEOREM VectorsAlwaysAgree ==
  ASSUME MaxFollowers <= 2
  PROVE  CentreSpec => []VectorsAgree
<1>1. CentreInv => VectorsAgree
  <2> SUFFICES ASSUME CentreInv PROVE VectorsAgree
    OBVIOUS
  <2>1. CentreTypeOK
    BY DEF CentreInv
  <2>2. ToSet(pool) \subseteq alive
    BY PoolFacts, VectorFacts
  <2>3. ASSUME NEW a \in Accounts
        PROVE  /\ ToSet(publishers[a]) \subseteq alive /\ ToSet(subscribers[a]) \subseteq alive
               /\ timer[a] # "none" => a \in alive
    <3>1. \A b \in ToSet(publishers[a]) : b \in alive
      BY EachVector, PoolFacts, VectorFacts
    <3>2. ASSUME NEW b \in ToSet(subscribers[a]), b \notin alive PROVE FALSE
      <4>1. b \in Accounts /\ Contains(publishers[b], a)
        BY EachVector, VectorFacts DEF CentreInv, SidesAgree
      <4>2. publishers[b] = <<>>
        BY <3>2, <4>1 DEF CentreInv, DeadHaveNothing
      <4>3. QED
        BY <4>1, <4>2, VectorFacts
    <3>3. timer[a] # "none" => a \in alive
      BY DEF CentreInv, DeadHaveNothing
    <3>4. QED
      BY <3>1, <3>2, <3>3
  <2>4. ASSUME NEW a \in Accounts
        PROVE  /\ \A b \in Accounts : Contains(publishers[a], b) <=> Contains(subscribers[b], a)
               /\ IsInjective([i \in DOMAIN publishers[a] |-> Id[publishers[a][i]]])
               /\ IsInjective(subscribers[a])
    <3>1. \A b \in Accounts : Contains(publishers[a], b) <=> Contains(subscribers[b], a)
      BY DEF CentreInv, SidesAgree
    <3>2. /\ IsInjective([i \in DOMAIN publishers[a] |-> Id[publishers[a][i]]])
          /\ IsInjective(subscribers[a])
      BY EachVector, VectorFacts
    <3>3. QED
      BY <3>1, <3>2
  <2>5. NoDangling
    BY <2>1, <2>2, <2>3 DEF NoDangling, CentreTypeOK
  <2>6. ListsAgree
    BY <2>1, <2>4 DEF ListsAgree, CentreTypeOK
  <2>7. QED
    BY <2>1, <2>5, <2>6 DEF VectorsAgree
<1>2. QED
  BY <1>1, AlwaysCentreInv, PTL

\* AccountMain follows every account of the pool with another ID than its own, and an ID
\* leads to one account at most, although AddAccount and Subscribe refuse IDs.
THEOREM MainAlwaysFollowsPool ==
  ASSUME MaxFollowers <= 2
  PROVE  CentreSpec => []MainFollowsPool
<1>1. CentreInv => MainFollowsPool
  <2> SUFFICES ASSUME CentreInv PROVE MainFollowsPool
    OBVIOUS
  <2>1. IsInjective([i \in DOMAIN pool |-> Id[pool[i]]])
    BY PoolFacts, VectorFacts
  <2>2. ASSUME NEW a \in ToSet(pool), Id[a] # Id[Main] PROVE Contains(publishers[Main], a)
    <3>1. Contains(pool, a) /\ a \in Accounts
      BY PoolFacts, VectorFacts
    <3>2. QED
      BY <2>2, <3>1 DEF CentreInv, PoolFits
  <2>3. QED
    BY <2>1, <2>2 DEF MainFollowsPool
<1>2. QED
  BY <1>1, AlwaysCentreInv, PTL

\* The relation of FollowGraph read off the publishers alone.
PairsFit ==
  \A e : e \in followPairs
           <=> \E s, p \in Accounts : e = <<s, p>> /\ Contains(publishers[s], p)

\* It can be: an account that is not alive has no publishers.
LEMMA FollowPairs == CentreInv => PairsFit
<1> SUFFICES ASSUME CentreInv PROVE PairsFit
  OBVIOUS
<1>1. ASSUME NEW e \in followPairs
      PROVE  \E s, p \in Accounts : e = <<s, p>> /\ Contains(publishers[s], p)
  <2>1. PICK s \in alive : e \in {<<s, p>> : p \in ToSet(publishers[s])}
    BY DEF followPairs
  <2>2. s \in Accounts
    BY PoolFacts
  <2>3. PICK p \in ToSet(publishers[s]) : e = <<s, p>>
    BY <2>1
  <2>4. Contains(publishers[s], p) /\ p \in Accounts
    BY <2>2, EachVector, VectorFacts
  <2>5. QED
    BY <2>2, <2>3, <2>4
<1>2. ASSUME NEW s \in Accounts, NEW p \in Accounts, Contains(publishers[s], p)
      PROVE  <<s, p>> \in followPairs
  <2>1. s \in alive
    BY <1>2, VectorFacts DEF CentreInv, DeadHaveNothing
  <2>2. p \in ToSet(publishers[s])
    BY <1>2, EachVector, VectorFacts
  <2>3. QED
    BY <2>1, <2>2 DEF followPairs
<1>3. QED
  BY <1>1, <1>2 DEF PairsFit

\* The same after a step.
LEMMA NextFollowPairs == CentreInv' => PairsFit'
BY FollowPairs, PTL

\* A step that leaves the vectors alone leaves the relation alone.
LEMMA SamePairs ==
  ASSUME CentreInv, CentreInv', publishers' = publishers
  PROVE  followPairs' = followPairs
<1>1. /\ \A e : e \in followPairs
                  <=> \E s, p \in Accounts : e = <<s, p>> /\ Contains(publishers[s], p)
      /\ \A e : e \in followPairs'
                  <=> \E s, p \in Accounts : e = <<s, p>> /\ Contains(publishers'[s], p)
  BY FollowPairs, NextFollowPairs DEF PairsFit
<1>2. \A e : e \in followPairs' <=> e \in followPairs
  BY <1>1
<1>3. QED
  BY <1>2

\* A subscription adds its pair.
LEMMA OneMorePair ==
  ASSUME NEW s \in Accounts, NEW p \in Accounts, CentreInv, CentreInv', Link(s, p),
         \A b : Contains(publishers[s], b) => Id[b] # Id[p]
  PROVE  followPairs' = followPairs \cup {<<s, p>>}
<1>1. /\ \A e : e \in followPairs
                  <=> \E x, y \in Accounts : e = <<x, y>> /\ Contains(publishers[x], y)
      /\ \A e : e \in followPairs'
                  <=> \E x, y \in Accounts : e = <<x, y>> /\ Contains(publishers'[x], y)
  BY FollowPairs, NextFollowPairs DEF PairsFit
<1>2. \A x \in Accounts : \A y :
        Contains(publishers'[x], y) <=> Contains(publishers[x], y) \/ (x = s /\ y = p)
  BY LinkFacts
<1>3. \A e : e \in followPairs' <=> e \in followPairs \/ e = <<s, p>>
  BY <1>1, <1>2
<1>4. QED
  BY <1>3

\* Every step of the data centre is a step of the abstract graph or leaves it alone.
LEMMA StepImplementsGraph ==
  ASSUME MaxFollowers <= 2, CentreInv, CentreInv', [CentreNext]_centreVars
  PROVE  [Graph!Next]_<<alive, followPairs>>
<1>1. CASE UNCHANGED centreVars
  BY <1>1, SamePairs DEF centreVars
<1>2. ASSUME NEW a \in Accounts, New(a) PROVE Graph!Appear(a)
  <2>1. CASE publishers' = publishers
    BY <1>2, <2>1, NewFacts, SamePairs DEF Graph!Appear
  <2>2. CASE Link(Main, a) /\ \A b : Contains(publishers[Main], b) => Id[b] # Id[a]
    BY <1>2, <2>2, MainAssumption, NewFacts, OneMorePair DEF Graph!Appear
  <2>3. QED
    BY <1>2, <2>1, <2>2, NewFacts
<1>3. ASSUME NEW a \in Accounts, Delete(a) PROVE Graph!Disappear(a)
  <2>1. /\ \A e : e \in followPairs
                    <=> \E x, y \in Accounts : e = <<x, y>> /\ Contains(publishers[x], y)
        /\ \A e : e \in followPairs'
                    <=> \E x, y \in Accounts : e = <<x, y>> /\ Contains(publishers'[x], y)
    BY FollowPairs, NextFollowPairs DEF PairsFit
  <2>2. /\ a \in alive \ {Main} /\ alive' = alive \ {a}
        /\ \A x \in Accounts : \A y :
             Contains(publishers'[x], y) <=> Contains(publishers[x], y) /\ a \notin {x, y}
    BY <1>3, DeleteFacts
  <2>3. \A e : e \in followPairs' <=> e \in followPairs /\ a \notin {e[1], e[2]}
    BY <2>1, <2>2
  <2>4. followPairs' = {e \in followPairs : a \notin {e[1], e[2]}}
    BY <2>3
  <2>5. QED
    BY <2>2, <2>4 DEF Graph!Disappear
<1>4. ASSUME NEW s \in Accounts, NEW id, Subscribe(s, id)
      PROVE  \E p \in Accounts : Graph!Follow(s, p)
  <2>1. PICK p \in Accounts : s \in alive /\ p \in alive /\ s # p /\ Contains(pool, p)
                              /\ Link(s, p) /\ \A b : Contains(publishers[s], b) => Id[b] # Id[p]
    BY <1>4, SubscribeFacts
  <2>2. followPairs' = followPairs \cup {<<s, p>>}
    BY <2>1, OneMorePair
  <2>3. alive' = alive
    BY <1>4 DEF Subscribe
  <2>4. QED
    BY <2>1, <2>2, <2>3 DEF Graph!Follow
<1>5. ASSUME NEW s \in Accounts, NEW id, Unsubscribe(s, id)
      PROVE  \E p \in Accounts : Graph!Unfollow(s, p)
  <2>0. PICK p \in Accounts : Unlinks(s, p)
    BY <1>5, UnsubscribeFacts
  <2>1. /\ Contains(publishers[s], p)
        /\ \A x \in Accounts : \A y :
             Contains(publishers'[x], y) <=> Contains(publishers[x], y) /\ ~(x = s /\ y = p)
    BY <2>0 DEF Unlinks
  <2>2. /\ \A e : e \in followPairs
                    <=> \E x, y \in Accounts : e = <<x, y>> /\ Contains(publishers[x], y)
        /\ \A e : e \in followPairs'
                    <=> \E x, y \in Accounts : e = <<x, y>> /\ Contains(publishers'[x], y)
    BY FollowPairs, NextFollowPairs DEF PairsFit
  <2>3. \A e : e \in followPairs' <=> e \in followPairs /\ e # <<s, p>>
    BY <2>1, <2>2
  <2>4. followPairs' = followPairs \ {<<s, p>>} /\ <<s, p>> \in followPairs
    BY <2>1, <2>2, <2>3
  <2>5. alive' = alive
    BY <1>5 DEF Unsubscribe
  <2>6. QED
    BY <2>4, <2>5 DEF Graph!Unfollow
<1>6. ASSUME NEW a \in Accounts, NEW b, SetTimerPeriod(a, b) \/ SetTimerEnable(a, b)
      PROVE  UNCHANGED <<alive, followPairs>>
  BY <1>6, TimerKeepsInv, SamePairs
<1>7. QED
  BY <1>1, <1>2, <1>3, <1>4, <1>5, <1>6 DEF CentreNext, Graph!Next

\* The vectors of Account.cpp implement the abstract graph: deleting an account ends every
\* subscription it was part of, and nothing else changes who follows whom behind its back.
THEOREM CentreImplements ==
  ASSUME MaxFollowers <= 2
  PROVE  CentreSpec => ImplementsFollowGraph
<1>1. CentreInit => Graph!Init
  <2> SUFFICES ASSUME CentreInit PROVE Graph!Init
    OBVIOUS
  <2>1. \A e : e \notin followPairs
    BY InitCentreInv, FollowPairs, VectorFacts DEF CentreInit, PairsFit
  <2>2. QED
    BY <2>1 DEF CentreInit, Graph!Init
<1>2. CentreInv /\ CentreInv' /\ [CentreNext]_centreVars => [Graph!Next]_<<alive, followPairs>>
  BY StepImplementsGraph
<1>3. QED
  BY <1>1, <1>2, AlwaysCentreInv, PTL DEF CentreSpec, ImplementsFollowGraph, Graph!Spec
=============================================================================
