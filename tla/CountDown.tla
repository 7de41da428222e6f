------------------------------ MODULE CountDown ------------------------------
(***************************************************************************)
(* The count-down application (count_down_app/timercount/ui_control.c).    *)
(* Three tasks share its globals without a lock:                           *)
(*   - the LVGL task runs the click handlers start_ok and clear_ok;        *)
(*   - OS_Thread_EventReceiverOR waits for the two event bits and starts   *)
(*     or stops the software timer;                                        *)
(*   - Swt_Task, the kernel's timer task, runs Timer1_Callback for every   *)
(*     expiry the tick interrupt has queued.                               *)
(* The receiver is created with priority 0 (attr = {0}), as Swt_Task is,   *)
(* so these two interleave by time slicing, while the LVGL task executes   *)
(* only when both are blocked.                                             *)
(***************************************************************************)
EXTENDS Integers

CONSTANTS Picks,       \* the times <<min, sec>> the user rolls to
          MaxBacklog,  \* bound: expiries the interrupt queues before Swt_Task runs
          MaxCount     \* bound: value of g_timerCount1 at which the clock stops

ASSUME BoundAssumption == /\ MaxBacklog \in Nat \ {0}
                          /\ MaxCount \in Nat \ {0}
                          /\ MaxCount + MaxBacklog < 2147483647  \* counted in a UINT32
                          /\ Picks \subseteq (0..10) \X (0..59)

FLAGS_MSK1 == 1
FLAGS_MSK2 == 2

Event == INSTANCE EventFlags WITH Bits <- {FLAGS_MSK1, FLAGS_MSK2}, ErrBit <- 25

BT_WAIT     == 0
BT_START    == 1
BT_PAUSE    == 2
BT_CONTINUE == 3

VARIABLES
  button_status, \* what the next click on the start button continues from
  rollers,       \* <<min, sec>> selected in ui_MinTime and ui_SecTime
  ui_TimeID,     \* the globals <<ui_MinTimeID, ui_SecTimeID>>
  countTime,     \* total seconds of this count-down
  g_timerCount1, \* seconds counted so far
  loaded,        \* the register in which Timer1_Callback holds g_timerCount1
  lateExpiry,    \* history: an expiry was still to be counted at the last reset
  swtmr,         \* ucState of the timer g_timerId1
  handlerQueue,  \* expiries waiting in g_swtmrHandlerQueue
  uwEventID,     \* bits of g_event
  ui, rx, cb     \* where the LVGL task, the receiver and Swt_Task are

vars == <<button_status, rollers, ui_TimeID, countTime, g_timerCount1, loaded,
          lateExpiry, swtmr, handlerQueue, uwEventID, ui, rx, cb>>

data == <<button_status, rollers, ui_TimeID, countTime, g_timerCount1, loaded, lateExpiry>>

Time == (0..10) \X (0..59)

TypeOK ==
  /\ button_status \in {BT_WAIT, BT_START, BT_PAUSE, BT_CONTINUE}
  /\ rollers \in Time
  /\ ui_TimeID \in Nat \X (0..59)
  /\ countTime \in Int
  /\ g_timerCount1 \in 0..MaxCount + MaxBacklog + 1
  /\ loaded \in 0..MaxCount + MaxBacklog + 1
  /\ lateExpiry \in BOOLEAN
  /\ swtmr \in {"CREATED", "TICKING"}
  /\ handlerQueue \in 0..MaxBacklog
  /\ uwEventID \subseteq {FLAGS_MSK1, FLAGS_MSK2}
  /\ ui \in {"idle", "min", "sec", "total", "send", "pause", "continue", "started",
             "clearSec", "sendClear", "clear"}
  /\ rx \in {"read", "pend", "woken", "stop", "zeroCount", "zeroTime", "delay"}
  /\ cb \in {"wait", "load", "store", "cmp", "timeout", "finish", "minutes", "seconds"}

\* OS_Event_example has run: timer created, receiver ready, rollers untouched.
Init ==
  /\ button_status = BT_WAIT
  /\ rollers = <<0, 0>>
  /\ ui_TimeID = <<0, 0>>
  /\ countTime = 0
  /\ g_timerCount1 = 0
  /\ loaded = 0
  /\ lateExpiry = FALSE
  /\ swtmr = "CREATED"
  /\ handlerQueue = 0
  /\ uwEventID = {}
  /\ ui = "idle"
  /\ rx = "read"
  /\ cb = "wait"

-----------------------------------------------------------------------------
(* The kernel, as far as this program uses it.                             *)

\* Both tasks of priority 0 are blocked: the LVGL task may execute.
LowPriorityRuns == rx \in {"pend", "delay"} /\ cb = "wait" /\ handlerQueue = 0

\* LOS_SwtmrStart and LOS_SwtmrStop; what is already queued stays queued.
LOS_SwtmrStart == swtmr' = "TICKING"
LOS_SwtmrStop  == swtmr' = "CREATED"

\* LOS_EventWrite: the receiver waits for both bits in OR mode.
LOS_EventWrite(bit) ==
  /\ uwEventID' = uwEventID \cup {bit}
  /\ rx' = IF rx = "pend" THEN "woken" ELSE rx

\* The tick interrupt finds the periodic timer expired: one handler item.
TickExpires ==
  /\ swtmr = "TICKING"
  /\ g_timerCount1 < MaxCount
  /\ handlerQueue < MaxBacklog
  /\ handlerQueue' = handlerQueue + 1
  /\ UNCHANGED <<data, swtmr, uwEventID, ui, rx, cb>>

\* The tick interrupt ends the receiver's LOS_TaskDelay(10).
DelayEnds ==
  /\ rx = "delay"
  /\ rx' = "read"
  /\ UNCHANGED <<data, swtmr, handlerQueue, uwEventID, ui, cb>>

\* Expiries that the timer gave before and g_timerCount1 does not hold yet.
ToCount == handlerQueue + (IF cb \in {"load", "store"} THEN 1 ELSE 0)

-----------------------------------------------------------------------------
(* The LVGL task.                                                          *)

\* LVGL delivers a click when its task runs and no handler is active.  Clicks are
\* further apart than the 10 ticks for which the receiver is deaf after an event.
InputArrives == ui = "idle" /\ LowPriorityRuns /\ rx = "pend"

\* The user turns the rollers.
RollTo(time) ==
  /\ ui = "idle" /\ LowPriorityRuns
  /\ rollers' = time
  /\ UNCHANGED <<button_status, ui_TimeID, countTime, g_timerCount1, loaded, swtmr,
                 handlerQueue, uwEventID, ui, rx, cb, lateExpiry>>

\* The case of start_ok for a value of button_status; there is none beyond these.
CaseOf(status) ==
  CASE status = BT_START    -> "min"
    [] status = BT_PAUSE    -> "pause"
    [] status = BT_CONTINUE -> "continue"
    [] OTHER                -> "idle"

\* start_ok increments button_status and switches on it.
StartClick ==
  /\ InputArrives
  /\ button_status' = button_status + 1
  /\ ui' = CaseOf(button_status')
  /\ UNCHANGED <<rollers, ui_TimeID, countTime, g_timerCount1, loaded, swtmr,
                 handlerQueue, uwEventID, rx, cb, lateExpiry>>

\* Mutant: the pause only changes the button.
PauseKeepsTimer ==
  /\ ui = "pause" /\ LowPriorityRuns
  /\ ui' = "idle"
  /\ UNCHANGED <<data, swtmr, handlerQueue, uwEventID, rx, cb>>

\* case BT_PAUSE; a last Timer1_Callback may come before it.
PauseTimer ==
  /\ ui = "pause" /\ LowPriorityRuns
  /\ LOS_SwtmrStop
  /\ ui' = "idle"
  /\ UNCHANGED <<data, handlerQueue, uwEventID, rx, cb>>

\* case BT_CONTINUE: the timer runs before button_status is set back.
ContinueTimer ==
  /\ ui = "continue" /\ LowPriorityRuns
  /\ LOS_SwtmrStart
  /\ ui' = "started"
  /\ UNCHANGED <<data, handlerQueue, uwEventID, rx, cb>>

ContinueStatus ==
  /\ ui = "started" /\ LowPriorityRuns
  /\ button_status' = BT_START
  /\ ui' = "idle"
  /\ UNCHANGED <<rollers, ui_TimeID, countTime, g_timerCount1, loaded, swtmr,
                 handlerQueue, uwEventID, rx, cb, lateExpiry>>

\* The four statements of case BT_START; Timer1_Callback may come in between.
ReadMinutes ==
  /\ ui = "min" /\ LowPriorityRuns
  /\ ui_TimeID' = [ui_TimeID EXCEPT ![1] = rollers[1]]
  /\ ui' = "sec"
  /\ UNCHANGED <<button_status, rollers, countTime, g_timerCount1, loaded, swtmr,
                 handlerQueue, uwEventID, rx, cb, lateExpiry>>

\* Mutant: the seconds are read from the minutes' roller, as in SelectSec.
ReadSecondsOfMinutes ==
  /\ ui = "sec" /\ LowPriorityRuns
  /\ ui_TimeID' = [ui_TimeID EXCEPT ![2] = rollers[1]]
  /\ ui' = "total"
  /\ UNCHANGED <<button_status, rollers, countTime, g_timerCount1, loaded, swtmr,
                 handlerQueue, uwEventID, rx, cb, lateExpiry>>

ReadSeconds ==
  /\ ui = "sec" /\ LowPriorityRuns
  /\ ui_TimeID' = [ui_TimeID EXCEPT ![2] = rollers[2]]
  /\ ui' = "total"
  /\ UNCHANGED <<button_status, rollers, countTime, g_timerCount1, loaded, swtmr,
                 handlerQueue, uwEventID, rx, cb, lateExpiry>>

\* ui_MinTimeID * 60 + ui_SecTimeID in 32 bits: 2^32 = 60 * 71582788 + 16.
TotalOf(min, sec) ==
  IF min <= 35791394 THEN min * 60 + sec ELSE (min - 71582788) * 60 + sec - 16

TotalSeconds ==
  /\ ui = "total" /\ LowPriorityRuns
  /\ countTime' = TotalOf(ui_TimeID[1], ui_TimeID[2])
  /\ ui' = "send"
  /\ UNCHANGED <<button_status, rollers, ui_TimeID, g_timerCount1, loaded, swtmr,
                 handlerQueue, uwEventID, rx, cb, lateExpiry>>

SendStart ==
  /\ ui = "send" /\ LowPriorityRuns
  /\ LOS_EventWrite(FLAGS_MSK1)
  /\ ui' = "idle"
  /\ UNCHANGED <<data, swtmr, handlerQueue, cb>>

\* clear_ok: Timer1_Callback may overwrite a roller before the event is sent,
\* and the write may switch to the receiver before button_status is set.
ClearClick ==
  /\ InputArrives
  /\ rollers' = [rollers EXCEPT ![1] = 0]
  /\ ui' = "clearSec"
  /\ UNCHANGED <<button_status, ui_TimeID, countTime, g_timerCount1, loaded, swtmr,
                 handlerQueue, uwEventID, rx, cb, lateExpiry>>

ClearSeconds ==
  /\ ui = "clearSec" /\ LowPriorityRuns
  /\ rollers' = [rollers EXCEPT ![2] = 10]
  /\ ui' = "sendClear"
  /\ UNCHANGED <<button_status, ui_TimeID, countTime, g_timerCount1, loaded, swtmr,
                 handlerQueue, uwEventID, rx, cb, lateExpiry>>

SendClear ==
  /\ ui = "sendClear" /\ LowPriorityRuns
  /\ LOS_EventWrite(FLAGS_MSK2)
  /\ ui' = "clear"
  /\ UNCHANGED <<data, swtmr, handlerQueue, cb>>

ClearStatus ==
  /\ ui = "clear" /\ LowPriorityRuns
  /\ button_status' = BT_WAIT
  /\ ui' = "idle"
  /\ UNCHANGED <<rollers, ui_TimeID, countTime, g_timerCount1, loaded, swtmr,
                 handlerQueue, uwEventID, rx, cb, lateExpiry>>

-----------------------------------------------------------------------------
(* OS_Thread_EventReceiverOR.                                              *)

ReadMask == {FLAGS_MSK1, FLAGS_MSK2}
ReadMode == {"OR", "CLR"}

\* What the receiver does next with the flags it read: only a single bit is served.
Serves(flags) ==
  IF flags = {FLAGS_MSK1} THEN LOS_SwtmrStart /\ rx' = "delay"
  ELSE /\ UNCHANGED swtmr
       /\ rx' = IF flags = {FLAGS_MSK2} THEN "stop" ELSE "delay"

\* LOS_EventRead, first poll or poll after the wake-up.
ReadEvent ==
  LET flags == Event!Polled(uwEventID, ReadMask, ReadMode)
  IN /\ rx \in {"read", "woken"}
     /\ uwEventID' = Event!AfterPoll(uwEventID, ReadMask, ReadMode)
     /\ \/ rx = "read" /\ flags = {} /\ rx' = "pend" /\ UNCHANGED swtmr
        \/ (rx = "woken" \/ flags # {}) /\ Serves(flags)
     /\ UNCHANGED <<data, handlerQueue, ui, cb>>

\* Mutant: the stop event resets the counters and leaves the timer running.
StopKeepsTimer ==
  /\ rx = "stop"
  /\ rx' = "zeroCount"
  /\ UNCHANGED <<data, swtmr, handlerQueue, uwEventID, ui, cb>>

StopTimer ==
  /\ rx = "stop"
  /\ LOS_SwtmrStop
  /\ rx' = "zeroCount"
  /\ UNCHANGED <<data, handlerQueue, uwEventID, ui, cb>>

ZeroCount ==
  /\ rx = "zeroCount"
  /\ g_timerCount1' = 0
  /\ lateExpiry' = (ToCount > 0)
  /\ rx' = "zeroTime"
  /\ UNCHANGED <<button_status, rollers, ui_TimeID, countTime, loaded, swtmr,
                 handlerQueue, uwEventID, ui, cb>>

ZeroTime ==
  /\ rx = "zeroTime"
  /\ countTime' = 0
  /\ rx' = "delay"
  /\ UNCHANGED <<button_status, rollers, ui_TimeID, g_timerCount1, loaded, swtmr,
                 handlerQueue, uwEventID, ui, cb, lateExpiry>>

-----------------------------------------------------------------------------
(* Swt_Task and Timer1_Callback.                                           *)

\* OsSwtmrTask takes an item; it only checks that the timer still exists.
TakeItem ==
  /\ cb = "wait" /\ handlerQueue > 0
  /\ handlerQueue' = handlerQueue - 1
  /\ cb' = "load"
  /\ UNCHANGED <<data, swtmr, uwEventID, ui, rx>>

\* g_timerCount1++ is a load and a store; the receiver may reset it in between.
LoadCount ==
  /\ cb = "load"
  /\ loaded' = g_timerCount1
  /\ cb' = "store"
  /\ UNCHANGED <<button_status, rollers, ui_TimeID, countTime, g_timerCount1, swtmr,
                 handlerQueue, uwEventID, ui, rx, lateExpiry>>

StoreCount ==
  /\ cb = "store"
  /\ g_timerCount1' = loaded + 1
  /\ loaded' = loaded + 1
  /\ cb' = "cmp"
  /\ UNCHANGED <<button_status, rollers, ui_TimeID, countTime, swtmr,
                 handlerQueue, uwEventID, ui, rx, lateExpiry>>

\* Later reads of g_timerCount1, which is not volatile, come from memory or from
\* the register, as the compiler likes: the two differ after a reset in between.
Counts == {g_timerCount1, loaded}

Compare ==
  /\ cb = "cmp"
  /\ \E count \in Counts : cb' = IF count = countTime THEN "timeout" ELSE "minutes"
  /\ UNCHANGED <<data, swtmr, handlerQueue, uwEventID, ui, rx>>

\* The count-down is over.
TimeOut ==
  /\ cb = "timeout"
  /\ g_timerCount1' = 0
  /\ cb' = "finish"
  /\ UNCHANGED <<button_status, rollers, ui_TimeID, countTime, loaded, swtmr,
                 handlerQueue, uwEventID, ui, rx, lateExpiry>>

\* Mutant: the count-down ends and the timer keeps running.
FinishKeepsTimer ==
  /\ cb = "finish"
  /\ ui_TimeID' = <<0, 0>>
  /\ rollers' = <<0, 0>>
  /\ loaded' = 0
  /\ cb' = "wait"
  /\ UNCHANGED <<button_status, countTime, g_timerCount1, swtmr,
                 handlerQueue, uwEventID, ui, rx, lateExpiry>>

\* The LVGL calls of this branch are one step: the receiver makes none.
Finish ==
  /\ cb = "finish"
  /\ LOS_SwtmrStop
  /\ ui_TimeID' = <<0, 0>>
  /\ rollers' = <<0, 0>>
  /\ loaded' = 0
  /\ cb' = "wait"
  /\ UNCHANGED <<button_status, countTime, g_timerCount1, handlerQueue,
                 uwEventID, ui, rx, lateExpiry>>

\* countTime - g_timerCount1 is a UINT32: below zero it wraps to 2^32 - k, and
\* 2^32 = 60 * 71582788 + 16.
MinutesOf(diff) == IF diff >= 0 THEN diff \div 60 ELSE 71582788 + (16 + diff) \div 60
SecondsOf(diff) == IF diff >= 0 THEN diff % 60 ELSE (16 + diff) % 60

\* lv_roller_set_selected takes a uint16_t; an endless roller repeats its
\* options 7 times, a selection past them becomes the last one.
RollerShows(id, options) ==
  LET sel == id % 65536 IN IF sel < 7 * options THEN sel % options ELSE options - 1

RefreshMinutes ==
  /\ cb = "minutes"
  /\ \E count \in Counts :
       ui_TimeID' = [ui_TimeID EXCEPT ![1] = MinutesOf(countTime - count)]
  /\ cb' = "seconds"
  /\ UNCHANGED <<button_status, rollers, countTime, g_timerCount1, loaded, swtmr,
                 handlerQueue, uwEventID, ui, rx, lateExpiry>>

RefreshSeconds ==
  /\ cb = "seconds"
  /\ \E count \in Counts :
       ui_TimeID' = [ui_TimeID EXCEPT ![2] = SecondsOf(countTime - count)]
  /\ rollers' = <<RollerShows(ui_TimeID'[1], 11), RollerShows(ui_TimeID'[2], 60)>>
  /\ loaded' = 0
  /\ cb' = "wait"
  /\ UNCHANGED <<button_status, countTime, g_timerCount1, swtmr,
                 handlerQueue, uwEventID, ui, rx, lateExpiry>>

-----------------------------------------------------------------------------
User == \/ \E time \in Picks : RollTo(time)
        \/ StartClick \/ ClearClick

Lvgl     == \/ ReadMinutes \/ ReadSeconds \/ TotalSeconds \/ SendStart
            \/ PauseTimer \/ ContinueTimer \/ ContinueStatus
            \/ ClearSeconds \/ SendClear \/ ClearStatus
Receiver == ReadEvent \/ StopTimer \/ ZeroCount \/ ZeroTime
SwtTask  == \/ TakeItem \/ LoadCount \/ StoreCount \/ Compare
            \/ TimeOut \/ Finish \/ RefreshMinutes \/ RefreshSeconds

Next == User \/ Lvgl \/ Receiver \/ SwtTask \/ TickExpires \/ DelayEnds

\* The user may do nothing; the tick interrupt never stops, the two tasks of
\* priority 0 share the processor in time slices, and the LVGL task gets it
\* whenever both are blocked, which they are most of the time.
Fairness == /\ WF_vars(Receiver) /\ WF_vars(SwtTask)
            /\ WF_vars(TickExpires) /\ WF_vars(DelayEnds)
            /\ SF_vars(Lvgl)

Spec == Init /\ [][Next]_vars /\ Fairness

-----------------------------------------------------------------------------
\* Everything a click set in motion has been done.
Settled == ui = "idle" /\ rx = "pend" /\ cb = "wait" /\ handlerQueue = 0

\* A paused count-down stands still: when the button offers to go on
\* (case BT_PAUSE of start_ok), the timer is stopped, no expiry is queued, no
\* callback is half way and no event is left that would start the timer.
PauseFreezes ==
  (button_status = BT_PAUSE /\ ui = "idle") =>
    /\ swtmr = "CREATED" /\ handlerQueue = 0 /\ cb = "wait"
    /\ FLAGS_MSK1 \notin uwEventID

\* Once a click is served, the timer runs only under a start button that
\* shows Pause; in particular a cleared count-down has stopped.  (All variables
\* keep their types.)
TimerFollowsButton ==
  TypeOK /\ ((Settled /\ swtmr = "TICKING") => button_status = BT_START)

\* A click on the start button counts down from the selected time: when the
\* receiver is about to start the timer, countTime is what the rollers show and
\* nothing has been counted, whatever pauses and clears came before - unless the
\* receiver reset the count while an expiry was still to be counted, which
\* Timer1_Callback then adds, with the count that it held before the reset.
StartTakesRollers ==
  (FLAGS_MSK1 \in uwEventID /\ rx = "woken") =>
    /\ countTime = rollers[1] * 60 + rollers[2]
    /\ g_timerCount1 = 0 \/ lateExpiry

\* While the application waits for a start, the rollers show the initial
\* 00:00, a time the user rolled to, or the 00:10 that clear_ok sets.
WaitShowsUserTime ==
  (Settled /\ button_status = BT_WAIT) => rollers \in Picks \cup {<<0, 0>>, <<0, 10>>}

\* A running count-down that has not passed its end comes to a stop: by
\* Timer1_Callback at zero, or by a click (for times within the bound).
CountDownEnds ==
  (swtmr = "TICKING" /\ g_timerCount1 < countTime /\ countTime <= MaxCount)
     ~> swtmr = "CREATED"
=============================================================================
