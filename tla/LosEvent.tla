------------------------------ MODULE LosEvent ------------------------------
(***************************************************************************)
(* Event flags of the LiteOS-M kernel (kernel/src/los_event.c): tasks read *)
(* a set of bits, blocking until it is written, with a timeout or for      *)
(* ever; tasks and interrupt handlers write and clear bits.                *)
(*                                                                         *)
(* A section under LOS_IntLock is one action, and so are the checks that   *)
(* LOS_EventRead and LOS_EventWrite make before they lock: another task or *)
(* an interrupt may destroy the event in between.  A call that then follows*)
(* the NULL pointers of the destroyed list is a fault, after which nothing *)
(* is modelled.  Which ready task runs next is left open (the scheduler's  *)
(* priorities only remove behaviours), except that nobody else runs while a*)
(* task holds the scheduler lock.  For the same reason stEventList is a    *)
(* set: its order only decides in which order woken tasks become ready.    *)
(***************************************************************************)
EXTENDS EventFlags, FiniteSets, Naturals

CONSTANTS Tasks,        \* the tasks that use the event
          SystemTasks,  \* those with OS_TASK_FLAG_SYSTEM_TASK, such as Swt_Task
          NoTask,       \* nobody
          ReadModes,    \* the modes callers pass to LOS_EventRead, wrong ones included
          MaxWriting    \* bound: different events being written at a time

ASSUME TaskAssumption == SystemTasks \subseteq Tasks /\ NoTask \notin Tasks
ASSUME ModeAssumption == ReadModes \subseteq Modes

VARIABLES uwEventID,     \* the bits that are set
          stEventList,   \* tasks waiting on the event
          inited,        \* the list pointers of the control block are not NULL
          g_losTaskLock, \* the task that locked the scheduler, or NoTask
          taskStatus,    \* per task: in the user's code, past the checks of a read,
                         \* pending, woken, timed out
          wait,          \* per task: the arguments of its LOS_EventRead
          writing,       \* events of the LOS_EventWrite calls, of tasks and of
                         \* interrupts, that are past their checks
          fault,         \* a call has followed the NULL pointers of the list
          robbed,        \* history: woken tasks after whose wake-up bits were taken
          overtaken      \* history: the event was destroyed while a call was
                         \* between its checks and its lock

vars == <<uwEventID, stEventList, inited, g_losTaskLock, taskStatus, wait, writing,
          fault, robbed, overtaken>>

Status   == {"user", "checked", "pend", "woken", "timeout"}
TimeOuts == {"nowait", "ticks", "forever"}
Wait   == [mask : Masks, mode : ReadModes \cup {{}}, timeOut : TimeOuts]
NoWait == [mask |-> {}, mode |-> {}, timeOut |-> "nowait"]

TypeOK ==
  /\ uwEventID \in SUBSET Bits
  /\ stEventList \in SUBSET Tasks
  /\ inited \in BOOLEAN
  /\ g_losTaskLock \in Tasks \cup {NoTask}
  /\ taskStatus \in [Tasks -> Status]
  /\ wait \in [Tasks -> Wait]
  /\ writing \subseteq SUBSET Bits
  /\ fault \in BOOLEAN
  /\ robbed \in SUBSET Tasks
  /\ overtaken \in BOOLEAN

\* LOS_EventInit has run and nobody has used the event yet.
Init ==
  /\ uwEventID = {}
  /\ stEventList = {}
  /\ inited = TRUE
  /\ g_losTaskLock = NoTask
  /\ taskStatus = [t \in Tasks |-> "user"]
  /\ wait = [t \in Tasks |-> NoWait]
  /\ writing = {}
  /\ fault = FALSE
  /\ robbed = {}
  /\ overtaken = FALSE

\* A task executes only while no other task holds the scheduler lock.
CanRun(t) == ~fault /\ g_losTaskLock \in {t, NoTask}

\* History: a step that takes bits away robs every task already woken.
Robs(id) ==
  IF uwEventID \subseteq id
  THEN robbed
  ELSE robbed \cup {t \in Tasks : taskStatus[t] = "woken"}

-----------------------------------------------------------------------------
\* What LOS_EventRead does before it locks: the check of the control block and
\* of the arguments, and the test for a system task.  A call that fails one
\* returns an error and changes nothing; what a call returns is not kept.
LOS_EventRead(t, mask, mode, timeOut) ==
  /\ taskStatus[t] = "user"
  /\ CanRun(t)
  /\ OsEventReadParamCheck(inited, mask, mode) = "OK"
  /\ t \notin SystemTasks
  /\ taskStatus' = [taskStatus EXCEPT ![t] = "checked"]
  /\ wait' = [wait EXCEPT ![t] = [mask |-> mask, mode |-> mode, timeOut |-> timeOut]]
  /\ UNCHANGED <<uwEventID, stEventList, inited, g_losTaskLock, writing, fault, robbed,
                 overtaken>>

\* The locked section of LOS_EventRead, up to the return or to the switch to
\* another task.
EventReadReturns(t) ==
  /\ taskStatus' = [taskStatus EXCEPT ![t] = "user"]
  /\ wait' = [wait EXCEPT ![t] = NoWait]
  /\ UNCHANGED <<stEventList, fault>>

\* OsSchedTaskWait puts the task last on the list, wherever the list's
\* pointers lead.
EventReadPends(t) ==
  /\ IF inited
     THEN /\ taskStatus' = [taskStatus EXCEPT ![t] = "pend"]
          /\ stEventList' = stEventList \cup {t}
          /\ UNCHANGED fault
     ELSE /\ fault' = TRUE
          /\ UNCHANGED <<taskStatus, stEventList>>
  /\ UNCHANGED <<uwEventID, wait, robbed>>

EventReadLocked(t) ==
  LET w == wait[t]
      got == Polled(uwEventID, w.mask, w.mode)
      id == AfterPoll(uwEventID, w.mask, w.mode)
  IN /\ taskStatus[t] = "checked"
     /\ CanRun(t)
     /\ \/ /\ got # {} \/ w.timeOut = "nowait"
           /\ uwEventID' = id
           /\ robbed' = Robs(id)
           /\ EventReadReturns(t)
        \/ /\ got = {} /\ w.timeOut # "nowait" /\ g_losTaskLock # NoTask
           /\ EventReadReturns(t)
           /\ UNCHANGED <<uwEventID, robbed>>
        \/ /\ got = {} /\ w.timeOut # "nowait" /\ g_losTaskLock = NoTask
           /\ EventReadPends(t)
     /\ UNCHANGED <<inited, g_losTaskLock, writing, overtaken>>

\* The rest of LOS_EventRead, once the scheduler switches back to the task.
EventReadResume(t) ==
  LET w == wait[t]
      id == AfterPoll(uwEventID, w.mask, w.mode)
  IN /\ CanRun(t)
     /\ taskStatus[t] \in {"woken", "timeout"}
     /\ IF taskStatus[t] = "timeout"
        THEN UNCHANGED <<uwEventID, robbed>>
        ELSE /\ uwEventID' = id
             /\ robbed' = Robs(id) \ {t}
     /\ taskStatus' = [taskStatus EXCEPT ![t] = "user"]
     /\ wait' = [wait EXCEPT ![t] = NoWait]
     /\ UNCHANGED <<stEventList, inited, g_losTaskLock, writing, fault, overtaken>>

-----------------------------------------------------------------------------
\* What LOS_EventWrite does before it locks, in the running task or in an
\* interrupt handler: a wrong call changes nothing.
LOS_EventWrite(events) ==
  /\ ~fault
  /\ inited
  /\ ErrBit \notin events
  /\ Cardinality(writing \cup {events}) <= MaxWriting
  /\ writing' = writing \cup {events}
  /\ UNCHANGED <<uwEventID, stEventList, inited, g_losTaskLock, taskStatus, wait, fault,
                 robbed, overtaken>>

Resumed(id, events) ==
  {t \in stEventList : Wakes(id, wait[t].mask, wait[t].mode, events)}

\* The locked section of LOS_EventWrite: every waiting task whose test succeeds
\* is taken off the list (OsSchedTaskWake).  LOS_ListEmpty is false for the list
\* of a destroyed event, whose NULL pointer the loop then follows.  Several
\* calls may be writing the same events.
EventWriteLocked(events) ==
  LET id == uwEventID \cup events
      woken == Resumed(id, events)
  IN /\ ~fault
     /\ events \in writing
     /\ writing' \in {writing, writing \ {events}}
     /\ uwEventID' = id
     /\ stEventList' = stEventList \ woken
     /\ taskStatus' = [t \in Tasks |-> IF t \in woken THEN "woken" ELSE taskStatus[t]]
     /\ fault' = ~inited
     /\ UNCHANGED <<inited, g_losTaskLock, wait, robbed, overtaken>>

\* LOS_EventClear keeps the bits of its mask, initialised or not.
LOS_EventClear(mask) ==
  /\ ~fault
  /\ uwEventID' = uwEventID \cap mask
  /\ robbed' = Robs(uwEventID \cap mask)
  /\ UNCHANGED <<stEventList, inited, g_losTaskLock, taskStatus, wait, writing, fault,
                 overtaken>>

\* LOS_EventRead and LOS_EventWrite calls between their checks and their lock.
CallUnderWay == writing # {} \/ \E t \in Tasks : taskStatus[t] = "checked"

\* LOS_EventDestroy refuses an event somebody waits on; it does not know of
\* the calls under way.  A second destroy changes nothing: LOS_ListEmpty is
\* false for the NULL list and the call returns SHOULD_NOT_DESTROYED.
LOS_EventDestroy ==
  /\ ~fault
  /\ inited
  /\ stEventList = {}
  /\ inited' = FALSE
  /\ overtaken' = CallUnderWay
  /\ UNCHANGED <<uwEventID, stEventList, g_losTaskLock, taskStatus, wait, writing, fault,
                 robbed>>

\* LOS_EventInit of a destroyed event: callers never re-initialise one in use.
LOS_EventInit ==
  /\ ~fault
  /\ ~inited
  /\ uwEventID' = {}
  /\ stEventList' = {}
  /\ inited' = TRUE
  /\ robbed' = Robs({})
  /\ overtaken' = FALSE
  /\ UNCHANGED <<g_losTaskLock, taskStatus, wait, writing, fault>>

\* Mutant: a task that timed out is left in the event's list.
TimeoutStaysListed(t) ==
  /\ taskStatus[t] = "pend"
  /\ wait[t].timeOut = "ticks"
  /\ taskStatus' = [taskStatus EXCEPT ![t] = "timeout"]
  /\ UNCHANGED <<uwEventID, stEventList, inited, g_losTaskLock, wait, writing, fault,
                 robbed, overtaken>>

\* OsSchedWakePendTimeTask, from the tick handler, for a task whose timeout
\* expired while it still waits.
PendTimeout(t) ==
  /\ ~fault
  /\ taskStatus[t] = "pend"
  /\ wait[t].timeOut = "ticks"
  /\ taskStatus' = [taskStatus EXCEPT ![t] = "timeout"]
  /\ stEventList' = stEventList \ {t}
  /\ UNCHANGED <<uwEventID, inited, g_losTaskLock, wait, writing, fault, robbed,
                 overtaken>>

\* LOS_TaskLock and LOS_TaskUnlock by the running task.
LOS_TaskLock(t) ==
  /\ taskStatus[t] = "user"
  /\ CanRun(t) /\ g_losTaskLock = NoTask
  /\ g_losTaskLock' = t
  /\ UNCHANGED <<uwEventID, stEventList, inited, taskStatus, wait, writing, fault,
                 robbed, overtaken>>

LOS_TaskUnlock(t) ==
  /\ taskStatus[t] = "user"
  /\ CanRun(t) /\ g_losTaskLock = t
  /\ g_losTaskLock' = NoTask
  /\ UNCHANGED <<uwEventID, stEventList, inited, taskStatus, wait, writing, fault,
                 robbed, overtaken>>

-----------------------------------------------------------------------------
Next ==
  \/ \E t \in Tasks, mask \in Masks, mode \in ReadModes, timeOut \in TimeOuts :
        LOS_EventRead(t, mask, mode, timeOut)
  \/ \E t \in Tasks : EventReadLocked(t)
  \/ \E t \in Tasks : EventReadResume(t)
  \/ \E t \in Tasks : PendTimeout(t)
  \/ \E events \in Masks : LOS_EventWrite(events)
  \/ \E events \in Masks : EventWriteLocked(events)
  \/ \E mask \in Masks : LOS_EventClear(mask)
  \/ LOS_EventDestroy
  \/ LOS_EventInit
  \/ \E t \in Tasks : LOS_TaskLock(t)
  \/ \E t \in Tasks : LOS_TaskUnlock(t)

Spec == Init /\ [][Next]_vars

-----------------------------------------------------------------------------
\* No missed wake-up: a task that sleeps in LOS_EventRead has not got its
\* event.  Whatever bits are set while it waits, LOS_EventPoll would return 0
\* for its mask and mode.
NoMissedWakeup ==
  \A t \in Tasks :
    taskStatus[t] = "pend" => Polled(uwEventID, wait[t].mask, wait[t].mode) = {}

\* The control block's list holds exactly the sleeping tasks, so a wake-up, a
\* timeout and LOS_EventDestroy agree on who waits, and nobody sleeps on a
\* destroyed event, where no write could reach it.  A read or a write goes on
\* into the NULL list of a destroyed event only if the destroy came between
\* the check of that list and the lock: los_event.c:80 and 157 against 114
\* and 163.
WaitersAreListed ==
  /\ \A t \in Tasks : t \in stEventList <=> taskStatus[t] = "pend"
  /\ ~inited => stEventList = {}
  /\ fault => overtaken

\* A task woken by LOS_EventWrite polls again before it returns: it comes back
\* with nothing only if another reader, LOS_EventClear or LOS_EventInit took
\* bits after it was woken.
WokenFindsItsEvent ==
  \A t \in Tasks :
    (taskStatus[t] = "woken" /\ t \notin robbed)
      => Polled(uwEventID, wait[t].mask, wait[t].mode) # {}
=============================================================================
