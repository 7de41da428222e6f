------------------------------ MODULE LosTask -------------------------------
(***************************************************************************)
(* The tasks and the scheduler of the LiteOS-M kernel (kernel/src/         *)
(* los_task.c and los_sched.c): priority queues with a bitmap, time slices,*)
(* delays and timed waits, suspension, join, deletion and the recycling of *)
(* task control blocks.                                                    *)
(*                                                                         *)
(* A section under LOS_IntLock is one action.  An interrupt may come       *)
(* between the section of a call and the LOS_Schedule that ends it: a task *)
(* that has still to reach LOS_Schedule is recorded in resched, and until  *)
(* the switch only interrupt handlers act.  LOS_TaskCreate and the loop of *)
(* OsRecycleFinishedTask have several sections, and other tasks and        *)
(* handlers act between them.  The OsSched functions are operators from    *)
(* one state of the scheduler, a record, to the next.                      *)
(* Returns with an error change no state and are not steps.                *)
(***************************************************************************)
EXTENDS Naturals, Sequences, FiniteSets, PendList

CONSTANTS Tasks,     \* g_taskCBArray but for the next two; each task may be any
          Idle,      \* the idle task
          Spare,     \* g_taskCBArray[g_taskMaxNum], the last TCB
          Lowest,    \* OS_TASK_PRIORITY_LOWEST; 0 is the most urgent priority
          SliceLen,  \* units of run time in g_schedTimeSlice
          MaxLock,   \* bound: depth of LOS_TaskLock
          Calls      \* hazardous calls that some caller makes

ASSUME TaskAssumption ==
  /\ IsFiniteSet(Tasks) /\ Idle \notin Tasks /\ Spare \notin Tasks \cup {Idle}
  /\ Lowest \in Nat \ {0} /\ SliceLen \in Nat \ {0}
  /\ MaxLock \in Nat
  /\ Calls \subseteq {"resume_running", "resume_exited", "join_twice",
                     "resume_creating", "delete_creating"}

TCBs  == Tasks \cup {Idle, Spare}
Nobody == Idle   \* NULL; the idle task is never joined, nor made by a task
Priorities == 0 .. Lowest

Waits == {"PEND", "PEND_TIME", "DELAY"}
Flags == Waits \cup {"UNUSED", "SUSPEND", "READY", "RUNNING", "EXIT", "JOINABLE"}
BlockedStatus == {"PEND", "SUSPEND", "EXIT", "UNUSED"}

VARIABLES
  sched,    \* what the OsSched functions read and write:
            \*   status, priority, timeSlice   per TCB
            \*   queue, bitmap                 g_priQueueList, g_queueBitmap
            \*   sortLink                      the tasks with a running timer
            \*   waitList                      the list of some kernel object
            \*   joinList                      per TCB, the task that joins it
            \*   asserted                      a LOS_ASSERT has stopped the system
  runTask,  \* g_losTask.runTask
  lock,     \* g_losTaskLock
  resched,  \* a LOS_Schedule is due and has not happened yet
  joining,  \* per task: the task whose LOS_TaskJoin it is in
  freeList, recycleList,  \* g_losFreeTask, g_taskRecycleList
  creating, \* per task: how far its LOS_TaskCreate has come
  block,    \* per task: the control block it is making into a task
  leaked    \* history: blocks whose creator was deleted before it used them

creation == <<creating, block, leaked>>
vars == <<sched, runTask, lock, resched, joining, freeList, recycleList, creation>>

Steps == {"no", "recycling", "recycled", "taken", "made"}

SchedState ==
  [status    : [TCBs -> SUBSET Flags],
   priority  : [TCBs -> Priorities],
   timeSlice : [TCBs -> 0 .. SliceLen],
   queue     : [Priorities -> Seq(Tasks)],
   bitmap    : SUBSET Priorities,
   sortLink  : SUBSET Tasks,
   waitList  : Seq(Tasks),
   joinList  : [TCBs -> Seq(Tasks)],
   asserted  : BOOLEAN]

TypeOK ==
  /\ sched \in SchedState
  /\ runTask \in TCBs
  /\ lock \in 0 .. MaxLock
  /\ resched \in BOOLEAN
  /\ joining \in [Tasks -> Tasks \cup {Nobody}]
  /\ freeList \in Seq(Tasks) /\ recycleList \in Seq(Tasks)
  /\ creating \in [Tasks -> Steps] /\ block \in [Tasks -> Tasks \cup {Nobody}]
  /\ leaked \subseteq Tasks

\* OsTaskInit, the creation of the idle task and of one task, OsSchedStart.
\* The priority of the spare control block is never read.
Init ==
  /\ runTask \in Tasks /\ lock = 0 /\ resched = FALSE
  /\ sched = [status   |-> [t \in TCBs |-> IF t = Idle THEN {"READY"}
                                           ELSE IF t = runTask THEN {"RUNNING"}
                                           ELSE {"UNUSED"}],
              priority |-> [t \in TCBs |-> IF t \in {Idle, Spare} THEN Lowest ELSE 0],
              timeSlice |-> [t \in TCBs |-> IF t = runTask THEN SliceLen ELSE 0],
              queue    |-> [p \in Priorities |-> <<>>],
              bitmap   |-> {}, sortLink |-> {}, waitList |-> <<>>,
              joinList |-> [t \in TCBs |-> <<>>],
              asserted |-> FALSE]
  /\ joining = [t \in Tasks |-> Nobody]
  /\ freeList \in [1 .. Cardinality(Tasks \ {runTask}) -> Tasks \ {runTask}]
  /\ Listed(freeList) = Tasks \ {runTask}
  /\ recycleList = <<>>
  /\ creating = [t \in Tasks |-> "no"] /\ block = [t \in Tasks |-> Nobody]
  /\ leaked = {}

Is(t, flag) == flag \in sched.status[t]

-----------------------------------------------------------------------------
(* The scheduler's functions, on a state s and a task t.                   *)

\* LOS_ListDelete, on one of the lists that may have the node of t.
Without(list, t) == IF t \in Listed(list) THEN LOS_ListDelete(list, t) ELSE list

\* OsSchedPriQueueEnHead or OsSchedPriQueueEnTail, by what is left of the slice.
Placed(list, t, slice) == IF slice > 0 THEN <<t>> \o list ELSE Append(list, t)

OsSchedTaskEnQueue(s, t) ==
  LET p == s.priority[t]
      ready == [s EXCEPT !.status[t] = (@ \ (Waits \cup {"SUSPEND"})) \cup {"READY"},
                         !.asserted = @ \/ "READY" \in s.status[t]]
  IN IF t = Idle THEN ready
     ELSE [ready EXCEPT !.bitmap = @ \cup {p},
                        !.queue[p] = Placed(@, t, s.timeSlice[t]),
                        !.timeSlice[t] = IF @ > 0 THEN @ ELSE SliceLen]

OsSchedTaskDeQueue(s, t) ==
  LET p == s.priority[t]
      rest == [q \in Priorities |-> Without(s.queue[q], t)]
  IN IF "READY" \notin s.status[t] THEN s
     ELSE [s EXCEPT !.status[t] = @ \ {"READY"},
                    !.queue = rest,
                    !.bitmap = IF t # Idle /\ rest[p] = <<>> THEN @ \ {p} ELSE @]

\* LOS_ListDelete of the node of a pending task.
Unlink(s, t) == [s EXCEPT !.waitList = Without(@, t),
                          !.joinList = [u \in TCBs |-> Without(@[u], t)]]

OsSchedTaskExit(s, t) ==
  LET off == IF "READY" \in s.status[t] THEN OsSchedTaskDeQueue(s, t)
             ELSE IF "PEND" \in s.status[t] THEN Unlink(s, t) ELSE s
      timed == s.status[t] \cap {"DELAY", "PEND_TIME"} # {}
  IN [off EXCEPT !.sortLink = IF timed THEN @ \ {t} ELSE @,
                 !.status[t] = (@ \ Waits) \cup {"EXIT"}]

\* Mutant: a task that has not been switched out yet is put in its queue.
OnlySuspended(status) == "SUSPEND" \in status

\* The tasks that OsSchedTaskWake leaves out of the queues.
StaysOut(status) == status \cap {"SUSPEND", "RUNNING"} # {}

OsSchedTaskWake(s, t) ==
  LET woken == [Unlink(s, t) EXCEPT !.sortLink = @ \ {t},
                                    !.status[t] = @ \ {"PEND", "PEND_TIME"}]
  IN IF StaysOut(s.status[t]) THEN woken ELSE OsSchedTaskEnQueue(woken, t)

\* Mutant: the end of the time makes a suspended task ready.
NobodyStays(status) == FALSE

StaysSuspended(status) == "SUSPEND" \in status

\* OsSchedScanTimerList takes t off the sort link and wakes it.  The flag that
\* tells the pend of a timeout is part of the modules of the kernel's objects.
OsSchedWakePendTimeTask(s, t) ==
  LET off == [(IF "PEND" \in s.status[t] THEN Unlink(s, t) ELSE s)
                EXCEPT !.sortLink = @ \ {t}, !.status[t] = @ \ Waits]
  IN IF StaysSuspended(s.status[t]) THEN off ELSE OsSchedTaskEnQueue(off, t)

OsSchedSuspend(s, t) == [OsSchedTaskDeQueue(s, t) EXCEPT !.status[t] = @ \cup {"SUSPEND"}]

OsSchedResume(s, t) ==
  LET on == [s EXCEPT !.status[t] = @ \ {"SUSPEND"}]
  IN IF s.status[t] \cap {"DELAY", "PEND"} = {} THEN OsSchedTaskEnQueue(on, t) ELSE on

OsSchedModifyTaskSchedParam(s, t, p) ==
  LET off == OsSchedTaskDeQueue(s, t)
      new == [off EXCEPT !.priority[t] = p]
  IN IF "READY" \in s.status[t] THEN OsSchedTaskEnQueue(new, t) ELSE new

\* Mutant: a task that waits with a time limit gets no timer.
OnlyDelays(s, r) ==
  IF "DELAY" \in s.status[r] THEN [s EXCEPT !.sortLink = @ \cup {r}]
  ELSE IF s.status[r] \cap BlockedStatus = {} THEN OsSchedTaskEnQueue(s, r) ELSE s

\* The first half of OsSchedTaskSwitch: where the running task r goes.
PutAway(s, r) ==
  IF s.status[r] \cap {"PEND_TIME", "DELAY"} # {} THEN [s EXCEPT !.sortLink = @ \cup {r}]
  ELSE IF s.status[r] \cap BlockedStatus = {} THEN OsSchedTaskEnQueue(s, r)
  ELSE s

\* Mutant: the bitmap is read from the wrong end.
TakesLeastUrgent(s) ==
  IF s.bitmap = {} THEN Idle
  ELSE LET p == CHOOSE p \in s.bitmap : \A q \in s.bitmap : p >= q IN Head(s.queue[p])

OsGetTopTask(s) ==
  IF s.bitmap = {} THEN Idle
  ELSE LET p == CHOOSE p \in s.bitmap : \A q \in s.bitmap : p <= q IN Head(s.queue[p])

-----------------------------------------------------------------------------
(* Calls of interrupt handlers and of the running task.                    *)

Running == ~sched.asserted

\* A call that ends in LOS_Schedule, which does nothing under the task lock.
Schedule == resched' = (lock = 0)

\* The running task executes its own code.
InTask ==
  /\ Running /\ ~resched
  /\ runTask \in Tasks
  /\ joining[runTask] = Nobody /\ creating[runTask] = "no"

Created(t) == ~Is(t, "UNUSED")

\* A LOS_TaskCreate has given t its ID and has still to queue it.
InMaking(t) == \E u \in Tasks : creating[u] = "made" /\ block[u] = t

LOS_TaskSuspend(t) ==
  /\ Running
  /\ Created(t) /\ ~Is(t, "SUSPEND")
  /\ Is(t, "RUNNING") => lock = 0
  /\ "resume_exited" \in Calls \/ ~Is(t, "EXIT")
  /\ sched' = OsSchedSuspend(sched, t)
  /\ IF t = runTask THEN Schedule ELSE UNCHANGED resched
  /\ UNCHANGED <<runTask, lock, joining, freeList, recycleList, creation>>

LOS_TaskResume(t) ==
  /\ Running
  /\ Created(t) /\ Is(t, "SUSPEND")
  /\ "resume_running" \in Calls \/ ~Is(t, "RUNNING")
  /\ "resume_exited" \in Calls \/ ~Is(t, "EXIT")
  /\ "resume_creating" \in Calls \/ ~InMaking(t)
  /\ sched' = OsSchedResume(sched, t)
  /\ IF sched.status[t] \cap {"DELAY", "PEND"} = {} THEN Schedule ELSE UNCHANGED resched
  /\ UNCHANGED <<runTask, lock, joining, freeList, recycleList, creation>>

LOS_TaskPriSet(t, p) ==
  /\ Running
  /\ Created(t)
  /\ sched' = OsSchedModifyTaskSchedParam(sched, t, p)
  /\ IF Is(t, "READY") \/ Is(t, "RUNNING") THEN Schedule ELSE UNCHANGED resched
  /\ UNCHANGED <<runTask, lock, joining, freeList, recycleList, creation>>

\* A semaphore post or another call that wakes the first task of a list.
WakeWaiter ==
  /\ Running
  /\ sched.waitList # <<>>
  /\ sched' = OsSchedTaskWake(sched, Head(sched.waitList))
  /\ Schedule
  /\ UNCHANGED <<runTask, lock, joining, freeList, recycleList, creation>>

\* The tick handler finds that the time of t is over.
TimerExpires(t) ==
  /\ Running
  /\ t \in sched.sortLink
  /\ sched' = OsSchedWakePendTimeTask(sched, t)
  /\ Schedule
  /\ UNCHANGED <<runTask, lock, joining, freeList, recycleList, creation>>

-----------------------------------------------------------------------------
(* Deletion, join and the recycling of control blocks.                     *)

\* OsInsertTCBToFreeList wipes the control block.
Wiped(s, t) == [s EXCEPT !.status[t] = {"UNUSED"}, !.priority[t] = 0,
                         !.timeSlice[t] = 0, !.joinList[t] = <<>>]

OsTaskJoinPostUnsafe(s, t) ==
  IF "JOINABLE" \in s.status[t] /\ s.joinList[t] # <<>>
  THEN OsSchedTaskWake(s, Head(s.joinList[t])) ELSE s

\* LOS_TaskDelete of the running task.  A task that nobody joins is put on the
\* list of tasks to recycle, and the spare control block runs in its place;
\* of the flags it copies, UNUSED alone says that it is blocked.
OsRunningTaskDelete(t) ==
  LET s == OsSchedTaskExit(OsTaskJoinPostUnsafe(sched, t), t)
  IN /\ IF Is(t, "JOINABLE") THEN sched' = s /\ UNCHANGED <<runTask, recycleList>>
        ELSE /\ sched' = [s EXCEPT !.status[t] = @ \cup {"UNUSED"},
                                !.status[Spare] = {"UNUSED", "RUNNING"}]
             /\ runTask' = Spare /\ recycleList' = Append(recycleList, t)
     /\ lock' = 0 /\ resched' = TRUE
     /\ UNCHANGED freeList

\* LOS_TaskDelete of another task; a task that it wakes is not scheduled here.
DeleteOther(t) ==
  LET s == OsSchedTaskExit(OsTaskJoinPostUnsafe(sched, t), t)
  IN /\ IF Is(t, "JOINABLE") THEN sched' = s /\ UNCHANGED freeList
        ELSE sched' = Wiped(s, t) /\ freeList' = <<t>> \o freeList
     /\ UNCHANGED <<runTask, lock, resched, recycleList>>

\* A block that the deleted task had taken for a new one is not given back.
LOS_TaskDelete(t) ==
  /\ Running
  /\ Created(t) /\ ~Is(t, "EXIT")
  /\ "delete_creating" \in Calls \/ ~InMaking(t)
  /\ IF Is(t, "RUNNING") THEN OsRunningTaskDelete(t) ELSE DeleteOther(t)
  /\ joining' = [joining EXCEPT ![t] = Nobody]
  /\ creating' = [creating EXCEPT ![t] = "no"]
  /\ block' = [block EXCEPT ![t] = Nobody]
  /\ leaked' = IF creating[t] = "taken" THEN leaked \cup {block[t]} ELSE leaked

\* LOS_TaskJoin of a task that has not exited, up to the switch.
JoinPends(t) ==
  /\ InTask /\ lock = 0
  /\ t # runTask /\ Created(t) /\ ~Is(t, "EXIT")
  /\ Is(t, "JOINABLE") /\ sched.joinList[t] = <<>>
  /\ sched' = [sched EXCEPT !.joinList[t] = <<runTask>>,
                            !.status[runTask] = @ \cup {"PEND"}]
  /\ joining' = [joining EXCEPT ![runTask] = t]
  /\ Schedule
  /\ UNCHANGED <<runTask, lock, freeList, recycleList, creation>>

\* LOS_TaskJoin, or LOS_TaskDetach, of a task that has exited.
JoinExited(t) ==
  /\ InTask /\ lock = 0
  /\ Created(t) /\ Is(t, "EXIT")
  /\ "join_twice" \in Calls \/ \A u \in Tasks : joining[u] # t
  /\ joining' = [joining EXCEPT ![runTask] = t]
  /\ Schedule
  /\ UNCHANGED <<sched, runTask, lock, freeList, recycleList, creation>>

\* The rest of LOS_TaskJoin, once its LOS_Schedule returns.
JoinReclaims ==
  /\ Running /\ ~resched /\ runTask \in Tasks
  /\ joining[runTask] # Nobody
  /\ sched' = Wiped(sched, joining[runTask])
  /\ freeList' = <<joining[runTask]>> \o freeList
  /\ joining' = [joining EXCEPT ![runTask] = Nobody]
  /\ UNCHANGED <<runTask, lock, resched, recycleList, creation>>

\* Mutant: a task that another one waits for is detached.
DetachesJoined(t) == Is(t, "JOINABLE")

Detachable(t) == Is(t, "JOINABLE") /\ sched.joinList[t] = <<>>

LOS_TaskDetach(t) ==
  /\ InTask
  /\ Created(t) /\ ~Is(t, "EXIT")
  /\ Detachable(t)
  /\ sched' = [sched EXCEPT !.status[t] = @ \ {"JOINABLE"}]
  /\ UNCHANGED <<runTask, lock, resched, joining, freeList, recycleList, creation>>

-----------------------------------------------------------------------------
(* The recycling of blocks, LOS_TaskCreate and LOS_TaskCreateOnly.         *)

CreationAt(step) ==
  /\ Running /\ ~resched
  /\ runTask \in Tasks
  /\ creating[runTask] = step

CreationGoesTo(step) == creating' = [creating EXCEPT ![runTask] = step]

\* LOS_TaskCreate and LOS_TaskResRecycle begin with the loop.
Recycles == InTask \/ CreationAt("recycling")

\* One round of the loop, there or in the idle task.
OsRecycleFinishedTask ==
  /\ Recycles \/ (Running /\ ~resched /\ runTask = Idle)
  /\ recycleList # <<>>
  /\ sched' = Wiped(sched, Head(recycleList))
  /\ freeList' = <<Head(recycleList)>> \o freeList
  /\ recycleList' = Tail(recycleList)
  /\ IF runTask = Idle THEN UNCHANGED creating ELSE CreationGoesTo("recycling")
  /\ UNCHANGED <<runTask, lock, resched, joining, block, leaked>>

\* The loop ends: LOS_TaskCreate goes on, LOS_TaskResRecycle returns.
RecyclingEnds(returns) ==
  /\ Recycles
  /\ recycleList = <<>>
  /\ CreationGoesTo(IF returns THEN "no" ELSE "recycled")
  /\ UNCHANGED <<sched, runTask, lock, resched, joining, freeList, recycleList, block, leaked>>

\* The block that is taken stays UNUSED, in no list.
TakeFreeTCB ==
  /\ CreationAt("recycled")
  /\ IF freeList = <<>>
       THEN /\ CreationGoesTo("no")
            /\ UNCHANGED <<block, freeList>>
       ELSE /\ CreationGoesTo("taken")
            /\ block' = [block EXCEPT ![runTask] = Head(freeList)]
            /\ freeList' = Tail(freeList)
  /\ UNCHANGED <<sched, runTask, lock, resched, joining, recycleList, leaked>>

\* Unlocked, up to the return of the ID, before which nobody names the block;
\* the end of LOS_TaskCreateOnly.
OsNewTaskInit(p, joinable, only) ==
  LET t == block[runTask]
  IN /\ CreationAt("taken")
     /\ p < Lowest
     /\ sched' = [sched EXCEPT
                    !.status[t] = {"SUSPEND"} \cup (IF joinable THEN {"JOINABLE"} ELSE {}),
                    !.priority[t] = p, !.timeSlice[t] = 0, !.joinList[t] = <<>>]
     /\ CreationGoesTo(IF only THEN "no" ELSE "made")
     /\ block' = IF only THEN [block EXCEPT ![runTask] = Nobody] ELSE block
     /\ UNCHANGED <<runTask, lock, resched, joining, freeList, recycleList, leaked>>

\* OsNewTaskInit finds no memory for the stack; the ID is not given out.
NewTaskFails ==
  /\ CreationAt("taken")
  /\ sched' = Wiped(sched, block[runTask])
  /\ freeList' = <<block[runTask]>> \o freeList
  /\ CreationGoesTo("no")
  /\ block' = [block EXCEPT ![runTask] = Nobody]
  /\ UNCHANGED <<runTask, lock, resched, joining, recycleList, leaked>>

\* The last section of LOS_TaskCreate tests nothing before it queues the task.
ReadyNewTask ==
  /\ CreationAt("made")
  /\ sched' = OsSchedTaskEnQueue(sched, block[runTask])
  /\ CreationGoesTo("no")
  /\ block' = [block EXCEPT ![runTask] = Nobody]
  /\ Schedule
  /\ UNCHANGED <<runTask, lock, joining, freeList, recycleList, leaked>>

-----------------------------------------------------------------------------
(* Calls of the running task about itself.                                 *)

LOS_TaskDelay ==
  /\ InTask /\ lock = 0
  /\ sched' = [sched EXCEPT !.status[runTask] = @ \cup {"DELAY"}]
  /\ Schedule
  /\ UNCHANGED <<runTask, lock, joining, freeList, recycleList, creation>>

\* OsSchedTaskWait, from a pend on some kernel object.
OsSchedTaskWait(timed) ==
  /\ InTask /\ lock = 0
  /\ sched' = [sched EXCEPT
                 !.waitList = Append(@, runTask),
                 !.status[runTask] = @ \cup {"PEND"} \cup (IF timed THEN {"PEND_TIME"} ELSE {})]
  /\ Schedule
  /\ UNCHANGED <<runTask, lock, joining, freeList, recycleList, creation>>

\* Also LOS_TaskDelay(0).
LOS_TaskYield ==
  /\ InTask
  /\ sched' = [sched EXCEPT !.timeSlice[runTask] = 0]
  /\ Schedule
  /\ UNCHANGED <<runTask, lock, joining, freeList, recycleList, creation>>

LOS_TaskLock ==
  /\ InTask /\ lock < MaxLock
  /\ lock' = lock + 1
  /\ UNCHANGED <<sched, runTask, resched, joining, freeList, recycleList, creation>>

Locked == lock > 0

LOS_TaskUnlock ==
  /\ InTask /\ Locked
  /\ lock' = lock - 1
  /\ resched' = (lock = 1)
  /\ UNCHANGED <<sched, runTask, joining, freeList, recycleList, creation>>

\* From LOS_Schedule, or from any tick: the running task has used some of its
\* slice.
OsSchedTaskSwitch(used) ==
  LET r == runTask
      aged == [sched EXCEPT !.timeSlice[r] = IF @ > used THEN @ - used ELSE 0]
      put == PutAway(aged, r)
      top == OsGetTopTask(put)
      swapped == IF top = r THEN put
                 ELSE [put EXCEPT !.status[r] = @ \ {"RUNNING"},
                                  !.status[top] = @ \cup {"RUNNING"}]
  IN /\ Running
     /\ lock = 0
     /\ sched' = OsSchedTaskDeQueue(swapped, top)
     /\ runTask' = top
     /\ resched' = FALSE
     /\ UNCHANGED <<lock, joining, freeList, recycleList, creation>>

-----------------------------------------------------------------------------
Switch == \E used \in 1 .. SliceLen : OsSchedTaskSwitch(used)

Next ==
  \/ \E t \in Tasks : LOS_TaskSuspend(t)
  \/ \E t \in Tasks : LOS_TaskResume(t)
  \/ \E t \in Tasks, p \in Priorities : LOS_TaskPriSet(t, p)
  \/ WakeWaiter
  \/ \E t \in Tasks : TimerExpires(t)
  \/ \E t \in Tasks : LOS_TaskDelete(t)
  \/ \E t \in Tasks : JoinPends(t)
  \/ \E t \in Tasks : JoinExited(t)
  \/ JoinReclaims
  \/ \E t \in Tasks : LOS_TaskDetach(t)
  \/ OsRecycleFinishedTask
  \/ \E returns \in BOOLEAN : RecyclingEnds(returns)
  \/ TakeFreeTCB
  \/ \E p \in Priorities, joinable, only \in BOOLEAN : OsNewTaskInit(p, joinable, only)
  \/ NewTaskFails
  \/ ReadyNewTask
  \/ LOS_TaskDelay
  \/ \E timed \in BOOLEAN : OsSchedTaskWait(timed)
  \/ LOS_TaskYield
  \/ LOS_TaskLock
  \/ LOS_TaskUnlock
  \/ Switch

Spec == Init /\ [][Next]_vars

-----------------------------------------------------------------------------
\* The queues are what the bitmap and the tasks say: a ready task is in the
\* queue of its priority, once, and in no other; nothing else is queued; the
\* bits set are those of the queues in use; one task runs, not queued; and no
\* task was ever ready already when it was queued (LOS_ASSERT in
\* OsSchedTaskEnQueue).
ReadyQueuesExact ==
  /\ \A p \in Priorities :
       /\ Listed(sched.queue[p]) = {t \in Tasks : Is(t, "READY") /\ sched.priority[t] = p}
       /\ Cardinality(Listed(sched.queue[p])) = Len(sched.queue[p])
  /\ sched.bitmap = {p \in Priorities : sched.queue[p] # <<>>}
  /\ \A t \in TCBs \ Listed(recycleList) : Is(t, "RUNNING") <=> t = runTask
  /\ ~Is(runTask, "READY") /\ ~sched.asserted

\* No task is lost: one that neither runs nor is ready has been suspended, has
\* exited, is in one list of waiting tasks, or has a timer that will wake it.
\* No timer is left behind to wake a task that waits for nothing, and a task
\* that has exited is not made ready again.
NoTaskIsLost ==
  \A t \in Tasks : Created(t) =>
    /\ sched.status[t] \cap {"READY", "RUNNING", "SUSPEND", "EXIT", "PEND", "DELAY"} # {}
    /\ Is(t, "PEND") <=> (\/ t \in Listed(sched.waitList)
                          \/ \E u \in Tasks : t \in Listed(sched.joinList[u]))
    /\ t \in sched.sortLink <=>
         /\ Is(t, "PEND_TIME") \/ Is(t, "DELAY")
         /\ ~Is(t, "RUNNING")
    /\ ~(Is(t, "EXIT") /\ Is(t, "READY"))

Taking == {u \in Tasks : creating[u] = "taken"}

\* Control blocks are conserved: each is free once, or to be recycled once, or
\* stands for a task, or is being made into one by one creator; none is lost but
\* those whose creator was deleted between the removal and the use of its block.
\* No free one is queued, timed or waited for.  (All variables keep their types.)
TCBsConserved ==
  LET idle == freeList \o recycleList
  IN /\ TypeOK
     /\ Cardinality(Listed(idle)) = Len(idle)
     /\ \A t \in Tasks : Is(t, "UNUSED") <=>
          t \in Listed(idle) \cup leaked \cup {block[u] : u \in Taking}
     /\ \A u \in Taking : block[u] \notin Listed(idle) \cup leaked
     /\ \A u, v \in Tasks : block[u] = block[v] /\ block[u] # Nobody => u = v
     /\ leaked \cap Listed(idle) = {}
     /\ \A t \in Listed(idle) :
          /\ ~Is(t, "READY") /\ t \notin sched.sortLink
          /\ \A u \in Tasks : joining[u] # t /\ t \notin Listed(sched.joinList[u])

\* With the scheduler open and no switch due, nothing ready is more urgent than
\* what runs.  A task in LOS_TaskJoin is left out: LOS_TaskDelete of the task it
\* joins makes it ready and does not call LOS_Schedule.
MostUrgentRuns ==
  lock = 0 /\ ~resched =>
    \A t \in Tasks : Is(t, "READY") /\ joining[t] = Nobody =>
      runTask # Idle /\ sched.priority[runTask] <= sched.priority[t]

\* Nothing but LOS_TaskResume, the end of the task, or the LOS_TaskCreate that is
\* making it ends a suspension: a post, a timeout or the exit of a joined task may
\* end the wait of a suspended task, which then stays suspended.
SuspensionHolds ==
  [][\A t \in Tasks : Is(t, "SUSPEND") =>
       \/ "SUSPEND" \in sched'.status[t]
       \/ "UNUSED" \in sched.status[t] \cup sched'.status[t]
       \/ LOS_TaskResume(t)
       \/ InMaking(t) /\ ReadyNewTask]_vars
=============================================================================
