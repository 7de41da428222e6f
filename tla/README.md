# TowerSafe: TLA+ models, checks and proofs

TowerSafe is a product of the OpenHarmony 3.2 mini system: the LiteOS-M kernel on an
ESP32, LVGL on a touch screen, and three applications. Most of the repository is the
vendored OpenHarmony tree. The product's own code is under
`src/vendor/LeeTai/TowerSafe` (applications and HALs) and
`src/device/board/LeeTai/TowerSafe` (drivers and the LVGL port), and it stands on the
kernel in `src/kernel/liteos_m/kernel/src`. These are what the project models.

## 1. Inventory

| Component | State | Operations | What is hard about it |
|---|---|---|---|
| Kernel event flags, `los_event.c` | bits, waiting list, per-task mask and mode, scheduler lock | read, write, clear, destroy, init, timeout | wake-up against timeout against other readers; a write between the poll and the task switch |
| Kernel software timers, `los_swtmr.c` | control blocks, sorted list, handler queue | create, start, stop, delete, expire, deliver | delivery is delayed, the timer may be stopped, restarted or deleted meanwhile; the queue may be full |
| Kernel queue, `los_queue.c` | ring of cells, a count per direction, three waiting lists, mail boxes | create, delete, read, write at both ends, mail alloc and free | a right is handed to a sleeping task that uses it later; timeouts, deletions and other callers come between |
| Kernel mutex, `los_mux.c` | owner, count, stored priority, waiting list | create, delete, pend, post | recursion, hand-over, inheritance and its end |
| Kernel semaphore, `los_sem.c` | count, limit, waiting list | create, delete, pend, post | hand-over, the limit, deletion under a woken task |
| Kernel scheduler and tasks, `los_sched.c`, `los_task.c` | ready queues, bitmap, slices, timers, status flags, control blocks | create, delete, suspend, resume, priority, delay, yield, join, detach, lock, switch | flags, lists and timers of one task must agree over every order of calls; interrupts come before the switch |
| Count-down application, `count_down_app/timercount/ui_control.c` | button state, rollers, counters, timer, event | two click handlers, receiver task, timer callback | three tasks share globals without a lock |
| Data centre, `Account.cpp`, `DataCenter.cpp` | account pool, vectors of publishers and subscribers, timers | construct, destroy, subscribe, unsubscribe, timers | raw pointers held on both sides; a vector that changes while it is traversed |
| Account cache, `PingPongBuffer.c` | two buffers, two indices, two flags | commit, publish, pull | a reader holds a buffer while callbacks write |
| Page manager, `PM_*.cpp` | page pool, stack, life cycle of each page, switch in progress | install, uninstall, push, pop, back home, drag, ends of animations | animations end in any order; requests arrive meanwhile; caching |
| Weather WiFi client, `wifi_connect.c`, `wifi_example.c` | flags, radio, sockets | scan, connect, wait, dial, callbacks | polled flags against late reports, waits with a limit |
| Weather count-down screen, `weather_app/timercount/ui_control.c` | rollers, two loop counters | two click handlers | borrowing at the minute |
| Weather pages, HAL | models of pages | show | view code |
| Irrigation application | humidity, light, temperature, pump | sampling task, switch and button handlers | two tasks drive one pump and draw |
| Drivers, HALs, LVGL port | none of their own | register access | pure input and output |

Interactions: the click handlers of an application run in the LVGL task and reach the
kernel through `LOS_EventWrite` and `LOS_Swtmr*`. The kernel's `Swt_Task` calls the
application back when a timer expires. Pages are driven by the page manager, and read their
data through accounts of the data centre; both of these run in the LVGL task alone. The
framework (`App/`) is in the weather application; its `main.c` starts `ui_init` and the
framework is linked beside it.

What makes each part correct: an event is neither missed nor reported twice; a
count-down starts from the selected time, stands still when paused and ends; no
pointer outlives its account; a subscriber gets the last committed value; a page lives
through its callbacks in order and the top of the stack is what the user sees; the page
manager does not stay busy; a queue is a bounded queue whoever sleeps in it; a mutex has one
holder, and an inherited priority ends; permits are conserved; every task is in exactly the lists its
flags say, and none is lost; the pump follows soil and switch.

## 2. Modules

| Module | Models | Checked by | Proved in |
|---|---|---|---|
| `EventFlags` | the pure functions of `los_event.c` | all event runs | `LosEventProofs` |
| `LosEvent` | `los_event.c` with the timeout and lock paths of `los_sched.c`, `los_task.c` | `event` | `LosEventProofs` |
| `LosSwtmr` | `los_swtmr.c` | `swtmr` | `LosSwtmrProofs` |
| `CountDown` | `count_down_app/timercount/ui_control.c` | `countdown`, `countdown_clear` | `ApplicationProofs` |
| `LatestValue` | abstract: what a cache promises | as a property of `cache` | `ApplicationProofs` |
| `AccountCache` | `PingPongBuffer.c` under Commit, Publish, Pull | `cache` | `ApplicationProofs` |
| `FollowGraph` | abstract: live accounts and who follows whom | as a property of `accounts` | `ApplicationProofs` |
| `DataCenter` | `DataCenter.cpp`, `Account.cpp` | `accounts` | `ApplicationProofs` |
| `PageManager` | `PM_Base`, `PM_Router`, `PM_State`, `PM_Drag` | `pages` | `ApplicationProofs` |
| `PendList` | lists of waiting tasks, shared by four modules below | their runs | `PendListProofs` |
| `BoundedDeque` | abstract: a bounded queue with two ends | as a property of `queue` | `LosQueueProofs` |
| `LosQueue` | `los_queue.c` with timeouts, task deletion and the scheduler lock | `queue` | `LosQueueProofs` |
| `LosMux` | `los_mux.c` | `mutex` | `LosMuxProofs` |
| `LosSem` | `los_sem.c` | `semaphore` | `LosSemProofs` |
| `LosTask` | `los_task.c`, `los_sched.c` | `tasks` | `LosTaskProofs` |
| `Irrigation` | `irrigation_system_app` | `irrigation` | `ApplicationProofs` |

The `MC*` modules only give values to constants. Definitions whose comment starts with
"Mutant" are plausible wrong versions of the definition that follows them. No
specification uses them: each one is put in the place of that definition to see that a
property notices.

Every module with the state of a component has a type invariant `TypeOK`, proved for all values of the constants, by itself or, as in
the modules without a theorem `TypeCorrect`, as a conjunct of one of the invariants that the run checks (`TimerFollowsButton`, `VectorsAgree`,
`LifecycleInOrder`, `CellsConserved`, `OwnersAgree`, `PermitsAccounted`, `TCBsConserved`, `PumpHasReason`). In four of the application modules the names of
the specification start with the part they are about (`CacheInit`, `CentreNext`, `PageSpec`, `IrrigationTypeOK`), so that one module
of proofs can extend them all.

### EventFlags and LosEvent

A `UINT32` of event bits is the set of its one bits, and a mode is the set of its
`LOS_WAITMODE_*` flags. One action is one section under `LOS_IntLock`, or the checks before it. So
`LOS_EventRead` is three actions: the checks (`LOS_EventRead`), the locked section up to its return or to
`OsSchedTaskWait` (`EventReadLocked`), and from the second poll on (`EventReadResume`); `LOS_EventWrite` is its checks and
`EventWriteLocked`. Between these, any other task or an interrupt may do anything, and so destroy the event that was found initialised. The
call then follows the NULL pointers of the list: `fault` says that this has happened, and the model ends there. `overtaken` is a history
variable, a destroy that came while a call was between its checks and its lock. `writing` holds the events of the writes that are past their
checks, without saying who makes them.
Tasks run in any order; the scheduler's priorities only remove behaviours, so safety
carries over. `stEventList` is a set because its order only decides the order in which
tasks become ready. `g_losTaskLock` is a nesting counter in the code; here it is who holds
it, because only "held or not" decides anything. Writes and clears may come from an
interrupt, so the lock does not stop them. Left out because no caller does it: initialising an event that is in use. Destroying one twice
is refused and changes nothing.
`robbed` is a history variable: the woken tasks after whose wake-up bits were taken away.

### LosSwtmr

A timer's ID is a number of which the remainder by the number of control blocks gives the block and
the quotient counts the timers the block has held; here it is that pair, and `NextId` is the
increment of `OsSwtmrDelete` with its wrap. In the code the wrap takes 2^32 deletions of one block divided by the number of blocks, so
an item of the queue never meets its own ID again; with the small `Generations` of a run
this has to be said, by the first two conjuncts of `OsSwtmrDelete`. Time is left out: the sorted list is a
set of blocks, and any of them may be the next to expire. One action is one section under
`LOS_IntLock`; `Swt_Task` takes four steps with an item: it reads it from the queue (`OsSwtmrTask`), compares the IDs under the lock
(`CheckItem`), calls the handler (`CallHandler`) and gets it back (`HandlerReturns`). Everything else may happen between them. A timer deleted after the comparison has its
handler called all the same: `overtaken`, a history variable, says that this is the case. `LOS_SwtmrCreate` writes the fields of a block after the lock; nobody can reach
the block then, so it is one action. Calls that return an error change nothing and are no steps. `live` in a queued item and
`dropped` are history variables: whether the timer has been deleted since its expiry, and one-shot timers whose
expiry found the queue full. `Careful` says that callers do not start a one-shot timer whose expiry
is queued.

### CountDown

The actions are the statements that touch shared variables: `g_timerCount1++` is a load and a
store, every case of `start_ok` has a step per statement, `clear_ok` four, the receiver's stop branch
three. After its increment the callback may use the value it has in a register or read
`g_timerCount1` again, which is not volatile; `Counts` allows both. The receiver is created with priority 0 (`attr = {0}`), as is
`Swt_Task`; they interleave by time slices. The LVGL task has a lower priority and runs
only when both are blocked (`LowPriorityRuns`). That task is started by the framework's
`OHOS_APP_RUN`, which the repository does not contain; a priority other than 0 is assumed.
`countTime - g_timerCount1` is a `UINT32` and wraps; TLC's integers are 32 bits wide, so
the wrap is written with quotient and remainder of 2^32 by 60. `RollerShows` is what
`lv_roller_set_selected` does with a selection that is out of range. The kernel is
represented by the timer's state, the number of queued expiries and the event, through
`EventFlags`. `lateExpiry` is a history variable: when the receiver last reset the count, an expiry was still to be counted (`ToCount`); it is
counted after the reset, and the next count-down does not start from zero. Clicks are further apart than the 10 ticks for which the receiver does
not listen after an event (`InputArrives`).

### AccountCache and LatestValue

`Publish` is two actions because it calls subscribers back while it holds a buffer, and
a callback may commit again. The refinement mapping reads the fresh value from the buffer
that was not read last, and the held value from the read buffer while `Publish` runs.

### DataCenter and FollowGraph

Accounts are addresses; `Id` maps them to IDs, and two may share one. `Delete` is the whole
destructor. Its loop "Let subscribers unfollow" is modelled as the compiled range-for
runs: the end is fixed before the loop, `vector::erase` moves the tail up inside the same
memory, and a place past the new end still holds its old pointer. This matters: with
one or two followers everybody is told, with three one of them is not. `MaxFollowers`
keeps accounts with more followers from being deleted. Notifications, error codes and the timer's
callback change no state of the data centre. Nothing unsubscribes AccountMain.

### PageManager

One record per page holds the fields of `PageBase`. `SwitchTo` is an operator used by Push,
Pop and BackHome, each of which is one action, since LVGL handlers run to completion. The two
animations of a switch end in separate actions. `life` and `lost` are history variables:
the last life-cycle callback, and whether a root was overwritten by a second load. `Routes` says
which page may be pushed from which; `Careful` says that callers never pop or go home from
the bottom page and do not uninstall during a switch or a spring-back, which is how this program uses the manager.

LVGL sends the drag events to the root under the finger until the finger goes up (PRESS_LOCK), so `pressed` stays on a page that was popped by a gesture meanwhile, and
a switch may come between a press and its release. Where the roots lie is left out, so that a touch may hit any loaded root with callbacks, in front or
not. `springs` are the roots that move back after a release; the code has one flag, `IsBusy`, for all of them, which a press on any draggable root clears and the first end of
an animation clears, while the others still play. What this leads to is in the model: `SwitchTo` with a root that still moves, a spring-back of a page that is not in front, and an
animation that goes with its deleted root (`RootsAreDeleted`). The movement itself has no other effect on the manager, and `LV_EVENT_LEAVE` is handled by no page. A
release without getter ends the program, so `DragReleased` has no such step; `DragHasGetter` says for which pages that can be. In this program the only page
without animation is the start-up page, which is at the bottom and not cached, and the page above it is never popped, so no page of its is concerned.

### LosQueue, LosMux and LosSem

As in `LosEvent`, one action is one section under `LOS_IntLock`, a call that sleeps is two actions, which ready
task runs is left open, and calls that return an error are no steps. The three share the idea that a
right (a message or cell, the mutex, a permit) is handed to the first sleeping task when it is woken and not
counted as available; the woken task uses it when it runs. Waiting lists are sequences, as their order is who comes
first. A deleted task stands for its control block, which is used again at once.

`LosQueue`: one queue, created and deleted again and again with different lengths. `op` is what a task
sleeps in. The mail functions use any memory pool; here it is a set of boxes. `lost` is a history variable: rights
that died with a task that was deleted between its wake-up and its run; the code does not hand them on.
`MailInLock` says whether callers allocate mail with the scheduler locked. The sizes of
messages are left out: they are copied whole. `BoundedDeque` is what a caller may rely on: create and delete, append at
either end while there is room, take from the head. The refinement mapping counts as content the messages
on offer, those woken readers have a right to and those whose reader was deleted.

`LosMux`: `held` is a history variable, the locks a task was told it has, in order. `Nested` says that callers
release in the reverse order; otherwise `los_mux.c` restores a stale priority. Deletion of a task that owns a mutex
is left out, as `los_task.h` leaves it to the callers to release first. Under the scheduler lock a pend fails, so the lock is no
variable here or in `LosSem`.

`LosSem`: `inside`, `permits` and `stale` are history variables: the tasks that have a permit, the permits in
existence, and woken tasks whose semaphore was deleted before they ran. Posts come from the holder of a
permit or, as signals, from anywhere.

### LosTask

What the `OsSched*` functions read and write is one record, and each of them is an operator on it, so that an
action composes them as the code does. Status words are sets of flags. Between the section of a call and its
`LOS_Schedule`, interrupt handlers may act: `resched` says that a switch is due, and until `OsSchedTaskSwitch` only
calls that handlers may make are enabled. Times are left out (any task with a timer may be next), as are the
`TIMEOUT` flag, which the modules of the objects have, and stacks. A slice is a few units, of which a switch takes
any number. `LOS_TaskCreate` has the sections of the code, between which others act: the rounds of
`OsRecycleFinishedTask`, the removal of a block from the free list (`TakeFreeTCB`), the initialisation and the return of the ID (`OsNewTaskInit`, unlocked, one step because
nobody can name the block before its end; `NewTaskFails` is the return without memory), and `ReadyNewTask`. `creating` and `block` say how far a task has come with it, and with which block; `leaked` is a
history variable, the blocks whose creator was deleted before it used them. `LOS_TaskCreateOnly` and `LOS_TaskResRecycle` are its first parts. `waitList` is the list of
some kernel object. `Calls` names five calls that the code does not refuse and that break its lists: resuming a task that still runs, suspending or resuming one that
has exited, joining an exited task twice, and resuming or deleting a task whose ID is known but which `LOS_TaskCreate` has still to queue. The run is without them.

### Irrigation

Each task has a label for the piece of code it is in, and every access to the pump's pin or a shared variable is
a step. The converter's values are scaled: 100 stands for the 3441 of dry soil. Percentages are computed in the
code's order and modulo the size of the word. A temperature is only where it came from. A failed read leaves the old
value, as in the code; that the handle is closed then has no consequence in the model, where a later read may succeed.

## 3. Runs

| Run | Expectation | Shows |
|---|---|---|
| `event` | pass | nobody sleeps on an event it has; the list, the sleeping tasks and destruction agree, and a call meets a destroyed list only if the destroy overtook it; a woken task finds its event unless robbed |
| `swtmr` | pass | a handler is called for a deleted timer only if the deletion came after the comparison of IDs; the free list is exact; a ticking timer is listed or its expiry is queued; a queued one-shot timer comes to an end |
| `countdown` | pass | a pause freezes the count; the timer follows the button; a start takes the time shown and counts from zero, but for a late expiry; a count-down ends |
| `countdown_clear` | violation | an expiry queued before `LOS_SwtmrStop` overwrites the rollers that clear has set (they show 10:15) |
| `cache` | pass | the buffers implement `LatestValue` |
| `accounts` | pass | no dangling pointer and matching vectors, up to two followers; a refinement of `FollowGraph` |
| `pages` | pass | life cycle, stack, screen, stash and drag agree; the manager gets idle again |
| `queue` | pass | cells, messages and mail boxes are conserved; nobody sleeps for what is on offer; deletion never hits a running operation; a refinement of `BoundedDeque`; as long as messages come, a sleeping reader is served |
| `mutex` | pass | owner and count are what callers were told; nobody waits for a free mutex; inherited priorities end; waiting tasks are served |
| `semaphore` | pass | permits are conserved; nobody sleeps while one is on offer; waiting tasks are served |
| `tasks` | pass | queues, bitmap, lists, timers, control blocks and flags agree; the most urgent task runs; only a resume ends a suspension |
| `irrigation` | pass | the pump runs for a reason and settles on what soil and switch ask for |

The violation is recorded as a finding, with the line of the repository that says otherwise.

### What the passing runs leave out

The code does not refuse every call that breaks it. Where a property needs callers that do not make such a call, a
constant says so, and the action has the call for the other value. With that value in the `.cfg`, TLC finds the property violated:

| Constant | Value | Violated | What the code does |
|---|---|---|---|
| `Careful` of `LosSwtmr` | FALSE | `TickingIsServed` | `OsSwtmrTask` (`los_swtmr.c:97`) deletes a one-shot timer without a look at its state; one that was started again after its expiry is free and in the sorted list |
| `Careful` of `PageManager` | FALSE | `LifecycleInOrder` | `BackHome` on the bottom page, or `Pop` and `Push`, load a page over its root (`PM_State.cpp:93`) |
| `Careful` of `PageManager` | FALSE | `NoFreedPage`, `ManagerIsServed` | `Uninstall` (`PM_Base.cpp:139`) frees a page in the middle of a switch, or drops the spring-back whose end would clear `IsBusy` |
| `MaxFollowers` of `DataCenter` | 3 | `VectorsAgree` | `~Account` (`Account.cpp:103`) skips the second of three followers, which keeps a pointer to freed memory |
| `Nested` of `LosMux` | FALSE | `PriorityRestored` | a mutex released out of order restores the priority of the time it was locked (`los_mux.c:303`) |
| `MailInLock` of `LosQueue` | TRUE | `BoxesConserved`, `NobodySleepsOnOffer` | `OsQueueMailAlloc` (`los_queue.c:585`) waits with the scheduler locked, comes back at once without a box and stays listed |
| `Calls` of `LosTask` | `{"resume_running"}` | `ReadyQueuesExact` | `OsSchedResume` (`los_sched.c:370`) queues a task that has suspended itself and still runs; the switch queues it again |
| `Calls` of `LosTask` | `{"resume_exited"}` | `NoTaskIsLost` | `LOS_TaskResume` (`los_task.c:876`) makes a task ready that was deleted while it was suspended |
| `Calls` of `LosTask` | `{"join_twice"}` | `TCBsConserved` | two joiners of one exited task both free its control block |
| `Calls` of `LosTask` | `{"resume_creating"}` | `ReadyQueuesExact` | `LOS_TaskCreate` (`los_task.c:835`) queues a task that was resumed since its ID was stored (`los_task.c:809`) |
| `Calls` of `LosTask` | `{"delete_creating"}` | `NoTaskIsLost` | the same line queues a block whose task was deleted since |
| `Readings` of `Irrigation` | with one above `MaxHumidity` | `PumpHasReason` | the subtraction in `uint32_t` wraps (`ui_control.c:152`) |

Three races that no caller can avoid are allowed for in the property, which says that nothing else leads to the same end: a destroy between the checks and the lock of
an event call (`WaitersAreListed`), a deletion between the comparison and the call of a handler (`OnlyLiveHandlers`), and an expiry still to be counted when a clear resets the count
(`StartTakesRollers`). So are the block of a deleted creator (`TCBsConserved`) and the rights of deleted tasks in the queue and the semaphore.

Five more shortcomings are known without a property about them: `LOS_TaskDelete` makes a joining task ready and does not schedule it (`los_task.c:1128`); a count-down started at 00:00 passes its end, as `==` is
tested after the increment (`ui_control.c:174`); a released mutex goes to the first waiter, which inherits nothing from a
more urgent one behind it (`los_mux.c:312`); `GetTepmData` replaces the measured
temperature by a constant (`ui_control.c:113`); and two clicks within the 10 ticks for which the receiver does not listen merge into flags that neither
of its tests accepts (`ui_control.c:166`).

Bounds, and why they are enough:

* `event`: three tasks, one of them a system task, and two bits. Two waiters are what it takes for one to
  rob the other, two bits for AND to be completed by two writes. The modes contain a rejected one. `MaxWriting` = 1: writes of one set of events at a time
  are past their checks, any number of them. After a fault the system stops, so deadlock is not checked.
* `swtmr`: two control blocks, two generations and two places in the queue (the code has as many places as
  blocks). A periodic timer alone can fill the queue, a block can be deleted and used again while an
  expiry of its first timer waits, and two blocks show a free list in another order than the first.
* `countdown`: one time, 00:02, beside the 00:00 and 00:10 that the code itself sets. Two
  seconds give a refresh and an end. `MaxBacklog` = 1: the handler of one expiry is far shorter than
  the period of one second, so a second one is not queued before the first is taken.
  `MaxCount` = 2: the clock stops when a count has passed the selected time, so a
  count-down from 00:10 is followed for its first seconds only.
* `cache`: four values; two buffers and one fresh value never hold more than two at a time.
* `accounts`: AccountMain and three more, two of them with the same ID. `MaxFollowers` = 2
  is the most with which every follower is told.
* `pages`: a page of each cache mode and a first page without animation; two stash sizes, so that
  a stash of another size is met. A page is in the stack at most once, so the stack needs no bound.
* `queue`: two tasks and interrupt handlers, which read and write as well without sleeping: both tasks may sleep in one list, or one sleeps
  and the other is woken, while an interrupt acts; two messages, to tell orders apart; queues of one and two cells, in which every move wraps; one mail box,
  for which both can wait. No symmetry, because liveness is checked.
* `mutex`: three priorities, the least with which one task can stand between two others, and two mutexes, so that
  inheritance can nest; two locks per task, recursive ones included. Tasks that lock the two crosswise wait for ever,
  which is the callers' fault, so deadlock is not checked.
* `semaphore`: limits 1 and 2 and three tasks; `MaxPermits` = 3 lets signals go beyond both limits.
* `tasks`: three control blocks (one runs, one waits for it, one is recycled or being made into a task), two priorities, a slice of one unit and one level of lock.
  Permutations of the control blocks are a symmetry: no task is named in a definition, the first one and the order of the first free list are any, and
  nothing live is checked.
* `irrigation`: readings on both sides of the threshold and at both ends of the scale; a history of three.

Fairness. `LosSwtmr`: weak fairness of `Swt_Task`, which is created with the highest priority, and of
the return of handlers. Callers and the clock owe nothing. `CountDown`: weak fairness of the tick interrupt and of the two tasks of priority 0,
which share the processor in time slices, and strong fairness of the LVGL task, which is enabled whenever
both of them are blocked, again and again, since they block after bounded work. The user owes nothing. `PageManager`:
weak fairness of the end of each animation, because LVGL's animation timer runs with
`lv_timer_handler`. `LosQueue`, `LosMux` and `LosSem` assume no fairness: their liveness
properties say that a task is served *if* messages, releases or posts keep coming, which is what the caller of a pend may
expect of the list. `Irrigation`: weak fairness of the two tasks, both of which sleep and are time-sliced, and of the rest of a handler
that has started. The other modules state no liveness.

## 4. Proofs

`LosEventProofs`, for any set of tasks, system tasks, bits and reading modes, assuming
only that bit 25 is not an event bit, that "nobody" is not a task and that the modes are modes:
`TypeCorrect`, `NeverMissesWakeup`, `AlwaysListed`, `WokenFinds`. The invariants are not
inductive alone. A waiter with an empty mask, or with neither OR nor AND, would be
recognised by no test of `LOS_EventWrite`; `WaitIsChecked` says that
`OsEventReadParamCheck` lets no such waiter in, and a task keeps its checked arguments up to the lock. `LateCallsAreKnown`: a call that is under way on a destroyed event was overtaken by the destroy. The inductive invariant `IInv` is the conjunction of
these two, typing and the three properties. The argument rests on lemmas about the pure
functions: `LOS_EventWrite`'s test wakes exactly those whose poll would succeed
(`WakesComplete`, `WakesSound`), although in OR mode it looks at the new bits only and
in AND mode at all of them; more bits never spoil a poll (`PollMonotone`).
There is one lemma per action.

`LosSwtmrProofs`, for any set of control blocks, at least two generations and a queue of any size, under
`Careful`: `TypeCorrect`, `HandlersAreLive`, `FreeListStaysExact`, `TickingStaysServed`. Four facts
about the items in the queue and the one that `Swt_Task` has make the conjunction of these inductive. `IdsInPlace`: an ID names the block it is stored in, so two blocks
never share one. `ValidIsLive`: a queued item whose ID is valid belongs to a timer that exists; without
it the comparison in `CheckItem` would say nothing about the past; `TakenIsLive` says the same of the item taken and not yet compared. `ListedIsNotQueued`: a
one-shot timer is not both in the sorted list and in the queue, so `Swt_Task` deletes no listed
timer; this is where `Careful` is needed. `DeleteKeepsRest` is the
common part of the two ways to delete a timer, for any remainder of the queue.

`PendListProofs` has no theorem about a specification: it says what the list operations of `PendList` do to the set and the order of the
tasks in a list that has none of them twice. The next four modules use it, as the kernel code uses `los_list.h`.

`LosSemProofs`, for any finite set of tasks, any limits and any number of permits: `PermitsAreAccounted`, and from the equation of permits
`OnePermitIsALock`, which is what callers of a binary semaphore rely on. `Bookkeeping` makes it inductive: no task is listed twice, a task that has a permit is
in the user's code, only woken tasks are stale, and nobody has or is given a permit of a deleted semaphore. Each action moves one permit between the three terms of the sum, and the proof is that
the two sets it counts gain or lose exactly one task.

`LosMuxProofs`, for any tasks, priorities and mutexes and any depth of locking: `OwnersAlwaysAgree`, `WaitersAlwaysHaveOwner`, and
`MutualExclusion`, which follows from the first because a lock is told to the owner alone. `RecordsAreSound` makes them
inductive: the count is zero exactly when there is no owner, a deleted mutex is free, no task is listed twice. `InheritanceEnds`
is proved for callers that release in the reverse order (`Nested`), with two more facts. `FirstRemembers`: the mutex a task locked first, or is
being given while it has none, stores the priority the task was created with. `NoneIsWorse`: no stored priority is less urgent than that. A task that
inherits through an inner mutex gets the stored, possibly inherited, priority back; the last release gives it its own.

`LosQueueProofs`, for any length, messages and finite sets of tasks and mail boxes, and callers that do not allocate mail with the scheduler
locked (`~MailInLock`): `CellsAreConserved`, `NobodySleepsInVain`, `DeletedIsUnused`, `BoxesAreConserved` and `QueueIsADeque`, the refinement
of `BoundedDeque`. The four invariants need each other, and three facts more: no task is listed twice
(`ListsAreSound`); no right of a deleted queue is lost (`DeletedIsSettled`), since the sum of counts that `LOS_QueueDelete` tests would be short
otherwise; and the tail is as far from the head as there are messages, whoever has the right to them (`RingIsSound`). An operation that finds its
message or cell at once and one that a woken task carries out later change the ring alike, so both are instances of `OperationKeepsIInv`, after
`AtOnceMoves` and `ResumesMoves` have shown that they move one right from one account to another. The refinement reads the ring from its head
(`ReadTakesFirst`, `TailWriteAppends`, `HeadWritePrepends`: an operation on the ring is one on the sequence of messages, also where it wraps round),
and every action that moves no message leaves that sequence alone.

`LosTaskProofs`, for any number of tasks and priorities, any time slice and any depth of `LOS_TaskLock`: `QueuesAreExact`, `TasksAreNotLost`,
`ControlBlocksAreConserved`, `TheMostUrgentRuns`, and the action property `SuspensionsHold`, for callers that make none of the hazardous
calls (`Calls = {}`). A task is in the queues, lists and sort link that its flags say, and the code reads the flags to find the lists and the lists to
set the flags; so the inductive invariant `IInv` says both at once. `QueuesFit`: the ready queues and the bitmap follow `READY`. `FlagsFit`: which
flags go together; a ready task has no other state, which is why `OsSchedTaskEnQueue` never asserts. `ListsFit`: `PEND` is a node in a
waiting list, and a flag with a time limit a node in the sort link once the task has been switched out. `RunFits`: one block runs, and if no switch is due it has
no flag that would stop it; while an interrupt comes between a call and its `LOS_Schedule`, `resched` is what tells the two cases apart. `BlocksFit`: `UNUSED` is a place in the
free list or in the recycle list, in the hands of one creator or lost with one. `CreationFits`: a task has a block exactly while it makes a task of it, no two have the same one, none is a leaked one, and a block
whose ID is out has no flag but `SUSPEND` and `JOINABLE` when `ReadyNewTask` queues it, as nobody resumes or deletes it. `JoinsFit`: a task in `LOS_TaskJoin` is in the list of the task it joins until that one exits, and is the only one.
`MostUrgentRuns` is a part as well. The proof first says what each `OsSched` operator does to the queues, then what a change of one task's flags does to the parts,
then has one lemma for each action. `SuspensionsHold` follows from the flags that each action takes away.

`ApplicationProofs` holds the proofs about the applications and extends all their modules.

The count-down, for any times the user can roll to, any backlog of expiries and any length of a count that stays in the lower
half of a `UINT32` (`MaxCount + MaxBacklog < 2147483647`, 68 years of seconds, and the largest number TLC can evaluate the assumption with): `PauseAlwaysFreezes`, `TimerAlwaysFollowsButton`,
`StartAlwaysTakesRollers`, `TotalNeverWraps`. Three tasks share unprotected globals, so the inductive invariant
says, for every place in a click handler, where the receiver and the callback can be: a handler that a click has started finds the receiver
asleep (`ReceiverFitsHandler`), and from the first statement of `start_ok` until the receiver has read the event the timer is off, its queue
empty and its callback not running (`TimerIsOff`). This is why the copies of the rollers are not spoilt on the way to the product (`CopiesAreFresh`)
and why a pause, which waits for both tasks to block, leaves nothing behind. It rests on the priorities (`LowPriorityRuns`) and on the
distance between clicks, as the model does. `CountIsBounded` counts an expiry in the queue or in the callback's hands with the
seconds counted already, since a callback may store what it loaded before a reset. `CountIsReset`: from the reset of a clear to the next start the count stays zero, as the timer is off, unless
an expiry was to be counted at the reset.

The account cache, for any set of values: `CacheTypeCorrect`, `OneFresh`, and `CacheImplements`,
the refinement of `LatestValue`. The inductive invariant is that the buffer read last is
readable exactly while `Publish` holds it. From it follows that a commit always writes the other
buffer and a read always takes the other buffer, which is what makes the fixed order of
`GetReadBuf` harmless.

The irrigation, for any threshold, any length of the history and any readings up to `MAX_HUMIDITY`: `PumpAlwaysHasReason`. `PumpHasReason` is inductive
as it stands: each of the two tasks that write the pin takes its decision before the write, and the disjunct of a write under way covers
the time between. The bound on the readings is a hypothesis; above it `Percent` wraps round (see the hazards).

The page manager, for any pages, cache modes, animation types and routes, and callers as `Careful` describes them: `LifecycleStaysInOrder`, `TopIsAlwaysShown`,
`FreedPageIsUnused`, `DragAlwaysHasGetter`. Between two handlers a page is in one of five phases, each of which ties its state, its last callback, its root and its flags
together: `Off`, `Asleep` (loaded, cached and out of sight), `Appearing`, `InFront`, `Leaving`. The inductive invariant `PageInv` says which page is in which. `StackFits`: the
stack has no page twice and only installed ones, its top is current, and a switch has two different ends. `PhasesFit`: every page but the two ends of a switch is
`Off` or `Asleep`, and while a switch is in progress one of its ends is still busy; this is why `SwitchTo`, which is refused during a switch, always finds a new page that it may load
or show and an old one that is in front, and why the last animation to end is the one that ends the switch. Push, Pop and BackHome differ in what they do
to the stack and to the pages they drop, and are then instances of `SwitchKeepsPageInv`. `DragAlwaysHasGetter` has a second invariant, `AnimFits` (a page
without animation is at the bottom, the bottom page has no drag callbacks, and between two switches the current type is that of the page in front) with `CacheFits` (a
page that left the stack keeps its root and its callbacks only if it is cached for good), and a second hypothesis, `NoneIsFirst`: such pages are pushed onto the empty stack only, as the
application does with its first page.

The data centre, for any accounts, any IDs, shared or not, and deletions of accounts with up to two followers (`MaxFollowers <= 2`): `VectorsAlwaysAgree`,
`MainAlwaysFollowsPool`, and `CentreImplements`, the refinement of `FollowGraph`. The inductive invariant `CentreInv` has three parts. `SidesAgree` is `ListsAgree`
for all addresses, with the fact that whoever is followed is in the pool; without it AccountMain could follow an account outside the pool whose ID keeps `Subscribe`
from following the one inside. `DeadHaveNothing`: an address without account has no vectors and no timer. `PoolFits`: the pool has live accounts of different IDs, and AccountMain follows them.
Vectors without duplicates are what makes `Find` and `Remove` determined: the set of matching places has one element, so no induction over the vector is needed (`FindFacts`, `RemoveFacts`).
`UnfollowFacts` unrolls the destructor's loop for none, one and two followers and shows that what the compiled range-for leaves behind is every vector without the
account; for three this is false (section 3), so the hypothesis is as weak as the code allows.

The assumptions on constants are those of the modules: finiteness of the sets that are counted, that "nobody" and "nothing" are no
tasks and messages, and that limits and lengths are positive numbers. `Careful`, `Nested`, `~MailInLock`, `Calls = {}`, `NoneIsFirst`, `MaxFollowers <= 2` and the bound on the readings are hypotheses of the theorems and say what section 3
says of callers; the other theorems have none.

Every invariant, action property and refinement that a passing run checks is so proved. Only model-checked is
everything live (`OneShotEnds`, `CountDownEnds`, `ManagerIsServed`, `ReadersAreServed`, `WaitersAreServed`,
`PumpSettles`): fairness is out of the prover's reach.

## 5. Not modelled

* Coordinates, styles and texts of the user interface; the animation tables of `PM_Anim.cpp`.
* Times of software timers, and with them `LOS_SwtmrTimeGet`, overruns and the order of the sorted list.
* Drivers, HALs and entry points: input and output without state of their own.
* `delete[]` of the wrong pointer in `~Account` for an account with a cache: heap corruption is below
  this level, and no account of the program has a cache.
* The scheduler's choice of the running task in the modules of the kernel's objects (see LosEvent); it is in LosTask.
* Clock arithmetic (`los_tick.c`, response times), start-up (`los_init.c`), stacks, statistics, and freezing
  (`LOSCFG_KERNEL_PM` is off).
* The free lists of queue, mutex and semaphore control blocks: a block stands for what it holds.
* The WiFi client of the weather application (`wifi_connect.c`, `wifi_example.c`): the build files do not list it, and `HAL.cpp` does not call
  `WiFi_Init`. The rest of the HAL returns constants or reads registers. Pages and `DataProc` are view code; `main.c` does not start the
  framework at this commit (`App_Init` is commented out).
* The count-down screen of the weather application: a sequential loop inside one click handler, which shares no state with another task.
* Whether two tasks are inside LVGL at a time: the sampling task of the irrigation application calls it without a lock, so nothing prevents it.
* That tasks of one priority take turns: the order within a ready queue is modelled, but liveness of three control blocks is too large to check.
* Memory of LVGL, which grows with a chart series per round of the irrigation task.
* Vendored code outside the kernel; what the models need of LVGL is marked where it is used.

## 6. Plan

1. An abstract page stack that `PageManager` implements.
2. `LosSwtmr` over `LosQueue`: the handler queue of the timers is a queue of the kernel.
3. `LosEvent`, `LosSem`, `LosMux` and `LosQueue` over `LosTask`, in place of the free choice of the running task.
