------------------------------ MODULE LosSwtmr ------------------------------
(***************************************************************************)
(* Software timers of the LiteOS-M kernel (kernel/src/los_swtmr.c).  The   *)
(* tick interrupt takes expired timers from the sorted list and queues     *)
(* their handlers; Swt_Task takes them from the queue and calls them.      *)
(* Between the two, tasks may start, stop or delete the timer and even     *)
(* create another one in its control block; so may an interrupt, or another*)
(* task of priority 0, between the steps of Swt_Task.                      *)
(*                                                                         *)
(* A section under LOS_IntLock is one action.  Time is left out: any       *)
(* listed timer may be the next to expire, so the sorted list is a set.    *)
(* usTimerID is the pair of usTimerID % LIMIT, the place of the control    *)
(* block, and usTimerID / LIMIT, which counts the timers it has held.      *)
(* Timers are not aligned (LOSCFG_BASE_CORE_SWTMR_ALIGN is 0).             *)
(***************************************************************************)
EXTENDS Naturals, Sequences

CONSTANTS Blocks,      \* places in g_swtmrCBArray
          Generations, \* OS_SWTMR_MAX_TIMERID / LOSCFG_BASE_CORE_SWTMR_LIMIT
          QueueSize,   \* OS_SWTMR_HANDLE_QUEUE_SIZE
          FirstList,   \* g_swtmrFreeList as OsSwtmrInit links it
          NoItem,      \* Swt_Task has no item
          Careful      \* callers do not start a one-shot timer whose expiry is queued

ASSUME SizeAssumption == Generations \in Nat \ {0, 1} /\ QueueSize \in Nat \ {0}
ASSUME FirstListAssumption ==
  /\ FirstList \in Seq(Blocks)
  /\ \A c \in Blocks : \E i \in 1..Len(FirstList) : FirstList[i] = c
  /\ \A i, j \in 1..Len(FirstList) : FirstList[i] = FirstList[j] => i = j
ASSUME CarefulAssumption == Careful \in BOOLEAN

Modes  == {"ONCE", "PERIOD", "NO_SELFDELETE"}
States == {"UNUSED", "CREATED", "TICKING"}
Ids    == Blocks \X (0..Generations - 1)
Timer  == [id : Ids, mode : Modes, state : States]
\* An item of the queue; live is history: its timer has not been deleted since.
Item   == [id : Ids, live : BOOLEAN]

ASSUME NoItemAssumption == NoItem \notin Item

VARIABLES timer,         \* g_swtmrCBArray
          freeList,      \* g_swtmrFreeList
          sortLink,      \* the blocks in g_swtmrSortLink
          handlerQueue,  \* g_swtmrHandlerQueue
          swtTask,       \* Swt_Task waits for an item, took one, checked it, calls it
          swtmrHandle,   \* the item Swt_Task took, or NoItem
          dropped,       \* history: one-shot timers whose expiry found the queue full
          overtaken      \* history: the timer was deleted between the check and the call

vars == <<timer, freeList, sortLink, handlerQueue, swtTask, swtmrHandle, dropped, overtaken>>

TypeOK ==
  /\ timer \in [Blocks -> Timer]
  /\ freeList \in Seq(Blocks)
  /\ sortLink \in SUBSET Blocks
  /\ handlerQueue \in Seq(Item)
  /\ Len(handlerQueue) <= QueueSize
  /\ swtTask \in {"waits", "took", "checked", "calls"}
  /\ IF swtTask = "waits" THEN swtmrHandle = NoItem ELSE swtmrHandle \in Item
  /\ dropped \in SUBSET Blocks
  /\ overtaken \in BOOLEAN

\* OsSwtmrInit; the memory is zero, and LOS_SWTMR_MODE_ONCE is 0.
Init ==
  /\ timer = [c \in Blocks |-> [id |-> <<c, 0>>, mode |-> "ONCE", state |-> "UNUSED"]]
  /\ freeList = FirstList
  /\ sortLink = {}
  /\ handlerQueue = <<>>
  /\ swtTask = "waits"
  /\ swtmrHandle = NoItem
  /\ dropped = {}
  /\ overtaken = FALSE

InQueue(id) == \E i \in 1..Len(handlerQueue) : handlerQueue[i].id = id

\* Swt_Task is at this step with an item of the timer.
Held(step, id) == swtTask = step /\ swtmrHandle.id = id

\* An expiry of the timer is queued, or taken from the queue and not checked yet.
Queued(id) == InQueue(id) \/ Held("took", id)

\* Mutant: the ID only says which block is meant.
AnyGeneration(id) == TRUE

\* The block the ID leads to still has this ID.
Valid(id) == timer[id[1]].id = id

-----------------------------------------------------------------------------
\* The ID OsSwtmrDelete gives the block's next timer.
NextId(id) == IF id[2] < Generations - 1 THEN <<id[1], id[2] + 1>> ELSE <<id[1], 0>>

\* History: the queue once the timer with this ID is deleted.
Retired(queue, id) ==
  [i \in 1..Len(queue) |->
     IF queue[i].id = id THEN [id |-> id, live |-> FALSE] ELSE queue[i]]

\* OsSwtmrDelete of block c.  An ID does not come back while an item of its
\* earlier bearer is queued or in Swt_Task's hands: in the code that takes
\* 2^32 / LIMIT deletions of one block (the bound is Generations here).
OsSwtmrDelete(c) ==
  LET id == timer[c].id
  IN /\ ~InQueue(NextId(id))
     /\ ~(swtTask # "waits" /\ swtmrHandle.id = NextId(id))
     /\ timer' = [timer EXCEPT ![c].id = NextId(id), ![c].state = "UNUSED"]
     /\ freeList' = <<c>> \o freeList
     /\ handlerQueue' = Retired(handlerQueue, id)
     /\ dropped' = dropped \ {c}

\* LOS_SwtmrCreate with valid arguments.  The fields are written after the lock is
\* released, but the block is in no list and its ID is not known to anybody yet.
LOS_SwtmrCreate(mode) ==
  /\ freeList # <<>>
  /\ timer' = [timer EXCEPT ![Head(freeList)].mode = mode,
                            ![Head(freeList)].state = "CREATED"]
  /\ freeList' = Tail(freeList)
  /\ UNCHANGED <<sortLink, handlerQueue, swtTask, swtmrHandle, dropped, overtaken>>

\* LOS_SwtmrStart of a created timer; one that is ticking is stopped first.
LOS_SwtmrStart(id) ==
  LET c == id[1]
  IN /\ Valid(id)
     /\ timer[c].state # "UNUSED"
     /\ Careful => ~(timer[c].mode = "ONCE" /\ Queued(id))
     /\ timer' = [timer EXCEPT ![c].state = "TICKING"]
     /\ sortLink' = sortLink \cup {c}
     /\ dropped' = dropped \ {c}
     /\ UNCHANGED <<freeList, handlerQueue, swtTask, swtmrHandle, overtaken>>

\* LOS_SwtmrStop of a ticking timer; a queued expiry stays in the queue.
LOS_SwtmrStop(id) ==
  LET c == id[1]
  IN /\ Valid(id)
     /\ timer[c].state = "TICKING"
     /\ timer' = [timer EXCEPT ![c].state = "CREATED"]
     /\ sortLink' = sortLink \ {c}
     /\ dropped' = dropped \ {c}
     /\ UNCHANGED <<freeList, handlerQueue, swtTask, swtmrHandle, overtaken>>

\* History: what the deletion of a timer means for the item Swt_Task has.
RetireHeld(id) ==
  /\ swtmrHandle' = IF Held("took", id) \/ Held("checked", id)
                    THEN [id |-> id, live |-> FALSE] ELSE swtmrHandle
  /\ overtaken' = (overtaken \/ Held("checked", id))

\* Mutant: the timer's state is not looked at.
DeleteInAnyState(id) ==
  /\ Valid(id)
  /\ OsSwtmrDelete(id[1])
  /\ RetireHeld(id)
  /\ sortLink' = sortLink \ {id[1]}
  /\ UNCHANGED swtTask

\* LOS_SwtmrDelete of a created timer, stopping it if it ticks.
LOS_SwtmrDelete(id) ==
  /\ Valid(id)
  /\ timer[id[1]].state # "UNUSED"
  /\ OsSwtmrDelete(id[1])
  /\ RetireHeld(id)
  /\ sortLink' = sortLink \ {id[1]}
  /\ UNCHANGED swtTask

\* Mutant: a periodic timer is not put back into the list.
ListedOnce(c) == sortLink \ {c}

\* The list after the expiry of block c: OsSwtmrStart puts a periodic timer back.
AfterExpiry(c) == IF timer[c].mode = "PERIOD" THEN sortLink ELSE sortLink \ {c}

\* OsSwtmrScan and OsSwtmrTimeoutHandle for one expired timer, in the tick
\* interrupt.  LOS_QueueWriteCopy with LOS_NO_WAIT fails when the queue is full.
OsSwtmrTimeoutHandle(c) ==
  LET full == Len(handlerQueue) = QueueSize
  IN /\ c \in sortLink
     /\ handlerQueue' = IF full THEN handlerQueue
                        ELSE Append(handlerQueue, [id |-> timer[c].id,
                                                   live |-> timer[c].state # "UNUSED"])
     /\ sortLink' = AfterExpiry(c)
     /\ timer' = [timer EXCEPT ![c].state =
                    CASE timer[c].mode = "PERIOD"        -> "TICKING"
                      [] timer[c].mode = "NO_SELFDELETE" -> "CREATED"
                      [] timer[c].mode = "ONCE"          -> @]
     /\ dropped' = IF full /\ timer[c].mode = "ONCE" THEN dropped \cup {c} ELSE dropped
     /\ UNCHANGED <<freeList, swtTask, swtmrHandle, overtaken>>

\* OsSwtmrTask: LOS_QueueReadCopy gives Swt_Task the next item.
OsSwtmrTask ==
  /\ swtTask = "waits"
  /\ handlerQueue # <<>>
  /\ swtTask' = "took"
  /\ swtmrHandle' = Head(handlerQueue)
  /\ handlerQueue' = Tail(handlerQueue)
  /\ UNCHANGED <<timer, freeList, sortLink, dropped, overtaken>>

\* Mutant: a one-shot timer is not deleted.
OnceIsKept ==
  /\ swtTask = "took"
  /\ IF Valid(swtmrHandle.id)
     THEN swtTask' = "checked" /\ UNCHANGED swtmrHandle
     ELSE swtTask' = "waits" /\ swtmrHandle' = NoItem
  /\ UNCHANGED <<timer, freeList, handlerQueue, sortLink, dropped, overtaken>>

\* The locked section of OsSwtmrTask: an item whose timer is gone is ignored, and
\* a one-shot timer is deleted before its handler is called.
CheckItem ==
  LET c == swtmrHandle.id[1]
  IN /\ swtTask = "took"
     /\ IF Valid(swtmrHandle.id)
        THEN swtTask' = "checked" /\ UNCHANGED swtmrHandle
        ELSE swtTask' = "waits" /\ swtmrHandle' = NoItem
     /\ IF Valid(swtmrHandle.id) /\ timer[c].mode = "ONCE"
        THEN OsSwtmrDelete(c)
        ELSE UNCHANGED <<timer, freeList, handlerQueue, dropped>>
     /\ UNCHANGED <<sortLink, overtaken>>

\* OsSwtmrTask calls the handler, which it has from the item, not from the timer.
CallHandler ==
  /\ swtTask = "checked"
  /\ swtTask' = "calls"
  /\ overtaken' = FALSE
  /\ UNCHANGED <<timer, freeList, sortLink, handlerQueue, swtmrHandle, dropped>>

\* The handler returns to OsSwtmrTask.
HandlerReturns ==
  /\ swtTask = "calls"
  /\ swtTask' = "waits"
  /\ swtmrHandle' = NoItem
  /\ UNCHANGED <<timer, freeList, sortLink, handlerQueue, dropped, overtaken>>

Next ==
  \/ \E mode \in Modes : LOS_SwtmrCreate(mode)
  \/ \E id \in Ids : LOS_SwtmrStart(id) \/ LOS_SwtmrStop(id) \/ LOS_SwtmrDelete(id)
  \/ \E c \in Blocks : OsSwtmrTimeoutHandle(c)
  \/ OsSwtmrTask
  \/ CheckItem
  \/ CallHandler
  \/ HandlerReturns

\* Swt_Task has the highest priority and handlers must not block.
Fairness == WF_vars(OsSwtmrTask \/ CheckItem \/ CallHandler \/ HandlerReturns)

Spec == Init /\ [][Next]_vars /\ Fairness

-----------------------------------------------------------------------------
\* Swt_Task calls no handler of a timer that was deleted after its expiry, not
\* even when the control block holds another timer by now: the comparison of
\* usTimerID in OsSwtmrTask tells them apart.  The handler of a deleted timer is
\* called only if the deletion came after the comparison: los_swtmr.c:91-99 is
\* locked, the call of 102 is not.
OnlyLiveHandlers == swtTask = "checked" /\ ~swtmrHandle.live => overtaken

\* The free list holds every unused control block exactly once, so two calls of
\* LOS_SwtmrCreate never share a block and none is lost, although blocks come
\* back both from LOS_SwtmrDelete and from Swt_Task.
FreeListIsExact ==
  /\ \A c \in Blocks :
       timer[c].state = "UNUSED" <=> \E i \in 1..Len(freeList) : freeList[i] = c
  /\ \A i, j \in 1..Len(freeList) : freeList[i] = freeList[j] => i = j

\* A ticking timer is in the list or, being a one-shot timer that expired, has its
\* handler queued, unless the queue was full; and a listed timer is ticking.
TickingIsServed ==
  \A c \in Blocks :
    /\ c \in sortLink => timer[c].state = "TICKING"
    /\ timer[c].state = "TICKING" =>
         \/ c \in sortLink
         \/ timer[c].mode = "ONCE" /\ (c \in dropped \/ Queued(timer[c].id))

\* A one-shot timer whose expiry was queued does not go on ticking for ever:
\* Swt_Task, or a caller, brings it to an end.
OneShotEnds ==
  \A c \in Blocks :
    (timer[c].state = "TICKING" /\ c \notin sortLink /\ c \notin dropped)
      ~> timer[c].state # "TICKING"
=============================================================================
