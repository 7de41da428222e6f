------------------------------- MODULE LosSem -------------------------------
(***************************************************************************)
(* A semaphore of the LiteOS-M kernel (kernel/src/los_sem.c), counting or  *)
(* binary, and the tasks that guard something with it.                     *)
(*                                                                         *)
(* A section under LOS_IntLock is one action.  LOS_SemPost hands a permit  *)
(* straight to the first waiting task, without counting it; that task comes*)
(* back from LOS_SemPend later, when it runs.  Which ready task runs next  *)
(* is left open.  Returns with an error change no state and are not steps. *)
(***************************************************************************)
EXTENDS PendList, FiniteSets

CONSTANTS Tasks,      \* the tasks that use the semaphore
          MaxCounts,  \* values of maxSemCount, 1 for a binary semaphore
          MaxPermits  \* bound: permits in existence that interrupts add to

ASSUME SemAssumption ==
  /\ IsFiniteSet(Tasks)
  /\ MaxCounts \subseteq Nat \ {0}
  /\ MaxPermits \in Nat

VARIABLES maxSemCount, \* 0 while semStat is OS_SEM_UNUSED
          semCount, semList,
          taskStatus,  \* in the user's code, pending, woken, timed out
          forever,     \* per task: it waits without a time limit
          inside,      \* history: tasks with a permit they have not posted
          permits,     \* history: permits created, posted from nowhere or lost
          stale        \* history: woken tasks whose semaphore was deleted

vars == <<maxSemCount, semCount, semList, taskStatus, forever, inside, permits, stale>>

Counts == UNION {0 .. m : m \in MaxCounts}

TypeOK ==
  /\ maxSemCount \in MaxCounts \cup {0}
  /\ semCount \in 0 .. maxSemCount
  /\ semList \in Seq(Tasks)
  /\ taskStatus \in [Tasks -> {"user", "pend", "woken", "timeout"}]
  /\ forever \in [Tasks -> BOOLEAN]
  /\ inside \in SUBSET Tasks /\ stale \in SUBSET Tasks
  /\ permits \in Nat

Init ==
  /\ maxSemCount = 0 /\ semCount = 0 /\ semList = <<>>
  /\ taskStatus = [t \in Tasks |-> "user"]
  /\ forever = [t \in Tasks |-> FALSE]
  /\ inside = {} /\ permits = 0 /\ stale = {}

Used == maxSemCount # 0

\* LOS_SemCreate and LOS_BinarySemCreate.
OsSemCreate(count, maxCount) ==
  /\ ~Used
  /\ count <= maxCount
  /\ maxSemCount' = maxCount
  /\ semCount' = count
  /\ semList' = <<>>
  /\ permits' = count
  /\ UNCHANGED <<taskStatus, forever, inside, stale>>

Deletable == semList = <<>>

\* A woken task that has not run yet does not keep it either.
LOS_SemDelete ==
  /\ Used
  /\ Deletable
  /\ maxSemCount' = 0
  /\ semCount' = 0
  /\ permits' = 0
  /\ inside' = {}
  /\ stale' = stale \cup {t \in Tasks : taskStatus[t] = "woken"}
  /\ UNCHANGED <<semList, taskStatus, forever>>

-----------------------------------------------------------------------------
\* LOS_SemPend with a permit on offer.
SemPendAtOnce(t) ==
  /\ Used
  /\ taskStatus[t] = "user" /\ t \notin inside
  /\ semCount > 0
  /\ semCount' = semCount - 1
  /\ inside' = inside \cup {t}
  /\ UNCHANGED <<maxSemCount, semList, taskStatus, forever, permits, stale>>

\* LOS_SemPend that must wait, up to the switch to another task.
SemPendWaits(t, ever) ==
  /\ Used
  /\ taskStatus[t] = "user" /\ t \notin inside
  /\ semCount = 0
  /\ semList' = Append(semList, t)
  /\ taskStatus' = [taskStatus EXCEPT ![t] = "pend"]
  /\ forever' = [forever EXCEPT ![t] = ever]
  /\ UNCHANGED <<maxSemCount, semCount, inside, permits, stale>>

\* Task t has been given a permit of this semaphore and has not run since.
Granted(t) == taskStatus[t] = "woken" /\ t \notin stale

\* The rest of LOS_SemPend, once the scheduler switches back to the task.
SemPendResumes(t) ==
  /\ taskStatus[t] \in {"woken", "timeout"}
  /\ inside' = IF Granted(t) THEN inside \cup {t} ELSE inside
  /\ taskStatus' = [taskStatus EXCEPT ![t] = "user"]
  /\ stale' = stale \ {t}
  /\ UNCHANGED <<maxSemCount, semCount, semList, forever, permits>>

\* OsSchedWakePendTimeTask, from the tick handler.
PendTimeout(t) ==
  /\ taskStatus[t] = "pend" /\ ~forever[t]
  /\ taskStatus' = [taskStatus EXCEPT ![t] = "timeout"]
  /\ semList' = LOS_ListDelete(semList, t)
  /\ UNCHANGED <<maxSemCount, semCount, forever, inside, permits, stale>>

-----------------------------------------------------------------------------
Wake(t, count) ==
  /\ semCount' = count
  /\ semList' = LOS_ListDelete(semList, t)
  /\ taskStatus' = [taskStatus EXCEPT ![t] = "woken"]

Count == semCount' = semCount + 1 /\ UNCHANGED <<semList, taskStatus>>

\* Mutant: the permit is counted although a waiting task got it.
WakesAndCounts ==
  /\ semCount # maxSemCount
  /\ IF semList = <<>> THEN Count ELSE Wake(Head(semList), semCount + 1)

\* Mutant: the task that came last is woken first.
WakesLast ==
  /\ semCount # maxSemCount
  /\ IF semList = <<>> THEN Count ELSE Wake(semList[Len(semList)], semCount)

\* What LOS_SemPost does to a semaphore in use; it fails at the limit.
SemPost ==
  /\ semCount # maxSemCount
  /\ IF semList = <<>> THEN Count ELSE Wake(Head(semList), semCount)

\* LOS_SemPost by a task that gives its permit back.
PostBack(t) ==
  /\ Used
  /\ taskStatus[t] = "user" /\ t \in inside
  /\ SemPost
  /\ inside' = inside \ {t}
  /\ UNCHANGED <<maxSemCount, forever, permits, stale>>

\* LOS_SemPost as a signal, from an interrupt handler or another task.
PostSignal ==
  /\ Used
  /\ permits < MaxPermits
  /\ SemPost
  /\ permits' = permits + 1
  /\ UNCHANGED <<maxSemCount, forever, inside, stale>>

\* LOS_TaskDelete: the permit of a task that has, or was given, one is lost.
LOS_TaskDelete(t) ==
  /\ taskStatus[t] # "user" \/ t \in inside
  /\ semList' = IF taskStatus[t] = "pend" THEN LOS_ListDelete(semList, t) ELSE semList
  /\ permits' = IF t \in inside \/ Granted(t) THEN permits - 1 ELSE permits
  /\ inside' = inside \ {t}
  /\ stale' = stale \ {t}
  /\ taskStatus' = [taskStatus EXCEPT ![t] = "user"]
  /\ UNCHANGED <<maxSemCount, semCount, forever>>

-----------------------------------------------------------------------------
Next ==
  \/ \E count \in Counts, maxCount \in MaxCounts : OsSemCreate(count, maxCount)
  \/ LOS_SemDelete
  \/ \E t \in Tasks : SemPendAtOnce(t)
  \/ \E t \in Tasks, ever \in BOOLEAN : SemPendWaits(t, ever)
  \/ \E t \in Tasks : SemPendResumes(t)
  \/ \E t \in Tasks : PendTimeout(t)
  \/ \E t \in Tasks : PostBack(t)
  \/ PostSignal
  \/ \E t \in Tasks : LOS_TaskDelete(t)

Spec == Init /\ [][Next]_vars

-----------------------------------------------------------------------------
\* Permits are conserved: each one in existence is on offer in semCount, with
\* one task past LOS_SemPend, or on its way to one woken task.  With one permit
\* that makes the semaphore a lock: at most one task is inside.
PermitsConserved ==
  Used => permits = semCount + Cardinality(inside)
                      + Cardinality({t \in Tasks : Granted(t)})

\* Nobody sleeps while a permit is on offer, nor on a deleted semaphore, and
\* exactly the sleeping tasks are listed.
NobodySleepsOnOffer ==
  /\ semList # <<>> => Used /\ semCount = 0
  /\ \A t \in Tasks : t \in Listed(semList) <=> taskStatus[t] = "pend"

\* LOS_SemPost and LOS_SemPend neither lose nor invent a permit, and do not leave
\* a task asleep beside one.
PermitsAccounted == TypeOK /\ PermitsConserved /\ NobodySleepsOnOffer

\* A waiting task is not overtaken for ever: as long as permits keep being
\* posted, it gets one, times out or is deleted.
Posted == semCount + Cardinality({t \in Tasks : taskStatus[t] = "woken"})

WaitersAreServed ==
  \A t \in Tasks :
    []<><<Posted' > Posted>>_vars =>
      (taskStatus[t] = "pend" ~> taskStatus[t] # "pend")
=============================================================================
