------------------------------- MODULE LosMux -------------------------------
(***************************************************************************)
(* The mutexes of the LiteOS-M kernel (kernel/src/los_mux.c): recursive    *)
(* locks with a list of waiting tasks and priority inheritance.            *)
(*                                                                         *)
(* A section under LOS_IntLock is one action.  A smaller number is a more  *)
(* urgent priority.  Which ready task runs next is left open.  Returns with*)
(* an error (in an interrupt, under the scheduler lock, from a system task,*)
(* no time to wait, not the owner) change no state and are not steps.      *)
(***************************************************************************)
EXTENDS PendList, FiniteSets

CONSTANTS Tasks,      \* the tasks that use the mutexes
          NoTask,     \* NULL
          Mutexes,    \* the control blocks of g_allMux
          BasePrio,   \* the priority a task was created with
          MaxHeld,    \* bound: locks a task holds at a time, recursive ones counted
          Nested      \* callers release in the reverse order of locking

ASSUME MuxAssumption ==
  /\ NoTask \notin Tasks
  /\ Mutexes # {}
  /\ BasePrio \in [Tasks -> Nat]
  /\ MaxHeld \in Nat
  /\ Nested \in BOOLEAN

VARIABLES used,         \* the mutexes whose muxStat is OS_MUX_USED
          muxCount, owner, muxPriority, muxList,
          taskStatus,   \* in the user's code, pending, woken, timed out
          pendOn,       \* per task: the mutex it waits for (while not in user code)
          forever,      \* per task: it waits without a time limit
          priority,     \* per task: its current priority
          held          \* history: the locks a task has taken, in order

mux  == <<used, muxCount, owner, muxPriority, muxList>>
vars == <<mux, taskStatus, pendOn, forever, priority, held>>

TypeOK ==
  /\ used \in SUBSET Mutexes
  /\ muxCount \in [Mutexes -> 0 .. MaxHeld]
  /\ owner \in [Mutexes -> Tasks \cup {NoTask}]
  /\ muxPriority \in [Mutexes -> Nat]
  /\ muxList \in [Mutexes -> Seq(Tasks)]
  /\ taskStatus \in [Tasks -> {"user", "pend", "woken", "timeout"}]
  /\ pendOn \in [Tasks -> Mutexes]
  /\ forever \in [Tasks -> BOOLEAN]
  /\ priority \in [Tasks -> Nat]
  /\ held \in [Tasks -> Seq(Mutexes)]

Init ==
  /\ used = {}
  /\ muxCount = [m \in Mutexes |-> 0]
  /\ owner = [m \in Mutexes |-> NoTask]
  /\ muxPriority = [m \in Mutexes |-> 0]
  /\ muxList = [m \in Mutexes |-> <<>>]
  /\ taskStatus = [t \in Tasks |-> "user"]
  /\ pendOn = [t \in Tasks |-> CHOOSE m \in Mutexes : TRUE]
  /\ forever = [t \in Tasks |-> FALSE]
  /\ priority = BasePrio
  /\ held = [t \in Tasks |-> <<>>]

-----------------------------------------------------------------------------
LOS_MuxCreate(m) ==
  /\ m \notin used
  /\ used' = used \cup {m}
  /\ muxCount' = [muxCount EXCEPT ![m] = 0]
  /\ muxPriority' = [muxPriority EXCEPT ![m] = 0]
  /\ owner' = [owner EXCEPT ![m] = NoTask]
  /\ muxList' = [muxList EXCEPT ![m] = <<>>]
  /\ UNCHANGED <<taskStatus, pendOn, forever, priority, held>>

\* Mutant: only the list of waiting tasks is looked at.
DeletableIfNobodyWaits(m) == muxList[m] = <<>>

Deletable(m) == muxList[m] = <<>> /\ muxCount[m] = 0

LOS_MuxDelete(m) ==
  /\ m \in used
  /\ Deletable(m)
  /\ used' = used \ {m}
  /\ UNCHANGED <<muxCount, owner, muxPriority, muxList, taskStatus, pendOn,
                 forever, priority, held>>

-----------------------------------------------------------------------------
\* A lock is added to those the caller knows it holds.
Takes(t, m) == held' = [held EXCEPT ![t] = Append(@, m)]

\* LOS_MuxPend of a free mutex.
MuxPendFree(t, m) ==
  /\ m \in used
  /\ taskStatus[t] = "user"
  /\ Len(held[t]) < MaxHeld
  /\ muxCount[m] = 0
  /\ muxCount' = [muxCount EXCEPT ![m] = @ + 1]
  /\ owner' = [owner EXCEPT ![m] = t]
  /\ muxPriority' = [muxPriority EXCEPT ![m] = priority[t]]
  /\ Takes(t, m)
  /\ UNCHANGED <<used, muxList, taskStatus, pendOn, forever, priority>>

\* LOS_MuxPend of a mutex the task has locked already.
MuxPendAgain(t, m) ==
  /\ m \in used
  /\ taskStatus[t] = "user"
  /\ Len(held[t]) < MaxHeld
  /\ muxCount[m] > 0 /\ owner[m] = t
  /\ muxCount' = [muxCount EXCEPT ![m] = @ + 1]
  /\ Takes(t, m)
  /\ UNCHANGED <<used, owner, muxPriority, muxList, taskStatus, pendOn, forever, priority>>

\* LOS_MuxPend of another task's mutex, up to the switch to another task: the
\* owner inherits the priority of the caller if that is more urgent.
MuxPendWaits(t, m, ever) ==
  /\ m \in used
  /\ taskStatus[t] = "user"
  /\ Len(held[t]) < MaxHeld
  /\ muxCount[m] > 0 /\ owner[m] # t
  /\ priority' = IF priority[owner[m]] > priority[t]
                 THEN [priority EXCEPT ![owner[m]] = priority[t]]
                 ELSE priority
  /\ muxList' = [muxList EXCEPT ![m] = Append(@, t)]
  /\ taskStatus' = [taskStatus EXCEPT ![t] = "pend"]
  /\ pendOn' = [pendOn EXCEPT ![t] = m]
  /\ forever' = [forever EXCEPT ![t] = ever]
  /\ UNCHANGED <<used, muxCount, owner, muxPriority, held>>

\* The rest of LOS_MuxPend, once the scheduler switches back to the task.
MuxPendResumes(t) ==
  /\ taskStatus[t] \in {"woken", "timeout"}
  /\ IF taskStatus[t] = "woken" THEN Takes(t, pendOn[t]) ELSE UNCHANGED held
  /\ taskStatus' = [taskStatus EXCEPT ![t] = "user"]
  /\ UNCHANGED <<mux, pendOn, forever, priority>>

\* OsSchedWakePendTimeTask, from the tick handler.
PendTimeout(t) ==
  /\ taskStatus[t] = "pend" /\ ~forever[t]
  /\ taskStatus' = [taskStatus EXCEPT ![t] = "timeout"]
  /\ muxList' = [muxList EXCEPT ![pendOn[t]] = LOS_ListDelete(@, t)]
  /\ UNCHANGED <<used, muxCount, owner, muxPriority, pendOn, forever, priority, held>>

-----------------------------------------------------------------------------
\* Nobody waits: the mutex is free.
Free(m) ==
  /\ muxCount' = [muxCount EXCEPT ![m] = 0]
  /\ owner' = [owner EXCEPT ![m] = NoTask]
  /\ UNCHANGED <<muxPriority, muxList, taskStatus>>

\* Waiting task t gets the mutex and is woken.
Give(m, t, count) ==
  /\ muxCount' = [muxCount EXCEPT ![m] = count]
  /\ owner' = [owner EXCEPT ![m] = t]
  /\ muxPriority' = [muxPriority EXCEPT ![m] = priority[t]]
  /\ taskStatus' = [taskStatus EXCEPT ![t] = "woken"]
  /\ muxList' = [muxList EXCEPT ![m] = LOS_ListDelete(@, t)]

\* Mutant: the mutex is left free for whoever comes first.
OnlyWakes(m) ==
  IF muxList[m] = <<>> THEN Free(m)
  ELSE /\ muxCount' = [muxCount EXCEPT ![m] = 0]
       /\ owner' = [owner EXCEPT ![m] = NoTask]
       /\ taskStatus' = [taskStatus EXCEPT ![Head(muxList[m])] = "woken"]
       /\ muxList' = [muxList EXCEPT ![m] = Tail(@)]
       /\ UNCHANGED muxPriority

\* Mutant: the task that came last gets the mutex first.
HandsToLast(m) ==
  IF muxList[m] = <<>> THEN Free(m) ELSE Give(m, muxList[m][Len(muxList[m])], 1)

\* The last release of a mutex: it goes to the first task of its list.
HandOver(m) ==
  IF muxList[m] = <<>> THEN Free(m) ELSE Give(m, Head(muxList[m]), 1)

\* Mutant: the owner keeps the priority it inherited.
KeepsInherited(t, m) == priority

\* The priority of the owner goes back to what it was when it locked m.
RestoredPriority(t, m) == [priority EXCEPT ![t] = muxPriority[m]]

\* Which lock a caller may release next.
Releases(t) ==
  IF Nested /\ held[t] # <<>> THEN {held[t][Len(held[t])]} ELSE Listed(held[t])

\* The locks left when the caller has released one of m: its latest lock, if that
\* was of m, else any of them.
Released(list, m) ==
  LET k == IF list[Len(list)] = m THEN Len(list) ELSE CHOOSE i \in DOMAIN list : list[i] = m
  IN [i \in 1 .. Len(list) - 1 |-> IF i < k THEN list[i] ELSE list[i + 1]]

\* LOS_MuxPost by the owner.
LOS_MuxPost(t, m) ==
  /\ m \in used
  /\ taskStatus[t] = "user"
  /\ m \in Releases(t)
  /\ muxCount[m] > 0 /\ owner[m] = t
  /\ IF muxCount[m] > 1
     THEN /\ muxCount' = [muxCount EXCEPT ![m] = @ - 1]
          /\ UNCHANGED <<owner, muxPriority, muxList, taskStatus, priority>>
     ELSE /\ priority' = RestoredPriority(t, m)
          /\ HandOver(m)
  /\ held' = [held EXCEPT ![t] = Released(@, m)]
  /\ UNCHANGED <<used, pendOn, forever>>

\* LOS_TaskDelete of a task that owns no mutex; its control block is used again
\* for a new task.  (Nothing releases the mutexes of a deleted owner: callers
\* release them first.)
LOS_TaskDelete(t) ==
  /\ \A m \in Mutexes : owner[m] # t
  /\ taskStatus[t] # "user"
  /\ muxList' = IF taskStatus[t] = "pend"
                THEN [muxList EXCEPT ![pendOn[t]] = LOS_ListDelete(@, t)]
                ELSE muxList
  /\ taskStatus' = [taskStatus EXCEPT ![t] = "user"]
  /\ priority' = [priority EXCEPT ![t] = BasePrio[t]]
  /\ UNCHANGED <<used, muxCount, owner, muxPriority, pendOn, forever, held>>

-----------------------------------------------------------------------------
Next ==
  \/ \E m \in Mutexes : LOS_MuxCreate(m) \/ LOS_MuxDelete(m)
  \/ \E t \in Tasks, m \in Mutexes : MuxPendFree(t, m)
  \/ \E t \in Tasks, m \in Mutexes : MuxPendAgain(t, m)
  \/ \E t \in Tasks, m \in Mutexes, ever \in BOOLEAN : MuxPendWaits(t, m, ever)
  \/ \E t \in Tasks : MuxPendResumes(t)
  \/ \E t \in Tasks : PendTimeout(t)
  \/ \E t \in Tasks, m \in Mutexes : LOS_MuxPost(t, m)
  \/ \E t \in Tasks : LOS_TaskDelete(t)

Spec == Init /\ [][Next]_vars

-----------------------------------------------------------------------------
Positions(list, m) == {i \in DOMAIN list : list[i] = m}

Times(t, m) == Cardinality(Positions(held[t], m))

\* The kernel's record of a mutex agrees with what its users were told: the
\* owner has got exactly muxCount successful LOS_MuxPend calls it has not
\* posted (one fewer while it is woken and not running yet), and nobody else
\* has any, so at most one task is past LOS_MuxPend; a deleted mutex is nobody's.
\* (All variables keep their types.)
OwnersAgree ==
  /\ TypeOK
  /\ \A m \in Mutexes, t \in Tasks :
       Times(t, m) =
         IF m \notin used \/ owner[m] # t THEN 0
         ELSE IF taskStatus[t] = "woken" /\ pendOn[t] = m THEN muxCount[m] - 1
         ELSE muxCount[m]

\* A woken task owns the mutex it waited for, a task that waits is in the list
\* of a mutex that another task owns: nobody waits for a free or deleted mutex.
WaitersHaveOwner ==
  \A t \in Tasks :
    /\ taskStatus[t] = "woken" => owner[pendOn[t]] = t
    /\ taskStatus[t] = "pend" =>
         /\ pendOn[t] \in used
         /\ owner[pendOn[t]] \in Tasks \ {t}
    /\ \A m \in Mutexes :
         t \in Listed(muxList[m]) <=> taskStatus[t] = "pend" /\ pendOn[t] = m

\* Inheritance is undone: a task is never less urgent than it was created, and
\* one that owns no mutex runs at its own priority again.
PriorityRestored ==
  \A t \in Tasks :
    /\ priority[t] <= BasePrio[t]
    /\ (\A m \in used : owner[m] # t) => priority[t] = BasePrio[t]

\* A waiting task is not overtaken for ever: as long as the mutex keeps
\* changing hands, it gets it, times out or is deleted.
WaitersAreServed ==
  \A t \in Tasks, m \in Mutexes :
    []<><<owner'[m] # owner[m]>>_vars =>
      ((taskStatus[t] = "pend" /\ pendOn[t] = m) ~> taskStatus[t] # "pend")
=============================================================================
