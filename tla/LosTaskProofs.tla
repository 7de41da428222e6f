--------------------------- MODULE LosTaskProofs ----------------------------
(***************************************************************************)
(* The scheduler of LosTask keeps its promises for any number of tasks and *)
(* priorities, any time slice and any depth of LOS_TaskLock.  The argument *)
(* is one inductive invariant, IInv: first what each OsSched function does *)
(* to the queues, then what a change of one task's flags does to the parts *)
(* of the invariant, then one lemma for each action.                       *)
(***************************************************************************)
EXTENDS LosTask, PendListProofs, FunctionTheorems, NaturalsInduction, WellFoundedInduction

\* g_priQueueList and g_queueBitmap say who is ready: a task is in the queue of its
\* priority when it is READY, once, and a bit is set when its queue is in use.
QueuesFit(s) ==
  /\ \A p \in Priorities : Distinct(s.queue[p])
  /\ \A p \in Priorities, t \in Tasks :
       t \in Listed(s.queue[p]) <=> "READY" \in s.status[t] /\ s.priority[t] = p
  /\ \A p \in Priorities : p \in s.bitmap <=> s.queue[p] # <<>>

\* Combinations of flags that a control block may have: a ready task has no other
\* state; a task that has exited waits for nothing; PEND_TIME goes with PEND, and
\* DELAY does not; and every block is in some state.
FlagsOK(X) ==
  /\ "READY" \in X => X \subseteq {"READY", "JOINABLE"}
  /\ "EXIT" \in X \/ "UNUSED" \in X => X \cap Waits = {}
  /\ "PEND_TIME" \in X => "PEND" \in X
  /\ "DELAY" \in X => "PEND" \notin X
  /\ X \cap {"UNUSED", "READY", "RUNNING", "SUSPEND", "EXIT", "PEND", "DELAY"} # {}

\* The idle task only runs or is ready, the spare block is never a task.
FlagsFit(st) ==
  /\ st[Idle] \subseteq {"READY", "RUNNING"}
  /\ "UNUSED" \in st[Spare] /\ st[Spare] \subseteq {"UNUSED", "RUNNING"}
  /\ \A t \in TCBs : FlagsOK(st[t])

\* The pend lists and the sort link say who waits: PEND is a node in a list, a flag
\* with a time limit is a node in the sort link, once the task has been switched out.
ListsFit(s) ==
  /\ Distinct(s.waitList)
  /\ \A u \in TCBs : Distinct(s.joinList[u])
  /\ \A t \in Tasks :
      /\ "PEND" \in s.status[t] <=> \/ t \in Listed(s.waitList)
                                    \/ \E u \in TCBs : t \in Listed(s.joinList[u])
      /\ t \in s.sortLink <=> /\ "PEND_TIME" \in s.status[t] \/ "DELAY" \in s.status[t]
                              /\ "RUNNING" \notin s.status[t]

\* The flags of a task that can go on running.
Clean(X) == X \cap (Waits \cup {"SUSPEND", "EXIT", "UNUSED"}) = {}

\* One block runs, and when no switch is due it is free to go on.  A switch is due
\* only with the scheduler open.
RunFits(st, run, lk, due, rec) ==
  /\ run \notin Listed(rec)
  /\ \A t \in TCBs : t \notin Listed(rec) => ("RUNNING" \in st[t] <=> t = run)
  /\ ~due => Clean(st[run])
  /\ due => lk = 0
  /\ run \in Tasks => "UNUSED" \notin st[run]

\* A block is UNUSED when it is in g_losFreeTask or in g_taskRecycleList, once, or in
\* neither and away.
BlocksFit(st, free, rec, away) ==
  /\ Distinct(free) /\ Distinct(rec)
  /\ \A t \in Tasks :
       "UNUSED" \in st[t] <=> t \in Listed(free) \/ t \in Listed(rec) \/ t \in away
  /\ \A t \in Tasks : ~(t \in Listed(free) /\ t \in Listed(rec))
  /\ \A t \in Tasks : t \in away => t \notin Listed(free) /\ t \notin Listed(rec)

\* The blocks that LOS_TaskCreate has taken from g_losFreeTask and not yet used, those
\* whose creator is gone included.
Away == leaked \cup {block[u] : u \in Taking}

\* A task in a join list is in LOS_TaskJoin of a task that can be joined and has not
\* exited; a task in LOS_TaskJoin is in that list, or the joined task has exited;
\* two tasks never join the same one, and a joining task waits for nothing else.
JoinsFit(s, jn) ==
  /\ \A t \in TCBs, u \in Tasks : u \in Listed(s.joinList[t]) =>
       /\ t \in Tasks /\ jn[u] = t
       /\ "JOINABLE" \in s.status[t]
       /\ "EXIT" \notin s.status[t] /\ "UNUSED" \notin s.status[t]
  /\ \A u \in Tasks : jn[u] # Nobody =>
       /\ jn[u] # u
       /\ "UNUSED" \notin s.status[jn[u]]
       /\ "EXIT" \in s.status[jn[u]] \/ u \in Listed(s.joinList[jn[u]])
       /\ \A v \in Tasks : jn[v] = jn[u] => v = u
       /\ u \notin Listed(s.waitList) /\ "PEND_TIME" \notin s.status[u]

\* A task that LOS_TaskCreate has not queued yet is suspended, and nothing else.
Newborn(X) == "SUSPEND" \in X /\ X \subseteq {"SUSPEND", "JOINABLE"}

\* Each block that is being made into a task has one creator, and it is suspended from
\* the return of its ID until it is queued; none of them has been leaked.
CreationFits(st, cr, bl, lk) ==
  /\ cr \in [Tasks -> Steps] /\ bl \in [Tasks -> Tasks \cup {Nobody}] /\ lk \subseteq Tasks
  /\ \A u \in Tasks : bl[u] # Nobody <=> cr[u] \in {"taken", "made"}
  /\ \A u, v \in Tasks : bl[u] = bl[v] /\ bl[u] # Nobody => u = v
  /\ \A u \in Tasks : bl[u] \notin lk
  /\ \A u \in Tasks : cr[u] = "made" => Newborn(st[bl[u]])

\* The types of the variables but for those of the creation.
SchedTypeOK ==
  /\ sched \in SchedState
  /\ runTask \in TCBs
  /\ lock \in 0 .. MaxLock
  /\ resched \in BOOLEAN
  /\ joining \in [Tasks -> Tasks \cup {Nobody}]
  /\ freeList \in Seq(Tasks) /\ recycleList \in Seq(Tasks)

\* The inductive invariant.  ReadyQueuesExact, NoTaskIsLost and TCBsConserved follow
\* from its parts; none of them is inductive alone, for the queues, the lists and the
\* blocks are kept right only by the flags, and those by the lists.
Core ==
  /\ SchedTypeOK /\ sched.asserted = FALSE
  /\ QueuesFit(sched) /\ FlagsFit(sched.status) /\ ListsFit(sched)
  /\ RunFits(sched.status, runTask, lock, resched, recycleList)
  /\ BlocksFit(sched.status, freeList, recycleList, Away)
  /\ JoinsFit(sched, joining)
  /\ MostUrgentRuns

\* Core is kept right during a creation only if nobody touches what it has not queued.
IInv == Core /\ CreationFits(sched.status, creating, block, leaked)

-----------------------------------------------------------------------------
(* What the scheduler's functions do.                                      *)

\* The flags of a task after OsSchedTaskEnQueue.
MadeReady(X) == (X \ (Waits \cup {"SUSPEND"})) \cup {"READY"}

\* Other flags for t.
Retag(st, t, X) == [st EXCEPT ![t] = X]

\* The lists of joining tasks without t.
Unlinked(lists, t) == [u \in TCBs |-> Without(lists[u], t)]

\* The types of the fields.
LEMMA SchedFields ==
  ASSUME NEW s \in SchedState
  PROVE  /\ s.status \in [TCBs -> SUBSET Flags]
         /\ s.priority \in [TCBs -> Priorities]
         /\ s.timeSlice \in [TCBs -> 0 .. SliceLen]
         /\ s.queue \in [Priorities -> Seq(Tasks)]
         /\ s.bitmap \in SUBSET Priorities
         /\ s.sortLink \in SUBSET Tasks
         /\ s.waitList \in Seq(Tasks)
         /\ s.joinList \in [TCBs -> Seq(Tasks)]
         /\ s.asserted \in BOOLEAN
BY DEF SchedState

\* What Without does to a list in which no task is twice.
LEMMA WithoutFacts ==
  ASSUME NEW S, NEW list \in Seq(S), NEW t, Distinct(list)
  PROVE  /\ Without(list, t) \in Seq(S)
         /\ Listed(Without(list, t)) = Listed(list) \ {t}
         /\ Distinct(Without(list, t))
BY ListDelete DEF Without

\* LOS_ListHeadInsert adds one task, at the front.
LEMMA PushFront ==
  ASSUME NEW S, NEW list \in Seq(S), NEW t \in S
  PROVE  /\ <<t>> \o list \in Seq(S)
         /\ <<t>> \o list # <<>>
         /\ Listed(<<t>> \o list) = Listed(list) \cup {t}
         /\ Distinct(list) /\ t \notin Listed(list) => Distinct(<<t>> \o list)
<1> DEFINE new == <<t>> \o list
<1>1. /\ new \in Seq(S) /\ Len(new) = Len(list) + 1
      /\ \A i \in 1 .. Len(list) : new[i + 1] = list[i]
      /\ new[1] = t
      /\ Len(list) \in Nat
      /\ DOMAIN list = 1 .. Len(list) /\ DOMAIN new = 1 .. Len(list) + 1
  OBVIOUS
<1> HIDE DEF new
<1>2. new # <<>>
  BY <1>1
<1>3. \A i \in DOMAIN new : i = 1 \/ (i - 1 \in DOMAIN list /\ new[i] = list[i - 1])
  BY <1>1
<1>4. Listed(new) = Listed(list) \cup {t}
  <2>1. ASSUME NEW x \in Listed(list) PROVE x \in Listed(new)
    <3>1. PICK i \in DOMAIN list : list[i] = x
      BY DEF Listed
    <3>2. i + 1 \in DOMAIN new /\ new[i + 1] = x
      BY <1>1, <3>1
    <3>3. QED
      BY <3>2 DEF Listed
  <2>2. t \in Listed(new)
    BY <1>1 DEF Listed
  <2>3. ASSUME NEW x \in Listed(new) PROVE x \in Listed(list) \cup {t}
    BY <1>1, <1>3 DEF Listed
  <2>4. QED
    BY <2>1, <2>2, <2>3
<1>5. ASSUME Distinct(list), t \notin Listed(list) PROVE Distinct(new)
  <2> SUFFICES ASSUME NEW i \in DOMAIN new, NEW j \in DOMAIN new, new[i] = new[j]
               PROVE  i = j
    BY DEF Distinct
  <2>1. \A k \in DOMAIN list : list[k] # t
    BY <1>5 DEF Listed
  <2>2. QED
    BY <1>1, <1>3, <1>5, <2>1 DEF Distinct
<1>6. QED
  BY <1>1, <1>2, <1>4, <1>5 DEF new

\* Either way OsSchedTaskEnQueue adds one task to the queue.
LEMMA PlacedFacts ==
  ASSUME NEW list \in Seq(Tasks), NEW t \in Tasks, NEW n \in Nat
  PROVE  /\ Placed(list, t, n) \in Seq(Tasks)
         /\ Placed(list, t, n) # <<>>
         /\ Listed(Placed(list, t, n)) = Listed(list) \cup {t}
         /\ Distinct(list) /\ t \notin Listed(list) => Distinct(Placed(list, t, n))
BY PushFront, TailInsert DEF Placed

\* The control blocks are those of the tasks, the idle task's and the spare one.
LEMMA TcbFacts ==
  /\ Tasks \subseteq TCBs /\ Idle \in TCBs /\ Spare \in TCBs
  /\ Idle \notin Tasks /\ Spare \notin Tasks /\ Idle # Spare
  /\ TCBs = Tasks \cup {Idle, Spare}
  /\ Lowest \in Priorities /\ 0 \in Priorities /\ 0 \in 0 .. SliceLen
  /\ SliceLen \in 0 .. SliceLen
BY TaskAssumption DEF TCBs, Priorities

\* Reading what Retag has written.
LEMMA RetagFacts ==
  ASSUME NEW st \in [TCBs -> SUBSET Flags], NEW t \in TCBs, NEW X
  PROVE  /\ X \in SUBSET Flags => Retag(st, t, X) \in [TCBs -> SUBSET Flags]
         /\ Retag(st, t, X)[t] = X
         /\ \A u \in TCBs : u # t => Retag(st, t, X)[u] = st[u]
         /\ X = st[t] => Retag(st, t, X) = st
         /\ \A Y : Retag(Retag(st, t, X), t, Y) = Retag(st, t, Y)
BY DEF Retag

\* What OsSchedTaskEnQueue writes, for a task other than the idle task.
LEMMA EnQueueFields ==
  ASSUME NEW s \in SchedState, NEW t \in Tasks
  PROVE  LET r == OsSchedTaskEnQueue(s, t) IN
         /\ r \in SchedState
         /\ r.status = Retag(s.status, t, MadeReady(s.status[t]))
         /\ r.queue = [s.queue EXCEPT ![s.priority[t]] = Placed(@, t, s.timeSlice[t])]
         /\ r.bitmap = s.bitmap \cup {s.priority[t]}
         /\ r.priority = s.priority /\ r.sortLink = s.sortLink
         /\ r.waitList = s.waitList /\ r.joinList = s.joinList
         /\ r.asserted = (s.asserted \/ "READY" \in s.status[t])
<1> DEFINE r == OsSchedTaskEnQueue(s, t)
           p == s.priority[t]
           st == Retag(s.status, t, MadeReady(s.status[t]))
           qu == [s.queue EXCEPT ![p] = Placed(@, t, s.timeSlice[t])]
           sl == [s.timeSlice EXCEPT ![t] = IF @ > 0 THEN @ ELSE SliceLen]
<1>1. r = [s EXCEPT !.status = st, !.asserted = s.asserted \/ "READY" \in s.status[t],
                    !.bitmap = s.bitmap \cup {p}, !.queue = qu, !.timeSlice = sl]
  BY TcbFacts, SchedFields DEF OsSchedTaskEnQueue, SchedState, Retag, MadeReady
<1>2. p \in Priorities /\ s.queue[p] \in Seq(Tasks) /\ s.timeSlice[t] \in Nat
  BY SchedFields, TcbFacts
<1>3. st \in [TCBs -> SUBSET Flags]
  BY SchedFields, TcbFacts DEF Flags, Retag, MadeReady
<1>4. qu \in [Priorities -> Seq(Tasks)]
  BY SchedFields, <1>2, PlacedFacts
<1>5. sl \in [TCBs -> 0 .. SliceLen]
  BY SchedFields, TcbFacts
<1> DEFINE as == s.asserted \/ "READY" \in s.status[t]
<1>6. as \in BOOLEAN
  BY Zenon
<1> HIDE DEF st, qu, sl, r, as
<1>7. r \in SchedState
  BY <1>1, <1>2, <1>3, <1>4, <1>5, <1>6 DEF SchedState, as
<1>8. /\ r.status = st /\ r.queue = qu /\ r.bitmap = s.bitmap \cup {p}
      /\ r.priority = s.priority /\ r.sortLink = s.sortLink
      /\ r.waitList = s.waitList /\ r.joinList = s.joinList
      /\ r.asserted = as
  BY <1>1 DEF SchedState, as
<1>9. QED
  BY <1>7, <1>8 DEF st, qu, r, as

\* OsSchedTaskEnQueue of a task that is not ready keeps queues and bitmap exact and
\* does not reach its LOS_ASSERT.
LEMMA EnQueueFacts ==
  ASSUME NEW s \in SchedState, NEW t \in Tasks \cup {Idle}, QueuesFit(s),
         "READY" \notin s.status[t]
  PROVE  LET r == OsSchedTaskEnQueue(s, t) IN
         /\ r \in SchedState /\ QueuesFit(r)
         /\ r.status = Retag(s.status, t, MadeReady(s.status[t]))
         /\ r.priority = s.priority /\ r.sortLink = s.sortLink
         /\ r.waitList = s.waitList /\ r.joinList = s.joinList
         /\ r.asserted = s.asserted
<1> DEFINE r == OsSchedTaskEnQueue(s, t)
           st == Retag(s.status, t, MadeReady(s.status[t]))
           p == s.priority[t]
<1>1. CASE t = Idle
  <2> DEFINE as == s.asserted \/ "READY" \in s.status[t]
  <2>1. as = s.asserted
    BY SchedFields, Zenon
  <2>2. r = [s EXCEPT !.status = st, !.asserted = as]
    BY <1>1, TcbFacts, SchedFields DEF OsSchedTaskEnQueue, SchedState, Retag, MadeReady
  <2>3. st \in [TCBs -> SUBSET Flags]
    BY SchedFields, TcbFacts DEF Flags, Retag, MadeReady
  <2>4. \A u \in Tasks : st[u] = s.status[u]
    BY <1>1, TcbFacts, SchedFields DEF Retag
  <2> HIDE DEF r, st, as
  <2>5. /\ r \in SchedState
        /\ r.status = st /\ r.queue = s.queue /\ r.bitmap = s.bitmap
        /\ r.priority = s.priority /\ r.sortLink = s.sortLink
        /\ r.waitList = s.waitList /\ r.joinList = s.joinList
        /\ r.asserted = s.asserted
    BY <2>1, <2>2, <2>3 DEF SchedState
  <2>6. QueuesFit(r)
    BY <2>4, <2>5 DEF QueuesFit
  <2>7. QED
    BY <2>5, <2>6 DEF r, st
<1>2. CASE t \in Tasks
  <2>1. /\ r \in SchedState /\ r.status = st
        /\ r.queue = [s.queue EXCEPT ![p] = Placed(@, t, s.timeSlice[t])]
        /\ r.bitmap = s.bitmap \cup {p}
        /\ r.priority = s.priority /\ r.sortLink = s.sortLink
        /\ r.waitList = s.waitList /\ r.joinList = s.joinList
        /\ r.asserted = (s.asserted \/ "READY" \in s.status[t])
    BY <1>2, EnQueueFields
  <2>2. r.asserted = s.asserted
    BY <2>1, SchedFields, Zenon
  <2> DEFINE new == Placed(s.queue[p], t, s.timeSlice[t])
  <2>3. p \in Priorities /\ s.queue[p] \in Seq(Tasks) /\ s.timeSlice[t] \in Nat
    BY SchedFields, TcbFacts
  <2>4. t \notin Listed(s.queue[p]) /\ Distinct(s.queue[p])
    BY <1>2, <2>3 DEF QueuesFit
  <2>5. /\ new # <<>> /\ Distinct(new)
        /\ Listed(new) = Listed(s.queue[p]) \cup {t}
    BY <1>2, <2>3, <2>4, PlacedFacts
  <2>6. /\ r.queue[p] = new
        /\ \A q \in Priorities : q # p => r.queue[q] = s.queue[q]
    BY <2>1, <2>3, SchedFields
  <2>7. /\ "READY" \in st[t]
        /\ \A u \in Tasks : u # t => st[u] = s.status[u]
    BY <1>2, TcbFacts, SchedFields DEF Retag, MadeReady
  <2> HIDE DEF r, st, new
  <2>8. QueuesFit(r)
    <3>1. \A q \in Priorities : Distinct(r.queue[q])
      BY <2>5, <2>6 DEF QueuesFit
    <3>2. ASSUME NEW q \in Priorities, NEW u \in Tasks
          PROVE  u \in Listed(r.queue[q]) <=> "READY" \in r.status[u] /\ r.priority[u] = q
      <4>1. CASE q = p
        BY <2>1, <2>3, <2>5, <2>6, <2>7, <4>1 DEF QueuesFit
      <4>2. CASE q # p
        BY <2>1, <2>3, <2>4, <2>5, <2>6, <2>7, <4>2 DEF QueuesFit
      <4>3. QED
        BY <4>1, <4>2
    <3>3. ASSUME NEW q \in Priorities PROVE q \in r.bitmap <=> r.queue[q] # <<>>
      BY <2>1, <2>3, <2>5, <2>6 DEF QueuesFit
    <3>4. QED
      BY <3>1, <3>2, <3>3 DEF QueuesFit
  <2>9. QED
    BY <2>1, <2>2, <2>8 DEF r, st
<1>3. QED
  BY <1>1, <1>2

\* OsSchedTaskDeQueue keeps queues and bitmap exact: the bit of a queue that becomes
\* empty is cleared, and that of a queue still in use is not.
LEMMA DeQueueFacts ==
  ASSUME NEW s \in SchedState, NEW t \in Tasks \cup {Idle}, QueuesFit(s)
  PROVE  LET r == OsSchedTaskDeQueue(s, t) IN
         /\ r \in SchedState /\ QueuesFit(r)
         /\ r.status = Retag(s.status, t, s.status[t] \ {"READY"})
         /\ r.priority = s.priority /\ r.sortLink = s.sortLink
         /\ r.waitList = s.waitList /\ r.joinList = s.joinList
         /\ r.asserted = s.asserted
         /\ r.bitmap \subseteq s.bitmap
<1> DEFINE r == OsSchedTaskDeQueue(s, t)
           st == Retag(s.status, t, s.status[t] \ {"READY"})
           p == s.priority[t]
           rest == [q \in Priorities |-> Without(s.queue[q], t)]
           bm == IF t # Idle /\ rest[p] = <<>> THEN s.bitmap \ {p} ELSE s.bitmap
<1>1. CASE "READY" \notin s.status[t]
  <2>1. r = s
    BY <1>1 DEF OsSchedTaskDeQueue
  <2>2. s.status[t] \ {"READY"} = s.status[t]
    BY <1>1
  <2>3. st = s.status
    BY <2>2, SchedFields, TcbFacts DEF Retag
  <2>4. QED
    BY <2>1, <2>3
<1>2. CASE "READY" \in s.status[t]
  <2>1. r = [s EXCEPT !.status = st, !.queue = rest, !.bitmap = bm]
    BY <1>2, TcbFacts, SchedFields DEF OsSchedTaskDeQueue, SchedState, Retag
  <2>2. st \in [TCBs -> SUBSET Flags] /\ p \in Priorities
    BY SchedFields, TcbFacts DEF Flags, Retag
  <2>3. \A q \in Priorities : /\ s.queue[q] \in Seq(Tasks) /\ Distinct(s.queue[q])
                              /\ s.priority[t] # q => t \notin Listed(s.queue[q])
    BY SchedFields, TcbFacts, NobodyListed DEF QueuesFit
  <2>4. \A q \in Priorities : /\ rest[q] \in Seq(Tasks) /\ Distinct(rest[q])
                              /\ Listed(rest[q]) = Listed(s.queue[q]) \ {t}
                              /\ q # p => rest[q] = s.queue[q]
    BY <2>3, WithoutFacts DEF Without
  <2>5. rest \in [Priorities -> Seq(Tasks)] /\ bm \in SUBSET Priorities
    BY <2>4, SchedFields
  <2>6. t = Idle => rest[p] = s.queue[p]
    BY <2>2, <2>3, TcbFacts, NobodyListed DEF Without
  <2>7. \A q \in Priorities : q \in bm <=> rest[q] # <<>>
    <3>1. CASE t = Idle
      BY <2>4, <2>6, <3>1 DEF QueuesFit
    <3>2. CASE t # Idle
      <4>1. p \in s.bitmap
        <5>1. t \in Listed(s.queue[p])
          BY <1>2, <2>2, <3>2 DEF QueuesFit
        <5>2. s.queue[p] # <<>>
          BY <2>2, <2>3, <5>1, NobodyListed
        <5>3. QED
          BY <2>2, <5>2 DEF QueuesFit
      <4> HIDE DEF rest
      <4>2. QED
        BY <2>4, <3>2, <4>1 DEF QueuesFit
    <3>3. QED
      BY <3>1, <3>2
  <2>8. bm \subseteq s.bitmap
    OBVIOUS
  <2>9. /\ "READY" \notin st[t]
        /\ \A u \in Tasks : u # t => st[u] = s.status[u]
    BY TcbFacts, SchedFields DEF Retag
  <2> HIDE DEF r, st, rest, bm
  <2>10. /\ r \in SchedState
         /\ r.status = st /\ r.queue = rest /\ r.bitmap = bm
         /\ r.priority = s.priority /\ r.sortLink = s.sortLink
         /\ r.waitList = s.waitList /\ r.joinList = s.joinList
         /\ r.asserted = s.asserted
    BY <2>1, <2>2, <2>5 DEF SchedState
  <2>11. QueuesFit(r)
    <3>1. ASSUME NEW q \in Priorities, NEW u \in Tasks
          PROVE  u \in Listed(rest[q]) <=> "READY" \in st[u] /\ s.priority[u] = q
      BY <2>4, <2>9 DEF QueuesFit
    <3>2. QED
      BY <2>4, <2>7, <2>10, <3>1 DEF QueuesFit
  <2>12. QED
    BY <2>8, <2>10, <2>11 DEF r, st
<1>3. QED
  BY <1>1, <1>2

\* LOS_ListDelete of a pending task touches no queue.
LEMMA UnlinkFacts ==
  ASSUME NEW s \in SchedState, NEW t \in TCBs,
         Distinct(s.waitList), \A u \in TCBs : Distinct(s.joinList[u])
  PROVE  LET r == Unlink(s, t) IN
         /\ r \in SchedState
         /\ r.status = s.status /\ r.priority = s.priority /\ r.sortLink = s.sortLink
         /\ r.queue = s.queue /\ r.bitmap = s.bitmap /\ r.asserted = s.asserted
         /\ r.waitList = Without(s.waitList, t)
         /\ r.joinList = Unlinked(s.joinList, t)
<1> DEFINE r == Unlink(s, t)
           wl == Without(s.waitList, t)
           jl == Unlinked(s.joinList, t)
<1>1. r = [s EXCEPT !.waitList = wl, !.joinList = jl]
  BY SchedFields DEF Unlink, SchedState, Unlinked
<1>2. wl \in Seq(Tasks) /\ jl \in [TCBs -> Seq(Tasks)]
  BY SchedFields, WithoutFacts DEF Unlinked
<1> HIDE DEF r, wl, jl
<1>3. /\ r \in SchedState
      /\ r.status = s.status /\ r.priority = s.priority /\ r.sortLink = s.sortLink
      /\ r.queue = s.queue /\ r.bitmap = s.bitmap /\ r.asserted = s.asserted
      /\ r.waitList = wl /\ r.joinList = jl
  BY <1>1, <1>2 DEF SchedState
<1>4. QED
  BY <1>3 DEF r, wl, jl

\* A state with other flags for t and another sort link.
Marked(s, t, X, L) == [s EXCEPT !.status[t] = X, !.sortLink = L]

\* Flags other than READY and timers may change without touching the queues.
LEMMA MarkFacts ==
  ASSUME NEW s \in SchedState, NEW t \in TCBs, NEW X \in SUBSET Flags,
         NEW L \in SUBSET Tasks, QueuesFit(s),
         "READY" \in X <=> "READY" \in s.status[t]
  PROVE  LET r == Marked(s, t, X, L) IN
         /\ r \in SchedState /\ QueuesFit(r)
         /\ r.status = Retag(s.status, t, X) /\ r.sortLink = L
         /\ r.priority = s.priority /\ r.waitList = s.waitList
         /\ r.joinList = s.joinList /\ r.asserted = s.asserted
         /\ r.queue = s.queue /\ r.bitmap = s.bitmap
<1> DEFINE st == Retag(s.status, t, X)
           r == Marked(s, t, X, L)
<1>1. r = [s EXCEPT !.status = st, !.sortLink = L]
  BY SchedFields DEF SchedState, Marked, Retag
<1>2. st \in [TCBs -> SUBSET Flags]
  BY SchedFields, RetagFacts
<1>3. \A u \in Tasks : "READY" \in st[u] <=> "READY" \in s.status[u]
  BY SchedFields, TcbFacts DEF Retag
<1> HIDE DEF st, r
<1>4. /\ r \in SchedState
      /\ r.status = st /\ r.sortLink = L
      /\ r.priority = s.priority /\ r.waitList = s.waitList
      /\ r.joinList = s.joinList /\ r.asserted = s.asserted
      /\ r.queue = s.queue /\ r.bitmap = s.bitmap
  BY <1>1, <1>2 DEF SchedState
<1>5. QueuesFit(r)
  BY <1>3, <1>4 DEF QueuesFit
<1>6. QED
  BY <1>4, <1>5 DEF st, r

\* The sets of flags that the OsSched functions write are sets of flags.
LEMMA FlagSets ==
  ASSUME NEW X \in SUBSET Flags
  PROVE  /\ X \ {"PEND", "PEND_TIME"} \in SUBSET Flags
         /\ X \ Waits \in SUBSET Flags
         /\ X \ {"SUSPEND"} \in SUBSET Flags
         /\ X \cup {"SUSPEND"} \in SUBSET Flags
         /\ (X \ Waits) \cup {"EXIT"} \in SUBSET Flags
         /\ (X \ {"READY"}) \cup {"SUSPEND"} \in SUBSET Flags
         /\ (X \ (Waits \cup {"SUSPEND"})) \cup {"READY"} \in SUBSET Flags
BY DEF Flags

\* A task whose flags are set and that is then made ready.
LEMMA MarkAndEnQueue ==
  ASSUME NEW s \in SchedState, NEW t \in Tasks, NEW X \in SUBSET Flags,
         NEW L \in SUBSET Tasks, QueuesFit(s),
         "READY" \notin X, "READY" \notin s.status[t]
  PROVE  LET r == OsSchedTaskEnQueue(Marked(s, t, X, L), t) IN
         /\ r \in SchedState /\ QueuesFit(r)
         /\ r.status = Retag(s.status, t, MadeReady(X)) /\ r.sortLink = L
         /\ r.priority = s.priority /\ r.waitList = s.waitList
         /\ r.joinList = s.joinList /\ r.asserted = s.asserted
<1> DEFINE w == Marked(s, t, X, L)
           r == OsSchedTaskEnQueue(w, t)
<1>1. t \in TCBs /\ t \in Tasks \cup {Idle} /\ ("READY" \in X <=> "READY" \in s.status[t])
  BY TcbFacts
<1>2. /\ w \in SchedState /\ QueuesFit(w)
      /\ w.status = Retag(s.status, t, X) /\ w.sortLink = L
      /\ w.priority = s.priority /\ w.waitList = s.waitList
      /\ w.joinList = s.joinList /\ w.asserted = s.asserted
  BY <1>1, MarkFacts
<1> HIDE DEF w
<1>3. w.status[t] = X
  BY <1>1, <1>2, SchedFields DEF Retag
<1>4. "READY" \notin w.status[t]
  BY <1>3
<1>5. /\ r \in SchedState /\ QueuesFit(r)
      /\ r.status = Retag(w.status, t, MadeReady(w.status[t]))
      /\ r.priority = w.priority /\ r.sortLink = w.sortLink
      /\ r.waitList = w.waitList /\ r.joinList = w.joinList
      /\ r.asserted = w.asserted
  BY <1>1, <1>2, <1>4, EnQueueFacts
<1> HIDE DEF r
<1>6. r.status = Retag(w.status, t, MadeReady(X))
  BY <1>3, <1>5
<1>7. r.status = Retag(s.status, t, MadeReady(X))
  BY <1>1, <1>2, <1>6, SchedFields DEF Retag
<1>8. QED
  BY <1>2, <1>5, <1>7 DEF r, w

\* OsSchedTaskWake takes t off every list and makes it ready, unless it is suspended
\* or still runs.
LEMMA WakeFacts ==
  ASSUME NEW s \in SchedState, NEW t \in Tasks, QueuesFit(s), ListsFit(s),
         "READY" \notin s.status[t]
  PROVE  LET r == OsSchedTaskWake(s, t) IN
         /\ r \in SchedState /\ QueuesFit(r)
         /\ r.status = Retag(s.status, t, IF StaysOut(s.status[t])
                                               THEN s.status[t] \ {"PEND", "PEND_TIME"}
                                               ELSE MadeReady(s.status[t]))
         /\ r.priority = s.priority /\ r.sortLink = s.sortLink \ {t}
         /\ r.waitList = Without(s.waitList, t)
         /\ r.joinList = Unlinked(s.joinList, t)
         /\ r.asserted = s.asserted
<1> DEFINE u == Unlink(s, t)
           X == s.status[t] \ {"PEND", "PEND_TIME"}
           L == s.sortLink \ {t}
           woken == Marked(u, t, X, L)
           r == OsSchedTaskWake(s, t)
<1>0. t \in TCBs /\ Distinct(s.waitList) /\ \A v \in TCBs : Distinct(s.joinList[v])
  BY TcbFacts DEF ListsFit
<1>1. /\ u \in SchedState
      /\ u.status = s.status /\ u.priority = s.priority /\ u.sortLink = s.sortLink
      /\ u.queue = s.queue /\ u.bitmap = s.bitmap /\ u.asserted = s.asserted
      /\ u.waitList = Without(s.waitList, t)
      /\ u.joinList = Unlinked(s.joinList, t)
  BY <1>0, UnlinkFacts
<1>2. QueuesFit(u)
  BY <1>1 DEF QueuesFit
<1>3. X \in SUBSET Flags /\ L \in SUBSET Tasks /\ "READY" \notin X /\ t \in TCBs
  BY SchedFields, TcbFacts, FlagSets
<1> HIDE DEF u
<1>4. [u EXCEPT !.sortLink = @ \ {t}, !.status[t] = @ \ {"PEND", "PEND_TIME"}] = woken
  BY <1>1 DEF SchedState, Marked, Retag
<1>5. r = IF StaysOut(s.status[t]) THEN woken ELSE OsSchedTaskEnQueue(woken, t)
  BY <1>4 DEF OsSchedTaskWake, u
<1>6. MadeReady(X) = MadeReady(s.status[t])
  BY DEF MadeReady, Waits
<1> HIDE DEF X, L, r
<1>7. u \in SchedState /\ QueuesFit(u) /\ "READY" \notin u.status[t]
  BY <1>1, <1>2
<1>8. CASE StaysOut(s.status[t])
  <2>1. "READY" \in X <=> "READY" \in u.status[t]
    BY <1>3, <1>7
  <2>2. /\ woken \in SchedState /\ QueuesFit(woken)
        /\ woken.status = Retag(u.status, t, X) /\ woken.sortLink = L
        /\ woken.priority = u.priority /\ woken.waitList = u.waitList
        /\ woken.joinList = u.joinList /\ woken.asserted = u.asserted
    BY <1>3, <1>7, <2>1, MarkFacts
  <2> HIDE DEF woken
  <2>3. QED
    BY <1>1, <1>5, <1>8, <2>2 DEF X, L, r
<1>9. CASE ~StaysOut(s.status[t])
  <2> DEFINE q == OsSchedTaskEnQueue(woken, t)
  <2>1. /\ q \in SchedState /\ QueuesFit(q)
        /\ q.status = Retag(u.status, t, MadeReady(X)) /\ q.sortLink = L
        /\ q.priority = u.priority /\ q.waitList = u.waitList
        /\ q.joinList = u.joinList /\ q.asserted = u.asserted
    BY <1>3, <1>7, MarkAndEnQueue
  <2>2. r = q
    BY <1>5, <1>9
  <2> HIDE DEF q, woken
  <2>3. QED
    BY <1>1, <1>6, <1>9, <2>1, <2>2 DEF L, r
<1>10. QED
  BY <1>8, <1>9

\* A task that is in no list is left by LOS_ListDelete as it was.
LEMMA NotListed ==
  ASSUME NEW s \in SchedState, ListsFit(s), NEW t \in Tasks, "PEND" \notin s.status[t]
  PROVE  /\ s.waitList = Without(s.waitList, t)
         /\ s.joinList = Unlinked(s.joinList, t)
BY SchedFields DEF ListsFit, Without, Unlinked

\* OsSchedWakePendTimeTask takes t off every list and makes it ready, unless it is
\* suspended.
LEMMA TimeoutFacts ==
  ASSUME NEW s \in SchedState, NEW t \in Tasks, QueuesFit(s), ListsFit(s),
         "READY" \notin s.status[t]
  PROVE  LET r == OsSchedWakePendTimeTask(s, t) IN
         /\ r \in SchedState /\ QueuesFit(r)
         /\ r.status = Retag(s.status, t, IF StaysSuspended(s.status[t])
                                               THEN s.status[t] \ Waits
                                               ELSE MadeReady(s.status[t]))
         /\ r.priority = s.priority /\ r.sortLink = s.sortLink \ {t}
         /\ r.waitList = Without(s.waitList, t)
         /\ r.joinList = Unlinked(s.joinList, t)
         /\ r.asserted = s.asserted
<1> DEFINE u == IF "PEND" \in s.status[t] THEN Unlink(s, t) ELSE s
           X == s.status[t] \ Waits
           L == s.sortLink \ {t}
           off == Marked(u, t, X, L)
           r == OsSchedWakePendTimeTask(s, t)
<1>1. /\ u \in SchedState
      /\ u.status = s.status /\ u.priority = s.priority /\ u.sortLink = s.sortLink
      /\ u.queue = s.queue /\ u.bitmap = s.bitmap /\ u.asserted = s.asserted
      /\ u.waitList = Without(s.waitList, t)
      /\ u.joinList = Unlinked(s.joinList, t)
  <2>1. CASE "PEND" \in s.status[t]
    BY <2>1, UnlinkFacts, TcbFacts DEF ListsFit
  <2>2. CASE "PEND" \notin s.status[t]
    BY <2>2, NotListed
  <2>3. QED
    BY <2>1, <2>2
<1>2. QueuesFit(u)
  BY <1>1 DEF QueuesFit
<1>3. X \in SUBSET Flags /\ L \in SUBSET Tasks /\ "READY" \notin X /\ t \in TCBs
  BY SchedFields, TcbFacts, FlagSets
<1>4. [u EXCEPT !.sortLink = @ \ {t}, !.status[t] = @ \ Waits] = off
  <2> HIDE DEF u
  <2>1. QED
    BY <1>1 DEF SchedState, Marked, Retag
<1>5. r = IF StaysSuspended(s.status[t]) THEN off ELSE OsSchedTaskEnQueue(off, t)
  BY <1>4 DEF OsSchedWakePendTimeTask
<1>6. MadeReady(X) = MadeReady(s.status[t])
  BY DEF MadeReady
<1> HIDE DEF u, X, L, r
<1>7. u \in SchedState /\ QueuesFit(u) /\ "READY" \notin u.status[t]
  BY <1>1, <1>2
<1>8. CASE StaysSuspended(s.status[t])
  <2>1. "READY" \in X <=> "READY" \in u.status[t]
    BY <1>3, <1>7
  <2>2. /\ off \in SchedState /\ QueuesFit(off)
        /\ off.status = Retag(u.status, t, X) /\ off.sortLink = L
        /\ off.priority = u.priority /\ off.waitList = u.waitList
        /\ off.joinList = u.joinList /\ off.asserted = u.asserted
    BY <1>3, <1>7, <2>1, MarkFacts
  <2> HIDE DEF off
  <2>3. QED
    BY <1>1, <1>5, <1>8, <2>2 DEF X, L, r
<1>9. CASE ~StaysSuspended(s.status[t])
  <2> DEFINE q == OsSchedTaskEnQueue(off, t)
  <2>1. /\ q \in SchedState /\ QueuesFit(q)
        /\ q.status = Retag(u.status, t, MadeReady(X)) /\ q.sortLink = L
        /\ q.priority = u.priority /\ q.waitList = u.waitList
        /\ q.joinList = u.joinList /\ q.asserted = u.asserted
    BY <1>3, <1>7, MarkAndEnQueue
  <2>2. r = q
    BY <1>5, <1>9
  <2> HIDE DEF q, off
  <2>3. QED
    BY <1>1, <1>6, <1>9, <2>1, <2>2 DEF L, r
<1>10. QED
  BY <1>8, <1>9

\* OsSchedSuspend takes a ready task off its queue.
LEMMA SuspendFacts ==
  ASSUME NEW s \in SchedState, NEW t \in Tasks, QueuesFit(s)
  PROVE  LET r == OsSchedSuspend(s, t) IN
         /\ r \in SchedState /\ QueuesFit(r)
         /\ r.status = Retag(s.status, t, (s.status[t] \ {"READY"}) \cup {"SUSPEND"})
         /\ r.priority = s.priority /\ r.sortLink = s.sortLink
         /\ r.waitList = s.waitList /\ r.joinList = s.joinList
         /\ r.asserted = s.asserted
<1> DEFINE d == OsSchedTaskDeQueue(s, t)
           X == (s.status[t] \ {"READY"}) \cup {"SUSPEND"}
           r == OsSchedSuspend(s, t)
<1>0. t \in TCBs /\ t \in Tasks \cup {Idle}
  BY TcbFacts
<1>1. /\ d \in SchedState /\ QueuesFit(d)
      /\ d.status = Retag(s.status, t, s.status[t] \ {"READY"})
      /\ d.priority = s.priority /\ d.sortLink = s.sortLink
      /\ d.waitList = s.waitList /\ d.joinList = s.joinList
      /\ d.asserted = s.asserted
  BY <1>0, DeQueueFacts
<1> HIDE DEF d
<1>2. d.status[t] = s.status[t] \ {"READY"}
  BY <1>0, <1>1, SchedFields DEF Retag
<1>3. r = Marked(d, t, X, d.sortLink)
  BY <1>1, <1>2 DEF OsSchedSuspend, Marked, SchedState, d
<1>4. X \in SUBSET Flags /\ ("READY" \in X <=> "READY" \in d.status[t])
  BY <1>0, <1>2, SchedFields, FlagSets
<1>5. d.sortLink \in SUBSET Tasks
  BY <1>1, SchedFields
<1>6. Retag(d.status, t, X) = Retag(s.status, t, X)
  BY <1>0, <1>1, SchedFields DEF Retag
<1> HIDE DEF X, r
<1>7. /\ r \in SchedState /\ QueuesFit(r)
      /\ r.status = Retag(d.status, t, X) /\ r.sortLink = d.sortLink
      /\ r.priority = d.priority /\ r.waitList = d.waitList
      /\ r.joinList = d.joinList /\ r.asserted = d.asserted
  BY <1>0, <1>1, <1>3, <1>4, <1>5, MarkFacts
<1>8. QED
  BY <1>1, <1>6, <1>7 DEF r, X

\* OsSchedResume makes ready a task that waits for nothing.
LEMMA ResumeFacts ==
  ASSUME NEW s \in SchedState, NEW t \in Tasks, QueuesFit(s), "READY" \notin s.status[t]
  PROVE  LET r == OsSchedResume(s, t) IN
         /\ r \in SchedState /\ QueuesFit(r)
         /\ r.status = Retag(s.status, t, IF s.status[t] \cap {"DELAY", "PEND"} = {}
                                          THEN MadeReady(s.status[t])
                                          ELSE s.status[t] \ {"SUSPEND"})
         /\ r.priority = s.priority /\ r.sortLink = s.sortLink
         /\ r.waitList = s.waitList /\ r.joinList = s.joinList
         /\ r.asserted = s.asserted
<1> DEFINE X == s.status[t] \ {"SUSPEND"}
           r == OsSchedResume(s, t)
           on == Marked(s, t, X, s.sortLink)
<1>1. [s EXCEPT !.status[t] = @ \ {"SUSPEND"}] = on
  BY SchedFields DEF SchedState, Marked
<1>2. r = IF s.status[t] \cap {"DELAY", "PEND"} = {} THEN OsSchedTaskEnQueue(on, t) ELSE on
  BY <1>1 DEF OsSchedResume
<1>3. /\ t \in TCBs /\ s.sortLink \in SUBSET Tasks
      /\ X \in SUBSET Flags /\ "READY" \notin X
  BY TcbFacts, SchedFields, FlagSets
<1>4. MadeReady(X) = MadeReady(s.status[t])
  BY DEF MadeReady
<1> HIDE DEF X, r
<1>5. CASE s.status[t] \cap {"DELAY", "PEND"} = {}
  <2> DEFINE q == OsSchedTaskEnQueue(on, t)
  <2>1. /\ q \in SchedState /\ QueuesFit(q)
        /\ q.status = Retag(s.status, t, MadeReady(X)) /\ q.sortLink = s.sortLink
        /\ q.priority = s.priority /\ q.waitList = s.waitList
        /\ q.joinList = s.joinList /\ q.asserted = s.asserted
    BY <1>3, MarkAndEnQueue
  <2> HIDE DEF q, on
  <2>2. QED
    BY <1>2, <1>4, <1>5, <2>1 DEF r, q
<1>6. CASE s.status[t] \cap {"DELAY", "PEND"} # {}
  <2>1. /\ on \in SchedState /\ QueuesFit(on)
        /\ on.status = Retag(s.status, t, X) /\ on.sortLink = s.sortLink
        /\ on.priority = s.priority /\ on.waitList = s.waitList
        /\ on.joinList = s.joinList /\ on.asserted = s.asserted
    BY <1>3, MarkFacts
  <2> HIDE DEF on
  <2>2. QED
    BY <1>2, <1>6, <2>1 DEF r, X
<1>7. QED
  BY <1>5, <1>6

\* OsSchedModifyTaskSchedParam moves a ready task to the queue of its new priority.
LEMMA ModifyFacts ==
  ASSUME NEW s \in SchedState, NEW t \in Tasks, NEW p \in Priorities, QueuesFit(s),
         FlagsFit(s.status)
  PROVE  LET r == OsSchedModifyTaskSchedParam(s, t, p) IN
         /\ r \in SchedState /\ QueuesFit(r)
         /\ r.status = s.status
         /\ r.priority = [s.priority EXCEPT ![t] = p] /\ r.sortLink = s.sortLink
         /\ r.waitList = s.waitList /\ r.joinList = s.joinList
         /\ r.asserted = s.asserted
<1> DEFINE d == OsSchedTaskDeQueue(s, t)
           pr == [s.priority EXCEPT ![t] = p]
           new == [d EXCEPT !.priority[t] = p]
           r == OsSchedModifyTaskSchedParam(s, t, p)
<1>0. t \in TCBs /\ t \in Tasks \cup {Idle}
  BY TcbFacts
<1>1. /\ d \in SchedState /\ QueuesFit(d)
      /\ d.status = Retag(s.status, t, s.status[t] \ {"READY"})
      /\ d.priority = s.priority /\ d.sortLink = s.sortLink
      /\ d.waitList = s.waitList /\ d.joinList = s.joinList
      /\ d.asserted = s.asserted
  BY <1>0, DeQueueFacts
<1>2. r = IF "READY" \in s.status[t] THEN OsSchedTaskEnQueue(new, t) ELSE new
  BY DEF OsSchedModifyTaskSchedParam
<1> HIDE DEF d, r
<1>3. d.status[t] = s.status[t] \ {"READY"} /\ "READY" \notin d.status[t]
  BY <1>0, <1>1, SchedFields DEF Retag
<1>4. new = [d EXCEPT !.priority = pr] /\ pr \in [TCBs -> Priorities]
  BY <1>1, SchedFields DEF SchedState
<1>5. \A u \in Tasks : u # t => pr[u] = s.priority[u]
  BY SchedFields, TcbFacts
<1> HIDE DEF new, pr
<1>6. /\ new \in SchedState
      /\ new.status = d.status /\ new.queue = d.queue /\ new.bitmap = d.bitmap
      /\ new.priority = pr /\ new.sortLink = s.sortLink
      /\ new.waitList = s.waitList /\ new.joinList = s.joinList
      /\ new.asserted = s.asserted
  BY <1>1, <1>4 DEF SchedState
<1>7. QueuesFit(new)
  <2>1. ASSUME NEW q \in Priorities, NEW u \in Tasks
        PROVE  u \in Listed(d.queue[q]) <=> "READY" \in d.status[u] /\ pr[u] = q
    <3>1. QueuesFit(d) /\ d.priority = s.priority
      BY <1>1
    <3>2. u \in Listed(d.queue[q]) <=> "READY" \in d.status[u] /\ s.priority[u] = q
      BY <3>1 DEF QueuesFit
    <3>3. QED
      BY <1>3, <1>5, <3>2
  <2>2. QED
    BY <1>1, <1>6, <2>1 DEF QueuesFit
<1>8. CASE "READY" \in s.status[t]
  <2>1. "READY" \notin new.status[t]
    BY <1>3, <1>6
  <2>2. /\ r \in SchedState /\ QueuesFit(r)
        /\ r.status = Retag(new.status, t, MadeReady(new.status[t]))
        /\ r.priority = new.priority /\ r.sortLink = new.sortLink
        /\ r.waitList = new.waitList /\ r.joinList = new.joinList
        /\ r.asserted = new.asserted
    <3>1. OsSchedTaskEnQueue(new, t) = r
      BY <1>2, <1>8
    <3>2. QED
      BY <1>0, <1>6, <1>7, <2>1, <3>1, EnQueueFacts
  <2>3. s.status[t] \subseteq {"READY", "JOINABLE"}
    BY <1>0, <1>8 DEF FlagsFit, FlagsOK
  <2>4. MadeReady(new.status[t]) = s.status[t]
    BY <1>3, <1>6, <1>8, <2>3 DEF MadeReady, Waits
  <2>5. r.status = s.status
    BY <1>0, <1>1, <1>6, <2>2, <2>4, SchedFields DEF Retag
  <2>6. QED
    BY <1>6, <2>2, <2>5 DEF r, pr
<1>9. CASE "READY" \notin s.status[t]
  <2>1. s.status[t] \ {"READY"} = s.status[t]
    BY <1>9
  <2>2. d.status = s.status
    <3>1. Retag(s.status, t, s.status[t]) = s.status
      BY <1>0, SchedFields DEF Retag
    <3>2. QED
      BY <1>1, <2>1, <3>1
  <2>3. QED
    BY <1>2, <1>6, <1>7, <1>9, <2>2 DEF r, pr
<1>10. QED
  BY <1>8, <1>9

\* OsSchedTaskExit takes t off its queue, its list and the sort link.
LEMMA ExitFacts ==
  ASSUME NEW s \in SchedState, NEW t \in Tasks, QueuesFit(s), FlagsFit(s.status), ListsFit(s)
  PROVE  LET r == OsSchedTaskExit(s, t) IN
         /\ r \in SchedState /\ QueuesFit(r)
         /\ r.status = Retag(s.status, t, (s.status[t] \ (Waits \cup {"READY"})) \cup {"EXIT"})
         /\ r.priority = s.priority /\ r.sortLink = s.sortLink \ {t}
         /\ r.waitList = Without(s.waitList, t)
         /\ r.joinList = Unlinked(s.joinList, t)
         /\ r.asserted = s.asserted
<1> DEFINE off == IF "READY" \in s.status[t] THEN OsSchedTaskDeQueue(s, t)
                  ELSE IF "PEND" \in s.status[t] THEN Unlink(s, t) ELSE s
           X == (s.status[t] \ (Waits \cup {"READY"})) \cup {"EXIT"}
           L == s.sortLink \ {t}
           r == OsSchedTaskExit(s, t)
<1>0. /\ t \in TCBs /\ t \in Tasks \cup {Idle}
      /\ Distinct(s.waitList) /\ \A v \in TCBs : Distinct(s.joinList[v])
  BY TcbFacts DEF ListsFit
<1>1. /\ off \in SchedState /\ QueuesFit(off)
      /\ off.status = Retag(s.status, t, s.status[t] \ {"READY"})
      /\ off.priority = s.priority /\ off.sortLink = s.sortLink
      /\ off.waitList = Without(s.waitList, t)
      /\ off.joinList = Unlinked(s.joinList, t)
      /\ off.asserted = s.asserted
  <2>1. CASE "READY" \in s.status[t]
    <3>1. "PEND" \notin s.status[t]
      BY <1>0, <2>1 DEF FlagsFit, FlagsOK
    <3>2. /\ s.waitList = Without(s.waitList, t)
          /\ s.joinList = Unlinked(s.joinList, t)
      BY <3>1, NotListed
    <3> DEFINE d == OsSchedTaskDeQueue(s, t)
    <3>3. /\ d \in SchedState /\ QueuesFit(d)
          /\ d.status = Retag(s.status, t, s.status[t] \ {"READY"})
          /\ d.priority = s.priority /\ d.sortLink = s.sortLink
          /\ d.waitList = s.waitList /\ d.joinList = s.joinList
          /\ d.asserted = s.asserted
      BY <1>0, DeQueueFacts
    <3>4. off = d
      BY <2>1
    <3> HIDE DEF off, d
    <3>5. QED
      BY <3>2, <3>3, <3>4
  <2>2. CASE "READY" \notin s.status[t]
    <3>1. s.status[t] \ {"READY"} = s.status[t]
      BY <2>2
    <3>2. s.status = Retag(s.status, t, s.status[t] \ {"READY"})
      BY <1>0, <3>1, SchedFields DEF Retag
    <3>3. CASE "PEND" \in s.status[t]
      <4> DEFINE u == Unlink(s, t)
      <4>1. /\ u \in SchedState
            /\ u.status = s.status /\ u.priority = s.priority /\ u.sortLink = s.sortLink
            /\ u.queue = s.queue /\ u.bitmap = s.bitmap /\ u.asserted = s.asserted
            /\ u.waitList = Without(s.waitList, t)
            /\ u.joinList = Unlinked(s.joinList, t)
        BY <1>0, UnlinkFacts
      <4>2. off = u
        BY <2>2, <3>3
      <4> HIDE DEF u, off
      <4>3. QueuesFit(u)
        BY <4>1 DEF QueuesFit
      <4>4. QED
        BY <3>2, <4>1, <4>2, <4>3
    <3>4. CASE "PEND" \notin s.status[t]
      <4>1. off = s
        BY <2>2, <3>4
      <4> HIDE DEF off
      <4>2. QED
        BY <3>2, <3>4, <4>1, NotListed
    <3>5. QED
      BY <3>3, <3>4
  <2>3. QED
    BY <2>1, <2>2
<1>2. (IF s.status[t] \cap {"DELAY", "PEND_TIME"} # {} THEN s.sortLink \ {t} ELSE s.sortLink) = L
  <2>1. s.status[t] \cap {"DELAY", "PEND_TIME"} = {} => t \notin s.sortLink
    BY DEF ListsFit
  <2>2. QED
    BY <2>1
<1> DEFINE lk == IF s.status[t] \cap {"DELAY", "PEND_TIME"} # {} THEN s.sortLink \ {t}
                 ELSE s.sortLink
<1>3. r = [off EXCEPT !.sortLink = IF s.status[t] \cap {"DELAY", "PEND_TIME"} # {}
                                   THEN @ \ {t} ELSE @,
                      !.status[t] = (@ \ Waits) \cup {"EXIT"}]
  BY DEF OsSchedTaskExit
<1> HIDE DEF off, r, L
<1>4. /\ off.status[t] = s.status[t] \ {"READY"}
      /\ ((s.status[t] \ {"READY"}) \ Waits) \cup {"EXIT"} = X
  BY <1>0, <1>1, SchedFields DEF Retag
<1>5. r = Marked(off, t, X, L)
  <2> HIDE DEF X
  <2>1. QED
    BY <1>1, <1>2, <1>3, <1>4 DEF Marked, SchedState
<1>6. X \in SUBSET Flags /\ "READY" \notin X /\ L \in SUBSET Tasks
  BY <1>0, SchedFields DEF Flags, L
<1>7. Retag(off.status, t, X) = Retag(s.status, t, X)
  BY <1>0, <1>1, SchedFields DEF Retag
<1>8. "READY" \in X <=> "READY" \in off.status[t]
  BY <1>4, <1>6
<1> HIDE DEF X
<1>9. /\ r \in SchedState /\ QueuesFit(r)
      /\ r.status = Retag(off.status, t, X) /\ r.sortLink = L
      /\ r.priority = off.priority /\ r.waitList = off.waitList
      /\ r.joinList = off.joinList /\ r.asserted = off.asserted
  BY <1>0, <1>1, <1>5, <1>6, <1>8, MarkFacts
<1>10. QED
  BY <1>1, <1>7, <1>9 DEF r, X, L

\* OsInsertTCBToFreeList leaves the queues as they are.
LEMMA WipedFacts ==
  ASSUME NEW s \in SchedState, NEW t \in Tasks, QueuesFit(s), "READY" \notin s.status[t]
  PROVE  LET r == Wiped(s, t) IN
         /\ r \in SchedState /\ QueuesFit(r)
         /\ r.status = Retag(s.status, t, {"UNUSED"})
         /\ r.priority = [s.priority EXCEPT ![t] = 0] /\ r.sortLink = s.sortLink
         /\ r.waitList = s.waitList /\ r.joinList = [s.joinList EXCEPT ![t] = <<>>]
         /\ r.asserted = s.asserted
<1> DEFINE st == Retag(s.status, t, {"UNUSED"})
           pr == [s.priority EXCEPT ![t] = 0]
           jl == [s.joinList EXCEPT ![t] = <<>>]
           sl == [s.timeSlice EXCEPT ![t] = 0]
           r == Wiped(s, t)
<1>1. r = [s EXCEPT !.status = st, !.priority = pr, !.timeSlice = sl, !.joinList = jl]
  BY SchedFields, TcbFacts DEF Wiped, Retag, SchedState
<1>2. /\ st \in [TCBs -> SUBSET Flags] /\ pr \in [TCBs -> Priorities]
      /\ jl \in [TCBs -> Seq(Tasks)] /\ sl \in [TCBs -> 0 .. SliceLen]
  BY SchedFields, TcbFacts DEF Retag, Flags
<1>3. /\ "READY" \notin st[t]
      /\ \A u \in Tasks : u # t => st[u] = s.status[u] /\ pr[u] = s.priority[u]
  BY SchedFields, TcbFacts DEF Retag
<1> HIDE DEF st, pr, jl, sl, r
<1>4. /\ r \in SchedState
      /\ r.status = st /\ r.priority = pr /\ r.joinList = jl
      /\ r.queue = s.queue /\ r.bitmap = s.bitmap /\ r.sortLink = s.sortLink
      /\ r.waitList = s.waitList /\ r.asserted = s.asserted
  BY <1>1, <1>2 DEF SchedState
<1>5. ASSUME NEW q \in Priorities, NEW u \in Tasks
      PROVE  u \in Listed(s.queue[q]) <=> "READY" \in st[u] /\ pr[u] = q
  BY <1>3 DEF QueuesFit
<1>6. QueuesFit(r)
  BY <1>4, <1>5 DEF QueuesFit
<1>7. QED
  BY <1>4, <1>6 DEF st, pr, jl, r

-----------------------------------------------------------------------------
(* What a change of the flags of one task does to the invariant's parts.   *)

\* New flags of one task that are allowed.
LEMMA FlagsRetag ==
  ASSUME NEW st \in [TCBs -> SUBSET Flags], FlagsFit(st),
         NEW t \in Tasks, NEW X, FlagsOK(X)
  PROVE  FlagsFit(Retag(st, t, X))
<1>1. /\ Retag(st, t, X)[t] = X
      /\ \A u \in TCBs : u # t => Retag(st, t, X)[u] = st[u]
  BY TcbFacts, RetagFacts
<1>2. QED
  BY <1>1, TcbFacts DEF FlagsFit

\* New flags of one task that say the same of its waiting.
LEMMA ListsKept ==
  ASSUME NEW s \in SchedState, NEW r \in SchedState, ListsFit(s),
         NEW t \in Tasks, NEW X, r.status = Retag(s.status, t, X),
         r.waitList = s.waitList, r.joinList = s.joinList, r.sortLink = s.sortLink,
         "PEND" \in X <=> "PEND" \in s.status[t],
         t \in s.sortLink <=> ("PEND_TIME" \in X \/ "DELAY" \in X) /\ "RUNNING" \notin X
  PROVE  ListsFit(r)
<1>1. /\ r.status[t] = X
      /\ \A u \in Tasks : u # t => r.status[u] = s.status[u]
  BY TcbFacts, SchedFields DEF Retag
<1>2. Distinct(r.waitList) /\ \A u \in TCBs : Distinct(r.joinList[u])
  BY DEF ListsFit
<1>3. ASSUME NEW v \in Tasks
      PROVE  /\ "PEND" \in r.status[v] <=> \/ v \in Listed(r.waitList)
                                           \/ \E u \in TCBs : v \in Listed(r.joinList[u])
             /\ v \in r.sortLink <=> /\ "PEND_TIME" \in r.status[v] \/ "DELAY" \in r.status[v]
                                     /\ "RUNNING" \notin r.status[v]
  <2>1. /\ "PEND" \in s.status[v] <=> \/ v \in Listed(s.waitList)
                                      \/ \E u \in TCBs : v \in Listed(s.joinList[u])
        /\ v \in s.sortLink <=> /\ "PEND_TIME" \in s.status[v] \/ "DELAY" \in s.status[v]
                                /\ "RUNNING" \notin s.status[v]
    BY DEF ListsFit
  <2>2. QED
    BY <1>1, <2>1
<1>4. QED
  BY <1>2, <1>3 DEF ListsFit

\* The lists without t.
LEMMA UnlinkedFacts ==
  ASSUME NEW s \in SchedState, ListsFit(s), NEW t
  PROVE  /\ Distinct(Without(s.waitList, t))
         /\ Listed(Without(s.waitList, t)) = Listed(s.waitList) \ {t}
         /\ Without(s.waitList, t) \in Seq(Tasks)
         /\ Unlinked(s.joinList, t) \in [TCBs -> Seq(Tasks)]
         /\ \A u \in TCBs :
              /\ Distinct(Unlinked(s.joinList, t)[u])
              /\ Listed(Unlinked(s.joinList, t)[u]) = Listed(s.joinList[u]) \ {t}
              /\ Unlinked(s.joinList, t)[u] \in Seq(Tasks)
<1>1. /\ Distinct(s.waitList) /\ s.waitList \in Seq(Tasks)
      /\ \A u \in TCBs : Distinct(s.joinList[u]) /\ s.joinList[u] \in Seq(Tasks)
  BY SchedFields DEF ListsFit
<1>2. \A u \in TCBs : /\ Without(s.joinList[u], t) \in Seq(Tasks)
                      /\ Listed(Without(s.joinList[u], t)) = Listed(s.joinList[u]) \ {t}
                      /\ Distinct(Without(s.joinList[u], t))
  BY <1>1, WithoutFacts
<1>3. /\ Without(s.waitList, t) \in Seq(Tasks)
      /\ Listed(Without(s.waitList, t)) = Listed(s.waitList) \ {t}
      /\ Distinct(Without(s.waitList, t))
  BY <1>1, WithoutFacts
<1>4. QED
  BY <1>2, <1>3 DEF Unlinked

\* Taking t off the wait list adds nobody.
LEMMA WaitersLeft ==
  ASSUME NEW s \in SchedState, ListsFit(s), NEW t
  PROVE  Listed(Without(s.waitList, t)) \subseteq Listed(s.waitList)
<1>1. Listed(Without(s.waitList, t)) = Listed(s.waitList) \ {t}
  BY UnlinkedFacts, Zenon
<1>2. QED
  BY <1>1

\* Taking t off the join lists removes nobody else.
LEMMA JoinersLeft ==
  ASSUME NEW s \in SchedState, ListsFit(s), NEW t
  PROVE  \A v \in TCBs : Listed(Unlinked(s.joinList, t)[v]) = Listed(s.joinList[v]) \ {t}
BY UnlinkedFacts, Zenon

\* t off every list and off the sort link, with no flag that says it waits.
LEMMA ListsLeft ==
  ASSUME NEW s \in SchedState, NEW r \in SchedState, ListsFit(s),
         NEW t \in Tasks, NEW X, r.status = Retag(s.status, t, X),
         r.waitList = Without(s.waitList, t), r.joinList = Unlinked(s.joinList, t),
         r.sortLink = s.sortLink \ {t},
         "PEND" \notin X, "PEND_TIME" \notin X, "DELAY" \notin X
  PROVE  ListsFit(r)
<1>1. /\ r.status[t] = X
      /\ \A u \in Tasks : u # t => r.status[u] = s.status[u]
  BY TcbFacts, SchedFields DEF Retag
<1>2. /\ Distinct(r.waitList) /\ \A u \in TCBs : Distinct(r.joinList[u])
      /\ Listed(r.waitList) = Listed(s.waitList) \ {t}
      /\ \A u \in TCBs : Listed(r.joinList[u]) = Listed(s.joinList[u]) \ {t}
  <2>1. /\ Distinct(Without(s.waitList, t))
        /\ \A u \in TCBs : Distinct(Unlinked(s.joinList, t)[u])
    BY UnlinkedFacts
  <2>2. Listed(Without(s.waitList, t)) = Listed(s.waitList) \ {t}
    BY UnlinkedFacts, Zenon
  <2>3. \A u \in TCBs : Listed(Unlinked(s.joinList, t)[u]) = Listed(s.joinList[u]) \ {t}
    BY JoinersLeft, Zenon
  <2>4. QED
    BY <2>1, <2>2, <2>3
<1>3. ASSUME NEW v \in Tasks
      PROVE  /\ "PEND" \in r.status[v] <=> \/ v \in Listed(r.waitList)
                                           \/ \E u \in TCBs : v \in Listed(r.joinList[u])
             /\ v \in r.sortLink <=> /\ "PEND_TIME" \in r.status[v] \/ "DELAY" \in r.status[v]
                                     /\ "RUNNING" \notin r.status[v]
  <2>1. /\ "PEND" \in s.status[v] <=> \/ v \in Listed(s.waitList)
                                      \/ \E u \in TCBs : v \in Listed(s.joinList[u])
        /\ v \in s.sortLink <=> /\ "PEND_TIME" \in s.status[v] \/ "DELAY" \in s.status[v]
                                /\ "RUNNING" \notin s.status[v]
    BY DEF ListsFit
  <2>2. QED
    BY <1>1, <1>2, <2>1
<1>4. QED
  BY <1>2, <1>3 DEF ListsFit

\* New flags of one task that say the same of RUNNING and UNUSED, and leave the
\* running task free to go on when no switch is due.
LEMMA RunRetag ==
  ASSUME NEW st \in [TCBs -> SUBSET Flags], NEW run \in TCBs, NEW lk, NEW due \in BOOLEAN, NEW rec,
         RunFits(st, run, lk, due, rec), NEW t \in Tasks, NEW X,
         "RUNNING" \in X <=> "RUNNING" \in st[t],
         "UNUSED" \in X <=> "UNUSED" \in st[t],
         NEW due2 \in BOOLEAN, due2 => lk = 0, ~due2 => ~due,
         t = run /\ ~due2 => Clean(X)
  PROVE  RunFits(Retag(st, t, X), run, lk, due2, rec)
<1>1. /\ Retag(st, t, X)[t] = X
      /\ \A u \in TCBs : u # t => Retag(st, t, X)[u] = st[u]
  BY TcbFacts DEF Retag
<1>2. QED
  BY <1>1, TcbFacts DEF RunFits

\* New flags of one task that say the same of UNUSED.
LEMMA BlocksRetag ==
  ASSUME NEW st \in [TCBs -> SUBSET Flags], NEW free, NEW rec, NEW away,
         BlocksFit(st, free, rec, away), NEW t \in Tasks, NEW X,
         "UNUSED" \in X <=> "UNUSED" \in st[t]
  PROVE  BlocksFit(Retag(st, t, X), free, rec, away)
<1>1. /\ Retag(st, t, X)[t] = X
      /\ \A u \in TCBs : u # t => Retag(st, t, X)[u] = st[u]
  BY TcbFacts, RetagFacts
<1>2. QED
  BY <1>1, TcbFacts DEF BlocksFit

\* New flags of one task that say the same of EXIT and UNUSED.
LEMMA JoinsRetag ==
  ASSUME NEW s \in SchedState, NEW r \in SchedState,
         NEW jn \in [Tasks -> Tasks \cup {Nobody}], JoinsFit(s, jn),
         NEW t \in Tasks, NEW X, r.status = Retag(s.status, t, X),
         r.joinList = s.joinList,
         "UNUSED" \in X <=> "UNUSED" \in s.status[t],
         "EXIT" \in X <=> "EXIT" \in s.status[t],
         "JOINABLE" \in s.status[t] => "JOINABLE" \in X \/ s.joinList[t] = <<>>,
         "PEND_TIME" \in X => "PEND_TIME" \in s.status[t] \/ jn[t] = Nobody,
         \A u \in Listed(r.waitList) : u \in Listed(s.waitList) \/ jn[u] = Nobody
  PROVE  JoinsFit(r, jn)
<1>1. /\ r.status[t] = X
      /\ \A u \in TCBs : u # t => r.status[u] = s.status[u]
  BY TcbFacts, SchedFields DEF Retag
<1>2. ASSUME NEW v \in TCBs, NEW u \in Tasks, u \in Listed(s.joinList[v])
      PROVE  /\ v \in Tasks /\ jn[u] = v
             /\ "JOINABLE" \in r.status[v]
             /\ "EXIT" \notin r.status[v] /\ "UNUSED" \notin r.status[v]
  <2>1. /\ v \in Tasks /\ jn[u] = v
        /\ "JOINABLE" \in s.status[v]
        /\ "EXIT" \notin s.status[v] /\ "UNUSED" \notin s.status[v]
    BY <1>2 DEF JoinsFit
  <2>2. s.joinList[v] # <<>>
    BY <1>2, EmptyList
  <2>3. QED
    BY <1>1, <2>1, <2>2
<1>3. ASSUME NEW u \in Tasks, jn[u] # Nobody
      PROVE  /\ jn[u] # u
             /\ "UNUSED" \notin r.status[jn[u]]
             /\ "EXIT" \in r.status[jn[u]] \/ u \in Listed(s.joinList[jn[u]])
             /\ \A v \in Tasks : jn[v] = jn[u] => v = u
             /\ u \notin Listed(r.waitList) /\ "PEND_TIME" \notin r.status[u]
  <2>1. /\ jn[u] # u
        /\ "UNUSED" \notin s.status[jn[u]]
        /\ "EXIT" \in s.status[jn[u]] \/ u \in Listed(s.joinList[jn[u]])
        /\ \A v \in Tasks : jn[v] = jn[u] => v = u
        /\ u \notin Listed(s.waitList) /\ "PEND_TIME" \notin s.status[u]
    BY <1>3 DEF JoinsFit
  <2>2. jn[u] \in TCBs /\ u \in TCBs
    BY <1>3, TcbFacts
  <2>3. QED
    BY <1>1, <1>3, <2>1, <2>2
<1>4. QED
  BY <1>2, <1>3 DEF JoinsFit

\* A task that joins nobody is in no join list.
LEMMA NotJoining ==
  ASSUME NEW s \in SchedState, NEW jn, JoinsFit(s, jn), NEW t \in Tasks, jn[t] = Nobody
  PROVE  s.joinList = Unlinked(s.joinList, t)
<1>1. \A u \in TCBs : t \notin Listed(s.joinList[u])
  BY TcbFacts DEF JoinsFit, Nobody
<1>2. QED
  BY <1>1, SchedFields DEF Unlinked, Without

-----------------------------------------------------------------------------
(* Steps that change the flags of one task.                                *)

\* The parts of the invariant, for the steps below.
LEMMA IInvFacts ==
  ASSUME IInv
  PROVE  /\ sched \in SchedState /\ runTask \in TCBs /\ lock \in 0 .. MaxLock
         /\ resched \in BOOLEAN /\ joining \in [Tasks -> Tasks \cup {Nobody}]
         /\ freeList \in Seq(Tasks) /\ recycleList \in Seq(Tasks)
         /\ sched.asserted = FALSE
         /\ QueuesFit(sched) /\ FlagsFit(sched.status) /\ ListsFit(sched)
         /\ RunFits(sched.status, runTask, lock, resched, recycleList)
         /\ BlocksFit(sched.status, freeList, recycleList, Away)
         /\ JoinsFit(sched, joining)
         /\ sched.status \in [TCBs -> SUBSET Flags]
         /\ \A t \in Tasks : /\ FlagsOK(sched.status[t]) /\ sched.status[t] \in SUBSET Flags
                             /\ t \in TCBs
<1>1. /\ sched \in SchedState /\ runTask \in TCBs /\ lock \in 0 .. MaxLock
      /\ resched \in BOOLEAN /\ joining \in [Tasks -> Tasks \cup {Nobody}]
      /\ freeList \in Seq(Tasks) /\ recycleList \in Seq(Tasks)
  BY DEF IInv, Core, SchedTypeOK
<1>2. /\ sched.asserted = FALSE
      /\ QueuesFit(sched) /\ FlagsFit(sched.status) /\ ListsFit(sched)
      /\ RunFits(sched.status, runTask, lock, resched, recycleList)
      /\ BlocksFit(sched.status, freeList, recycleList, Away)
      /\ JoinsFit(sched, joining)
  BY DEF IInv, Core
<1>3. sched.status \in [TCBs -> SUBSET Flags]
  BY <1>1, SchedFields
<1>4. \A t \in Tasks : /\ FlagsOK(sched.status[t]) /\ sched.status[t] \in SUBSET Flags
                      /\ t \in TCBs
  BY <1>2, <1>3, TcbFacts DEF FlagsFit
<1>5. QED
  BY <1>1, <1>2, <1>3, <1>4

\* A step after which a switch is due, or the task lock is held.
LEMMA UrgentLater ==
  ASSUME lock' = 0 => resched' = TRUE
  PROVE  MostUrgentRuns'
BY DEF MostUrgentRuns

\* A step that makes no task ready and moves no priority.
LEMMA UrgentKept ==
  ASSUME MostUrgentRuns,
         UNCHANGED <<runTask, lock, resched, joining>>,
         \A u \in Tasks : "READY" \in sched'.status[u] =>
            "READY" \in sched.status[u] /\ sched'.priority[u] = sched.priority[u],
         runTask # Idle => sched'.priority[runTask] = sched.priority[runTask]
  PROVE  MostUrgentRuns'
BY DEF MostUrgentRuns, Is

\* LOS_Schedule at the end of a call.
LEMMA ScheduleFacts ==
  ASSUME IInv, Schedule, lock' = lock
  PROVE  /\ resched' \in BOOLEAN
         /\ resched' => lock = 0
         /\ ~resched' => ~resched
         /\ lock = 0 => resched' = TRUE
         /\ MostUrgentRuns'
<1>1. resched => lock = 0
  BY IInvFacts DEF RunFits
<1>2. resched' \in BOOLEAN /\ (resched' <=> lock = 0)
  BY Zenon DEF Schedule
<1>3. lock = 0 => resched' = TRUE
  BY <1>2
<1>4. MostUrgentRuns'
  BY <1>3, UrgentLater
<1>5. QED
  BY <1>1, <1>2, <1>3, <1>4

\* Steps outside LOS_TaskCreate keep the blocks that are away.
LEMMA AwaySame ==
  ASSUME UNCHANGED creation
  PROVE  Away' = Away
BY DEF Away, Taking, creation

\* A step that writes the flags of one task and keeps queues, lists and joins right.
LEMMA OneTaskChanges ==
  ASSUME IInv, NEW t \in Tasks, NEW X \in SUBSET Flags,
         sched' \in SchedState, sched'.status = Retag(sched.status, t, X),
         sched'.asserted = sched.asserted,
         UNCHANGED <<runTask, lock, joining, freeList, recycleList>>, Away' = Away,
         resched' \in BOOLEAN, resched' => lock = 0, ~resched' => ~resched,
         t = runTask /\ ~resched' => Clean(X),
         FlagsOK(X),
         "RUNNING" \in X <=> "RUNNING" \in sched.status[t],
         "UNUSED" \in X <=> "UNUSED" \in sched.status[t],
         QueuesFit(sched'), ListsFit(sched'), JoinsFit(sched', joining), MostUrgentRuns'
  PROVE  Core'
<1>1. SchedTypeOK'
  BY IInvFacts DEF SchedTypeOK
<1>2. sched'.asserted = FALSE
  BY IInvFacts
<1>3. FlagsFit(sched'.status)
  BY IInvFacts, FlagsRetag
<1>4. RunFits(sched'.status, runTask, lock, resched', recycleList)
  BY IInvFacts, RunRetag
<1>5. BlocksFit(sched'.status, freeList, recycleList, Away)
  BY IInvFacts, BlocksRetag
<1>6. QED
  BY <1>1, <1>2, <1>3, <1>4, <1>5 DEF IInv, Core

\* The running task has its flag; no other control block has, but for those of
\* deleted tasks that wait to be recycled.
LEMMA RunningFacts ==
  ASSUME IInv
  PROVE  /\ "RUNNING" \in sched.status[runTask]
         /\ \A t \in Tasks : "UNUSED" \notin sched.status[t] =>
              ("RUNNING" \in sched.status[t] <=> t = runTask)
         /\ resched => lock = 0
         /\ ~resched => Clean(sched.status[runTask])
<1>1. "RUNNING" \in sched.status[runTask]
  BY IInvFacts DEF RunFits
<1>2. ASSUME NEW t \in Tasks, "UNUSED" \notin sched.status[t]
      PROVE  "RUNNING" \in sched.status[t] <=> t = runTask
  <2>1. t \notin Listed(recycleList)
    BY <1>2, IInvFacts DEF BlocksFit
  <2>2. QED
    BY <2>1, IInvFacts DEF RunFits
<1>3. QED
  BY <1>1, <1>2, IInvFacts DEF RunFits

\* LOS_TaskSuspend.
LEMMA SuspendStep ==
  ASSUME IInv, Calls = {}, NEW t \in Tasks, LOS_TaskSuspend(t)
  PROVE  Core'
<1> DEFINE Y == sched.status[t]
           X == (Y \ {"READY"}) \cup {"SUSPEND"}
<1>1. /\ sched' = OsSchedSuspend(sched, t)
      /\ UNCHANGED <<runTask, lock, joining, freeList, recycleList, creation>>
      /\ "UNUSED" \notin Y /\ "EXIT" \notin Y
      /\ "RUNNING" \in Y => lock = 0
      /\ t = runTask => Schedule
      /\ t # runTask => resched' = resched
  BY DEF LOS_TaskSuspend, Created, Is
<1>2. /\ sched' \in SchedState /\ QueuesFit(sched')
      /\ sched'.status = Retag(sched.status, t, X)
      /\ sched'.priority = sched.priority /\ sched'.sortLink = sched.sortLink
      /\ sched'.waitList = sched.waitList /\ sched'.joinList = sched.joinList
      /\ sched'.asserted = sched.asserted
  BY <1>1, IInvFacts, SuspendFacts
<1>3. /\ FlagsOK(Y) /\ Y \in SUBSET Flags /\ t \in TCBs
      /\ sched.status \in [TCBs -> SUBSET Flags]
      /\ t \in sched.sortLink <=> ("PEND_TIME" \in Y \/ "DELAY" \in Y) /\ "RUNNING" \notin Y
  BY IInvFacts DEF ListsFit
<1> HIDE DEF Y
<1>4. X \in SUBSET Flags /\ FlagsOK(X)
  BY <1>1, <1>3 DEF FlagsOK, Waits, Flags
<1>5. /\ "RUNNING" \in X <=> "RUNNING" \in Y
      /\ "UNUSED" \in X <=> "UNUSED" \in Y
      /\ "EXIT" \in X <=> "EXIT" \in Y
      /\ "JOINABLE" \in X <=> "JOINABLE" \in Y
      /\ "PEND" \in X <=> "PEND" \in Y
      /\ "PEND_TIME" \in X <=> "PEND_TIME" \in Y
      /\ "DELAY" \in X <=> "DELAY" \in Y
      /\ "READY" \notin X
  OBVIOUS
<1> HIDE DEF X
<1>6. ListsFit(sched')
  BY <1>2, <1>3, <1>5, IInvFacts, ListsKept DEF Y
<1>7. JoinsFit(sched', joining)
  BY <1>2, <1>5, IInvFacts, JoinsRetag DEF Y
<1>8. /\ resched' \in BOOLEAN /\ (resched' => lock = 0) /\ (~resched' => ~resched)
      /\ MostUrgentRuns'
      /\ t = runTask /\ ~resched' => Clean(X)
  <2>1. CASE t = runTask
    <3>1. lock = 0
      BY <1>1, <2>1, RunningFacts DEF Y
    <3>2. QED
      BY <1>1, <2>1, <3>1, ScheduleFacts
  <2>2. CASE t # runTask
    <3>1. \A u \in Tasks : "READY" \in sched'.status[u] => "READY" \in sched.status[u]
      BY <1>2, <1>3, <1>5, TcbFacts DEF Retag
    <3>2. MostUrgentRuns'
      BY <1>1, <1>2, <2>2, <3>1, UrgentKept DEF IInv, Core
    <3>3. QED
      BY <1>1, <2>2, <3>2, IInvFacts, RunningFacts
  <2>3. QED
    BY <2>1, <2>2
<1>9. QED
  BY <1>1, <1>2, <1>4, <1>5, <1>6, <1>7, <1>8, AwaySame, OneTaskChanges DEF Y

\* LOS_TaskResume.
LEMMA ResumeStep ==
  ASSUME IInv, Calls = {}, NEW t \in Tasks, LOS_TaskResume(t)
  PROVE  Core'
<1> DEFINE Y == sched.status[t]
           X == IF Y \cap {"DELAY", "PEND"} = {} THEN MadeReady(Y) ELSE Y \ {"SUSPEND"}
<1>1. /\ sched' = OsSchedResume(sched, t)
      /\ UNCHANGED <<runTask, lock, joining, freeList, recycleList, creation>>
      /\ "UNUSED" \notin Y /\ "EXIT" \notin Y /\ "RUNNING" \notin Y /\ "SUSPEND" \in Y
      /\ Y \cap {"DELAY", "PEND"} = {} => Schedule
      /\ Y \cap {"DELAY", "PEND"} # {} => resched' = resched
  BY DEF LOS_TaskResume, Created, Is
<1>2. /\ FlagsOK(Y) /\ Y \in SUBSET Flags /\ t \in TCBs
      /\ sched.status \in [TCBs -> SUBSET Flags]
      /\ t \in sched.sortLink <=> ("PEND_TIME" \in Y \/ "DELAY" \in Y) /\ "RUNNING" \notin Y
  BY IInvFacts DEF ListsFit
<1>3. "READY" \notin Y
  BY <1>1, <1>2 DEF FlagsOK
<1>4. /\ sched' \in SchedState /\ QueuesFit(sched')
      /\ sched'.status = Retag(sched.status, t, X)
      /\ sched'.priority = sched.priority /\ sched'.sortLink = sched.sortLink
      /\ sched'.waitList = sched.waitList /\ sched'.joinList = sched.joinList
      /\ sched'.asserted = sched.asserted
  BY <1>1, <1>3, IInvFacts, ResumeFacts
<1>5. t # runTask
  BY <1>1, RunningFacts
<1> HIDE DEF Y
<1>6. X \in SUBSET Flags /\ FlagsOK(X)
  BY <1>1, <1>2, <1>3 DEF FlagsOK, Waits, Flags, MadeReady
<1>7. /\ "RUNNING" \in X <=> "RUNNING" \in Y
      /\ "UNUSED" \in X <=> "UNUSED" \in Y
      /\ "EXIT" \in X <=> "EXIT" \in Y
      /\ "JOINABLE" \in X <=> "JOINABLE" \in Y
      /\ "PEND" \in X <=> "PEND" \in Y
      /\ "PEND_TIME" \in X <=> "PEND_TIME" \in Y
      /\ "DELAY" \in X <=> "DELAY" \in Y
      /\ Y \cap {"DELAY", "PEND"} # {} => "READY" \notin X
  BY <1>2, <1>3 DEF MadeReady, Waits, FlagsOK
<1> HIDE DEF X
<1>8. ListsFit(sched')
  BY <1>2, <1>4, <1>7, IInvFacts, ListsKept DEF Y
<1>9. JoinsFit(sched', joining)
  BY <1>4, <1>7, IInvFacts, JoinsRetag DEF Y
<1>10. /\ resched' \in BOOLEAN /\ (resched' => lock = 0) /\ (~resched' => ~resched)
       /\ MostUrgentRuns'
  <2>1. CASE Y \cap {"DELAY", "PEND"} = {}
    BY <1>1, <2>1, ScheduleFacts
  <2>2. CASE Y \cap {"DELAY", "PEND"} # {}
    <3>1. \A u \in Tasks : "READY" \in sched'.status[u] => "READY" \in sched.status[u]
      BY <1>2, <1>4, <1>7, <2>2, TcbFacts DEF Retag
    <3>2. MostUrgentRuns'
      BY <1>1, <1>4, <2>2, <3>1, UrgentKept DEF IInv, Core
    <3>3. QED
      BY <1>1, <2>2, <3>2, IInvFacts, RunningFacts
  <2>3. QED
    BY <2>1, <2>2
<1>11. QED
  BY <1>1, <1>4, <1>5, <1>6, <1>7, <1>8, <1>9, <1>10, AwaySame, OneTaskChanges DEF Y

\* A post that wakes the first task of a list, which may not have been switched out.
LEMMA WakeStep ==
  ASSUME IInv, WakeWaiter
  PROVE  Core'
<1> DEFINE t == Head(sched.waitList)
           Y == sched.status[t]
           X == IF StaysOut(Y) THEN Y \ {"PEND", "PEND_TIME"} ELSE MadeReady(Y)
<1>1. /\ sched' = OsSchedTaskWake(sched, t)
      /\ UNCHANGED <<runTask, lock, joining, freeList, recycleList, creation>>
      /\ Schedule
      /\ sched.waitList # <<>>
  BY DEF WakeWaiter
<1>2. t \in Tasks /\ t \in Listed(sched.waitList)
  BY <1>1, IInvFacts, SchedFields, FirstIsListed
<1> HIDE DEF t
<1>3. /\ FlagsOK(Y) /\ Y \in SUBSET Flags /\ t \in TCBs
      /\ sched.status \in [TCBs -> SUBSET Flags]
      /\ "PEND" \in Y
  BY <1>2, IInvFacts DEF ListsFit
<1>4. "READY" \notin Y /\ "EXIT" \notin Y /\ "UNUSED" \notin Y /\ "DELAY" \notin Y
  BY <1>3 DEF FlagsOK, Waits
<1>5. /\ sched' \in SchedState /\ QueuesFit(sched')
      /\ sched'.status = Retag(sched.status, t, X)
      /\ sched'.priority = sched.priority /\ sched'.sortLink = sched.sortLink \ {t}
      /\ sched'.waitList = Without(sched.waitList, t)
      /\ sched'.joinList = Unlinked(sched.joinList, t)
      /\ sched'.asserted = sched.asserted
  BY <1>1, <1>2, <1>4, IInvFacts, WakeFacts
<1> HIDE DEF Y
<1>6. /\ X \in SUBSET Flags
      /\ StaysOut(Y) => "SUSPEND" \in Y \/ "RUNNING" \in Y
      /\ ~StaysOut(Y) => "SUSPEND" \notin Y /\ "RUNNING" \notin Y
  BY <1>3 DEF Waits, Flags, MadeReady, StaysOut
<1>7. FlagsOK(X)
  BY <1>3, <1>4, <1>6 DEF FlagsOK, Waits, Flags, MadeReady
<1>8. /\ "RUNNING" \in X <=> "RUNNING" \in Y
      /\ "UNUSED" \in X <=> "UNUSED" \in Y
      /\ "EXIT" \in X <=> "EXIT" \in Y
      /\ "JOINABLE" \in X <=> "JOINABLE" \in Y
      /\ "PEND" \notin X /\ "PEND_TIME" \notin X /\ "DELAY" \notin X
  BY <1>4, <1>6 DEF MadeReady, Waits
<1> HIDE DEF X
<1>9. ListsFit(sched')
  BY <1>2, <1>5, <1>8, IInvFacts, ListsLeft
<1>10. joining[t] = Nobody
  BY <1>2, IInvFacts DEF JoinsFit
<1>11. sched'.joinList = sched.joinList
  BY <1>2, <1>5, <1>10, IInvFacts, NotJoining
<1>12. Listed(sched'.waitList) \subseteq Listed(sched.waitList)
  BY <1>5, IInvFacts, WaitersLeft
<1>13. JoinsFit(sched', joining)
  BY <1>2, <1>5, <1>8, <1>11, <1>12, IInvFacts, JoinsRetag DEF Y
<1>14. /\ resched' \in BOOLEAN /\ (resched' => lock = 0) /\ (~resched' => ~resched)
       /\ MostUrgentRuns'
  BY <1>1, ScheduleFacts
<1>15. t = runTask /\ ~resched' => Clean(X)
  <2>1. ASSUME t = runTask PROVE resched
    BY <1>3, <2>1, IInvFacts, RunningFacts DEF Clean, Waits, Y
  <2>2. QED
    BY <1>14, <2>1
<1>16. QED
  BY <1>1, <1>2, <1>5, <1>6, <1>7, <1>8, <1>9, <1>13, <1>14, <1>15, AwaySame, OneTaskChanges DEF Y

\* The end of the time of a delay or of a timed wait.
LEMMA TimerStep ==
  ASSUME IInv, NEW t \in Tasks, TimerExpires(t)
  PROVE  Core'
<1> DEFINE Y == sched.status[t]
           X == IF StaysSuspended(Y) THEN Y \ Waits ELSE MadeReady(Y)
<1>1. /\ sched' = OsSchedWakePendTimeTask(sched, t)
      /\ UNCHANGED <<runTask, lock, joining, freeList, recycleList, creation>>
      /\ Schedule
      /\ t \in sched.sortLink
  BY DEF TimerExpires
<1>2. /\ FlagsOK(Y) /\ Y \in SUBSET Flags /\ t \in TCBs
      /\ sched.status \in [TCBs -> SUBSET Flags]
      /\ "PEND_TIME" \in Y \/ "DELAY" \in Y
      /\ "RUNNING" \notin Y
  BY <1>1, IInvFacts DEF ListsFit
<1>3. "READY" \notin Y /\ "EXIT" \notin Y /\ "UNUSED" \notin Y
  BY <1>2 DEF FlagsOK, Waits
<1>4. /\ sched' \in SchedState /\ QueuesFit(sched')
      /\ sched'.status = Retag(sched.status, t, X)
      /\ sched'.priority = sched.priority /\ sched'.sortLink = sched.sortLink \ {t}
      /\ sched'.waitList = Without(sched.waitList, t)
      /\ sched'.joinList = Unlinked(sched.joinList, t)
      /\ sched'.asserted = sched.asserted
  BY <1>1, <1>3, IInvFacts, TimeoutFacts
<1>5. t # runTask
  BY <1>2, RunningFacts
<1>6. sched'.joinList = sched.joinList
  <2>1. CASE "PEND_TIME" \in Y
    <3>1. joining[t] = Nobody
      BY <2>1, IInvFacts DEF JoinsFit
    <3>2. QED
      BY <1>4, <3>1, IInvFacts, NotJoining
  <2>2. CASE "DELAY" \in Y
    <3>1. "PEND" \notin Y
      BY <1>2, <2>2 DEF FlagsOK
    <3>2. QED
      BY <1>4, <3>1, IInvFacts, NotListed
  <2>3. QED
    BY <1>2, <2>1, <2>2
<1> HIDE DEF Y
<1>7. X \in SUBSET Flags
  BY <1>2 DEF Waits, Flags, MadeReady
<1>8. FlagsOK(X)
  BY <1>2, <1>3 DEF FlagsOK, Waits, Flags, MadeReady, StaysSuspended
<1>9. /\ "RUNNING" \in X <=> "RUNNING" \in Y
      /\ "UNUSED" \in X <=> "UNUSED" \in Y
      /\ "EXIT" \in X <=> "EXIT" \in Y
      /\ "JOINABLE" \in X <=> "JOINABLE" \in Y
      /\ "PEND" \notin X /\ "PEND_TIME" \notin X /\ "DELAY" \notin X
  BY <1>3 DEF MadeReady, Waits, StaysSuspended
<1> HIDE DEF X
<1>10. ListsFit(sched')
  BY <1>4, <1>9, IInvFacts, ListsLeft
<1>11. Listed(sched'.waitList) \subseteq Listed(sched.waitList)
  BY <1>4, IInvFacts, WaitersLeft
<1>12. JoinsFit(sched', joining)
  BY <1>4, <1>6, <1>9, <1>11, IInvFacts, JoinsRetag DEF Y
<1>13. /\ resched' \in BOOLEAN /\ (resched' => lock = 0) /\ (~resched' => ~resched)
       /\ MostUrgentRuns'
  BY <1>1, ScheduleFacts
<1>14. QED
  BY <1>1, <1>4, <1>5, <1>7, <1>8, <1>9, <1>10, <1>12, <1>13, AwaySame, OneTaskChanges DEF Y

\* LOS_TaskPriSet.
LEMMA PriSetStep ==
  ASSUME IInv, NEW t \in Tasks, NEW p \in Priorities, LOS_TaskPriSet(t, p)
  PROVE  Core'
<1> DEFINE Y == sched.status[t]
<1>1. /\ sched' = OsSchedModifyTaskSchedParam(sched, t, p)
      /\ UNCHANGED <<runTask, lock, joining, freeList, recycleList, creation>>
      /\ "UNUSED" \notin Y
      /\ "READY" \in Y \/ "RUNNING" \in Y => Schedule
      /\ ~("READY" \in Y \/ "RUNNING" \in Y) => resched' = resched
  BY DEF LOS_TaskPriSet, Created, Is
<1>2. /\ FlagsOK(Y) /\ Y \in SUBSET Flags /\ t \in TCBs
      /\ sched.status \in [TCBs -> SUBSET Flags]
      /\ t \in sched.sortLink <=> ("PEND_TIME" \in Y \/ "DELAY" \in Y) /\ "RUNNING" \notin Y
  BY IInvFacts DEF ListsFit
<1>3. /\ sched' \in SchedState /\ QueuesFit(sched')
      /\ sched'.status = sched.status
      /\ sched'.priority = [sched.priority EXCEPT ![t] = p]
      /\ sched'.sortLink = sched.sortLink
      /\ sched'.waitList = sched.waitList /\ sched'.joinList = sched.joinList
      /\ sched'.asserted = sched.asserted
  BY <1>1, IInvFacts, ModifyFacts
<1>4. sched'.status = Retag(sched.status, t, Y)
  BY <1>2, <1>3 DEF Retag
<1>5. \A u \in TCBs : u # t => sched'.priority[u] = sched.priority[u]
  BY <1>3, IInvFacts, SchedFields
<1> HIDE DEF Y
<1>6. ListsFit(sched')
  BY <1>2, <1>3, <1>4, IInvFacts, ListsKept DEF Y
<1>7. JoinsFit(sched', joining)
  BY <1>3, IInvFacts DEF JoinsFit
<1>8. /\ resched' \in BOOLEAN /\ (resched' => lock = 0) /\ (~resched' => ~resched)
      /\ MostUrgentRuns'
  <2>1. CASE "READY" \in Y \/ "RUNNING" \in Y
    BY <1>1, <2>1, ScheduleFacts
  <2>2. CASE ~("READY" \in Y \/ "RUNNING" \in Y)
    <3>1. \A u \in Tasks : "READY" \in sched'.status[u] =>
            "READY" \in sched.status[u] /\ sched'.priority[u] = sched.priority[u]
      BY <1>3, <1>5, <2>2, TcbFacts DEF Y
    <3>2. sched'.priority[runTask] = sched.priority[runTask]
      BY <1>5, <2>2, IInvFacts, RunningFacts DEF Y
    <3>3. MostUrgentRuns'
      BY <1>1, <2>2, <3>1, <3>2, UrgentKept DEF IInv, Core
    <3>4. QED
      BY <1>1, <2>2, <3>3, IInvFacts, RunningFacts
  <2>3. QED
    BY <2>1, <2>2
<1>9. t = runTask /\ ~resched' => Clean(Y)
  BY <1>8, RunningFacts DEF Y
<1>10. QED
  BY <1>1, <1>2, <1>3, <1>4, <1>6, <1>7, <1>8, <1>9, AwaySame, OneTaskChanges DEF Y

\* What InTask says of the running task.
LEMMA InTaskFacts ==
  ASSUME IInv, InTask
  PROVE  /\ runTask \in Tasks /\ ~resched /\ joining[runTask] = Nobody
         /\ Clean(sched.status[runTask]) /\ "RUNNING" \in sched.status[runTask]
         /\ FlagsOK(sched.status[runTask])
         /\ "READY" \notin sched.status[runTask]
         /\ sched.status[runTask] \in SUBSET Flags
         /\ runTask \notin sched.sortLink
         /\ runTask \notin Listed(sched.waitList)
<1> DEFINE Y == sched.status[runTask]
<1>1. runTask \in Tasks /\ ~resched /\ joining[runTask] = Nobody
  BY DEF InTask
<1>2. Clean(Y) /\ "RUNNING" \in Y
  BY <1>1, RunningFacts
<1>3. FlagsOK(Y) /\ Y \in SUBSET Flags
  BY <1>1, IInvFacts
<1>4. /\ runTask \in sched.sortLink <=> ("PEND_TIME" \in Y \/ "DELAY" \in Y) /\ "RUNNING" \notin Y
      /\ runTask \in Listed(sched.waitList) => "PEND" \in Y
  BY <1>1, IInvFacts DEF ListsFit
<1> HIDE DEF Y
<1>5. "READY" \notin Y /\ "PEND" \notin Y
  BY <1>2, <1>3 DEF FlagsOK, Clean, Waits
<1>6. QED
  BY <1>1, <1>2, <1>3, <1>4, <1>5 DEF Y

\* LOS_TaskDetach of a task that nobody joins.
LEMMA DetachStep ==
  ASSUME IInv, NEW t \in Tasks, LOS_TaskDetach(t)
  PROVE  Core'
<1> DEFINE Y == sched.status[t]
           X == Y \ {"JOINABLE"}
<1>1. /\ sched' = [sched EXCEPT !.status[t] = X]
      /\ UNCHANGED <<runTask, lock, resched, joining, freeList, recycleList, creation>>
      /\ sched.joinList[t] = <<>> /\ InTask
  BY DEF LOS_TaskDetach, Detachable
<1>2. sched' = Marked(sched, t, X, sched.sortLink)
  BY <1>1, IInvFacts DEF Marked, SchedState
<1>3. /\ FlagsOK(Y) /\ Y \in SUBSET Flags /\ t \in TCBs
      /\ sched.status \in [TCBs -> SUBSET Flags] /\ sched.sortLink \in SUBSET Tasks
      /\ t \in sched.sortLink <=> ("PEND_TIME" \in Y \/ "DELAY" \in Y) /\ "RUNNING" \notin Y
  BY IInvFacts, SchedFields DEF ListsFit
<1>4. t = runTask => Clean(Y)
  BY <1>1, InTaskFacts
<1> HIDE DEF Y
<1>5. X \in SUBSET Flags /\ FlagsOK(X)
  BY <1>3 DEF FlagsOK, Waits, Flags
<1>6. /\ "RUNNING" \in X <=> "RUNNING" \in Y
      /\ "UNUSED" \in X <=> "UNUSED" \in Y
      /\ "EXIT" \in X <=> "EXIT" \in Y
      /\ "PEND" \in X <=> "PEND" \in Y
      /\ "PEND_TIME" \in X <=> "PEND_TIME" \in Y
      /\ "DELAY" \in X <=> "DELAY" \in Y
      /\ "READY" \in X <=> "READY" \in Y
      /\ Clean(Y) => Clean(X)
  BY DEF Clean
<1> HIDE DEF X
<1>7. /\ sched' \in SchedState /\ QueuesFit(sched')
      /\ sched'.status = Retag(sched.status, t, X) /\ sched'.sortLink = sched.sortLink
      /\ sched'.priority = sched.priority /\ sched'.waitList = sched.waitList
      /\ sched'.joinList = sched.joinList /\ sched'.asserted = sched.asserted
  BY <1>2, <1>3, <1>5, <1>6, IInvFacts, MarkFacts DEF Y
<1>8. ListsFit(sched')
  BY <1>3, <1>6, <1>7, IInvFacts, ListsKept DEF Y
<1>9. JoinsFit(sched', joining)
  BY <1>1, <1>6, <1>7, IInvFacts, JoinsRetag DEF Y
<1>10. MostUrgentRuns'
  <2>1. \A u \in Tasks : "READY" \in sched'.status[u] => "READY" \in sched.status[u]
    BY <1>3, <1>6, <1>7, TcbFacts DEF Retag, Y
  <2>2. QED
    BY <1>1, <1>7, <2>1, UrgentKept DEF IInv, Core
<1>11. resched' \in BOOLEAN /\ (resched' => lock = 0) /\ (~resched' => ~resched)
  BY <1>1, IInvFacts, RunningFacts
<1>12. QED
  BY <1>1, <1>4, <1>5, <1>6, <1>7, <1>8, <1>9, <1>10, <1>11, AwaySame, OneTaskChanges DEF Y

\* LOS_TaskDelay, up to the switch.
LEMMA DelayStep ==
  ASSUME IInv, LOS_TaskDelay
  PROVE  Core'
<1> DEFINE t == runTask
           Y == sched.status[t]
           X == Y \cup {"DELAY"}
<1>1. /\ sched' = [sched EXCEPT !.status[t] = X]
      /\ UNCHANGED <<runTask, lock, joining, freeList, recycleList, creation>>
      /\ InTask /\ lock = 0 /\ Schedule
  BY DEF LOS_TaskDelay
<1>2. sched' = Marked(sched, t, X, sched.sortLink)
  BY <1>1, IInvFacts DEF Marked, SchedState
<1>3. /\ t \in Tasks /\ t \in TCBs /\ Clean(Y) /\ "RUNNING" \in Y /\ FlagsOK(Y)
      /\ Y \in SUBSET Flags /\ sched.sortLink \in SUBSET Tasks /\ t \notin sched.sortLink
      /\ "READY" \notin Y
  BY <1>1, InTaskFacts, IInvFacts, SchedFields
<1> HIDE DEF Y
<1>4. X \in SUBSET Flags /\ FlagsOK(X)
  BY <1>3 DEF FlagsOK, Clean, Waits, Flags
<1>5. /\ "RUNNING" \in X
      /\ "UNUSED" \in X <=> "UNUSED" \in Y
      /\ "EXIT" \in X <=> "EXIT" \in Y
      /\ "JOINABLE" \in X <=> "JOINABLE" \in Y
      /\ "PEND" \in X <=> "PEND" \in Y
      /\ "PEND_TIME" \in X <=> "PEND_TIME" \in Y
      /\ "READY" \in X <=> "READY" \in Y
  BY <1>3
<1> HIDE DEF X
<1>6. /\ sched' \in SchedState /\ QueuesFit(sched')
      /\ sched'.status = Retag(sched.status, t, X) /\ sched'.sortLink = sched.sortLink
      /\ sched'.priority = sched.priority /\ sched'.waitList = sched.waitList
      /\ sched'.joinList = sched.joinList /\ sched'.asserted = sched.asserted
  BY <1>2, <1>3, <1>4, <1>5, IInvFacts, MarkFacts DEF Y
<1>7. ListsFit(sched')
  BY <1>3, <1>5, <1>6, IInvFacts, ListsKept DEF Y
<1>8. JoinsFit(sched', joining)
  BY <1>3, <1>5, <1>6, IInvFacts, JoinsRetag DEF Y
<1>9. /\ resched' = TRUE /\ MostUrgentRuns'
  BY <1>1, ScheduleFacts
<1>10. QED
  BY <1>1, <1>3, <1>4, <1>5, <1>6, <1>7, <1>8, <1>9, AwaySame, OneTaskChanges DEF Y

\* LOS_TaskYield, up to the switch.
LEMMA YieldStep ==
  ASSUME IInv, LOS_TaskYield
  PROVE  Core'
<1> DEFINE t == runTask
           Y == sched.status[t]
           sl == [sched.timeSlice EXCEPT ![t] = 0]
<1>1. /\ sched' = [sched EXCEPT !.timeSlice[t] = 0]
      /\ UNCHANGED <<runTask, lock, joining, freeList, recycleList, creation>>
      /\ InTask /\ Schedule
  BY DEF LOS_TaskYield
<1>2. /\ t \in Tasks /\ t \in TCBs /\ Clean(Y) /\ "RUNNING" \in Y /\ FlagsOK(Y)
      /\ Y \in SUBSET Flags /\ t \notin sched.sortLink
  BY <1>1, InTaskFacts, IInvFacts
<1>3. sched' = [sched EXCEPT !.timeSlice = sl] /\ sl \in [TCBs -> 0 .. SliceLen]
  BY <1>1, <1>2, IInvFacts, SchedFields, TcbFacts DEF SchedState
<1> HIDE DEF Y, sl
<1>4. /\ sched' \in SchedState
      /\ sched'.status = sched.status /\ sched'.sortLink = sched.sortLink
      /\ sched'.queue = sched.queue /\ sched'.bitmap = sched.bitmap
      /\ sched'.priority = sched.priority /\ sched'.waitList = sched.waitList
      /\ sched'.joinList = sched.joinList /\ sched'.asserted = sched.asserted
  BY <1>3, IInvFacts DEF SchedState
<1>5. QueuesFit(sched')
  BY <1>4, IInvFacts DEF QueuesFit
<1>6. sched'.status = Retag(sched.status, t, Y)
  BY <1>2, <1>4, IInvFacts DEF Retag, Y
<1>7. ListsFit(sched')
  BY <1>4, IInvFacts DEF ListsFit
<1>8. JoinsFit(sched', joining)
  BY <1>4, IInvFacts DEF JoinsFit
<1>9. /\ resched' \in BOOLEAN /\ (resched' => lock = 0) /\ (~resched' => ~resched)
      /\ MostUrgentRuns'
  BY <1>1, ScheduleFacts
<1>10. QED
  BY <1>1, <1>2, <1>4, <1>5, <1>6, <1>7, <1>8, <1>9, AwaySame, OneTaskChanges DEF Y

\* A pend with or without a time limit, up to the switch.
LEMMA WaitStep ==
  ASSUME IInv, NEW timed \in BOOLEAN, OsSchedTaskWait(timed)
  PROVE  Core'
<1> DEFINE t == runTask
           Y == sched.status[t]
           X == Y \cup {"PEND"} \cup (IF timed THEN {"PEND_TIME"} ELSE {})
           st == Retag(sched.status, t, X)
           wl == Append(sched.waitList, t)
<1>1. /\ sched' = [sched EXCEPT !.waitList = wl, !.status[t] = X]
      /\ UNCHANGED <<runTask, lock, joining, freeList, recycleList, creation>>
      /\ InTask /\ lock = 0 /\ Schedule
  BY DEF OsSchedTaskWait
<1>2. /\ t \in Tasks /\ t \in TCBs /\ Clean(Y) /\ "RUNNING" \in Y /\ FlagsOK(Y)
      /\ Y \in SUBSET Flags /\ sched.sortLink \in SUBSET Tasks /\ t \notin sched.sortLink
      /\ "READY" \notin Y /\ t \notin Listed(sched.waitList) /\ joining[t] = Nobody
  BY <1>1, InTaskFacts, IInvFacts, SchedFields
<1> HIDE DEF Y
<1>3. X \in SUBSET Flags /\ FlagsOK(X)
  BY <1>2 DEF FlagsOK, Clean, Waits, Flags
<1>4. /\ "RUNNING" \in X /\ "PEND" \in X
      /\ "UNUSED" \in X <=> "UNUSED" \in Y
      /\ "EXIT" \in X <=> "EXIT" \in Y
      /\ "JOINABLE" \in X <=> "JOINABLE" \in Y
      /\ "READY" \notin X
  BY <1>2
<1> HIDE DEF X
<1>5. sched' = [sched EXCEPT !.waitList = wl, !.status = st]
  BY <1>1, IInvFacts DEF SchedState, Retag
<1>6. /\ st \in [TCBs -> SUBSET Flags] /\ st[t] = X
      /\ \A u \in TCBs : u # t => st[u] = sched.status[u]
  BY <1>2, <1>3, IInvFacts DEF Retag
<1>7. /\ wl \in Seq(Tasks) /\ Distinct(wl) /\ Listed(wl) = Listed(sched.waitList) \cup {t}
  BY <1>2, IInvFacts, SchedFields, TailInsert DEF ListsFit
<1> HIDE DEF st, wl
<1>8. /\ sched' \in SchedState
      /\ sched'.status = st /\ sched'.sortLink = sched.sortLink
      /\ sched'.queue = sched.queue /\ sched'.bitmap = sched.bitmap
      /\ sched'.priority = sched.priority /\ sched'.waitList = wl
      /\ sched'.joinList = sched.joinList /\ sched'.asserted = sched.asserted
  BY <1>5, <1>6, <1>7, IInvFacts DEF SchedState
<1>9. QueuesFit(sched')
  <2>1. \A u \in Tasks : "READY" \in st[u] <=> "READY" \in sched.status[u]
    BY <1>2, <1>4, <1>6, TcbFacts DEF Y
  <2>2. QED
    BY <1>8, <2>1, IInvFacts DEF QueuesFit
<1>10. ListsFit(sched')
  <2>1. ASSUME NEW v \in Tasks
        PROVE  /\ "PEND" \in st[v] <=> \/ v \in Listed(wl)
                                       \/ \E u \in TCBs : v \in Listed(sched.joinList[u])
               /\ v \in sched.sortLink <=> /\ "PEND_TIME" \in st[v] \/ "DELAY" \in st[v]
                                           /\ "RUNNING" \notin st[v]
    <3>1. /\ "PEND" \in sched.status[v] <=>
               \/ v \in Listed(sched.waitList)
               \/ \E u \in TCBs : v \in Listed(sched.joinList[u])
          /\ v \in sched.sortLink <=>
               /\ "PEND_TIME" \in sched.status[v] \/ "DELAY" \in sched.status[v]
               /\ "RUNNING" \notin sched.status[v]
      BY IInvFacts DEF ListsFit
    <3>2. QED
      BY <1>2, <1>4, <1>6, <1>7, <3>1, TcbFacts
  <2>2. QED
    BY <1>7, <1>8, <2>1, IInvFacts DEF ListsFit
<1>11. sched'.status = Retag(sched.status, t, X)
  BY <1>8 DEF st
<1>12. \A u \in Listed(sched'.waitList) : u \in Listed(sched.waitList) \/ joining[u] = Nobody
  BY <1>2, <1>7, <1>8
<1>13. JoinsFit(sched', joining)
  BY <1>2, <1>4, <1>8, <1>11, <1>12, IInvFacts, JoinsRetag DEF Y
<1>14. /\ resched' = TRUE /\ MostUrgentRuns'
  BY <1>1, ScheduleFacts
<1>15. QED
  BY <1>1, <1>2, <1>3, <1>4, <1>8, <1>9, <1>10, <1>11, <1>13, <1>14, AwaySame, OneTaskChanges DEF Y

-----------------------------------------------------------------------------
(* Join.                                                                   *)

\* A step that makes ready only tasks inside LOS_TaskJoin, and moves no priority.
LEMMA UrgentStill ==
  ASSUME MostUrgentRuns,
         UNCHANGED <<runTask, lock, resched>>,
         \A u \in Tasks : "READY" \in sched'.status[u] /\ joining'[u] = Nobody =>
            /\ "READY" \in sched.status[u] /\ joining[u] = Nobody
            /\ sched'.priority[u] = sched.priority[u],
         runTask # Idle => sched'.priority[runTask] = sched.priority[runTask]
  PROVE  MostUrgentRuns'
BY DEF MostUrgentRuns, Is

\* Nobody is no task.
LEMMA NobodyFacts ==
  /\ Nobody \notin Tasks /\ Nobody \in TCBs
  /\ \A t \in Tasks : t # Nobody /\ t \in TCBs
BY TaskAssumption DEF Nobody, TCBs

\* Writing what is there already changes nothing.
LEMMA SameValue ==
  ASSUME NEW S, NEW T, NEW f \in [S -> T], NEW x, NEW y, f[x] = y
  PROVE  [f EXCEPT ![x] = y] = f
OBVIOUS

\* A list of one node.
LEMMA OneElement ==
  ASSUME NEW S, NEW x \in S
  PROVE  <<x>> \in Seq(S) /\ Listed(<<x>>) = {x} /\ Distinct(<<x>>)
BY DEF Listed, Distinct

\* LOS_TaskJoin of a live task: the first and only task of its join list.
LEMMA JoinPendsStep ==
  ASSUME IInv, NEW t \in Tasks, JoinPends(t)
  PROVE  Core'
<1> DEFINE r == runTask
           Y == sched.status[r]
           X == Y \cup {"PEND"}
           st == Retag(sched.status, r, X)
           jl == [sched.joinList EXCEPT ![t] = <<r>>]
           jn == [joining EXCEPT ![r] = t]
<1>1. /\ sched' = [sched EXCEPT !.joinList[t] = <<r>>, !.status[r] = X]
      /\ UNCHANGED <<runTask, lock, freeList, recycleList, creation>>
      /\ InTask /\ lock = 0 /\ Schedule
      /\ t # r /\ "UNUSED" \notin sched.status[t] /\ "EXIT" \notin sched.status[t]
      /\ "JOINABLE" \in sched.status[t] /\ sched.joinList[t] = <<>>
      /\ joining' = jn
  BY DEF JoinPends, Created, Is
<1>2. /\ r \in Tasks /\ r \in TCBs /\ Clean(Y) /\ "RUNNING" \in Y /\ FlagsOK(Y)
      /\ Y \in SUBSET Flags /\ r \notin sched.sortLink
      /\ "READY" \notin Y /\ r \notin Listed(sched.waitList) /\ joining[r] = Nobody
      /\ t \in TCBs
  BY <1>1, InTaskFacts, IInvFacts
<1> HIDE DEF Y
<1>3. X \in SUBSET Flags /\ FlagsOK(X)
  BY <1>2 DEF FlagsOK, Clean, Waits, Flags
<1>4. /\ "RUNNING" \in X /\ "PEND" \in X
      /\ "UNUSED" \notin X /\ "UNUSED" \notin Y
      /\ "EXIT" \in X <=> "EXIT" \in Y
      /\ "JOINABLE" \in X <=> "JOINABLE" \in Y
      /\ "READY" \notin X /\ "PEND_TIME" \notin X
  BY <1>2 DEF Clean, Waits
<1> HIDE DEF X
<1>5. sched' = [sched EXCEPT !.joinList = jl, !.status = st]
  BY <1>1, IInvFacts DEF SchedState, Retag
<1>6. /\ st \in [TCBs -> SUBSET Flags] /\ st[r] = X
      /\ \A u \in TCBs : u # r => st[u] = sched.status[u]
  BY <1>2, <1>3, IInvFacts DEF Retag
<1>7. <<r>> \in Seq(Tasks) /\ Listed(<<r>>) = {r} /\ Distinct(<<r>>)
  BY <1>2, OneElement
<1>8. /\ jl \in [TCBs -> Seq(Tasks)] /\ jl[t] = <<r>>
      /\ \A u \in TCBs : u # t => jl[u] = sched.joinList[u]
  BY <1>2, <1>7, IInvFacts, SchedFields
<1>9. /\ jn \in [Tasks -> Tasks \cup {Nobody}] /\ jn[r] = t
      /\ \A u \in Tasks : u # r => jn[u] = joining[u]
  BY <1>2, IInvFacts
<1> HIDE DEF st, jl, jn
<1>10. /\ sched' \in SchedState
       /\ sched'.status = st /\ sched'.sortLink = sched.sortLink
       /\ sched'.queue = sched.queue /\ sched'.bitmap = sched.bitmap
       /\ sched'.priority = sched.priority /\ sched'.waitList = sched.waitList
       /\ sched'.joinList = jl /\ sched'.asserted = sched.asserted
  BY <1>5, <1>6, <1>8, IInvFacts DEF SchedState
<1>11. QueuesFit(sched')
  <2>1. \A u \in Tasks : "READY" \in st[u] <=> "READY" \in sched.status[u]
    BY <1>2, <1>4, <1>6, TcbFacts DEF Y
  <2>2. QED
    BY <1>10, <2>1, IInvFacts DEF QueuesFit
<1>12. \A u \in TCBs : Listed(jl[u]) = Listed(sched.joinList[u]) \cup (IF u = t THEN {r} ELSE {})
  BY <1>1, <1>7, <1>8, EmptyList
<1>13. ListsFit(sched')
  <2>1. ASSUME NEW v \in Tasks
        PROVE  /\ "PEND" \in st[v] <=> \/ v \in Listed(sched.waitList)
                                       \/ \E u \in TCBs : v \in Listed(jl[u])
               /\ v \in sched.sortLink <=> /\ "PEND_TIME" \in st[v] \/ "DELAY" \in st[v]
                                           /\ "RUNNING" \notin st[v]
    <3>1. /\ "PEND" \in sched.status[v] <=>
               \/ v \in Listed(sched.waitList)
               \/ \E u \in TCBs : v \in Listed(sched.joinList[u])
          /\ v \in sched.sortLink <=>
               /\ "PEND_TIME" \in sched.status[v] \/ "DELAY" \in sched.status[v]
               /\ "RUNNING" \notin sched.status[v]
      BY IInvFacts DEF ListsFit
    <3>2. CASE v = r
      BY <1>2, <1>4, <1>6, <1>12, <3>2
    <3>3. CASE v # r
      BY <1>6, <1>12, <3>1, <3>3, TcbFacts
    <3>4. QED
      BY <3>2, <3>3
  <2>2. \A u \in TCBs : Distinct(jl[u])
    BY <1>7, <1>8, IInvFacts DEF ListsFit
  <2>3. QED
    BY <1>10, <2>1, <2>2, IInvFacts DEF ListsFit
<1>14. \A u \in Tasks : joining[u] # t
  BY <1>1, IInvFacts, EmptyList, NobodyFacts DEF JoinsFit
<1>15. JoinsFit(sched', jn)
  <2>1. ASSUME NEW v \in TCBs, NEW u \in Tasks, u \in Listed(jl[v])
        PROVE  /\ v \in Tasks /\ jn[u] = v
               /\ "JOINABLE" \in st[v] /\ "EXIT" \notin st[v] /\ "UNUSED" \notin st[v]
    <3>1. CASE v = t /\ u = r
      BY <1>1, <1>6, <1>9, <3>1, TcbFacts
    <3>2. CASE u \in Listed(sched.joinList[v])
      <4>1. /\ v \in Tasks /\ joining[u] = v /\ "JOINABLE" \in sched.status[v]
            /\ "EXIT" \notin sched.status[v] /\ "UNUSED" \notin sched.status[v]
        BY <3>2, IInvFacts DEF JoinsFit
      <4>2. u # r
        BY <1>2, <4>1, NobodyFacts
      <4>3. QED
        BY <1>4, <1>6, <1>9, <4>1, <4>2 DEF Y
    <3>3. QED
      BY <1>12, <2>1, <3>1, <3>2
  <2>2. ASSUME NEW u \in Tasks, jn[u] # Nobody
        PROVE  /\ jn[u] # u
               /\ "UNUSED" \notin st[jn[u]]
               /\ "EXIT" \in st[jn[u]] \/ u \in Listed(jl[jn[u]])
               /\ \A v \in Tasks : jn[v] = jn[u] => v = u
               /\ u \notin Listed(sched.waitList) /\ "PEND_TIME" \notin st[u]
    <3>1. CASE u = r
      BY <1>1, <1>2, <1>4, <1>6, <1>9, <1>12, <1>14, <3>1
    <3>2. CASE u # r
      <4> DEFINE w == joining[u]
      <4>1. jn[u] = w /\ w # Nobody /\ w \in Tasks /\ w \in TCBs /\ w # t
        BY <1>9, <1>14, <2>2, <3>2, IInvFacts, TcbFacts
      <4>2. /\ w # u
            /\ "UNUSED" \notin sched.status[w]
            /\ "EXIT" \in sched.status[w] \/ u \in Listed(sched.joinList[w])
            /\ \A v \in Tasks : joining[v] = w => v = u
            /\ u \notin Listed(sched.waitList) /\ "PEND_TIME" \notin sched.status[u]
        BY <4>1, IInvFacts DEF JoinsFit
      <4> HIDE DEF w
      <4>3. QED
        BY <1>4, <1>6, <1>9, <1>12, <3>2, <4>1, <4>2, TcbFacts DEF Y
    <3>3. QED
      BY <3>1, <3>2
  <2>3. QED
    BY <1>10, <2>1, <2>2 DEF JoinsFit
<1>16. resched' = TRUE /\ MostUrgentRuns'
  BY <1>1, ScheduleFacts
<1>17. FlagsFit(st)
  BY <1>2, <1>3, IInvFacts, FlagsRetag DEF st
<1>18. RunFits(st, r, lock, TRUE, recycleList)
  BY <1>1, <1>2, <1>4, IInvFacts, RunRetag DEF st, Y
<1>19. BlocksFit(st, freeList, recycleList, Away)
  BY <1>2, <1>4, IInvFacts, BlocksRetag DEF st, Y
<1>20. SchedTypeOK'
  BY <1>1, <1>9, <1>10, <1>16, IInvFacts DEF SchedTypeOK
<1>21. QED
  BY <1>1, <1>10, <1>11, <1>13, <1>15, <1>16, <1>17, <1>18, <1>19, <1>20, IInvFacts, AwaySame DEF IInv, Core

\* LOS_TaskJoin or LOS_TaskDetach of a task that has exited and is joined by no other.
LEMMA JoinExitedStep ==
  ASSUME IInv, Calls = {}, NEW t \in Tasks, JoinExited(t)
  PROVE  Core'
<1> DEFINE r == runTask
           jn == [joining EXCEPT ![r] = t]
<1>1. /\ UNCHANGED <<sched, runTask, lock, freeList, recycleList, creation>>
      /\ InTask /\ lock = 0 /\ Schedule
      /\ "UNUSED" \notin sched.status[t] /\ "EXIT" \in sched.status[t]
      /\ \A u \in Tasks : joining[u] # t
      /\ joining' = jn
  BY DEF JoinExited, Created, Is
<1>2. /\ r \in Tasks /\ Clean(sched.status[r])
      /\ r \notin Listed(sched.waitList) /\ joining[r] = Nobody
  BY <1>1, InTaskFacts, IInvFacts
<1>3. t # r /\ "PEND_TIME" \notin sched.status[r]
  BY <1>1, <1>2 DEF Clean, Waits
<1>4. /\ jn \in [Tasks -> Tasks \cup {Nobody}] /\ jn[r] = t
      /\ \A u \in Tasks : u # r => jn[u] = joining[u]
  BY <1>2, IInvFacts
<1> HIDE DEF jn
<1>5. JoinsFit(sched, jn)
  <2>1. ASSUME NEW v \in TCBs, NEW u \in Tasks, u \in Listed(sched.joinList[v])
        PROVE  /\ v \in Tasks /\ jn[u] = v
               /\ "JOINABLE" \in sched.status[v]
               /\ "EXIT" \notin sched.status[v] /\ "UNUSED" \notin sched.status[v]
    <3>1. /\ v \in Tasks /\ joining[u] = v /\ "JOINABLE" \in sched.status[v]
          /\ "EXIT" \notin sched.status[v] /\ "UNUSED" \notin sched.status[v]
      BY <2>1, IInvFacts DEF JoinsFit
    <3>2. u # r
      BY <1>2, <3>1, NobodyFacts
    <3>3. QED
      BY <1>4, <3>1, <3>2
  <2>2. ASSUME NEW u \in Tasks, jn[u] # Nobody
        PROVE  /\ jn[u] # u
               /\ "UNUSED" \notin sched.status[jn[u]]
               /\ "EXIT" \in sched.status[jn[u]] \/ u \in Listed(sched.joinList[jn[u]])
               /\ \A v \in Tasks : jn[v] = jn[u] => v = u
               /\ u \notin Listed(sched.waitList) /\ "PEND_TIME" \notin sched.status[u]
    <3>1. CASE u = r
      BY <1>1, <1>2, <1>3, <1>4, <3>1
    <3>2. CASE u # r
      <4>1. jn[u] = joining[u] /\ joining[u] # t
        BY <1>1, <1>4, <3>2
      <4>2. /\ joining[u] # u
            /\ "UNUSED" \notin sched.status[joining[u]]
            /\ "EXIT" \in sched.status[joining[u]] \/ u \in Listed(sched.joinList[joining[u]])
            /\ \A v \in Tasks : joining[v] = joining[u] => v = u
            /\ u \notin Listed(sched.waitList) /\ "PEND_TIME" \notin sched.status[u]
        BY <2>2, <4>1, IInvFacts DEF JoinsFit
      <4>3. QED
        BY <1>4, <4>1, <4>2
    <3>3. QED
      BY <3>1, <3>2
  <2>3. QED
    BY <2>1, <2>2 DEF JoinsFit
<1>6. resched' = TRUE /\ MostUrgentRuns'
  BY <1>1, ScheduleFacts
<1>7. RunFits(sched.status, r, lock, TRUE, recycleList)
  BY <1>1, IInvFacts DEF RunFits
<1>8. SchedTypeOK'
  BY <1>1, <1>4, <1>6, IInvFacts DEF SchedTypeOK
<1>9. QED
  BY <1>1, <1>5, <1>6, <1>7, <1>8, IInvFacts, AwaySame DEF IInv, Core

\* The end of LOS_TaskJoin frees a block that is neither free nor to be recycled: the
\* joined task has exited, and nobody else is in LOS_TaskJoin of it.
LEMMA JoinReclaimsStep ==
  ASSUME IInv, JoinReclaims
  PROVE  Core'
<1> DEFINE r == runTask
           t == joining[r]
           Y == sched.status[t]
           X == {"UNUSED"}
           jn == [joining EXCEPT ![r] = Nobody]
           fl == <<t>> \o freeList
<1>1. /\ sched' = Wiped(sched, t) /\ joining' = jn /\ freeList' = fl
      /\ UNCHANGED <<runTask, lock, resched, recycleList, creation>>
      /\ ~resched /\ r \in Tasks /\ t # Nobody
  BY DEF JoinReclaims
<1>2. t \in Tasks /\ t \in TCBs /\ r \in TCBs
  BY <1>1, IInvFacts, TcbFacts
<1>3. /\ t # r /\ "UNUSED" \notin Y
      /\ "EXIT" \in Y \/ r \in Listed(sched.joinList[t])
      /\ \A v \in Tasks : joining[v] = t => v = r
  BY <1>1, IInvFacts DEF JoinsFit
<1>4. Clean(sched.status[r])
  BY <1>1, RunningFacts
<1>5. "PEND" \notin sched.status[r]
  BY <1>4 DEF Clean, Waits
<1>6. r \notin Listed(sched.joinList[t])
  BY <1>1, <1>2, <1>5, IInvFacts DEF ListsFit
<1>7. FlagsOK(Y) /\ "EXIT" \in Y
  BY <1>2, <1>3, <1>6, IInvFacts
<1>8. /\ "READY" \notin Y /\ "PEND" \notin Y /\ "PEND_TIME" \notin Y /\ "DELAY" \notin Y
  BY <1>7 DEF FlagsOK, Waits
<1>9. "RUNNING" \notin Y
  BY <1>2, <1>3, RunningFacts
<1>10. sched.joinList[t] = <<>>
  <2>1. sched.joinList[t] \in Seq(Tasks)
    BY <1>2, IInvFacts, SchedFields
  <2>2. Listed(sched.joinList[t]) \subseteq Tasks /\
        (sched.joinList[t] = <<>> <=> Listed(sched.joinList[t]) = {})
    BY <2>1, NobodyListed
  <2>3. \A u \in Tasks : u \notin Listed(sched.joinList[t])
    BY <1>2, <1>7, IInvFacts DEF JoinsFit
  <2>4. QED
    BY <2>2, <2>3
<1> HIDE DEF t
<1>11. /\ sched' \in SchedState /\ QueuesFit(sched')
       /\ sched'.status = Retag(sched.status, t, X)
       /\ sched'.priority = [sched.priority EXCEPT ![t] = 0]
       /\ sched'.sortLink = sched.sortLink
       /\ sched'.waitList = sched.waitList
       /\ sched'.joinList = [sched.joinList EXCEPT ![t] = <<>>]
       /\ sched'.asserted = sched.asserted
  BY <1>1, <1>2, <1>8, IInvFacts, WipedFacts
<1>12. sched'.joinList = sched.joinList
  <2>1. sched.joinList \in [TCBs -> Seq(Tasks)]
    BY IInvFacts, SchedFields
  <2>2. [sched.joinList EXCEPT ![t] = <<>>] = sched.joinList
    BY <1>10, <2>1, SameValue
  <2>3. QED
    BY <1>11, <2>2
<1>13. /\ jn \in [Tasks -> Tasks \cup {Nobody}] /\ jn[r] = Nobody
       /\ \A u \in Tasks : u # r => jn[u] = joining[u]
  BY <1>1, IInvFacts
<1>14. /\ sched'.status[t] = X
       /\ \A u \in TCBs : u # t => sched'.status[u] = sched.status[u]
       /\ \A u \in TCBs : u # t => sched'.priority[u] = sched.priority[u]
  BY <1>2, <1>11, IInvFacts, SchedFields DEF Retag
<1>15. t \notin Listed(freeList) /\ t \notin Listed(recycleList) /\ t \notin Away
  BY <1>2, <1>3, IInvFacts DEF BlocksFit
<1>16. /\ fl \in Seq(Tasks) /\ Distinct(fl) /\ Listed(fl) = Listed(freeList) \cup {t}
  BY <1>2, <1>15, IInvFacts, PushFront DEF BlocksFit
<1> HIDE DEF jn, fl, Y
<1>17. FlagsFit(sched'.status)
  <2>1. FlagsOK(X)
    BY DEF FlagsOK, Waits
  <2>2. QED
    BY <1>2, <1>11, <2>1, IInvFacts, FlagsRetag
<1>18. ListsFit(sched')
  <2>1. t \notin sched.sortLink
    BY <1>2, <1>8, IInvFacts DEF ListsFit, Y
  <2>2. /\ "PEND" \in X <=> "PEND" \in sched.status[t]
        /\ t \in sched.sortLink <=> ("PEND_TIME" \in X \/ "DELAY" \in X) /\ "RUNNING" \notin X
    BY <1>8, <2>1 DEF Y
  <2>3. sched \in SchedState /\ sched' \in SchedState /\ ListsFit(sched) /\ t \in Tasks
    BY <1>2, <1>11, IInvFacts
  <2> HIDE DEF X
  <2>4. QED
    BY <1>11, <1>12, <2>2, <2>3, ListsKept
<1>19. RunFits(sched'.status, r, lock, resched, recycleList)
  BY <1>3, <1>9, <1>14, IInvFacts DEF RunFits, Y
<1>20. BlocksFit(sched'.status, fl, recycleList, Away)
  BY <1>2, <1>14, <1>15, <1>16, IInvFacts, TcbFacts DEF BlocksFit
<1>21. JoinsFit(sched', jn)
  <2>1. ASSUME NEW v \in TCBs, NEW u \in Tasks, u \in Listed(sched.joinList[v])
        PROVE  /\ v \in Tasks /\ jn[u] = v
               /\ "JOINABLE" \in sched'.status[v]
               /\ "EXIT" \notin sched'.status[v] /\ "UNUSED" \notin sched'.status[v]
    <3>1. /\ v \in Tasks /\ joining[u] = v /\ "JOINABLE" \in sched.status[v]
          /\ "EXIT" \notin sched.status[v] /\ "UNUSED" \notin sched.status[v]
      BY <2>1, IInvFacts DEF JoinsFit
    <3>2. v # t
      BY <1>7, <3>1 DEF Y
    <3>3. u # r
      BY <3>1, <3>2 DEF t
    <3>4. QED
      BY <1>13, <1>14, <3>1, <3>2, <3>3
  <2>2. ASSUME NEW u \in Tasks, jn[u] # Nobody
        PROVE  /\ jn[u] # u
               /\ "UNUSED" \notin sched'.status[jn[u]]
               /\ "EXIT" \in sched'.status[jn[u]] \/ u \in Listed(sched.joinList[jn[u]])
               /\ \A v \in Tasks : jn[v] = jn[u] => v = u
               /\ u \notin Listed(sched.waitList) /\ "PEND_TIME" \notin sched'.status[u]
    <3> DEFINE w == joining[u]
    <3>1. u # r /\ jn[u] = w /\ w # t /\ w \in Tasks /\ w \in TCBs /\ w # Nobody
      BY <1>3, <1>13, <2>2, IInvFacts, TcbFacts
    <3>2. /\ w # u
          /\ "UNUSED" \notin sched.status[w]
          /\ "EXIT" \in sched.status[w] \/ u \in Listed(sched.joinList[w])
          /\ \A v \in Tasks : joining[v] = w => v = u
          /\ u \notin Listed(sched.waitList) /\ "PEND_TIME" \notin sched.status[u]
      BY <3>1, IInvFacts DEF JoinsFit
    <3> HIDE DEF w
    <3>3. "PEND_TIME" \notin sched'.status[u]
      BY <1>14, <3>2, TcbFacts
    <3>4. \A v \in Tasks : jn[v] = w => v = u
      BY <1>13, <3>1, <3>2
    <3>5. QED
      BY <1>14, <3>1, <3>2, <3>3, <3>4
  <2>3. QED
    BY <1>11, <1>12, <2>1, <2>2 DEF JoinsFit
<1>22. MostUrgentRuns'
  <2>1. "READY" \notin sched.status[r]
    BY <1>1, <1>4, RunningFacts, IInvFacts DEF FlagsOK
  <2>2. \A u \in Tasks : "READY" \in sched'.status[u] /\ joining'[u] = Nobody =>
            /\ "READY" \in sched.status[u] /\ joining[u] = Nobody
            /\ sched'.priority[u] = sched.priority[u]
    BY <1>1, <1>3, <1>13, <1>14, <2>1, TcbFacts
  <2>3. sched'.priority[runTask] = sched.priority[runTask]
    BY <1>2, <1>3, <1>14
  <2>4. QED
    BY <1>1, <2>2, <2>3, UrgentStill DEF IInv, Core
<1>23. SchedTypeOK'
  BY <1>1, <1>11, <1>13, <1>16, IInvFacts DEF SchedTypeOK
<1>24. QED
  BY <1>1, <1>11, <1>17, <1>18, <1>19, <1>20, <1>21, <1>22, <1>23, IInvFacts, AwaySame
     DEF IInv, Core

-----------------------------------------------------------------------------
(* Deletion.                                                               *)

\* OsTaskJoinPostUnsafe wakes the task that joins t, if there is one.
LEMMA JoinPostFacts ==
  ASSUME IInv, NEW t \in Tasks
  PROVE  LET s == OsTaskJoinPostUnsafe(sched, t) IN
         /\ s \in SchedState /\ QueuesFit(s) /\ FlagsFit(s.status) /\ ListsFit(s)
         /\ s.asserted = FALSE /\ s.priority = sched.priority
         /\ s.status[t] = sched.status[t]
         /\ \A v \in TCBs :
              /\ "RUNNING" \in s.status[v] <=> "RUNNING" \in sched.status[v]
              /\ "UNUSED" \in s.status[v] <=> "UNUSED" \in sched.status[v]
              /\ "EXIT" \in s.status[v] <=> "EXIT" \in sched.status[v]
              /\ "JOINABLE" \in s.status[v] <=> "JOINABLE" \in sched.status[v]
              /\ "SUSPEND" \in s.status[v] <=> "SUSPEND" \in sched.status[v]
              /\ "PEND_TIME" \in s.status[v] => "PEND_TIME" \in sched.status[v]
              /\ v \in Tasks /\ "READY" \in s.status[v] =>
                   "READY" \in sched.status[v] \/ joining[v] = t
         /\ ~resched => s.status[runTask] = sched.status[runTask]
         /\ \A v \in TCBs : "PEND" \notin sched.status[v] => s.status[v] = sched.status[v]
         /\ Listed(s.waitList) \subseteq Listed(sched.waitList)
         /\ Listed(s.joinList[t]) = {}
         /\ \A v \in TCBs : v # t => Listed(s.joinList[v]) = Listed(sched.joinList[v])
<1> DEFINE s == OsTaskJoinPostUnsafe(sched, t)
           list == sched.joinList[t]
<1>1. /\ list \in Seq(Tasks) /\ t \in TCBs
      /\ \A u \in Tasks : u \in Listed(list) => joining[u] = t /\ "JOINABLE" \in sched.status[t]
      /\ Listed(list) \subseteq Tasks
      /\ list = <<>> <=> Listed(list) = {}
  <2>1. list \in Seq(Tasks) /\ t \in TCBs
    BY IInvFacts, SchedFields, TcbFacts
  <2>2. QED
    BY <2>1, IInvFacts, NobodyListed DEF JoinsFit
<1>2. CASE list = <<>> \/ "JOINABLE" \notin sched.status[t]
  <2>1. s = sched
    BY <1>2 DEF OsTaskJoinPostUnsafe
  <2>2. Listed(list) = {}
    BY <1>1, <1>2
  <2> HIDE DEF s
  <2>3. QED
    BY <2>1, <2>2, IInvFacts DEF s
<1>3. CASE list # <<>> /\ "JOINABLE" \in sched.status[t]
  <2> DEFINE u == Head(list)
             Y == sched.status[u]
             X == IF StaysOut(Y) THEN Y \ {"PEND", "PEND_TIME"} ELSE MadeReady(Y)
  <2>1. s = OsSchedTaskWake(sched, u)
    BY <1>3 DEF OsTaskJoinPostUnsafe
  <2>2. u \in Tasks /\ u \in Listed(list) /\ u \in TCBs
    BY <1>1, <1>3, FirstIsListed, TcbFacts
  <2> HIDE DEF u
  <2>3. joining[u] = t /\ "PEND" \in Y /\ FlagsOK(Y) /\ Y \in SUBSET Flags
    BY <1>1, <2>2, IInvFacts DEF ListsFit
  <2>4. u # t /\ \A v \in Tasks : joining[v] = t => v = u
    BY <2>2, <2>3, IInvFacts, NobodyFacts DEF JoinsFit
  <2>5. "READY" \notin Y /\ "EXIT" \notin Y /\ "UNUSED" \notin Y /\ "DELAY" \notin Y
    BY <2>3 DEF FlagsOK, Waits
  <2>6. /\ s \in SchedState /\ QueuesFit(s)
        /\ s.status = Retag(sched.status, u, X)
        /\ s.priority = sched.priority /\ s.sortLink = sched.sortLink \ {u}
        /\ s.waitList = Without(sched.waitList, u)
        /\ s.joinList = Unlinked(sched.joinList, u)
        /\ s.asserted = sched.asserted
    <3>1. /\ sched \in SchedState /\ QueuesFit(sched) /\ ListsFit(sched)
          /\ "READY" \notin sched.status[u]
      BY <2>5, IInvFacts
    <3> HIDE DEF s
    <3>2. QED
      BY <2>1, <2>2, <3>1, WakeFacts
  <2>7. ~resched => u # runTask
    BY <2>3, RunningFacts DEF Clean, Waits
  <2> HIDE DEF s, Y
  <2>8. /\ X \in SUBSET Flags
        /\ StaysOut(Y) => "SUSPEND" \in Y \/ "RUNNING" \in Y
        /\ ~StaysOut(Y) => "SUSPEND" \notin Y /\ "RUNNING" \notin Y
    BY <2>3 DEF Waits, Flags, MadeReady, StaysOut
  <2>9. FlagsOK(X)
    BY <2>3, <2>5, <2>8 DEF FlagsOK, Waits, Flags, MadeReady
  <2>10. /\ "RUNNING" \in X <=> "RUNNING" \in Y
         /\ "UNUSED" \in X <=> "UNUSED" \in Y
         /\ "EXIT" \in X <=> "EXIT" \in Y
         /\ "JOINABLE" \in X <=> "JOINABLE" \in Y
         /\ "SUSPEND" \in X <=> "SUSPEND" \in Y
         /\ "PEND" \notin X /\ "PEND_TIME" \notin X /\ "DELAY" \notin X
    BY <2>5, <2>8 DEF MadeReady, Waits
  <2> HIDE DEF X
  <2>11. ListsFit(s)
    BY <2>2, <2>6, <2>10, IInvFacts, ListsLeft
  <2>12. FlagsFit(s.status)
    BY <2>2, <2>6, <2>9, IInvFacts, FlagsRetag
  <2>13. /\ s.status[u] = X
         /\ \A v \in TCBs : v # u => s.status[v] = sched.status[v]
    BY <2>2, <2>6, IInvFacts DEF Retag
  <2>14. \A v \in TCBs : Listed(s.joinList[v]) = Listed(sched.joinList[v]) \ {u}
    <3>1. \A v \in TCBs : Listed(Unlinked(sched.joinList, u)[v]) = Listed(sched.joinList[v]) \ {u}
      BY IInvFacts, JoinersLeft
    <3>2. QED
      BY <2>6, <3>1
  <2>15. Listed(s.waitList) \subseteq Listed(sched.waitList)
    BY <2>6, IInvFacts, WaitersLeft
  <2>16. Listed(s.joinList[t]) = {}
    BY <1>1, <2>4, <2>14
  <2>17. ASSUME NEW v \in TCBs, v # t
         PROVE  Listed(s.joinList[v]) = Listed(sched.joinList[v])
    <3>1. u \notin Listed(sched.joinList[v])
      BY <2>2, <2>3, <2>17, IInvFacts DEF JoinsFit
    <3>2. QED
      BY <2>14, <2>17, <3>1
  <2>18. ASSUME NEW v \in TCBs
         PROVE  /\ "RUNNING" \in s.status[v] <=> "RUNNING" \in sched.status[v]
                /\ "UNUSED" \in s.status[v] <=> "UNUSED" \in sched.status[v]
                /\ "EXIT" \in s.status[v] <=> "EXIT" \in sched.status[v]
                /\ "JOINABLE" \in s.status[v] <=> "JOINABLE" \in sched.status[v]
                /\ "SUSPEND" \in s.status[v] <=> "SUSPEND" \in sched.status[v]
                /\ "PEND_TIME" \in s.status[v] => "PEND_TIME" \in sched.status[v]
                /\ v \in Tasks /\ "READY" \in s.status[v] =>
                     "READY" \in sched.status[v] \/ joining[v] = t
    BY <2>3, <2>10, <2>13 DEF Y
  <2>19. /\ s.asserted = FALSE /\ s.priority = sched.priority
         /\ s.status[t] = sched.status[t]
         /\ ~resched => s.status[runTask] = sched.status[runTask]
         /\ \A v \in TCBs : "PEND" \notin sched.status[v] => s.status[v] = sched.status[v]
    BY <1>1, <2>3, <2>4, <2>6, <2>7, <2>13, IInvFacts DEF Y
  <2>20. QED
    BY <2>6, <2>11, <2>12, <2>15, <2>16, <2>17, <2>18, <2>19 DEF s
<1>4. QED
  BY <1>2, <1>3

\* The state of a deleted task's scheduler, before the control block is dealt
\* with: nobody is in its list, and the others are as they were.
Gone(s, t) ==
  /\ s \in SchedState /\ QueuesFit(s) /\ FlagsFit(s.status) /\ ListsFit(s)
  /\ s.asserted = FALSE /\ s.priority = sched.priority
  /\ "EXIT" \in s.status[t] /\ "READY" \notin s.status[t] /\ "UNUSED" \notin s.status[t]
  /\ \A v \in TCBs :
       /\ "RUNNING" \in s.status[v] <=> "RUNNING" \in sched.status[v]
       /\ "UNUSED" \in s.status[v] <=> "UNUSED" \in sched.status[v]
       /\ v # t => ("EXIT" \in s.status[v] <=> "EXIT" \in sched.status[v])
       /\ "JOINABLE" \in s.status[v] <=> "JOINABLE" \in sched.status[v]
       /\ "SUSPEND" \in s.status[v] <=> "SUSPEND" \in sched.status[v]
       /\ "PEND_TIME" \in s.status[v] => "PEND_TIME" \in sched.status[v]
       /\ v \in Tasks /\ "READY" \in s.status[v] =>
            "READY" \in sched.status[v] \/ joining[v] = t
  /\ ~resched /\ t # runTask => s.status[runTask] = sched.status[runTask]
  /\ \A v \in TCBs : v # t /\ "PEND" \notin sched.status[v] => s.status[v] = sched.status[v]
  /\ Listed(s.joinList[t]) = {}
  /\ JoinsFit(s, [joining EXCEPT ![t] = Nobody])

\* OsTaskJoinPostUnsafe and OsSchedTaskExit leave a task that is gone.
LEMMA DeletedFacts ==
  ASSUME IInv, NEW t \in Tasks, "UNUSED" \notin sched.status[t], "EXIT" \notin sched.status[t]
  PROVE  Gone(OsSchedTaskExit(OsTaskJoinPostUnsafe(sched, t), t), t)
<1> DEFINE s1 == OsTaskJoinPostUnsafe(sched, t)
           s == OsSchedTaskExit(s1, t)
           Y == sched.status[t]
           X == (Y \ (Waits \cup {"READY"})) \cup {"EXIT"}
           jn == [joining EXCEPT ![t] = Nobody]
<1>1. /\ s1 \in SchedState /\ QueuesFit(s1) /\ FlagsFit(s1.status) /\ ListsFit(s1)
      /\ s1.asserted = FALSE /\ s1.priority = sched.priority
      /\ s1.status[t] = Y
      /\ \A v \in TCBs :
           /\ "RUNNING" \in s1.status[v] <=> "RUNNING" \in sched.status[v]
           /\ "UNUSED" \in s1.status[v] <=> "UNUSED" \in sched.status[v]
           /\ "EXIT" \in s1.status[v] <=> "EXIT" \in sched.status[v]
           /\ "JOINABLE" \in s1.status[v] <=> "JOINABLE" \in sched.status[v]
           /\ "SUSPEND" \in s1.status[v] <=> "SUSPEND" \in sched.status[v]
           /\ "PEND_TIME" \in s1.status[v] => "PEND_TIME" \in sched.status[v]
           /\ v \in Tasks /\ "READY" \in s1.status[v] =>
                "READY" \in sched.status[v] \/ joining[v] = t
      /\ ~resched => s1.status[runTask] = sched.status[runTask]
      /\ \A v \in TCBs : "PEND" \notin sched.status[v] => s1.status[v] = sched.status[v]
      /\ Listed(s1.waitList) \subseteq Listed(sched.waitList)
      /\ Listed(s1.joinList[t]) = {}
      /\ \A v \in TCBs : v # t => Listed(s1.joinList[v]) = Listed(sched.joinList[v])
  BY JoinPostFacts
<1>2. t \in TCBs /\ FlagsOK(Y) /\ Y \in SUBSET Flags
  BY IInvFacts
<1> HIDE DEF s1
<1>3. /\ s \in SchedState /\ QueuesFit(s)
      /\ s.status = Retag(s1.status, t, X)
      /\ s.priority = s1.priority /\ s.sortLink = s1.sortLink \ {t}
      /\ s.waitList = Without(s1.waitList, t)
      /\ s.joinList = Unlinked(s1.joinList, t)
      /\ s.asserted = s1.asserted
  BY <1>1, ExitFacts
<1> HIDE DEF s, Y
<1>4. X \in SUBSET Flags /\ FlagsOK(X)
  BY <1>2 DEF FlagsOK, Waits, Flags, Y
<1>5. /\ "RUNNING" \in X <=> "RUNNING" \in Y
      /\ "UNUSED" \in X <=> "UNUSED" \in Y
      /\ "JOINABLE" \in X <=> "JOINABLE" \in Y
      /\ "SUSPEND" \in X <=> "SUSPEND" \in Y
      /\ "EXIT" \in X /\ "READY" \notin X /\ "UNUSED" \notin X
      /\ "PEND" \notin X /\ "PEND_TIME" \notin X /\ "DELAY" \notin X
  BY DEF Waits, Y
<1> HIDE DEF X
<1>6. ListsFit(s)
  BY <1>1, <1>3, <1>5, ListsLeft
<1>7. s1.status \in [TCBs -> SUBSET Flags]
  BY <1>1, SchedFields
<1>8. FlagsFit(s.status)
  BY <1>1, <1>3, <1>4, <1>7, FlagsRetag
<1>9. /\ s.status[t] = X
      /\ \A v \in TCBs : v # t => s.status[v] = s1.status[v]
  BY <1>2, <1>3, <1>7 DEF Retag
<1>10. \A v \in TCBs : Listed(s.joinList[v]) = Listed(s1.joinList[v]) \ {t}
  <2>1. \A v \in TCBs : Listed(Unlinked(s1.joinList, t)[v]) = Listed(s1.joinList[v]) \ {t}
    BY <1>1, JoinersLeft
  <2>2. QED
    BY <1>3, <2>1
<1>11. Listed(s.waitList) \subseteq Listed(sched.waitList)
  <2>1. Listed(s.waitList) \subseteq Listed(s1.waitList)
    BY <1>1, <1>3, WaitersLeft
  <2>2. QED
    BY <1>1, <2>1
<1>12. ASSUME NEW v \in TCBs
       PROVE  /\ "RUNNING" \in s.status[v] <=> "RUNNING" \in sched.status[v]
              /\ "UNUSED" \in s.status[v] <=> "UNUSED" \in sched.status[v]
              /\ v # t => ("EXIT" \in s.status[v] <=> "EXIT" \in sched.status[v])
              /\ "JOINABLE" \in s.status[v] <=> "JOINABLE" \in sched.status[v]
              /\ "SUSPEND" \in s.status[v] <=> "SUSPEND" \in sched.status[v]
              /\ "PEND_TIME" \in s.status[v] => "PEND_TIME" \in sched.status[v]
              /\ v \in Tasks /\ "READY" \in s.status[v] =>
                   "READY" \in sched.status[v] \/ joining[v] = t
  <2>1. CASE v = t
    BY <1>5, <1>9, <2>1 DEF Y
  <2>2. CASE v # t
    BY <1>1, <1>9, <2>2
  <2>3. QED
    BY <2>1, <2>2
<1>13. Listed(s.joinList[t]) = {}
  BY <1>1, <1>2, <1>10
<1>14. /\ jn \in [Tasks -> Tasks \cup {Nobody}] /\ jn[t] = Nobody
       /\ \A u \in Tasks : u # t => jn[u] = joining[u]
  BY IInvFacts
<1> HIDE DEF jn
<1>15. JoinsFit(s, jn)
  <2>1. ASSUME NEW v \in TCBs, NEW u \in Tasks, u \in Listed(s.joinList[v])
        PROVE  /\ v \in Tasks /\ jn[u] = v
               /\ "JOINABLE" \in s.status[v]
               /\ "EXIT" \notin s.status[v] /\ "UNUSED" \notin s.status[v]
    <3>1. v # t
      BY <1>13, <2>1
    <3>2. u \in Listed(sched.joinList[v]) /\ u # t
      BY <1>1, <1>10, <2>1, <3>1
    <3>3. /\ v \in Tasks /\ joining[u] = v /\ "JOINABLE" \in sched.status[v]
          /\ "EXIT" \notin sched.status[v] /\ "UNUSED" \notin sched.status[v]
      BY <3>2, IInvFacts DEF JoinsFit
    <3>4. QED
      BY <1>12, <1>14, <3>1, <3>2, <3>3
  <2>2. ASSUME NEW u \in Tasks, jn[u] # Nobody
        PROVE  /\ jn[u] # u
               /\ "UNUSED" \notin s.status[jn[u]]
               /\ "EXIT" \in s.status[jn[u]] \/ u \in Listed(s.joinList[jn[u]])
               /\ \A v \in Tasks : jn[v] = jn[u] => v = u
               /\ u \notin Listed(s.waitList) /\ "PEND_TIME" \notin s.status[u]
    <3> DEFINE w == joining[u]
    <3>1. u # t /\ jn[u] = w /\ w \in Tasks /\ w \in TCBs /\ w # Nobody /\ u \in TCBs
      BY <1>14, <2>2, IInvFacts, TcbFacts
    <3>2. /\ w # u
          /\ "UNUSED" \notin sched.status[w]
          /\ "EXIT" \in sched.status[w] \/ u \in Listed(sched.joinList[w])
          /\ \A v \in Tasks : joining[v] = w => v = u
          /\ u \notin Listed(sched.waitList) /\ "PEND_TIME" \notin sched.status[u]
      BY <3>1, IInvFacts DEF JoinsFit
    <3> HIDE DEF w
    <3>3. u \notin Listed(s.waitList) /\ "PEND_TIME" \notin s.status[u] /\ "UNUSED" \notin s.status[w]
      BY <1>11, <1>12, <3>1, <3>2
    <3>4. \A v \in Tasks : jn[v] = w => v = u
      BY <1>14, <3>1, <3>2
    <3>5. "EXIT" \in s.status[w] \/ u \in Listed(s.joinList[w])
      <4>1. CASE w = t
        BY <1>5, <1>9, <4>1
      <4>2. CASE w # t
        BY <1>1, <1>10, <1>12, <3>1, <3>2, <4>2
      <4>3. QED
        BY <4>1, <4>2
    <3>6. QED
      BY <3>1, <3>2, <3>3, <3>4, <3>5
  <2>3. QED
    BY <2>1, <2>2 DEF JoinsFit
<1>16. /\ ~resched /\ t # runTask => s.status[runTask] = sched.status[runTask]
       /\ \A v \in TCBs : v # t /\ "PEND" \notin sched.status[v] => s.status[v] = sched.status[v]
  BY <1>1, <1>9, IInvFacts
<1>17. s.asserted = FALSE /\ s.priority = sched.priority
  BY <1>1, <1>3
<1>18. "EXIT" \in s.status[t] /\ "READY" \notin s.status[t] /\ "UNUSED" \notin s.status[t]
  BY <1>5, <1>9
<1>19. QED
  BY <1>3, <1>6, <1>8, <1>12, <1>13, <1>15, <1>16, <1>17, <1>18 DEF Gone, s, s1, jn

\* Nobody is in LOS_TaskJoin of a task that cannot be joined.
LEMMA NotJoined ==
  ASSUME IInv, NEW t \in Tasks, "EXIT" \notin sched.status[t], "JOINABLE" \notin sched.status[t]
  PROVE  \A u \in Tasks : joining[u] # t
BY IInvFacts, NobodyFacts DEF JoinsFit

\* JoinsFit reads the flags UNUSED, EXIT and JOINABLE of the joined tasks, and
\* PEND_TIME of the others.
LEMMA JoinsUnused ==
  ASSUME NEW s \in SchedState, NEW r \in SchedState, NEW t \in Tasks,
         NEW jn \in [Tasks -> Tasks \cup {Nobody}], JoinsFit(s, jn),
         \A u \in Tasks : jn[u] # t,
         r.joinList = s.joinList, r.waitList = s.waitList,
         \A v \in Tasks : v # t => r.status[v] = s.status[v],
         "PEND_TIME" \notin r.status[t]
  PROVE  JoinsFit(r, jn)
<1>1. ASSUME NEW v \in TCBs, NEW u \in Tasks, u \in Listed(s.joinList[v])
      PROVE  /\ v \in Tasks /\ jn[u] = v
             /\ "JOINABLE" \in r.status[v]
             /\ "EXIT" \notin r.status[v] /\ "UNUSED" \notin r.status[v]
  <2>1. /\ v \in Tasks /\ jn[u] = v
        /\ "JOINABLE" \in s.status[v]
        /\ "EXIT" \notin s.status[v] /\ "UNUSED" \notin s.status[v]
    BY <1>1 DEF JoinsFit
  <2>2. QED
    BY <2>1
<1>2. ASSUME NEW u \in Tasks, jn[u] # Nobody
      PROVE  /\ jn[u] # u
             /\ "UNUSED" \notin r.status[jn[u]]
             /\ "EXIT" \in r.status[jn[u]] \/ u \in Listed(s.joinList[jn[u]])
             /\ \A v \in Tasks : jn[v] = jn[u] => v = u
             /\ u \notin Listed(s.waitList) /\ "PEND_TIME" \notin r.status[u]
  <2>1. /\ jn[u] # u
        /\ "UNUSED" \notin s.status[jn[u]]
        /\ "EXIT" \in s.status[jn[u]] \/ u \in Listed(s.joinList[jn[u]])
        /\ \A v \in Tasks : jn[v] = jn[u] => v = u
        /\ u \notin Listed(s.waitList) /\ "PEND_TIME" \notin s.status[u]
    BY <1>2 DEF JoinsFit
  <2>2. jn[u] \in Tasks /\ jn[u] # t
    BY <1>2
  <2>3. QED
    BY <2>1, <2>2
<1>3. QED
  BY <1>1, <1>2 DEF JoinsFit

\* A block that the deleted task had taken is still away.
LEMMA DeleteAway ==
  ASSUME IInv, NEW t \in Tasks, LOS_TaskDelete(t)
  PROVE  Away' = Away
<1>1. /\ creating' = [creating EXCEPT ![t] = "no"]
      /\ block' = [block EXCEPT ![t] = Nobody]
      /\ leaked' = IF creating[t] = "taken" THEN leaked \cup {block[t]} ELSE leaked
  BY DEF LOS_TaskDelete
<1>2. creating \in [Tasks -> Steps] /\ block \in [Tasks -> Tasks \cup {Nobody}]
  BY DEF IInv, CreationFits
<1>3. Taking' = Taking \ {t}
  BY <1>1, <1>2 DEF Taking
<1>4. \A u \in Taking' : block'[u] = block[u]
  BY <1>1, <1>2, <1>3 DEF Taking
<1>5. creating[t] = "taken" <=> t \in Taking
  BY DEF Taking
<1>6. QED
  BY <1>1, <1>3, <1>4, <1>5 DEF Away

\* LOS_TaskDelete of the running task: its block waits for its joiner, or to be
\* recycled while the spare block runs.
LEMMA DeleteRunningStep ==
  ASSUME IInv, NEW t \in Tasks, LOS_TaskDelete(t), "RUNNING" \in sched.status[t]
  PROVE  Core'
<1> DEFINE s == OsSchedTaskExit(OsTaskJoinPostUnsafe(sched, t), t)
           jn == [joining EXCEPT ![t] = Nobody]
<1>1. /\ "UNUSED" \notin sched.status[t] /\ "EXIT" \notin sched.status[t]
      /\ joining' = jn /\ OsRunningTaskDelete(t)
  BY DEF LOS_TaskDelete, Created, Is
<1>2. /\ lock' = 0 /\ resched' = TRUE /\ freeList' = freeList
      /\ "JOINABLE" \in sched.status[t] =>
           sched' = s /\ runTask' = runTask /\ recycleList' = recycleList
      /\ "JOINABLE" \notin sched.status[t] =>
           /\ sched' = [s EXCEPT !.status[t] = @ \cup {"UNUSED"},
                                 !.status[Spare] = {"UNUSED", "RUNNING"}]
           /\ runTask' = Spare /\ recycleList' = Append(recycleList, t)
  BY <1>1 DEF OsRunningTaskDelete, Is
<1>3. Gone(s, t)
  BY <1>1, DeletedFacts
<1>4. t = runTask /\ t \in TCBs
  BY <1>1, RunningFacts, TcbFacts
<1>5. /\ jn \in [Tasks -> Tasks \cup {Nobody}] /\ jn[t] = Nobody
      /\ \A u \in Tasks : u # t => jn[u] = joining[u]
  BY IInvFacts
<1>6. JoinsFit(s, jn)
  BY <1>3 DEF Gone
<1> HIDE DEF s, jn
<1>7. /\ s \in SchedState /\ QueuesFit(s) /\ FlagsFit(s.status) /\ ListsFit(s)
      /\ s.asserted = FALSE
      /\ "EXIT" \in s.status[t] /\ "READY" \notin s.status[t]
      /\ \A v \in TCBs :
           /\ "RUNNING" \in s.status[v] <=> "RUNNING" \in sched.status[v]
           /\ "UNUSED" \in s.status[v] <=> "UNUSED" \in sched.status[v]
  BY <1>3 DEF Gone
<1>8. MostUrgentRuns'
  BY <1>2, UrgentLater
<1>9. 0 \in 0 .. MaxLock
  BY TaskAssumption
<1>10. CASE "JOINABLE" \in sched.status[t]
  <2>1. RunFits(s.status, runTask, 0, TRUE, recycleList)
    BY <1>7, IInvFacts, TcbFacts DEF RunFits
  <2>2. BlocksFit(s.status, freeList, recycleList, Away)
    BY <1>7, IInvFacts, TcbFacts DEF BlocksFit
  <2>3. SchedTypeOK'
    BY <1>1, <1>2, <1>5, <1>7, <1>9, <1>10, IInvFacts DEF SchedTypeOK
  <2>4. QED
    BY <1>1, <1>2, <1>6, <1>7, <1>8, <1>10, <2>1, <2>2, <2>3, DeleteAway DEF IInv, Core
<1>11. CASE "JOINABLE" \notin sched.status[t]
  <2> DEFINE Y == s.status[t]
             X == Y \cup {"UNUSED"}
             st == [s.status EXCEPT ![t] = X, ![Spare] = {"UNUSED", "RUNNING"}]
             rl == Append(recycleList, t)
  <2>1. sched' = [s EXCEPT !.status = st]
    BY <1>2, <1>7, <1>11 DEF SchedState
  <2>2. Y \in SUBSET Flags /\ FlagsOK(Y) /\ s.status \in [TCBs -> SUBSET Flags]
    BY <1>4, <1>7, SchedFields DEF FlagsFit
  <2> HIDE DEF Y
  <2>3. X \in SUBSET Flags /\ FlagsOK(X)
    BY <1>7, <2>2 DEF FlagsOK, Waits, Flags, Y
  <2>4. /\ "UNUSED" \in X /\ "READY" \notin X
        /\ \A f \in {"PEND", "PEND_TIME", "DELAY", "RUNNING"} : f \in X <=> f \in Y
    BY <1>7 DEF Y
  <2>5. "PEND" \notin X /\ "PEND_TIME" \notin X
    BY <2>3, <2>4 DEF FlagsOK, Waits
  <2> HIDE DEF X
  <2>6. /\ st \in [TCBs -> SUBSET Flags] /\ st[t] = X /\ st[Spare] = {"UNUSED", "RUNNING"}
        /\ \A v \in TCBs : v # t /\ v # Spare => st[v] = s.status[v]
    BY <1>4, <2>2, <2>3, TcbFacts DEF Flags
  <2>7. t \notin Listed(recycleList) /\ t \notin Listed(freeList) /\ t \notin Away
    BY <1>1, IInvFacts DEF BlocksFit
  <2>8. rl \in Seq(Tasks) /\ Distinct(rl) /\ Listed(rl) = Listed(recycleList) \cup {t}
    BY <2>7, IInvFacts, TailInsert DEF BlocksFit
  <2> HIDE DEF st, rl
  <2>9. /\ sched' \in SchedState
        /\ sched'.status = st /\ sched'.priority = s.priority
        /\ sched'.queue = s.queue /\ sched'.bitmap = s.bitmap
        /\ sched'.sortLink = s.sortLink /\ sched'.waitList = s.waitList
        /\ sched'.joinList = s.joinList /\ sched'.asserted = s.asserted
    BY <1>7, <2>1, <2>6 DEF SchedState
  <2>10. \A v \in Tasks : v # t => st[v] = s.status[v]
    BY <2>6, TcbFacts
  <2>11. QueuesFit(sched')
    <3>1. \A v \in Tasks : "READY" \in st[v] <=> "READY" \in s.status[v]
      BY <1>7, <2>4, <2>6, <2>10
    <3>2. QED
      BY <1>7, <2>9, <3>1 DEF QueuesFit
  <2>12. ListsFit(sched')
    <3>1. \A v \in Tasks : /\ "PEND" \in st[v] <=> "PEND" \in s.status[v]
                           /\ "PEND_TIME" \in st[v] <=> "PEND_TIME" \in s.status[v]
                           /\ "DELAY" \in st[v] <=> "DELAY" \in s.status[v]
                           /\ "RUNNING" \in st[v] <=> "RUNNING" \in s.status[v]
      BY <2>4, <2>6, <2>10 DEF Y
    <3>2. QED
      BY <1>7, <2>9, <3>1 DEF ListsFit
  <2>13. FlagsFit(st)
    <3>1. FlagsOK({"UNUSED", "RUNNING"})
      BY DEF FlagsOK, Waits
    <3>2. st[Idle] = s.status[Idle]
      BY <2>6, TcbFacts
    <3>3. QED
      BY <1>7, <2>3, <2>6, <3>1, <3>2 DEF FlagsFit
  <2>14. RunFits(st, Spare, 0, TRUE, rl)
    <3>1. Spare \notin Listed(rl)
      BY <2>8, NobodyListed, TcbFacts
    <3>2. ASSUME NEW v \in TCBs, v \notin Listed(rl)
          PROVE  "RUNNING" \in st[v] <=> v = Spare
      <4>1. CASE v = Spare
        BY <2>6, <4>1
      <4>2. CASE v # Spare
        <5>1. v # t /\ v \notin Listed(recycleList)
          BY <2>8, <3>2
        <5>2. "RUNNING" \notin sched.status[v]
          BY <1>4, <5>1, IInvFacts DEF RunFits
        <5>3. QED
          BY <1>7, <2>6, <4>2, <5>1, <5>2
      <4>3. QED
        BY <4>1, <4>2
    <3>3. QED
      BY <3>1, <3>2, TcbFacts DEF RunFits
  <2>15. BlocksFit(st, freeList, rl, Away)
    <3>1. ASSUME NEW v \in Tasks
          PROVE  "UNUSED" \in st[v] <=> v \in Listed(freeList) \/ v \in Listed(rl) \/ v \in Away
      <4>1. CASE v = t
        BY <2>4, <2>6, <2>8, <4>1
      <4>2. CASE v # t
        BY <1>7, <2>8, <2>10, <4>2, IInvFacts, TcbFacts DEF BlocksFit
      <4>3. QED
        BY <4>1, <4>2
    <3>2. QED
      BY <2>7, <2>8, <3>1, IInvFacts DEF BlocksFit
  <2>16. JoinsFit(sched', jn)
    <3>1. \A u \in Tasks : jn[u] # t
      <4>1. \A u \in Tasks : joining[u] # t
        BY <1>1, <1>11, NotJoined
      <4>2. t # Nobody
        BY NobodyFacts
      <4>3. jn[t] = Nobody /\ \A u \in Tasks : u # t => jn[u] = joining[u]
        BY <1>5
      <4>4. ASSUME NEW u \in Tasks, u # t PROVE jn[u] # t
        BY <4>1, <4>3, <4>4, Zenon
      <4>5. QED
        BY <4>2, <4>3, <4>4, Zenon
    <3>2. "PEND_TIME" \notin sched'.status[t]
      BY <2>5, <2>6, <2>9
    <3>3. QED
      BY <1>5, <1>6, <1>7, <2>9, <2>10, <3>1, <3>2, JoinsUnused
  <2>17. SchedTypeOK'
    BY <1>1, <1>2, <1>5, <1>9, <1>11, <2>8, <2>9, IInvFacts, TcbFacts DEF SchedTypeOK, rl
  <2>18. QED
    BY <1>1, <1>2, <1>7, <1>8, <1>11, <2>9, <2>11, <2>12, <2>13, <2>14, <2>15, <2>16, <2>17,
       DeleteAway DEF IInv, Core, rl
<1>12. QED
  BY <1>10, <1>11

\* LOS_TaskDelete of another task: its block waits for its joiner, or is free.
LEMMA DeleteOtherStep ==
  ASSUME IInv, NEW t \in Tasks, LOS_TaskDelete(t), "RUNNING" \notin sched.status[t]
  PROVE  Core'
<1> DEFINE s == OsSchedTaskExit(OsTaskJoinPostUnsafe(sched, t), t)
           jn == [joining EXCEPT ![t] = Nobody]
<1>1. /\ "UNUSED" \notin sched.status[t] /\ "EXIT" \notin sched.status[t]
      /\ joining' = jn /\ DeleteOther(t)
  BY DEF LOS_TaskDelete, Created, Is
<1>2. /\ UNCHANGED <<runTask, lock, resched, recycleList>>
      /\ "JOINABLE" \in sched.status[t] => sched' = s /\ freeList' = freeList
      /\ "JOINABLE" \notin sched.status[t] =>
           sched' = Wiped(s, t) /\ freeList' = <<t>> \o freeList
  BY <1>1 DEF DeleteOther, Is
<1>3. Gone(s, t)
  BY <1>1, DeletedFacts
<1>4. t # runTask /\ t \in TCBs
  BY <1>1, RunningFacts, TcbFacts
<1>5. /\ jn \in [Tasks -> Tasks \cup {Nobody}] /\ jn[t] = Nobody
      /\ \A u \in Tasks : u # t => jn[u] = joining[u]
  BY IInvFacts
<1>6. JoinsFit(s, jn)
  BY <1>3 DEF Gone
<1> HIDE DEF s, jn
<1>7. /\ s \in SchedState /\ QueuesFit(s) /\ FlagsFit(s.status) /\ ListsFit(s)
      /\ s.asserted = FALSE /\ s.priority = sched.priority
      /\ "EXIT" \in s.status[t] /\ "READY" \notin s.status[t]
      /\ \A v \in TCBs :
           /\ "RUNNING" \in s.status[v] <=> "RUNNING" \in sched.status[v]
           /\ "UNUSED" \in s.status[v] <=> "UNUSED" \in sched.status[v]
           /\ v \in Tasks /\ "READY" \in s.status[v] =>
                "READY" \in sched.status[v] \/ joining[v] = t
      /\ ~resched => s.status[runTask] = sched.status[runTask]
      /\ Listed(s.joinList[t]) = {}
  BY <1>3, <1>4 DEF Gone
<1>8. ASSUME NEW u \in Tasks, u # t, "READY" \in s.status[u], jn[u] = Nobody
      PROVE  "READY" \in sched.status[u] /\ joining[u] = Nobody
  BY <1>5, <1>7, <1>8, NobodyFacts
<1>9. CASE "JOINABLE" \in sched.status[t]
  <2>1. RunFits(s.status, runTask, lock, resched, recycleList)
    BY <1>7, IInvFacts, TcbFacts DEF RunFits
  <2>2. BlocksFit(s.status, freeList, recycleList, Away)
    BY <1>7, IInvFacts, TcbFacts DEF BlocksFit
  <2>3. MostUrgentRuns'
    BY <1>1, <1>2, <1>7, <1>8, <1>9, UrgentStill DEF IInv, Core
  <2>4. SchedTypeOK'
    BY <1>1, <1>2, <1>5, <1>7, <1>9, IInvFacts DEF SchedTypeOK
  <2>5. QED
    BY <1>1, <1>2, <1>6, <1>7, <1>9, <2>1, <2>2, <2>3, <2>4, DeleteAway DEF IInv, Core
<1>10. CASE "JOINABLE" \notin sched.status[t]
  <2> DEFINE X == {"UNUSED"}
             fl == <<t>> \o freeList
  <2>1. sched' = Wiped(s, t) /\ freeList' = fl
    BY <1>2, <1>10
  <2>2. /\ sched' \in SchedState /\ QueuesFit(sched')
        /\ sched'.status = Retag(s.status, t, X)
        /\ sched'.priority = [s.priority EXCEPT ![t] = 0]
        /\ sched'.sortLink = s.sortLink
        /\ sched'.waitList = s.waitList
        /\ sched'.joinList = [s.joinList EXCEPT ![t] = <<>>]
        /\ sched'.asserted = s.asserted
    BY <1>7, <2>1, WipedFacts
  <2>3. /\ s.joinList \in [TCBs -> Seq(Tasks)] /\ s.status \in [TCBs -> SUBSET Flags]
        /\ s.priority \in [TCBs -> Priorities] /\ s.joinList[t] \in Seq(Tasks)
        /\ FlagsOK(s.status[t])
    BY <1>4, <1>7, SchedFields DEF FlagsFit
  <2>4. s.joinList[t] = <<>>
    BY <1>7, <2>3, NobodyListed
  <2>5. sched'.joinList = s.joinList
    <3>1. [s.joinList EXCEPT ![t] = <<>>] = s.joinList
      BY <2>3, <2>4, SameValue
    <3>2. QED
      BY <2>2, <3>1
  <2>6. /\ sched'.status[t] = X
        /\ \A v \in TCBs : v # t => sched'.status[v] = s.status[v]
        /\ \A v \in TCBs : v # t => sched'.priority[v] = sched.priority[v]
    BY <1>4, <1>7, <2>2, <2>3 DEF Retag
  <2>7. t \notin Listed(recycleList) /\ t \notin Listed(freeList) /\ t \notin Away
    BY <1>1, IInvFacts DEF BlocksFit
  <2>8. fl \in Seq(Tasks) /\ Distinct(fl) /\ Listed(fl) = Listed(freeList) \cup {t}
    BY <2>7, IInvFacts, PushFront DEF BlocksFit
  <2> HIDE DEF fl
  <2>9. FlagsOK(X) /\ "PEND_TIME" \notin X
    BY DEF FlagsOK, Waits
  <2>10. FlagsFit(sched'.status)
    BY <1>7, <2>2, <2>3, <2>9, FlagsRetag
  <2>11. ListsFit(sched')
    <3>1. "PEND" \notin s.status[t] /\ "PEND_TIME" \notin s.status[t] /\ "DELAY" \notin s.status[t]
      BY <1>7, <2>3 DEF FlagsOK, Waits
    <3>2. t \notin s.sortLink
      BY <1>7, <3>1 DEF ListsFit
    <3>3. /\ "PEND" \in X <=> "PEND" \in s.status[t]
          /\ t \in s.sortLink <=> ("PEND_TIME" \in X \/ "DELAY" \in X) /\ "RUNNING" \notin X
      BY <3>1, <3>2
    <3> HIDE DEF X
    <3>4. QED
      BY <1>7, <2>2, <2>5, <3>3, ListsKept
  <2>12. RunFits(sched'.status, runTask, lock, resched, recycleList)
    <3>1. /\ runTask \notin Listed(recycleList) /\ (resched => lock = 0)
          /\ \A v \in TCBs : v \notin Listed(recycleList) =>
               ("RUNNING" \in sched.status[v] <=> v = runTask)
          /\ ~resched => Clean(sched.status[runTask])
          /\ runTask \in Tasks => "UNUSED" \notin sched.status[runTask]
          /\ runTask \in TCBs
      BY IInvFacts DEF RunFits
    <3>2. ~resched => Clean(sched'.status[runTask])
      BY <1>4, <1>7, <2>6, <3>1
    <3>3. \A v \in TCBs : v \notin Listed(recycleList) =>
               ("RUNNING" \in sched'.status[v] <=> v = runTask)
      BY <1>4, <1>7, <2>6, <3>1
    <3>4. QED
      BY <1>4, <1>7, <2>6, <3>1, <3>2, <3>3 DEF RunFits
  <2>13. BlocksFit(sched'.status, fl, recycleList, Away)
    <3>1. ASSUME NEW v \in Tasks
          PROVE  "UNUSED" \in sched'.status[v] <=>
                   v \in Listed(fl) \/ v \in Listed(recycleList) \/ v \in Away
      <4>1. CASE v = t
        BY <2>6, <2>8, <4>1
      <4>2. CASE v # t
        BY <1>7, <2>6, <2>8, <4>2, IInvFacts, TcbFacts DEF BlocksFit
      <4>3. QED
        BY <4>1, <4>2
    <3>2. QED
      BY <2>7, <2>8, <3>1, IInvFacts DEF BlocksFit
  <2>14. JoinsFit(sched', jn)
    <3>1. \A u \in Tasks : jn[u] # t
      <4>1. \A u \in Tasks : joining[u] # t
        BY <1>1, <1>10, NotJoined
      <4>2. t # Nobody
        BY NobodyFacts
      <4>3. jn[t] = Nobody /\ \A u \in Tasks : u # t => jn[u] = joining[u]
        BY <1>5
      <4>4. ASSUME NEW u \in Tasks, u # t PROVE jn[u] # t
        BY <4>1, <4>3, <4>4, Zenon
      <4>5. QED
        BY <4>2, <4>3, <4>4, Zenon
    <3>2. \A v \in Tasks : v # t => sched'.status[v] = s.status[v]
      BY <2>6, TcbFacts
    <3>3. "PEND_TIME" \notin sched'.status[t]
      BY <2>6
    <3>4. QED
      BY <1>5, <1>6, <1>7, <2>2, <2>5, <3>1, <3>2, <3>3, JoinsUnused
  <2>15. MostUrgentRuns'
    <3>1. \A u \in Tasks : "READY" \in sched'.status[u] /\ joining'[u] = Nobody =>
            /\ "READY" \in sched.status[u] /\ joining[u] = Nobody
            /\ sched'.priority[u] = sched.priority[u]
      BY <1>1, <1>8, <2>6, TcbFacts
    <3>2. sched'.priority[runTask] = sched.priority[runTask]
      BY <1>4, <2>6, IInvFacts
    <3>3. QED
      BY <1>2, <3>1, <3>2, UrgentStill DEF IInv, Core
  <2>16. SchedTypeOK'
    BY <1>1, <1>2, <1>5, <2>1, <2>2, <2>8, IInvFacts DEF SchedTypeOK
  <2>17. QED
    BY <1>1, <1>2, <1>7, <2>1, <2>2, <2>10, <2>11, <2>12, <2>13, <2>14, <2>15, <2>16,
       DeleteAway DEF IInv, Core
<1>11. QED
  BY <1>9, <1>10

\* LOS_TaskDelete.
LEMMA DeleteStep ==
  ASSUME IInv, NEW t \in Tasks, LOS_TaskDelete(t)
  PROVE  Core'
BY DeleteRunningStep, DeleteOtherStep

-----------------------------------------------------------------------------
(* Recycling and creation.                                                 *)

\* Two lists that share no task, one after the other.
LEMMA ConcatFacts ==
  ASSUME NEW S, NEW a \in Seq(S), NEW b \in Seq(S), Distinct(a), Distinct(b),
         \A x \in S : ~(x \in Listed(a) /\ x \in Listed(b))
  PROVE  /\ a \o b \in Seq(S)
         /\ Listed(a \o b) = Listed(a) \cup Listed(b)
         /\ Distinct(a \o b)
<1> DEFINE n == Len(a)
           m == Len(b)
           c == a \o b
<1>1. /\ n \in Nat /\ m \in Nat /\ DOMAIN a = 1 .. n /\ DOMAIN b = 1 .. m
      /\ c \in Seq(S) /\ DOMAIN c = 1 .. n + m
      /\ \A i \in 1 .. n : c[i] = a[i] /\ a[i] \in S
      /\ \A i \in 1 .. m : c[n + i] = b[i] /\ b[i] \in S
  OBVIOUS
<1> HIDE DEF n, m, c
<1>2. \A i \in 1 .. n + m : i \in 1 .. n \/ (i - n \in 1 .. m /\ n + (i - n) = i)
  BY <1>1
<1>3. \A i \in 1 .. n + m : i \notin 1 .. n => i - n \in 1 .. m /\ c[i] = b[i - n]
  BY <1>1, <1>2
<1>4. Listed(c) = Listed(a) \cup Listed(b)
  <2>1. ASSUME NEW x \in Listed(c) PROVE x \in Listed(a) \cup Listed(b)
    <3>1. PICK i \in 1 .. n + m : c[i] = x
      BY <1>1 DEF Listed
    <3>2. CASE i \in 1 .. n
      BY <1>1, <3>1, <3>2 DEF Listed
    <3>3. CASE i \notin 1 .. n
      BY <1>1, <1>3, <3>1, <3>3 DEF Listed
    <3>4. QED
      BY <3>2, <3>3
  <2>2. ASSUME NEW x \in Listed(a) PROVE x \in Listed(c)
    <3>1. PICK i \in 1 .. n : a[i] = x
      BY <1>1 DEF Listed
    <3>2. i \in 1 .. n + m /\ c[i] = x
      BY <1>1, <3>1
    <3>3. QED
      BY <1>1, <3>2 DEF Listed
  <2>3. ASSUME NEW x \in Listed(b) PROVE x \in Listed(c)
    <3>1. PICK i \in 1 .. m : b[i] = x
      BY <1>1 DEF Listed
    <3>2. n + i \in 1 .. n + m /\ c[n + i] = x
      BY <1>1, <3>1
    <3>3. QED
      BY <1>1, <3>2 DEF Listed
  <2>4. QED
    BY <2>1, <2>2, <2>3
<1>5. \A i \in 1 .. n, j \in 1 .. m : a[i] # b[j]
  <2> SUFFICES ASSUME NEW i \in 1 .. n, NEW j \in 1 .. m, a[i] = b[j] PROVE FALSE
    OBVIOUS
  <2>1. a[i] \in S /\ a[i] \in Listed(a) /\ b[j] \in Listed(b)
    BY <1>1 DEF Listed
  <2>2. QED
    BY <2>1
<1>6. Distinct(c)
  <2> SUFFICES ASSUME NEW i \in 1 .. n + m, NEW j \in 1 .. n + m, c[i] = c[j]
               PROVE  i = j
    BY <1>1 DEF Distinct
  <2>1. CASE i \in 1 .. n /\ j \in 1 .. n
    BY <1>1, <2>1 DEF Distinct
  <2>2. CASE i \notin 1 .. n /\ j \notin 1 .. n
    <3>1. i - n \in DOMAIN b /\ j - n \in DOMAIN b /\ b[i - n] = b[j - n]
      BY <1>1, <1>3, <2>2
    <3>2. i - n = j - n
      BY <3>1 DEF Distinct
    <3>3. QED
      BY <1>1, <3>2
  <2>3. CASE i \in 1 .. n /\ j \notin 1 .. n
    BY <1>1, <1>3, <1>5, <2>3
  <2>4. CASE i \notin 1 .. n /\ j \in 1 .. n
    BY <1>1, <1>3, <1>5, <2>4
  <2>5. QED
    BY <2>1, <2>2, <2>3, <2>4
<1>7. QED
  BY <1>1, <1>4, <1>6 DEF c

\* A list without its first node.
LEMMA TailFacts ==
  ASSUME NEW S, NEW list \in Seq(S), list # <<>>, Distinct(list)
  PROVE  /\ Tail(list) \in Seq(S)
         /\ Listed(Tail(list)) = Listed(list) \ {Head(list)}
         /\ Distinct(Tail(list))
<1> DEFINE n == Len(list)
           new == Tail(list)
<1>1. /\ n \in Nat /\ n > 0 /\ DOMAIN list = 1 .. n /\ Head(list) = list[1]
      /\ new \in Seq(S) /\ DOMAIN new = 1 .. n - 1
      /\ \A i \in 1 .. n - 1 : new[i] = list[i + 1]
  OBVIOUS
<1> HIDE DEF n, new
<1>2. ASSUME NEW x \in Listed(new) PROVE x \in Listed(list) /\ x # Head(list)
  <2>1. PICK i \in 1 .. n - 1 : list[i + 1] = x
    BY <1>1 DEF Listed
  <2>2. i + 1 \in 1 .. n /\ i + 1 # 1 /\ 1 \in 1 .. n
    BY <1>1
  <2>3. QED
    BY <1>1, <2>1, <2>2 DEF Listed, Distinct
<1>3. ASSUME NEW x \in Listed(list), x # Head(list) PROVE x \in Listed(new)
  <2>1. PICK i \in 1 .. n : list[i] = x
    BY <1>1 DEF Listed
  <2>2. i - 1 \in 1 .. n - 1 /\ (i - 1) + 1 = i
    BY <1>1, <1>3, <2>1
  <2>3. new[i - 1] = x
    BY <1>1, <2>1, <2>2
  <2>4. QED
    BY <1>1, <2>2, <2>3 DEF Listed
<1>4. Distinct(new)
  <2> SUFFICES ASSUME NEW i \in 1 .. n - 1, NEW j \in 1 .. n - 1, new[i] = new[j]
               PROVE  i = j
    BY <1>1 DEF Distinct
  <2>1. /\ i + 1 \in DOMAIN list /\ j + 1 \in DOMAIN list
        /\ list[i + 1] = list[j + 1]
    BY <1>1
  <2>2. i + 1 = j + 1
    BY <2>1 DEF Distinct
  <2>3. QED
    BY <1>1, <2>2
<1>5. QED
  BY <1>1, <1>2, <1>3, <1>4 DEF new

\* OsInsertTCBToFreeList of a block that is UNUSED disturbs no task.
LEMMA FreedFacts ==
  ASSUME IInv, NEW t \in Tasks, "UNUSED" \in sched.status[t],
         sched' = Wiped(sched, t), UNCHANGED <<runTask, lock, resched, joining>>
  PROVE  /\ sched' \in SchedState /\ sched'.asserted = FALSE
         /\ QueuesFit(sched') /\ FlagsFit(sched'.status) /\ ListsFit(sched')
         /\ JoinsFit(sched', joining) /\ MostUrgentRuns'
         /\ \A rec : Listed(rec) \cup {t} = Listed(recycleList) \cup {t} =>
              RunFits(sched'.status, runTask, lock, resched, rec)
         /\ sched'.status[t] = {"UNUSED"}
         /\ \A v \in TCBs : v # t => sched'.status[v] = sched.status[v]
<1> DEFINE Y == sched.status[t]
           X == {"UNUSED"}
<1>1. /\ t \in TCBs /\ FlagsOK(Y) /\ sched.status \in [TCBs -> SUBSET Flags]
      /\ t \in sched.sortLink <=> ("PEND_TIME" \in Y \/ "DELAY" \in Y) /\ "RUNNING" \notin Y
  BY IInvFacts DEF ListsFit
<1>2. /\ "READY" \notin Y /\ "PEND" \notin Y /\ "PEND_TIME" \notin Y /\ "DELAY" \notin Y
      /\ t \notin sched.sortLink
  BY <1>1 DEF FlagsOK, Waits
<1>3. /\ sched' \in SchedState /\ QueuesFit(sched')
      /\ sched'.status = Retag(sched.status, t, X)
      /\ sched'.priority = [sched.priority EXCEPT ![t] = 0]
      /\ sched'.sortLink = sched.sortLink
      /\ sched'.waitList = sched.waitList
      /\ sched'.joinList = [sched.joinList EXCEPT ![t] = <<>>]
      /\ sched'.asserted = sched.asserted
  BY <1>2, IInvFacts, WipedFacts
<1>4. sched'.joinList = sched.joinList
  <2>1. sched.joinList \in [TCBs -> Seq(Tasks)] /\ sched.joinList[t] \in Seq(Tasks)
    BY <1>1, IInvFacts, SchedFields
  <2>2. \A u \in Tasks : u \notin Listed(sched.joinList[t])
    BY <1>1, IInvFacts DEF JoinsFit
  <2>3. sched.joinList[t] = <<>>
    BY <2>1, <2>2, NobodyListed
  <2>4. [sched.joinList EXCEPT ![t] = <<>>] = sched.joinList
    BY <2>1, <2>3, SameValue
  <2>5. QED
    BY <1>3, <2>4
<1>5. /\ sched'.status[t] = X
      /\ \A v \in TCBs : v # t => sched'.status[v] = sched.status[v]
      /\ \A v \in TCBs : v # t => sched'.priority[v] = sched.priority[v]
  BY <1>1, <1>3, IInvFacts, SchedFields DEF Retag
<1>6. t # runTask
  BY IInvFacts DEF RunFits
<1> HIDE DEF Y
<1>7. FlagsFit(sched'.status)
  <2>1. FlagsOK(X)
    BY DEF FlagsOK, Waits
  <2>2. QED
    BY <1>3, <2>1, IInvFacts, FlagsRetag
<1>8. ListsFit(sched')
  <2>1. /\ "PEND" \in X <=> "PEND" \in sched.status[t]
        /\ t \in sched.sortLink <=> ("PEND_TIME" \in X \/ "DELAY" \in X) /\ "RUNNING" \notin X
    BY <1>2 DEF Y
  <2> HIDE DEF X
  <2>2. QED
    BY <1>3, <1>4, <2>1, IInvFacts, ListsKept
<1>9. JoinsFit(sched', joining)
  <2>1. \A u \in Tasks : joining[u] # t
    BY IInvFacts, NobodyFacts DEF JoinsFit
  <2>2. \A v \in Tasks : v # t => sched'.status[v] = sched.status[v]
    BY <1>5, TcbFacts
  <2>3. "PEND_TIME" \notin sched'.status[t]
    BY <1>5
  <2>4. QED
    BY <1>3, <1>4, <2>1, <2>2, <2>3, IInvFacts, JoinsUnused
<1>10. MostUrgentRuns'
  <2>1. \A u \in Tasks : "READY" \in sched'.status[u] =>
          "READY" \in sched.status[u] /\ sched'.priority[u] = sched.priority[u]
    BY <1>5, TcbFacts
  <2>2. sched'.priority[runTask] = sched.priority[runTask]
    BY <1>5, <1>6, IInvFacts
  <2>3. QED
    BY <2>1, <2>2, UrgentKept DEF IInv, Core
<1>11. ASSUME NEW rec, Listed(rec) \cup {t} = Listed(recycleList) \cup {t}
       PROVE  RunFits(sched'.status, runTask, lock, resched, rec)
  <2>1. \A v : v # t => (v \in Listed(rec) <=> v \in Listed(recycleList))
    BY <1>11
  <2>2. /\ runTask \notin Listed(rec) /\ runTask \in TCBs
        /\ sched'.status[runTask] = sched.status[runTask]
    BY <1>5, <1>6, <2>1, IInvFacts DEF RunFits
  <2>3. ASSUME NEW v \in TCBs, v \notin Listed(rec)
        PROVE  "RUNNING" \in sched'.status[v] <=> v = runTask
    BY <1>5, <1>6, <2>1, <2>3, IInvFacts DEF RunFits
  <2>4. QED
    BY <2>2, <2>3, IInvFacts DEF RunFits
<1>12. sched'.asserted = FALSE
  BY <1>3, IInvFacts
<1>13. QED
  BY <1>3, <1>5, <1>7, <1>8, <1>9, <1>10, <1>11, <1>12

\* What the invariant says of the creation of tasks.
LEMMA CreationFacts ==
  ASSUME IInv
  PROVE  /\ creating \in [Tasks -> Steps] /\ block \in [Tasks -> Tasks \cup {Nobody}]
         /\ leaked \subseteq Tasks
         /\ \A u \in Tasks : block[u] # Nobody <=> creating[u] \in {"taken", "made"}
         /\ \A u, v \in Tasks : block[u] = block[v] /\ block[u] # Nobody => u = v
         /\ \A u \in Tasks : block[u] \notin leaked
         /\ \A u \in Tasks : creating[u] = "made" => Newborn(sched.status[block[u]])
BY DEF IInv, CreationFits

\* A step of a creation before a block is taken keeps the blocks that are away.
LEMMA AwayKept ==
  ASSUME IInv, NEW r \in Tasks, NEW step, creating' = [creating EXCEPT ![r] = step],
         UNCHANGED <<block, leaked>>, creating[r] # "taken", step # "taken"
  PROVE  Away' = Away
<1>1. Taking' = Taking
  BY CreationFacts DEF Taking
<1>2. QED
  BY <1>1 DEF Away

\* OsRecycleFinishedTask, one block.
LEMMA RecycleStep ==
  ASSUME IInv, OsRecycleFinishedTask
  PROVE  Core' /\ UNCHANGED <<block, leaked>>
<1> DEFINE t == Head(recycleList)
           fl == <<t>> \o freeList
           rl == Tail(recycleList)
<1>1. /\ recycleList # <<>> /\ sched' = Wiped(sched, t) /\ freeList' = fl /\ recycleList' = rl
      /\ UNCHANGED <<runTask, lock, resched, joining, block, leaked>>
  BY DEF OsRecycleFinishedTask
<1>2. /\ t \in Tasks /\ t \in Listed(recycleList)
      /\ rl \in Seq(Tasks) /\ Distinct(rl) /\ Listed(rl) = Listed(recycleList) \ {t}
  BY <1>1, IInvFacts, FirstIsListed, TailFacts DEF BlocksFit
<1> HIDE DEF t, rl
<1>3. /\ "UNUSED" \in sched.status[t] /\ t \notin Listed(freeList) /\ t \notin Away
  BY <1>2, IInvFacts DEF BlocksFit
<1>4. fl \in Seq(Tasks) /\ Distinct(fl) /\ Listed(fl) = Listed(freeList) \cup {t}
  BY <1>2, <1>3, IInvFacts, PushFront DEF BlocksFit
<1> HIDE DEF fl
<1>5. /\ sched' \in SchedState /\ sched'.asserted = FALSE
      /\ QueuesFit(sched') /\ FlagsFit(sched'.status) /\ ListsFit(sched')
      /\ JoinsFit(sched', joining) /\ MostUrgentRuns'
      /\ RunFits(sched'.status, runTask, lock, resched, rl)
      /\ sched'.status[t] = {"UNUSED"}
      /\ \A v \in TCBs : v # t => sched'.status[v] = sched.status[v]
  <2>1. Listed(rl) \cup {t} = Listed(recycleList) \cup {t}
    BY <1>2
  <2>2. QED
    BY <1>1, <1>2, <1>3, <2>1, FreedFacts
<1>6. BlocksFit(sched'.status, fl, rl, Away)
  BY <1>2, <1>3, <1>4, <1>5, IInvFacts, TcbFacts DEF BlocksFit
<1>7. Away' = Away
  <2>1. CASE runTask = Idle
    BY <1>1, <2>1, AwaySame DEF OsRecycleFinishedTask, creation
  <2>2. CASE runTask # Idle
    <3>1. /\ runTask \in Tasks /\ creating[runTask] \in {"no", "recycling"}
          /\ creating' = [creating EXCEPT ![runTask] = "recycling"]
      BY <2>2 DEF OsRecycleFinishedTask, Recycles, InTask, CreationAt, CreationGoesTo
    <3>2. QED
      BY <1>1, <3>1, AwayKept
  <2>3. QED
    BY <2>1, <2>2
<1>8. SchedTypeOK'
  BY <1>1, <1>2, <1>4, <1>5, IInvFacts DEF SchedTypeOK
<1>9. QED
  BY <1>1, <1>5, <1>6, <1>7, <1>8 DEF Core

\* A step that changes the free list and the blocks that are away, and no task.
LEMMA BlocksMove ==
  ASSUME IInv, UNCHANGED <<sched, runTask, lock, resched, joining, recycleList>>,
         freeList' \in Seq(Tasks), BlocksFit(sched.status, freeList', recycleList, Away')
  PROVE  Core'
<1>1. MostUrgentRuns'
  <2>1. MostUrgentRuns
    BY DEF IInv, Core
  <2>2. QED
    BY <2>1 DEF MostUrgentRuns, Is
<1>2. SchedTypeOK'
  BY IInvFacts DEF SchedTypeOK
<1>3. QED
  BY <1>1, <1>2, IInvFacts DEF Core

\* The end of the loop of OsRecycleFinishedTask.
LEMMA RecyclingEndsStep ==
  ASSUME IInv, NEW returns \in BOOLEAN, RecyclingEnds(returns)
  PROVE  Core'
<1>1. /\ UNCHANGED <<sched, runTask, lock, resched, joining, freeList, recycleList, block, leaked>>
      /\ runTask \in Tasks /\ creating[runTask] \in {"no", "recycling"}
      /\ creating' = [creating EXCEPT ![runTask] = IF returns THEN "no" ELSE "recycled"]
  BY DEF RecyclingEnds, Recycles, InTask, CreationAt, CreationGoesTo
<1>2. Away' = Away
  <2> DEFINE step == IF returns THEN "no" ELSE "recycled"
  <2>1. creating' = [creating EXCEPT ![runTask] = step] /\ step # "taken"
    BY <1>1
  <2> HIDE DEF step
  <2>2. QED
    BY <1>1, <2>1, AwayKept
<1>3. BlocksFit(sched.status, freeList', recycleList, Away') /\ freeList' \in Seq(Tasks)
  BY <1>1, <1>2, IInvFacts
<1>4. QED
  BY <1>1, <1>3, BlocksMove

\* The first block leaves the free list.
LEMMA TakeStep ==
  ASSUME IInv, TakeFreeTCB
  PROVE  Core'
<1> DEFINE r == runTask
           t == Head(freeList)
<1>1. /\ UNCHANGED <<sched, runTask, lock, resched, joining, recycleList, leaked>>
      /\ r \in Tasks /\ creating[r] = "recycled"
  BY DEF TakeFreeTCB, CreationAt
<1>2. CASE freeList = <<>>
  <2>1. /\ creating' = [creating EXCEPT ![r] = "no"]
        /\ UNCHANGED <<block, freeList>>
    BY <1>2 DEF TakeFreeTCB, CreationGoesTo
  <2>2. Away' = Away
    BY <1>1, <2>1, AwayKept
  <2>3. BlocksFit(sched.status, freeList', recycleList, Away') /\ freeList' \in Seq(Tasks)
    BY <2>1, <2>2, IInvFacts
  <2>4. QED
    BY <1>1, <2>3, BlocksMove
<1>3. CASE freeList # <<>>
  <2>1. /\ creating' = [creating EXCEPT ![r] = "taken"]
        /\ block' = [block EXCEPT ![r] = t]
        /\ freeList' = Tail(freeList)
    BY <1>3 DEF TakeFreeTCB, CreationGoesTo
  <2>2. /\ t \in Tasks /\ t \in Listed(freeList)
        /\ Tail(freeList) \in Seq(Tasks) /\ Distinct(Tail(freeList))
        /\ Listed(Tail(freeList)) = Listed(freeList) \ {t}
    BY <1>3, IInvFacts, FirstIsListed, TailFacts DEF BlocksFit
  <2> HIDE DEF t
  <2>3. Away' = Away \cup {t}
    <3>1. r \notin Taking /\ Taking' = Taking \cup {r}
      BY <1>1, <2>1, CreationFacts DEF Taking
    <3>2. block'[r] = t /\ \A u \in Taking : block'[u] = block[u]
      BY <1>1, <2>1, <3>1, CreationFacts DEF Taking
    <3>3. QED
      BY <1>1, <3>1, <3>2 DEF Away
  <2>4. BlocksFit(sched.status, freeList', recycleList, Away')
    BY <2>1, <2>2, <2>3, IInvFacts DEF BlocksFit
  <2>5. QED
    BY <1>1, <2>1, <2>2, <2>4, BlocksMove
<1>4. QED
  BY <1>2, <1>3

\* LOS_TaskLock.
LEMMA LockStep ==
  ASSUME IInv, LOS_TaskLock
  PROVE  Core'
<1>1. /\ lock' = lock + 1 /\ lock < MaxLock /\ InTask
      /\ UNCHANGED <<sched, runTask, resched, joining, freeList, recycleList, creation>>
  BY DEF LOS_TaskLock
<1>2. lock' \in 0 .. MaxLock /\ lock' # 0
  BY <1>1, IInvFacts, TaskAssumption
<1>3. ~resched
  BY <1>1, InTaskFacts
<1>4. RunFits(sched.status, runTask, lock', resched, recycleList)
  BY <1>3, IInvFacts DEF RunFits
<1>5. MostUrgentRuns'
  BY <1>2, UrgentLater
<1>6. SchedTypeOK'
  BY <1>1, <1>2, IInvFacts DEF SchedTypeOK
<1>7. QED
  BY <1>1, <1>4, <1>5, <1>6, AwaySame DEF IInv, Core

\* LOS_TaskUnlock.
LEMMA UnlockStep ==
  ASSUME IInv, LOS_TaskUnlock
  PROVE  Core'
<1>1. /\ lock' = lock - 1 /\ lock > 0 /\ InTask
      /\ UNCHANGED <<sched, runTask, joining, freeList, recycleList, creation>>
  BY DEF LOS_TaskUnlock, Locked
<1>2. resched' \in BOOLEAN /\ (resched' <=> lock = 1)
  BY Zenon DEF LOS_TaskUnlock
<1>3. lock' \in 0 .. MaxLock /\ (lock' = 0 <=> lock = 1)
  BY <1>1, IInvFacts, TaskAssumption
<1>4. ~resched
  BY <1>1, InTaskFacts
<1>5. RunFits(sched.status, runTask, lock', resched', recycleList)
  BY <1>2, <1>3, <1>4, IInvFacts DEF RunFits
<1>6. lock' = 0 => resched' = TRUE
  BY <1>2, <1>3
<1>7. MostUrgentRuns'
  BY <1>6, UrgentLater
<1>8. SchedTypeOK'
  BY <1>1, <1>2, <1>3, IInvFacts DEF SchedTypeOK
<1>9. QED
  BY <1>1, <1>5, <1>7, <1>8, AwaySame DEF IInv, Core

\* The control block that OsNewTaskInit fills.
Fresh(s, t, X, p) ==
  [s EXCEPT !.status[t] = X, !.priority[t] = p, !.timeSlice[t] = 0, !.joinList[t] = <<>>]

\* Filling a free block leaves the queues as they are.
LEMMA FreshFacts ==
  ASSUME NEW s \in SchedState, NEW t \in Tasks, NEW X \in SUBSET Flags, NEW p \in Priorities,
         QueuesFit(s), "READY" \notin s.status[t], "READY" \notin X, s.joinList[t] = <<>>
  PROVE  LET r == Fresh(s, t, X, p) IN
         /\ r \in SchedState /\ QueuesFit(r)
         /\ r.status = Retag(s.status, t, X)
         /\ r.priority = [s.priority EXCEPT ![t] = p] /\ r.sortLink = s.sortLink
         /\ r.waitList = s.waitList /\ r.joinList = s.joinList
         /\ r.asserted = s.asserted
<1> DEFINE st == Retag(s.status, t, X)
           pr == [s.priority EXCEPT ![t] = p]
           jl == [s.joinList EXCEPT ![t] = <<>>]
           sl == [s.timeSlice EXCEPT ![t] = 0]
           r == Fresh(s, t, X, p)
<1>1. r = [s EXCEPT !.status = st, !.priority = pr, !.timeSlice = sl, !.joinList = jl]
  BY SchedFields, TcbFacts DEF Fresh, Retag, SchedState
<1>2. /\ st \in [TCBs -> SUBSET Flags] /\ pr \in [TCBs -> Priorities]
      /\ jl \in [TCBs -> Seq(Tasks)] /\ sl \in [TCBs -> 0 .. SliceLen]
  BY SchedFields, TcbFacts DEF Retag
<1>3. /\ "READY" \notin st[t]
      /\ \A u \in Tasks : u # t => st[u] = s.status[u] /\ pr[u] = s.priority[u]
  BY SchedFields, TcbFacts DEF Retag
<1>4. jl = s.joinList
  BY SchedFields, SameValue
<1> HIDE DEF st, pr, jl, sl, r
<1>5. /\ r \in SchedState
      /\ r.status = st /\ r.priority = pr /\ r.joinList = jl
      /\ r.queue = s.queue /\ r.bitmap = s.bitmap /\ r.sortLink = s.sortLink
      /\ r.waitList = s.waitList /\ r.asserted = s.asserted
  BY <1>1, <1>2 DEF SchedState
<1>6. ASSUME NEW q \in Priorities, NEW u \in Tasks
      PROVE  u \in Listed(s.queue[q]) <=> "READY" \in st[u] /\ pr[u] = q
  BY <1>3 DEF QueuesFit
<1>7. QueuesFit(r)
  BY <1>5, <1>6 DEF QueuesFit
<1>8. QED
  BY <1>4, <1>5, <1>7 DEF st, pr, r

\* The block that a creator has taken is UNUSED and in no list.
LEMMA TakenFacts ==
  ASSUME IInv, NEW r \in Tasks, creating[r] = "taken"
  PROVE  /\ block[r] \in Tasks /\ block[r] \in Away /\ "UNUSED" \in sched.status[block[r]]
         /\ block[r] \notin Listed(freeList) /\ block[r] \notin Listed(recycleList)
<1>1. block[r] \in Tasks /\ block[r] \in Away
  BY CreationFacts DEF Away, Taking
<1>2. QED
  BY <1>1, IInvFacts DEF BlocksFit

\* A creator gives back, or makes a task of, the block that it has taken.
LEMMA TakenLeaves ==
  ASSUME IInv, NEW r \in Tasks, creating[r] = "taken",
         NEW step, step # "taken", creating' = [creating EXCEPT ![r] = step],
         NEW b, block' = [block EXCEPT ![r] = b], UNCHANGED leaked
  PROVE  Away' = Away \ {block[r]}
<1>1. r \in Taking /\ Taking' = Taking \ {r}
  BY CreationFacts DEF Taking
<1>2. \A u \in Taking' : block'[u] = block[u] /\ block[u] # block[r]
  BY <1>1, CreationFacts DEF Taking
<1>3. block[r] \notin leaked
  BY CreationFacts
<1>4. QED
  BY <1>1, <1>2, <1>3 DEF Away

\* OsNewTaskInit makes a suspended task of a block that is away.
LEMMA NewTaskInitStep ==
  ASSUME IInv, NEW p \in Priorities, NEW joinable \in BOOLEAN, NEW only \in BOOLEAN,
         OsNewTaskInit(p, joinable, only)
  PROVE  /\ Core'
         /\ \E X : /\ Newborn(X)
                   /\ sched'.status = Retag(sched.status, block[runTask], X)
<1> DEFINE r == runTask
           t == block[r]
           Y == sched.status[t]
           X == {"SUSPEND"} \cup (IF joinable THEN {"JOINABLE"} ELSE {})
<1>1. /\ r \in Tasks /\ creating[r] = "taken" /\ ~resched
      /\ sched' = Fresh(sched, t, X, p)
      /\ UNCHANGED <<runTask, lock, resched, joining, freeList, recycleList, leaked>>
  BY DEF OsNewTaskInit, CreationAt, Fresh
<1>2. /\ t \in Tasks /\ t \in Away /\ "UNUSED" \in Y
      /\ t \notin Listed(freeList) /\ t \notin Listed(recycleList)
  BY <1>1, TakenFacts
<1>3. Away' = Away \ {t}
  <2> DEFINE step == IF only THEN "no" ELSE "made"
             b == IF only THEN Nobody ELSE t
  <2>1. /\ creating' = [creating EXCEPT ![r] = step] /\ step # "taken"
        /\ block' = [block EXCEPT ![r] = b]
    BY <1>1, CreationFacts DEF OsNewTaskInit, CreationGoesTo
  <2> HIDE DEF step, b
  <2>2. QED
    BY <1>1, <2>1, TakenLeaves
<1> HIDE DEF t
<1>4. /\ t \in TCBs /\ FlagsOK(Y) /\ sched.status \in [TCBs -> SUBSET Flags]
      /\ t \in sched.sortLink <=> ("PEND_TIME" \in Y \/ "DELAY" \in Y) /\ "RUNNING" \notin Y
  BY <1>2, IInvFacts DEF ListsFit
<1>5. /\ "READY" \notin Y /\ "PEND" \notin Y /\ "PEND_TIME" \notin Y /\ "DELAY" \notin Y
      /\ t \notin sched.sortLink
  BY <1>2, <1>4 DEF FlagsOK, Waits
<1>6. sched.joinList[t] = <<>>
  <2>1. sched.joinList[t] \in Seq(Tasks)
    BY <1>4, IInvFacts, SchedFields
  <2>2. \A u \in Tasks : u \notin Listed(sched.joinList[t])
    BY <1>2, <1>4, IInvFacts DEF JoinsFit
  <2>3. QED
    BY <2>1, <2>2, NobodyListed
<1>7. /\ X \in SUBSET Flags /\ FlagsOK(X) /\ Newborn(X)
      /\ "READY" \notin X /\ "UNUSED" \notin X /\ "RUNNING" \notin X
      /\ "PEND" \notin X /\ "PEND_TIME" \notin X /\ "DELAY" \notin X
  BY DEF Flags, FlagsOK, Waits, Newborn
<1> HIDE DEF X, Y
<1>8. /\ sched' \in SchedState /\ QueuesFit(sched')
      /\ sched'.status = Retag(sched.status, t, X)
      /\ sched'.priority = [sched.priority EXCEPT ![t] = p]
      /\ sched'.sortLink = sched.sortLink
      /\ sched'.waitList = sched.waitList /\ sched'.joinList = sched.joinList
      /\ sched'.asserted = sched.asserted
  BY <1>1, <1>2, <1>5, <1>6, <1>7, IInvFacts, FreshFacts DEF Y
<1>9. /\ sched'.status[t] = X
      /\ \A v \in TCBs : v # t => sched'.status[v] = sched.status[v]
      /\ \A v \in TCBs : v # t => sched'.priority[v] = sched.priority[v]
  BY <1>4, <1>8, IInvFacts, SchedFields DEF Retag
<1>10. t # r
  BY <1>1, <1>2, IInvFacts DEF RunFits, Y
<1>11. FlagsFit(sched'.status)
  BY <1>2, <1>7, <1>8, IInvFacts, FlagsRetag
<1>12. ListsFit(sched')
  BY <1>2, <1>5, <1>7, <1>8, IInvFacts, ListsKept DEF Y
<1>13. RunFits(sched'.status, r, lock, resched, recycleList)
  <2>1. /\ r \notin Listed(recycleList) /\ r \in TCBs
        /\ sched'.status[r] = sched.status[r]
    BY <1>9, <1>10, IInvFacts DEF RunFits
  <2>2. ASSUME NEW v \in TCBs, v \notin Listed(recycleList)
        PROVE  "RUNNING" \in sched'.status[v] <=> v = r
    BY <1>7, <1>9, <1>10, <2>2, IInvFacts DEF RunFits
  <2>3. QED
    BY <2>1, <2>2, IInvFacts DEF RunFits
<1>14. BlocksFit(sched'.status, freeList, recycleList, Away')
  BY <1>2, <1>3, <1>7, <1>9, IInvFacts, TcbFacts DEF BlocksFit
<1>15. JoinsFit(sched', joining)
  <2>1. \A u \in Tasks : joining[u] # t
    BY <1>2, IInvFacts, NobodyFacts DEF JoinsFit, Y
  <2>2. \A v \in Tasks : v # t => sched'.status[v] = sched.status[v]
    BY <1>9, TcbFacts
  <2>3. "PEND_TIME" \notin sched'.status[t]
    BY <1>7, <1>9
  <2>4. QED
    BY <1>2, <1>8, <2>1, <2>2, <2>3, IInvFacts, JoinsUnused
<1>16. MostUrgentRuns'
  <2>1. \A u \in Tasks : "READY" \in sched'.status[u] =>
          "READY" \in sched.status[u] /\ sched'.priority[u] = sched.priority[u]
    BY <1>7, <1>9, TcbFacts
  <2>2. sched'.priority[runTask] = sched.priority[runTask]
    BY <1>9, <1>10, IInvFacts
  <2>3. QED
    BY <1>1, <2>1, <2>2, UrgentKept DEF IInv, Core
<1>17. SchedTypeOK'
  BY <1>1, <1>8, IInvFacts DEF SchedTypeOK
<1>18. Core'
  BY <1>1, <1>8, <1>11, <1>12, <1>13, <1>14, <1>15, <1>16, <1>17, IInvFacts DEF Core
<1>19. QED
  BY <1>7, <1>8, <1>18 DEF t

\* Without memory for the stack the block is freed.
LEMMA NewTaskFailsStep ==
  ASSUME IInv, NewTaskFails
  PROVE  /\ Core'
         /\ sched'.status = Retag(sched.status, block[runTask], {"UNUSED"})
<1> DEFINE r == runTask
           t == block[r]
           fl == <<t>> \o freeList
<1>1. /\ r \in Tasks /\ creating[r] = "taken"
      /\ sched' = Wiped(sched, t) /\ freeList' = fl
      /\ UNCHANGED <<runTask, lock, resched, joining, recycleList, leaked>>
      /\ creating' = [creating EXCEPT ![r] = "no"]
      /\ block' = [block EXCEPT ![r] = Nobody]
  BY DEF NewTaskFails, CreationAt, CreationGoesTo
<1>2. /\ t \in Tasks /\ t \in Away /\ "UNUSED" \in sched.status[t]
      /\ t \notin Listed(freeList) /\ t \notin Listed(recycleList)
  BY <1>1, TakenFacts
<1>3. Away' = Away \ {t}
  BY <1>1, TakenLeaves
<1> HIDE DEF t
<1>4. fl \in Seq(Tasks) /\ Distinct(fl) /\ Listed(fl) = Listed(freeList) \cup {t}
  BY <1>2, IInvFacts, PushFront DEF BlocksFit
<1> HIDE DEF fl
<1>5. /\ sched' \in SchedState /\ sched'.asserted = FALSE
      /\ QueuesFit(sched') /\ FlagsFit(sched'.status) /\ ListsFit(sched')
      /\ JoinsFit(sched', joining) /\ MostUrgentRuns'
      /\ RunFits(sched'.status, runTask, lock, resched, recycleList)
      /\ sched'.status[t] = {"UNUSED"}
      /\ \A v \in TCBs : v # t => sched'.status[v] = sched.status[v]
  BY <1>1, <1>2, FreedFacts
<1>6. BlocksFit(sched'.status, fl, recycleList, Away')
  BY <1>2, <1>3, <1>4, <1>5, IInvFacts, TcbFacts DEF BlocksFit
<1>7. SchedTypeOK'
  BY <1>1, <1>4, <1>5, IInvFacts DEF SchedTypeOK
<1>8. Core'
  BY <1>1, <1>5, <1>6, <1>7 DEF Core
<1>9. sched'.status = Retag(sched.status, t, {"UNUSED"})
  BY <1>1, IInvFacts DEF Wiped, Retag, SchedState
<1>10. QED
  BY <1>8, <1>9 DEF t

\* The last section of LOS_TaskCreate makes the task ready.  It was suspended until now,
\* for nobody resumes or deletes a task that is not queued yet.
LEMMA ReadyStep ==
  ASSUME IInv, ReadyNewTask
  PROVE  /\ Core'
         /\ \A v \in TCBs : v # block[runTask] => sched'.status[v] = sched.status[v]
<1> DEFINE r == runTask
           t == block[r]
           Y == sched.status[t]
           X == MadeReady(Y)
<1>1. /\ r \in Tasks /\ creating[r] = "made"
      /\ sched' = OsSchedTaskEnQueue(sched, t) /\ Schedule
      /\ UNCHANGED <<runTask, lock, joining, freeList, recycleList, leaked>>
      /\ creating' = [creating EXCEPT ![r] = "no"]
      /\ block' = [block EXCEPT ![r] = Nobody]
  BY DEF ReadyNewTask, CreationAt, CreationGoesTo
<1>2. t \in Tasks /\ Newborn(Y)
  BY <1>1, CreationFacts
<1>3. Away' = Away
  <2>1. r \notin Taking /\ Taking' = Taking
    BY <1>1, CreationFacts DEF Taking
  <2>2. \A u \in Taking : block'[u] = block[u]
    BY <1>1, <2>1, CreationFacts DEF Taking
  <2>3. QED
    BY <1>1, <2>1, <2>2 DEF Away
<1> HIDE DEF t
<1>4. /\ t \in TCBs /\ sched.status \in [TCBs -> SUBSET Flags] /\ t \in Tasks \cup {Idle}
      /\ t \in sched.sortLink <=> ("PEND_TIME" \in Y \/ "DELAY" \in Y) /\ "RUNNING" \notin Y
  BY <1>2, IInvFacts DEF ListsFit
<1> HIDE DEF Y
<1>5. /\ "READY" \notin Y /\ "UNUSED" \notin Y /\ "RUNNING" \notin Y /\ "EXIT" \notin Y
      /\ "PEND" \notin Y /\ "PEND_TIME" \notin Y /\ "DELAY" \notin Y
      /\ X \in SUBSET Flags /\ X \subseteq {"READY", "JOINABLE"} /\ "READY" \in X
      /\ "JOINABLE" \in X <=> "JOINABLE" \in Y
  BY <1>2 DEF Newborn, MadeReady, Flags, Waits
<1>6. FlagsOK(X)
  BY <1>5 DEF FlagsOK, Waits
<1>7. /\ sched' \in SchedState /\ QueuesFit(sched')
      /\ sched'.status = Retag(sched.status, t, X)
      /\ sched'.priority = sched.priority /\ sched'.sortLink = sched.sortLink
      /\ sched'.waitList = sched.waitList /\ sched'.joinList = sched.joinList
      /\ sched'.asserted = sched.asserted
  BY <1>1, <1>4, <1>5, IInvFacts, EnQueueFacts DEF Y
<1>8. t # r
  BY <1>1, <1>5, RunningFacts DEF Y
<1>9. /\ "RUNNING" \notin X /\ "UNUSED" \notin X /\ "EXIT" \notin X
      /\ "PEND" \notin X /\ "PEND_TIME" \notin X /\ "DELAY" \notin X
  BY <1>5
<1> HIDE DEF X
<1>10. ListsFit(sched')
  BY <1>2, <1>4, <1>5, <1>7, <1>9, IInvFacts, ListsKept DEF Y
<1>11. JoinsFit(sched', joining)
  BY <1>2, <1>5, <1>7, <1>9, IInvFacts, JoinsRetag DEF Y
<1>12. /\ resched' \in BOOLEAN /\ (resched' => lock = 0) /\ (~resched' => ~resched)
       /\ MostUrgentRuns'
  BY <1>1, ScheduleFacts
<1>13. Core'
  BY <1>1, <1>2, <1>3, <1>5, <1>6, <1>7, <1>8, <1>9, <1>10, <1>11, <1>12, OneTaskChanges DEF Y
<1>14. \A v \in TCBs : v # t => sched'.status[v] = sched.status[v]
  BY <1>4, <1>7 DEF Retag
<1>15. QED
  BY <1>13, <1>14 DEF t

-----------------------------------------------------------------------------
(* The switch.                                                             *)

\* A set of priorities in use has a most urgent one.
LEMMA LeastPriority ==
  ASSUME NEW B \in SUBSET Priorities, B # {}
  PROVE  \E p \in B : \A q \in B : p <= q
<1>1. B \subseteq Nat
  BY TaskAssumption DEF Priorities
<1>2. PICK p \in B : \A q \in B : ~(<<q, p>> \in OpToRel(<, Nat))
  BY <1>1, NatLessThanWellFounded, WFMin
<1>3. ASSUME NEW q \in B PROVE p <= q
  <2>1. <<q, p>> \in Nat \X Nat
    BY <1>1
  <2>2. ~(q < p)
    BY <1>2, <2>1 DEF OpToRel
  <2>3. QED
    BY <1>1, <2>2
<1>4. QED
  BY <1>3

\* OsGetTopTask finds a ready task that no ready task is more urgent than, or the
\* idle task when none is ready.
LEMMA TopFacts ==
  ASSUME NEW s \in SchedState, QueuesFit(s)
  PROVE  LET top == OsGetTopTask(s) IN
         /\ top \in Tasks \cup {Idle}
         /\ top \in Tasks =>
              /\ "READY" \in s.status[top]
              /\ \A u \in Tasks : "READY" \in s.status[u] => s.priority[top] <= s.priority[u]
         /\ top = Idle => \A u \in Tasks : "READY" \notin s.status[u]
<1> DEFINE top == OsGetTopTask(s)
<1>1. ASSUME NEW u \in Tasks, "READY" \in s.status[u]
      PROVE  s.priority[u] \in s.bitmap
  <2>1. s.priority[u] \in Priorities /\ s.queue[s.priority[u]] \in Seq(Tasks)
    BY SchedFields, TcbFacts
  <2>2. u \in Listed(s.queue[s.priority[u]])
    BY <1>1, <2>1 DEF QueuesFit
  <2>3. s.queue[s.priority[u]] # <<>>
    BY <2>1, <2>2, NobodyListed
  <2>4. QED
    BY <2>1, <2>3 DEF QueuesFit
<1>2. CASE s.bitmap = {}
  <2>1. top = Idle
    BY <1>2 DEF OsGetTopTask
  <2>2. QED
    BY <1>1, <1>2, <2>1, TcbFacts
<1>3. CASE s.bitmap # {}
  <2> DEFINE p == CHOOSE p \in s.bitmap : \A q \in s.bitmap : p <= q
  <2>1. s.bitmap \in SUBSET Priorities
    BY SchedFields
  <2>2. \E q \in s.bitmap : \A x \in s.bitmap : q <= x
    BY <1>3, <2>1, LeastPriority
  <2>3. p \in s.bitmap /\ \A q \in s.bitmap : p <= q
    BY <2>2
  <2>4. top = Head(s.queue[p])
    BY <1>3 DEF OsGetTopTask
  <2> HIDE DEF p, top
  <2>5. p \in Priorities /\ s.queue[p] \in Seq(Tasks) /\ s.queue[p] # <<>>
    BY <2>1, <2>3, SchedFields DEF QueuesFit
  <2>6. top \in Tasks /\ top \in Listed(s.queue[p])
    BY <2>4, <2>5, FirstIsListed
  <2>7. "READY" \in s.status[top] /\ s.priority[top] = p
    BY <2>5, <2>6 DEF QueuesFit
  <2>8. \A u \in Tasks : "READY" \in s.status[u] => p <= s.priority[u]
    BY <1>1, <2>3
  <2>9. QED
    BY <2>6, <2>7, <2>8, TcbFacts DEF top
<1>4. QED
  BY <1>2, <1>3

\* RUNNING goes from r to t.
Swapped(s, r, t) ==
  [s EXCEPT !.status[r] = @ \ {"RUNNING"}, !.status[t] = @ \cup {"RUNNING"}]

\* Moving RUNNING leaves the queues as they are.
LEMMA SwapFacts ==
  ASSUME NEW s \in SchedState, QueuesFit(s), NEW r \in TCBs, NEW t \in TCBs, r # t
  PROVE  LET n == Swapped(s, r, t) IN
         /\ n \in SchedState /\ QueuesFit(n)
         /\ n.status[r] = s.status[r] \ {"RUNNING"}
         /\ n.status[t] = s.status[t] \cup {"RUNNING"}
         /\ \A u \in TCBs : u # r /\ u # t => n.status[u] = s.status[u]
         /\ n.priority = s.priority /\ n.sortLink = s.sortLink
         /\ n.waitList = s.waitList /\ n.joinList = s.joinList
         /\ n.asserted = s.asserted
<1> DEFINE st == [s.status EXCEPT ![r] = @ \ {"RUNNING"}, ![t] = @ \cup {"RUNNING"}]
           n == Swapped(s, r, t)
<1>1. s.status \in [TCBs -> SUBSET Flags]
  BY SchedFields
<1>2. n = [s EXCEPT !.status = st]
  BY <1>1 DEF Swapped, SchedState
<1>3. /\ st \in [TCBs -> SUBSET Flags]
      /\ st[r] = s.status[r] \ {"RUNNING"}
      /\ st[t] = s.status[t] \cup {"RUNNING"}
      /\ \A u \in TCBs : u # r /\ u # t => st[u] = s.status[u]
  BY <1>1 DEF Flags
<1> HIDE DEF st, n
<1>4. \A u \in Tasks : "READY" \in st[u] <=> "READY" \in s.status[u]
  BY <1>3, TcbFacts
<1>5. /\ n \in SchedState /\ n.status = st
      /\ n.queue = s.queue /\ n.bitmap = s.bitmap
      /\ n.priority = s.priority /\ n.sortLink = s.sortLink
      /\ n.waitList = s.waitList /\ n.joinList = s.joinList
      /\ n.asserted = s.asserted
  BY <1>2, <1>3 DEF SchedState
<1>6. QueuesFit(n)
  BY <1>4, <1>5 DEF QueuesFit
<1>7. QED
  BY <1>3, <1>5, <1>6 DEF n

\* The running task has used some of its slice.
Aged(s, r, used) == [s EXCEPT !.timeSlice[r] = IF @ > used THEN @ - used ELSE 0]

\* The accounting of the slice touches nothing else.
LEMMA AgedFacts ==
  ASSUME NEW s \in SchedState, QueuesFit(s), NEW r \in TCBs, NEW used \in 1 .. SliceLen
  PROVE  LET n == Aged(s, r, used) IN
         /\ n \in SchedState /\ QueuesFit(n)
         /\ n.status = s.status /\ n.priority = s.priority /\ n.sortLink = s.sortLink
         /\ n.waitList = s.waitList /\ n.joinList = s.joinList
         /\ n.asserted = s.asserted
<1> DEFINE sl == [s.timeSlice EXCEPT ![r] = IF @ > used THEN @ - used ELSE 0]
           n == Aged(s, r, used)
<1>1. s.timeSlice \in [TCBs -> 0 .. SliceLen]
  BY SchedFields
<1>2. \A x \in 0 .. SliceLen : (IF x > used THEN x - used ELSE 0) \in 0 .. SliceLen
  BY TaskAssumption
<1>3. sl \in [TCBs -> 0 .. SliceLen]
  BY <1>1, <1>2
<1>4. n = [s EXCEPT !.timeSlice = sl]
  BY <1>1 DEF Aged, SchedState
<1> HIDE DEF sl, n
<1>5. /\ n \in SchedState /\ n.queue = s.queue /\ n.bitmap = s.bitmap
      /\ n.status = s.status /\ n.priority = s.priority /\ n.sortLink = s.sortLink
      /\ n.waitList = s.waitList /\ n.joinList = s.joinList
      /\ n.asserted = s.asserted
  BY <1>3, <1>4 DEF SchedState
<1>6. QueuesFit(n)
  BY <1>5 DEF QueuesFit
<1>7. QED
  BY <1>5, <1>6 DEF n

\* A task that has a timer to start, and one that can go on.
Timed(X) == X \cap {"PEND_TIME", "DELAY"} # {}
GoesOn(X) == ~Timed(X) /\ X \cap BlockedStatus = {}

\* The first half of OsSchedTaskSwitch: a task with a time limit gets its timer, one
\* that can go on is queued, any other is left to whoever wakes it.
LEMMA PutFacts ==
  ASSUME NEW s \in SchedState, QueuesFit(s), FlagsFit(s.status), NEW r \in TCBs,
         "RUNNING" \in s.status[r]
  PROVE  LET n == PutAway(s, r)
             Y == s.status[r] IN
         /\ n \in SchedState /\ QueuesFit(n)
         /\ GoesOn(Y) => n.status[r] = Y \cup {"READY"} /\ r \in Tasks \cup {Idle} /\ Clean(Y)
         /\ ~GoesOn(Y) => n.status[r] = Y
         /\ \A u \in TCBs : u # r => n.status[u] = s.status[u]
         /\ Timed(Y) => r \in Tasks /\ n.sortLink = s.sortLink \cup {r}
         /\ ~Timed(Y) => n.sortLink = s.sortLink
         /\ n.priority = s.priority /\ n.waitList = s.waitList /\ n.joinList = s.joinList
         /\ n.asserted = s.asserted
<1> DEFINE Y == s.status[r]
           n == PutAway(s, r)
<1>1. s.status \in [TCBs -> SUBSET Flags] /\ Y \in SUBSET Flags /\ FlagsOK(Y)
  BY SchedFields DEF FlagsFit
<1>2. "READY" \notin Y
  BY <1>1 DEF FlagsOK
<1>3. /\ r = Idle => Y \subseteq {"READY", "RUNNING"}
      /\ r = Spare => "UNUSED" \in Y /\ Y \subseteq {"UNUSED", "RUNNING"}
      /\ r \in Tasks \cup {Idle, Spare}
  BY TcbFacts DEF FlagsFit
<1>4. /\ Timed(Y) => n = [s EXCEPT !.sortLink = s.sortLink \cup {r}]
      /\ GoesOn(Y) => n = OsSchedTaskEnQueue(s, r)
      /\ ~Timed(Y) /\ ~GoesOn(Y) => n = s
  BY DEF PutAway, Timed, GoesOn, SchedState
<1> HIDE DEF Y, n
<1>5. CASE Timed(Y)
  <2>1. r \in Tasks
    BY <1>3, <1>5 DEF Timed
  <2>2. s.sortLink \cup {r} \in SUBSET Tasks
    BY <2>1, SchedFields
  <2>3. /\ n \in SchedState /\ n.status = s.status /\ n.sortLink = s.sortLink \cup {r}
        /\ n.priority = s.priority /\ n.queue = s.queue /\ n.bitmap = s.bitmap
        /\ n.waitList = s.waitList /\ n.joinList = s.joinList /\ n.asserted = s.asserted
    BY <1>4, <1>5, <2>2 DEF SchedState
  <2>4. QueuesFit(n)
    BY <2>3 DEF QueuesFit
  <2>5. ~GoesOn(Y)
    BY <1>5 DEF GoesOn
  <2>6. QED
    BY <1>5, <2>1, <2>3, <2>4, <2>5 DEF Y, n
<1>6. CASE GoesOn(Y)
  <2>1. Clean(Y) /\ ~Timed(Y)
    BY <1>6 DEF GoesOn, Timed, Clean, BlockedStatus, Waits
  <2>2. r \in Tasks \cup {Idle}
    BY <1>3, <2>1 DEF Clean
  <2>3. MadeReady(Y) = Y \cup {"READY"}
    BY <2>1 DEF MadeReady, Clean
  <2>4. /\ n \in SchedState /\ QueuesFit(n)
        /\ n.status = Retag(s.status, r, MadeReady(s.status[r]))
        /\ n.priority = s.priority /\ n.sortLink = s.sortLink
        /\ n.waitList = s.waitList /\ n.joinList = s.joinList
        /\ n.asserted = s.asserted
    BY <1>2, <1>4, <1>6, <2>2, EnQueueFacts DEF Y
  <2>5. n.status[r] = Y \cup {"READY"} /\ \A u \in TCBs : u # r => n.status[u] = s.status[u]
    BY <1>1, <2>3, <2>4 DEF Retag, Y
  <2>6. QED
    BY <1>6, <2>1, <2>2, <2>4, <2>5 DEF Y, n
<1>7. CASE ~Timed(Y) /\ ~GoesOn(Y)
  BY <1>4, <1>7 DEF Y, n
<1>8. QED
  BY <1>5, <1>6, <1>7

\* JoinsFit reads four flags.
LEMMA JoinsSame ==
  ASSUME NEW s, NEW r, NEW jn \in [Tasks -> Tasks \cup {Nobody}], JoinsFit(s, jn),
         r.joinList = s.joinList, r.waitList = s.waitList,
         \A v \in Tasks : /\ "UNUSED" \in r.status[v] <=> "UNUSED" \in s.status[v]
                          /\ "EXIT" \in r.status[v] <=> "EXIT" \in s.status[v]
                          /\ "JOINABLE" \in r.status[v] <=> "JOINABLE" \in s.status[v]
                          /\ "PEND_TIME" \in r.status[v] <=> "PEND_TIME" \in s.status[v]
  PROVE  JoinsFit(r, jn)
<1>1. ASSUME NEW v \in TCBs, NEW u \in Tasks, u \in Listed(s.joinList[v])
      PROVE  /\ v \in Tasks /\ jn[u] = v
             /\ "JOINABLE" \in r.status[v]
             /\ "EXIT" \notin r.status[v] /\ "UNUSED" \notin r.status[v]
  BY <1>1 DEF JoinsFit
<1>2. ASSUME NEW u \in Tasks, jn[u] # Nobody
      PROVE  /\ jn[u] # u
             /\ "UNUSED" \notin r.status[jn[u]]
             /\ "EXIT" \in r.status[jn[u]] \/ u \in Listed(s.joinList[jn[u]])
             /\ \A v \in Tasks : jn[v] = jn[u] => v = u
             /\ u \notin Listed(s.waitList) /\ "PEND_TIME" \notin r.status[u]
  <2>1. jn[u] \in Tasks
    BY <1>2
  <2>2. QED
    BY <1>2, <2>1 DEF JoinsFit
<1>3. QED
  BY <1>1, <1>2 DEF JoinsFit

\* OsSchedTaskSwitch: the task that runs next was the most urgent ready one, it is no
\* longer queued, and no flag but READY and RUNNING has changed.
LEMMA SwitchStep ==
  ASSUME IInv, NEW used \in 1 .. SliceLen, OsSchedTaskSwitch(used)
  PROVE  /\ Core'
         /\ \A u \in Tasks : "SUSPEND" \in sched'.status[u] <=> "SUSPEND" \in sched.status[u]
         /\ \A u \in Tasks : Newborn(sched.status[u]) => Newborn(sched'.status[u])
<1> DEFINE r == runTask
           Y == sched.status[r]
           put == PutAway(Aged(sched, r, used), r)
           top == OsGetTopTask(put)
           swapped == IF top = r THEN put ELSE Swapped(put, r, top)
           T == sched.status[top]
<1>1. /\ sched' = OsSchedTaskDeQueue(swapped, top) /\ runTask' = top /\ resched' = FALSE
      /\ lock = 0 /\ UNCHANGED <<lock, joining, freeList, recycleList, creation>>
  BY DEF OsSchedTaskSwitch, Aged, Swapped
<1>2. /\ r \in TCBs /\ "RUNNING" \in Y /\ FlagsOK(Y) /\ Y \in SUBSET Flags
      /\ \A t \in TCBs : FlagsOK(sched.status[t]) /\ sched.status[t] \in SUBSET Flags
  BY IInvFacts, RunningFacts DEF FlagsFit
<1>3. /\ put \in SchedState /\ QueuesFit(put)
      /\ GoesOn(Y) => put.status[r] = Y \cup {"READY"} /\ r \in Tasks \cup {Idle} /\ Clean(Y)
      /\ ~GoesOn(Y) => put.status[r] = Y
      /\ \A u \in TCBs : u # r => put.status[u] = sched.status[u]
      /\ Timed(Y) => r \in Tasks /\ put.sortLink = sched.sortLink \cup {r}
      /\ ~Timed(Y) => put.sortLink = sched.sortLink
      /\ put.priority = sched.priority /\ put.waitList = sched.waitList
      /\ put.joinList = sched.joinList /\ put.asserted = FALSE
  <2> DEFINE aged == Aged(sched, r, used)
  <2>1. /\ aged \in SchedState /\ QueuesFit(aged)
        /\ aged.status = sched.status /\ aged.priority = sched.priority
        /\ aged.sortLink = sched.sortLink /\ aged.waitList = sched.waitList
        /\ aged.joinList = sched.joinList /\ aged.asserted = sched.asserted
    BY <1>2, IInvFacts, AgedFacts
  <2>2. FlagsFit(aged.status) /\ "RUNNING" \in aged.status[r] /\ aged.asserted = FALSE
    BY <1>2, <2>1, IInvFacts
  <2> HIDE DEF aged, r
  <2>3. LET n == PutAway(aged, r)
            X == aged.status[r] IN
        /\ n \in SchedState /\ QueuesFit(n)
        /\ GoesOn(X) => n.status[r] = X \cup {"READY"} /\ r \in Tasks \cup {Idle} /\ Clean(X)
        /\ ~GoesOn(X) => n.status[r] = X
        /\ \A u \in TCBs : u # r => n.status[u] = aged.status[u]
        /\ Timed(X) => r \in Tasks /\ n.sortLink = aged.sortLink \cup {r}
        /\ ~Timed(X) => n.sortLink = aged.sortLink
        /\ n.priority = aged.priority /\ n.waitList = aged.waitList
        /\ n.joinList = aged.joinList /\ n.asserted = aged.asserted
    BY <1>2, <2>1, <2>2, PutFacts
  <2>4. QED
    BY <2>1, <2>2, <2>3 DEF aged
<1> HIDE DEF put
<1>4. /\ top \in Tasks \cup {Idle}
      /\ top \in Tasks =>
           /\ "READY" \in put.status[top]
           /\ \A u \in Tasks : "READY" \in put.status[u] => put.priority[top] <= put.priority[u]
      /\ top = Idle => \A u \in Tasks : "READY" \notin put.status[u]
  BY <1>3, TopFacts
<1> HIDE DEF top, r
<1>5. top \in TCBs
  BY <1>4, TcbFacts
<1>6. "READY" \notin Y
  BY <1>2 DEF FlagsOK
<1>7. top = r => GoesOn(Y)
  <2>1. CASE top \in Tasks
    BY <1>3, <1>4, <1>6, <2>1
  <2>2. CASE top = Idle
    <3>1. sched.status[Idle] \subseteq {"READY", "RUNNING"}
      BY IInvFacts DEF FlagsFit
    <3>2. QED
      BY <2>2, <3>1 DEF GoesOn, Timed, BlockedStatus
  <2>3. QED
    BY <1>4, <2>1, <2>2
<1>8. top # r => "READY" \in T /\ T \subseteq {"READY", "JOINABLE"} /\ T = put.status[top]
  <2> SUFFICES ASSUME top # r PROVE "READY" \in T /\ T \subseteq {"READY", "JOINABLE"}
                                    /\ T = put.status[top]
    OBVIOUS
  <2>1. T = put.status[top] /\ FlagsOK(T)
    BY <1>2, <1>3, <1>5
  <2>2. CASE top \in Tasks
    BY <1>4, <2>1, <2>2 DEF FlagsOK
  <2>3. CASE top = Idle
    <3>1. T \subseteq {"READY", "RUNNING"}
      BY <2>3, IInvFacts DEF FlagsFit
    <3>2. Idle \notin Listed(recycleList)
      BY IInvFacts, NobodyListed, TcbFacts
    <3>3. "RUNNING" \notin T
      BY <1>5, <2>3, <3>2, IInvFacts DEF RunFits, r
    <3>4. QED
      BY <2>1, <3>1, <3>3 DEF FlagsOK
  <2>4. QED
    BY <1>4, <2>2, <2>3
<1>9. /\ swapped \in SchedState /\ QueuesFit(swapped)
      /\ top = r => swapped.status = put.status
      /\ top # r => /\ swapped.status[r] = put.status[r] \ {"RUNNING"}
                    /\ swapped.status[top] = put.status[top] \cup {"RUNNING"}
                    /\ \A u \in TCBs : u # r /\ u # top => swapped.status[u] = put.status[u]
      /\ swapped.priority = put.priority /\ swapped.sortLink = put.sortLink
      /\ swapped.waitList = put.waitList /\ swapped.joinList = put.joinList
      /\ swapped.asserted = FALSE
  <2>1. CASE top = r
    BY <1>3, <2>1
  <2>2. CASE top # r
    BY <1>2, <1>3, <1>5, <2>2, SwapFacts
  <2>3. QED
    BY <2>1, <2>2
<1> HIDE DEF swapped
<1>10. /\ sched' \in SchedState /\ QueuesFit(sched')
       /\ sched'.status[top] = swapped.status[top] \ {"READY"}
       /\ \A u \in TCBs : u # top => sched'.status[u] = swapped.status[u]
       /\ sched'.priority = sched.priority /\ sched'.sortLink = put.sortLink
       /\ sched'.waitList = sched.waitList /\ sched'.joinList = sched.joinList
       /\ sched'.asserted = FALSE
  <2> DEFINE n == OsSchedTaskDeQueue(swapped, top)
  <2>0. swapped \in SchedState /\ QueuesFit(swapped) /\ top \in Tasks \cup {Idle}
    BY <1>4, <1>9
  <2>1. /\ n \in SchedState /\ QueuesFit(n)
        /\ n.status = Retag(swapped.status, top, swapped.status[top] \ {"READY"})
        /\ n.priority = swapped.priority /\ n.sortLink = swapped.sortLink
        /\ n.waitList = swapped.waitList /\ n.joinList = swapped.joinList
        /\ n.asserted = swapped.asserted
    BY <2>0, DeQueueFacts, Zenon
  <2>2. swapped.status \in [TCBs -> SUBSET Flags]
    BY <1>9, SchedFields
  <2> HIDE DEF n
  <2>3. /\ n.status[top] = swapped.status[top] \ {"READY"}
        /\ \A u \in TCBs : u # top => n.status[u] = swapped.status[u]
    BY <1>5, <2>1, <2>2 DEF Retag
  <2>4. QED
    BY <1>1, <1>3, <1>9, <2>1, <2>3 DEF n
\* The flags of every task after the switch.
<1>11. /\ top # r => /\ sched'.status[top] = (T \cup {"RUNNING"}) \ {"READY"}
                     /\ GoesOn(Y) => sched'.status[r] = (Y \cup {"READY"}) \ {"RUNNING"}
                     /\ ~GoesOn(Y) => sched'.status[r] = Y \ {"RUNNING"}
       /\ top = r => sched'.status[r] = Y
       /\ \A u \in TCBs : u # r /\ u # top => sched'.status[u] = sched.status[u]
  <2>1. CASE top = r
    <3>1. put.status[r] = Y \cup {"READY"}
      BY <1>3, <1>7, <2>1
    <3>2. (Y \cup {"READY"}) \ {"READY"} = Y
      BY <1>6
    <3>3. sched'.status[r] = Y
      BY <1>9, <1>10, <2>1, <3>1, <3>2
    <3>4. \A u \in TCBs : u # r => sched'.status[u] = sched.status[u]
      BY <1>3, <1>9, <1>10, <2>1
    <3>5. QED
      BY <2>1, <3>3, <3>4
  <2>2. CASE top # r
    <3>1. sched'.status[top] = (T \cup {"RUNNING"}) \ {"READY"}
      BY <1>8, <1>9, <1>10, <2>2
    <3>2. sched'.status[r] = put.status[r] \ {"RUNNING"}
      BY <1>2, <1>9, <1>10, <2>2
    <3>3. \A u \in TCBs : u # r /\ u # top => sched'.status[u] = sched.status[u]
      BY <1>3, <1>9, <1>10, <2>2
    <3>4. QED
      BY <1>3, <2>2, <3>1, <3>2, <3>3
  <2>3. QED
    BY <2>1, <2>2
<1> HIDE DEF Y, T
<1>12. Clean(sched'.status[top]) /\ "RUNNING" \in sched'.status[top]
  <2>1. CASE top = r
    BY <1>2, <1>3, <1>7, <1>11, <2>1
  <2>2. CASE top # r
    BY <1>8, <1>11, <2>2 DEF Clean, Waits
  <2>3. QED
    BY <2>1, <2>2
<1>13. top # r => "RUNNING" \notin sched'.status[r]
  BY <1>11
\* A switch moves READY and RUNNING, and no other flag.
<1>14. ASSUME NEW u \in TCBs, NEW f \in Flags \ {"READY", "RUNNING"}
       PROVE  f \in sched'.status[u] <=> f \in sched.status[u]
  <2>1. f # "READY" /\ f # "RUNNING"
    OBVIOUS
  <2>2. CASE u # r /\ u # top
    BY <1>11, <2>2
  <2>3. CASE u = r
    BY <1>11, <2>1, <2>3 DEF Y
  <2>4. CASE u = top /\ u # r
    BY <1>11, <2>1, <2>4 DEF T
  <2>5. QED
    BY <2>2, <2>3, <2>4
<1>15. \A u \in TCBs : /\ "PEND" \in sched'.status[u] <=> "PEND" \in sched.status[u]
                       /\ "PEND_TIME" \in sched'.status[u] <=> "PEND_TIME" \in sched.status[u]
                       /\ "DELAY" \in sched'.status[u] <=> "DELAY" \in sched.status[u]
                       /\ "UNUSED" \in sched'.status[u] <=> "UNUSED" \in sched.status[u]
                       /\ "EXIT" \in sched'.status[u] <=> "EXIT" \in sched.status[u]
                       /\ "JOINABLE" \in sched'.status[u] <=> "JOINABLE" \in sched.status[u]
                       /\ "SUSPEND" \in sched'.status[u] <=> "SUSPEND" \in sched.status[u]
  <2>1. {"PEND", "PEND_TIME", "DELAY", "UNUSED", "EXIT", "JOINABLE", "SUSPEND"}
          \subseteq Flags \ {"READY", "RUNNING"}
    BY DEF Flags, Waits
  <2>2. QED
    BY <1>14, <2>1
<1>16. FlagsFit(sched'.status)
  <2>1. FlagsOK(sched'.status[top])
    BY <1>12, <1>10, <1>5, SchedFields DEF Clean, FlagsOK, Waits
  <2>2. top # r => FlagsOK(sched'.status[r])
    <3>1. CASE top # r /\ GoesOn(Y)
      <4>1. Y \subseteq {"READY", "RUNNING", "JOINABLE"}
        BY <1>2, <1>3, <3>1 DEF Clean, Flags
      <4>2. (Y \cup {"READY"}) \ {"RUNNING"} \subseteq {"READY", "JOINABLE"}
        BY <4>1
      <4>3. QED
        BY <1>11, <3>1, <4>2 DEF FlagsOK, Waits
    <3>2. CASE top # r /\ ~GoesOn(Y)
      <4>1. Y \cap {"UNUSED", "SUSPEND", "EXIT", "PEND", "DELAY"} # {}
        BY <1>2, <3>2 DEF GoesOn, Timed, BlockedStatus, FlagsOK
      <4>2. QED
        BY <1>2, <1>6, <1>11, <3>2, <4>1 DEF FlagsOK
    <3>3. QED
      BY <3>1, <3>2
  <2>3. \A u \in TCBs : FlagsOK(sched'.status[u])
    BY <1>2, <1>11, <2>1, <2>2
  <2>4. sched'.status[Idle] \subseteq {"READY", "RUNNING"}
    <3>1. sched.status[Idle] \subseteq {"READY", "RUNNING"}
      BY IInvFacts DEF FlagsFit
    <3>2. QED
      BY <1>11, <3>1, TcbFacts DEF Y, T
  <2>5. "UNUSED" \in sched'.status[Spare] /\ sched'.status[Spare] \subseteq {"UNUSED", "RUNNING"}
    <3>1. "UNUSED" \in sched.status[Spare] /\ sched.status[Spare] \subseteq {"UNUSED", "RUNNING"}
      BY IInvFacts DEF FlagsFit
    <3>2. top # Spare
      BY <1>4, TcbFacts
    <3>3. r = Spare => ~GoesOn(Y)
      BY <1>3, TcbFacts
    <3>4. QED
      BY <1>11, <3>1, <3>2, <3>3, TcbFacts DEF Y
  <2>6. QED
    BY <2>3, <2>4, <2>5 DEF FlagsFit
<1>17. ListsFit(sched')
  <2>1. ASSUME NEW v \in Tasks
        PROVE  v \in put.sortLink <=>
                 /\ "PEND_TIME" \in sched'.status[v] \/ "DELAY" \in sched'.status[v]
                 /\ "RUNNING" \notin sched'.status[v]
    <3>1. v \in sched.sortLink <=>
            /\ "PEND_TIME" \in sched.status[v] \/ "DELAY" \in sched.status[v]
            /\ "RUNNING" \notin sched.status[v]
      BY IInvFacts DEF ListsFit
    <3>2. Timed(Y) <=> "PEND_TIME" \in Y \/ "DELAY" \in Y
      BY DEF Timed
    <3>3. v \in TCBs
      BY TcbFacts
    <3>4. CASE v = r
      <4>1. v \notin sched.sortLink
        BY <1>2, <3>1, <3>4 DEF Y
      <4>2. Timed(Y) => top # r
        BY <1>7 DEF GoesOn
      <4>3. v \in put.sortLink <=> Timed(Y)
        BY <1>3, <3>4, <4>1
      <4>4. QED
        BY <1>13, <1>15, <3>2, <3>3, <3>4, <4>2, <4>3 DEF Y
    <3>5. CASE v # r /\ v = top
      <4>1. "PEND_TIME" \notin T /\ "DELAY" \notin T
        BY <1>8, <3>5
      <4>2. v \in put.sortLink <=> v \in sched.sortLink
        BY <1>3, <3>5
      <4>3. QED
        BY <1>15, <3>1, <3>3, <3>5, <4>1, <4>2 DEF T
    <3>6. CASE v # r /\ v # top
      <4>1. v \in put.sortLink <=> v \in sched.sortLink
        BY <1>3, <3>6
      <4>2. QED
        BY <1>11, <3>1, <3>3, <3>6, <4>1
    <3>7. QED
      BY <3>4, <3>5, <3>6
  <2>2. QED
    BY <1>10, <1>15, <2>1, IInvFacts, TcbFacts DEF ListsFit
<1>18. RunFits(sched'.status, top, 0, FALSE, recycleList)
  <2>1. top \notin Listed(recycleList)
    <3>1. CASE top = r
      BY <3>1, IInvFacts DEF RunFits, r
    <3>2. CASE top # r /\ top \in Tasks
      BY <1>8, <3>2, IInvFacts DEF BlocksFit, T
    <3>3. CASE top = Idle
      BY <3>3, IInvFacts, NobodyListed, TcbFacts
    <3>4. QED
      BY <1>4, <3>1, <3>2, <3>3
  <2>2. ASSUME NEW v \in TCBs, v \notin Listed(recycleList)
        PROVE  "RUNNING" \in sched'.status[v] <=> v = top
    <3>1. "RUNNING" \in sched.status[v] <=> v = r
      BY <2>2, IInvFacts DEF RunFits, r
    <3>2. QED
      BY <1>11, <1>12, <1>13, <3>1
  <2>3. "UNUSED" \notin sched'.status[top]
    BY <1>12 DEF Clean
  <2>4. QED
    BY <1>12, <2>1, <2>2, <2>3 DEF RunFits
<1>19. BlocksFit(sched'.status, freeList, recycleList, Away)
  BY <1>15, IInvFacts, TcbFacts DEF BlocksFit
<1>20. JoinsFit(sched', joining)
  <2>1. \A v \in Tasks :
          /\ "UNUSED" \in sched'.status[v] <=> "UNUSED" \in sched.status[v]
          /\ "EXIT" \in sched'.status[v] <=> "EXIT" \in sched.status[v]
          /\ "JOINABLE" \in sched'.status[v] <=> "JOINABLE" \in sched.status[v]
          /\ "PEND_TIME" \in sched'.status[v] <=> "PEND_TIME" \in sched.status[v]
    BY <1>15, TcbFacts
  <2>2. QED
    BY <1>10, <2>1, IInvFacts, JoinsSame
<1>21. MostUrgentRuns'
  <2>1. ASSUME NEW u \in Tasks, "READY" \in sched'.status[u]
        PROVE  "READY" \in put.status[u]
    <3>1. u \in TCBs /\ u # top
      BY <1>10, <2>1, TcbFacts
    <3>2. "READY" \in swapped.status[u]
      BY <1>10, <2>1, <3>1
    <3>3. QED
      BY <1>9, <3>1, <3>2
  <2>2. ASSUME NEW u \in Tasks, "READY" \in sched'.status[u]
        PROVE  top # Idle /\ sched'.priority[top] <= sched'.priority[u]
    <3>1. top # Idle /\ top \in Tasks
      BY <1>4, <2>1, <2>2
    <3>2. put.priority[top] <= put.priority[u]
      BY <1>4, <2>1, <2>2, <3>1
    <3>3. QED
      BY <1>3, <1>10, <3>1, <3>2
  <2>3. QED
    BY <1>1, <2>2 DEF MostUrgentRuns, Is
<1>22. SchedTypeOK'
  BY <1>1, <1>5, <1>10, IInvFacts DEF SchedTypeOK
<1>23. Core'
  BY <1>1, <1>10, <1>16, <1>17, <1>18, <1>19, <1>20, <1>21, <1>22, AwaySame DEF IInv, Core
<1>24. ASSUME NEW u \in Tasks, Newborn(sched.status[u]) PROVE Newborn(sched'.status[u])
  <2>1. u # r /\ u # top
    BY <1>2, <1>8, <1>24 DEF Newborn, Y, T
  <2>2. QED
    BY <1>11, <1>24, <2>1, TcbFacts
<1>25. QED
  BY <1>15, <1>23, <1>24, TcbFacts

-----------------------------------------------------------------------------
(* The invariant.                                                          *)

\* A list of all the members of a set, as long as the set is large, has none twice.
LEMMA OrderingFacts ==
  ASSUME NEW S, IsFiniteSet(S),
         NEW list \in [1 .. Cardinality(S) -> S], Listed(list) = S
  PROVE  list \in Seq(S) /\ Distinct(list)
<1> DEFINE n == Cardinality(S)
<1>1. n \in Nat
  BY FS_CardinalityType
<1>2. IsFiniteSet(1 .. n) /\ Cardinality(1 .. n) = n
  BY <1>1, FS_Interval
<1>3. DOMAIN list = 1 .. n
  OBVIOUS
<1>4. \A x \in S : \E i \in 1 .. n : list[i] = x
  BY <1>3 DEF Listed
<1> HIDE DEF n
<1>5. list \in Surjection(1 .. n, S)
  BY <1>4, Fun_IsSurj DEF n
<1>6. list \in Injection(1 .. n, S)
  BY <1>2, <1>5, FS_SurjSameCardinalityImpliesInj DEF n
<1>7. \A i, j \in 1 .. n : list[i] = list[j] => i = j
  BY <1>6, Fun_InjectionProperties
<1>8. Distinct(list)
  BY <1>3, <1>7 DEF Distinct
<1>9. list \in Seq(S)
  BY <1>1 DEF n
<1>10. QED
  BY <1>8, <1>9

\* The state that OsTaskInit and OsSchedStart leave.
LEMMA InitStep ==
  ASSUME Init
  PROVE  IInv
<1> DEFINE r == runTask
           st == [t \in TCBs |-> IF t = Idle THEN {"READY"}
                                 ELSE IF t = r THEN {"RUNNING"} ELSE {"UNUSED"}]
           pr == [t \in TCBs |-> IF t \in {Idle, Spare} THEN Lowest ELSE 0]
           sl == [t \in TCBs |-> IF t = r THEN SliceLen ELSE 0]
           qu == [p \in Priorities |-> <<>>]
           jl == [t \in TCBs |-> <<>>]
           jn == [t \in Tasks |-> Nobody]
<1>1. /\ sched = [status |-> st, priority |-> pr, timeSlice |-> sl, queue |-> qu,
                  bitmap |-> {}, sortLink |-> {}, waitList |-> <<>>, joinList |-> jl,
                  asserted |-> FALSE]
      /\ r \in Tasks /\ lock = 0 /\ resched = FALSE
      /\ joining = jn /\ recycleList = <<>>
      /\ creating = [t \in Tasks |-> "no"] /\ block = [t \in Tasks |-> Nobody]
      /\ leaked = {}
  BY DEF Init
<1>2. r \in Tasks /\ r \in TCBs /\ r # Idle /\ r # Spare /\ Idle # Spare
  BY <1>1, TcbFacts
<1>3. <<>> \in Seq(Tasks)
  OBVIOUS
<1>4. /\ st \in [TCBs -> SUBSET Flags] /\ pr \in [TCBs -> Priorities]
      /\ sl \in [TCBs -> 0 .. SliceLen] /\ qu \in [Priorities -> Seq(Tasks)]
      /\ jl \in [TCBs -> Seq(Tasks)] /\ jn \in [Tasks -> Tasks \cup {Nobody}]
  BY <1>3, TcbFacts DEF Flags
<1>5. /\ st[Idle] = {"READY"} /\ st[r] = {"RUNNING"} /\ st[Spare] = {"UNUSED"}
      /\ \A t \in TCBs : t # Idle /\ t # r => st[t] = {"UNUSED"}
  BY <1>2, TcbFacts
<1>6. /\ \A p \in Priorities : qu[p] = <<>>
      /\ \A t \in TCBs : jl[t] = <<>>
      /\ \A t \in Tasks : jn[t] = Nobody
  OBVIOUS
<1>7. /\ freeList \in Seq(Tasks) /\ Distinct(freeList)
      /\ \A t \in Tasks : t \in Listed(freeList) <=> t # r
  <2> DEFINE S == Tasks \ {r}
  <2>1. IsFiniteSet(S)
    BY TaskAssumption, FS_RemoveElement
  <2>2. freeList \in [1 .. Cardinality(S) -> S] /\ Listed(freeList) = S
    BY DEF Init
  <2> HIDE DEF S
  <2>3. freeList \in Seq(S) /\ Distinct(freeList)
    BY <2>1, <2>2, OrderingFacts
  <2>4. freeList \in Seq(Tasks)
    BY <2>3 DEF S
  <2>5. QED
    BY <2>2, <2>3, <2>4 DEF S
<1> HIDE DEF st, pr, sl, qu, jl, jn, r
<1>8. /\ sched \in SchedState
      /\ sched.status = st /\ sched.queue = qu /\ sched.bitmap = {} /\ sched.sortLink = {}
      /\ sched.waitList = <<>> /\ sched.joinList = jl /\ sched.asserted = FALSE
  BY <1>1, <1>3, <1>4 DEF SchedState
<1>9. SchedTypeOK
  <2>1. runTask = r /\ lock = 0 /\ resched = FALSE
    BY <1>1 DEF r
  <2>2. lock \in 0 .. MaxLock
    BY <2>1, TaskAssumption
  <2>3. resched \in BOOLEAN /\ runTask \in TCBs
    BY <1>2, <2>1
  <2>4. joining \in [Tasks -> Tasks \cup {Nobody}]
    BY <1>1, <1>4
  <2>5. freeList \in Seq(Tasks) /\ recycleList \in Seq(Tasks)
    BY <1>1, <1>3, <1>7
  <2>6. QED
    BY <1>8, <2>2, <2>3, <2>4, <2>5 DEF SchedTypeOK
<1>10. \A t \in Tasks : "READY" \notin st[t] /\ "PEND" \notin st[t] /\ "PEND_TIME" \notin st[t]
                        /\ "DELAY" \notin st[t] /\ ("UNUSED" \in st[t] <=> t # r)
  BY <1>5, TcbFacts
<1>11. QueuesFit(sched)
  BY <1>6, <1>8, <1>10, EmptyList DEF QueuesFit
<1>12. FlagsFit(sched.status)
  <2>1. FlagsOK({"READY"}) /\ FlagsOK({"RUNNING"}) /\ FlagsOK({"UNUSED"})
    BY DEF FlagsOK, Waits
  <2>2. QED
    BY <1>5, <1>8, <2>1 DEF FlagsFit
<1>13. ListsFit(sched)
  BY <1>6, <1>8, <1>10, EmptyList DEF ListsFit
<1>14. RunFits(sched.status, runTask, lock, resched, recycleList)
  <2>1. Clean({"RUNNING"})
    BY DEF Clean, Waits
  <2>2. \A t \in TCBs : "RUNNING" \in st[t] <=> t = r
    BY <1>2, <1>5
  <2>3. runTask = r
    BY DEF r
  <2>4. QED
    BY <1>1, <1>5, <1>8, <2>1, <2>2, <2>3, EmptyList DEF RunFits
<1>15. BlocksFit(sched.status, freeList, recycleList, Away)
  <2>1. Away = {}
    BY <1>1 DEF Away, Taking
  <2>2. QED
    BY <1>1, <1>7, <1>8, <1>10, <2>1, EmptyList DEF BlocksFit
<1>16. JoinsFit(sched, joining)
  BY <1>1, <1>6, <1>8, EmptyList DEF JoinsFit
<1>17. MostUrgentRuns
  BY <1>8, <1>10 DEF MostUrgentRuns, Is
<1>18. CreationFits(sched.status, creating, block, leaked)
  BY <1>1 DEF CreationFits, Steps
<1>19. QED
  BY <1>8, <1>9, <1>11, <1>12, <1>13, <1>14, <1>15, <1>16, <1>17, <1>18 DEF IInv, Core

\* The invariant survives steps that change nothing.
LEMMA StutterStep ==
  ASSUME IInv, UNCHANGED vars
  PROVE  IInv'
<1>1. MostUrgentRuns' <=> MostUrgentRuns
  BY DEF vars, MostUrgentRuns, Is
<1>2. SchedTypeOK' <=> SchedTypeOK
  BY DEF vars, SchedTypeOK
<1>3. Away' = Away
  BY AwaySame DEF vars
<1>4. QED
  BY <1>1, <1>2, <1>3 DEF IInv, Core, vars, creation

-----------------------------------------------------------------------------
(* Suspensions.                                                            *)

\* Nothing but LOS_TaskResume of t takes SUSPEND from t, while t is a task; a task that
\* LOS_TaskCreate has not queued yet changes only when it does.
StaysDown(t) ==
  /\ "UNUSED" \notin sched.status[t] /\ "SUSPEND" \in sched.status[t] =>
       \/ LOS_TaskResume(t) \/ "SUSPEND" \in sched'.status[t] \/ "UNUSED" \in sched'.status[t]
       \/ InMaking(t) /\ ReadyNewTask
  /\ InMaking(t) => Newborn(sched'.status[t]) \/ (ReadyNewTask /\ block[runTask] = t)

\* The flags of a task in the making.
LEMMA MakingFacts ==
  ASSUME IInv, NEW t, InMaking(t)
  PROVE  t \in Tasks /\ Newborn(sched.status[t])
BY CreationFacts DEF InMaking

\* The flags of one task change, and SUSPEND stays.
LEMMA OneTaskStays ==
  ASSUME IInv, NEW t \in Tasks, NEW u \in TCBs, NEW X,
         sched'.status = Retag(sched.status, u, X),
         "SUSPEND" \in sched.status[u] => "SUSPEND" \in X \/ "UNUSED" \in X,
         Newborn(sched.status[u]) => Newborn(X)
  PROVE  StaysDown(t)
<1>1. /\ sched'.status[u] = X
      /\ \A v \in TCBs : v # u => sched'.status[v] = sched.status[v]
  BY IInvFacts DEF Retag
<1>2. QED
  BY <1>1, IInvFacts, MakingFacts DEF StaysDown

\* The flags of the others stay.
LEMMA OthersStay ==
  ASSUME IInv, NEW t \in Tasks, sched'.status[t] = sched.status[t]
  PROVE  StaysDown(t)
BY MakingFacts DEF StaysDown

\* LOS_TaskDelete of d wakes the task that joins it, which stays suspended.
LEMMA DeleteStays ==
  ASSUME IInv, Calls = {}, NEW t \in Tasks, NEW d \in Tasks, LOS_TaskDelete(d)
  PROVE  StaysDown(t)
<1> DEFINE s == OsSchedTaskExit(OsTaskJoinPostUnsafe(sched, d), d)
<1>1. "UNUSED" \notin sched.status[d] /\ "EXIT" \notin sched.status[d]
  BY DEF LOS_TaskDelete, Created, Is
<1>2. \/ sched' = s
      \/ sched' = [s EXCEPT !.status[d] = @ \cup {"UNUSED"},
                            !.status[Spare] = {"UNUSED", "RUNNING"}]
      \/ sched' = Wiped(s, d)
  BY DEF LOS_TaskDelete, OsRunningTaskDelete, DeleteOther
<1>3. /\ s \in SchedState /\ QueuesFit(s) /\ "READY" \notin s.status[d]
      /\ \A v \in TCBs : "SUSPEND" \in s.status[v] <=> "SUSPEND" \in sched.status[v]
      /\ \A v \in TCBs : v # d /\ "PEND" \notin sched.status[v] => s.status[v] = sched.status[v]
  BY <1>1, DeletedFacts DEF Gone
<1>4. t \in TCBs /\ d \in TCBs /\ t # Spare /\ Spare \in TCBs /\ d # Spare
  BY TcbFacts
<1> HIDE DEF s
<1>5. s.status \in [TCBs -> SUBSET Flags]
  BY <1>3, SchedFields
<1>6. InMaking(t) => t # d /\ Newborn(sched.status[t]) /\ "PEND" \notin sched.status[t]
  BY MakingFacts DEF LOS_TaskDelete, Newborn
<1>7. InMaking(t) => Newborn(s.status[t])
  BY <1>3, <1>4, <1>6
<1>8. CASE sched' = s
  BY <1>3, <1>4, <1>7, <1>8 DEF StaysDown
<1>9. CASE sched' = [s EXCEPT !.status[d] = @ \cup {"UNUSED"},
                              !.status[Spare] = {"UNUSED", "RUNNING"}]
  <2> DEFINE st == [s.status EXCEPT ![d] = @ \cup {"UNUSED"}, ![Spare] = {"UNUSED", "RUNNING"}]
  <2>1. sched'.status = st
    BY <1>3, <1>9 DEF SchedState
  <2>2. t # d => st[t] = s.status[t]
    BY <1>4, <1>5
  <2>3. "UNUSED" \in st[d]
    BY <1>4, <1>5
  <2> HIDE DEF st
  <2>4. QED
    BY <1>3, <1>4, <1>6, <1>7, <2>1, <2>2, <2>3 DEF StaysDown
<1>10. CASE sched' = Wiped(s, d)
  <2>1. sched'.status = Retag(s.status, d, {"UNUSED"})
    BY <1>3, <1>10, WipedFacts
  <2>2. sched'.status[d] = {"UNUSED"} /\ (t # d => sched'.status[t] = s.status[t])
    BY <1>4, <1>5, <2>1 DEF Retag
  <2>3. QED
    BY <1>3, <1>4, <1>6, <1>7, <2>2 DEF StaysDown
<1>11. QED
  BY <1>2, <1>8, <1>9, <1>10

\* The task that is joined in JoinReclaims has exited.
LEMMA JoinedHasExited ==
  ASSUME IInv, runTask \in Tasks, ~resched, joining[runTask] # Nobody
  PROVE  joining[runTask] \in Tasks /\ "EXIT" \in sched.status[joining[runTask]]
<1> DEFINE r == runTask
           t == joining[r]
<1>1. t \in Tasks /\ t \in TCBs
  BY IInvFacts, TcbFacts
<1>2. "EXIT" \in sched.status[t] \/ r \in Listed(sched.joinList[t])
  BY IInvFacts DEF JoinsFit
<1>3. "PEND" \notin sched.status[r]
  BY RunningFacts DEF Clean, Waits
<1>4. r \notin Listed(sched.joinList[t])
  BY <1>1, <1>3, IInvFacts DEF ListsFit
<1>5. QED
  BY <1>1, <1>2, <1>4

\* No action ends a suspension, but for LOS_TaskResume and the end of the task.
LEMMA StaysDownStep ==
  ASSUME IInv, Calls = {}, NEW t \in Tasks, Next
  PROVE  StaysDown(t)
<1> DEFINE Same == sched'.status = sched.status
<1>0. /\ Same => StaysDown(t)
      /\ sched \in SchedState /\ QueuesFit(sched) /\ FlagsFit(sched.status) /\ ListsFit(sched)
      /\ \A v \in Tasks : v \in TCBs /\ FlagsOK(sched.status[v])
  BY IInvFacts, OthersStay
<1>1. ASSUME NEW u \in Tasks, LOS_TaskSuspend(u) PROVE StaysDown(t)
  <2> DEFINE X == (sched.status[u] \ {"READY"}) \cup {"SUSPEND"}
  <2>1. sched'.status = Retag(sched.status, u, X)
    BY <1>0, <1>1, SuspendFacts DEF LOS_TaskSuspend
  <2>2. Newborn(sched.status[u]) => Newborn(X)
    BY DEF Newborn
  <2>3. "SUSPEND" \in X
    OBVIOUS
  <2> HIDE DEF X
  <2>4. QED
    BY <1>0, <2>1, <2>2, <2>3, OneTaskStays
<1>2. ASSUME NEW u \in Tasks, LOS_TaskResume(u) PROVE StaysDown(t)
  <2> DEFINE X == IF sched.status[u] \cap {"DELAY", "PEND"} = {}
                  THEN MadeReady(sched.status[u]) ELSE sched.status[u] \ {"SUSPEND"}
  <2>1. "SUSPEND" \in sched.status[u] /\ sched' = OsSchedResume(sched, u) /\ ~InMaking(u)
    BY <1>2 DEF LOS_TaskResume, Is
  <2>2. "READY" \notin sched.status[u]
    BY <1>0, <2>1 DEF FlagsOK
  <2>3. sched'.status = Retag(sched.status, u, X)
    BY <1>0, <2>1, <2>2, ResumeFacts
  <2> HIDE DEF X
  <2>4. t # u => sched'.status[t] = sched.status[t]
    BY <1>0, <2>3, IInvFacts DEF Retag
  <2>5. CASE t = u
    BY <1>2, <2>1, <2>5 DEF StaysDown
  <2>6. QED
    BY <2>4, <2>5, OthersStay
<1>3. ASSUME NEW u \in Tasks, NEW p \in Priorities, LOS_TaskPriSet(u, p) PROVE StaysDown(t)
  <2>1. Same
    BY <1>0, <1>3, ModifyFacts DEF LOS_TaskPriSet
  <2>2. QED
    BY <1>0, <2>1
<1>4. CASE WakeWaiter
  <2> DEFINE w == Head(sched.waitList)
             X == IF StaysOut(sched.status[w]) THEN sched.status[w] \ {"PEND", "PEND_TIME"}
                  ELSE MadeReady(sched.status[w])
  <2>1. sched.waitList # <<>> /\ sched' = OsSchedTaskWake(sched, w)
    BY <1>4 DEF WakeWaiter
  <2>2. w \in Tasks /\ w \in Listed(sched.waitList)
    BY <1>0, <2>1, SchedFields, FirstIsListed
  <2> HIDE DEF w
  <2>3. "PEND" \in sched.status[w]
    BY <1>0, <2>2 DEF ListsFit
  <2>4. "READY" \notin sched.status[w] /\ ~Newborn(sched.status[w])
    BY <1>0, <2>2, <2>3 DEF FlagsOK, Newborn
  <2>5. sched'.status = Retag(sched.status, w, X)
    BY <1>0, <2>1, <2>2, <2>4, WakeFacts
  <2>6. "SUSPEND" \in sched.status[w] => "SUSPEND" \in X
    BY DEF StaysOut
  <2> HIDE DEF X
  <2>7. QED
    BY <1>0, <2>2, <2>4, <2>5, <2>6, OneTaskStays
<1>5. ASSUME NEW u \in Tasks, TimerExpires(u) PROVE StaysDown(t)
  <2> DEFINE X == IF StaysSuspended(sched.status[u]) THEN sched.status[u] \ Waits
                  ELSE MadeReady(sched.status[u])
  <2>1. u \in sched.sortLink /\ sched' = OsSchedWakePendTimeTask(sched, u)
    BY <1>5 DEF TimerExpires
  <2>2. "PEND_TIME" \in sched.status[u] \/ "DELAY" \in sched.status[u]
    BY <1>0, <2>1 DEF ListsFit
  <2>3. "READY" \notin sched.status[u] /\ ~Newborn(sched.status[u])
    BY <1>0, <2>2 DEF FlagsOK, Newborn
  <2>4. sched'.status = Retag(sched.status, u, X)
    BY <1>0, <2>1, <2>3, TimeoutFacts
  <2>5. "SUSPEND" \in sched.status[u] => "SUSPEND" \in X
    BY DEF StaysSuspended, Waits
  <2> HIDE DEF X
  <2>6. QED
    BY <1>0, <2>3, <2>4, <2>5, OneTaskStays
<1>6. ASSUME NEW u \in Tasks, LOS_TaskDelete(u) PROVE StaysDown(t)
  BY <1>6, DeleteStays
<1>7. /\ runTask \in TCBs /\ ~Newborn(sched.status[runTask])
      /\ \A Z : "SUSPEND" \in sched.status[runTask] => "SUSPEND" \in sched.status[runTask] \cup Z
  BY RunningFacts, IInvFacts DEF Newborn
<1>8. ASSUME NEW u \in Tasks, JoinPends(u) PROVE StaysDown(t)
  <2>1. sched'.status = Retag(sched.status, runTask, sched.status[runTask] \cup {"PEND"})
    BY <1>0, <1>8 DEF JoinPends, Retag, SchedState
  <2>2. QED
    BY <1>7, <2>1, OneTaskStays
<1>9. ASSUME NEW u \in Tasks, JoinExited(u) PROVE StaysDown(t)
  BY <1>0, <1>9 DEF JoinExited
<1>10. CASE JoinReclaims
  <2> DEFINE w == joining[runTask]
  <2>1. sched' = Wiped(sched, w) /\ w \in Tasks /\ "EXIT" \in sched.status[w]
    BY <1>10, JoinedHasExited DEF JoinReclaims
  <2>2. w \in TCBs /\ ~Newborn(sched.status[w])
    BY <2>1, TcbFacts DEF Newborn
  <2> HIDE DEF w
  <2>3. sched'.status = Retag(sched.status, w, {"UNUSED"})
    BY <1>0, <2>1 DEF Wiped, Retag, SchedState
  <2>4. QED
    BY <2>2, <2>3, OneTaskStays
<1>11. ASSUME NEW u \in Tasks, LOS_TaskDetach(u) PROVE StaysDown(t)
  <2>1. sched'.status = Retag(sched.status, u, sched.status[u] \ {"JOINABLE"})
    BY <1>0, <1>11 DEF LOS_TaskDetach, Retag, SchedState
  <2>2. Newborn(sched.status[u]) => Newborn(sched.status[u] \ {"JOINABLE"})
    BY DEF Newborn
  <2>3. QED
    BY <1>0, <2>1, <2>2, OneTaskStays
<1>12. CASE OsRecycleFinishedTask
  <2> DEFINE w == Head(recycleList)
  <2>1. sched' = Wiped(sched, w) /\ recycleList # <<>>
    BY <1>12 DEF OsRecycleFinishedTask
  <2>2. w \in Tasks /\ w \in Listed(recycleList)
    BY <2>1, IInvFacts, FirstIsListed
  <2> HIDE DEF w
  <2>3. w \in TCBs /\ "UNUSED" \in sched.status[w]
    BY <2>2, IInvFacts DEF BlocksFit
  <2>4. sched'.status = Retag(sched.status, w, {"UNUSED"})
    BY <1>0, <2>1 DEF Wiped, Retag, SchedState
  <2>5. ~Newborn(sched.status[w])
    BY <2>3 DEF Newborn
  <2>6. QED
    BY <2>3, <2>4, <2>5, OneTaskStays
<1>13. CASE \/ \E returns \in BOOLEAN : RecyclingEnds(returns)
            \/ TakeFreeTCB \/ LOS_TaskLock \/ LOS_TaskUnlock
  BY <1>0, <1>13 DEF RecyclingEnds, TakeFreeTCB, LOS_TaskLock, LOS_TaskUnlock
<1>14. CASE \/ \E p \in Priorities, joinable, only \in BOOLEAN : OsNewTaskInit(p, joinable, only)
            \/ NewTaskFails
  <2> DEFINE w == block[runTask]
  <2>1. runTask \in Tasks /\ creating[runTask] = "taken"
    BY <1>14 DEF OsNewTaskInit, NewTaskFails, CreationAt
  <2>2. w \in Tasks /\ "UNUSED" \in sched.status[w]
    BY <2>1, TakenFacts
  <2>3. \E X : sched'.status = Retag(sched.status, w, X) /\ ("SUSPEND" \in X \/ "UNUSED" \in X)
    BY <1>14, NewTaskInitStep, NewTaskFailsStep DEF Newborn
  <2> HIDE DEF w
  <2>4. w \in TCBs /\ ~Newborn(sched.status[w])
    BY <2>2, TcbFacts DEF Newborn
  <2>5. QED
    BY <2>3, <2>4, OneTaskStays
<1>15. CASE ReadyNewTask
  <2>1. t # block[runTask] => sched'.status[t] = sched.status[t]
    BY <1>0, <1>15, ReadyStep
  <2>2. CASE t = block[runTask]
    <3>1. InMaking(t)
      BY <1>15, <2>2 DEF ReadyNewTask, CreationAt, InMaking
    <3>2. QED
      BY <1>15, <2>2, <3>1 DEF StaysDown
  <2>3. QED
    BY <2>1, <2>2, OthersStay
<1>16. CASE LOS_TaskDelay
  <2>1. sched'.status = Retag(sched.status, runTask, sched.status[runTask] \cup {"DELAY"})
    BY <1>0, <1>16 DEF LOS_TaskDelay, Retag, SchedState
  <2>2. QED
    BY <1>7, <2>1, OneTaskStays
<1>17. ASSUME NEW timed \in BOOLEAN, OsSchedTaskWait(timed) PROVE StaysDown(t)
  <2> DEFINE X == sched.status[runTask] \cup {"PEND"} \cup (IF timed THEN {"PEND_TIME"} ELSE {})
  <2>1. sched'.status = Retag(sched.status, runTask, X)
    BY <1>0, <1>17 DEF OsSchedTaskWait, Retag, SchedState
  <2>2. "SUSPEND" \in sched.status[runTask] => "SUSPEND" \in X
    OBVIOUS
  <2> HIDE DEF X
  <2>3. QED
    BY <1>7, <2>1, <2>2, OneTaskStays
<1>18. CASE LOS_TaskYield
  <2>1. Same
    BY <1>0, <1>18 DEF LOS_TaskYield, SchedState
  <2>2. QED
    BY <1>0, <2>1
<1>19. CASE Switch
  <2>1. PICK used \in 1 .. SliceLen : OsSchedTaskSwitch(used)
    BY <1>19 DEF Switch
  <2>2. /\ "SUSPEND" \in sched'.status[t] <=> "SUSPEND" \in sched.status[t]
        /\ Newborn(sched.status[t]) => Newborn(sched'.status[t])
    BY <2>1, SwitchStep
  <2>3. QED
    BY <2>2, MakingFacts DEF StaysDown
<1>20. QED
  BY <1>1, <1>2, <1>3, <1>4, <1>5, <1>6, <1>8, <1>9, <1>10, <1>11, <1>12, <1>13, <1>14,
     <1>15, <1>16, <1>17, <1>18, <1>19 DEF Next

-----------------------------------------------------------------------------
(* The creation of tasks.                                                  *)

\* A task that its creator has still to queue stays as OsNewTaskInit left it.
LEMMA MadeStays ==
  ASSUME IInv, Calls = {}, Next, NEW u \in Tasks,
         creating[u] = "made", creating'[u] = "made"
  PROVE  Newborn(sched'.status[block[u]])
<1> DEFINE t == block[u]
<1>1. InMaking(t) /\ t \in Tasks /\ t # Nobody
  BY CreationFacts DEF InMaking
<1>2. StaysDown(t)
  BY <1>1, StaysDownStep
<1>3. CASE ReadyNewTask /\ block[runTask] = t
  <2>1. runTask \in Tasks /\ runTask = u
    BY <1>1, <1>3, CreationFacts DEF ReadyNewTask, CreationAt
  <2>2. creating'[u] = "no"
    BY <1>3, <2>1, CreationFacts DEF ReadyNewTask, CreationGoesTo
  <2>3. QED
    BY <2>2
<1>4. QED
  BY <1>1, <1>2, <1>3 DEF StaysDown

\* One task goes on with its creation, or is deleted.
LEMMA CreationMoves ==
  ASSUME IInv, Calls = {}, Next, NEW r \in Tasks, NEW step \in Steps,
         NEW b \in Tasks \cup {Nobody},
         creating' = [creating EXCEPT ![r] = step], block' = [block EXCEPT ![r] = b],
         leaked' \in SUBSET Tasks,
         b # Nobody <=> step \in {"taken", "made"},
         \A u \in Tasks : u # r /\ b # Nobody => block[u] # b,
         b \notin leaked', \A u \in Tasks : u # r => block[u] \notin leaked',
         step = "made" => Newborn(sched'.status[b])
  PROVE  CreationFits(sched'.status, creating', block', leaked')
<1>1. /\ creating' \in [Tasks -> Steps] /\ block' \in [Tasks -> Tasks \cup {Nobody}]
      /\ creating'[r] = step /\ block'[r] = b
      /\ \A u \in Tasks : u # r => creating'[u] = creating[u] /\ block'[u] = block[u]
  BY CreationFacts
<1>2. \A u \in Tasks : block'[u] # Nobody <=> creating'[u] \in {"taken", "made"}
  BY <1>1, CreationFacts
<1>3. \A u, v \in Tasks : block'[u] = block'[v] /\ block'[u] # Nobody => u = v
  BY <1>1, CreationFacts
<1>4. \A u \in Tasks : block'[u] \notin leaked'
  BY <1>1
<1>5. ASSUME NEW u \in Tasks, creating'[u] = "made" PROVE Newborn(sched'.status[block'[u]])
  BY <1>1, <1>5, MadeStays
<1>6. QED
  BY <1>1, <1>2, <1>3, <1>4, <1>5 DEF CreationFits

\* No task goes on with its creation.
LEMMA CreationSame ==
  ASSUME IInv, Calls = {}, Next, UNCHANGED creation
  PROVE  CreationFits(sched'.status, creating', block', leaked')
<1>1. creating' = creating /\ block' = block /\ leaked' = leaked
  BY DEF creation
<1>2. ASSUME NEW u \in Tasks, creating[u] = "made" PROVE Newborn(sched'.status[block[u]])
  BY <1>1, <1>2, MadeStays
<1>3. QED
  BY <1>1, <1>2, CreationFacts DEF CreationFits

\* A creation that has no block yet goes on.
LEMMA CreationWaits ==
  ASSUME IInv, Calls = {}, Next, NEW r \in Tasks, NEW step \in {"no", "recycling", "recycled"},
         creating' = [creating EXCEPT ![r] = step], UNCHANGED <<block, leaked>>,
         creating[r] \in {"no", "recycling", "recycled"}
  PROVE  CreationFits(sched'.status, creating', block', leaked')
<1>1. block[r] = Nobody /\ Nobody \notin leaked
  BY CreationFacts, TcbFacts DEF Nobody
<1>2. block' = [block EXCEPT ![r] = Nobody]
  BY <1>1, CreationFacts, SameValue
<1>3. step \in Steps /\ step \notin {"taken", "made"}
  BY DEF Steps
<1>4. QED
  BY <1>1, <1>2, <1>3, CreationFacts, CreationMoves

\* A creation ends, or its creator.
LEMMA CreationEnds ==
  ASSUME IInv, Calls = {}, Next, NEW r \in Tasks,
         creating' = [creating EXCEPT ![r] = "no"], block' = [block EXCEPT ![r] = Nobody],
         leaked' = leaked \/ (leaked' = leaked \cup {block[r]} /\ creating[r] = "taken")
  PROVE  CreationFits(sched'.status, creating', block', leaked')
<1>1. Nobody \notin leaked /\ Nobody \notin Tasks
  BY CreationFacts, TcbFacts DEF Nobody
<1>2. CASE leaked' = leaked
  BY <1>1, <1>2, CreationFacts, CreationMoves DEF Steps
<1>3. CASE leaked' = leaked \cup {block[r]} /\ creating[r] = "taken"
  <2>1. block[r] \in Tasks /\ \A u \in Tasks : u # r => block[u] # block[r]
    BY <1>3, CreationFacts
  <2>2. /\ leaked' \in SUBSET Tasks /\ Nobody \notin leaked'
        /\ \A u \in Tasks : u # r => block[u] \notin leaked'
    BY <1>1, <1>3, <2>1, CreationFacts
  <2>3. QED
    BY <2>2, CreationMoves DEF Steps
<1>4. QED
  BY <1>2, <1>3

\* No two creators have the same block, and none has one that was leaked.
LEMMA CreationStep ==
  ASSUME IInv, Calls = {}, Next
  PROVE  CreationFits(sched'.status, creating', block', leaked')
<1>1. CASE UNCHANGED creation
  BY <1>1, CreationSame
<1>2. ASSUME NEW t \in Tasks, LOS_TaskDelete(t) PROVE CreationFits(sched'.status, creating', block', leaked')
  <2>1. /\ creating' = [creating EXCEPT ![t] = "no"]
        /\ block' = [block EXCEPT ![t] = Nobody]
        /\ leaked' = IF creating[t] = "taken" THEN leaked \cup {block[t]} ELSE leaked
    BY <1>2 DEF LOS_TaskDelete
  <2>2. QED
    BY <2>1, CreationEnds
<1>3. CASE OsRecycleFinishedTask
  <2>1. UNCHANGED <<block, leaked>>
    BY <1>3 DEF OsRecycleFinishedTask
  <2>2. CASE runTask = Idle
    BY <1>3, <2>1, <2>2, CreationSame DEF OsRecycleFinishedTask, creation
  <2>3. CASE runTask # Idle
    <3>1. /\ runTask \in Tasks /\ creating[runTask] \in {"no", "recycling"}
          /\ creating' = [creating EXCEPT ![runTask] = "recycling"]
      BY <1>3, <2>3 DEF OsRecycleFinishedTask, Recycles, InTask, CreationAt, CreationGoesTo
    <3>2. QED
      BY <2>1, <3>1, CreationWaits
  <2>4. QED
    BY <2>2, <2>3
<1>4. ASSUME NEW returns \in BOOLEAN, RecyclingEnds(returns) PROVE CreationFits(sched'.status, creating', block', leaked')
  <2> DEFINE step == IF returns THEN "no" ELSE "recycled"
  <2>1. /\ UNCHANGED <<block, leaked>>
        /\ runTask \in Tasks /\ creating[runTask] \in {"no", "recycling"}
        /\ creating' = [creating EXCEPT ![runTask] = step]
    BY <1>4 DEF RecyclingEnds, Recycles, InTask, CreationAt, CreationGoesTo
  <2>2. step \in {"no", "recycling", "recycled"}
    OBVIOUS
  <2> HIDE DEF step
  <2>3. QED
    BY <2>1, <2>2, CreationWaits
<1>5. CASE TakeFreeTCB
  <2>1. runTask \in Tasks /\ creating[runTask] = "recycled" /\ leaked' = leaked
    BY <1>5 DEF TakeFreeTCB, CreationAt
  <2>2. CASE freeList = <<>>
    <3>1. creating' = [creating EXCEPT ![runTask] = "no"] /\ UNCHANGED block
      BY <1>5, <2>2 DEF TakeFreeTCB, CreationGoesTo
    <3>2. QED
      BY <2>1, <3>1, CreationWaits
  <2>3. CASE freeList # <<>>
    <3> DEFINE t == Head(freeList)
    <3>1. /\ creating' = [creating EXCEPT ![runTask] = "taken"]
          /\ block' = [block EXCEPT ![runTask] = t]
      BY <1>5, <2>3 DEF TakeFreeTCB, CreationGoesTo
    <3>2. t \in Tasks /\ t \in Listed(freeList)
      BY <2>3, IInvFacts, FirstIsListed
    <3> HIDE DEF t
    <3>3. t \notin Away /\ "UNUSED" \in sched.status[t] /\ t # Nobody
      BY <3>2, IInvFacts, TcbFacts DEF BlocksFit, Nobody
    <3>4. t \notin leaked /\ \A u \in Taking : block[u] # t
      BY <3>3 DEF Away
    <3>5. ASSUME NEW u \in Tasks, block[u] = t PROVE FALSE
      <4>1. creating[u] = "made"
        BY <3>3, <3>4, <3>5, CreationFacts DEF Taking
      <4>2. Newborn(sched.status[t])
        BY <3>5, <4>1, CreationFacts
      <4>3. QED
        BY <3>3, <4>2 DEF Newborn
    <3>6. QED
      BY <2>1, <3>1, <3>2, <3>3, <3>4, <3>5, CreationFacts, CreationMoves DEF Steps
  <2>4. QED
    BY <2>2, <2>3
<1>6. ASSUME NEW p \in Priorities, NEW joinable \in BOOLEAN, NEW only \in BOOLEAN,
             OsNewTaskInit(p, joinable, only)
      PROVE  CreationFits(sched'.status, creating', block', leaked')
  <2> DEFINE b == block[runTask]
  <2>1. runTask \in Tasks /\ creating[runTask] = "taken" /\ leaked' = leaked
    BY <1>6 DEF OsNewTaskInit, CreationAt
  <2>2. /\ b \in Tasks /\ b # Nobody /\ b \notin leaked /\ b \in TCBs
        /\ \A u \in Tasks : u # runTask => block[u] # b
    BY <2>1, CreationFacts, TcbFacts DEF Nobody
  <2>3. CASE only
    <3>1. creating' = [creating EXCEPT ![runTask] = "no"] /\ block' = [block EXCEPT ![runTask] = Nobody]
      BY <1>6, <2>3 DEF OsNewTaskInit, CreationGoesTo
    <3>2. QED
      BY <2>1, <3>1, CreationEnds
  <2>4. CASE ~only
    <3>1. creating' = [creating EXCEPT ![runTask] = "made"] /\ block' = block
      BY <1>6, <2>4 DEF OsNewTaskInit, CreationGoesTo
    <3>2. block' = [block EXCEPT ![runTask] = b]
      BY <3>1, CreationFacts
    <3>3. Newborn(sched'.status[b])
      BY <1>6, <2>2, NewTaskInitStep, IInvFacts, RetagFacts
    <3> HIDE DEF b
    <3>4. QED
      BY <2>1, <2>2, <3>1, <3>2, <3>3, CreationFacts, CreationMoves DEF Steps
  <2>5. QED
    BY <2>3, <2>4
<1>7. CASE NewTaskFails \/ ReadyNewTask
  <2>1. /\ runTask \in Tasks /\ leaked' = leaked
        /\ creating' = [creating EXCEPT ![runTask] = "no"]
        /\ block' = [block EXCEPT ![runTask] = Nobody]
    BY <1>7 DEF NewTaskFails, ReadyNewTask, CreationAt, CreationGoesTo
  <2>2. QED
    BY <2>1, CreationEnds
<1>8. QED
  <2>1. \/ UNCHANGED creation
        \/ \E t \in Tasks : LOS_TaskDelete(t)
        \/ OsRecycleFinishedTask
        \/ \E returns \in BOOLEAN : RecyclingEnds(returns)
        \/ TakeFreeTCB
        \/ \E p \in Priorities, joinable, only \in BOOLEAN : OsNewTaskInit(p, joinable, only)
        \/ NewTaskFails \/ ReadyNewTask
    BY DEF Next, LOS_TaskSuspend, LOS_TaskResume, LOS_TaskPriSet, WakeWaiter, TimerExpires,
           JoinPends, JoinExited, JoinReclaims, LOS_TaskDetach, LOS_TaskDelay, OsSchedTaskWait,
           LOS_TaskYield, LOS_TaskLock, LOS_TaskUnlock, Switch, OsSchedTaskSwitch
  <2>2. QED
    BY <1>1, <1>2, <1>3, <1>4, <1>5, <1>6, <1>7, <2>1

\* Every action of the scheduler preserves the invariant.
LEMMA NextStep ==
  ASSUME IInv, Calls = {}, Next
  PROVE  IInv'
<1>1. Core'
  <2>1. CASE \E t \in Tasks : LOS_TaskSuspend(t)
    BY <2>1, SuspendStep
  <2>2. CASE \E t \in Tasks : LOS_TaskResume(t)
    BY <2>2, ResumeStep
  <2>3. CASE \E t \in Tasks, p \in Priorities : LOS_TaskPriSet(t, p)
    BY <2>3, PriSetStep
  <2>4. CASE WakeWaiter
    BY <2>4, WakeStep
  <2>5. CASE \E t \in Tasks : TimerExpires(t)
    BY <2>5, TimerStep
  <2>6. CASE \E t \in Tasks : LOS_TaskDelete(t)
    BY <2>6, DeleteStep
  <2>7. CASE \E t \in Tasks : JoinPends(t)
    BY <2>7, JoinPendsStep
  <2>8. CASE \E t \in Tasks : JoinExited(t)
    BY <2>8, JoinExitedStep
  <2>9. CASE JoinReclaims
    BY <2>9, JoinReclaimsStep
  <2>10. CASE \E t \in Tasks : LOS_TaskDetach(t)
    BY <2>10, DetachStep
  <2>11. CASE OsRecycleFinishedTask
    BY <2>11, RecycleStep
  <2>12. CASE \E returns \in BOOLEAN : RecyclingEnds(returns)
    BY <2>12, RecyclingEndsStep
  <2>13. CASE TakeFreeTCB
    BY <2>13, TakeStep
  <2>14. CASE \E p \in Priorities, joinable, only \in BOOLEAN : OsNewTaskInit(p, joinable, only)
    BY <2>14, NewTaskInitStep
  <2>15. CASE NewTaskFails
    BY <2>15, NewTaskFailsStep
  <2>16. CASE ReadyNewTask
    BY <2>16, ReadyStep
  <2>17. CASE LOS_TaskDelay
    BY <2>17, DelayStep
  <2>18. CASE \E timed \in BOOLEAN : OsSchedTaskWait(timed)
    BY <2>18, WaitStep
  <2>19. CASE LOS_TaskYield
    BY <2>19, YieldStep
  <2>20. CASE LOS_TaskLock
    BY <2>20, LockStep
  <2>21. CASE LOS_TaskUnlock
    BY <2>21, UnlockStep
  <2>22. CASE Switch
    BY <2>22, SwitchStep DEF Switch
  <2>23. QED
    BY <2>1, <2>2, <2>3, <2>4, <2>5, <2>6, <2>7, <2>8, <2>9, <2>10, <2>11, <2>12, <2>13, <2>14,
       <2>15, <2>16, <2>17, <2>18, <2>19, <2>20, <2>21, <2>22 DEF Next
<1>2. QED
  BY <1>1, CreationStep DEF IInv

\* A list without repetitions has as many tasks as nodes.
LEMMA DistinctCount ==
  ASSUME NEW S, NEW list \in Seq(S), Distinct(list)
  PROVE  Cardinality(Listed(list)) = Len(list)
<1> DEFINE n == Len(list)
<1>1. n \in Nat /\ DOMAIN list = 1 .. n
  OBVIOUS
<1> HIDE DEF n
<1>2. list \in [1 .. n -> Listed(list)]
  BY <1>1 DEF Listed
<1>3. list \in Bijection(1 .. n, Listed(list))
  <2>1. \A i, j \in 1 .. n : list[i] = list[j] => i = j
    BY <1>1 DEF Distinct
  <2>2. \A x \in Listed(list) : \E i \in 1 .. n : list[i] = x
    BY <1>1 DEF Listed
  <2>3. QED
    BY <1>2, <2>1, <2>2, Fun_IsBij
<1>4. ExistsBijection(1 .. n, Listed(list))
  BY <1>3, Fun_ExistsBij
<1>5. QED
  BY <1>1, <1>4, FS_CountingElements DEF n

-----------------------------------------------------------------------------
(* What the invariant says of the tasks.                                   *)

\* The parts of the invariant that make ReadyQueuesExact.
LEMMA QueuesExact ==
  ASSUME IInv
  PROVE  ReadyQueuesExact
<1>1. ASSUME NEW p \in Priorities
      PROVE  /\ Listed(sched.queue[p]) = {t \in Tasks : Is(t, "READY") /\ sched.priority[t] = p}
             /\ Cardinality(Listed(sched.queue[p])) = Len(sched.queue[p])
  <2>1. sched.queue[p] \in Seq(Tasks) /\ Distinct(sched.queue[p])
    BY IInvFacts, SchedFields DEF QueuesFit
  <2>2. Listed(sched.queue[p]) \subseteq Tasks
    BY <2>1, NobodyListed
  <2>3. \A t \in Tasks : t \in Listed(sched.queue[p]) <=>
          "READY" \in sched.status[t] /\ sched.priority[t] = p
    BY IInvFacts DEF QueuesFit
  <2>4. Listed(sched.queue[p]) = {t \in Tasks : Is(t, "READY") /\ sched.priority[t] = p}
    BY <2>2, <2>3 DEF Is
  <2>5. QED
    BY <2>1, <2>4, DistinctCount
<1>2. sched.bitmap = {p \in Priorities : sched.queue[p] # <<>>}
  <2>1. sched.bitmap \subseteq Priorities
    BY IInvFacts, SchedFields
  <2>2. QED
    BY <2>1, IInvFacts DEF QueuesFit
<1>3. \A t \in TCBs \ Listed(recycleList) : Is(t, "RUNNING") <=> t = runTask
  BY IInvFacts DEF RunFits, Is
<1>4. ~Is(runTask, "READY") /\ ~sched.asserted
  <2>1. "RUNNING" \in sched.status[runTask] /\ FlagsOK(sched.status[runTask])
    BY IInvFacts, RunningFacts DEF FlagsFit
  <2>2. "READY" \notin sched.status[runTask]
    BY <2>1 DEF FlagsOK
  <2>3. QED
    BY <2>2, IInvFacts DEF Is
<1>5. QED
  BY <1>1, <1>2, <1>3, <1>4 DEF ReadyQueuesExact

\* The parts of the invariant that make NoTaskIsLost.
LEMMA NobodyLost ==
  ASSUME IInv
  PROVE  NoTaskIsLost
<1> SUFFICES ASSUME NEW t \in Tasks, "UNUSED" \notin sched.status[t]
             PROVE  /\ sched.status[t] \cap {"READY", "RUNNING", "SUSPEND", "EXIT", "PEND", "DELAY"} # {}
                    /\ "PEND" \in sched.status[t] <=>
                         (\/ t \in Listed(sched.waitList)
                          \/ \E u \in Tasks : t \in Listed(sched.joinList[u]))
                    /\ t \in sched.sortLink <=>
                         /\ "PEND_TIME" \in sched.status[t] \/ "DELAY" \in sched.status[t]
                         /\ "RUNNING" \notin sched.status[t]
                    /\ ~("EXIT" \in sched.status[t] /\ "READY" \in sched.status[t])
  BY DEF NoTaskIsLost, Created, Is
<1>1. FlagsOK(sched.status[t]) /\ t \in TCBs
  BY IInvFacts
<1>2. /\ sched.status[t] \cap {"READY", "RUNNING", "SUSPEND", "EXIT", "PEND", "DELAY"} # {}
      /\ ~("EXIT" \in sched.status[t] /\ "READY" \in sched.status[t])
  BY <1>1 DEF FlagsOK
<1>3. /\ "PEND" \in sched.status[t] <=> \/ t \in Listed(sched.waitList)
                                        \/ \E u \in TCBs : t \in Listed(sched.joinList[u])
      /\ t \in sched.sortLink <=> /\ "PEND_TIME" \in sched.status[t] \/ "DELAY" \in sched.status[t]
                                  /\ "RUNNING" \notin sched.status[t]
  BY IInvFacts DEF ListsFit
<1>4. \A u \in TCBs : t \in Listed(sched.joinList[u]) => u \in Tasks
  BY IInvFacts DEF JoinsFit
<1>5. QED
  BY <1>2, <1>3, <1>4, TcbFacts

\* The parts of the invariant that make TCBsConserved.
LEMMA BlocksConserved ==
  ASSUME IInv
  PROVE  TCBsConserved
<1> DEFINE idle == freeList \o recycleList
<1>1. /\ freeList \in Seq(Tasks) /\ recycleList \in Seq(Tasks)
      /\ Distinct(freeList) /\ Distinct(recycleList)
      /\ \A x \in Tasks : ~(x \in Listed(freeList) /\ x \in Listed(recycleList))
  BY IInvFacts DEF BlocksFit
<1>2. /\ idle \in Seq(Tasks) /\ Distinct(idle)
      /\ Listed(idle) = Listed(freeList) \cup Listed(recycleList)
  BY <1>1, ConcatFacts
<1> HIDE DEF idle
<1>3. Cardinality(Listed(idle)) = Len(idle)
  BY <1>2, DistinctCount
<1>4. /\ \A t \in Tasks : "UNUSED" \in sched.status[t] <=> t \in Listed(idle) \cup Away
      /\ \A t \in Away : t \in Tasks /\ t \notin Listed(idle)
  <2>1. Away \subseteq Tasks
    BY CreationFacts DEF Away, Taking
  <2>2. QED
    BY <1>2, <2>1, IInvFacts DEF BlocksFit
<1>5. Listed(idle) \subseteq Tasks
  BY <1>2, NobodyListed
<1>6. ASSUME NEW t \in Listed(idle)
      PROVE  /\ "READY" \notin sched.status[t] /\ t \notin sched.sortLink
             /\ \A u \in Tasks : joining[u] # t /\ t \notin Listed(sched.joinList[u])
  <2>1. t \in Tasks /\ t \in TCBs /\ "UNUSED" \in sched.status[t] /\ FlagsOK(sched.status[t])
    BY <1>4, <1>5, IInvFacts
  <2>2. /\ "READY" \notin sched.status[t] /\ "PEND" \notin sched.status[t]
        /\ "PEND_TIME" \notin sched.status[t] /\ "DELAY" \notin sched.status[t]
    BY <2>1 DEF FlagsOK, Waits
  <2>3. t \notin sched.sortLink
    BY <2>1, <2>2, IInvFacts DEF ListsFit
  <2>4. \A u \in TCBs : t \notin Listed(sched.joinList[u])
    BY <2>1, <2>2, IInvFacts DEF ListsFit
  <2>5. \A u \in Tasks : joining[u] # t
    BY <2>1, IInvFacts, NobodyFacts DEF JoinsFit
  <2>6. QED
    BY <2>2, <2>3, <2>4, <2>5, TcbFacts
<1>7. TypeOK
  BY CreationFacts DEF IInv, Core, SchedTypeOK, TypeOK
<1>8. /\ \A u \in Taking : block[u] \notin Listed(idle) \cup leaked
      /\ \A u, v \in Tasks : block[u] = block[v] /\ block[u] # Nobody => u = v
      /\ leaked \cap Listed(idle) = {}
  BY <1>4, CreationFacts DEF Away, Taking
<1>9. \A t \in Tasks : Is(t, "UNUSED") <=>
         t \in Listed(idle) \cup leaked \cup {block[u] : u \in Taking}
  BY <1>4 DEF Away, Is
<1>10. QED
  BY <1>3, <1>6, <1>7, <1>8, <1>9 DEF TCBsConserved, Is, idle

-----------------------------------------------------------------------------
(* The theorems.  Calls = {} says that no caller resumes or suspends a task *)
(* that has exited, resumes the running task, joins a task twice, or       *)
(* resumes or deletes a task that LOS_TaskCreate has still to queue.       *)

\* The inductive invariant holds throughout every run of the scheduler, for any number
\* of tasks and priorities and any slice, if no caller makes one of the hazardous calls.
THEOREM InvariantHolds ==
  ASSUME Calls = {}
  PROVE  Spec => []IInv
<1>1. Init => IInv
  BY InitStep
<1>2. IInv /\ [Next]_vars => IInv'
  BY NextStep, StutterStep
<1>3. QED
  BY <1>1, <1>2, PTL DEF Spec

\* Queues, bitmap and flags agree whatever tasks and interrupt handlers do, in any
\* order, so OsGetTopTask never misses a ready task and never takes one that is not;
\* the LOS_ASSERT of OsSchedTaskEnQueue never fails.
THEOREM QueuesAreExact ==
  ASSUME Calls = {}
  PROVE  Spec => []ReadyQueuesExact
<1>1. IInv => ReadyQueuesExact
  BY QueuesExact
<1>2. QED
  BY <1>1, InvariantHolds, PTL

\* A task that does not run is queued, suspended, gone, in one list of waiting tasks or
\* on a timer that runs: a wake-up or a timeout between a pend and the switch that ends
\* it loses nothing.
THEOREM TasksAreNotLost ==
  ASSUME Calls = {}
  PROVE  Spec => []NoTaskIsLost
<1>1. IInv => NoTaskIsLost
  BY NobodyLost
<1>2. QED
  BY <1>1, InvariantHolds, PTL

\* A control block is never freed twice, nor while a task still waits for it, nor made
\* into two tasks, by LOS_TaskDelete, LOS_TaskJoin, OsRecycleFinishedTask and the sections
\* of LOS_TaskCreate in any order; a block is lost only with its creator.
THEOREM ControlBlocksAreConserved ==
  ASSUME Calls = {}
  PROVE  Spec => []TCBsConserved
<1>1. IInv => TCBsConserved
  BY BlocksConserved
<1>2. QED
  BY <1>1, InvariantHolds, PTL

\* With the scheduler open and no switch due, no ready task is more urgent than the
\* running one, but for one that LOS_TaskDelete has released from LOS_TaskJoin.
THEOREM TheMostUrgentRuns ==
  ASSUME Calls = {}
  PROVE  Spec => []MostUrgentRuns
<1>1. IInv => MostUrgentRuns
  BY DEF IInv, Core
<1>2. QED
  BY <1>1, InvariantHolds, PTL

\* A suspended task stays suspended whatever ends its wait, until LOS_TaskResume, its
\* deletion or the end of the LOS_TaskCreate that makes it.
THEOREM SuspensionsHold ==
  ASSUME Calls = {}
  PROVE  Spec => SuspensionHolds
<1> DEFINE Held == \A t \in Tasks : Is(t, "SUSPEND") =>
       \/ "SUSPEND" \in sched'.status[t]
       \/ "UNUSED" \in sched.status[t] \cup sched'.status[t]
       \/ LOS_TaskResume(t)
       \/ InMaking(t) /\ ReadyNewTask
<1>1. IInv /\ [Next]_vars => [Held]_vars
  <2>1. ASSUME IInv, Next PROVE Held
    BY <2>1, StaysDownStep DEF StaysDown, Is
  <2>2. QED
    BY <2>1
<1>2. QED
  BY <1>1, InvariantHolds, PTL DEF Spec, SuspensionHolds
=============================================================================
