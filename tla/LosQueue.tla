------------------------------ MODULE LosQueue ------------------------------
(***************************************************************************)
(* A message queue of the LiteOS-M kernel (kernel/src/los_queue.c): a ring *)
(* of cells, a count of the operations that may start in each direction,   *)
(* and lists of the tasks that wait to read, to write and for a mail box.  *)
(*                                                                         *)
(* A section under LOS_IntLock is one action.  A task that finds no message*)
(* (or no cell) sleeps in a list; the operation that wakes it hands it the *)
(* right to one message (or cell) by NOT raising the count, and the woken  *)
(* task moves the data later, when it runs.  Which ready task runs next is *)
(* left open.  Returns with an error change no state and are not steps.    *)
(***************************************************************************)
EXTENDS PendList, FiniteSets

CONSTANTS Tasks,      \* the tasks that use the queue
          NoTask,     \* nobody
          Values,     \* messages
          MaxLen,     \* the longest queue created
          Nothing,    \* no message
          Boxes,      \* the blocks of the mail pool
          NoBox,      \* NULL
          MailInLock  \* OsQueueMailAlloc is also called with the scheduler locked

ASSUME QueueAssumption ==
  /\ NoTask \notin Tasks /\ Nothing \notin Values /\ NoBox \notin Boxes
  /\ IsFiniteSet(Tasks) /\ IsFiniteSet(Boxes)
  /\ MaxLen \in Nat \ {0}
  /\ MailInLock \in BOOLEAN

VARIABLES queueLen,         \* 0 while queueState is OS_QUEUE_UNUSED
          queueHead, queueTail,
          cell,             \* the messages in the buffer, by position
          readWriteableCnt, \* operations that may start, per direction
          waitList,         \* readWriteList and memList
          taskStatus,       \* in the user's code, pending, woken, timed out
          op,               \* per task: the operation it sleeps in
          bufferAddr,       \* what the latest read copied to its caller
          mailPool,         \* free mail boxes
          mailHeld,         \* mail boxes in the callers' hands
          msg,              \* per task: the box handed over to it
          lost,             \* history: rights that died with a deleted task
          g_losTaskLock     \* the task that locked the scheduler, or NoTask

ring  == <<queueLen, queueHead, queueTail, cell, bufferAddr>>
mail  == <<mailPool, mailHeld, msg>>
vars  == <<ring, readWriteableCnt, waitList, taskStatus, op, mail, lost, g_losTaskLock>>

Dirs     == {"READ", "WRITE"}
TimeOuts == {"nowait", "ticks", "forever"}

\* OS_QUEUE_OPERATE_TYPE: the direction, the end and the message written.
Operations == {[dir |-> "READ", end |-> "HEAD", val |-> Nothing]} \cup
              [dir : {"WRITE"}, end : {"HEAD", "TAIL"}, val : Values]
MailOp     == [dir |-> "MAIL", end |-> "HEAD", val |-> Nothing]
Sleep      == [what : Operations \cup {MailOp}, forever : BOOLEAN]
NoSleep    == [what |-> MailOp, forever |-> FALSE]

TypeOK ==
  /\ queueLen \in 0 .. MaxLen
  /\ queueHead \in 0 .. MaxLen - 1 /\ queueTail \in 0 .. MaxLen - 1
  /\ cell \in [0 .. MaxLen - 1 -> Values \cup {Nothing}]
  /\ readWriteableCnt \in [Dirs -> 0 .. MaxLen]
  /\ waitList \in [Dirs \cup {"MAIL"} -> Seq(Tasks)]
  /\ taskStatus \in [Tasks -> {"user", "pend", "woken", "timeout"}]
  /\ op \in [Tasks -> Sleep]
  /\ bufferAddr \in Values \cup {Nothing}
  /\ mailPool \in SUBSET Boxes /\ mailHeld \in SUBSET Boxes
  /\ msg \in [Tasks -> Boxes \cup {NoBox}]
  /\ lost \in [Dirs \cup {"MAIL"} -> Nat]
  /\ g_losTaskLock \in Tasks \cup {NoTask}

\* OsQueueInit has run, the mail pool is full, no queue is created.
Init ==
  /\ queueLen = 0 /\ queueHead = 0 /\ queueTail = 0
  /\ cell = [p \in 0 .. MaxLen - 1 |-> Nothing]
  /\ readWriteableCnt = [d \in Dirs |-> 0]
  /\ waitList = [d \in Dirs \cup {"MAIL"} |-> <<>>]
  /\ taskStatus = [t \in Tasks |-> "user"]
  /\ op = [t \in Tasks |-> NoSleep]
  /\ bufferAddr = Nothing
  /\ mailPool = Boxes /\ mailHeld = {}
  /\ msg = [t \in Tasks |-> NoBox]
  /\ lost = [d \in Dirs \cup {"MAIL"} |-> 0]
  /\ g_losTaskLock = NoTask

\* A task executes only while no other task holds the scheduler lock.
CanRun(t) == g_losTaskLock \in {t, NoTask}

Other(dir)     == IF dir = "READ" THEN "WRITE" ELSE "READ"
Woken(dir)     == {t \in Tasks : taskStatus[t] = "woken" /\ op[t].what.dir = dir}

-----------------------------------------------------------------------------
LOS_QueueCreate(len) ==
  /\ queueLen = 0
  /\ queueLen' = len
  /\ queueHead' = 0 /\ queueTail' = 0
  /\ readWriteableCnt' = [d \in Dirs |-> IF d = "WRITE" THEN len ELSE 0]
  /\ waitList' = [d \in Dirs \cup {"MAIL"} |-> <<>>]
  /\ cell' = [p \in 0 .. MaxLen - 1 |-> Nothing]
  /\ UNCHANGED <<taskStatus, op, bufferAddr, mail, lost, g_losTaskLock>>

\* Mutant: the sum of the counts is not compared with the length.
DeleteIgnoresCounts == \A d \in Dirs \cup {"MAIL"} : waitList[d] = <<>>

\* The checks of LOS_QueueDelete.
Deletable ==
  /\ \A d \in Dirs \cup {"MAIL"} : waitList[d] = <<>>
  /\ readWriteableCnt["WRITE"] + readWriteableCnt["READ"] = queueLen

LOS_QueueDelete ==
  /\ queueLen # 0
  /\ Deletable
  /\ queueLen' = 0
  /\ UNCHANGED <<queueHead, queueTail, cell, bufferAddr, readWriteableCnt,
                 waitList, taskStatus, op, mail, lost, g_losTaskLock>>

-----------------------------------------------------------------------------
Forward(p) == IF p + 1 = queueLen THEN 0 ELSE p + 1

Backward(p) == IF p = 0 THEN queueLen - 1 ELSE p - 1

\* The cell an operation uses, and the index it moves.
ReadCell ==
  /\ bufferAddr' = cell[queueHead]
  /\ queueHead' = Forward(queueHead)
  /\ UNCHANGED <<queueTail, cell>>

WriteCell(p, head, tail, val) ==
  /\ cell' = [cell EXCEPT ![p] = val]
  /\ queueHead' = head /\ queueTail' = tail
  /\ UNCHANGED bufferAddr

\* Mutant: a write at the head uses the position and then moves it.
MovesAfterWrite(val) == WriteCell(queueHead, Backward(queueHead), queueTail, val)

WriteHead(val) == WriteCell(Backward(queueHead), Backward(queueHead), queueTail, val)
WriteTail(val) == WriteCell(queueTail, queueHead, Forward(queueTail), val)

\* Callers' buffers are as large as the messages, which are copied whole.
OsQueueBufferOperate(o) ==
  \/ o.dir = "READ" /\ ReadCell
  \/ o.dir = "WRITE" /\ o.end = "HEAD" /\ WriteHead(o.val)
  \/ o.dir = "WRITE" /\ o.end = "TAIL" /\ WriteTail(o.val)

\* One more operation may start in direction d.
Count(cnt, d, status) ==
  /\ readWriteableCnt' = [cnt EXCEPT ![d] = @ + 1]
  /\ taskStatus' = status
  /\ UNCHANGED waitList

\* OsSchedTaskWake of t, which waits in direction d.
Wake(cnt, d, status, t) ==
  /\ readWriteableCnt' = cnt
  /\ taskStatus' = [status EXCEPT ![t] = "woken"]
  /\ waitList' = [waitList EXCEPT ![d] = LOS_ListDelete(@, t)]

\* Mutant: the count is raised although the right went to a waiting task.
WakesAndCounts(cnt, d, status) ==
  IF waitList[d] = <<>> THEN Count(cnt, d, status)
  ELSE Wake([cnt EXCEPT ![d] = @ + 1], d, status, Head(waitList[d]))

\* Mutant: the task that came last is woken first.
WakesLast(cnt, d, status) ==
  IF waitList[d] = <<>> THEN Count(cnt, d, status)
  ELSE Wake(cnt, d, status, waitList[d][Len(waitList[d])])

\* The end of OsQueueOperate: the message (or cell) it leaves goes to the first
\* task that waits for one, and to the count of direction d only if none does.
HandOver(cnt, d, status) ==
  IF waitList[d] = <<>> THEN Count(cnt, d, status)
  ELSE Wake(cnt, d, status, Head(waitList[d]))

\* OsQueueOperate that need not wait, from a task or an interrupt handler.
OperateAtOnce(o) ==
  /\ queueLen # 0
  /\ readWriteableCnt[o.dir] > 0
  /\ OsQueueBufferOperate(o)
  /\ HandOver([readWriteableCnt EXCEPT ![o.dir] = @ - 1], Other(o.dir), taskStatus)
  /\ UNCHANGED <<queueLen, op, mail, lost, g_losTaskLock>>

\* OsSchedTaskWait: task t goes to sleep in the list of direction d.
Pend(t, o, timeOut) ==
  /\ op' = [op EXCEPT ![t] = [what |-> o, forever |-> timeOut = "forever"]]
  /\ waitList' = [waitList EXCEPT ![o.dir] = Append(@, t)]

\* OsQueueOperate that must wait: up to the switch to another task.  It fails
\* with PEND_IN_LOCK while the scheduler is locked.
OperatePends(t, o, timeOut) ==
  /\ queueLen # 0
  /\ taskStatus[t] = "user"
  /\ timeOut # "nowait"
  /\ readWriteableCnt[o.dir] = 0
  /\ g_losTaskLock = NoTask
  /\ Pend(t, o, timeOut)
  /\ taskStatus' = [taskStatus EXCEPT ![t] = "pend"]
  /\ UNCHANGED <<ring, readWriteableCnt, mail, lost, g_losTaskLock>>

\* The rest of OsQueueOperate, once the scheduler switches back to the task.
OperateResumes(t) ==
  /\ CanRun(t)
  /\ op[t].what.dir \in Dirs
  /\ \/ /\ taskStatus[t] = "timeout"
        /\ taskStatus' = [taskStatus EXCEPT ![t] = "user"]
        /\ UNCHANGED <<ring, readWriteableCnt, waitList>>
     \/ /\ taskStatus[t] = "woken"
        /\ OsQueueBufferOperate(op[t].what)
        /\ HandOver(readWriteableCnt, Other(op[t].what.dir),
                    [taskStatus EXCEPT ![t] = "user"])
        /\ UNCHANGED queueLen
  /\ op' = [op EXCEPT ![t] = NoSleep]
  /\ UNCHANGED <<mail, lost, g_losTaskLock>>

\* Mutant: a task that timed out stays in the list of the queue.
StaysListed(t) == waitList

\* The lists without task t.
Unlisted(t) == [waitList EXCEPT ![op[t].what.dir] = LOS_ListDelete(@, t)]

\* OsSchedWakePendTimeTask, from the tick handler.
PendTimeout(t) ==
  /\ taskStatus[t] = "pend" /\ ~op[t].forever
  /\ taskStatus' = [taskStatus EXCEPT ![t] = "timeout"]
  /\ waitList' = Unlisted(t)
  /\ UNCHANGED <<ring, readWriteableCnt, op, mail, lost, g_losTaskLock>>

-----------------------------------------------------------------------------
\* OsQueueMailAlloc from the pool (LOS_MemboxAlloc returns any free block).
MailAllocAtOnce(b) ==
  /\ queueLen # 0
  /\ b \in mailPool
  /\ mailPool' = mailPool \ {b}
  /\ mailHeld' = mailHeld \cup {b}
  /\ UNCHANGED <<ring, readWriteableCnt, waitList, taskStatus, op, msg, lost, g_losTaskLock>>

\* OsQueueMailAlloc with an empty pool does not look at the scheduler lock: a
\* task that holds it is listed, but LOS_Schedule comes straight back to it.
MailAllocPends(t, timeOut) ==
  /\ queueLen # 0
  /\ taskStatus[t] = "user"
  /\ timeOut # "nowait"
  /\ mailPool = {}
  /\ CanRun(t)
  /\ g_losTaskLock = NoTask \/ MailInLock
  /\ Pend(t, MailOp, timeOut)
  /\ taskStatus' = [taskStatus EXCEPT
                      ![t] = IF g_losTaskLock = NoTask THEN "pend" ELSE "woken"]
  /\ UNCHANGED <<ring, readWriteableCnt, mail, lost, g_losTaskLock>>

\* The rest of OsQueueMailAlloc.
MailAllocResumes(t) ==
  /\ CanRun(t)
  /\ op[t].what = MailOp
  /\ taskStatus[t] \in {"woken", "timeout"}
  /\ IF taskStatus[t] = "woken"
     THEN /\ mailHeld' = mailHeld \cup ({msg[t]} \ {NoBox})
          /\ msg' = [msg EXCEPT ![t] = NoBox]
     ELSE UNCHANGED <<mailHeld, msg>>
  /\ taskStatus' = [taskStatus EXCEPT ![t] = "user"]
  /\ op' = [op EXCEPT ![t] = NoSleep]
  /\ UNCHANGED <<ring, readWriteableCnt, waitList, mailPool, lost, g_losTaskLock>>

\* Mutant: the box goes back to the pool although it was handed over.
FreesTwice(b) == mailPool \cup {b}

PoolAfterFree(b) == IF waitList["MAIL"] = <<>> THEN mailPool \cup {b} ELSE mailPool

\* OsQueueMailFree hands the box to the first waiting task, if there is one.
OsQueueMailFree(b) ==
  /\ queueLen # 0
  /\ b \in mailHeld
  /\ mailHeld' = mailHeld \ {b}
  /\ mailPool' = PoolAfterFree(b)
  /\ IF waitList["MAIL"] = <<>>
     THEN UNCHANGED <<msg, readWriteableCnt, taskStatus, waitList>>
     ELSE /\ msg' = [msg EXCEPT ![Head(waitList["MAIL"])] = b]
          /\ Wake(readWriteableCnt, "MAIL", taskStatus, Head(waitList["MAIL"]))
  /\ UNCHANGED <<ring, op, lost, g_losTaskLock>>

-----------------------------------------------------------------------------
\* LOS_TaskDelete of a task inside a queue operation (OsSchedTaskExit takes it
\* off its list); the control block is used again for a new task.  What was
\* handed to a woken task is not handed back.
LOS_TaskDelete(t) ==
  /\ taskStatus[t] # "user"
  /\ t # g_losTaskLock
  /\ waitList' = IF taskStatus[t] = "pend" THEN Unlisted(t) ELSE waitList
  /\ lost' = IF taskStatus[t] = "woken"
             THEN [lost EXCEPT ![op[t].what.dir] = @ + 1]
             ELSE lost
  /\ taskStatus' = [taskStatus EXCEPT ![t] = "user"]
  /\ op' = [op EXCEPT ![t] = NoSleep]
  /\ msg' = [msg EXCEPT ![t] = NoBox]
  /\ UNCHANGED <<ring, readWriteableCnt, mailPool, mailHeld, g_losTaskLock>>

LOS_TaskLock(t) ==
  /\ taskStatus[t] = "user"
  /\ g_losTaskLock = NoTask
  /\ g_losTaskLock' = t
  /\ UNCHANGED <<ring, readWriteableCnt, waitList, taskStatus, op, mail, lost>>

LOS_TaskUnlock ==
  /\ g_losTaskLock # NoTask
  /\ taskStatus[g_losTaskLock] = "user"
  /\ g_losTaskLock' = NoTask
  /\ UNCHANGED <<ring, readWriteableCnt, waitList, taskStatus, op, mail, lost>>

-----------------------------------------------------------------------------
Next ==
  \/ \E len \in 1 .. MaxLen : LOS_QueueCreate(len)
  \/ LOS_QueueDelete
  \/ \E o \in Operations : OperateAtOnce(o)
  \/ \E t \in Tasks, o \in Operations, timeOut \in TimeOuts : OperatePends(t, o, timeOut)
  \/ \E t \in Tasks : OperateResumes(t)
  \/ \E t \in Tasks : PendTimeout(t)
  \/ \E b \in Boxes : MailAllocAtOnce(b)
  \/ \E t \in Tasks, timeOut \in TimeOuts : MailAllocPends(t, timeOut)
  \/ \E t \in Tasks : MailAllocResumes(t)
  \/ \E b \in Boxes : OsQueueMailFree(b)
  \/ \E t \in Tasks : LOS_TaskDelete(t)
  \/ \E t \in Tasks : LOS_TaskLock(t)
  \/ LOS_TaskUnlock

Spec == Init /\ [][Next]_vars

-----------------------------------------------------------------------------
\* Messages and cells are conserved: every cell of a queue is counted once, as
\* a message or a cell on offer, as a right a woken task has not used yet, or
\* as one that died with a deleted task.  (All variables keep their types.)
Unread == readWriteableCnt["READ"] + Cardinality(Woken("READ")) + lost["READ"]
Free   == readWriteableCnt["WRITE"] + Cardinality(Woken("WRITE")) + lost["WRITE"]

CellsConserved == TypeOK /\ (queueLen # 0 => Unread + Free = queueLen)

\* Nobody sleeps for what is on offer: while a task waits to read (to write),
\* no message (cell) is counted as available, so that a later caller cannot
\* overtake it; and exactly the sleeping tasks are listed.
NobodySleepsOnOffer ==
  /\ \A d \in Dirs : waitList[d] # <<>> => readWriteableCnt[d] = 0
  /\ waitList["MAIL"] # <<>> => mailPool = {}
  /\ \A t \in Tasks, d \in Dirs \cup {"MAIL"} :
       t \in Listed(waitList[d]) <=> taskStatus[t] = "pend" /\ op[t].what.dir = d

\* LOS_QueueDelete never takes the buffer away under a woken task that still
\* has its message to move, nor leaves a task asleep on a deleted queue.
NoOperationOnDeleted ==
  queueLen = 0 => \A t \in Tasks :
    /\ taskStatus[t] # "pend"
    /\ taskStatus[t] = "woken" => op[t].what = MailOp

\* A reader is not overtaken for ever: as long as messages keep being written,
\* a task that sleeps in a read is handed one, times out or is deleted.
ReadersAreServed ==
  \A t \in Tasks :
    []<><<Unread' > Unread>>_vars =>
      ((taskStatus[t] = "pend" /\ op[t].what.dir = "READ") ~> taskStatus[t] # "pend")

\* Every mail box is in the pool, with one caller or on its way to one woken
\* task, unless it died with a deleted task; and a task that comes back from
\* OsQueueMailAlloc without a timeout finds its box in runTsk->msg.
BoxesConserved ==
  /\ mailPool \cap mailHeld = {}
  /\ \A t \in Tasks : msg[t] # NoBox =>
       /\ taskStatus[t] = "woken" /\ op[t].what = MailOp
       /\ msg[t] \notin mailPool \cup mailHeld
       /\ \A u \in Tasks \ {t} : msg[u] # msg[t]
  /\ \A t \in Woken("MAIL") : msg[t] # NoBox
  /\ Cardinality(mailPool \cup mailHeld) + Cardinality(Woken("MAIL")) + lost["MAIL"]
       = Cardinality(Boxes)

\* The messages of the queue, the next to be read first: a queue implements a
\* bounded queue whose operations are single steps, whatever the order in which
\* tasks are woken, run, time out, are deleted or delete the queue.
Place(i) ==
  IF queueHead + i < queueLen THEN queueHead + i ELSE queueHead + i - queueLen

Content ==
  IF queueLen = 0 THEN <<>> ELSE [i \in 1 .. Unread |-> cell[Place(i - 1)]]

Deque == INSTANCE BoundedDeque
           WITH capacity <- queueLen, content <- Content, read <- bufferAddr

ImplementsDeque == Deque!Spec
=============================================================================
