--------------------------- MODULE LosQueueProofs ---------------------------
(***************************************************************************)
(* Proofs about LosQueue for any finite sets of tasks and mail boxes, any  *)
(* messages and any length, for callers that do not allocate mail with the *)
(* scheduler locked.  The checked invariants are made inductive by three   *)
(* facts: no task is listed twice, no right of a deleted queue is lost, and*)
(* the tail of the ring is as far from its head as there are messages.     *)
(***************************************************************************)
EXTENDS LosQueue, PendListProofs

AllDirs  == Dirs \cup {"MAIL"}
Statuses == {"user", "pend", "woken", "timeout"}

\* The messages (cells) of one direction, whoever has the right to them.
Rights(d) == readWriteableCnt[d] + Cardinality(Woken(d)) + lost[d]

\* The tasks that are woken in status and sleep in an operation of direction d.
StillWoken(status, d) == {u \in Tasks : status[u] = "woken" /\ op[u].what.dir = d}

ListsAreSound == \A d \in AllDirs : Distinct(waitList[d])

DeletedIsSettled == queueLen = 0 => lost["READ"] = 0 /\ lost["WRITE"] = 0

RingIsSound ==
  queueLen # 0 =>
    /\ queueHead < queueLen /\ queueTail < queueLen
    /\ queueTail = Place(Rights("READ"))

IInv ==
  /\ CellsConserved
  /\ NobodySleepsOnOffer
  /\ NoOperationOnDeleted
  /\ BoxesConserved
  /\ ListsAreSound
  /\ DeletedIsSettled
  /\ RingIsSound

-----------------------------------------------------------------------------
\* What a task sleeps in tells the list it is in.
LEMMA OpFacts ==
  ASSUME NEW s \in Sleep
  PROVE  /\ s.what.dir \in AllDirs
         /\ s.what.dir = "MAIL" <=> s.what = MailOp
         /\ s.what.dir \in Dirs => s.what \in Operations
<1>1. s.what \in Operations \cup {MailOp}
  BY DEF Sleep
<1>2. \A o \in Operations : o.dir \in Dirs
  BY DEF Operations, Dirs
<1>3. MailOp.dir = "MAIL"
  BY DEF MailOp
<1>4. "MAIL" \notin Dirs
  BY DEF Dirs
<1>5. QED
  BY <1>1, <1>2, <1>3, <1>4 DEF AllDirs

\* The members of OS_QUEUE_OPERATE_TYPE.
LEMMA OperationFacts ==
  ASSUME NEW o \in Operations
  PROVE  /\ o.dir \in Dirs /\ Other(o.dir) \in Dirs /\ Other(o.dir) # o.dir
         /\ o.dir = "WRITE" => o.val \in Values
BY DEF Operations, Dirs, Other

\* A task outside a queue operation.
LEMMA NoSleepFacts == NoSleep \in Sleep /\ NoSleep.what = MailOp
BY DEF NoSleep, Sleep

\* The tasks that are counted are finitely many.
LEMMA WokenFacts ==
  ASSUME NEW d
  PROVE  /\ IsFiniteSet(Woken(d)) /\ Cardinality(Woken(d)) \in Nat
         /\ IsFiniteSet(Woken(d)') /\ Cardinality(Woken(d)') \in Nat
<1>1. Woken(d) \in SUBSET Tasks /\ Woken(d)' \in SUBSET Tasks
  BY DEF Woken
<1>2. IsFiniteSet(Woken(d)) /\ IsFiniteSet(Woken(d)')
  BY <1>1, FS_Subset, QueueAssumption
<1>3. QED
  BY <1>2, FS_CardinalityType

\* The counters of a direction, and their sum.
LEMMA RightsFacts ==
  ASSUME TypeOK, NEW d \in Dirs
  PROVE  /\ readWriteableCnt[d] \in Nat /\ lost[d] \in Nat
         /\ Rights(d) \in Nat
         /\ Rights(d) >= readWriteableCnt[d] /\ Rights(d) >= Cardinality(Woken(d))
         /\ Rights(d) >= lost[d]
<1>1. readWriteableCnt[d] \in Nat /\ lost[d] \in Nat
  BY QueueAssumption DEF TypeOK
<1>2. QED
  BY <1>1, WokenFacts DEF Rights

\* CellsConserved, in terms of the two sums.
LEMMA ConservedFacts ==
  /\ Unread = Rights("READ") /\ Free = Rights("WRITE")
  /\ CellsConserved <=>
       TypeOK /\ (queueLen # 0 => Rights("READ") + Rights("WRITE") = queueLen)
BY DEF CellsConserved, Unread, Free, Rights

-----------------------------------------------------------------------------
\* One more right in direction d, counted or on its way to the first task that slept
\* for it, if before that the counts were cnt and the tasks' states status.
HandedOver(cnt, d, status) ==
  /\ readWriteableCnt' \in [Dirs -> Nat]
  /\ \A e \in Dirs \ {d} : readWriteableCnt'[e] = cnt[e]
  /\ waitList' \in [AllDirs -> Seq(Tasks)] /\ ListsAreSound'
  /\ taskStatus' \in [Tasks -> Statuses]
  /\ \A u \in Tasks, e \in AllDirs :
       u \in Listed(waitList'[e]) <=> taskStatus'[u] = "pend" /\ op'[u].what.dir = e
  /\ \A e \in AllDirs : waitList'[e] # <<>> => waitList[e] # <<>>
  /\ waitList'[d] # <<>> => readWriteableCnt'[d] = cnt[d]
  /\ \A u \in Tasks : status[u] = "woken" => taskStatus'[u] = "woken"
  /\ \A e \in AllDirs \ {d} :
       Woken(e)' = StillWoken(status, e)
  /\ readWriteableCnt'[d] + Cardinality(Woken(d)') =
       cnt[d] + Cardinality(StillWoken(status, d)) + 1

\* HandOver, whose caller has already taken its own right off the count cnt, or
\* left the woken state in status: one more right in direction d, counted or on
\* its way to the first task that slept for it.
LEMMA HandOverFacts ==
  ASSUME IInv, NEW d \in Dirs, NEW cnt \in [Dirs -> Nat],
         NEW status \in [Tasks -> Statuses],
         \A u \in Tasks : status[u] = "pend" <=> taskStatus[u] = "pend",
         \A u \in Tasks : status[u] # "user" => op'[u] = op[u],
         HandOver(cnt, d, status)
  PROVE  HandedOver(cnt, d, status)
<1> DEFINE W(e) == StillWoken(status, e)
<1>1. TypeOK /\ NobodySleepsOnOffer /\ ListsAreSound
  BY DEF IInv, CellsConserved
<1>2. /\ waitList \in [AllDirs -> Seq(Tasks)] /\ d \in AllDirs
      /\ \A u \in Tasks, e \in AllDirs :
           u \in Listed(waitList[e]) <=> taskStatus[u] = "pend" /\ op[u].what.dir = e
  BY <1>1 DEF TypeOK, AllDirs, NobodySleepsOnOffer
<1>3. \A e : IsFiniteSet(W(e)) /\ Cardinality(W(e)) \in Nat
  <2>1. \A e : W(e) \in SUBSET Tasks
    BY DEF StillWoken
  <2>2. \A e : IsFiniteSet(W(e))
    BY <2>1, FS_Subset, QueueAssumption
  <2>3. QED
    BY <2>2, FS_CardinalityType
<1>4. CASE waitList[d] = <<>>
  <2>1. /\ readWriteableCnt' = [cnt EXCEPT ![d] = @ + 1]
        /\ taskStatus' = status /\ waitList' = waitList
    BY <1>4 DEF HandOver, Count
  <2>2. /\ readWriteableCnt' \in [Dirs -> Nat] /\ readWriteableCnt'[d] = cnt[d] + 1
        /\ \A e \in Dirs \ {d} : readWriteableCnt'[e] = cnt[e]
        /\ cnt[d] \in Nat
    BY <2>1
  <2>3. \A e : Woken(e)' = W(e)
    BY <2>1 DEF Woken, StillWoken
  <2>4. readWriteableCnt'[d] + Cardinality(Woken(d)') = cnt[d] + Cardinality(W(d)) + 1
    <3>1. Cardinality(Woken(d)') = Cardinality(W(d)) /\ Cardinality(W(d)) \in Nat
      BY <1>3, <2>3
    <3> HIDE DEF W
    <3>2. QED
      BY ONLY <2>2, <3>1
  <2>5. \A u \in Tasks, e \in AllDirs :
          u \in Listed(waitList'[e]) <=> taskStatus'[u] = "pend" /\ op'[u].what.dir = e
    <3> SUFFICES ASSUME NEW u \in Tasks, NEW e \in AllDirs
                 PROVE  u \in Listed(waitList[e]) <=> status[u] = "pend" /\ op'[u].what.dir = e
      BY <2>1
    <3>1. status[u] = "pend" => op'[u] = op[u]
      OBVIOUS
    <3>2. QED
      BY <1>2, <3>1
  <2>6. ListsAreSound'
    BY <1>1, <2>1 DEF ListsAreSound
  <2>7. QED
    BY <1>2, <1>4, <2>1, <2>2, <2>3, <2>4, <2>5, <2>6 DEF HandedOver
<1>5. CASE waitList[d] # <<>>
  <2> DEFINE h == Head(waitList[d])
  <2>1. /\ readWriteableCnt' = cnt
        /\ taskStatus' = [status EXCEPT ![h] = "woken"]
        /\ waitList' = [waitList EXCEPT ![d] = LOS_ListDelete(@, h)]
    BY <1>5 DEF HandOver, Wake
  <2>2. waitList[d] \in Seq(Tasks) /\ Distinct(waitList[d])
    BY <1>1, <1>2 DEF ListsAreSound
  <2>3. h \in Tasks /\ h \in Listed(waitList[d])
    BY <1>5, <2>2, FirstIsListed
  <2> HIDE DEF h
  <2>4. /\ LOS_ListDelete(waitList[d], h) \in Seq(Tasks)
        /\ Distinct(LOS_ListDelete(waitList[d], h))
        /\ Listed(LOS_ListDelete(waitList[d], h)) = Listed(waitList[d]) \ {h}
    BY <2>2, <2>3, ListDelete
  <2>5. status[h] = "pend" /\ op[h].what.dir = d /\ op'[h] = op[h]
    BY <1>2, <2>3
  <2>6. /\ waitList'[d] = LOS_ListDelete(waitList[d], h)
        /\ \A e \in AllDirs \ {d} : waitList'[e] = waitList[e]
        /\ taskStatus'[h] = "woken" /\ \A u \in Tasks \ {h} : taskStatus'[u] = status[u]
    BY <1>2, <2>1, <2>3
  <2>7. waitList' \in [AllDirs -> Seq(Tasks)] /\ taskStatus' \in [Tasks -> Statuses]
    BY <1>2, <2>1, <2>3, <2>4 DEF Statuses
  <2>8. ListsAreSound'
    BY <1>1, <2>4, <2>6 DEF ListsAreSound
  <2>9. Woken(d)' = W(d) \cup {h} /\ h \notin W(d)
    BY <2>3, <2>5, <2>6 DEF Woken, StillWoken
  <2>10. \A e \in AllDirs \ {d} : Woken(e)' = W(e)
    BY <2>3, <2>5, <2>6 DEF Woken, StillWoken
  <2>11. readWriteableCnt'[d] + Cardinality(Woken(d)') = cnt[d] + Cardinality(W(d)) + 1
    <3>1. Cardinality(Woken(d)') = Cardinality(W(d)) + 1
      BY <1>3, <2>9, OneMoreOrLess
    <3>2. Cardinality(W(d)) \in Nat /\ cnt[d] \in Nat
      BY <1>3
    <3> HIDE DEF W
    <3>3. QED
      BY <2>1, <3>1, <3>2
  <2>12. ASSUME NEW u \in Tasks, NEW e \in AllDirs
         PROVE  u \in Listed(waitList'[e]) <=> taskStatus'[u] = "pend" /\ op'[u].what.dir = e
    <3>1. CASE u = h
      BY <1>2, <2>4, <2>5, <2>6, <3>1
    <3>2. CASE u # h
      <4>1. u \in Listed(waitList'[e]) <=> u \in Listed(waitList[e])
        BY <2>4, <2>6, <3>2
      <4>2. taskStatus'[u] = "pend" <=> taskStatus[u] = "pend"
        BY <2>6, <3>2
      <4>3. taskStatus'[u] = "pend" => op'[u] = op[u]
        BY <2>6, <3>2
      <4>4. QED
        BY <1>2, <4>1, <4>2, <4>3
    <3>3. QED
      BY <3>1, <3>2
  <2>13. \A e \in AllDirs : waitList'[e] # <<>> => waitList[e] # <<>>
    BY <1>5, <2>6
  <2>14. \A u \in Tasks : status[u] = "woken" => taskStatus'[u] = "woken"
    BY <2>6
  <2>15. QED
    BY <2>1, <2>7, <2>8, <2>10, <2>11, <2>12, <2>13, <2>14 DEF HandedOver
<1>6. QED
  BY <1>4, <1>5

-----------------------------------------------------------------------------
\* A step after which the same woken tasks have a mail box to come for.
LEMMA MailSame ==
  ASSUME IInv, op' \in [Tasks -> Sleep], Woken("MAIL")' = Woken("MAIL"),
         UNCHANGED mail, lost'["MAIL"] = lost["MAIL"]
  PROVE  BoxesConserved'
<1>1. TypeOK /\ BoxesConserved /\ UNCHANGED <<mailPool, mailHeld, msg>>
  BY DEF IInv, CellsConserved, mail
<1>2. ASSUME NEW t \in Tasks, msg[t] # NoBox
      PROVE  taskStatus'[t] = "woken" /\ op'[t].what = MailOp
  <2>1. t \in Woken("MAIL")
    BY <1>1, <1>2 DEF BoxesConserved, Woken, MailOp
  <2>2. taskStatus'[t] = "woken" /\ op'[t].what.dir = "MAIL"
    BY <2>1 DEF Woken
  <2>3. QED
    BY <2>2, OpFacts
<1>3. QED
  BY <1>1, <1>2 DEF BoxesConserved

\* A step that neither adds nor uses a right.
LEMMA SameRights ==
  ASSUME NEW d, readWriteableCnt'[d] = readWriteableCnt[d], lost'[d] = lost[d],
         Woken(d)' = Woken(d)
  PROVE  Rights(d)' = Rights(d)
BY DEF Rights

\* A step that leaves the ring alone.
LEMMA SameRing ==
  ASSUME IInv, UNCHANGED ring,
         \A d \in Dirs : Rights(d)' = Rights(d)
  PROVE  /\ RingIsSound'
         /\ TypeOK' => CellsConserved'
<1>1. Rights("READ")' = Rights("READ") /\ Rights("WRITE")' = Rights("WRITE")
  BY DEF Dirs
<1>2. RingIsSound'
  BY <1>1 DEF IInv, ring, RingIsSound, Place
<1>3. queueLen' # 0 => Rights("READ")' + Rights("WRITE")' = queueLen'
  BY <1>1, ConservedFacts DEF IInv, ring
<1>4. TypeOK' => CellsConserved'
  BY <1>3 DEF CellsConserved, Unread, Free, Rights
<1>5. QED
  BY <1>2, <1>4

\* A right in direction o.dir has been used and one in the other direction added.
Moved(o) ==
  /\ Rights(o.dir)' = Rights(o.dir) - 1
  /\ Rights(Other(o.dir))' = Rights(Other(o.dir)) + 1
  /\ Rights(o.dir) >= 1
  /\ readWriteableCnt' \in [Dirs -> 0 .. MaxLen]
  /\ waitList' \in [AllDirs -> Seq(Tasks)]
  /\ taskStatus' \in [Tasks -> Statuses]
  /\ NobodySleepsOnOffer' /\ ListsAreSound' /\ BoxesConserved'
  /\ NoOperationOnDeleted' /\ DeletedIsSettled'

\* The counting side of an operation in direction o.dir, whether it takes its right
\* off the count or has been woken with it: one right less in its direction, one
\* more in the other, and nobody is left asleep for it.
LEMMA MovesFacts ==
  ASSUME IInv, queueLen # 0, NEW o \in Operations,
         NEW cnt \in [Dirs -> Nat], NEW status \in [Tasks -> Statuses],
         \A u \in Tasks : status[u] = "pend" <=> taskStatus[u] = "pend",
         \A u \in Tasks : status[u] # "user" => op'[u] = op[u],
         op' \in [Tasks -> Sleep],
         cnt[Other(o.dir)] = readWriteableCnt[Other(o.dir)],
         cnt[o.dir] <= readWriteableCnt[o.dir],
         \A e \in AllDirs \ {o.dir} : StillWoken(status, e) = Woken(e),
         cnt[o.dir] + Cardinality(StillWoken(status, o.dir)) + 1
           = readWriteableCnt[o.dir] + Cardinality(Woken(o.dir)),
         HandOver(cnt, Other(o.dir), status),
         UNCHANGED <<queueLen, mail, lost>>
  PROVE  Moved(o)
<1> DEFINE W(e) == StillWoken(status, e)
           x == o.dir
           y == Other(o.dir)
<1>1. /\ x \in Dirs /\ y \in Dirs /\ x # y
      /\ Dirs = {x, y} /\ AllDirs = {x, y, "MAIL"} /\ "MAIL" \notin {x, y}
  BY OperationFacts DEF Dirs, AllDirs, Other
<1>2. TypeOK
  BY DEF IInv, CellsConserved
<1>3. /\ readWriteableCnt[x] \in Nat /\ readWriteableCnt[y] \in Nat
      /\ cnt[x] \in Nat /\ cnt[y] \in Nat /\ lost[x] \in Nat /\ lost[y] \in Nat
  BY <1>1, <1>2, RightsFacts
<1>4. /\ readWriteableCnt' \in [Dirs -> Nat]
      /\ \A e \in Dirs \ {y} : readWriteableCnt'[e] = cnt[e]
      /\ waitList' \in [AllDirs -> Seq(Tasks)] /\ ListsAreSound'
      /\ taskStatus' \in [Tasks -> Statuses]
      /\ \A u \in Tasks, e \in AllDirs :
           u \in Listed(waitList'[e]) <=> taskStatus'[u] = "pend" /\ op'[u].what.dir = e
      /\ \A e \in AllDirs : waitList'[e] # <<>> => waitList[e] # <<>>
      /\ waitList'[y] # <<>> => readWriteableCnt'[y] = cnt[y]
      /\ \A e \in AllDirs \ {y} : Woken(e)' = W(e)
      /\ readWriteableCnt'[y] + Cardinality(Woken(y)') = cnt[y] + Cardinality(W(y)) + 1
  <2>1. HandedOver(cnt, y, status)
    BY <1>1, HandOverFacts
  <2>2. QED
    BY <2>1 DEF HandedOver
<1>5. W(y) = Woken(y) /\ W("MAIL") = Woken("MAIL")
      /\ cnt[x] + Cardinality(W(x)) + 1 = readWriteableCnt[x] + Cardinality(Woken(x))
  BY <1>1
<1>6. readWriteableCnt'[x] = cnt[x] /\ Woken(x)' = W(x) /\ Woken("MAIL")' = Woken("MAIL")
  BY <1>1, <1>4, <1>5
<1>7. /\ Cardinality(W(x)) \in Nat /\ Cardinality(Woken(x)) \in Nat
      /\ Cardinality(W(y)) \in Nat /\ Cardinality(Woken(y)') \in Nat
  BY <1>5, <1>6, WokenFacts
<1>8. lost' = lost /\ readWriteableCnt'[y] \in Nat
  BY <1>1, <1>4
<1> HIDE DEF W, x, y
<1>9. Rights(x)' = Rights(x) - 1 /\ Rights(x) >= 1
  <2>1. Rights(x)' = cnt[x] + Cardinality(W(x)) + lost[x]
    BY <1>6, <1>8 DEF Rights
  <2>2. QED
    BY <1>3, <1>5, <1>7, <2>1 DEF Rights
<1>10. Rights(y)' = Rights(y) + 1
  <2>1. Rights(y)' = readWriteableCnt'[y] + Cardinality(Woken(y)') + lost[y]
    BY <1>8 DEF Rights
  <2>2. Rights(y) = cnt[y] + Cardinality(W(y)) + lost[y]
    BY <1>5 DEF Rights, y
  <2>3. QED
    BY <1>3, <1>4, <1>7, <1>8, <2>1, <2>2
<1>11. readWriteableCnt' \in [Dirs -> 0 .. MaxLen]
  <2>1. Rights(x) + Rights(y) = queueLen /\ queueLen \in Nat /\ queueLen <= MaxLen
    <3>1. Rights("READ") + Rights("WRITE") = queueLen
      BY ConservedFacts DEF IInv
    <3>2. {x, y} = {"READ", "WRITE"} /\ x # y
      BY <1>1 DEF Dirs
    <3>3. Rights("READ") \in Nat /\ Rights("WRITE") \in Nat
      BY <1>2, RightsFacts DEF Dirs
    <3>4. Rights(x) + Rights(y) = queueLen
      <4>1. CASE x = "READ"
        BY <3>1, <3>2, <4>1
      <4>2. CASE x = "WRITE"
        BY <3>1, <3>2, <3>3, <4>2
      <4>3. QED
        BY <3>2, <4>1, <4>2
    <3>5. QED
      BY <1>2, <3>4, QueueAssumption DEF TypeOK
  <2>2. /\ Rights(x) \in Nat /\ Rights(y) \in Nat
    BY <1>1, <1>2, RightsFacts
  <2>3. readWriteableCnt'[x] <= Rights(x)'
    BY <1>3, <1>6, <1>7, <1>8 DEF Rights
  <2>4. readWriteableCnt'[y] <= Rights(y)'
    BY <1>3, <1>7, <1>8 DEF Rights
  <2>5. readWriteableCnt'[x] \in 0 .. MaxLen
    BY <1>3, <1>6, <1>9, <2>1, <2>2, <2>3, QueueAssumption
  <2>6. readWriteableCnt'[y] \in 0 .. MaxLen
    BY <1>8, <1>9, <1>10, <2>1, <2>2, <2>4, QueueAssumption
  <2>7. QED
    BY <1>1, <1>4, <2>5, <2>6
<1>12. NobodySleepsOnOffer'
  <2>1. NobodySleepsOnOffer
    BY DEF IInv
  <2>2. waitList'[x] # <<>> => readWriteableCnt'[x] = 0
    BY <1>1, <1>3, <1>4, <1>6, <2>1 DEF NobodySleepsOnOffer, x
  <2>3. waitList'[y] # <<>> => readWriteableCnt'[y] = 0
    BY <1>1, <1>4, <2>1 DEF NobodySleepsOnOffer, y
  <2>4. waitList'["MAIL"] # <<>> => mailPool' = {}
    BY <1>1, <1>4, <2>1 DEF NobodySleepsOnOffer, mail
  <2>5. QED
    BY <1>1, <1>4, <2>2, <2>3, <2>4 DEF NobodySleepsOnOffer, AllDirs
<1>13. BoxesConserved'
  BY <1>6, <1>8, MailSame
<1>14. NoOperationOnDeleted' /\ DeletedIsSettled'
  BY DEF NoOperationOnDeleted, DeletedIsSettled
<1>15. QED
  BY <1>4, <1>9, <1>10, <1>11, <1>12, <1>13, <1>14 DEF Moved, x, y

-----------------------------------------------------------------------------
\* The data side of an operation: with r messages before it, the head and the tail
\* stay in the ring and r messages apart, one more or one less.
LEMMA RingFacts ==
  ASSUME TypeOK, queueLen # 0, NEW r \in 0 .. queueLen, NEW s \in 0 .. queueLen,
         queueHead < queueLen, queueTail < queueLen, queueTail = Place(r),
         UNCHANGED queueLen,
         NEW o \in Operations, OsQueueBufferOperate(o),
         o.dir = "READ" => s = r - 1,
         o.dir = "WRITE" => s = r + 1
  PROVE  /\ queueHead' \in 0 .. MaxLen - 1 /\ queueTail' \in 0 .. MaxLen - 1
         /\ cell' \in [0 .. MaxLen - 1 -> Values \cup {Nothing}]
         /\ bufferAddr' \in Values \cup {Nothing}
         /\ queueHead' < queueLen' /\ queueTail' < queueLen'
         /\ queueTail' = IF queueHead' + s < queueLen' THEN queueHead' + s
                         ELSE queueHead' + s - queueLen'
<1>1. /\ queueLen \in Nat \ {0} /\ queueLen <= MaxLen /\ MaxLen \in Nat
      /\ queueHead \in Nat /\ queueTail \in Nat
      /\ queueHead < queueLen /\ queueTail < queueLen
      /\ r \in Nat /\ s \in Nat /\ r <= queueLen /\ s <= queueLen
      /\ queueLen' = queueLen
  BY QueueAssumption DEF TypeOK
<1>2. queueTail = IF queueHead + r < queueLen THEN queueHead + r ELSE queueHead + r - queueLen
  BY DEF Place
<1>3. CASE o.dir = "READ"
  <2>1. /\ bufferAddr' = cell[queueHead]
        /\ queueHead' = IF queueHead + 1 = queueLen THEN 0 ELSE queueHead + 1
        /\ queueTail' = queueTail /\ cell' = cell /\ s = r - 1
    BY <1>3 DEF OsQueueBufferOperate, ReadCell, Forward
  <2>2. bufferAddr' \in Values \cup {Nothing}
    BY <1>1, <2>1 DEF TypeOK
  <2>3. /\ queueHead' \in 0 .. MaxLen - 1 /\ queueTail' \in 0 .. MaxLen - 1
        /\ queueHead' < queueLen' /\ queueTail' < queueLen'
    BY <1>1, <2>1
  <2>4. queueTail' = IF queueHead' + s < queueLen' THEN queueHead' + s
                     ELSE queueHead' + s - queueLen'
    BY <1>1, <1>2, <2>1
  <2>5. QED
    BY <2>1, <2>2, <2>3, <2>4 DEF TypeOK
<1>4. CASE o.dir = "WRITE" /\ o.end = "HEAD"
  <2>1. /\ queueHead' = IF queueHead = 0 THEN queueLen - 1 ELSE queueHead - 1
        /\ queueTail' = queueTail /\ bufferAddr' = bufferAddr /\ s = r + 1
        /\ cell' = [cell EXCEPT ![queueHead'] = o.val]
    BY <1>4 DEF OsQueueBufferOperate, WriteHead, WriteCell, Backward
  <2>2. cell' \in [0 .. MaxLen - 1 -> Values \cup {Nothing}]
    BY <1>4, <2>1, OperationFacts DEF TypeOK
  <2>3. /\ queueHead' \in 0 .. MaxLen - 1 /\ queueTail' \in 0 .. MaxLen - 1
        /\ queueHead' < queueLen' /\ queueTail' < queueLen'
    BY <1>1, <2>1
  <2>4. queueTail' = IF queueHead' + s < queueLen' THEN queueHead' + s
                     ELSE queueHead' + s - queueLen'
    BY <1>1, <1>2, <2>1
  <2>5. QED
    BY <2>1, <2>2, <2>3, <2>4 DEF TypeOK
<1>5. CASE o.dir = "WRITE" /\ o.end = "TAIL"
  <2>1. /\ queueTail' = IF queueTail + 1 = queueLen THEN 0 ELSE queueTail + 1
        /\ queueHead' = queueHead /\ bufferAddr' = bufferAddr /\ s = r + 1
        /\ cell' = [cell EXCEPT ![queueTail] = o.val]
    BY <1>5 DEF OsQueueBufferOperate, WriteTail, WriteCell, Forward
  <2>2. cell' \in [0 .. MaxLen - 1 -> Values \cup {Nothing}]
    BY <1>5, <2>1, OperationFacts DEF TypeOK
  <2>3. /\ queueHead' \in 0 .. MaxLen - 1 /\ queueTail' \in 0 .. MaxLen - 1
        /\ queueHead' < queueLen' /\ queueTail' < queueLen'
    BY <1>1, <2>1
  <2>4. queueTail' = IF queueHead' + s < queueLen' THEN queueHead' + s
                     ELSE queueHead' + s - queueLen'
    BY <1>1, <1>2, <2>1
  <2>5. QED
    BY <2>1, <2>2, <2>3, <2>4 DEF TypeOK
<1>6. QED
  BY <1>3, <1>4, <1>5 DEF OsQueueBufferOperate

\* How the number of messages changes with an operation.
LEMMA MessagesFacts ==
  ASSUME IInv, queueLen # 0, NEW o \in Operations, Moved(o)
  PROVE  /\ Rights("READ") \in 0 .. queueLen /\ Rights("READ")' \in 0 .. queueLen
         /\ o.dir = "READ" => Rights("READ")' = Rights("READ") - 1
         /\ o.dir = "WRITE" => Rights("READ")' = Rights("READ") + 1
         /\ Rights("READ")' + Rights("WRITE")' = queueLen
<1>1. /\ Rights("READ") \in Nat /\ Rights("WRITE") \in Nat /\ queueLen \in Nat
      /\ Rights("READ") + Rights("WRITE") = queueLen
  <2>1. TypeOK
    BY DEF IInv, CellsConserved
  <2>2. QED
    BY <2>1, RightsFacts, ConservedFacts, QueueAssumption DEF IInv, Dirs, TypeOK
<1>2. CASE o.dir = "READ"
  <2>1. /\ Rights("READ")' = Rights("READ") - 1 /\ Rights("READ") >= 1
        /\ Rights("WRITE")' = Rights("WRITE") + 1
    BY <1>2 DEF Moved, Other
  <2>2. QED
    BY <1>1, <1>2, <2>1
<1>3. CASE o.dir = "WRITE"
  <2>1. /\ Rights("WRITE")' = Rights("WRITE") - 1 /\ Rights("WRITE") >= 1
        /\ Rights("READ")' = Rights("READ") + 1
    BY <1>3 DEF Moved, Other
  <2>2. QED
    BY <1>1, <1>3, <2>1
<1>4. QED
  BY <1>2, <1>3, OperationFacts DEF Dirs

\* A whole operation on a queue that exists.
LEMMA OperationKeepsIInv ==
  ASSUME IInv, queueLen # 0, NEW o \in Operations, Moved(o), OsQueueBufferOperate(o),
         op' \in [Tasks -> Sleep], UNCHANGED <<queueLen, mail, lost, g_losTaskLock>>
  PROVE  IInv'
<1>1. TypeOK /\ RingIsSound
  BY DEF IInv, CellsConserved
<1>2. /\ Rights("READ") \in 0 .. queueLen /\ Rights("READ")' \in 0 .. queueLen
      /\ o.dir = "READ" => Rights("READ")' = Rights("READ") - 1
      /\ o.dir = "WRITE" => Rights("READ")' = Rights("READ") + 1
      /\ Rights("READ")' + Rights("WRITE")' = queueLen
  BY MessagesFacts
<1>3. /\ queueHead' \in 0 .. MaxLen - 1 /\ queueTail' \in 0 .. MaxLen - 1
      /\ cell' \in [0 .. MaxLen - 1 -> Values \cup {Nothing}]
      /\ bufferAddr' \in Values \cup {Nothing}
      /\ queueHead' < queueLen' /\ queueTail' < queueLen'
      /\ queueTail' = IF queueHead' + Rights("READ")' < queueLen'
                      THEN queueHead' + Rights("READ")'
                      ELSE queueHead' + Rights("READ")' - queueLen'
  <2> DEFINE r == Rights("READ")
             s == Rights("READ")'
  <2>1. /\ r \in 0 .. queueLen /\ s \in 0 .. queueLen
        /\ o.dir = "READ" => s = r - 1
        /\ o.dir = "WRITE" => s = r + 1
        /\ queueHead < queueLen /\ queueTail < queueLen /\ queueTail = Place(r)
    BY <1>1, <1>2 DEF RingIsSound
  <2> HIDE DEF r, s
  <2>2. /\ queueHead' \in 0 .. MaxLen - 1 /\ queueTail' \in 0 .. MaxLen - 1
        /\ cell' \in [0 .. MaxLen - 1 -> Values \cup {Nothing}]
        /\ bufferAddr' \in Values \cup {Nothing}
        /\ queueHead' < queueLen' /\ queueTail' < queueLen'
        /\ queueTail' = IF queueHead' + s < queueLen' THEN queueHead' + s
                        ELSE queueHead' + s - queueLen'
    BY <1>1, <2>1, RingFacts
  <2>3. QED
    BY <2>2 DEF s
<1>4. RingIsSound'
  BY <1>3 DEF RingIsSound, Place
<1>5. TypeOK'
  BY <1>1, <1>3 DEF TypeOK, Moved, mail, AllDirs, Statuses
<1>6. CellsConserved'
  BY <1>2, <1>5 DEF CellsConserved, Unread, Free, Rights
<1>7. QED
  BY <1>4, <1>6 DEF IInv, Moved

-----------------------------------------------------------------------------
\* OsQueueInit.
LEMMA InitIInv == Init => IInv
<1> SUFFICES ASSUME Init PROVE IInv
  OBVIOUS
<1>1. TypeOK
  BY NoSleepFacts, QueueAssumption DEF Init, TypeOK, Dirs
<1>2. CellsConserved /\ RingIsSound /\ DeletedIsSettled
  BY <1>1 DEF Init, CellsConserved, RingIsSound, DeletedIsSettled, Dirs
<1>3. \A d \in AllDirs : waitList[d] = <<>>
  BY DEF Init, AllDirs
<1>4. NobodySleepsOnOffer /\ ListsAreSound
  <2>1. \A d \in Dirs : waitList[d] = <<>>
    BY <1>3 DEF AllDirs
  <2>2. \A t \in Tasks : taskStatus[t] = "user"
    BY DEF Init
  <2>3. waitList["MAIL"] = <<>>
    BY <1>3 DEF AllDirs
  <2>4. QED
    BY <1>3, <2>1, <2>2, <2>3, EmptyList DEF NobodySleepsOnOffer, ListsAreSound
<1>5. NoOperationOnDeleted
  BY DEF Init, NoOperationOnDeleted
<1>6. BoxesConserved
  <2>1. Woken("MAIL") = {} /\ mailPool \cup mailHeld = Boxes
    BY DEF Init, Woken
  <2>2. Cardinality(Boxes) \in Nat
    BY FS_CardinalityType, QueueAssumption
  <2>3. Cardinality(Boxes) + 0 + 0 = Cardinality(Boxes)
    BY <2>2
  <2>4. Cardinality(mailPool \cup mailHeld) + Cardinality(Woken("MAIL")) + lost["MAIL"]
          = Cardinality(Boxes)
    BY <2>1, <2>3, FS_EmptySet DEF Init
  <2>5. QED
    BY <2>1, <2>4 DEF Init, BoxesConserved
<1>7. QED
  BY <1>2, <1>4, <1>5, <1>6 DEF IInv

\* On a deleted queue nobody is inside an operation.
LEMMA DeletedFacts ==
  ASSUME IInv, queueLen = 0
  PROVE  /\ Woken("READ") = {} /\ Woken("WRITE") = {}
         /\ lost["READ"] = 0 /\ lost["WRITE"] = 0
         /\ \A d \in AllDirs : waitList[d] = <<>>
<1>1. TypeOK
  BY DEF IInv, CellsConserved
<1>2. \A t \in Tasks : taskStatus[t] = "woken" => op[t].what.dir = "MAIL"
  BY DEF IInv, NoOperationOnDeleted, MailOp
<1>3. Woken("READ") = {} /\ Woken("WRITE") = {}
  BY <1>2 DEF Woken
<1>4. ASSUME NEW d \in AllDirs PROVE waitList[d] = <<>>
  <2>1. waitList[d] \in Seq(Tasks)
    BY <1>1 DEF TypeOK, AllDirs
  <2>2. Listed(waitList[d]) \subseteq Tasks
    BY <2>1, NobodyListed
  <2>3. \A t \in Tasks : t \notin Listed(waitList[d])
    BY DEF IInv, NoOperationOnDeleted, NobodySleepsOnOffer, AllDirs
  <2>4. QED
    BY <2>1, <2>2, <2>3, NobodyListed
<1>5. QED
  BY <1>3, <1>4 DEF IInv, DeletedIsSettled

\* LOS_QueueCreate.
LEMMA CreateKeepsIInv ==
  ASSUME IInv, NEW len \in 1 .. MaxLen, LOS_QueueCreate(len)
  PROVE  IInv'
<1> USE DEF LOS_QueueCreate
<1>1. TypeOK /\ queueLen = 0 /\ len \in Nat /\ len >= 1 /\ len <= MaxLen
  BY QueueAssumption DEF IInv, CellsConserved
<1>2. /\ readWriteableCnt'["READ"] = 0 /\ readWriteableCnt'["WRITE"] = len
      /\ Woken("READ")' = {} /\ Woken("WRITE")' = {} /\ Woken("MAIL")' = Woken("MAIL")
      /\ lost'["READ"] = 0 /\ lost'["WRITE"] = 0 /\ lost' = lost
  BY <1>1, DeletedFacts DEF Dirs, Woken
<1>3. Rights("READ")' = 0 /\ Rights("WRITE")' = len
  <2>1. Cardinality(Woken("READ")') = 0 /\ Cardinality(Woken("WRITE")') = 0
    BY <1>2, FS_EmptySet
  <2>2. Rights("READ")' = 0 + 0 + 0 /\ Rights("WRITE")' = len + 0 + 0
    BY <1>2, <2>1 DEF Rights
  <2>3. QED
    BY <1>1, <2>2
<1>4. waitList' = waitList
  BY <1>1, DeletedFacts DEF TypeOK, AllDirs
<1>5. TypeOK'
  BY <1>1, <1>4, QueueAssumption DEF TypeOK, mail, Dirs
<1>6. CellsConserved'
  <2>1. Rights("READ")' + Rights("WRITE")' = queueLen'
    BY <1>1, <1>3
  <2>2. QED
    BY <1>5, <2>1 DEF CellsConserved, Unread, Free, Rights
<1>7. RingIsSound'
  <2>1. queueHead' = 0 /\ queueTail' = 0 /\ queueLen' = len
    OBVIOUS
  <2>2. Place(Rights("READ"))' = 0
    BY <1>1, <1>3, <2>1 DEF Place
  <2>3. QED
    BY <1>1, <2>1, <2>2 DEF RingIsSound
<1>8. NobodySleepsOnOffer' /\ ListsAreSound'
  <2>1. \A d \in AllDirs : waitList'[d] = <<>>
    BY <1>1, <1>4, DeletedFacts
  <2>2. QED
    BY <1>4, <2>1 DEF IInv, NobodySleepsOnOffer, ListsAreSound, AllDirs
<1>9. BoxesConserved'
  BY <1>1, <1>2, MailSame DEF TypeOK
<1>10. NoOperationOnDeleted' /\ DeletedIsSettled'
  BY <1>1 DEF NoOperationOnDeleted, DeletedIsSettled
<1>11. QED
  BY <1>6, <1>7, <1>8, <1>9, <1>10 DEF IInv

\* LOS_QueueDelete: the sum of the counts is the length only if no woken task has a
\* right left to use and none was lost.
LEMMA DeleteKeepsIInv ==
  ASSUME IInv, LOS_QueueDelete
  PROVE  IInv'
<1> USE DEF LOS_QueueDelete
<1>1. TypeOK
  BY DEF IInv, CellsConserved
<1>2. /\ Cardinality(Woken("READ")) = 0 /\ Cardinality(Woken("WRITE")) = 0
      /\ lost["READ"] = 0 /\ lost["WRITE"] = 0
  <2>1. /\ readWriteableCnt["READ"] \in Nat /\ readWriteableCnt["WRITE"] \in Nat
        /\ lost["READ"] \in Nat /\ lost["WRITE"] \in Nat
        /\ Cardinality(Woken("READ")) \in Nat /\ Cardinality(Woken("WRITE")) \in Nat
    BY <1>1, RightsFacts, WokenFacts DEF Dirs
  <2>2. /\ Rights("READ") + Rights("WRITE") = queueLen
        /\ readWriteableCnt["WRITE"] + readWriteableCnt["READ"] = queueLen
    BY ConservedFacts DEF IInv, Deletable
  <2>3. QED
    BY <2>1, <2>2 DEF Rights
<1>3. Woken("READ") = {} /\ Woken("WRITE") = {}
  BY <1>2, WokenFacts, FS_EmptySet
<1>4. NoOperationOnDeleted'
  <2> SUFFICES ASSUME NEW t \in Tasks
               PROVE  /\ taskStatus[t] # "pend"
                      /\ taskStatus[t] = "woken" => op[t].what = MailOp
    BY DEF NoOperationOnDeleted
  <2>1. op[t] \in Sleep
    BY <1>1 DEF TypeOK
  <2>2. op[t].what.dir \in AllDirs
    BY <2>1, OpFacts
  <2>3. taskStatus[t] # "pend"
    BY <2>2, EmptyList DEF IInv, NobodySleepsOnOffer, Deletable, AllDirs
  <2>4. taskStatus[t] = "woken" => op[t].what.dir \notin Dirs
    BY <1>3 DEF Woken, Dirs
  <2>5. QED
    BY <2>1, <2>2, <2>3, <2>4, OpFacts DEF AllDirs
<1>5. TypeOK'
  BY <1>1, QueueAssumption DEF TypeOK, mail
<1>6. CellsConserved' /\ RingIsSound' /\ DeletedIsSettled'
  BY <1>2, <1>5 DEF CellsConserved, RingIsSound, DeletedIsSettled
<1>7. NobodySleepsOnOffer' /\ ListsAreSound'
  BY DEF IInv, NobodySleepsOnOffer, ListsAreSound, mail
<1>8. BoxesConserved'
  <2>1. Woken("MAIL")' = Woken("MAIL")
    BY DEF Woken
  <2>2. QED
    BY <1>1, <2>1, MailSame DEF TypeOK
<1>9. QED
  BY <1>4, <1>6, <1>7, <1>8 DEF IInv

\* OsQueueOperate that need not wait.
LEMMA AtOnceMoves ==
  ASSUME IInv, NEW o \in Operations, OperateAtOnce(o)
  PROVE  Moved(o) /\ queueLen # 0
<1> DEFINE cnt == [readWriteableCnt EXCEPT ![o.dir] = @ - 1]
<1>1. /\ queueLen # 0 /\ readWriteableCnt[o.dir] > 0
      /\ HandOver(cnt, Other(o.dir), taskStatus)
      /\ op' = op /\ UNCHANGED <<queueLen, mail, lost>>
  BY DEF OperateAtOnce
<1>2. TypeOK
  BY DEF IInv, CellsConserved
<1>3. /\ readWriteableCnt \in [Dirs -> Nat] /\ taskStatus \in [Tasks -> Statuses]
      /\ op' \in [Tasks -> Sleep]
  BY <1>1, <1>2, QueueAssumption DEF TypeOK, Statuses
<1>4. o.dir \in Dirs /\ Other(o.dir) \in Dirs /\ Other(o.dir) # o.dir
  BY OperationFacts
<1>5. /\ cnt \in [Dirs -> Nat] /\ cnt[o.dir] = readWriteableCnt[o.dir] - 1
      /\ cnt[Other(o.dir)] = readWriteableCnt[Other(o.dir)]
  BY <1>1, <1>3, <1>4
<1> HIDE DEF cnt
<1>6. \A e : StillWoken(taskStatus, e) = Woken(e)
  BY DEF StillWoken, Woken
<1>7. cnt[o.dir] + Cardinality(StillWoken(taskStatus, o.dir)) + 1
        = readWriteableCnt[o.dir] + Cardinality(Woken(o.dir))
  <2>1. readWriteableCnt[o.dir] \in Nat /\ Cardinality(Woken(o.dir)) \in Nat
    BY <1>3, <1>4, WokenFacts
  <2>2. QED
    BY <1>5, <1>6, <2>1
<1>8. cnt[o.dir] <= readWriteableCnt[o.dir]
  BY <1>3, <1>4, <1>5
<1>9. Moved(o)
  BY <1>1, <1>3, <1>5, <1>6, <1>7, <1>8, MovesFacts
<1>10. QED
  BY <1>1, <1>9

\* OsQueueOperate that need not wait moves the data and the right.
LEMMA AtOnceKeepsIInv ==
  ASSUME IInv, NEW o \in Operations, OperateAtOnce(o)
  PROVE  IInv'
<1>1. Moved(o) /\ queueLen # 0
  BY AtOnceMoves
<1>2. OsQueueBufferOperate(o) /\ UNCHANGED <<queueLen, op, mail, lost, g_losTaskLock>>
  BY DEF OperateAtOnce
<1>3. op' \in [Tasks -> Sleep]
  BY <1>2 DEF IInv, CellsConserved, TypeOK
<1>4. QED
  BY <1>1, <1>2, <1>3, OperationKeepsIInv

\* OsQueueOperate of a woken task: it uses the right it was given.
LEMMA ResumesMoves ==
  ASSUME IInv, NEW t \in Tasks, OperateResumes(t), taskStatus[t] = "woken"
  PROVE  /\ Moved(op[t].what) /\ queueLen # 0 /\ op[t].what \in Operations
         /\ OsQueueBufferOperate(op[t].what)
         /\ op' \in [Tasks -> Sleep]
         /\ UNCHANGED <<queueLen, mail, lost, g_losTaskLock>>
<1> DEFINE o == op[t].what
           status == [taskStatus EXCEPT ![t] = "user"]
<1>1. /\ o.dir \in Dirs /\ OsQueueBufferOperate(o)
      /\ HandOver(readWriteableCnt, Other(o.dir), status)
      /\ op' = [op EXCEPT ![t] = NoSleep]
      /\ UNCHANGED <<queueLen, mail, lost, g_losTaskLock>>
  BY DEF OperateResumes
<1>2. TypeOK
  BY DEF IInv, CellsConserved
<1>3. /\ readWriteableCnt \in [Dirs -> Nat] /\ taskStatus \in [Tasks -> Statuses]
      /\ op \in [Tasks -> Sleep] /\ op' \in [Tasks -> Sleep]
  BY <1>1, <1>2, NoSleepFacts, QueueAssumption DEF TypeOK, Statuses
<1>4. o \in Operations
  BY <1>1, <1>3, OpFacts
<1>5. o # MailOp /\ "MAIL" \notin Dirs
  BY <1>1 DEF MailOp, Dirs
<1>6. queueLen # 0
  BY <1>5 DEF IInv, NoOperationOnDeleted
<1>7. /\ status \in [Tasks -> Statuses] /\ status[t] = "user"
      /\ \A u \in Tasks \ {t} : status[u] = taskStatus[u] /\ op'[u] = op[u]
  BY <1>1, <1>3 DEF Statuses
<1>8. \A u \in Tasks : status[u] = "pend" <=> taskStatus[u] = "pend"
  BY <1>7
<1>9. \A u \in Tasks : status[u] # "user" => op'[u] = op[u]
  BY <1>7
<1>10. t \in Woken(o.dir) /\ StillWoken(status, o.dir) = Woken(o.dir) \ {t}
  BY <1>7 DEF StillWoken, Woken
<1>11. \A e \in AllDirs \ {o.dir} : StillWoken(status, e) = Woken(e)
  BY <1>7 DEF StillWoken, Woken
<1> HIDE DEF o, status
<1>12. readWriteableCnt[o.dir] + Cardinality(StillWoken(status, o.dir)) + 1
         = readWriteableCnt[o.dir] + Cardinality(Woken(o.dir))
  <2>1. Cardinality(StillWoken(status, o.dir)) = Cardinality(Woken(o.dir)) - 1
    BY <1>10, WokenFacts, OneMoreOrLess
  <2>2. readWriteableCnt[o.dir] \in Nat /\ Cardinality(Woken(o.dir)) \in Nat
    BY <1>1, <1>3, WokenFacts
  <2>3. QED
    BY <2>1, <2>2
<1>13. readWriteableCnt[o.dir] <= readWriteableCnt[o.dir]
  BY <1>1, <1>3
<1>14. Moved(o)
  BY <1>1, <1>3, <1>4, <1>6, <1>7, <1>8, <1>9, <1>11, <1>12, <1>13, MovesFacts
<1>15. QED
  BY <1>1, <1>3, <1>4, <1>6, <1>14 DEF o

\* A task that leaves an operation without a right to it.
LEMMA ReturnsFacts ==
  ASSUME IInv, NEW t \in Tasks, taskStatus[t] = "timeout",
         taskStatus' = [taskStatus EXCEPT ![t] = "user"],
         op' = [op EXCEPT ![t] = NoSleep],
         UNCHANGED <<ring, readWriteableCnt, waitList, mail, lost, g_losTaskLock>>
  PROVE  IInv'
<1>1. TypeOK
  BY DEF IInv, CellsConserved
<1>2. TypeOK' /\ op' \in [Tasks -> Sleep]
  BY <1>1, NoSleepFacts DEF TypeOK, ring, mail
<1>3. /\ taskStatus'[t] = "user"
      /\ \A u \in Tasks \ {t} : taskStatus'[u] = taskStatus[u] /\ op'[u] = op[u]
  BY <1>1 DEF TypeOK
<1>4. \A d : Woken(d)' = Woken(d)
  BY <1>3 DEF Woken
<1>5. \A d : Rights(d)' = Rights(d)
  BY <1>4 DEF Rights
<1>6. CellsConserved' /\ RingIsSound'
  BY <1>2, <1>5, SameRing
<1>7. NobodySleepsOnOffer' /\ ListsAreSound'
  BY <1>3 DEF IInv, NobodySleepsOnOffer, ListsAreSound, mail
<1>8. BoxesConserved'
  BY <1>2, <1>4, MailSame
<1>9. NoOperationOnDeleted' /\ DeletedIsSettled'
  BY <1>3 DEF IInv, NoOperationOnDeleted, DeletedIsSettled, ring
<1>10. QED
  BY <1>6, <1>7, <1>8, <1>9 DEF IInv

\* The rest of OsQueueOperate, for a woken task or one that timed out.
LEMMA ResumesKeepsIInv ==
  ASSUME IInv, NEW t \in Tasks, OperateResumes(t)
  PROVE  IInv'
<1>1. CASE taskStatus[t] = "woken"
  BY <1>1, ResumesMoves, OperationKeepsIInv
<1>2. CASE taskStatus[t] # "woken"
  BY <1>2, ReturnsFacts DEF OperateResumes
<1>3. QED
  BY <1>1, <1>2

\* A task that finds nothing goes to sleep at the end of a list.
LEMMA PendKeepsIInv ==
  ASSUME IInv, queueLen # 0, NEW t \in Tasks, taskStatus[t] = "user",
         NEW o \in Operations \cup {MailOp}, NEW timeOut \in TimeOuts,
         o.dir \in Dirs => readWriteableCnt[o.dir] = 0,
         o.dir = "MAIL" => mailPool = {},
         Pend(t, o, timeOut),
         taskStatus' = [taskStatus EXCEPT ![t] = "pend"],
         UNCHANGED <<ring, readWriteableCnt, mail, lost, g_losTaskLock>>
  PROVE  IInv'
<1> DEFINE d == o.dir
           s == [what |-> o, forever |-> timeOut = "forever"]
<1>1. TypeOK /\ NobodySleepsOnOffer /\ ListsAreSound
  BY DEF IInv, CellsConserved
<1>2. s \in Sleep /\ s.what = o
  BY DEF Sleep
<1>3. d \in AllDirs
  BY <1>2, OpFacts
<1>4. /\ waitList \in [AllDirs -> Seq(Tasks)]
      /\ \A u \in Tasks, e \in AllDirs :
           u \in Listed(waitList[e]) <=> taskStatus[u] = "pend" /\ op[u].what.dir = e
  BY <1>1 DEF TypeOK, AllDirs, NobodySleepsOnOffer
<1>5. /\ op' = [op EXCEPT ![t] = s]
      /\ waitList' = [waitList EXCEPT ![d] = Append(waitList[d], t)]
  BY DEF Pend
<1>6. /\ Append(waitList[d], t) \in Seq(Tasks) /\ Distinct(Append(waitList[d], t))
      /\ Listed(Append(waitList[d], t)) = Listed(waitList[d]) \cup {t}
  <2>1. waitList[d] \in Seq(Tasks) /\ Distinct(waitList[d]) /\ t \notin Listed(waitList[d])
    BY <1>1, <1>3, <1>4 DEF ListsAreSound
  <2>2. QED
    BY <2>1, TailInsert
<1> HIDE DEF s
<1>7. /\ op'[t] = s /\ taskStatus'[t] = "pend"
      /\ \A u \in Tasks \ {t} : op'[u] = op[u] /\ taskStatus'[u] = taskStatus[u]
      /\ op' \in [Tasks -> Sleep]
  BY <1>1, <1>2, <1>5 DEF TypeOK
<1>8. /\ waitList'[d] = Append(waitList[d], t)
      /\ \A e \in AllDirs \ {d} : waitList'[e] = waitList[e]
      /\ waitList' \in [AllDirs -> Seq(Tasks)]
  BY <1>3, <1>4, <1>5, <1>6
<1>9. op'[t].what.dir = d
  BY <1>2, <1>7
<1> HIDE DEF d
<1>10. TypeOK'
  BY <1>1, <1>7, <1>8 DEF TypeOK, ring, mail, AllDirs
<1>11. \A e : Woken(e)' = Woken(e)
  BY <1>7 DEF Woken
<1>12. \A e : Rights(e)' = Rights(e)
  BY <1>11 DEF Rights
<1>13. CellsConserved' /\ RingIsSound'
  BY <1>10, <1>12, SameRing
<1>14. ListsAreSound'
  BY <1>1, <1>6, <1>8 DEF ListsAreSound
<1>15. ASSUME NEW u \in Tasks, NEW e \in AllDirs
       PROVE  u \in Listed(waitList'[e]) <=> taskStatus'[u] = "pend" /\ op'[u].what.dir = e
  <2>1. CASE u = t
    BY <1>4, <1>6, <1>7, <1>8, <1>9, <2>1
  <2>2. CASE u # t
    <3>1. u \in Listed(waitList'[e]) <=> u \in Listed(waitList[e])
      BY <1>6, <1>8, <2>2
    <3>2. taskStatus'[u] = taskStatus[u] /\ op'[u] = op[u]
      BY <1>7, <2>2
    <3>3. QED
      BY <1>4, <3>1, <3>2
  <2>3. QED
    BY <2>1, <2>2
<1>16. NobodySleepsOnOffer'
  <2>1. \A e \in Dirs : waitList'[e] # <<>> => readWriteableCnt[e] = 0
    BY <1>1, <1>8 DEF NobodySleepsOnOffer, AllDirs, d
  <2>2. waitList'["MAIL"] # <<>> => mailPool = {}
    BY <1>1, <1>8 DEF NobodySleepsOnOffer, AllDirs, d
  <2>3. QED
    BY <1>15, <2>1, <2>2 DEF NobodySleepsOnOffer, AllDirs, mail
<1>17. BoxesConserved'
  BY <1>7, <1>11, MailSame
<1>18. NoOperationOnDeleted' /\ DeletedIsSettled'
  BY DEF NoOperationOnDeleted, DeletedIsSettled, ring
<1>19. QED
  BY <1>13, <1>14, <1>16, <1>17, <1>18 DEF IInv

\* OsQueueOperate that must wait.
LEMMA OperatePendsKeepsIInv ==
  ASSUME IInv, NEW t \in Tasks, NEW o \in Operations, NEW timeOut \in TimeOuts,
         OperatePends(t, o, timeOut)
  PROVE  IInv'
<1>1. o.dir # "MAIL"
  BY DEF Operations
<1>2. QED
  BY <1>1, PendKeepsIInv DEF OperatePends

\* OsQueueMailAlloc with an empty pool, the scheduler not locked.
LEMMA MailPendsKeepsIInv ==
  ASSUME IInv, ~MailInLock, NEW t \in Tasks, NEW timeOut \in TimeOuts,
         MailAllocPends(t, timeOut)
  PROVE  IInv'
<1>1. MailOp.dir \notin Dirs
  BY DEF MailOp, Dirs
<1>2. taskStatus' = [taskStatus EXCEPT ![t] = "pend"]
  BY DEF MailAllocPends
<1>3. QED
  BY <1>1, <1>2, PendKeepsIInv DEF MailAllocPends

\* A task that sleeps leaves its list.
LEMMA UnlistedFacts ==
  ASSUME IInv, NEW t \in Tasks, taskStatus[t] = "pend"
  PROVE  /\ Unlisted(t) \in [AllDirs -> Seq(Tasks)]
         /\ \A e \in AllDirs : Distinct(Unlisted(t)[e])
         /\ \A e \in AllDirs : Listed(Unlisted(t)[e]) = Listed(waitList[e]) \ {t}
         /\ \A e \in AllDirs : Unlisted(t)[e] # <<>> => waitList[e] # <<>>
<1> DEFINE d == op[t].what.dir
           new == LOS_ListDelete(waitList[d], t)
<1>1. TypeOK /\ NobodySleepsOnOffer /\ ListsAreSound
  BY DEF IInv, CellsConserved
<1>2. /\ waitList \in [AllDirs -> Seq(Tasks)] /\ op[t] \in Sleep
      /\ \A u \in Tasks, e \in AllDirs :
           u \in Listed(waitList[e]) <=> taskStatus[u] = "pend" /\ op[u].what.dir = e
  BY <1>1 DEF TypeOK, AllDirs, NobodySleepsOnOffer
<1>3. d \in AllDirs
  BY <1>2, OpFacts
<1>4. t \in Listed(waitList[d]) /\ Distinct(waitList[d]) /\ waitList[d] \in Seq(Tasks)
  BY <1>1, <1>2, <1>3 DEF ListsAreSound
<1>5. new \in Seq(Tasks) /\ Distinct(new) /\ Listed(new) = Listed(waitList[d]) \ {t}
  BY <1>4, ListDelete
<1>6. Unlisted(t) = [waitList EXCEPT ![d] = new]
  BY DEF Unlisted
<1>7. waitList[d] # <<>>
  BY <1>4, EmptyList
<1>8. \A e \in AllDirs \ {d} : t \notin Listed(waitList[e])
  BY <1>2
<1> HIDE DEF d, new
<1>9. Unlisted(t)[d] = new /\ \A e \in AllDirs \ {d} : Unlisted(t)[e] = waitList[e]
  BY <1>2, <1>3, <1>6
<1>10. Unlisted(t) \in [AllDirs -> Seq(Tasks)]
  BY <1>2, <1>3, <1>5, <1>6
<1>11. \A e \in AllDirs : Distinct(Unlisted(t)[e])
  BY <1>1, <1>5, <1>9 DEF ListsAreSound
<1>12. \A e \in AllDirs : Listed(Unlisted(t)[e]) = Listed(waitList[e]) \ {t}
  BY <1>5, <1>8, <1>9
<1>13. \A e \in AllDirs : Unlisted(t)[e] # <<>> => waitList[e] # <<>>
  BY <1>7, <1>9
<1>14. QED
  BY <1>10, <1>11, <1>12, <1>13

\* A task that sleeps is taken off its list without having been handed anything.
LEMMA UnlistKeepsIInv ==
  ASSUME IInv, NEW t \in Tasks, taskStatus[t] = "pend", NEW s \in {"timeout", "user"},
         NEW sl \in Sleep,
         taskStatus' = [taskStatus EXCEPT ![t] = s],
         op' = [op EXCEPT ![t] = sl],
         waitList' = Unlisted(t),
         UNCHANGED <<ring, readWriteableCnt, mail, lost, g_losTaskLock>>
  PROVE  IInv'
<1>1. TypeOK /\ NobodySleepsOnOffer
  BY DEF IInv, CellsConserved
<1>2. /\ waitList' \in [AllDirs -> Seq(Tasks)]
      /\ \A e \in AllDirs : Distinct(waitList'[e])
      /\ \A e \in AllDirs : Listed(waitList'[e]) = Listed(waitList[e]) \ {t}
      /\ \A e \in AllDirs : waitList'[e] # <<>> => waitList[e] # <<>>
  BY UnlistedFacts
<1>3. /\ taskStatus'[t] = s /\ op' \in [Tasks -> Sleep]
      /\ \A u \in Tasks \ {t} : taskStatus'[u] = taskStatus[u] /\ op'[u] = op[u]
  BY <1>1 DEF TypeOK
<1>4. TypeOK'
  BY <1>1, <1>2, <1>3 DEF TypeOK, ring, mail, AllDirs
<1>5. \A e : Woken(e)' = Woken(e)
  BY <1>3 DEF Woken
<1>6. \A e : Rights(e)' = Rights(e)
  BY <1>5 DEF Rights
<1>7. CellsConserved' /\ RingIsSound'
  BY <1>4, <1>6, SameRing
<1>8. ASSUME NEW u \in Tasks, NEW e \in AllDirs
      PROVE  u \in Listed(waitList'[e]) <=> taskStatus'[u] = "pend" /\ op'[u].what.dir = e
  <2>1. CASE u = t
    BY <1>2, <1>3, <2>1
  <2>2. CASE u # t
    <3>1. u \in Listed(waitList'[e]) <=> u \in Listed(waitList[e])
      BY <1>2, <2>2
    <3>2. QED
      BY <1>1, <1>3, <2>2, <3>1 DEF NobodySleepsOnOffer, AllDirs
  <2>3. QED
    BY <2>1, <2>2
<1>9. NobodySleepsOnOffer'
  BY <1>1, <1>2, <1>8 DEF NobodySleepsOnOffer, AllDirs, mail
<1>10. ListsAreSound'
  BY <1>2 DEF ListsAreSound
<1>11. BoxesConserved'
  BY <1>3, <1>5, MailSame
<1>12. queueLen # 0 /\ queueLen' = queueLen
  BY DEF IInv, NoOperationOnDeleted, ring
<1>13. NoOperationOnDeleted' /\ DeletedIsSettled'
  BY <1>12 DEF NoOperationOnDeleted, DeletedIsSettled
<1>14. QED
  BY <1>7, <1>9, <1>10, <1>11, <1>13 DEF IInv

\* OsSchedWakePendTimeTask.
LEMMA TimeoutKeepsIInv ==
  ASSUME IInv, NEW t \in Tasks, PendTimeout(t)
  PROVE  IInv'
<1>1. op \in [Tasks -> Sleep] /\ op' = op
  BY DEF IInv, CellsConserved, TypeOK, PendTimeout
<1>2. op[t] \in Sleep /\ op' = [op EXCEPT ![t] = op[t]]
  BY <1>1
<1>3. QED
  BY <1>2, UnlistKeepsIInv DEF PendTimeout

\* LOS_TaskDelete of a woken task: the right it had is counted as lost.
LEMMA LostIsCounted ==
  ASSUME IInv, NEW t \in Tasks, LOS_TaskDelete(t)
  PROVE  \A e \in AllDirs :
           Cardinality(Woken(e)') + lost'[e] = Cardinality(Woken(e)) + lost[e]
<1>1. TypeOK
  BY DEF IInv, CellsConserved
<1>2. /\ taskStatus'[t] = "user"
      /\ \A u \in Tasks \ {t} : taskStatus'[u] = taskStatus[u] /\ op'[u] = op[u]
  BY <1>1 DEF LOS_TaskDelete, TypeOK
<1>3. CASE taskStatus[t] # "woken"
  <2>1. \A e : Woken(e)' = Woken(e)
    BY <1>2, <1>3 DEF Woken
  <2>2. lost' = lost
    BY <1>3 DEF LOS_TaskDelete
  <2>3. QED
    BY <2>1, <2>2
<1>4. CASE taskStatus[t] = "woken"
  <2>1. op[t].what.dir \in AllDirs
    BY <1>1, OpFacts DEF TypeOK
  <2> PICK d \in AllDirs : d = op[t].what.dir
    BY <2>1
  <2>2. lost' = [lost EXCEPT ![d] = @ + 1]
    BY <1>4 DEF LOS_TaskDelete
  <2>3. /\ lost'[d] = lost[d] + 1 /\ lost[d] \in Nat
        /\ \A e \in AllDirs \ {d} : lost'[e] = lost[e]
    BY <1>1, <2>2 DEF TypeOK, AllDirs
  <2>4. t \in Woken(d)
    BY <1>4 DEF Woken
  <2>5. Woken(d)' = Woken(d) \ {t}
    BY <1>2 DEF Woken
  <2>6. \A e \in AllDirs \ {d} : Woken(e)' = Woken(e)
    BY <1>2 DEF Woken
  <2>7. /\ Cardinality(Woken(d)') = Cardinality(Woken(d)) - 1
        /\ Cardinality(Woken(d)) \in Nat
    BY <2>4, <2>5, WokenFacts, OneMoreOrLess
  <2>8. Cardinality(Woken(d)') + lost'[d] = Cardinality(Woken(d)) + lost[d]
    BY <2>3, <2>7
  <2>9. QED
    BY <2>3, <2>6, <2>8
<1>5. QED
  BY <1>3, <1>4

\* So the sum of a direction does not change with it.
LEMMA TaskDeleteRights ==
  ASSUME IInv, NEW t \in Tasks, LOS_TaskDelete(t), NEW e \in Dirs
  PROVE  Rights(e)' = Rights(e)
<1>1. TypeOK /\ e \in AllDirs /\ readWriteableCnt' = readWriteableCnt
  BY DEF IInv, CellsConserved, AllDirs, LOS_TaskDelete
<1>2. Cardinality(Woken(e)') + lost'[e] = Cardinality(Woken(e)) + lost[e]
  BY <1>1, LostIsCounted
<1>3. /\ readWriteableCnt[e] \in Nat /\ lost[e] \in Nat /\ lost'[e] \in Nat
      /\ Cardinality(Woken(e)') \in Nat /\ Cardinality(Woken(e)) \in Nat
  <2>1. op[t].what.dir \in AllDirs
    BY <1>1, OpFacts DEF TypeOK
  <2>2. lost' \in [AllDirs -> Nat]
    <3>1. lost \in [AllDirs -> Nat]
      BY <1>1 DEF TypeOK, AllDirs
    <3>2. lost' \in {lost, [lost EXCEPT ![op[t].what.dir] = @ + 1]}
      BY DEF LOS_TaskDelete
    <3>3. QED
      BY ONLY <2>1, <3>1, <3>2
  <2>3. QED
    BY <1>1, <2>2, RightsFacts, WokenFacts
<1>4. QED
  BY <1>1, <1>2, <1>3 DEF Rights

\* LOS_TaskDelete: a right that was handed to the task is lost.
LEMMA TaskDeleteKeepsIInv ==
  ASSUME IInv, NEW t \in Tasks, LOS_TaskDelete(t)
  PROVE  IInv'
<1>1. TypeOK /\ BoxesConserved
  BY DEF IInv, CellsConserved
<1>2. /\ taskStatus' = [taskStatus EXCEPT ![t] = "user"]
      /\ op' = [op EXCEPT ![t] = NoSleep]
      /\ msg' = [msg EXCEPT ![t] = NoBox]
      /\ UNCHANGED <<ring, readWriteableCnt, mailPool, mailHeld, g_losTaskLock>>
  BY DEF LOS_TaskDelete
<1>3. taskStatus[t] # "woken" => UNCHANGED mail
  <2>1. taskStatus[t] # "woken" => msg[t] = NoBox
    BY <1>1 DEF BoxesConserved
  <2>2. QED
    BY <1>1, <1>2, <2>1 DEF TypeOK, mail
<1>4. CASE taskStatus[t] = "pend"
  BY <1>2, <1>3, <1>4, NoSleepFacts, UnlistKeepsIInv DEF LOS_TaskDelete
<1>5. CASE taskStatus[t] = "timeout"
  BY <1>2, <1>3, <1>5, ReturnsFacts DEF LOS_TaskDelete
<1>6. CASE taskStatus[t] = "woken"
  <2>0. op[t].what.dir \in AllDirs /\ (op[t].what.dir = "MAIL" <=> op[t].what = MailOp)
    BY <1>1, OpFacts DEF TypeOK
  <2> PICK d \in AllDirs : d = op[t].what.dir
    BY <2>0
  <2>1. lost' = [lost EXCEPT ![d] = @ + 1] /\ waitList' = waitList
    BY <1>6 DEF LOS_TaskDelete
  <2>2. d = "MAIL" <=> op[t].what = MailOp
    BY <2>0
  <2>3. /\ lost'[d] = lost[d] + 1 /\ lost[d] \in Nat
        /\ \A e \in AllDirs \ {d} : lost'[e] = lost[e]
        /\ lost' \in [AllDirs -> Nat]
    BY <1>1, <2>1, <2>2 DEF TypeOK, AllDirs
  <2>4. TypeOK'
    BY <1>1, <1>2, <2>1, <2>3, NoSleepFacts DEF TypeOK, ring, AllDirs
  <2>5. /\ taskStatus'[t] = "user" /\ msg'[t] = NoBox
        /\ \A u \in Tasks \ {t} : /\ taskStatus'[u] = taskStatus[u]
                                  /\ op'[u] = op[u] /\ msg'[u] = msg[u]
    BY <1>1, <1>2 DEF TypeOK
  <2>6. \A e \in Dirs : Rights(e)' = Rights(e)
    BY TaskDeleteRights
  <2>7. CellsConserved' /\ RingIsSound'
    BY <1>2, <2>4, <2>6, SameRing
  <2>8. NobodySleepsOnOffer' /\ ListsAreSound'
    BY <1>2, <1>6, <2>1, <2>5 DEF IInv, NobodySleepsOnOffer, ListsAreSound
  <2>9. NoOperationOnDeleted'
    BY <1>2, <2>5 DEF IInv, NoOperationOnDeleted, ring
  <2>10. DeletedIsSettled'
    <3>1. queueLen = 0 => d = "MAIL"
      BY <1>6, <2>2 DEF IInv, NoOperationOnDeleted
    <3>2. queueLen = 0 => lost'["READ"] = lost["READ"] /\ lost'["WRITE"] = lost["WRITE"]
      BY <2>3, <3>1 DEF AllDirs, Dirs
    <3>3. QED
      BY <1>2, <3>2 DEF IInv, DeletedIsSettled, ring
  <2>11. BoxesConserved'
    <3>1. Cardinality(Woken("MAIL")') + lost'["MAIL"] = Cardinality(Woken("MAIL")) + lost["MAIL"]
      BY LostIsCounted DEF AllDirs
    <3>2. /\ Cardinality(Woken("MAIL")') \in Nat /\ Cardinality(Woken("MAIL")) \in Nat
          /\ lost["MAIL"] \in Nat /\ lost'["MAIL"] \in Nat
          /\ Cardinality(mailPool \cup mailHeld) \in Nat
      <4>1. mailPool \cup mailHeld \in SUBSET Boxes
        BY <1>1 DEF TypeOK
      <4>2. IsFiniteSet(mailPool \cup mailHeld)
        BY <4>1, FS_Subset, QueueAssumption
      <4>3. lost["MAIL"] \in Nat /\ lost'["MAIL"] \in Nat
        BY <1>1, <2>3 DEF TypeOK, AllDirs
      <4>4. QED
        BY <4>2, <4>3, WokenFacts, FS_CardinalityType
    <3>3. Cardinality(mailPool \cup mailHeld) + Cardinality(Woken("MAIL")) + lost["MAIL"]
            = Cardinality(Boxes)
      BY <1>1 DEF BoxesConserved
    <3>4. Cardinality(mailPool \cup mailHeld) + Cardinality(Woken("MAIL")') + lost'["MAIL"]
            = Cardinality(Boxes)
      BY <3>1, <3>2, <3>3
    <3>5. \A u \in Woken("MAIL")' : msg'[u] # NoBox
      <4>1. \A u \in Woken("MAIL")' : u \in Woken("MAIL") /\ u \in Tasks \ {t}
        BY <2>5 DEF Woken
      <4>2. QED
        BY <1>1, <2>5, <4>1 DEF BoxesConserved
    <3>6. ASSUME NEW u \in Tasks, msg'[u] # NoBox
          PROVE  /\ taskStatus'[u] = "woken" /\ op'[u].what = MailOp
                 /\ msg'[u] \notin mailPool \cup mailHeld
                 /\ \A v \in Tasks \ {u} : msg'[v] # msg'[u]
      <4>1. u # t
        BY <2>5, <3>6
      <4>2. taskStatus'[u] = taskStatus[u] /\ op'[u] = op[u] /\ msg'[u] = msg[u]
        BY <2>5, <4>1
      <4>3. QED
        BY <1>1, <2>5, <3>6, <4>2 DEF BoxesConserved
    <3>7. QED
      BY <1>1, <1>2, <3>4, <3>5, <3>6 DEF BoxesConserved
  <2>12. QED
    BY <2>7, <2>8, <2>9, <2>10, <2>11 DEF IInv
<1>7. QED
  BY <1>1, <1>4, <1>5, <1>6 DEF LOS_TaskDelete, TypeOK
\* OsQueueMailAlloc from the pool.
LEMMA MailAtOnceKeepsIInv ==
  ASSUME IInv, NEW b \in Boxes, MailAllocAtOnce(b)
  PROVE  IInv'
<1> USE DEF MailAllocAtOnce
<1>1. TypeOK /\ BoxesConserved /\ NobodySleepsOnOffer
  BY DEF IInv, CellsConserved
<1>2. TypeOK'
  BY <1>1 DEF TypeOK, ring
<1>3. \A d : Woken(d)' = Woken(d)
  BY DEF Woken
<1>4. \A d : Rights(d)' = Rights(d)
  BY <1>3 DEF Rights
<1>5. CellsConserved' /\ RingIsSound'
  BY <1>2, <1>4, SameRing
<1>6. waitList["MAIL"] = <<>>
  BY <1>1 DEF NobodySleepsOnOffer
<1>7. NobodySleepsOnOffer' /\ ListsAreSound'
  BY <1>1, <1>6 DEF IInv, NobodySleepsOnOffer, ListsAreSound
<1>8. NoOperationOnDeleted' /\ DeletedIsSettled'
  BY DEF IInv, NoOperationOnDeleted, DeletedIsSettled, ring
<1>9. BoxesConserved'
  <2>1. mailPool' \cup mailHeld' = mailPool \cup mailHeld /\ mailPool' \cap mailHeld' = {}
    BY <1>1 DEF BoxesConserved
  <2>2. Cardinality(mailPool' \cup mailHeld') + Cardinality(Woken("MAIL")') + lost'["MAIL"]
          = Cardinality(Boxes)
    BY <1>1, <1>3, <2>1 DEF BoxesConserved
  <2>3. QED
    BY <1>1, <1>3, <2>1, <2>2 DEF BoxesConserved
<1>10. QED
  BY <1>5, <1>7, <1>8, <1>9 DEF IInv

\* The boxes in the pool or with a caller are finitely many.
LEMMA BoxesFacts ==
  ASSUME TypeOK
  PROVE  /\ IsFiniteSet(mailPool \cup mailHeld)
         /\ Cardinality(mailPool \cup mailHeld) \in Nat
         /\ Cardinality(Woken("MAIL")) \in Nat /\ lost["MAIL"] \in Nat
<1>1. mailPool \cup mailHeld \in SUBSET Boxes /\ lost["MAIL"] \in Nat
  BY DEF TypeOK
<1>2. IsFiniteSet(mailPool \cup mailHeld)
  BY <1>1, FS_Subset, QueueAssumption
<1>3. QED
  BY <1>1, <1>2, WokenFacts, FS_CardinalityType

\* OsQueueMailAlloc of a woken task: it takes the box from its control block.
LEMMA MailResumesKeepsIInv ==
  ASSUME IInv, NEW t \in Tasks, MailAllocResumes(t)
  PROVE  IInv'
<1>1. TypeOK /\ BoxesConserved /\ NobodySleepsOnOffer
  BY DEF IInv, CellsConserved
<1>2. /\ taskStatus' = [taskStatus EXCEPT ![t] = "user"]
      /\ op' = [op EXCEPT ![t] = NoSleep]
      /\ UNCHANGED <<ring, readWriteableCnt, waitList, mailPool, lost, g_losTaskLock>>
      /\ op[t].what = MailOp
  BY DEF MailAllocResumes
<1>3. CASE taskStatus[t] # "woken"
  BY <1>2, <1>3, ReturnsFacts DEF MailAllocResumes, mail
<1>4. CASE taskStatus[t] = "woken"
  <2>1. t \in Woken("MAIL")
    BY <1>2, <1>4 DEF Woken, MailOp
  <2>2. /\ msg[t] # NoBox /\ msg[t] \in Boxes /\ msg[t] \notin mailPool \cup mailHeld
        /\ \A u \in Tasks \ {t} : msg[u] # msg[t]
    BY <1>1, <2>1 DEF BoxesConserved, TypeOK
  <2>3. mailHeld' = mailHeld \cup {msg[t]} /\ msg' = [msg EXCEPT ![t] = NoBox]
    BY <1>4, <2>2 DEF MailAllocResumes
  <2>4. TypeOK'
    BY <1>1, <1>2, <2>2, <2>3, NoSleepFacts DEF TypeOK, ring
  <2>5. /\ taskStatus'[t] = "user" /\ msg'[t] = NoBox
        /\ \A u \in Tasks \ {t} : /\ taskStatus'[u] = taskStatus[u]
                                  /\ op'[u] = op[u] /\ msg'[u] = msg[u]
    BY <1>1, <1>2, <2>3 DEF TypeOK
  <2>6. Woken("MAIL")' = Woken("MAIL") \ {t}
    BY <2>5 DEF Woken
  <2>7. \A d \in Dirs : Woken(d)' = Woken(d)
    BY <1>2, <2>5 DEF Woken, Dirs, MailOp
  <2>8. \A d \in Dirs : Rights(d)' = Rights(d)
    BY <1>2, <2>7 DEF Rights
  <2>9. CellsConserved' /\ RingIsSound'
    BY <1>2, <2>4, <2>8, SameRing
  <2>10. NobodySleepsOnOffer' /\ ListsAreSound'
    BY <1>2, <1>4, <2>5 DEF IInv, NobodySleepsOnOffer, ListsAreSound
  <2>11. NoOperationOnDeleted' /\ DeletedIsSettled'
    BY <1>2, <2>5 DEF IInv, NoOperationOnDeleted, DeletedIsSettled, ring
  <2>12. BoxesConserved'
    <3>1. /\ mailPool' \cup mailHeld' = (mailPool \cup mailHeld) \cup {msg[t]}
          /\ mailPool' \cap mailHeld' = {}
      BY <1>1, <1>2, <2>2, <2>3 DEF BoxesConserved
    <3>2. Cardinality(mailPool' \cup mailHeld') = Cardinality(mailPool \cup mailHeld) + 1
      BY <1>1, <2>2, <3>1, BoxesFacts, OneMoreOrLess
    <3>3. Cardinality(Woken("MAIL")') = Cardinality(Woken("MAIL")) - 1
      BY <2>1, <2>6, WokenFacts, OneMoreOrLess
    <3>4. Cardinality(mailPool' \cup mailHeld') + Cardinality(Woken("MAIL")') + lost'["MAIL"]
            = Cardinality(Boxes)
      <4>1. /\ Cardinality(mailPool \cup mailHeld) \in Nat
            /\ Cardinality(Woken("MAIL")) \in Nat
            /\ lost["MAIL"] \in Nat /\ lost' = lost
        BY <1>1, <1>2, BoxesFacts
      <4>2. Cardinality(mailPool \cup mailHeld) + Cardinality(Woken("MAIL")) + lost["MAIL"]
              = Cardinality(Boxes)
        BY <1>1 DEF BoxesConserved
      <4>3. QED
        BY <3>2, <3>3, <4>1, <4>2
    <3>5. \A u \in Woken("MAIL")' : msg'[u] # NoBox
      <4>1. \A u \in Woken("MAIL")' : u \in Woken("MAIL") /\ u \in Tasks \ {t}
        BY <2>6 DEF Woken
      <4>2. QED
        BY <1>1, <2>5, <4>1 DEF BoxesConserved
    <3>6. ASSUME NEW u \in Tasks, msg'[u] # NoBox
          PROVE  /\ taskStatus'[u] = "woken" /\ op'[u].what = MailOp
                 /\ msg'[u] \notin mailPool' \cup mailHeld'
                 /\ \A v \in Tasks \ {u} : msg'[v] # msg'[u]
      <4>1. u # t
        BY <2>5, <3>6
      <4>2. taskStatus'[u] = taskStatus[u] /\ op'[u] = op[u] /\ msg'[u] = msg[u]
        BY <2>5, <4>1
      <4>3. QED
        BY <1>1, <2>2, <2>5, <3>1, <3>6, <4>1, <4>2 DEF BoxesConserved
    <3>7. QED
      BY <3>1, <3>4, <3>5, <3>6 DEF BoxesConserved
  <2>13. QED
    BY <2>9, <2>10, <2>11, <2>12 DEF IInv
<1>5. QED
  BY <1>3, <1>4

\* OsQueueMailFree: the box goes to the pool or to the first task that waits.
LEMMA MailFreeKeepsIInv ==
  ASSUME IInv, NEW b \in Boxes, OsQueueMailFree(b)
  PROVE  IInv'
<1>1. TypeOK /\ BoxesConserved /\ NobodySleepsOnOffer /\ ListsAreSound
  BY DEF IInv, CellsConserved
<1>2. /\ queueLen # 0 /\ b \in mailHeld /\ mailHeld' = mailHeld \ {b} /\ op' = op
      /\ UNCHANGED <<ring, op, lost, g_losTaskLock>>
  BY DEF OsQueueMailFree
<1>3. NoOperationOnDeleted' /\ DeletedIsSettled'
  BY <1>2 DEF NoOperationOnDeleted, DeletedIsSettled, ring
<1>4. CASE waitList["MAIL"] = <<>>
  <2>1. /\ mailPool' = mailPool \cup {b}
        /\ UNCHANGED <<msg, readWriteableCnt, taskStatus, waitList>>
    BY <1>4 DEF OsQueueMailFree, PoolAfterFree
  <2>2. TypeOK'
    BY <1>1, <1>2, <2>1 DEF TypeOK, ring
  <2>3. \A d : Woken(d)' = Woken(d)
    BY <1>2, <2>1 DEF Woken
  <2>4. \A d : Rights(d)' = Rights(d)
    BY <1>2, <2>1, <2>3 DEF Rights
  <2>5. CellsConserved' /\ RingIsSound'
    BY <1>2, <2>2, <2>4, SameRing
  <2>6. NobodySleepsOnOffer' /\ ListsAreSound'
    BY <1>1, <1>2, <1>4, <2>1 DEF NobodySleepsOnOffer, ListsAreSound
  <2>7. mailPool' \cup mailHeld' = mailPool \cup mailHeld /\ mailPool' \cap mailHeld' = {}
    BY <1>1, <1>2, <2>1 DEF BoxesConserved
  <2>8. Cardinality(mailPool' \cup mailHeld') + Cardinality(Woken("MAIL")') + lost'["MAIL"]
          = Cardinality(Boxes)
    BY <1>1, <1>2, <2>3, <2>7 DEF BoxesConserved
  <2>9. BoxesConserved'
    BY <1>1, <1>2, <2>1, <2>3, <2>7, <2>8 DEF BoxesConserved
  <2>10. QED
    BY <1>3, <2>5, <2>6, <2>9 DEF IInv
<1>5. CASE waitList["MAIL"] # <<>>
  <2>1. waitList \in [AllDirs -> Seq(Tasks)] /\ "MAIL" \in AllDirs
    BY <1>1 DEF TypeOK, AllDirs
  <2>2. waitList["MAIL"] \in Seq(Tasks) /\ Distinct(waitList["MAIL"])
    BY <1>1, <2>1 DEF ListsAreSound
  <2>3. Head(waitList["MAIL"]) \in Tasks /\ Head(waitList["MAIL"]) \in Listed(waitList["MAIL"])
    BY <1>5, <2>2, FirstIsListed
  <2> PICK h \in Tasks : h = Head(waitList["MAIL"])
    BY <2>3
  <2> DEFINE new == LOS_ListDelete(waitList["MAIL"], h)
  <2>4. /\ msg' = [msg EXCEPT ![h] = b] /\ readWriteableCnt' = readWriteableCnt
        /\ taskStatus' = [taskStatus EXCEPT ![h] = "woken"]
        /\ waitList' = [waitList EXCEPT !["MAIL"] = new]
        /\ mailPool' = mailPool
    BY <1>5 DEF OsQueueMailFree, PoolAfterFree, Wake
  <2>5. new \in Seq(Tasks) /\ Distinct(new) /\ Listed(new) = Listed(waitList["MAIL"]) \ {h}
    BY <2>2, <2>3, ListDelete
  <2> HIDE DEF new
  <2>6. taskStatus[h] = "pend" /\ op[h].what.dir = "MAIL" /\ op[h].what = MailOp /\ msg[h] = NoBox
    <3>1. taskStatus[h] = "pend" /\ op[h].what.dir = "MAIL"
      BY <1>1, <2>3 DEF NobodySleepsOnOffer
    <3>2. op[h].what = MailOp
      BY <1>1, <3>1, OpFacts DEF TypeOK
    <3>3. msg[h] = NoBox
      BY <1>1, <3>1 DEF BoxesConserved
    <3>4. QED
      BY <3>1, <3>2, <3>3
  <2>7. /\ taskStatus'[h] = "woken" /\ msg'[h] = b
        /\ \A u \in Tasks \ {h} : taskStatus'[u] = taskStatus[u] /\ msg'[u] = msg[u]
    BY <1>1, <2>4 DEF TypeOK
  <2>8. /\ waitList'["MAIL"] = new /\ waitList' \in [AllDirs -> Seq(Tasks)]
        /\ \A e \in AllDirs \ {"MAIL"} : waitList'[e] = waitList[e]
    BY <2>1, <2>4, <2>5
  <2>9. TypeOK'
    BY <1>1, <1>2, <2>4, <2>8 DEF TypeOK, ring, AllDirs
  <2>10. Woken("MAIL")' = Woken("MAIL") \cup {h} /\ h \notin Woken("MAIL")
    BY <1>2, <2>6, <2>7 DEF Woken
  <2>11. \A d \in Dirs : Woken(d)' = Woken(d)
    BY <1>2, <2>6, <2>7 DEF Woken, Dirs
  <2>12. \A d \in Dirs : Rights(d)' = Rights(d)
    BY <1>2, <2>4, <2>11 DEF Rights
  <2>13. CellsConserved' /\ RingIsSound'
    BY <1>2, <2>9, <2>12, SameRing
  <2>14. ListsAreSound'
    BY <1>1, <2>5, <2>8 DEF ListsAreSound
  <2>15. ASSUME NEW u \in Tasks, NEW e \in AllDirs
         PROVE  u \in Listed(waitList'[e]) <=> taskStatus'[u] = "pend" /\ op'[u].what.dir = e
    <3>1. u \in Listed(waitList[e]) <=> taskStatus[u] = "pend" /\ op[u].what.dir = e
      BY <1>1 DEF NobodySleepsOnOffer, AllDirs
    <3>2. CASE u = h
      <4>1. u \notin Listed(waitList'[e])
        BY <2>5, <2>6, <2>8, <3>1, <3>2
      <4>2. QED
        BY <2>7, <3>2, <4>1
    <3>3. CASE u # h
      <4>1. u \in Listed(waitList'[e]) <=> u \in Listed(waitList[e])
        BY <2>5, <2>8, <3>3
      <4>2. QED
        BY <1>2, <2>7, <3>1, <3>3, <4>1
    <3>4. QED
      BY <3>2, <3>3
  <2>16. NobodySleepsOnOffer'
    <3>1. \A e \in Dirs : waitList'[e] = waitList[e]
      BY <2>8 DEF AllDirs, Dirs
    <3>2. QED
      BY <1>1, <1>5, <2>4, <2>15, <3>1 DEF NobodySleepsOnOffer, AllDirs
  <2>17. BoxesConserved'
    <3>1. /\ mailPool' \cup mailHeld' = (mailPool \cup mailHeld) \ {b}
          /\ mailPool' \cap mailHeld' = {} /\ b \in mailPool \cup mailHeld
      BY <1>1, <1>2, <2>4 DEF BoxesConserved
    <3>2. Cardinality(mailPool' \cup mailHeld') = Cardinality(mailPool \cup mailHeld) - 1
      BY <1>1, <3>1, BoxesFacts, OneMoreOrLess
    <3>3. Cardinality(Woken("MAIL")') = Cardinality(Woken("MAIL")) + 1
      BY <2>10, WokenFacts, OneMoreOrLess
    <3>4. Cardinality(mailPool' \cup mailHeld') + Cardinality(Woken("MAIL")') + lost'["MAIL"]
            = Cardinality(Boxes)
      <4>1. /\ Cardinality(mailPool \cup mailHeld) \in Nat
            /\ Cardinality(Woken("MAIL")) \in Nat
            /\ lost["MAIL"] \in Nat /\ lost' = lost
        BY <1>1, <1>2, BoxesFacts
      <4>2. Cardinality(mailPool \cup mailHeld) + Cardinality(Woken("MAIL")) + lost["MAIL"]
              = Cardinality(Boxes)
        BY <1>1 DEF BoxesConserved
      <4>3. QED
        BY <3>2, <3>3, <4>1, <4>2
    <3>5. \A u \in Woken("MAIL")' : msg'[u] # NoBox
      <4>1. b # NoBox
        BY QueueAssumption
      <4>2. ASSUME NEW u \in Woken("MAIL"), u # h PROVE msg'[u] # NoBox
        <5>1. u \in Tasks /\ msg[u] # NoBox
          BY <1>1 DEF BoxesConserved, Woken
        <5>2. QED
          BY <2>7, <4>2, <5>1
      <4>3. QED
        BY <2>7, <2>10, <4>1, <4>2
    <3>6. ASSUME NEW u \in Tasks, msg'[u] # NoBox
          PROVE  /\ taskStatus'[u] = "woken" /\ op'[u].what = MailOp
                 /\ msg'[u] \notin mailPool' \cup mailHeld'
                 /\ \A v \in Tasks \ {u} : msg'[v] # msg'[u]
      <4>1. \A v \in Tasks : msg[v] # b
        BY <1>1, <1>2, QueueAssumption DEF BoxesConserved
      <4>2. CASE u = h
        BY <1>2, <2>6, <2>7, <3>1, <4>1, <4>2
      <4>3. CASE u # h
        <5>1. taskStatus'[u] = taskStatus[u] /\ op'[u] = op[u] /\ msg'[u] = msg[u]
          BY <1>2, <2>7, <4>3
        <5>2. QED
          BY <1>1, <2>7, <3>1, <3>6, <4>1, <5>1 DEF BoxesConserved
      <4>4. QED
        BY <4>2, <4>3
    <3>7. QED
      BY <3>1, <3>4, <3>5, <3>6 DEF BoxesConserved
  <2>18. QED
    BY <1>3, <2>13, <2>14, <2>16, <2>17 DEF IInv
<1>6. QED
  BY <1>4, <1>5

\* LOS_TaskLock and LOS_TaskUnlock, and a step of somebody else.
LEMMA LockKeepsIInv ==
  ASSUME IInv, g_losTaskLock' \in Tasks \cup {NoTask},
         UNCHANGED <<ring, readWriteableCnt, waitList, taskStatus, op, mail, lost>>
  PROVE  IInv'
<1>1. TypeOK /\ op' \in [Tasks -> Sleep]
  BY DEF IInv, CellsConserved, TypeOK
<1>2. TypeOK'
  BY <1>1 DEF TypeOK, ring, mail
<1>3. \A d : Woken(d)' = Woken(d)
  BY DEF Woken
<1>4. \A d : Rights(d)' = Rights(d)
  BY <1>3 DEF Rights
<1>5. CellsConserved' /\ RingIsSound'
  BY <1>2, <1>4, SameRing
<1>6. BoxesConserved'
  BY <1>1, <1>3, MailSame
<1>7. NobodySleepsOnOffer' /\ ListsAreSound' /\ NoOperationOnDeleted' /\ DeletedIsSettled'
  BY DEF IInv, NobodySleepsOnOffer, ListsAreSound, NoOperationOnDeleted, DeletedIsSettled,
         ring, mail
<1>8. QED
  BY <1>5, <1>6, <1>7 DEF IInv

\* Every step keeps the invariant.
LEMMA NextIInv ==
  ASSUME ~MailInLock, IInv, [Next]_vars
  PROVE  IInv'
<1>1. ASSUME NEW len \in 1 .. MaxLen, LOS_QueueCreate(len) PROVE IInv'
  BY <1>1, CreateKeepsIInv
<1>2. CASE LOS_QueueDelete
  BY <1>2, DeleteKeepsIInv
<1>3. ASSUME NEW o \in Operations, OperateAtOnce(o) PROVE IInv'
  BY <1>3, AtOnceKeepsIInv
<1>4. ASSUME NEW t \in Tasks, NEW o \in Operations, NEW timeOut \in TimeOuts,
             OperatePends(t, o, timeOut)
      PROVE  IInv'
  BY <1>4, OperatePendsKeepsIInv
<1>5. ASSUME NEW t \in Tasks, OperateResumes(t) PROVE IInv'
  BY <1>5, ResumesKeepsIInv
<1>6. ASSUME NEW t \in Tasks, PendTimeout(t) PROVE IInv'
  BY <1>6, TimeoutKeepsIInv
<1>7. ASSUME NEW b \in Boxes, MailAllocAtOnce(b) PROVE IInv'
  BY <1>7, MailAtOnceKeepsIInv
<1>8. ASSUME NEW t \in Tasks, NEW timeOut \in TimeOuts, MailAllocPends(t, timeOut) PROVE IInv'
  BY <1>8, MailPendsKeepsIInv
<1>9. ASSUME NEW t \in Tasks, MailAllocResumes(t) PROVE IInv'
  BY <1>9, MailResumesKeepsIInv
<1>10. ASSUME NEW b \in Boxes, OsQueueMailFree(b) PROVE IInv'
  BY <1>10, MailFreeKeepsIInv
<1>11. ASSUME NEW t \in Tasks, LOS_TaskDelete(t) PROVE IInv'
  BY <1>11, TaskDeleteKeepsIInv
<1>12. ASSUME NEW t \in Tasks, LOS_TaskLock(t) PROVE IInv'
  BY <1>12, LockKeepsIInv DEF LOS_TaskLock
<1>13. CASE LOS_TaskUnlock
  BY <1>13, LockKeepsIInv DEF LOS_TaskUnlock
<1>14. CASE UNCHANGED vars
  <2>1. g_losTaskLock' \in Tasks \cup {NoTask}
    BY <1>14 DEF vars, IInv, CellsConserved, TypeOK
  <2>2. QED
    BY <1>14, <2>1, LockKeepsIInv DEF vars
<1>15. QED
  BY <1>1, <1>2, <1>3, <1>4, <1>5, <1>6, <1>7, <1>8, <1>9, <1>10, <1>11, <1>12, <1>13, <1>14
     DEF Next

-----------------------------------------------------------------------------
\* The inductive invariant holds in every reachable state.
LEMMA AlwaysIInv ==
  ASSUME ~MailInLock
  PROVE  Spec => []IInv
<1>1. Init => IInv
  BY InitIInv
<1>2. IInv /\ [Next]_vars => IInv'
  BY NextIInv
<1>3. QED
  BY <1>1, <1>2, PTL DEF Spec

\* Every cell of a queue is counted once, as a message or a cell on offer, as the right
\* of a woken task that has still to move its data, or as lost with a deleted task:
\* OsQueueOperate hands a right over instead of counting it and never does both.
THEOREM CellsAreConserved ==
  ASSUME ~MailInLock
  PROVE  Spec => []CellsConserved
<1>1. IInv => CellsConserved
  BY DEF IInv
<1>2. QED
  BY <1>1, AlwaysIInv, PTL

\* No task sleeps in a list of the queue while what it waits for is on offer, and the
\* lists hold exactly the sleeping tasks, whatever times out or is deleted meanwhile.
THEOREM NobodySleepsInVain ==
  ASSUME ~MailInLock
  PROVE  Spec => []NobodySleepsOnOffer
<1>1. IInv => NobodySleepsOnOffer
  BY DEF IInv
<1>2. QED
  BY <1>1, AlwaysIInv, PTL

\* The two checks of LOS_QueueDelete are enough: nobody sleeps on a deleted queue, and
\* no woken task moves a message into or out of its freed buffer.
THEOREM DeletedIsUnused ==
  ASSUME ~MailInLock
  PROVE  Spec => []NoOperationOnDeleted
<1>1. IInv => NoOperationOnDeleted
  BY DEF IInv
<1>2. QED
  BY <1>1, AlwaysIInv, PTL

\* Every mail box is in the pool, with one caller, on its way to one woken task, or lost
\* with a deleted task; OsQueueMailAlloc without a timeout returns a box.
THEOREM BoxesAreConserved ==
  ASSUME ~MailInLock
  PROVE  Spec => []BoxesConserved
<1>1. IInv => BoxesConserved
  BY DEF IInv
<1>2. QED
  BY <1>1, AlwaysIInv, PTL
-----------------------------------------------------------------------------
(* The refinement: each of the operations on the ring is one on the sequence of *)
(* the messages between its head and its tail.                                  *)

\* The position i cells after the head h of a ring of n cells.
At(h, n, i) == IF h + i < n THEN h + i ELSE h + i - n

\* The r messages from position h on, in the cells c of a ring of n cells.
Messages(c, h, n, r) == [i \in 1 .. r |-> c[At(h, n, i - 1)]]

\* Two sequences of the same length with the same elements.
LEMMA SameSequence ==
  ASSUME NEW S, NEW a \in Seq(S), NEW b \in Seq(S), Len(a) = Len(b),
         \A i \in 1 .. Len(a) : a[i] = b[i]
  PROVE  a = b
OBVIOUS

\* Positions stay in the ring.
LEMMA AtFacts ==
  ASSUME NEW n \in Nat \ {0}, NEW h \in 0 .. n - 1, NEW i \in 0 .. n - 1
  PROVE  At(h, n, i) \in 0 .. n - 1
BY DEF At

\* The sequence s holds them in order.
Spells(s, c, h, n, r, S) ==
  /\ s \in Seq(S) /\ Len(s) = r
  /\ \A i \in 1 .. r : s[i] = c[At(h, n, i - 1)]

\* The messages are a sequence.
LEMMA MessagesAreASequence ==
  ASSUME NEW S, NEW n \in Nat \ {0}, NEW h \in 0 .. n - 1, NEW r \in 0 .. n,
         NEW m \in Nat, n <= m, NEW c \in [0 .. m - 1 -> S]
  PROVE  Spells(Messages(c, h, n, r), c, h, n, r, S)
<1>1. ASSUME NEW i \in 1 .. r PROVE c[At(h, n, i - 1)] \in S
  <2>1. i - 1 \in 0 .. n - 1
    OBVIOUS
  <2>2. At(h, n, i - 1) \in 0 .. m - 1
    BY <2>1, AtFacts
  <2>3. QED
    BY <2>2
<1>2. QED
  BY <1>1 DEF Messages, Spells

\* What reading at h and moving on to k does to the messages, and what writing v at the
\* tail (making the cells d of c), or at the head after moving back to k, does to them.
TakesFirst(c, h, k, n, r) ==
  /\ Messages(c, h, n, r) # <<>>
  /\ Head(Messages(c, h, n, r)) = c[h]
  /\ Messages(c, k, n, r - 1) = Tail(Messages(c, h, n, r))

Appends(c, d, h, n, r, v) == Messages(d, h, n, r + 1) = Append(Messages(c, h, n, r), v)

Prepends(c, d, h, k, n, r, v) == Messages(d, k, n, r + 1) = <<v>> \o Messages(c, h, n, r)

\* OsQueueBufferOperate of a read: the first message is taken off.
LEMMA ReadTakesFirst ==
  ASSUME NEW S, NEW n \in Nat \ {0}, NEW h \in 0 .. n - 1, NEW r \in 1 .. n,
         NEW m \in Nat, n <= m, NEW c \in [0 .. m - 1 -> S],
         NEW k, k = IF h + 1 = n THEN 0 ELSE h + 1
  PROVE  TakesFirst(c, h, k, n, r)
<1> DEFINE old == Messages(c, h, n, r)
           new == Messages(c, k, n, r - 1)
<1>1. k \in 0 .. n - 1 /\ r - 1 \in 0 .. n
  OBVIOUS
<1>2. /\ old \in Seq(S) /\ Len(old) = r
      /\ \A i \in 1 .. r : old[i] = c[At(h, n, i - 1)]
  <2>1. Spells(old, c, h, n, r, S)
    BY MessagesAreASequence
  <2>2. QED
    BY <2>1 DEF Spells
<1>3. /\ new \in Seq(S) /\ Len(new) = r - 1
      /\ \A i \in 1 .. r - 1 : new[i] = c[At(k, n, i - 1)]
  <2>1. Spells(new, c, k, n, r - 1, S)
    BY <1>1, MessagesAreASequence
  <2>2. QED
    BY <2>1 DEF Spells
<1> HIDE DEF old, new
<1>4. old # <<>> /\ Head(old) = old[1]
  BY <1>2
<1>5. At(h, n, 0) = h /\ old[1] = c[At(h, n, 0)]
  BY <1>2 DEF At
<1>6. /\ Tail(old) \in Seq(S) /\ Len(Tail(old)) = r - 1
      /\ \A i \in 1 .. r - 1 : Tail(old)[i] = old[i + 1]
  BY <1>2, <1>4
<1>7. ASSUME NEW i \in 1 .. r - 1 PROVE Tail(old)[i] = new[i]
  <2>1. At(k, n, i - 1) = At(h, n, i)
    BY DEF At
  <2>2. i + 1 \in 1 .. r /\ (i + 1) - 1 = i
    OBVIOUS
  <2>3. old[i + 1] = c[At(h, n, i)]
    BY <1>2, <2>2
  <2>4. QED
    BY <1>3, <1>6, <2>1, <2>3
<1>8. new = Tail(old)
  BY <1>3, <1>6, <1>7
<1>9. QED
  BY <1>4, <1>5, <1>8 DEF TakesFirst, old, new

\* OsQueueBufferOperate of a write at the tail: its message becomes the last.
LEMMA TailWriteAppends ==
  ASSUME NEW S, NEW n \in Nat \ {0}, NEW h \in 0 .. n - 1, NEW r \in 0 .. n - 1,
         NEW m \in Nat, n <= m, NEW c \in [0 .. m - 1 -> S], NEW v \in S,
         NEW d, d = [c EXCEPT ![At(h, n, r)] = v]
  PROVE  Appends(c, d, h, n, r, v)
<1> DEFINE old == Messages(c, h, n, r)
           new == Messages(d, h, n, r + 1)
           p == At(h, n, r)
<1>1. p \in 0 .. n - 1 /\ p \in 0 .. m - 1 /\ r + 1 \in 0 .. n /\ r \in 0 .. n
  BY AtFacts
<1>2. d \in [0 .. m - 1 -> S] /\ d[p] = v /\ \A q \in 0 .. m - 1 : q # p => d[q] = c[q]
  BY <1>1
<1>3. /\ old \in Seq(S) /\ Len(old) = r
      /\ \A i \in 1 .. r : old[i] = c[At(h, n, i - 1)]
  <2>1. Spells(old, c, h, n, r, S)
    BY <1>1, MessagesAreASequence
  <2>2. QED
    BY <2>1 DEF Spells
<1>4. /\ new \in Seq(S) /\ Len(new) = r + 1
      /\ \A i \in 1 .. r + 1 : new[i] = d[At(h, n, i - 1)]
  <2>1. Spells(new, d, h, n, r + 1, S)
    BY <1>1, <1>2, MessagesAreASequence
  <2>2. QED
    BY <2>1 DEF Spells
<1> HIDE DEF old, new
<1>5. /\ Append(old, v) \in Seq(S) /\ Len(Append(old, v)) = r + 1
      /\ \A i \in 1 .. r : Append(old, v)[i] = old[i]
      /\ Append(old, v)[r + 1] = v
  BY <1>3
<1>6. new[r + 1] = v
  <2>1. r + 1 \in 1 .. r + 1 /\ (r + 1) - 1 = r
    OBVIOUS
  <2>2. QED
    BY <1>2, <1>4, <2>1
<1>7. ASSUME NEW i \in 1 .. r PROVE new[i] = old[i]
  <2>1. i - 1 \in 0 .. n - 1 /\ i - 1 # r /\ i \in 1 .. r + 1
    OBVIOUS
  <2>2. At(h, n, i - 1) # p /\ At(h, n, i - 1) \in 0 .. m - 1
    BY <2>1 DEF At
  <2>3. QED
    BY <1>2, <1>3, <1>4, <2>1, <2>2
<1>8. ASSUME NEW i \in 1 .. r + 1 PROVE new[i] = Append(old, v)[i]
  <2>1. i \in 1 .. r \/ i = r + 1
    OBVIOUS
  <2>2. QED
    BY <1>5, <1>6, <1>7, <2>1
<1>9. new = Append(old, v)
  BY <1>4, <1>5, <1>8, SameSequence
<1>10. QED
  BY <1>9 DEF Appends, old, new

\* OsQueueBufferOperate of a write at the head: its message becomes the first.
LEMMA HeadWritePrepends ==
  ASSUME NEW S, NEW n \in Nat \ {0}, NEW h \in 0 .. n - 1, NEW r \in 0 .. n - 1,
         NEW m \in Nat, n <= m, NEW c \in [0 .. m - 1 -> S], NEW v \in S,
         NEW k, k = IF h = 0 THEN n - 1 ELSE h - 1,
         NEW d, d = [c EXCEPT ![k] = v]
  PROVE  Prepends(c, d, h, k, n, r, v)
<1> DEFINE old == Messages(c, h, n, r)
           new == Messages(d, k, n, r + 1)
<1>1. k \in 0 .. n - 1 /\ k \in 0 .. m - 1 /\ r + 1 \in 0 .. n /\ r \in 0 .. n
  OBVIOUS
<1>2. d \in [0 .. m - 1 -> S] /\ d[k] = v /\ \A q \in 0 .. m - 1 : q # k => d[q] = c[q]
  BY <1>1
<1>3. /\ old \in Seq(S) /\ Len(old) = r
      /\ \A i \in 1 .. r : old[i] = c[At(h, n, i - 1)]
  <2>1. Spells(old, c, h, n, r, S)
    BY <1>1, MessagesAreASequence
  <2>2. QED
    BY <2>1 DEF Spells
<1>4. /\ new \in Seq(S) /\ Len(new) = r + 1
      /\ \A i \in 1 .. r + 1 : new[i] = d[At(k, n, i - 1)]
  <2>1. Spells(new, d, k, n, r + 1, S)
    BY <1>1, <1>2, MessagesAreASequence
  <2>2. QED
    BY <2>1 DEF Spells
<1> HIDE DEF old, new
<1>5. /\ <<v>> \o old \in Seq(S) /\ Len(<<v>> \o old) = r + 1
      /\ (<<v>> \o old)[1] = v
      /\ \A i \in 2 .. r + 1 : (<<v>> \o old)[i] = old[i - 1]
  BY <1>3
<1>6. new[1] = v
  <2>1. At(k, n, 0) = k /\ 1 \in 1 .. r + 1 /\ 1 - 1 = 0
    BY <1>1 DEF At
  <2>2. QED
    BY <1>2, <1>4, <2>1
<1>7. ASSUME NEW i \in 2 .. r + 1 PROVE new[i] = old[i - 1]
  <2>1. /\ i - 1 \in 0 .. n - 1 /\ i - 1 # 0 /\ 0 \in 0 .. n - 1
        /\ i \in 1 .. r + 1 /\ i - 1 \in 1 .. r
    OBVIOUS
  <2>2. At(k, n, i - 1) = At(h, n, (i - 1) - 1) /\ At(k, n, 0) = k
    BY <1>1 DEF At
  <2>3. At(k, n, i - 1) # k /\ At(k, n, i - 1) \in 0 .. m - 1
    BY <1>1, <2>1 DEF At
  <2>4. old[i - 1] = c[At(h, n, (i - 1) - 1)]
    BY <1>3, <2>1
  <2>5. QED
    BY <1>2, <1>4, <2>1, <2>2, <2>3, <2>4
<1>8. ASSUME NEW i \in 1 .. r + 1 PROVE new[i] = (<<v>> \o old)[i]
  <2>1. i \in 2 .. r + 1 \/ i = 1
    OBVIOUS
  <2>2. QED
    BY <1>5, <1>6, <1>7, <2>1
<1>9. new = <<v>> \o old
  BY <1>4, <1>5, <1>8, SameSequence
<1>10. QED
  BY <1>9 DEF Prepends, old, new
\* The messages of the queue, before and after a step.
LEMMA ContentFacts ==
  /\ queueLen # 0 => Content = Messages(cell, queueHead, queueLen, Rights("READ"))
  /\ queueLen = 0 => Content = <<>>
  /\ queueLen' # 0 => Content' = Messages(cell', queueHead', queueLen', Rights("READ")')
  /\ queueLen' = 0 => Content' = <<>>
BY DEF Content, Unread, Rights, Messages, Place, At

\* A step that moves no message.
LEMMA SameContent ==
  ASSUME UNCHANGED ring, Rights("READ")' = Rights("READ")
  PROVE  UNCHANGED Deque!vars
<1>1. UNCHANGED <<queueLen, queueHead, queueTail, cell, bufferAddr>>
  BY DEF ring
<1>2. Content' = Content
  BY <1>1, ContentFacts
<1>3. QED
  BY <1>1, <1>2 DEF Deque!vars

\* A whole operation on the ring is one on the sequence of its messages, and there is a
\* message to read, or a cell to write to.
LEMMA OperationIsAbstract ==
  ASSUME IInv, queueLen # 0, NEW o \in Operations, Moved(o), OsQueueBufferOperate(o),
         UNCHANGED queueLen
  PROVE  Deque!Next
<1>1. TypeOK /\ RingIsSound
  BY DEF IInv, CellsConserved
<1>2. /\ queueLen \in Nat \ {0} /\ queueHead \in 0 .. queueLen - 1
      /\ MaxLen \in Nat /\ queueLen <= MaxLen
      /\ cell \in [0 .. MaxLen - 1 -> Values \cup {Nothing}]
  BY <1>1, QueueAssumption DEF TypeOK, RingIsSound
<1> PICK r \in 0 .. queueLen : r = Rights("READ")
  BY MessagesFacts
<1>3. queueTail = At(queueHead, queueLen, r)
  BY <1>1 DEF RingIsSound, Place, At
<1>4. /\ Content = Messages(cell, queueHead, queueLen, r)
      /\ Content' = Messages(cell', queueHead', queueLen, Rights("READ")')
  BY ContentFacts
<1>5. Len(Content) = r
  <2>1. Spells(Content, cell, queueHead, queueLen, r, Values \cup {Nothing})
    BY <1>2, <1>4, MessagesAreASequence
  <2>2. QED
    BY <2>1 DEF Spells
<1>6. /\ o.dir = "READ" => Rights("READ")' = r - 1 /\ r \in 1 .. queueLen
      /\ o.dir = "WRITE" => Rights("READ")' = r + 1 /\ r \in 0 .. queueLen - 1
  <2>1. Rights("READ")' \in 0 .. queueLen
    BY MessagesFacts
  <2>2. /\ o.dir = "READ" => Rights("READ")' = r - 1
        /\ o.dir = "WRITE" => Rights("READ")' = r + 1
    BY MessagesFacts
  <2>3. QED
    BY <1>2, <2>1, <2>2
<1>7. CASE o.dir = "READ"
  <2>1. /\ bufferAddr' = cell[queueHead] /\ cell' = cell
        /\ queueHead' = IF queueHead + 1 = queueLen THEN 0 ELSE queueHead + 1
    BY <1>7 DEF OsQueueBufferOperate, ReadCell, Forward
  <2>2. TakesFirst(cell, queueHead, queueHead', queueLen, r)
    BY <1>2, <1>6, <1>7, <2>1, ReadTakesFirst
  <2>3. Deque!Read
    BY <1>4, <1>6, <1>7, <2>1, <2>2 DEF TakesFirst, Deque!Read
  <2>4. QED
    BY <2>3 DEF Deque!Next
<1>8. CASE o.dir = "WRITE" /\ o.end = "HEAD"
  <2>1. /\ queueHead' = IF queueHead = 0 THEN queueLen - 1 ELSE queueHead - 1
        /\ bufferAddr' = bufferAddr /\ cell' = [cell EXCEPT ![queueHead'] = o.val]
        /\ o.val \in Values
    BY <1>8, OperationFacts DEF OsQueueBufferOperate, WriteHead, WriteCell, Backward
  <2>2. Prepends(cell, cell', queueHead, queueHead', queueLen, r, o.val)
    BY <1>2, <1>6, <1>8, <2>1, HeadWritePrepends
  <2>3. Deque!WriteHead(o.val)
    <3>1. Len(Content) < queueLen
      BY <1>2, <1>5, <1>6, <1>8
    <3>2. Content' = <<o.val>> \o Content
      BY <1>4, <1>6, <1>8, <2>1, <2>2 DEF Prepends
    <3>3. QED
      BY <2>1, <3>1, <3>2 DEF Deque!WriteHead
  <2>4. QED
    BY <2>1, <2>3 DEF Deque!Next
<1>9. CASE o.dir = "WRITE" /\ o.end = "TAIL"
  <2>1. /\ queueHead' = queueHead /\ bufferAddr' = bufferAddr
        /\ cell' = [cell EXCEPT ![queueTail] = o.val] /\ o.val \in Values
    BY <1>9, OperationFacts DEF OsQueueBufferOperate, WriteTail, WriteCell
  <2>2. Appends(cell, cell', queueHead, queueLen, r, o.val)
    BY <1>2, <1>3, <1>6, <1>9, <2>1, TailWriteAppends
  <2>3. Deque!WriteTail(o.val)
    <3>1. Len(Content) < queueLen
      BY <1>2, <1>5, <1>6, <1>9
    <3>2. Content' = Append(Content, o.val)
      BY <1>4, <1>6, <1>9, <2>1, <2>2 DEF Appends
    <3>3. QED
      BY <2>1, <3>1, <3>2 DEF Deque!WriteTail
  <2>4. QED
    BY <2>1, <2>3 DEF Deque!Next
<1>10. QED
  BY <1>7, <1>8, <1>9 DEF OsQueueBufferOperate

\* LOS_QueueCreate makes an empty queue, whatever woken tasks of the mail pool are left.
LEMMA CreateIsAbstract ==
  ASSUME IInv, NEW len \in 1 .. MaxLen, LOS_QueueCreate(len)
  PROVE  Deque!Next
<1>1. /\ queueLen = 0 /\ queueLen' = len /\ len # 0 /\ bufferAddr' = bufferAddr
      /\ readWriteableCnt'["READ"] = 0 /\ lost' = lost
      /\ taskStatus' = taskStatus /\ op' = op
  BY QueueAssumption DEF LOS_QueueCreate, Dirs
<1>2. Woken("READ")' = {} /\ lost["READ"] = 0
  BY <1>1, DeletedFacts DEF Woken
<1>3. Rights("READ")' = 0 + 0 + 0
  BY <1>1, <1>2, FS_EmptySet DEF Rights
<1>4. Content' = <<>>
  BY <1>1, <1>3, ContentFacts DEF Messages
<1>5. Deque!Create(len)
  BY <1>1, <1>4 DEF Deque!Create
<1>6. QED
  BY <1>5 DEF Deque!Next

\* A step in which no task gains or loses a right moves no message.
LEMMA SameWoken ==
  ASSUME UNCHANGED <<ring, readWriteableCnt, lost>>,
         \A u \in Tasks : \/ taskStatus'[u] = taskStatus[u] /\ op'[u] = op[u]
                          \/ /\ ~(taskStatus[u] = "woken" /\ op[u].what.dir = "READ")
                             /\ ~(taskStatus'[u] = "woken" /\ op'[u].what.dir = "READ")
  PROVE  UNCHANGED Deque!vars
<1>1. Woken("READ")' = Woken("READ")
  BY DEF Woken
<1>2. Rights("READ")' = Rights("READ")
  BY <1>1, SameRights
<1>3. QED
  BY <1>2, SameContent

\* Every step is one of the bounded queue or changes nothing of it.
LEMMA NextIsAbstract ==
  ASSUME IInv, [Next]_vars
  PROVE  [Deque!Next]_(Deque!vars)
<1> USE DEF ring
<1>0. TypeOK
  BY DEF IInv, CellsConserved
<1>1. ASSUME NEW len \in 1 .. MaxLen, LOS_QueueCreate(len) PROVE Deque!Next
  BY <1>1, CreateIsAbstract
<1>2. CASE LOS_QueueDelete
  <2>1. queueLen' = 0 /\ bufferAddr' = bufferAddr
    BY <1>2 DEF LOS_QueueDelete
  <2>2. Content' = <<>>
    BY <2>1, ContentFacts
  <2>3. Deque!Delete
    BY <2>1, <2>2 DEF Deque!Delete
  <2>4. QED
    BY <2>3 DEF Deque!Next
<1>3. ASSUME NEW o \in Operations, OperateAtOnce(o) PROVE Deque!Next
  <2>1. Moved(o) /\ queueLen # 0
    BY <1>3, AtOnceMoves
  <2>2. QED
    BY <1>3, <2>1, OperationIsAbstract DEF OperateAtOnce
<1>4. ASSUME NEW t \in Tasks, NEW o \in Operations, NEW timeOut \in TimeOuts,
             OperatePends(t, o, timeOut)
      PROVE  UNCHANGED Deque!vars
  <2>1. /\ taskStatus[t] = "user" /\ taskStatus'[t] = "pend"
        /\ \A u \in Tasks \ {t} : taskStatus'[u] = taskStatus[u] /\ op'[u] = op[u]
        /\ UNCHANGED <<ring, readWriteableCnt, lost>>
    BY <1>0, <1>4 DEF OperatePends, Pend, TypeOK
  <2>2. QED
    BY <2>1, SameWoken
<1>5. ASSUME NEW t \in Tasks, OperateResumes(t) PROVE Deque!Next \/ UNCHANGED Deque!vars
  <2>1. CASE taskStatus[t] = "woken"
    BY <1>5, <2>1, ResumesMoves, OperationIsAbstract
  <2>2. CASE taskStatus[t] # "woken"
    <3>1. /\ taskStatus'[t] = "user"
          /\ \A u \in Tasks \ {t} : taskStatus'[u] = taskStatus[u] /\ op'[u] = op[u]
          /\ UNCHANGED <<ring, readWriteableCnt, lost>>
      BY <1>0, <1>5, <2>2 DEF OperateResumes, TypeOK
    <3>2. QED
      BY <2>2, <3>1, SameWoken
  <2>3. QED
    BY <2>1, <2>2
<1>6. ASSUME NEW t \in Tasks, PendTimeout(t) PROVE UNCHANGED Deque!vars
  <2>1. /\ taskStatus[t] = "pend" /\ taskStatus'[t] = "timeout" /\ op' = op
        /\ \A u \in Tasks \ {t} : taskStatus'[u] = taskStatus[u] /\ op'[u] = op[u]
        /\ UNCHANGED <<ring, readWriteableCnt, lost>>
    BY <1>0, <1>6 DEF PendTimeout, TypeOK
  <2>2. QED
    BY <2>1, SameWoken
<1>7. ASSUME NEW b \in Boxes, MailAllocAtOnce(b) PROVE UNCHANGED Deque!vars
  <2>1. UNCHANGED <<ring, readWriteableCnt, lost, taskStatus, op>>
    BY <1>7 DEF MailAllocAtOnce
  <2>2. QED
    BY <2>1, SameWoken
<1>8. ASSUME NEW t \in Tasks, NEW timeOut \in TimeOuts, MailAllocPends(t, timeOut)
      PROVE  UNCHANGED Deque!vars
  <2>1. /\ taskStatus[t] = "user" /\ op'[t].what.dir = "MAIL"
        /\ \A u \in Tasks \ {t} : taskStatus'[u] = taskStatus[u] /\ op'[u] = op[u]
        /\ UNCHANGED <<ring, readWriteableCnt, lost>>
    BY <1>0, <1>8 DEF MailAllocPends, Pend, MailOp, TypeOK
  <2>2. QED
    BY <2>1, SameWoken
<1>9. ASSUME NEW t \in Tasks, MailAllocResumes(t) PROVE UNCHANGED Deque!vars
  <2>1. /\ op[t].what.dir = "MAIL" /\ taskStatus'[t] = "user"
        /\ \A u \in Tasks \ {t} : taskStatus'[u] = taskStatus[u] /\ op'[u] = op[u]
        /\ UNCHANGED <<ring, readWriteableCnt, lost>>
    BY <1>0, <1>9 DEF MailAllocResumes, MailOp, TypeOK
  <2>2. QED
    BY <2>1, SameWoken
<1>10. ASSUME NEW b \in Boxes, OsQueueMailFree(b) PROVE UNCHANGED Deque!vars
  <2>1. UNCHANGED <<ring, readWriteableCnt, lost, op>>
    BY <1>10 DEF OsQueueMailFree, Wake
  <2>2. ASSUME NEW u \in Tasks
        PROVE  \/ taskStatus'[u] = taskStatus[u]
               \/ op[u].what.dir = "MAIL"
    <3>1. CASE waitList["MAIL"] = <<>>
      BY <1>10, <3>1 DEF OsQueueMailFree
    <3>2. CASE waitList["MAIL"] # <<>>
      <4>1. waitList["MAIL"] \in Seq(Tasks)
        BY <1>0 DEF TypeOK
      <4>2. /\ Head(waitList["MAIL"]) \in Tasks
            /\ Head(waitList["MAIL"]) \in Listed(waitList["MAIL"])
        BY <3>2, <4>1, FirstIsListed
      <4>3. op[Head(waitList["MAIL"])].what.dir = "MAIL"
        BY <4>2 DEF IInv, NobodySleepsOnOffer
      <4>4. taskStatus' = [taskStatus EXCEPT ![Head(waitList["MAIL"])] = "woken"]
        BY <1>10, <3>2 DEF OsQueueMailFree, Wake
      <4>5. QED
        BY <1>0, <4>2, <4>3, <4>4 DEF TypeOK
    <3>3. QED
      BY <3>1, <3>2
  <2>3. QED
    BY <2>1, <2>2, SameWoken
<1>11. ASSUME NEW t \in Tasks, LOS_TaskDelete(t) PROVE UNCHANGED Deque!vars
  <2>1. Rights("READ")' = Rights("READ")
    BY <1>11, TaskDeleteRights DEF Dirs
  <2>2. QED
    BY <1>11, <2>1, SameContent DEF LOS_TaskDelete
<1>12. ASSUME NEW t \in Tasks, LOS_TaskLock(t) PROVE UNCHANGED Deque!vars
  BY <1>12, SameWoken DEF LOS_TaskLock
<1>13. CASE LOS_TaskUnlock
  BY <1>13, SameWoken DEF LOS_TaskUnlock
<1>14. CASE UNCHANGED vars
  BY <1>14, SameWoken DEF vars
<1>15. QED
  BY <1>1, <1>2, <1>3, <1>4, <1>5, <1>6, <1>7, <1>8, <1>9, <1>10, <1>11, <1>12, <1>13, <1>14
     DEF Next

\* A message queue implements a bounded queue whose operations are single steps: what a
\* woken task moves later is what it would have moved at once, in the order of the
\* steps, and no message is lost, doubled, overtaken or overwritten in the ring.
THEOREM QueueIsADeque ==
  ASSUME ~MailInLock
  PROVE  Spec => ImplementsDeque
<1>1. Init => Deque!Init
  BY ContentFacts DEF Init, Deque!Init
<1>2. IInv /\ [Next]_vars => [Deque!Next]_(Deque!vars)
  BY NextIsAbstract
<1>3. QED
  BY <1>1, <1>2, AlwaysIInv, PTL DEF Spec, ImplementsDeque, Deque!Spec
=============================================================================
