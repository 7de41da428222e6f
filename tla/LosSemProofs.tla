---------------------------- MODULE LosSemProofs ----------------------------
(***************************************************************************)
(* Proofs about LosSem for any finite set of tasks and any limits of the   *)
(* semaphore.  PermitsAccounted is made inductive by four facts: no task is*)
(* listed twice, a task that has a permit is in the user's code, only woken*)
(* tasks are stale, and nobody has or is given a permit of a semaphore that*)
(* does not exist.                                                         *)
(***************************************************************************)
EXTENDS LosSem, PendListProofs

\* The woken tasks that were handed a permit.
Receivers == {t \in Tasks : Granted(t)}

\* What the code keeps beside PermitsAccounted.
Bookkeeping ==
  /\ Distinct(semList)
  /\ \A t \in inside : taskStatus[t] = "user"
  /\ \A t \in stale : taskStatus[t] = "woken"
  /\ ~Used => inside = {} /\ Receivers = {}

IInv == PermitsAccounted /\ Bookkeeping

-----------------------------------------------------------------------------
\* The sets that are counted are finite.
LEMMA CountedAreFinite ==
  ASSUME TypeOK
  PROVE  /\ IsFiniteSet(inside) /\ Cardinality(inside) \in Nat
         /\ IsFiniteSet(Receivers) /\ Cardinality(Receivers) \in Nat
<1>1. inside \in SUBSET Tasks /\ Receivers \in SUBSET Tasks
  BY DEF TypeOK, Receivers
<1>2. IsFiniteSet(inside) /\ IsFiniteSet(Receivers)
  BY <1>1, FS_Subset, SemAssumption
<1>3. QED
  BY <1>2, FS_CardinalityType

-----------------------------------------------------------------------------
\* Before the first semaphore is created.
LEMMA InitIInv == Init => IInv
<1> SUFFICES ASSUME Init PROVE IInv
  OBVIOUS
<1>1. TypeOK
  BY DEF Init, TypeOK
<1>2. ~Used /\ PermitsConserved
  BY DEF Init, Used, PermitsConserved
<1>3. NobodySleepsOnOffer
  BY EmptyList DEF Init, NobodySleepsOnOffer
<1>4. Receivers = {}
  BY DEF Init, Receivers, Granted
<1>5. Bookkeeping
  BY <1>4, EmptyList DEF Init, Bookkeeping
<1>6. QED
  BY <1>1, <1>2, <1>3, <1>5 DEF IInv, PermitsAccounted

\* OsSemCreate: all permits of the new semaphore are on offer.
LEMMA CreateKeepsIInv ==
  ASSUME IInv, NEW count \in Counts, NEW maxCount \in MaxCounts,
         OsSemCreate(count, maxCount)
  PROVE  IInv'
<1> USE DEF IInv, PermitsAccounted, OsSemCreate
<1>1. count \in Nat /\ maxCount \in Nat \ {0} /\ count <= maxCount
  BY SemAssumption DEF Counts
<1>2. TypeOK'
  BY <1>1 DEF TypeOK
<1>3. inside = {} /\ Receivers = {} /\ Receivers' = {} /\ inside' = {}
  BY DEF Bookkeeping, Receivers, Granted
<1>4. PermitsConserved'
  <2>1. {t \in Tasks : Granted(t)}' = {}
    BY <1>3 DEF Receivers
  <2>2. permits' = semCount' + 0 + 0
    BY <1>1
  <2>3. QED
    BY <1>3, <2>1, <2>2, FS_EmptySet DEF PermitsConserved
<1>5. semList = <<>>
  BY DEF NobodySleepsOnOffer
<1>6. NobodySleepsOnOffer'
  BY <1>5 DEF NobodySleepsOnOffer
<1>7. Bookkeeping'
  BY <1>3, EmptyList DEF Bookkeeping
<1>8. QED
  BY <1>2, <1>4, <1>6, <1>7

\* LOS_SemDelete: every woken task is stale from now on.
LEMMA DeleteKeepsIInv ==
  ASSUME IInv, LOS_SemDelete
  PROVE  IInv'
<1> USE DEF IInv, PermitsAccounted, LOS_SemDelete
<1>1. TypeOK'
  BY DEF TypeOK
<1>2. ~Used' /\ PermitsConserved'
  BY DEF Used, PermitsConserved
<1>3. NobodySleepsOnOffer'
  BY DEF NobodySleepsOnOffer, Deletable
<1>4. Receivers' = {}
  BY DEF Receivers, Granted
<1>5. Bookkeeping'
  BY <1>4 DEF Bookkeeping, TypeOK
<1>6. QED
  BY <1>1, <1>2, <1>3, <1>5

\* LOS_SemPend of a permit on offer.
LEMMA PendAtOnceKeepsIInv ==
  ASSUME IInv, NEW t \in Tasks, SemPendAtOnce(t)
  PROVE  IInv'
<1> USE DEF IInv, PermitsAccounted, SemPendAtOnce
<1>1. TypeOK'
  BY SemAssumption DEF TypeOK
<1>2. Receivers' = Receivers
  BY DEF Receivers, Granted
<1>3. PermitsConserved'
  <2>1. Cardinality(inside') = Cardinality(inside) + 1
    BY CountedAreFinite, OneMoreOrLess
  <2>2. /\ permits = semCount + Cardinality(inside) + Cardinality(Receivers)
        /\ semCount \in Nat /\ semCount' = semCount - 1 /\ permits' = permits
    BY SemAssumption DEF PermitsConserved, Receivers, TypeOK
  <2>3. permits' = semCount' + Cardinality(inside') + Cardinality(Receivers')
    BY <1>2, <2>1, <2>2, CountedAreFinite
  <2>4. QED
    BY <2>3 DEF PermitsConserved, Receivers
<1>4. NobodySleepsOnOffer'
  BY DEF NobodySleepsOnOffer, TypeOK
<1>5. Bookkeeping'
  BY DEF Bookkeeping, Used
<1>6. QED
  BY <1>1, <1>3, <1>4, <1>5

\* LOS_SemPend that waits: nothing is on offer and the task is in no list yet.
LEMMA PendWaitsKeepsIInv ==
  ASSUME IInv, NEW t \in Tasks, NEW ever \in BOOLEAN, SemPendWaits(t, ever)
  PROVE  IInv'
<1> USE DEF IInv, PermitsAccounted, SemPendWaits
<1>1. semList \in Seq(Tasks) /\ t \notin Listed(semList)
  BY DEF TypeOK, NobodySleepsOnOffer
<1>2. /\ semList' \in Seq(Tasks) /\ semList' # <<>>
      /\ Listed(semList)' = Listed(semList) \cup {t}
      /\ Distinct(semList)'
  BY <1>1, TailInsert DEF Bookkeeping
<1>3. TypeOK'
  BY <1>2 DEF TypeOK
<1>4. Receivers' = Receivers
  BY DEF Receivers, Granted, TypeOK
<1>5. PermitsConserved'
  BY <1>4 DEF PermitsConserved, Receivers, Used
<1>6. NobodySleepsOnOffer'
  BY <1>2 DEF NobodySleepsOnOffer, TypeOK, Used
<1>7. Bookkeeping'
  BY <1>2 DEF Bookkeeping, TypeOK, Used
<1>8. QED
  BY <1>3, <1>5, <1>6, <1>7

\* The end of LOS_SemPend: a permit under way arrives.
LEMMA PendResumesKeepsIInv ==
  ASSUME IInv, NEW t \in Tasks, SemPendResumes(t)
  PROVE  IInv'
<1> USE DEF IInv, PermitsAccounted, SemPendResumes
<1>1. TypeOK'
  BY DEF TypeOK
<1>2. t \notin inside
  BY DEF Bookkeeping
<1>3. Receivers' = Receivers \ {t}
  BY DEF Receivers, Granted, TypeOK
<1>4. PermitsConserved'
  <2>1. CASE Granted(t)
    <3>1. t \in Receivers
      BY <2>1 DEF Receivers
    <3>2. Cardinality(Receivers') = Cardinality(Receivers) - 1
      BY <1>3, <3>1, CountedAreFinite, OneMoreOrLess
    <3>3. Cardinality(inside') = Cardinality(inside) + 1
      BY <1>2, <2>1, CountedAreFinite, OneMoreOrLess
    <3>4. Used => permits = semCount + Cardinality(inside) + Cardinality(Receivers)
      BY DEF PermitsConserved, Receivers
    <3>5. semCount \in Nat
      BY SemAssumption DEF TypeOK
    <3>6. Used => permits = semCount + Cardinality(inside') + Cardinality(Receivers')
      BY <3>2, <3>3, <3>4, <3>5, CountedAreFinite
    <3>7. QED
      BY <3>6 DEF PermitsConserved, Receivers, Used
  <2>2. CASE ~Granted(t)
    <3>1. Receivers' = Receivers /\ inside' = inside
      BY <1>3, <2>2 DEF Receivers
    <3>2. QED
      BY <3>1 DEF PermitsConserved, Receivers, Used
  <2>3. QED
    BY <2>1, <2>2
<1>5. NobodySleepsOnOffer'
  BY DEF NobodySleepsOnOffer, TypeOK, Used
<1>6. Bookkeeping'
  <2>1. ~Used => ~Granted(t)
    BY DEF Bookkeeping, Receivers
  <2>2. QED
    BY <1>3, <2>1 DEF Bookkeeping, TypeOK, Used
<1>7. QED
  BY <1>1, <1>4, <1>5, <1>6

\* A task that sleeps leaves the list and is not given a permit.
LEMMA TimeoutKeepsIInv ==
  ASSUME IInv, NEW t \in Tasks, PendTimeout(t)
  PROVE  IInv'
<1> USE DEF IInv, PermitsAccounted, PendTimeout
<1>1. semList \in Seq(Tasks) /\ Distinct(semList) /\ t \in Listed(semList)
  BY DEF TypeOK, NobodySleepsOnOffer, Bookkeeping
<1>2. /\ semList' \in Seq(Tasks) /\ Distinct(semList)'
      /\ Listed(semList)' = Listed(semList) \ {t}
  BY <1>1, ListDelete
<1>3. TypeOK'
  BY <1>2 DEF TypeOK
<1>4. Receivers' = Receivers
  BY DEF Receivers, Granted, TypeOK
<1>5. PermitsConserved'
  BY <1>4 DEF PermitsConserved, Receivers, Used
<1>6. semList # <<>>
  BY <1>1, EmptyList
<1>7. NobodySleepsOnOffer'
  BY <1>2, <1>6 DEF NobodySleepsOnOffer, TypeOK, Used
<1>8. Bookkeeping'
  BY <1>2, <1>4 DEF Bookkeeping, TypeOK, Used
<1>9. QED
  BY <1>3, <1>5, <1>7, <1>8

\* What LOS_SemPost does: one more permit is on offer or under way, and a task
\* that is woken was asleep.
LEMMA PostFacts ==
  ASSUME IInv, Used, SemPost, UNCHANGED <<maxSemCount, stale>>
  PROVE  /\ semCount' \in 0 .. maxSemCount /\ semList' \in Seq(Tasks)
         /\ taskStatus' \in [Tasks -> {"user", "pend", "woken", "timeout"}]
         /\ semCount' + Cardinality(Receivers')
              = semCount + Cardinality(Receivers) + 1
         /\ IsFiniteSet(Receivers') /\ Cardinality(Receivers') \in Nat
         /\ NobodySleepsOnOffer'
         /\ Distinct(semList)'
         /\ \A t \in Tasks : taskStatus[t] # "pend" => taskStatus'[t] = taskStatus[t]
<1> USE DEF IInv, PermitsAccounted
<1>1. semCount \in Nat /\ maxSemCount \in Nat /\ semCount \in 0 .. maxSemCount
  BY SemAssumption DEF TypeOK
<1>2. CASE semList = <<>>
  <2>1. semCount' = semCount + 1 /\ UNCHANGED <<semList, taskStatus>>
        /\ semCount # maxSemCount
    BY <1>2 DEF SemPost, Count
  <2>2. Receivers' = Receivers
    BY <2>1 DEF Receivers, Granted
  <2>3. NobodySleepsOnOffer'
    BY <1>2, <2>1 DEF NobodySleepsOnOffer
  <2>4. semCount' + Cardinality(Receivers') = semCount + Cardinality(Receivers) + 1
    BY <1>1, <2>1, <2>2, CountedAreFinite
  <2>5. semCount' \in 0 .. maxSemCount
    BY <1>1, <2>1
  <2>6. QED
    BY <2>1, <2>2, <2>3, <2>4, <2>5, CountedAreFinite DEF TypeOK, Bookkeeping
<1>3. CASE semList # <<>>
  <2> DEFINE h == Head(semList)
  <2>1. /\ semCount' = semCount
        /\ semList' = LOS_ListDelete(semList, h)
        /\ taskStatus' = [taskStatus EXCEPT ![h] = "woken"]
    BY <1>3 DEF SemPost, Wake
  <2>2. semList \in Seq(Tasks) /\ Distinct(semList)
    BY DEF TypeOK, Bookkeeping
  <2>3. h \in Tasks /\ h \in Listed(semList)
    BY <1>3, <2>2, FirstIsListed
  <2> HIDE DEF h
  <2>4. taskStatus[h] = "pend" /\ h \notin stale
    BY <2>3 DEF NobodySleepsOnOffer, Bookkeeping
  <2>5. /\ semList' \in Seq(Tasks) /\ Distinct(semList)'
        /\ Listed(semList)' = Listed(semList) \ {h}
    BY <2>1, <2>2, <2>3, ListDelete
  <2>6. taskStatus' \in [Tasks -> {"user", "pend", "woken", "timeout"}]
    BY <2>1, <2>3 DEF TypeOK
  <2>7. taskStatus'[h] = "woken" /\ \A t \in Tasks \ {h} : taskStatus'[t] = taskStatus[t]
    BY <2>1, <2>3 DEF TypeOK
  <2>8. Receivers' = Receivers \cup {h} /\ h \notin Receivers
    BY <2>3, <2>4, <2>7 DEF Receivers, Granted
  <2>9. /\ Cardinality(Receivers') = Cardinality(Receivers) + 1
        /\ IsFiniteSet(Receivers')
    BY <2>8, CountedAreFinite, OneMoreOrLess, FS_AddElement
  <2>10. NobodySleepsOnOffer'
    BY <1>3, <2>1, <2>3, <2>5, <2>7 DEF NobodySleepsOnOffer, Used
  <2>11. /\ semCount' + Cardinality(Receivers') = semCount + Cardinality(Receivers) + 1
         /\ Cardinality(Receivers') \in Nat
    BY <1>1, <2>1, <2>9, CountedAreFinite
  <2>12. QED
    BY <1>1, <2>1, <2>4, <2>5, <2>6, <2>7, <2>9, <2>10, <2>11
<1>4. QED
  BY <1>2, <1>3

\* LOS_SemPost by a task inside: its permit goes on.
LEMMA PostBackKeepsIInv ==
  ASSUME IInv, NEW t \in Tasks, PostBack(t)
  PROVE  IInv'
<1> USE DEF IInv, PermitsAccounted
<1>1. /\ Used /\ Used' /\ SemPost /\ t \in inside /\ inside' = inside \ {t}
      /\ UNCHANGED <<maxSemCount, forever, permits, stale>>
  BY DEF PostBack, Used
<1>2. TypeOK'
  BY <1>1, PostFacts DEF TypeOK
<1>3. PermitsConserved'
  <2>1. Cardinality(inside') = Cardinality(inside) - 1
    BY <1>1, CountedAreFinite, OneMoreOrLess
  <2>2. permits = semCount + Cardinality(inside) + Cardinality(Receivers)
    BY <1>1 DEF PermitsConserved, Receivers
  <2>3. semCount \in Nat /\ semCount' \in Nat
    BY <1>1, <1>2, SemAssumption DEF TypeOK
  <2>4. permits' = semCount' + Cardinality(inside') + Cardinality(Receivers')
    <3>1. Cardinality(inside) \in Nat /\ Cardinality(Receivers) \in Nat
      BY CountedAreFinite
    <3>2. /\ semCount' + Cardinality(Receivers') = semCount + Cardinality(Receivers) + 1
          /\ Cardinality(Receivers') \in Nat
      BY <1>1, PostFacts
    <3>3. permits' = permits
      BY <1>1
    <3>4. QED
      BY ONLY <2>1, <2>2, <2>3, <3>1, <3>2, <3>3, SMT
  <2>5. QED
    BY <2>4 DEF PermitsConserved, Receivers
<1>4. Bookkeeping'
  <2>1. \A u \in inside' \cup stale' : u \in Tasks /\ taskStatus'[u] = taskStatus[u]
    BY <1>1, PostFacts DEF Bookkeeping, TypeOK
  <2>2. QED
    BY <1>1, <2>1, PostFacts DEF Bookkeeping
<1>5. QED
  BY <1>1, <1>2, <1>3, <1>4, PostFacts

\* LOS_SemPost as a signal: a new permit.
LEMMA PostSignalKeepsIInv ==
  ASSUME IInv, PostSignal
  PROVE  IInv'
<1> USE DEF IInv, PermitsAccounted
<1>1. /\ Used /\ Used' /\ SemPost /\ permits' = permits + 1
      /\ UNCHANGED <<maxSemCount, forever, inside, stale>>
  BY DEF PostSignal, Used
<1>2. TypeOK'
  BY <1>1, PostFacts DEF TypeOK
<1>3. PermitsConserved'
  <2>1. permits = semCount + Cardinality(inside) + Cardinality(Receivers)
    BY <1>1 DEF PermitsConserved, Receivers
  <2>2. semCount \in Nat /\ semCount' \in Nat
    BY <1>1, <1>2, SemAssumption DEF TypeOK
  <2>3. /\ semCount' + Cardinality(Receivers') = semCount + Cardinality(Receivers) + 1
        /\ Cardinality(Receivers') \in Nat
        /\ Cardinality(inside) \in Nat /\ Cardinality(Receivers) \in Nat
    BY <1>1, PostFacts, CountedAreFinite
  <2>4. permits' = semCount' + Cardinality(inside) + Cardinality(Receivers')
    BY <1>1, <2>1, <2>2, <2>3
  <2>5. QED
    BY <1>1, <2>4 DEF PermitsConserved, Receivers
<1>4. Bookkeeping'
  <2>1. \A u \in inside' \cup stale' : u \in Tasks /\ taskStatus'[u] = taskStatus[u]
    BY <1>1, PostFacts DEF Bookkeeping, TypeOK
  <2>2. QED
    BY <1>1, <2>1, PostFacts DEF Bookkeeping
<1>5. QED
  BY <1>1, <1>2, <1>3, <1>4, PostFacts

\* LOS_TaskDelete: the permit the task had, or was given, ceases to exist.
LEMMA TaskDeleteKeepsIInv ==
  ASSUME IInv, NEW t \in Tasks, LOS_TaskDelete(t)
  PROVE  IInv'
<1> USE DEF IInv, PermitsAccounted
<1>1. /\ inside' = inside \ {t} /\ stale' = stale \ {t}
      /\ taskStatus' = [taskStatus EXCEPT ![t] = "user"]
      /\ permits' = IF t \in inside \/ Granted(t) THEN permits - 1 ELSE permits
      /\ UNCHANGED <<maxSemCount, semCount>> /\ Used' = Used
  BY DEF LOS_TaskDelete, Used
<1>2. /\ semList' \in Seq(Tasks) /\ Distinct(semList)'
      /\ Listed(semList)' = Listed(semList) \ {t}
      /\ semList' # <<>> => semList # <<>>
  <2>1. semList \in Seq(Tasks) /\ Distinct(semList)
    BY DEF TypeOK, Bookkeeping
  <2>2. CASE taskStatus[t] = "pend"
    <3>1. t \in Listed(semList) /\ semList' = LOS_ListDelete(semList, t)
      BY <2>2 DEF NobodySleepsOnOffer, LOS_TaskDelete
    <3>2. semList # <<>>
      BY <3>1, EmptyList
    <3>3. QED
      BY <2>1, <3>1, <3>2, ListDelete
  <2>3. CASE taskStatus[t] # "pend"
    BY <2>1, <2>3 DEF NobodySleepsOnOffer, LOS_TaskDelete
  <2>4. QED
    BY <2>2, <2>3
<1>3. Receivers' = Receivers \ {t}
  BY <1>1 DEF Receivers, Granted, TypeOK
<1>4. t \in inside => t \notin Receivers
  BY DEF Bookkeeping, Receivers, Granted
<1>5. t \in Receivers <=> Granted(t)
  BY DEF Receivers
<1>6. /\ Used => permits = semCount + Cardinality(inside) + Cardinality(Receivers)
      /\ semCount \in Nat /\ permits \in Nat
      /\ ~Used => t \notin inside /\ t \notin Receivers
  BY SemAssumption DEF PermitsConserved, Receivers, TypeOK, Bookkeeping
<1>7. /\ Used => permits' = semCount' + Cardinality(inside') + Cardinality(Receivers')
      /\ permits' \in Nat
  <2>1. CASE t \in inside
    <3>1. /\ Cardinality(inside') = Cardinality(inside) - 1 /\ Cardinality(inside) >= 1
          /\ Receivers' = Receivers
      BY <1>1, <1>3, <1>4, <2>1, CountedAreFinite, OneMoreOrLess
    <3>2. QED
      BY <1>1, <1>6, <2>1, <3>1, CountedAreFinite
  <2>2. CASE t \in Receivers
    <3>1. /\ Cardinality(Receivers') = Cardinality(Receivers) - 1
          /\ Cardinality(Receivers) >= 1
          /\ inside' = inside
      BY <1>1, <1>3, <1>4, <2>2, CountedAreFinite, OneMoreOrLess
    <3>2. permits' = permits - 1 /\ semCount' = semCount /\ Used
      BY <1>1, <1>5, <1>6, <2>2
    <3>3. QED
      BY <1>6, <3>1, <3>2, CountedAreFinite
  <2>3. CASE t \notin inside /\ t \notin Receivers
    <3>1. inside' = inside /\ Receivers' = Receivers
      BY <1>1, <1>3, <2>3
    <3>2. permits' = permits /\ semCount' = semCount
      BY <1>1, <1>5, <2>3
    <3>3. QED
      BY <1>6, <3>1, <3>2
  <2>4. QED
    BY <2>1, <2>2, <2>3
<1>8. TypeOK'
  BY <1>1, <1>2, <1>7 DEF TypeOK, LOS_TaskDelete
<1>9. PermitsConserved'
  BY <1>1, <1>7 DEF PermitsConserved, Receivers
<1>10. NobodySleepsOnOffer'
  BY <1>1, <1>2 DEF NobodySleepsOnOffer, TypeOK
<1>11. Bookkeeping'
  BY <1>1, <1>2, <1>3 DEF Bookkeeping, TypeOK
<1>12. QED
  BY <1>8, <1>9, <1>10, <1>11

\* Every step of the specification keeps the invariant.
LEMMA NextIInv == IInv /\ [Next]_vars => IInv'
<1> SUFFICES ASSUME IInv, [Next]_vars PROVE IInv'
  OBVIOUS
<1>1. CASE UNCHANGED vars
  BY <1>1 DEF vars, IInv, PermitsAccounted, TypeOK, PermitsConserved, NobodySleepsOnOffer,
              Bookkeeping, Receivers, Granted, Used
<1>2. CASE Next
  BY <1>2, CreateKeepsIInv, DeleteKeepsIInv, PendAtOnceKeepsIInv, PendWaitsKeepsIInv,
     PendResumesKeepsIInv, TimeoutKeepsIInv, PostBackKeepsIInv, PostSignalKeepsIInv,
     TaskDeleteKeepsIInv DEF Next
<1>3. QED
  BY <1>1, <1>2

\* LOS_SemPost and LOS_SemPend neither lose nor invent a permit and leave nobody
\* asleep beside one, whatever the tasks, the limits and the order in which
\* tasks run, time out, are deleted or delete the semaphore.
THEOREM PermitsAreAccounted == Spec => []PermitsAccounted
<1>1. IInv => PermitsAccounted
  BY DEF IInv
<1>2. QED
  BY <1>1, InitIInv, NextIInv, PTL DEF Spec

-----------------------------------------------------------------------------
\* A semaphore of which no more than one permit exists is a lock: no two tasks
\* are past LOS_SemPend, and none is while a permit is on offer or under way.
THEOREM OnePermitIsALock ==
  Spec => [](permits <= 1 =>
               /\ \A t, u \in inside : t = u
               /\ inside # {} => semCount = 0 /\ \A t \in Tasks : ~Granted(t))
<1> DEFINE Lock == permits <= 1 =>
                     /\ \A t, u \in inside : t = u
                     /\ inside # {} => semCount = 0 /\ \A t \in Tasks : ~Granted(t)
<1>1. IInv => Lock
  <2> SUFFICES ASSUME IInv, permits <= 1, inside # {}
               PROVE  /\ \A t, u \in inside : t = u
                      /\ semCount = 0 /\ \A t \in Tasks : ~Granted(t)
    OBVIOUS
  <2>1. TypeOK /\ Used
    BY DEF IInv, PermitsAccounted, Bookkeeping
  <2>2. /\ permits = semCount + Cardinality(inside) + Cardinality(Receivers)
        /\ semCount \in Nat /\ permits \in Nat
    BY <2>1, SemAssumption DEF IInv, PermitsAccounted, PermitsConserved, Receivers, TypeOK
  <2>3. Cardinality(inside) # 0
    BY <2>1, CountedAreFinite, FS_EmptySet
  <2>4. Cardinality(inside) = 1 /\ semCount = 0 /\ Cardinality(Receivers) = 0
    BY <2>1, <2>2, <2>3, CountedAreFinite
  <2>5. \E x : inside = {x}
    BY <2>1, <2>4, CountedAreFinite, FS_Singleton
  <2>6. Receivers = {}
    BY <2>1, <2>4, CountedAreFinite, FS_EmptySet
  <2>7. QED
    BY <2>4, <2>5, <2>6 DEF Receivers
<1>2. QED
  BY <1>1, InitIInv, NextIInv, PTL DEF Spec
=============================================================================
