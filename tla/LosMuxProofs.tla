---------------------------- MODULE LosMuxProofs ----------------------------
(***************************************************************************)
(* Proofs about LosMux for any tasks, priorities and mutexes.  The records *)
(* of owners and waiting tasks are made inductive by what the code keeps of*)
(* each control block: muxCount is zero exactly when there is no owner, a  *)
(* deleted mutex is free, and no task is listed twice.  The end of priority*)
(* inheritance needs more, and callers that release in the reverse order:  *)
(* the mutex a task locked first remembers the priority it was created     *)
(* with.                                                                   *)
(***************************************************************************)
EXTENDS LosMux, PendListProofs

\* What a control block says of itself.
RecordsAreSound ==
  \A m \in Mutexes :
    /\ muxCount[m] > 0 <=> owner[m] \in Tasks
    /\ m \notin used => muxCount[m] = 0 /\ muxList[m] = <<>>
    /\ Distinct(muxList[m])

IInv == OwnersAgree /\ WaitersHaveOwner /\ RecordsAreSound

\* What muxPriority remembers: the mutex a task locked first, or is given while
\* it has none, has the priority the task was created with.
FirstRemembers ==
  \A t \in Tasks :
    /\ held[t] # <<>> => muxPriority[held[t][1]] = BasePrio[t]
    /\ held[t] = <<>> /\ taskStatus[t] = "woken" => muxPriority[pendOn[t]] = BasePrio[t]

\* No mutex remembers a priority less urgent than its owner was created with.
NoneIsWorse ==
  \A m \in Mutexes : owner[m] \in Tasks => muxPriority[m] <= BasePrio[owner[m]]

PInv == PriorityRestored /\ FirstRemembers /\ NoneIsWorse

-----------------------------------------------------------------------------
\* How often a lock occurs in a list is a number, zero if it does not occur.
LEMMA PositionsFacts ==
  ASSUME NEW S, NEW list \in Seq(S), NEW m
  PROVE  /\ IsFiniteSet(Positions(list, m))
         /\ Cardinality(Positions(list, m)) \in Nat
         /\ Cardinality(Positions(list, m)) <= Len(list)
         /\ Cardinality(Positions(list, m)) = 0 <=> m \notin Listed(list)
<1>1. /\ IsFiniteSet(1 .. Len(list)) /\ Cardinality(1 .. Len(list)) = Len(list)
      /\ Len(list) \in Nat
  <2>1. ASSUME NEW n \in Nat
        PROVE  IsFiniteSet(1 .. n) /\ Cardinality(1 .. n) = n
    <3>1. /\ IsFiniteSet(1 .. n)
          /\ Cardinality(1 .. n) = IF 1 > n THEN 0 ELSE n - 1 + 1
      BY FS_Interval
    <3>2. QED
      BY <3>1
  <2>2. Len(list) \in Nat
    OBVIOUS
  <2>3. QED
    BY <2>1, <2>2
<1>2. Positions(list, m) \in SUBSET (1 .. Len(list))
  BY DEF Positions
<1>3. /\ IsFiniteSet(Positions(list, m))
      /\ Cardinality(Positions(list, m)) <= Len(list)
  BY <1>1, <1>2, FS_Subset
<1>4. Cardinality(Positions(list, m)) = 0 <=> Positions(list, m) = {}
  BY <1>3, FS_EmptySet
<1>5. Positions(list, m) = {} <=> m \notin Listed(list)
  BY DEF Positions, Listed
<1>6. QED
  BY <1>3, <1>4, <1>5, FS_CardinalityType

\* One lock more at the end of a list.
LEMMA PositionsAppend ==
  ASSUME NEW S, NEW list \in Seq(S), NEW m \in S, NEW x
  PROVE  Cardinality(Positions(Append(list, m), x)) =
           IF x = m THEN Cardinality(Positions(list, x)) + 1
           ELSE Cardinality(Positions(list, x))
<1> DEFINE new == Append(list, m)
           n == Len(list)
<1>1. /\ n \in Nat /\ DOMAIN list = 1 .. n /\ DOMAIN new = 1 .. n + 1
      /\ \A i \in 1 .. n : new[i] = list[i]
      /\ new[n + 1] = m
  OBVIOUS
<1> HIDE DEF new, n
<1>2. n + 1 \notin 1 .. n /\ 1 .. n + 1 = (1 .. n) \cup {n + 1}
  BY <1>1
<1>3. CASE x = m
  <2>1. Positions(new, x) = Positions(list, x) \cup {n + 1} /\ n + 1 \notin Positions(list, x)
    <3>1. ASSUME NEW i
          PROVE  i \in Positions(new, x) <=> i \in Positions(list, x) \cup {n + 1}
      BY <1>1, <1>2, <1>3 DEF Positions
    <3>2. n + 1 \notin Positions(list, x)
      BY <1>1, <1>2 DEF Positions
    <3>3. QED
      BY <3>1, <3>2
  <2>2. IsFiniteSet(Positions(list, x))
    BY PositionsFacts
  <2>3. Cardinality(Positions(list, x) \cup {n + 1}) = Cardinality(Positions(list, x)) + 1
    BY <2>1, <2>2, FS_AddElement
  <2>4. QED
    BY <1>3, <2>1, <2>3 DEF new
<1>4. CASE x # m
  <2>1. Positions(new, x) = Positions(list, x)
    BY <1>1, <1>2, <1>4 DEF Positions
  <2>2. QED
    BY <1>4, <2>1 DEF new
<1>5. QED
  BY <1>3, <1>4

\* The list without its k-th element.
Skipping(list, k) == [i \in 1 .. Len(list) - 1 |-> IF i < k THEN list[i] ELSE list[i + 1]]

\* The other elements keep their number.
LEMMA PositionsWithout ==
  ASSUME NEW S, NEW list \in Seq(S), NEW k \in 1 .. Len(list), NEW new,
         new = Skipping(list, k)
  PROVE  /\ new \in Seq(S)
         /\ Len(new) = Len(list) - 1
         /\ \A x : Cardinality(Positions(new, x)) =
                     IF x = list[k] THEN Cardinality(Positions(list, x)) - 1
                     ELSE Cardinality(Positions(list, x))
<1> USE DEF Skipping
<1> DEFINE n == Len(list)
<1>1. n \in Nat /\ n - 1 \in Nat /\ k \in 1 .. n /\ DOMAIN list = 1 .. n
  OBVIOUS
<1> HIDE DEF n
<1>2. \A i \in 1 .. n - 1 : new[i] \in S
  BY <1>1 DEF n
<1>3. new \in Seq(S) /\ Len(new) = n - 1 /\ DOMAIN new = 1 .. n - 1
  BY <1>1, <1>2 DEF n
<1>4. ASSUME NEW x
      PROVE  Cardinality(Positions(new, x)) = Cardinality(Positions(list, x) \ {k})
  <2> DEFINE P == Positions(list, x) \ {k}
             Q == Positions(new, x)
             f == [i \in P |-> IF i < k THEN i ELSE i - 1]
  <2>1. P \subseteq 1 .. n /\ k \notin P /\ Q \subseteq 1 .. n - 1
    BY <1>1, <1>3 DEF Positions
  <2>2. ASSUME NEW i \in P PROVE f[i] \in Q
    <3>1. i \in 1 .. n /\ i # k /\ list[i] = x
      BY <1>1 DEF Positions
    <3>2. CASE i < k
      <4>1. f[i] = i /\ i \in 1 .. n - 1 /\ new[i] = list[i]
        BY <1>1, <3>1, <3>2 DEF n
      <4>2. QED
        BY <1>3, <3>1, <4>1 DEF Positions
    <3>3. CASE ~(i < k)
      <4>1. f[i] = i - 1 /\ i - 1 \in 1 .. n - 1 /\ ~(i - 1 < k) /\ (i - 1) + 1 = i
        BY <1>1, <3>1, <3>3
      <4>2. new[i - 1] = list[i]
        BY <4>1 DEF n
      <4>3. QED
        BY <1>3, <3>1, <4>1, <4>2 DEF Positions
    <3>4. QED
      BY <3>2, <3>3
  <2>3. \A i, j \in P : f[i] = f[j] => i = j
    BY <1>1, <2>1
  <2>4. ASSUME NEW j \in Q PROVE \E i \in P : f[i] = j
    <3>1. j \in 1 .. n - 1 /\ new[j] = x
      BY <1>3 DEF Positions
    <3>2. CASE j < k
      <4>1. j \in 1 .. n /\ list[j] = x /\ j # k
        BY <1>1, <3>1, <3>2 DEF n
      <4>2. j \in P
        BY <1>1, <4>1 DEF Positions
      <4>3. QED
        BY <3>2, <4>2
    <3>3. CASE ~(j < k)
      <4>1. j + 1 \in 1 .. n /\ list[j + 1] = x /\ j + 1 # k /\ ~(j + 1 < k)
        BY <1>1, <3>1, <3>3 DEF n
      <4>2. j + 1 \in P
        BY <1>1, <4>1 DEF Positions
      <4>3. f[j + 1] = j
        BY <1>1, <3>1, <4>1, <4>2
      <4>4. QED
        BY <4>2, <4>3
    <3>4. QED
      BY <3>2, <3>3
  <2>5. f \in [P -> Q]
    BY <2>2
  <2> HIDE DEF f, P, Q
  <2>6. f \in Bijection(P, Q)
    BY <2>3, <2>4, <2>5 DEF Bijection, Injection, Surjection, IsInjective
  <2>7. IsFiniteSet(P)
    BY PositionsFacts, FS_RemoveElement DEF P
  <2>8. Cardinality(Q) = Cardinality(P)
    BY <2>6, <2>7, FS_Bijection DEF ExistsBijection
  <2>9. QED
    BY <2>8 DEF P, Q
<1>5. ASSUME NEW x
      PROVE  Cardinality(Positions(list, x) \ {k}) =
               IF x = list[k] THEN Cardinality(Positions(list, x)) - 1
               ELSE Cardinality(Positions(list, x))
  <2>1. k \in Positions(list, x) <=> x = list[k]
    BY <1>1 DEF Positions
  <2>2. QED
    BY <2>1, PositionsFacts, FS_RemoveElement
<1>6. QED
  BY <1>3, <1>4, <1>5 DEF n

\* A caller that releases one lock of m has one fewer of m; in the reverse order
\* of locking it keeps its first lock as long as it keeps any.
LEMMA ReleasedFacts ==
  ASSUME NEW S, NEW list \in Seq(S), NEW m \in Listed(list)
  PROVE  /\ Released(list, m) \in Seq(S)
         /\ Len(Released(list, m)) = Len(list) - 1 /\ Len(list) - 1 \in Nat
         /\ \A x : Cardinality(Positions(Released(list, m), x)) =
                     IF x = m THEN Cardinality(Positions(list, x)) - 1
                     ELSE Cardinality(Positions(list, x))
         /\ m = list[Len(list)] /\ Len(list) > 1 => Released(list, m)[1] = list[1]
<1> DEFINE k == IF list[Len(list)] = m THEN Len(list)
                ELSE CHOOSE i \in DOMAIN list : list[i] = m
           new == Released(list, m)
<1>1. DOMAIN list = 1 .. Len(list) /\ Len(list) \in Nat /\ \E i \in DOMAIN list : list[i] = m
  BY DEF Listed
<1>2. k \in 1 .. Len(list) /\ list[k] = m
  BY <1>1
<1>3. new = Skipping(list, k)
  BY DEF Released, Skipping
<1>4. m = list[Len(list)] => k = Len(list)
  OBVIOUS
<1> HIDE DEF k, new
<1>5. m = list[Len(list)] /\ Len(list) > 1 => new[1] = list[1]
  BY <1>1, <1>3, <1>4 DEF Skipping
<1>6. Len(list) - 1 \in Nat
  BY <1>1, <1>2
<1>7. /\ new \in Seq(S) /\ Len(new) = Len(list) - 1
      /\ \A x : Cardinality(Positions(new, x)) =
                  IF x = list[k] THEN Cardinality(Positions(list, x)) - 1
                  ELSE Cardinality(Positions(list, x))
  BY <1>2, <1>3, PositionsWithout
<1>8. QED
  BY <1>2, <1>5, <1>6, <1>7 DEF new

-----------------------------------------------------------------------------
\* What the caller knows it holds, counted.
LEMMA TimesFacts ==
  ASSUME TypeOK, NEW t \in Tasks, NEW m \in Mutexes
  PROVE  /\ Times(t, m) \in Nat
         /\ Times(t, m) <= Len(held[t]) /\ Len(held[t]) \in Nat
         /\ Times(t, m) = 0 <=> m \notin Listed(held[t])
<1>1. held[t] \in Seq(Mutexes)
  BY DEF TypeOK
<1>2. Len(held[t]) \in Nat
  BY <1>1
<1>3. QED
  BY <1>1, <1>2, PositionsFacts DEF Times

\* A successful LOS_MuxPend adds one lock of one task.
LEMMA TakesFacts ==
  ASSUME TypeOK, NEW t \in Tasks, NEW m \in Mutexes, Takes(t, m)
  PROVE  /\ held' \in [Tasks -> Seq(Mutexes)]
         /\ \A u \in Tasks, x \in Mutexes :
              Times(u, x)' = IF u = t /\ x = m THEN Times(u, x) + 1 ELSE Times(u, x)
         /\ held'[t] # <<>>
         /\ held[t] # <<>> => held'[t][1] = held[t][1]
         /\ held[t] = <<>> => held'[t][1] = m
         /\ \A u \in Tasks \ {t} : held'[u] = held[u]
<1>1. held \in [Tasks -> Seq(Mutexes)] /\ held[t] \in Seq(Mutexes)
  BY DEF TypeOK
<1>2. /\ held' = [held EXCEPT ![t] = Append(held[t], m)]
      /\ held'[t] = Append(held[t], m) /\ \A u \in Tasks \ {t} : held'[u] = held[u]
      /\ Append(held[t], m) \in Seq(Mutexes)
  BY <1>1 DEF Takes
<1>3. held' \in [Tasks -> Seq(Mutexes)]
  BY <1>1, <1>2
<1>4. /\ Append(held[t], m) # <<>>
      /\ held[t] # <<>> => Append(held[t], m)[1] = held[t][1]
      /\ held[t] = <<>> => Append(held[t], m)[1] = m
  <2>1. ASSUME NEW list \in Seq(Mutexes)
        PROVE  /\ Append(list, m) # <<>>
               /\ list # <<>> => Append(list, m)[1] = list[1]
               /\ list = <<>> => Append(list, m)[1] = m
    <3>1. CASE list = <<>>
      BY <3>1
    <3>2. CASE list # <<>>
      <4>1. Len(list) \in Nat /\ Len(list) # 0
        BY <3>2
      <4>2. 1 \in 1 .. Len(list)
        BY <4>1
      <4>3. QED
        BY <3>2, <4>2
    <3>3. QED
      BY <3>1, <3>2
  <2>2. QED
    BY <1>1, <2>1
<1>5. ASSUME NEW u \in Tasks, NEW x \in Mutexes
      PROVE  Times(u, x)' = IF u = t /\ x = m THEN Times(u, x) + 1 ELSE Times(u, x)
  <2>1. CASE u = t
    <3>1. Times(t, x)' = Cardinality(Positions(Append(held[t], m), x))
      BY <1>2 DEF Times
    <3>2. QED
      BY <1>1, <2>1, <3>1, PositionsAppend DEF Times
  <2>2. CASE u # t
    BY <1>2, <2>2 DEF Times
  <2>3. QED
    BY <2>1, <2>2
<1>6. QED
  BY <1>2, <1>3, <1>4, <1>5

\* A release takes one lock of one task away.
LEMMA ReleasesFacts ==
  ASSUME TypeOK, NEW t \in Tasks, NEW m \in Listed(held[t]),
         held' = [held EXCEPT ![t] = Released(@, m)]
  PROVE  /\ held' \in [Tasks -> Seq(Mutexes)]
         /\ \A u \in Tasks, x \in Mutexes :
              Times(u, x)' = IF u = t /\ x = m THEN Times(u, x) - 1 ELSE Times(u, x)
         /\ Len(held'[t]) = Len(held[t]) - 1 /\ Len(held[t]) - 1 \in Nat
         /\ m = held[t][Len(held[t])] /\ Len(held[t]) > 1 => held'[t][1] = held[t][1]
         /\ \A u \in Tasks \ {t} : held'[u] = held[u]
<1>1. held \in [Tasks -> Seq(Mutexes)] /\ held[t] \in Seq(Mutexes)
  BY DEF TypeOK
<1>2. /\ held'[t] = Released(held[t], m)
      /\ \A u \in Tasks \ {t} : held'[u] = held[u]
  BY <1>1
<1>3. held' \in [Tasks -> Seq(Mutexes)]
  BY <1>1, ReleasedFacts
<1>4. ASSUME NEW u \in Tasks, NEW x \in Mutexes
      PROVE  Times(u, x)' = IF u = t /\ x = m THEN Times(u, x) - 1 ELSE Times(u, x)
  <2>1. CASE u = t
    <3>1. Times(t, x)' = Cardinality(Positions(Released(held[t], m), x))
      BY <1>2 DEF Times
    <3>2. QED
      BY <1>1, <2>1, <3>1, ReleasedFacts DEF Times
  <2>2. CASE u # t
    BY <1>2, <2>2 DEF Times
  <2>3. QED
    BY <2>1, <2>2
<1>5. QED
  BY <1>1, <1>2, <1>3, <1>4, ReleasedFacts

\* A step that takes and releases no lock.
LEMMA SameTimes ==
  ASSUME UNCHANGED held
  PROVE  \A t \in Tasks, m \in Mutexes : Times(t, m)' = Times(t, m)
BY DEF Times

-----------------------------------------------------------------------------
\* OsMuxInit.
LEMMA InitIInv == Init => IInv
<1> SUFFICES ASSUME Init PROVE IInv
  OBVIOUS
<1>1. TypeOK
  BY MuxAssumption DEF Init, TypeOK
<1>2. \A t \in Tasks, m \in Mutexes : Times(t, m) = 0
  <2> TAKE t \in Tasks, m \in Mutexes
  <2>1. held[t] = <<>>
    BY DEF Init
  <2>2. QED
    BY <1>1, <2>1, TimesFacts, EmptyList
<1>3. OwnersAgree
  BY <1>1, <1>2 DEF Init, OwnersAgree
<1>4. WaitersHaveOwner
  BY EmptyList DEF Init, WaitersHaveOwner
<1>5. RecordsAreSound
  BY EmptyList, MuxAssumption DEF Init, RecordsAreSound
<1>6. QED
  BY <1>3, <1>4, <1>5 DEF IInv

\* LOS_MuxCreate: the control block it takes is free, and stays so.
LEMMA CreateKeepsIInv ==
  ASSUME IInv, NEW m \in Mutexes, LOS_MuxCreate(m)
  PROVE  IInv'
<1> USE DEF IInv, LOS_MuxCreate
<1>1. muxCount[m] = 0 /\ owner[m] = NoTask /\ muxList[m] = <<>>
  BY DEF RecordsAreSound, OwnersAgree, TypeOK
<1>2. UNCHANGED <<muxCount, owner, muxList>>
  BY <1>1 DEF OwnersAgree, TypeOK
<1>3. TypeOK'
  BY <1>2 DEF OwnersAgree, TypeOK
<1>4. OwnersAgree'
  BY <1>1, <1>2, <1>3, SameTimes, MuxAssumption DEF OwnersAgree
<1>5. WaitersHaveOwner'
  BY <1>2 DEF WaitersHaveOwner
<1>6. RecordsAreSound'
  BY <1>2 DEF RecordsAreSound
<1>7. QED
  BY <1>4, <1>5, <1>6

\* LOS_MuxDelete of a mutex that nobody owns or waits for.
LEMMA DeleteKeepsIInv ==
  ASSUME IInv, NEW m \in Mutexes, LOS_MuxDelete(m)
  PROVE  IInv'
<1> USE DEF IInv, LOS_MuxDelete, Deletable
<1>1. owner[m] = NoTask
  BY DEF RecordsAreSound, OwnersAgree, TypeOK
<1>2. TypeOK'
  BY DEF OwnersAgree, TypeOK
<1>3. OwnersAgree'
  BY <1>1, <1>2, SameTimes, MuxAssumption DEF OwnersAgree
<1>4. WaitersHaveOwner'
  BY <1>1, MuxAssumption DEF WaitersHaveOwner
<1>5. RecordsAreSound'
  BY DEF RecordsAreSound
<1>6. QED
  BY <1>3, <1>4, <1>5

\* LOS_MuxPend of a free mutex: nobody had a lock of it.
LEMMA PendFreeKeepsIInv ==
  ASSUME IInv, NEW t \in Tasks, NEW m \in Mutexes, MuxPendFree(t, m)
  PROVE  IInv'
<1> USE DEF IInv, MuxPendFree
<1>1. TypeOK /\ owner[m] \notin Tasks
  BY DEF RecordsAreSound, OwnersAgree
<1>2. /\ muxCount'[m] = 1 /\ owner'[m] = t
      /\ \A x \in Mutexes \ {m} : muxCount'[x] = muxCount[x] /\ owner'[x] = owner[x]
      /\ MaxHeld >= 1
  BY <1>1, MuxAssumption, TimesFacts DEF TypeOK
<1>3. TypeOK'
  <2>1. muxCount' \in [Mutexes -> 0 .. MaxHeld]
    BY <1>1, <1>2, MuxAssumption DEF TypeOK
  <2>2. held' \in [Tasks -> Seq(Mutexes)]
    BY <1>1, TakesFacts
  <2>3. QED
    BY <1>1, <2>1, <2>2 DEF TypeOK
<1>4. OwnersAgree'
  <2> SUFFICES ASSUME NEW x \in Mutexes, NEW u \in Tasks
               PROVE  Times(u, x)' =
                        IF x \notin used' \/ owner'[x] # u THEN 0
                        ELSE IF taskStatus'[u] = "woken" /\ pendOn'[u] = x
                             THEN muxCount'[x] - 1 ELSE muxCount'[x]
    BY <1>3 DEF OwnersAgree
  <2>1. Times(u, x)' = IF u = t /\ x = m THEN Times(u, x) + 1 ELSE Times(u, x)
    BY <1>1, TakesFacts
  <2>2. CASE x = m
    <3>1. Times(u, m) = 0
      BY <1>1 DEF OwnersAgree
    <3>2. QED
      BY <1>2, <2>1, <2>2, <3>1
  <2>3. CASE x # m
    BY <1>2, <2>1, <2>3 DEF OwnersAgree
  <2>4. QED
    BY <2>2, <2>3
<1>5. WaitersHaveOwner'
  BY <1>1, <1>2 DEF WaitersHaveOwner, TypeOK
<1>6. RecordsAreSound'
  BY <1>2 DEF RecordsAreSound
<1>7. QED
  BY <1>4, <1>5, <1>6

\* LOS_MuxPend by the owner: muxCount follows the number of its locks.
LEMMA PendAgainKeepsIInv ==
  ASSUME IInv, NEW t \in Tasks, NEW m \in Mutexes, MuxPendAgain(t, m)
  PROVE  IInv'
<1> USE DEF IInv, MuxPendAgain
<1>1. TypeOK /\ Times(t, m) = muxCount[m] /\ muxCount[m] \in Nat
  <2>1. TypeOK
    BY DEF OwnersAgree
  <2>2. muxCount[m] \in 0 .. MaxHeld /\ MaxHeld \in Nat
    BY <2>1, MuxAssumption DEF TypeOK
  <2>3. Times(t, m) = muxCount[m]
    BY DEF OwnersAgree
  <2>4. QED
    BY <2>1, <2>2, <2>3
<1>2. /\ muxCount'[m] = muxCount[m] + 1
      /\ \A x \in Mutexes \ {m} : muxCount'[x] = muxCount[x]
      /\ muxCount[m] + 1 <= MaxHeld
  <2>1. muxCount' = [muxCount EXCEPT ![m] = @ + 1] /\ Len(held[t]) < MaxHeld
    OBVIOUS
  <2>2. muxCount \in [Mutexes -> 0 .. MaxHeld] /\ MaxHeld \in Nat
    BY <1>1, MuxAssumption DEF TypeOK
  <2>3. Times(t, m) <= Len(held[t]) /\ Len(held[t]) \in Nat
    BY <1>1, TimesFacts
  <2>4. QED
    BY ONLY <1>1, <2>1, <2>2, <2>3
<1>3. TypeOK'
  <2>1. muxCount' \in [Mutexes -> 0 .. MaxHeld]
    BY <1>1, <1>2, MuxAssumption DEF TypeOK
  <2>2. held' \in [Tasks -> Seq(Mutexes)]
    BY <1>1, TakesFacts
  <2>3. QED
    BY <1>1, <2>1, <2>2 DEF TypeOK
<1>4. OwnersAgree'
  <2> SUFFICES ASSUME NEW x \in Mutexes, NEW u \in Tasks
               PROVE  Times(u, x)' =
                        IF x \notin used' \/ owner'[x] # u THEN 0
                        ELSE IF taskStatus'[u] = "woken" /\ pendOn'[u] = x
                             THEN muxCount'[x] - 1 ELSE muxCount'[x]
    BY <1>3 DEF OwnersAgree
  <2>1. Times(u, x)' = IF u = t /\ x = m THEN Times(u, x) + 1 ELSE Times(u, x)
    BY <1>1, TakesFacts
  <2>2. QED
    BY <1>1, <1>2, <2>1 DEF OwnersAgree
<1>5. WaitersHaveOwner'
  BY DEF WaitersHaveOwner
<1>6. RecordsAreSound'
  BY <1>1, <1>2 DEF RecordsAreSound
<1>7. QED
  BY <1>4, <1>5, <1>6

\* LOS_MuxPend that waits: the task joins the list of a mutex that has an owner.
LEMMA PendWaitsKeepsIInv ==
  ASSUME IInv, NEW t \in Tasks, NEW m \in Mutexes, NEW ever \in BOOLEAN,
         MuxPendWaits(t, m, ever)
  PROVE  IInv'
<1> USE DEF IInv, MuxPendWaits
<1>1. TypeOK /\ owner[m] \in Tasks \ {t}
  BY DEF RecordsAreSound, OwnersAgree
<1>2. muxList[m] \in Seq(Tasks) /\ Distinct(muxList[m]) /\ t \notin Listed(muxList[m])
  BY <1>1 DEF TypeOK, RecordsAreSound, WaitersHaveOwner
<1>3. /\ Append(muxList[m], t) \in Seq(Tasks) /\ Distinct(Append(muxList[m], t))
      /\ Listed(Append(muxList[m], t)) = Listed(muxList[m]) \cup {t}
  BY <1>2, TailInsert
<1>4. /\ muxList'[m] = Append(muxList[m], t)
      /\ \A x \in Mutexes \ {m} : muxList'[x] = muxList[x]
      /\ taskStatus'[t] = "pend" /\ pendOn'[t] = m
      /\ \A u \in Tasks \ {t} : taskStatus'[u] = taskStatus[u] /\ pendOn'[u] = pendOn[u]
  BY <1>1 DEF TypeOK
<1>5. TypeOK'
  BY <1>1, <1>3 DEF TypeOK
<1>6. OwnersAgree'
  BY <1>4, <1>5, SameTimes DEF OwnersAgree
<1>7. WaitersHaveOwner'
  BY <1>1, <1>3, <1>4 DEF WaitersHaveOwner
<1>8. RecordsAreSound'
  BY <1>3, <1>4 DEF RecordsAreSound
<1>9. QED
  BY <1>6, <1>7, <1>8

\* The end of LOS_MuxPend: the new owner learns of the lock it was given.
LEMMA PendResumesKeepsIInv ==
  ASSUME IInv, NEW t \in Tasks, MuxPendResumes(t)
  PROVE  IInv'
<1> USE DEF IInv, MuxPendResumes, mux
<1>1. TypeOK
  BY DEF OwnersAgree
<1>2. /\ taskStatus'[t] = "user"
      /\ \A u \in Tasks \ {t} : taskStatus'[u] = taskStatus[u]
  BY <1>1 DEF TypeOK
<1>3. CASE taskStatus[t] = "woken"
  <2> DEFINE m == pendOn[t]
  <2>1. m \in Mutexes /\ owner[m] = t /\ Takes(t, m)
    BY <1>1, <1>3 DEF TypeOK, WaitersHaveOwner
  <2>2. TypeOK'
    BY <1>1, <2>1, TakesFacts DEF TypeOK
  <2>3. m \in used /\ muxCount[m] \in Nat
    BY <1>1, <2>1, MuxAssumption DEF RecordsAreSound, TypeOK
  <2>4. Times(t, m) = muxCount[m] - 1
    BY <1>3, <2>1, <2>3 DEF OwnersAgree
  <2>5. OwnersAgree'
    <3> SUFFICES ASSUME NEW x \in Mutexes, NEW u \in Tasks
                 PROVE  Times(u, x)' =
                          IF x \notin used \/ owner[x] # u THEN 0
                          ELSE IF taskStatus'[u] = "woken" /\ pendOn[u] = x
                               THEN muxCount[x] - 1 ELSE muxCount[x]
      BY <2>2 DEF OwnersAgree
    <3>1. Times(u, x)' = IF u = t /\ x = m THEN Times(u, x) + 1 ELSE Times(u, x)
      BY <1>1, <2>1, TakesFacts
    <3>2. CASE u = t /\ x = m
      BY <1>2, <2>1, <2>3, <2>4, <3>1, <3>2
    <3>3. CASE ~(u = t /\ x = m)
      BY <1>2, <3>1, <3>3 DEF OwnersAgree
    <3>4. QED
      BY <3>2, <3>3
  <2>6. WaitersHaveOwner'
    BY <1>2, <1>3 DEF WaitersHaveOwner
  <2>7. RecordsAreSound'
    BY DEF RecordsAreSound
  <2>8. QED
    BY <2>5, <2>6, <2>7
<1>4. CASE taskStatus[t] = "timeout"
  <2>1. TypeOK' /\ UNCHANGED held
    BY <1>1, <1>4 DEF TypeOK
  <2>2. OwnersAgree'
    BY <1>2, <1>4, <2>1, SameTimes DEF OwnersAgree
  <2>3. WaitersHaveOwner'
    BY <1>2, <1>4 DEF WaitersHaveOwner
  <2>4. RecordsAreSound'
    BY DEF RecordsAreSound
  <2>5. QED
    BY <2>2, <2>3, <2>4
<1>5. QED
  BY <1>3, <1>4

\* A task that waits leaves its list, when its time is over or it is deleted.
LEMMA LeavesListKeepsIInv ==
  ASSUME IInv, NEW t \in Tasks, taskStatus[t] = "pend", NEW s \in {"timeout", "user"},
         muxList' = [muxList EXCEPT ![pendOn[t]] = LOS_ListDelete(@, t)],
         taskStatus' = [taskStatus EXCEPT ![t] = s],
         priority' \in [Tasks -> Nat],
         UNCHANGED <<used, muxCount, owner, muxPriority, pendOn, forever, held>>
  PROVE  IInv'
<1> DEFINE m == pendOn[t]
<1> USE DEF IInv
<1>1. TypeOK /\ m \in Mutexes
  BY DEF OwnersAgree, TypeOK
<1>2. muxList[m] \in Seq(Tasks) /\ Distinct(muxList[m]) /\ t \in Listed(muxList[m])
  BY <1>1 DEF TypeOK, RecordsAreSound, WaitersHaveOwner
<1>3. /\ LOS_ListDelete(muxList[m], t) \in Seq(Tasks)
      /\ Distinct(LOS_ListDelete(muxList[m], t))
      /\ Listed(LOS_ListDelete(muxList[m], t)) = Listed(muxList[m]) \ {t}
  BY <1>2, ListDelete
<1>4. /\ muxList'[m] = LOS_ListDelete(muxList[m], t)
      /\ \A x \in Mutexes \ {m} : muxList'[x] = muxList[x]
      /\ taskStatus'[t] = s
      /\ \A u \in Tasks \ {t} : taskStatus'[u] = taskStatus[u]
  BY <1>1 DEF TypeOK
<1>5. TypeOK'
  BY <1>1, <1>3 DEF TypeOK
<1>6. OwnersAgree'
  BY <1>4, <1>5, SameTimes DEF OwnersAgree
<1>7. WaitersHaveOwner'
  BY <1>1, <1>3, <1>4 DEF WaitersHaveOwner
<1>8. m \in used
  BY DEF WaitersHaveOwner
<1>9. RecordsAreSound'
  BY <1>3, <1>4, <1>8 DEF RecordsAreSound
<1>10. QED
  BY <1>6, <1>7, <1>9

\* OsSchedWakePendTimeTask.
LEMMA TimeoutKeepsIInv ==
  ASSUME IInv, NEW t \in Tasks, PendTimeout(t)
  PROVE  IInv'
<1>1. priority' \in [Tasks -> Nat]
  BY DEF IInv, OwnersAgree, TypeOK, PendTimeout
<1>2. QED
  BY <1>1, LeavesListKeepsIInv DEF PendTimeout

\* LOS_TaskDelete of a task that owns no mutex.
LEMMA TaskDeleteKeepsIInv ==
  ASSUME IInv, NEW t \in Tasks, LOS_TaskDelete(t)
  PROVE  IInv'
<1>1. TypeOK /\ priority' \in [Tasks -> Nat]
  BY MuxAssumption DEF IInv, OwnersAgree, TypeOK, LOS_TaskDelete
<1>2. CASE taskStatus[t] = "pend"
  BY <1>1, <1>2, LeavesListKeepsIInv DEF LOS_TaskDelete
<1>3. CASE taskStatus[t] # "pend"
  <2> USE DEF IInv, LOS_TaskDelete
  <2>1. muxList' = muxList
    BY <1>3
  <2>2. TypeOK'
    BY <1>1, <2>1 DEF TypeOK
  <2>3. /\ taskStatus'[t] = "user"
        /\ \A u \in Tasks \ {t} : taskStatus'[u] = taskStatus[u]
    BY <1>1 DEF TypeOK
  <2>4. OwnersAgree'
    BY <2>2, <2>3, SameTimes DEF OwnersAgree
  <2>5. WaitersHaveOwner'
    BY <1>3, <2>1, <2>3 DEF WaitersHaveOwner
  <2>6. RecordsAreSound'
    BY <2>1 DEF RecordsAreSound
  <2>7. QED
    BY <2>4, <2>5, <2>6
<1>4. QED
  BY <1>2, <1>3

\* LOS_MuxPost is called for a lock the caller has, and the caller has as many of
\* them as muxCount says.
LEMMA PostFacts ==
  ASSUME IInv, NEW t \in Tasks, NEW m \in Mutexes, LOS_MuxPost(t, m)
  PROVE  /\ TypeOK /\ m \in Listed(held[t])
         /\ muxCount[m] \in Nat /\ muxCount[m] >= 1 /\ Times(t, m) = muxCount[m]
         /\ Nested => m = held[t][Len(held[t])]
         /\ held' \in [Tasks -> Seq(Mutexes)]
         /\ \A u \in Tasks, x \in Mutexes :
              Times(u, x)' = IF u = t /\ x = m THEN Times(u, x) - 1 ELSE Times(u, x)
         /\ Len(held'[t]) = Len(held[t]) - 1 /\ Len(held[t]) - 1 \in Nat
         /\ Nested /\ Len(held[t]) > 1 => held'[t][1] = held[t][1]
         /\ \A u \in Tasks \ {t} : held'[u] = held[u]
<1>1. TypeOK /\ held[t] \in Seq(Mutexes)
  BY DEF IInv, OwnersAgree, TypeOK
<1>2. muxCount[m] \in Nat /\ muxCount[m] >= 1 /\ Times(t, m) = muxCount[m]
  BY <1>1, MuxAssumption DEF IInv, OwnersAgree, TypeOK, LOS_MuxPost
<1>3. m \in Listed(held[t])
  BY <1>1, <1>2, TimesFacts
<1>4. held[t] # <<>>
  BY <1>3, EmptyList
<1>5. Nested => m = held[t][Len(held[t])]
  BY <1>4 DEF LOS_MuxPost, Releases
<1>6. held' = [held EXCEPT ![t] = Released(@, m)]
  BY DEF LOS_MuxPost
<1>7. QED
  BY <1>1, <1>2, <1>3, <1>5, <1>6, ReleasesFacts

\* LOS_MuxPost of a mutex that was locked more than once.
LEMMA PostInnerKeepsIInv ==
  ASSUME IInv, NEW t \in Tasks, NEW m \in Mutexes, LOS_MuxPost(t, m), muxCount[m] > 1
  PROVE  IInv'
<1> USE DEF IInv
<1>1. /\ muxCount' = [muxCount EXCEPT ![m] = @ - 1]
      /\ taskStatus[t] = "user" /\ owner[m] = t /\ m \in used
      /\ UNCHANGED <<used, owner, muxPriority, muxList, taskStatus, pendOn, forever, priority>>
  BY DEF LOS_MuxPost
<1>2. /\ muxCount'[m] = muxCount[m] - 1
      /\ \A x \in Mutexes \ {m} : muxCount'[x] = muxCount[x]
  BY <1>1, PostFacts DEF TypeOK
<1>3. TypeOK'
  <2>1. muxCount' \in [Mutexes -> 0 .. MaxHeld]
    <3>1. TypeOK /\ muxCount[m] \in Nat /\ muxCount[m] >= 1
      BY PostFacts
    <3>2. muxCount[m] <= MaxHeld
      BY <3>1, MuxAssumption DEF TypeOK
    <3>3. muxCount[m] - 1 \in 0 .. MaxHeld
      BY <3>1, <3>2, MuxAssumption
    <3>4. QED
      BY <1>1, <3>1, <3>3 DEF TypeOK
  <2>2. held' \in [Tasks -> Seq(Mutexes)]
    BY PostFacts
  <2>3. QED
    BY <1>1, <2>1, <2>2, PostFacts DEF TypeOK
<1>4. OwnersAgree'
  <2> SUFFICES ASSUME NEW x \in Mutexes, NEW u \in Tasks
               PROVE  Times(u, x)' =
                        IF x \notin used \/ owner[x] # u THEN 0
                        ELSE IF taskStatus[u] = "woken" /\ pendOn[u] = x
                             THEN muxCount'[x] - 1 ELSE muxCount'[x]
    BY <1>1, <1>3 DEF OwnersAgree
  <2>1. Times(u, x)' = IF u = t /\ x = m THEN Times(u, x) - 1 ELSE Times(u, x)
    BY PostFacts
  <2>2. CASE u = t /\ x = m
    BY <1>1, <1>2, <2>1, <2>2, PostFacts
  <2>3. CASE ~(u = t /\ x = m)
    BY <1>1, <1>2, <2>1, <2>3 DEF OwnersAgree
  <2>4. QED
    BY <2>2, <2>3
<1>5. WaitersHaveOwner'
  BY <1>1 DEF WaitersHaveOwner
<1>6. RecordsAreSound'
  BY <1>1, <1>2, PostFacts DEF RecordsAreSound
<1>7. QED
  BY <1>4, <1>5, <1>6

\* The last LOS_MuxPost of a mutex nobody waits for.
LEMMA PostFreeKeepsIInv ==
  ASSUME IInv, NEW t \in Tasks, NEW m \in Mutexes, LOS_MuxPost(t, m),
         ~(muxCount[m] > 1), muxList[m] = <<>>
  PROVE  IInv'
<1> USE DEF IInv
<1>1. /\ muxCount' = [muxCount EXCEPT ![m] = 0]
      /\ owner' = [owner EXCEPT ![m] = NoTask]
      /\ priority' = [priority EXCEPT ![t] = muxPriority[m]]
      /\ taskStatus[t] = "user" /\ owner[m] = t /\ m \in used
      /\ UNCHANGED <<used, muxPriority, muxList, taskStatus, pendOn, forever>>
  BY DEF LOS_MuxPost, HandOver, Free, RestoredPriority
<1>2. /\ muxCount'[m] = 0 /\ owner'[m] = NoTask
      /\ \A x \in Mutexes \ {m} : muxCount'[x] = muxCount[x] /\ owner'[x] = owner[x]
  BY <1>1, PostFacts DEF TypeOK
<1>3. TypeOK'
  <2>1. muxCount' \in [Mutexes -> 0 .. MaxHeld]
    BY <1>1, PostFacts, MuxAssumption DEF TypeOK
  <2>2. held' \in [Tasks -> Seq(Mutexes)]
    BY PostFacts
  <2>3. QED
    BY <1>1, <2>1, <2>2, PostFacts DEF TypeOK
<1>4. OwnersAgree'
  <2> SUFFICES ASSUME NEW x \in Mutexes, NEW u \in Tasks
               PROVE  Times(u, x)' =
                        IF x \notin used \/ owner'[x] # u THEN 0
                        ELSE IF taskStatus[u] = "woken" /\ pendOn[u] = x
                             THEN muxCount'[x] - 1 ELSE muxCount'[x]
    BY <1>1, <1>3 DEF OwnersAgree
  <2>1. Times(u, x)' = IF u = t /\ x = m THEN Times(u, x) - 1 ELSE Times(u, x)
    BY PostFacts
  <2>2. CASE x = m
    <3>1. owner'[x] # u
      BY <1>2, <2>2, MuxAssumption
    <3>2. u # t => Times(u, x) = 0
      BY <1>1, <2>2 DEF OwnersAgree
    <3>3. Times(t, m) = 1
      BY PostFacts
    <3>4. QED
      BY <2>1, <2>2, <3>1, <3>2, <3>3
  <2>3. CASE x # m
    BY <1>1, <1>2, <2>1, <2>3 DEF OwnersAgree
  <2>4. QED
    BY <2>2, <2>3
<1>5. \A u \in Tasks : taskStatus[u] \in {"pend", "woken"} => pendOn[u] # m
  <2> SUFFICES ASSUME NEW u \in Tasks, pendOn[u] = m, taskStatus[u] \in {"pend", "woken"}
               PROVE  FALSE
    OBVIOUS
  <2>1. CASE taskStatus[u] = "pend"
    BY <2>1, EmptyList DEF WaitersHaveOwner
  <2>2. CASE taskStatus[u] = "woken"
    BY <1>1, <2>2 DEF WaitersHaveOwner
  <2>3. QED
    BY <2>1, <2>2
<1>6. WaitersHaveOwner'
  <2>1. ASSUME NEW u \in Tasks, taskStatus[u] \in {"pend", "woken"}
        PROVE  owner'[pendOn[u]] = owner[pendOn[u]]
    BY <1>2, <1>5, <2>1 DEF IInv, OwnersAgree, TypeOK
  <2>2. QED
    BY <1>1, <2>1 DEF IInv, WaitersHaveOwner
<1>7. RecordsAreSound'
  BY <1>1, <1>2, MuxAssumption DEF RecordsAreSound
<1>8. QED
  BY <1>4, <1>6, <1>7

\* The last LOS_MuxPost of a mutex goes to the first task of its list.
LEMMA PostGivesFacts ==
  ASSUME IInv, NEW t \in Tasks, NEW m \in Mutexes, LOS_MuxPost(t, m),
         ~(muxCount[m] > 1), muxList[m] # <<>>, NEW h, h = Head(muxList[m])
  PROVE  /\ muxCount' = [muxCount EXCEPT ![m] = 1]
         /\ owner' = [owner EXCEPT ![m] = h]
         /\ muxPriority' = [muxPriority EXCEPT ![m] = priority[h]]
         /\ taskStatus' = [taskStatus EXCEPT ![h] = "woken"]
         /\ muxList' = [muxList EXCEPT ![m] = LOS_ListDelete(@, h)]
         /\ priority' = [priority EXCEPT ![t] = muxPriority[m]]
         /\ taskStatus[t] = "user" /\ owner[m] = t /\ m \in used
         /\ UNCHANGED <<used, pendOn, forever>>
         /\ h \in Tasks \ {t} /\ h \in Listed(muxList[m])
         /\ taskStatus[h] = "pend" /\ pendOn[h] = m
<1>1. TypeOK /\ muxList[m] \in Seq(Tasks)
  BY DEF IInv, OwnersAgree, TypeOK
<1>2. h \in Tasks /\ h \in Listed(muxList[m])
  BY <1>1, FirstIsListed
<1>3. taskStatus[h] = "pend" /\ pendOn[h] = m
  BY <1>2 DEF IInv, WaitersHaveOwner
<1>4. taskStatus[t] = "user" /\ owner[m] = t
  BY DEF LOS_MuxPost
<1>5. h # t
  BY <1>3, <1>4
<1>6. QED
  BY <1>2, <1>3, <1>4, <1>5 DEF LOS_MuxPost, HandOver, Give, RestoredPriority

\* LOS_MuxPost that hands the mutex to the first task of its list.
LEMMA PostGivesKeepsIInv ==
  ASSUME IInv, NEW t \in Tasks, NEW m \in Mutexes, LOS_MuxPost(t, m),
         ~(muxCount[m] > 1), muxList[m] # <<>>
  PROVE  IInv'
<1> DEFINE h == Head(muxList[m])
<1>1. /\ muxCount' = [muxCount EXCEPT ![m] = 1]
      /\ owner' = [owner EXCEPT ![m] = h]
      /\ muxPriority' = [muxPriority EXCEPT ![m] = priority[h]]
      /\ taskStatus' = [taskStatus EXCEPT ![h] = "woken"]
      /\ muxList' = [muxList EXCEPT ![m] = LOS_ListDelete(@, h)]
      /\ priority' = [priority EXCEPT ![t] = muxPriority[m]]
      /\ taskStatus[t] = "user" /\ owner[m] = t /\ m \in used
      /\ UNCHANGED <<used, pendOn, forever>>
      /\ h \in Tasks \ {t} /\ h \in Listed(muxList[m])
      /\ taskStatus[h] = "pend" /\ pendOn[h] = m
  BY PostGivesFacts
<1> HIDE DEF h
<1> USE DEF IInv
<1>2. muxList[m] \in Seq(Tasks) /\ Distinct(muxList[m]) /\ TypeOK
  BY PostFacts DEF TypeOK, RecordsAreSound
<1>3. /\ LOS_ListDelete(muxList[m], h) \in Seq(Tasks)
      /\ Distinct(LOS_ListDelete(muxList[m], h))
      /\ Listed(LOS_ListDelete(muxList[m], h)) = Listed(muxList[m]) \ {h}
  BY <1>1, <1>2, ListDelete
<1>4. /\ muxCount'[m] = 1 /\ owner'[m] = h
      /\ muxList'[m] = LOS_ListDelete(muxList[m], h)
      /\ \A x \in Mutexes \ {m} : /\ muxCount'[x] = muxCount[x] /\ owner'[x] = owner[x]
                                  /\ muxList'[x] = muxList[x]
      /\ taskStatus'[h] = "woken"
      /\ \A u \in Tasks \ {h} : taskStatus'[u] = taskStatus[u]
  BY <1>1, <1>2 DEF TypeOK
<1>5. TypeOK'
  <2>1. 1 \in 0 .. MaxHeld
    BY <1>2, PostFacts, MuxAssumption DEF TypeOK
  <2>2. muxCount' \in [Mutexes -> 0 .. MaxHeld]
    BY <1>1, <1>2, <2>1 DEF TypeOK
  <2>3. held' \in [Tasks -> Seq(Mutexes)]
    BY PostFacts
  <2>4. QED
    BY <1>1, <1>2, <1>3, <2>2, <2>3 DEF TypeOK
<1>6. OwnersAgree'
  <2> SUFFICES ASSUME NEW x \in Mutexes, NEW u \in Tasks
               PROVE  Times(u, x)' =
                        IF x \notin used \/ owner'[x] # u THEN 0
                        ELSE IF taskStatus'[u] = "woken" /\ pendOn[u] = x
                             THEN muxCount'[x] - 1 ELSE muxCount'[x]
    BY <1>1, <1>5 DEF OwnersAgree
  <2>1. Times(u, x)' = IF u = t /\ x = m THEN Times(u, x) - 1 ELSE Times(u, x)
    BY PostFacts
  <2>2. CASE x = m
    <3>1. u # t => Times(u, x) = 0
      BY <1>1, <2>2 DEF OwnersAgree
    <3>2. Times(t, m) = 1
      BY PostFacts
    <3>3. Times(u, x)' = 0
      BY <2>1, <2>2, <3>1, <3>2
    <3>4. QED
      BY <1>1, <1>4, <2>2, <3>3
  <2>3. CASE x # m
    BY <1>1, <1>4, <2>1, <2>3 DEF OwnersAgree
  <2>4. QED
    BY <2>2, <2>3
<1>7. WaitersHaveOwner'
  <2> SUFFICES ASSUME NEW u \in Tasks
               PROVE  /\ taskStatus'[u] = "woken" => owner'[pendOn[u]] = u
                      /\ taskStatus'[u] = "pend" =>
                           pendOn[u] \in used /\ owner'[pendOn[u]] \in Tasks \ {u}
                      /\ \A x \in Mutexes : u \in Listed(muxList'[x]) <=>
                                             taskStatus'[u] = "pend" /\ pendOn[u] = x
    BY <1>1 DEF WaitersHaveOwner
  <2>1. pendOn[u] \in Mutexes
    BY <1>2 DEF TypeOK
  <2>2. CASE u = h
    BY <1>1, <1>3, <1>4, <2>2 DEF WaitersHaveOwner
  <2>3. CASE u # h
    BY <1>1, <1>3, <1>4, <2>1, <2>3 DEF WaitersHaveOwner
  <2>4. QED
    BY <2>2, <2>3
<1>8. RecordsAreSound'
  BY <1>1, <1>3, <1>4 DEF RecordsAreSound
<1>9. QED
  BY <1>6, <1>7, <1>8

-----------------------------------------------------------------------------
\* Every step of the specification keeps the records.
LEMMA NextIInv == IInv /\ [Next]_vars => IInv'
<1> SUFFICES ASSUME IInv, [Next]_vars PROVE IInv'
  OBVIOUS
<1>1. CASE UNCHANGED vars
  BY <1>1, SameTimes DEF vars, mux, IInv, OwnersAgree, TypeOK, WaitersHaveOwner,
                         RecordsAreSound
<1>2. ASSUME NEW t \in Tasks, NEW m \in Mutexes, LOS_MuxPost(t, m) PROVE IInv'
  BY <1>2, PostInnerKeepsIInv, PostFreeKeepsIInv, PostGivesKeepsIInv
<1>3. CASE Next
  BY <1>2, <1>3, CreateKeepsIInv, DeleteKeepsIInv, PendFreeKeepsIInv, PendAgainKeepsIInv,
     PendWaitsKeepsIInv, PendResumesKeepsIInv, TimeoutKeepsIInv, TaskDeleteKeepsIInv
     DEF Next
<1>4. QED
  BY <1>1, <1>3

\* The kernel's record of a mutex agrees with what its users were told, in
\* whatever order callers lock and release and tasks run, time out or are deleted.
THEOREM OwnersAlwaysAgree == Spec => []OwnersAgree
<1>1. IInv => OwnersAgree
  BY DEF IInv
<1>2. QED
  BY <1>1, InitIInv, NextIInv, PTL DEF Spec

\* LOS_MuxPost and the timeouts leave nobody waiting for a mutex without owner.
THEOREM WaitersAlwaysHaveOwner == Spec => []WaitersHaveOwner
<1>1. IInv => WaitersHaveOwner
  BY DEF IInv
<1>2. QED
  BY <1>1, InitIInv, NextIInv, PTL DEF Spec

\* Mutual exclusion: two tasks that have come back from LOS_MuxPend of the same
\* mutex and have not posted it are the same task.
THEOREM MutualExclusion ==
  Spec => [](\A t, u \in Tasks, m \in Mutexes :
               m \in Listed(held[t]) /\ m \in Listed(held[u]) => t = u)
<1> DEFINE Excl == \A t, u \in Tasks, m \in Mutexes :
                     m \in Listed(held[t]) /\ m \in Listed(held[u]) => t = u
<1>1. IInv => Excl
  <2> SUFFICES ASSUME IInv, NEW t \in Tasks, NEW u \in Tasks, NEW m \in Mutexes,
                      m \in Listed(held[t]), m \in Listed(held[u])
               PROVE  t = u
    OBVIOUS
  <2>1. Times(t, m) # 0 /\ Times(u, m) # 0
    BY TimesFacts DEF IInv, OwnersAgree
  <2>2. QED
    BY <2>1 DEF IInv, OwnersAgree
<1>2. QED
  BY <1>1, InitIInv, NextIInv, PTL DEF Spec

-----------------------------------------------------------------------------
\* What a task holds it owns, and one in the user's code holds what it owns.
LEMMA HoldsFacts ==
  ASSUME IInv, NEW t \in Tasks
  PROVE  /\ \A m \in Mutexes : m \in Listed(held[t]) =>
                                 owner[m] = t /\ m \in used /\ muxCount[m] > 0
         /\ \A m \in Mutexes : owner[m] = t => m \in used
         /\ held[t] = <<>> /\ taskStatus[t] # "woken" => \A m \in Mutexes : owner[m] # t
         /\ held[t] # <<>> => held[t][1] \in Mutexes /\ held[t][1] \in Listed(held[t])
<1>1. TypeOK /\ held[t] \in Seq(Mutexes)
  BY DEF IInv, OwnersAgree, TypeOK
<1>2. ASSUME NEW m \in Mutexes, owner[m] = t
      PROVE  m \in used /\ muxCount[m] > 0 /\ muxCount[m] \in Nat
  BY <1>1, <1>2, MuxAssumption DEF IInv, RecordsAreSound, TypeOK
<1>3. ASSUME NEW m \in Mutexes, m \in Listed(held[t])
      PROVE  owner[m] = t /\ m \in used /\ muxCount[m] > 0
  <2>1. Times(t, m) # 0
    BY <1>1, <1>3, TimesFacts
  <2>2. owner[m] = t
    BY <2>1 DEF IInv, OwnersAgree
  <2>3. QED
    BY <1>2, <2>2
<1>4. ASSUME held[t] = <<>>, taskStatus[t] # "woken", NEW m \in Mutexes, owner[m] = t
      PROVE  FALSE
  <2>1. Times(t, m) = 0
    BY <1>1, <1>4, TimesFacts, EmptyList
  <2>2. Times(t, m) = muxCount[m]
    BY <1>2, <1>4 DEF IInv, OwnersAgree
  <2>3. QED
    BY <1>2, <1>4, <2>1, <2>2
<1>5. held[t] # <<>> => held[t][1] \in Mutexes /\ held[t][1] \in Listed(held[t])
  BY <1>1, FirstIsListed
<1>6. QED
  BY <1>2, <1>3, <1>4, <1>5

\* OsMuxInit.
LEMMA InitPInv == Init => PInv
<1> SUFFICES ASSUME Init PROVE PInv
  OBVIOUS
<1>1. PriorityRestored
  BY MuxAssumption DEF Init, PriorityRestored
<1>2. FirstRemembers
  BY DEF Init, FirstRemembers
<1>3. NoneIsWorse
  BY MuxAssumption DEF Init, NoneIsWorse
<1>4. QED
  BY <1>1, <1>2, <1>3 DEF PInv

\* LOS_MuxCreate sets muxPriority of a mutex nobody owned.
LEMMA CreateKeepsPInv ==
  ASSUME IInv, PInv, NEW m \in Mutexes, LOS_MuxCreate(m)
  PROVE  PInv'
<1> USE DEF PInv, LOS_MuxCreate
<1>1. TypeOK /\ owner[m] = NoTask
  BY DEF IInv, RecordsAreSound, OwnersAgree, TypeOK
<1>2. /\ owner'[m] = NoTask
      /\ \A x \in Mutexes \ {m} : muxPriority'[x] = muxPriority[x] /\ owner'[x] = owner[x]
  BY <1>1 DEF TypeOK
<1>3. PriorityRestored'
  <2> SUFFICES ASSUME NEW t \in Tasks, \A x \in used' : owner'[x] # t
               PROVE  priority[t] = BasePrio[t]
    BY DEF PriorityRestored
  <2>1. \A x \in used : owner[x] # t
    BY <1>1, <1>2 DEF TypeOK
  <2>2. QED
    BY <2>1 DEF PriorityRestored
<1>4. FirstRemembers'
  <2> SUFFICES ASSUME NEW t \in Tasks
               PROVE  /\ held[t] # <<>> => muxPriority'[held[t][1]] = BasePrio[t]
                      /\ held[t] = <<>> /\ taskStatus[t] = "woken" =>
                           muxPriority'[pendOn[t]] = BasePrio[t]
    BY DEF FirstRemembers
  <2>1. held[t] # <<>> => held[t][1] \in Mutexes \ {m}
    BY HoldsFacts
  <2>2. taskStatus[t] = "woken" => pendOn[t] \in Mutexes \ {m}
    BY <1>1, MuxAssumption DEF IInv, WaitersHaveOwner, TypeOK
  <2>3. QED
    BY <1>2, <2>1, <2>2 DEF FirstRemembers
<1>5. NoneIsWorse'
  BY <1>2, MuxAssumption DEF NoneIsWorse
<1>6. QED
  BY <1>3, <1>4, <1>5

\* LOS_MuxDelete of a mutex nobody owns.
LEMMA DeleteKeepsPInv ==
  ASSUME IInv, PInv, NEW m \in Mutexes, LOS_MuxDelete(m)
  PROVE  PInv'
<1> USE DEF PInv, LOS_MuxDelete, Deletable
<1>1. owner[m] = NoTask
  BY DEF IInv, RecordsAreSound, OwnersAgree, TypeOK
<1>2. PriorityRestored'
  BY <1>1, MuxAssumption DEF PriorityRestored
<1>3. FirstRemembers' /\ NoneIsWorse'
  BY DEF FirstRemembers, NoneIsWorse
<1>4. QED
  BY <1>2, <1>3

\* LOS_MuxPend of a free mutex: the first one a task locks it locks with the
\* priority it was created with.
LEMMA PendFreeKeepsPInv ==
  ASSUME IInv, PInv, NEW t \in Tasks, NEW m \in Mutexes, MuxPendFree(t, m)
  PROVE  PInv'
<1> USE DEF PInv, MuxPendFree
<1>1. TypeOK /\ owner[m] \notin Tasks
  BY DEF IInv, RecordsAreSound, OwnersAgree
<1>2. /\ owner'[m] = t /\ muxPriority'[m] = priority[t]
      /\ \A x \in Mutexes \ {m} : muxPriority'[x] = muxPriority[x] /\ owner'[x] = owner[x]
  BY <1>1 DEF TypeOK
<1>3. PriorityRestored'
  <2> SUFFICES ASSUME NEW u \in Tasks, \A x \in used : owner'[x] # u
               PROVE  priority[u] = BasePrio[u]
    BY DEF PriorityRestored
  <2>1. \A x \in used : owner[x] # u
    BY <1>1, <1>2 DEF TypeOK
  <2>2. QED
    BY <2>1 DEF PriorityRestored
<1>4. held[t] = <<>> => priority[t] = BasePrio[t]
  <2>1. held[t] = <<>> => \A x \in used : owner[x] # t
    BY <1>1, HoldsFacts DEF TypeOK
  <2>2. QED
    BY <2>1 DEF PriorityRestored
<1>5. FirstRemembers'
  <2> SUFFICES ASSUME NEW u \in Tasks
               PROVE  /\ held'[u] # <<>> => muxPriority'[held'[u][1]] = BasePrio[u]
                      /\ held'[u] = <<>> /\ taskStatus[u] = "woken" =>
                           muxPriority'[pendOn[u]] = BasePrio[u]
    BY DEF FirstRemembers
  <2>1. held[u] # <<>> => held[u][1] \in Mutexes \ {m}
    BY <1>1, HoldsFacts
  <2>2. taskStatus[u] = "woken" => pendOn[u] \in Mutexes \ {m}
    BY <1>1 DEF IInv, WaitersHaveOwner, TypeOK
  <2>3. CASE u = t /\ held[t] # <<>>
    BY <1>1, <1>2, <2>1, <2>3, TakesFacts DEF FirstRemembers
  <2>4. CASE u = t /\ held[t] = <<>>
    BY <1>1, <1>2, <1>4, <2>4, TakesFacts
  <2>5. CASE u # t
    <3>1. held'[u] = held[u]
      BY <1>1, <2>5, TakesFacts
    <3>2. QED
      BY <1>2, <2>1, <2>2, <3>1 DEF FirstRemembers
  <2>6. QED
    BY <2>3, <2>4, <2>5
<1>6. NoneIsWorse'
  BY <1>2 DEF NoneIsWorse, PriorityRestored
<1>7. QED
  BY <1>3, <1>5, <1>6

\* LOS_MuxPend by the owner leaves the priorities alone.
LEMMA PendAgainKeepsPInv ==
  ASSUME IInv, PInv, NEW t \in Tasks, NEW m \in Mutexes, MuxPendAgain(t, m)
  PROVE  PInv'
<1> USE DEF PInv, MuxPendAgain
<1>1. TypeOK
  BY DEF IInv, OwnersAgree
<1>2. PriorityRestored' /\ NoneIsWorse'
  BY DEF PriorityRestored, NoneIsWorse
<1>3. held[t] # <<>>
  BY HoldsFacts
<1>4. FirstRemembers'
  <2>1. \A u \in Tasks : held'[u] # <<>> <=> held[u] # <<>>
    BY <1>1, <1>3, TakesFacts
  <2>2. \A u \in Tasks : held[u] # <<>> => held'[u][1] = held[u][1]
    BY <1>1, <1>3, TakesFacts
  <2>3. QED
    BY <2>1, <2>2 DEF FirstRemembers
<1>5. QED
  BY <1>2, <1>4

\* LOS_MuxPend that waits: a priority is inherited by a task that owns a mutex,
\* and is more urgent than its own.
LEMMA PendWaitsKeepsPInv ==
  ASSUME IInv, PInv, NEW t \in Tasks, NEW m \in Mutexes, NEW ever \in BOOLEAN,
         MuxPendWaits(t, m, ever)
  PROVE  PInv'
<1> USE DEF PInv, MuxPendWaits
<1>1. TypeOK /\ owner[m] \in Tasks \ {t}
  BY DEF IInv, RecordsAreSound, OwnersAgree
<1>2. /\ \A u \in Tasks : priority[u] \in Nat /\ BasePrio[u] \in Nat
      /\ \A u \in Tasks \ {owner[m]} : priority'[u] = priority[u]
      /\ \/ priority'[owner[m]] = priority[owner[m]]
         \/ priority[owner[m]] > priority[t] /\ priority'[owner[m]] = priority[t]
  <2>1. priority \in [Tasks -> Nat] /\ BasePrio \in [Tasks -> Nat]
    BY <1>1, MuxAssumption DEF TypeOK
  <2>2. CASE priority[owner[m]] > priority[t]
    <3>1. priority' = [priority EXCEPT ![owner[m]] = priority[t]]
      BY <2>2
    <3>2. QED
      BY <1>1, <2>1, <2>2, <3>1
  <2>3. CASE ~(priority[owner[m]] > priority[t])
    <3>1. priority' = priority
      BY <2>3
    <3>2. QED
      BY <2>1, <3>1
  <2>4. QED
    BY <2>2, <2>3
<1>3. PriorityRestored'
  <2> SUFFICES ASSUME NEW u \in Tasks
               PROVE  /\ priority'[u] <= BasePrio[u]
                      /\ (\A x \in used : owner[x] # u) => priority'[u] = BasePrio[u]
    BY DEF PriorityRestored
  <2>1. CASE u = owner[m]
    <3>1. priority[u] <= BasePrio[u]
      BY DEF PriorityRestored
    <3>2. priority'[u] <= priority[u]
      BY <1>1, <1>2, <2>1
    <3>3. priority'[u] \in Nat
      BY <1>1, <1>2, <2>1
    <3>4. QED
      BY <1>2, <2>1, <3>1, <3>2, <3>3
  <2>2. CASE u # owner[m]
    BY <1>2, <2>2 DEF PriorityRestored
  <2>3. QED
    BY <2>1, <2>2
<1>4. taskStatus'[t] = "pend" /\ \A u \in Tasks \ {t} : /\ taskStatus'[u] = taskStatus[u]
                                                       /\ pendOn'[u] = pendOn[u]
  BY <1>1 DEF TypeOK
<1>5. FirstRemembers'
  BY <1>4 DEF FirstRemembers
<1>6. NoneIsWorse'
  BY DEF NoneIsWorse
<1>7. QED
  BY <1>3, <1>5, <1>6

\* The end of LOS_MuxPend.
LEMMA PendResumesKeepsPInv ==
  ASSUME IInv, PInv, NEW t \in Tasks, MuxPendResumes(t)
  PROVE  PInv'
<1> USE DEF PInv, MuxPendResumes, mux
<1>1. TypeOK /\ pendOn[t] \in Mutexes
  BY DEF IInv, OwnersAgree, TypeOK
<1>2. PriorityRestored' /\ NoneIsWorse'
  BY DEF PriorityRestored, NoneIsWorse
<1>3. /\ taskStatus'[t] = "user"
      /\ \A u \in Tasks \ {t} : taskStatus'[u] = taskStatus[u]
  BY <1>1 DEF TypeOK
<1>4. FirstRemembers'
  <2>1. CASE taskStatus[t] = "woken"
    <3>1. Takes(t, pendOn[t])
      BY <2>1
    <3>2. /\ \A u \in Tasks \ {t} : held'[u] = held[u]
          /\ held[t] # <<>> => held'[t][1] = held[t][1]
          /\ held[t] = <<>> => held'[t][1] = pendOn[t]
          /\ held'[t] # <<>>
      BY <1>1, <3>1, TakesFacts
    <3>3. QED
      BY <1>3, <2>1, <3>2 DEF FirstRemembers
  <2>2. CASE taskStatus[t] # "woken"
    BY <1>3, <2>2 DEF FirstRemembers
  <2>3. QED
    BY <2>1, <2>2
<1>5. QED
  BY <1>2, <1>4

\* OsSchedWakePendTimeTask: what the task's wait made others inherit stays.
LEMMA TimeoutKeepsPInv ==
  ASSUME IInv, PInv, NEW t \in Tasks, PendTimeout(t)
  PROVE  PInv'
<1> USE DEF PInv, PendTimeout
<1>1. \A u \in Tasks : taskStatus'[u] = "woken" => taskStatus[u] = "woken"
  BY DEF IInv, OwnersAgree, TypeOK
<1>2. PriorityRestored' /\ FirstRemembers' /\ NoneIsWorse'
  BY <1>1 DEF PriorityRestored, FirstRemembers, NoneIsWorse
<1>3. QED
  BY <1>2

\* LOS_TaskDelete: the control block goes to a task that owns no mutex.
LEMMA TaskDeleteKeepsPInv ==
  ASSUME IInv, PInv, NEW t \in Tasks, LOS_TaskDelete(t)
  PROVE  PInv'
<1> USE DEF PInv, LOS_TaskDelete
<1>1. \A u \in Tasks : taskStatus'[u] = "woken" => taskStatus[u] = "woken"
  BY DEF IInv, OwnersAgree, TypeOK
<1>2. \A u \in Tasks : priority'[u] = priority[u] \/ priority'[u] = BasePrio[u]
  BY DEF IInv, OwnersAgree, TypeOK
<1>3. PriorityRestored'
  BY <1>2, MuxAssumption DEF PriorityRestored
<1>4. FirstRemembers' /\ NoneIsWorse'
  BY <1>1 DEF FirstRemembers, NoneIsWorse
<1>5. QED
  BY <1>3, <1>4

\* In the reverse order of locking, a task that keeps any lock keeps its first one,
\* and that is not the mutex it posts for the last time.
LEMMA PostFirstFacts ==
  ASSUME IInv, Nested, NEW t \in Tasks, NEW m \in Mutexes, LOS_MuxPost(t, m)
  PROVE  /\ held[t] # <<>>
         /\ muxCount[m] > 1 => held'[t] # <<>>
         /\ held'[t] # <<>> => held'[t][1] = held[t][1]
         /\ held'[t] # <<>> /\ ~(muxCount[m] > 1) => held[t][1] # m
         /\ held'[t] = <<>> => held[t][1] = m
<1> DEFINE n == Len(held[t])
<1>1. /\ held[t] \in Seq(Mutexes) /\ held'[t] \in Seq(Mutexes)
      /\ m = held[t][n] /\ m \in Listed(held[t])
      /\ Len(held'[t]) = n - 1
      /\ n > 1 => held'[t][1] = held[t][1]
      /\ Times(t, m) = muxCount[m] /\ muxCount[m] \in Nat /\ muxCount[m] >= 1
      /\ Times(t, m)' = Times(t, m) - 1
  BY PostFacts DEF TypeOK
<1>2. n \in Nat /\ n - 1 \in Nat /\ Times(t, m) <= n
  BY PostFacts, TimesFacts
<1>3. held[t] # <<>>
  BY <1>1, EmptyList
<1>4. held'[t] = <<>> <=> n - 1 = 0
  <2>1. ASSUME NEW list \in Seq(Mutexes) PROVE list = <<>> <=> Len(list) = 0
    OBVIOUS
  <2>2. held'[t] = <<>> <=> Len(held'[t]) = 0
    BY <1>1, <2>1
  <2>3. QED
    BY <1>1, <2>2
<1> HIDE DEF n
<1>5. muxCount[m] > 1 => held'[t] # <<>>
  BY <1>1, <1>2, <1>4
<1>6. held'[t] # <<>> => held'[t][1] = held[t][1]
  BY <1>1, <1>2, <1>4
<1>7. held'[t] = <<>> => held[t][1] = m
  BY <1>1, <1>2, <1>4
<1>8. ASSUME held'[t] # <<>>, ~(muxCount[m] > 1) PROVE held[t][1] # m
  <2>1. Cardinality(Positions(held'[t], m)) = 0
    BY <1>1, <1>8 DEF Times
  <2>2. m \notin Listed(held'[t])
    BY <1>1, <2>1, PositionsFacts
  <2>3. held'[t][1] \in Listed(held'[t])
    BY <1>1, <1>8, FirstIsListed
  <2>4. QED
    BY <1>6, <1>8, <2>2, <2>3
<1>9. QED
  BY <1>3, <1>5, <1>6, <1>7, <1>8

\* LOS_MuxPost of a mutex that stays locked.
LEMMA PostInnerKeepsPInv ==
  ASSUME IInv, PInv, Nested, NEW t \in Tasks, NEW m \in Mutexes, LOS_MuxPost(t, m),
         muxCount[m] > 1
  PROVE  PInv'
<1> USE DEF PInv
<1>1. UNCHANGED <<used, owner, muxPriority, taskStatus, pendOn, priority>>
  BY DEF LOS_MuxPost
<1>2. PriorityRestored' /\ NoneIsWorse'
  BY <1>1 DEF PriorityRestored, NoneIsWorse
<1>3. \A u \in Tasks : held'[u] # <<>> <=> held[u] # <<>>
  BY PostFacts, PostFirstFacts
<1>4. \A u \in Tasks : held'[u] # <<>> => held'[u][1] = held[u][1]
  BY PostFacts, PostFirstFacts
<1>5. FirstRemembers'
  BY <1>1, <1>3, <1>4 DEF FirstRemembers
<1>6. QED
  BY <1>2, <1>5

\* The last LOS_MuxPost of a mutex: a task that then owns nothing gets back the
\* priority its first lock remembers.
LEMMA PostLastRestores ==
  ASSUME IInv, PInv, Nested, NEW t \in Tasks, NEW m \in Mutexes, LOS_MuxPost(t, m),
         ~(muxCount[m] > 1), NEW o \in (Tasks \cup {NoTask}) \ {t},
         owner' = [owner EXCEPT ![m] = o],
         priority' = [priority EXCEPT ![t] = muxPriority[m]],
         UNCHANGED used
  PROVE  PriorityRestored'
<1>1. TypeOK /\ owner[m] = t
  BY PostFacts DEF LOS_MuxPost
<1>2. /\ owner'[m] = o /\ \A x \in Mutexes \ {m} : owner'[x] = owner[x]
      /\ priority'[t] = muxPriority[m] /\ \A u \in Tasks \ {t} : priority'[u] = priority[u]
  BY <1>1 DEF TypeOK
<1>3. muxPriority[m] <= BasePrio[t]
  BY <1>1 DEF PInv, NoneIsWorse
<1>4. ASSUME \A x \in used : owner'[x] # t PROVE muxPriority[m] = BasePrio[t]
  <2>1. CASE held'[t] = <<>>
    BY <2>1, PostFirstFacts DEF PInv, FirstRemembers
  <2>2. CASE held'[t] # <<>>
    <3>1. held[t][1] \in Mutexes \ {m} /\ owner[held[t][1]] = t /\ held[t][1] \in used
      BY <2>2, PostFirstFacts, HoldsFacts
    <3>2. QED
      BY <1>2, <1>4, <3>1
  <2>3. QED
    BY <2>1, <2>2
<1>5. ASSUME NEW u \in Tasks \ {t}, \A x \in used : owner'[x] # u
      PROVE  \A x \in used : owner[x] # u
  BY <1>1, <1>2, <1>5 DEF TypeOK
<1>6. ASSUME NEW u \in Tasks
      PROVE  /\ priority'[u] <= BasePrio[u]
             /\ (\A x \in used : owner'[x] # u) => priority'[u] = BasePrio[u]
  <2>1. CASE u = t
    BY <1>2, <1>3, <1>4, <2>1
  <2>2. CASE u # t
    BY <1>2, <1>5, <2>2 DEF PInv, PriorityRestored
  <2>3. QED
    BY <2>1, <2>2
<1>7. QED
  BY <1>6 DEF PriorityRestored

\* The last LOS_MuxPost of a mutex nobody waits for.
LEMMA PostFreeKeepsPInv ==
  ASSUME IInv, PInv, Nested, NEW t \in Tasks, NEW m \in Mutexes, LOS_MuxPost(t, m),
         ~(muxCount[m] > 1), muxList[m] = <<>>
  PROVE  PInv'
<1>1. /\ owner' = [owner EXCEPT ![m] = NoTask]
      /\ priority' = [priority EXCEPT ![t] = muxPriority[m]]
      /\ UNCHANGED <<used, muxPriority, taskStatus, pendOn>>
  BY DEF LOS_MuxPost, HandOver, Free, RestoredPriority
<1>2. PriorityRestored'
  BY <1>1, PostLastRestores, MuxAssumption
<1>3. NoneIsWorse'
  <2>1. \A x \in Mutexes : owner'[x] \in Tasks => owner'[x] = owner[x]
    BY <1>1, PostFacts, MuxAssumption DEF TypeOK
  <2>2. QED
    BY <1>1, <2>1 DEF PInv, NoneIsWorse
<1>4. \A u \in Tasks : held'[u] # <<>> => held[u] # <<>> /\ held'[u][1] = held[u][1]
  BY PostFacts, PostFirstFacts
<1>5. \A u \in Tasks : held'[u] = <<>> /\ taskStatus[u] = "woken" => held[u] = <<>>
  BY PostFacts DEF LOS_MuxPost
<1>6. FirstRemembers'
  BY <1>1, <1>4, <1>5 DEF PInv, FirstRemembers
<1>7. QED
  BY <1>2, <1>3, <1>6 DEF PInv

\* The last LOS_MuxPost of a mutex somebody waits for: muxPriority remembers the
\* priority of the new owner, its own if it has no other mutex.
LEMMA PostGivesKeepsPInv ==
  ASSUME IInv, PInv, Nested, NEW t \in Tasks, NEW m \in Mutexes, LOS_MuxPost(t, m),
         ~(muxCount[m] > 1), muxList[m] # <<>>
  PROVE  PInv'
<1> DEFINE h == Head(muxList[m])
<1>1. /\ owner' = [owner EXCEPT ![m] = h]
      /\ muxPriority' = [muxPriority EXCEPT ![m] = priority[h]]
      /\ taskStatus' = [taskStatus EXCEPT ![h] = "woken"]
      /\ priority' = [priority EXCEPT ![t] = muxPriority[m]]
      /\ taskStatus[t] = "user" /\ owner[m] = t /\ m \in used
      /\ UNCHANGED <<used, pendOn, forever>>
      /\ h \in Tasks \ {t}
      /\ taskStatus[h] = "pend" /\ pendOn[h] = m
  BY PostGivesFacts
<1> HIDE DEF h
<1>2. TypeOK
  BY PostFacts
<1>3. PriorityRestored'
  BY <1>1, PostLastRestores
<1>4. /\ owner'[m] = h /\ muxPriority'[m] = priority[h]
      /\ \A x \in Mutexes \ {m} : owner'[x] = owner[x] /\ muxPriority'[x] = muxPriority[x]
      /\ taskStatus'[t] = "user"
      /\ \A u \in Tasks \ {h} : taskStatus'[u] = taskStatus[u]
  BY <1>1, <1>2 DEF TypeOK
<1>5. NoneIsWorse'
  BY <1>1, <1>4 DEF PInv, NoneIsWorse, PriorityRestored
<1>6. held[h] = <<>> => priority[h] = BasePrio[h]
  <2>1. held[h] = <<>> => \A x \in used : owner[x] # h
    BY <1>1, <1>2, HoldsFacts DEF TypeOK
  <2>2. QED
    BY <1>1, <2>1 DEF PInv, PriorityRestored
<1>7. FirstRemembers'
  <2> SUFFICES ASSUME NEW u \in Tasks
               PROVE  /\ held'[u] # <<>> => muxPriority'[held'[u][1]] = BasePrio[u]
                      /\ held'[u] = <<>> /\ taskStatus'[u] = "woken" =>
                           muxPriority'[pendOn[u]] = BasePrio[u]
    BY <1>1 DEF FirstRemembers
  <2>1. CASE u = t
    <3>1. held'[t] # <<>> => held[t][1] \in Mutexes \ {m} /\ held'[t][1] = held[t][1]
      BY PostFirstFacts, HoldsFacts
    <3>2. held[t] # <<>>
      BY PostFirstFacts
    <3>3. QED
      BY <1>4, <2>1, <3>1, <3>2 DEF PInv, FirstRemembers
  <2>2. CASE u # t
    <3>1. held'[u] = held[u]
      BY <2>2, PostFacts
    <3>2. held[u] # <<>> => held[u][1] \in Mutexes \ {m}
      BY <1>1, <2>2, HoldsFacts
    <3>3. taskStatus[u] = "woken" => pendOn[u] \in Mutexes \ {m}
      BY <1>1, <1>2, <2>2 DEF IInv, WaitersHaveOwner, TypeOK
    <3>4. CASE u = h
      BY <1>1, <1>4, <1>6, <3>1, <3>2, <3>4 DEF PInv, FirstRemembers
    <3>5. CASE u # h
      BY <1>4, <3>1, <3>2, <3>3, <3>5 DEF PInv, FirstRemembers
    <3>6. QED
      BY <3>4, <3>5
  <2>3. QED
    BY <2>1, <2>2
<1>8. QED
  BY <1>3, <1>5, <1>7 DEF PInv

\* Every step of nested callers keeps the priorities.
LEMMA NextPInv ==
  ASSUME Nested
  PROVE  IInv /\ PInv /\ [Next]_vars => PInv'
<1> SUFFICES ASSUME IInv, PInv, [Next]_vars PROVE PInv'
  OBVIOUS
<1>1. CASE UNCHANGED vars
  BY <1>1 DEF vars, mux, PInv, PriorityRestored, FirstRemembers, NoneIsWorse
<1>2. ASSUME NEW t \in Tasks, NEW m \in Mutexes, LOS_MuxPost(t, m) PROVE PInv'
  BY <1>2, PostInnerKeepsPInv, PostFreeKeepsPInv, PostGivesKeepsPInv
<1>3. CASE Next
  BY <1>2, <1>3, CreateKeepsPInv, DeleteKeepsPInv, PendFreeKeepsPInv, PendAgainKeepsPInv,
     PendWaitsKeepsPInv, PendResumesKeepsPInv, TimeoutKeepsPInv, TaskDeleteKeepsPInv
     DEF Next
<1>4. QED
  BY <1>1, <1>3

\* Priority inheritance is undone: if callers release in the reverse order of
\* locking, a task that owns no mutex has the priority it was created with.
THEOREM InheritanceEnds ==
  ASSUME Nested
  PROVE  Spec => []PriorityRestored
<1>1. PInv => PriorityRestored
  BY DEF PInv
<1>2. Init => IInv /\ PInv
  BY InitIInv, InitPInv
<1>3. (IInv /\ PInv) /\ [Next]_vars => (IInv /\ PInv)'
  BY NextIInv, NextPInv
<1>4. QED
  BY <1>1, <1>2, <1>3, PTL DEF Spec
=============================================================================
