--------------------------- MODULE PendListProofs ---------------------------
(***************************************************************************)
(* What the list operations of the kernel do to the tasks of a list, for   *)
(* lists in which no task is twice.  The proofs about queues, mutexes and  *)
(* semaphores rest on these facts.                                         *)
(***************************************************************************)
EXTENDS PendList, FiniteSetTheorems, TLAPS

\* No task has two nodes in the list.
Distinct(list) == \A i, j \in DOMAIN list : list[i] = list[j] => i = j

\* A list initialised by LOS_ListInit holds nobody.
LEMMA EmptyList ==
  /\ Listed(<<>>) = {}
  /\ Distinct(<<>>)
BY DEF Listed, Distinct

\* LOS_DL_LIST_FIRST of a list in use is one of its tasks.
LEMMA FirstIsListed ==
  ASSUME NEW S, NEW list \in Seq(S), list # <<>>
  PROVE  /\ Head(list) \in S
         /\ Head(list) \in Listed(list)
BY DEF Listed

\* A list with nobody in it is the empty list.
LEMMA NobodyListed ==
  ASSUME NEW S, NEW list \in Seq(S)
  PROVE  /\ Listed(list) \subseteq S
         /\ list = <<>> <=> Listed(list) = {}
<1>1. ASSUME list # <<>> PROVE Listed(list) # {}
  BY <1>1, FirstIsListed
<1>2. QED
  BY <1>1, EmptyList DEF Listed

\* LOS_ListTailInsert adds its task.
LEMMA TailInsert ==
  ASSUME NEW S, NEW list \in Seq(S), NEW t \in S
  PROVE  /\ Append(list, t) \in Seq(S)
         /\ Append(list, t) # <<>>
         /\ Listed(Append(list, t)) = Listed(list) \cup {t}
         /\ Distinct(list) /\ t \notin Listed(list) => Distinct(Append(list, t))
<1> DEFINE new == Append(list, t)
<1>1. /\ new \in Seq(S) /\ Len(new) = Len(list) + 1
      /\ \A i \in 1 .. Len(list) : new[i] = list[i]
      /\ new[Len(list) + 1] = t
      /\ Len(list) \in Nat
      /\ DOMAIN list = 1 .. Len(list) /\ DOMAIN new = 1 .. Len(list) + 1
  OBVIOUS
<1> HIDE DEF new
<1>2. new # <<>>
  BY <1>1
<1>3. Listed(new) = Listed(list) \cup {t}
  BY <1>1 DEF Listed
<1>4. Distinct(list) /\ t \notin Listed(list) => Distinct(new)
  BY <1>1 DEF Listed, Distinct
<1>5. QED
  BY <1>1, <1>2, <1>3, <1>4 DEF new

\* LOS_ListDelete takes off its task and leaves the others.
LEMMA ListDelete ==
  ASSUME NEW S, NEW list \in Seq(S), Distinct(list), NEW t \in Listed(list)
  PROVE  /\ LOS_ListDelete(list, t) \in Seq(S)
         /\ Listed(LOS_ListDelete(list, t)) = Listed(list) \ {t}
         /\ Distinct(LOS_ListDelete(list, t))
<1> DEFINE k == CHOOSE i \in DOMAIN list : list[i] = t
           new == LOS_ListDelete(list, t)
<1>1. k \in 1 .. Len(list) /\ list[k] = t
  BY DEF Listed
<1>2. \A i \in 1 .. Len(list) : list[i] = t => i = k
  BY <1>1 DEF Distinct
<1>3. new = [i \in 1 .. Len(list) - 1 |-> IF i < k THEN list[i] ELSE list[i + 1]]
  BY DEF LOS_ListDelete
<1>4. Len(list) \in Nat /\ DOMAIN list = 1 .. Len(list) /\ Len(list) - 1 \in Nat
  BY <1>1
<1> HIDE DEF k, new
<1>5. \A i \in 1 .. Len(list) - 1 : new[i] \in S
  BY <1>1, <1>3, <1>4
<1>6. new \in Seq(S) /\ DOMAIN new = 1 .. Len(list) - 1
  BY <1>3, <1>4, <1>5
<1>7. Listed(new) = Listed(list) \ {t}
  <2>1. ASSUME NEW x \in Listed(new) PROVE x \in Listed(list) \ {t}
    BY <1>1, <1>2, <1>3, <1>4, <1>6 DEF Listed
  <2>2. ASSUME NEW x \in Listed(list) \ {t} PROVE x \in Listed(new)
    <3>1. PICK i \in 1 .. Len(list) : list[i] = x
      BY <1>4 DEF Listed
    <3>2. i # k
      BY <1>1, <3>1
    <3>3. CASE i < k
      <4>1. i \in 1 .. Len(list) - 1
        BY <1>1, <1>4, <3>3
      <4>2. new[i] = x
        BY <1>3, <3>1, <3>3, <4>1
      <4>3. QED
        BY <1>6, <4>1, <4>2 DEF Listed
    <3>4. CASE i > k
      <4>1. i - 1 \in 1 .. Len(list) - 1 /\ ~(i - 1 < k) /\ (i - 1) + 1 = i
        BY <1>1, <1>4, <3>4
      <4>2. new[i - 1] = x
        BY <1>3, <3>1, <4>1
      <4>3. QED
        BY <1>6, <4>1, <4>2 DEF Listed
    <3>5. QED
      BY <1>1, <1>4, <3>2, <3>3, <3>4
  <2>3. QED
    BY <2>1, <2>2
<1>8. Distinct(new)
  <2> SUFFICES ASSUME NEW i \in 1 .. Len(list) - 1, NEW j \in 1 .. Len(list) - 1,
                      new[i] = new[j]
               PROVE  i = j
    BY <1>6 DEF Distinct
  <2> DEFINE old(l) == IF l < k THEN l ELSE l + 1
  <2>1. old(i) \in DOMAIN list /\ old(j) \in DOMAIN list
    BY <1>1, <1>4
  <2>2. list[old(i)] = list[old(j)]
    BY <1>3
  <2>3. old(i) = old(j)
    BY <2>1, <2>2 DEF Distinct
  <2>4. QED
    BY <1>1, <1>4, <2>3
<1>9. QED
  BY <1>6, <1>7, <1>8 DEF new

-----------------------------------------------------------------------------
\* One element more in, or out of, a finite set.
LEMMA OneMoreOrLess ==
  ASSUME NEW S, IsFiniteSet(S), NEW t
  PROVE  /\ t \notin S => Cardinality(S \cup {t}) = Cardinality(S) + 1
         /\ t \in S => Cardinality(S \ {t}) = Cardinality(S) - 1 /\ Cardinality(S) >= 1
<1>1. t \notin S => Cardinality(S \cup {t}) = Cardinality(S) + 1
  BY FS_AddElement
<1>2. ASSUME t \in S PROVE Cardinality(S \ {t}) = Cardinality(S) - 1
  BY <1>2, FS_RemoveElement
<1>3. ASSUME t \in S PROVE Cardinality(S) >= 1
  <2>1. Cardinality(S) \in Nat
    BY FS_CardinalityType
  <2>2. Cardinality(S) # 0
    BY <1>3, FS_EmptySet
  <2>3. QED
    BY <2>1, <2>2
<1>4. QED
  BY <1>1, <1>2, <1>3
=============================================================================
