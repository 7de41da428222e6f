--------------------------- MODULE LosSwtmrProofs ---------------------------
(***************************************************************************)
(* Proofs about LosSwtmr for any number of control blocks, generations and *)
(* queue places, for callers that do not start a one-shot timer whose      *)
(* expiry is queued.  The checked invariants are made inductive by three   *)
(* facts: an ID names the block it is stored in, an item in the queue or   *)
(* taken from it whose ID is valid belongs to a timer that exists, and a   *)
(* one-shot timer is never both listed and queued.                         *)
(***************************************************************************)
EXTENDS LosSwtmr, TLAPS

\* OsSwtmrDelete changes the generation of an ID only.
IdsInPlace == \A c \in Blocks : timer[c].id[1] = c

\* An item that OsSwtmrTask would not ignore stems from a timer that exists.
ValidIsLive ==
  \A i \in 1..Len(handlerQueue) :
    Valid(handlerQueue[i].id) =>
      /\ handlerQueue[i].live
      /\ timer[handlerQueue[i].id[1]].state # "UNUSED"

TakenIsLive ==
  swtTask = "took" /\ Valid(swtmrHandle.id) =>
    /\ swtmrHandle.live
    /\ timer[swtmrHandle.id[1]].state # "UNUSED"

\* Swt_Task, when it deletes a one-shot timer, finds it outside the sorted list.
ListedIsNotQueued ==
  \A c \in sortLink : timer[c].mode = "ONCE" => ~Queued(timer[c].id)

IInv ==
  /\ TypeOK
  /\ IdsInPlace
  /\ ValidIsLive
  /\ TakenIsLive
  /\ ListedIsNotQueued
  /\ OnlyLiveHandlers
  /\ FreeListIsExact
  /\ TickingIsServed

-----------------------------------------------------------------------------
\* Head and Tail of a nonempty sequence, by index.
LEMMA TailFacts ==
  ASSUME NEW S, NEW s \in Seq(S), s # <<>>
  PROVE  /\ Tail(s) \in Seq(S)
         /\ Len(s) \in Nat /\ Len(s) >= 1 /\ Len(Tail(s)) = Len(s) - 1
         /\ \A i \in 1..Len(Tail(s)) : Tail(s)[i] = s[i + 1] /\ i + 1 \in 1..Len(s)
         /\ Head(s) = s[1] /\ Head(s) \in S
OBVIOUS

\* A block put in front of the free list.
LEMMA ConsFacts ==
  ASSUME NEW S, NEW s \in Seq(S), NEW c \in S
  PROVE  /\ <<c>> \o s \in Seq(S)
         /\ Len(s) \in Nat /\ Len(<<c>> \o s) = Len(s) + 1
         /\ (<<c>> \o s)[1] = c
         /\ \A i \in 1..Len(s) : (<<c>> \o s)[i + 1] = s[i]
OBVIOUS

\* NextId stays in the block and is another ID.
LEMMA NextIdFacts ==
  ASSUME NEW id \in Ids
  PROVE  NextId(id) \in Ids /\ NextId(id)[1] = id[1] /\ NextId(id) # id
BY SizeAssumption DEF Ids, NextId

\* The ID of a queued item names a block.
LEMMA ItemFacts ==
  ASSUME NEW q \in Seq(Item), NEW i \in 1..Len(q)
  PROVE  /\ q[i] \in Item /\ q[i].id \in Ids /\ q[i].id[1] \in Blocks
         /\ q[i].live \in BOOLEAN
<1>1. q[i] \in Item
  OBVIOUS
<1>2. q[i].id \in Ids /\ q[i].live \in BOOLEAN
  BY <1>1 DEF Item
<1>3. q[i].id[1] \in Blocks
  BY <1>2 DEF Ids
<1> QED BY <1>1, <1>2, <1>3

\* Deleting a timer keeps the length and the IDs of the queue.
LEMMA RetiredFacts ==
  ASSUME NEW q \in Seq(Item), NEW id \in Ids
  PROVE  /\ Retired(q, id) \in Seq(Item)
         /\ Len(Retired(q, id)) = Len(q)
         /\ \A i \in 1..Len(q) :
              /\ Retired(q, id)[i].id = q[i].id
              /\ q[i].id # id => Retired(q, id)[i].live = q[i].live
<1> DEFINE r == Retired(q, id)
           e(i) == IF q[i].id = id THEN [id |-> id, live |-> FALSE] ELSE q[i]
<1>1. Len(q) \in Nat /\ r = [i \in 1..Len(q) |-> e(i)]
  BY DEF Retired
<1>2. ASSUME NEW i \in 1..Len(q)
      PROVE  e(i) \in Item /\ e(i).id = q[i].id /\ (q[i].id # id => e(i).live = q[i].live)
  <2>1. CASE q[i].id = id
    BY <2>1 DEF Item
  <2>2. CASE q[i].id # id
    BY <2>2, ItemFacts
  <2> QED BY <2>1, <2>2
<1> HIDE DEF e
<1>3. r \in Seq(Item) /\ Len(r) = Len(q)
  BY <1>1, <1>2
<1>4. \A i \in 1..Len(q) : r[i] = e(i)
  BY <1>1
<1> QED BY <1>2, <1>3, <1>4

-----------------------------------------------------------------------------
\* OsSwtmrInit.
LEMMA InitIInv == Init => IInv
<1> SUFFICES ASSUME Init PROVE IInv
  OBVIOUS
<1>1. TypeOK
  <2>1. timer \in [Blocks -> Timer]
    BY SizeAssumption DEF Init, Timer, Ids, Modes, States
  <2>2. freeList \in Seq(Blocks)
    BY FirstListAssumption DEF Init
  <2>3. handlerQueue \in Seq(Item) /\ Len(handlerQueue) <= QueueSize
    BY SizeAssumption DEF Init
  <2> QED BY <2>1, <2>2, <2>3 DEF Init, TypeOK
<1>2. /\ IdsInPlace /\ ValidIsLive /\ TakenIsLive /\ ListedIsNotQueued
      /\ OnlyLiveHandlers /\ TickingIsServed
  BY DEF Init, IdsInPlace, ValidIsLive, TakenIsLive, ListedIsNotQueued, OnlyLiveHandlers,
         TickingIsServed
<1>3. FreeListIsExact
  BY FirstListAssumption DEF Init, FreeListIsExact
<1> QED BY <1>1, <1>2, <1>3 DEF IInv

\* LOS_SwtmrCreate: the block it takes has nothing queued, so its mode may change.
LEMMA CreateKeepsIInv ==
  ASSUME IInv, NEW mode \in Modes, LOS_SwtmrCreate(mode)
  PROVE  IInv'
<1> DEFINE h == Head(freeList)
<1>1. /\ freeList \in Seq(Blocks) /\ freeList # <<>>
      /\ h = freeList[1] /\ h \in Blocks /\ Len(freeList) \in Nat /\ Len(freeList) >= 1
      /\ Tail(freeList) \in Seq(Blocks)
      /\ Len(Tail(freeList)) = Len(freeList) - 1
      /\ \A i \in 1..Len(Tail(freeList)) :
           Tail(freeList)[i] = freeList[i + 1] /\ i + 1 \in 1..Len(freeList)
  BY TailFacts DEF IInv, TypeOK, LOS_SwtmrCreate
<1>2. /\ timer \in [Blocks -> Timer] /\ timer' \in [Blocks -> Timer]
      /\ timer'[h].state = "CREATED" /\ timer'[h].mode = mode
      /\ timer'[h].id = timer[h].id
      /\ \A c \in Blocks \ {h} : timer'[c] = timer[c]
      /\ \A c \in Blocks : timer'[c].id = timer[c].id
  <2>1. timer \in [Blocks -> Timer]
    BY DEF IInv, TypeOK
  <2> DEFINE new == [timer[h] EXCEPT !.mode = mode, !.state = "CREATED"]
  <2>2. timer' = [timer EXCEPT ![h] = new]
    BY <1>1, <2>1 DEF LOS_SwtmrCreate
  <2>3. new \in Timer /\ new.state = "CREATED" /\ new.mode = mode /\ new.id = timer[h].id
    BY <1>1, <2>1 DEF Timer, States
  <2> HIDE DEF new
  <2>4. QED
    BY <1>1, <2>1, <2>2, <2>3
<1>3. timer[h].state = "UNUSED"
  BY <1>1 DEF IInv, FreeListIsExact
<1>4. ~Queued(timer[h].id) /\ h \notin sortLink
  <2>1. h \notin sortLink
    BY <1>1, <1>3 DEF IInv, TickingIsServed
  <2>2. ASSUME NEW i \in 1..Len(handlerQueue), handlerQueue[i].id = timer[h].id
        PROVE  FALSE
    <3>1. timer[h].id[1] = h
      BY <1>1 DEF IInv, IdsInPlace
    <3>2. Valid(handlerQueue[i].id)
      BY <2>2, <3>1 DEF Valid
    <3> QED BY <2>2, <3>1, <3>2, <1>3 DEF IInv, ValidIsLive
  <2>3. ASSUME Held("took", timer[h].id) PROVE FALSE
    <3>1. timer[h].id[1] = h
      BY <1>1 DEF IInv, IdsInPlace
    <3>2. Valid(swtmrHandle.id)
      BY <2>3, <3>1 DEF Valid, Held
    <3> QED BY <2>3, <3>1, <3>2, <1>3 DEF IInv, TakenIsLive, Held
  <2> QED BY <2>1, <2>2, <2>3 DEF Queued, InQueue
<1>5. TypeOK'
  BY <1>1, <1>2 DEF IInv, TypeOK, LOS_SwtmrCreate
<1>6. IdsInPlace'
  BY <1>2 DEF IInv, IdsInPlace
<1>7. ValidIsLive'
  <2> SUFFICES ASSUME NEW i \in 1..Len(handlerQueue), timer'[handlerQueue[i].id[1]].id = handlerQueue[i].id
               PROVE  handlerQueue[i].live /\ timer'[handlerQueue[i].id[1]].state # "UNUSED"
    BY DEF ValidIsLive, Valid, LOS_SwtmrCreate
  <2>1. handlerQueue[i].id \in Ids /\ handlerQueue[i].id[1] \in Blocks
    BY ItemFacts DEF IInv, TypeOK
  <2>2. Valid(handlerQueue[i].id)
    BY <2>1, <1>2 DEF Valid
  <2> QED BY <2>1, <2>2, <1>1, <1>2 DEF IInv, ValidIsLive
<1>71. TakenIsLive'
  <2> SUFFICES ASSUME swtTask = "took", timer'[swtmrHandle.id[1]].id = swtmrHandle.id
               PROVE  swtmrHandle.live /\ timer'[swtmrHandle.id[1]].state # "UNUSED"
    BY DEF TakenIsLive, Valid, LOS_SwtmrCreate
  <2>1. swtmrHandle.id[1] \in Blocks
    BY DEF IInv, TypeOK, Item, Ids
  <2>2. Valid(swtmrHandle.id)
    BY <2>1, <1>2 DEF Valid
  <2> QED BY <2>1, <2>2, <1>1, <1>2 DEF IInv, TakenIsLive
<1>8. ListedIsNotQueued'
  BY <1>1, <1>2, <1>4 DEF IInv, TypeOK, ListedIsNotQueued, Queued, InQueue, Held, LOS_SwtmrCreate
<1>9. OnlyLiveHandlers'
  BY DEF IInv, OnlyLiveHandlers, LOS_SwtmrCreate
<1>10. FreeListIsExact'
  <2>1. freeList' = Tail(freeList)
    BY DEF LOS_SwtmrCreate
  <2>2. ASSUME NEW i \in 1..Len(Tail(freeList)), NEW j \in 1..Len(Tail(freeList)),
               Tail(freeList)[i] = Tail(freeList)[j]
        PROVE  i = j
    <3>1. freeList[i + 1] = freeList[j + 1] /\ i + 1 \in 1..Len(freeList)
                                            /\ j + 1 \in 1..Len(freeList)
      BY <1>1, <2>2
    <3>2. i + 1 = j + 1
      BY <3>1 DEF IInv, FreeListIsExact
    <3> QED BY <3>2
  <2>3. ASSUME NEW i \in 1..Len(Tail(freeList)) PROVE Tail(freeList)[i] # h
    <3>1. Tail(freeList)[i] = freeList[i + 1] /\ i + 1 \in 1..Len(freeList) /\ i + 1 # 1
      BY <1>1
    <3> QED BY <1>1, <3>1 DEF IInv, FreeListIsExact
  <2>4. ASSUME NEW c \in Blocks \ {h}
        PROVE  timer[c].state = "UNUSED" <=>
                 \E i \in 1..Len(Tail(freeList)) : Tail(freeList)[i] = c
    <3>1. ASSUME timer[c].state = "UNUSED"
          PROVE  \E i \in 1..Len(Tail(freeList)) : Tail(freeList)[i] = c
      <4>1. PICK k \in 1..Len(freeList) : freeList[k] = c
        BY <3>1 DEF IInv, FreeListIsExact
      <4>2. k - 1 \in 1..Len(Tail(freeList)) /\ Tail(freeList)[k - 1] = c
        BY <1>1, <4>1
      <4> QED BY <4>2
    <3>2. ASSUME NEW i \in 1..Len(Tail(freeList)), Tail(freeList)[i] = c
          PROVE  timer[c].state = "UNUSED"
      BY <1>1, <3>2 DEF IInv, FreeListIsExact
    <3> QED BY <3>1, <3>2
  <2> QED BY <1>1, <1>2, <2>1, <2>2, <2>3, <2>4 DEF FreeListIsExact
<1>11. TickingIsServed'
  BY <1>1, <1>2, <1>4 DEF IInv, TickingIsServed, Queued, InQueue, Held, LOS_SwtmrCreate
<1> QED BY <1>5, <1>6, <1>7, <1>71, <1>8, <1>9, <1>10, <1>11 DEF IInv

\* What changes when a timer that exists starts or stops ticking.
LEMMA StateFacts ==
  ASSUME IInv, NEW c \in Blocks, timer[c].state # "UNUSED",
         NEW st \in {"CREATED", "TICKING"},
         timer' = [timer EXCEPT ![c].state = st]
  PROVE  /\ timer' \in [Blocks -> Timer]
         /\ timer'[c].state = st
         /\ \A b \in Blocks : /\ timer'[b].id = timer[b].id
                              /\ timer'[b].mode = timer[b].mode
                              /\ b # c => timer'[b] = timer[b]
                              /\ timer'[b].state = "UNUSED" <=> timer[b].state = "UNUSED"
BY DEF IInv, TypeOK, Timer, States

\* The queue keeps its meaning while no timer comes or goes.
LEMMA SameQueue ==
  ASSUME IInv, handlerQueue' = handlerQueue, swtTask' = swtTask,
         swtmrHandle' = swtmrHandle,
         \A b \in Blocks : /\ timer'[b].id = timer[b].id
                           /\ timer'[b].state = "UNUSED" <=> timer[b].state = "UNUSED"
  PROVE  ValidIsLive' /\ TakenIsLive'
<1>1. ASSUME NEW i \in 1..Len(handlerQueue),
             timer'[handlerQueue[i].id[1]].id = handlerQueue[i].id
      PROVE  handlerQueue[i].live /\ timer'[handlerQueue[i].id[1]].state # "UNUSED"
  <2>1. handlerQueue[i].id[1] \in Blocks
    BY ItemFacts DEF IInv, TypeOK
  <2>2. Valid(handlerQueue[i].id)
    BY <1>1, <2>1 DEF Valid
  <2> QED BY <2>1, <2>2 DEF IInv, ValidIsLive
<1>2. ASSUME swtTask = "took", timer'[swtmrHandle.id[1]].id = swtmrHandle.id
      PROVE  swtmrHandle.live /\ timer'[swtmrHandle.id[1]].state # "UNUSED"
  <2>1. swtmrHandle.id[1] \in Blocks
    BY <1>2 DEF IInv, TypeOK, Item, Ids
  <2>2. Valid(swtmrHandle.id)
    BY <1>2, <2>1 DEF Valid
  <2> QED BY <1>2, <2>1, <2>2 DEF IInv, TakenIsLive
<1> QED BY <1>1, <1>2 DEF ValidIsLive, TakenIsLive, Valid

\* LOS_SwtmrStart: a one-shot timer enters the list only when no expiry is queued.
LEMMA StartKeepsIInv ==
  ASSUME Careful, IInv, NEW id \in Ids, LOS_SwtmrStart(id)
  PROVE  IInv'
<1> DEFINE c == id[1]
<1>1. c \in Blocks /\ timer[c].id = id /\ timer[c].state # "UNUSED"
  BY DEF LOS_SwtmrStart, Valid, Ids
<1>2. /\ timer' = [timer EXCEPT ![c].state = "TICKING"]
      /\ sortLink' = sortLink \cup {c} /\ dropped' = dropped \ {c}
      /\ freeList' = freeList /\ handlerQueue' = handlerQueue /\ swtTask' = swtTask
      /\ swtmrHandle' = swtmrHandle /\ overtaken' = overtaken
      /\ ~(timer[c].mode = "ONCE" /\ Queued(id))
  BY DEF LOS_SwtmrStart
<1> HIDE DEF c
<1>3. /\ timer' \in [Blocks -> Timer]
      /\ timer'[c].state = "TICKING"
      /\ \A b \in Blocks : /\ timer'[b].id = timer[b].id
                           /\ timer'[b].mode = timer[b].mode
                           /\ b # c => timer'[b] = timer[b]
                           /\ timer'[b].state = "UNUSED" <=> timer[b].state = "UNUSED"
  BY <1>1, <1>2, StateFacts
<1>4. TypeOK'
  BY <1>1, <1>2, <1>3 DEF IInv, TypeOK
<1>5. IdsInPlace' /\ OnlyLiveHandlers'
  BY <1>2, <1>3 DEF IInv, IdsInPlace, OnlyLiveHandlers
<1>6. ValidIsLive' /\ TakenIsLive'
  BY <1>2, <1>3, SameQueue
<1>7. ListedIsNotQueued'
  BY <1>1, <1>2, <1>3 DEF IInv, TypeOK, ListedIsNotQueued, Queued, InQueue, Held
<1>8. FreeListIsExact'
  BY <1>2, <1>3 DEF IInv, FreeListIsExact
<1>9. TickingIsServed'
  BY <1>1, <1>2, <1>3 DEF IInv, TickingIsServed, Queued, InQueue, Held
<1> QED BY <1>4, <1>5, <1>6, <1>7, <1>8, <1>9 DEF IInv

\* LOS_SwtmrStop leaves the list and the ticking state together.
LEMMA StopKeepsIInv ==
  ASSUME IInv, NEW id \in Ids, LOS_SwtmrStop(id)
  PROVE  IInv'
<1> DEFINE c == id[1]
<1>1. c \in Blocks /\ timer[c].state # "UNUSED"
  BY DEF LOS_SwtmrStop, Ids
<1>2. /\ timer' = [timer EXCEPT ![c].state = "CREATED"]
      /\ sortLink' = sortLink \ {c} /\ dropped' = dropped \ {c}
      /\ freeList' = freeList /\ handlerQueue' = handlerQueue /\ swtTask' = swtTask
      /\ swtmrHandle' = swtmrHandle /\ overtaken' = overtaken
  BY DEF LOS_SwtmrStop
<1> HIDE DEF c
<1>3. /\ timer' \in [Blocks -> Timer]
      /\ timer'[c].state = "CREATED"
      /\ \A b \in Blocks : /\ timer'[b].id = timer[b].id
                           /\ timer'[b].mode = timer[b].mode
                           /\ b # c => timer'[b] = timer[b]
                           /\ timer'[b].state = "UNUSED" <=> timer[b].state = "UNUSED"
  BY <1>1, <1>2, StateFacts
<1>4. TypeOK'
  BY <1>1, <1>2, <1>3 DEF IInv, TypeOK
<1>5. IdsInPlace' /\ OnlyLiveHandlers'
  BY <1>2, <1>3 DEF IInv, IdsInPlace, OnlyLiveHandlers
<1>6. ValidIsLive' /\ TakenIsLive'
  BY <1>2, <1>3, SameQueue
<1>7. ListedIsNotQueued'
  BY <1>2, <1>3 DEF IInv, TypeOK, ListedIsNotQueued, Queued, InQueue, Held
<1>8. FreeListIsExact'
  BY <1>2, <1>3 DEF IInv, FreeListIsExact
<1>9. TickingIsServed'
  BY <1>1, <1>2, <1>3 DEF IInv, TickingIsServed, Queued, InQueue, Held
<1> QED BY <1>4, <1>5, <1>6, <1>7, <1>8, <1>9 DEF IInv

\* OsSwtmrDelete of a timer that exists and is not left in the list, q being what
\* remains of the queue: its items become invalid and the block is freed once.
LEMMA DeleteKeepsRest ==
  ASSUME IInv, NEW c \in Blocks, timer[c].state # "UNUSED",
         OsSwtmrDelete(c), sortLink' = sortLink \ {c},
         swtTask' = "took" =>
           /\ swtTask = "took"
           /\ swtmrHandle'.id = swtmrHandle.id
           /\ swtmrHandle.id # timer[c].id => swtmrHandle' = swtmrHandle,
         \A b \in Blocks \ {c} :
           Held("took", timer[b].id) => swtTask' = "took" /\ swtmrHandle'.id = timer[b].id
  PROVE  /\ timer' \in [Blocks -> Timer] /\ freeList' \in Seq(Blocks)
         /\ handlerQueue' \in Seq(Item) /\ Len(handlerQueue') <= QueueSize
         /\ dropped' \in SUBSET Blocks /\ sortLink' \in SUBSET Blocks
         /\ IdsInPlace' /\ ValidIsLive' /\ TakenIsLive' /\ ListedIsNotQueued'
         /\ FreeListIsExact' /\ TickingIsServed'
<1> DEFINE id == timer[c].id
<1>1. id \in Ids /\ id[1] = c
  BY DEF IInv, TypeOK, Timer, IdsInPlace
<1>2. NextId(id) \in Ids /\ NextId(id)[1] = c /\ NextId(id) # id
  BY <1>1, NextIdFacts
<1> DEFINE q == handlerQueue
<1>3. /\ \A i \in 1..Len(q) : q[i].id # NextId(id)
      /\ ~(swtTask # "waits" /\ swtmrHandle.id = NextId(id))
      /\ timer' = [timer EXCEPT ![c].id = NextId(id), ![c].state = "UNUSED"]
      /\ freeList' = <<c>> \o freeList
      /\ handlerQueue' = Retired(q, id)
      /\ dropped' = dropped \ {c}
  BY DEF OsSwtmrDelete, InQueue
<1>31. q \in Seq(Item) /\ Len(q) <= QueueSize /\ sortLink \subseteq Blocks
      /\ dropped \subseteq Blocks
  BY DEF IInv, TypeOK
<1> HIDE DEF id
<1>4. /\ timer' \in [Blocks -> Timer]
      /\ timer'[c].id = NextId(id) /\ timer'[c].state = "UNUSED"
      /\ \A b \in Blocks \ {c} : timer'[b] = timer[b]
  BY <1>2, <1>3 DEF IInv, TypeOK, Timer, States
<1>5. /\ Len(q) \in Nat
      /\ handlerQueue' \in Seq(Item) /\ Len(handlerQueue') = Len(q)
      /\ \A i \in 1..Len(q) :
           /\ handlerQueue'[i].id = q[i].id
           /\ q[i].id # id => handlerQueue'[i].live = q[i].live
  BY <1>1, <1>3, <1>31, RetiredFacts
<1>6. /\ freeList' \in Seq(Blocks)
      /\ Len(freeList) \in Nat /\ Len(freeList') = Len(freeList) + 1
      /\ freeList'[1] = c
      /\ \A i \in 1..Len(freeList) : freeList'[i + 1] = freeList[i]
  BY <1>3, ConsFacts DEF IInv, TypeOK
<1>7. IdsInPlace'
  BY <1>2, <1>4 DEF IInv, IdsInPlace
<1>8. ASSUME NEW i \in 1..Len(q)
      PROVE  q[i].id \in Ids /\ q[i].id[1] \in Blocks
  BY <1>31, ItemFacts
<1>9. ValidIsLive'
  <2> SUFFICES ASSUME NEW i \in 1..Len(q), timer'[q[i].id[1]].id = q[i].id
               PROVE  handlerQueue'[i].live /\ timer'[q[i].id[1]].state # "UNUSED"
    BY <1>5 DEF ValidIsLive, Valid
  <2>1. q[i].id[1] # c
    BY <1>3, <1>4
  <2>2. q[i].id[1] \in Blocks \ {c}
    BY <2>1, <1>8
  <2>3. Valid(q[i].id)
    BY <1>4, <2>2 DEF Valid
  <2>5. q[i].live /\ timer[q[i].id[1]].state # "UNUSED"
    BY <2>3 DEF IInv, ValidIsLive
  <2>6. q[i].id # id
    BY <1>1, <2>1
  <2> QED BY <1>4, <1>5, <2>2, <2>5, <2>6
<1>91. TakenIsLive'
  <2> SUFFICES ASSUME swtTask' = "took", timer'[swtmrHandle'.id[1]].id = swtmrHandle'.id
               PROVE  swtmrHandle'.live /\ timer'[swtmrHandle'.id[1]].state # "UNUSED"
    BY DEF TakenIsLive, Valid
  <2>1. /\ swtTask = "took" /\ swtmrHandle'.id = swtmrHandle.id
        /\ swtmrHandle.id \in Ids /\ swtmrHandle.id[1] \in Blocks
    BY DEF IInv, TypeOK, Item, Ids
  <2>2. swtmrHandle.id[1] # c
    BY <1>3, <1>4, <2>1
  <2>3. swtmrHandle' = swtmrHandle
    BY <1>1, <2>1, <2>2 DEF id
  <2>4. Valid(swtmrHandle.id)
    BY <1>4, <2>1, <2>2 DEF Valid
  <2> QED BY <1>4, <2>1, <2>2, <2>3, <2>4 DEF IInv, TakenIsLive
<1>10. ListedIsNotQueued'
  <2> SUFFICES ASSUME NEW b \in sortLink \ {c}, timer'[b].mode = "ONCE", Queued(timer[b].id)'
               PROVE  FALSE
    BY DEF ListedIsNotQueued
  <2>1. b \in Blocks \ {c} /\ timer[b].mode = "ONCE" /\ timer'[b].id = timer[b].id
    BY <1>4, <1>31
  <2>2. Queued(timer[b].id)
    <3>1. CASE InQueue(timer[b].id)'
      BY <1>5, <2>1, <3>1 DEF Queued, InQueue
    <3>2. CASE Held("took", timer[b].id)'
      BY <2>1, <3>2 DEF Queued, Held
    <3> QED BY <3>1, <3>2 DEF Queued
  <2> QED BY <2>1, <2>2 DEF IInv, ListedIsNotQueued
<1>11. FreeListIsExact'
  <2>1. ASSUME NEW k \in 1..Len(freeList) PROVE freeList[k] # c
    BY DEF IInv, FreeListIsExact
  <2>2. ASSUME NEW k \in 1..Len(freeList')
        PROVE  k = 1 \/ (k - 1 \in 1..Len(freeList) /\ freeList'[k] = freeList[k - 1])
    <3>1. CASE k = 1
      BY <3>1
    <3>2. CASE k # 1
      <4>1. k - 1 \in 1..Len(freeList) /\ (k - 1) + 1 = k
        BY <1>6, <3>2
      <4> QED BY <1>6, <4>1
    <3> QED BY <3>1, <3>2
  <2>3. ASSUME NEW i \in 1..Len(freeList'), NEW j \in 1..Len(freeList'),
               freeList'[i] = freeList'[j]
        PROVE  i = j
    <3>1. CASE i = 1
      BY <1>6, <2>1, <2>2, <2>3, <3>1
    <3>2. CASE j = 1
      BY <1>6, <2>1, <2>2, <2>3, <3>2
    <3>3. CASE i # 1 /\ j # 1
      <4>1. /\ i - 1 \in 1..Len(freeList) /\ j - 1 \in 1..Len(freeList)
            /\ freeList[i - 1] = freeList[j - 1]
        BY <2>2, <2>3, <3>3
      <4>2. i - 1 = j - 1
        BY <4>1 DEF IInv, FreeListIsExact
      <4> QED BY <4>2
    <3> QED BY <3>1, <3>2, <3>3
  <2>4. ASSUME NEW b \in Blocks \ {c}
        PROVE  timer'[b].state = "UNUSED" <=>
                 \E i \in 1..Len(freeList') : freeList'[i] = b
    <3>1. ASSUME timer'[b].state = "UNUSED"
          PROVE  \E i \in 1..Len(freeList') : freeList'[i] = b
      <4>1. PICK k \in 1..Len(freeList) : freeList[k] = b
        BY <3>1, <1>4 DEF IInv, FreeListIsExact
      <4>2. k + 1 \in 1..Len(freeList') /\ freeList'[k + 1] = b
        BY <1>6, <4>1
      <4> QED BY <4>2
    <3>2. ASSUME NEW i \in 1..Len(freeList'), freeList'[i] = b
          PROVE  timer'[b].state = "UNUSED"
      <4>1. i - 1 \in 1..Len(freeList) /\ freeList[i - 1] = b
        BY <1>6, <2>2, <3>2
      <4> QED BY <4>1, <1>4 DEF IInv, FreeListIsExact
    <3> QED BY <3>1, <3>2
  <2>5. \E i \in 1..Len(freeList') : freeList'[i] = c
    BY <1>6
  <2> QED BY <1>4, <2>3, <2>4, <2>5 DEF FreeListIsExact
<1>12. TickingIsServed'
  <2> SUFFICES ASSUME NEW b \in Blocks
               PROVE  /\ b \in sortLink' => timer'[b].state = "TICKING"
                      /\ timer'[b].state = "TICKING" =>
                           \/ b \in sortLink'
                           \/ timer'[b].mode = "ONCE" /\ (b \in dropped' \/ Queued(timer[b].id)')
    BY DEF TickingIsServed
  <2>1. CASE b = c
    BY <2>1, <1>4
  <2>2. CASE b # c
    <3>1. ASSUME Queued(timer[b].id) PROVE Queued(timer[b].id)'
      <4>1. CASE InQueue(timer[b].id)
        BY <1>4, <1>5, <2>2, <4>1 DEF Queued, InQueue
      <4>2. CASE Held("took", timer[b].id)
        BY <1>4, <2>2, <4>2 DEF Queued, Held
      <4> QED BY <3>1, <4>1, <4>2 DEF Queued
    <3> QED BY <3>1, <1>3, <1>4, <2>2 DEF IInv, TickingIsServed
  <2> QED BY <2>1, <2>2
<1> QED BY <1>3, <1>31, <1>4, <1>5, <1>6, <1>7, <1>9, <1>91, <1>10, <1>11, <1>12

\* LOS_SwtmrDelete: the item Swt_Task holds becomes invalid with those of the queue.
LEMMA DeleteKeepsIInv ==
  ASSUME IInv, NEW id \in Ids, LOS_SwtmrDelete(id)
  PROVE  IInv'
<1> DEFINE c == id[1]
<1>1. c \in Blocks /\ timer[c].state # "UNUSED" /\ timer[c].id = id
  BY DEF LOS_SwtmrDelete, Ids, Valid
<1>2. OsSwtmrDelete(c) /\ sortLink' = sortLink \ {c} /\ swtTask' = swtTask
  BY DEF LOS_SwtmrDelete
<1> DEFINE hit == swtTask \in {"took", "checked"} /\ swtmrHandle.id = id
<1>3. /\ swtmrHandle' = IF hit THEN [id |-> id, live |-> FALSE] ELSE swtmrHandle
      /\ overtaken' = (overtaken \/ (swtTask = "checked" /\ swtmrHandle.id = id))
  BY DEF LOS_SwtmrDelete, RetireHeld, Held
<1> HIDE DEF c
<1>4. \A b \in Blocks \ {c} : timer[b].id # id
  BY <1>1 DEF IInv, IdsInPlace
<1>5. /\ timer' \in [Blocks -> Timer] /\ freeList' \in Seq(Blocks)
      /\ handlerQueue' \in Seq(Item) /\ Len(handlerQueue') <= QueueSize
      /\ dropped' \in SUBSET Blocks /\ sortLink' \in SUBSET Blocks
      /\ IdsInPlace' /\ ValidIsLive' /\ TakenIsLive' /\ ListedIsNotQueued'
      /\ FreeListIsExact' /\ TickingIsServed'
  <2>1. swtmrHandle'.id = swtmrHandle.id
    BY <1>3
  <2>2. swtmrHandle.id # id => swtmrHandle' = swtmrHandle
    BY <1>3
  <2>3. \A b \in Blocks \ {c} :
           Held("took", timer[b].id) => swtTask' = "took" /\ swtmrHandle'.id = timer[b].id
    BY <1>2, <2>1 DEF Held
  <2> HIDE DEF hit
  <2> QED BY <1>1, <1>2, <2>1, <2>2, <2>3, DeleteKeepsRest
<1>6. OnlyLiveHandlers'
  BY <1>2, <1>3 DEF IInv, OnlyLiveHandlers
<1>7. /\ swtTask' \in {"waits", "took", "checked", "calls"} /\ overtaken' \in BOOLEAN
      /\ IF swtTask' = "waits" THEN swtmrHandle' = NoItem ELSE swtmrHandle' \in Item
  BY <1>2, <1>3 DEF IInv, TypeOK, Item
<1>8. TypeOK'
  BY <1>5, <1>7 DEF TypeOK
<1> QED BY <1>5, <1>6, <1>8 DEF IInv

\* An item put at the end of the queue.
LEMMA AppendFacts ==
  ASSUME NEW S, NEW s \in Seq(S), NEW e \in S
  PROVE  /\ Append(s, e) \in Seq(S)
         /\ Len(s) \in Nat /\ Len(Append(s, e)) = Len(s) + 1
         /\ Append(s, e)[Len(s) + 1] = e
         /\ \A i \in 1..Len(s) : Append(s, e)[i] = s[i]
OBVIOUS

\* OsSwtmrTimeoutHandle: the item it queues has the valid ID of a ticking timer,
\* which leaves the list unless it is periodic.
LEMMA TimeoutKeepsIInv ==
  ASSUME IInv, NEW c \in Blocks, OsSwtmrTimeoutHandle(c)
  PROVE  IInv'
<1> DEFINE full == Len(handlerQueue) = QueueSize
           item == [id |-> timer[c].id, live |-> timer[c].state # "UNUSED"]
           n    == Len(handlerQueue)
<1>1. /\ c \in sortLink /\ timer[c].state = "TICKING"
      /\ timer[c].id \in Ids /\ timer[c].id[1] = c /\ timer[c].mode \in Modes
      /\ handlerQueue \in Seq(Item) /\ n \in Nat /\ n <= QueueSize
      /\ timer \in [Blocks -> Timer] /\ sortLink \subseteq Blocks /\ dropped \subseteq Blocks
  BY DEF IInv, TypeOK, IdsInPlace, TickingIsServed, OsSwtmrTimeoutHandle, Timer
<1>2. item \in Item /\ item.id = timer[c].id /\ item.live = TRUE
  BY <1>1 DEF Item
<1>3. /\ handlerQueue' = IF full THEN handlerQueue ELSE Append(handlerQueue, item)
      /\ sortLink' = IF timer[c].mode = "PERIOD" THEN sortLink ELSE sortLink \ {c}
      /\ dropped' = IF full /\ timer[c].mode = "ONCE" THEN dropped \cup {c} ELSE dropped
      /\ freeList' = freeList /\ swtTask' = swtTask
      /\ swtmrHandle' = swtmrHandle /\ overtaken' = overtaken
  BY DEF OsSwtmrTimeoutHandle, AfterExpiry
<1>4. /\ timer' \in [Blocks -> Timer]
      /\ timer'[c].state = IF timer[c].mode = "NO_SELFDELETE" THEN "CREATED" ELSE "TICKING"
      /\ \A b \in Blocks : /\ timer'[b].id = timer[b].id
                           /\ timer'[b].mode = timer[b].mode
                           /\ b # c => timer'[b] = timer[b]
                           /\ timer'[b].state = "UNUSED" <=> timer[b].state = "UNUSED"
  <2>1. PICK st \in {"CREATED", "TICKING"} :
          /\ timer' = [timer EXCEPT ![c].state = st]
          /\ st = IF timer[c].mode = "NO_SELFDELETE" THEN "CREATED" ELSE "TICKING"
    <3>1. CASE timer[c].mode = "PERIOD"
      BY <1>1, <3>1 DEF OsSwtmrTimeoutHandle
    <3>2. CASE timer[c].mode = "NO_SELFDELETE"
      BY <1>1, <3>2 DEF OsSwtmrTimeoutHandle
    <3>3. CASE timer[c].mode = "ONCE"
      BY <1>1, <3>3 DEF OsSwtmrTimeoutHandle
    <3> QED BY <1>1, <3>1, <3>2, <3>3 DEF Modes
  <2> QED BY <1>1, <2>1, StateFacts
<1>5. /\ handlerQueue' \in Seq(Item) /\ Len(handlerQueue') <= QueueSize
      /\ Len(handlerQueue') \in Nat /\ n <= Len(handlerQueue')
      /\ \A i \in 1..n : handlerQueue'[i] = handlerQueue[i]
      /\ \A i \in 1..Len(handlerQueue') : i \in 1..n \/ (~full /\ handlerQueue'[i] = item)
      /\ ~full => \E i \in 1..Len(handlerQueue') : handlerQueue'[i] = item
  <2> HIDE DEF item
  <2>1. CASE full
    BY <1>1, <1>3, <2>1
  <2>2. CASE ~full
    <3>1. handlerQueue' = Append(handlerQueue, item)
      BY <1>3, <2>2
    <3>2. /\ handlerQueue' \in Seq(Item) /\ Len(handlerQueue') = n + 1
          /\ handlerQueue'[n + 1] = item
          /\ \A i \in 1..n : handlerQueue'[i] = handlerQueue[i]
      BY <1>1, <1>2, <3>1, AppendFacts
    <3>3. n + 1 <= QueueSize
      BY <1>1, <2>2, SizeAssumption
    <3>4. ASSUME NEW i \in 1..Len(handlerQueue'), i \notin 1..n PROVE i = n + 1
      BY <1>1, <3>2, <3>4
    <3>5. n + 1 \in 1..Len(handlerQueue')
      BY <1>1, <3>2
    <3> QED BY <1>1, <2>2, <3>2, <3>3, <3>4, <3>5
  <2> QED BY <2>1, <2>2
<1> HIDE DEF item
<1>6. TypeOK'
  BY <1>1, <1>3, <1>4, <1>5 DEF IInv, TypeOK
<1>7. IdsInPlace' /\ OnlyLiveHandlers'
  BY <1>3, <1>4 DEF IInv, IdsInPlace, OnlyLiveHandlers
<1>8. ValidIsLive'
  <2> SUFFICES ASSUME NEW i \in 1..Len(handlerQueue'),
                      timer'[handlerQueue'[i].id[1]].id = handlerQueue'[i].id
               PROVE  handlerQueue'[i].live /\ timer'[handlerQueue'[i].id[1]].state # "UNUSED"
    BY DEF ValidIsLive, Valid
  <2>1. CASE i \in 1..n
    <3>1. handlerQueue'[i] = handlerQueue[i] /\ handlerQueue[i].id[1] \in Blocks
      BY <1>1, <1>5, <2>1, ItemFacts
    <3>2. Valid(handlerQueue[i].id)
      BY <1>4, <3>1 DEF Valid
    <3> QED BY <1>4, <2>1, <3>1, <3>2 DEF IInv, ValidIsLive
  <2>2. CASE handlerQueue'[i] = item
    <3>1. handlerQueue'[i].id[1] = c /\ handlerQueue'[i].live
      BY <1>1, <1>2, <2>2
    <3> QED BY <1>4, <3>1
  <2> QED BY <1>5, <2>1, <2>2
<1>81. TakenIsLive'
  <2> SUFFICES ASSUME swtTask = "took", timer'[swtmrHandle.id[1]].id = swtmrHandle.id
               PROVE  swtmrHandle.live /\ timer'[swtmrHandle.id[1]].state # "UNUSED"
    BY <1>3 DEF TakenIsLive, Valid
  <2>1. swtmrHandle.id[1] \in Blocks
    BY DEF IInv, TypeOK, Item, Ids
  <2>2. Valid(swtmrHandle.id)
    BY <1>4, <2>1 DEF Valid
  <2> QED BY <1>4, <2>1, <2>2 DEF IInv, TakenIsLive
<1>9. ListedIsNotQueued'
  <2> SUFFICES ASSUME NEW b \in sortLink', timer'[b].mode = "ONCE", Queued(timer[b].id)'
               PROVE  FALSE
    BY DEF ListedIsNotQueued
  <2>1. b \in sortLink /\ b \in Blocks
    BY <1>1, <1>3
  <2>2. timer[b].mode = "ONCE" /\ timer'[b].id = timer[b].id
    BY <1>4, <2>1
  <2>3. b # c
    BY <1>3, <2>2
  <2>4. Queued(timer[b].id)
    <3>1. CASE InQueue(timer[b].id)'
      <4>1. PICK i \in 1..Len(handlerQueue') : handlerQueue'[i].id = timer[b].id
        BY <2>2, <3>1 DEF InQueue
      <4>2. handlerQueue'[i] # item
        BY <1>1, <1>2, <2>1, <2>3, <4>1 DEF IInv, IdsInPlace
      <4>3. i \in 1..n /\ handlerQueue[i].id = timer[b].id
        BY <1>5, <4>1, <4>2
      <4> QED BY <4>3 DEF Queued, InQueue
    <3>2. CASE Held("took", timer[b].id)'
      BY <1>3, <2>2, <3>2 DEF Queued, Held
    <3> QED BY <3>1, <3>2 DEF Queued
  <2> QED BY <2>1, <2>2, <2>4 DEF IInv, ListedIsNotQueued
<1>10. FreeListIsExact'
  BY <1>3, <1>4 DEF IInv, FreeListIsExact
<1>11. TickingIsServed'
  <2> SUFFICES ASSUME NEW b \in Blocks
               PROVE  /\ b \in sortLink' => timer'[b].state = "TICKING"
                      /\ timer'[b].state = "TICKING" =>
                           \/ b \in sortLink'
                           \/ timer'[b].mode = "ONCE" /\ (b \in dropped' \/ Queued(timer[b].id)')
    BY DEF TickingIsServed
  <2>1. CASE b # c
    <3>1. ASSUME Queued(timer[b].id) PROVE Queued(timer[b].id)'
      <4>1. CASE InQueue(timer[b].id)
        <5>1. PICK i \in 1..n : handlerQueue[i].id = timer[b].id
          BY <4>1 DEF InQueue
        <5>2. i \in 1..Len(handlerQueue') /\ handlerQueue'[i].id = timer'[b].id
          BY <1>4, <1>5, <5>1
        <5> QED BY <5>2 DEF Queued, InQueue
      <4>2. CASE Held("took", timer[b].id)
        BY <1>3, <1>4, <4>2 DEF Queued, Held
      <4> QED BY <3>1, <4>1, <4>2 DEF Queued
    <3> QED BY <1>3, <1>4, <2>1, <3>1 DEF IInv, TickingIsServed
  <2>2. CASE b = c
    <3>1. ~full => Queued(timer[b].id)'
      BY <1>2, <1>4, <1>5, <2>2 DEF Queued, InQueue
    <3> QED BY <1>1, <1>3, <1>4, <2>2, <3>1 DEF Modes
  <2> QED BY <2>1, <2>2
<1> QED BY <1>6, <1>7, <1>8, <1>81, <1>9, <1>10, <1>11 DEF IInv

\* OsSwtmrTask: the item at the head of the queue goes into Swt_Task's hands.
LEMMA TakeKeepsIInv ==
  ASSUME IInv, OsSwtmrTask
  PROVE  IInv'
<1> DEFINE item == Head(handlerQueue)
           q    == Tail(handlerQueue)
<1>1. /\ handlerQueue \in Seq(Item) /\ handlerQueue # <<>>
      /\ q \in Seq(Item) /\ Len(handlerQueue) \in Nat /\ Len(handlerQueue) >= 1
      /\ Len(q) = Len(handlerQueue) - 1
      /\ \A i \in 1..Len(q) : q[i] = handlerQueue[i + 1] /\ i + 1 \in 1..Len(handlerQueue)
      /\ item = handlerQueue[1] /\ item \in Item
  BY TailFacts DEF IInv, TypeOK, OsSwtmrTask
<1>2. 1 \in 1..Len(handlerQueue) /\ Len(q) \in Nat /\ Len(q) <= QueueSize
  BY <1>1, SizeAssumption DEF IInv, TypeOK
<1>3. /\ swtTask = "waits" /\ swtTask' = "took" /\ swtmrHandle' = item
      /\ handlerQueue' = q /\ timer' = timer /\ freeList' = freeList
      /\ sortLink' = sortLink /\ dropped' = dropped /\ overtaken' = overtaken
  BY DEF OsSwtmrTask
<1> HIDE DEF item, q
<1>4. ASSUME NEW id PROVE Queued(id)' <=> Queued(id)
  <2>1. ASSUME NEW k \in 1..Len(handlerQueue), k # 1
        PROVE  k - 1 \in 1..Len(q) /\ q[k - 1] = handlerQueue[k]
    <3>1. k - 1 \in 1..Len(q) /\ (k - 1) + 1 = k
      BY <1>1, <2>1
    <3> QED BY <1>1, <3>1
  <2>2. (\E k \in 1..Len(handlerQueue) : handlerQueue[k].id = id)
          <=> item.id = id \/ \E i \in 1..Len(q) : q[i].id = id
    <3>1. ASSUME NEW k \in 1..Len(handlerQueue), handlerQueue[k].id = id
          PROVE  item.id = id \/ \E i \in 1..Len(q) : q[i].id = id
      <4>1. CASE k = 1
        BY <1>1, <3>1, <4>1
      <4>2. CASE k # 1
        BY <2>1, <3>1, <4>2
      <4> QED BY <4>1, <4>2
    <3>2. ASSUME NEW i \in 1..Len(q), q[i].id = id
          PROVE  \E k \in 1..Len(handlerQueue) : handlerQueue[k].id = id
      BY <1>1, <3>2
    <3>3. item.id = id => \E k \in 1..Len(handlerQueue) : handlerQueue[k].id = id
      BY <1>1, <1>2
    <3> QED BY <3>1, <3>2, <3>3
  <2>3. Queued(id) <=> item.id = id \/ \E i \in 1..Len(q) : q[i].id = id
    BY <1>3, <2>2 DEF Queued, InQueue, Held
  <2>4. Queued(id)' <=> item.id = id \/ \E i \in 1..Len(q) : q[i].id = id
    BY <1>3 DEF Queued, InQueue, Held
  <2> QED BY <2>3, <2>4
<1>5. TypeOK'
  BY <1>1, <1>2, <1>3 DEF IInv, TypeOK
<1>6. IdsInPlace' /\ FreeListIsExact' /\ OnlyLiveHandlers'
  BY <1>3 DEF IInv, IdsInPlace, FreeListIsExact, OnlyLiveHandlers
<1>7. ValidIsLive'
  <2> SUFFICES ASSUME NEW i \in 1..Len(q), Valid(q[i].id)
               PROVE  q[i].live /\ timer[q[i].id[1]].state # "UNUSED"
    BY <1>3 DEF ValidIsLive, Valid
  <2>1. q[i] = handlerQueue[i + 1] /\ i + 1 \in 1..Len(handlerQueue)
    BY <1>1
  <2> QED BY <2>1 DEF IInv, ValidIsLive
<1>8. TakenIsLive'
  BY <1>1, <1>2, <1>3 DEF IInv, ValidIsLive, TakenIsLive, Valid
<1>9. ListedIsNotQueued'
  <2>1. \A b \in sortLink : Queued(timer[b].id)' => Queued(timer[b].id)
    BY <1>3, <1>4 DEF Queued, InQueue, Held
  <2> QED BY <1>3, <2>1 DEF IInv, ListedIsNotQueued
<1>10. TickingIsServed'
  <2>1. \A b \in Blocks : Queued(timer[b].id) => Queued(timer[b].id)'
    BY <1>3, <1>4 DEF Queued, InQueue, Held
  <2> QED BY <1>3, <2>1 DEF IInv, TickingIsServed
<1> QED BY <1>5, <1>6, <1>7, <1>8, <1>9, <1>10 DEF IInv

\* CheckItem: an item with a valid ID is live, and a one-shot timer that it deletes
\* is not in the list, so nothing but the queue has to be brought in line.
LEMMA CheckKeepsIInv ==
  ASSUME IInv, CheckItem
  PROVE  IInv'
<1> DEFINE c == swtmrHandle.id[1]
<1>1. /\ swtTask = "took" /\ swtmrHandle \in Item
      /\ swtmrHandle.id \in Ids /\ c \in Blocks
      /\ sortLink' = sortLink /\ overtaken' = overtaken
      /\ IF Valid(swtmrHandle.id)
         THEN swtTask' = "checked" /\ swtmrHandle' = swtmrHandle
         ELSE swtTask' = "waits" /\ swtmrHandle' = NoItem
  BY DEF IInv, TypeOK, CheckItem, Item, Ids
<1>2. OnlyLiveHandlers'
  BY <1>1 DEF IInv, OnlyLiveHandlers, TakenIsLive
<1>3. \A b \in Blocks \ {c} : timer[b].id # swtmrHandle.id
  BY DEF IInv, IdsInPlace
<1>4. ASSUME Valid(swtmrHandle.id), timer[c].mode = "ONCE" PROVE IInv'
  <2>1. OsSwtmrDelete(c) /\ timer[c].id = swtmrHandle.id
    BY <1>4 DEF CheckItem, Valid
  <2>2. timer[c].state # "UNUSED"
    BY <1>1, <1>4 DEF IInv, TakenIsLive
  <2>3. Queued(timer[c].id)
    BY <1>1, <2>1 DEF Queued, Held
  <2>4. sortLink' = sortLink \ {c}
    BY <1>1, <1>4, <2>3 DEF IInv, ListedIsNotQueued
  <2>5. swtTask' = "checked" /\ swtmrHandle' = swtmrHandle
    BY <1>1, <1>4
  <2>6. \A b \in Blocks \ {c} : ~Held("took", timer[b].id)
    BY <1>3 DEF Held
  <2> HIDE DEF c
  <2>7. /\ timer' \in [Blocks -> Timer] /\ freeList' \in Seq(Blocks)
        /\ handlerQueue' \in Seq(Item) /\ Len(handlerQueue') <= QueueSize
        /\ dropped' \in SUBSET Blocks /\ sortLink' \in SUBSET Blocks
        /\ IdsInPlace' /\ ValidIsLive' /\ TakenIsLive' /\ ListedIsNotQueued'
        /\ FreeListIsExact' /\ TickingIsServed'
    BY <1>1, <2>1, <2>2, <2>4, <2>5, <2>6, DeleteKeepsRest
  <2>8. TypeOK'
    BY <1>1, <2>5, <2>7 DEF IInv, TypeOK
  <2> QED BY <1>2, <2>7, <2>8 DEF IInv
<1>5. ASSUME ~(Valid(swtmrHandle.id) /\ timer[c].mode = "ONCE") PROVE IInv'
  <2>1. /\ handlerQueue' = handlerQueue /\ timer' = timer /\ freeList' = freeList
        /\ dropped' = dropped
    BY <1>5 DEF CheckItem
  <2>2. TypeOK'
    BY <1>1, <2>1 DEF IInv, TypeOK
  <2>3. IdsInPlace' /\ FreeListIsExact' /\ ValidIsLive' /\ TakenIsLive'
    BY <1>1, <2>1 DEF IInv, IdsInPlace, FreeListIsExact, ValidIsLive, TakenIsLive, Valid
  <2>4. ListedIsNotQueued'
    BY <1>1, <2>1 DEF IInv, ListedIsNotQueued, Queued, InQueue, Held
  <2>5. TickingIsServed'
    <3>1. ASSUME NEW b \in Blocks, timer[b].mode = "ONCE", Queued(timer[b].id)
          PROVE  Queued(timer[b].id)'
      <4>1. ~Held("took", timer[b].id)
        BY <1>3, <1>5, <3>1 DEF Held, Valid
      <4> QED BY <2>1, <3>1, <4>1 DEF Queued, InQueue
    <3> QED BY <1>1, <2>1, <3>1 DEF IInv, TickingIsServed
  <2> QED BY <1>2, <2>2, <2>3, <2>4, <2>5 DEF IInv
<1> QED BY <1>4, <1>5

\* The call of the handler and its return change nothing but Swt_Task.
LEMMA IdleKeepsIInv ==
  ASSUME IInv, CallHandler \/ HandlerReturns \/ UNCHANGED vars
  PROVE  IInv'
<1>1. /\ timer' = timer /\ freeList' = freeList /\ sortLink' = sortLink
      /\ handlerQueue' = handlerQueue /\ dropped' = dropped
  BY DEF CallHandler, HandlerReturns, vars
<1>2. \/ UNCHANGED <<swtTask, swtmrHandle, overtaken>>
      \/ swtTask = "checked" /\ swtTask' = "calls" /\ overtaken' = FALSE
         /\ swtmrHandle' = swtmrHandle
      \/ swtTask = "calls" /\ swtTask' = "waits" /\ swtmrHandle' = NoItem
         /\ overtaken' = overtaken
  BY DEF CallHandler, HandlerReturns, vars
<1>3. ASSUME NEW id PROVE Queued(id)' <=> Queued(id)
  BY <1>1, <1>2 DEF Queued, InQueue, Held
<1>4. TypeOK' /\ IdsInPlace' /\ FreeListIsExact'
  BY <1>1, <1>2 DEF IInv, TypeOK, IdsInPlace, FreeListIsExact
<1>5. ValidIsLive' /\ TakenIsLive' /\ OnlyLiveHandlers'
  BY <1>1, <1>2 DEF IInv, ValidIsLive, TakenIsLive, Valid, OnlyLiveHandlers
<1>6. ListedIsNotQueued' /\ TickingIsServed'
  BY <1>1, <1>2 DEF IInv, ListedIsNotQueued, TickingIsServed, Queued, InQueue, Held
<1> QED BY <1>4, <1>5, <1>6 DEF IInv

-----------------------------------------------------------------------------
\* The invariant holds for callers that do not restart a queued one-shot timer.
LEMMA InductiveInvariant ==
  ASSUME Careful
  PROVE  Spec => []IInv
<1>1. IInv /\ [Next]_vars => IInv'
  <2> SUFFICES ASSUME IInv, [Next]_vars PROVE IInv'
    OBVIOUS
  <2>1. ASSUME NEW mode \in Modes, LOS_SwtmrCreate(mode) PROVE IInv'
    BY <2>1, CreateKeepsIInv
  <2>2. ASSUME NEW id \in Ids, LOS_SwtmrStart(id) PROVE IInv'
    BY <2>2, StartKeepsIInv
  <2>3. ASSUME NEW id \in Ids, LOS_SwtmrStop(id) PROVE IInv'
    BY <2>3, StopKeepsIInv
  <2>4. ASSUME NEW id \in Ids, LOS_SwtmrDelete(id) PROVE IInv'
    BY <2>4, DeleteKeepsIInv
  <2>5. ASSUME NEW c \in Blocks, OsSwtmrTimeoutHandle(c) PROVE IInv'
    BY <2>5, TimeoutKeepsIInv
  <2>6. ASSUME OsSwtmrTask PROVE IInv'
    BY <2>6, TakeKeepsIInv
  <2>61. ASSUME CheckItem PROVE IInv'
    BY <2>61, CheckKeepsIInv
  <2>7. ASSUME CallHandler \/ HandlerReturns \/ UNCHANGED vars PROVE IInv'
    BY <2>7, IdleKeepsIInv
  <2> QED BY <2>1, <2>2, <2>3, <2>4, <2>5, <2>6, <2>61, <2>7 DEF Next
<1> QED BY InitIInv, <1>1, PTL DEF Spec

\* The control blocks, the two lists and the handler queue keep their types, and
\* the queue its size, through every call, expiry and run of Swt_Task.
THEOREM TypeCorrect ==
  ASSUME Careful
  PROVE  Spec => []TypeOK
<1>1. IInv => TypeOK
  BY DEF IInv
<1> QED BY <1>1, InductiveInvariant, PTL

\* Swt_Task calls the handler of a deleted timer only if the deletion came between
\* the comparison of the IDs and the call, however often the control block was used
\* again between the expiry and the comparison.
THEOREM HandlersAreLive ==
  ASSUME Careful
  PROVE  Spec => []OnlyLiveHandlers
<1>1. IInv => OnlyLiveHandlers
  BY DEF IInv
<1> QED BY <1>1, InductiveInvariant, PTL

\* g_swtmrFreeList holds each unused control block exactly once, for any number
\* of blocks.
THEOREM FreeListStaysExact ==
  ASSUME Careful
  PROVE  Spec => []FreeListIsExact
<1>1. IInv => FreeListIsExact
  BY DEF IInv
<1> QED BY <1>1, InductiveInvariant, PTL

\* Every timer in the state TICKING is in the sorted list, or is a one-shot timer
\* whose expiry is queued or was dropped by the full queue.
THEOREM TickingStaysServed ==
  ASSUME Careful
  PROVE  Spec => []TickingIsServed
<1>1. IInv => TickingIsServed
  BY DEF IInv
<1> QED BY <1>1, InductiveInvariant, PTL
=============================================================================
