----------------------------- MODULE DataCenter -----------------------------
(***************************************************************************)
(* The data centre (DataCenter.cpp, Account.cpp): accounts that follow     *)
(* each other through vectors of raw pointers, a pool that finds them by   *)
(* ID, and the LVGL timer an account may own.  All of it runs in the LVGL  *)
(* task.  An account is named by its address; IDs are given by Id, and two *)
(* accounts may have the same one.                                         *)
(***************************************************************************)
EXTENDS Naturals, SequencesExt

CONSTANTS Accounts,      \* addresses an account can have
          Main,          \* AccountMain, a member of the data centre
          Id,            \* the ID string each account is created with
          MaxFollowers   \* bound: an account with more followers is not deleted

ASSUME MainAssumption == Main \in Accounts
ASSUME MaxFollowersAssumption == MaxFollowers \in Nat

VARIABLES alive,         \* constructed and not yet deleted
          pool,          \* AccountPool
          publishers, subscribers,
          timer          \* priv.timer: the LVGL timer calling the account back

centreVars == <<alive, pool, publishers, subscribers, timer>>

TimerState == {"none", "running", "paused"}

CentreTypeOK ==
  /\ alive \subseteq Accounts
  /\ pool \in Seq(Accounts)
  /\ publishers \in [Accounts -> Seq(Accounts)]
  /\ subscribers \in [Accounts -> Seq(Accounts)]
  /\ timer \in [Accounts -> TimerState]

\* DataCenter::DataCenter constructs AccountMain, which AddAccount refuses.
CentreInit ==
  /\ alive = {Main}
  /\ pool = <<>>
  /\ publishers = [a \in Accounts |-> <<>>]
  /\ subscribers = [a \in Accounts |-> <<>>]
  /\ timer = [a \in Accounts |-> "none"]

-----------------------------------------------------------------------------
\* DataCenter::Find: the first account of the vector with this ID; the set of
\* answers is empty for nullptr.
Find(vec, id) ==
  LET i == SelectInSeq(vec, LAMBDA a : Id[a] = id)
  IN  IF i = 0 THEN {} ELSE {vec[i]}

\* DataCenter::Remove: the first occurrence, if there is one.
VecRemove(vec, a) == RemoveFirst(vec, a)

\* DataCenter::SearchAccount, with the pool given.
SearchAccount(accountPool, id) == Find(accountPool, id)

\* The publisher s gets by subscribing to an ID, if Account::Subscribe lets it:
\* not its own ID, not an ID it follows already, an ID in the pool.
Subscribable(s, id, accountPool) ==
  IF id = Id[s] \/ Find(publishers[s], id) # {}
  THEN {} ELSE SearchAccount(accountPool, id)

\* What a successful Account::Subscribe appends.
Link(s, p) ==
  /\ publishers' = [publishers EXCEPT ![s] = Append(@, p)]
  /\ subscribers' = [subscribers EXCEPT ![p] = Append(@, s)]

\* The memset of priv in Account::Account.
ClearPriv(a) == timer' = [timer EXCEPT ![a] = "none"]

\* Mutant: AddAccount takes an account without looking for its ID.
AddAlways(id) == TRUE

\* DataCenter::AddAccount refuses an ID the pool has already.
Addable(id) == SearchAccount(pool, id) = {}

\* Account::Account, through DataCenter::AddAccount: an account whose ID is in
\* the pool already stays outside it, and AccountMain follows the others.
New(a) ==
  /\ a \notin alive
  /\ alive' = alive \cup {a}
  /\ ClearPriv(a)
  /\ IF ~Addable(Id[a])
     THEN UNCHANGED <<pool, publishers, subscribers>>
     ELSE /\ pool' = Append(pool, a)
          /\ IF Subscribable(Main, Id[a], pool') = {}
             THEN UNCHANGED <<publishers, subscribers>>
             ELSE \E p \in Subscribable(Main, Id[a], pool') : Link(Main, p)

\* Account::Subscribe that succeeds.
Subscribe(s, id) ==
  /\ s \in alive
  /\ \E p \in Subscribable(s, id, pool) : Link(s, p)
  /\ UNCHANGED <<alive, pool, timer>>

\* Account::Unsubscribe that succeeds.
Unsubscribe(s, id) ==
  /\ s \in alive
  /\ \E p \in Find(publishers[s], id) :
       /\ publishers' = [publishers EXCEPT ![s] = VecRemove(@, p)]
       /\ subscribers' = [subscribers EXCEPT ![p] = VecRemove(@, s)]
  /\ UNCHANGED <<alive, pool, timer>>

-----------------------------------------------------------------------------
\* vector::erase of one element as the loop of ~Account sees it: the elements
\* behind it move up inside the same memory and the last place keeps its pointer.
EraseInPlace(slots, len, a) ==
  LET at == SelectInSeq(SubSeq(slots, 1, len), LAMBDA b : b = a)
  IN  [k \in 1..Len(slots) |-> IF k >= at /\ k < len THEN slots[k + 1] ELSE slots[k]]

\* One round of "Let subscribers unfollow": the subscriber in place i, if it
\* still follows a, unfollows it, and its Unsubscribe erases it from the vector
\* being traversed.
UnfollowRound(a, st, i) ==
  LET s == st.slots[i]
  IN  IF Find(st.pubs[s], Id[a]) = {}
      THEN st
      ELSE [slots |-> EraseInPlace(st.slots, st.len, s),
            len   |-> st.len - 1,
            pubs  |-> [st.pubs EXCEPT ![s] = VecRemove(@, a)]]

\* Mutant: nobody is told that the account goes away.
ForgetFollowers(a) == publishers

\* Mutant: only AccountMain unfollows the account.
UnfollowMain(a) == [publishers EXCEPT ![Main] = VecRemove(@, a)]

\* The publishers of every account after the loop; its bounds are those of the
\* vector before it.
AfterUnfollow(a) ==
  LET n == Len(subscribers[a])
      round[i \in 0..n] ==
        IF i = 0 THEN [slots |-> subscribers[a], len |-> n, pubs |-> publishers]
                 ELSE UnfollowRound(a, round[i - 1], i)
  IN  round[n].pubs

\* Account::~Account: timer, followers, followed accounts, pool, in this order.
\* The object's own vectors die with it.
Delete(a) ==
  /\ a \in alive \ {Main}
  /\ Len(subscribers[a]) <= MaxFollowers
  /\ alive' = alive \ {a}
  /\ timer' = [timer EXCEPT ![a] = "none"]
  /\ publishers' = [AfterUnfollow(a) EXCEPT ![a] = <<>>]
  /\ subscribers' = [p \in Accounts |->
       IF p = a THEN <<>>
       ELSE IF Contains(publishers[a], p) THEN VecRemove(subscribers[p], a)
       ELSE subscribers[p]]
  /\ pool' = VecRemove(pool, a)

\* Account::SetTimerPeriod, with a period that is zero or not.
SetTimerPeriod(a, on) ==
  /\ a \in alive
  /\ timer' = [timer EXCEPT ![a] = IF on THEN "running" ELSE "none"]
  /\ UNCHANGED <<alive, pool, publishers, subscribers>>

\* Account::SetTimerEnable.
SetTimerEnable(a, en) ==
  /\ a \in alive
  /\ timer[a] # "none"
  /\ timer' = [timer EXCEPT ![a] = IF en THEN "running" ELSE "paused"]
  /\ UNCHANGED <<alive, pool, publishers, subscribers>>

\* Nothing in the program unsubscribes AccountMain.
CentreNext ==
  \/ \E a \in Accounts : New(a) \/ Delete(a)
  \/ \E s \in Accounts, p \in Accounts : Subscribe(s, Id[p])
  \/ \E s \in Accounts \ {Main}, p \in Accounts : Unsubscribe(s, Id[p])
  \/ \E a \in Accounts, b \in BOOLEAN : SetTimerPeriod(a, b) \/ SetTimerEnable(a, b)

CentreSpec == CentreInit /\ [][CentreNext]_centreVars

-----------------------------------------------------------------------------
\* No vector of a live account, no pool entry and no LVGL timer
\* points to freed memory.
NoDangling ==
  /\ ToSet(pool) \subseteq alive
  /\ \A a \in alive : ToSet(publishers[a]) \cup ToSet(subscribers[a]) \subseteq alive
  /\ \A a \in Accounts : timer[a] # "none" => a \in alive

\* The two vectors of a subscription agree, whichever side ended it, and no
\* account follows two accounts with one ID, so that Find picks the right one.
ListsAgree ==
  \A a \in alive :
    /\ \A b \in alive : Contains(publishers[a], b) <=> Contains(subscribers[b], a)
    /\ IsInjective([i \in DOMAIN publishers[a] |-> Id[publishers[a][i]]])
    /\ IsInjective(subscribers[a])

\* Whatever order accounts are created, followed and deleted in, Account.cpp
\* leaves vectors that point to live accounts and match each other.
VectorsAgree == CentreTypeOK /\ NoDangling /\ ListsAgree

\* "Main account, will automatically follow all accounts" (DataCenter.h): all those
\* the pool took, however often accounts with the same ID were created and deleted;
\* and an ID leads to one account at most.
MainFollowsPool ==
  /\ IsInjective([i \in DOMAIN pool |-> Id[pool[i]]])
  /\ \A a \in ToSet(pool) : Id[a] # Id[Main] => Contains(publishers[Main], a)

\* The data centre seen as a FollowGraph.
followPairs == UNION {{<<s, p>> : p \in ToSet(publishers[s])} : s \in alive}

Graph == INSTANCE FollowGraph WITH live <- alive, follows <- followPairs

\* Deleting an account ends every subscription it was part of, and nothing else
\* changes who follows whom behind an account's back.
ImplementsFollowGraph == Graph!Spec
=============================================================================
