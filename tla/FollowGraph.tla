----------------------------- MODULE FollowGraph -----------------------------
(***************************************************************************)
(* What the data centre promises: a set of live accounts and a relation    *)
(* "follows" between them.  An account that goes away takes all its edges  *)
(* with it.                                                                *)
(***************************************************************************)
CONSTANTS Accounts, Main

VARIABLES live, follows    \* follows holds pairs <<subscriber, publisher>>

Init == live = {Main} /\ follows = {}

Appear(a) ==
  /\ a \notin live
  /\ live' = live \cup {a}
  /\ follows' \in {follows, follows \cup {<<Main, a>>}}

Follow(s, p) ==
  /\ {s, p} \subseteq live /\ s # p
  /\ follows' = follows \cup {<<s, p>>}
  /\ live' = live

Unfollow(s, p) ==
  /\ <<s, p>> \in follows
  /\ follows' = follows \ {<<s, p>>}
  /\ live' = live

Disappear(a) ==
  /\ a \in live \ {Main}
  /\ live' = live \ {a}
  /\ follows' = {e \in follows : a \notin {e[1], e[2]}}

Next ==
  \/ \E a \in Accounts : Appear(a) \/ Disappear(a)
  \/ \E s, p \in Accounts : Follow(s, p) \/ Unfollow(s, p)

Spec == Init /\ [][Next]_<<live, follows>>
=============================================================================
