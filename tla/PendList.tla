------------------------------ MODULE PendList ------------------------------
(***************************************************************************)
(* The kernel's doubly linked lists of waiting tasks (utils/los_list.h), as*)
(* sequences: LOS_ListTailInsert is Append and LOS_DL_LIST_FIRST is Head.  *)
(* No task is in two lists, or twice in one: it has one pendList node.     *)
(***************************************************************************)
EXTENDS Naturals, Sequences

\* The tasks of a list.
Listed(list) == {list[i] : i \in DOMAIN list}

\* LOS_ListDelete of the node of t, wherever it is in the list.
LOS_ListDelete(list, t) ==
  LET k == CHOOSE i \in DOMAIN list : list[i] = t
  IN [i \in 1 .. Len(list) - 1 |-> IF i < k THEN list[i] ELSE list[i + 1]]
=============================================================================
