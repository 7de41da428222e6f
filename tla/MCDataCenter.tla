---------------------------- MODULE MCDataCenter ----------------------------
(* Three accounts beside AccountMain, two of them with one ID.              *)
EXTENDS DataCenter

CONSTANTS a, c, d

SharedId == [x \in Accounts |-> IF x = d THEN c ELSE x]
=============================================================================
