---------------------------- MODULE MCCountDown -----------------------------
(* The time the user rolls to in the runs of the count-down application.   *)
EXTENDS CountDown

OneTime == {<<0, 2>>}
=============================================================================
