---------------------------- MODULE MCPageManager ----------------------------
(* A page of every cache mode, and a first page like the application's: not *)
(* cached, without animation, never pushed on top of another one.           *)
EXTENDS PageManager

CONSTANTS Auto, Kept, Plain, Startup

MixedCache == [p \in Pages |-> IF p = Auto THEN "auto" ELSE IF p = Kept THEN "on" ELSE "off"]
MixedAnim  == [p \in Pages |->
                 IF p = Startup THEN "none" ELSE IF p = Auto THEN "global" ELSE "over"]
MostRoutes == {r \in (Pages \cup {NoPage}) \X Pages : r[2] = Startup => r[1] = NoPage}
=============================================================================
