----------------------------- MODULE MCThreadPool -----------------------------
(* Instances of ThreadPool.  In the first one clients register "first" and *)
(* "second", and the callback of "first" registers "nested"; in the others *)
(* there are only clients.                                                 *)
EXTENDS ThreadPool

MCClient == "client"
MCThree == {"first", "nested", "second"}
MCSpawnThree == [t \in MCThree |-> IF t = "nested" THEN "first" ELSE MCClient]
MCTwo == {"first", "second"}
MCSpawnTwo == [t \in MCTwo |-> MCClient]
=============================================================================
