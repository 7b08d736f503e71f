------------------------------ MODULE MCCeQueue ------------------------------
(* Instances of CeQueue with three consumers: one that sleeps, one that is *)
(* woken and one that steals the item from it.                             *)
EXTENDS CeQueue

CONSTANTS c1, c2, c3

MCConsumers == {c1, c2, c3}
MCTimeouts == {"none", "timed", "forever"}
MCForever == {"forever"}
=============================================================================
