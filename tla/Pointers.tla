------------------------------- MODULE Pointers -------------------------------
(***************************************************************************)
(* Walks along a field of linked structures: a field is a function from    *)
(* the structures that exist to what the field of each points to.          *)
(***************************************************************************)
EXTENDS Integers, Sequences, FiniteSets

(* The structures met from x on along field, up to stop or to one that no  *)
(* longer exists.  A walk that does not end is cut after all were met, and *)
(* has then met one of them twice.                                         *)
Walk(field, x, stop) ==
  LET all == Cardinality(DOMAIN field)
      at[i \in 0 .. all] ==
        IF i = 0 THEN x
        ELSE IF at[i - 1] \in DOMAIN field \ {stop}
             THEN field[at[i - 1]] ELSE stop
      met == Cardinality({i \in 0 .. all : at[i] # stop})
  IN [i \in 1 .. met |-> at[i - 1]]
=============================================================================
