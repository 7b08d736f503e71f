-------------------------------- MODULE MCLists --------------------------------
(* Each behaviour uses one kind of list, chosen at the start; the others    *)
(* stay as they were initialised.  An adlist is either iterated over, alone *)
(* and with one value, or duplicated and searched: all at a time only       *)
(* multiplies the states.                                                   *)
EXTENDS Lists, TLC

CONSTANTS n1, n2, n3, n4, e1, e2, e3, v1, v2, la, lb, lc, head

VARIABLE part

(* No operation prefers an address or an element to another.                *)
Symmetry == Permutations({n1, n2, n3, n4}) \cup Permutations({e1, e2, e3})

MCInit == Init /\ part \in {"iterate", "duplicate", "tailq", "kernel"}

MCNext ==
  /\ Next
  /\ UNCHANGED part
  /\ part \in {"iterate", "duplicate"} \/ UNCHANGED adlist
  /\ part = "tailq" \/ UNCHANGED tailq
  /\ part = "kernel" \/ UNCHANGED kernel
  /\ part = "iterate" => list'[lb] = NULL /\ \A n \in DOMAIN node' : node'[n].value = v1
  /\ part = "duplicate" => iter'.on = NULL

MCSpec == MCInit /\ [][MCNext]_<<vars, part>>
=============================================================================
