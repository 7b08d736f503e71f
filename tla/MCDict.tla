-------------------------------- MODULE MCDict --------------------------------
(* An instance of Dict whose tables have 1, 2, 4 or 8 buckets: the keys    *)
(* share the only one of the first, two share one of 2, and all are apart  *)
(* in the others.                                                          *)
EXTENDS Dict

CONSTANTS k1, k2, k3, v1

MCKeys == {k1, k2, k3}
MCHash == (k1 :> 1) @@ (k2 :> 3) @@ (k3 :> 2)
=============================================================================
