----------------------------- MODULE BoundedFifo -----------------------------
(***************************************************************************)
(* What ce_ringbuffer promises its callers: a first-in first-out queue of  *)
(* at most Capacity bytes.  A write accepts some bytes that fit, a read    *)
(* removes a prefix and hands exactly that prefix to the caller.           *)
(***************************************************************************)
EXTENDS Integers, Sequences

CONSTANTS Capacity,  \* ce_rb_new(capacity)
          Bytes      \* the values a byte can take

VARIABLES q,         \* the bytes accepted and not yet read, oldest first
          out        \* the bytes the last read delivered

vars == <<q, out>>

Init == q = << >> /\ out = << >>

Put == \E n \in 1 .. (Capacity - Len(q)) :
         /\ \E data \in [1 .. n -> Bytes] : q' = q \o data
         /\ UNCHANGED out

Take == \E n \in 0 .. Len(q) :
          /\ out' = SubSeq(q, 1, n)
          /\ q' = SubSeq(q, n + 1, Len(q))

Next == Put \/ Take

Spec == Init /\ [][Next]_vars
=============================================================================
