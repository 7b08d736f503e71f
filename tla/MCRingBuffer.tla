---------------------------- MODULE MCRingBuffer ----------------------------
(* Model-checking instance of RingBuffer: a 3-byte ring, two byte values,  *)
(* enough bytes written for tail to go more than twice around.             *)
EXTENDS RingBuffer

=============================================================================
