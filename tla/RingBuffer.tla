------------------------------ MODULE RingBuffer ------------------------------
(***************************************************************************)
(* ce_ringbuffer.c: the byte ring that holds a connection's received and   *)
(* pending data.  One action per call.  ce_rb_read hands out a pointer,    *)
(* not a copy: `view' is the memory the caller's pointer designates after  *)
(* the last read, either inside the ring itself ("direct") or in the       *)
(* retval scratch block ("copy").                                          *)
(*                                                                         *)
(* written, consumed and promised are history variables: the bytes ever    *)
(* accepted and handed out, and what the last read showed its caller.      *)
(* Operators with an underscore in their name are faulty variants.         *)
(***************************************************************************)
EXTENDS Integers, Sequences

CONSTANTS Capacity,  \* ce_rb_new(capacity)
          Bytes,     \* the values a byte can take
          Zero,      \* the byte memset stores
          MaxBytes   \* bound on written, for model checking

ASSUME CapacityAssumption == Capacity \in Nat \ {0}
ASSUME BytesAssumption == Zero \in Bytes
ASSUME MaxBytesAssumption == MaxBytes \in Nat

VARIABLES live,      \* the ce_rb_t exists (ce_rb_free resets the pointer)
          buffer,    \* rb->buffer
          head,      \* rb->head: offset of the next byte to read
          tail,      \* rb->tail: offset of the next byte to write
          wrap,      \* rb->wrap: 1 once a write made tail meet head
          retval,    \* rb->retval.buffer, its length is rb->retval.size
          view,      \* what the pointer given out by the last read designates
          promised,  \* history: the bytes that pointer showed at that time
          written,   \* history: bytes accepted by ce_rb_write
          consumed   \* history: bytes handed out by ce_rb_read

rb == <<buffer, head, tail, wrap>>
vars == <<live, buffer, head, tail, wrap, retval, view, promised,
          written, consumed>>

Offset == 0 .. Capacity - 1

min(a, b) == IF a < b THEN a ELSE b

-----------------------------------------------------------------------------

(* ce_rb_can_read: tail = head is ambiguous, wrap tells full from empty.   *)
CanRead_IgnoresWrap ==
  IF tail >= head THEN tail - head ELSE Capacity + tail - head
CanRead ==
  IF tail = head THEN (IF wrap = 1 THEN Capacity ELSE 0)
  ELSE IF tail > head THEN tail - head
  ELSE Capacity + tail - head

CanWrite == Capacity - CanRead

NoView == [kind |-> "null", off |-> 0, len |-> 0, at |-> 0]

Init ==
  /\ live = TRUE
  /\ buffer = [i \in Offset |-> Zero]
  /\ head = 0 /\ tail = 0 /\ wrap = 0
  /\ retval = << >>
  /\ view = NoView
  /\ promised = << >>
  /\ written = 0 /\ consumed = 0

(* Where `from' points after count bytes.                                  *)
Advance_NoModulo(from, count) == from + count
Advance(from, count) == (from + count) % Capacity

(* Do the next count bytes to read reach the end of the ring?              *)
Straddles_PastTheEnd(count) == Capacity - head < count
Straddles(count) == Capacity - head <= count

(* ce_rb_read with nothing to deliver: *data = NULL, return 0.             *)
ReadNothing(count) ==
  /\ live
  /\ min(count, CanRead) = 0
  /\ view' = NoView
  /\ promised' = << >>
  /\ UNCHANGED <<live, rb, retval, written, consumed>>

(* ce_rb_read, "case in no need wrapper lines": the caller gets a pointer  *)
(* into the ring.  This path leaves wrap alone.                            *)
ReadDirect(count) ==
  LET n == min(count, CanRead) IN
  /\ live
  /\ n > 0 /\ ~Straddles(n)
  /\ view' = [kind |-> "direct", off |-> head, len |-> n, at |-> consumed]
  /\ promised' = [i \in 1 .. n |-> buffer[head + i - 1]]
  /\ head' = Advance(head, n)
  /\ consumed' = consumed + n
  /\ UNCHANGED <<live, buffer, tail, wrap, retval, written>>

(* The chunk from head to the end of the ring, then one from its start.    *)
Gathered_HeadChunkFirst(n) ==
  LET head_chunk == n - min(n, Capacity - head) IN
  [i \in 1 .. n |-> IF i <= head_chunk THEN buffer[i - 1]
                    ELSE buffer[head + i - head_chunk - 1]]
Gathered(n) ==
  LET tail_chunk == min(n, Capacity - head)
      resume     == Advance(head, tail_chunk)
  IN [i \in 1 .. n |-> IF i <= tail_chunk THEN buffer[head + i - 1]
                       ELSE buffer[resume + i - tail_chunk - 1]]

(* ce_rb_read, "case in need wrapper lines": the bytes are gathered in the *)
(* retval block, which grows on demand, and wrap is cleared.               *)
ReadCopied(count) ==
  LET n          == min(count, CanRead)
      tail_chunk == min(n, Capacity - head)
  IN
  /\ live
  /\ n > 0 /\ Straddles(n)
  /\ retval' = Gathered(n) \o SubSeq(retval, n + 1, Len(retval))
  /\ view' = [kind |-> "copy", off |-> 0, len |-> n, at |-> consumed]
  /\ promised' = Gathered(n)
  /\ head' = Advance(Advance(head, tail_chunk), n - tail_chunk)
  /\ wrap' = 0
  /\ consumed' = consumed + n
  /\ UNCHANGED <<live, buffer, tail, written>>

(* The ring after the first n bytes of data are stored in two chunks, one  *)
(* from tail to the end of the ring and one from its start.                *)
Stored_InClearedBlock(data, n) ==
  [i \in Offset |-> IF i >= tail /\ i < tail + n THEN data[i - tail + 1] ELSE Zero]
Stored(data, n) ==
  LET tail_chunk == min(n, Capacity - tail)
      resume     == Advance(tail, tail_chunk)
  IN [i \in Offset |->
        IF i >= tail /\ i < tail + tail_chunk THEN data[i - tail + 1]
        ELSE IF i >= resume /\ i < resume + (n - tail_chunk)
             THEN data[tail_chunk + (i - resume) + 1]
        ELSE buffer[i]]

(* ce_rb_write: as many of the bytes of data as fit.  A full ring accepts  *)
(* nothing and is left alone.                                              *)
Write(data) ==
  LET n          == min(Len(data), CanWrite)
      tail_chunk == min(n, Capacity - tail)
  IN
  /\ live
  /\ n > 0
  /\ written + n <= MaxBytes
  /\ buffer' = Stored(data, n)
  /\ tail' = Advance(Advance(tail, tail_chunk), n - tail_chunk)
  /\ wrap' = IF head = tail' THEN 1 ELSE wrap
  /\ written' = written + n
  /\ UNCHANGED <<live, head, retval, view, promised, consumed>>

(* ce_rb_free: the ring and its retval block are gone.                     *)
Free ==
  /\ live
  /\ live' = FALSE
  /\ retval' = << >>
  /\ view' = NoView
  /\ promised' = << >>
  /\ UNCHANGED <<rb, written, consumed>>

Count == 0 .. Capacity + 1
Data == UNION {[1 .. n -> Bytes] : n \in 1 .. Capacity + 1}

Next ==
  \/ \E count \in Count :
       ReadNothing(count) \/ ReadDirect(count) \/ ReadCopied(count)
  \/ \E data \in Data : Write(data)
  \/ Free

Spec == Init /\ [][Next]_vars

-----------------------------------------------------------------------------

Views == [kind : {"null", "direct", "copy"}, off : Offset,
          len : 0 .. Capacity, at : Nat]

(* The fields of ce_rb_t stay within their ranges.                         *)
TypeOK ==
  /\ live \in BOOLEAN
  /\ buffer \in [Offset -> Bytes]
  /\ head \in Offset /\ tail \in Offset /\ wrap \in {0, 1}
  /\ retval \in Seq(Bytes)
  /\ view \in Views
  /\ promised \in Seq(Bytes)
  /\ written \in Nat /\ consumed \in Nat

(***************************************************************************)
(* ce_rb_can_read, computed from head, tail and wrap alone, is exactly     *)
(* what was accepted and not yet handed out: no sequence of partial reads  *)
(* and writes lets a full ring pass for an empty one or the reverse,       *)
(* although ce_rb_read clears wrap on one of its two paths only.           *)
(***************************************************************************)
Conserved == CanRead = written - consumed

(***************************************************************************)
(* Why the direct path may leave wrap set: a set wrap flag always means    *)
(* that the unread bytes still run past the end of the ring, so emptying   *)
(* it has to go through the copying path, which clears the flag.           *)
(***************************************************************************)
WrapMeansStraddling == wrap = 1 => tail <= head

(* The memory the caller's pointer designates now.                         *)
Seen == [i \in 1 .. view.len |->
           IF view.kind = "copy" THEN retval[i] ELSE buffer[view.off + i - 1]]

(***************************************************************************)
(* The pointer ce_rb_read returned still shows the bytes it was returned   *)
(* for as long as the writer has not gone a whole ring past the first of   *)
(* them; a gathered copy survives any write.  Head has already moved on    *)
(* when the caller looks at the bytes, so nothing else protects them.      *)
(***************************************************************************)
ViewIntact ==
  view.kind = "copy" \/ written - view.at <= Capacity => Seen = promised

(***************************************************************************)
(* The ring refines the bounded FIFO: bytes come out once, in the order    *)
(* they went in, across any number of wrap-arounds.                        *)
(***************************************************************************)
Unread == [i \in 1 .. CanRead |-> buffer[(head + i - 1) % Capacity]]

Fifo == INSTANCE BoundedFifo WITH q <- Unread, out <- promised
ImplementsFifo == Fifo!Spec
=============================================================================
