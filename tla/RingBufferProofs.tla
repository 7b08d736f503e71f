--------------------------- MODULE RingBufferProofs ---------------------------
(***************************************************************************)
(* Proofs about ce_ringbuffer.c, for every capacity and every set of       *)
(* bytes, and with no bound on the traffic but MaxBytes, which is          *)
(* arbitrary.                                                              *)
(***************************************************************************)
EXTENDS RingBuffer, SequenceTheorems, TLAPS

(* Adding at most a whole ring to an offset wraps at most once: what the   *)
(* `%' of ce_rb_read and ce_rb_write computes.                             *)
LEMMA AdvanceOnce ==
  ASSUME NEW from \in Offset, NEW count \in 0 .. Capacity
  PROVE  /\ Advance(from, count) \in Offset
         /\ Advance(from, count) = IF from + count < Capacity THEN from + count
                                   ELSE from + count - Capacity
BY CapacityAssumption, SMTT(30) DEF Advance, Offset

-----------------------------------------------------------------------------

(* The part of the state that the offsets and the two counters live in.    *)
Counters ==
  /\ head \in Offset /\ tail \in Offset /\ wrap \in {0, 1}
  /\ written \in Nat /\ consumed \in Nat

(* Conserved alone is not inductive: emptying the ring by the path that    *)
(* leaves wrap alone would make it look full.  WrapMeansStraddling is what *)
(* keeps that path away from a ring whose flag is set.                     *)
IInv == Counters /\ Conserved /\ WrapMeansStraddling

(* There is never more to read than the ring holds.                        *)
LEMMA CanReadRange ==
  ASSUME Counters
  PROVE  CanRead \in 0 .. Capacity /\ CanWrite \in 0 .. Capacity
BY CapacityAssumption DEF Counters, CanRead, CanWrite, Offset

(* The invariant holds of the ring that ce_rb_new returns.                 *)
LEMMA InitIInv == Init => IInv
BY CapacityAssumption
   DEF Init, IInv, Counters, Conserved, WrapMeansStraddling, CanRead, Offset

(* What a read does to the offsets: n bytes further, and wrap cleared on   *)
(* the path that reaches the end of the ring.                              *)
LEMMA ReadKeepsIInv ==
  ASSUME IInv, NEW count \in Nat, ReadDirect(count) \/ ReadCopied(count)
  PROVE  IInv'
<1> DEFINE n == min(count, CanRead)
<1>1. CanRead \in 0 .. Capacity
  BY CanReadRange DEF IInv
<1>2. n \in 0 .. CanRead
  BY <1>1 DEF min
<1>3. CASE ReadDirect(count)
  <2>1. /\ n > 0 /\ Capacity - head > n
        /\ head' = Advance(head, n)
        /\ consumed' = consumed + n
        /\ UNCHANGED <<tail, wrap, written>>
    BY <1>3, <1>1, <1>2, CapacityAssumption
       DEF ReadDirect, Straddles, IInv, Counters, Offset
  <2>2. head' = head + n
    BY <2>1, <1>1, <1>2, AdvanceOnce, CapacityAssumption DEF IInv, Counters, Offset
  <2>3. QED
    BY <2>1, <2>2, <1>1, <1>2, CapacityAssumption
       DEF IInv, Counters, Conserved, WrapMeansStraddling, CanRead, Offset
<1>4. CASE ReadCopied(count)
  <2> DEFINE chunk == min(n, Capacity - head)
  <2>1. /\ n > 0 /\ Capacity - head <= n
        /\ head' = Advance(Advance(head, chunk), n - chunk)
        /\ consumed' = consumed + n
        /\ wrap' = 0
        /\ UNCHANGED <<tail, written>>
    BY <1>4, <1>1, <1>2, CapacityAssumption
       DEF ReadCopied, Straddles, IInv, Counters, Offset
  <2>2. chunk = Capacity - head /\ chunk \in 0 .. Capacity
    BY <2>1, <1>1, <1>2, CapacityAssumption DEF min, IInv, Counters, Offset
  <2>3. Advance(head, chunk) = 0
    BY <2>2, AdvanceOnce, CapacityAssumption DEF IInv, Counters, Offset
  <2>4. n - chunk \in 0 .. Capacity - 1
    BY <2>1, <2>2, <1>1, <1>2, CapacityAssumption DEF IInv, Counters, Offset
  <2>5. head' = n - (Capacity - head)
    BY <2>1, <2>2, <2>3, <2>4, AdvanceOnce, CapacityAssumption DEF Offset
  <2>6. QED
    BY <2>1, <2>5, <1>1, <1>2, CapacityAssumption
       DEF IInv, Counters, Conserved, WrapMeansStraddling, CanRead, Offset
<1>5. QED
  BY <1>3, <1>4

(* What a write does to the offsets: tail goes n bytes further, and wrap   *)
(* is set when that makes it meet head.                                    *)
LEMMA WriteKeepsIInv ==
  ASSUME IInv, NEW data \in Seq(Bytes), Write(data)
  PROVE  IInv'
<1> DEFINE n == min(Len(data), CanWrite)
           chunk == min(n, Capacity - tail)
<1>1. CanRead \in 0 .. Capacity /\ CanWrite \in 0 .. Capacity
  BY CanReadRange DEF IInv
<1>2. n \in 0 .. CanWrite
  BY <1>1 DEF min
<1>3. chunk \in 0 .. Capacity /\ n - chunk \in 0 .. Capacity /\ chunk <= n
  BY <1>1, <1>2, CapacityAssumption DEF min, IInv, Counters, Offset
<1>4. /\ n > 0
      /\ tail' = Advance(Advance(tail, chunk), n - chunk)
      /\ wrap' = IF head = tail' THEN 1 ELSE wrap
      /\ written' = written + n
      /\ UNCHANGED <<head, consumed>>
  BY DEF Write
<1> DEFINE resume == Advance(tail, chunk)
<1>5. /\ resume \in Offset
      /\ resume = IF n < Capacity - tail THEN tail + n ELSE 0
      /\ n - chunk = IF n < Capacity - tail THEN 0 ELSE n - (Capacity - tail)
  <2>1. /\ resume \in Offset
        /\ resume = IF tail + chunk < Capacity THEN tail + chunk
                    ELSE tail + chunk - Capacity
    BY <1>3, AdvanceOnce DEF IInv, Counters
  <2>2. chunk = IF n < Capacity - tail THEN n ELSE Capacity - tail
    BY DEF min
  <2> HIDE DEF resume, chunk, n
  <2>3. QED
    BY <2>1, <2>2, <1>1, <1>2, CapacityAssumption DEF IInv, Counters, Offset
<1>6. /\ tail' \in Offset
      /\ tail' = IF n < Capacity - tail THEN tail + n ELSE n - (Capacity - tail)
  <2>1. /\ tail' \in Offset
        /\ tail' = IF resume + (n - chunk) < Capacity THEN resume + (n - chunk)
                   ELSE resume + (n - chunk) - Capacity
    BY <1>3, <1>4, <1>5, AdvanceOnce
  <2> HIDE DEF resume, chunk, n
  <2>2. QED
    BY <2>1, <1>1, <1>2, <1>5, CapacityAssumption DEF IInv, Counters, Offset
<1>7. written' = written + n /\ UNCHANGED <<head, consumed>>
      /\ wrap' = (IF head = tail' THEN 1 ELSE wrap) /\ n > 0
  BY <1>4
<1> HIDE DEF resume, chunk, n
<1>8. Counters' /\ WrapMeansStraddling'
  BY <1>1, <1>2, <1>6, <1>7, CapacityAssumption
     DEF IInv, Counters, WrapMeansStraddling, CanRead, CanWrite, Offset
<1>9. Conserved'
  BY <1>1, <1>2, <1>6, <1>7, CapacityAssumption
     DEF IInv, Counters, Conserved, WrapMeansStraddling, CanRead, CanWrite, Offset
<1>10. QED
  BY <1>8, <1>9 DEF IInv

(* Reads, writes and ce_rb_free keep the invariant.                        *)
LEMMA NextIInv == IInv /\ [Next]_vars => IInv'
<1> SUFFICES ASSUME IInv, [Next]_vars
             PROVE  IInv'
  OBVIOUS
<1>1. ASSUME NEW count \in Count, ReadNothing(count)
      PROVE  IInv'
  BY <1>1 DEF ReadNothing, rb, IInv, Counters, Conserved, WrapMeansStraddling, CanRead
<1>2. ASSUME NEW count \in Count, ReadDirect(count) \/ ReadCopied(count)
      PROVE  IInv'
  BY <1>2, ReadKeepsIInv, CapacityAssumption DEF Count
<1>3. ASSUME NEW data \in Data, Write(data)
      PROVE  IInv'
  <2>1. data \in Seq(Bytes)
    BY CapacityAssumption DEF Data
  <2>2. QED
    BY <1>3, <2>1, WriteKeepsIInv
<1>4. CASE Free
  BY <1>4 DEF Free, rb, IInv, Counters, Conserved, WrapMeansStraddling, CanRead
<1>5. CASE UNCHANGED vars
  BY <1>5 DEF vars, IInv, Counters, Conserved, WrapMeansStraddling, CanRead
<1>6. QED
  BY <1>1, <1>2, <1>3, <1>4, <1>5 DEF Next

(* The counters are right in every run.                                    *)
LEMMA SpecIInv == Spec => []IInv
BY InitIInv, NextIInv, PTL DEF Spec

(***************************************************************************)
(* ce_rb_can_read never miscounts, for any capacity: what head, tail and   *)
(* wrap say is what was written and not yet read, however partial reads    *)
(* and writes follow each other.                                           *)
(***************************************************************************)
THEOREM SpecConserved == Spec => []Conserved
<1>1. IInv => Conserved
  BY DEF IInv
<1>2. QED
  BY <1>1, SpecIInv, PTL

(***************************************************************************)
(* The direct path of ce_rb_read may leave the wrap flag alone, for any    *)
(* capacity: a set flag means the unread bytes reach the end of the ring.  *)
(***************************************************************************)
THEOREM SpecWrapMeansStraddling == Spec => []WrapMeansStraddling
<1>1. IInv => WrapMeansStraddling
  BY DEF IInv
<1>2. QED
  BY <1>1, SpecIInv, PTL

-----------------------------------------------------------------------------
(* ce_ringbuffer.c implements the bounded FIFO, for every capacity and     *)
(* every set of bytes: the refinement that run `ring' checks on a ring of  *)
(* three bytes.  What the pointer of the last read shows follows from the  *)
(* same lemmas.                                                            *)


(* What the refinement needs besides IInv.                                 *)
Memory == buffer \in [Offset -> Bytes]
RInv == IInv /\ Memory

(* Memory is invariant together with IInv.                      *)
LEMMA SpecRInv == Spec => []RInv
<1>1. Init => Memory
  BY BytesAssumption DEF Init, Memory
<1>2. IInv /\ Memory /\ [Next]_vars => Memory'
  <2> SUFFICES ASSUME IInv, Memory, [Next]_vars
               PROVE  Memory'
    OBVIOUS
  <2>1. ASSUME NEW data \in Data, Write(data)
        PROVE  Memory'
    <3> DEFINE n == min(Len(data), CanWrite)
               chunk == min(n, Capacity - tail)
               resume == Advance(tail, chunk)
    <3>1. /\ \A j \in 1 .. Len(data) : data[j] \in Bytes
          /\ Len(data) \in Nat
      BY CapacityAssumption DEF Data
    <3>2. /\ n \in 0 .. Len(data) /\ chunk \in 0 .. n /\ n <= Capacity
          /\ tail \in Offset
      BY <3>1, CanReadRange, CapacityAssumption
         DEF min, IInv, Counters, Offset
    <3>3. resume \in Offset
      BY <3>2, CanReadRange, AdvanceOnce, CapacityAssumption
         DEF IInv, Counters
    <3>4. buffer' = [i \in Offset |->
             IF i >= tail /\ i < tail + chunk THEN data[i - tail + 1]
             ELSE IF i >= resume /\ i < resume + (n - chunk)
                  THEN data[chunk + (i - resume) + 1]
             ELSE buffer[i]]
      BY <2>1 DEF Write, Stored
    <3> HIDE DEF n, chunk, resume
    <3>5. ASSUME NEW i \in Offset
          PROVE  (IF i >= tail /\ i < tail + chunk THEN data[i - tail + 1]
                  ELSE IF i >= resume /\ i < resume + (n - chunk)
                       THEN data[chunk + (i - resume) + 1]
                  ELSE buffer[i]) \in Bytes
      BY <3>1, <3>2, <3>3, CapacityAssumption DEF Memory, Offset
    <3>6. QED
      BY <3>4, <3>5 DEF Memory
  <2>2. CASE UNCHANGED buffer
    BY <2>2 DEF Memory
  <2>3. QED
    BY <2>1, <2>2 DEF Next, ReadNothing, ReadDirect, ReadCopied, Free, rb, vars
<1>3. QED
  BY <1>1, <1>2, SpecIInv, PTL DEF Spec, RInv

-----------------------------------------------------------------------------

(* The unread bytes lie in the ring from head on, one slot after another.  *)
Slots ==
  /\ Unread \in Seq(Bytes) /\ Len(Unread) = CanRead
  /\ CanRead \in 0 .. Capacity
  /\ \A i \in 1 .. CanRead : /\ Advance(head, i - 1) \in Offset
                             /\ Unread[i] = buffer[Advance(head, i - 1)]
  /\ tail = Advance(head, CanRead)

(* The slots of the unread bytes, counted from head.                       *)
LEMMA UnreadSlots == RInv => Slots
<1> SUFFICES ASSUME RInv
             PROVE  Slots
  OBVIOUS
<1>1. CanRead \in 0 .. Capacity /\ head \in Offset /\ tail \in Offset
  BY CanReadRange DEF RInv, IInv, Counters
<1>2. ASSUME NEW i \in 1 .. CanRead
      PROVE  /\ Advance(head, i - 1) \in Offset
             /\ (head + i - 1) % Capacity = Advance(head, i - 1)
  <2>1. i - 1 \in 0 .. Capacity /\ head + i - 1 = head + (i - 1)
    BY <1>1, CapacityAssumption DEF Offset
  <2>2. Advance(head, i - 1) \in Offset
    BY <1>1, <2>1, AdvanceOnce
  <2>3. QED
    BY <2>1, <2>2 DEF Advance
<1>3. \A i \in 1 .. CanRead : buffer[Advance(head, i - 1)] \in Bytes
  BY <1>2 DEF RInv, Memory
<1>4. Unread = [i \in 1 .. CanRead |-> buffer[Advance(head, i - 1)]]
  BY <1>2 DEF Unread
<1>5. tail = Advance(head, CanRead)
  <2>1. Advance(head, CanRead) = IF head + CanRead < Capacity THEN head + CanRead
                                 ELSE head + CanRead - Capacity
    BY <1>1, AdvanceOnce
  <2>2. QED
    BY <1>1, <2>1, CapacityAssumption
       DEF CanRead, Offset, RInv, IInv, Counters
<1> HIDE DEF CanRead
<1>6. QED
  BY <1>1, <1>2, <1>3, <1>4, <1>5 DEF Slots

(* Two advances by less than a ring in total are one.                      *)
LEMMA AdvanceTwice ==
  ASSUME NEW from \in Offset, NEW a \in Nat, NEW b \in Nat, a + b <= Capacity
  PROVE  Advance(Advance(from, a), b) = Advance(from, a + b)
<1>1. a \in 0 .. Capacity /\ b \in 0 .. Capacity /\ a + b \in 0 .. Capacity
  BY CapacityAssumption
<1>2. /\ Advance(from, a) \in Offset
      /\ Advance(from, a) = IF from + a < Capacity THEN from + a
                            ELSE from + a - Capacity
      /\ Advance(from, a + b) = IF from + (a + b) < Capacity THEN from + (a + b)
                                ELSE from + (a + b) - Capacity
  BY <1>1, AdvanceOnce
<1> DEFINE mid == Advance(from, a)
<1>3. Advance(mid, b) = IF mid + b < Capacity THEN mid + b
                        ELSE mid + b - Capacity
  BY <1>1, <1>2, AdvanceOnce
<1>4. QED
  BY <1>1, <1>2, <1>3, CapacityAssumption DEF Offset

-----------------------------------------------------------------------------

(* Either path of ce_rb_read hands out the first n unread bytes and moves  *)
(* head past them.                                                         *)
LEMMA ReadDelivers ==
  ASSUME RInv, NEW count \in Nat, ReadDirect(count) \/ ReadCopied(count)
  PROVE  \E n \in 1 .. CanRead :
           /\ head' = Advance(head, n)
           /\ consumed' = consumed + n
           /\ promised' = [i \in 1 .. n |-> buffer[Advance(head, i - 1)]]
           /\ UNCHANGED <<buffer, tail, written>>
<1> DEFINE n == min(count, CanRead)
           chunk == min(n, Capacity - head)
<1>1. /\ CanRead \in 0 .. Capacity /\ head \in Offset
      /\ n > 0
  BY CanReadRange DEF RInv, IInv, Counters, ReadDirect, ReadCopied
<1>2. n \in 1 .. CanRead
  BY <1>1 DEF min
<1>3. CASE ReadDirect(count)
  <2>1. /\ head' = Advance(head, n) /\ consumed' = consumed + n
        /\ promised' = [i \in 1 .. n |-> buffer[head + i - 1]]
        /\ UNCHANGED <<buffer, tail, written>>
        /\ Capacity - head > n
    BY <1>1, <1>2, <1>3, CapacityAssumption DEF ReadDirect, Straddles, Offset
  <2> HIDE DEF n
  <2>2. ASSUME NEW i \in 1 .. n
        PROVE  head + i - 1 = Advance(head, i - 1)
    <3>1. i - 1 \in 0 .. Capacity /\ head + (i - 1) < Capacity
      BY <1>1, <1>2, <2>1, CapacityAssumption DEF Offset
    <3>2. Advance(head, i - 1) = head + (i - 1)
      BY <1>1, <3>1, AdvanceOnce
    <3>3. QED
      BY <1>1, <3>2, CapacityAssumption DEF Offset
  <2>3. QED
    BY <1>2, <2>1, <2>2
<1>4. CASE ReadCopied(count)
  <2>1. /\ head' = Advance(Advance(head, chunk), n - chunk)
        /\ consumed' = consumed + n
        /\ promised' = Gathered(n)
        /\ UNCHANGED <<buffer, tail, written>>
        /\ Capacity - head <= n
    BY <1>4 DEF ReadCopied, Straddles
  <2>2. chunk = Capacity - head /\ chunk \in 1 .. n
    BY <1>1, <1>2, <2>1, CapacityAssumption DEF min, Offset
  <2>3. Gathered(n) = [i \in 1 .. n |->
            IF i <= chunk THEN buffer[head + i - 1]
            ELSE buffer[Advance(head, chunk) + i - chunk - 1]]
    BY DEF Gathered
  <2> HIDE DEF n, chunk
  <2>4. head' = Advance(head, n)
    BY <1>1, <1>2, <2>1, <2>2, AdvanceTwice, CapacityAssumption
  <2>5. Advance(head, chunk) = 0
    BY <1>1, <1>2, <2>2, AdvanceOnce, CapacityAssumption DEF Offset
  <2>6. ASSUME NEW i \in 1 .. n
        PROVE  Advance(head, i - 1) = IF i <= chunk THEN head + i - 1
                                      ELSE Advance(head, chunk) + i - chunk - 1
    <3>1. i - 1 \in 0 .. Capacity
      BY <1>1, <1>2, CapacityAssumption
    <3>2. Advance(head, i - 1) = IF head + (i - 1) < Capacity THEN head + (i - 1)
                                 ELSE head + (i - 1) - Capacity
      BY <1>1, <3>1, AdvanceOnce
    <3>3. QED
      BY <1>1, <1>2, <2>2, <2>5, <3>2, CapacityAssumption DEF Offset
  <2>7. QED
    BY <1>2, <2>1, <2>3, <2>4, <2>6
<1>5. QED
  BY <1>3, <1>4

(* A read is a Take of the abstract queue.                                 *)
LEMMA ReadTakes ==
  ASSUME RInv, RInv', NEW n \in 0 .. CanRead,
         head' = Advance(head, n), consumed' = consumed + n,
         promised' = [i \in 1 .. n |-> buffer[Advance(head, i - 1)]],
         UNCHANGED <<buffer, written>>
  PROVE  Fifo!Take
<1>1. /\ Unread \in Seq(Bytes) /\ Len(Unread) = CanRead
      /\ CanRead \in 0 .. Capacity /\ head \in Offset
      /\ \A i \in 1 .. CanRead : Unread[i] = buffer[Advance(head, i - 1)]
  BY UnreadSlots DEF Slots, RInv, IInv, Counters
<1>2. /\ Unread' \in Seq(Bytes) /\ Len(Unread') = CanRead'
      /\ \A i \in 1 .. CanRead' : Unread'[i] = buffer'[Advance(head', i - 1)]
  <2>1. Slots'
    BY UnreadSlots, PTL
  <2>2. QED
    BY <2>1 DEF Slots, Advance
<1>3. CanRead' = CanRead - n
  BY DEF RInv, IInv, Conserved, Counters
<1> HIDE DEF CanRead
<1>4. ASSUME NEW i \in 1 .. CanRead'
      PROVE  Unread'[i] = Unread[n + i]
  <2>1. n \in Nat /\ i - 1 \in Nat /\ n + (i - 1) <= Capacity
        /\ n + i \in 1 .. CanRead /\ n + (i - 1) = (n + i) - 1
    BY <1>1, <1>3, CapacityAssumption
  <2>2. Advance(head', i - 1) = Advance(head, (n + i) - 1)
    BY <1>1, <2>1, AdvanceTwice
  <2>3. QED
    BY <1>1, <1>2, <2>1, <2>2
<1>5. promised' = SubSeq(Unread, 1, n)
  BY <1>1
<1>6. Unread' = SubSeq(Unread, n + 1, Len(Unread))
  BY <1>1, <1>2, <1>3, <1>4
<1>7. QED
  BY <1>1, <1>5, <1>6 DEF Fifo!Take

-----------------------------------------------------------------------------

(* A write stores n bytes in the slots from tail on and leaves the others. *)
LEMMA WriteStores ==
  ASSUME RInv, NEW data \in Data, Write(data)
  PROVE  \E n \in 1 .. CanWrite :
           /\ n <= Len(data)
           /\ tail' = Advance(tail, n)
           /\ written' = written + n
           /\ \A i \in 1 .. n : buffer'[Advance(tail, i - 1)] = data[i]
           /\ \A o \in Offset :
                (\A i \in 1 .. n : o # Advance(tail, i - 1)) => buffer'[o] = buffer[o]
           /\ UNCHANGED <<head, consumed, promised>>
<1> DEFINE n == min(Len(data), CanWrite)
           chunk == min(n, Capacity - tail)
           resume == Advance(tail, chunk)
<1>1. CanWrite \in 0 .. Capacity /\ tail \in Offset /\ Len(data) \in Nat
  BY CanReadRange, CapacityAssumption DEF RInv, IInv, Counters, Data
<1>2. /\ n > 0 /\ written' = written + n
      /\ tail' = Advance(Advance(tail, chunk), n - chunk)
      /\ buffer' = [i \in Offset |->
            IF i >= tail /\ i < tail + chunk THEN data[i - tail + 1]
            ELSE IF i >= resume /\ i < resume + (n - chunk)
                 THEN data[chunk + (i - resume) + 1]
            ELSE buffer[i]]
      /\ UNCHANGED <<head, consumed, promised>>
  BY DEF Write, Stored
<1>3. n \in 1 .. CanWrite /\ n <= Len(data)
  BY <1>1, <1>2 DEF min
<1>4. chunk = IF n < Capacity - tail THEN n ELSE Capacity - tail
  BY DEF min
<1> HIDE DEF n, chunk, resume
<1>5. chunk \in 1 .. n /\ n - chunk \in Nat /\ chunk \in Nat /\ n \in 0 .. Capacity
  BY <1>1, <1>3, <1>4, CapacityAssumption DEF Offset
<1>6. tail' = Advance(tail, n)
  BY <1>1, <1>2, <1>5, AdvanceTwice
<1>7. resume = IF n < Capacity - tail THEN tail + n ELSE 0
  <2>1. resume = IF tail + chunk < Capacity THEN tail + chunk
                 ELSE tail + chunk - Capacity
    BY <1>1, <1>3, <1>5, AdvanceOnce, CapacityAssumption DEF resume
  <2>2. QED
    BY <2>1, <1>1, <1>4, <1>5, CapacityAssumption DEF Offset
<1>8. ASSUME NEW i \in 1 .. n
      PROVE  /\ Advance(tail, i - 1) \in Offset
             /\ Advance(tail, i - 1) = IF i <= chunk THEN tail + i - 1
                                       ELSE tail + i - 1 - Capacity
  <2>1. i - 1 \in 0 .. Capacity
    BY <1>5, CapacityAssumption
  <2>2. /\ Advance(tail, i - 1) \in Offset
        /\ Advance(tail, i - 1) = IF tail + (i - 1) < Capacity THEN tail + (i - 1)
                                  ELSE tail + (i - 1) - Capacity
    BY <1>1, <2>1, AdvanceOnce
  <2>3. QED
    BY <1>1, <1>4, <1>5, <2>2, CapacityAssumption DEF Offset
<1>9. ASSUME NEW i \in 1 .. n
      PROVE  buffer'[Advance(tail, i - 1)] = data[i]
  <2>1. CASE i <= chunk
    BY <1>1, <1>2, <1>5, <1>8, <2>1, CapacityAssumption DEF Offset
  <2>2. CASE i > chunk
    <3> DEFINE o == Advance(tail, i - 1)
    <3>1. chunk = Capacity - tail /\ resume = 0 /\ o = i - chunk - 1
      BY <1>1, <1>4, <1>5, <1>7, <1>8, <2>2, CapacityAssumption DEF Offset
    <3>2. o \in Offset /\ o < tail /\ o >= resume /\ o < resume + (n - chunk)
          /\ chunk + (o - resume) + 1 = i
      BY <1>1, <1>3, <1>5, <1>8, <2>2, <3>1, CapacityAssumption DEF Offset
    <3> HIDE DEF o
    <3>3. buffer'[o] = data[i]
      BY <1>1, <1>2, <1>5, <3>2, CapacityAssumption DEF Offset
    <3>4. QED
      BY <3>3 DEF o
  <2>3. QED
    BY <1>5, <2>1, <2>2
<1>10. ASSUME NEW o \in Offset, \A i \in 1 .. n : o # Advance(tail, i - 1)
       PROVE  buffer'[o] = buffer[o]
  <2>1. ~(o >= tail /\ o < tail + chunk)
    <3> SUFFICES ASSUME o >= tail, o < tail + chunk
                 PROVE  FALSE
      OBVIOUS
    <3>1. o - tail + 1 \in 1 .. n /\ o - tail + 1 <= chunk
      BY <1>1, <1>5, CapacityAssumption DEF Offset
    <3>2. Advance(tail, (o - tail + 1) - 1) = tail + (o - tail + 1) - 1
      BY <1>8, <3>1
    <3>3. QED
      BY <1>1, <1>10, <3>1, <3>2, CapacityAssumption DEF Offset
  <2>2. ~(o >= resume /\ o < resume + (n - chunk))
    <3> SUFFICES ASSUME o >= resume, o < resume + (n - chunk)
                 PROVE  FALSE
      OBVIOUS
    <3>1. chunk = Capacity - tail /\ resume = 0
      BY <1>1, <1>4, <1>5, <1>7, CapacityAssumption DEF Offset
    <3>2. o + chunk + 1 \in 1 .. n /\ ~(o + chunk + 1 <= chunk)
      BY <1>1, <1>5, <3>1, CapacityAssumption DEF Offset
    <3>3. Advance(tail, (o + chunk + 1) - 1) = tail + (o + chunk + 1) - 1 - Capacity
      BY <1>8, <3>2
    <3>4. QED
      BY <1>1, <1>5, <1>10, <3>1, <3>2, <3>3, CapacityAssumption DEF Offset
  <2>3. QED
    BY <1>2, <2>1, <2>2
<1>11. QED
  BY <1>2, <1>3, <1>6, <1>9, <1>10

(* Different distances below a ring lead to different slots.               *)
LEMMA AdvanceInjective ==
  ASSUME NEW from \in Offset, NEW a \in Nat, NEW b \in Nat,
         a < Capacity, b < Capacity, a # b
  PROVE  Advance(from, a) # Advance(from, b)
<1>1. a \in 0 .. Capacity /\ b \in 0 .. Capacity
  BY CapacityAssumption
<1>2. /\ Advance(from, a) = IF from + a < Capacity THEN from + a
                            ELSE from + a - Capacity
      /\ Advance(from, b) = IF from + b < Capacity THEN from + b
                            ELSE from + b - Capacity
  BY <1>1, AdvanceOnce
<1>3. QED
  BY <1>1, <1>2, CapacityAssumption DEF Offset

(* How a sequence is recognised as the concatenation of two others.        *)
LEMMA IsConcatenation ==
  ASSUME NEW S, NEW s \in Seq(S), NEW t \in Seq(S), NEW u \in Seq(S),
         Len(u) = Len(s) + Len(t),
         \A i \in 1 .. Len(s) : u[i] = s[i],
         \A j \in 1 .. Len(t) : u[Len(s) + j] = t[j]
  PROVE  u = s \o t
<1>1. \A i \in 1 .. Len(u) : i > Len(s) => u[i] = t[i - Len(s)]
  <2> TAKE i \in 1 .. Len(u)
  <2> HAVE i > Len(s)
  <2>1. i - Len(s) \in 1 .. Len(t) /\ Len(s) + (i - Len(s)) = i
    OBVIOUS
  <2>2. QED
    BY <2>1
<1>2. QED
  BY <1>1, SeqEqual, ConcatProperties

(* A write is a Put of the abstract queue.                                 *)
LEMMA WritePuts ==
  ASSUME RInv, RInv', NEW data \in Data, Write(data)
  PROVE  Fifo!Put
<1>1. Slots /\ Slots' /\ head \in Offset
  BY UnreadSlots, PTL DEF RInv, IInv, Counters
<1>2. PICK n \in 1 .. CanWrite :
        /\ n <= Len(data)
        /\ tail' = Advance(tail, n)
        /\ written' = written + n
        /\ \A i \in 1 .. n : buffer'[Advance(tail, i - 1)] = data[i]
        /\ \A o \in Offset :
             (\A i \in 1 .. n : o # Advance(tail, i - 1)) => buffer'[o] = buffer[o]
        /\ UNCHANGED <<head, consumed, promised>>
  BY WriteStores
<1>3. CanRead' = CanRead + n
  BY <1>2, CanReadRange DEF RInv, IInv, Conserved, Counters
<1>4. /\ CanWrite = Capacity - CanRead
      /\ Unread \in Seq(Bytes) /\ Len(Unread) = CanRead
      /\ CanRead \in 0 .. Capacity
      /\ \A i \in 1 .. CanRead : /\ Advance(head, i - 1) \in Offset
                                 /\ Unread[i] = buffer[Advance(head, i - 1)]
      /\ tail = Advance(head, CanRead)
      /\ Unread' \in Seq(Bytes) /\ Len(Unread') = CanRead'
      /\ \A i \in 1 .. CanRead' : Unread'[i] = buffer'[Advance(head, i - 1)]
  BY <1>1, <1>2 DEF Slots, CanWrite, Advance
<1> DEFINE d == [j \in 1 .. n |-> data[j]]
<1>5. d \in [1 .. n -> Bytes] /\ d \in Seq(Bytes) /\ Len(d) = n
  <2>1. Len(data) \in Nat /\ \A j \in 1 .. Len(data) : data[j] \in Bytes
    BY CapacityAssumption DEF Data
  <2>2. n \in Nat
    BY <1>4, CapacityAssumption
  <2>3. \A j \in 1 .. n : data[j] \in Bytes
    BY <1>2, <2>1, <2>2
  <2>4. d \in [1 .. n -> Bytes]
    BY <2>3
  <2>5. QED
    BY <2>2, <2>4
<1> HIDE DEF CanRead, CanWrite
<1>6. ASSUME NEW j \in 1 .. n
      PROVE  Advance(tail, j - 1) = Advance(head, CanRead + (j - 1))
  <2>1. CanRead \in Nat /\ j - 1 \in Nat /\ CanRead + (j - 1) <= Capacity
    BY <1>2, <1>4, CapacityAssumption
  <2>2. QED
    BY <1>1, <1>4, <2>1, AdvanceTwice
<1>7. ASSUME NEW i \in 1 .. CanRead
      PROVE  Unread'[i] = Unread[i]
  <2>1. ASSUME NEW j \in 1 .. n
        PROVE  Advance(head, i - 1) # Advance(tail, j - 1)
    <3>1. /\ i - 1 \in Nat /\ CanRead + (j - 1) \in Nat
          /\ i - 1 < Capacity /\ CanRead + (j - 1) < Capacity
          /\ i - 1 # CanRead + (j - 1)
      BY <1>2, <1>4, CapacityAssumption
    <3>2. QED
      BY <1>1, <1>6, <3>1, AdvanceInjective
  <2>2. i \in 1 .. CanRead'
    BY <1>3, <1>4, CapacityAssumption
  <2>3. QED
    BY <1>2, <1>4, <2>1, <2>2
<1>8. ASSUME NEW j \in 1 .. n
      PROVE  Unread'[CanRead + j] = d[j]
  <2>1. CanRead + j \in 1 .. CanRead' /\ (CanRead + j) - 1 = CanRead + (j - 1)
    BY <1>3, <1>4, CapacityAssumption
  <2>2. QED
    BY <1>2, <1>4, <1>6, <2>1
<1>9. Unread' = Unread \o d
  <2> HIDE DEF d
  <2>1. Len(Unread') = Len(Unread) + Len(d)
    BY <1>3, <1>4, <1>5
  <2>2. \A i \in 1 .. Len(Unread) : Unread'[i] = Unread[i]
    BY <1>4, <1>7
  <2>3. \A j \in 1 .. Len(d) : Unread'[Len(Unread) + j] = d[j]
    BY <1>4, <1>5, <1>8
  <2>4. QED
    BY <1>4, <1>5, <2>1, <2>2, <2>3, IsConcatenation
<1>10. QED
  <2>1. n \in 1 .. (Capacity - Len(Unread)) /\ promised' = promised
    BY <1>2, <1>4
  <2>2. QED
    BY <1>5, <1>9, <2>1 DEF Fifo!Put

-----------------------------------------------------------------------------

(***************************************************************************)
(* ce_rb_write and ce_rb_read implement a bounded FIFO: for every          *)
(* capacity, through any number of wrap-arounds and on both paths of the   *)
(* read, the bytes come out once each and in the order they were written.  *)
(***************************************************************************)
THEOREM SpecImplementsFifo == Spec => ImplementsFifo
<1>1. Init => Fifo!Init
  BY DEF Init, Fifo!Init, Unread, CanRead
<1>2. RInv /\ RInv' /\ [Next]_vars => [Fifo!Next]_(Fifo!vars)
  <2> SUFFICES ASSUME RInv, RInv', [Next]_vars
               PROVE  Fifo!Next \/ UNCHANGED <<Unread, promised>>
    BY DEF Fifo!vars
  <2>0. CanRead \in 0 .. Capacity /\ head \in Offset
    BY CanReadRange DEF RInv, IInv, Counters
  <2>1. ASSUME NEW count \in Count, ReadDirect(count) \/ ReadCopied(count)
        PROVE  Fifo!Next
    BY <2>0, <2>1, ReadDelivers, ReadTakes, CapacityAssumption DEF Count, Fifo!Next
  <2>2. ASSUME NEW data \in Data, Write(data)
        PROVE  Fifo!Next
    BY <2>2, WritePuts DEF Fifo!Next
  <2>3. ASSUME promised' = << >>, UNCHANGED <<rb, written, consumed>>
        PROVE  Fifo!Next
    <3>1. head' = Advance(head, 0)
      BY <2>0, <2>3, AdvanceOnce, CapacityAssumption DEF rb, Offset
    <3>2. 0 \in 0 .. CanRead /\ consumed' = consumed + 0
      BY <2>0, <2>3 DEF RInv, IInv, Counters
    <3>3. promised' = [i \in 1 .. 0 |-> buffer[Advance(head, i - 1)]]
      BY <2>3
    <3>4. QED
      BY <2>3, <3>1, <3>2, <3>3, ReadTakes DEF rb, Fifo!Next
  <2>4. ASSUME NEW count \in Count, ReadNothing(count)
        PROVE  Fifo!Next
    BY <2>3, <2>4 DEF ReadNothing
  <2>5. CASE Free
    BY <2>3, <2>5 DEF Free
  <2>6. CASE UNCHANGED vars
    BY <2>6 DEF vars, Unread, CanRead
  <2>7. QED
    BY <2>1, <2>2, <2>4, <2>5, <2>6 DEF Next
<1>3. QED
  BY <1>1, <1>2, SpecRInv, PTL DEF Spec, ImplementsFifo, Fifo!Spec

-----------------------------------------------------------------------------

(* What ViewIntact needs: the slots under a pointer into the ring are as   *)
(* far behind tail as their bytes are behind the last byte written, as     *)
(* long as that is at most once around.                                    *)
CopyShows ==
  view.kind = "copy" =>
    view.len <= Len(retval) /\ \A i \in 1 .. view.len : retval[i] = promised[i]

DirectShows ==
  view.kind = "direct" =>
    /\ view.off + view.len < Capacity /\ view.at + view.len <= written
    /\ written - view.at <= Capacity =>
         /\ tail = Advance(view.off, written - view.at)
         /\ \A i \in 1 .. view.len : buffer[view.off + i - 1] = promised[i]

Sight ==
  /\ view \in Views /\ retval \in Seq(Bytes) /\ promised \in Seq(Bytes)
  /\ Len(promised) = view.len /\ (view.kind = "null" => view.len = 0)
  /\ CopyShows /\ DirectShows

(* A read of nothing and ce_rb_free give no pointer out.                   *)
LEMMA NoViewSight ==
  ASSUME view = NoView, promised = << >>, retval \in Seq(Bytes)
  PROVE  Sight
<1>1. NoView \in Views
  BY CapacityAssumption DEF NoView, Views, Offset
<1>2. QED
  BY <1>1 DEF NoView, Sight, CopyShows, DirectShows

(* The pointer of a direct read shows the bytes that were asked for.       *)
LEMMA ReadDirectSight ==
  ASSUME RInv, Sight, NEW count \in Nat, ReadDirect(count)
  PROVE  Sight'
<1> DEFINE n == min(count, CanRead)
<1>1. /\ view' = [kind |-> "direct", off |-> head, len |-> n, at |-> consumed]
      /\ promised' = [i \in 1 .. n |-> buffer[head + i - 1]]
      /\ n > 0 /\ Capacity - head > n
      /\ UNCHANGED <<buffer, tail, retval, written>>
  <2>1. n \in Int /\ head \in Offset
    BY CanReadRange DEF min, RInv, IInv, Counters
  <2>2. QED
    BY <2>1, CapacityAssumption DEF ReadDirect, Straddles, Offset
<1>2. /\ CanRead \in 0 .. Capacity /\ tail = Advance(head, CanRead)
      /\ CanRead = written - consumed
      /\ head \in Offset /\ written \in Nat /\ consumed \in Nat
      /\ buffer \in [Offset -> Bytes]
  BY UnreadSlots DEF Slots, RInv, IInv, Counters, Conserved, Memory
<1>3. n \in 1 .. CanRead
  BY <1>1, <1>2 DEF min
<1> HIDE DEF n
<1>4. head + n < Capacity /\ consumed + n <= written
  BY <1>1, <1>2, <1>3, CapacityAssumption DEF Offset
<1>5. view' \in Views
  BY <1>1, <1>2, <1>3, CapacityAssumption DEF Views
<1>6. promised' \in Seq(Bytes) /\ Len(promised') = n
  <2>1. \A i \in 1 .. n : head + i - 1 \in Offset
    BY <1>2, <1>3, <1>4, CapacityAssumption DEF Offset
  <2>2. QED
    BY <1>1, <1>2, <1>3, <2>1
<1>7. DirectShows'
  <2>1. written - consumed <= Capacity /\ tail = Advance(head, written - consumed)
    BY <1>2, CapacityAssumption
  <2>2. \A i \in 1 .. n : buffer[head + i - 1] = promised'[i]
    BY <1>1
  <2>3. QED
    BY <1>1, <1>4, <2>1, <2>2 DEF DirectShows, Advance
<1>8. QED
  BY <1>1, <1>5, <1>6, <1>7 DEF Sight, CopyShows

(* The scratch block shows the bytes that were gathered in it.             *)
LEMMA ReadCopiedSight ==
  ASSUME RInv, Sight, NEW count \in Nat, ReadCopied(count)
  PROVE  Sight'
<1> DEFINE n == min(count, CanRead)
           old == SubSeq(retval, n + 1, Len(retval))
<1>1. /\ view' = [kind |-> "copy", off |-> 0, len |-> n, at |-> consumed]
      /\ promised' = Gathered(n) /\ retval' = Gathered(n) \o old
      /\ consumed' = consumed + n /\ n > 0
  BY DEF ReadCopied
<1>2. /\ CanRead \in 0 .. Capacity /\ consumed \in Nat
      /\ \A i \in 1 .. CanRead : buffer[Advance(head, i - 1)] \in Bytes
  <2>1. Slots /\ buffer \in [Offset -> Bytes] /\ consumed \in Nat
    BY UnreadSlots DEF RInv, IInv, Counters, Memory
  <2>2. QED
    BY <2>1 DEF Slots
<1>3. n \in 1 .. CanRead
  BY <1>1, <1>2 DEF min
<1>4. promised' = [i \in 1 .. n |-> buffer[Advance(head, i - 1)]]
  <2>1. PICK m \in 1 .. CanRead :
          /\ consumed' = consumed + m
          /\ promised' = [i \in 1 .. m |-> buffer[Advance(head, i - 1)]]
    BY ReadDelivers
  <2>2. m = n
    BY <1>1, <1>2, <1>3, <2>1
  <2>3. QED
    BY <2>1, <2>2
<1> HIDE DEF n, old
<1>5. promised' \in Seq(Bytes) /\ Len(promised') = n
  BY <1>2, <1>3, <1>4
<1>6. old \in Seq(Bytes)
  <2>1. Len(retval) \in Int /\ n + 1 \in Int /\ \A i \in n + 1 .. Len(retval) : retval[i] \in Bytes
    BY <1>2, <1>3 DEF Sight
  <2>2. QED
    BY <2>1, SubSeqProperties DEF old
<1>7. /\ retval' \in Seq(Bytes) /\ Len(retval') = n + Len(old)
      /\ \A i \in 1 .. n : retval'[i] = promised'[i]
  <2>1. retval' = promised' \o old
    BY <1>1
  <2>2. Len(old) \in Nat /\ n \in Nat
    BY <1>2, <1>3, <1>6, LenProperties
  <2>3. /\ retval' \in Seq(Bytes) /\ Len(retval') = n + Len(old)
        /\ \A i \in 1 .. n + Len(old) :
             retval'[i] = IF i <= n THEN promised'[i] ELSE old[i - n]
    BY <1>5, <1>6, <2>1, ConcatProperties
  <2>4. QED
    BY <2>2, <2>3
<1>8. n <= Len(retval')
  BY <1>2, <1>3, <1>6, <1>7, LenProperties
<1>9. view' \in Views
  BY <1>1, <1>2, <1>3, CapacityAssumption DEF Views, Offset
<1>10. QED
  BY <1>1, <1>5, <1>7, <1>8, <1>9 DEF Sight, CopyShows, DirectShows

(* A write spoils a view only once it has gone round the ring.             *)
LEMMA WriteSight ==
  ASSUME RInv, Sight, NEW data \in Data, Write(data)
  PROVE  Sight'
<1>1. UNCHANGED <<view, retval, promised>>
  BY DEF Write
<1>2. PICK n \in 1 .. CanWrite :
        /\ tail' = Advance(tail, n)
        /\ written' = written + n
        /\ \A o \in Offset :
             (\A i \in 1 .. n : o # Advance(tail, i - 1)) => buffer'[o] = buffer[o]
  BY WriteStores
<1>3. /\ written \in Nat /\ n \in Nat
  BY <1>2, CanReadRange DEF RInv, IInv, Counters
<1>4. CASE view.kind # "direct"
  BY <1>1, <1>4 DEF Sight, CopyShows, DirectShows
<1>5. CASE view.kind = "direct"
  <2> DEFINE off == view.off
             len == view.len
             gap == written - view.at
  <2>1. /\ off \in Offset /\ len \in Nat /\ view.at \in Nat
        /\ off + len < Capacity /\ view.at + len <= written
    BY <1>5, CapacityAssumption DEF Sight, DirectShows, Views
  <2>2. gap \in Nat /\ len <= gap /\ written' - view.at = gap + n
    BY <1>2, <1>3, <2>1
  <2>3. view.at + len <= written'
    BY <1>2, <1>3, <2>1
  <2>4. ASSUME written' - view.at <= Capacity
        PROVE  /\ tail' = Advance(off, gap + n)
               /\ \A i \in 1 .. len : buffer'[off + i - 1] = promised[i]
    <3>1. gap + n <= Capacity /\ gap <= Capacity
      BY <1>3, <2>2, <2>4, CapacityAssumption
    <3>2. /\ tail = Advance(off, gap)
          /\ \A i \in 1 .. len : buffer[off + i - 1] = promised[i]
      BY <1>5, <3>1 DEF Sight, DirectShows
    <3> HIDE DEF off, len, gap
    <3>3. tail' = Advance(off, gap + n)
      BY <1>2, <1>3, <2>1, <2>2, <3>1, <3>2, AdvanceTwice
    <3>4. ASSUME NEW i \in 1 .. len
          PROVE  buffer'[off + i - 1] = buffer[off + i - 1]
      <4>1. /\ i - 1 \in Nat /\ i - 1 < gap /\ i - 1 < Capacity
            /\ off + i - 1 \in Offset /\ off + (i - 1) = off + i - 1
            /\ i - 1 \in 0 .. Capacity /\ off + (i - 1) < Capacity
        BY <2>1, <2>2, CapacityAssumption DEF Offset
      <4>2. off + i - 1 = Advance(off, i - 1)
        BY <2>1, <4>1, AdvanceOnce
      <4>3. ASSUME NEW j \in 1 .. n
            PROVE  off + i - 1 # Advance(tail, j - 1)
        <5>1. /\ j - 1 \in Nat /\ gap + (j - 1) \in Nat /\ gap + (j - 1) < Capacity
              /\ gap + (j - 1) <= Capacity /\ i - 1 # gap + (j - 1)
          BY <1>3, <2>2, <3>1, <4>1, CapacityAssumption
        <5>2. Advance(tail, j - 1) = Advance(off, gap + (j - 1))
          BY <2>1, <2>2, <3>2, <5>1, AdvanceTwice
        <5>3. QED
          BY <2>1, <4>1, <4>2, <5>1, <5>2, AdvanceInjective
      <4>4. QED
        BY <1>2, <4>1, <4>3
    <3>5. QED
      BY <3>2, <3>3, <3>4
  <2>5. DirectShows'
    BY <1>1, <2>1, <2>2, <2>3, <2>4 DEF DirectShows, Advance
  <2>6. CopyShows'
    BY <1>1, <1>5 DEF CopyShows
  <2>7. QED
    BY <1>1, <2>5, <2>6 DEF Sight
<1>6. QED
  BY <1>4, <1>5

(* What the pointer of the last read shows, in every run.                  *)
LEMMA SpecSight == Spec => []Sight
<1>1. Init => Sight
  BY NoViewSight, EmptySeq DEF Init
<1>2. RInv /\ Sight /\ [Next]_vars => Sight'
  <2> SUFFICES ASSUME RInv, Sight, [Next]_vars
               PROVE  Sight'
    OBVIOUS
  <2>1. ASSUME NEW count \in Count, ReadNothing(count)
        PROVE  Sight'
    <3>1. view' = NoView /\ promised' = << >> /\ retval' \in Seq(Bytes)
      BY <2>1 DEF ReadNothing, Sight
    <3>2. NoView \in Views
      BY CapacityAssumption DEF NoView, Views, Offset
    <3>3. QED
      BY <3>1, <3>2 DEF NoView, Sight, CopyShows, DirectShows
  <2>2. ASSUME NEW count \in Count, ReadDirect(count) \/ ReadCopied(count)
        PROVE  Sight'
    BY <2>2, ReadDirectSight, ReadCopiedSight, CapacityAssumption DEF Count
  <2>3. ASSUME NEW data \in Data, Write(data)
        PROVE  Sight'
    BY <2>3, WriteSight
  <2>4. CASE Free
    <3>1. view' = NoView /\ promised' = << >> /\ retval' = << >>
      BY <2>4 DEF Free
    <3>2. NoView \in Views
      BY CapacityAssumption DEF NoView, Views, Offset
    <3>3. QED
      BY <3>1, <3>2 DEF NoView, Sight, CopyShows, DirectShows
  <2>5. CASE UNCHANGED vars
    BY <2>5 DEF vars, Sight, CopyShows, DirectShows, Advance
  <2>6. QED
    BY <2>1, <2>2, <2>3, <2>4, <2>5 DEF Next
<1>3. QED
  BY <1>1, <1>2, SpecRInv, PTL DEF Spec

(* The pointer ce_rb_read returned shows the bytes it was returned for     *)
(* until the writer has gone a whole ring past the first of them, for      *)
(* every capacity; a gathered copy shows them until the next call.         *)
THEOREM SpecViewIntact == Spec => []ViewIntact
<1>1. RInv /\ Sight => ViewIntact
  <2> SUFFICES ASSUME Sight, view.kind = "copy" \/ written - view.at <= Capacity
               PROVE  Seen = promised
    BY DEF ViewIntact
  <2>1. /\ promised \in Seq(Bytes) /\ Len(promised) = view.len /\ view.len \in Nat
        /\ view.kind \in {"null", "direct", "copy"}
    BY CapacityAssumption DEF Sight, Views
  <2>2. \A i \in 1 .. view.len :
          promised[i] = IF view.kind = "copy" THEN retval[i] ELSE buffer[view.off + i - 1]
    BY <2>1 DEF Sight, CopyShows, DirectShows
  <2>3. promised = [i \in 1 .. view.len |-> promised[i]]
    BY <2>1
  <2>4. QED
    BY <2>2, <2>3 DEF Seen
<1>2. QED
  BY <1>1, SpecRInv, SpecSight, PTL

(* The fields of ce_rb_t stay within their ranges, for every capacity.     *)
THEOREM SpecTypeOK == Spec => []TypeOK
<1>1. Init => live \in BOOLEAN
  BY DEF Init
<1>2. live \in BOOLEAN /\ [Next]_vars => (live \in BOOLEAN)'
  BY DEF Next, ReadNothing, ReadDirect, ReadCopied, Write, Free, vars
<1>3. RInv /\ Sight /\ live \in BOOLEAN => TypeOK
  <2>1. ASSUME RInv, Sight
        PROVE  /\ buffer \in [Offset -> Bytes]
               /\ head \in Offset /\ tail \in Offset /\ wrap \in {0, 1}
               /\ retval \in Seq(Bytes) /\ view \in Views /\ promised \in Seq(Bytes)
               /\ written \in Nat /\ consumed \in Nat
    BY <2>1 DEF RInv, IInv, Counters, Memory, Sight
  <2>2. QED
    BY <2>1, Zenon DEF TypeOK
<1>4. QED
  BY <1>1, <1>2, <1>3, SpecRInv, SpecSight, PTL DEF Spec
=============================================================================
