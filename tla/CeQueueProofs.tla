---------------------------- MODULE CeQueueProofs ----------------------------
(***************************************************************************)
(* Proofs about ce_queue.c, for any finite set of consumers, any of the    *)
(* three kinds of timeout and any number of items.                         *)
(***************************************************************************)
EXTENDS CeQueue, FiniteSetTheorems, TLAPS

-----------------------------------------------------------------------------
(* Types *)

(* The parts of a queue that is not empty.                                 *)
LEMMA HeadTailType ==
  ASSUME NEW S, NEW q \in Seq(S), q # << >>
  PROVE  Head(q) \in S /\ Tail(q) \in Seq(S)
OBVIOUS

(* Delivering an item keeps the fields in range.                           *)
LEMMA DeliverType ==
  ASSUME TypeOK, NEW c \in Consumers, Deliver(c)
  PROVE  queue' \in Seq(1 .. MaxItems) /\ taken' \in Seq(1 .. MaxItems)
<1>1. queue \in Seq(1 .. MaxItems) /\ taken \in Seq(1 .. MaxItems) /\ queue # << >>
  BY DEF TypeOK, Deliver
<1>2. Head(queue) \in 1 .. MaxItems /\ Tail(queue) \in Seq(1 .. MaxItems)
  BY <1>1, HeadTailType
<1>3. queue' = Tail(queue) /\ taken' = Append(taken, Head(queue))
  BY DEF Deliver, Unqueue
<1>4. QED
  BY <1>1, <1>2, <1>3

(* Every call of the queue keeps the types.                                *)
LEMMA NextType == TypeOK /\ [Next]_vars => TypeOK'
<1> SUFFICES ASSUME TypeOK, [Next]_vars
             PROVE  TypeOK'
  OBVIOUS
<1> USE MaxItemsAssumption DEF TypeOK
<1>1. CASE Push
  <2>1. pushed' \in 1 .. MaxItems /\ queue' = Append(queue, pushed')
    BY <1>1 DEF Push
  <2>2. queue' \in Seq(1 .. MaxItems) /\ pushed' \in 0 .. MaxItems
    BY <2>1
  <2>3. QED
    BY <1>1, <2>2 DEF Push, Signal, Wake
<1>2. ASSUME NEW c \in Consumers, NEW t \in Timeouts, Get(c, t)
      PROVE  TypeOK'
  <2>1. t \in {"none", "timed", "forever"}
    BY TimeoutsAssumption
  <2>2. CASE Deliver(c)
    BY <1>2, <2>2, DeliverType DEF Get, Deliver, Return
  <2>3. CASE ~Deliver(c)
    BY <1>2, <2>1, <2>3 DEF Get, Return
  <2>4. QED
    BY <2>2, <2>3
<1>3. ASSUME NEW c \in Consumers, Sleep(c) \/ TimeOut(c) \/ SpuriousWake(c)
      PROVE  TypeOK'
  BY <1>3 DEF Sleep, TimeOut, SpuriousWake, Wake
<1>4. ASSUME NEW c \in Consumers, Resume(c)
      PROVE  TypeOK'
  <2>1. CASE Deliver(c)
    BY <1>4, <2>1, DeliverType DEF Resume, Deliver, Return
  <2>2. CASE ~Deliver(c)
    BY <1>4, <2>2 DEF Resume, Return, EmptyHanded
  <2>3. QED
    BY <2>1, <2>2
<1>5. CASE Stop \/ DestroyStop
  BY <1>5 DEF Stop, DestroyStop, Signal, Wake
<1>6. CASE DestroyFree \/ UNCHANGED vars
  BY <1>6 DEF DestroyFree, vars, caller
<1>7. QED
  BY <1>1, <1>2, <1>3, <1>4, <1>5, <1>6 DEF Next

(* The fields of the queue and the locals of ce_queue_get keep to their    *)
(* ranges.                                                                 *)
THEOREM SpecTypeOK == Spec => []TypeOK
<1>1. Init => TypeOK
  <2>1. << >> \in Seq(1 .. MaxItems) /\ 0 \in 0 .. MaxItems
    BY MaxItemsAssumption
  <2>2. QED
    BY <2>1 DEF Init, TypeOK
<1>2. QED
  BY <1>1, NextType, PTL DEF Spec

-----------------------------------------------------------------------------
(* The mutex *)

(* A consumer that is about to wait has tested the queue and the flag, and *)
(* as long as it holds the mutex they stay what they were.                 *)
Tested ==
  \A c \in Consumers :
    pc[c] = "tested" =>
      /\ queue = << >> /\ ~stop
      /\ \A b \in Consumers \ {c} : pc[b] # "tested"

(* What a call decides lasts until it waits.                               *)
LEMMA NextTested == TypeOK /\ Tested /\ [Next]_vars => Tested'
<1> SUFFICES ASSUME TypeOK, Tested, [Next]_vars
             PROVE  Tested'
  OBVIOUS
<1>1. CASE Push \/ Stop \/ DestroyStop
  <2>1. Unlocked
    BY <1>1 DEF Push, Stop, DestroyStop
  <2>2. ASSUME NEW c \in Consumers
        PROVE  pc'[c] # "tested"
    BY <1>1, <2>1, <2>2 DEF Push, Stop, DestroyStop, Signal, Wake, Unlocked, TypeOK
  <2>3. QED
    BY <2>2 DEF Tested
<1>2. ASSUME NEW c \in Consumers, NEW t \in Timeouts, Get(c, t)
      PROVE  Tested'
  <2>1. \A b \in Consumers : pc[b] # "tested"
    BY <1>2 DEF Get, Unlocked
  <2>2. CASE pc'[c] = "tested"
    <3>1. queue' = << >> /\ ~stop' /\ pc' = [pc EXCEPT ![c] = "tested"]
      BY <1>2, <2>2 DEF Get, Deliver, Return, MustWait, TypeOK
    <3>2. QED
      BY <2>1, <3>1 DEF Tested, TypeOK
  <2>3. CASE pc'[c] # "tested"
    <3>1. \A b \in Consumers \ {c} : pc'[b] = pc[b]
      BY <1>2 DEF Get, Deliver, Return, TypeOK
    <3>2. QED
      BY <2>1, <2>3, <3>1 DEF Tested
  <2>4. QED
    BY <2>2, <2>3
<1>3. ASSUME NEW c \in Consumers, Sleep(c) \/ TimeOut(c) \/ SpuriousWake(c)
      PROVE  Tested'
  BY <1>3 DEF Sleep, TimeOut, SpuriousWake, Wake, Tested, TypeOK
<1>4. ASSUME NEW c \in Consumers, Resume(c)
      PROVE  Tested'
  <2>1. Unlocked /\ \E r : Return(c, r)
    BY <1>4 DEF Resume, Deliver
  <2>2. QED
    BY <2>1 DEF Return, Unlocked, Tested, TypeOK
<1>5. CASE DestroyFree \/ UNCHANGED vars
  BY <1>5 DEF DestroyFree, vars, caller, Tested
<1>6. QED
  BY <1>1, <1>2, <1>3, <1>4, <1>5 DEF Next

LEMMA SpecTested == Spec => []Tested
<1>1. Init => Tested
  BY DEF Init, Tested
<1>2. QED
  BY <1>1, NextTested, SpecTypeOK, PTL DEF Spec

-----------------------------------------------------------------------------
(* No lost wake-up *)

(* A wake-up adds one to the woken consumers.                              *)
LEMMA WakeCounts ==
  ASSUME TypeOK, NEW c \in Waiting, NEW r, Wake(c, r)
  PROVE  /\ Cardinality(Woken') = Cardinality(Woken) + 1
         /\ Cardinality(Woken) \in Nat
         /\ Waiting' = Waiting \ {c}
<1>1. Woken' = Woken \cup {c} /\ c \notin Woken /\ Waiting' = Waiting \ {c}
  BY DEF TypeOK, Wake, Woken, Waiting
<1>2. IsFiniteSet(Woken)
  BY ConsumersAssumption, FS_Subset DEF Woken
<1>3. QED
  BY <1>1, <1>2, FS_AddElement, FS_CardinalityType

(* A consumer that returns takes one from them.                            *)
LEMMA ReturnCounts ==
  ASSUME TypeOK, NEW c \in Consumers, NEW r, Return(c, r)
  PROVE  /\ Cardinality(Woken') =
              Cardinality(Woken) - (IF c \in Woken THEN 1 ELSE 0)
         /\ Cardinality(Woken) \in Nat /\ Cardinality(Woken') \in Nat
         /\ Waiting' \subseteq Waiting
<1>1. Woken' = Woken \ {c} /\ Waiting' \subseteq Waiting
  BY DEF TypeOK, Return, Woken, Waiting
<1>2. IsFiniteSet(Woken) /\ IsFiniteSet(Woken')
  BY <1>1, ConsumersAssumption, FS_Subset DEF Woken
<1>3. QED
  BY <1>1, <1>2, FS_RemoveElement, FS_CardinalityType

(* Every call keeps an item and a sleeper from being left alone.           *)
LEMMA NextNoStrandedItem ==
  TypeOK /\ Tested /\ NoStrandedItem /\ [Next]_vars => NoStrandedItem'
<1> SUFFICES ASSUME TypeOK, Tested, NoStrandedItem, [Next]_vars, ~stop', Waiting' # {}
             PROVE  Len(queue') <= Cardinality(Woken')
  BY DEF NoStrandedItem
<1>0. /\ IsFiniteSet(Woken) /\ Cardinality(Woken) \in Nat
      /\ queue \in Seq(1 .. MaxItems) /\ Len(queue) \in Nat
  BY ConsumersAssumption, FS_Subset, FS_CardinalityType DEF Woken, TypeOK
<1>1. CASE Push
  <2>1. ~stop /\ Len(queue') = Len(queue) + 1
    BY <1>1, <1>0 DEF Push
  <2>2. PICK c \in Waiting : Wake(c, 0)
    BY <1>1 DEF Push, Signal, Waiting
  <2>3. QED
    BY <1>0, <2>1, <2>2, WakeCounts DEF NoStrandedItem
<1>2. ASSUME NEW c \in Consumers, NEW t \in Timeouts, Get(c, t)
      PROVE  Len(queue') <= Cardinality(Woken')
  <2>1. ~stop /\ c \notin Woken /\ c \notin Waiting
    BY <1>2 DEF Get, Woken, Waiting
  <2>2. CASE Deliver(c)
    <3>1. Return(c, 1) /\ Len(queue') = Len(queue) - 1
      BY <2>2, <1>0 DEF Deliver, Unqueue
    <3>2. QED
      BY <3>1, <2>1, <1>0, ReturnCounts DEF NoStrandedItem
  <2>3. CASE ~Deliver(c)
    <3>1. queue' = << >>
      BY <1>2, <2>3 DEF Get
    <3>2. Woken' = Woken
      BY <1>2, <2>1, <2>3 DEF Get, Return, Woken, TypeOK
    <3>3. QED
      BY <3>1, <3>2, <1>0
  <2>4. QED
    BY <2>2, <2>3
<1>3. ASSUME NEW c \in Consumers, TimeOut(c) \/ SpuriousWake(c)
      PROVE  Len(queue') <= Cardinality(Woken')
  <2>1. c \in Waiting /\ UNCHANGED <<queue, stop>> /\ \E r : Wake(c, r)
    BY <1>3 DEF TimeOut, SpuriousWake, Waiting
  <2>2. QED
    BY <2>1, <1>0, WakeCounts DEF NoStrandedItem
<1>4. ASSUME NEW c \in Consumers, Resume(c)
      PROVE  Len(queue') <= Cardinality(Woken')
  <2>1. ~stop /\ c \in Woken
    BY <1>4 DEF Resume, Woken
  <2>2. CASE Deliver(c)
    <3>1. Return(c, 1) /\ Len(queue') = Len(queue) - 1
      BY <2>2, <1>0 DEF Deliver, Unqueue
    <3>2. QED
      BY <3>1, <2>1, <1>0, ReturnCounts DEF NoStrandedItem
  <2>3. CASE ~Deliver(c)
    <3>1. Return(c, EmptyHanded(c)) /\ queue' = << >>
      BY <1>4, <2>1, <2>3 DEF Resume
    <3>2. QED
      BY <3>1, ReturnCounts
  <2>4. QED
    BY <2>2, <2>3
<1>5. CASE Stop \/ DestroyStop
  BY <1>5 DEF Stop, DestroyStop
<1>6. CASE DestroyFree \/ UNCHANGED vars
  BY <1>6 DEF DestroyFree, vars, caller, Waiting, Woken, NoStrandedItem
<1>7. ASSUME NEW c \in Consumers, Sleep(c)
      PROVE  Len(queue') <= Cardinality(Woken')
  <2>1. queue' = << >>
    BY <1>7 DEF Sleep, Tested
  <2>2. Woken' = Woken
    BY <1>7 DEF Sleep, Woken, TypeOK
  <2>3. QED
    BY <2>1, <2>2, <1>0
<1>8. QED
  BY <1>1, <1>2, <1>3, <1>4, <1>5, <1>6, <1>7 DEF Next

(***************************************************************************)
(* One pthread_cond_signal for each ce_queue_push is enough, for any       *)
(* number of consumers: while one sleeps and nobody has stopped the queue, *)
(* every queued item has a woken consumer on its way.                      *)
(***************************************************************************)
THEOREM SpecNoStrandedItem == Spec => []NoStrandedItem
<1>1. Init => NoStrandedItem
  BY DEF Init, NoStrandedItem, Waiting
<1>2. QED
  BY <1>1, NextNoStrandedItem, SpecTypeOK, SpecTested, PTL DEF Spec

-----------------------------------------------------------------------------
(* Order *)

(* Taking the head of a queue and appending it to what was taken leaves    *)
(* the concatenation of the two alone.                                     *)
LEMMA MoveHead ==
  ASSUME NEW S, NEW q \in Seq(S), q # << >>, NEW t \in Seq(S)
  PROVE  Append(t, Head(q)) \o Tail(q) = t \o q
<1> DEFINE l == Append(t, Head(q)) \o Tail(q)
           r == t \o q
<1>1. /\ Len(q) \in Nat \ {0} /\ Len(t) \in Nat
      /\ Head(q) = q[1] /\ Len(Tail(q)) = Len(q) - 1
      /\ Tail(q) \in Seq(S) /\ Append(t, Head(q)) \in Seq(S)
      /\ Len(Append(t, Head(q))) = Len(t) + 1
  OBVIOUS
<1>2. l \in Seq(S) /\ r \in Seq(S) /\ Len(l) = Len(r) /\ Len(r) = Len(t) + Len(q)
  BY <1>1
<1>3. ASSUME NEW i \in 1 .. Len(r)
      PROVE  l[i] = r[i]
  <2>1. CASE i <= Len(t)
    BY <2>1, <1>1, <1>2
  <2>2. CASE i = Len(t) + 1
    BY <2>2, <1>1, <1>2
  <2>3. CASE i > Len(t) + 1
    BY <2>3, <1>1, <1>2
  <2>4. QED
    BY <2>1, <2>2, <2>3, <1>1, <1>2
<1>4. QED
  BY <1>2, <1>3

(***************************************************************************)
(* Whichever consumers take them, on entry or after a wake-up, the items   *)
(* of ce_queue come out once each and in the order of the pushes.          *)
(***************************************************************************)
THEOREM SpecFifo == Spec => []Fifo
<1>1. Init => Fifo
  BY DEF Init, Fifo
<1>2. TypeOK /\ Fifo /\ [Next]_vars => Fifo'
  <2> SUFFICES ASSUME TypeOK, Fifo, [Next]_vars
               PROVE  Fifo'
    OBVIOUS
  <2>0. /\ queue \in Seq(1 .. MaxItems) /\ taken \in Seq(1 .. MaxItems)
        /\ queue \in Seq(Nat) /\ taken \in Seq(Nat) /\ pushed \in Nat
    BY MaxItemsAssumption DEF TypeOK
  <2>1. CASE Push
    <3>1. /\ taken' = taken /\ queue' = Append(queue, pushed + 1)
          /\ pushed' = pushed + 1
      BY <2>1 DEF Push
    <3>2. taken \o Append(queue, pushed + 1) = Append(taken \o queue, pushed + 1)
      BY <2>0
    <3>3. Append([i \in 1 .. pushed |-> i], pushed + 1)
            = [i \in 1 .. pushed + 1 |-> i]
      BY <2>0
    <3>4. QED
      BY <3>1, <3>2, <3>3 DEF Fifo
  <2>2. ASSUME NEW c \in Consumers, Deliver(c), pushed' = pushed
        PROVE  Fifo'
    <3>1. /\ queue # << >> /\ queue' = Tail(queue)
          /\ taken' = Append(taken, Head(queue)) /\ pushed' = pushed
      BY <2>2 DEF Deliver, Unqueue
    <3>2. Append(taken, Head(queue)) \o Tail(queue) = taken \o queue
      BY <2>0, <3>1, MoveHead
    <3>3. QED
      BY <3>1, <3>2 DEF Fifo
  <2>3. CASE UNCHANGED <<queue, taken, pushed>>
    BY <2>3 DEF Fifo
  <2>4. QED
    BY <2>1, <2>2, <2>3
       DEF Next, Get, Sleep, Resume, TimeOut, SpuriousWake, Stop, DestroyStop,
           DestroyFree, vars
<1>3. QED
  BY <1>1, <1>2, SpecTypeOK, PTL DEF Spec

(***************************************************************************)
(* After ce_queue_stop nobody goes to sleep any more: the stop cannot come *)
(* between the test that ce_queue_get makes of the flag and its wait, for  *)
(* it needs the mutex that the wait releases.                              *)
(***************************************************************************)
THEOREM SpecNoSleepAfterStop == Spec => NoSleepAfterStop
<1>1. TypeOK /\ Tested /\ [Next]_vars => [stop => Waiting' \subseteq Waiting]_vars
  <2> SUFFICES ASSUME TypeOK, Tested, Next, stop
               PROVE  Waiting' \subseteq Waiting
    OBVIOUS
  <2>1. CASE Push \/ Stop \/ DestroyStop
    BY <2>1 DEF Push, Stop, DestroyStop, Signal, Wake, Waiting, TypeOK
  <2>2. CASE DestroyFree
    BY <2>2 DEF DestroyFree, caller, Waiting
  <2>3. ASSUME NEW c \in Consumers, NEW t \in Timeouts, Get(c, t)
        PROVE  Waiting' \subseteq Waiting
    BY <2>3 DEF Get, Deliver, Return, Waiting, TypeOK
  <2>4. ASSUME NEW c \in Consumers, TimeOut(c) \/ SpuriousWake(c) \/ Resume(c)
        PROVE  Waiting' \subseteq Waiting
    BY <2>4 DEF TimeOut, SpuriousWake, Wake, Resume, Deliver, Return, Waiting, TypeOK
  <2>5. ASSUME NEW c \in Consumers
        PROVE  ~Sleep(c)
    BY <2>5 DEF Sleep, Tested
  <2>6. QED
    BY <2>1, <2>2, <2>3, <2>4, <2>5 DEF Next
<1>2. QED
  BY <1>1, SpecTypeOK, SpecTested, PTL DEF Spec, NoSleepAfterStop
=============================================================================
