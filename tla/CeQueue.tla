------------------------------- MODULE CeQueue -------------------------------
(***************************************************************************)
(* ce_queue.c: a queue with a mutex and one condition variable, on which   *)
(* ce_queue_get waits with or without a timeout.  Items are numbered in    *)
(* the order they are pushed.  What a thread does between taking the mutex *)
(* and releasing it is one action, except in ce_queue_get: the test that   *)
(* decides to wait and the wait, which releases the mutex, are two.        *)
(* Unqueue_Newest and its like are faulty variants of Unqueue and its like.*)
(***************************************************************************)
EXTENDS Integers, Sequences, FiniteSets

CONSTANTS Consumers,  \* the threads that call ce_queue_get
          Timeouts,   \* the timeouts they pass: "none" (0), "timed" (> 0)
                      \* and "forever" (< 0)
          MaxItems    \* bound on the calls to ce_queue_push

ASSUME ConsumersAssumption == IsFiniteSet(Consumers)
ASSUME TimeoutsAssumption == Timeouts \subseteq {"none", "timed", "forever"}
ASSUME MaxItemsAssumption == MaxItems \in Nat

VARIABLES
  queue,    \* queue->queue
  stop,     \* queue->stop
  owner,    \* where the owner is in ce_queue_destroy
  pc,       \* pc[c]: outside ce_queue_get, about to wait (it holds the
            \* mutex and has tested the queue and stop), on the condition
            \* variable, or woken and about to hold the mutex again
  timeout,  \* timeout[c]: the timeout of the call in progress
  wait_r,   \* wait_r[c]: its local variable wait_r, 0 or ETIMEDOUT
  ret,      \* ret[c]: what the last call returned
  pushed,   \* history: the number of items pushed
  taken     \* history: the items delivered through *body, in order

caller == <<pc, timeout, wait_r, ret>>
vars == <<queue, stop, owner, caller, pushed, taken>>

Waiting == {c \in Consumers : pc[c] = "waiting"}
Woken == {c \in Consumers : pc[c] = "woken"}

(* pthread_mutex_lock goes through.                                        *)
Unlocked == \A c \in Consumers : pc[c] # "tested"

ETIMEDOUT == 110

Init ==
  /\ queue = << >> /\ stop = FALSE /\ owner = "using"
  /\ pc = [c \in Consumers |-> "outside"]
  /\ timeout = [c \in Consumers |-> "none"]
  /\ wait_r = [c \in Consumers |-> 0]
  /\ ret = [c \in Consumers |-> 0]
  /\ pushed = 0 /\ taken = << >>

(* The wait of c ends, returning r.                                        *)
Wake(c, r) ==
  /\ pc' = [pc EXCEPT ![c] = "woken"]
  /\ wait_r' = [wait_r EXCEPT ![c] = r]

(* pthread_cond_signal: one of the waiting threads, if any, is woken.      *)
Signal_IfWasEmpty ==
  \/ (Waiting = {} \/ queue # << >>) /\ UNCHANGED <<pc, wait_r>>
  \/ queue = << >> /\ \E c \in Waiting : Wake(c, 0)
Signal ==
  \/ Waiting = {} /\ UNCHANGED <<pc, wait_r>>
  \/ \E c \in Waiting : Wake(c, 0)

(* ce_queue_push: append, then signal.                                     *)
Push ==
  /\ owner = "using" /\ Unlocked
  /\ pushed < MaxItems
  /\ pushed' = pushed + 1
  /\ queue' = Append(queue, pushed')
  /\ Signal
  /\ UNCHANGED <<stop, owner, timeout, ret, taken>>

(* The call returns r; its local variables are gone.                       *)
Return(c, r) ==
  /\ pc' = [pc EXCEPT ![c] = "outside"]
  /\ timeout' = [timeout EXCEPT ![c] = "none"]
  /\ wait_r' = [wait_r EXCEPT ![c] = 0]
  /\ ret' = [ret EXCEPT ![c] = r]

(* TAILQ_REMOVE of the first item.                                         *)
Unqueue_Newest == queue' = SubSeq(queue, 1, Len(queue) - 1)
Unqueue == queue' = Tail(queue)

(* The end of ce_queue_get with an item: the oldest one.                   *)
Deliver(c) ==
  /\ queue # << >>
  /\ Unqueue
  /\ taken' = Append(taken, Head(queue))
  /\ Return(c, 1)

(* The condition of the while loop, and the timeout = 0 return in it.      *)
MustWait(t) == ~stop /\ t # "none"

(* ce_queue_get up to its first return or its decision to wait.            *)
Get(c, t) ==
  /\ owner = "using" /\ Unlocked
  /\ pc[c] = "outside"
  /\ \/ Deliver(c)
     \/ /\ queue = << >>
        /\ ~MustWait(t)
        /\ Return(c, 0)
        /\ UNCHANGED <<queue, taken>>
     \/ /\ queue = << >>
        /\ MustWait(t)
        /\ pc' = [pc EXCEPT ![c] = "tested"]
        /\ timeout' = [timeout EXCEPT ![c] = t]
        /\ UNCHANGED <<queue, taken, wait_r, ret>>
  /\ UNCHANGED <<stop, owner, pushed>>

(* pthread_cond_wait or pthread_cond_timedwait: it releases the mutex.     *)
Sleep(c) ==
  /\ pc[c] = "tested"
  /\ pc' = [pc EXCEPT ![c] = "waiting"]
  /\ UNCHANGED <<queue, stop, owner, timeout, wait_r, ret, pushed, taken>>

(* pthread_cond_timedwait gives up ...                                     *)
TimeOut(c) ==
  /\ pc[c] = "waiting" /\ timeout[c] = "timed"
  /\ Wake(c, ETIMEDOUT)
  /\ UNCHANGED <<queue, stop, owner, timeout, ret, pushed, taken>>

(* ... and both waits may return without a signal.                         *)
SpuriousWake(c) ==
  /\ pc[c] = "waiting"
  /\ Wake(c, 0)
  /\ UNCHANGED <<queue, stop, owner, timeout, ret, pushed, taken>>

(* Woken, not stopped, and still nothing to deliver.                       *)
EmptyHanded_Errno(c) == wait_r[c]
EmptyHanded(c) == IF wait_r[c] # 0 THEN 0 ELSE -1

(* ce_queue_get with the mutex held again: stop first, then an item, then  *)
(* the reason of the wake-up.  No path goes round the while loop again.    *)
Resume(c) ==
  /\ pc[c] = "woken" /\ Unlocked
  /\ \/ /\ stop
        /\ Return(c, -1)
        /\ UNCHANGED <<queue, taken>>
     \/ /\ ~stop
        /\ Deliver(c)
     \/ /\ ~stop /\ queue = << >>
        /\ Return(c, EmptyHanded(c))
        /\ UNCHANGED <<queue, taken>>
  /\ UNCHANGED <<stop, owner, pushed>>

(* ce_queue_stop signals: it wakes one thread.                             *)
Stop_Unlocked ==
  /\ owner = "using"
  /\ stop' = TRUE
  /\ Signal
  /\ UNCHANGED <<queue, owner, timeout, ret, pushed, taken>>
Stop ==
  /\ owner = "using" /\ Unlocked
  /\ stop' = TRUE
  /\ Signal
  /\ UNCHANGED <<queue, owner, timeout, ret, pushed, taken>>

(* ce_queue_destroy stops the queue ...                                    *)
DestroyStop ==
  /\ owner = "using" /\ Unlocked
  /\ owner' = "destroying"
  /\ stop' = TRUE
  /\ Signal
  /\ UNCHANGED <<queue, timeout, ret, pushed, taken>>

(* ... then frees it.  Doing so while a consumer is inside ce_queue_get is *)
(* undefined, so this step stands for a caller that waited for them.       *)
DestroyFree ==
  /\ owner = "destroying"
  /\ \A c \in Consumers : pc[c] = "outside"
  /\ owner' = "gone"
  /\ UNCHANGED <<queue, stop, caller, pushed, taken>>

Next ==
  \/ Push \/ Stop \/ DestroyStop \/ DestroyFree
  \/ \E c \in Consumers :
       \/ \E t \in Timeouts : Get(c, t)
       \/ Sleep(c) \/ TimeOut(c) \/ SpuriousWake(c) \/ Resume(c)

Spec == Init /\ [][Next]_vars

(***************************************************************************)
(* A thread that is about to wait does, a woken one gets the mutex, a      *)
(* timeout expires, and a destroy that can finish does; nobody is obliged  *)
(* to call anything.                                                       *)
(***************************************************************************)
Fairness ==
  /\ WF_vars(DestroyFree)
  /\ \A c \in Consumers : WF_vars(Sleep(c)) /\ WF_vars(Resume(c)) /\ WF_vars(TimeOut(c))

FairSpec == Spec /\ Fairness

-----------------------------------------------------------------------------

(* Every field keeps to its range.                                         *)
TypeOK ==
  /\ queue \in Seq(1 .. MaxItems) /\ taken \in Seq(1 .. MaxItems)
  /\ stop \in BOOLEAN
  /\ owner \in {"using", "destroying", "gone"}
  /\ pc \in [Consumers -> {"outside", "tested", "waiting", "woken"}]
  /\ timeout \in [Consumers -> {"none", "timed", "forever"}]
  /\ wait_r \in [Consumers -> {0, ETIMEDOUT}]
  /\ ret \in [Consumers -> {-1, 0, 1}]
  /\ pushed \in 0 .. MaxItems

(***************************************************************************)
(* The items come out once each, in the order they were pushed, whichever  *)
(* consumers take them, on entry or after a wake-up.                       *)
(***************************************************************************)
Fifo == taken \o queue = [i \in 1 .. pushed |-> i]

(***************************************************************************)
(* No item waits behind a sleeping consumer: until the queue is stopped,   *)
(* if a consumer sleeps, each queued item has a woken consumer coming for  *)
(* it.  One pthread_cond_signal for each push is enough, although the      *)
(* woken consumer may find that another one stole the item.                *)
(***************************************************************************)
NoStrandedItem ==
  ~stop /\ Waiting # {} => Len(queue) <= Cardinality(Woken)

(***************************************************************************)
(* Nobody goes to sleep on a stopped queue, where no signal may ever come: *)
(* ce_queue_stop cannot set the flag between the test that ce_queue_get    *)
(* makes of it and its wait, because both need the mutex.                  *)
(***************************************************************************)
NoSleepAfterStop == [][stop => Waiting' \subseteq Waiting]_vars

(***************************************************************************)
(* An item and the consumers waiting for it come together, for as long as  *)
(* nobody calls ce_queue_stop and without relying on any timeout.          *)
(***************************************************************************)
ItemsReachConsumers ==
  queue # << >> /\ Waiting # {}
    ~> queue = << >> \/ Waiting = {} \/ stop

(***************************************************************************)
(* ce_queue_stop makes every ce_queue_get in progress return.              *)
(***************************************************************************)
StopReleasesAll ==
  \A c \in Consumers : stop ~> pc[c] = "outside"

(***************************************************************************)
(* ce_queue.h: -1 means abort.                                             *)
(***************************************************************************)
MinusOneMeansAbort == \A c \in Consumers : ret[c] = -1 => stop
=============================================================================
