--------------------------- MODULE ThreadPoolProofs ---------------------------
(***************************************************************************)
(* Proofs about ce_threadpool.c, for any number of threads and tasks,      *)
(* whoever registers them, and whatever the holders of handles do.         *)
(***************************************************************************)
EXTENDS ThreadPool, SequenceLemmas

(* sem_post keeps the values of the semaphores natural numbers.            *)
LEMMA SemPostType ==
  ASSUME sem \in [Tasks -> Nat], NEW t, SemPost(t)
  PROVE  sem' \in [Tasks -> Nat]
<1>1. CASE t \in Tasks
  BY <1>1 DEF SemPost
<1>2. CASE t \notin Tasks
  <2>1. sem' = sem
    BY <1>2 DEF SemPost
  <2>2. QED
    BY <2>1
<1>3. QED
  BY <1>1, <1>2

-----------------------------------------------------------------------------
(* How far ce_tp_create and ce_tp_destroy are says what threads there are. *)

(* Only the first thread is ever created: ce_tp_create waits for all of    *)
(* them before it creates the second, and goes on only if there is none.   *)
Creation ==
  /\ index \in {0, 1} /\ index <= NThreads
  /\ \A i \in Threads : i # 0 => tpc[i] = "unborn"
  /\ main = "create" /\ index = 0 => \A i \in Threads : tpc[i] = "unborn"
  /\ main = "spin" => index = 0 /\ NThreads > 0
  /\ main \notin {"create", "spin"} \/ index = 1 => index = NThreads
  /\ routines = IF \E i \in Threads : tpc[i] \notin {"unborn", "start"}
                THEN 1 ELSE 0

(* Once ce_tp_destroy has joined the threads there are no more; it holds   *)
(* a task only while it drains the queue, which it leaves empty.           *)
Shutdown ==
  /\ main \in {"drain", "gone"} => \A i \in Threads : tpc[i] = "exit"
  /\ main = "gone" => queue = << >>
  /\ hand # None => main = "drain"

(* TypeOK without its one Boolean.                                         *)
Ranges ==
  /\ main \in {"create", "spin", "ready", "poll", "abort", "join", "drain",
               "gone"}
  /\ index \in 0 .. NThreads /\ routines \in 0 .. NThreads
  /\ queue \in Seq(Tasks)
  /\ kill \in {None, "immediate", "wait"} /\ hand \in Tasks \cup {None}
  /\ tpc \in [Threads -> {"unborn", "start", "loop", "look", "wait", "taken",
                          "busy", "post", "notify", "free", "exit"}]
  /\ cur \in [Threads -> Tasks \cup {None}]
  /\ reg \in [Tasks -> {"new", "checked", "refused", "registered"}]
  /\ use \in [Tasks -> {"idle", "wait", "read", "free", "over"}]
  /\ mem \in [Tasks -> {"none", "live", "freed"}]
  /\ state \in [Tasks -> {"idle", "busy", "complete"}]
  /\ sem \in [Tasks -> Nat]

Phases == Ranges /\ Creation /\ Shutdown

(* ce_tp_create starts with no threads and an empty queue.                 *)
LEMMA InitPhases == Init => Phases
<1> SUFFICES ASSUME Init PROVE Phases
  OBVIOUS
<1>1. Ranges
  BY NThreadsAssumption, EmptySeq DEF Init, Ranges, Threads, None
<1>2. Creation /\ Shutdown
  BY NThreadsAssumption DEF Init, Creation, Shutdown, Threads, None
<1>3. QED
  BY <1>1, <1>2 DEF Phases

(* Every step goes from a phase of the pool to the next one.               *)
LEMMA NextPhases == Phases /\ [Next]_vars => Phases'
<1> SUFFICES ASSUME Phases, [Next]_vars
             PROVE  Phases'
  OBVIOUS
<1> USE NThreadsAssumption DEF mainVars, poolVars, threadVars, clientVars, taskVars, history,
    Phases, Ranges, Creation, Shutdown, Threads, None
<1>1. CASE CreateThread
  BY <1>1 DEF CreateThread, MoreToCreate
<1>2. CASE SpinDone
  BY <1>2 DEF SpinDone
<1>3. ASSUME NEW i \in Threads, Enter(i)
      PROVE  Phases'
  BY <1>3 DEF Enter
<1>4. ASSUME NEW i \in Threads, CheckAbort(i)
      PROVE  Phases'
  BY <1>4 DEF CheckAbort
<1>5. ASSUME NEW i \in Threads, Fetch(i)
      PROVE  Phases'
  <2>1. CASE queue # << >>
    <3>1. /\ queue' = Tail(queue) /\ cur' = [cur EXCEPT ![i] = Head(queue)]
          /\ tpc' = [tpc EXCEPT ![i] = "taken"]
      BY <1>5, <2>1 DEF Fetch, Unqueue
    <3>2. queue' \in Seq(Tasks) /\ Head(queue) \in Tasks
      BY <2>1, <3>1, HeadTailProperties
    <3>3. QED
      BY <1>5, <3>1, <3>2 DEF Fetch
  <2>2. CASE queue = << >>
    <3>1. PICK to \in {"wait", "exit"} : tpc' = [tpc EXCEPT ![i] = to]
      BY <1>5, <2>2 DEF Fetch
    <3>2. UNCHANGED <<queue, cur>> /\ tpc[i] = "look"
      BY <1>5, <2>2 DEF Fetch
    <3>3. UNCHANGED <<mainVars, routines, clientVars, taskVars, fault, history>>
      BY <1>5 DEF Fetch
    <3>4. QED
      BY <3>1, <3>2, <3>3
  <2>3. QED
    BY <2>1, <2>2
<1>6. ASSUME NEW i \in Threads, SpuriousWake(i)
      PROVE  Phases'
  BY <1>6 DEF SpuriousWake
<1>7. ASSUME NEW i \in Threads, Begin(i) \/ Complete(i) \/ Post(i) \/ Notify(i)
      PROVE  Phases'
  <2>1. CASE Begin(i)
    <3>1. Ranges'
      BY <2>1 DEF Begin, Work
    <3>2. Creation'
      BY <2>1 DEF Begin, Work
    <3>3. Shutdown'
      BY <2>1 DEF Begin, Work
    <3>4. QED
      BY <3>1, <3>2, <3>3
  <2>2. CASE Complete(i)
    <3>1. Ranges'
      BY <2>2 DEF Complete, Work
    <3>2. Creation'
      BY <2>2 DEF Complete, Work
    <3>3. Shutdown'
      BY <2>2 DEF Complete, Work
    <3>4. QED
      BY <3>1, <3>2, <3>3
  <2>3. CASE Post(i) \/ Notify(i)
    <3>1. sem' \in [Tasks -> Nat]
      BY <2>3, SemPostType DEF Post, Notify
    <3>2. PICK to \in {"notify", "free"} :
            /\ Work(i, tpc[i], to) /\ tpc[i] \in {"post", "notify"}
            /\ UNCHANGED <<cur, mem, state>>
      BY <2>3 DEF Post, Notify, Work
    <3>3. QED
      BY <3>1, <3>2 DEF Work
  <2>4. QED
    BY <1>7, <2>1, <2>2, <2>3
<1>8. ASSUME NEW i \in Threads, FreeOwn(i)
      PROVE  Phases'
  <2>1. Ranges'
    BY <1>8 DEF FreeOwn, Work, Free
  <2>2. Creation'
    BY <1>8 DEF FreeOwn, Work, Free
  <2>3. Shutdown'
    BY <1>8 DEF FreeOwn, Work, Free
  <2>4. QED
    BY <2>1, <2>2, <2>3
<1>9. ASSUME NEW t \in Tasks, RegisterCheck(t)
      PROVE  Phases'
  BY <1>9 DEF RegisterCheck
<1>10. ASSUME NEW t \in Tasks, RegisterInsert(t)
       PROVE  Phases'
  BY <1>10 DEF RegisterInsert, Woken, PoolLive
<1>11. ASSUME NEW t \in Tasks, Touch(t) \/ CallWait(t) \/ Awake(t) \/ ReadResult(t)
       PROVE  Phases'
  <2>1. CASE Touch(t)
    BY <2>1 DEF Touch
  <2>2. CASE CallWait(t)
    BY <2>2 DEF CallWait
  <2>3. CASE Awake(t)
    BY <2>3 DEF Awake
  <2>4. CASE ReadResult(t)
    BY <2>4 DEF ReadResult
  <2>5. QED
    BY <1>11, <2>1, <2>2, <2>3, <2>4
<1>12. ASSUME NEW t \in Tasks, Unlink(t)
       PROVE  Phases'
  BY <1>12, RemoveAtFacts DEF Unlink, SemPost, PoolLive
<1>13. ASSUME NEW t \in Tasks, Release(t)
       PROVE  Phases'
  BY <1>13 DEF Release, Free
<1>14. ASSUME NEW type \in {"immediate", "wait"}, Destroy(type)
       PROVE  Phases'
  BY <1>14 DEF Destroy, AfterDestroy
<1>15. CASE SeeEmpty
  BY <1>15 DEF SeeEmpty
<1>16. CASE SetAbort
  BY <1>16 DEF SetAbort, Woken
<1>17. CASE Join
  BY <1>17 DEF Join, AllJoined
<1>18. CASE Drop
  <2>1. queue' \in Seq(Tasks) /\ hand' \in Tasks
    BY <1>18, HeadTailProperties DEF Drop, Unqueue
  <2>2. sem' \in [Tasks -> Nat]
    BY <1>18, SemPostType DEF Drop
  <2>3. QED
    BY <1>18, <2>1, <2>2 DEF Drop
<1>19. CASE FreeDropped
  BY <1>19 DEF FreeDropped, Free
<1>20. CASE FreePool
  BY <1>20 DEF FreePool, Drained
<1>21. ASSUME NEW who, NEW t, Fault(who, t)
       PROVE  Phases'
  BY <1>21 DEF Fault
<1>22. CASE UNCHANGED vars
  BY <1>22 DEF vars
<1>23. QED
  BY <1>1, <1>2, <1>3, <1>4, <1>5, <1>6, <1>7, <1>8, <1>9, <1>10, <1>11, <1>12, <1>13,
     <1>14, <1>15, <1>16, <1>17, <1>18, <1>19, <1>20, <1>21, <1>22
     DEF Next, ThreadStep, MainStep, RegisterStep, HandleStep, Environment, Finished,
         ThreadFault, MainFault, HandleFault, RegisterFault

(* The phases of the pool, in every run.                                   *)
LEMMA SpecPhases == Spec => []Phases
BY InitPhases, NextPhases, PTL DEF Spec

-----------------------------------------------------------------------------
(* Who has a task, and in what state it then is.                           *)

Queued == ToSet(queue)
Running == {"taken", "busy", "post", "notify", "free"}

(* The memory of t is there, unless a client freed it.                     *)
Kept(t) == mem[t] = "live" \/ use[t] = "over"

HandsFull == \A i \in Threads : cur[i] # None <=> tpc[i] \in Running

Unregistered ==
  \A t \in Tasks : reg[t] # "registered" =>
    mem[t] = "none" /\ state[t] = "idle" /\ use[t] = "idle"

QueuedFresh ==
  \A t \in Queued :
    /\ reg[t] = "registered" /\ mem[t] = "live" /\ state[t] = "idle"
    /\ use[t] \notin {"free", "over"}
    /\ hand # t /\ \A i \in Threads : cur[i] # t

InHands ==
  \A i \in Threads : cur[i] # None =>
    /\ reg[cur[i]] = "registered" /\ Kept(cur[i]) /\ hand # cur[i]
    /\ state[cur[i]] = CASE tpc[i] = "taken" -> "idle"
                         [] tpc[i] = "busy" -> "busy"
                         [] OTHER -> "complete"

Dropping == hand # None => reg[hand] = "registered" /\ Kept(hand)

Custody ==
  /\ HandsFull /\ Unregistered /\ Distinct(queue) /\ QueuedFresh /\ InHands /\ Dropping

(* The queue holds nothing but tasks.                                      *)
LEMMA QueuedTasks == Phases => Queued \subseteq Tasks
<1>1. ASSUME queue \in Seq(Tasks)
      PROVE  ToSet(queue) \subseteq Tasks
  BY <1>1, LenProperties DEF ToSet
<1>2. QED
  BY <1>1 DEF Phases, Ranges, Queued

(* At most one thread holds a task: no other thread exists.                *)
LEMMA OneWorks ==
  ASSUME Phases, Custody, NEW i \in Threads, NEW j \in Threads,
         cur[i] # None, cur[j] # None
  PROVE  i = j
BY DEF Phases, Creation, Custody, HandsFull, Running, Threads

(* A thread between fetching and freeing a task owns one.                  *)
LEMMA Working ==
  ASSUME Phases, Custody, NEW i \in Threads, tpc[i] \in Running
  PROVE  /\ cur[i] \in Tasks /\ cur[i] # None
         /\ cur[i] \notin Queued /\ hand # cur[i] /\ reg[cur[i]] = "registered"
         /\ \A j \in Threads : j # i => cur[j] = None
<1>1. cur[i] \in Tasks /\ cur[i] # None
  BY TasksAssumption DEF Phases, Ranges, Custody, HandsFull
<1>2. QED
  BY <1>1, OneWorks DEF Custody, QueuedFresh, InHands

(* At first nobody owns anything.                                          *)
LEMMA InitCustody == Init => Custody
BY DEF Init, Custody, HandsFull, Unregistered, Distinct, QueuedFresh, Queued, InHands,
       Dropping, Running, ToSet, None

(* No step lets a task be owned twice, or be lost.                         *)
LEMMA NextCustody == Phases /\ Phases' /\ Custody /\ [Next]_vars => Custody'
<1> SUFFICES ASSUME Phases, Phases', Custody, [Next]_vars
             PROVE  Custody'
  OBVIOUS
<1> USE TasksAssumption
    DEF mainVars, poolVars, threadVars, clientVars, taskVars, history, Phases, Ranges,
    Custody, HandsFull, Unregistered, QueuedFresh, Queued, InHands, Dropping, Running,
    Kept, Live
<1>1. CASE CreateThread
  <2>1. \A i \in Threads : tpc[i] \in Running => i # index
    BY <1>1, NThreadsAssumption DEF CreateThread, Creation, Threads
  <2>2. \A i \in Threads : tpc'[i] \in Running <=> tpc[i] \in Running
    BY <1>1, <2>1 DEF CreateThread
  <2>3. \A i \in Threads : tpc[i] \in Running => tpc'[i] = tpc[i]
    BY <1>1, <2>1 DEF CreateThread
  <2>4. UNCHANGED <<cur, queue, hand, reg, use, mem, state>>
    BY <1>1 DEF CreateThread
  <2>5. QED
    BY <2>2, <2>3, <2>4
<1>2. CASE SpinDone
  BY <1>2 DEF SpinDone
<1>3. ASSUME NEW i \in Threads, Enter(i)
      PROVE  Custody'
  BY <1>3 DEF Enter
<1>4. ASSUME NEW i \in Threads, CheckAbort(i)
      PROVE  Custody'
  BY <1>4 DEF CheckAbort
<1>5. ASSUME NEW i \in Threads, Fetch(i)
      PROVE  Custody'
  <2>1. CASE queue # << >>
    <3>1. /\ queue' = Tail(queue) /\ cur' = [cur EXCEPT ![i] = Head(queue)]
          /\ tpc' = [tpc EXCEPT ![i] = "taken"] /\ tpc[i] = "look"
          /\ UNCHANGED <<hand, reg, use, mem, state>>
      BY <1>5, <2>1 DEF Fetch, Unqueue
    <3>2. /\ Head(queue) \in ToSet(queue) /\ Head(queue) \in Tasks
          /\ ToSet(queue') = ToSet(queue) \ {Head(queue)}
          /\ Distinct(queue')
      BY <2>1, <3>1, TailTakesHead, HeadTailProperties
    <3>3. HandsFull' /\ Unregistered' /\ Dropping'
      BY <3>1, <3>2
    <3>4. InHands'
      BY <3>1, <3>2
    <3>5. QueuedFresh'
      BY <3>1, <3>2
    <3>6. QED
      BY <3>2, <3>3, <3>4, <3>5
  <2>2. CASE queue = << >>
    <3>1. PICK to \in {"wait", "exit"} : tpc' = [tpc EXCEPT ![i] = to]
      BY <1>5, <2>2 DEF Fetch
    <3>2. UNCHANGED <<queue, cur, hand, reg, use, mem, state>> /\ tpc[i] = "look"
      BY <1>5, <2>2 DEF Fetch
    <3>3. QED
      BY <3>1, <3>2
  <2>3. QED
    BY <2>1, <2>2
<1>6. ASSUME NEW i \in Threads, SpuriousWake(i)
      PROVE  Custody'
  BY <1>6 DEF SpuriousWake
<1>7. ASSUME NEW i \in Threads, Begin(i)
      PROVE  Custody'
  <2> DEFINE t == cur[i]
  <2>1. /\ t \in Tasks /\ t # None /\ t \notin Queued /\ hand # t
        /\ reg[t] = "registered" /\ \A j \in Threads : j # i => cur[j] = None
    BY <1>7, Working DEF Begin, Work
  <2>2. /\ tpc' = [tpc EXCEPT ![i] = "busy"]
        /\ state' = [state EXCEPT ![t] = "busy"]
        /\ UNCHANGED <<cur, queue, hand, reg, use, mem>>
    BY <1>7 DEF Begin, Work
  <2> HIDE DEF t
  <2>3. HandsFull' /\ Unregistered' /\ Distinct(queue)' /\ Dropping'
    BY <1>7, <2>1, <2>2 DEF Begin, Work, t, Distinct
  <2>4. QueuedFresh'
    BY <2>1, <2>2
  <2>5. InHands'
    BY <2>1, <2>2 DEF t
  <2>6. QED
    BY <2>3, <2>4, <2>5
<1>8. ASSUME NEW i \in Threads, Complete(i)
      PROVE  Custody'
  <2> DEFINE t == cur[i]
  <2>1. /\ t \in Tasks /\ t # None /\ t \notin Queued /\ hand # t
        /\ reg[t] = "registered" /\ \A j \in Threads : j # i => cur[j] = None
    BY <1>8, Working DEF Complete, Work
  <2>2. /\ tpc' = [tpc EXCEPT ![i] = "post"]
        /\ state' = [state EXCEPT ![t] = "complete"]
        /\ UNCHANGED <<cur, queue, hand, reg, use, mem>>
    BY <1>8 DEF Complete, Work
  <2> HIDE DEF t
  <2>3. HandsFull' /\ Unregistered' /\ Distinct(queue)' /\ Dropping'
    BY <1>8, <2>1, <2>2 DEF Complete, Work, t, Distinct
  <2>4. QueuedFresh'
    BY <2>1, <2>2
  <2>5. InHands'
    BY <2>1, <2>2 DEF t
  <2>6. QED
    BY <2>3, <2>4, <2>5
<1>9. ASSUME NEW i \in Threads, Post(i) \/ Notify(i)
      PROVE  Custody'
  <2>1. PICK to \in {"notify", "free"} : tpc' = [tpc EXCEPT ![i] = to]
    BY <1>9 DEF Post, Notify, Work
  <2>2. /\ tpc[i] \in {"post", "notify"}
        /\ UNCHANGED <<cur, queue, hand, reg, use, mem, state>>
    BY <1>9 DEF Post, Notify, Work
  <2>3. QED
    BY <2>1, <2>2
<1>10. ASSUME NEW i \in Threads, FreeOwn(i)
       PROVE  Custody'
  <2> DEFINE t == cur[i]
  <2>1. /\ t \in Tasks /\ t # None /\ t \notin Queued /\ hand # t
        /\ reg[t] = "registered" /\ \A j \in Threads : j # i => cur[j] = None
    BY <1>10, Working DEF FreeOwn, Work
  <2>2. /\ tpc' = [tpc EXCEPT ![i] = "loop"]
        /\ cur' = [cur EXCEPT ![i] = None]
        /\ mem' = [mem EXCEPT ![t] = "freed"]
        /\ UNCHANGED <<queue, hand, reg, use, state>>
    BY <1>10 DEF FreeOwn, Work, Free
  <2> HIDE DEF t
  <2>3. HandsFull' /\ InHands'
    BY <2>1, <2>2
  <2>4. Unregistered' /\ Dropping'
    BY <2>1, <2>2
  <2>5. Distinct(queue)' /\ QueuedFresh'
    BY <2>1, <2>2, QueuedTasks DEF Distinct
  <2>6. QED
    BY <2>3, <2>4, <2>5
<1>11. ASSUME NEW t \in Tasks, RegisterCheck(t)
       PROVE  Custody'
  BY <1>11 DEF RegisterCheck
<1>12. ASSUME NEW t \in Tasks, RegisterInsert(t)
       PROVE  Custody'
  <2>1. /\ queue' = Append(queue, t) /\ tpc' = Woken
        /\ reg[t] = "checked" /\ reg' = [reg EXCEPT ![t] = "registered"]
        /\ mem' = [mem EXCEPT ![t] = "live"]
        /\ UNCHANGED <<cur, hand, use, state>>
    BY <1>12 DEF RegisterInsert
  <2>2. t \notin Queued
    BY <2>1
  <2>3. ToSet(queue') = ToSet(queue) \cup {t} /\ Distinct(queue')
    BY <2>1, <2>2, AppendAdds
  <2>4. HandsFull'
    BY <2>1 DEF Woken
  <2>5. Unregistered' /\ Dropping'
    BY <2>1
  <2>6. QueuedFresh'
    BY <2>1, <2>3
  <2>7. InHands'
    BY <2>1 DEF Woken
  <2>8. QED
    BY <2>3, <2>4, <2>5, <2>6, <2>7
<1>13. ASSUME NEW t \in Tasks, Touch(t)
       PROVE  Custody'
  BY <1>13 DEF Touch
<1>14. ASSUME NEW t \in Tasks, CallWait(t)
       PROVE  Custody'
  <2>1. /\ reg[t] = "registered" /\ use[t] = "idle"
        /\ use' = [use EXCEPT ![t] = "wait"]
        /\ UNCHANGED <<queue, tpc, cur, hand, reg, mem, state>>
    BY <1>14 DEF CallWait, Holding
  <2>2. HandsFull' /\ Unregistered' /\ Distinct(queue)' /\ Dropping'
    BY <2>1 DEF Distinct
  <2>3. QueuedFresh' /\ InHands'
    BY <2>1
  <2>4. QED
    BY <2>2, <2>3
<1>15. ASSUME NEW t \in Tasks, Awake(t)
       PROVE  Custody'
  BY <1>15 DEF Awake
<1>16. ASSUME NEW t \in Tasks, ReadResult(t)
       PROVE  Custody'
  BY <1>16 DEF ReadResult
<1>17. ASSUME NEW t \in Tasks, Unlink(t)
       PROVE  Custody'
  <2>1. /\ reg[t] = "registered" /\ use[t] = "idle"
        /\ use' = [use EXCEPT ![t] = "free"]
        /\ UNCHANGED <<tpc, cur, hand, reg, mem, state>>
    BY <1>17 DEF Unlink, Holding
  <2>2. ToSet(queue') = ToSet(queue) \ {t} /\ Distinct(queue')
    <3>1. CASE UNCHANGED queue /\ ~Contains(queue, t)
      <4>1. DOMAIN queue = 1 .. Len(queue)
        BY LenProperties
      <4>2. t \notin ToSet(queue)
        BY <3>1, <4>1 DEF ToSet, Contains
      <4>3. QED
        BY <3>1, <4>2 DEF Distinct
    <3>2. CASE \E k \in DOMAIN queue : queue[k] = t /\ queue' = RemoveAt(queue, k)
      BY <3>2, RemoveTakesOne
    <3>3. QED
      BY <1>17, <3>1, <3>2 DEF Unlink
  <2>3. HandsFull' /\ Unregistered' /\ Dropping'
    BY <2>1
  <2>4. QueuedFresh' /\ InHands'
    BY <2>1, <2>2
  <2>5. QED
    BY <2>2, <2>3, <2>4
<1>18. ASSUME NEW t \in Tasks, Release(t)
       PROVE  Custody'
  BY <1>18 DEF Release, Free
<1>19. ASSUME NEW type \in {"immediate", "wait"}, Destroy(type)
       PROVE  Custody'
  BY <1>19 DEF Destroy, AfterDestroy
<1>20. CASE SeeEmpty
  BY <1>20 DEF SeeEmpty
<1>21. CASE SetAbort
  BY <1>21 DEF SetAbort, Woken
<1>22. CASE Join
  BY <1>22 DEF Join, AllJoined
<1>23. CASE Drop
  <2>1. /\ hand = None /\ queue # << >> /\ queue' = Tail(queue) /\ hand' = Head(queue)
        /\ UNCHANGED <<tpc, cur, reg, use, mem, state>>
        /\ \A i \in Threads : cur[i] = None
    BY <1>23 DEF Drop, Unqueue, Shutdown
  <2>2. /\ Head(queue) \in ToSet(queue) /\ Head(queue) \in Tasks
        /\ ToSet(queue') = ToSet(queue) \ {Head(queue)}
        /\ Distinct(queue')
    BY <2>1, TailTakesHead, HeadTailProperties
  <2>3. HandsFull' /\ Unregistered' /\ InHands' /\ Dropping'
    BY <2>1, <2>2
  <2>4. QueuedFresh'
    BY <2>1, <2>2
  <2>5. QED
    BY <2>2, <2>3, <2>4
<1>24. CASE FreeDropped
  <2>1. /\ hand \in Tasks /\ hand # None /\ hand \notin Queued
        /\ \A i \in Threads : cur[i] # hand
        /\ reg[hand] = "registered"
    BY <1>24 DEF FreeDropped
  <2>2. /\ hand' = None /\ mem' = [mem EXCEPT ![hand] = "freed"]
        /\ UNCHANGED <<queue, tpc, cur, reg, use, state>>
    BY <1>24 DEF FreeDropped, Free
  <2>3. HandsFull' /\ Unregistered' /\ Distinct(queue)' /\ Dropping'
    BY <2>1, <2>2 DEF Distinct
  <2>4. QueuedFresh' /\ InHands'
    BY <2>1, <2>2, QueuedTasks
  <2>5. QED
    BY <2>3, <2>4
<1>25. CASE FreePool
  BY <1>25 DEF FreePool, Drained
<1>26. ASSUME NEW who, NEW t, Fault(who, t)
       PROVE  Custody'
  BY <1>26 DEF Fault
<1>27. CASE UNCHANGED vars
  BY <1>27 DEF vars
<1> HIDE DEF Phases, Ranges, Custody, HandsFull, Unregistered, QueuedFresh, Queued, InHands,
    Dropping, Running, Kept, Live
<1>28. QED
  BY <1>1, <1>2, <1>3, <1>4, <1>5, <1>6, <1>7, <1>8, <1>9, <1>10, <1>11,
     <1>12, <1>13, <1>14, <1>15, <1>16, <1>17, <1>18, <1>19, <1>20, <1>21,
     <1>22, <1>23, <1>24, <1>25, <1>26, <1>27
     DEF Next, ThreadStep, MainStep, RegisterStep, HandleStep, Environment, Finished,
         ThreadFault, MainFault, HandleFault, RegisterFault

(* Every task has one owner, in every run.                                 *)
LEMMA SpecCustody == Spec => [](Phases /\ Custody)
BY InitPhases, NextPhases, InitCustody, NextCustody, PTL DEF Spec

-----------------------------------------------------------------------------

(* pool->abort is a flag: tp_abort is the only one to write it.            *)
LEMMA NextAbort == abort \in BOOLEAN /\ [Next]_vars => (abort \in BOOLEAN)'
<1> SUFFICES ASSUME abort \in BOOLEAN, [Next]_vars
             PROVE  abort' \in BOOLEAN
  OBVIOUS
<1>1. UNCHANGED abort \/ SetAbort
  BY DEF Next, ThreadStep, MainStep, RegisterStep, HandleStep, Environment, Finished,
         CreateThread, SpinDone, SeeEmpty, Join, Drop, FreeDropped, FreePool, MainFault,
         Enter, CheckAbort, Fetch, ThreadFault, Begin, Complete, Post, Notify, FreeOwn,
         RegisterInsert, RegisterFault, Touch, CallWait, Awake, ReadResult, Unlink,
         Release, HandleFault, Destroy, RegisterCheck, SpuriousWake, Work, Fault,
         vars, poolVars
<1>2. QED
  BY <1>1 DEF SetAbort

(* The fields of the pool, the threads and the tasks keep to their ranges; *)
(* in particular routines never counts more threads than there are.        *)
THEOREM SpecTypeOK == Spec => []TypeOK
<1>1. Init => abort \in BOOLEAN
  BY DEF Init
<1>2. Phases /\ abort \in BOOLEAN => TypeOK
  <2>1. ASSUME Ranges, abort \in BOOLEAN
        PROVE  TypeOK
    BY <2>1, Zenon DEF Ranges, TypeOK
  <2>2. QED
    BY <2>1 DEF Phases
<1>3. QED
  BY <1>1, <1>2, NextAbort, SpecPhases, PTL DEF Spec

(* The assertion in ce_tp_worker_free holds: what is in the queue is idle, *)
(* and its memory has not been freed.                                      *)
THEOREM SpecQueuedIdle == Spec => []QueuedIdle
<1>1. Custody => QueuedIdle
  BY DEF Custody, QueuedFresh, Queued, QueuedIdle, Live
<1>2. QED
  BY <1>1, SpecCustody, PTL

(* ce_tp_create does not return from the creation of a pool of more than   *)
(* one thread: whatever the scheduler does, it is still creating the first *)
(* thread or waiting for threads it has not created.                       *)
THEOREM PoolOfManyNeverReady ==
  Spec => [](NThreads > 1 => main \in {"create", "spin"} /\ index = 0)
<1>1. Phases => (NThreads > 1 => main \in {"create", "spin"} /\ index = 0)
  BY NThreadsAssumption DEF Phases, Creation
<1>2. QED
  BY <1>1, SpecPhases, PTL
-----------------------------------------------------------------------------
(* The memory of tasks, their semaphores, what ce_tp_destroy drops and the *)
(* order of the callbacks, from where main is (Phases) and who has a task  *)
(* (Custody).                                                              *)

(* A step that runs into freed memory.                                     *)
FaultStep ==
  \/ \E i \in Threads : ThreadFault(i)
  \/ MainFault
  \/ \E t \in Tasks : HandleFault(t) \/ RegisterFault(t)

(* Only a step into freed memory sets fault.                               *)
LEMMA OnlyFaultSteps ==
  [Next]_vars => fault' = NoFaultYet \/ FaultStep \/ UNCHANGED vars
BY DEF Next, ThreadStep, MainStep, RegisterStep, HandleStep, Environment, Finished,
       CreateThread, SpinDone, SeeEmpty, SetAbort, Join, Drop, FreeDropped, FreePool,
       Enter, CheckAbort, Fetch, Begin, Complete, Post, Notify, FreeOwn, FaultStep,
       RegisterInsert, Touch, CallWait, Awake, ReadResult, Unlink, Release,
       Destroy, RegisterCheck, SpuriousWake, Work

(* The three faults of the pool itself need a task that a client freed.    *)
LEMMA ThreadFaultsFreed ==
  ASSUME Phases, Custody, NEW i \in Threads, ThreadFault(i)
  PROVE  cur[i] \in Tasks /\ use[cur[i]] = "over"
BY DEF Phases, Ranges, Shutdown, Custody, InHands, Kept, ThreadFault, Live, PoolLive

(* The drain of ce_tp_destroy meets only tasks its clients freed.          *)
LEMMA MainFaultsFreed ==
  ASSUME Phases, Custody, MainFault
  PROVE  hand \in Tasks /\ use[hand] = "over" /\ hand # None
<1>1. ASSUME queue # << >>
      PROVE  Head(queue) \in Queued
  BY <1>1, TailTakesHead DEF Phases, Ranges, Custody, Queued
<1>2. ASSUME queue # << >>
      PROVE  Live(Head(queue))
  BY <1>1, <1>2 DEF Custody, QueuedFresh, Live
<1>3. QED
  BY <1>2 DEF Phases, Ranges, Custody, Dropping, Kept, MainFault, Live

(* A thread of the pool, or ce_tp_destroy draining the queue, runs into    *)
(* freed memory only where a client called ce_tp_worker_free on the task   *)
(* it is working on.                                                       *)
THEOREM SpecPoolFaultsNeedClientFree == Spec => []PoolFaultsNeedClientFree
<1>1. Init => PoolFaultsNeedClientFree
  BY DEF Init, PoolFaultsNeedClientFree, NoFaultYet, None
<1>2. Phases /\ Custody /\ PoolFaultsNeedClientFree /\ [Next]_vars
        => PoolFaultsNeedClientFree'
  <2> SUFFICES ASSUME Phases, Custody, PoolFaultsNeedClientFree, [Next]_vars
               PROVE  PoolFaultsNeedClientFree'
    OBVIOUS
  <2>1. CASE fault' = NoFaultYet
    BY <2>1 DEF PoolFaultsNeedClientFree, NoFaultYet, None
  <2>2. ASSUME NEW i \in Threads, ThreadFault(i)
        PROVE  PoolFaultsNeedClientFree'
    BY <2>2, ThreadFaultsFreed
       DEF PoolFaultsNeedClientFree, ThreadFault, Fault, clientVars
  <2>3. CASE MainFault
    BY <2>3, MainFaultsFreed DEF PoolFaultsNeedClientFree, MainFault, Fault, clientVars
  <2>4. ASSUME NEW t \in Tasks, HandleFault(t) \/ RegisterFault(t)
        PROVE  PoolFaultsNeedClientFree'
    BY <2>4 DEF PoolFaultsNeedClientFree, HandleFault, RegisterFault, Fault
  <2>5. CASE UNCHANGED vars
    BY <2>5 DEF PoolFaultsNeedClientFree, vars, clientVars
  <2>6. QED
    BY <2>1, <2>2, <2>3, <2>4, <2>5, OnlyFaultSteps DEF FaultStep
<1>3. QED
  BY <1>1, <1>2, SpecCustody, PTL DEF Spec

-----------------------------------------------------------------------------
(* ce_tp_worker_wait *)

(* What a post of the semaphore of t stands for: t has run, or has been    *)
(* removed from the queue, or its holder is freeing it.                    *)
Settled(t) ==
  state[t] = "complete" \/ t \in unlinked \/ use[t] \in {"free", "over"}

Posted ==
  /\ got \in [Tasks -> {None, "idle", "busy", "complete", "result", "null"}]
  /\ \A t \in Tasks : sem[t] > 0 \/ use[t] = "read" => Settled(t)

(* A semaphore is only posted for a task that is complete or was dropped.  *)
LEMMA NextPosted ==
  Phases /\ Custody /\ Posted /\ WaitMeansDone /\ [Next]_vars
    => Posted' /\ WaitMeansDone'
<1> SUFFICES ASSUME Phases, Custody, Posted, WaitMeansDone, [Next]_vars
             PROVE  Posted' /\ WaitMeansDone'
  OBVIOUS
<1> USE DEF Posted, WaitMeansDone, Settled
<1>1. /\ use \in [Tasks -> {"idle", "wait", "read", "free", "over"}]
      /\ state \in [Tasks -> {"idle", "busy", "complete"}]
      /\ sem \in [Tasks -> Nat]
  BY DEF Phases, Ranges
<1>2. CASE UNCHANGED <<sem, use, state, unlinked, got>>
  BY <1>2
<1>3. ASSUME NEW i \in Threads, Begin(i) \/ Complete(i)
      PROVE  Posted' /\ WaitMeansDone'
  <2>1. /\ UNCHANGED <<sem, use, unlinked, got>>
        /\ state[cur[i]] # "complete" \/ state'[cur[i]] = "complete"
        /\ \A t \in Tasks : t # cur[i] => state'[t] = state[t]
    <3>1. CASE Begin(i)
      <4>1. cur[i] \in Tasks /\ state[cur[i]] = "idle"
        BY <3>1, Working DEF Begin, Work, Running, Custody, InHands
      <4>2. QED
        BY <1>1, <3>1, <4>1 DEF Begin, Work, clientVars
    <3>2. CASE Complete(i)
      <4>1. cur[i] \in Tasks
        BY <3>2, Working DEF Complete, Work, Running
      <4>2. QED
        BY <1>1, <3>2, <4>1 DEF Complete, Work, clientVars
    <3>3. QED
      BY <1>3, <3>1, <3>2
  <2>2. QED
    BY <2>1
<1>4. ASSUME NEW i \in Threads, Post(i) \/ Notify(i)
      PROVE  Posted' /\ WaitMeansDone'
  <2>1. cur[i] \in Tasks /\ state[cur[i]] = "complete"
    BY <1>4, Working DEF Post, Notify, Work, Running, Custody, InHands
  <2>2. UNCHANGED <<use, state, unlinked, got>> /\ SemPost(cur[i])
    BY <1>4 DEF Post, Notify, Work, clientVars
  <2>3. QED
    BY <1>1, <2>1, <2>2 DEF SemPost
<1>5. ASSUME NEW t \in Tasks, CallWait(t)
      PROVE  Posted' /\ WaitMeansDone'
  <2>1. use[t] = "idle" /\ use' = [use EXCEPT ![t] = "wait"]
        /\ UNCHANGED <<sem, state, unlinked, got>>
    BY <1>5 DEF CallWait, taskVars, history
  <2>2. QED
    BY <1>1, <2>1
<1>6. ASSUME NEW t \in Tasks, Awake(t)
      PROVE  Posted' /\ WaitMeansDone'
  <2>1. /\ use[t] = "wait" /\ sem[t] > 0
        /\ sem' = [sem EXCEPT ![t] = @ - 1] /\ use' = [use EXCEPT ![t] = "read"]
        /\ UNCHANGED <<state, unlinked, got>>
    BY <1>6 DEF Awake, history
  <2>2. QED
    BY <1>1, <2>1
<1>7. ASSUME NEW t \in Tasks, ReadResult(t)
      PROVE  Posted' /\ WaitMeansDone'
  <2>1. /\ use[t] = "read" /\ use' = [use EXCEPT ![t] = "idle"]
        /\ UNCHANGED <<sem, state, unlinked>>
    BY <1>7 DEF ReadResult, taskVars, history
  <2>2. state[t] = "complete" \/ t \in unlinked
    BY <2>1
  <2>3. /\ \A u \in Tasks : u # t => got'[u] = got[u]
        /\ got'[t] = "null" => state[t] # "complete"
    <3>1. ReadResult(t) => got' = [got EXCEPT ![t] =
                              IF state[t] = "complete" THEN "result" ELSE "null"]
      BY DEF ReadResult
    <3>2. \A u \in Tasks : u # t => got'[u] = got[u]
      BY <1>7, <3>1
    <3>3. ASSUME got'[t] = "null", state[t] = "complete"
          PROVE  FALSE
      BY <1>7, <3>1, <3>3
    <3>4. QED
      BY <3>2, <3>3
  <2>4. got' \in [Tasks -> {None, "idle", "busy", "complete", "result", "null"}]
    BY <1>7 DEF ReadResult
  <2>5. QED
    BY <1>1, <2>1, <2>2, <2>3, <2>4
<1>8. ASSUME NEW t \in Tasks, Touch(t)
      PROVE  Posted' /\ WaitMeansDone'
  <2>1. /\ got' = [got EXCEPT ![t] = state[t]]
        /\ state[t] \in {"idle", "busy", "complete"}
        /\ UNCHANGED <<sem, use, state, unlinked>>
    BY <1>1, <1>8 DEF Touch, taskVars, history
  <2>2. QED
    BY <2>1
<1>9. ASSUME NEW t \in Tasks, Unlink(t) \/ Release(t)
      PROVE  Posted' /\ WaitMeansDone'
  <2>1. /\ UNCHANGED <<state, got>> /\ unlinked \subseteq unlinked'
        /\ use'[t] \in {"free", "over"}
        /\ \A u \in Tasks : u # t => use'[u] = use[u] /\ sem'[u] = sem[u]
    BY <1>1, <1>9 DEF Unlink, Release, SemPost, history
  <2>2. QED
    BY <2>1
<1>10. CASE Drop
  <2>1. /\ hand' \in unlinked' /\ unlinked \subseteq unlinked'
        /\ UNCHANGED <<use, state, got>>
        /\ \A u \in Tasks : u # hand' => sem'[u] = sem[u]
    BY <1>1, <1>10 DEF Drop, SemPost, clientVars
  <2>2. QED
    BY <2>1
<1>11. QED
  BY <1>2, <1>3, <1>4, <1>5, <1>6, <1>7, <1>8, <1>9, <1>10
     DEF Next, ThreadStep, MainStep, RegisterStep, HandleStep, Environment, Finished,
         CreateThread, SpinDone, SeeEmpty, SetAbort, Join, FreeDropped, FreePool,
         Enter, CheckAbort, Fetch, FreeOwn, Work, RegisterInsert, Destroy,
         RegisterCheck, SpuriousWake, ThreadFault, MainFault, HandleFault,
         RegisterFault, Fault, vars, clientVars, taskVars, history

(* ce_tp_worker_wait returns NULL only for a task that was dropped unrun.  *)
THEOREM SpecWaitMeansDone == Spec => []WaitMeansDone
<1>1. Init => Posted /\ WaitMeansDone
  BY DEF Init, Posted, WaitMeansDone, None
<1>2. QED
  BY <1>1, NextPosted, SpecCustody, PTL DEF Spec

-----------------------------------------------------------------------------
(* ce_tp_destroy *)

(* Nothing is unlinked before main drains the queue; once tp_kill_wait has *)
(* seen an empty queue, all that is in it was inserted later.              *)
WaitedFor ==
  "free" \notin Uses =>
    /\ main \notin {"drain", "gone"} => unlinked = {}
    /\ main \in {"create", "spin", "ready"} => kill = None
    /\ kill = "wait" => unlinked \subseteq late
    /\ kill = "wait" /\ main # "poll" => Queued \subseteq late

(* What tp_kill_wait leaves in the queue came after its last look.         *)
LEMMA NextWaitedFor ==
  Phases /\ Custody /\ WaitedFor /\ [Next]_vars => WaitedFor'
<1> SUFFICES ASSUME Phases, Custody, WaitedFor, [Next]_vars, "free" \notin Uses
             PROVE  WaitedFor'
  BY DEF WaitedFor
<1> USE DEF WaitedFor
<1>1. CASE UNCHANGED <<main, kill, queue, unlinked, late>>
  BY <1>1 DEF Queued, ToSet
<1>2. CASE \/ CreateThread \/ SpinDone \/ SetAbort \/ Join \/ FreePool
  BY <1>2 DEF CreateThread, SpinDone, SetAbort, Join, FreePool, Queued, ToSet, history,
              poolVars
<1>3. ASSUME NEW type \in {"immediate", "wait"}, Destroy(type)
      PROVE  WaitedFor'
  BY <1>3 DEF Destroy, AfterDestroy, history, poolVars
<1>4. CASE SeeEmpty
  BY <1>4 DEF SeeEmpty, Queued, ToSet, history, poolVars
<1>5. ASSUME NEW t \in Tasks, RegisterInsert(t)
      PROVE  WaitedFor'
  <2>1. /\ queue' = Append(queue, t) /\ UNCHANGED <<main, kill, unlinked>>
        /\ late \subseteq late'
        /\ main \in {"ready", "poll"} \/ t \in late'
    BY <1>5 DEF RegisterInsert, mainVars
  <2>2. t \notin Queued
    BY <1>5 DEF RegisterInsert, Custody, QueuedFresh
  <2>3. Queued' = Queued \cup {t}
    BY <2>1, <2>2, AppendAdds DEF Phases, Ranges, Custody, Queued
  <2>4. CASE main \in {"ready", "poll"}
    BY <2>1, <2>4 DEF None
  <2>5. CASE t \in late'
    BY <2>1, <2>3, <2>5
  <2>6. QED
    BY <2>1, <2>4, <2>5
<1>6. ASSUME NEW i \in Threads, Fetch(i)
      PROVE  WaitedFor'
  <2>1. UNCHANGED <<main, kill, unlinked, late>>
    BY <1>6 DEF Fetch, mainVars, history
  <2>2. Queued' \subseteq Queued
    <3>1. CASE queue # << >>
      BY <1>6, <3>1, TailTakesHead
         DEF Fetch, Unqueue, Phases, Ranges, Custody, Queued
    <3>2. CASE queue = << >>
      BY <1>6, <3>2 DEF Fetch, Queued, ToSet
    <3>3. QED
      BY <3>1, <3>2
  <2>3. QED
    BY <2>1, <2>2
<1>7. CASE Drop
  <2>1. /\ main = "drain" /\ UNCHANGED <<main, kill, late>>
        /\ queue # << >> /\ queue' = Tail(queue)
        /\ unlinked' = unlinked \cup {Head(queue)}
    BY <1>7 DEF Drop, Unqueue
  <2>2. Head(queue) \in Queued /\ Queued' \subseteq Queued
    BY <2>1, TailTakesHead DEF Phases, Ranges, Custody, Queued
  <2>3. QED
    BY <2>1, <2>2
<1>8. QED
  BY <1>1, <1>2, <1>3, <1>4, <1>5, <1>6, <1>7
     DEF Next, ThreadStep, MainStep, RegisterStep, HandleStep, Environment, Finished,
         FreeDropped, Begin, Complete, Post, Notify, Touch, CallWait, Awake,
         ReadResult, Unlink, Release, Enter, CheckAbort, FreeOwn, Work,
         RegisterCheck, SpuriousWake, ThreadFault, MainFault, HandleFault,
         RegisterFault, Fault, vars, mainVars, poolVars, history
(* tp_kill_wait drops a task unrun only if it was inserted after its last  *)
(* look at the queue.                                                      *)
THEOREM SpecKillWaitDropsOnlyLate == Spec => []KillWaitDropsOnlyLate
<1>1. Init => WaitedFor
  BY DEF Init, WaitedFor, None
<1>2. WaitedFor => KillWaitDropsOnlyLate
  BY DEF WaitedFor, KillWaitDropsOnlyLate
<1>3. QED
  BY <1>1, <1>2, NextWaitedFor, SpecCustody, PTL DEF Spec

(* Whoever will free the memory of a task has it: the queue, a thread, the *)
(* draining loop, or a client inside ce_tp_worker_free.                    *)
Held ==
  \A t \in Tasks : Live(t) =>
    t \in Queued \/ hand = t \/ use[t] = "free" \/ \E i \in Threads : cur[i] = t

(* A task whose memory is there has an owner who will free it.             *)
LEMMA NextHeld == Phases /\ Custody /\ Held /\ [Next]_vars => Held'
<1> SUFFICES ASSUME Phases, Custody, Held, [Next]_vars
             PROVE  Held'
  OBVIOUS
<1> USE DEF Held, Live
<1>1. /\ mem \in [Tasks -> {"none", "live", "freed"}]
      /\ cur \in [Threads -> Tasks \cup {None}]
      /\ use \in [Tasks -> {"idle", "wait", "read", "free", "over"}]
      /\ queue \in Seq(Tasks) /\ Distinct(queue)
  BY DEF Phases, Ranges, Custody
<1>2. CASE UNCHANGED <<mem, cur, hand, queue, use>>
  BY <1>2 DEF Queued, ToSet
<1>3. ASSUME NEW t \in Tasks, RegisterInsert(t)
      PROVE  Held'
  <2>1. /\ mem' = [mem EXCEPT ![t] = "live"] /\ queue' = Append(queue, t)
        /\ UNCHANGED <<cur, hand, use>>
    BY <1>3 DEF RegisterInsert, mainVars
  <2>2. t \notin Queued
    BY <1>3 DEF RegisterInsert, Custody, QueuedFresh
  <2>3. Queued' = Queued \cup {t}
    BY <1>1, <2>1, <2>2, AppendAdds DEF Queued
  <2>4. QED
    BY <1>1, <2>1, <2>3
<1>4. ASSUME NEW i \in Threads, Fetch(i), queue # << >>
      PROVE  Held'
  <2>1. /\ queue' = Tail(queue) /\ cur' = [cur EXCEPT ![i] = Head(queue)]
        /\ tpc[i] = "look" /\ UNCHANGED <<mem, hand, use>>
    BY <1>4 DEF Fetch, Unqueue, mainVars, clientVars, taskVars
  <2>2. cur[i] = None
    BY <2>1 DEF Custody, HandsFull, Running
  <2>3. Queued' = Queued \ {Head(queue)}
    BY <1>1, <1>4, <2>1, TailTakesHead DEF Queued
  <2>4. cur'[i] = Head(queue) /\ \A j \in Threads : j # i => cur'[j] = cur[j]
    BY <1>1, <2>1
  <2>5. QED
    BY <2>1, <2>2, <2>3, <2>4, TasksAssumption
<1>5. ASSUME NEW i \in Threads, FreeOwn(i)
      PROVE  Held'
  <2>1. /\ mem' = [mem EXCEPT ![cur[i]] = "freed"] /\ cur' = [cur EXCEPT ![i] = None]
        /\ UNCHANGED <<hand, queue, use>>
    BY <1>5 DEF FreeOwn, Work, Free, mainVars, poolVars, clientVars
  <2>2. /\ \A j \in Threads : j # i => cur'[j] = cur[j]
        /\ \A t \in Tasks : mem'[t] = "live" => mem[t] = "live" /\ t # cur[i]
    BY <1>1, <2>1
  <2>3. QED
    BY <2>1, <2>2 DEF Queued, ToSet
<1>6. ASSUME NEW t \in Tasks, CallWait(t) \/ Awake(t) \/ ReadResult(t)
      PROVE  Held'
  <2>1. /\ UNCHANGED <<mem, cur, hand, queue>>
        /\ \A u \in Tasks : use[u] = "free" => use'[u] = "free"
    BY <1>1, <1>6
       DEF CallWait, Awake, ReadResult, mainVars, poolVars, threadVars, taskVars
  <2>2. QED
    BY <2>1 DEF Queued, ToSet
<1>7. ASSUME NEW t \in Tasks, Unlink(t)
      PROVE  Held'
  <2>1. /\ use' = [use EXCEPT ![t] = "free"] /\ UNCHANGED <<mem, cur, hand>>
    BY <1>7 DEF Unlink, mainVars, threadVars
  <2>2. Queued \subseteq Queued' \cup {t}
    <3>1. CASE UNCHANGED queue
      BY <3>1 DEF Queued, ToSet
    <3>2. CASE \E k \in DOMAIN queue : queue[k] = t /\ queue' = RemoveAt(queue, k)
      BY <1>1, <3>2, RemoveTakesOne DEF Queued
    <3>3. QED
      BY <1>7, <3>1, <3>2 DEF Unlink
  <2>3. QED
    BY <1>1, <2>1, <2>2
<1>8. ASSUME NEW t \in Tasks, Release(t)
      PROVE  Held'
  <2>1. /\ mem' = [mem EXCEPT ![t] = "freed"] /\ use' = [use EXCEPT ![t] = "over"]
        /\ UNCHANGED <<cur, hand, queue>>
    BY <1>8 DEF Release, Free, mainVars, poolVars, threadVars
  <2>2. QED
    BY <1>1, <2>1 DEF Queued, ToSet
<1>9. CASE Drop
  <2>1. /\ hand = None /\ queue # << >> /\ queue' = Tail(queue) /\ hand' = Head(queue)
        /\ UNCHANGED <<mem, cur, use>>
    BY <1>9 DEF Drop, Unqueue, threadVars, clientVars
  <2>2. Queued' = Queued \ {Head(queue)}
    BY <1>1, <2>1, TailTakesHead DEF Queued
  <2>3. QED
    BY <2>1, <2>2, TasksAssumption
<1>10. CASE FreeDropped
  <2>1. /\ mem' = [mem EXCEPT ![hand] = "freed"] /\ UNCHANGED <<cur, queue, use>>
    BY <1>10 DEF FreeDropped, Free, poolVars, threadVars, clientVars
  <2>2. QED
    BY <1>1, <2>1 DEF Queued, ToSet
<1>11. QED
  BY <1>2, <1>3, <1>4, <1>5, <1>6, <1>7, <1>8, <1>9, <1>10
     DEF Next, ThreadStep, MainStep, RegisterStep, HandleStep, Environment, Finished,
         CreateThread, SpinDone, SeeEmpty, SetAbort, Join, FreePool,
         Enter, CheckAbort, Fetch, Begin, Complete, Post, Notify, Work, Destroy,
         RegisterCheck, SpuriousWake, Touch, ThreadFault, MainFault, HandleFault,
         RegisterFault, Fault, vars, mainVars, poolVars, threadVars, clientVars,
         taskVars

(* When ce_tp_destroy has returned, the only tasks whose memory is still   *)
(* there are those a client is in the middle of freeing.                   *)
THEOREM GoneLeavesOnlyFreeing ==
  Spec => [](main = "gone" => \A t \in Tasks : Live(t) => use[t] = "free")
<1>1. Init => Held
  BY DEF Init, Held, Live
<1>2. Phases /\ Custody /\ Held
        => (main = "gone" => \A t \in Tasks : Live(t) => use[t] = "free")
  <2> SUFFICES ASSUME Phases, Custody, Held, main = "gone", NEW t \in Tasks, Live(t)
               PROVE  use[t] = "free"
    OBVIOUS
  <2>1. Queued = {} /\ hand = None /\ \A i \in Threads : cur[i] = None
    BY DEF Phases, Shutdown, Custody, HandsFull, Running, Queued, ToSet
  <2>2. QED
    BY <2>1, TasksAssumption DEF Held
<1>3. QED
  BY <1>1, <1>2, NextHeld, SpecCustody, PTL DEF Spec

-----------------------------------------------------------------------------
(* A pool whose clients forget their handles, as ce_io.c does              *)

(* What can have been done with a handle.                                  *)
Usage ==
  \A t \in Tasks : use[t] = "idle" \/ (IF use[t] \in {"wait", "read"} THEN "wait" \in Uses
                                                                    ELSE "free" \in Uses)

(* A client does with a handle only what it is assumed to do.              *)
LEMMA NextUsage == Phases /\ Usage /\ [Next]_vars => Usage'
<1> SUFFICES ASSUME Phases, Usage, [Next]_vars
             PROVE  Usage'
  OBVIOUS
<1> USE DEF Usage
<1>1. use \in [Tasks -> {"idle", "wait", "read", "free", "over"}]
  BY DEF Phases, Ranges
<1>2. CASE UNCHANGED use
  BY <1>2
<1>3. ASSUME NEW t \in Tasks, CallWait(t) \/ Awake(t) \/ ReadResult(t)
      PROVE  Usage'
  BY <1>1, <1>3 DEF CallWait, Awake, ReadResult
<1>4. ASSUME NEW t \in Tasks, Unlink(t) \/ Release(t)
      PROVE  Usage'
  BY <1>1, <1>4 DEF Unlink, Release
<1>5. QED
  BY <1>2, <1>3, <1>4
     DEF Next, ThreadStep, MainStep, RegisterStep, HandleStep, Environment, Finished,
         CreateThread, SpinDone, SeeEmpty, SetAbort, Join, Drop, FreeDropped, FreePool,
         Enter, CheckAbort, Fetch, Begin, Complete, Post, Notify, FreeOwn, Work,
         RegisterInsert, Destroy, RegisterCheck, SpuriousWake, Touch, ThreadFault,
         MainFault, HandleFault, RegisterFault, Fault, vars, clientVars

(* Clients keep to their uses in every run.                                *)
LEMMA SpecUsage == Spec => []Usage
<1>1. Init => Usage
  BY DEF Init, Usage
<1>2. QED
  BY <1>1, NextUsage, SpecPhases, PTL DEF Spec

(* If no client calls ce_tp_worker_free, every task is freed when          *)
(* ce_tp_destroy has returned: by the thread that ran it or by the drain.  *)
THEOREM SpecNothingLeft ==
  ASSUME "free" \notin Uses
  PROVE  Spec => []NothingLeft
<1>1. Usage /\ (main = "gone" => \A t \in Tasks : Live(t) => use[t] = "free")
        => NothingLeft
  BY DEF Usage, NothingLeft
<1>2. QED
  BY <1>1, SpecUsage, GoneLeavesOnlyFreeing, PTL

(* Whoever passed the entry test of ce_tp_worker_register is still there:  *)
(* clients before ce_tp_destroy is called, callbacks while they run.       *)
Callers ==
  ~Late => \A t \in Tasks : reg[t] = "checked" =>
    IF SpawnedBy[t] = Client THEN main = "ready"
    ELSE \E i \in Threads : tpc[i] = "busy" /\ cur[i] = SpawnedBy[t]

(* Without late registrations only callbacks register during destroy.      *)
LEMMA NextCallers == Phases /\ Custody /\ Callers /\ [Next]_vars => Callers'
<1> SUFFICES ASSUME Phases, Custody, Callers, [Next]_vars, ~Late
             PROVE  Callers'
  BY DEF Callers
<1> USE DEF Callers
<1>1. /\ reg \in [Tasks -> {"new", "checked", "refused", "registered"}]
      /\ tpc \in [Threads -> {"unborn", "start", "loop", "look", "wait", "taken",
                              "busy", "post", "notify", "free", "exit"}]
      /\ cur \in [Threads -> Tasks \cup {None}]
  BY DEF Phases, Ranges
<1>2. ASSUME UNCHANGED reg, main' = main \/ main # "ready",
             \A i \in Threads : tpc[i] = "busy" => tpc'[i] = "busy" /\ cur'[i] = cur[i]
      PROVE  Callers'
  BY <1>2
<1>3. ASSUME NEW i \in Threads, tpc[i] # "busy", UNCHANGED <<reg, main>>,
             \A j \in Threads : j # i => tpc'[j] = tpc[j] /\ cur'[j] = cur[j]
      PROVE  Callers'
  BY <1>2, <1>3
<1>4. CASE CreateThread
  <2>1. \A i \in Threads : tpc[i] = "busy" => i # index
    BY <1>4, NThreadsAssumption
       DEF CreateThread, MoreToCreate, Phases, Ranges, Creation, Threads
  <2>2. \A i \in Threads : tpc[i] = "busy" => tpc'[i] = "busy"
    BY <1>1, <1>4, <2>1 DEF CreateThread
  <2>3. QED
    BY <1>2, <1>4, <2>2 DEF CreateThread, clientVars
<1>5. CASE SpinDone \/ SeeEmpty \/ Join \/ Drop \/ FreeDropped \/ FreePool
  BY <1>2, <1>5
     DEF SpinDone, SeeEmpty, Join, Drop, FreeDropped, FreePool, threadVars, clientVars
<1>6. CASE SetAbort
  BY <1>2, <1>6 DEF SetAbort, Woken, clientVars
<1>7. ASSUME NEW type, Destroy(type)
      PROVE  Callers'
  BY <1>7 DEF Destroy, clientVars, threadVars
<1>8. ASSUME NEW i \in Threads,
             \/ Enter(i) \/ CheckAbort(i) \/ Fetch(i) \/ SpuriousWake(i)
             \/ Begin(i) \/ Post(i) \/ Notify(i) \/ FreeOwn(i)
      PROVE  Callers'
  <2>1. tpc[i] # "busy" /\ UNCHANGED <<reg, main>>
    BY <1>8
       DEF Enter, CheckAbort, Fetch, SpuriousWake, Begin, Post, Notify, FreeOwn, Work,
           mainVars, clientVars
  <2>2. \A j \in Threads : j # i => tpc'[j] = tpc[j] /\ cur'[j] = cur[j]
    BY <1>1, <1>8
       DEF Enter, CheckAbort, Fetch, SpuriousWake, Begin, Post, Notify, FreeOwn, Work
  <2>3. QED
    BY <1>3, <2>1, <2>2
<1>9. ASSUME NEW i \in Threads, Complete(i)
      PROVE  Callers'
  <2>1. /\ tpc' = [tpc EXCEPT ![i] = "post"] /\ UNCHANGED <<reg, main, cur>>
        /\ \A t \in Tasks : SpawnedBy[t] = cur[i] => reg[t] # "checked"
    BY <1>9 DEF Complete, Work, mainVars, clientVars
  <2>2. QED
    BY <1>1, <2>1
<1>10. ASSUME NEW t \in Tasks, RegisterCheck(t)
       PROVE  Callers'
  <2>1. /\ \A u \in Tasks : u # t => reg'[u] = reg[u]
        /\ Registering(t) /\ UNCHANGED <<main, tpc, cur>>
    BY <1>1, <1>10 DEF RegisterCheck, mainVars, threadVars
  <2>2. QED
    BY <2>1 DEF Registering
<1>11. ASSUME NEW t \in Tasks, RegisterInsert(t)
       PROVE  Callers'
  <2>1. /\ \A u \in Tasks : reg'[u] = "checked" => reg[u] = "checked"
        /\ \A i \in Threads : tpc[i] = "busy" => tpc'[i] = "busy"
        /\ UNCHANGED <<main, cur>>
    BY <1>1, <1>11 DEF RegisterInsert, Woken, mainVars
  <2>2. QED
    BY <2>1
<1>12. CASE UNCHANGED <<main, reg, tpc, cur>>
  BY <1>12
<1>13. QED
  BY <1>4, <1>5, <1>6, <1>7, <1>8, <1>9, <1>10, <1>11, <1>12
     DEF Next, ThreadStep, MainStep, RegisterStep, HandleStep, Environment, Finished,
         Touch, CallWait, Awake, ReadResult, Unlink, Release, ThreadFault, MainFault,
         HandleFault, RegisterFault, Fault, vars, mainVars, threadVars, clientVars

(* The fourth fault, of a registration, needs a pool that is gone.         *)
LEMMA CallersFindThePool ==
  ASSUME Phases, Callers, ~Late, NEW t \in Tasks, reg[t] = "checked"
  PROVE  PoolLive
BY DEF Phases, Shutdown, Callers, PoolLive

(* If clients forget their handles, and do not register a task while the   *)
(* pool is destroyed, nothing ever touches a freed task or a freed pool.   *)
THEOREM SpecNoFault ==
  ASSUME Uses = {}, ~Late
  PROVE  Spec => []NoFault
<1>1. Init => NoFault /\ Callers
  BY DEF Init, NoFault, Callers
<1>2. Phases /\ Custody /\ Usage /\ Callers /\ NoFault /\ [Next]_vars => NoFault'
  <2> SUFFICES ASSUME Phases, Custody, Usage, Callers, NoFault, [Next]_vars
               PROVE  NoFault'
    OBVIOUS
  <2>1. \A t \in Tasks : use[t] = "idle"
    BY DEF Usage
  <2>2. ~(\E i \in Threads : ThreadFault(i)) /\ ~MainFault
    BY <2>1, ThreadFaultsFreed, MainFaultsFreed
  <2>3. ~(\E t \in Tasks : HandleFault(t) \/ RegisterFault(t))
    BY <2>1, CallersFindThePool DEF HandleFault, RegisterFault
  <2>4. QED
    BY <2>2, <2>3, OnlyFaultSteps DEF FaultStep, NoFault, vars
<1>3. QED
  BY <1>1, <1>2, NextCallers, SpecUsage, SpecCustody, PTL DEF Spec

-----------------------------------------------------------------------------
(* Callbacks start in the order of registration (Fifo).  The invariant     *)
(* keeps the three places a registered task can be in - started, taken by  *)
(* the thread, queued - ordered by Before, each and across.                *)


Ordered(q) == \A i, j \in DOMAIN q : i < j => Before(q[i], q[j])
Precedes(A, B) == \A a \in A, b \in B : Before(a, b)

Started == ToSet(started)
Registered == ToSet(inserted)

Histories ==
  /\ inserted \in Seq(Tasks) /\ started \in Seq(Tasks)
  /\ Distinct(inserted)
  /\ \A t \in Tasks : t \in Registered => reg[t] = "registered"

Places ==
  /\ unlinked \subseteq Registered
  /\ Started \cup Taken \cup Queued = Registered \ unlinked

Line ==
  /\ Ordered(started) /\ Ordered(queue)
  /\ Precedes(Started, Taken) /\ Precedes(Started, Queued) /\ Precedes(Taken, Queued)

Order == Histories /\ Places /\ Line

-----------------------------------------------------------------------------

(* A task that was registered before another is not that other.            *)
LEMMA BeforeIrreflexive ==
  ASSUME Histories, NEW t
  PROVE  ~Before(t, t)
<1>1. DOMAIN inserted = 1 .. Len(inserted) /\ Len(inserted) \in Nat
  BY LenProperties DEF Histories
<1>2. QED
  BY <1>1 DEF Before, Histories, Distinct

(* Registering one more task keeps the order of those that are there and   *)
(* puts the new one after them.                                            *)
LEMMA RegisteringKeepsOrder ==
  ASSUME Histories, NEW t \in Tasks, inserted' = Append(inserted, t)
  PROVE  /\ \A a, b : Before(a, b) => Before(a, b)'
         /\ \A a \in Registered : Before(a, t)'
<1>1. /\ Len(inserted) \in Nat /\ DOMAIN inserted = 1 .. Len(inserted)
      /\ DOMAIN inserted' = 1 .. Len(inserted) + 1
      /\ \A i \in 1 .. Len(inserted) : inserted'[i] = inserted[i]
      /\ inserted'[Len(inserted) + 1] = t
  BY AppendProperties, LenProperties DEF Histories
<1>2. ASSUME NEW a, NEW b, Before(a, b)
      PROVE  Before(a, b)'
  <2>1. PICK i, j \in 1 .. Len(inserted) : i < j /\ inserted[i] = a /\ inserted[j] = b
    BY <1>1, <1>2 DEF Before
  <2>2. /\ i \in DOMAIN inserted' /\ j \in DOMAIN inserted'
        /\ inserted'[i] = a /\ inserted'[j] = b
    BY <1>1, <2>1
  <2>3. QED
    BY <2>1, <2>2 DEF Before
<1>3. ASSUME NEW a \in Registered
      PROVE  Before(a, t)'
  <2>1. PICK i \in 1 .. Len(inserted) : inserted[i] = a
    BY <1>1 DEF Registered, ToSet
  <2>2. /\ i \in DOMAIN inserted' /\ Len(inserted) + 1 \in DOMAIN inserted'
        /\ i < Len(inserted) + 1 /\ inserted'[i] = a
    BY <1>1, <2>1
  <2>3. QED
    BY <1>1, <2>2 DEF Before
<1>4. QED
  BY <1>2, <1>3

(* The operations of the queue keep it in order.                           *)
LEMMA TailOrdered ==
  ASSUME NEW q \in Seq(Tasks), q # << >>, Ordered(q)
  PROVE  /\ Ordered(Tail(q)) /\ Precedes({Head(q)}, ToSet(Tail(q)))
<1>1. /\ Len(q) \in Nat \ {0} /\ DOMAIN q = 1 .. Len(q)
      /\ DOMAIN Tail(q) = 1 .. Len(q) - 1
      /\ \A i \in 1 .. Len(q) - 1 : Tail(q)[i] = q[i + 1]
      /\ Head(q) = q[1]
  BY HeadTailProperties, EmptySeq, LenProperties
<1>2. Ordered(Tail(q))
  <2>1. SUFFICES ASSUME NEW i \in 1 .. Len(q) - 1, NEW j \in 1 .. Len(q) - 1, i < j
                 PROVE  Before(q[i + 1], q[j + 1])
    BY <1>1 DEF Ordered
  <2>2. i + 1 \in DOMAIN q /\ j + 1 \in DOMAIN q /\ i + 1 < j + 1
    BY <1>1, <2>1
  <2>3. QED
    BY <2>2 DEF Ordered
<1>3. ASSUME NEW b \in ToSet(Tail(q))
      PROVE  Before(Head(q), b)
  <2>1. PICK i \in 1 .. Len(q) - 1 : q[i + 1] = b
    BY <1>1 DEF ToSet
  <2>2. 1 \in DOMAIN q /\ i + 1 \in DOMAIN q /\ 1 < i + 1
    BY <1>1
  <2>3. QED
    BY <1>1, <2>1, <2>2 DEF Ordered
<1>4. QED
  BY <1>2, <1>3 DEF Precedes

(* A new task goes behind those of an ordered line.                        *)
LEMMA AppendOrdered ==
  ASSUME NEW q \in Seq(Tasks), NEW t \in Tasks, Ordered(q), Precedes(ToSet(q), {t})
  PROVE  Ordered(Append(q, t))
<1>1. /\ Len(q) \in Nat /\ DOMAIN q = 1 .. Len(q)
      /\ DOMAIN Append(q, t) = 1 .. Len(q) + 1
      /\ \A i \in 1 .. Len(q) : Append(q, t)[i] = q[i]
      /\ Append(q, t)[Len(q) + 1] = t
  BY AppendProperties, LenProperties
<1>2. SUFFICES ASSUME NEW i \in 1 .. Len(q) + 1, NEW j \in 1 .. Len(q) + 1, i < j
               PROVE  Before(Append(q, t)[i], Append(q, t)[j])
  BY <1>1 DEF Ordered
<1>3. i \in 1 .. Len(q) /\ q[i] \in ToSet(q)
  BY <1>1, <1>2 DEF ToSet
<1>4. CASE j \in 1 .. Len(q)
  BY <1>1, <1>2, <1>3, <1>4 DEF Ordered
<1>5. CASE j = Len(q) + 1
  BY <1>1, <1>3, <1>5 DEF Precedes
<1>6. QED
  BY <1>1, <1>4, <1>5

(* An ordered line stays ordered when one of it is taken away.             *)
LEMMA RemoveOrdered ==
  ASSUME NEW q \in Seq(Tasks), NEW k \in DOMAIN q, Ordered(q)
  PROVE  Ordered(RemoveAt(q, k))
<1> DEFINE r == RemoveAt(q, k)
<1>1. /\ Len(q) \in Nat /\ DOMAIN q = 1 .. Len(q)
      /\ DOMAIN r = 1 .. Len(q) - 1
      /\ \A j \in 1 .. Len(q) - 1 : r[j] = IF j < k THEN q[j] ELSE q[j + 1]
  BY RemoveAtFacts, LenProperties
<1> HIDE DEF r
<1>2. SUFFICES ASSUME NEW i \in 1 .. Len(q) - 1, NEW j \in 1 .. Len(q) - 1, i < j
               PROVE  Before(r[i], r[j])
  BY <1>1 DEF Ordered, r
<1>3. PICK a, b \in 1 .. Len(q) : a < b /\ r[i] = q[a] /\ r[j] = q[b]
  <2>1. CASE j < k
    BY <1>1, <1>2, <2>1
  <2>2. CASE ~(j < k)
    <3>1. r[j] = q[j + 1] /\ j + 1 \in 1 .. Len(q) /\ i + 1 < j + 1 /\ i < j + 1
      BY <1>1, <1>2, <2>2
    <3>2. (r[i] = q[i] \/ r[i] = q[i + 1]) /\ i \in 1 .. Len(q) /\ i + 1 \in 1 .. Len(q)
      BY <1>1, <1>2
    <3>3. QED
      BY <3>1, <3>2
  <2>3. QED
    BY <2>1, <2>2
<1>4. QED
  BY <1>1, <1>3 DEF Ordered

(* Two parts in order, one before the other, are in order end to end.      *)
LEMMA ConcatOrdered ==
  ASSUME NEW p \in Seq(Tasks), NEW q \in Seq(Tasks), Ordered(p), Ordered(q),
         Precedes(ToSet(p), ToSet(q))
  PROVE  p \o q \in Seq(Tasks) /\ Ordered(p \o q) /\ ToSet(p \o q) = ToSet(p) \cup ToSet(q)
<1>1. /\ Len(p) \in Nat /\ DOMAIN p = 1 .. Len(p)
      /\ Len(q) \in Nat /\ DOMAIN q = 1 .. Len(q)
      /\ p \o q \in Seq(Tasks)
      /\ DOMAIN (p \o q) = 1 .. Len(p) + Len(q)
      /\ \A i \in 1 .. Len(p) + Len(q) :
           (p \o q)[i] = IF i <= Len(p) THEN p[i] ELSE q[i - Len(p)]
  BY ConcatProperties, LenProperties
<1> DEFINE r == p \o q
<1> HIDE DEF r
<1>2. \A i \in 1 .. Len(p) : i \in DOMAIN r /\ r[i] = p[i] /\ p[i] \in ToSet(p)
  BY <1>1 DEF ToSet, r
<1>3. \A i \in 1 .. Len(q) : i + Len(p) \in DOMAIN r /\ r[i + Len(p)] = q[i] /\ q[i] \in ToSet(q)
  <2>1. ASSUME NEW i \in 1 .. Len(q)
        PROVE  i + Len(p) \in DOMAIN r /\ r[i + Len(p)] = q[i]
    <3>1. /\ i + Len(p) \in 1 .. Len(p) + Len(q) /\ ~(i + Len(p) <= Len(p))
          /\ i + Len(p) - Len(p) = i
      BY <1>1
    <3>2. QED
      BY <1>1, <3>1 DEF r
  <2>2. QED
    BY <1>1, <2>1 DEF ToSet
<1>4. \A i \in DOMAIN r : i \in 1 .. Len(p) \/ \E j \in 1 .. Len(q) : i = j + Len(p)
  <2>1. ASSUME NEW i \in 1 .. Len(p) + Len(q), i \notin 1 .. Len(p)
        PROVE  i - Len(p) \in 1 .. Len(q) /\ i = (i - Len(p)) + Len(p)
    BY <1>1, <2>1
  <2>2. QED
    BY <1>1, <2>1 DEF r
<1>5. ToSet(r) = ToSet(p) \cup ToSet(q)
  <2>1. ToSet(r) \subseteq ToSet(p) \cup ToSet(q)
    <3>1. ASSUME NEW i \in DOMAIN r
          PROVE  r[i] \in ToSet(p) \cup ToSet(q)
      BY <1>2, <1>3, <1>4
    <3>2. QED
      BY <3>1 DEF ToSet
  <2>2. ToSet(p) \cup ToSet(q) \subseteq ToSet(r)
    BY <1>1, <1>2, <1>3 DEF ToSet
  <2>3. QED
    BY <2>1, <2>2
<1>6. ASSUME NEW i \in DOMAIN r, NEW j \in DOMAIN r, i < j
      PROVE  Before(r[i], r[j])
  <2>1. CASE i \in 1 .. Len(p) /\ j \in 1 .. Len(p)
    BY <1>1, <1>2, <1>6, <2>1 DEF Ordered
  <2>2. ASSUME i \in 1 .. Len(p), NEW k \in 1 .. Len(q), j = k + Len(p)
        PROVE  Before(r[i], r[j])
    BY <1>2, <1>3, <2>2 DEF Precedes
  <2>3. ASSUME NEW k \in 1 .. Len(q), i = k + Len(p), NEW m \in 1 .. Len(q), j = m + Len(p)
        PROVE  Before(r[i], r[j])
    <3>1. k < m
      BY <1>1, <1>6, <2>3
    <3>2. QED
      BY <1>1, <1>3, <2>3, <3>1 DEF Ordered
  <2>4. ~(j \in 1 .. Len(p) /\ \E k \in 1 .. Len(q) : i = k + Len(p))
    BY <1>1, <1>6
  <2>5. QED
    BY <1>4, <2>1, <2>2, <2>3, <2>4
<1>7. QED
  BY <1>1, <1>5, <1>6 DEF Ordered, r

-----------------------------------------------------------------------------

(* Each task is inserted once and started once.                            *)
LEMMA NextHistories ==
  ASSUME Phases, Custody, Histories, [Next]_vars
  PROVE  Histories'
<1>1. CASE UNCHANGED <<inserted, started>>
  <2>1. \A t \in Tasks : reg[t] = "registered" => reg'[t] = "registered"
    <3>1. ASSUME NEW t \in Tasks, RegisterCheck(t) \/ RegisterInsert(t)
          PROVE  \A u \in Tasks : reg[u] = "registered" => reg'[u] = "registered"
      BY <3>1 DEF RegisterCheck, RegisterInsert, Phases, Ranges
    <3>2. CASE UNCHANGED reg
      BY <3>2
    <3>3. QED
      BY <3>1, <3>2
         DEF Next, ThreadStep, MainStep, RegisterStep, HandleStep, Environment, Finished,
             CreateThread, SpinDone, SeeEmpty, SetAbort, Join, Drop, FreeDropped,
             FreePool, Enter, CheckAbort, Fetch, Begin, Complete, Post, Notify, FreeOwn,
             Work, Destroy, SpuriousWake, Touch, CallWait, Awake, ReadResult, Unlink,
             Release, ThreadFault, MainFault, HandleFault, RegisterFault, Fault, vars,
             clientVars
  <2>2. QED
    BY <1>1, <2>1 DEF Histories, Registered, ToSet, Distinct
<1>2. ASSUME NEW i \in Threads, Begin(i)
      PROVE  Histories'
  <2>1. /\ UNCHANGED <<inserted, reg>> /\ cur[i] \in Tasks
        /\ started' = Append(started, cur[i])
    BY <1>2, Working DEF Begin, Work, Running, clientVars
  <2>2. started' \in Seq(Tasks)
    BY <2>1, AppendProperties DEF Histories
  <2>3. QED
    BY <2>1, <2>2 DEF Histories, Registered, ToSet, Distinct
<1>3. ASSUME NEW t \in Tasks, RegisterInsert(t)
      PROVE  Histories'
  <2>1. /\ inserted' = Append(inserted, t) /\ UNCHANGED started
        /\ reg[t] # "registered" /\ reg' = [reg EXCEPT ![t] = "registered"]
    BY <1>3 DEF RegisterInsert
  <2>2. t \notin Registered
    BY <2>1 DEF Histories
  <2>3. inserted' \in Seq(Tasks) /\ Registered' = Registered \cup {t} /\ Distinct(inserted')
    BY <2>1, <2>2, AppendAdds, AppendProperties DEF Histories, Registered
  <2>4. \A u \in Tasks : u \in Registered' => reg'[u] = "registered"
    BY <2>1, <2>3 DEF Histories, Phases, Ranges
  <2>5. QED
    BY <2>1, <2>3, <2>4 DEF Histories, Distinct
<1>4. QED
  BY <1>1, <1>2, <1>3
     DEF Next, ThreadStep, MainStep, RegisterStep, HandleStep, Environment, Finished,
         CreateThread, SpinDone, SeeEmpty, SetAbort, Join, Drop, FreeDropped,
         FreePool, Enter, CheckAbort, Fetch, Complete, Post, Notify, FreeOwn,
         Work, Destroy, SpuriousWake, RegisterCheck, Touch, CallWait, Awake, ReadResult,
         Unlink, Release, ThreadFault, MainFault, HandleFault, RegisterFault, Fault, vars,
         history

(* A step that moves no task from one place to another.                    *)
LEMMA StayInPlace ==
  ASSUME Order, UNCHANGED <<inserted, started, queue, unlinked>>, Taken' = Taken
  PROVE  (Places /\ Line)'
<1>1. \A a, b : Before(a, b) => Before(a, b)'
  BY DEF Before
<1>2. UNCHANGED <<Registered, Started, Queued>>
  BY DEF Registered, Started, Queued, ToSet
<1>3. Places'
  BY <1>2 DEF Order, Places
<1>4. Line'
  BY <1>1, <1>2 DEF Order, Line, Ordered, Precedes
<1>5. QED
  BY <1>3, <1>4

(* A step of anyone but a thread leaves alone what the threads have        *)
(* taken.                                                                  *)
LEMMA SameTaken ==
  ASSUME \A i \in Threads : tpc'[i] = "taken" <=> tpc[i] = "taken",
         \A i \in Threads : tpc[i] = "taken" => cur'[i] = cur[i]
  PROVE  Taken' = Taken
<1>1. {j \in Threads : tpc'[j] = "taken"} = {j \in Threads : tpc[j] = "taken"}
  OBVIOUS
<1>2. QED
  BY <1>1 DEF Taken

(* There is one thread: what it has taken is all that is taken.            *)
LEMMA OneTaken ==
  ASSUME Phases, Custody, NEW i \in Threads, tpc[i] # "unborn"
  PROVE  Taken = IF tpc[i] = "taken" THEN {cur[i]} ELSE {}
<1>1. \A j \in Threads : tpc[j] = "taken" => j = i
  BY DEF Phases, Creation, Threads
<1>2. QED
  BY <1>1 DEF Taken

(* An inserted task is queued, taken, started or removed, and in its       *)
(* place.                                                                  *)
LEMMA NextPlaces ==
  ASSUME Phases, Custody, Order, [Next]_vars
  PROVE  (Places /\ Line)'
<1>1. /\ tpc \in [Threads -> {"unborn", "start", "loop", "look", "wait", "taken",
                              "busy", "post", "notify", "free", "exit"}]
      /\ cur \in [Threads -> Tasks \cup {None}]
      /\ queue \in Seq(Tasks) /\ Distinct(queue)
  BY DEF Phases, Ranges, Custody
<1>2. ASSUME UNCHANGED <<inserted, started, queue, unlinked, tpc, cur>>
      PROVE  (Places /\ Line)'
  BY <1>2, SameTaken, StayInPlace
<1>3. CASE CreateThread
  <2>1. index \in Threads => tpc[index] = "unborn"
    BY <1>3 DEF CreateThread, Phases, Creation, Threads
  <2>2. Taken' = Taken
    <3>1. CASE MoreToCreate
      <4>1. tpc' = [tpc EXCEPT ![index] = "start"] /\ cur' = cur
        BY <1>3, <3>1 DEF CreateThread
      <4>2. \A i \in Threads : tpc'[i] = "taken" <=> tpc[i] = "taken"
        BY <1>1, <2>1, <4>1
      <4>3. QED
        BY <4>1, <4>2, SameTaken
    <3>2. CASE ~MoreToCreate
      BY <1>3, <3>2, SameTaken DEF CreateThread
    <3>3. QED
      BY <3>1, <3>2
  <2>3. QED
    BY <1>3, <2>2, StayInPlace DEF CreateThread, poolVars, history
<1>4. ASSUME NEW i \in Threads,
             \/ Enter(i) \/ CheckAbort(i) \/ SpuriousWake(i) \/ Complete(i)
             \/ Post(i) \/ Notify(i) \/ FreeOwn(i) \/ (Fetch(i) /\ queue = << >>)
      PROVE  (Places /\ Line)'
  <2>1. PICK to \in {"loop", "look", "exit", "wait", "post", "notify", "free"} :
          tpc' = [tpc EXCEPT ![i] = to]
    BY <1>4 DEF Enter, CheckAbort, SpuriousWake, Complete, Post, Notify, FreeOwn, Fetch, Work
  <2>2. tpc[i] # "taken" /\ \A j \in Threads : j # i => cur'[j] = cur[j]
    BY <1>1, <1>4
       DEF Enter, CheckAbort, SpuriousWake, Complete, Post, Notify, FreeOwn, Fetch, Work
  <2>3. Taken' = Taken
    BY <1>1, <2>1, <2>2, SameTaken
  <2>4. UNCHANGED <<inserted, started, queue, unlinked>>
    BY <1>4
       DEF Enter, CheckAbort, SpuriousWake, Complete, Post, Notify, FreeOwn, Fetch, Work,
           poolVars, history
  <2>5. QED
    BY <2>3, <2>4, StayInPlace
<1>5. ASSUME NEW i \in Threads, Fetch(i), queue # << >>
      PROVE  (Places /\ Line)'
  <2>1. /\ queue' = Tail(queue) /\ cur' = [cur EXCEPT ![i] = Head(queue)]
        /\ tpc[i] = "look" /\ tpc' = [tpc EXCEPT ![i] = "taken"]
        /\ UNCHANGED <<inserted, started, unlinked>>
    BY <1>5 DEF Fetch, Unqueue, history
  <2>2. Taken = {} /\ Taken' = {Head(queue)}
    <3>1. \A j \in Threads : tpc[j] # "taken"
      BY <2>1 DEF Phases, Creation, Threads
    <3>2. \A j \in Threads : tpc'[j] = "taken" <=> j = i
      BY <1>1, <2>1, <3>1
    <3>3. QED
      BY <1>1, <2>1, <3>1, <3>2 DEF Taken
  <2>3. /\ Head(queue) \in Queued /\ Queued' = Queued \ {Head(queue)}
        /\ Ordered(queue)' /\ Precedes({Head(queue)}, Queued')
    <3>1. Ordered(Tail(queue)) /\ Precedes({Head(queue)}, ToSet(Tail(queue)))
      BY <1>1, <1>5, TailOrdered DEF Order, Line
    <3>2. QED
      BY <1>1, <1>5, <2>1, <3>1, TailTakesHead DEF Queued, Ordered, Precedes, Before
  <2>4. UNCHANGED <<Registered, Started>> /\ \A a, b : Before(a, b)' <=> Before(a, b)
    BY <2>1 DEF Registered, Started, ToSet, Before
  <2>5. Places'
    BY <2>1, <2>2, <2>3, <2>4 DEF Order, Places
  <2>6. Line'
    <3>1. Ordered(started)'
      BY <2>1, <2>4 DEF Order, Line, Ordered
    <3>2. Precedes(Started, Taken)' /\ Precedes(Started, Queued)'
      BY <2>2, <2>3, <2>4 DEF Order, Line, Precedes
    <3>3. Precedes(Taken, Queued)'
      BY <2>2, <2>3, <2>4 DEF Precedes
    <3>4. QED
      BY <2>3, <3>1, <3>2, <3>3 DEF Line
  <2>7. QED
    BY <2>5, <2>6
<1>6. ASSUME NEW i \in Threads, Begin(i)
      PROVE  (Places /\ Line)'
  <2>1. /\ tpc[i] = "taken" /\ tpc' = [tpc EXCEPT ![i] = "busy"]
        /\ started' = Append(started, cur[i]) /\ cur[i] \in Tasks
        /\ UNCHANGED <<inserted, queue, unlinked, cur>>
    BY <1>6, Working DEF Begin, Work, Running, poolVars
  <2>2. Taken = {cur[i]} /\ Taken' = {}
    <3>1. Taken = {cur[i]}
      BY <2>1, OneTaken
    <3>2. \A j \in Threads : tpc'[j] # "taken"
      BY <1>1, <2>1 DEF Phases, Creation, Threads
    <3>3. QED
      BY <3>1, <3>2 DEF Taken
  <2>3. /\ started \in Seq(Tasks) /\ Ordered(started) /\ Precedes(Started, {cur[i]})
        /\ Precedes({cur[i]}, Queued)
    BY <2>2 DEF Order, Histories, Line
  <2>4. Started' = Started \cup {cur[i]}
    BY <2>1, <2>3, AppendProperties, LenProperties DEF Started, ToSet
  <2>5. Ordered(Append(started, cur[i]))
    BY <2>1, <2>3, AppendOrdered DEF Started
  <2>6. UNCHANGED <<Registered, Queued>> /\ \A a, b : Before(a, b)' <=> Before(a, b)
    BY <2>1 DEF Registered, Queued, ToSet, Before
  <2>7. Places'
    BY <2>1, <2>2, <2>4, <2>6 DEF Order, Places
  <2>8. Line'
    <3>1. Ordered(started)' /\ Ordered(queue)'
      BY <2>1, <2>5, <2>6 DEF Order, Line, Ordered
    <3>2. Precedes(Started, Queued)'
      BY <2>3, <2>4, <2>6 DEF Order, Line, Precedes
    <3>3. QED
      BY <2>2, <3>1, <3>2 DEF Line, Precedes
  <2>9. QED
    BY <2>7, <2>8
<1>7. ASSUME NEW t \in Tasks, RegisterInsert(t)
      PROVE  (Places /\ Line)'
  <2>1. /\ inserted' = Append(inserted, t) /\ queue' = Append(queue, t)
        /\ reg[t] = "checked" /\ UNCHANGED <<started, unlinked, cur>>
        /\ tpc' = Woken
    BY <1>7 DEF RegisterInsert
  <2>2. Taken' = Taken
    BY <1>1, <2>1, SameTaken DEF Woken
  <2>3. t \notin Registered /\ t \notin Queued
    BY <2>1 DEF Order, Histories, Custody, QueuedFresh
  <2>4. Registered' = Registered \cup {t} /\ Queued' = Queued \cup {t} /\ Started' = Started
    <3>1. inserted \in Seq(Tasks) /\ Distinct(inserted)
      BY DEF Order, Histories
    <3>2. Registered' = Registered \cup {t}
      BY <2>1, <2>3, <3>1, AppendAdds DEF Registered
    <3>3. Queued' = Queued \cup {t}
      BY <1>1, <2>1, <2>3, AppendAdds DEF Queued
    <3>4. Started' = Started
      BY <2>1 DEF Started, ToSet
    <3>5. QED
      BY <3>2, <3>3, <3>4
  <2>5. /\ \A a, b : Before(a, b) => Before(a, b)'
        /\ \A a \in Registered : Before(a, t)'
    BY <2>1, RegisteringKeepsOrder DEF Order
  <2>6. Started \cup Taken \cup Queued \subseteq Registered
    BY DEF Order, Places
  <2>7. Places'
    BY <2>1, <2>2, <2>3, <2>4 DEF Order, Places
  <2>8. Ordered(started)'
    BY <2>1, <2>5 DEF Order, Line, Ordered
  <2>9. Ordered(queue)'
    <3>1. /\ Len(queue) \in Nat /\ DOMAIN queue = 1 .. Len(queue)
          /\ DOMAIN queue' = 1 .. Len(queue) + 1
          /\ \A i \in 1 .. Len(queue) : queue'[i] = queue[i] /\ queue[i] \in Registered
          /\ queue'[Len(queue) + 1] = t
      BY <1>1, <2>1, <2>6, AppendProperties, LenProperties DEF Queued, ToSet
    <3>2. ASSUME NEW i \in 1 .. Len(queue) + 1, NEW j \in 1 .. Len(queue) + 1, i < j
          PROVE  \E k, l \in DOMAIN inserted' :
                   k < l /\ inserted'[k] = queue'[i] /\ inserted'[l] = queue'[j]
      <4>1. i \in 1 .. Len(queue)
        BY <3>1, <3>2
      <4>2. CASE j \in 1 .. Len(queue)
        <5>1. PICK a, b : a = queue[i] /\ b = queue[j] /\ Before(a, b)
          BY <3>1, <3>2, <4>1, <4>2 DEF Order, Line, Ordered
        <5>2. Before(a, b)'
          BY <2>5, <5>1
        <5>3. QED
          BY <3>1, <4>1, <4>2, <5>1, <5>2 DEF Before
      <4>3. CASE j = Len(queue) + 1
        BY <2>5, <3>1, <4>1, <4>3 DEF Before
      <4>4. QED
        BY <3>1, <4>2, <4>3
    <3>3. QED
      BY <3>1, <3>2 DEF Ordered, Before
  <2>10. Precedes(Started, Taken)' /\ Precedes(Started, Queued)' /\ Precedes(Taken, Queued)'
    BY <2>2, <2>4, <2>5, <2>6 DEF Order, Line, Precedes
  <2>11. QED
    BY <2>7, <2>8, <2>9, <2>10 DEF Line
<1>8. ASSUME NEW t \in Tasks, Unlink(t), ~UNCHANGED <<queue, unlinked>>
      PROVE  (Places /\ Line)'
  <2>1. PICK k \in DOMAIN queue :
          queue[k] = t /\ queue' = RemoveAt(queue, k) /\ unlinked' = unlinked \cup {t}
    BY <1>8 DEF Unlink
  <2>2. UNCHANGED <<inserted, started, tpc, cur>>
    BY <1>8 DEF Unlink, threadVars
  <2>3. Queued' = Queued \ {t} /\ t \in Queued /\ Ordered(RemoveAt(queue, k))
    BY <1>1, <2>1, RemoveTakesOne, RemoveOrdered DEF Queued, ToSet, Order, Line
  <2>4. Taken' = Taken /\ UNCHANGED <<Registered, Started>>
    BY <2>2, SameTaken DEF Registered, Started, ToSet
  <2>5. \A a, b : Before(a, b)' <=> Before(a, b)
    BY <2>2 DEF Before
  <2>6. t \notin Started /\ t \notin Taken
    BY <2>3, BeforeIrreflexive DEF Order, Line, Precedes
  <2>7. Places'
    BY <2>1, <2>3, <2>4, <2>6 DEF Order, Places
  <2>8. Ordered(started)' /\ Ordered(queue)'
    BY <2>1, <2>2, <2>3, <2>5 DEF Order, Line, Ordered
  <2>9. Line'
    BY <2>3, <2>4, <2>5, <2>8 DEF Order, Line, Precedes
  <2>10. QED
    BY <2>7, <2>9
<1>9. CASE Drop
  <2>1. /\ queue # << >> /\ queue' = Tail(queue)
        /\ unlinked' = unlinked \cup {Head(queue)}
        /\ UNCHANGED <<inserted, started, tpc, cur>>
    BY <1>9 DEF Drop, Unqueue, threadVars
  <2>2. Queued' = Queued \ {Head(queue)} /\ Head(queue) \in Queued /\ Ordered(Tail(queue))
    BY <1>1, <2>1, TailTakesHead, TailOrdered DEF Queued, Order, Line
  <2>3. Taken' = Taken /\ UNCHANGED <<Registered, Started>>
    BY <2>1, SameTaken DEF Registered, Started, ToSet
  <2>4. \A a, b : Before(a, b)' <=> Before(a, b)
    BY <2>1 DEF Before
  <2>5. Head(queue) \notin Started /\ Head(queue) \notin Taken
    BY <2>2, BeforeIrreflexive DEF Order, Line, Precedes
  <2>6. Places'
    BY <2>1, <2>2, <2>3, <2>5 DEF Order, Places
  <2>7. Ordered(started)' /\ Ordered(queue)'
    BY <2>1, <2>2, <2>4 DEF Order, Line, Ordered
  <2>8. Line'
    BY <2>2, <2>3, <2>4, <2>7 DEF Order, Line, Precedes
  <2>9. QED
    BY <2>6, <2>8
<1>10. CASE SetAbort
  <2>1. Taken' = Taken
    BY <1>1, <1>10, SameTaken DEF SetAbort, Woken
  <2>2. QED
    BY <1>10, <2>1, StayInPlace DEF SetAbort, history
<1>11. QED
  BY <1>2, <1>3, <1>4, <1>5, <1>6, <1>7, <1>8, <1>9, <1>10
     DEF Next, ThreadStep, MainStep, RegisterStep, HandleStep, Environment, Finished,
         SpinDone, SeeEmpty, Join, FreeDropped, FreePool, Destroy, RegisterCheck, Touch,
         CallWait, Awake, ReadResult, Unlink, Release, ThreadFault, MainFault,
         HandleFault, RegisterFault, Fault, vars, poolVars, threadVars, history

-----------------------------------------------------------------------------

(* What the invariant says of the three places, put end to end.            *)
LEMMA OrderFifo ==
  ASSUME Phases, Custody, Order
  PROVE  Fifo
<1>1. /\ started \in Seq(Tasks) /\ queue \in Seq(Tasks)
      /\ Ordered(started) /\ Ordered(queue)
  BY DEF Phases, Ranges, Order, Histories, Line
<1>2. PICK taken \in {<< >>} \cup {<<t>> : t \in Taken} :
        taken \in Seq(Tasks) /\ ToSet(taken) = Taken /\ Ordered(taken)
  <2>1. CASE Taken = {}
    <3>1. << >> \in Seq(Tasks) /\ ToSet(<< >>) = Taken /\ Ordered(<< >>)
      BY <2>1 DEF ToSet, Ordered
    <3>2. QED
      BY <3>1
  <2>2. ASSUME NEW i \in Threads, tpc[i] = "taken"
        PROVE  /\ Taken = {cur[i]} /\ <<cur[i]>> \in Seq(Tasks)
               /\ ToSet(<<cur[i]>>) = {cur[i]} /\ Ordered(<<cur[i]>>)
    <3>1. Taken = {cur[i]} /\ cur[i] \in Tasks
      BY <2>2, OneTaken, Working DEF Running
    <3>2. QED
      BY <3>1 DEF ToSet, Ordered
  <2>3. QED
    BY <2>1, <2>2 DEF Taken
<1>3. /\ started \o taken \in Seq(Tasks) /\ Ordered(started \o taken)
      /\ ToSet(started \o taken) = Started \cup Taken
  BY <1>1, <1>2, ConcatOrdered DEF Order, Line, Started
<1>4. Precedes(ToSet(started \o taken), ToSet(queue))
  BY <1>3 DEF Order, Line, Precedes, Queued
<1>5. /\ Ordered(started \o taken \o queue)
      /\ ToSet(started \o taken \o queue) = Started \cup Taken \cup Queued
  BY <1>1, <1>3, <1>4, ConcatOrdered DEF Queued
<1>6. ToSet(started \o taken \o queue) = ToSet(inserted) \ unlinked
  BY <1>5 DEF Order, Places, Registered
<1>7. QED
  BY <1>2, <1>5, <1>6 DEF Fifo, Ordered

(* Callbacks start once per task and in the order in which the tasks were  *)
(* registered, whatever is removed from the queue meanwhile.               *)
THEOREM SpecFifo == Spec => []Fifo
<1>1. Init => Order
  BY DEF Init, Order, Histories, Places, Line, Registered, Started, Queued, Taken, ToSet,
         Distinct, Ordered, Precedes
<1>2. Phases /\ Custody /\ Order /\ [Next]_vars => Order'
  BY NextHistories, NextPlaces DEF Order
<1>3. Phases /\ Custody /\ Order => Fifo
  BY OrderFifo
<1>4. QED
  BY <1>1, <1>2, <1>3, SpecCustody, PTL DEF Spec
=============================================================================
