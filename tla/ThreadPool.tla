------------------------------ MODULE ThreadPool ------------------------------
(***************************************************************************)
(* ce_threadpool.c: a pool of NThreads pthreads that serve one TAILQ of    *)
(* tasks (`workers' in the code).  The processes are                       *)
(*   - main, the thread that calls ce_tp_create and later ce_tp_destroy;   *)
(*   - the pool threads, each in ce_tp_routine;                            *)
(*   - for each task, whoever registers it: a client thread, which keeps   *)
(*     the handle and may touch, wait for or free it, or the callback of   *)
(*     an earlier task (SpawnedBy).                                        *)
(* A critical section that does not block is one action; a read of shared  *)
(* state outside the mutex is an action of its own.                        *)
(*                                                                         *)
(* The memory of a task is tracked (mem): an access to freed memory is     *)
(* undefined behaviour, recorded in fault, after which nothing is said.    *)
(* Operators with an underscore in their name are faulty variants.         *)
(***************************************************************************)
EXTENDS Integers, Sequences, SequencesExt

CONSTANTS NThreads,   \* ce_tp_create(nthreads)
          Tasks,      \* the tasks, each registered at most once
          Client,     \* stands for the client thread in SpawnedBy
          SpawnedBy,  \* who registers a task: Client, or a task's callback
          Uses,       \* what a client does with a handle it was given
          Late        \* may clients register while the pool is destroyed?

None == "none"

ASSUME NThreadsAssumption == NThreads \in Nat
ASSUME TasksAssumption == None \notin Tasks /\ Client \notin Tasks
ASSUME SpawnAssumption == SpawnedBy \in [Tasks -> Tasks \cup {Client}]
ASSUME UsesAssumption == Uses \subseteq {"touch", "wait", "free"}
ASSUME LateAssumption == Late \in BOOLEAN

Threads == 0 .. NThreads - 1

VARIABLES
  main,      \* where main is in ce_tp_create / ce_tp_destroy
  index,     \* the loop counter of ce_tp_create
  kill,      \* the ce_tp_kill given to ce_tp_destroy
  hand,      \* the task ce_tp_destroy is dropping
  routines,  \* pool->routines
  abort,     \* pool->abort
  queue,     \* pool->worker_queue
  tpc,       \* tpc[i]: where thread i is in ce_tp_routine
  cur,       \* cur[i]: the local variable worker of thread i
  reg,       \* reg[t]: where the registration of t is
  use,       \* use[t]: where the client holding t's handle is
  got,       \* got[t]: what the client last learned from touch or wait
  mem,       \* mem[t]: is the ce_tp_worker_t of t allocated?
  state,     \* worker->state
  sem,       \* the value of worker->sem
  fault,     \* the first access to freed memory
  inserted,  \* history: the tasks in the order they were registered
  started,   \* history: the tasks in the order their callbacks started
  unlinked,  \* history: tasks removed from the queue without being run
  late       \* history: tasks inserted after tp_kill_wait saw no task

mainVars == <<main, index, kill, hand>>
poolVars == <<routines, abort, queue>>
threadVars == <<tpc, cur>>
clientVars == <<reg, use, got>>
taskVars == <<mem, state, sem>>
history == <<inserted, started, unlinked, late>>
vars == <<mainVars, poolVars, threadVars, clientVars, taskVars, fault, history>>

NoFaultYet == [by |-> None, task |-> None]

Init ==
  /\ main = "create" /\ index = 0 /\ kill = None /\ hand = None
  /\ routines = 0 /\ abort = FALSE /\ queue = << >>
  /\ tpc = [i \in Threads |-> "unborn"] /\ cur = [i \in Threads |-> None]
  /\ reg = [t \in Tasks |-> "new"] /\ use = [t \in Tasks |-> "idle"]
  /\ got = [t \in Tasks |-> None]
  /\ mem = [t \in Tasks |-> "none"]
  /\ state = [t \in Tasks |-> "idle"] /\ sem = [t \in Tasks |-> 0]
  /\ fault = NoFaultYet
  /\ inserted = << >> /\ started = << >> /\ unlinked = {} /\ late = {}

PoolLive == main # "gone"
Live(t) == mem[t] = "live"

SemPost(t) == sem' = [sem EXCEPT ![t] = @ + 1]
Free(t) == mem' = [mem EXCEPT ![t] = "freed"]

(* pthread_cond_broadcast: every waiting thread will look again.           *)
Woken_None == tpc
Woken == [i \in Threads |-> IF tpc[i] = "wait" THEN "look" ELSE tpc[i]]

-----------------------------------------------------------------------------
(* ce_tp_create *)

MoreToCreate_OneTooMany == index <= NThreads
MoreToCreate == index < NThreads

(* pthread_create for the next thread, or the end of the loop.             *)
CreateThread ==
  /\ main = "create"
  /\ IF MoreToCreate
     THEN main' = "spin" /\ tpc' = [tpc EXCEPT ![index] = "start"]
     ELSE main' = "ready" /\ UNCHANGED tpc
  /\ UNCHANGED <<index, kill, hand, poolVars, cur, clientVars, taskVars,
                 fault, history>>

(* The wait for routines to reach nthreads is inside the loop that creates *)
(* the threads.                                                            *)
SpinDone ==
  /\ main = "spin"
  /\ routines >= NThreads
  /\ index' = index + 1
  /\ main' = "create"
  /\ UNCHANGED <<kill, hand, poolVars, threadVars, clientVars, taskVars,
                 fault, history>>

-----------------------------------------------------------------------------
(* ce_tp_routine *)

Enter(i) ==
  /\ tpc[i] = "start"
  /\ routines' = routines + 1
  /\ tpc' = [tpc EXCEPT ![i] = "loop"]
  /\ UNCHANGED <<mainVars, abort, queue, cur, clientVars, taskVars, fault,
                 history>>

(* The loop condition reads pool->abort without the mutex.                 *)
CheckAbort(i) ==
  /\ tpc[i] = "loop"
  /\ tpc' = [tpc EXCEPT ![i] = IF abort THEN "exit" ELSE "look"]
  /\ UNCHANGED <<mainVars, poolVars, cur, clientVars, taskVars, fault, history>>

(* TAILQ_REMOVE of the head of the queue.                                  *)
Unqueue_Newest == queue' = Front(queue)
Unqueue_Forgotten == queue' = queue
Unqueue == queue' = Tail(queue)

(* Under the mutex, on entry and after each wake-up: take the first task,  *)
(* leave if there is none and abort is set, else wait.                     *)
Fetch(i) ==
  /\ tpc[i] = "look"
  /\ \/ /\ queue # << >>
        /\ Unqueue
        /\ cur' = [cur EXCEPT ![i] = Head(queue)]
        /\ tpc' = [tpc EXCEPT ![i] = "taken"]
     \/ /\ queue = << >>
        /\ tpc' = [tpc EXCEPT ![i] = IF abort THEN "exit" ELSE "wait"]
        /\ UNCHANGED <<queue, cur>>
  /\ UNCHANGED <<mainVars, routines, abort, clientVars, taskVars, fault,
                 history>>

(* pthread_cond_wait may return without a broadcast.                       *)
SpuriousWake(i) ==
  /\ tpc[i] = "wait"
  /\ tpc' = [tpc EXCEPT ![i] = "look"]
  /\ UNCHANGED <<mainVars, poolVars, cur, clientVars, taskVars, fault, history>>

(* The thread works on the task in its hands, outside the mutex.           *)
Work(i, from, to) ==
  /\ tpc[i] = from
  /\ Live(cur[i])
  /\ tpc' = [tpc EXCEPT ![i] = to]
  /\ UNCHANGED <<mainVars, poolVars, clientVars, fault, inserted, unlinked, late>>

(* worker->state = tp_state_busy, then process_cb is called.               *)
Begin_PostsEarly(i) ==
  /\ Work(i, "taken", "busy")
  /\ state' = [state EXCEPT ![cur[i]] = "busy"]
  /\ started' = Append(started, cur[i])
  /\ SemPost(cur[i])
  /\ UNCHANGED <<cur, mem>>
Begin(i) ==
  /\ Work(i, "taken", "busy")
  /\ state' = [state EXCEPT ![cur[i]] = "busy"]
  /\ started' = Append(started, cur[i])
  /\ UNCHANGED <<cur, mem, sem>>

(* process_cb returns: result and state are stored.  It does not return in *)
(* the middle of a registration it makes.                                  *)
Complete(i) ==
  /\ Work(i, "busy", "post")
  /\ \A t \in Tasks : SpawnedBy[t] = cur[i] => reg[t] # "checked"
  /\ state' = [state EXCEPT ![cur[i]] = "complete"]
  /\ UNCHANGED <<cur, mem, sem, started>>

Post(i) ==
  /\ Work(i, "post", "notify")
  /\ SemPost(cur[i])
  /\ UNCHANGED <<cur, mem, state, started>>

(* complete_cb, then the locked part of ce_tp_worker_free and its sem_post *)
(* (the task left the queue long ago: there is nothing to unlink).         *)
Notify(i) ==
  /\ Work(i, "notify", "free")
  /\ SemPost(cur[i])
  /\ UNCHANGED <<cur, mem, state, started>>

(* sem_destroy and ce_free: the routine frees the handle it gave out.      *)
FreeOwn(i) ==
  /\ Work(i, "free", "loop")
  /\ Free(cur[i])
  /\ cur' = [cur EXCEPT ![i] = None]
  /\ UNCHANGED <<state, sem, started>>

-----------------------------------------------------------------------------
(* ce_tp_worker_register *)

(* Who may be about to register t: a client, or the callback now running   *)
(* that is meant to.  Unless Late, clients stop before destroy is called.  *)
Registering(t) ==
  IF SpawnedBy[t] = Client
  THEN main = "ready" \/ (Late /\ main \notin {"create", "spin", "gone"})
  ELSE \E i \in Threads : tpc[i] = "busy" /\ cur[i] = SpawnedBy[t]

(* The entry test reads pool->abort without the mutex.                     *)
RegisterCheck(t) ==
  /\ reg[t] = "new"
  /\ Registering(t)
  /\ reg' = [reg EXCEPT ![t] = IF abort THEN "refused" ELSE "checked"]
  /\ UNCHANGED <<mainVars, poolVars, threadVars, use, got, taskVars, fault,
                 history>>

(* The new task goes to the end of the queue and all threads are woken.    *)
RegisterInsert(t) ==
  /\ reg[t] = "checked"
  /\ PoolLive
  /\ reg' = [reg EXCEPT ![t] = "registered"]
  /\ mem' = [mem EXCEPT ![t] = "live"]
  /\ queue' = Append(queue, t)
  /\ tpc' = Woken
  /\ inserted' = Append(inserted, t)
  /\ late' = IF main \in {"ready", "poll"} THEN late ELSE late \cup {t}
  /\ UNCHANGED <<mainVars, routines, abort, cur, use, got, state, sem, fault,
                 started, unlinked>>

-----------------------------------------------------------------------------
(* What the holder of a handle does with it *)

Holding(t) == reg[t] = "registered" /\ SpawnedBy[t] = Client

(* ce_tp_worker_touch *)
Touch(t) ==
  /\ "touch" \in Uses
  /\ Holding(t) /\ use[t] = "idle" /\ Live(t)
  /\ got' = [got EXCEPT ![t] = state[t]]
  /\ UNCHANGED <<mainVars, poolVars, threadVars, reg, use, taskVars, fault,
                 history>>

(* ce_tp_worker_wait: blocks on the semaphore ...                          *)
CallWait(t) ==
  /\ "wait" \in Uses
  /\ Holding(t) /\ use[t] = "idle"
  /\ use' = [use EXCEPT ![t] = "wait"]
  /\ UNCHANGED <<mainVars, poolVars, threadVars, reg, got, taskVars, fault,
                 history>>

Awake(t) ==
  /\ use[t] = "wait" /\ Live(t)
  /\ sem[t] > 0
  /\ sem' = [sem EXCEPT ![t] = @ - 1]
  /\ use' = [use EXCEPT ![t] = "read"]
  /\ UNCHANGED <<mainVars, poolVars, threadVars, reg, got, mem, state, fault,
                 history>>

(* ... then reads the result, NULL until the callback has returned.        *)
ReadResult(t) ==
  /\ use[t] = "read" /\ Live(t)
  /\ got' = [got EXCEPT ![t] = IF state[t] = "complete" THEN "result" ELSE "null"]
  /\ use' = [use EXCEPT ![t] = "idle"]
  /\ UNCHANGED <<mainVars, poolVars, threadVars, reg, taskVars, fault, history>>

(* ce_tp_worker_free: under the mutex, unlink the task if it is queued;    *)
(* then sem_post ...                                                       *)
Unlink(t) ==
  /\ "free" \in Uses
  /\ Holding(t) /\ use[t] = "idle" /\ Live(t) /\ PoolLive
  /\ \/ \E i \in DOMAIN queue :
          queue[i] = t /\ queue' = RemoveAt(queue, i) /\ unlinked' = unlinked \cup {t}
     \/ ~Contains(queue, t) /\ UNCHANGED <<queue, unlinked>>
  /\ SemPost(t)
  /\ use' = [use EXCEPT ![t] = "free"]
  /\ UNCHANGED <<mainVars, routines, abort, threadVars, reg, got, mem, state,
                 fault, inserted, started, late>>

(* ... then sem_destroy and ce_free.                                       *)
Release(t) ==
  /\ use[t] = "free" /\ Live(t)
  /\ Free(t)
  /\ use' = [use EXCEPT ![t] = "over"]
  /\ UNCHANGED <<mainVars, poolVars, threadVars, reg, got, state, sem, fault,
                 history>>

-----------------------------------------------------------------------------
(* ce_tp_destroy *)

AfterDestroy_NoPoll(type) == "abort"
AfterDestroy(type) == IF type = "wait" THEN "poll" ELSE "abort"

(* Unless Late, no client is still inside ce_tp_worker_register.           *)
Destroy(type) ==
  /\ main = "ready"
  /\ Late \/ \A t \in Tasks : SpawnedBy[t] = Client => reg[t] # "checked"
  /\ kill' = type
  /\ main' = AfterDestroy(type)
  /\ UNCHANGED <<index, hand, poolVars, threadVars, clientVars, taskVars,
                 fault, history>>

(* tp_kill_wait polls the head of the queue without the mutex.             *)
SeeEmpty ==
  /\ main = "poll"
  /\ queue = << >>
  /\ main' = "abort"
  /\ UNCHANGED <<index, kill, hand, poolVars, threadVars, clientVars, taskVars,
                 fault, history>>

SetAbort ==
  /\ main = "abort"
  /\ abort' = TRUE
  /\ tpc' = Woken
  /\ main' = "join"
  /\ UNCHANGED <<index, kill, hand, routines, queue, cur, clientVars, taskVars,
                 fault, history>>

AllJoined_NotWaited == TRUE
AllJoined == \A i \in Threads : tpc[i] = "exit"

Join ==
  /\ main = "join"
  /\ AllJoined
  /\ main' = "drain"
  /\ UNCHANGED <<index, kill, hand, poolVars, threadVars, clientVars, taskVars,
                 fault, history>>

(* What is left in the queue is unlinked, posted and freed without a run.  *)
Drop ==
  /\ main = "drain" /\ hand = None
  /\ queue # << >>
  /\ Live(Head(queue))
  /\ hand' = Head(queue)
  /\ Unqueue
  /\ SemPost(hand')
  /\ unlinked' = unlinked \cup {hand'}
  /\ UNCHANGED <<main, index, kill, routines, abort, threadVars, clientVars,
                 mem, state, fault, inserted, started, late>>

FreeDropped ==
  /\ main = "drain" /\ hand # None
  /\ Live(hand)
  /\ Free(hand)
  /\ hand' = None
  /\ UNCHANGED <<main, index, kill, poolVars, threadVars, clientVars, state,
                 sem, fault, history>>

Drained_OneDropped == hand = None /\ (queue = << >> \/ unlinked # {})
Drained == hand = None /\ queue = << >>

(* The mutex, the condition variable and the pool itself are freed.        *)
FreePool ==
  /\ main = "drain"
  /\ Drained
  /\ main' = "gone"
  /\ UNCHANGED <<index, kill, hand, poolVars, threadVars, clientVars, taskVars,
                 fault, history>>

-----------------------------------------------------------------------------
(* Accesses to freed memory *)

Fault(who, t) ==
  /\ fault' = [by |-> who, task |-> t]
  /\ UNCHANGED <<mainVars, poolVars, threadVars, clientVars, taskVars, history>>

ThreadFault(i) ==
  /\ \/ cur[i] # None /\ ~Live(cur[i])
     \/ tpc[i] \notin {"unborn", "exit"} /\ ~PoolLive
  /\ Fault("thread", cur[i])

MainFault ==
  /\ main = "drain"
  /\ \/ hand # None /\ ~Live(hand)
     \/ hand = None /\ queue # << >> /\ ~Live(Head(queue))
  /\ Fault("main", IF hand # None THEN hand ELSE Head(queue))

(* Any use of the handle; freeing it locks the mutex of the pool as well.  *)
HandleFault(t) ==
  /\ Holding(t)
  /\ \/ use[t] = "idle" /\ Uses # {} /\ ~Live(t)
     \/ use[t] = "idle" /\ "free" \in Uses /\ ~PoolLive
     \/ use[t] \in {"wait", "read", "free"} /\ ~Live(t)
  /\ Fault("client", t)

RegisterFault(t) ==
  /\ reg[t] = "checked"
  /\ ~PoolLive
  /\ Fault("register", t)

-----------------------------------------------------------------------------

ThreadStep(i) ==
  /\ fault = NoFaultYet
  /\ \/ Enter(i) \/ CheckAbort(i) \/ Fetch(i) \/ ThreadFault(i)
     \/ Begin(i) \/ Complete(i) \/ Post(i) \/ Notify(i) \/ FreeOwn(i)

(* main, once it is inside ce_tp_create or ce_tp_destroy.                  *)
MainStep ==
  /\ fault = NoFaultYet
  /\ \/ CreateThread \/ SpinDone
     \/ SeeEmpty \/ SetAbort \/ Join \/ Drop \/ FreeDropped \/ FreePool
     \/ MainFault

RegisterStep(t) ==
  /\ fault = NoFaultYet
  /\ RegisterInsert(t) \/ RegisterFault(t)

HandleStep(t) ==
  /\ fault = NoFaultYet
  /\ \/ Touch(t) \/ CallWait(t) \/ Awake(t) \/ ReadResult(t)
     \/ Unlink(t) \/ Release(t) \/ HandleFault(t)

(* Calls nobody is obliged to make, and wake-ups nobody can rely on.       *)
Environment ==
  /\ fault = NoFaultYet
  /\ \/ \E type \in {"immediate", "wait"} : Destroy(type)
     \/ \E t \in Tasks : RegisterCheck(t)
     \/ \E i \in Threads : SpuriousWake(i)

Finished == (fault # NoFaultYet \/ main = "gone") /\ UNCHANGED vars

Next ==
  \/ MainStep \/ Environment \/ Finished
  \/ \E i \in Threads : ThreadStep(i)
  \/ \E t \in Tasks : RegisterStep(t) \/ HandleStep(t)

Spec == Init /\ [][Next]_vars

(***************************************************************************)
(* The scheduler runs every thread that can run, and callbacks return.     *)
(***************************************************************************)
Fairness ==
  /\ WF_vars(MainStep)
  /\ \A i \in Threads : WF_vars(ThreadStep(i))
  /\ \A t \in Tasks : WF_vars(RegisterStep(t))

FairSpec == Spec /\ Fairness

-----------------------------------------------------------------------------

(* Every field keeps to its range; routines counts threads that entered.   *)
TypeOK ==
  /\ main \in {"create", "spin", "ready", "poll", "abort", "join", "drain",
               "gone"}
  /\ index \in 0 .. NThreads /\ routines \in 0 .. NThreads
  /\ abort \in BOOLEAN
  /\ queue \in Seq(Tasks)
  /\ kill \in {None, "immediate", "wait"} /\ hand \in Tasks \cup {None}
  /\ tpc \in [Threads -> {"unborn", "start", "loop", "look", "wait", "taken",
                          "busy", "post", "notify", "free", "exit"}]
  /\ cur \in [Threads -> Tasks \cup {None}]
  /\ reg \in [Tasks -> {"new", "checked", "refused", "registered"}]
  /\ use \in [Tasks -> {"idle", "wait", "read", "free", "over"}]
  /\ mem \in [Tasks -> {"none", "live", "freed"}]
  /\ state \in [Tasks -> {"idle", "busy", "complete"}]
  /\ sem \in [Tasks -> Nat]

(***************************************************************************)
(* Used as ce_io.c uses it (register, and forget the handle; no client     *)
(* registers once ce_tp_destroy was called), the pool never touches a      *)
(* freed task or a freed pool, whatever callbacks register meanwhile.      *)
(***************************************************************************)
NoFault == fault = NoFaultYet

(***************************************************************************)
(* Callbacks start once per task and in the order of registration: what    *)
(* started, then the task a thread has taken, then the queue is what was   *)
(* registered and not removed, in that order.                              *)
(***************************************************************************)
Before(t, u) ==
  \E i, j \in DOMAIN inserted : i < j /\ inserted[i] = t /\ inserted[j] = u

Taken == {cur[i] : i \in {j \in Threads : tpc[j] = "taken"}}

Fifo ==
  \E taken \in {<< >>} \cup {<<t>> : t \in Taken} :
    LET kept == started \o taken \o queue IN
    /\ ToSet(kept) = ToSet(inserted) \ unlinked
    /\ \A i, j \in DOMAIN kept : i < j => Before(kept[i], kept[j])

(***************************************************************************)
(* The assertion in ce_tp_worker_free: a task still in the queue is idle.  *)
(* With it, the queue never holds a task whose memory was freed, however   *)
(* ce_tp_worker_free, ce_tp_routine and ce_tp_destroy interleave.          *)
(***************************************************************************)
QueuedIdle ==
  \A t \in ToSet(queue) : Live(t) /\ state[t] = "idle"

(***************************************************************************)
(* tp_kill_wait drops a task unrun only if it was inserted after the       *)
(* unlocked look at the queue that ended the wait.                         *)
(***************************************************************************)
KillWaitDropsOnlyLate ==
  kill = "wait" /\ "free" \notin Uses => unlinked \subseteq late

(***************************************************************************)
(* When ce_tp_destroy has returned, every task that was registered is      *)
(* freed: by the thread that ran it or by the draining loop.               *)
(***************************************************************************)
NothingLeft == main = "gone" /\ fault = NoFaultYet => \A t \in Tasks : ~Live(t)

(***************************************************************************)
(* A thread of the pool runs into freed memory only through a client that  *)
(* called ce_tp_worker_free on the task it is working on; the draining     *)
(* loop of ce_tp_destroy likewise.                                         *)
(***************************************************************************)
PoolFaultsNeedClientFree ==
  fault.by \in {"thread", "main"}
    => fault.task \in Tasks /\ use[fault.task] \in {"free", "over"}

(***************************************************************************)
(* ce_tp_worker_wait returns a NULL result only for a task that was        *)
(* dropped before it ran: being woken by the semaphore means the callback  *)
(* has returned and its result is stored.                                  *)
(***************************************************************************)
WaitMeansDone == \A t \in Tasks : got[t] = "null" => t \in unlinked

(***************************************************************************)
(* ce_tp_destroy returns, whatever the threads were doing when it was      *)
(* called: no wake-up is lost and every callback is waited for.            *)
(***************************************************************************)
DestroyReturns == main \in {"poll", "abort"} ~> main = "gone"

(***************************************************************************)
(* Every task that was inserted is sooner or later freed, run or dropped.  *)
(***************************************************************************)
EveryTaskEnds == \A t \in Tasks : Live(t) ~> mem[t] = "freed"

(***************************************************************************)
(* ce_tp_create returns (the test creates a pool of 5 and goes on).        *)
(***************************************************************************)
CreateReturns == <>(main = "ready")
=============================================================================
