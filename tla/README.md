# cevent: a verification project

cevent is a C library for clients and servers that exchange framed messages
over TCP (`src/src/cevent`), with a small chat program on top of it
(`src/src/chat`).  This directory holds TLA+ models of it, the TLC runs that
check them on small instances, and TLAPS proofs for every instance.  Paths
below are relative to `src/src/` of the repository.

Contents: 1 the system, 2 modules and the code they stand for, 3 runs and what
they show, 4 proofs, 5 findings, 6 limits, 7 plan.

## 1. The system

### Components, state, operations, interactions

| Component | State it keeps | Operations | Used by |
|---|---|---|---|
| `ce_ringbuffer` | byte block, `head`, `tail`, `wrap`, scratch block `retval` | new, can_read, can_write, read, write, free | `ce_io` (four rings per processor/connection) |
| `ce_threadpool` | TAILQ of tasks, mutex, condition variable, `abort`, `routines`, threads; per task a state and a semaphore | create, register, touch, wait, free, destroy (immediate / wait) | `ce_io`, `ce_client` |
| `ce_queue` | TAILQ of items, mutex, condition variable, `stop` | push, get (no / timed / infinite wait), stop, destroy | library users |
| `ce_io` | dict of connections, keyed by the address of a local variable; per connection an inbound and an outbound ring and a lock; two rings of announced connections; `stop` | new, add, del, enqueue, push, destroy; the processors frame packets (never reached) | `ce_server`, `ce_client` |
| `ce_server` | event loop, its thread, `ce_io`, user callbacks | start, accept/read/close handlers, heartbeat, stop | chat server |
| `ce_client` | socket, receive thread, `stop`, its own `ce_io` | connect, receive routine, send, disconnect | chat client |
| `chat` | address, session, listeners, `_client` | setters, login, the server's start-up (parser, verifier, UI and chat functions are stubs) | |
| `util/dict` | two bucket tables, `rehashidx`, count of running iterators | add, replace, delete, find, expand, rehash step, iterate, scan, random key | `ce_io` |
| `util/adlist`, `util/queue.h`, `util/list.h` | linked nodes, list iterators | insert, delete, iterate, dup, search, rotate | `ce_threadpool`, `ce_queue` |
| `3rdparty/redis/ae` | registered and fired file events, list of time events, `stop` | create/delete events, process events, main loop, stop | `ce_server` |
| base64, rand, sha1, crc64, xhash, `ce_crypt`, `ce_bzip2` | none, or the words of a generator | pure functions | tools |
| `ce_log`, `ce_assert`, `ce_alloctor`, `ce_sock`, `anet`, bzip2, jemalloc | output, allocation, socket options, vendored code | | everything |

A client runs two threads and a pool: the caller of `ce_client_connect`,
`ce_client_send` and `ce_client_disconnect`; the receive thread, which hands what
it read to `ce_io_enqueue`; and the pool of its `ce_io`.  They share the client
(its `stop` flag and socket), and the `ce_io`.  A server is meant to run the
caller of `ce_server_startup`, an event-loop thread that accepts and reads, and
the pool; on builds that poll with epoll or kqueue it never gets past start-up (see
CeServer below).

### What is hard here

* **The wrap flag.**  A ring whose `head` equals its `tail` is full or empty; one
  bit tells which, and only one of the two paths of `ce_rb_read` clears it.
* **Pointers into shared memory.**  `ce_rb_read` gives out a pointer into the ring
  for bytes whose room it has already released.
* **Condition variables.**  One signal for each push while other consumers may
  enter and take the item; flags read outside the mutex; spurious wake-ups.
* **Ownership of tasks.**  The pool's routine frees the same `ce_tp_worker` that
  its client was given as a handle; `ce_tp_destroy` frees what is left.
* **Shutdown.**  `ce_tp_destroy` polls, broadcasts, joins, drains and frees while
  callbacks still register tasks.
* **Half-built clients and servers.**  Start-up and connect fail at any of their
  steps and must give back what the earlier ones took, and say which failed.
* **A thread that may be blocked in `recv`** while its socket is closed, its flag is
  set, cleared and set again, and its memory is about to be freed.
* **Tables and lists that change while they are iterated, scanned or resized**
  (`dict`, `adlist`), and pointers that point into their neighbours (`queue.h`).
* **Carries** (the bit count of SHA-1, the limbs of the generator).

`PROJECT.json` lists each such hazard at its line, with the properties that cover it.

### What makes each component correct

* ring: can_read equals what was written and not read; bytes come out in order;
  a pointer given out stays valid long enough to be used.
* pool: each registered task is run or dropped, once, in order; nobody touches
  freed memory when the pool is used as `ce_io.c` uses it; destroy returns;
  waiting for a task means its result is there.
* queue: no wake-up is lost, items are delivered once and in order, stop ends
  every wait.
* `ce_client`: nothing the receive thread uses is freed while it runs; a failed
  connect leaves nothing behind but the socket of a refused connection; disconnect
  returns, after one `on_close`.
* `ce_server`: a failed start-up leaves nothing behind but the event loop.
* chat: what login tells its listeners is what happened, when its port was accepted.
* `ce_io`: the packets a processor delivers would have to be those that were
  pushed; no packet ever gets there.
* dict: it is a map whatever step of a rehash it is in; an iteration and a scan return every
  element that is present from its start to its end; a safe iterator returns each
  element at most once.
* lists: they are sequences; an iterator survives the deletion of the element
  it returned; a duplication that returns NULL leaves nothing.
* the pure functions: they agree with their definitions (padding of the whole
  message, polynomial division, multiplication modulo 2^48) and inverses.

## 2. Modules and the code they stand for

`PROJECT.json` maps every definition to its lines.  In every module an operator
whose name contains an underscore followed by a description (`Signal_IfWasEmpty`)
is a *faulty variant* of the operator before the underscore: the plausible bug
that the mutation of a run substitutes, to show that the property of that run
would notice it.  No specification uses them.

### RingBuffer, BoundedFifo, and their proofs: `ce_ringbuffer.c`

One action per call and path: `ReadNothing`, `ReadDirect` (the pointer designates
the ring), `ReadCopied` (the bytes are gathered in `retval`), `Write`, `Free`.
`buffer`, `head`, `tail`, `wrap`, `retval` are the fields; `view` is the memory
the caller's last pointer designates, so that a later write through it can be
seen; `written`, `consumed` and `promised` are history.  A write or a read of
more than fits is truncated, as `min` in the code does.  `BoundedFifo` says what
callers may rely on; `Unread` is the refinement mapping.

### ThreadPool: `ce_threadpool.c`

`main` is the program counter of the thread inside `ce_tp_create` or
`ce_tp_destroy`, `tpc` that of the threads in `ce_tp_routine`, `reg` that of
`ce_tp_worker_register`, `use` that of the calls on a handle.  A critical
section without a wait is one action.  A read of shared state outside the mutex
is an action of its own: the test of `abort` in the loop condition (`CheckAbort`)
and in `ce_tp_worker_register` (`RegisterCheck`, apart from `RegisterInsert`), and
the look at the queue by `tp_kill_wait` (`SeeEmpty`).  `mem` says whether the
memory of a task is allocated; an access to freed memory is undefined behaviour,
so it sets `fault`, after which the model stops and nothing more is claimed.
`SpawnedBy` says which tasks are registered by clients and which by callbacks.

The asserts of the file are compiled out of release builds; where a failed
assertion is followed by a return in the code, the model returns.

### CeQueue: `ce_queue.c`

`Push`, `Get`, `Sleep`, `Resume`, `Stop`, `DestroyStop`, `DestroyFree`; a consumer is
outside, past the test of the `while` with the mutex held (`tested`), waiting on the
condition variable, or woken and about to get the mutex back.  Between the test
(`Get`) and the wait (`Sleep`) everything else that takes the mutex has to wait (`Unlocked`);
`Stop_Unlocked`, which does not take it, is what `NoSleepAfterStop` is about.  `Wake` covers signals, timeouts and spurious wake-ups, which differ in
`wait_r`.  `Resume` follows the code: no path goes round the `while` again.

The queues under the pool and under `ce_queue` are TAILQs (`util/queue.h`); the
models use them as sequences, which `TailQueue` justifies.

### Dict: `util/dict.c`

An entry is its key and a chain is a sequence of keys, newest first, as the code
links them.  A call is one action: the dict has no lock and its users call it
from one thread at a time.  Most calls are made of the same steps (look for the
key in one or two tables, move one bucket, resize if needed, link or unlink an
entry), so these are operators on a dict `t` (`_dictRehashStep(t)`,
`Expanded(t, n)`, `WithEntry(t, k)`) and a call composes them in the order of the
code: `dictReplace` of a key that is there rehashes twice, `dictReplaceRaw` of a
new one too.  `val` is what the calls made of each key, against which the
chains are checked.

`trav` is the traversal in use: an iterator (`table`, `index`, `entry`, `next`, where
`Dangling` stands for the address of a freed entry) or a scan (`cursor`).  Between
two of its steps every call may come that the comments of the library allow: with
an unsafe iterator only `dictNext` (`dict.h:86`), with a safe one neither
`dictRehash` (`dict.c:293`) nor `dictEmpty`.  A safe iterator does allow the
deletion of any entry here; `FaultNeedsStrayDelete` says which deletions it survives.
The scan's callback is assumed not to call the library.

### Pointers, Sequence, TailQueue, KernelList, AdList, Lists: the lists

`Sequence` says what a list promises: a sequence of distinct nodes that an
operation changes in the place its name says.  The other three are pointer
operations, and `Walk` (module `Pointers`) reads the sequence off the pointers: the
refinement mapping.  An operation of `Sequence` relates the sequence before to the
sequence after (`InsertLast(s, t, x)`); `IsSequence` states, per operation, that a step of
the pointers takes the sequence they form to the one that the operation gives.
`Lists` puts the three side by side, for any sets of nodes, elements and heads;
`MCLists` is an instance of it that uses one kind of list in a behaviour.

* `TailQueue`: the TAILQ macros.  A back pointer holds the address of a next
  pointer; the model names that address by the cell the next pointer is in, where
  the head is a cell too.  The branch `if (next != NULL) ... else head->tqh_last = ...` of
  the macros is `BackOf`.
* `KernelList`: `list.h`, circular, with several heads, so that moves and splices
  between lists happen.  A head that `list_splice` has emptied still points into the
  other list: `spliced` says so, and nobody uses it until it is initialised again.
* `AdList`: `adlist.c` over the nodes that `malloc` gave, so a freed node is no longer
  in the domain of `node`.  `iter` is an iterator with the history of what it
  returned; `Dangling` is the address of a node that was freed.  `listDup` is a step
  per node, since it may stop at each (`DupFail`); without memory for its iterator it
  gets NULL, which it dereferences (`dup.iterator`), and has no further step.
  The other calls are one action.

### CeIo, CeClient, CeServer, Chat: from a socket to a login

`CeIo` gives each function of `ce_io.c` as the set of outcomes its caller may see.
`ce_io_add` enters the address of its parameter `fd` into a table of strings, so
a later look-up compares with dead stack memory.  It misses; or it hits by
accident, and the caller takes the key, a stack address, for the connection, which is
undefined (`fault`, after which nothing is claimed).  So nothing received is
ever delivered, and the processors of `ce_io.c`, the rings of connections and the
deletion on the pool are not reached by any sequence of calls.

`CeClient` is the calling thread (`caller`), the receive thread (`receiver`) and the peer.
Connect is one action for each call that can fail or block; the flag `stop` is
read and written where the code does, without a lock: connect sets it, the receive
thread clears it when it starts, disconnect sets it again.  `Received` is the
return of `recv`; on Linux, closing a socket does not wake a thread that is
blocked in `recv` on it, so only the peer ends that step.

`CeServer` is `ce_server_startup`.  It assigns `event_loop->apidata = server`, which was
the state that `aeApiAddEvent` polls with; its first field is then `server->fd`,
a listening socket and not a poll descriptor, so on builds that use epoll or
kqueue the registration is refused and start-up fails.  (A build that
uses `select` would write its descriptor sets into the `ce_server_t`, which is undefined.)
`Held` is what start-up has taken and not given back; the error return after the
event loop was created leaves the loop.

`Chat` composes them: login calls `ce_client_connect` and switches on `*result`,
which some returns of connect do not set (`Taken`).

### Bits, Sha1, Base64, Hashes, Rand: the pure algorithms

A machine word is the set of the positions of its one bits (`Bits`), which
makes xor, masks and shifts set operations of the full width.  `Sha1` is the
incremental interface over a block function, with the sizes as constants: the
bookkeeping of buffer and count is checked on blocks of 4 bytes with a block
function that records its blocks, and the whole with the real sizes on the
first two of the three vectors that `sha1.c` quotes (the third, a million times "a", is
out of TLC's reach).  The table of `crc64.c` and the four of `base64.c` are
computed by rules (`crc64_tab`, `Symbol`, `Value`); all their literal entries were
compared with these.  `Hashes` has both branches of `hash_long`,
by shifts on x86-64 and by a product elsewhere, each against the prime that the comment above it
states as a sum of powers; the swaps of `htonll.h` mask by mask, for 2, 4 and 8 bytes;
and the three hash functions of `dict.c` (the dictionary
itself is checked for fixed colliding hashes).  `Rand` takes the width of its limbs and the multiplier as constants.

## 3. Runs

| Run | Instance | What it shows |
|---|---|---|
| `ring` | 3-byte ring, 2 byte values, requests of 0 to 4 bytes, 8 bytes written | `Conserved`: can_read never miscounts; `WrapMeansStraddling`: why one path may leave `wrap` alone; `ViewIntact`: how long a pointer given out stays valid; `ImplementsFifo`: the ring refines `BoundedFifo` |
| `pool` | 1 thread, 3 tasks, one of them registered by a callback | with handles forgotten, as in `ce_io.c`: `NoFault`, `Fifo`, `KillWaitDropsOnlyLate`, `NothingLeft`, and that destroy returns and every task ends |
| `pool_handles` | 1 thread, 2 tasks whose clients touch, wait for and free their handles at any time, also during destroy | which misuse can corrupt what: `QueuedIdle`, `PoolFaultsNeedClientFree`; `WaitMeansDone` |
| `pool_create` | 2 threads | finding 1 |
| `queue` | 3 consumers, every timeout, 2 items | `NoStrandedItem`; `NoSleepAfterStop`: no stop comes between the test of the flag and the wait; `Fifo`, `ItemsReachConsumers` |
| `dict` | 3 keys of hashes 1, 2, 3; tables of 1 to 8 buckets, initial size 1, one value | `RehashTerminates`: the unbounded loop of `dictRehash` stops; `LookupExact`: look-ups and `dictGetRandomKey` reach exactly the stored entries; `EntriesKept`; `IteratorExact`, `FaultNeedsStrayDelete` about iterators, `ScanCompleteUnlessAstride`, `ScanAdvances` about scans |
| `dict_scan` | the same | finding 4 |
| `queue_stop`, `queue_abort` | 2 or 3 consumers | findings 2 and 3 |
| `lists` | adlist: 4 nodes, 2 lists, 2 values; TAILQ: 3 elements; list.h: 3 heads, 3 entries | `WellLinked`: the pointers read backwards are the pointers read forwards, no node is lost or shared; `IsSequence`; `LookupsAgree`; `IterationComplete`: an iteration survives the deletion of what it returned and misses nothing; `DupAllOrNothing`: a duplication that returns is whole or leaves nothing |
| `chat` | one of three programs: the chat client, the chat server, a program that uses the client library with one worker; 2 connects | `ReceiverSafe`; `FailureReleases`: what a failed connect or start-up leaves behind, exactly; `LoginTruthful`: no failed login leaves a client, and one with an accepted port reports what happened; `DisconnectReturns` |
| `support` | SHA-1: blocks of 4 bytes, 24 bytes in chunks of 0 to 10; strings of up to 4 bytes out of 6; limbs of 4 bits | `DigestsRight`, `CodecsRight` (encoders against decoders, byte swaps of every width against byte reversal, hashes against references, no two short keys with the same dict hash, the full cycle of the generator) |

**Bounds, and why they are enough.**

* `Capacity = 3`: `head` and `tail` can be first, in the middle and last, in every
  order; requests up to `Capacity + 1` include the ones that are truncated.
  `MaxBytes = 8` (a guard of `Write`) takes both offsets round the ring more than
  twice, so every way of setting `wrap` is followed by every way of clearing it.
* `NThreads = 1` is not a choice: by finding 1 `ce_tp_create` never returns for
  two or more, so a pool that is ever used has one thread.  (With none, a
  registered task is never run and destroy with `tp_kill_wait` would poll for
  ever; nobody creates such a pool.)  The module takes any number, and
  `pool_create` runs it with two.
* Three tasks are one running, one that it registers, one of another client;
  registrations, the steps of destroy and of the thread interleave freely.
* Three consumers are the sleeper, the one that was woken, and the one that steals
  its item; two items let a push find an item already queued.
  `MaxItems` is a guard of `Push`.
* The dict starts from one bucket instead of four and the forced resize ratio is 1
  instead of 5, so that three keys give every ratio between two tables up to 8,
  in both directions, and growth that is refused while resizing is off; two keys
  collide in the tables of 1 and of 2 and part above.  Cursors have 4 bits, one more
  than the masks need.  `Sizes` are those given to `dictExpand` from outside, `Steps` the
  counts given to `dictRehash`.  One value, since the code never looks at it.

* Four nodes put a node at the head, at the tail and between two others, in two
  lists at once; an adlist is either iterated over (one list, one value) or
  duplicated and searched (two lists, two values), since all at once only
  multiplies the states.  The nodes and the elements are symmetric: no operation
  compares addresses.  Three heads are needed for a splice whose source was
  spliced from.
* Two connects are a first one and one after any way the first ended.  The chat client
  asks for two workers, for which `ce_io_new` does not return (finding 1), and the library
  program for one, for which all of connect, send and disconnect happen.
* Blocks of 4 bytes with a length of 2 and words of 5 bits of count: 24 bytes take
  `count[0]` through its carry six times and meet every fill of the buffer, and chunks of
  10 are more than two blocks.  In 4-bit limbs the generator passes through its
  whole cycle of 4096 numbers, with every combination of carries.  The strings are
  made of '=', letters that differ in case, a URL symbol and two bytes outside
  of every alphabet; 4 bytes are a whole base64 group and one byte more.

**Fairness.**  Weak fairness of every thread that can run (`ThreadStep`,
`MainStep` once it is inside create or destroy, `RegisterStep` once past its
first test; `Sleep` for a consumer past its test, `Resume` for a woken one, `TimeOut` for a timed wait,
`DestroyFree` once nobody is inside; `Calling` and `Receiving`, the two threads of a
client): a preemptive scheduler and pthread mutexes
that do not starve for ever.  Callbacks are assumed to return (part of
`ThreadStep`).  Nothing is assumed of clients: nobody has to push, register,
stop or destroy, and no progress relies on a spurious wake-up.  Nothing is assumed
of the peer either: `DisconnectReturns` holds without it, except for a `recv` that was
under way when the socket was closed.

**Deadlock** is checked in `pool` and `pool_handles` (the pool stops only where
`Finished` says so: after `FreePool` or a fault).  `lists` switches it off because a
`listDup` without its iterator ends the program.  `ring`, the queue runs, the dict
runs and `pool_create` switch it off: a dict whose iterator followed a freed entry, a freed or exhausted ring, a queue nobody uses any
more and a `main` that spins for ever have no further step.  `chat` may stop when a login
hangs in `ce_tp_create`, the program crashed on a listener that was not set or is
done; the inputs of `support` are bounded.

## 4. Proofs

Proofs are in modules of their own.  They rest on the `ASSUME`s of the module they
are about (a positive capacity, `Zero` a byte; a finite set of consumers; a number of
threads; tasks and threads that are not `None`; finite sets of nodes, elements and heads,
none of them NULL; for the dict, section "The dict") and on nothing else, except for the two theorems about the pool that name a hypothesis.

`SequenceLemmas` has what the queue of the pool, the chains of the dict, the
reports of the chat program and the lists need about sequences: an element linked at the
front or appended, inserted anywhere, or taken from the front or from anywhere, changes the
set of elements by just that one, keeps the others apart from each other and tells where each
now is.  It also has the two facts that inductions over a counter rest on (`LeastIsIn`,
`NatSetInduction`: a set that has 0 and the successor of each of its members has every number).

### The ring (`RingBufferProofs`): every `Capacity > 0`

* `SpecConserved`, `SpecWrapMeansStraddling`.  The invariant is `IInv == Counters
  /\ Conserved /\ WrapMeansStraddling`.  `Conserved` is not inductive by itself: from
  a ring whose `wrap` is set, a read by the direct path that empties it would leave
  `head = tail` and `wrap = 1`, and the empty ring would count as full.
  `WrapMeansStraddling` excludes it: while the flag is set, what is unread reaches
  the end of the ring, so reading all of it straddles the end and takes the path
  that clears the flag.  `AdvanceOnce` is the arithmetic of the code's `%`.
* `SpecImplementsFifo`: the ring implements `BoundedFifo`.  `RInv` adds `Memory`: the
  slots from `head` on hold the bytes not yet read (lemma `UnreadSlots` puts it in
  the form the steps use).  A read removes the first bytes and returns them
  (`ReadDelivers`, `ReadTakes`); a write appends what fits (`WriteStores`,
  `WritePuts`) and reaches no unread slot, because fewer than `Capacity` steps of
  `(i + 1) % Capacity` do not meet (`AdvanceInjective`).
* `SpecViewIntact`: how long the pointer given out by a read shows its bytes.  `Sight`
  says where a view is and how far the writer has gone since; the same
  `AdvanceInjective` shows that a write that stays within a ring of the first byte
  of the view does not reach it (`WriteSight`).
* `SpecTypeOK`.

### The queue (`CeQueueProofs`): every finite set of consumers, every number of items

* `SpecTypeOK` and `SpecFifo`.
* `SpecNoStrandedItem`: one signal for each push is enough.  `NoStrandedItem` is
  inductive together with `TypeOK`; its proof counts the woken consumers: waking one
  adds one to them (`WakeCounts`), and one that returns empty-handed found
  an empty queue (`ReturnCounts`).
* `SpecNoSleepAfterStop`: an action property that rests on the mutex: by `Tested`, a
  consumer between its test and its wait has the mutex, is the only one, and found
  no item and the flag unset, and both stay so until it waits.

### The pool (`ThreadPoolProofs`): every number of threads and every set of tasks

`Phases` and `Custody` are the invariant behind all of it; both hold whoever registers
tasks and whatever the holders of handles do, misuse included.

* `Phases == Ranges /\ Creation /\ Shutdown`: how far creation has got determines how many
  threads there are and what `routines` counts; after the joins no thread is left, and
  the drain leaves an empty queue.  It gives `SpecTypeOK` and `PoolOfManyNeverReady`:
  finding 1 is not an accident of two threads, for every number above one `ce_tp_create`
  stays with its first.
* `Custody`: a task belongs to one of the queue, a thread, or the draining loop, and a task
  in the queue is as fresh as registration left it.  Two threads never hold tasks at the
  same time, since by `Phases` a pool that is used has one (`OneWorks`).  It gives
  `SpecQueuedIdle`, the assertion of the code, and `SpecPoolFaultsNeedClientFree`, which
  says what a misused handle can and cannot corrupt.
* `SpecWaitMeansDone` needs `Posted`: a semaphore is posted only for a task that is complete
  or was removed, and stays so.
* `SpecKillWaitDropsOnlyLate` needs `WaitedFor`: once `tp_kill_wait` has seen an empty
  queue, whatever is in it was inserted after that look.
* `GoneLeavesOnlyFreeing` needs `Held`: allocated memory has an owner that will free it.
  What may survive `ce_tp_destroy` is the task of a client that is inside
  `ce_tp_worker_free`.  Under the hypothesis `"free" \notin Uses` (no client calls it)
  there is none: `SpecNothingLeft`.
* `SpecNoFault` assumes `Uses = {}` and `~Late`: clients forget their handles, and none of
  them registers once `ce_tp_destroy` was called (callbacks may).  The code that uses pools
  does so: `ce_io.c` drops the result of `ce_tp_worker_register`, and destroys its pool from
  the only thread that registers.  Without them the statement is false, as run
  `pool_handles` is there to show.  `Callers` says that whoever
  is inside `ce_tp_worker_register` keeps the pool alive.
* `SpecFifo` needs `Order == Histories /\ Places /\ Line`: an inserted task is started, taken
  by a thread, queued or removed, in one place only, and started, taken and queued tasks
  in that order stand in the order of insertion.  A removal from the middle keeps the
  order of the rest (`RemoveOrdered`).

### Client, server and chat (`ChatProofs`): every `MaxConnects`

The theorems are about the composition (`MCChat`'s `Spec`), that is, about each of its
three programs.

* `SpecReceiverSafe` and `SpecFailureReleases`.  `ClientInv == Records /\ Thread /\ Memory /\
  Socket` relates the two threads: the receive thread exists exactly from
  `pthread_create` to `pthread_join`, client and io are allocated from their creation to
  the calls after the join, and the socket is open as long as the step of connect or
  disconnect says.  The receive thread does not appear in the invariant of memory other than by
  `Thread`: that disconnect joins before it frees is what makes it safe.  `StartupInv` is
  the same for the steps of `ce_server_startup`, with the event loop: there is one exactly
  from its creation on, whatever happens then.
* `SpecLoginTruthful` needs `ChatInv`: the chat program asks for two workers, so a
  connection that is accepted ends in `ce_tp_create`; the reports of one that
  is not are determined by the step at which it failed.  It is about every login, but of one
  whose port is refused (`~conf.valid`) it only says that no client is left: what such a login
  reports depends on an uninitialised value.

### The dict (`DictProofs`): every finite set of keys, every hash function

The constants are any finite set of keys, any function from keys to numbers, any initial
size that is a power of two, any word, and any sizes below `LONG_MAX`: for that size
`_dictNextPower` returns `LONG_MAX` itself, no power of two, and `dictExpand` would have to get
a table of that many pointers, more than the address space, from a `calloc` whose result it does not look at.
One more assumption is about the machine: there is no memory for so many entries that twice
their number, which is what `_dictExpandIfNeeded` asks for, reaches
`LONG_MAX` (`RoomAssumption`).

* `SpecEntriesKept`, `SpecRehashTerminates` and `SpecLookupExact`.  The invariant is `Kept`:
  the dict is `Sound` and holds the keys that `val` says.  `Sound` is what every operator on a
  dict takes for granted and gives back: in both tables every entry is in the bucket of
  its hash and no chain has a key twice (`Good`), no key is in both, `ht[1]` has buckets
  exactly while rehashing, `ht[0]` too has some then, and it is empty below `rehashidx`.  `EntriesKept` alone is not
  inductive: a key in the wrong bucket would be there, not be found, and be added twice.
  Each operator has a lemma (`RehashOneSound`, `ExpandedSound`,
  `WithEntrySound`, ...), and a call composes them as the code does.  `LinkAllGood`
  relinks a bucket entry by entry; that and the rounds of `dictRehash` are inductions
  over a counter, done with `NatSetInduction`.
* `SpecIteratorExact` and `SpecFaultNeedsStrayDelete`.  The invariant
  `Intact` adds `Runs`: an iterator in use stands at a place (`Tracks`) that divides the entries
  it returned, before it, from those it is to return, from it on; the saved
  `nextEntry` is the entry at that place, unless it was freed.  While a safe iterator is
  counted no entry moves (`StepIdle`); an insertion goes to the front of a chain and pushes
  the place back with the entries behind it (`PushTracks`), a deletion pulls it
  (`WithoutTracks`); and a table that appears under it is `ht[1]`, after every place
  in `ht[0]` (`FreshTracks`).
* `SpecScanComplete` and `SpecScanAdvances`, for a word of any number of bits.  A cursor is
  compared with the hashes in the reversed order: `Turned(v)[n]` is the reverse of the `n`
  lowest bits of `v`, and `rev(v)` of all.  The invariant is `Scans`: a scan whose calls were not
  astride has not passed (`rev(Hash[k] % Word) >= rev(cursor)`) any entry that it must
  still return.  That says nothing of the tables, so no resize, no rehash and no other call can break
  it (`NextScans`); what remains is the step of the scan.  `NextCursorIs`: between a
  cursor and the next one in the reversed order lie only the hashes of its bucket of the
  table the mask is from.  It rests on `RevTwice` (`rev` undoes itself), `PrefixOrder`
  and `SamePrefix` (the order and equality of reverses are told by their highest bits) and
  `FilledIsLast` (`v |= ~m0` makes the last number of that bucket).  `EmittedAre`: an
  entry of that bucket that the cursor has not passed is returned, from whichever
  table it is in; `InExpansions` is where two tables of which one is at least
  four times the other, and a cursor inside, break it (finding 4).  The provers know nothing of bits or powers:
  the section "Division" proves from scratch what is used of quotients and remainders,
  and a power is the function `Two`, which `Recursion` shows to exist.
* `SpecTypeOK` follows from these parts: sizes stay powers of two that fit the word, so that
  the masks are right; the return of `LONG_MAX` is not taken, by the assumptions above.

### The lists (`LinkProofs`, `ListProofs`): any number of lists, nodes, elements and heads

The theorems are about `Lists`, that is, about the three kinds of list together, and state
each property that run `lists` checks: `SpecWellLinked`, `SpecIsSequence`,
`SpecIterationComplete`, `SpecLookupsAgree` and `SpecDupAllOrNothing`.

* The properties speak of what a walk over the pointers visits, but a walk says nothing of the
  pointers it does not follow, so no such statement is inductive.  The invariant says
  instead that there is a sequence whose elements the pointers go through one by one, in
  both directions, and back to where they started: a `Ring`.  For `list.h` that is the
  list itself; the next pointer of a TAILQ's last element counts as one to the head (`TqNext`); an
  adlist is closed by NULL, whose pointers are `head` and `tail` (`AdChain`).  No two lists
  share a cell, and every node there is is in one of them (`AdLists`, `KlList`).
* `InsertRing`, `RemoveRing`, `ReplaceRing` and `JoinRing` say of any ring what writing the
  pointers of such an operation makes of it; `TqLink` and `TqRemoval`, `KlWithout`,
  `AdInsert` and `AdDelete` show that each implementation writes just these pointers, `KlSplices` joins two
  rings and `AdRotate` moves the last cell.  What is not written stays
  a ring (`SameRing`): that is where lists being apart is used.
* `WalkIs` and `RingWalk` lead from the pointers to the walk, by induction on the number of steps: a walk
  along a ring visits its sequence.  With it `IInv` (`AdInv`, `TqInv`, `KlInv`) gives
  `WellLinked`, and the lemmas on the operations give `IsSequence`, where what was
  inserted or removed is identified with what `Sequence` says (`InsertedSame`).
* The iterator: unless it strayed, it stands at a place of the sequence, in its direction, that
  has what it returned before it and what it is to return from it on (`AdPoised`).  The
  deletion of the node it returned last, an insertion anywhere, and
  the deletion of any node but the next keep it there (`KeepsOrder`).
* `listDup`: the nodes copied so far have the values of the first nodes of the original
  (`AdCopies`), and the copy is a list like any other, so that its release on a failure
  frees them all.  `SpecDupAllOrNothing` is about the calls that return: one that got no iterator
  never does (section 5).
* The lookups: `Steps` leads to the place with the number of steps (`AdStepsAre`, an
  induction), from either end.

### Only model-checked

Every liveness property: liveness under fairness and `ENABLED` are out of the proof
system's reach.  `Bits`, `Sha1`, `Base64` and `Hashes` declare `RECURSIVE` operators or reach them, so
they stay with TLC.

## 5. Findings

1. `ce_tp_create` waits for all the threads inside the loop that creates them
   (`ce_threadpool.c:102`): with two or more it spins for ever after the
   first.  Run `pool_create`; `PoolOfManyNeverReady` proves it for every number.
2. `ce_queue_stop` signals instead of broadcasting (`ce_queue.c:155`): with two
   consumers asleep one is never woken.  Run `queue_stop`.
3. `ce_queue_get` returns -1, documented as "abort", also when nobody stopped the
   queue (`ce_queue.c:123`): after a spurious wake-up or when another consumer took
   the item.  Run `queue_abort`.
4. `dictScan` (`dict.c:785`) visits the expansions of its cursor in the larger of two
   tables in plain order, starting from the cursor, and not in the reversed order of
   the cursors.  With tables that differ by a factor of four or more and
   a cursor inside a bucket of the smaller one, some expansions are visited by
   no call: with 8 and 2 buckets, a scan that has done bucket 0 of 8 goes
   on from 4 with 4 and 6 and never visits 2.  The comment promises every element
   (`dict.c:667`).  Run `dict_scan`; `ScanCompleteUnlessAstride` shows that, among
   the tables of run `dict`, nothing else makes a scan miss an entry.

Further behaviour of the code that the models have, without a run of its own:

* A failed `connect()` frees the client and leaves its socket open
  (`ce_client.c:118`); `ConnectReleases` and `LoginTruthful` are stated around it.
* `*result` is not set when connect succeeds (`ce_client.c:155`) or refuses its
  arguments (`ce_client.c:96`), so `ClientImpl::login` switches on an
  uninitialised value: with a port that is not positive it may report
  "connected" with a client that is NULL.
* With the two workers that login and the server ask for, a login whose
  connection is accepted never returns (finding 1).
* `ce_client_connect` waits while `stop` is FALSE (`ce_client.c:151`): if the receive
  thread, which stores FALSE, is faster than the caller, it waits for ever.
* `ce_server_startup` fails on builds with epoll or kqueue, and `ServerImpl::startup`
  then prints a message that nobody wrote (`Server.cpp:92`).
* `ce_io_destory` deletes no connection (`ce_io.c:219`): the field `lost` counts them.
* When its registration fails, as it does there, `ce_server_startup` frees the server and never
  deletes the event loop it created (`ce_server.c:198` to 206): each attempt leaks one.
  `FailureReleases` is stated around it.
* `listDup` does not look at the NULL that `listGetIterator` may return
  (`adlist.c:252`) and dereferences it, where its comment says "On out of memory NULL is
  returned" (`adlist.c:233`); in the model it then has no further step, and
  `DupAllOrNothing` speaks of the calls that return.  `listSearchKey` does the same
  (`adlist.c:289`); its search is modelled with the iterator there.
* `hash_long` outside x86-64 shifts by `32 - bits` (`xhash.c:54`) although longs may have 64 bits
  there: the result then has up to 32 bits more than asked for (`HashLongMultiplies`).

## 6. What is not modelled, and why

* Calls on a ring are atomic: the code that would use one from two threads, the processors
  of `ce_io`, is never reached.
* A table of `LONG_MAX` buckets, or of a size `calloc` cannot give (section 4, The dict).
* What an adlist iterator returns after `listRotate` was called under it (it counts as stray), and
  `hash_long` on Windows for x86-64, where longs are shorter than `BITS_PER_LONG` and its shifts undefined.
* A callback that destroys its own pool (a thread joining itself), and a
  `ce_queue_destroy` that overlaps a consumer still inside `ce_queue_get`
  (undefined for pthreads): the model waits for the consumers.
* Failed allocations (apart from those `adlist.c` reports) and failed pthread calls: the
  code does not handle them.
* How long a timed wait takes.
* The processors of `ce_io` (`ce_io.c:239` to 364): no call registers one (section 2,
  CeIo).  As written, a chunk is announced on
  one ring and the other is drained, a body that did not fit leaves its length
  behind, the test for a packet that is not complete is inverted; no run of the
  program meets any of it.
* The accept, read, close and heartbeat handlers of `ce_server`, its push, wait and
  stop, and the event loop `ae` under it (third-party code from Redis): start-up never
  gets to them.
* The SLIST, LIST, SIMPLEQ and CIRCLEQ macros of `queue.h`, which nobody uses.
* The OpenSSL and bzip2 wrappers, socket options, vendored libraries: no control of
  their own.  Logging: its output is not the subject of any property.
* In `Dict`, the hash functions are a constant (`Hashes` has the three of `dict.c`), and the
  fingerprint that detects the misuse of an unsafe iterator is left out.

## 7. Plan

The subsystems that run are modelled.  If `ce_io` is repaired so that a look-up yields its
connection, the processors come next: framing over the two rings as a refinement of packets
delivered in order, and the ring at the level of statements, with one reader and one writer.
