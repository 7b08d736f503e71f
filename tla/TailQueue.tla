------------------------------- MODULE TailQueue -------------------------------
(***************************************************************************)
(* util/queue.h, the TAILQ macros: the lists under ce_threadpool and       *)
(* ce_queue.  A back pointer holds the address of the next pointer that    *)
(* leads to its element.  The head and an element's entry have the same    *)
(* layout, {first, last} and {next, prev}, which TAILQ_LAST and TAILQ_PREV *)
(* rely on; so next[Head] is tqh_first, prev[Head] is tqh_last, and the    *)
(* address of a next pointer is named by the cell that holds it.  An       *)
(* element that is removed keeps its pointers, as in the code.             *)
(***************************************************************************)
EXTENDS Integers, Sequences, Sequence, Pointers

CONSTANTS Elems,  \* the elements that can be queued
          Head_,  \* the TAILQ_HEAD
          NULL

VARIABLES next, prev

vars == <<next, prev>>

(* The elements from TAILQ_FIRST on, as TAILQ_FOREACH meets them.          *)
Queued == Walk(next, next[Head_], NULL)

(* TAILQ_LAST(c) when c is the head, TAILQ_PREV when it is an element.     *)
Before(c) == next[prev[prev[c]]]
QueuedReverse ==
  Walk([c \in {x \in DOMAIN prev : prev[x] # NULL} |-> Before(c)],
       Before(Head_), NULL)

(* The cell with the back pointer of x, where the head stands for the end. *)
BackOf(x) == IF x = NULL THEN Head_ ELSE x

Init ==
  /\ next = [c \in Elems \cup {Head_} |-> NULL]
  /\ prev = [c \in Elems \cup {Head_} |-> IF c = Head_ THEN Head_ ELSE NULL]

(* e goes after cell c.                                                    *)
Link(c, e) ==
  /\ next' = [next EXCEPT ![e] = next[c], ![c] = e]
  /\ prev' = [prev EXCEPT ![BackOf(next[c])] = e, ![e] = c]

TAILQ_INSERT_HEAD(e) == Link(Head_, e)
TAILQ_INSERT_AFTER(l, e) == Link(l, e)

TAILQ_INSERT_TAIL(e) ==
  /\ next' = [next EXCEPT ![e] = NULL, ![prev[Head_]] = e]
  /\ prev' = [prev EXCEPT ![e] = prev[Head_], ![Head_] = e]

TAILQ_INSERT_BEFORE(l, e) ==
  /\ next' = [next EXCEPT ![e] = l, ![prev[l]] = e]
  /\ prev' = [prev EXCEPT ![e] = prev[l], ![l] = e]

TAILQ_REMOVE_KeepLast(e) ==
  /\ prev' = IF next[e] = NULL THEN prev
             ELSE [prev EXCEPT ![next[e]] = prev[e]]
  /\ next' = [next EXCEPT ![prev[e]] = next[e]]
TAILQ_REMOVE(e) ==
  /\ prev' = [prev EXCEPT ![BackOf(next[e])] = prev[e]]
  /\ next' = [next EXCEPT ![prev[e]] = next[e]]

TAILQ_REPLACE(e, e2) ==
  /\ next' = [next EXCEPT ![e2] = next[e], ![prev[e]] = e2]
  /\ prev' = [prev EXCEPT ![BackOf(next[e])] = e2, ![e2] = prev[e]]

(* The callers queue an element that is not queued, next to one that is.   *)
Next ==
  \/ \E e \in Elems \ Range(Queued) :
       \/ TAILQ_INSERT_HEAD(e)
       \/ TAILQ_INSERT_TAIL(e)
       \/ \E l \in Range(Queued) :
            TAILQ_INSERT_AFTER(l, e) \/ TAILQ_INSERT_BEFORE(l, e)
                                     \/ TAILQ_REPLACE(l, e)
  \/ \E e \in Range(Queued) : TAILQ_REMOVE(e)

-----------------------------------------------------------------------------
(* The queue read backwards is the queue read forwards, the other way.     *)
(* TAILQ_FOREACH_REVERSE relies on it, and so does every macro that writes *)
(* through a back pointer.                                                 *)
Mirrors ==
  /\ Reverse(QueuedReverse) = Queued
  /\ IsInjective(Queued)

(* Each macro does to the queue what its name says of a sequence: what     *)
(* ThreadPool and CeQueue take for granted when they write Append and Tail.*)
Sequenced ==
  /\ \A e \in Elems \ Range(Queued) :
       /\ TAILQ_INSERT_HEAD(e) => InsertFirst(Queued, Queued', e)
       /\ TAILQ_INSERT_TAIL(e) => InsertLast(Queued, Queued', e)
       /\ \A l \in Range(Queued) :
            /\ TAILQ_INSERT_AFTER(l, e) => InsertNext(Queued, Queued', l, e)
            /\ TAILQ_INSERT_BEFORE(l, e) => InsertPrevious(Queued, Queued', l, e)
            /\ TAILQ_REPLACE(l, e) => Substitute(Queued, Queued', l, e)
  /\ \A e \in Range(Queued) : TAILQ_REMOVE(e) => Delete(Queued, Queued', e)

(* So every step does to the sequence what Sequence says.                  *)
IsSequence == [][Sequenced]_vars
=============================================================================
