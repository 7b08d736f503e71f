------------------------------- MODULE Sequence -------------------------------
(***************************************************************************)
(* What the linked lists of util/ promise: a sequence of distinct nodes    *)
(* that an operation changes in the one place its name says.  AdList,      *)
(* TailQueue and KernelList are shown to implement it: an operation of     *)
(* theirs takes the sequence s that a walk over the pointers visits to t   *)
(* as the one here does.                                                   *)
(***************************************************************************)
EXTENDS Integers, SequencesExt

(* Where x is.                                                             *)
At(s, x) == CHOOSE i \in 1 .. Len(s) : s[i] = x

InsertFirst(s, t, x) == t = <<x>> \o s
InsertLast(s, t, x) == t = Append(s, x)
InsertNext(s, t, y, x) == y \in Range(s) /\ t = InsertAt(s, At(s, y) + 1, x)
InsertPrevious(s, t, y, x) == y \in Range(s) /\ t = InsertAt(s, At(s, y), x)
Delete(s, t, x) == x \in Range(s) /\ t = RemoveAt(s, At(s, x))
Substitute(s, t, y, x) == y \in Range(s) /\ t = [s EXCEPT ![At(s, y)] = x]
TurnRound(s, t) == t = (IF Len(s) <= 1 THEN s ELSE <<Last(s)>> \o Front(s))
Join(s, t, first) == t = first \o s

(* s without x, which need not be in it.                                   *)
Dropped(s, x) == IF x \in Range(s) THEN RemoveAt(s, At(s, x)) ELSE s
=============================================================================
