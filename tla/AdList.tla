-------------------------------- MODULE AdList --------------------------------
(***************************************************************************)
(* util/adlist.c: doubly linked lists over nodes that malloc gives and     *)
(* free takes back, iterators, and the duplication of a list, which stops  *)
(* half way when a node or the copy of a value cannot be had, and crashes  *)
(* when its iterator cannot.  The lists are called from one thread;        *)
(* listDup is several steps only so that every one of them may fail.  A    *)
(* call whose malloc fails at once changes nothing and is not an action.   *)
(* The values are opaque to the list.                                      *)
(***************************************************************************)
EXTENDS Integers, Sequence, FiniteSets, Pointers

CONSTANTS Lists,   \* the variables that can hold a list
          Cells,   \* the addresses malloc can give to a node
          Values,
          NULL,
          Dangling \* the address of a node that was freed

VARIABLES
  list,   \* list[l]: head, tail and len, or NULL when there is no list
  node,   \* the nodes that exist: prev, next and value
  iter,   \* an iterator, with the history of what it returned
  dup     \* the listDup in progress

vars == <<list, node, iter, dup>>

NoList == [head |-> NULL, tail |-> NULL, len |-> 0]
NoIterator ==
  [on |-> NULL, next |-> NULL, forward |-> TRUE, current |-> NULL,
   due |-> {}, seen |-> {}, over |-> FALSE, stray |-> FALSE, twice |-> FALSE]
NoDup == [busy |-> FALSE, from |-> NULL, to |-> NULL, next |-> NULL,
          iterator |-> FALSE]

Nexts(nd) == [n \in DOMAIN nd |-> nd[n].next]
Prevs(nd) == [n \in DOMAIN nd |-> nd[n].prev]

Nodes(l) == Walk(Nexts(node), list[l].head, NULL)
NodesReverse(l) == Walk(Prevs(node), list[l].tail, NULL)
ValuesOf(l) == [i \in DOMAIN Nodes(l) |-> node[Nodes(l)[i]].value]

Live == {l \in Lists : list[l] # NULL}
Free == Cells \ DOMAIN node
May == ~dup.busy

(* The nodes nd with the pointer field of x, if there is an x, set to y.   *)
WithNext(nd, x, y) == IF x = NULL THEN nd ELSE [nd EXCEPT ![x].next = y]
WithPrev(nd, x, y) == IF x = NULL THEN nd ELSE [nd EXCEPT ![x].prev = y]
Without(nd, gone) == [n \in DOMAIN nd \ gone |-> nd[n]]

(* The nodes that exist, and n with these pointers.                        *)
Allocated(n, before, after, v) ==
  [c \in DOMAIN node \cup {n} |->
     IF c = n THEN [prev |-> before, next |-> after, value |-> v] ELSE node[c]]

Init ==
  /\ list = [l \in Lists |-> NULL]
  /\ node = << >>
  /\ iter = NoIterator
  /\ dup = NoDup

listCreate(l) ==
  /\ May /\ list[l] = NULL
  /\ list' = [list EXCEPT ![l] = NoList]
  /\ UNCHANGED <<node, iter, dup>>

(* The first len nodes are freed, then the list.                           *)
Released(l) ==
  /\ node' = Without(node, Range(SubSeq(Nodes(l), 1, list[l].len)))
  /\ list' = [list EXCEPT ![l] = NULL]

listRelease(l) ==
  /\ May /\ l \in Live
  /\ Released(l)
  /\ iter' = IF iter.on = l THEN NoIterator ELSE iter
  /\ UNCHANGED dup

(* Node n, new, with these pointers, is linked from its neighbours; head   *)
(* and tail follow.                                                        *)
Insert(l, n, v, before, after) ==
  /\ node' = WithPrev(WithNext(Allocated(n, before, after, v), before, n), after, n)
  /\ list' = [list EXCEPT ![l].head = IF before = NULL THEN n ELSE @,
                          ![l].tail = IF after = NULL THEN n ELSE @,
                          ![l].len = @ + 1]

listAddNodeHead(l, n, v) == Insert(l, n, v, NULL, list[l].head)
listAddNodeTail(l, n, v) == Insert(l, n, v, list[l].tail, NULL)

(* The neighbours come from old; head and tail follow old, not NULL.       *)
listInsertNode_KeepTail(l, old, n, v, after) ==
  LET b == IF after THEN old ELSE node[old].prev
      a == IF after THEN node[old].next ELSE old
  IN /\ node' = WithPrev(WithNext(Allocated(n, b, a, v), b, n), a, n)
     /\ list' = [list EXCEPT
          ![l].head = IF ~after /\ @ = old THEN n ELSE @, ![l].len = @ + 1]
listInsertNode(l, old, n, v, after) ==
  LET b == IF after THEN old ELSE node[old].prev
      a == IF after THEN node[old].next ELSE old
  IN /\ node' = WithPrev(WithNext(Allocated(n, b, a, v), b, n), a, n)
     /\ list' = [list EXCEPT
          ![l].head = IF ~after /\ @ = old THEN n ELSE @,
          ![l].tail = IF after /\ @ = old THEN n ELSE @,
          ![l].len = @ + 1]

AddNode ==
  /\ May
  /\ \E l \in Live, n \in Free, v \in Values :
       \/ listAddNodeHead(l, n, v)
       \/ listAddNodeTail(l, n, v)
       \/ \E old \in Range(Nodes(l)), after \in BOOLEAN :
            listInsertNode(l, old, n, v, after)
  /\ UNCHANGED <<iter, dup>>

listDelNode(l, n) ==
  LET b == node[n].prev
      a == node[n].next
  IN /\ node' = Without(WithPrev(WithNext(node, b, a), a, b), {n})
     /\ list' = [list EXCEPT ![l].head = IF b = NULL THEN a ELSE @,
                             ![l].tail = IF a = NULL THEN b ELSE @,
                             ![l].len = @ - 1]

(* What freeing n means to the iterator: it strays when the next node to   *)
(* return is gone.                                                         *)
DelNode ==
  /\ May
  /\ \E l \in Live : \E n \in Range(Nodes(l)) :
       /\ listDelNode(l, n)
       /\ iter' = [iter EXCEPT !.due = @ \ {n}, !.seen = @ \ {n},
                               !.stray = @ \/ (n = iter.next /\ n # iter.current),
                               !.next = IF @ = n THEN Dangling ELSE @,
                               !.current = IF @ = n THEN NULL ELSE @]
  /\ UNCHANGED dup

(* listRotate, of two nodes or more.                                       *)
listRotate(l) ==
  LET t == list[l].tail
      h == list[l].head
      cut == WithNext(node, node[t].prev, NULL)
  IN /\ list[l].len > 1
     /\ list' = [list EXCEPT ![l].tail = node[t].prev, ![l].head = t]
     /\ node' = [WithPrev(cut, h, t) EXCEPT ![t].prev = NULL, ![t].next = h]

Rotate ==
  /\ May
  /\ \E l \in Live : /\ listRotate(l)
                     /\ iter' = [iter EXCEPT !.stray = @ \/ iter.on = l]
  /\ UNCHANGED dup

-----------------------------------------------------------------------------
(* Iterators *)

(* listGetIterator, listRewind, listRewindTail *)
listRewind(l, forward) ==
  /\ May /\ l \in Live
  /\ iter' = [NoIterator EXCEPT
       !.on = l, !.forward = forward, !.due = Range(Nodes(l)),
       !.next = IF forward THEN list[l].head ELSE list[l].tail]
  /\ UNCHANGED <<list, node, dup>>

(* listNext returns n, and has read its neighbour before the caller can    *)
(* delete it.                                                              *)
Beyond(n) == IF iter.forward THEN node[n].next ELSE node[n].prev

listNext_Late ==
  /\ May /\ iter.on # NULL /\ iter.next # Dangling
  /\ LET n == IF iter.current = NULL THEN iter.next ELSE Beyond(iter.current)
     IN iter' = [iter EXCEPT
          !.next = n, !.current = n,
          !.over = n = NULL, !.due = @ \ {n}, !.twice = @ \/ n \in iter.seen,
          !.seen = @ \cup ({n} \ {NULL})]
  /\ UNCHANGED <<list, node, dup>>
listNext ==
  /\ May /\ iter.on # NULL /\ iter.next # Dangling
  /\ LET n == iter.next
     IN iter' = [iter EXCEPT
          !.next = IF n = NULL THEN NULL ELSE Beyond(n), !.current = n,
          !.over = n = NULL, !.due = @ \ {n}, !.twice = @ \/ n \in iter.seen,
          !.seen = @ \cup ({n} \ {NULL})]
  /\ UNCHANGED <<list, node, dup>>

listReleaseIterator ==
  /\ May /\ iter.on # NULL
  /\ iter' = NoIterator
  /\ UNCHANGED <<list, node, dup>>

-----------------------------------------------------------------------------
(* listDup *)

(* The copy is created; listGetIterator gives an iterator or, without      *)
(* memory, NULL, which the loop then passes to listNext: the program dies  *)
(* there, and no action follows.                                           *)
DupStart ==
  /\ May
  /\ \E from \in Live, to \in Lists \ Live, iterator \in BOOLEAN :
       /\ list' = [list EXCEPT ![to] = NoList]
       /\ dup' = [busy |-> TRUE, from |-> from, to |-> to,
                  next |-> list[from].head, iterator |-> iterator]
  /\ UNCHANGED <<node, iter>>

DupNode ==
  /\ dup.busy /\ dup.iterator /\ dup.next # NULL
  /\ \E n \in Free : listAddNodeTail(dup.to, n, node[dup.next].value)
  /\ dup' = [dup EXCEPT !.next = node[@].next]
  /\ UNCHANGED iter

(* No memory for a node, or list->dup returned NULL.                       *)
DupFail_KeepNodes ==
  /\ dup.busy /\ dup.iterator /\ dup.next # NULL
  /\ list' = [list EXCEPT ![dup.to] = NULL] /\ dup' = NoDup
  /\ UNCHANGED <<node, iter>>
DupFail ==
  /\ dup.busy /\ dup.iterator /\ dup.next # NULL
  /\ Released(dup.to) /\ dup' = NoDup
  /\ UNCHANGED iter

DupReturn ==
  /\ dup.busy /\ dup.iterator /\ dup.next = NULL
  /\ dup' = NoDup
  /\ UNCHANGED <<list, node, iter>>

Next ==
  \/ \E l \in Lists : listCreate(l) \/ listRelease(l)
  \/ AddNode \/ DelNode \/ Rotate
  \/ \E l \in Lists, forward \in BOOLEAN : listRewind(l, forward)
  \/ listNext \/ listReleaseIterator
  \/ DupStart \/ DupNode \/ DupFail \/ DupReturn

-----------------------------------------------------------------------------
(* Lookups *)

(* The node i steps from x on along the pointers f.                        *)
Steps(f, x, i) ==
  LET at[k \in 0 .. i] == IF k = 0 THEN x
                          ELSE IF at[k - 1] = NULL THEN NULL ELSE f[at[k - 1]]
  IN at[i]

listIndex_NoShift(l, i) ==
  IF i < 0 THEN Steps(Prevs(node), list[l].tail, -i)
  ELSE Steps(Nexts(node), list[l].head, i)
listIndex(l, i) ==
  IF i < 0 THEN Steps(Prevs(node), list[l].tail, (-i) - 1)
  ELSE Steps(Nexts(node), list[l].head, i)

(* The first node with the value, which list->match decides.               *)
listSearchKey(l, v) ==
  LET hits == {i \in 0 .. list[l].len : Steps(Nexts(node), list[l].head, i)
                     \in {NULL} \cup {n \in DOMAIN node : node[n].value = v}}
  IN Steps(Nexts(node), list[l].head, Min(hits))

-----------------------------------------------------------------------------
(* Properties *)

(* Every list read backwards is the list read forwards and has len nodes,  *)
(* no node is in two lists and none is in no list: what listDelNode and    *)
(* listRelease need to free each node once, and no call may leave a node   *)
(* behind.                                                                 *)
WellLinked ==
  /\ \A l \in Live :
       /\ Reverse(NodesReverse(l)) = Nodes(l) /\ IsInjective(Nodes(l))
       /\ list[l].len = Len(Nodes(l))
       /\ \A m \in Live \ {l} : Range(Nodes(l)) \cap Range(Nodes(m)) = {}
  /\ DOMAIN node = UNION {Range(Nodes(l)) : l \in Live}

(* "It's valid to remove the currently returned element": an iteration     *)
(* then still returns every node that was there from its start to its end, *)
(* and none twice.  Only the deletion of the node that comes next makes it *)
(* follow a freed node, and only that or listRotate make it miss one.      *)
IterationComplete ==
  \/ iter.stray
  \/ /\ iter.next # Dangling /\ ~iter.twice
     /\ iter.over => iter.due = {}

(* listIndex counts from 0 at the head and from -1 at the tail, and gives  *)
(* NULL outside; listSearchKey gives the first node with the value.        *)
LookupsAgree ==
  \A l \in Live :
    LET s == Nodes(l) len == Len(s)
    IN /\ \A i \in -len - 2 .. len + 1 :
            listIndex(l, i) = IF i \in 0 .. len - 1 THEN s[i + 1]
                              ELSE IF i \in -len .. -1 THEN s[len + i + 1]
                              ELSE NULL
       /\ \A v \in Values :
            listSearchKey(l, v) =
              IF v \in Range(ValuesOf(l))
              THEN s[SelectInSeq(ValuesOf(l), LAMBDA x : x = v)] ELSE NULL

(* A step of listDup leaves the original as it is, and the one that        *)
(* returns leaves a list with the same values, or no list and no node.     *)
Duplicated ==
  dup.busy => \A from \in {dup.from}, to \in {dup.to} :
    /\ Nodes(from)' = Nodes(from) /\ ValuesOf(from)' = ValuesOf(from)
    /\ ~dup'.busy =>
         \/ list'[to] # NULL /\ ValuesOf(to)' = ValuesOf(from)
         \/ list'[to] = NULL /\ DOMAIN node' \cap Range(Nodes(to)) = {}

(* A listDup that returns gives a list with the same values or, whichever  *)
(* node or value could not be had, no list and no node; "the original list *)
(* is never modified".  Without memory for its iterator it does not return *)
(* at all, and there is nothing to say of it.                              *)
DupAllOrNothing == [][Duplicated]_vars

(* Each call changes the one list it is given, in the place its name says, *)
(* and leaves the others alone.                                            *)
Sequenced ==
  \A l \in Live :
    /\ \A n \in Free, v \in Values :
         /\ listAddNodeHead(l, n, v) => InsertFirst(Nodes(l), Nodes(l)', n)
         /\ listAddNodeTail(l, n, v) => InsertLast(Nodes(l), Nodes(l)', n)
         /\ \A old \in Range(Nodes(l)) :
              /\ listInsertNode(l, old, n, v, TRUE) =>
                   InsertNext(Nodes(l), Nodes(l)', old, n)
              /\ listInsertNode(l, old, n, v, FALSE) =>
                   InsertPrevious(Nodes(l), Nodes(l)', old, n)
    /\ \A n \in Range(Nodes(l)) : listDelNode(l, n) => Delete(Nodes(l), Nodes(l)', n)
    /\ listRotate(l) => TurnRound(Nodes(l), Nodes(l)')
    /\ \A m \in Lists \ {l} : list'[m] # list[m] => Nodes(l)' = Nodes(l)

(* So every step does to the sequence what Sequence says.                  *)
IsSequence == [][Sequenced]_vars
=============================================================================
