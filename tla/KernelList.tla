------------------------------ MODULE KernelList ------------------------------
(***************************************************************************)
(* util/list.h: circular lists of links, with a link of its own as the     *)
(* head of each.  list_splice leaves the source head pointing into the     *)
(* other list; it may only be initialised again, which is what             *)
(* list_splice_init does at once.                                          *)
(***************************************************************************)
EXTENDS Integers, Sequence, Pointers

CONSTANTS Heads, Entries,
          NULL     \* what list_del leaves in the pointers of an entry

VARIABLES next, prev,
          spliced  \* the heads list_splice left behind

vars == <<next, prev, spliced>>

Links == Heads \cup Entries

(* list_for_each and list_for_each_prev *)
Listed(h) == Walk(next, next[h], h)
ListedReverse(h) == Walk(prev, prev[h], h)

list_empty(h) == next[h] = h

Init ==
  /\ next = [x \in Links |-> IF x \in Heads THEN x ELSE NULL]
  /\ prev = [x \in Links |-> IF x \in Heads THEN x ELSE NULL]
  /\ spliced = {}

(* __list_add(x, p, n), the pointers being nx and pv before.               *)
Add(nx, pv, x, p, n) ==
  /\ next' = [nx EXCEPT ![x] = n, ![p] = x]
  /\ prev' = [pv EXCEPT ![n] = x, ![x] = p]

list_add(x, h) == Add(next, prev, x, h, next[h]) /\ UNCHANGED spliced
list_add_tail(x, h) == Add(next, prev, x, prev[h], h) /\ UNCHANGED spliced

(* __list_del(prev[x], next[x]): the pointers it leaves.                   *)
NextWithout(x) == [next EXCEPT ![prev[x]] = next[x]]
PrevWithout(x) == [prev EXCEPT ![next[x]] = prev[x]]

list_del(x) ==
  /\ next' = [NextWithout(x) EXCEPT ![x] = NULL]
  /\ prev' = [PrevWithout(x) EXCEPT ![x] = NULL]
  /\ UNCHANGED spliced

list_del_init(x) ==
  /\ next' = [NextWithout(x) EXCEPT ![x] = x]
  /\ prev' = [PrevWithout(x) EXCEPT ![x] = x]
  /\ UNCHANGED spliced

(* The neighbours of the head are read after the entry has been taken out. *)
list_move(x, h) ==
  /\ Add(NextWithout(x), PrevWithout(x), x, h, NextWithout(x)[h])
  /\ UNCHANGED spliced
list_move_tail_ReadFirst(x, h) ==
  /\ Add(NextWithout(x), PrevWithout(x), x, prev[h], h)
  /\ UNCHANGED spliced
list_move_tail(x, h) ==
  /\ Add(NextWithout(x), PrevWithout(x), x, PrevWithout(x)[h], h)
  /\ UNCHANGED spliced

(* __list_splice: the pointers it leaves.                                  *)
NextSpliced(l, h) == [next EXCEPT ![h] = next[l], ![prev[l]] = next[h]]
PrevSpliced(l, h) == [prev EXCEPT ![next[l]] = h, ![next[h]] = prev[l]]

list_splice(l, h) ==
  /\ ~list_empty(l)
  /\ next' = NextSpliced(l, h) /\ prev' = PrevSpliced(l, h)
  /\ spliced' = spliced \cup {l}

list_splice_init(l, h) ==
  /\ ~list_empty(l)
  /\ next' = [NextSpliced(l, h) EXCEPT ![l] = l]
  /\ prev' = [PrevSpliced(l, h) EXCEPT ![l] = l]
  /\ UNCHANGED spliced

(* INIT_LIST_HEAD of a head that was spliced from, or of a single entry.   *)
INIT_LIST_HEAD(x) ==
  /\ next' = [next EXCEPT ![x] = x] /\ prev' = [prev EXCEPT ![x] = x]
  /\ spliced' = spliced \ {x}

Usable == Heads \ spliced
InList == UNION {Range(Listed(h)) : h \in Usable}

(* The callers add what is in no list, and remove or move what is in one.  *)
Next ==
  \/ \E x \in Entries \ InList :
       \/ INIT_LIST_HEAD(x)
       \/ \E h \in Usable : list_add(x, h) \/ list_add_tail(x, h)
  \/ \E x \in InList :
       \/ list_del(x) \/ list_del_init(x)
       \/ \E h \in Usable : list_move(x, h) \/ list_move_tail(x, h)
  \/ \E l \in Usable : \E h \in Usable \ {l} :
       list_splice(l, h) \/ list_splice_init(l, h)
  \/ \E l \in spliced : INIT_LIST_HEAD(l)

-----------------------------------------------------------------------------
(* Every usable list is a ring of its own: read backwards it is what it is *)
(* read forwards, no entry is met twice, and no two lists share an entry.  *)
(* A splice or a move that loses one pointer breaks it, often only once    *)
(* the other list is used again.                                           *)
Rings ==
  \A h \in Usable :
    /\ Reverse(ListedReverse(h)) = Listed(h) /\ IsInjective(Listed(h))
    /\ \A g \in Usable \ {h} : Range(Listed(g)) \cap Range(Listed(h)) = {}

(* Each operation acts on the list it is given as its name says, and on    *)
(* the list it takes an entry from.                                        *)
Sequenced ==
  /\ \A h \in Usable :
       /\ \A x \in Entries \ InList :
            /\ list_add(x, h) => InsertFirst(Listed(h), Listed(h)', x)
            /\ list_add_tail(x, h) => InsertLast(Listed(h), Listed(h)', x)
       /\ \A x \in Range(Listed(h)) :
            /\ list_del(x) \/ list_del_init(x) => Delete(Listed(h), Listed(h)', x)
            /\ \A g \in Usable :
                 /\ list_move(x, g) =>
                      /\ Listed(g)' = <<x>> \o Dropped(Listed(g), x)
                      /\ g # h => Delete(Listed(h), Listed(h)', x)
                 /\ list_move_tail(x, g) =>
                      /\ Listed(g)' = Append(Dropped(Listed(g), x), x)
                      /\ g # h => Delete(Listed(h), Listed(h)', x)
  /\ \A l \in Usable : \A h \in Usable \ {l} :
       /\ list_splice(l, h) => Join(Listed(h), Listed(h)', Listed(l))
       /\ list_splice_init(l, h) =>
            Join(Listed(h), Listed(h)', Listed(l)) /\ Listed(l)' = << >>

(* So every step does to the sequence what Sequence says.                  *)
IsSequence == [][Sequenced]_vars
=============================================================================
