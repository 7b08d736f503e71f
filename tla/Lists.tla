--------------------------------- MODULE Lists ---------------------------------
(***************************************************************************)
(* The three kinds of linked list of util/ side by side: adlist, the TAILQ *)
(* macros and list.h.  They share no memory, so a step is an operation on  *)
(* one of them.                                                            *)
(***************************************************************************)
EXTENDS Integers, FiniteSets

CONSTANTS Lists, Cells, Values,   \* of AdList
          Elems, Head_,           \* of TailQueue
          Heads, Entries,         \* of KernelList
          NULL, Dangling

ASSUME CellsAssumption ==
  /\ IsFiniteSet(Cells) /\ {NULL, Dangling} \cap Cells = {} /\ NULL # Dangling
  /\ NULL \notin Lists
  /\ NULL \notin [head : Cells \cup {NULL}, tail : Cells \cup {NULL}, len : Nat]
ASSUME ElemsAssumption ==
  IsFiniteSet(Elems) /\ Head_ \notin Elems /\ NULL \notin Elems \cup {Head_}
ASSUME LinksAssumption ==
  /\ IsFiniteSet(Heads \cup Entries) /\ Heads \cap Entries = {}
  /\ NULL \notin Heads \cup Entries

VARIABLES list, node, iter, dup, tnext, tprev, knext, kprev, spliced

adlist == <<list, node, iter, dup>>
tailq == <<tnext, tprev>>
kernel == <<knext, kprev, spliced>>
vars == <<list, node, iter, dup, tnext, tprev, knext, kprev, spliced>>

Ad == INSTANCE AdList
Tq == INSTANCE TailQueue WITH next <- tnext, prev <- tprev
Kl == INSTANCE KernelList WITH next <- knext, prev <- kprev

Init == Ad!Init /\ Tq!Init /\ Kl!Init

Next ==
  \/ Ad!Next /\ UNCHANGED <<tailq, kernel>>
  \/ Tq!Next /\ UNCHANGED <<adlist, kernel>>
  \/ Kl!Next /\ UNCHANGED <<adlist, tailq>>

Spec == Init /\ [][Next]_vars

(* Pointer structures stay whole, for each kind of list.                   *)
WellLinked == Ad!WellLinked /\ Tq!Mirrors /\ Kl!Rings

(* Each kind of list implements the sequence of Sequence.                  *)
IsSequence == Ad!IsSequence /\ Tq!IsSequence /\ Kl!IsSequence

(* Lookups, iteration and duplication of adlist.                           *)
LookupsAgree == Ad!LookupsAgree
IterationComplete == Ad!IterationComplete
DupAllOrNothing == Ad!DupAllOrNothing
=============================================================================
