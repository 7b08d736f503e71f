--------------------------------- MODULE Dict ---------------------------------
(***************************************************************************)
(* util/dict.c: a chained hash table that is resized by moving one bucket  *)
(* at a time from ht[0] to ht[1], with iterators and the stateless scan.   *)
(* An entry is known by its key, a chain is a sequence of keys, and the    *)
(* table operations map one dictionary to the next, since each call of the *)
(* library combines several of them.                                       *)
(*                                                                         *)
(* At most one traversal runs at a time, in trav.  Its fields must and     *)
(* seen are history: the entries that were there from the start of the     *)
(* traversal on, and those it returned; so are twice, stray and astride.   *)
(* Operators with an underscore and a capital in their name are faulty     *)
(* variants.                                                               *)
(***************************************************************************)
EXTENDS Integers, Sequences, SequencesExt, FiniteSets

CONSTANTS Keys, Vals,
          Hash,                     \* dictHashKey
          DICT_HT_INITIAL_SIZE,
          dict_force_resize_ratio,
          Sizes,                    \* the sizes dictExpand is called with
          Steps,                    \* the counts dictRehash is called with
          WordBits                  \* bits of an unsigned long

None == "none"
Dangling == "dangling"

(* The powers of two; Word is the first that an unsigned long cannot hold. *)
Two[i \in 0 .. WordBits] == IF i = 0 THEN 1 ELSE 2 * Two[i - 1]
Word == Two[WordBits]
Powers == {Two[i] : i \in 0 .. WordBits - 1}
LONG_MAX == Two[WordBits - 1] - 1

ASSUME KeysAssumption == IsFiniteSet(Keys) /\ {None, Dangling} \cap Keys = {}
ASSUME ValsAssumption == None \notin Vals
ASSUME HashAssumption == Hash \in [Keys -> Nat]
ASSUME WordAssumption == WordBits \in Nat \ {0}
\* a table of LONG_MAX buckets is more than the address space: calloc gives
\* NULL for it, which dictExpand does not look at
ASSUME SizesAssumption == Sizes \subseteq 0 .. LONG_MAX - 1 /\ Steps \subseteq Nat
ASSUME RoomAssumption == 2 * Cardinality(Keys) < LONG_MAX
ASSUME PowersAssumption == DICT_HT_INITIAL_SIZE \in Powers /\ DICT_HT_INITIAL_SIZE < LONG_MAX

VARIABLES d,               \* the dict: ht[0], ht[1], rehashidx, iterators
          val,             \* val[k]: the value the calls left k with, or None
          dict_can_resize,
          trav,            \* the dictIterator or dictScan cursor in use
          fault            \* an iterator followed a freed entry

vars == <<d, val, dict_can_resize, trav, fault>>

-----------------------------------------------------------------------------
(* Tables *)

(* _dictReset *)
NewTable(n) == [size |-> n, table |-> [i \in 0 .. n - 1 |-> << >>], used |-> 0]
NoTable == NewTable(0)

dictIsRehashing(t) == t.rehashidx # -1

Tables_First(t) == {0}
Tables(t) == IF dictIsRehashing(t) THEN {0, 1} ELSE {0}

Chained(h) == UNION {ToSet(h.table[i]) : i \in DOMAIN h.table}
Stored(t) == Chained(t.ht[0]) \cup Chained(t.ht[1])

(* h & ht->sizemask *)
Slot(h, k) == Hash[k] % h.size

(* The search loop of dictFind, dictGenericDelete and _dictKeyIndex.       *)
Holds(h, k) == h.size # 0 /\ Contains(h.table[Slot(h, k)], k)
Has(t, k) == \E i \in Tables(t) : Holds(t.ht[i], k)

Place(chain, k) == CHOOSE j \in DOMAIN chain : chain[j] = k

(* A new entry goes to the front of its chain.                             *)
Link(h, k) == [h EXCEPT !.table[Slot(h, k)] = <<k>> \o @, !.used = @ + 1]
Unlink(h, k) ==
  LET chain == h.table[Slot(h, k)]
  IN [h EXCEPT !.table[Slot(h, k)] = RemoveAt(chain, Place(chain, k)), !.used = @ - 1]

-----------------------------------------------------------------------------
(* Resizing *)

_dictNextPower_Exact(n) == n
_dictNextPower(n) ==
  IF n >= LONG_MAX THEN LONG_MAX
  ELSE Min({p \in Powers : p >= DICT_HT_INITIAL_SIZE /\ p >= n})

(* dictExpand; refused while rehashing and for sizes that are too small.   *)
Expanded(t, n) ==
  IF dictIsRehashing(t) \/ t.ht[0].used > n THEN t
  ELSE IF t.ht[0].size = 0
       THEN [t EXCEPT !.ht[0] = NewTable(_dictNextPower(n))]
       ELSE [t EXCEPT !.ht[1] = NewTable(_dictNextPower(n)), !.rehashidx = 0]

MustGrow(h) ==
  /\ h.used >= h.size
  /\ dict_can_resize \/ h.used \div h.size > dict_force_resize_ratio

_dictExpandIfNeeded(t) ==
  IF dictIsRehashing(t) THEN t
  ELSE IF t.ht[0].size = 0 THEN Expanded(t, DICT_HT_INITIAL_SIZE)
  ELSE IF MustGrow(t.ht[0]) THEN Expanded(t, t.ht[0].used * 2) ELSE t

(* The entries of a bucket are relinked in the new table, first one first. *)
LinkAll(to, chain) ==
  LET linked[j \in 0 .. Len(chain)] ==
        IF j = 0 THEN to ELSE Link(linked[j - 1], chain[j])
  IN linked[Len(chain)]

Moved_HeadOnly(from, to, i) ==
  [from |-> [from EXCEPT !.table[i] = << >>, !.used = @ - Len(from.table[i])],
   to   |-> Link(to, Head(from.table[i]))]
Moved(from, to, i) ==
  [from |-> [from EXCEPT !.table[i] = << >>, !.used = @ - Len(from.table[i])],
   to   |-> LinkAll(to, from.table[i])]

(* One round of dictRehash: the next bucket in use, or the end.            *)
RehashOne(t) ==
  IF ~dictIsRehashing(t) THEN t
  ELSE IF t.ht[0].used = 0
  THEN [t EXCEPT !.ht[0] = t.ht[1], !.ht[1] = NoTable, !.rehashidx = -1]
  ELSE LET i == Min({j \in DOMAIN t.ht[0].table :
                       j >= t.rehashidx /\ t.ht[0].table[j] # << >>})
           move == Moved(t.ht[0], t.ht[1], i)
       IN [t EXCEPT !.ht[0] = move.from, !.ht[1] = move.to,
                    !.rehashidx = i + 1]

dictRehash(t, n) ==
  LET after[i \in 0 .. n] == IF i = 0 THEN t ELSE RehashOne(after[i - 1])
  IN after[n]

(* Look-ups and updates rehash one bucket, unless a safe iterator runs.    *)
_dictRehashStep_Always(t) == RehashOne(t)
_dictRehashStep(t) == IF t.iterators = 0 THEN RehashOne(t) ELSE t

-----------------------------------------------------------------------------
(* Traversals *)

NoTraversal ==
  [kind |-> None, over |-> FALSE, table |-> 0, index |-> -1, entry |-> None,
   next |-> None, cursor |-> 0, must |-> {}, seen |-> {}, twice |-> FALSE,
   stray |-> FALSE, astride |-> FALSE]

(* What the deletion of k does to a traversal: its entry is freed.         *)
Without(tr, k) ==
  [tr EXCEPT !.entry = IF @ = k THEN Dangling ELSE @,
             !.next = IF @ = k THEN Dangling ELSE @,
             !.must = @ \ {k}, !.seen = @ \ {k},
             !.stray = @ \/ (tr.kind = "safe" /\ tr.entry # k)]

Init ==
  /\ d = [ht |-> [i \in {0, 1} |-> NoTable], rehashidx |-> -1, iterators |-> 0]
  /\ val = [k \in Keys |-> None]
  /\ dict_can_resize = TRUE
  /\ trav = NoTraversal
  /\ fault = FALSE

(* An unsafe iterator forbids every call but dictNext.                     *)
MayCall == ~fault /\ trav.kind # "unsafe"

-----------------------------------------------------------------------------
(* Calls that change the dictionary *)

(* New entries go to the table that is being filled.                       *)
Filling_First(t) == 0
Filling(t) == IF dictIsRehashing(t) THEN 1 ELSE 0

(* dictAddRaw up to its test for the key, and then.                        *)
Prepared(t) == _dictExpandIfNeeded(_dictRehashStep(t))
WithEntry(t, k) == [t EXCEPT !.ht[Filling(t)] = Link(@, k)]

(* dictAdd *)
Add(k, v) ==
  LET t == Prepared(d) IN
  /\ MayCall
  /\ \/ Has(t, k) /\ d' = t /\ UNCHANGED val
     \/ ~Has(t, k) /\ d' = WithEntry(t, k) /\ val' = [val EXCEPT ![k] = v]
  /\ UNCHANGED <<dict_can_resize, trav, fault>>

(* dictReplace: dictAdd, and if it is refused dictFind, with its own step. *)
Replace(k, v) ==
  LET t == Prepared(d) IN
  /\ MayCall
  /\ d' = IF Has(t, k) THEN _dictRehashStep(t) ELSE WithEntry(t, k)
  /\ val' = [val EXCEPT ![k] = v]
  /\ UNCHANGED <<dict_can_resize, trav, fault>>

(* dictReplaceRaw, whose caller then sets the value: dictFind, then        *)
(* dictAddRaw.                                                             *)
ReplaceRaw(k, v) ==
  LET t == _dictRehashStep(d) IN
  /\ MayCall
  /\ d' = IF Has(t, k) THEN t ELSE WithEntry(Prepared(t), k)
  /\ val' = [val EXCEPT ![k] = v]
  /\ UNCHANGED <<dict_can_resize, trav, fault>>

(* dictDelete, dictDeleteNoFree                                            *)
Delete(k) ==
  LET t == _dictRehashStep(d) IN
  /\ MayCall
  /\ d.ht[0].size # 0
  /\ \/ \E i \in Tables(t) :
          /\ Holds(t.ht[i], k)
          /\ d' = [t EXCEPT !.ht[i] = Unlink(@, k)]
          /\ val' = [val EXCEPT ![k] = None]
          /\ trav' = Without(trav, k)
     \/ ~Has(t, k) /\ d' = t /\ UNCHANGED <<val, trav>>
  /\ UNCHANGED <<dict_can_resize, fault>>

(* dictFind and dictFetchValue.                                            *)
Find ==
  /\ MayCall
  /\ d.ht[0].size # 0
  /\ d' = _dictRehashStep(d)
  /\ UNCHANGED <<val, dict_can_resize, trav, fault>>

(* dictEmpty, and dictRelease followed by dictCreate, which must not come  *)
(* while an iterator is in use.                                            *)
Empty ==
  /\ MayCall /\ trav.kind # "safe"
  /\ d' = [ht |-> [i \in {0, 1} |-> NoTable], rehashidx |-> -1, iterators |-> 0]
  /\ val' = [k \in Keys |-> None]
  /\ trav' = [trav EXCEPT !.must = {}, !.seen = {}]
  /\ UNCHANGED <<dict_can_resize, fault>>

-----------------------------------------------------------------------------
(* Calls that only move things *)

Moving(t) ==
  /\ MayCall
  /\ d' = t
  /\ UNCHANGED <<val, dict_can_resize, trav, fault>>

dictSize == d.ht[0].used + d.ht[1].used

(* The bucket that dictGetRandomKey draws as number h, and the entries it  *)
(* may return in the table t, where it draws after its rehashing step.     *)
Bucket(t, h) ==
  IF h >= t.ht[0].size THEN t.ht[1].table[h - t.ht[0].size] ELSE t.ht[0].table[h]

Drawable(t) ==
  UNION {ToSet(Bucket(t, h)) :
           h \in 0 .. (IF dictIsRehashing(t) THEN t.ht[0].size + t.ht[1].size
                                              ELSE t.ht[0].size) - 1}

GetRandomKey == dictSize # 0 /\ Moving(_dictRehashStep(d))

Expand(n) == Moving(Expanded(d, n))

(* dictResize; dictExpand refuses it while rehashing.                      *)
Resize ==
  /\ dict_can_resize
  /\ Moving(Expanded(d, Max({d.ht[0].used, DICT_HT_INITIAL_SIZE})))

(* dictRehash, and dictRehashMilliseconds for a large n; by the comment on *)
(* _dictRehashStep, not while a safe iterator runs.                        *)
Rehash(n) == trav.kind # "safe" /\ Moving(dictRehash(d, n))

(* dictEnableResize, dictDisableResize *)
SetResize(b) ==
  /\ MayCall
  /\ dict_can_resize' = b
  /\ UNCHANGED <<d, val, trav, fault>>

-----------------------------------------------------------------------------
(* Iterators *)

Started == trav.index # -1 \/ trav.table # 0

(* dictGetIterator, dictGetSafeIterator *)
GetIterator(kind) ==
  /\ ~fault /\ trav.kind = None
  /\ trav' = [NoTraversal EXCEPT !.kind = kind]
  /\ UNCHANGED <<d, val, dict_can_resize, fault>>

Places == {0, 1} \X (0 .. Word)

(* The buckets in use that come after the iterator's, in its order.        *)
Later ==
  {p \in Places :
     /\ p[1] \in Tables(d) \cup {trav.table}
     /\ p[2] \in DOMAIN d.ht[p[1]].table /\ d.ht[p[1]].table[p[2]] # << >>
     /\ p[1] > trav.table \/ (p[1] = trav.table /\ p[2] > trav.index)}

Before(p, q) == p[1] < q[1] \/ (p[1] = q[1] /\ p[2] <= q[2])

Position(k) == CHOOSE p \in Places :
  p[2] \in DOMAIN d.ht[p[1]].table /\ Contains(d.ht[p[1]].table[p[2]], k)

(* entry->next *)
Follower(k) ==
  LET p == Position(k)
      chain == d.ht[p[1]].table[p[2]]
      j == Place(chain, k)
  IN IF j = Len(chain) THEN None ELSE chain[j + 1]

(* The entry after iter->entry: saved when that one was returned.          *)
Upcoming_NotSaved == IF trav.entry \in Keys THEN Follower(trav.entry) ELSE trav.entry
Upcoming == trav.next

(* dictNext returns k, the last of what it was asked for, or NULL.         *)
Return(k, p) ==
  trav' = [trav EXCEPT
    !.table = p[1], !.index = p[2], !.entry = k, !.next = Follower(k),
    !.must = IF Started THEN @ ELSE Stored(d),
    !.seen = @ \cup {k}, !.twice = @ \/ k \in trav.seen]

NextEntry ==
  /\ ~fault
  /\ trav.kind \in {"safe", "unsafe"} /\ ~trav.over
  /\ d' = IF trav.kind = "safe" /\ ~Started
          THEN [d EXCEPT !.iterators = @ + 1] ELSE d
  /\ UNCHANGED <<val, dict_can_resize>>
  /\ \/ /\ Upcoming \in Keys
        /\ Return(Upcoming, <<trav.table, trav.index>>)
        /\ UNCHANGED fault
     \/ /\ Upcoming = Dangling
        /\ fault' = TRUE
        /\ UNCHANGED trav
     \/ /\ Upcoming = None
        /\ \/ \E p \in Later :
                /\ \A q \in Later : Before(p, q)
                /\ Return(Head(d.ht[p[1]].table[p[2]]), p)
           \/ /\ Later = {}
              /\ trav' = [trav EXCEPT !.over = TRUE, !.entry = None,
                            !.must = IF Started THEN @ ELSE Stored(d),
                            !.index = d.ht[trav.table].size]
        /\ UNCHANGED fault

ReleaseIterator ==
  /\ ~fault
  /\ trav.kind \in {"safe", "unsafe"}
  /\ d' = IF trav.kind = "safe" /\ Started
          THEN [d EXCEPT !.iterators = @ - 1] ELSE d
  /\ trav' = NoTraversal
  /\ UNCHANGED <<val, dict_can_resize, fault>>

-----------------------------------------------------------------------------
(* dictScan *)

(* rev: the lowest bit of v becomes the highest, and so on; Turned(v)[n] is *)
(* the reverse of the n lowest bits.                                       *)
Bit(v, n) == (v \div Two[n]) % 2
Turned(v) ==
  LET up[n \in 0 .. WordBits] ==
        IF n = 0 THEN 0 ELSE 2 * up[n - 1] + Bit(v, n - 1)
  IN up
rev(v) == Turned(v)[WordBits]

(* v |= ~m0, then the increment of the reversed cursor, m0 = size - 1.     *)
NextCursor_Forward(v, size) == (v + 1) % size
NextCursor(v, size) == rev((rev((v % size) + Word - size) + 1) % Word)

(* The buckets of the larger table that the loop visits: those v expands   *)
(* to, from v itself on.                                                   *)
Expansions(v, small, large) ==
  {j \in 0 .. large - 1 : j % small = v % small /\ j >= v % large}

(* The smaller table in use, and the entries a call returns.               *)
Smaller == IF dictIsRehashing(d) /\ d.ht[0].size > d.ht[1].size THEN 1 ELSE 0

Emitted_SmallerOnly(v) == LET h == d.ht[Smaller] IN ToSet(h.table[v % h.size])
Emitted(v) ==
  LET small == d.ht[Smaller]
      large == d.ht[1 - Smaller]
  IN ToSet(small.table[v % small.size])
     \cup (IF dictIsRehashing(d)
           THEN UNION {ToSet(large.table[j]) :
                         j \in Expansions(v, small.size, large.size)}
           ELSE {})

(* Is the cursor v inside a bucket of the smaller table, and are its       *)
(* expansions more than two?                                               *)
Astride(v) ==
  LET small == d.ht[Smaller].size
      large == d.ht[1 - Smaller].size
  IN dictIsRehashing(d) /\ large >= 4 * small /\ v % large >= small

(* One call, with the cursor the last one returned, 0 at first; a returned *)
(* cursor of 0 ends the scan.                                              *)
Scan ==
  /\ MayCall /\ trav.kind \in {None, "scan"} /\ ~trav.over
  /\ LET cursor == IF dictSize = 0 THEN 0
                   ELSE NextCursor(trav.cursor, d.ht[Smaller].size)
     IN trav' = [trav EXCEPT
          !.kind = "scan", !.cursor = cursor, !.over = cursor = 0,
          !.must = IF trav.kind = None THEN Stored(d) ELSE @,
          !.astride = @ \/ Astride(trav.cursor),
          !.seen = IF dictSize = 0 THEN @ ELSE @ \cup Emitted(trav.cursor)]
  /\ UNCHANGED <<d, val, dict_can_resize, fault>>

(* The caller drops a cursor, or is done with it.                          *)
EndScan ==
  /\ trav.kind = "scan"
  /\ trav' = NoTraversal
  /\ UNCHANGED <<d, val, dict_can_resize, fault>>

-----------------------------------------------------------------------------

Next ==
  \/ \E k \in Keys, v \in Vals : Add(k, v) \/ Replace(k, v) \/ ReplaceRaw(k, v)
  \/ \E k \in Keys : Delete(k)
  \/ Find \/ GetRandomKey \/ Empty \/ Resize
  \/ \E n \in Sizes : Expand(n)
  \/ \E n \in Steps : Rehash(n)
  \/ \E b \in BOOLEAN : SetResize(b)
  \/ \E kind \in {"safe", "unsafe"} : GetIterator(kind)
  \/ NextEntry \/ ReleaseIterator \/ Scan \/ EndScan

Spec == Init /\ [][Next]_vars

-----------------------------------------------------------------------------

IsTable(h) ==
  /\ h.size \in Powers \cup {0} /\ h.used \in 0 .. Cardinality(Keys)
  /\ DOMAIN h.table = 0 .. h.size - 1
  /\ \A i \in DOMAIN h.table : h.table[i] \in Seq(Keys)

(* Table sizes are powers of two, which the masks rely on; ht[1] exists    *)
(* while rehashing and only then; the iterator count is never negative.    *)
TypeOK ==
  /\ IsTable(d.ht[0]) /\ IsTable(d.ht[1])
  /\ d.rehashidx \in -1 .. d.ht[0].size
  /\ dictIsRehashing(d) <=> d.ht[1].size # 0
  /\ d.iterators \in {0, 1}
  /\ val \in [Keys -> Vals \cup {None}]
  /\ dict_can_resize \in BOOLEAN /\ fault \in BOOLEAN
  /\ trav.next \in Keys \cup {None, Dangling} /\ trav.cursor \in 0 .. Word - 1

(***************************************************************************)
(* What the rehashing loop relies on when it runs along ht[0] without a    *)
(* bound (`while(table[rehashidx] == NULL) rehashidx++'): the used         *)
(* counters are right and nothing is left, or inserted, below rehashidx.   *)
(***************************************************************************)
Occupancy(h) ==
  Cardinality(UNION {{i} \X DOMAIN h.table[i] : i \in DOMAIN h.table})

RehashTerminates ==
  /\ \A i \in {0, 1} : d.ht[i].used = Occupancy(d.ht[i])
  /\ \A j \in DOMAIN d.ht[0].table : j < d.rehashidx => d.ht[0].table[j] = << >>

(***************************************************************************)
(* A look-up finds a key exactly when an entry of that key is in one of    *)
(* the tables, at any point of a rehash and whatever the two sizes; and    *)
(* dictGetRandomKey may return any of them, so that its drawing ends.      *)
(***************************************************************************)
LookupExact ==
  /\ \A k \in Keys : Has(d, k) <=> k \in Stored(d)
  /\ LET t == _dictRehashStep(d)
     IN dictSize # 0 => Drawable(t) # {} /\ Drawable(t) = Stored(t)

(***************************************************************************)
(* The chains hold exactly the entries of the keys that the calls added    *)
(* and did not delete, each of them once: no rehashing, resizing or        *)
(* traversal loses an entry, keeps a deleted one or links one twice.       *)
(***************************************************************************)
EntriesKept ==
  /\ Stored(d) = {k \in Keys : val[k] # None}
  /\ dictSize = Cardinality(Stored(d))

(***************************************************************************)
(* An iteration with dictNext returns every entry that is there from its   *)
(* start to its end, although other entries come and go and a rehash may   *)
(* begin; and no entry twice: while a safe iterator runs, no entry moves   *)
(* to the table it has still to visit.                                     *)
(***************************************************************************)
IteratorExact ==
  /\ ~trav.twice
  /\ trav.kind \in {"safe", "unsafe"} /\ trav.over => trav.must \subseteq trav.seen

(***************************************************************************)
(* A scan returns every entry that is there from its start to its end,     *)
(* although the table grows, shrinks and is rehashed between two calls of  *)
(* dictScan, unless a call came when one table was four times the other    *)
(* and its cursor inside a bucket of the smaller (ScanComplete is about    *)
(* that case).                                                             *)
(***************************************************************************)
ScanCompleteUnlessAstride ==
  trav.kind = "scan" /\ trav.over /\ ~trav.astride => trav.must \subseteq trav.seen

(***************************************************************************)
(* dict.c on dictScan: "The function guarantees all elements present in    *)
(* the dictionary get returned between the start and end of the            *)
(* iteration."                                                             *)
(***************************************************************************)
ScanComplete ==
  trav.kind = "scan" /\ trav.over => trav.must \subseteq trav.seen

(***************************************************************************)
(* The cursor of a scan moves strictly forward in the reversed order       *)
(* whatever happens to the tables, so that every scan ends.                *)
(***************************************************************************)
ScanAdvances ==
  [][Scan /\ ~trav'.over => rev(trav'.cursor) > rev(trav.cursor)]_vars

(***************************************************************************)
(* A safe iterator reaches freed memory only if the caller deleted an      *)
(* entry other than the one last returned.                                 *)
(***************************************************************************)
FaultNeedsStrayDelete == fault => trav.stray
=============================================================================
