------------------------------ MODULE LinkProofs ------------------------------
(***************************************************************************)
(* Proofs about cells that point at each other: the pointers of a list are *)
(* those of a sequence of distinct cells, and the operations of the TAILQ  *)
(* macros and of list.h keep them so and do to that sequence what Sequence *)
(* says, for any number of elements.                                       *)
(***************************************************************************)
EXTENDS Lists, Sequence, Pointers, SequenceLemmas

(* The cells of a list with elements q, from its head h = Cell(q, h, 0)    *)
(* round to its head again.                                                *)
Cell(q, h, i) == IF i \in 1 .. Len(q) THEN q[i] ELSE h

(* Pointers N lead forwards through the cells, pointers P lead backwards.  *)
Ring(N, P, h, S, q) ==
  /\ q \in Seq(S) /\ Distinct(q) /\ h \notin ToSet(q)
  /\ \A i \in 0 .. Len(q) : /\ N[Cell(q, h, i)] = Cell(q, h, i + 1)
                            /\ P[Cell(q, h, i + 1)] = Cell(q, h, i)

(* The sequence of a ring.                                                 *)
LEMMA RingIs ==
  ASSUME NEW N, NEW P, NEW h, NEW S, NEW q, Ring(N, P, h, S, q)
  PROVE  /\ q \in Seq(S) /\ Distinct(q) /\ h \notin ToSet(q)
         /\ Len(q) \in Nat /\ DOMAIN q = 1 .. Len(q)
BY LenProperties DEF Ring

(* Cells i and j point at each other.                                      *)
Linked(N, P, q, h, i, j) ==
  N[Cell(q, h, i)] = Cell(q, h, j) /\ P[Cell(q, h, j)] = Cell(q, h, i)

(* Neighbours on a ring point at each other.                               *)
LEMMA RingLink ==
  ASSUME NEW N, NEW P, NEW h, NEW S, NEW q, NEW i, NEW j,
         Ring(N, P, h, S, q), i \in 0 .. Len(q), j = i + 1
  PROVE  Linked(N, P, q, h, i, j)
BY DEF Ring, Linked

(* No cell comes twice before the head comes again.                        *)
LEMMA CellsDiffer ==
  ASSUME NEW S, NEW q, NEW h, NEW i, NEW j,
         q \in Seq(S), Distinct(q), h \notin ToSet(q),
         i # j, \/ i \in 0 .. Len(q) /\ j \in 0 .. Len(q)
                \/ i \in 1 .. Len(q) + 1 /\ j \in 1 .. Len(q) + 1
  PROVE  Cell(q, h, i) # Cell(q, h, j)
<1>1. Len(q) \in Nat /\ DOMAIN q = 1 .. Len(q)
  BY LenProperties
<1>2. \A k \in 1 .. Len(q) : q[k] # h
  BY <1>1 DEF ToSet
<1>3. \A k, l \in 1 .. Len(q) : q[k] = q[l] => k = l
  BY <1>1 DEF Distinct
<1>4. i \in 1 .. Len(q) \/ j \in 1 .. Len(q)
  BY <1>1
<1>5. QED
  BY <1>2, <1>3, <1>4 DEF Cell

(* Which cells there are.                                                  *)
LEMMA CellsAre ==
  ASSUME NEW S, NEW q, NEW h, NEW i, q \in Seq(S)
  PROVE  Cell(q, h, i) \in ToSet(q) \cup {h}
<1>1. DOMAIN q = 1 .. Len(q)
  BY LenProperties
<1>2. QED
  BY <1>1 DEF Cell, ToSet

(* Pointers that lead the same way form the same ring.                     *)
Unchanged(N, P, N2, P2, X) == \A x \in X : N2[x] = N[x] /\ P2[x] = P[x]

(* A ring stays one while none of its cells is written.                    *)
LEMMA SameRing ==
  ASSUME NEW N, NEW P, NEW h, NEW S, NEW q, NEW N2, NEW P2, Ring(N, P, h, S, q),
         Unchanged(N, P, N2, P2, ToSet(q) \cup {h})
  PROVE  Ring(N2, P2, h, S, q)
<1>1. \A i : Cell(q, h, i) \in ToSet(q) \cup {h}
  BY CellsAre DEF Ring
<1>2. QED
  BY <1>1 DEF Ring, Unchanged

(* A list with nothing in it.                                              *)
LEMMA EmptyRing ==
  ASSUME NEW N, NEW P, NEW h, NEW S, N[h] = h, P[h] = h
  PROVE  Ring(N, P, h, S, << >>)
<1>1. << >> \in Seq(S) /\ Len(<< >>) = 0 /\ DOMAIN << >> = {}
  BY EmptySeq, LenProperties
<1>2. Cell(<< >>, h, 0) = h /\ Cell(<< >>, h, 0 + 1) = h
  BY <1>1 DEF Cell
<1>3. \A i \in 0 .. Len(<< >>) : i = 0
  BY <1>1
<1>4. Distinct(<< >>) /\ ToSet(<< >>) = {}
  BY <1>1 DEF Distinct, ToSet
<1>5. QED
  BY <1>1, <1>2, <1>3, <1>4 DEF Ring

-----------------------------------------------------------------------------
(* Insertion *)

(* The cells when e has become the p-th element.                           *)
CellsInserted(q, h, p, e, r) ==
  /\ Len(r) = Len(q) + 1
  /\ \A j \in 0 .. p - 1 : Cell(r, h, j) = Cell(q, h, j)
  /\ Cell(r, h, p) = e
  /\ \A j \in p .. Len(q) + 1 : Cell(r, h, j + 1) = Cell(q, h, j)

(* The cells of a ring that gains an element.                              *)
LEMMA InsertedCells ==
  ASSUME NEW S, NEW q, NEW h, NEW p, NEW e, NEW r,
         q \in Seq(S), p \in 1 .. Len(q) + 1, Inserted(S, q, p, e, r)
  PROVE  CellsInserted(q, h, p, e, r)
<1>1. /\ Len(q) \in Nat /\ Len(r) = Len(q) + 1 /\ r[p] = e
      /\ \A j \in 1 .. p - 1 : r[j] = q[j]
      /\ \A j \in p .. Len(q) : r[j + 1] = q[j]
  BY DEF Inserted
<1>2. ASSUME NEW j \in 0 .. p - 1
      PROVE  Cell(r, h, j) = Cell(q, h, j)
  <2>1. CASE j = 0
    BY <1>1, <2>1 DEF Cell
  <2>2. CASE j # 0
    BY <1>1, <2>2 DEF Cell
  <2>3. QED
    BY <2>1, <2>2
<1>3. Cell(r, h, p) = e
  BY <1>1 DEF Cell
<1>4. ASSUME NEW j \in p .. Len(q) + 1
      PROVE  Cell(r, h, j + 1) = Cell(q, h, j)
  <2>1. PICK k \in Int : k = j + 1
    BY <1>1
  <2>2. CASE j = Len(q) + 1
    BY <1>1, <2>1, <2>2 DEF Cell
  <2>3. CASE j \in p .. Len(q)
    <3>1. r[k] = q[j]
      BY <1>1, <2>1, <2>3
    <3>2. k \in 1 .. Len(r) /\ j \in 1 .. Len(q)
      BY <1>1, <2>1, <2>3
    <3>3. QED
      BY <2>1, <3>1, <3>2 DEF Cell
  <2>4. QED
    BY <1>1, <2>2, <2>3
<1>5. QED
  BY <1>1, <1>2, <1>3, <1>4 DEF CellsInserted

(* c and d point at each other in N2 and P2, and the other cells of X keep *)
(* the pointers of N and P.                                                *)
Joined(N, P, N2, P2, X, c, d) ==
  /\ N2[c] = d /\ P2[d] = c
  /\ \A x \in X : (x # c => N2[x] = N[x]) /\ (x # d => P2[x] = P[x])

(* The same with e between them.                                           *)
Parted(N, P, N2, P2, X, c, d, e) ==
  /\ N2[c] = e /\ N2[e] = d /\ P2[d] = e /\ P2[e] = c
  /\ \A x \in X : (x # c => N2[x] = N[x]) /\ (x # d => P2[x] = P[x])

(* The cells c and d get e between them, and nothing else changes.         *)
LEMMA InsertRing ==
  ASSUME NEW N, NEW P, NEW h, NEW S, NEW q, NEW a, NEW p, NEW e, NEW c, NEW d,
         NEW N2, NEW P2,
         Ring(N, P, h, S, q), a \in 0 .. Len(q), p = a + 1,
         c = Cell(q, h, a), d = Cell(q, h, p),
         e \in S, e \notin ToSet(q), e # h,
         Parted(N, P, N2, P2, ToSet(q) \cup {h}, c, d, e)
  PROVE  Ring(N2, P2, h, S, InsertAt(q, p, e))
<1>0. /\ N2[c] = e /\ N2[e] = d /\ P2[d] = e /\ P2[e] = c
      /\ \A x \in ToSet(q) \cup {h} : /\ x # c => N2[x] = N[x]
                                      /\ x # d => P2[x] = P[x]
  BY DEF Parted
<1>1. PICK r : r = InsertAt(q, p, e)
  OBVIOUS
<1>2. /\ q \in Seq(S) /\ Distinct(q) /\ h \notin ToSet(q)
      /\ Len(q) \in Nat /\ DOMAIN q = 1 .. Len(q) /\ p \in 1 .. Len(q) + 1
  BY RingIs
<1>3. Inserted(S, q, p, e, r)
  BY <1>1, <1>2, InsertAtFacts
<1>4. /\ Len(r) = Len(q) + 1
      /\ \A j \in 0 .. a : Cell(r, h, j) = Cell(q, h, j)
      /\ Cell(r, h, p) = e
      /\ \A j \in p .. Len(q) + 1 : Cell(r, h, j + 1) = Cell(q, h, j)
  <2>1. CellsInserted(q, h, p, e, r)
    BY <1>2, <1>3, InsertedCells
  <2>2. p - 1 = a
    OBVIOUS
  <2>3. QED
    BY <2>1, <2>2 DEF CellsInserted
<1>5. r \in Seq(S) /\ Distinct(r) /\ h \notin ToSet(r)
  <2>1. r \in Seq(S)
    BY <1>3 DEF Inserted
  <2>2. QED
    BY <1>1, <1>2, <2>1, InsertAdds
<1>6. \A i : Cell(q, h, i) \in ToSet(q) \cup {h}
  BY <1>2, CellsAre
<1>7. ASSUME NEW i \in 0 .. Len(r), NEW j, j = i + 1
      PROVE  N2[Cell(r, h, i)] = Cell(r, h, j) /\ P2[Cell(r, h, j)] = Cell(r, h, i)
  <2>1. CASE i < a
    <3>1. i \in 0 .. Len(q) /\ i \in 0 .. a /\ j \in 0 .. a /\ i # a /\ j # p
          /\ j \in 1 .. Len(q) + 1
      BY <1>2, <1>7, <2>1
    <3>2. Linked(N, P, q, h, i, j)
      BY <1>7, <3>1, RingLink
    <3>3. Cell(q, h, i) # c /\ Cell(q, h, j) # d
      BY <1>2, <3>1, CellsDiffer
    <3>4. N2[Cell(q, h, i)] = N[Cell(q, h, i)] /\ P2[Cell(q, h, j)] = P[Cell(q, h, j)]
      BY <1>0, <1>6, <3>3
    <3>5. QED
      BY <1>4, <3>1, <3>2, <3>4 DEF Linked
  <2>2. CASE i = a
    <3>1. j = p /\ i \in 0 .. a
      BY <1>2, <1>7, <2>2
    <3>2. QED
      BY <1>0, <1>4, <2>2, <3>1
  <2>3. CASE i = p
    <3>1. p \in p .. Len(q) + 1 /\ j = p + 1
      BY <1>2, <1>7, <2>3
    <3>2. Cell(r, h, j) = d
      BY <1>4, <3>1
    <3>3. QED
      BY <1>0, <1>4, <2>3, <3>2
  <2>4. CASE i > p
    <3>1. PICK k \in Int : k = i - 1
      BY <2>4
    <3>2. /\ k \in p .. Len(q) + 1 /\ i \in p .. Len(q) + 1 /\ i = k + 1 /\ j = i + 1
          /\ k \in 0 .. Len(q) /\ k # a /\ i # p /\ i \in 1 .. Len(q) + 1
      BY <1>2, <1>4, <1>7, <2>4, <3>1
    <3>3. Cell(r, h, i) = Cell(q, h, k) /\ Cell(r, h, j) = Cell(q, h, i)
      BY <1>4, <3>2
    <3>4. Linked(N, P, q, h, k, i)
      BY <3>2, RingLink
    <3>5. Cell(q, h, k) # c /\ Cell(q, h, i) # d
      BY <1>2, <3>2, CellsDiffer
    <3>6. N2[Cell(q, h, k)] = N[Cell(q, h, k)] /\ P2[Cell(q, h, i)] = P[Cell(q, h, i)]
      BY <1>0, <1>6, <3>5
    <3>7. QED
      BY <3>3, <3>4, <3>6 DEF Linked
  <2>5. i < a \/ i = a \/ i = p \/ i > p
    BY <1>2
  <2>6. QED
    BY <2>1, <2>2, <2>3, <2>4, <2>5
<1>8. QED
  BY <1>1, <1>5, <1>7 DEF Ring

-----------------------------------------------------------------------------
(* Removal *)

(* The cells when the k-th element has been taken out.                     *)
CellsRemoved(q, h, k, r) ==
  /\ Len(r) = Len(q) - 1
  /\ \A j \in 0 .. k - 1 : Cell(r, h, j) = Cell(q, h, j)
  /\ \A j \in k .. Len(q) : Cell(r, h, j) = Cell(q, h, j + 1)

(* The cells of a ring that loses an element.                              *)
LEMMA RemovedCells ==
  ASSUME NEW S, NEW q, NEW h, NEW k, q \in Seq(S), k \in 1 .. Len(q)
  PROVE  CellsRemoved(q, h, k, RemoveAt(q, k))
<1>1. PICK r : r = RemoveAt(q, k)
  OBVIOUS
<1>2. /\ Len(q) \in Nat /\ Len(r) = Len(q) - 1 /\ DOMAIN r = 1 .. Len(q) - 1
      /\ \A j \in 1 .. Len(q) - 1 : r[j] = IF j < k THEN q[j] ELSE q[j + 1]
  BY <1>1, RemoveAtFacts, LenProperties
<1>3. ASSUME NEW j \in 0 .. k - 1
      PROVE  Cell(r, h, j) = Cell(q, h, j)
  <2>1. CASE j = 0
    BY <1>2, <2>1 DEF Cell
  <2>2. CASE j # 0
    BY <1>2, <2>2 DEF Cell
  <2>3. QED
    BY <2>1, <2>2
<1>4. ASSUME NEW j \in k .. Len(q)
      PROVE  Cell(r, h, j) = Cell(q, h, j + 1)
  <2>1. PICK i \in Int : i = j + 1
    BY <1>2
  <2>2. CASE j = Len(q)
    BY <1>2, <2>1, <2>2 DEF Cell
  <2>3. CASE j < Len(q)
    <3>1. r[j] = q[i] /\ j \in 1 .. Len(r) /\ i \in 1 .. Len(q)
      BY <1>2, <2>1, <2>3
    <3>2. QED
      BY <2>1, <3>1 DEF Cell
  <2>4. QED
    BY <1>2, <2>2, <2>3
<1>5. QED
  BY <1>1, <1>2, <1>3, <1>4 DEF CellsRemoved

(* The cells on both sides of the k-th are linked, and no other changes.   *)
LEMMA RemoveRing ==
  ASSUME NEW N, NEW P, NEW h, NEW S, NEW q, NEW a, NEW k, NEW b, NEW c, NEW d,
         NEW N2, NEW P2,
         Ring(N, P, h, S, q), k \in 1 .. Len(q), k = a + 1, b = k + 1,
         a \in 0 .. Len(q), c = Cell(q, h, a), d = Cell(q, h, b),
         Joined(N, P, N2, P2, (ToSet(q) \ {q[k]}) \cup {h}, c, d)
  PROVE  Ring(N2, P2, h, S, RemoveAt(q, k))
<1>0. /\ N2[c] = d /\ P2[d] = c
      /\ \A x \in (ToSet(q) \ {q[k]}) \cup {h} : /\ x # c => N2[x] = N[x]
                                                 /\ x # d => P2[x] = P[x]
  BY DEF Joined
<1>1. PICK r : r = RemoveAt(q, k)
  OBVIOUS
<1>2. /\ q \in Seq(S) /\ Distinct(q) /\ h \notin ToSet(q)
      /\ Len(q) \in Nat /\ DOMAIN q = 1 .. Len(q)
  BY RingIs
<1>3. /\ Len(r) = Len(q) - 1
      /\ \A j \in 0 .. k - 1 : Cell(r, h, j) = Cell(q, h, j)
      /\ \A j \in k .. Len(q) : Cell(r, h, j) = Cell(q, h, j + 1)
  <2>1. CellsRemoved(q, h, k, r)
    BY <1>1, <1>2, RemovedCells
  <2>2. QED
    BY <2>1 DEF CellsRemoved
<1>4. /\ r \in Seq(S) /\ Distinct(r) /\ ToSet(r) = ToSet(q) \ {q[k]} /\ h \notin ToSet(r)
  BY <1>1, <1>2, RemoveAtFacts, RemoveTakesOne
<1>5. \A i : Cell(r, h, i) \in (ToSet(q) \ {q[k]}) \cup {h}
  BY <1>4, CellsAre
<1>6. ASSUME NEW i \in 0 .. Len(r), NEW j, j = i + 1
      PROVE  N2[Cell(r, h, i)] = Cell(r, h, j) /\ P2[Cell(r, h, j)] = Cell(r, h, i)
  <2>1. CASE i < a
    <3>1. i \in 0 .. Len(q) /\ i \in 0 .. k - 1 /\ j \in 0 .. k - 1 /\ i # a /\ j # b
          /\ j \in 1 .. Len(q) + 1 /\ b \in 1 .. Len(q) + 1
      BY <1>2, <1>6, <2>1
    <3>2. Linked(N, P, q, h, i, j)
      BY <1>6, <3>1, RingLink
    <3>3. Cell(q, h, i) # c /\ Cell(q, h, j) # d
      BY <1>2, <3>1, CellsDiffer
    <3>4. Cell(r, h, i) = Cell(q, h, i) /\ Cell(r, h, j) = Cell(q, h, j)
      BY <1>3, <3>1
    <3>5. QED
      BY <1>0, <1>5, <3>2, <3>3, <3>4 DEF Linked
  <2>2. CASE i = a
    <3>1. j = k /\ i \in 0 .. k - 1 /\ j \in k .. Len(q)
      BY <1>2, <1>6, <2>2
    <3>2. Cell(r, h, j) = d /\ Cell(r, h, i) = c
      BY <1>3, <2>2, <3>1
    <3>3. QED
      BY <1>0, <3>2
  <2>3. CASE i > a
    <3>1. /\ i \in k .. Len(q) /\ j \in k .. Len(q) /\ j \in 0 .. Len(q) /\ j # a
          /\ j + 1 # b /\ j + 1 \in 1 .. Len(q) + 1 /\ b \in 1 .. Len(q) + 1
      BY <1>2, <1>3, <1>6, <2>3
    <3>2. PICK m : m = j + 1
      OBVIOUS
    <3>3. Linked(N, P, q, h, j, m)
      BY <3>1, <3>2, RingLink
    <3>4. Cell(q, h, j) # c /\ Cell(q, h, m) # d
      BY <1>2, <3>1, <3>2, CellsDiffer
    <3>5. Cell(r, h, i) = Cell(q, h, j) /\ Cell(r, h, j) = Cell(q, h, m)
      BY <1>3, <1>6, <3>1, <3>2
    <3>6. QED
      BY <1>0, <1>5, <3>3, <3>4, <3>5 DEF Linked
  <2>4. i < a \/ i = a \/ i > a
    BY <1>2
  <2>5. QED
    BY <2>1, <2>2, <2>3, <2>4
<1>7. QED
  BY <1>1, <1>4, <1>6 DEF Ring

-----------------------------------------------------------------------------
(* Replacement *)

(* e takes the place of the k-th element between its neighbours c and d.   *)
LEMMA ReplaceRing ==
  ASSUME NEW N, NEW P, NEW h, NEW S, NEW q, NEW a, NEW k, NEW b, NEW c, NEW d, NEW e,
         NEW N2, NEW P2,
         Ring(N, P, h, S, q), k \in 1 .. Len(q), k = a + 1, b = k + 1,
         a \in 0 .. Len(q), c = Cell(q, h, a), d = Cell(q, h, b),
         e \in S, e \notin ToSet(q), e # h,
         Parted(N, P, N2, P2, (ToSet(q) \ {q[k]}) \cup {h}, c, d, e)
  PROVE  Ring(N2, P2, h, S, [q EXCEPT ![k] = e])
<1>0. /\ N2[c] = e /\ N2[e] = d /\ P2[d] = e /\ P2[e] = c
      /\ \A x \in (ToSet(q) \ {q[k]}) \cup {h} : /\ x # c => N2[x] = N[x]
                                                 /\ x # d => P2[x] = P[x]
  BY DEF Parted
<1>1. PICK r : r = [q EXCEPT ![k] = e]
  OBVIOUS
<1>2. /\ q \in Seq(S) /\ Distinct(q) /\ h \notin ToSet(q)
      /\ Len(q) \in Nat /\ DOMAIN q = 1 .. Len(q)
  BY RingIs
<1>3. /\ r \in Seq(S) /\ Len(r) = Len(q) /\ DOMAIN r = 1 .. Len(q)
      /\ \A i \in 1 .. Len(q) : r[i] = IF i = k THEN e ELSE q[i]
  <2>1. r \in Seq(S) /\ Len(r) = Len(q)
    BY <1>1, <1>2, ExceptSeq
  <2>2. QED
    BY <1>1, <1>2, <2>1
<1>4. \A i \in 1 .. Len(q) : q[i] # e /\ q[i] # h
  BY <1>2 DEF ToSet
<1>5. Distinct(r)
  BY <1>2, <1>3, <1>4 DEF Distinct
<1>6. h \notin ToSet(r)
  BY <1>3, <1>4 DEF ToSet
<1>7. \A i : Cell(r, h, i) = IF i = k THEN e ELSE Cell(q, h, i)
  BY <1>3 DEF Cell
<1>8. ASSUME NEW i \in 0 .. Len(q) + 1, i # k
      PROVE  Cell(q, h, i) \in (ToSet(q) \ {q[k]}) \cup {h}
  <2>1. Cell(q, h, i) \in ToSet(q) \cup {h}
    BY <1>2, CellsAre
  <2>2. Cell(q, h, i) # q[k]
    BY <1>2, <1>4, <1>8 DEF Cell, Distinct
  <2>3. QED
    BY <2>1, <2>2
<1>9. ASSUME NEW i \in 0 .. Len(r), NEW j, j = i + 1
      PROVE  N2[Cell(r, h, i)] = Cell(r, h, j) /\ P2[Cell(r, h, j)] = Cell(r, h, i)
  <2>1. CASE i = a
    <3>1. i # k /\ j = k
      BY <1>2, <1>9, <2>1
    <3>2. QED
      BY <1>0, <1>7, <2>1, <3>1
  <2>2. CASE i = k
    <3>1. j # k /\ j = b
      BY <1>2, <1>9, <2>2
    <3>2. QED
      BY <1>0, <1>7, <2>2, <3>1
  <2>3. CASE i # a /\ i # k
    <3>1. /\ i \in 0 .. Len(q) /\ j \in 1 .. Len(q) + 1 /\ b \in 1 .. Len(q) + 1
          /\ j # b /\ j # k /\ i \in 0 .. Len(q) + 1 /\ j \in 0 .. Len(q) + 1
      BY <1>2, <1>3, <1>9, <2>3
    <3>2. Linked(N, P, q, h, i, j)
      BY <1>9, <3>1, RingLink
    <3>3. Cell(q, h, i) # c /\ Cell(q, h, j) # d
      BY <1>2, <2>3, <3>1, CellsDiffer
    <3>4. /\ Cell(q, h, i) \in (ToSet(q) \ {q[k]}) \cup {h}
          /\ Cell(q, h, j) \in (ToSet(q) \ {q[k]}) \cup {h}
      BY <1>8, <2>3, <3>1
    <3>5. Cell(r, h, i) = Cell(q, h, i) /\ Cell(r, h, j) = Cell(q, h, j)
      BY <1>7, <2>3, <3>1
    <3>6. QED
      BY <1>0, <3>2, <3>3, <3>4, <3>5 DEF Linked
  <2>4. QED
    BY <2>1, <2>2, <2>3
<1>10. \A i \in 0 .. Len(r) : /\ N2[Cell(r, h, i)] = Cell(r, h, i + 1)
                             /\ P2[Cell(r, h, i + 1)] = Cell(r, h, i)
  BY <1>9
<1>11. QED
  BY <1>1, <1>3, <1>5, <1>6, <1>10 DEF Ring

-----------------------------------------------------------------------------
(* Reading backwards *)

(* What Reverse makes of a sequence.                                       *)
LEMMA ReverseFacts ==
  ASSUME NEW S, NEW q, q \in Seq(S)
  PROVE  /\ Reverse(q) \in Seq(S) /\ Len(Reverse(q)) = Len(q)
         /\ ToSet(Reverse(q)) = ToSet(q) /\ Reverse(Reverse(q)) = q
         /\ Distinct(q) => Distinct(Reverse(q))
<1>1. PICK n \in Nat : n = Len(q)
  OBVIOUS
<1>2. DOMAIN q = 1 .. n /\ \A i \in 1 .. n : q[i] \in S
  BY <1>1, LenProperties
<1>3. PICK r : r = Reverse(q)
  OBVIOUS
<1>4. r = [i \in 1 .. n |-> q[(n - i) + 1]]
  BY <1>1, <1>3 DEF Reverse
<1>5. ASSUME NEW i \in 1 .. n
      PROVE  (n - i) + 1 \in 1 .. n /\ (n - ((n - i) + 1)) + 1 = i
  OBVIOUS
<1>6. r \in [1 .. n -> S]
  BY <1>2, <1>4, <1>5
<1>7. r \in Seq(S) /\ Len(r) = n /\ DOMAIN r = 1 .. n
  BY <1>6
<1>8. \A i \in 1 .. n : r[(n - i) + 1] = q[i]
  BY <1>4, <1>5
<1>9. ToSet(r) = ToSet(q)
  <2>1. ToSet(r) \subseteq ToSet(q)
    BY <1>2, <1>4, <1>5, <1>7 DEF ToSet
  <2>2. ToSet(q) \subseteq ToSet(r)
    BY <1>2, <1>5, <1>7, <1>8 DEF ToSet
  <2>3. QED
    BY <2>1, <2>2
<1>10. Reverse(r) = q
  <2>1. Reverse(r) = [i \in 1 .. n |-> r[(n - i) + 1]]
    BY <1>7 DEF Reverse
  <2>2. \A i \in 1 .. n : r[(n - i) + 1] = q[i]
    BY <1>8
  <2>3. q = [i \in 1 .. n |-> q[i]]
    BY <1>2, LenProperties
  <2>4. QED
    BY <2>1, <2>2, <2>3
<1>11. ASSUME Distinct(q)
       PROVE  Distinct(r)
  <2>1. SUFFICES ASSUME NEW i \in 1 .. n, NEW j \in 1 .. n, r[i] = r[j]
                 PROVE  i = j
    BY <1>7 DEF Distinct
  <2>2. q[(n - i) + 1] = q[(n - j) + 1]
    BY <1>4, <2>1
  <2>3. (n - i) + 1 = (n - j) + 1
    BY <1>2, <1>5, <1>11, <2>2 DEF Distinct
  <2>4. QED
    BY <2>3
<1>12. QED
  BY <1>1, <1>3, <1>7, <1>9, <1>10, <1>11

(* A ring is one in the other direction as well.                           *)
LEMMA ReverseRing ==
  ASSUME NEW N, NEW P, NEW h, NEW S, NEW q, Ring(N, P, h, S, q)
  PROVE  Ring(P, N, h, S, Reverse(q))
<1>1. /\ q \in Seq(S) /\ Distinct(q) /\ h \notin ToSet(q)
      /\ Len(q) \in Nat /\ DOMAIN q = 1 .. Len(q)
  BY RingIs
<1>2. PICK r : r = Reverse(q)
  OBVIOUS
<1>3. r \in Seq(S) /\ Len(r) = Len(q) /\ ToSet(r) = ToSet(q) /\ Distinct(r)
  BY <1>1, <1>2, ReverseFacts
<1>4. ASSUME NEW i \in 0 .. Len(q) + 1, NEW m, m = (Len(q) - i) + 1
      PROVE  Cell(r, h, i) = Cell(q, h, m)
  <2>1. m \in 1 .. Len(q) <=> i \in 1 .. Len(q)
    BY <1>1, <1>4
  <2>2. i \in 1 .. Len(q) => r[i] = q[m]
    BY <1>2, <1>4 DEF Reverse
  <2>3. QED
    BY <1>3, <2>1, <2>2 DEF Cell
<1>5. ASSUME NEW i \in 0 .. Len(q), NEW j, j = i + 1
      PROVE  P[Cell(r, h, i)] = Cell(r, h, j) /\ N[Cell(r, h, j)] = Cell(r, h, i)
  <2>1. PICK m, n : m = (Len(q) - i) + 1 /\ n = (Len(q) - j) + 1
    OBVIOUS
  <2>2. n \in 0 .. Len(q) /\ m = n + 1 /\ i \in 0 .. Len(q) + 1 /\ j \in 0 .. Len(q) + 1
    BY <1>1, <1>5, <2>1
  <2>3. Linked(N, P, q, h, n, m)
    BY <2>2, RingLink
  <2>4. Cell(r, h, i) = Cell(q, h, m) /\ Cell(r, h, j) = Cell(q, h, n)
    BY <1>4, <2>1, <2>2
  <2>5. QED
    BY <2>3, <2>4 DEF Linked
<1>6. QED
  BY <1>1, <1>2, <1>3, <1>5 DEF Ring

-----------------------------------------------------------------------------
(* Joining *)

(* What becomes of two sequences that are joined.                          *)
LEMMA JoinFacts ==
  ASSUME NEW S, NEW q, NEW r, q \in Seq(S), r \in Seq(S), Distinct(q), Distinct(r),
         ToSet(q) \cap ToSet(r) = {}
  PROVE  /\ r \o q \in Seq(S) /\ Distinct(r \o q) /\ ToSet(r \o q) = ToSet(r) \cup ToSet(q)
         /\ Len(r \o q) = Len(r) + Len(q)
         /\ \A i \in 1 .. Len(r) + Len(q) :
              (r \o q)[i] = IF i <= Len(r) THEN r[i] ELSE q[i - Len(r)]
<1>1. PICK m, n \in Nat : m = Len(r) /\ n = Len(q)
  OBVIOUS
<1>2. PICK t : t = r \o q
  OBVIOUS
<1>3. /\ t \in Seq(S) /\ Len(t) = m + n
      /\ \A i \in 1 .. m + n : t[i] = IF i <= m THEN r[i] ELSE q[i - m]
  BY <1>1, <1>2, ConcatProperties
<1>4. DOMAIN t = 1 .. m + n /\ DOMAIN r = 1 .. m /\ DOMAIN q = 1 .. n
  BY <1>1, <1>3, LenProperties
<1>5. \A i \in 1 .. m, j \in 1 .. n : r[i] # q[j]
  BY <1>4 DEF ToSet
<1>6. ASSUME NEW i \in 1 .. m + n
      PROVE  \/ i \in 1 .. m /\ t[i] = r[i]
             \/ i - m \in 1 .. n /\ t[i] = q[i - m] /\ i > m
  BY <1>3
<1>7. ToSet(t) \subseteq ToSet(r) \cup ToSet(q)
  BY <1>4, <1>6 DEF ToSet
<1>8. ToSet(r) \subseteq ToSet(t)
  <2>1. \A i \in 1 .. m : i \in 1 .. m + n /\ t[i] = r[i]
    BY <1>3
  <2>2. QED
    BY <1>4, <2>1 DEF ToSet
<1>9. ToSet(q) \subseteq ToSet(t)
  <2>1. ASSUME NEW i \in 1 .. n
        PROVE  q[i] \in ToSet(t)
    <3>1. PICK k : k = i + m
      OBVIOUS
    <3>2. k \in 1 .. m + n /\ ~(k <= m) /\ k - m = i
      BY <3>1
    <3>3. t[k] = q[i]
      BY <1>3, <3>2
    <3>4. QED
      BY <1>4, <3>2, <3>3 DEF ToSet
  <2>2. QED
    BY <1>4, <2>1 DEF ToSet
<1>10. Distinct(t)
  <2>1. SUFFICES ASSUME NEW i \in 1 .. m + n, NEW j \in 1 .. m + n, t[i] = t[j]
                 PROVE  i = j
    BY <1>4 DEF Distinct
  <2>2. PICK a, b \in Int : a = i - m /\ b = j - m
    OBVIOUS
  <2>3. \/ i \in 1 .. m /\ t[i] = r[i]
        \/ a \in 1 .. n /\ t[i] = q[a] /\ i > m
    BY <1>6, <2>2
  <2>4. \/ j \in 1 .. m /\ t[j] = r[j]
        \/ b \in 1 .. n /\ t[j] = q[b] /\ j > m
    BY <1>6, <2>2
  <2>5. (i <= m <=> j <= m) /\ (i > m => a = b)
    <3>1. ASSUME i \in 1 .. m, t[i] = r[i]
          PROVE  j \in 1 .. m
      BY <1>5, <2>1, <2>4, <3>1
    <3>2. ASSUME a \in 1 .. n, t[i] = q[a], i > m
          PROVE  b \in 1 .. n /\ t[j] = q[b] /\ j > m
      BY <1>5, <2>1, <2>4, <3>2
    <3>3. ASSUME a \in 1 .. n, b \in 1 .. n, t[i] = q[a], t[j] = q[b]
          PROVE  a = b
      <4>1. \A x, y \in 1 .. n : q[x] = q[y] => x = y
        BY <1>4 DEF Distinct
      <4>2. QED
        BY <2>1, <3>3, <4>1
    <3>4. QED
      BY <2>3, <3>1, <3>2, <3>3
  <2>6. CASE i <= m
    BY <1>4, <2>1, <2>3, <2>4, <2>5, <2>6 DEF Distinct
  <2>7. QED
    BY <2>2, <2>5, <2>6
<1>11. QED
  BY <1>1, <1>2, <1>3, <1>7, <1>8, <1>9, <1>10

(* h and f point at each other, and l and d.                               *)
Bridged(N, P, N2, P2, X, h, f, l, d) ==
  /\ N2[h] = f /\ P2[f] = h /\ N2[l] = d /\ P2[d] = l
  /\ \A x \in X : /\ x # h /\ x # l => N2[x] = N[x]
                  /\ x # f /\ x # d => P2[x] = P[x]

(* The elements r of another list, which has some, go before those of q.   *)
LEMMA JoinRing ==
  ASSUME NEW N, NEW P, NEW h, NEW g, NEW S, NEW q, NEW r, NEW N2, NEW P2,
         NEW f, NEW l, NEW d,
         Ring(N, P, h, S, q), Ring(N, P, g, S, r), Len(r) # 0,
         ToSet(q) \cap ToSet(r) = {}, h \notin ToSet(r),
         f = r[1], l = r[Len(r)], d = Cell(q, h, 1),
         Bridged(N, P, N2, P2, ToSet(q) \cup ToSet(r) \cup {h}, h, f, l, d)
  PROVE  Ring(N2, P2, h, S, r \o q)
<1>0. /\ N2[h] = f /\ P2[f] = h /\ N2[l] = d /\ P2[d] = l
      /\ \A x \in ToSet(q) \cup ToSet(r) \cup {h} : /\ x # h /\ x # l => N2[x] = N[x]
                                                    /\ x # f /\ x # d => P2[x] = P[x]
  BY DEF Bridged
<1>1. /\ q \in Seq(S) /\ Distinct(q) /\ h \notin ToSet(q)
      /\ r \in Seq(S) /\ Distinct(r) /\ g \notin ToSet(r)
  BY RingIs
<1>2. PICK m, n \in Nat : m = Len(r) /\ n = Len(q)
  BY <1>1
<1>3. m # 0 /\ DOMAIN q = 1 .. n /\ DOMAIN r = 1 .. m
  BY <1>1, <1>2, LenProperties
<1>4. PICK t : t = r \o q
  OBVIOUS
<1>5. /\ t \in Seq(S) /\ Distinct(t) /\ ToSet(t) = ToSet(r) \cup ToSet(q) /\ Len(t) = m + n
      /\ \A i \in 1 .. m + n : t[i] = IF i <= m THEN r[i] ELSE q[i - m]
  BY <1>1, <1>2, <1>4, JoinFacts
<1>6. h \notin ToSet(t)
  BY <1>1, <1>5
<1>7. /\ \A i \in 1 .. m : Cell(t, h, i) = r[i] /\ Cell(r, g, i) = r[i]
      /\ Cell(t, h, 0) = h /\ Cell(q, h, 0) = h
  BY <1>2, <1>5 DEF Cell
<1>8. ASSUME NEW k \in 1 .. n + 1, NEW i, i = m + k
      PROVE  Cell(t, h, i) = Cell(q, h, k)
  BY <1>2, <1>5, <1>8 DEF Cell
<1>9. \A i : Cell(t, h, i) \in ToSet(q) \cup ToSet(r) \cup {h}
  BY <1>5, CellsAre
<1>10. \A i \in 1 .. m : r[i] # h
  BY <1>3 DEF ToSet
<1>11. ASSUME NEW i \in 0 .. m + n, NEW j, j = i + 1
       PROVE  N2[Cell(t, h, i)] = Cell(t, h, j) /\ P2[Cell(t, h, j)] = Cell(t, h, i)
  <2>1. CASE i = 0
    <3>1. Cell(t, h, i) = h /\ Cell(t, h, j) = f
      BY <1>3, <1>7, <1>11, <2>1
    <3>2. QED
      BY <1>0, <3>1
  <2>2. CASE i = m
    <3>1. 1 \in 1 .. n + 1 /\ j = m + 1 /\ m \in 1 .. m
      BY <1>3, <1>11, <2>2
    <3>2. Cell(t, h, j) = d
      BY <1>8, <3>1
    <3>3. Cell(t, h, i) = l
      BY <1>2, <1>7, <2>2, <3>1
    <3>4. QED
      BY <1>0, <3>2, <3>3
  <2>3. CASE i \in 1 .. m - 1
    <3>1. i \in 0 .. m /\ i \in 1 .. m /\ j \in 1 .. m /\ i # m /\ j # 1 /\ 1 \in 1 .. m
      BY <1>3, <1>11, <2>3
    <3>2. Linked(N, P, r, g, i, j)
      BY <1>2, <1>11, <3>1, RingLink
    <3>3. r[i] # h /\ r[i] # l /\ r[j] # f
      BY <1>1, <1>2, <1>3, <1>10, <3>1 DEF Distinct
    <3>4. r[j] # d
      <4>1. d \in ToSet(q) \cup {h}
        BY <1>1, CellsAre
      <4>2. r[j] \in ToSet(r)
        BY <1>3, <3>1 DEF ToSet
      <4>3. QED
        BY <4>1, <4>2
    <3>5. Cell(t, h, i) = r[i] /\ Cell(t, h, j) = r[j]
      BY <1>7, <3>1
    <3>6. N[r[i]] = r[j] /\ P[r[j]] = r[i]
      BY <1>7, <3>1, <3>2 DEF Linked
    <3>7. N2[r[i]] = N[r[i]] /\ P2[r[j]] = P[r[j]]
      <4>1. r[i] \in ToSet(r) /\ r[j] \in ToSet(r)
        BY <1>3, <3>1 DEF ToSet
      <4>2. QED
        BY <1>0, <3>3, <3>4, <4>1
    <3>8. QED
      BY <3>5, <3>6, <3>7
  <2>4. CASE i > m
    <3>1. PICK k, b : k = i - m /\ b = k + 1
      OBVIOUS
    <3>2. /\ k \in 1 .. n /\ k \in 0 .. n /\ k \in 1 .. n + 1 /\ b \in 1 .. n + 1
          /\ i = m + k /\ j = m + b /\ b # 1 /\ 1 \in 1 .. n + 1
      BY <1>11, <2>4, <3>1
    <3>3. Linked(N, P, q, h, k, b)
      BY <1>2, <3>1, <3>2, RingLink
    <3>4. Cell(q, h, b) # d
      BY <1>1, <1>2, <3>2, CellsDiffer
    <3>5. Cell(q, h, k) = q[k] /\ q[k] \in ToSet(q)
      BY <1>2, <1>3, <3>2 DEF Cell, ToSet
    <3>6. l \in ToSet(r) /\ f \in ToSet(r)
      BY <1>2, <1>3 DEF ToSet
    <3>7. Cell(q, h, k) # h /\ Cell(q, h, k) # l
      BY <1>1, <3>5, <3>6
    <3>8. Cell(q, h, b) # f
      <4>1. Cell(q, h, b) \in ToSet(q) \cup {h}
        BY <1>1, CellsAre
      <4>2. QED
        BY <3>6, <4>1
    <3>9. Cell(t, h, i) = Cell(q, h, k) /\ Cell(t, h, j) = Cell(q, h, b)
      BY <1>8, <3>2
    <3>10. N2[Cell(q, h, k)] = N[Cell(q, h, k)] /\ P2[Cell(q, h, b)] = P[Cell(q, h, b)]
      <4>1. Cell(q, h, k) \in ToSet(q) \cup {h} /\ Cell(q, h, b) \in ToSet(q) \cup {h}
        BY <1>1, CellsAre
      <4>2. QED
        BY <1>0, <3>4, <3>7, <3>8, <4>1
    <3>11. QED
      BY <3>3, <3>9, <3>10 DEF Linked
  <2>5. QED
    BY <2>1, <2>2, <2>3, <2>4
<1>12. \A i \in 0 .. Len(t) : /\ N2[Cell(t, h, i)] = Cell(t, h, i + 1)
                             /\ P2[Cell(t, h, i + 1)] = Cell(t, h, i)
  BY <1>5, <1>11
<1>13. QED
  BY <1>4, <1>5, <1>6, <1>12 DEF Ring

-----------------------------------------------------------------------------
(* Walks *)

(* From x on, field leads through q to end.                                *)
Leads(field, x, end, S, q) ==
  /\ q \in Seq(S) /\ Distinct(q) /\ end \notin ToSet(q)
  /\ IsFiniteSet(DOMAIN field) /\ ToSet(q) \subseteq DOMAIN field
  /\ x = Cell(q, end, 1)
  /\ \A i \in 1 .. Len(q) : field[q[i]] = Cell(q, end, i + 1)

(* Then a walk along field meets the elements of q.                        *)
LEMMA WalkIs ==
  ASSUME NEW field, NEW x, NEW end, NEW S, NEW q, Leads(field, x, end, S, q)
  PROVE  Walk(field, x, end) = q
<1> DEFINE N == Cardinality(DOMAIN field)
           After(c) == IF c \in DOMAIN field \ {end} THEN field[c] ELSE end
           F == CHOOSE f : f = [i \in 0 .. N |-> IF i = 0 THEN x
                       ELSE IF f[i - 1] \in DOMAIN field \ {end}
                            THEN field[f[i - 1]] ELSE end]
           E == [i \in 0 .. N |-> Cell(q, end, i + 1)]
<1>1. /\ N \in Nat /\ Len(q) \in Nat /\ Len(q) <= N
      /\ DOMAIN q = 1 .. Len(q) /\ \A i \in 1 .. Len(q) : q[i] \in DOMAIN field \ {end}
  <2>1. q \in Seq(S) /\ Distinct(q)
    BY DEF Leads
  <2>2. IsFiniteSet(ToSet(q)) /\ Cardinality(ToSet(q)) = Len(q)
    BY <2>1, DistinctCounts
  <2>3. IsFiniteSet(DOMAIN field) /\ ToSet(q) \subseteq DOMAIN field
    BY DEF Leads
  <2>4. Cardinality(ToSet(q)) <= N /\ N \in Nat
    BY <2>3, FS_Subset, FS_CardinalityType
  <2>5. Len(q) \in Nat /\ DOMAIN q = 1 .. Len(q)
    BY <2>1, LenProperties
  <2>6. QED
    BY <2>2, <2>3, <2>4, <2>5 DEF Leads, ToSet
<1>2. Walk(field, x, end) = [i \in 1 .. Cardinality({i \in 0 .. N : F[i] # end}) |-> F[i - 1]]
  BY DEF Walk
<1> HIDE DEF N
<1>3. ASSUME NEW i \in 0 .. N
      PROVE  E[i] = IF i = 0 THEN x ELSE After(E[i - 1])
  <2>1. CASE i = 0
    <3>1. E[i] = Cell(q, end, 1)
      BY <1>1, <2>1
    <3>2. QED
      BY <2>1, <3>1 DEF Leads
  <2>2. CASE i # 0
    <3>1. i - 1 \in 0 .. N /\ (i - 1) + 1 = i
      BY <1>1, <2>2
    <3>2. E[i - 1] = Cell(q, end, i) /\ E[i] = Cell(q, end, i + 1)
      BY <3>1
    <3> HIDE DEF E
    <3>3. CASE i \in 1 .. Len(q)
      <4>1. Cell(q, end, i) = q[i] /\ q[i] \in DOMAIN field \ {end}
        BY <1>1, <3>3 DEF Cell
      <4>2. field[q[i]] = Cell(q, end, i + 1)
        BY <3>3 DEF Leads
      <4>3. QED
        BY <2>2, <3>2, <4>1, <4>2
    <3>4. CASE i \notin 1 .. Len(q)
      <4>1. i + 1 \notin 1 .. Len(q)
        BY <1>1, <2>2, <3>4
      <4>2. Cell(q, end, i) = end /\ Cell(q, end, i + 1) = end
        BY <3>4, <4>1 DEF Cell
      <4>3. QED
        BY <2>2, <3>2, <4>2
    <3>5. QED
      BY <3>3, <3>4
  <2>3. QED
    BY <2>1, <2>2
<1>4. E = [i \in 0 .. N |-> IF i = 0 THEN x
                       ELSE IF E[i - 1] \in DOMAIN field \ {end}
                            THEN field[E[i - 1]] ELSE end]
  <2>1. E = [i \in 0 .. N |-> E[i]]
    OBVIOUS
  <2> HIDE DEF E
  <2>2. QED
    BY <1>3, <2>1
<1>5. F = [i \in 0 .. N |-> IF i = 0 THEN x
                       ELSE IF F[i - 1] \in DOMAIN field \ {end}
                            THEN field[F[i - 1]] ELSE end]
  BY <1>4
<1> HIDE DEF E, F
<1>6. \A i \in 0 .. N : F[i] = E[i]
  <2> DEFINE T == {m \in Nat : m <= N => F[m] = E[m]}
  <2>1. 0 \in T
    BY <1>1, <1>3, <1>5
  <2>2. ASSUME NEW m \in Nat, m \in T
        PROVE  m + 1 \in T
    <3>1. SUFFICES ASSUME m + 1 <= N
                   PROVE  F[m + 1] = E[m + 1]
      OBVIOUS
    <3>2. m + 1 \in 0 .. N /\ m + 1 # 0 /\ (m + 1) - 1 = m /\ F[m] = E[m]
      BY <1>1, <2>2, <3>1
    <3>3. F[m + 1] = After(F[m]) /\ E[m + 1] = After(E[m])
      BY <1>3, <1>5, <3>2
    <3>4. QED
      BY <3>2, <3>3
  <2> HIDE DEF T
  <2>3. Nat \subseteq T
    BY <2>1, <2>2, NatSetInduction
  <2>4. QED
    BY <1>1, <2>3 DEF T
<1>7. ASSUME NEW i \in 0 .. N
      PROVE  F[i] = IF i < Len(q) THEN q[i + 1] ELSE end
  <2>1. F[i] = Cell(q, end, i + 1)
    BY <1>6 DEF E
  <2>2. i + 1 \in 1 .. Len(q) <=> i < Len(q)
    BY <1>1
  <2>3. QED
    BY <2>1, <2>2 DEF Cell
<1>8. {i \in 0 .. N : F[i] # end} = 0 .. Len(q) - 1
  <2>1. ASSUME NEW i \in 0 .. N
        PROVE  F[i] # end <=> i < Len(q)
    <3>1. i < Len(q) => i + 1 \in 1 .. Len(q)
      BY <1>1
    <3>2. QED
      BY <1>1, <1>7, <3>1
  <2>2. \A i \in 0 .. Len(q) - 1 : i \in 0 .. N /\ i < Len(q)
    BY <1>1
  <2>3. \A i \in 0 .. N : i < Len(q) => i \in 0 .. Len(q) - 1
    BY <1>1
  <2>4. QED
    BY <2>1, <2>2, <2>3
<1>9. Cardinality(0 .. Len(q) - 1) = Len(q)
  <2>1. PICK b : b = Len(q) - 1
    OBVIOUS
  <2>a. b \in Int
    BY <1>1, <2>1
  <2>2. Cardinality(0 .. b) = IF 0 > b THEN 0 ELSE b - 0 + 1
    BY <2>a, FS_Interval
  <2>3. QED
    BY <1>1, <2>1, <2>2
<1>10. ASSUME NEW i \in 1 .. Len(q)
       PROVE  F[i - 1] = q[i]
  <2>1. i - 1 \in 0 .. N /\ i - 1 < Len(q) /\ (i - 1) + 1 = i
    BY <1>1
  <2>2. F[i - 1] = q[(i - 1) + 1]
    BY <1>7, <2>1
  <2>3. QED
    BY <2>1, <2>2
<1>11. q = [i \in 1 .. Len(q) |-> q[i]]
  BY LenProperties DEF Leads
<1>12. QED
  BY <1>2, <1>8, <1>9, <1>10, <1>11

(* What a walk meets in a ring, when end stands for the head.              *)
LEMMA RingWalk ==
  ASSUME NEW N, NEW P, NEW h, NEW S, NEW q, NEW field, NEW x, NEW end,
         Ring(N, P, h, S, q), IsFiniteSet(DOMAIN field), ToSet(q) \subseteq DOMAIN field,
         end \notin ToSet(q), x = IF N[h] = h THEN end ELSE N[h],
         \A c \in ToSet(q) : field[c] = IF N[c] = h THEN end ELSE N[c]
  PROVE  Walk(field, x, end) = q
<1>1. /\ q \in Seq(S) /\ Distinct(q) /\ h \notin ToSet(q)
      /\ Len(q) \in Nat /\ DOMAIN q = 1 .. Len(q)
  BY RingIs
<1>2. ASSUME NEW i \in 0 .. Len(q), NEW j, j = i + 1
      PROVE  Cell(q, end, j) = IF N[Cell(q, h, i)] = h THEN end ELSE N[Cell(q, h, i)]
  <2>1. Linked(N, P, q, h, i, j)
    BY <1>2, RingLink
  <2>2. N[Cell(q, h, i)] = Cell(q, h, j)
    BY <2>1 DEF Linked
  <2>3. j \in 1 .. Len(q) => q[j] # h
    BY <1>1 DEF ToSet
  <2>4. QED
    BY <2>2, <2>3 DEF Cell
<1>3. x = Cell(q, end, 1)
  <2>1. 0 \in 0 .. Len(q) /\ 1 = 0 + 1
    BY <1>1
  <2>2. Cell(q, h, 0) = h
    BY <1>1 DEF Cell
  <2>3. QED
    BY <1>2, <2>1, <2>2
<1>4. ASSUME NEW i \in 1 .. Len(q)
      PROVE  field[q[i]] = Cell(q, end, i + 1)
  <2>1. i \in 0 .. Len(q) /\ Cell(q, h, i) = q[i] /\ q[i] \in ToSet(q)
    BY <1>1 DEF Cell, ToSet
  <2>2. QED
    BY <1>2, <2>1
<1>5. Leads(field, x, end, S, q)
  BY <1>1, <1>3, <1>4 DEF Leads
<1>6. QED
  BY <1>5, WalkIs

-----------------------------------------------------------------------------
(* The cells of a ring, by name.                                           *)

OnRing(q, h, c) ==
  /\ \E i : i \in 0 .. Len(q) /\ c = Cell(q, h, i)
  /\ \E i : i \in 1 .. Len(q) + 1 /\ c = Cell(q, h, i)
  /\ c # h => \E i : i \in 1 .. Len(q) /\ c = q[i] /\ c = Cell(q, h, i)

(* A cell of a ring is at a place of it.                                   *)
LEMMA IsCell ==
  ASSUME NEW S, NEW q, NEW h, NEW c, q \in Seq(S), c \in ToSet(q) \cup {h}
  PROVE  OnRing(q, h, c)
<1>1. Len(q) \in Nat /\ DOMAIN q = 1 .. Len(q)
  BY LenProperties
<1>2. CASE c = h
  <2>1. Cell(q, h, 0) = h /\ Cell(q, h, Len(q) + 1) = h
    BY <1>1 DEF Cell
  <2>2. 0 \in 0 .. Len(q) /\ Len(q) + 1 \in 1 .. Len(q) + 1
    BY <1>1
  <2>3. QED
    BY <1>2, <2>1, <2>2 DEF OnRing
<1>3. CASE c \in ToSet(q)
  <2>1. PICK i \in 1 .. Len(q) : c = q[i]
    BY <1>1, <1>3 DEF ToSet
  <2>2. c = Cell(q, h, i)
    BY <2>1 DEF Cell
  <2>3. i \in 0 .. Len(q) /\ i \in 1 .. Len(q) + 1
    BY <1>1
  <2>4. QED
    BY <2>1, <2>2, <2>3 DEF OnRing
<1>4. QED
  BY <1>2, <1>3

(* The two directions undo each other and stay within the list.            *)
LEMMA RingInverse ==
  ASSUME NEW N, NEW P, NEW h, NEW S, NEW q, NEW c,
         Ring(N, P, h, S, q), c \in ToSet(q) \cup {h}
  PROVE  /\ N[c] \in ToSet(q) \cup {h} /\ P[c] \in ToSet(q) \cup {h}
         /\ N[P[c]] = c /\ P[N[c]] = c
<1>1. q \in Seq(S) /\ Len(q) \in Nat
  BY RingIs
<1>2. \A i : Cell(q, h, i) \in ToSet(q) \cup {h}
  BY <1>1, CellsAre
<1>a. OnRing(q, h, c)
  BY <1>1, IsCell
<1>3. PICK i : i \in 0 .. Len(q) /\ c = Cell(q, h, i)
  BY <1>a DEF OnRing
<1>4. PICK j : j \in 1 .. Len(q) + 1 /\ c = Cell(q, h, j)
  BY <1>a DEF OnRing
<1>5. PICK m : m = i + 1
  OBVIOUS
<1>6. PICK n : n = j - 1
  OBVIOUS
<1>7. n \in 0 .. Len(q) /\ j = n + 1
  BY <1>1, <1>4, <1>6
<1>8. Linked(N, P, q, h, i, m) /\ Linked(N, P, q, h, n, j)
  BY <1>3, <1>5, <1>7, RingLink
<1>9. QED
  BY <1>2, <1>3, <1>4, <1>8 DEF Linked

-----------------------------------------------------------------------------
(* An insertion in front and one at the end are insertions.                *)

(* Only one sequence is q with e inserted at p.                            *)
LEMMA InsertedSame ==
  ASSUME NEW S, NEW q, NEW p, NEW e, NEW r, NEW t, q \in Seq(S), p \in 1 .. Len(q) + 1,
         Inserted(S, q, p, e, r), Inserted(S, q, p, e, t)
  PROVE  r = t
<1>1. PICK n \in Nat : n = Len(q)
  OBVIOUS
<1>2. /\ r \in Seq(S) /\ Len(r) = n + 1 /\ t \in Seq(S) /\ Len(t) = n + 1
  BY <1>1 DEF Inserted
<1>3. ASSUME NEW j \in 1 .. n + 1
      PROVE  r[j] = t[j]
  <2>1. CASE j < p
    <3>1. j \in 1 .. p - 1
      BY <1>1, <2>1
    <3>2. QED
      BY <3>1 DEF Inserted
  <2>2. CASE j = p
    BY <2>2 DEF Inserted
  <2>3. CASE j > p
    <3>1. PICK k : k = j - 1
      OBVIOUS
    <3>2. k \in p .. n /\ j = k + 1
      BY <1>1, <2>3, <3>1
    <3>3. r[k + 1] = q[k] /\ t[k + 1] = q[k]
      BY <1>1, <3>2 DEF Inserted
    <3>4. QED
      BY <3>2, <3>3
  <2>4. QED
    BY <1>1, <2>1, <2>2, <2>3
<1>4. \A i \in 1 .. Len(r) : r[i] = t[i]
  BY <1>2, <1>3
<1>5. QED
  BY <1>2, <1>4, SeqEqual

(* To put an element first is to insert it.                                *)
LEMMA PushIsInsert ==
  ASSUME NEW S, NEW q, NEW e, q \in Seq(S), e \in S
  PROVE  InsertAt(q, 1, e) = <<e>> \o q
<1>1. PICK r : r = <<e>> \o q
  OBVIOUS
<1>2. Len(q) \in Nat /\ 1 \in 1 .. Len(q) + 1
  BY LenProperties
<1>3. <<e>> \in Seq(S) /\ Len(<<e>>) = 1 /\ <<e>>[1] = e
  OBVIOUS
<1>4. /\ r \in Seq(S) /\ Len(r) = 1 + Len(q)
      /\ \A i \in 1 .. 1 + Len(q) : r[i] = IF i <= 1 THEN <<e>>[i] ELSE q[i - 1]
  BY <1>1, <1>3, ConcatProperties
<1>5. r[1] = e
  BY <1>2, <1>3, <1>4
<1>6. ASSUME NEW j \in 1 .. Len(q)
      PROVE  r[j + 1] = q[j]
  <2>1. PICK k : k = j + 1
    OBVIOUS
  <2>2. k \in 1 .. 1 + Len(q) /\ ~(k <= 1) /\ k - 1 = j
    BY <1>2, <2>1
  <2>3. r[k] = q[k - 1]
    BY <1>4, <2>2
  <2>4. QED
    BY <2>1, <2>2, <2>3
<1>7. \A j \in 1 .. 1 - 1 : FALSE
  OBVIOUS
<1>8. Inserted(S, q, 1, e, r)
  BY <1>2, <1>4, <1>5, <1>6, <1>7 DEF Inserted
<1>9. Inserted(S, q, 1, e, InsertAt(q, 1, e))
  BY <1>2, InsertAtFacts
<1>10. QED
  BY <1>1, <1>2, <1>8, <1>9, InsertedSame

(* To append an element is to insert it.                                   *)
LEMMA AppendIsInsert ==
  ASSUME NEW S, NEW q, NEW e, NEW p, q \in Seq(S), e \in S, p = Len(q) + 1
  PROVE  InsertAt(q, p, e) = Append(q, e)
<1>1. PICK r : r = Append(q, e)
  OBVIOUS
<1>2. Len(q) \in Nat /\ p \in 1 .. Len(q) + 1
  BY LenProperties
<1>3. /\ r \in Seq(S) /\ Len(r) = Len(q) + 1
      /\ \A i \in 1 .. Len(q) : r[i] = q[i]
      /\ r[Len(q) + 1] = e
  BY <1>1, AppendProperties
<1>4. (\A j \in 1 .. p - 1 : j \in 1 .. Len(q)) /\ \A j \in p .. Len(q) : FALSE
  BY <1>2
<1>5. Inserted(S, q, p, e, r)
  BY <1>3, <1>4 DEF Inserted
<1>6. Inserted(S, q, p, e, InsertAt(q, p, e))
  BY <1>2, InsertAtFacts
<1>7. QED
  BY <1>1, <1>2, <1>5, <1>6, InsertedSame
-----------------------------------------------------------------------------
(* The sequences of Sequence *)

(* Where an element is.                                                    *)
LEMMA AtIs ==
  ASSUME NEW S, NEW q, NEW k, q \in Seq(S), Distinct(q), k \in 1 .. Len(q)
  PROVE  At(q, q[k]) = k
<1>1. DOMAIN q = 1 .. Len(q)
  BY LenProperties
<1>2. \A i \in 1 .. Len(q) : q[i] = q[k] => i = k
  BY <1>1 DEF Distinct
<1>3. QED
  BY <1>2 DEF At

(* The two names of the elements of a sequence.                            *)
LEMMA RangeIs ==
  ASSUME NEW q
  PROVE  Range(q) = ToSet(q) /\ (IsInjective(q) <=> Distinct(q))
BY DEF Range, ToSet, IsInjective, Distinct

-----------------------------------------------------------------------------
(* The TAILQ macros *)

TqCells == Elems \cup {Head_}

(* Forward pointers of a queue, with the head at the end.                  *)
TqNext(nx) == [c \in TqCells |-> Tq!BackOf(nx[c])]

TqList(nx, pv, q) ==
  /\ DOMAIN nx = TqCells /\ DOMAIN pv = TqCells
  /\ \A c \in ToSet(q) \cup {Head_} : nx[c] # Head_
  /\ Ring(TqNext(nx), pv, Head_, Elems, q)

(* The sequence that the pointers of a queue form.                         *)
LEMMA TqListIs ==
  ASSUME NEW nx, NEW pv, NEW q, TqList(nx, pv, q)
  PROVE  /\ q \in Seq(Elems) /\ Distinct(q) /\ Head_ \notin ToSet(q) /\ NULL \notin TqCells
         /\ Len(q) \in Nat /\ DOMAIN q = 1 .. Len(q) /\ ToSet(q) \subseteq Elems
         /\ Ring(TqNext(nx), pv, Head_, Elems, q)
         /\ DOMAIN nx = TqCells /\ DOMAIN pv = TqCells /\ IsFiniteSet(TqCells)
<1>1. Ring(TqNext(nx), pv, Head_, Elems, q)
  BY DEF TqList
<1>2. q \in Seq(Elems) /\ Distinct(q) /\ Head_ \notin ToSet(q) /\ Len(q) \in Nat /\ DOMAIN q = 1 .. Len(q)
  BY <1>1, RingIs
<1>3. IsFiniteSet(TqCells)
  BY ElemsAssumption, FS_AddElement DEF TqCells
<1>4. ToSet(q) \subseteq Elems
  BY <1>2, ElementsOf
<1>5. QED
  BY <1>1, <1>2, <1>3, <1>4, ElemsAssumption DEF TqList, TqCells

(* The pointers of a cell of the queue.                                    *)
TqCell(nx, pv, q, c) ==
  /\ TqNext(nx)[c] = Tq!BackOf(nx[c]) /\ TqNext(nx)[c] \in ToSet(q) \cup {Head_}
  /\ nx[c] = IF TqNext(nx)[c] = Head_ THEN NULL ELSE TqNext(nx)[c]
  /\ pv[c] \in ToSet(q) \cup {Head_}
  /\ TqNext(nx)[pv[c]] = c /\ pv[TqNext(nx)[c]] = c
  /\ nx[pv[c]] = IF c = Head_ THEN NULL ELSE c

(* The pointers of each cell of a queue.                                   *)
LEMMA TqAt ==
  ASSUME NEW nx, NEW pv, NEW q, NEW c, TqList(nx, pv, q), c \in ToSet(q) \cup {Head_}
  PROVE  TqCell(nx, pv, q, c)
<1>1. Ring(TqNext(nx), pv, Head_, Elems, q) /\ ToSet(q) \cup {Head_} \subseteq TqCells
  BY TqListIs DEF TqCells
<1>2. /\ TqNext(nx)[c] \in ToSet(q) \cup {Head_} /\ pv[c] \in ToSet(q) \cup {Head_}
      /\ TqNext(nx)[pv[c]] = c /\ pv[TqNext(nx)[c]] = c
  BY <1>1, RingInverse
<1>3. ASSUME NEW x \in ToSet(q) \cup {Head_}
      PROVE  /\ TqNext(nx)[x] = Tq!BackOf(nx[x])
             /\ nx[x] = IF TqNext(nx)[x] = Head_ THEN NULL ELSE TqNext(nx)[x]
  <2>1. x \in TqCells /\ nx[x] # Head_
    BY <1>1 DEF TqList
  <2>2. TqNext(nx)[x] = Tq!BackOf(nx[x])
    BY <2>1 DEF TqNext
  <2>3. QED
    BY <2>1, <2>2 DEF Tq!BackOf
<1>4. QED
  BY <1>2, <1>3 DEF TqCell

(* The cell before c, as TAILQ_PREV finds it.                              *)
TqBefore(nx, pv, c) == nx[pv[pv[c]]]

(* What walks over the pointers of a queue visit.                          *)
LEMMA TqWalks ==
  ASSUME NEW nx, NEW pv, NEW q, TqList(nx, pv, q)
  PROVE  /\ Walk(nx, nx[Head_], NULL) = q
         /\ Walk([c \in {x \in DOMAIN pv : pv[x] # NULL} |-> TqBefore(nx, pv, c)],
                 TqBefore(nx, pv, Head_), NULL) = Reverse(q)
<1>1. /\ q \in Seq(Elems) /\ Ring(TqNext(nx), pv, Head_, Elems, q)
      /\ ToSet(q) \cup {Head_} \subseteq TqCells /\ NULL \notin TqCells
      /\ DOMAIN nx = TqCells /\ DOMAIN pv = TqCells /\ IsFiniteSet(TqCells)
  BY TqListIs DEF TqCells
<1>2. Walk(nx, nx[Head_], NULL) = q
  <2>1. \A c \in ToSet(q) \cup {Head_} :
          nx[c] = IF TqNext(nx)[c] = Head_ THEN NULL ELSE TqNext(nx)[c]
    BY TqAt DEF TqCell
  <2>2. QED
    BY <1>1, <2>1, RingWalk
<1>3. PICK field :
        field = [c \in {x \in DOMAIN pv : pv[x] # NULL} |-> TqBefore(nx, pv, c)]
  OBVIOUS
<1>4. PICK r : r = Reverse(q)
  OBVIOUS
<1>5. Ring(pv, TqNext(nx), Head_, Elems, r) /\ ToSet(r) = ToSet(q)
  BY <1>1, <1>4, ReverseRing, ReverseFacts
<1>6. ASSUME NEW c \in ToSet(q) \cup {Head_}
      PROVE  /\ c \in DOMAIN pv /\ pv[c] # NULL
             /\ TqBefore(nx, pv, c) = IF pv[c] = Head_ THEN NULL ELSE pv[c]
  <2>1. pv[c] \in ToSet(q) \cup {Head_}
    BY TqAt DEF TqCell
  <2>2. nx[pv[pv[c]]] = IF pv[c] = Head_ THEN NULL ELSE pv[c]
    <3>1. PICK b : b = pv[c]
      OBVIOUS
    <3>2. TqCell(nx, pv, q, b)
      BY <2>1, <3>1, TqAt
    <3>3. pv[b] \in ToSet(q) \cup {Head_} /\ TqNext(nx)[pv[b]] = b
      BY <3>2 DEF TqCell
    <3>4. TqCell(nx, pv, q, pv[b])
      BY <3>3, TqAt
    <3>5. nx[pv[b]] = IF TqNext(nx)[pv[b]] = Head_ THEN NULL ELSE TqNext(nx)[pv[b]]
      BY <3>4 DEF TqCell
    <3>6. QED
      BY <3>1, <3>3, <3>5
  <2>3. QED
    BY <1>1, <2>1, <2>2 DEF TqBefore
<1>7. IsFiniteSet(DOMAIN field)
  <2>1. DOMAIN field \subseteq TqCells
    BY <1>1, <1>3
  <2>2. QED
    BY <1>1, <2>1, FS_Subset
<1>8. \A c \in ToSet(q) : c \in DOMAIN field /\ field[c] = TqBefore(nx, pv, c)
  BY <1>3, <1>6
<1>9. Walk(field, TqBefore(nx, pv, Head_), NULL) = r
  <2>1. ToSet(r) \subseteq DOMAIN field /\ NULL \notin ToSet(r)
    BY <1>1, <1>5, <1>8
  <2>2. TqBefore(nx, pv, Head_) = IF pv[Head_] = Head_ THEN NULL ELSE pv[Head_]
    BY <1>6
  <2>3. \A c \in ToSet(r) : field[c] = IF pv[c] = Head_ THEN NULL ELSE pv[c]
    BY <1>5, <1>6, <1>8
  <2>4. QED
    BY <1>5, <1>7, <2>1, <2>2, <2>3, RingWalk
<1>10. QED
  BY <1>2, <1>3, <1>4, <1>9

(* A new element between two cells.                                        *)
LEMMA TqInsert ==
  ASSUME NEW nx, NEW pv, NEW q, NEW a, NEW p, NEW c, NEW d, NEW e, NEW nx2, NEW pv2,
         TqList(nx, pv, q), a \in 0 .. Len(q), p = a + 1,
         c = Cell(q, Head_, a), d = Cell(q, Head_, p), e \in Elems, e \notin ToSet(q),
         nx2 = [nx EXCEPT ![e] = IF d = Head_ THEN NULL ELSE d, ![c] = e],
         pv2 = [pv EXCEPT ![d] = e, ![e] = c]
  PROVE  TqList(nx2, pv2, InsertAt(q, p, e))
<1>1. /\ q \in Seq(Elems) /\ Distinct(q) /\ Ring(TqNext(nx), pv, Head_, Elems, q)
      /\ ToSet(q) \cup {Head_} \subseteq TqCells /\ NULL \notin TqCells
      /\ DOMAIN nx = TqCells /\ DOMAIN pv = TqCells /\ Len(q) \in Nat
  BY TqListIs DEF TqCells
<1>2. c \in ToSet(q) \cup {Head_} /\ d \in ToSet(q) \cup {Head_}
  BY <1>1, CellsAre
<1>3. e # Head_ /\ e \in TqCells /\ e # c /\ e # d
  BY <1>2, ElemsAssumption DEF TqCells
<1>4. DOMAIN nx2 = TqCells /\ DOMAIN pv2 = TqCells
  BY <1>1
<1>5. nx2[c] = e /\ nx2[e] = (IF d = Head_ THEN NULL ELSE d) /\ pv2[d] = e /\ pv2[e] = c
  BY <1>1, <1>2, <1>3
<1>6. \A x \in TqCells : x # e => (x # c => nx2[x] = nx[x]) /\ (x # d => pv2[x] = pv[x])
  BY <1>1
<1>7. \A x \in TqCells : TqNext(nx2)[x] = Tq!BackOf(nx2[x]) /\ TqNext(nx)[x] = Tq!BackOf(nx[x])
  BY DEF TqNext
<1>8. TqNext(nx2)[c] = e /\ TqNext(nx2)[e] = d
  BY <1>1, <1>2, <1>3, <1>5, <1>7 DEF Tq!BackOf
<1>9. Parted(TqNext(nx), pv, TqNext(nx2), pv2, ToSet(q) \cup {Head_}, c, d, e)
  <2>1. ASSUME NEW x \in ToSet(q) \cup {Head_}
        PROVE  (x # c => TqNext(nx2)[x] = TqNext(nx)[x]) /\ (x # d => pv2[x] = pv[x])
    BY <1>1, <1>3, <1>6, <1>7
  <2>2. QED
    BY <1>5, <1>8, <2>1 DEF Parted
<1>10. Ring(TqNext(nx2), pv2, Head_, Elems, InsertAt(q, p, e))
  BY <1>1, <1>3, <1>9, InsertRing
<1>11. p \in 1 .. Len(q) + 1
  BY <1>1
<1>12. ToSet(InsertAt(q, p, e)) = ToSet(q) \cup {e}
  BY <1>1, <1>11, InsertAdds
<1>13. \A x \in ToSet(q) \cup {e, Head_} : nx2[x] # Head_
  <2>1. \A x \in ToSet(q) \cup {Head_} : nx[x] # Head_
    BY DEF TqList
  <2>2. Head_ # NULL
    BY ElemsAssumption
  <2>3. QED
    BY <1>1, <1>3, <1>5, <1>6, <2>1, <2>2
<1>14. QED
  BY <1>4, <1>10, <1>12, <1>13 DEF TqList

(* The k-th element out of the list.                                       *)
LEMMA TqRemove ==
  ASSUME NEW nx, NEW pv, NEW q, NEW k, NEW e, NEW nx2, NEW pv2,
         TqList(nx, pv, q), k \in 1 .. Len(q), e = q[k],
         nx2 = [nx EXCEPT ![pv[e]] = nx[e]],
         pv2 = [pv EXCEPT ![Tq!BackOf(nx[e])] = pv[e]]
  PROVE  TqList(nx2, pv2, RemoveAt(q, k))
<1>1. /\ q \in Seq(Elems) /\ Distinct(q) /\ Ring(TqNext(nx), pv, Head_, Elems, q)
      /\ ToSet(q) \cup {Head_} \subseteq TqCells /\ NULL \notin TqCells
      /\ DOMAIN nx = TqCells /\ DOMAIN pv = TqCells /\ Len(q) \in Nat /\ DOMAIN q = 1 .. Len(q)
  BY TqListIs DEF TqCells
<1>2. PICK a, b : a = k - 1 /\ b = k + 1
  OBVIOUS
<1>3. a \in 0 .. Len(q) /\ k = a + 1 /\ b = k + 1 /\ k \in 0 .. Len(q)
  BY <1>1, <1>2
<1>4. PICK c, d : c = Cell(q, Head_, a) /\ d = Cell(q, Head_, b)
  OBVIOUS
<1>5. c \in ToSet(q) \cup {Head_} /\ d \in ToSet(q) \cup {Head_}
  BY <1>1, <1>4, CellsAre
<1>6. e = Cell(q, Head_, k) /\ e \in ToSet(q)
  BY <1>1 DEF Cell, ToSet
<1>7. pv[e] = c /\ TqNext(nx)[e] = d
  <2>1. Linked(TqNext(nx), pv, q, Head_, a, k) /\ Linked(TqNext(nx), pv, q, Head_, k, b)
    BY <1>1, <1>3, RingLink
  <2>2. QED
    BY <1>4, <1>6, <2>1 DEF Linked
<1>8. Tq!BackOf(nx[e]) = d /\ nx[e] # Head_
  <2>1. e \in ToSet(q) \cup {Head_}
    BY <1>6
  <2>2. TqNext(nx)[e] = Tq!BackOf(nx[e])
    BY <1>1, <2>1 DEF TqNext
  <2>3. QED
    BY <1>7, <2>1, <2>2 DEF TqList
<1>9. DOMAIN nx2 = TqCells /\ DOMAIN pv2 = TqCells
  BY <1>1
<1>10. nx2[c] = nx[e] /\ pv2[d] = c
  BY <1>1, <1>5, <1>7, <1>8
<1>11. \A x \in TqCells : (x # c => nx2[x] = nx[x]) /\ (x # d => pv2[x] = pv[x])
  BY <1>1, <1>7, <1>8
<1>12. \A x \in TqCells : TqNext(nx2)[x] = Tq!BackOf(nx2[x]) /\ TqNext(nx)[x] = Tq!BackOf(nx[x])
  BY DEF TqNext
<1>13. TqNext(nx2)[c] = d
  BY <1>1, <1>5, <1>8, <1>10, <1>12
<1>14. Joined(TqNext(nx), pv, TqNext(nx2), pv2, (ToSet(q) \ {q[k]}) \cup {Head_}, c, d)
  <2>1. ASSUME NEW x \in ToSet(q) \cup {Head_}
        PROVE  (x # c => TqNext(nx2)[x] = TqNext(nx)[x]) /\ (x # d => pv2[x] = pv[x])
    <3>1. x \in TqCells
      BY <1>1
    <3>2. (x # c => nx2[x] = nx[x]) /\ (x # d => pv2[x] = pv[x])
      BY <1>11, <3>1
    <3>3. TqNext(nx2)[x] = Tq!BackOf(nx2[x]) /\ TqNext(nx)[x] = Tq!BackOf(nx[x])
      BY <1>12, <3>1
    <3>4. QED
      BY <3>2, <3>3
  <2>2. QED
    BY <1>10, <1>13, <2>1 DEF Joined
<1>15. Ring(TqNext(nx2), pv2, Head_, Elems, RemoveAt(q, k))
  BY <1>1, <1>3, <1>4, <1>14, RemoveRing
<1>16. ToSet(RemoveAt(q, k)) = ToSet(q) \ {e}
  BY <1>1, RemoveTakesOne
<1>17. \A x \in ToSet(q) \cup {Head_} : nx2[x] # Head_
  <2>1. \A x \in ToSet(q) \cup {Head_} : nx[x] # Head_
    BY DEF TqList
  <2>2. QED
    BY <1>1, <1>8, <1>10, <1>11, <2>1
<1>18. QED
  BY <1>9, <1>15, <1>16, <1>17 DEF TqList

(* Another element in the place of the k-th.                               *)
LEMMA TqReplace ==
  ASSUME NEW nx, NEW pv, NEW q, NEW k, NEW e, NEW e2, NEW nx2, NEW pv2,
         TqList(nx, pv, q), k \in 1 .. Len(q), e = q[k], e2 \in Elems, e2 \notin ToSet(q),
         nx2 = [nx EXCEPT ![e2] = nx[e], ![pv[e]] = e2],
         pv2 = [pv EXCEPT ![Tq!BackOf(nx[e])] = e2, ![e2] = pv[e]]
  PROVE  TqList(nx2, pv2, [q EXCEPT ![k] = e2])
<1>1. /\ q \in Seq(Elems) /\ Distinct(q) /\ Ring(TqNext(nx), pv, Head_, Elems, q)
      /\ ToSet(q) \cup {Head_} \subseteq TqCells /\ NULL \notin TqCells
      /\ DOMAIN nx = TqCells /\ DOMAIN pv = TqCells /\ Len(q) \in Nat /\ DOMAIN q = 1 .. Len(q)
  BY TqListIs DEF TqCells
<1>2. PICK a, b : a = k - 1 /\ b = k + 1
  OBVIOUS
<1>3. a \in 0 .. Len(q) /\ k = a + 1 /\ b = k + 1 /\ k \in 0 .. Len(q)
  BY <1>1, <1>2
<1>4. PICK c, d : c = Cell(q, Head_, a) /\ d = Cell(q, Head_, b)
  OBVIOUS
<1>5. c \in ToSet(q) \cup {Head_} /\ d \in ToSet(q) \cup {Head_}
  BY <1>1, <1>4, CellsAre
<1>6. e = Cell(q, Head_, k) /\ e \in ToSet(q)
  BY <1>1 DEF Cell, ToSet
<1>7. pv[e] = c /\ TqNext(nx)[e] = d
  <2>1. Linked(TqNext(nx), pv, q, Head_, a, k) /\ Linked(TqNext(nx), pv, q, Head_, k, b)
    BY <1>1, <1>3, RingLink
  <2>2. QED
    BY <1>4, <1>6, <2>1 DEF Linked
<1>8. Tq!BackOf(nx[e]) = d /\ nx[e] # Head_
  <2>1. e \in ToSet(q) \cup {Head_}
    BY <1>6
  <2>2. TqNext(nx)[e] = Tq!BackOf(nx[e])
    BY <1>1, <2>1 DEF TqNext
  <2>3. QED
    BY <1>7, <2>1, <2>2 DEF TqList
<1>a. e2 # Head_ /\ e2 \in TqCells /\ e2 # c /\ e2 # d
  BY <1>5, ElemsAssumption DEF TqCells
<1>9. DOMAIN nx2 = TqCells /\ DOMAIN pv2 = TqCells
  BY <1>1
<1>10. nx2[c] = e2 /\ nx2[e2] = nx[e] /\ pv2[d] = e2 /\ pv2[e2] = c
  BY <1>1, <1>5, <1>7, <1>8, <1>a
<1>11. \A x \in TqCells : x # e2 => (x # c => nx2[x] = nx[x]) /\ (x # d => pv2[x] = pv[x])
  BY <1>1, <1>7, <1>8
<1>12. \A x \in TqCells : TqNext(nx2)[x] = Tq!BackOf(nx2[x]) /\ TqNext(nx)[x] = Tq!BackOf(nx[x])
  BY DEF TqNext
<1>13. TqNext(nx2)[c] = e2 /\ TqNext(nx2)[e2] = d
  <2>1. e2 # NULL
    BY <1>1, <1>a
  <2>2. TqNext(nx2)[c] = Tq!BackOf(e2) /\ TqNext(nx2)[e2] = Tq!BackOf(nx[e])
    BY <1>1, <1>5, <1>10, <1>12, <1>a
  <2>3. QED
    BY <1>8, <2>1, <2>2 DEF Tq!BackOf
<1>14. Parted(TqNext(nx), pv, TqNext(nx2), pv2, (ToSet(q) \ {q[k]}) \cup {Head_}, c, d, e2)
  <2>1. ASSUME NEW x \in ToSet(q) \cup {Head_}
        PROVE  (x # c => TqNext(nx2)[x] = TqNext(nx)[x]) /\ (x # d => pv2[x] = pv[x])
    <3>1. x \in TqCells /\ x # e2
      BY <1>1, <1>a
    <3>2. (x # c => nx2[x] = nx[x]) /\ (x # d => pv2[x] = pv[x])
      BY <1>11, <3>1
    <3>3. TqNext(nx2)[x] = Tq!BackOf(nx2[x]) /\ TqNext(nx)[x] = Tq!BackOf(nx[x])
      BY <1>12, <3>1
    <3>4. QED
      BY <3>2, <3>3
  <2>2. QED
    BY <1>10, <1>13, <2>1 DEF Parted
<1>15. Ring(TqNext(nx2), pv2, Head_, Elems, [q EXCEPT ![k] = e2])
  BY <1>1, <1>3, <1>4, <1>14, <1>a, ReplaceRing
<1>16. ToSet([q EXCEPT ![k] = e2]) \subseteq ToSet(q) \cup {e2}
  BY <1>1 DEF ToSet
<1>17. \A x \in ToSet(q) \cup {Head_, e2} : nx2[x] # Head_
  <2>1. \A x \in ToSet(q) \cup {Head_} : nx[x] # Head_
    BY DEF TqList
  <2>2. QED
    BY <1>1, <1>8, <1>10, <1>11, <1>a, <2>1
<1>18. QED
  BY <1>9, <1>15, <1>16, <1>17 DEF TqList

(* The instance has the operators of its libraries once more.              *)
LEMMA TqWalkIs ==
  ASSUME NEW f, NEW x, NEW end
  PROVE  Tq!Walk(f, x, end) = Walk(f, x, end)
BY DEF Tq!Walk, Walk, Tq!Cardinality, Cardinality

(* The operators of the instance are those of Sequence.                    *)
LEMMA TqSame ==
  ASSUME NEW q, NEW r, NEW i, NEW e
  PROVE  /\ Tq!Range(q) = ToSet(q) /\ (Tq!IsInjective(q) <=> Distinct(q))
         /\ Tq!Reverse(q) = Reverse(q) /\ Tq!At(q, e) = At(q, e)
         /\ Tq!InsertAt(q, i, e) = InsertAt(q, i, e) /\ Tq!RemoveAt(q, i) = RemoveAt(q, i)
<1>1. Tq!Range(q) = ToSet(q) /\ (Tq!IsInjective(q) <=> Distinct(q))
  BY DEF Tq!Range, ToSet, Tq!IsInjective, Distinct
<1>2. Tq!Reverse(q) = Reverse(q)
  BY DEF Tq!Reverse, Reverse
<1>3. Tq!At(q, e) = At(q, e)
  BY DEF Tq!At, At
<1>4. Tq!InsertAt(q, i, e) = InsertAt(q, i, e) /\ Tq!RemoveAt(q, i) = RemoveAt(q, i)
  BY DEF Tq!InsertAt, InsertAt, Tq!RemoveAt, RemoveAt
<1>5. QED
  BY <1>1, <1>2, <1>3, <1>4

(* The queue is q, or will be.                                             *)
TqIs(q) == TqList(tnext, tprev, q) /\ Tq!Queued = q /\ Tq!QueuedReverse = Reverse(q)
TqBecomes(q) == TqList(tnext', tprev', q) /\ Tq!Queued' = q

(* The queue that the pointers form is the one the walks visit.            *)
LEMMA TqListed ==
  ASSUME NEW q
  PROVE  /\ TqList(tnext, tprev, q) => TqIs(q)
         /\ TqList(tnext', tprev', q) => TqBecomes(q)
<1>1. Tq!Queued = Walk(tnext, tnext[Head_], NULL)
  BY TqWalkIs DEF Tq!Queued
<1>2. Tq!Queued' = Walk(tnext', tnext'[Head_], NULL)
  BY TqWalkIs DEF Tq!Queued
<1>3. Tq!QueuedReverse =
        Walk([c \in {x \in DOMAIN tprev : tprev[x] # NULL} |-> TqBefore(tnext, tprev, c)],
             TqBefore(tnext, tprev, Head_), NULL)
  <2>1. PICK f, x : /\ f = [c \in {e \in DOMAIN tprev : tprev[e] # NULL} |-> TqBefore(tnext, tprev, c)]
                    /\ x = TqBefore(tnext, tprev, Head_)
    OBVIOUS
  <2>2. Tq!QueuedReverse = Tq!Walk(f, x, NULL)
    BY <2>1 DEF Tq!QueuedReverse, Tq!Before, TqBefore
  <2>3. QED
    BY <2>1, <2>2, TqWalkIs
<1>4. QED
  BY <1>1, <1>2, <1>3, TqWalks DEF TqIs, TqBecomes

(* An insertion, wherever it is made, keeps the pointers a queue.          *)
LEMMA TqLink ==
  ASSUME NEW q, NEW a, NEW p, NEW c, NEW e, TqIs(q), a \in 0 .. Len(q), p = a + 1,
         c = Cell(q, Head_, a), e \in Elems, e \notin ToSet(q), Tq!Link(c, e)
  PROVE  TqBecomes(InsertAt(q, p, e))
<1>1. TqList(tnext, tprev, q) /\ q \in Seq(Elems) /\ Ring(TqNext(tnext), tprev, Head_, Elems, q)
  BY TqListIs DEF TqIs
<1>2. c \in ToSet(q) \cup {Head_}
  BY <1>1, CellsAre
<1>3. PICK d : d = Cell(q, Head_, p)
  OBVIOUS
<1>4. TqNext(tnext)[c] = d
  <2>1. Linked(TqNext(tnext), tprev, q, Head_, a, p)
    BY <1>1, RingLink
  <2>2. QED
    BY <1>3, <2>1 DEF Linked
<1>5. tnext[c] = (IF d = Head_ THEN NULL ELSE d) /\ Tq!BackOf(tnext[c]) = d
  <2>a. TqCell(tnext, tprev, q, c)
    BY <1>1, <1>2, TqAt
  <2>1. tnext[c] = IF TqNext(tnext)[c] = Head_ THEN NULL ELSE TqNext(tnext)[c]
    BY <2>a DEF TqCell
  <2>2. d # NULL
    <3>1. d \in ToSet(q) \cup {Head_} /\ ToSet(q) \subseteq Elems
      BY <1>1, <1>3, CellsAre, ElementsOf
    <3>2. QED
      BY <3>1, ElemsAssumption
  <2>3. QED
    BY <1>4, <2>1, <2>2 DEF Tq!BackOf
<1>6. /\ tnext' = [tnext EXCEPT ![e] = IF d = Head_ THEN NULL ELSE d, ![c] = e]
      /\ tprev' = [tprev EXCEPT ![d] = e, ![e] = c]
  BY <1>5 DEF Tq!Link
<1>7. TqList(tnext', tprev', InsertAt(q, p, e))
  BY <1>1, <1>3, <1>6, TqInsert
<1>8. QED
  BY <1>7, TqListed

(* An insertion before cell l, or at the end when l is the head, is one    *)
(* after the cell before it.                                               *)
LEMMA TqBack ==
  ASSUME NEW q, NEW l, NEW e, TqIs(q), l \in ToSet(q) \cup {Head_}, e \in Elems,
         e \notin ToSet(q),
         tnext' = [tnext EXCEPT ![e] = IF l = Head_ THEN NULL ELSE l, ![tprev[l]] = e],
         tprev' = [tprev EXCEPT ![e] = tprev[l], ![l] = e]
  PROVE  Tq!Link(tprev[l], e)
<1>1. TqList(tnext, tprev, q) /\ ToSet(q) \subseteq Elems /\ DOMAIN tprev = TqCells
  BY TqListIs DEF TqIs
<1>2. /\ tprev[l] \in ToSet(q) \cup {Head_}
      /\ tnext[tprev[l]] = IF l = Head_ THEN NULL ELSE l
  BY <1>1, TqAt DEF TqCell
<1>3. l # NULL /\ l # e
  BY <1>1, ElemsAssumption
<1>4. Tq!BackOf(tnext[tprev[l]]) = l
  BY <1>2, <1>3 DEF Tq!BackOf
<1>5. tprev' = [tprev EXCEPT ![l] = e, ![e] = tprev[l]]
  BY <1>3
<1>6. QED
  BY <1>2, <1>4, <1>5 DEF Tq!Link

(* What each macro makes of the queue.                                     *)
LEMMA TqInsertions ==
  ASSUME NEW q, NEW e, TqIs(q), e \in Elems, e \notin ToSet(q)
  PROVE  /\ Tq!TAILQ_INSERT_HEAD(e) => TqBecomes(<<e>> \o q)
         /\ Tq!TAILQ_INSERT_TAIL(e) => TqBecomes(Append(q, e))
         /\ \A k \in 1 .. Len(q) :
              /\ Tq!TAILQ_INSERT_AFTER(q[k], e) => TqBecomes(InsertAt(q, k + 1, e))
              /\ Tq!TAILQ_INSERT_BEFORE(q[k], e) => TqBecomes(InsertAt(q, k, e))
              /\ Tq!TAILQ_REPLACE(q[k], e) => TqBecomes([q EXCEPT ![k] = e])
<1>1. /\ TqList(tnext, tprev, q) /\ q \in Seq(Elems) /\ Len(q) \in Nat /\ DOMAIN q = 1 .. Len(q)
      /\ Ring(TqNext(tnext), tprev, Head_, Elems, q)
  BY TqListIs DEF TqIs
<1>2. ASSUME Tq!TAILQ_INSERT_HEAD(e)
      PROVE  TqBecomes(<<e>> \o q)
  <2>1. Tq!Link(Head_, e) /\ Cell(q, Head_, 0) = Head_ /\ 0 \in 0 .. Len(q)
    BY <1>1, <1>2 DEF Tq!TAILQ_INSERT_HEAD, Cell
  <2>2. 1 = 0 + 1
    OBVIOUS
  <2>3. TqBecomes(InsertAt(q, 1, e))
    BY <2>1, <2>2, TqLink
  <2>4. QED
    BY <1>1, <2>3, PushIsInsert
<1>3. ASSUME NEW k \in 0 .. Len(q), NEW p, p = k + 1, NEW l, l = Cell(q, Head_, p),
             tnext' = [tnext EXCEPT ![e] = IF l = Head_ THEN NULL ELSE l, ![tprev[l]] = e],
             tprev' = [tprev EXCEPT ![e] = tprev[l], ![l] = e]
      PROVE  TqBecomes(InsertAt(q, p, e))
  <2>1. l \in ToSet(q) \cup {Head_}
    BY <1>1, <1>3, CellsAre
  <2>2. Tq!Link(tprev[l], e)
    BY <1>3, <2>1, TqBack
  <2>3. tprev[l] = Cell(q, Head_, k)
    <3>1. Linked(TqNext(tnext), tprev, q, Head_, k, p)
      BY <1>1, <1>3, RingLink
    <3>2. QED
      BY <1>3, <3>1 DEF Linked
  <2>4. QED
    BY <1>3, <2>2, <2>3, TqLink
<1>4. ASSUME Tq!TAILQ_INSERT_TAIL(e)
      PROVE  TqBecomes(Append(q, e))
  <2>1. PICK p : p = Len(q) + 1
    OBVIOUS
  <2>2. Cell(q, Head_, p) = Head_ /\ Len(q) \in 0 .. Len(q)
    BY <1>1, <2>1 DEF Cell
  <2>3. TqBecomes(InsertAt(q, p, e))
    BY <1>3, <1>4, <2>1, <2>2 DEF Tq!TAILQ_INSERT_TAIL
  <2>4. InsertAt(q, p, e) = Append(q, e)
    BY <1>1, <2>1, AppendIsInsert
  <2>5. QED
    BY <2>3, <2>4
<1>5. ASSUME NEW k \in 1 .. Len(q), NEW l, l = q[k]
      PROVE  /\ Tq!TAILQ_INSERT_AFTER(l, e) => TqBecomes(InsertAt(q, k + 1, e))
             /\ Tq!TAILQ_INSERT_BEFORE(l, e) => TqBecomes(InsertAt(q, k, e))
             /\ Tq!TAILQ_REPLACE(l, e) => TqBecomes([q EXCEPT ![k] = e])
  <2>1. l = Cell(q, Head_, k) /\ k \in 0 .. Len(q) /\ l \in ToSet(q) /\ l # Head_
    <3>1. l = Cell(q, Head_, k) /\ k \in 0 .. Len(q) /\ l \in ToSet(q)
      BY <1>1, <1>5 DEF Cell, ToSet
    <3>2. QED
      BY <1>1, <3>1, RingIs
  <2>2. ASSUME Tq!TAILQ_INSERT_AFTER(l, e)
        PROVE  TqBecomes(InsertAt(q, k + 1, e))
    <3>1. PICK p : p = k + 1
      OBVIOUS
    <3>2. QED
      BY <2>1, <2>2, <3>1, TqLink DEF Tq!TAILQ_INSERT_AFTER
  <2>3. ASSUME Tq!TAILQ_INSERT_BEFORE(l, e)
        PROVE  TqBecomes(InsertAt(q, k, e))
    <3>1. PICK j : j = k - 1
      OBVIOUS
    <3>2. j \in 0 .. Len(q) /\ k = j + 1
      BY <1>1, <3>1
    <3>3. QED
      BY <1>3, <2>1, <2>3, <3>2 DEF Tq!TAILQ_INSERT_BEFORE
  <2>4. ASSUME Tq!TAILQ_REPLACE(l, e)
        PROVE  TqBecomes([q EXCEPT ![k] = e])
    <3>1. /\ tnext' = [tnext EXCEPT ![e] = tnext[l], ![tprev[l]] = e]
          /\ tprev' = [tprev EXCEPT ![Tq!BackOf(tnext[l])] = e, ![e] = tprev[l]]
      BY <2>4 DEF Tq!TAILQ_REPLACE
    <3>2. TqList(tnext', tprev', [q EXCEPT ![k] = e])
      BY <1>1, <1>5, <3>1, TqReplace
    <3>3. QED
      BY <3>2, TqListed
  <2>5. QED
    BY <2>2, <2>3, <2>4
<1>6. QED
  BY <1>2, <1>4, <1>5

(* TAILQ_REMOVE keeps the pointers a queue.                                *)
LEMMA TqRemoval ==
  ASSUME NEW q, NEW k, TqIs(q), k \in 1 .. Len(q), Tq!TAILQ_REMOVE(q[k])
  PROVE  TqBecomes(RemoveAt(q, k))
<1>1. TqList(tnext, tprev, q)
  BY DEF TqIs
<1>2. PICK e : e = q[k]
  OBVIOUS
<1>3. /\ tnext' = [tnext EXCEPT ![tprev[e]] = tnext[e]]
      /\ tprev' = [tprev EXCEPT ![Tq!BackOf(tnext[e])] = tprev[e]]
  BY <1>2 DEF Tq!TAILQ_REMOVE
<1>4. TqList(tnext', tprev', RemoveAt(q, k))
  BY <1>1, <1>2, <1>3, TqRemove
<1>5. QED
  BY <1>4, TqListed

TqInv == \E q : TqIs(q)

(* TAILQ_INIT makes an empty queue.                                        *)
LEMMA TqStarts ==
  ASSUME Tq!Init
  PROVE  TqInv
<1>1. /\ DOMAIN tnext = TqCells /\ DOMAIN tprev = TqCells
      /\ tnext[Head_] = NULL /\ tprev[Head_] = Head_ /\ Head_ # NULL
  BY ElemsAssumption DEF Tq!Init, TqCells
<1>2. TqNext(tnext)[Head_] = Head_
  BY <1>1 DEF TqNext, TqCells, Tq!BackOf
<1>3. Ring(TqNext(tnext), tprev, Head_, Elems, << >>)
  BY <1>1, <1>2, EmptyRing
<1>4. ToSet(<< >>) = {}
  BY DEF ToSet
<1>5. TqList(tnext, tprev, << >>)
  BY <1>1, <1>3, <1>4 DEF TqList
<1>6. QED
  BY <1>5, TqListed DEF TqInv

(* The elements of a queue, as the macros find them.                       *)
LEMMA TqElements ==
  ASSUME NEW q, TqIs(q)
  PROVE  /\ Tq!Range(Tq!Queued) = ToSet(q) /\ q \in Seq(Elems) /\ Distinct(q)
         /\ \A e \in ToSet(q) : \E k \in 1 .. Len(q) : e = q[k]
<1>1. q \in Seq(Elems) /\ Distinct(q) /\ DOMAIN q = 1 .. Len(q)
  BY TqListIs DEF TqIs
<1>2. Tq!Range(Tq!Queued) = ToSet(q)
  BY TqSame DEF TqIs
<1>3. QED
  BY <1>1, <1>2 DEF ToSet

(* Every macro keeps the pointers a queue.                                 *)
LEMMA TqSteps ==
  ASSUME TqInv, Tq!Next
  PROVE  TqInv'
<1>1. PICK q : TqIs(q)
  BY DEF TqInv
<1>2. /\ Tq!Range(Tq!Queued) = ToSet(q)
      /\ \A e \in ToSet(q) : \E k \in 1 .. Len(q) : e = q[k]
  BY <1>1, TqElements
<1>3. SUFFICES \E r : TqBecomes(r)
  <2>1. ASSUME NEW r, TqBecomes(r)
        PROVE  TqIs(r)'
    <3>1. Tq!QueuedReverse' = Reverse(r)
      <4>1. PICK f, x :
              /\ f = [c \in {y \in DOMAIN tprev' : tprev'[y] # NULL} |-> TqBefore(tnext', tprev', c)]
              /\ x = TqBefore(tnext', tprev', Head_)
        OBVIOUS
      <4>2. Tq!QueuedReverse' = Tq!Walk(f, x, NULL)
        BY <4>1 DEF Tq!QueuedReverse, Tq!Before, TqBefore
      <4>3. Walk(f, x, NULL) = Reverse(r)
        BY <2>1, <4>1, TqWalks DEF TqBecomes
      <4>4. QED
        BY <4>2, <4>3, TqWalkIs
    <3>2. QED
      BY <2>1, <3>1 DEF TqIs, TqBecomes
  <2>2. QED
    BY <2>1 DEF TqInv
<1>4. CASE \E e \in Elems \ ToSet(q) :
             \/ Tq!TAILQ_INSERT_HEAD(e) \/ Tq!TAILQ_INSERT_TAIL(e)
             \/ \E l \in ToSet(q) : \/ Tq!TAILQ_INSERT_AFTER(l, e)
                                    \/ Tq!TAILQ_INSERT_BEFORE(l, e)
                                    \/ Tq!TAILQ_REPLACE(l, e)
  <2>1. PICK e \in Elems \ ToSet(q) :
             \/ Tq!TAILQ_INSERT_HEAD(e) \/ Tq!TAILQ_INSERT_TAIL(e)
             \/ \E l \in ToSet(q) : \/ Tq!TAILQ_INSERT_AFTER(l, e)
                                    \/ Tq!TAILQ_INSERT_BEFORE(l, e)
                                    \/ Tq!TAILQ_REPLACE(l, e)
    BY <1>4
  <2>2. CASE Tq!TAILQ_INSERT_HEAD(e) \/ Tq!TAILQ_INSERT_TAIL(e)
    BY <1>1, <2>1, <2>2, TqInsertions
  <2>3. CASE \E l \in ToSet(q) : \/ Tq!TAILQ_INSERT_AFTER(l, e)
                                 \/ Tq!TAILQ_INSERT_BEFORE(l, e)
                                 \/ Tq!TAILQ_REPLACE(l, e)
    <3>1. PICK k \in 1 .. Len(q) : \/ Tq!TAILQ_INSERT_AFTER(q[k], e)
                                   \/ Tq!TAILQ_INSERT_BEFORE(q[k], e)
                                   \/ Tq!TAILQ_REPLACE(q[k], e)
      BY <1>2, <2>3
    <3>2. QED
      BY <1>1, <2>1, <3>1, TqInsertions
  <2>4. QED
    BY <2>1, <2>2, <2>3
<1>5. CASE \E e \in ToSet(q) : Tq!TAILQ_REMOVE(e)
  <2>1. PICK k \in 1 .. Len(q) : Tq!TAILQ_REMOVE(q[k])
    BY <1>2, <1>5
  <2>2. QED
    BY <1>1, <2>1, TqRemoval
<1>6. QED
  BY <1>2, <1>4, <1>5 DEF Tq!Next

(* A queue read backwards is the queue read forwards.                      *)
LEMMA TqMirrors ==
  ASSUME TqInv
  PROVE  Tq!Mirrors
<1>1. PICK q : TqIs(q)
  BY DEF TqInv
<1>2. q \in Seq(Elems) /\ Distinct(q)
  BY <1>1, TqElements
<1>3. Tq!Queued = q /\ Tq!Reverse(Tq!QueuedReverse) = Reverse(Reverse(q)) /\ Tq!IsInjective(q)
  BY <1>1, <1>2, TqSame DEF TqIs
<1>4. Reverse(Reverse(q)) = q
  BY <1>2, ReverseFacts
<1>5. QED
  BY <1>3, <1>4 DEF Tq!Mirrors

(* Every macro does to the queue what its name says.                       *)
LEMMA TqSequenced ==
  ASSUME TqInv
  PROVE  Tq!Sequenced
<1>1. PICK q : TqIs(q)
  BY DEF TqInv
<1>2. /\ Tq!Range(Tq!Queued) = ToSet(q) /\ Tq!Queued = q /\ q \in Seq(Elems) /\ Distinct(q)
      /\ \A e \in ToSet(q) : \E k \in 1 .. Len(q) : e = q[k]
  BY <1>1, TqElements DEF TqIs
<1>3. ASSUME NEW e \in Elems \ ToSet(q)
      PROVE  /\ Tq!TAILQ_INSERT_HEAD(e) => Tq!InsertFirst(q, Tq!Queued', e)
             /\ Tq!TAILQ_INSERT_TAIL(e) => Tq!InsertLast(q, Tq!Queued', e)
             /\ \A l \in ToSet(q) :
                  /\ Tq!TAILQ_INSERT_AFTER(l, e) => Tq!InsertNext(q, Tq!Queued', l, e)
                  /\ Tq!TAILQ_INSERT_BEFORE(l, e) => Tq!InsertPrevious(q, Tq!Queued', l, e)
                  /\ Tq!TAILQ_REPLACE(l, e) => Tq!Substitute(q, Tq!Queued', l, e)
  <2>1. /\ Tq!TAILQ_INSERT_HEAD(e) => Tq!Queued' = <<e>> \o q
        /\ Tq!TAILQ_INSERT_TAIL(e) => Tq!Queued' = Append(q, e)
        /\ \A k \in 1 .. Len(q) :
             /\ Tq!TAILQ_INSERT_AFTER(q[k], e) => Tq!Queued' = InsertAt(q, k + 1, e)
             /\ Tq!TAILQ_INSERT_BEFORE(q[k], e) => Tq!Queued' = InsertAt(q, k, e)
             /\ Tq!TAILQ_REPLACE(q[k], e) => Tq!Queued' = [q EXCEPT ![k] = e]
    BY <1>1, TqInsertions DEF TqBecomes
  <2>2. ASSUME NEW l \in ToSet(q)
        PROVE  /\ Tq!TAILQ_INSERT_AFTER(l, e) => Tq!InsertNext(q, Tq!Queued', l, e)
               /\ Tq!TAILQ_INSERT_BEFORE(l, e) => Tq!InsertPrevious(q, Tq!Queued', l, e)
               /\ Tq!TAILQ_REPLACE(l, e) => Tq!Substitute(q, Tq!Queued', l, e)
    <3>1. PICK k \in 1 .. Len(q) : l = q[k]
      BY <1>2
    <3>2. Tq!At(q, l) = k
      BY <1>2, <3>1, AtIs, TqSame
    <3>3. l \in Tq!Range(q)
      BY TqSame
    <3>4. \A i : Tq!InsertAt(q, i, e) = InsertAt(q, i, e)
      BY TqSame
    <3>5. QED
      BY <2>1, <3>1, <3>2, <3>3, <3>4 DEF Tq!InsertNext, Tq!InsertPrevious, Tq!Substitute
  <2>3. QED
    BY <2>1, <2>2 DEF Tq!InsertFirst, Tq!InsertLast
<1>4. ASSUME NEW e \in ToSet(q), Tq!TAILQ_REMOVE(e)
      PROVE  Tq!Delete(q, Tq!Queued', e)
  <2>1. PICK k \in 1 .. Len(q) : e = q[k]
    BY <1>2
  <2>2. Tq!Queued' = RemoveAt(q, k)
    BY <1>1, <1>4, <2>1, TqRemoval DEF TqBecomes
  <2>3. Tq!At(q, e) = k /\ e \in Tq!Range(q) /\ Tq!RemoveAt(q, k) = RemoveAt(q, k)
    BY <1>2, <2>1, AtIs, TqSame
  <2>4. QED
    BY <2>2, <2>3 DEF Tq!Delete
<1>5. QED
  BY <1>2, <1>3, <1>4 DEF Tq!Sequenced

-----------------------------------------------------------------------------
(* The lists of list.h *)

KlLinks == Heads \cup Entries

(* The heads in use, DOMAIN L, have rings of their own with the entries    *)
(* L[h].                                                                   *)
KlList(nx, pv, L) ==
  /\ DOMAIN nx = KlLinks /\ DOMAIN pv = KlLinks /\ DOMAIN L \subseteq Heads
  /\ \A h \in DOMAIN L : Ring(nx, pv, h, Entries, L[h])
  /\ \A g, h \in DOMAIN L : g # h => ToSet(L[g]) \cap ToSet(L[h]) = {}

(* The links of the list at h.                                             *)
KlCells(L, h) == ToSet(L[h]) \cup {h}

(* The sequence of a list.                                                 *)
LEMMA KlListIs ==
  ASSUME NEW nx, NEW pv, NEW L, NEW h, KlList(nx, pv, L), h \in DOMAIN L
  PROVE  /\ L[h] \in Seq(Entries) /\ Distinct(L[h]) /\ h \notin ToSet(L[h])
         /\ Len(L[h]) \in Nat /\ DOMAIN L[h] = 1 .. Len(L[h]) /\ ToSet(L[h]) \subseteq Entries
         /\ Ring(nx, pv, h, Entries, L[h]) /\ h \in Heads /\ h \notin Entries
         /\ KlCells(L, h) \subseteq KlLinks
<1>1. Ring(nx, pv, h, Entries, L[h]) /\ h \in Heads
  BY DEF KlList
<1>2. /\ L[h] \in Seq(Entries) /\ Distinct(L[h]) /\ h \notin ToSet(L[h])
      /\ Len(L[h]) \in Nat /\ DOMAIN L[h] = 1 .. Len(L[h])
  BY <1>1, RingIs
<1>3. ToSet(L[h]) \subseteq Entries /\ h \notin Entries
  BY <1>1, <1>2, ElementsOf, LinksAssumption
<1>4. QED
  BY <1>1, <1>2, <1>3 DEF KlCells, KlLinks

(* Two lists have no cell in common.                                       *)
LEMMA KlApart ==
  ASSUME NEW nx, NEW pv, NEW L, NEW g, NEW h, KlList(nx, pv, L), g \in DOMAIN L,
         h \in DOMAIN L, g # h
  PROVE  KlCells(L, g) \cap KlCells(L, h) = {}
<1>1. ToSet(L[g]) \cap ToSet(L[h]) = {}
  BY DEF KlList
<1>2. ToSet(L[h]) \subseteq Entries /\ h \notin Entries
  BY KlListIs
<1>3. ToSet(L[g]) \subseteq Entries /\ g \notin Entries
  BY KlListIs
<1>4. QED
  BY <1>1, <1>2, <1>3 DEF KlCells

(* Pointers that differ at the links of the list at h only, and at x,      *)
(* which is in no list, leave the other lists as they were.                *)
KlTouches(nx, pv, nx2, pv2, L, h, x) ==
  /\ DOMAIN nx2 = KlLinks /\ DOMAIN pv2 = KlLinks
  /\ \A y \in KlLinks \ (KlCells(L, h) \cup {x}) : nx2[y] = nx[y] /\ pv2[y] = pv[y]

(* A change of one list and of x leaves the others as they are.            *)
LEMMA KlOther ==
  ASSUME NEW nx, NEW pv, NEW L, NEW h, NEW x, NEW nx2, NEW pv2, NEW q,
         KlList(nx, pv, L), h \in DOMAIN L, KlTouches(nx, pv, nx2, pv2, L, h, x),
         \A g \in DOMAIN L \ {h} : x \notin KlCells(L, g),
         Ring(nx2, pv2, h, Entries, q), ToSet(q) \subseteq ToSet(L[h]) \cup {x}
  PROVE  KlList(nx2, pv2, [L EXCEPT ![h] = q])
<1>1. PICK M : M = [L EXCEPT ![h] = q]
  OBVIOUS
<1>2. /\ DOMAIN M = DOMAIN L /\ M[h] = q
      /\ \A g \in DOMAIN L : g # h => M[g] = L[g]
  BY <1>1
<1>3. ASSUME NEW g \in DOMAIN L, g # h
      PROVE  /\ Ring(nx2, pv2, g, Entries, L[g])
             /\ ToSet(L[g]) \cap (ToSet(L[h]) \cup {x}) = {}
  <2>1. KlCells(L, g) \cap (KlCells(L, h) \cup {x}) = {}
    <3>1. KlCells(L, g) \cap KlCells(L, h) = {}
      BY <1>3, KlApart
    <3>2. QED
      BY <1>3, <3>1
  <2>2. Ring(nx, pv, g, Entries, L[g]) /\ KlCells(L, g) \subseteq KlLinks
    BY <1>3, KlListIs
  <2>3. Unchanged(nx, pv, nx2, pv2, ToSet(L[g]) \cup {g})
    BY <2>1, <2>2 DEF KlTouches, KlCells, Unchanged
  <2>4. Ring(nx2, pv2, g, Entries, L[g])
    BY <2>2, <2>3, SameRing
  <2>5. QED
    BY <2>1, <2>4 DEF KlCells
<1>4. \A g \in DOMAIN L : Ring(nx2, pv2, g, Entries, M[g])
  BY <1>2, <1>3
<1>5. ASSUME NEW f \in DOMAIN L, NEW g \in DOMAIN L, f # g
      PROVE  ToSet(M[f]) \cap ToSet(M[g]) = {}
  <2>1. CASE f = h
    BY <1>2, <1>3, <1>5, <2>1
  <2>2. CASE g = h
    BY <1>2, <1>3, <1>5, <2>2
  <2>3. CASE f # h /\ g # h
    BY <1>2, <1>5, <2>3 DEF KlList
  <2>4. QED
    BY <2>1, <2>2, <2>3
<1>6. DOMAIN nx2 = KlLinks /\ DOMAIN pv2 = KlLinks /\ DOMAIN L \subseteq Heads
  BY DEF KlTouches, KlList
<1>7. KlList(nx2, pv2, M)
  BY <1>2, <1>4, <1>5, <1>6 DEF KlList
<1>8. QED
  BY <1>1, <1>7

(* An entry that is in no list.                                            *)
KlLoose(L, x) == x \in Entries /\ \A g \in DOMAIN L : x \notin ToSet(L[g])

(* __list_add after the a-th link of the list at h.                        *)
LEMMA KlInsert ==
  ASSUME NEW nx, NEW pv, NEW L, NEW h, NEW a, NEW p, NEW c, NEW d, NEW x, NEW nx2, NEW pv2,
         KlList(nx, pv, L), h \in DOMAIN L, a \in 0 .. Len(L[h]), p = a + 1,
         c = Cell(L[h], h, a), d = Cell(L[h], h, p), KlLoose(L, x),
         nx2 = [nx EXCEPT ![x] = d, ![c] = x], pv2 = [pv EXCEPT ![d] = x, ![x] = c]
  PROVE  KlList(nx2, pv2, [L EXCEPT ![h] = InsertAt(L[h], p, x)])
<1>1. PICK q : q = L[h]
  OBVIOUS
<1>2. /\ q \in Seq(Entries) /\ Distinct(q) /\ Len(q) \in Nat /\ Ring(nx, pv, h, Entries, q)
      /\ h \notin Entries /\ ToSet(q) \cup {h} \subseteq KlLinks
  BY <1>1, KlListIs DEF KlCells
<1>3. c \in ToSet(q) \cup {h} /\ d \in ToSet(q) \cup {h}
  BY <1>1, <1>2, CellsAre
<1>4. x \in Entries /\ x \notin ToSet(q) /\ x # h /\ x # c /\ x # d /\ x \in KlLinks
  BY <1>1, <1>2, <1>3 DEF KlLoose, KlLinks
<1>5. DOMAIN nx = KlLinks /\ DOMAIN pv = KlLinks
  BY DEF KlList
<1>6. /\ DOMAIN nx2 = KlLinks /\ DOMAIN pv2 = KlLinks
      /\ nx2[c] = x /\ nx2[x] = d /\ pv2[d] = x /\ pv2[x] = c
  BY <1>2, <1>3, <1>4, <1>5
<1>7. \A y \in KlLinks : y # x => (y # c => nx2[y] = nx[y]) /\ (y # d => pv2[y] = pv[y])
  BY <1>5
<1>8. Parted(nx, pv, nx2, pv2, ToSet(q) \cup {h}, c, d, x)
  BY <1>2, <1>4, <1>6, <1>7 DEF Parted
<1>9. Ring(nx2, pv2, h, Entries, InsertAt(q, p, x))
  BY <1>1, <1>2, <1>4, <1>8, InsertRing
<1>10. ToSet(InsertAt(q, p, x)) = ToSet(q) \cup {x}
  <2>1. p \in 1 .. Len(q) + 1
    BY <1>1, <1>2
  <2>2. QED
    BY <1>2, <1>4, <2>1, InsertAdds
<1>11. KlTouches(nx, pv, nx2, pv2, L, h, x)
  BY <1>1, <1>3, <1>6, <1>7 DEF KlTouches, KlCells
<1>12. \A g \in DOMAIN L \ {h} : x \notin KlCells(L, g)
  <2>1. \A g \in DOMAIN L : g \notin Entries
    BY KlListIs
  <2>2. QED
    BY <2>1 DEF KlLoose, KlCells
<1>13. QED
  BY <1>1, <1>9, <1>10, <1>11, <1>12, KlOther

(* __list_del of the k-th entry of the list at h.                          *)
LEMMA KlRemove ==
  ASSUME NEW nx, NEW pv, NEW L, NEW h, NEW k, NEW x, NEW nx2, NEW pv2,
         KlList(nx, pv, L), h \in DOMAIN L, k \in 1 .. Len(L[h]), x = L[h][k],
         nx2 = [nx EXCEPT ![pv[x]] = nx[x]], pv2 = [pv EXCEPT ![nx[x]] = pv[x]]
  PROVE  /\ KlList(nx2, pv2, [L EXCEPT ![h] = RemoveAt(L[h], k)])
         /\ KlLoose([L EXCEPT ![h] = RemoveAt(L[h], k)], x)
<1>1. PICK q : q = L[h]
  OBVIOUS
<1>2. /\ q \in Seq(Entries) /\ Distinct(q) /\ Len(q) \in Nat /\ Ring(nx, pv, h, Entries, q)
      /\ h \notin Entries /\ ToSet(q) \cup {h} \subseteq KlLinks /\ DOMAIN q = 1 .. Len(q)
      /\ ToSet(q) \subseteq Entries
  BY <1>1, KlListIs DEF KlCells
<1>3. PICK a, b : a = k - 1 /\ b = k + 1
  OBVIOUS
<1>4. a \in 0 .. Len(q) /\ k = a + 1 /\ b = k + 1 /\ k \in 0 .. Len(q) /\ k \in 1 .. Len(q)
  BY <1>1, <1>2, <1>3
<1>5. PICK c, d : c = Cell(q, h, a) /\ d = Cell(q, h, b)
  OBVIOUS
<1>6. c \in ToSet(q) \cup {h} /\ d \in ToSet(q) \cup {h}
  BY <1>2, <1>5, CellsAre
<1>7. x = Cell(q, h, k) /\ x \in ToSet(q) /\ x = q[k]
  BY <1>1, <1>2, <1>4 DEF Cell, ToSet
<1>8. pv[x] = c /\ nx[x] = d
  <2>1. Linked(nx, pv, q, h, a, k) /\ Linked(nx, pv, q, h, k, b)
    BY <1>2, <1>4, RingLink
  <2>2. QED
    BY <1>5, <1>7, <2>1 DEF Linked
<1>9. DOMAIN nx = KlLinks /\ DOMAIN pv = KlLinks
  BY DEF KlList
<1>10. DOMAIN nx2 = KlLinks /\ DOMAIN pv2 = KlLinks /\ nx2[c] = d /\ pv2[d] = c
  BY <1>2, <1>6, <1>8, <1>9
<1>11. \A y \in KlLinks : (y # c => nx2[y] = nx[y]) /\ (y # d => pv2[y] = pv[y])
  BY <1>8, <1>9
<1>12. Joined(nx, pv, nx2, pv2, (ToSet(q) \ {q[k]}) \cup {h}, c, d)
  BY <1>2, <1>10, <1>11 DEF Joined
<1>13. Ring(nx2, pv2, h, Entries, RemoveAt(q, k))
  BY <1>2, <1>4, <1>5, <1>12, RemoveRing
<1>14. ToSet(RemoveAt(q, k)) = ToSet(q) \ {x}
  BY <1>2, <1>4, <1>7, RemoveTakesOne
<1>15. KlTouches(nx, pv, nx2, pv2, L, h, h)
  BY <1>1, <1>6, <1>10, <1>11 DEF KlTouches, KlCells
<1>16. \A g \in DOMAIN L \ {h} : h \notin KlCells(L, g) /\ x \notin ToSet(L[g])
  <2>1. ASSUME NEW g \in DOMAIN L \ {h}
        PROVE  h \notin KlCells(L, g) /\ x \notin ToSet(L[g])
    <3>1. KlCells(L, g) \cap KlCells(L, h) = {}
      BY <2>1, KlApart
    <3>2. QED
      BY <1>1, <1>7, <3>1 DEF KlCells
  <2>2. QED
    BY <2>1
<1>17. KlList(nx2, pv2, [L EXCEPT ![h] = RemoveAt(q, k)])
  <2>1. ToSet(RemoveAt(q, k)) \subseteq ToSet(L[h]) \cup {h}
    BY <1>1, <1>14
  <2>2. QED
    BY <1>13, <1>15, <1>16, <2>1, KlOther
<1>18. KlLoose([L EXCEPT ![h] = RemoveAt(q, k)], x)
  BY <1>2, <1>7, <1>14, <1>16 DEF KlLoose
<1>19. QED
  BY <1>1, <1>17, <1>18

(* The pointers of an entry that is in no list do not matter.              *)
LEMMA KlOutside ==
  ASSUME NEW nx, NEW pv, NEW L, NEW x, NEW y, NEW nx2, NEW pv2,
         KlList(nx, pv, L), KlLoose(L, x),
         nx2 = [nx EXCEPT ![x] = y], pv2 = [pv EXCEPT ![x] = y]
  PROVE  KlList(nx2, pv2, L)
<1>1. DOMAIN nx2 = KlLinks /\ DOMAIN pv2 = KlLinks
  BY DEF KlList
<1>2. ASSUME NEW h \in DOMAIN L
      PROVE  Ring(nx2, pv2, h, Entries, L[h])
  <2>1. /\ Ring(nx, pv, h, Entries, L[h]) /\ h \notin Entries
        /\ KlCells(L, h) \subseteq KlLinks
    BY KlListIs
  <2>2. x \notin KlCells(L, h)
    BY <2>1 DEF KlLoose, KlCells
  <2>3. Unchanged(nx, pv, nx2, pv2, ToSet(L[h]) \cup {h})
    BY <2>1, <2>2 DEF KlCells, KlList, Unchanged
  <2>4. QED
    BY <2>1, <2>3, SameRing
<1>3. QED
  BY <1>1, <1>2 DEF KlList

(* The lists when those at l have gone to h, and with a list at l again.   *)
KlJoined(L, l, h) == [g \in DOMAIN L \ {l} |-> IF g = h THEN L[l] \o L[h] ELSE L[g]]
KlWith(L, l) == [g \in DOMAIN L \cup {l} |-> IF g = l THEN << >> ELSE L[g]]

(* INIT_LIST_HEAD of a head that is not in use.                            *)
LEMMA KlEmpty ==
  ASSUME NEW nx, NEW pv, NEW L, NEW l, NEW nx2, NEW pv2,
         KlList(nx, pv, L), l \in Heads \ DOMAIN L,
         nx2 = [nx EXCEPT ![l] = l], pv2 = [pv EXCEPT ![l] = l]
  PROVE  KlList(nx2, pv2, KlWith(L, l))
<1>0. PICK M : M = KlWith(L, l)
  OBVIOUS
<1>1. /\ DOMAIN nx = KlLinks /\ DOMAIN pv = KlLinks /\ DOMAIN L \subseteq Heads
      /\ DOMAIN nx2 = KlLinks /\ DOMAIN pv2 = KlLinks /\ l \in KlLinks
  BY DEF KlList, KlLinks
<1>2. /\ DOMAIN M = DOMAIN L \cup {l} /\ M[l] = << >>
      /\ \A g \in DOMAIN L : M[g] = L[g]
  BY <1>0 DEF KlWith
<1>3. Ring(nx2, pv2, l, Entries, M[l]) /\ ToSet(M[l]) = {}
  <2>1. nx2[l] = l /\ pv2[l] = l
    BY <1>1
  <2>2. ToSet(<< >>) = {}
    BY DEF ToSet
  <2>3. Ring(nx2, pv2, l, Entries, << >>)
    BY <2>1, EmptyRing
  <2>4. QED
    BY <1>2, <2>2, <2>3
<1>4. ASSUME NEW h \in DOMAIN L
      PROVE  Ring(nx2, pv2, h, Entries, M[h])
  <2>1. /\ Ring(nx, pv, h, Entries, L[h]) /\ KlCells(L, h) \subseteq KlLinks
        /\ ToSet(L[h]) \subseteq Entries
    BY KlListIs
  <2>2. l \notin KlCells(L, h)
    BY <2>1, LinksAssumption DEF KlCells
  <2>3. Unchanged(nx, pv, nx2, pv2, ToSet(L[h]) \cup {h})
    BY <1>1, <2>1, <2>2 DEF KlCells, Unchanged
  <2>4. Ring(nx2, pv2, h, Entries, L[h])
    BY <2>1, <2>3, SameRing
  <2>5. QED
    BY <1>2, <2>4
<1>5. ASSUME NEW f \in DOMAIN M, NEW g \in DOMAIN M, f # g
      PROVE  ToSet(M[f]) \cap ToSet(M[g]) = {}
  <2>1. CASE f = l \/ g = l
    BY <1>3, <2>1
  <2>2. CASE f # l /\ g # l
    BY <1>2, <1>5, <2>2 DEF KlList
  <2>3. QED
    BY <2>1, <2>2
<1>6. KlList(nx2, pv2, M)
  BY <1>1, <1>2, <1>3, <1>4, <1>5 DEF KlList
<1>7. QED
  BY <1>0, <1>6

(* __list_splice of the entries at l, which has some, to the list at h.    *)
LEMMA KlSplice ==
  ASSUME NEW nx, NEW pv, NEW L, NEW l, NEW h, NEW nx2, NEW pv2,
         KlList(nx, pv, L), l \in DOMAIN L, h \in DOMAIN L, l # h, nx[l] # l,
         nx2 = [nx EXCEPT ![h] = nx[l], ![pv[l]] = nx[h]],
         pv2 = [pv EXCEPT ![nx[l]] = h, ![nx[h]] = pv[l]]
  PROVE  KlList(nx2, pv2, KlJoined(L, l, h))
<1>0. PICK M : M = KlJoined(L, l, h)
  OBVIOUS
<1>1. PICK q, r : q = L[h] /\ r = L[l]
  OBVIOUS
<1>2. /\ q \in Seq(Entries) /\ Distinct(q) /\ Len(q) \in Nat /\ Ring(nx, pv, h, Entries, q)
      /\ h \notin Entries /\ ToSet(q) \subseteq Entries /\ DOMAIN q = 1 .. Len(q)
      /\ h \in KlLinks /\ ToSet(q) \subseteq KlLinks
  BY <1>1, KlListIs DEF KlCells
<1>3. /\ r \in Seq(Entries) /\ Distinct(r) /\ Len(r) \in Nat /\ Ring(nx, pv, l, Entries, r)
      /\ l \notin Entries /\ ToSet(r) \subseteq Entries /\ DOMAIN r = 1 .. Len(r)
      /\ l \in KlLinks /\ ToSet(r) \subseteq KlLinks
  BY <1>1, KlListIs DEF KlCells
<1>4. ToSet(q) \cap ToSet(r) = {}
  BY <1>1 DEF KlList
<1>5. nx[l] = Cell(r, l, 1) /\ pv[l] = Cell(r, l, Len(r)) /\ Len(r) # 0
  <2>1. PICK n : n = Len(r) + 1
    OBVIOUS
  <2>2. Linked(nx, pv, r, l, 0, 1) /\ Linked(nx, pv, r, l, Len(r), n)
    <3>1. 0 \in 0 .. Len(r) /\ 1 = 0 + 1 /\ Len(r) \in 0 .. Len(r)
      BY <1>3
    <3>2. QED
      BY <1>3, <2>1, <3>1, RingLink
  <2>3. Cell(r, l, 0) = l /\ Cell(r, l, n) = l
    BY <1>3, <2>1 DEF Cell
  <2>4. Len(r) = 0 => Cell(r, l, 1) = l
    BY DEF Cell
  <2>5. QED
    BY <2>2, <2>3, <2>4 DEF Linked
<1>6. nx[l] = r[1] /\ pv[l] = r[Len(r)] /\ nx[l] \in ToSet(r) /\ pv[l] \in ToSet(r)
  <2>1. 1 \in 1 .. Len(r) /\ Len(r) \in 1 .. Len(r)
    BY <1>3, <1>5
  <2>2. QED
    BY <1>3, <1>5, <2>1 DEF Cell, ToSet
<1>7. PICK d : d = Cell(q, h, 1)
  OBVIOUS
<1>8. nx[h] = d /\ d \in ToSet(q) \cup {h}
  <2>1. 0 \in 0 .. Len(q) /\ 1 = 0 + 1
    BY <1>2
  <2>2. Linked(nx, pv, q, h, 0, 1)
    BY <1>2, <2>1, RingLink
  <2>3. Cell(q, h, 0) = h
    BY <1>2 DEF Cell
  <2>4. QED
    BY <1>2, <1>7, <2>2, <2>3, CellsAre DEF Linked
<1>9. DOMAIN nx = KlLinks /\ DOMAIN pv = KlLinks /\ DOMAIN L \subseteq Heads
  BY DEF KlList
<1>10. PICK f, e : f = nx[l] /\ e = pv[l]
  OBVIOUS
<1>11. f # d /\ e # h /\ e # d /\ f # h
  BY <1>2, <1>3, <1>4, <1>6, <1>8, <1>10
<1>12. nx2 = [nx EXCEPT ![h] = f, ![e] = d] /\ pv2 = [pv EXCEPT ![f] = h, ![d] = e]
  BY <1>8, <1>10
<1>13. /\ DOMAIN nx2 = KlLinks /\ DOMAIN pv2 = KlLinks
       /\ nx2[h] = f /\ pv2[f] = h /\ nx2[e] = d /\ pv2[d] = e
  BY <1>2, <1>3, <1>6, <1>8, <1>9, <1>10, <1>11, <1>12
<1>14. \A y \in KlLinks : /\ y # h /\ y # e => nx2[y] = nx[y]
                          /\ y # f /\ y # d => pv2[y] = pv[y]
  BY <1>9, <1>12
<1>15. Bridged(nx, pv, nx2, pv2, ToSet(q) \cup ToSet(r) \cup {h}, h, f, e, d)
  <2>1. ToSet(q) \cup ToSet(r) \cup {h} \subseteq KlLinks
    BY <1>2, <1>3
  <2>2. QED
    BY <1>13, <1>14, <2>1 DEF Bridged
<1>16. Ring(nx2, pv2, h, Entries, r \o q)
  <2>1. h \notin ToSet(r)
    BY <1>2, <1>3
  <2>2. f = r[1] /\ e = r[Len(r)]
    BY <1>6, <1>10
  <2>3. QED
    BY <1>2, <1>3, <1>4, <1>5, <1>7, <1>15, <2>1, <2>2, JoinRing
<1>17. ToSet(r \o q) = ToSet(r) \cup ToSet(q)
  BY <1>2, <1>3, <1>4, JoinFacts
<1>18. /\ DOMAIN M = DOMAIN L \ {l} /\ M[h] = r \o q
       /\ \A g \in DOMAIN M : g # h => M[g] = L[g]
  BY <1>0, <1>1 DEF KlJoined
<1>19. ASSUME NEW g \in DOMAIN M, g # h
       PROVE  /\ Ring(nx2, pv2, g, Entries, L[g])
              /\ ToSet(L[g]) \cap (ToSet(q) \cup ToSet(r)) = {}
  <2>1. KlCells(L, g) \cap KlCells(L, h) = {} /\ KlCells(L, g) \cap KlCells(L, l) = {}
    BY <1>18, <1>19, KlApart
  <2>2. Ring(nx, pv, g, Entries, L[g]) /\ KlCells(L, g) \subseteq KlLinks
    BY <1>18, <1>19, KlListIs
  <2>3. h \notin KlCells(L, g) /\ e \notin KlCells(L, g) /\ f \notin KlCells(L, g)
        /\ d \notin KlCells(L, g)
    BY <1>1, <1>6, <1>8, <1>10, <2>1 DEF KlCells
  <2>4. Unchanged(nx, pv, nx2, pv2, ToSet(L[g]) \cup {g})
    BY <1>14, <2>2, <2>3 DEF KlCells, Unchanged
  <2>5. Ring(nx2, pv2, g, Entries, L[g])
    BY <2>2, <2>4, SameRing
  <2>6. QED
    BY <1>1, <2>1, <2>5 DEF KlCells
<1>20. \A g \in DOMAIN M : Ring(nx2, pv2, g, Entries, M[g])
  BY <1>16, <1>18, <1>19
<1>21. ASSUME NEW g \in DOMAIN M, NEW k \in DOMAIN M, g # k
       PROVE  ToSet(M[g]) \cap ToSet(M[k]) = {}
  <2>1. CASE g = h
    BY <1>17, <1>18, <1>19, <1>21, <2>1
  <2>2. CASE k = h
    BY <1>17, <1>18, <1>19, <1>21, <2>2
  <2>3. CASE g # h /\ k # h
    BY <1>18, <1>21, <2>3 DEF KlList
  <2>4. QED
    BY <2>1, <2>2, <2>3
<1>22. KlList(nx2, pv2, M)
  BY <1>9, <1>13, <1>18, <1>20, <1>21 DEF KlList
<1>23. QED
  BY <1>0, <1>22

(* What the walks over such pointers meet.                                 *)
LEMMA KlWalks ==
  ASSUME NEW nx, NEW pv, NEW L, NEW h, KlList(nx, pv, L), h \in DOMAIN L
  PROVE  Walk(nx, nx[h], h) = L[h] /\ Walk(pv, pv[h], h) = Reverse(L[h])
<1>1. PICK q, r : q = L[h] /\ r = Reverse(q)
  OBVIOUS
<1>2. /\ q \in Seq(Entries) /\ Ring(nx, pv, h, Entries, q) /\ h \notin ToSet(q)
      /\ ToSet(q) \subseteq KlLinks /\ DOMAIN nx = KlLinks /\ DOMAIN pv = KlLinks
  BY <1>1, KlListIs DEF KlList, KlCells
<1>3. IsFiniteSet(KlLinks)
  BY LinksAssumption DEF KlLinks
<1>4. Walk(nx, nx[h], h) = q
  <2>1. nx[h] = IF nx[h] = h THEN h ELSE nx[h]
    OBVIOUS
  <2>2. \A c \in ToSet(q) : nx[c] = IF nx[c] = h THEN h ELSE nx[c]
    OBVIOUS
  <2>3. QED
    BY <1>2, <1>3, <2>1, <2>2, RingWalk
<1>5. Ring(pv, nx, h, Entries, r) /\ ToSet(r) = ToSet(q)
  BY <1>1, <1>2, ReverseRing, ReverseFacts
<1>6. Walk(pv, pv[h], h) = r
  <2>1. pv[h] = IF pv[h] = h THEN h ELSE pv[h]
    OBVIOUS
  <2>2. \A c \in ToSet(r) : pv[c] = IF pv[c] = h THEN h ELSE pv[c]
    OBVIOUS
  <2>3. QED
    BY <1>2, <1>3, <1>5, <2>1, <2>2, RingWalk
<1>7. QED
  BY <1>1, <1>4, <1>6

(* The walk of the instance is that of Pointers.                           *)
LEMMA KlWalkIs ==
  ASSUME NEW f, NEW x, NEW end
  PROVE  Kl!Walk(f, x, end) = Walk(f, x, end)
BY DEF Kl!Walk, Walk, Kl!Cardinality, Cardinality

(* The operators of the instance are those of Sequence.                    *)
LEMMA KlSame ==
  ASSUME NEW q, NEW i, NEW e
  PROVE  /\ Kl!Range(q) = ToSet(q) /\ (Kl!IsInjective(q) <=> Distinct(q))
         /\ Kl!Reverse(q) = Reverse(q) /\ Kl!At(q, e) = At(q, e)
         /\ Kl!RemoveAt(q, i) = RemoveAt(q, i)
<1>1. Kl!Range(q) = ToSet(q) /\ (Kl!IsInjective(q) <=> Distinct(q))
  BY DEF Kl!Range, ToSet, Kl!IsInjective, Distinct
<1>2. Kl!Reverse(q) = Reverse(q)
  BY DEF Kl!Reverse, Reverse
<1>3. Kl!At(q, e) = At(q, e)
  BY DEF Kl!At, At
<1>4. Kl!RemoveAt(q, i) = RemoveAt(q, i)
  BY DEF Kl!RemoveAt, RemoveAt
<1>5. QED
  BY <1>1, <1>2, <1>3, <1>4

(* The lists are those of L, or will be.                                   *)
KlIs(L) ==
  /\ KlList(knext, kprev, L) /\ spliced \subseteq Heads /\ DOMAIN L = Heads \ spliced
  /\ \A h \in DOMAIN L : Kl!Listed(h) = L[h] /\ Kl!ListedReverse(h) = Reverse(L[h])
KlBecomes(L) ==
  /\ KlList(knext', kprev', L) /\ spliced' \subseteq Heads /\ DOMAIN L = Heads \ spliced'
  /\ \A h \in DOMAIN L : Kl!Listed(h)' = L[h]

(* The lists that the pointers form are those the walks visit.             *)
LEMMA KlListed ==
  ASSUME NEW L
  PROVE  /\ KlList(knext, kprev, L) /\ spliced \subseteq Heads /\ DOMAIN L = Heads \ spliced
              => KlIs(L)
         /\ KlList(knext', kprev', L) /\ spliced' \subseteq Heads /\ DOMAIN L = Heads \ spliced'
              => KlBecomes(L)
         /\ KlBecomes(L) => KlIs(L)'
<1>1. \A h : Kl!Listed(h) = Walk(knext, knext[h], h)
  BY KlWalkIs DEF Kl!Listed
<1>2. \A h : Kl!ListedReverse(h) = Walk(kprev, kprev[h], h)
  BY KlWalkIs DEF Kl!ListedReverse
<1>3. \A h : Kl!Listed(h)' = Walk(knext', knext'[h], h)
  BY KlWalkIs DEF Kl!Listed
<1>4. \A h : Kl!ListedReverse(h)' = Walk(kprev', kprev'[h], h)
  BY KlWalkIs DEF Kl!ListedReverse
<1>5. KlList(knext, kprev, L) =>
        \A h \in DOMAIN L : Kl!Listed(h) = L[h] /\ Kl!ListedReverse(h) = Reverse(L[h])
  BY <1>1, <1>2, KlWalks
<1>6. KlList(knext', kprev', L) =>
        \A h \in DOMAIN L : Kl!Listed(h)' = L[h] /\ Kl!ListedReverse(h)' = Reverse(L[h])
  BY <1>3, <1>4, KlWalks
<1>7. QED
  BY <1>5, <1>6 DEF KlIs, KlBecomes

KlEndsAre(nx, pv, q, h) ==
  /\ nx[h] = Cell(q, h, 1) /\ pv[h] = Cell(q, h, Len(q))
  /\ h = Cell(q, h, 0) /\ h = Cell(q, h, Len(q) + 1)

(* What a head points at.                                                  *)
LEMMA KlEnds ==
  ASSUME NEW nx, NEW pv, NEW L, NEW h, KlList(nx, pv, L), h \in DOMAIN L
  PROVE  KlEndsAre(nx, pv, L[h], h)
<1>1. PICK q, n : q = L[h] /\ n = Len(q) + 1
  OBVIOUS
<1>2. Ring(nx, pv, h, Entries, q) /\ Len(q) \in Nat
  BY <1>1, KlListIs
<1>3. 0 \in 0 .. Len(q) /\ 1 = 0 + 1 /\ Len(q) \in 0 .. Len(q)
  BY <1>2
<1>4. Linked(nx, pv, q, h, 0, 1) /\ Linked(nx, pv, q, h, Len(q), n)
  BY <1>1, <1>2, <1>3, RingLink
<1>5. Cell(q, h, 0) = h /\ Cell(q, h, n) = h
  BY <1>1, <1>2 DEF Cell
<1>6. QED
  BY <1>1, <1>4, <1>5 DEF Linked, KlEndsAre

(* What __list_add makes of a list, after its head and before it.          *)
LEMMA KlAdd ==
  ASSUME NEW nx, NEW pv, NEW L, NEW h, NEW x, KlList(nx, pv, L), h \in DOMAIN L, KlLoose(L, x)
  PROVE  /\ Kl!Add(nx, pv, x, h, nx[h]) =>
              KlList(knext', kprev', [L EXCEPT ![h] = <<x>> \o L[h]])
         /\ Kl!Add(nx, pv, x, pv[h], h) =>
              KlList(knext', kprev', [L EXCEPT ![h] = Append(L[h], x)])
<1>1. PICK q, n : q = L[h] /\ n = Len(q) + 1
  OBVIOUS
<1>2. q \in Seq(Entries) /\ Len(q) \in Nat /\ x \in Entries
  BY <1>1, KlListIs DEF KlLoose
<1>3. /\ nx[h] = Cell(q, h, 1) /\ pv[h] = Cell(q, h, Len(q))
      /\ h = Cell(q, h, 0) /\ h = Cell(q, h, n)
  <2>1. KlEndsAre(nx, pv, q, h)
    BY <1>1, KlEnds
  <2>2. QED
    BY <1>1, <2>1 DEF KlEndsAre
<1>4. ASSUME Kl!Add(nx, pv, x, h, nx[h])
      PROVE  KlList(knext', kprev', [L EXCEPT ![h] = <<x>> \o q])
  <2>1. PICK d : d = nx[h]
    OBVIOUS
  <2>2. knext' = [nx EXCEPT ![x] = d, ![h] = x] /\ kprev' = [pv EXCEPT ![d] = x, ![x] = h]
    BY <1>4, <2>1 DEF Kl!Add
  <2>3. 0 \in 0 .. Len(q) /\ 1 = 0 + 1
    BY <1>2
  <2>4. KlList(knext', kprev', [L EXCEPT ![h] = InsertAt(q, 1, x)])
    BY <1>1, <1>3, <2>1, <2>2, <2>3, KlInsert
  <2>5. QED
    BY <1>2, <2>4, PushIsInsert
<1>5. ASSUME Kl!Add(nx, pv, x, pv[h], h)
      PROVE  KlList(knext', kprev', [L EXCEPT ![h] = Append(q, x)])
  <2>1. PICK c : c = pv[h]
    OBVIOUS
  <2>2. knext' = [nx EXCEPT ![x] = h, ![c] = x] /\ kprev' = [pv EXCEPT ![h] = x, ![x] = c]
    BY <1>5, <2>1 DEF Kl!Add
  <2>3. Len(q) \in 0 .. Len(q)
    BY <1>2
  <2>4. KlList(knext', kprev', [L EXCEPT ![h] = InsertAt(q, n, x)])
    BY <1>1, <1>3, <2>1, <2>2, <2>3, KlInsert
  <2>5. InsertAt(q, n, x) = Append(q, x)
    BY <1>1, <1>2, AppendIsInsert
  <2>6. QED
    BY <2>4, <2>5
<1>6. QED
  BY <1>1, <1>4, <1>5

(* The lists without the k-th entry of the list at h.                      *)
KlLess(L, h, k) == [L EXCEPT ![h] = RemoveAt(L[h], k)]

(* __list_del takes an entry out of its list.                              *)
LEMMA KlWithout ==
  ASSUME NEW L, NEW h, NEW k, NEW x, KlIs(L), h \in DOMAIN L, k \in 1 .. Len(L[h]), x = L[h][k]
  PROVE  /\ KlList(Kl!NextWithout(x), Kl!PrevWithout(x), KlLess(L, h, k))
         /\ KlLoose(KlLess(L, h, k), x) /\ DOMAIN KlLess(L, h, k) = DOMAIN L
<1>1. KlList(knext, kprev, L)
  BY DEF KlIs
<1>2. PICK nx2, pv2 : /\ nx2 = [knext EXCEPT ![kprev[x]] = knext[x]]
                      /\ pv2 = [kprev EXCEPT ![knext[x]] = kprev[x]]
  OBVIOUS
<1>3. KlList(nx2, pv2, KlLess(L, h, k)) /\ KlLoose(KlLess(L, h, k), x)
  BY <1>1, <1>2, KlRemove DEF KlLess
<1>4. QED
  BY <1>2, <1>3 DEF Kl!NextWithout, Kl!PrevWithout, KlLess

(* What each operation makes of the lists.                                 *)
LEMMA KlInsertions ==
  ASSUME NEW L, NEW h, NEW x, KlIs(L), h \in DOMAIN L, KlLoose(L, x)
  PROVE  /\ Kl!list_add(x, h) => KlBecomes([L EXCEPT ![h] = <<x>> \o L[h]])
         /\ Kl!list_add_tail(x, h) => KlBecomes([L EXCEPT ![h] = Append(L[h], x)])
<1>1. KlList(knext, kprev, L) /\ spliced \subseteq Heads /\ DOMAIN L = Heads \ spliced
  BY DEF KlIs
<1>2. ASSUME Kl!list_add(x, h)
      PROVE  KlBecomes([L EXCEPT ![h] = <<x>> \o L[h]])
  <2>1. Kl!Add(knext, kprev, x, h, knext[h]) /\ spliced' = spliced
    BY <1>2 DEF Kl!list_add
  <2>2. KlList(knext', kprev', [L EXCEPT ![h] = <<x>> \o L[h]])
    BY <1>1, <2>1, KlAdd
  <2>3. QED
    BY <1>1, <2>1, <2>2, KlListed
<1>3. ASSUME Kl!list_add_tail(x, h)
      PROVE  KlBecomes([L EXCEPT ![h] = Append(L[h], x)])
  <2>1. Kl!Add(knext, kprev, x, kprev[h], h) /\ spliced' = spliced
    BY <1>3 DEF Kl!list_add_tail
  <2>2. KlList(knext', kprev', [L EXCEPT ![h] = Append(L[h], x)])
    BY <1>1, <2>1, KlAdd
  <2>3. QED
    BY <1>1, <2>1, <2>2, KlListed
<1>4. QED
  BY <1>2, <1>3

(* list_del and list_del_init take an entry out of its list.               *)
LEMMA KlRemovals ==
  ASSUME NEW L, NEW h, NEW k, NEW x, KlIs(L), h \in DOMAIN L, k \in 1 .. Len(L[h]), x = L[h][k],
         Kl!list_del(x) \/ Kl!list_del_init(x)
  PROVE  KlBecomes(KlLess(L, h, k))
<1>1. spliced \subseteq Heads /\ DOMAIN L = Heads \ spliced
  BY DEF KlIs
<1>2. PICK nx, pv, M : nx = Kl!NextWithout(x) /\ pv = Kl!PrevWithout(x) /\ M = KlLess(L, h, k)
  OBVIOUS
<1>3. KlList(nx, pv, M) /\ KlLoose(M, x) /\ DOMAIN M = DOMAIN L
  BY <1>2, KlWithout
<1>4. PICK y : knext' = [nx EXCEPT ![x] = y] /\ kprev' = [pv EXCEPT ![x] = y]
  BY <1>2 DEF Kl!list_del, Kl!list_del_init
<1>5. spliced' = spliced
  BY DEF Kl!list_del, Kl!list_del_init
<1>6. KlList(knext', kprev', M)
  BY <1>3, <1>4, KlOutside
<1>7. QED
  BY <1>1, <1>2, <1>3, <1>5, <1>6, KlListed

(* list_move and list_move_tail take an entry to a list.                   *)
LEMMA KlMoves ==
  ASSUME NEW L, NEW h, NEW k, NEW x, NEW g, NEW M,
         KlIs(L), h \in DOMAIN L, k \in 1 .. Len(L[h]), x = L[h][k], g \in DOMAIN L,
         M = KlLess(L, h, k)
  PROVE  /\ Kl!list_move(x, g) => KlBecomes([M EXCEPT ![g] = <<x>> \o M[g]])
         /\ Kl!list_move_tail(x, g) => KlBecomes([M EXCEPT ![g] = Append(M[g], x)])
<1>1. spliced \subseteq Heads /\ DOMAIN L = Heads \ spliced
  BY DEF KlIs
<1>2. PICK nx, pv : nx = Kl!NextWithout(x) /\ pv = Kl!PrevWithout(x)
  OBVIOUS
<1>3. KlList(nx, pv, M) /\ KlLoose(M, x) /\ DOMAIN M = DOMAIN L
  BY <1>2, KlWithout
<1>4. ASSUME Kl!list_move(x, g)
      PROVE  KlBecomes([M EXCEPT ![g] = <<x>> \o M[g]])
  <2>1. Kl!Add(nx, pv, x, g, nx[g]) /\ spliced' = spliced
    BY <1>2, <1>4 DEF Kl!list_move
  <2>2. KlList(knext', kprev', [M EXCEPT ![g] = <<x>> \o M[g]])
    BY <1>3, <2>1, KlAdd
  <2>3. QED
    BY <1>1, <1>3, <2>1, <2>2, KlListed
<1>5. ASSUME Kl!list_move_tail(x, g)
      PROVE  KlBecomes([M EXCEPT ![g] = Append(M[g], x)])
  <2>1. Kl!Add(nx, pv, x, pv[g], g) /\ spliced' = spliced
    BY <1>2, <1>5 DEF Kl!list_move_tail
  <2>2. KlList(knext', kprev', [M EXCEPT ![g] = Append(M[g], x)])
    BY <1>3, <2>1, KlAdd
  <2>3. QED
    BY <1>1, <1>3, <2>1, <2>2, KlListed
<1>6. QED
  BY <1>4, <1>5

(* list_splice and list_splice_init join two lists.                        *)
LEMMA KlSplices ==
  ASSUME NEW L, NEW l, NEW h, KlIs(L), l \in DOMAIN L, h \in DOMAIN L, l # h
  PROVE  /\ Kl!list_splice(l, h) => KlBecomes(KlJoined(L, l, h))
         /\ Kl!list_splice_init(l, h) => KlBecomes(KlWith(KlJoined(L, l, h), l))
<1>1. KlList(knext, kprev, L) /\ spliced \subseteq Heads /\ DOMAIN L = Heads \ spliced
  BY DEF KlIs
<1>2. PICK M, nx, pv : /\ M = KlJoined(L, l, h)
                       /\ nx = [knext EXCEPT ![h] = knext[l], ![kprev[l]] = knext[h]]
                       /\ pv = [kprev EXCEPT ![knext[l]] = h, ![knext[h]] = kprev[l]]
  OBVIOUS
<1>3. knext[l] # l => KlList(nx, pv, M)
  BY <1>1, <1>2, KlSplice
<1>4. DOMAIN M = DOMAIN L \ {l} /\ l \in Heads
  BY <1>1, <1>2 DEF KlJoined
<1>5. ASSUME Kl!list_splice(l, h)
      PROVE  KlBecomes(M)
  <2>1. knext[l] # l /\ knext' = nx /\ kprev' = pv /\ spliced' = spliced \cup {l}
    BY <1>2, <1>5 DEF Kl!list_splice, Kl!list_empty, Kl!NextSpliced, Kl!PrevSpliced
  <2>2. spliced' \subseteq Heads /\ DOMAIN M = Heads \ spliced'
    BY <1>1, <1>4, <2>1
  <2>3. QED
    BY <1>3, <2>1, <2>2, KlListed
<1>6. ASSUME Kl!list_splice_init(l, h)
      PROVE  KlBecomes(KlWith(M, l))
  <2>1. /\ knext[l] # l /\ spliced' = spliced
        /\ knext' = [nx EXCEPT ![l] = l] /\ kprev' = [pv EXCEPT ![l] = l]
    BY <1>2, <1>6 DEF Kl!list_splice_init, Kl!list_empty, Kl!NextSpliced, Kl!PrevSpliced
  <2>2. KlList(knext', kprev', KlWith(M, l))
    BY <1>3, <1>4, <2>1, KlEmpty
  <2>3. DOMAIN KlWith(M, l) = DOMAIN L
    BY <1>4 DEF KlWith
  <2>4. QED
    BY <1>1, <2>1, <2>2, <2>3, KlListed
<1>7. QED
  BY <1>2, <1>5, <1>6

(* INIT_LIST_HEAD makes a head an empty list again.                        *)
LEMMA KlInits ==
  ASSUME NEW L, NEW x, KlIs(L), Kl!INIT_LIST_HEAD(x)
  PROVE  /\ KlLoose(L, x) => KlBecomes(L)
         /\ x \in spliced => KlBecomes(KlWith(L, x))
<1>1. KlList(knext, kprev, L) /\ spliced \subseteq Heads /\ DOMAIN L = Heads \ spliced
  BY DEF KlIs
<1>2. /\ knext' = [knext EXCEPT ![x] = x] /\ kprev' = [kprev EXCEPT ![x] = x]
      /\ spliced' = spliced \ {x}
  BY DEF Kl!INIT_LIST_HEAD
<1>3. ASSUME KlLoose(L, x)
      PROVE  KlBecomes(L)
  <2>1. KlList(knext', kprev', L)
    BY <1>1, <1>2, <1>3, KlOutside
  <2>2. x \notin Heads
    BY <1>3, LinksAssumption DEF KlLoose
  <2>3. spliced' = spliced
    BY <1>1, <1>2, <2>2
  <2>4. QED
    BY <1>1, <2>1, <2>3, KlListed
<1>4. ASSUME x \in spliced
      PROVE  KlBecomes(KlWith(L, x))
  <2>1. x \in Heads \ DOMAIN L
    BY <1>1, <1>4
  <2>2. KlList(knext', kprev', KlWith(L, x))
    BY <1>1, <1>2, <2>1, KlEmpty
  <2>3. DOMAIN KlWith(L, x) = Heads \ spliced' /\ spliced' \subseteq Heads
    BY <1>1, <1>2, <1>4 DEF KlWith
  <2>4. QED
    BY <2>2, <2>3, KlListed
<1>5. QED
  BY <1>3, <1>4

KlInv == \E L : KlIs(L)

(* The lists start empty.                                                  *)
LEMMA KlStarts ==
  ASSUME Kl!Init
  PROVE  KlInv
<1>1. PICK L : L = [h \in Heads |-> << >>]
  OBVIOUS
<1>2. /\ DOMAIN knext = KlLinks /\ DOMAIN kprev = KlLinks /\ spliced = {}
      /\ \A h \in Heads : knext[h] = h /\ kprev[h] = h
  BY DEF Kl!Init, Kl!Links, KlLinks
<1>3. ASSUME NEW h \in Heads
      PROVE  Ring(knext, kprev, h, Entries, L[h]) /\ ToSet(L[h]) = {}
  <2>1. L[h] = << >>
    BY <1>1
  <2>2. Ring(knext, kprev, h, Entries, << >>)
    BY <1>2, EmptyRing
  <2>3. ToSet(<< >>) = {}
    BY DEF ToSet
  <2>4. QED
    BY <2>1, <2>2, <2>3
<1>4. KlList(knext, kprev, L)
  BY <1>1, <1>2, <1>3 DEF KlList
<1>5. KlIs(L)
  BY <1>1, <1>2, <1>4, KlListed
<1>6. QED
  BY <1>5 DEF KlInv

(* The names of the model for what is in the lists.                        *)
LEMMA KlNames ==
  ASSUME NEW L, KlIs(L)
  PROVE  /\ Kl!Usable = DOMAIN L
         /\ \A h \in DOMAIN L : Kl!Range(Kl!Listed(h)) = ToSet(L[h])
         /\ \A x \in Entries \ Kl!InList : KlLoose(L, x)
         /\ \A x \in Kl!InList : \E h \in DOMAIN L : x \in ToSet(L[h])
         /\ \A h \in DOMAIN L : \A x \in ToSet(L[h]) : \E k \in 1 .. Len(L[h]) : x = L[h][k]
<1>1. Kl!Usable = DOMAIN L
  BY DEF Kl!Usable, KlIs
<1>2. \A h \in DOMAIN L : Kl!Range(Kl!Listed(h)) = ToSet(L[h])
  BY KlSame DEF KlIs
<1>3. \A x : x \in Kl!InList <=> \E h \in DOMAIN L : x \in ToSet(L[h])
  BY <1>1, <1>2 DEF Kl!InList
<1>4. \A h \in DOMAIN L : DOMAIN L[h] = 1 .. Len(L[h])
  BY KlListIs DEF KlIs
<1>5. QED
  BY <1>1, <1>2, <1>3, <1>4 DEF KlLoose, ToSet

(* Every function of list.h keeps the pointers lists.                      *)
LEMMA KlSteps ==
  ASSUME KlInv, Kl!Next
  PROVE  KlInv'
<1>1. PICK L : KlIs(L)
  BY DEF KlInv
<1>2. /\ Kl!Usable = DOMAIN L
      /\ \A x \in Entries \ Kl!InList : KlLoose(L, x)
      /\ \A x \in Kl!InList : \E h \in DOMAIN L : x \in ToSet(L[h])
      /\ \A h \in DOMAIN L : \A x \in ToSet(L[h]) : \E k \in 1 .. Len(L[h]) : x = L[h][k]
  BY <1>1, KlNames
<1>3. SUFFICES \E M : KlBecomes(M)
  BY KlListed DEF KlInv
<1>4. CASE \E x \in Entries \ Kl!InList :
             \/ Kl!INIT_LIST_HEAD(x)
             \/ \E h \in Kl!Usable : Kl!list_add(x, h) \/ Kl!list_add_tail(x, h)
  BY <1>1, <1>2, <1>4, KlInits, KlInsertions
<1>5. CASE \E x \in Kl!InList :
             \/ Kl!list_del(x) \/ Kl!list_del_init(x)
             \/ \E h \in Kl!Usable : Kl!list_move(x, h) \/ Kl!list_move_tail(x, h)
  <2>1. PICK x \in Kl!InList :
             \/ Kl!list_del(x) \/ Kl!list_del_init(x)
             \/ \E h \in Kl!Usable : Kl!list_move(x, h) \/ Kl!list_move_tail(x, h)
    BY <1>5
  <2>2. PICK h \in DOMAIN L : x \in ToSet(L[h])
    BY <1>2
  <2>3. PICK k \in 1 .. Len(L[h]) : x = L[h][k]
    BY <1>2, <2>2
  <2>4. CASE Kl!list_del(x) \/ Kl!list_del_init(x)
    BY <1>1, <2>3, <2>4, KlRemovals
  <2>5. CASE \E g \in DOMAIN L : Kl!list_move(x, g) \/ Kl!list_move_tail(x, g)
    <3>1. PICK g \in DOMAIN L : Kl!list_move(x, g) \/ Kl!list_move_tail(x, g)
      BY <2>5
    <3>2. PICK M : M = KlLess(L, h, k)
      OBVIOUS
    <3>3. /\ Kl!list_move(x, g) => KlBecomes([M EXCEPT ![g] = <<x>> \o M[g]])
          /\ Kl!list_move_tail(x, g) => KlBecomes([M EXCEPT ![g] = Append(M[g], x)])
      BY <1>1, <2>3, <3>2, KlMoves
    <3>4. QED
      BY <3>1, <3>3
  <2>6. QED
    BY <1>2, <2>1, <2>4, <2>5
<1>6. CASE \E l \in Kl!Usable : \E h \in Kl!Usable \ {l} :
             Kl!list_splice(l, h) \/ Kl!list_splice_init(l, h)
  BY <1>1, <1>2, <1>6, KlSplices
<1>7. CASE \E l \in spliced : Kl!INIT_LIST_HEAD(l)
  BY <1>1, <1>7, KlInits
<1>8. QED
  BY <1>4, <1>5, <1>6, <1>7 DEF Kl!Next

(* Every list is a ring, and no two share an entry.                        *)
LEMMA KlRings ==
  ASSUME KlInv
  PROVE  Kl!Rings
<1>1. PICK L : KlIs(L)
  BY DEF KlInv
<1>2. Kl!Usable = DOMAIN L /\ \A h \in DOMAIN L : Kl!Range(Kl!Listed(h)) = ToSet(L[h])
  BY <1>1, KlNames
<1>3. ASSUME NEW h \in DOMAIN L
      PROVE  /\ Kl!Reverse(Kl!ListedReverse(h)) = Kl!Listed(h)
             /\ Kl!IsInjective(Kl!Listed(h))
  <2>1. L[h] \in Seq(Entries) /\ Distinct(L[h])
    BY <1>1, KlListIs DEF KlIs
  <2>2. Kl!Listed(h) = L[h] /\ Kl!ListedReverse(h) = Reverse(L[h])
    BY <1>1 DEF KlIs
  <2>3. Reverse(Reverse(L[h])) = L[h]
    BY <2>1, ReverseFacts
  <2>4. Kl!IsInjective(L[h]) /\ Kl!Reverse(Reverse(L[h])) = Reverse(Reverse(L[h]))
    BY <2>1, KlSame
  <2>5. QED
    BY <2>2, <2>3, <2>4
<1>4. \A g, h \in DOMAIN L : g # h => ToSet(L[g]) \cap ToSet(L[h]) = {}
  BY <1>1 DEF KlIs, KlList
<1>5. QED
  BY <1>2, <1>3, <1>4 DEF Kl!Rings

(* Every function does to its lists what its name says.                    *)
LEMMA KlSequenced ==
  ASSUME KlInv
  PROVE  Kl!Sequenced
<1>1. PICK L : KlIs(L)
  BY DEF KlInv
<1>2. /\ Kl!Usable = DOMAIN L
      /\ \A h \in DOMAIN L : Kl!Range(Kl!Listed(h)) = ToSet(L[h]) /\ Kl!Listed(h) = L[h]
      /\ \A x \in Entries \ Kl!InList : KlLoose(L, x)
      /\ \A h \in DOMAIN L : \A x \in ToSet(L[h]) : \E k \in 1 .. Len(L[h]) : x = L[h][k]
  <2>1. \A h \in DOMAIN L : Kl!Listed(h) = L[h]
    BY <1>1 DEF KlIs
  <2>2. /\ Kl!Usable = DOMAIN L
        /\ \A h \in DOMAIN L : Kl!Range(Kl!Listed(h)) = ToSet(L[h])
        /\ \A x \in Entries \ Kl!InList : KlLoose(L, x)
        /\ \A h \in DOMAIN L : \A x \in ToSet(L[h]) : \E k \in 1 .. Len(L[h]) : x = L[h][k]
    BY <1>1, KlNames
  <2>3. QED
    BY <2>1, <2>2
<1>3. \A M, h : KlBecomes(M) /\ h \in DOMAIN M => Kl!Listed(h)' = M[h]
  BY DEF KlBecomes
<1>4. ASSUME NEW h \in DOMAIN L, NEW x \in Entries \ Kl!InList
      PROVE  /\ Kl!list_add(x, h) => Kl!InsertFirst(L[h], Kl!Listed(h)', x)
             /\ Kl!list_add_tail(x, h) => Kl!InsertLast(L[h], Kl!Listed(h)', x)
  <2>1. PICK M1, M2 : /\ M1 = [L EXCEPT ![h] = <<x>> \o L[h]]
                      /\ M2 = [L EXCEPT ![h] = Append(L[h], x)]
    OBVIOUS
  <2>2. /\ Kl!list_add(x, h) => KlBecomes(M1)
        /\ Kl!list_add_tail(x, h) => KlBecomes(M2)
    BY <1>1, <1>2, <2>1, KlInsertions
  <2>3. h \in DOMAIN M1 /\ M1[h] = <<x>> \o L[h] /\ h \in DOMAIN M2 /\ M2[h] = Append(L[h], x)
    BY <2>1
  <2>4. QED
    BY <1>3, <2>2, <2>3 DEF Kl!InsertFirst, Kl!InsertLast
<1>5. ASSUME NEW h \in DOMAIN L, NEW x \in ToSet(L[h])
      PROVE  /\ Kl!list_del(x) \/ Kl!list_del_init(x) => Kl!Delete(L[h], Kl!Listed(h)', x)
             /\ \A g \in DOMAIN L :
                  /\ Kl!list_move(x, g) =>
                       /\ Kl!Listed(g)' = <<x>> \o Kl!Dropped(L[g], x)
                       /\ g # h => Kl!Delete(L[h], Kl!Listed(h)', x)
                  /\ Kl!list_move_tail(x, g) =>
                       /\ Kl!Listed(g)' = Append(Kl!Dropped(L[g], x), x)
                       /\ g # h => Kl!Delete(L[h], Kl!Listed(h)', x)
  <2>1. PICK k \in 1 .. Len(L[h]) : x = L[h][k]
    BY <1>2
  <2>2. PICK M : M = KlLess(L, h, k)
    OBVIOUS
  <2>3. /\ DOMAIN M = DOMAIN L /\ M[h] = RemoveAt(L[h], k)
        /\ \A g \in DOMAIN L : g # h => M[g] = L[g]
    BY <2>2 DEF KlLess
  <2>4. L[h] \in Seq(Entries) /\ Distinct(L[h])
    BY <1>1, KlListIs DEF KlIs
  <2>5. x \in Kl!Range(L[h]) /\ Kl!At(L[h], x) = k /\ Kl!RemoveAt(L[h], k) = RemoveAt(L[h], k)
    BY <2>1, <2>4, AtIs, KlSame
  <2>6. ASSUME Kl!Listed(h)' = M[h]
        PROVE  Kl!Delete(L[h], Kl!Listed(h)', x)
    BY <2>3, <2>5, <2>6 DEF Kl!Delete
  <2>7. \A g \in DOMAIN L : Kl!Dropped(L[g], x) = M[g]
    <3>1. Kl!Dropped(L[h], x) = M[h]
      BY <2>3, <2>5 DEF Kl!Dropped
    <3>2. ASSUME NEW g \in DOMAIN L, g # h
          PROVE  Kl!Dropped(L[g], x) = L[g]
      <4>1. x \notin ToSet(L[g])
        BY <1>1, <1>5, <3>2 DEF KlIs, KlList
      <4>2. x \notin Kl!Range(L[g])
        BY <4>1, KlSame
      <4>3. QED
        BY <4>2 DEF Kl!Dropped
    <3>3. QED
      BY <2>3, <3>1, <3>2
  <2>8. ASSUME Kl!list_del(x) \/ Kl!list_del_init(x)
        PROVE  Kl!Delete(L[h], Kl!Listed(h)', x)
    <3>1. KlBecomes(M)
      BY <1>1, <2>1, <2>2, <2>8, KlRemovals
    <3>2. QED
      BY <1>3, <2>3, <2>6, <3>1
  <2>9. ASSUME NEW g \in DOMAIN L, NEW t, KlBecomes([M EXCEPT ![g] = t])
        PROVE  Kl!Listed(g)' = t /\ (g # h => Kl!Delete(L[h], Kl!Listed(h)', x))
    <3>1. PICK M2 : M2 = [M EXCEPT ![g] = t]
      OBVIOUS
    <3>2. /\ DOMAIN M2 = DOMAIN L /\ M2[g] = t /\ (g # h => M2[h] = M[h])
      BY <2>3, <3>1
    <3>3. QED
      BY <1>3, <2>6, <2>9, <3>1, <3>2
  <2>10. ASSUME NEW g \in DOMAIN L
         PROVE  /\ Kl!list_move(x, g) => KlBecomes([M EXCEPT ![g] = <<x>> \o M[g]])
                /\ Kl!list_move_tail(x, g) => KlBecomes([M EXCEPT ![g] = Append(M[g], x)])
    BY <1>1, <2>1, <2>2, KlMoves
  <2>11. QED
    BY <2>7, <2>8, <2>9, <2>10
<1>6. ASSUME NEW l \in DOMAIN L, NEW h \in DOMAIN L \ {l}
      PROVE  /\ Kl!list_splice(l, h) => Kl!Join(L[h], Kl!Listed(h)', L[l])
             /\ Kl!list_splice_init(l, h) =>
                  Kl!Join(L[h], Kl!Listed(h)', L[l]) /\ Kl!Listed(l)' = << >>
  <2>1. PICK M1, M2 : M1 = KlJoined(L, l, h) /\ M2 = KlWith(M1, l)
    OBVIOUS
  <2>2. /\ Kl!list_splice(l, h) => KlBecomes(M1)
        /\ Kl!list_splice_init(l, h) => KlBecomes(M2)
    BY <1>1, <2>1, KlSplices
  <2>3. h \in DOMAIN M1 /\ M1[h] = L[l] \o L[h]
    BY <2>1 DEF KlJoined
  <2>4. h \in DOMAIN M2 /\ M2[h] = L[l] \o L[h] /\ l \in DOMAIN M2 /\ M2[l] = << >>
    BY <2>1, <2>3 DEF KlWith
  <2>5. QED
    BY <1>3, <2>2, <2>3, <2>4 DEF Kl!Join
<1>7. QED
  BY <1>2, <1>4, <1>5, <1>6 DEF Kl!Sequenced

=============================================================================
