------------------------------ MODULE ListProofs ------------------------------
(***************************************************************************)
(* Proofs about the linked lists of util/, for any number of lists, nodes  *)
(* and elements: adlist, with its iterator, its duplication and its        *)
(* lookups, and what follows for the three kinds of list together.         *)
(***************************************************************************)
EXTENDS LinkProofs

(* adlist *)

Pointer == Cells \cup {NULL}
AdNode == [prev : Pointer, next : Pointer, value : Values]
AdRecord == [head : Pointer, tail : Pointer, len : Nat]

AdNodes(nd) == DOMAIN nd \subseteq Cells /\ nd \in [DOMAIN nd -> AdNode]

(* The pointers of a list with record r: NULL is before its first node and *)
(* after its last.                                                         *)
AdNext(nd, r) == [c \in DOMAIN nd \cup {NULL} |-> IF c = NULL THEN r.head ELSE nd[c].next]
AdPrev(nd, r) == [c \in DOMAIN nd \cup {NULL} |-> IF c = NULL THEN r.tail ELSE nd[c].prev]

AdChain(nd, r, q) ==
  /\ Ring(AdNext(nd, r), AdPrev(nd, r), NULL, Cells, q)
  /\ ToSet(q) \subseteq DOMAIN nd
  /\ r \in AdRecord /\ r.len = Len(q)

(* NULL is no address of a node, no list and no variable of one.           *)
LEMMA NullIsNoCell == NULL \notin Cells /\ NULL \notin AdRecord /\ NULL \notin Lists
BY CellsAssumption DEF AdRecord, Pointer

(* The sequence of a list.                                                 *)
LEMMA AdChainIs ==
  ASSUME NEW nd, NEW r, NEW q, AdChain(nd, r, q)
  PROVE  /\ q \in Seq(Cells) /\ Distinct(q) /\ NULL \notin ToSet(q)
         /\ Len(q) \in Nat /\ DOMAIN q = 1 .. Len(q)
         /\ Ring(AdNext(nd, r), AdPrev(nd, r), NULL, Cells, q)
         /\ ToSet(q) \subseteq DOMAIN nd /\ ToSet(q) \subseteq Cells
         /\ r \in AdRecord /\ r.len = Len(q) /\ r # NULL
<1>1. Ring(AdNext(nd, r), AdPrev(nd, r), NULL, Cells, q) /\ r \in AdRecord
  BY DEF AdChain
<1>2. /\ q \in Seq(Cells) /\ Distinct(q) /\ NULL \notin ToSet(q)
      /\ Len(q) \in Nat /\ DOMAIN q = 1 .. Len(q)
  BY <1>1, RingIs
<1>3. ToSet(q) \subseteq Cells
  BY <1>2, ElementsOf
<1>4. QED
  BY <1>1, <1>2, <1>3, NullIsNoCell DEF AdChain

(* The pointers of a list, closed to a ring by NULL.                       *)
LEMMA AdPointers ==
  ASSUME NEW nd, NEW r, NULL \notin DOMAIN nd
  PROVE  /\ AdNext(nd, r)[NULL] = r.head /\ AdPrev(nd, r)[NULL] = r.tail
         /\ \A c \in DOMAIN nd : AdNext(nd, r)[c] = nd[c].next /\ AdPrev(nd, r)[c] = nd[c].prev
BY DEF AdNext, AdPrev

(* What WithPrev(WithNext(nd, x, y), u, w) changes.                        *)
AdWired(nd, nd2, x, y, u, w) ==
  /\ AdNodes(nd2) /\ DOMAIN nd2 = DOMAIN nd
  /\ \A c \in DOMAIN nd : /\ nd2[c].next = IF c = x THEN y ELSE nd[c].next
                          /\ nd2[c].prev = IF c = u THEN w ELSE nd[c].prev
                          /\ nd2[c].value = nd[c].value

(* Writing one next pointer.                                               *)
LEMMA AdWithNext ==
  ASSUME NEW nd, NEW x, NEW y, AdNodes(nd), x \in DOMAIN nd \cup {NULL}, y \in Pointer
  PROVE  /\ AdNodes(Ad!WithNext(nd, x, y)) /\ DOMAIN Ad!WithNext(nd, x, y) = DOMAIN nd
         /\ \A c \in DOMAIN nd :
              /\ Ad!WithNext(nd, x, y)[c].next = IF c = x THEN y ELSE nd[c].next
              /\ Ad!WithNext(nd, x, y)[c].prev = nd[c].prev
              /\ Ad!WithNext(nd, x, y)[c].value = nd[c].value
<1>1. NULL \notin DOMAIN nd /\ \A c \in DOMAIN nd : nd[c] \in AdNode
  BY NullIsNoCell DEF AdNodes
<1>2. CASE x = NULL
  <2>1. Ad!WithNext(nd, x, y) = nd
    BY <1>2 DEF Ad!WithNext
  <2>2. QED
    BY <1>1, <1>2, <2>1
<1>3. CASE x # NULL
  <2>1. PICK f : f = [nd EXCEPT ![x].next = y]
    OBVIOUS
  <2>2. Ad!WithNext(nd, x, y) = f
    BY <1>3, <2>1 DEF Ad!WithNext
  <2>3. DOMAIN f = DOMAIN nd /\ \A c \in DOMAIN nd : f[c] = IF c = x THEN [nd[x] EXCEPT !.next = y] ELSE nd[c]
    BY <2>1
  <2>4. PICK g : g = [nd[x] EXCEPT !.next = y]
    OBVIOUS
  <2>5. g \in AdNode /\ g.next = y /\ g.prev = nd[x].prev /\ g.value = nd[x].value
    BY <1>1, <1>3, <2>4 DEF AdNode
  <2>6. f \in [DOMAIN nd -> AdNode]
    BY <1>1, <2>1, <2>3, <2>4, <2>5
  <2>7. QED
    BY <2>2, <2>3, <2>4, <2>5, <2>6 DEF AdNodes
<1>4. QED
  BY <1>2, <1>3

(* Writing one prev pointer.                                               *)
LEMMA AdWithPrev ==
  ASSUME NEW nd, NEW x, NEW y, AdNodes(nd), x \in DOMAIN nd \cup {NULL}, y \in Pointer
  PROVE  /\ AdNodes(Ad!WithPrev(nd, x, y)) /\ DOMAIN Ad!WithPrev(nd, x, y) = DOMAIN nd
         /\ \A c \in DOMAIN nd :
              /\ Ad!WithPrev(nd, x, y)[c].prev = IF c = x THEN y ELSE nd[c].prev
              /\ Ad!WithPrev(nd, x, y)[c].next = nd[c].next
              /\ Ad!WithPrev(nd, x, y)[c].value = nd[c].value
<1>1. NULL \notin DOMAIN nd /\ \A c \in DOMAIN nd : nd[c] \in AdNode
  BY NullIsNoCell DEF AdNodes
<1>2. CASE x = NULL
  <2>1. Ad!WithPrev(nd, x, y) = nd
    BY <1>2 DEF Ad!WithPrev
  <2>2. QED
    BY <1>1, <1>2, <2>1
<1>3. CASE x # NULL
  <2>1. PICK f : f = [nd EXCEPT ![x].prev = y]
    OBVIOUS
  <2>2. Ad!WithPrev(nd, x, y) = f
    BY <1>3, <2>1 DEF Ad!WithPrev
  <2>3. DOMAIN f = DOMAIN nd /\ \A c \in DOMAIN nd : f[c] = IF c = x THEN [nd[x] EXCEPT !.prev = y] ELSE nd[c]
    BY <2>1
  <2>4. PICK g : g = [nd[x] EXCEPT !.prev = y]
    OBVIOUS
  <2>5. g \in AdNode /\ g.prev = y /\ g.next = nd[x].next /\ g.value = nd[x].value
    BY <1>1, <1>3, <2>4 DEF AdNode
  <2>6. f \in [DOMAIN nd -> AdNode]
    BY <1>1, <2>1, <2>3, <2>4, <2>5
  <2>7. QED
    BY <2>2, <2>3, <2>4, <2>5, <2>6 DEF AdNodes
<1>4. QED
  BY <1>2, <1>3

(* Writing a next and a prev pointer, as the operations do.                *)
LEMMA AdWith ==
  ASSUME NEW nd, NEW x, NEW y, NEW u, NEW w, NEW nd2, AdNodes(nd),
         x \in DOMAIN nd \cup {NULL}, y \in Pointer,
         u \in DOMAIN nd \cup {NULL}, w \in Pointer,
         nd2 = Ad!WithPrev(Ad!WithNext(nd, x, y), u, w)
  PROVE  AdWired(nd, nd2, x, y, u, w)
<1>1. PICK f : f = Ad!WithNext(nd, x, y)
  OBVIOUS
<1>2. /\ AdNodes(f) /\ DOMAIN f = DOMAIN nd
      /\ \A c \in DOMAIN nd : /\ f[c].next = IF c = x THEN y ELSE nd[c].next
                              /\ f[c].prev = nd[c].prev /\ f[c].value = nd[c].value
  BY <1>1, AdWithNext
<1>3. nd2 = Ad!WithPrev(f, u, w)
  BY <1>1
<1>4. /\ AdNodes(nd2) /\ DOMAIN nd2 = DOMAIN f
      /\ \A c \in DOMAIN f : /\ nd2[c].prev = IF c = u THEN w ELSE f[c].prev
                             /\ nd2[c].next = f[c].next /\ nd2[c].value = f[c].value
  BY <1>2, <1>3, AdWithPrev
<1>5. QED
  BY <1>2, <1>4 DEF AdWired

(* Node e is new, between the cells b and d of the chain q, at p.          *)
AdInserted(nd, nd2, r, r2, q, p, e, v) ==
  /\ AdChain(nd2, r2, InsertAt(q, p, e)) /\ AdNodes(nd2)
  /\ DOMAIN nd2 = DOMAIN nd \cup {e} /\ nd2[e].value = v
  /\ \A c \in DOMAIN nd : /\ nd2[c].value = nd[c].value
                          /\ c \notin ToSet(q) => /\ nd2[c].next = nd[c].next
                                                  /\ nd2[c].prev = nd[c].prev

(* The cells b and d on both sides of the place p of q.                    *)
AdGap(q, a, p, b, d) ==
  a \in 0 .. Len(q) /\ p = a + 1 /\ b = Cell(q, NULL, a) /\ d = Cell(q, NULL, p)

(* What Insert writes: nd1 are the nodes with e, which is then linked.     *)
AdWrites(nd, nd1, nd2, r, r2, b, d, e, v) ==
  /\ nd1 = [c \in DOMAIN nd \cup {e} |->
               IF c = e THEN [prev |-> b, next |-> d, value |-> v] ELSE nd[c]]
  /\ nd2 = Ad!WithPrev(Ad!WithNext(nd1, b, e), d, e)
  /\ r2 = [head |-> IF b = NULL THEN e ELSE r.head,
           tail |-> IF d = NULL THEN e ELSE r.tail, len |-> r.len + 1]

(* A node linked between two neighbours is inserted.                       *)
LEMMA AdInsert ==
  ASSUME NEW nd, NEW r, NEW q, NEW a, NEW p, NEW b, NEW d, NEW e, NEW v,
         NEW nd1, NEW nd2, NEW r2,
         AdNodes(nd), AdChain(nd, r, q), AdGap(q, a, p, b, d), e \in Cells \ DOMAIN nd,
         v \in Values, AdWrites(nd, nd1, nd2, r, r2, b, d, e, v)
  PROVE  AdInserted(nd, nd2, r, r2, q, p, e, v)
<1>a. a \in 0 .. Len(q) /\ p = a + 1 /\ b = Cell(q, NULL, a) /\ d = Cell(q, NULL, p)
  BY DEF AdGap
<1>b. /\ nd1 = [c \in DOMAIN nd \cup {e} |->
                  IF c = e THEN [prev |-> b, next |-> d, value |-> v] ELSE nd[c]]
      /\ nd2 = Ad!WithPrev(Ad!WithNext(nd1, b, e), d, e)
      /\ r2 = [head |-> IF b = NULL THEN e ELSE r.head,
               tail |-> IF d = NULL THEN e ELSE r.tail, len |-> r.len + 1]
  BY DEF AdWrites
<1>1. /\ q \in Seq(Cells) /\ Distinct(q) /\ NULL \notin ToSet(q) /\ Len(q) \in Nat
      /\ Ring(AdNext(nd, r), AdPrev(nd, r), NULL, Cells, q) /\ ToSet(q) \subseteq DOMAIN nd
      /\ r \in AdRecord /\ r.len = Len(q)
  BY AdChainIs
<1>2. b \in ToSet(q) \cup {NULL} /\ d \in ToSet(q) \cup {NULL}
  BY <1>a, <1>1, CellsAre
<1>3. e \notin ToSet(q) /\ e # NULL /\ e \in Pointer /\ b # e /\ d # e
      /\ b \in DOMAIN nd \cup {NULL} /\ d \in DOMAIN nd \cup {NULL}
      /\ b \in Pointer /\ d \in Pointer /\ p \in 1 .. Len(q) + 1 /\ DOMAIN nd \subseteq Cells
      /\ NULL \notin DOMAIN nd
  BY <1>a, <1>1, <1>2, NullIsNoCell DEF Pointer, AdNodes
<1>4. AdNodes(nd1) /\ DOMAIN nd1 = DOMAIN nd \cup {e}
      /\ nd1[e].next = d /\ nd1[e].prev = b /\ nd1[e].value = v
      /\ \A c \in DOMAIN nd : nd1[c] = nd[c]
  <2>1. PICK n : n = [prev |-> b, next |-> d, value |-> v]
    OBVIOUS
  <2>2. n \in AdNode /\ n.next = d /\ n.prev = b /\ n.value = v
    BY <1>3, <2>1 DEF AdNode
  <2>3. \A c \in DOMAIN nd : nd[c] \in AdNode
    BY DEF AdNodes
  <2>4. nd1 = [c \in DOMAIN nd \cup {e} |-> IF c = e THEN n ELSE nd[c]]
    BY <1>b, <2>1
  <2>5. nd1 \in [DOMAIN nd \cup {e} -> AdNode]
    BY <2>2, <2>3, <2>4
  <2>6. QED
    BY <1>3, <2>2, <2>4, <2>5 DEF AdNodes
<1>5. AdWired(nd1, nd2, b, e, d, e)
  BY <1>b, <1>3, <1>4, AdWith
<1>6. /\ AdNodes(nd2) /\ DOMAIN nd2 = DOMAIN nd \cup {e} /\ nd2[e].value = v
      /\ nd2[e].next = d /\ nd2[e].prev = b
      /\ \A c \in DOMAIN nd : /\ nd2[c].next = IF c = b THEN e ELSE nd[c].next
                              /\ nd2[c].prev = IF c = d THEN e ELSE nd[c].prev
                              /\ nd2[c].value = nd[c].value
  <2>1. /\ AdNodes(nd2) /\ DOMAIN nd2 = DOMAIN nd1
        /\ \A c \in DOMAIN nd1 : /\ nd2[c].next = IF c = b THEN e ELSE nd1[c].next
                                 /\ nd2[c].prev = IF c = d THEN e ELSE nd1[c].prev
                                 /\ nd2[c].value = nd1[c].value
    BY <1>5 DEF AdWired
  <2>2. e \in DOMAIN nd1 /\ DOMAIN nd \subseteq DOMAIN nd1 /\ DOMAIN nd2 = DOMAIN nd \cup {e}
    BY <1>4, <2>1
  <2>3. nd2[e].value = v /\ nd2[e].next = d /\ nd2[e].prev = b
    BY <1>3, <1>4, <2>1, <2>2
  <2>4. ASSUME NEW c \in DOMAIN nd
        PROVE  /\ nd2[c].next = IF c = b THEN e ELSE nd[c].next
               /\ nd2[c].prev = IF c = d THEN e ELSE nd[c].prev
               /\ nd2[c].value = nd[c].value
    <3>1. c \in DOMAIN nd1 /\ nd1[c] = nd[c]
      BY <1>4, <2>2
    <3>2. QED
      BY <2>1, <3>1
  <2>5. QED
    BY <2>1, <2>2, <2>3, <2>4
<1>7. r2 \in AdRecord /\ r2.len = Len(q) + 1
      /\ r2.head = (IF b = NULL THEN e ELSE r.head)
      /\ r2.tail = (IF d = NULL THEN e ELSE r.tail)
  BY <1>b, <1>1, <1>3 DEF AdRecord
<1>8. \A c \in DOMAIN nd \cup {NULL} :
        /\ AdNext(nd2, r2)[c] = IF c = b THEN e ELSE AdNext(nd, r)[c]
        /\ AdPrev(nd2, r2)[c] = IF c = d THEN e ELSE AdPrev(nd, r)[c]
  <2>1. NULL \notin DOMAIN nd2 /\ DOMAIN nd \subseteq DOMAIN nd2
    BY <1>3, <1>6
  <2>2. TAKE c \in DOMAIN nd \cup {NULL}
  <2>3. CASE c = NULL
    <3>1. /\ AdNext(nd2, r2)[c] = r2.head /\ AdPrev(nd2, r2)[c] = r2.tail
          /\ AdNext(nd, r)[c] = r.head /\ AdPrev(nd, r)[c] = r.tail
      BY <1>3, <2>1, <2>3, AdPointers
    <3>2. QED
      BY <1>7, <2>3, <3>1
  <2>4. CASE c \in DOMAIN nd
    <3>1. AdNext(nd2, r2)[c] = nd2[c].next /\ AdPrev(nd2, r2)[c] = nd2[c].prev
      <4>1. c \in DOMAIN nd2
        BY <2>1, <2>4
      <4>2. QED
        BY <2>1, <4>1, AdPointers
    <3>2. AdNext(nd, r)[c] = nd[c].next /\ AdPrev(nd, r)[c] = nd[c].prev
      <4>1. NULL \notin DOMAIN nd
        BY <1>3
      <4>2. QED
        BY <2>4, <4>1, AdPointers
    <3>3. /\ nd2[c].next = IF c = b THEN e ELSE nd[c].next
          /\ nd2[c].prev = IF c = d THEN e ELSE nd[c].prev
      BY <1>6, <2>4
    <3>4. QED
      BY <3>1, <3>2, <3>3
  <2>5. QED
    BY <2>3, <2>4
<1>9. AdNext(nd2, r2)[e] = d /\ AdPrev(nd2, r2)[e] = b
  <2>1. NULL \notin DOMAIN nd2 /\ e \in DOMAIN nd2
    BY <1>3, <1>6
  <2>2. QED
    BY <1>6, <2>1, AdPointers
<1>10. Parted(AdNext(nd, r), AdPrev(nd, r), AdNext(nd2, r2), AdPrev(nd2, r2),
              ToSet(q) \cup {NULL}, b, d, e)
  <2>1. PICK N, P, N2, P2 : /\ N = AdNext(nd, r) /\ P = AdPrev(nd, r)
                            /\ N2 = AdNext(nd2, r2) /\ P2 = AdPrev(nd2, r2)
    OBVIOUS
  <2>2. \A c \in DOMAIN nd \cup {NULL} : /\ N2[c] = IF c = b THEN e ELSE N[c]
                                         /\ P2[c] = IF c = d THEN e ELSE P[c]
    BY <1>8, <2>1
  <2>3. N2[b] = e /\ P2[d] = e /\ N2[e] = d /\ P2[e] = b
    BY <1>3, <1>9, <2>1, <2>2
  <2>4. \A c \in ToSet(q) \cup {NULL} : (c # b => N2[c] = N[c]) /\ (c # d => P2[c] = P[c])
    BY <1>1, <2>2
  <2>5. Parted(N, P, N2, P2, ToSet(q) \cup {NULL}, b, d, e)
    BY <2>3, <2>4 DEF Parted
  <2>6. QED
    BY <2>1, <2>5
<1>11. Ring(AdNext(nd2, r2), AdPrev(nd2, r2), NULL, Cells, InsertAt(q, p, e))
  BY <1>a, <1>1, <1>3, <1>10, InsertRing
<1>12. ToSet(InsertAt(q, p, e)) = ToSet(q) \cup {e} /\ Len(InsertAt(q, p, e)) = Len(q) + 1
  BY <1>1, <1>3, InsertAdds, InsertAtFacts DEF Inserted
<1>13. AdChain(nd2, r2, InsertAt(q, p, e))
  BY <1>1, <1>6, <1>7, <1>11, <1>12 DEF AdChain
<1>14. \A c \in DOMAIN nd : c \notin ToSet(q) => c # b /\ c # d
  BY <1>2, <1>3
<1>15. /\ AdNodes(nd2) /\ DOMAIN nd2 = DOMAIN nd \cup {e} /\ nd2[e].value = v
       /\ \A c \in DOMAIN nd : /\ nd2[c].value = nd[c].value
                               /\ c \notin ToSet(q) => /\ nd2[c].next = nd[c].next
                                                       /\ nd2[c].prev = nd[c].prev
  <2>1. ASSUME NEW c \in DOMAIN nd
        PROVE  /\ nd2[c].value = nd[c].value
               /\ c \notin ToSet(q) => /\ nd2[c].next = nd[c].next
                                       /\ nd2[c].prev = nd[c].prev
    BY <1>6, <1>14
  <2>2. QED
    BY <1>6, <2>1
<1>16. QED
  BY <1>13, <1>15 DEF AdInserted

(* The k-th node of the chain q is gone.                                   *)
AdRemoved(nd, nd2, r2, q, k) ==
  /\ AdChain(nd2, r2, RemoveAt(q, k)) /\ AdNodes(nd2)
  /\ DOMAIN nd2 = DOMAIN nd \ {q[k]}
  /\ \A c \in DOMAIN nd2 : /\ nd2[c].value = nd[c].value
                           /\ c \notin ToSet(q) => /\ nd2[c].next = nd[c].next
                                                   /\ nd2[c].prev = nd[c].prev

(* The k-th node e and what its pointers lead to.                          *)
AdBetween(nd, q, e, b, d) ==
  /\ nd[e].prev = b /\ nd[e].next = d /\ b # e /\ d # e
  /\ b \in ToSet(q) \cup {NULL} /\ d \in ToSet(q) \cup {NULL}
  /\ e \in DOMAIN nd /\ e \in ToSet(q)

(* The neighbours of a node, as its pointers give them.                    *)
LEMMA AdNeighbours ==
  ASSUME NEW nd, NEW r, NEW q, NEW a, NEW k, NEW j, NEW e, NEW b, NEW d,
         AdChain(nd, r, q), AdNodes(nd), k \in 1 .. Len(q), a \in 0 .. Len(q),
         k = a + 1, j = k + 1, e = q[k], b = Cell(q, NULL, a), d = Cell(q, NULL, j)
  PROVE  AdBetween(nd, q, e, b, d)
<1>1. /\ q \in Seq(Cells) /\ Distinct(q) /\ NULL \notin ToSet(q)
      /\ Len(q) \in Nat /\ DOMAIN q = 1 .. Len(q)
      /\ Ring(AdNext(nd, r), AdPrev(nd, r), NULL, Cells, q) /\ ToSet(q) \subseteq DOMAIN nd
  BY AdChainIs
<1>2. q[k] \in ToSet(q) /\ q[k] \in DOMAIN nd /\ q[k] # NULL /\ Cell(q, NULL, k) = q[k]
  BY <1>1 DEF ToSet, Cell
<1>3. a \in 0 .. Len(q) /\ k \in 0 .. Len(q) /\ j \in 1 .. Len(q) + 1 /\ k \in 1 .. Len(q) + 1
      /\ a # k /\ j # k
  BY <1>1
<1>4. Linked(AdNext(nd, r), AdPrev(nd, r), q, NULL, a, k)
  BY <1>1, <1>3, RingLink
<1>5. Linked(AdNext(nd, r), AdPrev(nd, r), q, NULL, k, j)
  BY <1>1, <1>3, RingLink
<1>6. AdPrev(nd, r)[q[k]] = nd[q[k]].prev /\ AdNext(nd, r)[q[k]] = nd[q[k]].next
  BY <1>2 DEF AdPrev, AdNext
<1>7. Cell(q, NULL, a) # Cell(q, NULL, k)
  BY <1>1, <1>3, CellsDiffer
<1>8. Cell(q, NULL, j) # Cell(q, NULL, k)
  BY <1>1, <1>3, CellsDiffer
<1>9. QED
  BY <1>1, <1>2, <1>4, <1>5, <1>6, <1>7, <1>8, CellsAre DEF Linked, AdBetween

(* listDelNode removes one node and changes no other.                      *)
LEMMA AdDelete ==
  ASSUME NEW nd, NEW r, NEW q, NEW k, NEW e, NEW b, NEW d, NEW nd2, NEW r2,
         AdNodes(nd), AdChain(nd, r, q), k \in 1 .. Len(q), e = q[k],
         b = nd[e].prev, d = nd[e].next,
         nd2 = Ad!Without(Ad!WithPrev(Ad!WithNext(nd, b, d), d, b), {e}),
         r2 = [head |-> IF b = NULL THEN d ELSE r.head,
               tail |-> IF d = NULL THEN b ELSE r.tail, len |-> r.len - 1]
  PROVE  AdRemoved(nd, nd2, r2, q, k)
<1>1. /\ q \in Seq(Cells) /\ Distinct(q) /\ NULL \notin ToSet(q) /\ Len(q) \in Nat
      /\ Ring(AdNext(nd, r), AdPrev(nd, r), NULL, Cells, q) /\ ToSet(q) \subseteq DOMAIN nd
      /\ r \in AdRecord /\ r.len = Len(q) /\ DOMAIN q = 1 .. Len(q)
  BY AdChainIs
<1>2. PICK i, j : i = k - 1 /\ j = k + 1
  OBVIOUS
<1>3. i \in 0 .. Len(q) /\ k = i + 1
  BY <1>1, <1>2
<1>4. /\ b = Cell(q, NULL, i) /\ d = Cell(q, NULL, j)
      /\ b \in ToSet(q) \cup {NULL} /\ d \in ToSet(q) \cup {NULL} /\ b # e /\ d # e
      /\ e \in DOMAIN nd /\ e \in ToSet(q)
  <2>1. PICK x, y : x = Cell(q, NULL, i) /\ y = Cell(q, NULL, j)
    OBVIOUS
  <2>2. AdBetween(nd, q, e, x, y)
    BY <1>2, <1>3, <2>1, AdNeighbours
  <2>3. QED
    BY <2>1, <2>2 DEF AdBetween
<1>5. /\ b \in DOMAIN nd \cup {NULL} /\ d \in DOMAIN nd \cup {NULL} /\ NULL \notin DOMAIN nd
      /\ b \in Pointer /\ d \in Pointer
  BY <1>1, <1>4, NullIsNoCell DEF Pointer, AdNodes
<1>6. PICK nd1 : nd1 = Ad!WithPrev(Ad!WithNext(nd, b, d), d, b)
  OBVIOUS
<1>7. AdWired(nd, nd1, b, d, d, b)
  BY <1>5, <1>6, AdWith
<1>8. nd2 = [c \in DOMAIN nd1 \ {e} |-> nd1[c]]
  BY <1>6 DEF Ad!Without
<1>9. /\ AdNodes(nd2) /\ DOMAIN nd2 = DOMAIN nd \ {e}
      /\ \A c \in DOMAIN nd \ {e} : /\ nd2[c].next = IF c = b THEN d ELSE nd[c].next
                                    /\ nd2[c].prev = IF c = d THEN b ELSE nd[c].prev
                                    /\ nd2[c].value = nd[c].value
  <2>1. /\ DOMAIN nd1 = DOMAIN nd /\ AdNodes(nd1)
        /\ \A c \in DOMAIN nd : /\ nd1[c].next = IF c = b THEN d ELSE nd[c].next
                                /\ nd1[c].prev = IF c = d THEN b ELSE nd[c].prev
                                /\ nd1[c].value = nd[c].value
    BY <1>7 DEF AdWired
  <2>2. DOMAIN nd2 = DOMAIN nd \ {e} /\ \A c \in DOMAIN nd \ {e} : nd2[c] = nd1[c]
    BY <1>8, <2>1
  <2>3. AdNodes(nd2)
    <3>1. \A c \in DOMAIN nd \ {e} : nd1[c] \in AdNode
      BY <2>1 DEF AdNodes
    <3>2. nd2 \in [DOMAIN nd \ {e} -> AdNode]
      <4>1. PICK D : D = DOMAIN nd \ {e}
        OBVIOUS
      <4>2. nd2 = [c \in D |-> nd1[c]]
        BY <1>8, <2>1, <4>1
      <4>3. \A c \in D : nd1[c] \in AdNode
        BY <3>1, <4>1
      <4>4. nd2 \in [D -> AdNode]
        BY <4>2, <4>3
      <4>5. QED
        BY <4>1, <4>4
    <3>3. QED
      BY <2>2, <3>2 DEF AdNodes
  <2>4. ASSUME NEW c \in DOMAIN nd \ {e}
        PROVE  /\ nd2[c].next = IF c = b THEN d ELSE nd[c].next
               /\ nd2[c].prev = IF c = d THEN b ELSE nd[c].prev
               /\ nd2[c].value = nd[c].value
    <3>1. nd2[c] = nd1[c]
      BY <2>2
    <3>2. QED
      BY <2>1, <3>1
  <2>5. QED
    BY <2>2, <2>3, <2>4
<1>10. r2 \in AdRecord /\ r2.len = Len(q) - 1
      /\ r2.head = (IF b = NULL THEN d ELSE r.head)
      /\ r2.tail = (IF d = NULL THEN b ELSE r.tail)
  BY <1>1, <1>5 DEF AdRecord
<1>11. \A c \in (DOMAIN nd \ {e}) \cup {NULL} :
        /\ AdNext(nd2, r2)[c] = IF c = b THEN d ELSE AdNext(nd, r)[c]
        /\ AdPrev(nd2, r2)[c] = IF c = d THEN b ELSE AdPrev(nd, r)[c]
  <2>1. NULL \notin DOMAIN nd2
    BY <1>5, <1>9
  <2>2. TAKE c \in (DOMAIN nd \ {e}) \cup {NULL}
  <2>3. CASE c = NULL
    <3>1. /\ AdNext(nd2, r2)[c] = r2.head /\ AdPrev(nd2, r2)[c] = r2.tail
          /\ AdNext(nd, r)[c] = r.head /\ AdPrev(nd, r)[c] = r.tail
      BY <1>5, <2>1, <2>3, AdPointers
    <3>2. QED
      BY <1>10, <2>3, <3>1
  <2>4. CASE c \in DOMAIN nd \ {e}
    <3>1. c \in DOMAIN nd2 /\ c \in DOMAIN nd
      BY <1>9, <2>4
    <3>2. AdNext(nd2, r2)[c] = nd2[c].next /\ AdPrev(nd2, r2)[c] = nd2[c].prev
      BY <2>1, <3>1, AdPointers
    <3>3. AdNext(nd, r)[c] = nd[c].next /\ AdPrev(nd, r)[c] = nd[c].prev
      <4>1. NULL \notin DOMAIN nd
        BY <1>5
      <4>2. QED
        BY <3>1, <4>1, AdPointers
    <3>4. /\ nd2[c].next = IF c = b THEN d ELSE nd[c].next
          /\ nd2[c].prev = IF c = d THEN b ELSE nd[c].prev
      BY <1>9, <2>4
    <3>5. QED
      BY <3>2, <3>3, <3>4
  <2>5. QED
    BY <2>3, <2>4
<1>12. Joined(AdNext(nd, r), AdPrev(nd, r), AdNext(nd2, r2), AdPrev(nd2, r2),
              (ToSet(q) \ {q[k]}) \cup {NULL}, b, d)
  BY <1>1, <1>4, <1>5, <1>11 DEF Joined
<1>13. Ring(AdNext(nd2, r2), AdPrev(nd2, r2), NULL, Cells, RemoveAt(q, k))
  BY <1>1, <1>2, <1>3, <1>4, <1>12, RemoveRing
<1>14. ToSet(RemoveAt(q, k)) = ToSet(q) \ {e} /\ Len(RemoveAt(q, k)) = Len(q) - 1
  BY <1>1, RemoveTakesOne, RemoveAtFacts
<1>15. AdChain(nd2, r2, RemoveAt(q, k))
  BY <1>1, <1>9, <1>10, <1>13, <1>14 DEF AdChain
<1>16. \A c \in DOMAIN nd : c \notin ToSet(q) => c # b /\ c # d
  BY <1>4, <1>5
<1>17. /\ AdNodes(nd2) /\ DOMAIN nd2 = DOMAIN nd \ {q[k]}
       /\ \A c \in DOMAIN nd2 : /\ nd2[c].value = nd[c].value
                                /\ c \notin ToSet(q) => /\ nd2[c].next = nd[c].next
                                                        /\ nd2[c].prev = nd[c].prev
  <2>1. ASSUME NEW c \in DOMAIN nd \ {e}
        PROVE  /\ nd2[c].value = nd[c].value
               /\ c \notin ToSet(q) => /\ nd2[c].next = nd[c].next
                                       /\ nd2[c].prev = nd[c].prev
    BY <1>9, <1>16
  <2>2. QED
    BY <1>9, <2>1
<1>18. QED
  BY <1>15, <1>17 DEF AdRemoved

(* The last node has become the first.                                     *)
AdRotated(nd, nd2, r2, q) ==
  /\ AdChain(nd2, r2, <<Last(q)>> \o Front(q)) /\ AdNodes(nd2) /\ DOMAIN nd2 = DOMAIN nd
  /\ ToSet(<<Last(q)>> \o Front(q)) = ToSet(q)
  /\ \A c \in DOMAIN nd : /\ nd2[c].value = nd[c].value
                          /\ c \notin ToSet(q) => /\ nd2[c].next = nd[c].next
                                                  /\ nd2[c].prev = nd[c].prev

(* listRotate takes the last node to the front.                            *)
LEMMA AdRotate ==
  ASSUME NEW nd, NEW r, NEW q, NEW t, NEW h, NEW c, NEW nd2, NEW r2,
         AdNodes(nd), AdChain(nd, r, q), Len(q) > 1, t = r.tail, h = r.head,
         c = nd[t].prev,
         nd2 = [Ad!WithPrev(Ad!WithNext(nd, c, NULL), h, t) EXCEPT ![t].prev = NULL, ![t].next = h],
         r2 = [head |-> t, tail |-> c, len |-> r.len]
  PROVE  AdRotated(nd, nd2, r2, q)
<1>1. /\ q \in Seq(Cells) /\ Distinct(q) /\ NULL \notin ToSet(q) /\ Len(q) \in Nat
      /\ Ring(AdNext(nd, r), AdPrev(nd, r), NULL, Cells, q) /\ ToSet(q) \subseteq DOMAIN nd
      /\ r \in AdRecord /\ r.len = Len(q) /\ DOMAIN q = 1 .. Len(q)
      /\ ToSet(q) \subseteq Cells
  BY AdChainIs
<1>2. PICK n, m, o : n \in Nat /\ m \in Nat /\ o \in Nat /\ n = Len(q) /\ n = m + 1 /\ o = n + 1
  <2>1. PICK n, m, o : n = Len(q) /\ m = n - 1 /\ o = n + 1
    OBVIOUS
  <2>2. n \in Nat /\ m \in Nat /\ o \in Nat /\ n = m + 1
    BY <1>1, <2>1
  <2>3. QED
    BY <2>1, <2>2
<1>3. n \in 1 .. n /\ m \in 0 .. n /\ m \in 1 .. n /\ m # n /\ n \in 0 .. n /\ 1 \in 1 .. n
      /\ n + 1 = o /\ n > 1 /\ 0 \in 0 .. n /\ 0 + 1 = 1 /\ o \notin 1 .. n /\ 0 \notin 1 .. n
  BY <1>2
<1>4. t = q[n] /\ h = q[1]
  <2>1. AdNext(nd, r)[NULL] = h /\ AdPrev(nd, r)[NULL] = t
    BY DEF AdNext, AdPrev
  <2>2. Linked(AdNext(nd, r), AdPrev(nd, r), q, NULL, n, o)
    BY <1>1, <1>2, <1>3, RingLink
  <2>3. Linked(AdNext(nd, r), AdPrev(nd, r), q, NULL, 0, 1)
    BY <1>1, <1>2, <1>3, RingLink
  <2>4. /\ Cell(q, NULL, o) = NULL /\ Cell(q, NULL, n) = q[n]
        /\ Cell(q, NULL, 0) = NULL /\ Cell(q, NULL, 1) = q[1]
    BY <1>2, <1>3 DEF Cell
  <2>5. QED
    BY <2>1, <2>2, <2>3, <2>4 DEF Linked
<1>5. c = q[m] /\ Cell(q, NULL, m) = c /\ Cell(q, NULL, o) = NULL
      /\ t \in ToSet(q) /\ h \in ToSet(q) /\ c \in ToSet(q) /\ c # t /\ h # t
  <2>1. PICK x, y : x = Cell(q, NULL, m) /\ y = Cell(q, NULL, o)
    OBVIOUS
  <2>2. AdBetween(nd, q, t, x, y)
    BY <1>2, <1>3, <1>4, <2>1, AdNeighbours
  <2>3. x = q[m] /\ y = NULL
    BY <1>2, <1>3, <2>1 DEF Cell
  <2>4. h \in ToSet(q) /\ c \in ToSet(q) /\ h # t
    BY <1>1, <1>2, <1>3, <1>4, <2>2, <2>3 DEF Distinct, ToSet, AdBetween
  <2>5. QED
    BY <2>1, <2>2, <2>3, <2>4 DEF AdBetween
<1>6. /\ c \in DOMAIN nd /\ h \in DOMAIN nd /\ t \in DOMAIN nd /\ NULL \notin DOMAIN nd
      /\ NULL \in Pointer /\ t \in Pointer /\ h \in Pointer /\ c \in Pointer
      /\ c # NULL /\ h # NULL /\ t # NULL
  BY <1>1, <1>5, NullIsNoCell DEF Pointer, AdNodes
<1>7. PICK nd1 : nd1 = Ad!WithPrev(Ad!WithNext(nd, c, NULL), h, t)
  OBVIOUS
<1>8. AdWired(nd, nd1, c, NULL, h, t)
  BY <1>6, <1>7, AdWith
<1>9. /\ AdNodes(nd2) /\ DOMAIN nd2 = DOMAIN nd
      /\ nd2[t].prev = NULL /\ nd2[t].next = h /\ nd2[t].value = nd[t].value
      /\ \A x \in DOMAIN nd \ {t} : nd2[x] = nd1[x]
  <2>1. DOMAIN nd1 = DOMAIN nd /\ nd1 \in [DOMAIN nd -> AdNode] /\ nd1[t].value = nd[t].value
    BY <1>6, <1>8 DEF AdWired, AdNodes
  <2>2. PICK g : g = [[nd1[t] EXCEPT !.prev = NULL] EXCEPT !.next = h]
    OBVIOUS
  <2>3. nd1[t] \in AdNode
    BY <1>6, <2>1
  <2>4. g \in AdNode /\ g.prev = NULL /\ g.next = h /\ g.value = nd1[t].value
    BY <1>6, <2>2, <2>3 DEF AdNode
  <2>5. nd2 = [nd1 EXCEPT ![t].prev = NULL, ![t].next = h]
    BY <1>7
  <2>6. nd2 = [nd1 EXCEPT ![t] = g]
    BY <1>6, <2>1, <2>2, <2>5
  <2>7. DOMAIN nd2 = DOMAIN nd /\ nd2[t] = g /\ \A x \in DOMAIN nd \ {t} : nd2[x] = nd1[x]
    BY <1>6, <2>1, <2>6
  <2>8. nd2 \in [DOMAIN nd -> AdNode]
    BY <1>6, <2>1, <2>4, <2>6
  <2>9. QED
    BY <2>1, <2>4, <2>7, <2>8 DEF AdNodes
<1>10. \A x \in DOMAIN nd \ {t} : /\ nd2[x].next = IF x = c THEN NULL ELSE nd[x].next
                                  /\ nd2[x].prev = IF x = h THEN t ELSE nd[x].prev
                                  /\ nd2[x].value = nd[x].value
  <2>1. SUFFICES ASSUME NEW x \in DOMAIN nd \ {t}
                 PROVE  /\ nd2[x].next = IF x = c THEN NULL ELSE nd[x].next
                        /\ nd2[x].prev = IF x = h THEN t ELSE nd[x].prev
                        /\ nd2[x].value = nd[x].value
    OBVIOUS
  <2>2. nd2[x] = nd1[x]
    BY <1>9
  <2>3. /\ nd1[x].next = IF x = c THEN NULL ELSE nd[x].next
        /\ nd1[x].prev = IF x = h THEN t ELSE nd[x].prev
        /\ nd1[x].value = nd[x].value
    <3>1. \A y \in DOMAIN nd : /\ nd1[y].next = IF y = c THEN NULL ELSE nd[y].next
                               /\ nd1[y].prev = IF y = h THEN t ELSE nd[y].prev
                               /\ nd1[y].value = nd[y].value
      BY <1>8 DEF AdWired
    <3>2. x \in DOMAIN nd
      BY <2>1
    <3>3. QED
      BY <3>1, <3>2
  <2>4. QED
    BY <2>2, <2>3
<1>11. r2 \in AdRecord /\ r2.len = Len(q) /\ r2.head = t /\ r2.tail = c
  BY <1>1, <1>6 DEF AdRecord
<1>12. PICK N, P, N2, P2 : /\ N = AdNext(nd, r) /\ P = AdPrev(nd, r)
                           /\ N2 = AdNext(nd2, r2) /\ P2 = AdPrev(nd2, r2)
  OBVIOUS
<1>13. /\ DOMAIN N = DOMAIN nd \cup {NULL} /\ DOMAIN P = DOMAIN nd \cup {NULL}
       /\ N2[NULL] = t /\ N2[t] = h /\ P2[NULL] = c /\ P2[t] = NULL /\ P2[h] = t
       /\ \A x \in DOMAIN nd \ {t} : /\ N2[x] = IF x = c THEN NULL ELSE N[x]
                                     /\ P2[x] = IF x = h THEN t ELSE P[x]
  BY <1>5, <1>6, <1>9, <1>10, <1>11, <1>12 DEF AdNext, AdPrev
<1>14. PICK N1, P1 : N1 = [N EXCEPT ![c] = NULL] /\ P1 = [P EXCEPT ![NULL] = c]
  OBVIOUS
<1>15. /\ N1[c] = NULL /\ P1[NULL] = c
       /\ \A x \in DOMAIN nd \cup {NULL} : (x # c => N1[x] = N[x]) /\ (x # NULL => P1[x] = P[x])
  BY <1>6, <1>13, <1>14
<1>16. PICK f : f = RemoveAt(q, n)
  OBVIOUS
<1>17. /\ f \in Seq(Cells) /\ Len(f) = m /\ Distinct(f) /\ ToSet(f) = ToSet(q) \ {t}
       /\ \A j \in 1 .. m : f[j] = q[j]
  <2>1. /\ f \in Seq(Cells) /\ Len(f) = m
        /\ \A j \in DOMAIN f : f[j] = IF j < n THEN q[j] ELSE q[j + 1]
    BY <1>1, <1>2, <1>3, <1>16, RemoveAtFacts
  <2>2. DOMAIN f = 1 .. m
    BY <2>1, LenProperties
  <2>3. \A j \in 1 .. m : f[j] = q[j]
    BY <1>2, <2>1, <2>2
  <2>4. QED
    BY <1>1, <1>2, <1>3, <1>4, <1>16, <2>1, <2>3, RemoveTakesOne
<1>18. Ring(N1, P1, NULL, Cells, f)
  <2>1. Ring(N, P, NULL, Cells, q)
    BY <1>1, <1>12
  <2>2. Joined(N, P, N1, P1, (ToSet(q) \ {q[n]}) \cup {NULL}, c, NULL)
    BY <1>1, <1>15 DEF Joined
  <2>3. QED
    BY <1>2, <1>3, <1>5, <1>16, <2>1, <2>2, RemoveRing
<1>19. Cell(f, NULL, 0) = NULL /\ Cell(f, NULL, 1) = h
  <2>1. 1 \in 1 .. m /\ 1 \in 1 .. n /\ 0 \notin 1 .. m /\ Len(f) = m /\ f[1] = q[1]
    BY <1>2, <1>3, <1>17
  <2>2. Cell(f, NULL, 0) = NULL /\ Cell(f, NULL, 1) = q[1]
    BY <2>1 DEF Cell
  <2>3. q[1] = h
    BY <1>2, <1>3, <1>4, <2>1 DEF Cell
  <2>4. QED
    BY <2>2, <2>3
<1>20. Parted(N1, P1, N2, P2, ToSet(f) \cup {NULL}, NULL, h, t)
  <2>1. ASSUME NEW x \in ToSet(f)
        PROVE  N2[x] = N1[x] /\ (x # h => P2[x] = P1[x])
    <3>1. x \in DOMAIN nd \ {t} /\ x # NULL
      BY <1>1, <1>6, <1>17
    <3>2. QED
      BY <1>13, <1>15, <3>1
  <2>2. P2[NULL] = P1[NULL]
    BY <1>13, <1>15
  <2>3. QED
    BY <1>13, <2>1, <2>2 DEF Parted
<1>21. Ring(N2, P2, NULL, Cells, InsertAt(f, 1, t))
  <2>1. 0 \in 0 .. Len(f) /\ 1 = 0 + 1 /\ t \in Cells /\ t \notin ToSet(f)
    BY <1>1, <1>5, <1>17
  <2>2. QED
    BY <1>6, <1>18, <1>19, <1>20, <2>1, InsertRing
<1>22. <<Last(q)>> \o Front(q) = InsertAt(f, 1, t)
  <2>1. Last(q) = t
    BY <1>2, <1>4 DEF Last
  <2>2. Front(q) = f
    <3>1. Front(q) \in Seq(Cells) /\ Len(Front(q)) = m /\ \A j \in 1 .. m : Front(q)[j] = q[j]
      <4>1. Front(q) = SubSeq(q, 1, m)
        BY <1>2 DEF Front
      <4>2. QED
        BY <1>1, <1>2, <1>3, <4>1
    <3>2. QED
      BY <1>17, <3>1, SeqEqual
  <2>3. QED
    BY <1>1, <1>5, <1>17, <2>1, <2>2, PushIsInsert
<1>23. /\ ToSet(InsertAt(f, 1, t)) = ToSet(q) /\ Len(InsertAt(f, 1, t)) = Len(q)
  <2>1. 1 \in 1 .. Len(f) + 1 /\ t \in Cells /\ t \notin ToSet(f)
    BY <1>1, <1>5, <1>17
  <2>2. ToSet(InsertAt(f, 1, t)) = ToSet(f) \cup {t}
    BY <1>17, <2>1, InsertAdds
  <2>3. Len(InsertAt(f, 1, t)) = Len(f) + 1
    BY <1>17, <2>1, InsertAtFacts DEF Inserted
  <2>4. QED
    BY <1>2, <1>5, <1>17, <2>2, <2>3
<1>24. AdChain(nd2, r2, <<Last(q)>> \o Front(q))
  BY <1>1, <1>9, <1>11, <1>12, <1>21, <1>22, <1>23 DEF AdChain
<1>25. QED
  BY <1>5, <1>9, <1>10, <1>22, <1>23, <1>24 DEF AdRotated

(* The lists that there are, DOMAIN L, with the nodes L[l] each; every     *)
(* node is in one of them.                                                 *)
AdLists(ls, nd, L) ==
  /\ ls \in [Lists -> AdRecord \cup {NULL}] /\ AdNodes(nd)
  /\ DOMAIN L = {l \in Lists : ls[l] # NULL}
  /\ \A l \in DOMAIN L : AdChain(nd, ls[l], L[l])
  /\ \A l, m \in DOMAIN L : l # m => ToSet(L[l]) \cap ToSet(L[m]) = {}
  /\ \A c \in DOMAIN nd : \E l \in DOMAIN L : c \in ToSet(L[l])

(* A list and the variable it is in.                                       *)
LEMMA AdListIs ==
  ASSUME NEW ls, NEW nd, NEW L, NEW l, AdLists(ls, nd, L), l \in DOMAIN L
  PROVE  AdChain(nd, ls[l], L[l]) /\ l \in Lists /\ ls[l] # NULL /\ l # NULL
BY NullIsNoCell DEF AdLists

(* The nodes of the list at l, if there is one.                            *)
AdMine(L, l) == IF l \in DOMAIN L THEN ToSet(L[l]) ELSE {}

(* L with the list at l changed.                                           *)
AdPut(L, l, q) == [m \in DOMAIN L \cup {l} |-> IF m = l THEN q ELSE L[m]]
AdDrop(L, l) == [m \in DOMAIN L \ {l} |-> L[m]]

(* Nodes nd2 have the chain q at l, and of the others none has changed.    *)
AdTouches(nd, nd2, L, l, q) ==
  /\ AdNodes(nd2)
  /\ ToSet(q) \subseteq AdMine(L, l) \cup (Cells \ DOMAIN nd)
  /\ DOMAIN nd2 = (DOMAIN nd \ AdMine(L, l)) \cup ToSet(q)
  /\ \A c \in DOMAIN nd \ AdMine(L, l) : /\ nd2[c].next = nd[c].next
                                         /\ nd2[c].prev = nd[c].prev

(* Writing the nodes of one list leaves the others as they are.            *)
LEMMA AdOthers ==
  ASSUME NEW ls, NEW nd, NEW L, NEW nd2, NEW l, NEW q, AdLists(ls, nd, L),
         AdTouches(nd, nd2, L, l, q), NEW m \in DOMAIN L \ {l}
  PROVE  AdChain(nd2, ls[m], L[m]) /\ ToSet(L[m]) \cap ToSet(q) = {}
<1>1. AdChain(nd, ls[m], L[m])
  BY AdListIs
<1>2. /\ Ring(AdNext(nd, ls[m]), AdPrev(nd, ls[m]), NULL, Cells, L[m])
      /\ ToSet(L[m]) \subseteq DOMAIN nd
      /\ ls[m] \in AdRecord /\ ls[m].len = Len(L[m]) /\ NULL \notin ToSet(L[m])
  BY <1>1, AdChainIs
<1>3. ToSet(L[m]) \cap AdMine(L, l) = {}
  BY DEF AdMine, AdLists
<1>4. /\ ToSet(L[m]) \subseteq DOMAIN nd2
      /\ \A c \in ToSet(L[m]) : nd2[c].next = nd[c].next /\ nd2[c].prev = nd[c].prev
  BY <1>2, <1>3 DEF AdTouches
<1>5. Unchanged(AdNext(nd, ls[m]), AdPrev(nd, ls[m]), AdNext(nd2, ls[m]), AdPrev(nd2, ls[m]),
                ToSet(L[m]) \cup {NULL})
  BY <1>2, <1>4 DEF Unchanged, AdNext, AdPrev
<1>6. Ring(AdNext(nd2, ls[m]), AdPrev(nd2, ls[m]), NULL, Cells, L[m])
  BY <1>2, <1>5, SameRing
<1>7. ToSet(L[m]) \cap ToSet(q) = {}
  BY <1>2, <1>3 DEF AdTouches
<1>8. QED
  BY <1>2, <1>4, <1>6, <1>7 DEF AdChain

(* One list becomes q, the others stay.                                    *)
LEMMA AdChanges ==
  ASSUME NEW ls, NEW nd, NEW L, NEW nd2, NEW l, NEW q, NEW r, NEW ls2,
         AdLists(ls, nd, L), l \in Lists, AdTouches(nd, nd2, L, l, q),
         AdChain(nd2, r, q), ls2 = [ls EXCEPT ![l] = r]
  PROVE  AdLists(ls2, nd2, AdPut(L, l, q))
<1>1. PICK M : M = AdPut(L, l, q)
  OBVIOUS
<1>2. /\ DOMAIN M = DOMAIN L \cup {l} /\ M[l] = q
      /\ \A m \in DOMAIN L \ {l} : M[m] = L[m]
  BY <1>1 DEF AdPut
<1>3. r \in AdRecord /\ r # NULL
  BY AdChainIs
<1>4. ls \in [Lists -> AdRecord \cup {NULL}]
  BY DEF AdLists
<1>5. /\ ls2 \in [Lists -> AdRecord \cup {NULL}]
      /\ ls2[l] = r /\ \A m \in Lists \ {l} : ls2[m] = ls[m]
  BY <1>3, <1>4
<1>6. DOMAIN M = {m \in Lists : ls2[m] # NULL}
  BY <1>2, <1>3, <1>5 DEF AdLists
<1>7. \A m \in DOMAIN L \ {l} : /\ AdChain(nd2, ls[m], L[m])
                                /\ ToSet(L[m]) \cap ToSet(q) = {} /\ m \in Lists
  BY AdOthers, AdListIs
<1>8. \A m \in DOMAIN M : AdChain(nd2, ls2[m], M[m])
  BY <1>2, <1>5, <1>7
<1>9. ASSUME NEW m \in DOMAIN M, NEW k \in DOMAIN M, m # k
      PROVE  ToSet(M[m]) \cap ToSet(M[k]) = {}
  <2>1. CASE m = l
    BY <1>2, <1>7, <1>9, <2>1
  <2>2. CASE k = l
    BY <1>2, <1>7, <1>9, <2>2
  <2>3. CASE m # l /\ k # l
    BY <1>2, <1>9, <2>3 DEF AdLists
  <2>4. QED
    BY <2>1, <2>2, <2>3
<1>10. ASSUME NEW c \in DOMAIN nd2
       PROVE  \E m \in DOMAIN M : c \in ToSet(M[m])
  <2>1. CASE c \in ToSet(q)
    BY <1>2, <2>1
  <2>2. CASE c \in DOMAIN nd \ AdMine(L, l)
    <3>1. PICK m \in DOMAIN L : c \in ToSet(L[m])
      BY <2>2 DEF AdLists
    <3>2. m # l
      BY <2>2, <3>1 DEF AdMine
    <3>3. QED
      BY <1>2, <3>1, <3>2
  <2>3. QED
    BY <2>1, <2>2 DEF AdTouches
<1>11. AdNodes(nd2)
  BY DEF AdTouches
<1>12. QED
  BY <1>1, <1>5, <1>6, <1>8, <1>9, <1>10, <1>11 DEF AdLists

(* One list goes, the others stay.                                         *)
LEMMA AdDrops ==
  ASSUME NEW ls, NEW nd, NEW L, NEW nd2, NEW l, NEW ls2,
         AdLists(ls, nd, L), l \in DOMAIN L, AdTouches(nd, nd2, L, l, << >>),
         ls2 = [ls EXCEPT ![l] = NULL]
  PROVE  AdLists(ls2, nd2, AdDrop(L, l))
<1>1. PICK M : M = AdDrop(L, l)
  OBVIOUS
<1>2. DOMAIN M = DOMAIN L \ {l} /\ \A m \in DOMAIN L \ {l} : M[m] = L[m]
  BY <1>1 DEF AdDrop
<1>3. ls \in [Lists -> AdRecord \cup {NULL}] /\ l \in Lists
  BY DEF AdLists
<1>4. /\ ls2 \in [Lists -> AdRecord \cup {NULL}]
      /\ ls2[l] = NULL /\ \A m \in Lists \ {l} : ls2[m] = ls[m]
  BY <1>3
<1>5. DOMAIN M = {m \in Lists : ls2[m] # NULL}
  BY <1>2, <1>4 DEF AdLists
<1>6. \A m \in DOMAIN L \ {l} : AdChain(nd2, ls[m], L[m]) /\ m \in Lists
  BY AdOthers, AdListIs
<1>7. \A m \in DOMAIN M : AdChain(nd2, ls2[m], M[m])
  BY <1>2, <1>4, <1>6
<1>8. \A m, k \in DOMAIN M : m # k => ToSet(M[m]) \cap ToSet(M[k]) = {}
  BY <1>2 DEF AdLists
<1>9. ASSUME NEW c \in DOMAIN nd2
      PROVE  \E m \in DOMAIN M : c \in ToSet(M[m])
  <2>1. c \in DOMAIN nd \ AdMine(L, l)
    <3>1. ToSet(<< >>) = {}
      BY DEF ToSet
    <3>2. QED
      BY <3>1 DEF AdTouches
  <2>2. PICK m \in DOMAIN L : c \in ToSet(L[m])
    BY <2>1 DEF AdLists
  <2>3. m # l
    BY <2>1, <2>2 DEF AdMine
  <2>4. QED
    BY <1>2, <2>2, <2>3
<1>10. AdNodes(nd2)
  BY DEF AdTouches
<1>11. QED
  BY <1>1, <1>4, <1>5, <1>7, <1>8, <1>9, <1>10 DEF AdLists

-----------------------------------------------------------------------------
(* What the walks over such pointers meet.                                 *)
LEMMA AdWalks ==
  ASSUME NEW nd, NEW r, NEW q, AdChain(nd, r, q), AdNodes(nd)
  PROVE  /\ Walk(Ad!Nexts(nd), r.head, NULL) = q
         /\ Walk(Ad!Prevs(nd), r.tail, NULL) = Reverse(q)
<1>1. /\ q \in Seq(Cells) /\ NULL \notin ToSet(q)
      /\ Ring(AdNext(nd, r), AdPrev(nd, r), NULL, Cells, q) /\ ToSet(q) \subseteq DOMAIN nd
  BY AdChainIs
<1>2. IsFiniteSet(DOMAIN nd)
  BY CellsAssumption, FS_Subset DEF AdNodes
<1>3. /\ AdNext(nd, r)[NULL] = r.head /\ AdPrev(nd, r)[NULL] = r.tail
      /\ \A c \in ToSet(q) : AdNext(nd, r)[c] = nd[c].next /\ AdPrev(nd, r)[c] = nd[c].prev
  BY <1>1 DEF AdNext, AdPrev
<1>4. PICK nx, pv : nx = Ad!Nexts(nd) /\ pv = Ad!Prevs(nd)
  OBVIOUS
<1>5. /\ DOMAIN nx = DOMAIN nd /\ DOMAIN pv = DOMAIN nd
      /\ \A c \in DOMAIN nd : nx[c] = nd[c].next /\ pv[c] = nd[c].prev
  BY <1>4 DEF Ad!Nexts, Ad!Prevs
<1>6. Walk(nx, r.head, NULL) = q
  <2>1. r.head = IF AdNext(nd, r)[NULL] = NULL THEN NULL ELSE AdNext(nd, r)[NULL]
    BY <1>3
  <2>2. \A c \in ToSet(q) : nx[c] = IF AdNext(nd, r)[c] = NULL THEN NULL ELSE AdNext(nd, r)[c]
    BY <1>1, <1>3, <1>5
  <2>3. IsFiniteSet(DOMAIN nx) /\ ToSet(q) \subseteq DOMAIN nx
    BY <1>1, <1>2, <1>5
  <2>4. QED
    BY <1>1, <2>1, <2>2, <2>3, RingWalk
<1>7. PICK b : b = Reverse(q)
  OBVIOUS
<1>8. Ring(AdPrev(nd, r), AdNext(nd, r), NULL, Cells, b) /\ ToSet(b) = ToSet(q)
  BY <1>1, <1>7, ReverseRing, ReverseFacts
<1>9. Walk(pv, r.tail, NULL) = b
  <2>1. r.tail = IF AdPrev(nd, r)[NULL] = NULL THEN NULL ELSE AdPrev(nd, r)[NULL]
    BY <1>3
  <2>2. \A c \in ToSet(b) : pv[c] = IF AdPrev(nd, r)[c] = NULL THEN NULL ELSE AdPrev(nd, r)[c]
    BY <1>1, <1>3, <1>5, <1>8
  <2>3. IsFiniteSet(DOMAIN pv) /\ ToSet(b) \subseteq DOMAIN pv /\ NULL \notin ToSet(b)
    BY <1>1, <1>2, <1>5, <1>8
  <2>4. QED
    BY <1>8, <2>1, <2>2, <2>3, RingWalk
<1>10. QED
  BY <1>4, <1>6, <1>7, <1>9

(* The instance has the operators of its libraries once more.              *)
LEMMA AdWalkIs ==
  ASSUME NEW f, NEW x, NEW end
  PROVE  Ad!Walk(f, x, end) = Walk(f, x, end)
BY DEF Ad!Walk, Walk, Ad!Cardinality, Cardinality

(* The operators of the instance are those of Sequence.                    *)
LEMMA AdSame ==
  ASSUME NEW q, NEW i, NEW e
  PROVE  /\ Ad!Range(q) = ToSet(q) /\ (Ad!IsInjective(q) <=> Distinct(q))
         /\ Ad!Reverse(q) = Reverse(q) /\ Ad!At(q, e) = At(q, e)
         /\ Ad!InsertAt(q, i, e) = InsertAt(q, i, e) /\ Ad!RemoveAt(q, i) = RemoveAt(q, i)
         /\ Ad!Last(q) = Last(q) /\ Ad!Front(q) = Front(q)
<1>1. Ad!Range(q) = ToSet(q) /\ (Ad!IsInjective(q) <=> Distinct(q))
  BY DEF Ad!Range, ToSet, Ad!IsInjective, Distinct
<1>2. Ad!Reverse(q) = Reverse(q)
  BY DEF Ad!Reverse, Reverse
<1>3. Ad!At(q, e) = At(q, e)
  BY DEF Ad!At, At
<1>4. Ad!InsertAt(q, i, e) = InsertAt(q, i, e) /\ Ad!RemoveAt(q, i) = RemoveAt(q, i)
  BY DEF Ad!InsertAt, InsertAt, Ad!RemoveAt, RemoveAt
<1>5. Ad!Last(q) = Last(q) /\ Ad!Front(q) = Front(q)
  BY DEF Ad!Last, Last, Ad!Front, Front
<1>6. QED
  BY <1>1, <1>2, <1>3, <1>4, <1>5

(* The lists are L, or will be.                                            *)
AdIs(L) ==
  /\ AdLists(list, node, L)
  /\ \A l \in DOMAIN L : Ad!Nodes(l) = L[l] /\ Ad!NodesReverse(l) = Reverse(L[l])
AdBecomes(L) == AdLists(list', node', L) /\ \A l \in DOMAIN L : Ad!Nodes(l)' = L[l]

(* The lists that the pointers form are those the walks visit.             *)
LEMMA AdListed ==
  ASSUME NEW L
  PROVE  /\ AdLists(list, node, L) => AdIs(L)
         /\ AdLists(list', node', L) => AdBecomes(L)
<1>1. ASSUME AdLists(list, node, L), NEW l \in DOMAIN L
      PROVE  Ad!Nodes(l) = L[l] /\ Ad!NodesReverse(l) = Reverse(L[l])
  <2>1. AdChain(node, list[l], L[l]) /\ AdNodes(node)
    BY <1>1, AdListIs DEF AdLists
  <2>2. /\ Ad!Nodes(l) = Walk(Ad!Nexts(node), list[l].head, NULL)
        /\ Ad!NodesReverse(l) = Walk(Ad!Prevs(node), list[l].tail, NULL)
    BY AdWalkIs DEF Ad!Nodes, Ad!NodesReverse
  <2>3. QED
    BY <2>1, <2>2, AdWalks
<1>2. ASSUME AdLists(list', node', L), NEW l \in DOMAIN L
      PROVE  Ad!Nodes(l)' = L[l]
  <2>1. PICK ls, nd : ls = list' /\ nd = node'
    OBVIOUS
  <2>2. AdChain(nd, ls[l], L[l]) /\ AdNodes(nd)
    BY <1>2, <2>1, AdListIs DEF AdLists
  <2>3. Ad!Nodes(l)' = Ad!Walk(Ad!Nexts(nd), ls[l].head, NULL)
    BY <2>1 DEF Ad!Nodes, Ad!Nexts
  <2>4. Ad!Nodes(l)' = Walk(Ad!Nexts(nd), ls[l].head, NULL)
    BY <2>3, AdWalkIs
  <2>5. QED
    BY <2>2, <2>4, AdWalks
<1>3. QED
  BY <1>1, <1>2 DEF AdIs, AdBecomes

-----------------------------------------------------------------------------
(* The operations, on the lists there are *)

(* A list there is, and what the walks over it visit.                      *)
LEMMA AdOf ==
  ASSUME NEW L, NEW l, AdIs(L), l \in DOMAIN L
  PROVE  /\ AdChain(node, list[l], L[l]) /\ AdNodes(node) /\ l \in Lists
         /\ L[l] \in Seq(Cells) /\ Distinct(L[l]) /\ NULL \notin ToSet(L[l])
         /\ Len(L[l]) \in Nat /\ DOMAIN L[l] = 1 .. Len(L[l]) /\ ToSet(L[l]) \subseteq DOMAIN node
         /\ list[l] \in AdRecord /\ list[l].len = Len(L[l])
         /\ Ad!Nodes(l) = L[l] /\ Ad!NodesReverse(l) = Reverse(L[l])
<1>1. AdLists(list, node, L)
  BY DEF AdIs
<1>2. AdChain(node, list[l], L[l]) /\ AdNodes(node) /\ l \in Lists
  BY <1>1, AdListIs DEF AdLists
<1>3. QED
  BY <1>2, AdChainIs DEF AdIs

(* The lists there are, and the addresses malloc can give.                 *)
LEMMA AdLive ==
  ASSUME NEW L, AdIs(L)
  PROVE  Ad!Live = DOMAIN L /\ Ad!Free = Cells \ DOMAIN node
BY DEF AdIs, AdLists, Ad!Live, Ad!Free

(* listCreate makes an empty list.                                         *)
LEMMA AdCreates ==
  ASSUME NEW L, NEW l, AdIs(L), l \in Lists \ DOMAIN L,
         list' = [list EXCEPT ![l] = Ad!NoList], node' = node
  PROVE  AdBecomes(AdPut(L, l, << >>))
<1>1. AdLists(list, node, L) /\ AdNodes(node)
  BY DEF AdIs, AdLists
<1>2. PICK r : r = Ad!NoList
  OBVIOUS
<1>3. r \in AdRecord /\ r.head = NULL /\ r.tail = NULL /\ r.len = 0
  BY <1>2 DEF Ad!NoList, AdRecord, Pointer
<1>4. << >> \in Seq(Cells) /\ Len(<< >>) = 0 /\ ToSet(<< >>) = {}
  BY EmptySeq DEF ToSet
<1>5. Ring(AdNext(node, r), AdPrev(node, r), NULL, Cells, << >>)
  <2>1. AdNext(node, r)[NULL] = NULL /\ AdPrev(node, r)[NULL] = NULL
    BY <1>3 DEF AdNext, AdPrev
  <2>2. QED
    BY <2>1, EmptyRing
<1>6. AdChain(node, r, << >>)
  BY <1>3, <1>4, <1>5 DEF AdChain
<1>7. AdTouches(node, node, L, l, << >>)
  BY <1>1, <1>4 DEF AdTouches, AdMine
<1>8. AdLists(list', node, AdPut(L, l, << >>))
  BY <1>1, <1>2, <1>6, <1>7, AdChanges
<1>9. AdLists(list', node', AdPut(L, l, << >>))
  BY <1>8
<1>10. QED
  BY <1>9, AdListed

(* The nodes gone are free again, and no other has changed.                *)
AdFreed(gone) ==
  /\ DOMAIN node' = DOMAIN node \ gone
  /\ \A c \in DOMAIN node' : node'[c] = node[c]

(* listRelease frees the nodes of one list, and no other node.             *)
LEMMA AdReleases ==
  ASSUME NEW L, NEW l, AdIs(L), l \in DOMAIN L, Ad!Released(l)
  PROVE  AdBecomes(AdDrop(L, l)) /\ AdFreed(ToSet(L[l]))
<1>1. /\ AdLists(list, node, L) /\ L[l] \in Seq(Cells) /\ Len(L[l]) \in Nat
      /\ list[l].len = Len(L[l]) /\ Ad!Nodes(l) = L[l] /\ AdNodes(node)
  BY AdOf DEF AdIs
<1>2. SubSeq(L[l], 1, Len(L[l])) = L[l]
  <2>1. PICK q, n : q = L[l] /\ n = Len(q)
    OBVIOUS
  <2>2. q \in Seq(Cells) /\ n \in Nat
    BY <1>1, <2>1
  <2>3. SubSeq(q, 1, n) \in Seq(Cells) /\ Len(SubSeq(q, 1, n)) = n
        /\ \A j \in 1 .. n : SubSeq(q, 1, n)[j] = q[j]
    BY <2>1, <2>2
  <2>4. SubSeq(q, 1, n) = q
    BY <2>1, <2>2, <2>3, SeqEqual
  <2>5. QED
    BY <2>1, <2>4
<1>3. node' = Ad!Without(node, ToSet(L[l])) /\ list' = [list EXCEPT ![l] = NULL]
  BY <1>1, <1>2, AdSame DEF Ad!Released
<1>4. node' = [c \in DOMAIN node \ ToSet(L[l]) |-> node[c]]
  BY <1>3 DEF Ad!Without
<1>5. AdFreed(ToSet(L[l]))
  BY <1>4 DEF AdFreed
<1>6. AdTouches(node, node', L, l, << >>)
  <2>1. ToSet(<< >>) = {} /\ AdMine(L, l) = ToSet(L[l])
    BY DEF ToSet, AdMine
  <2>2. AdNodes(node')
    <3>1. \A c \in DOMAIN node \ ToSet(L[l]) : node[c] \in AdNode
      BY <1>1 DEF AdNodes
    <3>2. node' \in [DOMAIN node \ ToSet(L[l]) -> AdNode]
      BY <1>4, <3>1
    <3>3. DOMAIN node' = DOMAIN node \ ToSet(L[l])
      BY <1>4
    <3>4. QED
      BY <1>1, <3>2, <3>3 DEF AdNodes
  <2>3. QED
    BY <1>5, <2>1, <2>2 DEF AdTouches, AdFreed
<1>7. PICK ls, nd : ls = list' /\ nd = node'
  OBVIOUS
<1>8. AdLists(ls, nd, AdDrop(L, l))
  BY <1>1, <1>3, <1>6, <1>7, AdDrops
<1>9. QED
  BY <1>5, <1>7, <1>8, AdListed

(* The record of a list, field by field.                                   *)
AdRecordSet(ls, ls2, l, h, t, n) ==
  ls2 = [ls EXCEPT ![l].head = h, ![l].tail = t, ![l].len = n]

(* The fields of a list, set one by one.                                   *)
LEMMA AdRecordPut ==
  ASSUME NEW ls, NEW ls2, NEW l, NEW h, NEW t, NEW n, NEW r,
         ls \in [Lists -> AdRecord \cup {NULL}], l \in Lists, ls[l] \in AdRecord,
         r = [head |-> h, tail |-> t, len |-> n], AdRecordSet(ls, ls2, l, h, t, n)
  PROVE  ls2 = [ls EXCEPT ![l] = r]
<1>1. PICK x : x = ls[l]
  OBVIOUS
<1>2. [[[x EXCEPT !.head = h] EXCEPT !.tail = t] EXCEPT !.len = n] = r
  <2>1. x = [head |-> x.head, tail |-> x.tail, len |-> x.len]
    BY <1>1 DEF AdRecord
  <2>2. [x EXCEPT !.head = h] = [head |-> h, tail |-> x.tail, len |-> x.len]
    BY <2>1
  <2>3. PICK y : y = [head |-> h, tail |-> x.tail, len |-> x.len]
    OBVIOUS
  <2>4. [y EXCEPT !.tail = t] = [head |-> h, tail |-> t, len |-> x.len]
    BY <2>3
  <2>5. PICK z : z = [head |-> h, tail |-> t, len |-> x.len]
    OBVIOUS
  <2>6. [z EXCEPT !.len = n] = r
    BY <2>5
  <2>7. QED
    BY <2>2, <2>3, <2>4, <2>5, <2>6
<1>3. [ls EXCEPT ![l].head = h, ![l].tail = t, ![l].len = n]
        = [ls EXCEPT ![l] = [[[ls[l] EXCEPT !.head = h] EXCEPT !.tail = t] EXCEPT !.len = n]]
  OBVIOUS
<1>4. QED
  BY <1>1, <1>2, <1>3 DEF AdRecordSet

(* Node e, new, has the value v, and the values of the others are kept.    *)
AdGained(e, v) ==
  /\ DOMAIN node' = DOMAIN node \cup {e} /\ node'[e].value = v
  /\ \A c \in DOMAIN node : node'[c].value = node[c].value

(* A node inserted between two neighbours of a list.                       *)
LEMMA AdAdds ==
  ASSUME NEW L, NEW l, NEW a, NEW p, NEW b, NEW d, NEW e, NEW v,
         AdIs(L), l \in DOMAIN L, a \in 0 .. Len(L[l]), p = a + 1,
         b = Cell(L[l], NULL, a), d = Cell(L[l], NULL, p), e \in Cells \ DOMAIN node,
         v \in Values, Ad!Insert(l, e, v, b, d)
  PROVE  AdBecomes(AdPut(L, l, InsertAt(L[l], p, e))) /\ AdGained(e, v)
<1>1. /\ AdLists(list, node, L) /\ AdChain(node, list[l], L[l]) /\ AdNodes(node) /\ l \in Lists
      /\ L[l] \in Seq(Cells) /\ Distinct(L[l]) /\ Len(L[l]) \in Nat
      /\ ToSet(L[l]) \subseteq DOMAIN node /\ list[l] \in AdRecord
      /\ list \in [Lists -> AdRecord \cup {NULL}]
  BY AdOf DEF AdIs, AdLists
<1>2. PICK h, t, n, r : /\ h = IF b = NULL THEN e ELSE list[l].head
                        /\ t = IF d = NULL THEN e ELSE list[l].tail
                        /\ n = list[l].len + 1
                        /\ r = [head |-> h, tail |-> t, len |-> n]
  OBVIOUS
<1>3. AdRecordSet(list, list', l, h, t, n)
  BY <1>2 DEF Ad!Insert, AdRecordSet
<1>4. list' = [list EXCEPT ![l] = r]
  BY <1>1, <1>2, <1>3, AdRecordPut
<1>5. PICK nd1 : nd1 = [c \in DOMAIN node \cup {e} |->
                          IF c = e THEN [prev |-> b, next |-> d, value |-> v] ELSE node[c]]
  OBVIOUS
<1>6. node' = Ad!WithPrev(Ad!WithNext(nd1, b, e), d, e)
  BY <1>5 DEF Ad!Insert, Ad!Allocated
<1>7. PICK nd2, q, q2 : nd2 = node' /\ q = L[l] /\ q2 = InsertAt(q, p, e)
  OBVIOUS
<1>8. AdInserted(node, nd2, list[l], r, q, p, e, v)
  <2>1. PICK nd, x : nd = node /\ x = list[l]
    OBVIOUS
  <2>2. AdGap(q, a, p, b, d)
    BY <1>7 DEF AdGap
  <2>3. AdWrites(nd, nd1, nd2, x, r, b, d, e, v)
    <3>1. r = [head |-> IF b = NULL THEN e ELSE x.head,
               tail |-> IF d = NULL THEN e ELSE x.tail, len |-> x.len + 1]
      BY <1>2, <2>1
    <3>2. nd1 = [c \in DOMAIN nd \cup {e} |->
                   IF c = e THEN [prev |-> b, next |-> d, value |-> v] ELSE nd[c]]
      BY <1>5, <2>1
    <3>3. nd2 = Ad!WithPrev(Ad!WithNext(nd1, b, e), d, e)
      BY <1>6, <1>7
    <3>4. QED
      BY <3>1, <3>2, <3>3 DEF AdWrites
  <2>4. AdNodes(nd) /\ AdChain(nd, x, q) /\ e \in Cells \ DOMAIN nd
    BY <1>1, <1>7, <2>1
  <2>5. AdInserted(nd, nd2, x, r, q, p, e, v)
    BY <2>2, <2>3, <2>4, AdInsert
  <2>6. QED
    BY <2>1, <2>5
<1>9. p \in 1 .. Len(q) + 1
  BY <1>1, <1>7
<1>10. ToSet(q2) = ToSet(q) \cup {e}
  BY <1>1, <1>7, <1>9, InsertAdds
<1>11. /\ AdChain(nd2, r, q2) /\ AdNodes(nd2)
       /\ DOMAIN nd2 = DOMAIN node \cup {e} /\ nd2[e].value = v
       /\ \A c \in DOMAIN node : /\ nd2[c].value = node[c].value
                                 /\ c \notin ToSet(q) => /\ nd2[c].next = node[c].next
                                                         /\ nd2[c].prev = node[c].prev
  BY <1>7, <1>8 DEF AdInserted
<1>12. AdTouches(node, nd2, L, l, q2)
  <2>1. AdMine(L, l) = ToSet(q)
    BY <1>7 DEF AdMine
  <2>2. QED
    BY <1>1, <1>7, <1>10, <1>11, <2>1 DEF AdTouches
<1>13. AdLists(list', nd2, AdPut(L, l, q2))
  BY <1>1, <1>4, <1>11, <1>12, AdChanges
<1>14. AdBecomes(AdPut(L, l, q2))
  <2>1. PICK M : M = AdPut(L, l, q2)
    OBVIOUS
  <2>2. AdLists(list', node', M)
    BY <1>7, <1>13, <2>1
  <2>3. QED
    BY <2>1, <2>2, AdListed
<1>15. AdGained(e, v)
  BY <1>7, <1>11 DEF AdGained
<1>16. QED
  BY <1>7, <1>14, <1>15

(* What head and tail of a list are.                                       *)
LEMMA AdEnds ==
  ASSUME NEW L, NEW l, NEW n, AdIs(L), l \in DOMAIN L, n = Len(L[l]) + 1
  PROVE  /\ list[l].head = Cell(L[l], NULL, 1) /\ Cell(L[l], NULL, 0) = NULL
         /\ list[l].tail = Cell(L[l], NULL, Len(L[l])) /\ Cell(L[l], NULL, n) = NULL
<1>1. /\ Ring(AdNext(node, list[l]), AdPrev(node, list[l]), NULL, Cells, L[l])
      /\ Len(L[l]) \in Nat
  BY AdOf, AdChainIs
<1>2. PICK q, m : q = L[l] /\ m = Len(q)
  OBVIOUS
<1>3. Cell(q, NULL, 0) = NULL /\ Cell(q, NULL, n) = NULL
  BY <1>1, <1>2 DEF Cell
<1>4. 0 \in 0 .. m /\ m \in 0 .. m /\ 1 = 0 + 1 /\ n = m + 1
  BY <1>1, <1>2
<1>5. Linked(AdNext(node, list[l]), AdPrev(node, list[l]), q, NULL, 0, 1)
  BY <1>1, <1>2, <1>4, RingLink
<1>6. Linked(AdNext(node, list[l]), AdPrev(node, list[l]), q, NULL, m, n)
  BY <1>1, <1>2, <1>4, RingLink
<1>7. AdNext(node, list[l])[NULL] = list[l].head /\ AdPrev(node, list[l])[NULL] = list[l].tail
  BY DEF AdNext, AdPrev
<1>8. QED
  BY <1>2, <1>3, <1>5, <1>6, <1>7 DEF Linked

(* The four ways to add a node.                                            *)
LEMMA AdAddsHead ==
  ASSUME NEW L, NEW l, NEW e, NEW v, AdIs(L), l \in DOMAIN L, e \in Cells \ DOMAIN node,
         v \in Values, Ad!listAddNodeHead(l, e, v)
  PROVE  AdBecomes(AdPut(L, l, <<e>> \o L[l])) /\ AdGained(e, v)
<1>1. L[l] \in Seq(Cells) /\ Len(L[l]) \in Nat
  BY AdOf
<1>2. PICK q : q = L[l]
  OBVIOUS
<1>3. list[l].head = Cell(q, NULL, 1) /\ Cell(q, NULL, 0) = NULL
  BY <1>2, AdEnds
<1>4. Ad!Insert(l, e, v, NULL, list[l].head)
  BY DEF Ad!listAddNodeHead
<1>5. 0 \in 0 .. Len(L[l]) /\ 1 = 0 + 1
  BY <1>1
<1>6. AdBecomes(AdPut(L, l, InsertAt(L[l], 1, e))) /\ AdGained(e, v)
  BY <1>2, <1>3, <1>4, <1>5, AdAdds
<1>7. InsertAt(L[l], 1, e) = <<e>> \o L[l]
  BY <1>1, PushIsInsert
<1>8. QED
  BY <1>6, <1>7

(* listAddNodeTail appends a node.                                         *)
LEMMA AdAddsTail ==
  ASSUME NEW L, NEW l, NEW e, NEW v, AdIs(L), l \in DOMAIN L, e \in Cells \ DOMAIN node,
         v \in Values, Ad!listAddNodeTail(l, e, v)
  PROVE  AdBecomes(AdPut(L, l, Append(L[l], e))) /\ AdGained(e, v)
<1>1. L[l] \in Seq(Cells) /\ Len(L[l]) \in Nat
  BY AdOf
<1>2. PICK q, m, n : q = L[l] /\ m = Len(q) /\ n = m + 1
  OBVIOUS
<1>3. list[l].tail = Cell(q, NULL, m) /\ Cell(q, NULL, n) = NULL
  BY <1>2, AdEnds
<1>4. Ad!Insert(l, e, v, list[l].tail, NULL)
  BY DEF Ad!listAddNodeTail
<1>5. m \in 0 .. Len(L[l])
  BY <1>1, <1>2
<1>6. AdBecomes(AdPut(L, l, InsertAt(L[l], n, e))) /\ AdGained(e, v)
  BY <1>2, <1>3, <1>4, <1>5, AdAdds
<1>7. InsertAt(L[l], n, e) = Append(L[l], e)
  BY <1>1, <1>2, AppendIsInsert
<1>8. QED
  BY <1>6, <1>7

(* The k-th node e of a list, between b and d.                             *)
AdPlace(l, q, e, b, d) ==
  /\ AdBetween(node, q, e, b, d) /\ e # NULL
  /\ (list[l].head = e <=> b = NULL) /\ (list[l].tail = e <=> d = NULL)

(* The neighbours of a node of a list, and whether it is an end.           *)
LEMMA AdPlaces ==
  ASSUME NEW L, NEW l, NEW i, NEW k, NEW j, NEW e, NEW b, NEW d, AdIs(L), l \in DOMAIN L,
         k \in 1 .. Len(L[l]), k = i + 1, j = k + 1, i \in 0 .. Len(L[l]), e = L[l][k],
         b = Cell(L[l], NULL, i), d = Cell(L[l], NULL, j)
  PROVE  AdPlace(l, L[l], e, b, d)
<1>1. PICK q, n : q = L[l] /\ n = Len(q)
  OBVIOUS
<1>2. /\ AdChain(node, list[l], q) /\ AdNodes(node) /\ n \in Nat
      /\ q \in Seq(Cells) /\ Distinct(q) /\ NULL \notin ToSet(q) /\ DOMAIN q = 1 .. n
  BY <1>1, AdOf
<1>3. AdBetween(node, q, e, b, d)
  BY <1>1, <1>2, AdNeighbours
<1>4. PICK m : m = n + 1
  OBVIOUS
<1>5. list[l].head = Cell(q, NULL, 1) /\ list[l].tail = Cell(q, NULL, n)
  BY <1>1, <1>4, AdEnds
<1>6. n # 0 /\ 1 \in 1 .. n /\ n \in 1 .. n /\ k \in 1 .. n
  BY <1>1, <1>2
<1>7. list[l].head = q[1] /\ list[l].tail = q[n]
  BY <1>1, <1>5, <1>6 DEF Cell
<1>8. (q[1] = q[k] <=> k = 1) /\ (q[n] = q[k] <=> k = n)
  BY <1>2, <1>6 DEF Distinct
<1>9. b = NULL <=> k = 1
  <2>1. CASE i \in 1 .. n
    <3>1. b = q[i] /\ q[i] \in ToSet(q)
      BY <1>1, <1>2, <2>1 DEF Cell, ToSet
    <3>2. QED
      BY <1>2, <2>1, <3>1
  <2>2. CASE i \notin 1 .. n
    BY <1>1, <1>2, <2>2 DEF Cell
  <2>3. QED
    BY <2>1, <2>2
<1>10. d = NULL <=> k = n
  <2>1. CASE j \in 1 .. n
    <3>1. d = q[j] /\ q[j] \in ToSet(q)
      BY <1>1, <1>2, <2>1 DEF Cell, ToSet
    <3>2. QED
      BY <1>2, <1>6, <2>1, <3>1
  <2>2. CASE j \notin 1 .. n
    BY <1>1, <1>2, <1>6, <2>2 DEF Cell
  <2>3. QED
    BY <2>1, <2>2
<1>11. e # NULL
  BY <1>2, <1>3 DEF AdBetween
<1>12. QED
  BY <1>1, <1>3, <1>7, <1>8, <1>9, <1>10, <1>11 DEF AdPlace

(* listInsertNode, after a node.                                           *)
LEMMA AdAddsAfter ==
  ASSUME NEW L, NEW l, NEW k, NEW p, NEW old, NEW e, NEW v, AdIs(L), l \in DOMAIN L,
         e \in Cells \ DOMAIN node, v \in Values, k \in 1 .. Len(L[l]), p = k + 1,
         old = L[l][k], Ad!listInsertNode(l, old, e, v, TRUE)
  PROVE  AdBecomes(AdPut(L, l, InsertAt(L[l], p, e))) /\ AdGained(e, v)
<1>1. PICK q, i : q = L[l] /\ i = k - 1
  OBVIOUS
<1>2. Len(q) \in Nat /\ k = i + 1 /\ i \in 0 .. Len(q) /\ k \in 0 .. Len(q)
  BY <1>1, AdOf
<1>3. PICK b, d : b = Cell(q, NULL, i) /\ d = Cell(q, NULL, p)
  OBVIOUS
<1>4. AdPlace(l, q, old, b, d)
  BY <1>1, <1>2, <1>3, AdPlaces
<1>5. old = Cell(q, NULL, k)
  BY <1>1 DEF Cell
<1>6. node[old].next = d /\ old # NULL /\ (list[l].tail = old <=> d = NULL)
  BY <1>4 DEF AdPlace, AdBetween
<1>7. Ad!Insert(l, e, v, old, d)
  BY <1>6 DEF Ad!listInsertNode, Ad!Insert
<1>8. QED
  BY <1>1, <1>2, <1>3, <1>5, <1>7, AdAdds

(* listInsertNode, before a node.                                          *)
LEMMA AdAddsBefore ==
  ASSUME NEW L, NEW l, NEW k, NEW old, NEW e, NEW v, AdIs(L), l \in DOMAIN L,
         e \in Cells \ DOMAIN node, v \in Values, k \in 1 .. Len(L[l]),
         old = L[l][k], Ad!listInsertNode(l, old, e, v, FALSE)
  PROVE  AdBecomes(AdPut(L, l, InsertAt(L[l], k, e))) /\ AdGained(e, v)
<1>1. PICK q, i, j : q = L[l] /\ i = k - 1 /\ j = k + 1
  OBVIOUS
<1>2. Len(q) \in Nat /\ k = i + 1 /\ i \in 0 .. Len(q)
  BY <1>1, AdOf
<1>3. PICK b, d : b = Cell(q, NULL, i) /\ d = Cell(q, NULL, j)
  OBVIOUS
<1>4. AdPlace(l, q, old, b, d)
  BY <1>1, <1>2, <1>3, AdPlaces
<1>5. old = Cell(q, NULL, k)
  BY <1>1 DEF Cell
<1>6. node[old].prev = b /\ old # NULL /\ (list[l].head = old <=> b = NULL)
  BY <1>4 DEF AdPlace, AdBetween
<1>7. Ad!Insert(l, e, v, b, old)
  BY <1>6 DEF Ad!listInsertNode, Ad!Insert
<1>8. QED
  BY <1>1, <1>2, <1>3, <1>5, <1>7, AdAdds

(* listDelNode, on a list there is.                                        *)
LEMMA AdDeletes ==
  ASSUME NEW L, NEW l, NEW k, NEW e, AdIs(L), l \in DOMAIN L, k \in 1 .. Len(L[l]),
         e = L[l][k], Ad!listDelNode(l, e)
  PROVE  AdBecomes(AdPut(L, l, RemoveAt(L[l], k))) /\ DOMAIN node' = DOMAIN node \ {e}
<1>1. /\ AdLists(list, node, L) /\ AdChain(node, list[l], L[l]) /\ AdNodes(node) /\ l \in Lists
      /\ L[l] \in Seq(Cells) /\ Distinct(L[l]) /\ DOMAIN L[l] = 1 .. Len(L[l])
      /\ ToSet(L[l]) \subseteq DOMAIN node /\ list[l] \in AdRecord
      /\ list \in [Lists -> AdRecord \cup {NULL}]
  BY AdOf DEF AdIs, AdLists
<1>2. PICK x, b, d, h, t, n, r : /\ x = list[l] /\ b = node[e].prev /\ d = node[e].next
                                 /\ h = IF b = NULL THEN d ELSE x.head
                                 /\ t = IF d = NULL THEN b ELSE x.tail
                                 /\ n = x.len - 1
                                 /\ r = [head |-> h, tail |-> t, len |-> n]
  OBVIOUS
<1>3. AdRecordSet(list, list', l, h, t, n)
  BY <1>2 DEF Ad!listDelNode, AdRecordSet
<1>4. list' = [list EXCEPT ![l] = r]
  BY <1>1, <1>2, <1>3, AdRecordPut
<1>5. PICK nd2, q, q2 : nd2 = node' /\ q = L[l] /\ q2 = RemoveAt(q, k)
  OBVIOUS
<1>6. nd2 = Ad!Without(Ad!WithPrev(Ad!WithNext(node, b, d), d, b), {e})
  BY <1>2, <1>5 DEF Ad!listDelNode
<1>7. AdRemoved(node, nd2, r, q, k)
  <2>1. r = [head |-> IF b = NULL THEN d ELSE x.head,
             tail |-> IF d = NULL THEN b ELSE x.tail, len |-> x.len - 1]
    BY <1>2
  <2>2. AdNodes(node) /\ AdChain(node, x, q) /\ k \in 1 .. Len(q) /\ e = q[k]
    BY <1>1, <1>2, <1>5
  <2>3. QED
    BY <1>2, <1>6, <2>1, <2>2, AdDelete
<1>8. ToSet(q2) = ToSet(q) \ {e} /\ e \in ToSet(q)
  <2>1. q \in Seq(Cells) /\ Distinct(q) /\ k \in DOMAIN q /\ e = q[k]
    BY <1>1, <1>5
  <2>2. ToSet(q2) = ToSet(q) \ {q[k]}
    BY <1>5, <2>1, RemoveTakesOne
  <2>3. QED
    BY <2>1, <2>2 DEF ToSet
<1>9. /\ AdChain(nd2, r, q2) /\ AdNodes(nd2) /\ DOMAIN nd2 = DOMAIN node \ {e}
      /\ \A c \in DOMAIN nd2 : c \notin ToSet(q) => /\ nd2[c].next = node[c].next
                                                    /\ nd2[c].prev = node[c].prev
  BY <1>5, <1>7 DEF AdRemoved
<1>10. AdTouches(node, nd2, L, l, q2)
  <2>1. AdMine(L, l) = ToSet(q)
    BY <1>5 DEF AdMine
  <2>2. QED
    BY <1>1, <1>5, <1>8, <1>9, <2>1 DEF AdTouches
<1>11. PICK M : M = AdPut(L, l, q2)
  OBVIOUS
<1>12. AdLists(list', nd2, M)
  BY <1>1, <1>4, <1>9, <1>10, <1>11, AdChanges
<1>13. AdBecomes(M)
  <2>1. AdLists(list', node', M)
    BY <1>5, <1>12
  <2>2. QED
    BY <2>1, AdListed
<1>14. QED
  BY <1>5, <1>9, <1>11, <1>13

(* listRotate, on a list there is.                                         *)
LEMMA AdRotates ==
  ASSUME NEW L, NEW l, AdIs(L), l \in DOMAIN L, Ad!listRotate(l)
  PROVE  /\ AdBecomes(AdPut(L, l, <<Last(L[l])>> \o Front(L[l]))) /\ Len(L[l]) > 1
         /\ DOMAIN node' = DOMAIN node
<1>1. /\ AdLists(list, node, L) /\ AdChain(node, list[l], L[l]) /\ AdNodes(node) /\ l \in Lists
      /\ ToSet(L[l]) \subseteq DOMAIN node /\ list[l] \in AdRecord
      /\ list \in [Lists -> AdRecord \cup {NULL}] /\ list[l].len = Len(L[l])
  BY AdOf DEF AdIs, AdLists
<1>2. PICK x, t, h, c, r : /\ x = list[l] /\ t = x.tail /\ h = x.head /\ c = node[t].prev
                           /\ r = [head |-> t, tail |-> c, len |-> x.len]
  OBVIOUS
<1>3. list' = [list EXCEPT ![l] = r]
  <2>1. list' = [list EXCEPT ![l].tail = c, ![l].head = t]
    BY <1>2 DEF Ad!listRotate
  <2>2. [[x EXCEPT !.tail = c] EXCEPT !.head = t] = r
    <3>1. x = [head |-> x.head, tail |-> x.tail, len |-> x.len]
      BY <1>1, <1>2 DEF AdRecord
    <3>2. PICK y : y = [head |-> x.head, tail |-> c, len |-> x.len]
      OBVIOUS
    <3>3. [x EXCEPT !.tail = c] = y
      BY <3>1, <3>2
    <3>4. [y EXCEPT !.head = t] = r
      BY <1>2, <3>2
    <3>5. QED
      BY <3>3, <3>4
  <2>3. [list EXCEPT ![l].tail = c, ![l].head = t]
          = [list EXCEPT ![l] = [[list[l] EXCEPT !.tail = c] EXCEPT !.head = t]]
    OBVIOUS
  <2>4. QED
    BY <1>2, <2>1, <2>2, <2>3
<1>4. PICK nd2, q, q2 : nd2 = node' /\ q = L[l] /\ q2 = <<Last(q)>> \o Front(q)
  OBVIOUS
<1>5. /\ nd2 = [Ad!WithPrev(Ad!WithNext(node, c, NULL), h, t) EXCEPT ![t].prev = NULL, ![t].next = h]
      /\ Len(q) > 1
  BY <1>1, <1>2, <1>4 DEF Ad!listRotate
<1>6. AdRotated(node, nd2, r, q)
  <2>1. PICK nd : nd = node
    OBVIOUS
  <2>2. /\ AdNodes(nd) /\ AdChain(nd, x, q) /\ Len(q) > 1 /\ t = x.tail /\ h = x.head
        /\ c = nd[t].prev
    BY <1>1, <1>2, <1>4, <1>5, <2>1
  <2>3. nd2 = [Ad!WithPrev(Ad!WithNext(nd, c, NULL), h, t) EXCEPT ![t].prev = NULL, ![t].next = h]
    BY <1>5, <2>1
  <2>4. r = [head |-> t, tail |-> c, len |-> x.len]
    BY <1>2
  <2>5. AdRotated(nd, nd2, r, q)
    BY <2>2, <2>3, <2>4, AdRotate
  <2>6. QED
    BY <2>1, <2>5
<1>7. /\ AdChain(nd2, r, q2) /\ AdNodes(nd2) /\ DOMAIN nd2 = DOMAIN node
      /\ ToSet(q2) = ToSet(q)
      /\ \A y \in DOMAIN node : y \notin ToSet(q) => /\ nd2[y].next = node[y].next
                                                     /\ nd2[y].prev = node[y].prev
  BY <1>4, <1>6 DEF AdRotated
<1>8. AdTouches(node, nd2, L, l, q2)
  <2>1. AdMine(L, l) = ToSet(q)
    BY <1>4 DEF AdMine
  <2>2. QED
    BY <1>1, <1>4, <1>7, <2>1 DEF AdTouches
<1>9. PICK M : M = AdPut(L, l, q2)
  OBVIOUS
<1>10. AdLists(list', nd2, M)
  BY <1>1, <1>3, <1>7, <1>8, <1>9, AdChanges
<1>11. AdBecomes(M)
  <2>1. AdLists(list', node', M)
    BY <1>4, <1>10
  <2>2. QED
    BY <2>1, AdListed
<1>12. QED
  BY <1>4, <1>5, <1>7, <1>9, <1>11

-----------------------------------------------------------------------------
(* The order of the elements of a sequence *)

Precedes(q, x, y) ==
  \E i \in 1 .. Len(q), j \in 1 .. Len(q) : i < j /\ q[i] = x /\ q[j] = y

(* The elements of q, but for gone, are in r in the same order.            *)
KeepsOrder(q, r, gone) ==
  /\ ToSet(q) \ {gone} \subseteq ToSet(r)
  /\ \A x, y : x # gone /\ y # gone /\ Precedes(q, x, y) => Precedes(r, x, y)

(* Read backwards, the order is turned round.                              *)
LEMMA PrecedesReversed ==
  ASSUME NEW S, NEW q, NEW x, NEW y, q \in Seq(S)
  PROVE  Precedes(Reverse(q), x, y) <=> Precedes(q, y, x)
<1>1. PICK n \in Nat : n = Len(q)
  OBVIOUS
<1>2. PICK r : r = Reverse(q)
  OBVIOUS
<1>3. Len(r) = n /\ \A i \in 1 .. n : r[i] = q[(n - i) + 1]
  BY <1>1, <1>2, ReverseFacts DEF Reverse
<1>4. ASSUME Precedes(r, x, y)
      PROVE  Precedes(q, y, x)
  <2>1. PICK i \in 1 .. n, j \in 1 .. n : i < j /\ r[i] = x /\ r[j] = y
    BY <1>3, <1>4 DEF Precedes
  <2>2. PICK a, b : a = (n - i) + 1 /\ b = (n - j) + 1
    OBVIOUS
  <2>3. a \in 1 .. n /\ b \in 1 .. n /\ b < a /\ q[a] = x /\ q[b] = y
    BY <1>3, <2>1, <2>2
  <2>4. QED
    BY <1>1, <2>3 DEF Precedes
<1>5. ASSUME Precedes(q, y, x)
      PROVE  Precedes(r, x, y)
  <2>1. PICK i \in 1 .. n, j \in 1 .. n : i < j /\ q[i] = y /\ q[j] = x
    BY <1>1, <1>5 DEF Precedes
  <2>2. PICK a, b : a = (n - i) + 1 /\ b = (n - j) + 1
    OBVIOUS
  <2>3. a \in 1 .. n /\ b \in 1 .. n /\ b < a /\ (n - a) + 1 = i /\ (n - b) + 1 = j
    BY <2>1, <2>2
  <2>4. r[a] = y /\ r[b] = x
    BY <1>3, <2>1, <2>3
  <2>5. QED
    BY <1>3, <2>3, <2>4 DEF Precedes
<1>6. QED
  BY <1>2, <1>4, <1>5

(* An order that is kept is kept backwards too.                            *)
LEMMA KeepsReversed ==
  ASSUME NEW S, NEW q, NEW r, NEW gone, q \in Seq(S), r \in Seq(S), KeepsOrder(q, r, gone)
  PROVE  KeepsOrder(Reverse(q), Reverse(r), gone)
<1>1. ToSet(Reverse(q)) = ToSet(q) /\ ToSet(Reverse(r)) = ToSet(r)
  BY ReverseFacts
<1>2. ASSUME NEW x, NEW y, x # gone, y # gone, Precedes(Reverse(q), x, y)
      PROVE  Precedes(Reverse(r), x, y)
  <2>1. Precedes(q, y, x)
    BY <1>2, PrecedesReversed
  <2>2. Precedes(r, y, x)
    BY <1>2, <2>1 DEF KeepsOrder
  <2>3. QED
    BY <2>2, PrecedesReversed
<1>3. QED
  BY <1>1, <1>2 DEF KeepsOrder

(* An insertion keeps the order of the other elements.                     *)
LEMMA InsertKeeps ==
  ASSUME NEW S, NEW q, NEW p, NEW e, NEW gone, q \in Seq(S), p \in 1 .. Len(q) + 1, e \in S,
         Distinct(q), e \notin ToSet(q)
  PROVE  KeepsOrder(q, InsertAt(q, p, e), gone)
<1>1. PICK r, n : r = InsertAt(q, p, e) /\ n = Len(q)
  OBVIOUS
<1>2. n \in Nat /\ Inserted(S, q, p, e, r)
  BY <1>1, InsertAtFacts
<1>3. /\ Len(r) = n + 1 /\ \A j \in 1 .. p - 1 : r[j] = q[j]
      /\ \A j \in p .. n : r[j + 1] = q[j]
  BY <1>1, <1>2 DEF Inserted
<1>4. ASSUME NEW x, NEW y, Precedes(q, x, y)
      PROVE  Precedes(r, x, y)
  <2>1. PICK i \in 1 .. n, j \in 1 .. n : i < j /\ q[i] = x /\ q[j] = y
    BY <1>1, <1>4 DEF Precedes
  <2>2. PICK a, b : a = (IF i < p THEN i ELSE i + 1) /\ b = (IF j < p THEN j ELSE j + 1)
    OBVIOUS
  <2>3. a \in 1 .. n + 1 /\ b \in 1 .. n + 1 /\ a < b
    BY <1>1, <1>2, <2>1, <2>2
  <2>4. r[a] = x
    <3>1. CASE i < p
      BY <1>1, <1>3, <2>1, <2>2, <3>1
    <3>2. CASE ~(i < p)
      <4>1. i \in p .. n /\ a = i + 1
        BY <1>1, <1>2, <2>1, <2>2, <3>2
      <4>2. QED
        BY <1>3, <2>1, <4>1
    <3>3. QED
      BY <3>1, <3>2
  <2>5. r[b] = y
    <3>1. CASE j < p
      BY <1>1, <1>3, <2>1, <2>2, <3>1
    <3>2. CASE ~(j < p)
      <4>1. j \in p .. n /\ b = j + 1
        BY <1>1, <1>2, <2>1, <2>2, <3>2
      <4>2. QED
        BY <1>3, <2>1, <4>1
    <3>3. QED
      BY <3>1, <3>2
  <2>6. QED
    BY <1>3, <2>3, <2>4, <2>5 DEF Precedes
<1>5. ToSet(r) = ToSet(q) \cup {e}
  BY <1>1, InsertAdds
<1>6. QED
  BY <1>1, <1>4, <1>5 DEF KeepsOrder

(* A removal keeps the order of the other elements.                        *)
LEMMA RemoveKeeps ==
  ASSUME NEW S, NEW q, NEW k, NEW e, q \in Seq(S), Distinct(q), k \in 1 .. Len(q), e = q[k]
  PROVE  KeepsOrder(q, RemoveAt(q, k), e)
<1>1. PICK r, n : r = RemoveAt(q, k) /\ n = Len(q)
  OBVIOUS
<1>2. n \in Nat /\ DOMAIN q = 1 .. n
  BY <1>1, LenProperties
<1>3. r \in Seq(S) /\ Len(r) = n - 1 /\ \A j \in DOMAIN r : r[j] = IF j < k THEN q[j] ELSE q[j + 1]
  BY <1>1, <1>2, RemoveAtFacts
<1>4. DOMAIN r = 1 .. n - 1
  BY <1>3, LenProperties
<1>5. ASSUME NEW x, NEW y, x # e, y # e, Precedes(q, x, y)
      PROVE  Precedes(r, x, y)
  <2>1. PICK i \in 1 .. n, j \in 1 .. n : i < j /\ q[i] = x /\ q[j] = y
    BY <1>1, <1>5 DEF Precedes
  <2>2. i # k /\ j # k
    BY <1>5, <2>1
  <2>3. PICK a, b : a = (IF i < k THEN i ELSE i - 1) /\ b = (IF j < k THEN j ELSE j - 1)
    OBVIOUS
  <2>4. a \in 1 .. n - 1 /\ b \in 1 .. n - 1 /\ a < b
        /\ (a < k => a = i) /\ (~(a < k) => a + 1 = i)
        /\ (b < k => b = j) /\ (~(b < k) => b + 1 = j)
    BY <1>1, <1>2, <2>1, <2>2, <2>3
  <2>5. r[a] = x /\ r[b] = y
    BY <1>3, <1>4, <2>1, <2>4
  <2>6. QED
    BY <1>3, <2>4, <2>5 DEF Precedes
<1>6. ToSet(r) = ToSet(q) \ {e}
  BY <1>1, <1>2, RemoveTakesOne
<1>7. QED
  BY <1>1, <1>5, <1>6 DEF KeepsOrder

(* An order it is, where no element comes twice.                           *)
LEMMA PrecedesOrders ==
  ASSUME NEW S, NEW q, NEW x, NEW y, NEW z, q \in Seq(S), Distinct(q)
  PROVE  /\ ~ Precedes(q, x, x)
         /\ Precedes(q, x, y) /\ Precedes(q, y, z) => Precedes(q, x, z)
         /\ Precedes(q, x, y) => x \in ToSet(q) /\ y \in ToSet(q)
<1>1. Len(q) \in Nat /\ DOMAIN q = 1 .. Len(q)
      /\ \A i, j \in 1 .. Len(q) : q[i] = q[j] => i = j
  BY LenProperties DEF Distinct
<1>2. ~ Precedes(q, x, x)
  BY <1>1 DEF Precedes
<1>3. ASSUME Precedes(q, x, y), Precedes(q, y, z)
      PROVE  Precedes(q, x, z)
  <2>1. PICK i \in 1 .. Len(q), j \in 1 .. Len(q) : i < j /\ q[i] = x /\ q[j] = y
    BY <1>3 DEF Precedes
  <2>2. PICK k \in 1 .. Len(q), m \in 1 .. Len(q) : k < m /\ q[k] = y /\ q[m] = z
    BY <1>3 DEF Precedes
  <2>3. i < m
    BY <1>1, <2>1, <2>2
  <2>4. QED
    BY <2>1, <2>2, <2>3 DEF Precedes
<1>4. ASSUME Precedes(q, x, y)
      PROVE  x \in ToSet(q) /\ y \in ToSet(q)
  BY <1>1, <1>4 DEF Precedes, ToSet
<1>5. QED
  BY <1>2, <1>3, <1>4

(* What comes after an element is its neighbour or comes after that.       *)
LEMMA NextInOrder ==
  ASSUME NEW S, NEW q, NEW i, NEW j, NEW n, NEW m, q \in Seq(S), Distinct(q),
         NULL \notin ToSet(q), i \in 1 .. Len(q), j = i + 1, n = q[i], m = Cell(q, NULL, j)
  PROVE  /\ m # NULL => m \in ToSet(q) /\ Precedes(q, n, m)
         /\ \A x : Precedes(q, n, x) => m # NULL /\ (x = m \/ Precedes(q, m, x))
<1>1. Len(q) \in Nat /\ DOMAIN q = 1 .. Len(q)
      /\ \A a, b \in 1 .. Len(q) : q[a] = q[b] => a = b
  BY LenProperties DEF Distinct
<1>2. CASE j \in 1 .. Len(q)
  <2>1. m = q[j] /\ m \in ToSet(q) /\ m # NULL
    BY <1>1, <1>2 DEF Cell, ToSet
  <2>2. Precedes(q, n, m)
    BY <1>2, <2>1 DEF Precedes
  <2>3. ASSUME NEW x, Precedes(q, n, x)
        PROVE  x = m \/ Precedes(q, m, x)
    <3>1. PICK a \in 1 .. Len(q), b \in 1 .. Len(q) : a < b /\ q[a] = n /\ q[b] = x
      BY <2>3 DEF Precedes
    <3>2. b = j \/ j < b
      BY <1>1, <3>1
    <3>3. QED
      BY <1>2, <2>1, <3>1, <3>2 DEF Precedes
  <2>4. QED
    BY <2>1, <2>2, <2>3
<1>3. CASE j \notin 1 .. Len(q)
  <2>a. m = NULL
    BY <1>3 DEF Cell
  <2>b. i = Len(q)
    <3>1. PICK k \in Nat : k = Len(q)
      BY <1>1
    <3>2. i \in 1 .. k /\ ~ (i + 1 \in 1 .. k)
      BY <1>3, <3>1
    <3>3. i = k
      BY <3>2
    <3>4. QED
      BY <3>1, <3>3
  <2>1. m = NULL /\ i = Len(q)
    BY <2>a, <2>b
  <2>2. ASSUME NEW x, Precedes(q, n, x)
        PROVE  FALSE
    <3>1. PICK a \in 1 .. Len(q), b \in 1 .. Len(q) : a < b /\ q[a] = n /\ q[b] = x
      BY <2>2 DEF Precedes
    <3>2. a = i
      BY <1>1, <3>1
    <3>3. QED
      BY <1>1, <2>1, <3>1, <3>2
  <2>3. QED
    BY <2>1, <2>2
<1>4. QED
  BY <1>2, <1>3

(* The first element comes before all the others.                          *)
LEMMA FirstInOrder ==
  ASSUME NEW S, NEW q, NEW m, q \in Seq(S), NULL \notin ToSet(q), m = Cell(q, NULL, 1)
  PROVE  /\ m \in ToSet(q) \cup {NULL}
         /\ \A x \in ToSet(q) : m # NULL /\ (x = m \/ Precedes(q, m, x))
<1>1. Len(q) \in Nat /\ DOMAIN q = 1 .. Len(q)
  BY LenProperties
<1>2. ASSUME NEW x \in ToSet(q)
      PROVE  m # NULL /\ (x = m \/ Precedes(q, m, x))
  <2>1. PICK i \in 1 .. Len(q) : q[i] = x
    BY <1>1, <1>2 DEF ToSet
  <2>2. 1 \in 1 .. Len(q)
    BY <1>1
  <2>3. m = q[1] /\ m # NULL
    BY <1>1, <2>2 DEF Cell, ToSet
  <2>4. i = 1 \/ 1 < i
    BY <1>1
  <2>5. QED
    BY <2>1, <2>2, <2>3, <2>4 DEF Precedes
<1>3. QED
  BY <1>2, CellsAre

-----------------------------------------------------------------------------
(* The iterator *)

AdFacing(forward, q) == IF forward THEN q ELSE Reverse(q)

(* An iterator at work on a list that it meets in the order r: what it has *)
(* returned lies before the node it returns next, and what it still has to *)
(* return is that node or lies after it.                                   *)
AdPoised(it, r) ==
  /\ it.next \in ToSet(r) \cup {NULL} /\ it.current \in it.seen \cup {NULL}
  /\ NULL \notin it.seen /\ ~ it.twice
  /\ it.over => it.due = {}
  /\ it.next = NULL => it.due = {}
  /\ it.next # NULL =>
       /\ \A x \in it.seen : Precedes(r, x, it.next)
       /\ \A x \in it.due : x = it.next \/ Precedes(r, it.next, x)

AdIterator(it) ==
  it = [on |-> it.on, next |-> it.next, forward |-> it.forward, current |-> it.current,
        due |-> it.due, seen |-> it.seen, over |-> it.over, stray |-> it.stray,
        twice |-> it.twice]

AdIterIs(it, L) ==
  /\ AdIterator(it)
  /\ it.on \in DOMAIN L \cup {NULL}
  /\ it.on = NULL => it.next = NULL /\ it.due = {} /\ ~ it.twice
  /\ it.on # NULL => it.stray \/ AdPoised(it, AdFacing(it.forward, L[it.on]))

(* A list in the direction of an iterator.                                 *)
LEMMA AdFacingIs ==
  ASSUME NEW forward, NEW q, q \in Seq(Cells), Distinct(q), NULL \notin ToSet(q)
  PROVE  /\ AdFacing(forward, q) \in Seq(Cells) /\ Distinct(AdFacing(forward, q))
         /\ ToSet(AdFacing(forward, q)) = ToSet(q)
         /\ NULL \notin ToSet(AdFacing(forward, q))
BY ReverseFacts DEF AdFacing

(* The list changes under the iterator, which forgets the nodes gone.      *)
LEMMA AdPoisedKept ==
  ASSUME NEW it, NEW it2, NEW r, NEW r2, NEW gone,
         AdPoised(it, r), r \in Seq(Cells), Distinct(r), KeepsOrder(r, r2, gone),
         it.next = NULL \/ it.next # gone, it2.next = it.next,
         it2.seen \subseteq it.seen, it2.due \subseteq it.due,
         gone \in ToSet(r) => gone \notin it2.seen /\ gone \notin it2.due,
         it2.current \in it2.seen \cup {NULL}, ~ it2.twice, it2.over => it.over
  PROVE  AdPoised(it2, r2)
<1>1. /\ it.next \in ToSet(r) \cup {NULL} /\ NULL \notin it.seen
      /\ it.over => it.due = {}
      /\ it.next = NULL => it.due = {}
      /\ it.next # NULL =>
           /\ \A x \in it.seen : Precedes(r, x, it.next)
           /\ \A x \in it.due : x = it.next \/ Precedes(r, it.next, x)
  BY DEF AdPoised
<1>2. ToSet(r) \ {gone} \subseteq ToSet(r2)
  BY DEF KeepsOrder
<1>3. ASSUME it.next # NULL, NEW x \in it2.seen
      PROVE  Precedes(r2, x, it.next)
  <2>1. Precedes(r, x, it.next)
    BY <1>1, <1>3
  <2>2. x \in ToSet(r)
    BY <2>1, PrecedesOrders
  <2>3. x # gone /\ it.next # gone
    BY <1>3, <2>2
  <2>4. QED
    BY <2>1, <2>3 DEF KeepsOrder
<1>4. ASSUME it.next # NULL, NEW x \in it2.due, x # it.next
      PROVE  Precedes(r2, it.next, x)
  <2>1. Precedes(r, it.next, x)
    BY <1>1, <1>4
  <2>2. x \in ToSet(r)
    BY <2>1, PrecedesOrders
  <2>3. x # gone /\ it.next # gone
    BY <1>4, <2>2
  <2>4. QED
    BY <2>1, <2>3 DEF KeepsOrder
<1>5. it2.next \in ToSet(r2) \cup {NULL}
  BY <1>1, <1>2
<1>6. (it2.over => it2.due = {}) /\ (it2.next = NULL => it2.due = {}) /\ NULL \notin it2.seen
  BY <1>1
<1>7. QED
  BY <1>3, <1>4, <1>5, <1>6 DEF AdPoised

(* The iterator is left alone, and the list it is on keeps its order.      *)
LEMMA AdIterStays ==
  ASSUME NEW L, NEW M, NEW it, NEW gone, AdIterIs(it, L),
         it.on # NULL => /\ it.on \in DOMAIN M /\ L[it.on] \in Seq(Cells)
                         /\ M[it.on] \in Seq(Cells) /\ Distinct(L[it.on])
                         /\ NULL \notin ToSet(L[it.on]) /\ gone \notin ToSet(L[it.on])
                         /\ KeepsOrder(L[it.on], M[it.on], gone)
  PROVE  AdIterIs(it, M)
<1>1. ASSUME it.on # NULL, ~ it.stray
      PROVE  AdPoised(it, AdFacing(it.forward, M[it.on]))
  <2>1. PICK q, q2, r, r2 : /\ q = L[it.on] /\ q2 = M[it.on]
                            /\ r = AdFacing(it.forward, q) /\ r2 = AdFacing(it.forward, q2)
    OBVIOUS
  <2>2. AdPoised(it, r)
    BY <1>1, <2>1 DEF AdIterIs
  <2>3. r \in Seq(Cells) /\ Distinct(r) /\ ToSet(r) = ToSet(q)
    BY <1>1, <2>1, AdFacingIs
  <2>4. KeepsOrder(r, r2, gone)
    BY <1>1, <2>1, KeepsReversed DEF AdFacing
  <2>5. /\ it.next = NULL \/ it.next # gone
        /\ gone \notin ToSet(r) /\ it.current \in it.seen \cup {NULL} /\ ~ it.twice
    BY <1>1, <2>1, <2>2, <2>3 DEF AdPoised
  <2>6. AdPoised(it, r2)
    BY <2>2, <2>3, <2>4, <2>5, AdPoisedKept
  <2>7. QED
    BY <2>1, <2>6
<1>2. QED
  BY <1>1 DEF AdIterIs

(* What does not change keeps its order.                                   *)
LEMMA KeepsSame ==
  ASSUME NEW q, NEW gone
  PROVE  KeepsOrder(q, q, gone)
BY DEF KeepsOrder

(* What the pointers an iterator follows lead to.                          *)
LEMMA AdAhead ==
  ASSUME NEW L, NEW l, NEW forward, NEW r, AdIs(L), l \in DOMAIN L,
         r = AdFacing(forward, L[l])
  PROVE  /\ (IF forward THEN list[l].head ELSE list[l].tail) = Cell(r, NULL, 1)
         /\ \A i \in 1 .. Len(r) :
              (IF forward THEN node[r[i]].next ELSE node[r[i]].prev) = Cell(r, NULL, i + 1)
<1>1. /\ Ring(AdNext(node, list[l]), AdPrev(node, list[l]), NULL, Cells, L[l])
      /\ L[l] \in Seq(Cells) /\ ToSet(L[l]) \subseteq DOMAIN node /\ NULL \notin ToSet(L[l])
      /\ Distinct(L[l])
  BY AdOf, AdChainIs
<1>2. PICK N, P : /\ N = IF forward THEN AdNext(node, list[l]) ELSE AdPrev(node, list[l])
                  /\ P = IF forward THEN AdPrev(node, list[l]) ELSE AdNext(node, list[l])
  OBVIOUS
<1>3. Ring(N, P, NULL, Cells, r)
  <2>1. CASE forward
    BY <1>1, <1>2, <2>1 DEF AdFacing
  <2>2. CASE ~ forward
    <3>1. Ring(AdPrev(node, list[l]), AdNext(node, list[l]), NULL, Cells, Reverse(L[l]))
      BY <1>1, ReverseRing
    <3>2. r = Reverse(L[l])
      BY <2>2 DEF AdFacing
    <3>3. QED
      BY <1>2, <2>2, <3>1, <3>2
  <2>3. QED
    BY <2>1, <2>2
<1>4. ToSet(r) \subseteq DOMAIN node /\ Len(r) \in Nat /\ DOMAIN r = 1 .. Len(r) /\ NULL \notin ToSet(r)
  <2>1. ToSet(r) = ToSet(L[l])
    BY <1>1, AdFacingIs
  <2>2. QED
    BY <1>1, <1>3, <2>1, RingIs
<1>5. N[NULL] = IF forward THEN list[l].head ELSE list[l].tail
  BY <1>2 DEF AdNext, AdPrev
<1>6. \A c \in ToSet(r) : N[c] = IF forward THEN node[c].next ELSE node[c].prev
  BY <1>2, <1>4 DEF AdNext, AdPrev
<1>7. Cell(r, NULL, 0) = NULL /\ 0 \in 0 .. Len(r) /\ 1 = 0 + 1
  BY <1>4 DEF Cell
<1>8. Linked(N, P, r, NULL, 0, 1)
  BY <1>3, <1>7, RingLink
<1>9. ASSUME NEW i \in 1 .. Len(r)
      PROVE  (IF forward THEN node[r[i]].next ELSE node[r[i]].prev) = Cell(r, NULL, i + 1)
  <2>1. PICK j : j = i + 1
    OBVIOUS
  <2>2. i \in 0 .. Len(r) /\ r[i] \in ToSet(r) /\ Cell(r, NULL, i) = r[i]
    BY <1>4 DEF ToSet, Cell
  <2>3. Linked(N, P, r, NULL, i, j)
    BY <1>3, <2>1, <2>2, RingLink
  <2>4. QED
    BY <1>6, <2>1, <2>2, <2>3 DEF Linked
<1>10. QED
  BY <1>5, <1>7, <1>8, <1>9 DEF Linked

(* listRewind stands before all the nodes.                                 *)
LEMMA AdIterStarts ==
  ASSUME NEW L, NEW l, NEW forward, AdIs(L), l \in DOMAIN L, Ad!listRewind(l, forward)
  PROVE  AdIterIs(iter', L)
<1>1. PICK q, r : q = L[l] /\ r = AdFacing(forward, q)
  OBVIOUS
<1>2. /\ q \in Seq(Cells) /\ Distinct(q) /\ NULL \notin ToSet(q) /\ Ad!Nodes(l) = q /\ l # NULL
  BY <1>1, AdOf, NullIsNoCell
<1>3. r \in Seq(Cells) /\ ToSet(r) = ToSet(q) /\ NULL \notin ToSet(r)
  BY <1>1, <1>2, AdFacingIs
<1>4. PICK m : m = IF forward THEN list[l].head ELSE list[l].tail
  OBVIOUS
<1>5. m = Cell(r, NULL, 1)
  BY <1>1, <1>4, AdAhead
<1>6. /\ m \in ToSet(r) \cup {NULL}
      /\ \A x \in ToSet(r) : m # NULL /\ (x = m \/ Precedes(r, m, x))
  BY <1>3, <1>5, FirstInOrder
<1>7. iter' = [on |-> l, next |-> m, forward |-> forward, current |-> NULL,
               due |-> ToSet(q), seen |-> {}, over |-> FALSE, stray |-> FALSE, twice |-> FALSE]
  <2>1. Ad!Range(Ad!Nodes(l)) = ToSet(q)
    BY <1>2, AdSame
  <2>2. QED
    BY <1>4, <2>1 DEF Ad!listRewind, Ad!NoIterator
<1>8. PICK it : it = iter'
  OBVIOUS
<1>9. /\ it.on = l /\ it.next = m /\ it.forward = forward /\ it.current = NULL
      /\ it.due = ToSet(q) /\ it.seen = {} /\ ~ it.over /\ ~ it.stray /\ ~ it.twice
      /\ AdIterator(it)
  BY <1>7, <1>8 DEF AdIterator
<1>10. AdPoised(it, r)
  BY <1>3, <1>6, <1>9 DEF AdPoised
<1>11. AdIterIs(it, L)
  BY <1>1, <1>2, <1>9, <1>10 DEF AdIterIs
<1>12. QED
  BY <1>8, <1>11

(* listNext leaves behind it the nodes that it returned, and no others.    *)
LEMMA AdIterMoves ==
  ASSUME NEW L, AdIs(L), AdIterIs(iter, L), Ad!listNext
  PROVE  AdIterIs(iter', L) /\ iter'.on = iter.on
<1>1. PICK it, it2, n, l : it = iter /\ it2 = iter' /\ n = it.next /\ l = it.on
  OBVIOUS
<1>2. l # NULL /\ l \in DOMAIN L /\ AdIterator(it) /\ n # Dangling
      /\ (it.stray \/ AdPoised(it, AdFacing(it.forward, L[l])))
  BY <1>1 DEF AdIterIs, Ad!listNext
<1>3. PICK m : m = IF n = NULL THEN NULL
                   ELSE IF it.forward THEN node[n].next ELSE node[n].prev
  OBVIOUS
<1>4. it2 = [it EXCEPT !.next = m, !.current = n, !.over = (n = NULL), !.due = it.due \ {n},
                       !.twice = (it.twice \/ n \in it.seen),
                       !.seen = it.seen \cup ({n} \ {NULL})]
  BY <1>1, <1>3 DEF Ad!listNext, Ad!Beyond
<1>5. /\ AdIterator(it2) /\ it2.on = l /\ it2.next = m /\ it2.forward = it.forward
      /\ it2.current = n /\ it2.due = it.due \ {n}
      /\ it2.seen = it.seen \cup ({n} \ {NULL}) /\ it2.over = (n = NULL)
      /\ it2.stray = it.stray /\ it2.twice = (it.twice \/ n \in it.seen)
  BY <1>1, <1>2, <1>4 DEF AdIterator
<1>6. PICK q, r : q = L[l] /\ r = AdFacing(it.forward, q)
  OBVIOUS
<1>7. /\ q \in Seq(Cells) /\ Distinct(q) /\ NULL \notin ToSet(q)
  BY <1>2, <1>6, AdOf
<1>8. r \in Seq(Cells) /\ Distinct(r) /\ NULL \notin ToSet(r)
  BY <1>6, <1>7, AdFacingIs
<1>9. ASSUME AdPoised(it, r)
      PROVE  AdPoised(it2, r)
  <2>1. CASE n = NULL
    <3>1. /\ it2.next = NULL /\ it2.seen = it.seen /\ it2.due = {} /\ it2.current = NULL
          /\ NULL \notin it2.seen /\ ~ it2.twice
      BY <1>1, <1>3, <1>5, <1>9, <2>1 DEF AdPoised
    <3>2. QED
      BY <3>1 DEF AdPoised
  <2>2. CASE n # NULL
    <3>1. PICK i \in 1 .. Len(r) : n = r[i]
      <4>1. n \in ToSet(r) /\ DOMAIN r = 1 .. Len(r)
        BY <1>1, <1>8, <1>9, <2>2, LenProperties DEF AdPoised
      <4>2. QED
        BY <4>1 DEF ToSet
    <3>2. PICK j : j = i + 1
      OBVIOUS
    <3>3. m = Cell(r, NULL, j)
      <4>1. (IF it.forward THEN node[r[i]].next ELSE node[r[i]].prev) = Cell(r, NULL, i + 1)
        BY <1>2, <1>6, AdAhead
      <4>2. QED
        BY <1>3, <2>2, <3>1, <3>2, <4>1
    <3>4. /\ m # NULL => m \in ToSet(r) /\ Precedes(r, n, m)
          /\ \A x : Precedes(r, n, x) => m # NULL /\ (x = m \/ Precedes(r, m, x))
      BY <1>8, <3>1, <3>2, <3>3, NextInOrder
    <3>5. /\ \A x \in it.seen : Precedes(r, x, n)
          /\ \A x \in it.due : x = n \/ Precedes(r, n, x)
          /\ NULL \notin it.seen /\ ~ it.twice
      BY <1>1, <1>9, <2>2 DEF AdPoised
    <3>6. n \notin it.seen
      BY <1>8, <3>5, PrecedesOrders
    <3>7. it2.seen = it.seen \cup {n} /\ it2.due = it.due \ {n} /\ ~ it2.over /\ ~ it2.twice
          /\ it2.next = m /\ it2.current = n
      BY <1>5, <2>2, <3>5, <3>6
    <3>8. ASSUME m # NULL, NEW x \in it2.seen
          PROVE  Precedes(r, x, m)
      <4>1. Precedes(r, n, m)
        BY <3>4, <3>8
      <4>2. x = n \/ Precedes(r, x, n)
        BY <3>5, <3>7, <3>8
      <4>3. QED
        BY <1>8, <4>1, <4>2, PrecedesOrders
    <3>9. \A x \in it2.due : m # NULL /\ (x = m \/ Precedes(r, m, x))
      BY <3>4, <3>5, <3>7
    <3>10. QED
      BY <2>2, <3>4, <3>5, <3>7, <3>8, <3>9 DEF AdPoised
  <2>3. QED
    BY <2>1, <2>2
<1>10. AdIterIs(it2, L)
  BY <1>2, <1>5, <1>6, <1>9 DEF AdIterIs
<1>11. QED
  BY <1>1, <1>5, <1>10

(* What DelNode does to the iterator when n is freed.                      *)
AdForgets(it, it2, n) ==
  it2 = [it EXCEPT !.due = it.due \ {n}, !.seen = it.seen \ {n},
                   !.stray = (it.stray \/ (n = it.next /\ n # it.current)),
                   !.next = IF it.next = n THEN Dangling ELSE it.next,
                   !.current = IF it.current = n THEN NULL ELSE it.current]

(* The deletion of a node, the current one too, leaves the others before   *)
(* or behind the iterator as they were.                                    *)
LEMMA AdIterLoses ==
  ASSUME NEW L, NEW l, NEW k, NEW n, NEW M, AdIs(L), AdIterIs(iter, L), l \in DOMAIN L,
         k \in 1 .. Len(L[l]), n = L[l][k], M = AdPut(L, l, RemoveAt(L[l], k)),
         AdForgets(iter, iter', n)
  PROVE  AdIterIs(iter', M) /\ iter'.on = iter.on
<1>1. PICK it, it2, o : it = iter /\ it2 = iter' /\ o = it.on
  OBVIOUS
<1>2. /\ AdIterator(it) /\ o \in DOMAIN L \cup {NULL}
      /\ o = NULL => it.next = NULL /\ it.due = {} /\ ~ it.twice
      /\ o # NULL => it.stray \/ AdPoised(it, AdFacing(it.forward, L[o]))
  BY <1>1 DEF AdIterIs
<1>3. /\ AdIterator(it2) /\ it2.on = o /\ it2.forward = it.forward
      /\ it2.due = it.due \ {n} /\ it2.seen = it.seen \ {n}
      /\ it2.stray = (it.stray \/ (n = it.next /\ n # it.current))
      /\ it2.next = (IF it.next = n THEN Dangling ELSE it.next)
      /\ it2.current = (IF it.current = n THEN NULL ELSE it.current)
      /\ it2.over = it.over /\ it2.twice = it.twice
  BY <1>1, <1>2 DEF AdForgets, AdIterator
<1>4. /\ L[l] \in Seq(Cells) /\ Distinct(L[l]) /\ NULL \notin ToSet(L[l]) /\ DOMAIN L[l] = 1 .. Len(L[l])
      /\ n \in ToSet(L[l]) /\ n # NULL
  <2>1. /\ L[l] \in Seq(Cells) /\ Distinct(L[l]) /\ NULL \notin ToSet(L[l])
        /\ DOMAIN L[l] = 1 .. Len(L[l])
    BY AdOf
  <2>2. n \in ToSet(L[l])
    BY <2>1 DEF ToSet
  <2>3. QED
    BY <2>1, <2>2
<1>5. DOMAIN M = DOMAIN L /\ M[l] = RemoveAt(L[l], k) /\ \A m \in DOMAIN L : m # l => M[m] = L[m]
  BY DEF AdPut
<1>6. ASSUME o # NULL, ~ it2.stray
      PROVE  AdPoised(it2, AdFacing(it2.forward, M[o]))
  <2>1. o \in DOMAIN L /\ ~ it.stray /\ (n = it.next => n = it.current)
    BY <1>2, <1>3, <1>6
  <2>2. PICK q, q2, r, r2 : /\ q = L[o] /\ q2 = M[o]
                            /\ r = AdFacing(it.forward, q) /\ r2 = AdFacing(it.forward, q2)
    OBVIOUS
  <2>3. q \in Seq(Cells) /\ Distinct(q) /\ NULL \notin ToSet(q)
    BY <2>1, <2>2, AdOf
  <2>4. q2 \in Seq(Cells) /\ KeepsOrder(q, q2, n)
    <3>1. CASE o = l
      <4>1. q2 = RemoveAt(q, k) /\ k \in 1 .. Len(q) /\ k \in DOMAIN q /\ n = q[k]
        BY <1>4, <1>5, <2>2, <3>1
      <4>2. q2 \in Seq(Cells)
        BY <2>3, <4>1, RemoveAtFacts
      <4>3. QED
        BY <2>3, <4>1, <4>2, RemoveKeeps
    <3>2. CASE o # l
      BY <1>5, <2>1, <2>2, <2>3, <3>2, KeepsSame
    <3>3. QED
      BY <3>1, <3>2
  <2>5. AdPoised(it, r)
    BY <1>2, <1>6, <2>1, <2>2
  <2>6. r \in Seq(Cells) /\ Distinct(r) /\ NULL \notin ToSet(r)
    BY <2>2, <2>3, AdFacingIs
  <2>7. KeepsOrder(r, r2, n)
    BY <2>2, <2>3, <2>4, KeepsReversed DEF AdFacing
  <2>8. it.next # n
    <3>1. SUFFICES ASSUME it.next = n
                   PROVE  FALSE
      OBVIOUS
    <3>2. it.current = n /\ it.next # NULL
      BY <1>4, <2>1, <3>1
    <3>3. Precedes(r, n, n)
      BY <1>4, <2>5, <3>1, <3>2 DEF AdPoised
    <3>4. QED
      BY <2>6, <3>3, PrecedesOrders
  <2>9. /\ it2.next = it.next /\ it2.seen \subseteq it.seen /\ it2.due \subseteq it.due
        /\ n \notin it2.seen /\ n \notin it2.due /\ it2.current \in it2.seen \cup {NULL}
        /\ ~ it2.twice /\ (it2.over => it.over)
    BY <1>3, <2>5, <2>8 DEF AdPoised
  <2>10. AdPoised(it2, r2)
    BY <2>5, <2>6, <2>7, <2>8, <2>9, AdPoisedKept
  <2>11. QED
    BY <1>3, <2>2, <2>10
<1>7. o = NULL => it2.next = NULL /\ it2.due = {} /\ ~ it2.twice
  BY <1>2, <1>3, <1>4
<1>8. AdIterIs(it2, M)
  BY <1>2, <1>3, <1>5, <1>6, <1>7 DEF AdIterIs
<1>9. QED
  BY <1>1, <1>3, <1>8

-----------------------------------------------------------------------------
(* The duplication *)

(* The first nodes of F have copies T, and x is the node to copy next.     *)
AdCopies(nd, F, T, x) ==
  \E m : /\ m = Len(T) /\ m \in 0 .. Len(F) /\ x = Cell(F, NULL, m + 1)
         /\ \A i \in 1 .. m : nd[T[i]].value = nd[F[i]].value

AdDupIs(dp, it, nd, L) ==
  dp.busy => /\ dp.from \in DOMAIN L /\ dp.to \in DOMAIN L /\ dp.from # dp.to
             /\ it.on # dp.to
             /\ AdCopies(nd, L[dp.from], L[dp.to], dp.next)
             /\ dp = [busy |-> dp.busy, from |-> dp.from, to |-> dp.to, next |-> dp.next,
                     iterator |-> dp.iterator]

(* All that is known of the lists.                                         *)
AdAll(L) == AdLists(list, node, L) /\ AdIterIs(iter, L) /\ AdDupIs(dup, iter, node, L)
AdInv == \E L : AdAll(L)

(* A step to the lists M changes the list at k and no other.               *)
AdStep(L, M, k) ==
  /\ AdBecomes(M) /\ AdIterIs(iter', M) /\ AdDupIs(dup', iter', node', M)
  /\ \A m \in Lists : m # k => list'[m] = list[m]
  /\ \A m \in DOMAIN L : m # k => m \in DOMAIN M /\ M[m] = L[m]

(* What the invariant says of the variables.                               *)
LEMMA AdLooksAt ==
  ASSUME NEW L, AdAll(L)
  PROVE  /\ AdIs(L) /\ AdIterIs(iter, L) /\ AdDupIs(dup, iter, node, L)
         /\ list \in [Lists -> AdRecord \cup {NULL}] /\ Ad!Live = DOMAIN L
         /\ Ad!Free = Cells \ DOMAIN node /\ DOMAIN L \subseteq Lists
         /\ \A l \in DOMAIN L : Ad!Range(Ad!Nodes(l)) = ToSet(L[l])
<1>1. AdLists(list, node, L) /\ AdIs(L) /\ AdIterIs(iter, L) /\ AdDupIs(dup, iter, node, L)
  BY AdListed DEF AdAll
<1>2. \A l \in DOMAIN L : Ad!Range(Ad!Nodes(l)) = ToSet(L[l])
  BY <1>1, AdSame DEF AdIs
<1>3. QED
  BY <1>1, <1>2, AdLive DEF AdLists

(* A new node in a list leaves the others in their order.                  *)
LEMMA AdPutStays ==
  ASSUME NEW L, NEW l, NEW p, NEW e, NEW M, NEW it, AdIs(L), AdIterIs(it, L),
         l \in DOMAIN L, p \in 1 .. Len(L[l]) + 1, e \in Cells \ DOMAIN node,
         M = AdPut(L, l, InsertAt(L[l], p, e))
  PROVE  AdIterIs(it, M)
<1>1. DOMAIN M = DOMAIN L /\ M[l] = InsertAt(L[l], p, e) /\ \A m \in DOMAIN L : m # l => M[m] = L[m]
  BY DEF AdPut
<1>2. ASSUME it.on # NULL
      PROVE  /\ it.on \in DOMAIN M /\ L[it.on] \in Seq(Cells)
             /\ M[it.on] \in Seq(Cells) /\ Distinct(L[it.on])
             /\ NULL \notin ToSet(L[it.on]) /\ KeepsOrder(L[it.on], M[it.on], NULL)
  <2>1. it.on \in DOMAIN L
    BY <1>2 DEF AdIterIs
  <2>2. PICK o, q : o = it.on /\ q = L[o]
    OBVIOUS
  <2>3. q \in Seq(Cells) /\ Distinct(q) /\ NULL \notin ToSet(q) /\ ToSet(q) \subseteq DOMAIN node
    BY <2>1, <2>2, AdOf
  <2>4. M[o] \in Seq(Cells) /\ KeepsOrder(q, M[o], NULL)
    <3>1. CASE o = l
      <4>1. M[o] = InsertAt(q, p, e) /\ p \in 1 .. Len(q) + 1 /\ e \in Cells /\ e \notin ToSet(q)
        BY <1>1, <2>2, <2>3, <3>1
      <4>2. M[o] \in Seq(Cells)
        BY <2>3, <4>1, InsertAtFacts DEF Inserted
      <4>3. QED
        BY <2>3, <4>1, <4>2, InsertKeeps
    <3>2. CASE o # l
      BY <1>1, <2>1, <2>2, <2>3, <3>2, KeepsSame
    <3>3. QED
      BY <3>1, <3>2
  <2>5. QED
    BY <1>1, <2>1, <2>2, <2>3, <2>4
<1>3. QED
  BY <1>2, AdIterStays

(* The iterator is on a list that does not change.                         *)
LEMMA AdApartStays ==
  ASSUME NEW L, NEW M, NEW it, AdIs(L), AdIterIs(it, L),
         it.on # NULL => it.on \in DOMAIN M /\ M[it.on] = L[it.on]
  PROVE  AdIterIs(it, M)
<1>1. ASSUME it.on # NULL
      PROVE  /\ it.on \in DOMAIN M /\ L[it.on] \in Seq(Cells)
             /\ M[it.on] \in Seq(Cells) /\ Distinct(L[it.on])
             /\ NULL \notin ToSet(L[it.on]) /\ KeepsOrder(L[it.on], M[it.on], NULL)
  <2>1. it.on \in DOMAIN L
    BY <1>1 DEF AdIterIs
  <2>2. QED
    BY <1>1, <2>1, AdOf, KeepsSame
<1>2. QED
  BY <1>1, AdIterStays

(* No duplication goes on.                                                 *)
LEMMA AdNoDup ==
  ASSUME NEW it, NEW nd, NEW M, NEW dp, ~ dp.busy
  PROVE  AdDupIs(dp, it, nd, M)
BY DEF AdDupIs

(* listCreate keeps the invariant.                                         *)
LEMMA AdStepCreate ==
  ASSUME NEW L, NEW l, AdAll(L), l \in Lists, Ad!listCreate(l)
  PROVE  AdStep(L, AdPut(L, l, << >>), l)
<1>1. AdIs(L) /\ AdIterIs(iter, L) /\ Ad!Live = DOMAIN L /\ list \in [Lists -> AdRecord \cup {NULL}]
  BY AdLooksAt
<1>2. l \in Lists \ DOMAIN L /\ ~ dup'.busy /\ iter' = iter
      /\ list' = [list EXCEPT ![l] = Ad!NoList] /\ node' = node
  BY <1>1 DEF Ad!listCreate, Ad!May, Ad!Live
<1>3. PICK M : M = AdPut(L, l, << >>)
  OBVIOUS
<1>4. AdBecomes(M)
  BY <1>1, <1>2, <1>3, AdCreates
<1>5. \A m \in DOMAIN L : m # l => m \in DOMAIN M /\ M[m] = L[m]
  BY <1>3 DEF AdPut
<1>6. AdIterIs(iter, M)
  <2>1. iter.on # NULL => iter.on \in DOMAIN M /\ M[iter.on] = L[iter.on]
    BY <1>1, <1>2, <1>5 DEF AdIterIs
  <2>2. QED
    BY <1>1, <2>1, AdApartStays
<1>7. \A m \in Lists : m # l => list'[m] = list[m]
  BY <1>1, <1>2
<1>8. AdDupIs(dup', iter', node', M)
  BY <1>2, AdNoDup
<1>9. AdIterIs(iter', M)
  BY <1>2, <1>6
<1>10. QED
  BY <1>3, <1>4, <1>5, <1>7, <1>8, <1>9 DEF AdStep

(* Without an iterator there is nothing to say.                            *)
LEMMA AdIdleIterator ==
  ASSUME NEW L, NEW it, it = Ad!NoIterator
  PROVE  AdIterIs(it, L)
<1>1. it.on = NULL /\ it.next = NULL /\ it.due = {} /\ ~ it.twice /\ AdIterator(it)
  BY DEF Ad!NoIterator, AdIterator
<1>2. QED
  BY <1>1 DEF AdIterIs

(* listRelease keeps the invariant.                                        *)
LEMMA AdStepRelease ==
  ASSUME NEW L, NEW l, AdAll(L), l \in Lists, Ad!listRelease(l)
  PROVE  AdStep(L, AdDrop(L, l), l)
<1>1. AdIs(L) /\ AdIterIs(iter, L) /\ Ad!Live = DOMAIN L /\ list \in [Lists -> AdRecord \cup {NULL}]
  BY AdLooksAt
<1>2. l \in DOMAIN L /\ ~ dup'.busy /\ Ad!Released(l)
      /\ iter' = IF iter.on = l THEN Ad!NoIterator ELSE iter
  BY <1>1 DEF Ad!listRelease, Ad!May
<1>3. PICK M : M = AdDrop(L, l)
  OBVIOUS
<1>4. AdBecomes(M)
  BY <1>1, <1>2, <1>3, AdReleases
<1>5. \A m \in DOMAIN L : m # l => m \in DOMAIN M /\ M[m] = L[m]
  BY <1>3 DEF AdDrop
<1>6. AdIterIs(iter', M)
  <2>1. CASE iter.on = l
    BY <1>2, <2>1, AdIdleIterator
  <2>2. CASE iter.on # l
    <3>1. iter.on # NULL => iter.on \in DOMAIN M /\ M[iter.on] = L[iter.on]
      BY <1>1, <1>5, <2>2 DEF AdIterIs
    <3>2. AdIterIs(iter, M)
      BY <1>1, <3>1, AdApartStays
    <3>3. QED
      BY <1>2, <2>2, <3>2
  <2>3. QED
    BY <2>1, <2>2
<1>7. \A m \in Lists : m # l => list'[m] = list[m]
  BY <1>1, <1>2 DEF Ad!Released
<1>8. AdDupIs(dup', iter', node', M)
  BY <1>2, AdNoDup
<1>9. QED
  BY <1>3, <1>4, <1>5, <1>6, <1>7, <1>8 DEF AdStep

(* Each way to add a node is an insertion somewhere.                       *)
LEMMA AdAddsSomewhere ==
  ASSUME NEW L, NEW l, NEW e, NEW v, AdIs(L), l \in DOMAIN L, e \in Cells \ DOMAIN node,
         v \in Values,
         \/ Ad!listAddNodeHead(l, e, v) \/ Ad!listAddNodeTail(l, e, v)
         \/ \E old \in ToSet(L[l]), after \in BOOLEAN : Ad!listInsertNode(l, old, e, v, after)
  PROVE  \E p \in 1 .. Len(L[l]) + 1 : AdBecomes(AdPut(L, l, InsertAt(L[l], p, e)))
<1>1. L[l] \in Seq(Cells) /\ Len(L[l]) \in Nat /\ DOMAIN L[l] = 1 .. Len(L[l])
  BY AdOf
<1>2. CASE Ad!listAddNodeHead(l, e, v)
  <2>1. AdBecomes(AdPut(L, l, <<e>> \o L[l]))
    BY <1>2, AdAddsHead
  <2>2. InsertAt(L[l], 1, e) = <<e>> \o L[l] /\ 1 \in 1 .. Len(L[l]) + 1
    BY <1>1, PushIsInsert
  <2>3. QED
    BY <2>1, <2>2
<1>3. CASE Ad!listAddNodeTail(l, e, v)
  <2>1. AdBecomes(AdPut(L, l, Append(L[l], e)))
    BY <1>3, AdAddsTail
  <2>2. PICK p : p = Len(L[l]) + 1
    OBVIOUS
  <2>3. InsertAt(L[l], p, e) = Append(L[l], e) /\ p \in 1 .. Len(L[l]) + 1
    BY <1>1, <2>2, AppendIsInsert
  <2>4. QED
    BY <2>1, <2>3
<1>4. CASE \E old \in ToSet(L[l]), after \in BOOLEAN : Ad!listInsertNode(l, old, e, v, after)
  <2>1. PICK old \in ToSet(L[l]), after \in BOOLEAN : Ad!listInsertNode(l, old, e, v, after)
    BY <1>4
  <2>2. PICK k \in 1 .. Len(L[l]) : old = L[l][k]
    BY <1>1 DEF ToSet
  <2>3. PICK p : p = k + 1
    OBVIOUS
  <2>4. p \in 1 .. Len(L[l]) + 1 /\ k \in 1 .. Len(L[l]) + 1
    BY <1>1, <2>3
  <2>5. CASE after = TRUE
    <3>1. Ad!listInsertNode(l, old, e, v, TRUE)
      BY <2>1, <2>5
    <3>2. AdBecomes(AdPut(L, l, InsertAt(L[l], p, e)))
      BY <2>2, <2>3, <3>1, AdAddsAfter
    <3>3. QED
      BY <2>4, <3>2
  <2>6. CASE after = FALSE
    <3>1. Ad!listInsertNode(l, old, e, v, FALSE)
      BY <2>1, <2>6
    <3>2. AdBecomes(AdPut(L, l, InsertAt(L[l], k, e)))
      BY <2>2, <3>1, AdAddsBefore
    <3>3. QED
      BY <2>4, <3>2
  <2>7. QED
    BY <2>5, <2>6
<1>5. QED
  BY <1>2, <1>3, <1>4

(* The three ways to add a node keep the invariant.                        *)
LEMMA AdStepAdd ==
  ASSUME NEW L, AdAll(L), Ad!AddNode
  PROVE  \E l \in DOMAIN L : \E M : AdStep(L, M, l)
<1>1. /\ AdIs(L) /\ AdIterIs(iter, L) /\ Ad!Live = DOMAIN L /\ Ad!Free = Cells \ DOMAIN node
      /\ list \in [Lists -> AdRecord \cup {NULL}]
      /\ \A l \in DOMAIN L : Ad!Range(Ad!Nodes(l)) = ToSet(L[l])
  BY AdLooksAt
<1>2. ~ dup'.busy /\ iter' = iter
  BY DEF Ad!AddNode, Ad!May
<1>3. PICK l \in DOMAIN L, e \in Cells \ DOMAIN node, v \in Values :
        \/ Ad!listAddNodeHead(l, e, v)
        \/ Ad!listAddNodeTail(l, e, v)
        \/ \E old \in ToSet(L[l]), after \in BOOLEAN : Ad!listInsertNode(l, old, e, v, after)
  BY <1>1 DEF Ad!AddNode
<1>4. PICK p \in 1 .. Len(L[l]) + 1 : AdBecomes(AdPut(L, l, InsertAt(L[l], p, e)))
  BY <1>1, <1>3, AdAddsSomewhere
<1>5. PICK M : M = AdPut(L, l, InsertAt(L[l], p, e))
  OBVIOUS
<1>6. \A m \in DOMAIN L : m # l => m \in DOMAIN M /\ M[m] = L[m]
  BY <1>5 DEF AdPut
<1>7. AdIterIs(iter, M)
  BY <1>1, <1>5, AdPutStays
<1>8. \A m \in Lists : m # l => list'[m] = list[m]
  BY <1>1, <1>3
     DEF Ad!listAddNodeHead, Ad!listAddNodeTail, Ad!listInsertNode, Ad!Insert
<1>9. AdDupIs(dup', iter', node', M)
  BY <1>2, AdNoDup
<1>10. AdBecomes(M) /\ AdIterIs(iter', M)
  BY <1>2, <1>4, <1>5, <1>7
<1>11. AdStep(L, M, l)
  BY <1>6, <1>8, <1>9, <1>10 DEF AdStep
<1>12. QED
  BY <1>11

(* listDelNode keeps the invariant.                                        *)
LEMMA AdStepDelete ==
  ASSUME NEW L, AdAll(L), Ad!DelNode
  PROVE  \E l \in DOMAIN L : \E M : AdStep(L, M, l)
<1>1. /\ AdIs(L) /\ AdIterIs(iter, L) /\ Ad!Live = DOMAIN L
      /\ list \in [Lists -> AdRecord \cup {NULL}]
      /\ \A l \in DOMAIN L : Ad!Range(Ad!Nodes(l)) = ToSet(L[l])
  BY AdLooksAt
<1>2. PICK l, n : /\ l \in DOMAIN L /\ n \in ToSet(L[l])
                  /\ Ad!listDelNode(l, n) /\ AdForgets(iter, iter', n)
  <2>1. PICK l \in DOMAIN L : \E n \in Ad!Range(Ad!Nodes(l)) :
          /\ Ad!listDelNode(l, n)
          /\ iter' = [iter EXCEPT !.due = @ \ {n}, !.seen = @ \ {n},
                                  !.stray = @ \/ (n = iter.next /\ n # iter.current),
                                  !.next = IF @ = n THEN Dangling ELSE @,
                                  !.current = IF @ = n THEN NULL ELSE @]
    BY <1>1 DEF Ad!DelNode
  <2>2. PICK n : /\ n \in ToSet(L[l]) /\ Ad!listDelNode(l, n)
                 /\ iter' = [iter EXCEPT !.due = @ \ {n}, !.seen = @ \ {n},
                               !.stray = @ \/ (n = iter.next /\ n # iter.current),
                               !.next = IF @ = n THEN Dangling ELSE @,
                               !.current = IF @ = n THEN NULL ELSE @]
    BY <1>1, <2>1
  <2>3. QED
    BY <2>1, <2>2 DEF AdForgets
<1>3. ~ dup'.busy
  BY DEF Ad!DelNode, Ad!May
<1>4. DOMAIN L[l] = 1 .. Len(L[l])
  BY <1>1, AdOf
<1>5. PICK k \in 1 .. Len(L[l]) : n = L[l][k]
  BY <1>2, <1>4 DEF ToSet
<1>6. PICK M : M = AdPut(L, l, RemoveAt(L[l], k))
  OBVIOUS
<1>7. AdBecomes(M)
  BY <1>1, <1>2, <1>5, <1>6, AdDeletes
<1>8. AdIterIs(iter', M)
  BY <1>1, <1>2, <1>5, <1>6, AdIterLoses
<1>9. \A m \in DOMAIN L : m # l => m \in DOMAIN M /\ M[m] = L[m]
  BY <1>6 DEF AdPut
<1>10. \A m \in Lists : m # l => list'[m] = list[m]
  BY <1>1, <1>2 DEF Ad!listDelNode
<1>11. AdDupIs(dup', iter', node', M)
  BY <1>3, AdNoDup
<1>12. AdStep(L, M, l)
  BY <1>7, <1>8, <1>9, <1>10, <1>11 DEF AdStep
<1>13. QED
  BY <1>2, <1>12

(* listRotate keeps the invariant, since the iterator has strayed.         *)
LEMMA AdStepRotate ==
  ASSUME NEW L, AdAll(L), Ad!Rotate
  PROVE  \E l \in DOMAIN L : \E M : AdStep(L, M, l)
<1>1. /\ AdIs(L) /\ AdIterIs(iter, L) /\ Ad!Live = DOMAIN L
      /\ list \in [Lists -> AdRecord \cup {NULL}]
  BY AdLooksAt
<1>2. PICK l \in DOMAIN L :
        /\ Ad!listRotate(l) /\ iter' = [iter EXCEPT !.stray = @ \/ iter.on = l]
  BY <1>1 DEF Ad!Rotate
<1>3. ~ dup'.busy
  BY DEF Ad!Rotate, Ad!May
<1>4. PICK M : M = AdPut(L, l, <<Last(L[l])>> \o Front(L[l]))
  OBVIOUS
<1>5. AdBecomes(M)
  BY <1>1, <1>2, <1>4, AdRotates
<1>6. DOMAIN M = DOMAIN L /\ \A m \in DOMAIN L : m # l => m \in DOMAIN M /\ M[m] = L[m]
  BY <1>4 DEF AdPut
<1>7. AdIterIs(iter', M)
  <2>1. PICK it, it2 : it = iter /\ it2 = iter'
    OBVIOUS
  <2>2. AdIterator(it) /\ AdIterIs(it, L)
    BY <1>1, <2>1 DEF AdIterIs
  <2>3. it2 = [it EXCEPT !.stray = it.stray \/ it.on = l]
    BY <1>2, <2>1
  <2>4. /\ it2.on = it.on /\ it2.next = it.next /\ it2.forward = it.forward
        /\ it2.current = it.current /\ it2.due = it.due /\ it2.seen = it.seen
        /\ it2.over = it.over /\ it2.stray = (it.stray \/ it.on = l) /\ it2.twice = it.twice
        /\ AdIterator(it2)
    BY <2>2, <2>3 DEF AdIterator
  <2>5. ASSUME it.on # NULL, ~ it2.stray
        PROVE  AdPoised(it2, AdFacing(it2.forward, M[it.on]))
    <3>1. it.on # l /\ ~ it.stray /\ it.on \in DOMAIN L
      BY <2>2, <2>4, <2>5 DEF AdIterIs
    <3>2. PICK r : r = AdFacing(it.forward, L[it.on])
      OBVIOUS
    <3>3. AdPoised(it, r)
      BY <2>2, <2>5, <3>1, <3>2 DEF AdIterIs
    <3>4. AdPoised(it2, r)
      BY <2>4, <3>3 DEF AdPoised
    <3>5. QED
      BY <1>6, <2>4, <3>1, <3>2, <3>4
  <2>6. /\ it.on \in DOMAIN M \cup {NULL}
        /\ it.on = NULL => it.next = NULL /\ it.due = {} /\ ~ it.twice
    BY <1>6, <2>2 DEF AdIterIs
  <2>7. AdIterIs(it2, M)
    BY <2>4, <2>5, <2>6 DEF AdIterIs
  <2>8. QED
    BY <2>1, <2>7
<1>8. \A m \in Lists : m # l => list'[m] = list[m]
  BY <1>1, <1>2 DEF Ad!listRotate
<1>9. AdDupIs(dup', iter', node', M)
  BY <1>3, AdNoDup
<1>10. AdStep(L, M, l)
  BY <1>5, <1>6, <1>7, <1>8, <1>9 DEF AdStep
<1>11. QED
  BY <1>10

(* A step that leaves the lists alone.                                     *)
LEMMA AdStepsNowhere ==
  ASSUME NEW L, NEW k, AdAll(L), UNCHANGED <<list, node>>, AdIterIs(iter', L),
         AdDupIs(dup', iter', node', L)
  PROVE  AdStep(L, L, k)
<1>1. AdLists(list', node', L)
  BY DEF AdAll
<1>2. AdBecomes(L)
  BY <1>1, AdListed
<1>3. QED
  BY <1>2 DEF AdStep

(* The steps of an iterator keep the invariant.                            *)
LEMMA AdStepIterator ==
  ASSUME NEW L, NEW k, AdAll(L),
         \/ \E l \in Lists, forward \in BOOLEAN : Ad!listRewind(l, forward)
         \/ Ad!listNext \/ Ad!listReleaseIterator
  PROVE  AdStep(L, L, k)
<1>1. AdIs(L) /\ AdIterIs(iter, L) /\ Ad!Live = DOMAIN L
  BY AdLooksAt
<1>2. UNCHANGED <<list, node>> /\ ~ dup'.busy
  BY DEF Ad!listRewind, Ad!listNext, Ad!listReleaseIterator, Ad!May
<1>3. AdIterIs(iter', L)
  <2>1. ASSUME NEW l \in Lists, NEW forward \in BOOLEAN, Ad!listRewind(l, forward)
        PROVE  AdIterIs(iter', L)
    <3>1. l \in DOMAIN L
      BY <1>1, <2>1 DEF Ad!listRewind
    <3>2. QED
      BY <1>1, <2>1, <3>1, AdIterStarts
  <2>2. ASSUME Ad!listNext
        PROVE  AdIterIs(iter', L)
    BY <1>1, <2>2, AdIterMoves
  <2>3. ASSUME Ad!listReleaseIterator
        PROVE  AdIterIs(iter', L)
    <3>1. iter' = Ad!NoIterator
      BY <2>3 DEF Ad!listReleaseIterator
    <3>2. QED
      BY <3>1, AdIdleIterator
  <2>4. QED
    BY <2>1, <2>2, <2>3
<1>4. AdDupIs(dup', iter', node', L)
  BY <1>2, AdNoDup
<1>5. QED
  BY <1>2, <1>3, <1>4, AdStepsNowhere

(* The copies so far, on the lists L.                                      *)
LEMMA AdDupOf ==
  ASSUME NEW L, NEW F, NEW T, AdAll(L), dup.busy, F = L[dup.from], T = L[dup.to]
  PROVE  /\ dup.from \in DOMAIN L /\ dup.to \in DOMAIN L /\ dup.from # dup.to
         /\ iter.on # dup.to /\ AdCopies(node, F, T, dup.next)
         /\ dup = [busy |-> dup.busy, from |-> dup.from, to |-> dup.to, next |-> dup.next,
                   iterator |-> dup.iterator]
         /\ F \in Seq(Cells) /\ Distinct(F) /\ NULL \notin ToSet(F) /\ Len(F) \in Nat
         /\ DOMAIN F = 1 .. Len(F) /\ ToSet(F) \subseteq DOMAIN node
         /\ T \in Seq(Cells) /\ Distinct(T) /\ NULL \notin ToSet(T) /\ Len(T) \in Nat
         /\ DOMAIN T = 1 .. Len(T) /\ ToSet(T) \subseteq DOMAIN node
<1>1. AdIs(L) /\ AdDupIs(dup, iter, node, L)
  BY AdLooksAt
<1>2. /\ dup.from \in DOMAIN L /\ dup.to \in DOMAIN L /\ dup.from # dup.to
      /\ iter.on # dup.to /\ AdCopies(node, F, T, dup.next)
      /\ dup = [busy |-> dup.busy, from |-> dup.from, to |-> dup.to, next |-> dup.next,
                   iterator |-> dup.iterator]
  BY <1>1 DEF AdDupIs
<1>3. /\ F \in Seq(Cells) /\ Distinct(F) /\ NULL \notin ToSet(F) /\ Len(F) \in Nat
      /\ DOMAIN F = 1 .. Len(F) /\ ToSet(F) \subseteq DOMAIN node
  BY <1>1, <1>2, AdOf
<1>4. /\ T \in Seq(Cells) /\ Distinct(T) /\ NULL \notin ToSet(T) /\ Len(T) \in Nat
      /\ DOMAIN T = 1 .. Len(T) /\ ToSet(T) \subseteq DOMAIN node
  BY <1>1, <1>2, AdOf
<1>5. QED
  BY <1>2, <1>3, <1>4

(* listDup has copied nothing when it starts.                              *)
LEMMA AdStepDupStart ==
  ASSUME NEW L, AdAll(L), Ad!DupStart
  PROVE  \E l \in Lists : \E M : AdStep(L, M, l)
<1>1. /\ AdIs(L) /\ AdIterIs(iter, L) /\ Ad!Live = DOMAIN L
      /\ list \in [Lists -> AdRecord \cup {NULL}]
  BY AdLooksAt
<1>2. PICK from \in DOMAIN L, to \in Lists \ DOMAIN L, iterator \in BOOLEAN :
        /\ list' = [list EXCEPT ![to] = Ad!NoList]
        /\ dup' = [busy |-> TRUE, from |-> from, to |-> to, next |-> list[from].head,
                   iterator |-> iterator]
  BY <1>1 DEF Ad!DupStart
<1>3. node' = node /\ iter' = iter
  BY DEF Ad!DupStart
<1>4. PICK M : M = AdPut(L, to, << >>)
  OBVIOUS
<1>5. AdBecomes(M)
  BY <1>1, <1>2, <1>3, <1>4, AdCreates
<1>6. from # to /\ M[to] = << >> /\ to \in DOMAIN M
      /\ \A m \in DOMAIN L : m # to => m \in DOMAIN M /\ M[m] = L[m]
  BY <1>4 DEF AdPut
<1>7. iter.on # to /\ (iter.on # NULL => iter.on \in DOMAIN M /\ M[iter.on] = L[iter.on])
  BY <1>1, <1>6, NullIsNoCell DEF AdIterIs
<1>8. AdIterIs(iter, M)
  BY <1>1, <1>7, AdApartStays
<1>9. AdCopies(node, M[from], M[to], list[from].head)
  <2>1. PICK F : F = L[from]
    OBVIOUS
  <2>2. Len(F) \in Nat /\ list[from].head = Cell(F, NULL, 1)
    <3>1. Len(F) \in Nat
      BY <1>1, <2>1, AdOf
    <3>2. PICK n : n = Len(F) + 1
      OBVIOUS
    <3>3. list[from].head = Cell(F, NULL, 1)
      BY <1>1, <2>1, <3>2, AdEnds
    <3>4. QED
      BY <3>1, <3>3
  <2>3. /\ 0 = Len(<< >>) /\ 0 \in 0 .. Len(F) /\ 0 + 1 = 1
        /\ \A i \in 1 .. 0 : node[<< >>[i]].value = node[F[i]].value
    BY <2>2
  <2>4. AdCopies(node, F, << >>, list[from].head)
    BY <2>2, <2>3 DEF AdCopies
  <2>5. QED
    BY <1>6, <2>1, <2>4
<1>10. AdDupIs(dup', iter', node', M)
  <2>1. PICK dp : dp = dup'
    OBVIOUS
  <2>2. /\ dp.busy /\ dp.from = from /\ dp.to = to /\ dp.next = list[from].head
        /\ dp = [busy |-> dp.busy, from |-> dp.from, to |-> dp.to, next |-> dp.next,
                   iterator |-> dp.iterator]
    BY <1>2, <2>1
  <2>3. AdDupIs(dp, iter, node, M)
    BY <1>6, <1>7, <1>9, <2>2 DEF AdDupIs
  <2>4. QED
    BY <1>3, <2>1, <2>3
<1>11. \A m \in Lists : m # to => list'[m] = list[m]
  BY <1>1, <1>2
<1>12. AdIterIs(iter', M)
  BY <1>3, <1>8
<1>13. AdStep(L, M, to)
  BY <1>5, <1>6, <1>10, <1>11, <1>12 DEF AdStep
<1>14. QED
  BY <1>2, <1>13

(* One node more is copied.                                                *)
LEMMA AdCopiesOne ==
  ASSUME NEW L, NEW F, NEW T, NEW x, NEW e, AdIs(L), NEW l \in DOMAIN L, F = L[l],
         T \in Seq(Cells), ToSet(T) \subseteq DOMAIN node, AdCopies(node, F, T, x),
         x # NULL, AdGained(e, node[x].value), e \in Cells \ DOMAIN node
  PROVE  AdCopies(node', F, Append(T, e), node[x].next)
<1>1. /\ F \in Seq(Cells) /\ Len(F) \in Nat /\ DOMAIN F = 1 .. Len(F)
      /\ ToSet(F) \subseteq DOMAIN node /\ AdChain(node, list[l], F) /\ AdNodes(node)
  BY AdOf
<1>2. PICK m : /\ m = Len(T) /\ m \in 0 .. Len(F) /\ x = Cell(F, NULL, m + 1)
               /\ \A i \in 1 .. m : node[T[i]].value = node[F[i]].value
  BY DEF AdCopies
<1>3. PICK k, j : k = m + 1 /\ j = k + 1
  OBVIOUS
<1>4. k \in 1 .. Len(F) /\ x = F[k] /\ m \in Nat
  BY <1>1, <1>2, <1>3 DEF Cell
<1>5. PICK b, d : b = Cell(F, NULL, m) /\ d = Cell(F, NULL, j)
  OBVIOUS
<1>6. AdBetween(node, F, x, b, d)
  BY <1>1, <1>2, <1>3, <1>4, <1>5, AdNeighbours
<1>7. node[x].next = Cell(F, NULL, k + 1)
  BY <1>3, <1>5, <1>6 DEF AdBetween
<1>8. PICK T2 : T2 = Append(T, e)
  OBVIOUS
<1>9. Len(T2) = k /\ T2[k] = e /\ (\A i \in 1 .. m : T2[i] = T[i]) /\ DOMAIN T = 1 .. m
  BY <1>2, <1>3, <1>8, AppendProperties, LenProperties
<1>10. ASSUME NEW i \in 1 .. k
       PROVE  node'[T2[i]].value = node'[F[i]].value
  <2>1. i \in 1 .. Len(F) /\ F[i] \in DOMAIN node
    BY <1>1, <1>3, <1>4 DEF ToSet
  <2>2. node'[F[i]].value = node[F[i]].value
    BY <2>1 DEF AdGained
  <2>3. CASE i = k
    BY <1>4, <1>9, <2>2, <2>3 DEF AdGained
  <2>4. CASE i # k
    <3>1. i \in 1 .. m
      BY <1>3, <1>4, <2>4
    <3>2. T2[i] = T[i] /\ T[i] \in DOMAIN node
      BY <1>9, <3>1 DEF ToSet
    <3>3. QED
      BY <1>2, <2>2, <3>1, <3>2 DEF AdGained
  <2>5. QED
    BY <2>3, <2>4
<1>11. k \in 0 .. Len(F)
  BY <1>4
<1>12. QED
  BY <1>7, <1>8, <1>9, <1>10, <1>11 DEF AdCopies

(* The values of a list.                                                   *)
LEMMA AdValues ==
  ASSUME NEW L, NEW l, NEW q, l \in DOMAIN L, q = L[l]
  PROVE  /\ AdIs(L) => Ad!ValuesOf(l) = [i \in DOMAIN q |-> node[q[i]].value]
         /\ AdBecomes(L) => Ad!ValuesOf(l)' = [i \in DOMAIN q |-> node'[q[i]].value]
<1>1. ASSUME AdIs(L)
      PROVE  Ad!ValuesOf(l) = [i \in DOMAIN q |-> node[q[i]].value]
  <2>1. Ad!Nodes(l) = q
    BY <1>1 DEF AdIs
  <2>2. QED
    BY <2>1 DEF Ad!ValuesOf
<1>2. ASSUME AdBecomes(L)
      PROVE  Ad!ValuesOf(l)' = [i \in DOMAIN q |-> node'[q[i]].value]
  <2>1. Ad!Nodes(l)' = q
    BY <1>2 DEF AdBecomes
  <2>2. Ad!ValuesOf(l)' = [i \in DOMAIN Ad!Nodes(l)' |-> node'[(Ad!Nodes(l)')[i]].value]
    BY DEF Ad!ValuesOf
  <2>3. QED
    BY <2>1, <2>2
<1>3. QED
  BY <1>1, <1>2

(* A duplication leaves its original alone.                                *)
LEMMA AdOriginal ==
  ASSUME NEW L, NEW M, NEW from, NEW to, AdAll(L), AdStep(L, M, to), dup.busy,
         from = dup.from, to = dup.to,
         \A c \in ToSet(L[from]) : node'[c].value = node[c].value
  PROVE  /\ Ad!Nodes(from)' = Ad!Nodes(from) /\ Ad!ValuesOf(from)' = Ad!ValuesOf(from)
         /\ Ad!ValuesOf(from) = [i \in DOMAIN L[from] |-> node[L[from][i]].value]
<1>1. PICK F : F = L[from]
  OBVIOUS
<1>2. AdIs(L) /\ AdBecomes(M) /\ from \in DOMAIN L /\ from # to
  BY AdLooksAt, AdDupOf DEF AdStep
<1>3. from \in DOMAIN M /\ F = M[from]
  BY <1>1, <1>2 DEF AdStep
<1>4. Ad!Nodes(from) = F /\ Ad!Nodes(from)' = F
  BY <1>1, <1>2, <1>3 DEF AdIs, AdBecomes
<1>5. /\ Ad!ValuesOf(from) = [i \in DOMAIN F |-> node[F[i]].value]
      /\ Ad!ValuesOf(from)' = [i \in DOMAIN F |-> node'[F[i]].value]
  <2>1. Ad!ValuesOf(from) = [i \in DOMAIN F |-> node[F[i]].value]
    BY <1>1, <1>2, AdValues
  <2>2. Ad!ValuesOf(from)' = [i \in DOMAIN F |-> node'[F[i]].value]
    BY <1>2, <1>3, AdValues
  <2>3. QED
    BY <2>1, <2>2
<1>6. \A i \in DOMAIN F : F[i] \in ToSet(F)
  BY DEF ToSet
<1>7. [i \in DOMAIN F |-> node'[F[i]].value] = [i \in DOMAIN F |-> node[F[i]].value]
  BY <1>1, <1>6
<1>8. QED
  BY <1>1, <1>4, <1>5, <1>7

(* listDup copies one node more.                                           *)
LEMMA AdStepDupNode ==
  ASSUME NEW L, AdAll(L), Ad!DupNode
  PROVE  (\E l \in Lists : \E M : AdStep(L, M, l)) /\ Ad!Duplicated
<1>1. /\ AdIs(L) /\ AdIterIs(iter, L) /\ Ad!Free = Cells \ DOMAIN node
      /\ list \in [Lists -> AdRecord \cup {NULL}] /\ DOMAIN L \subseteq Lists
  BY AdLooksAt
<1>2. PICK from, to, x, F, T : /\ from = dup.from /\ to = dup.to /\ x = dup.next
                               /\ F = L[from] /\ T = L[to]
  OBVIOUS
<1>3. PICK e \in Cells \ DOMAIN node : Ad!listAddNodeTail(to, e, node[x].value)
  BY <1>1, <1>2 DEF Ad!DupNode
<1>4. /\ dup.busy /\ x # NULL /\ iter' = iter
      /\ dup' = [dup EXCEPT !.next = node[x].next]
  BY <1>2 DEF Ad!DupNode
<1>5. /\ from \in DOMAIN L /\ to \in DOMAIN L /\ from # to
      /\ iter.on # to /\ AdCopies(node, F, T, x)
      /\ dup = [busy |-> dup.busy, from |-> from, to |-> to, next |-> x,
                iterator |-> dup.iterator]
      /\ Len(F) \in Nat /\ DOMAIN F = 1 .. Len(F) /\ ToSet(F) \subseteq DOMAIN node
      /\ T \in Seq(Cells) /\ ToSet(T) \subseteq DOMAIN node
  BY <1>2, <1>4, AdDupOf
<1>6. x \in DOMAIN node /\ node[x].value \in Values
  <2>1. PICK m : m \in 0 .. Len(F) /\ x = Cell(F, NULL, m + 1)
    BY <1>5 DEF AdCopies
  <2>2. m + 1 \in 1 .. Len(F) /\ x = F[m + 1]
    BY <1>4, <1>5, <2>1 DEF Cell
  <2>3. x \in ToSet(F)
    BY <1>5, <2>2 DEF ToSet
  <2>4. AdNodes(node)
    BY <1>1, <1>5, AdOf
  <2>5. x \in DOMAIN node
    BY <1>5, <2>3
  <2>6. node[x] \in AdNode
    BY <2>4, <2>5 DEF AdNodes
  <2>7. QED
    BY <2>5, <2>6 DEF AdNode
<1>7. PICK v, M : v = node[x].value /\ M = AdPut(L, to, Append(T, e))
  OBVIOUS
<1>8. AdBecomes(M) /\ AdGained(e, v)
  BY <1>1, <1>2, <1>3, <1>5, <1>6, <1>7, AdAddsTail
<1>9. to \in DOMAIN M /\ M[to] = Append(T, e)
      /\ \A m \in DOMAIN L : m # to => m \in DOMAIN M /\ M[m] = L[m]
  BY <1>5, <1>7 DEF AdPut
<1>10. AdIterIs(iter, M)
  <2>1. iter.on # NULL => iter.on \in DOMAIN M /\ M[iter.on] = L[iter.on]
    BY <1>1, <1>5, <1>9 DEF AdIterIs
  <2>2. QED
    BY <1>1, <2>1, AdApartStays
<1>11. AdCopies(node', F, Append(T, e), node[x].next)
  <2>1. AdGained(e, node[x].value)
    BY <1>7, <1>8
  <2>2. QED
    BY <1>1, <1>2, <1>4, <1>5, <2>1, AdCopiesOne
<1>12. AdDupIs(dup', iter', node', M)
  <2>1. PICK dp, nd : dp = dup' /\ nd = node'
    OBVIOUS
  <2>2. dp = [busy |-> dup.busy, from |-> from, to |-> to, next |-> node[x].next,
              iterator |-> dup.iterator]
    <3>1. PICK d, y : d = dup /\ y = node[x].next
      OBVIOUS
    <3>2. d = [busy |-> d.busy, from |-> from, to |-> to, next |-> x,
               iterator |-> d.iterator]
      BY <1>5, <3>1
    <3>3. dp = [d EXCEPT !.next = y]
      BY <1>4, <2>1, <3>1
    <3>4. dp = [busy |-> d.busy, from |-> from, to |-> to, next |-> y,
                iterator |-> d.iterator]
      BY <3>2, <3>3
    <3>5. QED
      BY <3>1, <3>4
  <2>3. /\ dp.busy /\ dp.from = from /\ dp.to = to /\ dp.next = node[x].next
        /\ dp = [busy |-> dp.busy, from |-> dp.from, to |-> dp.to, next |-> dp.next,
                   iterator |-> dp.iterator]
    BY <1>4, <2>2
  <2>4. from \in DOMAIN M /\ M[from] = F
    BY <1>2, <1>5, <1>9
  <2>5. AdCopies(nd, M[from], M[to], dp.next)
    BY <1>9, <1>11, <2>1, <2>3, <2>4
  <2>6. AdDupIs(dp, iter, nd, M)
    BY <1>5, <1>9, <2>3, <2>4, <2>5 DEF AdDupIs
  <2>7. QED
    BY <1>4, <2>1, <2>6
<1>13. \A m \in Lists : m # to => list'[m] = list[m]
  BY <1>1, <1>3 DEF Ad!listAddNodeTail, Ad!Insert
<1>14. AdStep(L, M, to)
  BY <1>4, <1>8, <1>9, <1>10, <1>12, <1>13 DEF AdStep
<1>15. \A c \in ToSet(F) : node'[c].value = node[c].value
  BY <1>5, <1>8 DEF AdGained
<1>16. Ad!Nodes(from)' = Ad!Nodes(from) /\ Ad!ValuesOf(from)' = Ad!ValuesOf(from)
  BY <1>2, <1>4, <1>14, <1>15, AdOriginal
<1>17. dup'.busy
  BY <1>4, <1>5
<1>18. Ad!Duplicated
  BY <1>2, <1>16, <1>17 DEF Ad!Duplicated
<1>19. QED
  BY <1>1, <1>5, <1>14, <1>18

(* listDup that fails frees what it copied.                                *)
LEMMA AdStepDupFail ==
  ASSUME NEW L, AdAll(L), Ad!DupFail
  PROVE  (\E l \in Lists : \E M : AdStep(L, M, l)) /\ Ad!Duplicated
<1>1. /\ AdIs(L) /\ AdIterIs(iter, L) /\ list \in [Lists -> AdRecord \cup {NULL}]
      /\ DOMAIN L \subseteq Lists
      /\ \A l \in DOMAIN L : Ad!Range(Ad!Nodes(l)) = ToSet(L[l])
  BY AdLooksAt
<1>2. PICK from, to, F, T : from = dup.from /\ to = dup.to /\ F = L[from] /\ T = L[to]
  OBVIOUS
<1>3. dup.busy /\ Ad!Released(to) /\ dup' = Ad!NoDup /\ iter' = iter
  BY <1>2 DEF Ad!DupFail
<1>4. /\ from \in DOMAIN L /\ to \in DOMAIN L /\ from # to /\ iter.on # to
      /\ ToSet(F) \subseteq DOMAIN node
  BY <1>2, <1>3, AdDupOf
<1>5. PICK M : M = AdDrop(L, to)
  OBVIOUS
<1>6. AdBecomes(M) /\ AdFreed(ToSet(T))
  BY <1>1, <1>2, <1>3, <1>4, <1>5, AdReleases
<1>7. \A m \in DOMAIN L : m # to => m \in DOMAIN M /\ M[m] = L[m]
  BY <1>5 DEF AdDrop
<1>8. AdIterIs(iter, M)
  <2>1. iter.on # NULL => iter.on \in DOMAIN M /\ M[iter.on] = L[iter.on]
    BY <1>1, <1>4, <1>7 DEF AdIterIs
  <2>2. QED
    BY <1>1, <2>1, AdApartStays
<1>9. ~ dup'.busy /\ list' = [list EXCEPT ![to] = NULL]
  BY <1>3 DEF Ad!NoDup, Ad!Released
<1>10. AdDupIs(dup', iter', node', M)
  BY <1>9, AdNoDup
<1>11. \A m \in Lists : m # to => list'[m] = list[m]
  BY <1>1, <1>9
<1>12. AdStep(L, M, to)
  BY <1>3, <1>6, <1>7, <1>8, <1>10, <1>11 DEF AdStep
<1>13. \A c \in ToSet(F) : node'[c].value = node[c].value
  <2>1. ToSet(F) \cap ToSet(T) = {}
    BY <1>1, <1>2, <1>4 DEF AdIs, AdLists
  <2>2. QED
    BY <1>4, <1>6, <2>1 DEF AdFreed
<1>14. Ad!Nodes(from)' = Ad!Nodes(from) /\ Ad!ValuesOf(from)' = Ad!ValuesOf(from)
  BY <1>2, <1>3, <1>12, <1>13, AdOriginal
<1>15. list'[to] = NULL /\ DOMAIN node' \cap Ad!Range(Ad!Nodes(to)) = {}
  <2>1. list'[to] = NULL
    BY <1>1, <1>4, <1>9
  <2>2. Ad!Range(Ad!Nodes(to)) = ToSet(T)
    BY <1>1, <1>2, <1>4
  <2>3. QED
    BY <1>6, <2>1, <2>2 DEF AdFreed
<1>16. Ad!Duplicated
  BY <1>2, <1>14, <1>15 DEF Ad!Duplicated
<1>17. QED
  BY <1>1, <1>4, <1>12, <1>16

(* listDup that returns has copied every node.                             *)
LEMMA AdStepDupReturn ==
  ASSUME NEW L, AdAll(L), Ad!DupReturn
  PROVE  (\E l \in Lists : \E M : AdStep(L, M, l)) /\ Ad!Duplicated
<1>1. AdIs(L) /\ AdIterIs(iter, L) /\ DOMAIN L \subseteq Lists
  BY AdLooksAt
<1>2. PICK from, to, F, T : from = dup.from /\ to = dup.to /\ F = L[from] /\ T = L[to]
  OBVIOUS
<1>3. dup.busy /\ dup.next = NULL /\ dup' = Ad!NoDup /\ UNCHANGED <<list, node, iter>>
  BY DEF Ad!DupReturn
<1>4. /\ from \in DOMAIN L /\ to \in DOMAIN L /\ from # to
      /\ AdCopies(node, F, T, NULL) /\ NULL \notin ToSet(F) /\ Len(F) \in Nat
      /\ DOMAIN F = 1 .. Len(F) /\ DOMAIN T = 1 .. Len(T)
  BY <1>2, <1>3, AdDupOf
<1>5. ~ dup'.busy
  BY <1>3 DEF Ad!NoDup
<1>6. AdDupIs(dup', iter', node', L)
  BY <1>5, AdNoDup
<1>7. AdStep(L, L, to)
  BY <1>1, <1>3, <1>6, AdStepsNowhere
<1>8. /\ Ad!Nodes(from)' = Ad!Nodes(from) /\ Ad!ValuesOf(from)' = Ad!ValuesOf(from)
      /\ Ad!ValuesOf(from) = [i \in DOMAIN F |-> node[F[i]].value]
  BY <1>2, <1>3, <1>7, AdOriginal
<1>9. Ad!ValuesOf(to)' = [i \in DOMAIN T |-> node[T[i]].value]
  <2>1. AdBecomes(L)
    BY <1>7 DEF AdStep
  <2>2. to \in DOMAIN L /\ T = L[to]
    BY <1>2, <1>4
  <2>3. Ad!ValuesOf(to)' = [i \in DOMAIN T |-> node'[T[i]].value]
    BY <2>1, <2>2, AdValues
  <2>4. QED
    BY <1>3, <2>3
<1>10. Len(T) = Len(F) /\ \A i \in 1 .. Len(F) : node[T[i]].value = node[F[i]].value
  <2>1. PICK m : /\ m = Len(T) /\ m \in 0 .. Len(F) /\ NULL = Cell(F, NULL, m + 1)
                 /\ \A i \in 1 .. m : node[T[i]].value = node[F[i]].value
    BY <1>4 DEF AdCopies
  <2>2. m = Len(F)
    <3>1. SUFFICES ASSUME m # Len(F)
                   PROVE  FALSE
      OBVIOUS
    <3>2. m + 1 \in 1 .. Len(F)
      <4>1. PICK n \in Nat : n = Len(F)
        BY <1>4
      <4>2. m \in 0 .. n /\ m # n
        BY <2>1, <3>1, <4>1
      <4>3. m + 1 \in 1 .. n
        BY <4>2
      <4>4. QED
        BY <4>1, <4>3
    <3>3. NULL = F[m + 1]
      BY <2>1, <3>2 DEF Cell
    <3>4. QED
      BY <1>4, <3>2, <3>3 DEF ToSet
  <2>3. QED
    BY <2>1, <2>2
<1>11. Ad!ValuesOf(to)' = Ad!ValuesOf(from)
  BY <1>4, <1>8, <1>9, <1>10
<1>12. list'[to] # NULL
  BY <1>1, <1>3, <1>4 DEF AdIs, AdLists
<1>13. Ad!Duplicated
  BY <1>2, <1>8, <1>11, <1>12 DEF Ad!Duplicated
<1>14. QED
  BY <1>1, <1>4, <1>7, <1>13

-----------------------------------------------------------------------------
(* Every step of adlist *)

(* No list, no node, no iterator and no copy to begin with.                *)
LEMMA AdStarts ==
  ASSUME Ad!Init
  PROVE  AdInv
<1>1. PICK L : L = [l \in {} |-> << >>]
  OBVIOUS
<1>2. DOMAIN L = {}
  BY <1>1
<1>3. /\ list = [l \in Lists |-> NULL] /\ DOMAIN node = {} /\ node \in [{} -> AdNode]
      /\ iter = Ad!NoIterator /\ dup = Ad!NoDup
  BY DEF Ad!Init
<1>4. AdNodes(node)
  BY <1>3 DEF AdNodes
<1>5. AdLists(list, node, L)
  BY <1>2, <1>3, <1>4 DEF AdLists
<1>6. AdIterIs(iter, L)
  BY <1>3, AdIdleIterator
<1>7. AdDupIs(dup, iter, node, L)
  <2>1. ~ dup.busy
    BY <1>3 DEF Ad!NoDup
  <2>2. QED
    BY <2>1, AdNoDup
<1>8. QED
  BY <1>5, <1>6, <1>7 DEF AdInv, AdAll

(* Every step of adlist keeps the invariant.                               *)
LEMMA AdSteps ==
  ASSUME NEW L, AdAll(L), Ad!Next
  PROVE  (\E k, M : AdStep(L, M, k)) /\ Ad!Duplicated
<1>1. CASE Ad!May
  <2>1. Ad!Duplicated
    BY <1>1 DEF Ad!May, Ad!Duplicated
  <2>2. \E k, M : AdStep(L, M, k)
    <3>1. ASSUME NEW l \in Lists, Ad!listCreate(l)
          PROVE  \E k, M : AdStep(L, M, k)
      BY <3>1, AdStepCreate
    <3>2. ASSUME NEW l \in Lists, Ad!listRelease(l)
          PROVE  \E k, M : AdStep(L, M, k)
      BY <3>2, AdStepRelease
    <3>3. CASE Ad!AddNode
      BY <3>3, AdStepAdd
    <3>4. CASE Ad!DelNode
      BY <3>4, AdStepDelete
    <3>5. CASE Ad!Rotate
      BY <3>5, AdStepRotate
    <3>6. CASE \/ \E l \in Lists, forward \in BOOLEAN : Ad!listRewind(l, forward)
               \/ Ad!listNext \/ Ad!listReleaseIterator
      BY <3>6, AdStepIterator
    <3>7. CASE Ad!DupStart
      BY <3>7, AdStepDupStart
    <3>8. CASE Ad!DupNode \/ Ad!DupFail \/ Ad!DupReturn
      BY <3>8, AdStepDupNode, AdStepDupFail, AdStepDupReturn
    <3>9. QED
      BY <3>1, <3>2, <3>3, <3>4, <3>5, <3>6, <3>7, <3>8 DEF Ad!Next
  <2>3. QED
    BY <2>1, <2>2
<1>2. CASE ~ Ad!May
  <2>1. Ad!DupNode \/ Ad!DupFail \/ Ad!DupReturn
    BY <1>2 DEF Ad!Next, Ad!listCreate, Ad!listRelease, Ad!AddNode, Ad!DelNode, Ad!Rotate,
                Ad!listRewind, Ad!listNext, Ad!listReleaseIterator, Ad!DupStart
  <2>2. QED
    BY <2>1, AdStepDupNode, AdStepDupFail, AdStepDupReturn
<1>3. QED
  BY <1>1, <1>2

(* The invariant of adlist is inductive.                                   *)
LEMMA AdKeeps ==
  ASSUME AdInv, Ad!Next
  PROVE  AdInv'
<1>1. PICK L : AdAll(L)
  BY DEF AdInv
<1>2. PICK k, M : AdStep(L, M, k)
  BY <1>1, AdSteps
<1>3. AdAll(M)'
  BY <1>2 DEF AdStep, AdBecomes, AdAll, AdLists, AdIterIs, AdDupIs
<1>4. QED
  BY <1>3 DEF AdInv

-----------------------------------------------------------------------------
(* What it says of adlist *)

(* The lists of adlist read the same both ways and share no node.          *)
LEMMA AdWellLinked ==
  ASSUME AdInv
  PROVE  Ad!WellLinked
<1>1. PICK L : AdAll(L)
  BY DEF AdInv
<1>2. /\ AdIs(L) /\ Ad!Live = DOMAIN L
      /\ \A l \in DOMAIN L : Ad!Range(Ad!Nodes(l)) = ToSet(L[l])
  BY <1>1, AdLooksAt
<1>3. ASSUME NEW l \in DOMAIN L
      PROVE  /\ Ad!Reverse(Ad!NodesReverse(l)) = Ad!Nodes(l) /\ Ad!IsInjective(Ad!Nodes(l))
             /\ list[l].len = Len(Ad!Nodes(l))
             /\ \A m \in DOMAIN L \ {l} : Ad!Range(Ad!Nodes(l)) \cap Ad!Range(Ad!Nodes(m)) = {}
  <2>1. PICK q : q = L[l]
    OBVIOUS
  <2>2. /\ q \in Seq(Cells) /\ Distinct(q) /\ list[l].len = Len(q)
        /\ Ad!Nodes(l) = q /\ Ad!NodesReverse(l) = Reverse(q)
    BY <1>2, <2>1, AdOf
  <2>3. Ad!Reverse(Reverse(q)) = q
    BY <2>2, AdSame, ReverseFacts
  <2>4. Ad!IsInjective(q)
    BY <2>2, AdSame
  <2>5. \A m \in DOMAIN L \ {l} : ToSet(L[l]) \cap ToSet(L[m]) = {}
    BY <1>2 DEF AdIs, AdLists
  <2>6. QED
    BY <1>2, <2>2, <2>3, <2>4, <2>5
<1>4. DOMAIN node = UNION {Ad!Range(Ad!Nodes(l)) : l \in DOMAIN L}
  <2>1. \A c \in DOMAIN node : \E l \in DOMAIN L : c \in ToSet(L[l])
    BY <1>2 DEF AdIs, AdLists
  <2>2. \A l \in DOMAIN L : ToSet(L[l]) \subseteq DOMAIN node
    BY <1>2, AdOf
  <2>3. QED
    BY <1>2, <2>1, <2>2
<1>5. QED
  BY <1>2, <1>3, <1>4 DEF Ad!WellLinked

(* An iterator that has not strayed returns every node once.               *)
LEMMA AdIteration ==
  ASSUME AdInv
  PROVE  Ad!IterationComplete
<1>1. PICK L : AdAll(L)
  BY DEF AdInv
<1>2. AdIs(L) /\ AdIterIs(iter, L)
  BY <1>1, AdLooksAt
<1>3. Dangling # NULL /\ Dangling \notin Cells
  BY CellsAssumption
<1>4. PICK it : it = iter
  OBVIOUS
<1>5. ASSUME ~ it.stray
      PROVE  it.next # Dangling /\ ~ it.twice /\ (it.over => it.due = {})
  <2>1. CASE it.on = NULL
    BY <1>2, <1>3, <1>4, <2>1 DEF AdIterIs
  <2>2. CASE it.on # NULL
    <3>1. PICK o, r : o = it.on /\ r = AdFacing(it.forward, L[o])
      OBVIOUS
    <3>2. o \in DOMAIN L /\ AdPoised(it, r)
      BY <1>2, <1>4, <1>5, <2>2, <3>1 DEF AdIterIs
    <3>3. L[o] \in Seq(Cells) /\ Distinct(L[o]) /\ NULL \notin ToSet(L[o])
      BY <1>2, <3>2, AdOf
    <3>4. r \in Seq(Cells)
      BY <3>1, <3>3, AdFacingIs
    <3>5. Dangling \notin ToSet(r)
      BY <1>3, <3>4, ElementsOf
    <3>6. QED
      BY <1>3, <3>2, <3>5 DEF AdPoised
  <2>3. QED
    BY <2>1, <2>2
<1>6. QED
  BY <1>4, <1>5 DEF Ad!IterationComplete

(* The list at l becomes q, which Nodes then reads.                        *)
LEMMA AdNodesThen ==
  ASSUME NEW L, NEW l, NEW q, AdBecomes(AdPut(L, l, q))
  PROVE  Ad!Nodes(l)' = q
<1>1. PICK M : M = AdPut(L, l, q)
  OBVIOUS
<1>2. l \in DOMAIN M /\ M[l] = q
  BY <1>1 DEF AdPut
<1>3. QED
  BY <1>1, <1>2 DEF AdBecomes

(* Every operation of adlist does to its list what its name says.          *)
LEMMA AdSequenced ==
  ASSUME AdInv, Ad!Next
  PROVE  Ad!Sequenced
<1>1. PICK L : AdAll(L)
  BY DEF AdInv
<1>2. /\ AdIs(L) /\ Ad!Live = DOMAIN L /\ Ad!Free = Cells \ DOMAIN node
      /\ \A l \in DOMAIN L : Ad!Range(Ad!Nodes(l)) = ToSet(L[l]) /\ Ad!Nodes(l) = L[l]
      /\ DOMAIN L \subseteq Lists
  BY <1>1, AdLooksAt DEF AdIs
<1>3. PICK k, M : AdStep(L, M, k)
  BY <1>1, AdSteps
<1>4. ASSUME NEW l \in DOMAIN L, NEW e \in Cells \ DOMAIN node, NEW v \in Values
      PROVE  /\ Ad!listAddNodeHead(l, e, v) => Ad!InsertFirst(L[l], Ad!Nodes(l)', e)
             /\ Ad!listAddNodeTail(l, e, v) => Ad!InsertLast(L[l], Ad!Nodes(l)', e)
  <2>1. ASSUME Ad!listAddNodeHead(l, e, v)
        PROVE  Ad!Nodes(l)' = <<e>> \o L[l]
    <3>1. AdBecomes(AdPut(L, l, <<e>> \o L[l]))
      BY <1>2, <2>1, AdAddsHead
    <3>2. QED
      BY <3>1, AdNodesThen
  <2>2. ASSUME Ad!listAddNodeTail(l, e, v)
        PROVE  Ad!Nodes(l)' = Append(L[l], e)
    <3>1. AdBecomes(AdPut(L, l, Append(L[l], e)))
      BY <1>2, <2>2, AdAddsTail
    <3>2. QED
      BY <3>1, AdNodesThen
  <2>3. QED
    BY <2>1, <2>2 DEF Ad!InsertFirst, Ad!InsertLast
<1>5. ASSUME NEW l \in DOMAIN L, NEW x \in ToSet(L[l])
      PROVE  \E i \in 1 .. Len(L[l]) : /\ x = L[l][i] /\ Ad!At(L[l], x) = i
                                       /\ x \in Ad!Range(L[l])
  <2>1. PICK q : q = L[l]
    OBVIOUS
  <2>2. q \in Seq(Cells) /\ Distinct(q) /\ DOMAIN q = 1 .. Len(q)
    BY <1>2, <2>1, AdOf
  <2>3. PICK i \in 1 .. Len(q) : x = q[i]
    BY <2>1, <2>2 DEF ToSet
  <2>4. At(q, x) = i
    BY <2>2, <2>3, AtIs
  <2>5. QED
    BY <2>1, <2>3, <2>4, AdSame
<1>6. ASSUME NEW l \in DOMAIN L, NEW e \in Cells \ DOMAIN node, NEW v \in Values,
             NEW old \in ToSet(L[l])
      PROVE  /\ Ad!listInsertNode(l, old, e, v, TRUE) =>
                  Ad!InsertNext(L[l], Ad!Nodes(l)', old, e)
             /\ Ad!listInsertNode(l, old, e, v, FALSE) =>
                  Ad!InsertPrevious(L[l], Ad!Nodes(l)', old, e)
  <2>1. PICK i \in 1 .. Len(L[l]) : old = L[l][i] /\ Ad!At(L[l], old) = i /\ old \in Ad!Range(L[l])
    BY <1>5
  <2>2. PICK j : j = i + 1
    OBVIOUS
  <2>3. ASSUME Ad!listInsertNode(l, old, e, v, TRUE)
        PROVE  Ad!Nodes(l)' = Ad!InsertAt(L[l], j, e)
    <3>1. AdBecomes(AdPut(L, l, InsertAt(L[l], j, e)))
      BY <1>2, <2>1, <2>2, <2>3, AdAddsAfter
    <3>2. QED
      BY <3>1, AdNodesThen, AdSame
  <2>4. ASSUME Ad!listInsertNode(l, old, e, v, FALSE)
        PROVE  Ad!Nodes(l)' = Ad!InsertAt(L[l], i, e)
    <3>1. AdBecomes(AdPut(L, l, InsertAt(L[l], i, e)))
      BY <1>2, <2>1, <2>4, AdAddsBefore
    <3>2. QED
      BY <3>1, AdNodesThen, AdSame
  <2>5. QED
    BY <2>1, <2>2, <2>3, <2>4 DEF Ad!InsertNext, Ad!InsertPrevious
<1>7. ASSUME NEW l \in DOMAIN L, NEW e \in ToSet(L[l]), Ad!listDelNode(l, e)
      PROVE  Ad!Delete(L[l], Ad!Nodes(l)', e)
  <2>1. PICK i \in 1 .. Len(L[l]) : e = L[l][i] /\ Ad!At(L[l], e) = i /\ e \in Ad!Range(L[l])
    BY <1>5
  <2>2. AdBecomes(AdPut(L, l, RemoveAt(L[l], i)))
    BY <1>2, <1>7, <2>1, AdDeletes
  <2>3. Ad!Nodes(l)' = Ad!RemoveAt(L[l], i)
    BY <2>2, AdNodesThen, AdSame
  <2>4. QED
    BY <2>1, <2>3 DEF Ad!Delete
<1>8. ASSUME NEW l \in DOMAIN L, Ad!listRotate(l)
      PROVE  Ad!TurnRound(L[l], Ad!Nodes(l)')
  <2>1. AdBecomes(AdPut(L, l, <<Last(L[l])>> \o Front(L[l]))) /\ Len(L[l]) > 1
    BY <1>2, <1>8, AdRotates
  <2>2. Ad!Nodes(l)' = <<Ad!Last(L[l])>> \o Ad!Front(L[l])
    BY <2>1, AdNodesThen, AdSame
  <2>3. Len(L[l]) \in Nat
    BY <1>2, AdOf
  <2>4. ~ (Len(L[l]) <= 1)
    BY <2>1, <2>3
  <2>5. QED
    BY <2>2, <2>4 DEF Ad!TurnRound
<1>9. ASSUME NEW l \in DOMAIN L, NEW m \in Lists \ {l}, list'[m] # list[m]
      PROVE  Ad!Nodes(l)' = L[l]
  <2>1. m = k
    BY <1>3, <1>9 DEF AdStep
  <2>2. l \in DOMAIN M /\ M[l] = L[l] /\ AdBecomes(M)
    BY <1>3, <1>9, <2>1 DEF AdStep
  <2>3. QED
    BY <2>2 DEF AdBecomes
<1>10. ASSUME NEW l \in Ad!Live
       PROVE  /\ \A e \in Ad!Free, v \in Values :
                   /\ Ad!listAddNodeHead(l, e, v) =>
                        Ad!InsertFirst(Ad!Nodes(l), Ad!Nodes(l)', e)
                   /\ Ad!listAddNodeTail(l, e, v) =>
                        Ad!InsertLast(Ad!Nodes(l), Ad!Nodes(l)', e)
                   /\ \A old \in Ad!Range(Ad!Nodes(l)) :
                        /\ Ad!listInsertNode(l, old, e, v, TRUE) =>
                             Ad!InsertNext(Ad!Nodes(l), Ad!Nodes(l)', old, e)
                        /\ Ad!listInsertNode(l, old, e, v, FALSE) =>
                             Ad!InsertPrevious(Ad!Nodes(l), Ad!Nodes(l)', old, e)
              /\ \A e \in Ad!Range(Ad!Nodes(l)) :
                   Ad!listDelNode(l, e) => Ad!Delete(Ad!Nodes(l), Ad!Nodes(l)', e)
              /\ Ad!listRotate(l) => Ad!TurnRound(Ad!Nodes(l), Ad!Nodes(l)')
              /\ \A m \in Lists \ {l} : list'[m] # list[m] => Ad!Nodes(l)' = Ad!Nodes(l)
  <2>1. /\ l \in DOMAIN L /\ Ad!Nodes(l) = L[l] /\ Ad!Range(Ad!Nodes(l)) = ToSet(L[l])
        /\ Ad!Free = Cells \ DOMAIN node
    BY <1>2
  <2>2. \A e \in Ad!Free, v \in Values :
          /\ Ad!listAddNodeHead(l, e, v) => Ad!InsertFirst(L[l], Ad!Nodes(l)', e)
          /\ Ad!listAddNodeTail(l, e, v) => Ad!InsertLast(L[l], Ad!Nodes(l)', e)
    BY <1>4, <2>1
  <2>3. \A e \in Ad!Free, v \in Values : \A old \in ToSet(L[l]) :
          /\ Ad!listInsertNode(l, old, e, v, TRUE) =>
               Ad!InsertNext(L[l], Ad!Nodes(l)', old, e)
          /\ Ad!listInsertNode(l, old, e, v, FALSE) =>
               Ad!InsertPrevious(L[l], Ad!Nodes(l)', old, e)
    BY <1>6, <2>1
  <2>4. \A e \in ToSet(L[l]) : Ad!listDelNode(l, e) => Ad!Delete(L[l], Ad!Nodes(l)', e)
    BY <1>7, <2>1
  <2>5. /\ Ad!listRotate(l) => Ad!TurnRound(L[l], Ad!Nodes(l)')
        /\ \A m \in Lists \ {l} : list'[m] # list[m] => Ad!Nodes(l)' = L[l]
    BY <1>8, <1>9, <2>1
  <2>6. QED
    BY <2>1, <2>2, <2>3, <2>4, <2>5
<1>11. QED
  BY <1>10 DEF Ad!Sequenced

-----------------------------------------------------------------------------
(* The lookups of adlist *)

(* The pointers f lead from x through q to NULL.                           *)
AdTrail(f, x, q) ==
  /\ q \in Seq(Cells) /\ NULL \notin ToSet(q) /\ x = Cell(q, NULL, 1)
  /\ \A i \in 1 .. Len(q) : f[q[i]] = Cell(q, NULL, i + 1)

(* n steps along a list lead to its node n, or to NULL.                    *)
LEMMA AdStepsAre ==
  ASSUME NEW f, NEW x, NEW q, NEW n \in Nat, AdTrail(f, x, q)
  PROVE  Ad!Steps(f, x, n) = Cell(q, NULL, n + 1)
<1> DEFINE F == CHOOSE g : g = [k \in 0 .. n |-> IF k = 0 THEN x
                       ELSE IF g[k - 1] = NULL THEN NULL ELSE f[g[k - 1]]]
           E == [k \in 0 .. n |-> Cell(q, NULL, k + 1)]
<1>1. Len(q) \in Nat /\ DOMAIN q = 1 .. Len(q) /\ \A i \in 1 .. Len(q) : q[i] # NULL
  BY LenProperties DEF AdTrail, ToSet
<1>2. Ad!Steps(f, x, n) = F[n]
  BY DEF Ad!Steps
<1>3. ASSUME NEW k \in 0 .. n
      PROVE  E[k] = IF k = 0 THEN x ELSE IF E[k - 1] = NULL THEN NULL ELSE f[E[k - 1]]
  <2>1. CASE k = 0
    <3>1. E[k] = Cell(q, NULL, 1)
      BY <2>1
    <3>2. QED
      BY <2>1, <3>1 DEF AdTrail
  <2>2. CASE k # 0
    <3>1. k - 1 \in 0 .. n /\ (k - 1) + 1 = k
      BY <2>2
    <3>2. E[k - 1] = Cell(q, NULL, k) /\ E[k] = Cell(q, NULL, k + 1)
      BY <3>1
    <3> HIDE DEF E
    <3>3. CASE k \in 1 .. Len(q)
      <4>1. Cell(q, NULL, k) = q[k] /\ q[k] # NULL
        BY <1>1, <3>3 DEF Cell
      <4>2. f[q[k]] = Cell(q, NULL, k + 1)
        BY <3>3 DEF AdTrail
      <4>3. QED
        BY <2>2, <3>2, <4>1, <4>2
    <3>4. CASE k \notin 1 .. Len(q)
      <4>1. k + 1 \notin 1 .. Len(q)
        BY <1>1, <2>2, <3>4
      <4>2. Cell(q, NULL, k) = NULL /\ Cell(q, NULL, k + 1) = NULL
        BY <3>4, <4>1 DEF Cell
      <4>3. QED
        BY <2>2, <3>2, <4>2
    <3>5. QED
      BY <3>3, <3>4
  <2>3. QED
    BY <2>1, <2>2
<1>4. E = [k \in 0 .. n |-> IF k = 0 THEN x
                            ELSE IF E[k - 1] = NULL THEN NULL ELSE f[E[k - 1]]]
  <2>1. E = [k \in 0 .. n |-> E[k]]
    OBVIOUS
  <2> HIDE DEF E
  <2>2. QED
    BY <1>3, <2>1
<1>5. F = [k \in 0 .. n |-> IF k = 0 THEN x
                            ELSE IF F[k - 1] = NULL THEN NULL ELSE f[F[k - 1]]]
  BY <1>4
<1> HIDE DEF E, F
<1>6. \A k \in 0 .. n : F[k] = E[k]
  <2> DEFINE T == {m \in Nat : m <= n => F[m] = E[m]}
  <2>1. 0 \in T
    BY <1>3, <1>5
  <2>2. ASSUME NEW m \in Nat, m \in T
        PROVE  m + 1 \in T
    <3>1. SUFFICES ASSUME m + 1 <= n
                   PROVE  F[m + 1] = E[m + 1]
      OBVIOUS
    <3>2. m + 1 \in 0 .. n /\ m + 1 # 0 /\ (m + 1) - 1 = m /\ F[m] = E[m]
      BY <2>2, <3>1
    <3>3. /\ F[m + 1] = IF F[m] = NULL THEN NULL ELSE f[F[m]]
          /\ E[m + 1] = IF E[m] = NULL THEN NULL ELSE f[E[m]]
      BY <1>3, <1>5, <3>2
    <3>4. QED
      BY <3>2, <3>3
  <2> HIDE DEF T
  <2>3. Nat \subseteq T
    BY <2>1, <2>2, NatSetInduction
  <2>4. QED
    BY <2>3 DEF T
<1>7. n \in 0 .. n
  OBVIOUS
<1>8. E[n] = Cell(q, NULL, n + 1)
  BY <1>7 DEF E
<1>9. QED
  BY <1>2, <1>6, <1>7, <1>8

(* The pointers lead through a list in both directions.                    *)
LEMMA AdTrails ==
  ASSUME NEW L, NEW l, NEW q, AdIs(L), l \in DOMAIN L, q = L[l]
  PROVE  /\ AdTrail(Ad!Nexts(node), list[l].head, q)
         /\ AdTrail(Ad!Prevs(node), list[l].tail, Reverse(q))
<1>1. /\ q \in Seq(Cells) /\ NULL \notin ToSet(q) /\ ToSet(q) \subseteq DOMAIN node
  BY AdOf
<1>2. PICK b : b = Reverse(q)
  OBVIOUS
<1>3. b \in Seq(Cells) /\ ToSet(b) = ToSet(q)
  BY <1>1, <1>2, ReverseFacts
<1>4. /\ \A i \in 1 .. Len(q) : q[i] \in DOMAIN node
      /\ \A i \in 1 .. Len(b) : b[i] \in DOMAIN node
  <2>1. DOMAIN q = 1 .. Len(q) /\ DOMAIN b = 1 .. Len(b)
    BY <1>1, <1>3, LenProperties
  <2>2. QED
    BY <1>1, <1>3, <2>1 DEF ToSet
<1>5. /\ list[l].head = Cell(q, NULL, 1)
      /\ \A i \in 1 .. Len(q) : node[q[i]].next = Cell(q, NULL, i + 1)
  <2>1. PICK forward : forward = TRUE
    OBVIOUS
  <2>2. PICK r : r = AdFacing(forward, L[l])
    OBVIOUS
  <2>3. /\ (IF forward THEN list[l].head ELSE list[l].tail) = Cell(r, NULL, 1)
        /\ \A i \in 1 .. Len(r) :
             (IF forward THEN node[r[i]].next ELSE node[r[i]].prev) = Cell(r, NULL, i + 1)
    BY <2>2, AdAhead
  <2>4. r = q
    BY <2>1, <2>2 DEF AdFacing
  <2>5. QED
    BY <2>1, <2>3, <2>4
<1>6. /\ list[l].tail = Cell(b, NULL, 1)
      /\ \A i \in 1 .. Len(b) : node[b[i]].prev = Cell(b, NULL, i + 1)
  <2>1. PICK forward : forward = FALSE
    OBVIOUS
  <2>2. b = AdFacing(forward, L[l])
    BY <1>2, <2>1 DEF AdFacing
  <2>3. /\ (IF forward THEN list[l].head ELSE list[l].tail) = Cell(b, NULL, 1)
        /\ \A i \in 1 .. Len(b) :
             (IF forward THEN node[b[i]].next ELSE node[b[i]].prev) = Cell(b, NULL, i + 1)
    BY <2>2, AdAhead
  <2>4. QED
    BY <2>1, <2>3
<1>7. PICK nx, pv : nx = Ad!Nexts(node) /\ pv = Ad!Prevs(node)
  OBVIOUS
<1>8. \A c \in DOMAIN node : nx[c] = node[c].next /\ pv[c] = node[c].prev
  BY <1>7 DEF Ad!Nexts, Ad!Prevs
<1>9. AdTrail(nx, list[l].head, q)
  BY <1>1, <1>4, <1>5, <1>8 DEF AdTrail
<1>10. AdTrail(pv, list[l].tail, b)
  BY <1>1, <1>3, <1>4, <1>6, <1>8 DEF AdTrail
<1>11. QED
  BY <1>2, <1>7, <1>9, <1>10

(* listIndex, for every index.                                             *)
LEMMA AdIndexed ==
  ASSUME NEW L, NEW l, NEW q, NEW len, NEW i \in Int, AdIs(L), l \in DOMAIN L, q = L[l],
         len = Len(q)
  PROVE  Ad!listIndex(l, i) = IF i \in 0 .. len - 1 THEN q[i + 1]
                              ELSE IF i \in -len .. -1 THEN q[len + i + 1]
                              ELSE NULL
<1>1. /\ AdTrail(Ad!Nexts(node), list[l].head, q)
      /\ AdTrail(Ad!Prevs(node), list[l].tail, Reverse(q))
  BY AdTrails
<1>2. q \in Seq(Cells) /\ len \in Nat
  BY AdOf
<1>3. CASE i >= 0
  <2>1. i \in Nat /\ ~ (i < 0) /\ i \notin -len .. -1
    BY <1>2, <1>3
  <2>2. Ad!Steps(Ad!Nexts(node), list[l].head, i) = Cell(q, NULL, i + 1)
    BY <1>1, <2>1, AdStepsAre
  <2>3. Ad!listIndex(l, i) = Cell(q, NULL, i + 1)
    BY <2>1, <2>2 DEF Ad!listIndex
  <2>4. i + 1 \in 1 .. len <=> i \in 0 .. len - 1
    BY <1>2, <2>1
  <2>5. QED
    BY <2>1, <2>3, <2>4 DEF Cell
<1>4. CASE i < 0
  <2>1. PICK b, n : b = Reverse(q) /\ n = (-i) - 1
    OBVIOUS
  <2>2. n \in Nat /\ n + 1 = -i /\ i \notin 0 .. len - 1
    BY <1>2, <1>4, <2>1
  <2>3. Ad!Steps(Ad!Prevs(node), list[l].tail, n) = Cell(b, NULL, n + 1)
    BY <1>1, <2>1, <2>2, AdStepsAre
  <2>4. Ad!listIndex(l, i) = Cell(b, NULL, -i)
    BY <1>4, <2>1, <2>2, <2>3 DEF Ad!listIndex
  <2>5. Len(b) = len /\ \A j \in 1 .. len : b[j] = q[len - j + 1]
    BY <1>2, <2>1 DEF Reverse
  <2>6. CASE -i \in 1 .. len
    <3>1. b[-i] = q[len - (-i) + 1] /\ i \in -len .. -1 /\ len - (-i) + 1 = len + i + 1
      BY <1>2, <2>5, <2>6
    <3>2. Cell(b, NULL, -i) = b[-i]
      BY <2>5, <2>6 DEF Cell
    <3>3. QED
      BY <2>2, <2>4, <3>1, <3>2
  <2>7. CASE -i \notin 1 .. len
    <3>1. i \notin -len .. -1
      BY <1>2, <1>4, <2>7
    <3>2. Cell(b, NULL, -i) = NULL
      BY <2>5, <2>7 DEF Cell
    <3>3. QED
      BY <2>2, <2>4, <3>1, <3>2
  <2>8. QED
    BY <2>6, <2>7
<1>5. QED
  BY <1>3, <1>4

(* Where a search among the first len pointers stops.                      *)
LEMMA LeastHit ==
  ASSUME NEW I, NEW hits, NEW len \in Nat, I \subseteq 1 .. len,
         hits \subseteq 0 .. len, \A i \in 0 .. len : i \in hits <=> i = len \/ i + 1 \in I
  PROVE  /\ I # {} => Min(hits) + 1 = Min(I) /\ Min(I) \in I
         /\ I = {} => Min(hits) = len
<1>1. hits \subseteq Nat /\ len \in hits /\ I \subseteq Nat
  OBVIOUS
<1>2. Min(hits) \in hits /\ \A y \in hits : Min(hits) <= y
  BY <1>1, LeastIsIn
<1>3. PICK h : h = Min(hits)
  OBVIOUS
<1>4. h \in 0 .. len /\ h \in hits /\ \A y \in hits : h <= y
  BY <1>2, <1>3
<1>5. ASSUME I # {}
      PROVE  h + 1 = Min(I) /\ Min(I) \in I
  <2>1. Min(I) \in I /\ \A y \in I : Min(I) <= y
    BY <1>1, <1>5, LeastIsIn
  <2>2. PICK m : m = Min(I)
    OBVIOUS
  <2>3. m \in I /\ m \in 1 .. len /\ \A y \in I : m <= y
    BY <2>1, <2>2
  <2>4. PICK k : k = m - 1
    OBVIOUS
  <2>5. k \in 0 .. len /\ k + 1 = m /\ k \in hits
    BY <2>3, <2>4
  <2>6. h <= k
    BY <1>4, <2>5
  <2>7. h + 1 \in I
    BY <1>4, <2>5, <2>6, <2>3
  <2>8. m <= h + 1
    BY <2>3, <2>7
  <2>9. h + 1 = m
    BY <1>4, <2>5, <2>6, <2>8
  <2>10. QED
    BY <2>2, <2>3, <2>9
<1>6. I = {} => h = len
  BY <1>4
<1>7. QED
  BY <1>3, <1>5, <1>6

(* listSearchKey, for every value.                                         *)
LEMMA AdSearched ==
  ASSUME NEW L, NEW l, NEW q, NEW v, AdIs(L), l \in DOMAIN L, q = L[l]
  PROVE  Ad!listSearchKey(l, v) =
           IF v \in Ad!Range(Ad!ValuesOf(l))
           THEN q[Ad!SelectInSeq(Ad!ValuesOf(l), LAMBDA x : x = v)] ELSE NULL
<1>1. AdTrail(Ad!Nexts(node), list[l].head, q)
  BY AdTrails
<1>2. /\ q \in Seq(Cells) /\ NULL \notin ToSet(q) /\ Len(q) \in Nat /\ DOMAIN q = 1 .. Len(q)
      /\ ToSet(q) \subseteq DOMAIN node /\ list[l].len = Len(q)
  BY AdOf
<1>3. PICK len, w : len = Len(q) /\ w = Ad!ValuesOf(l)
  OBVIOUS
<1>4. w = [i \in 1 .. len |-> node[q[i]].value]
  <2>1. Ad!ValuesOf(l) = [i \in DOMAIN q |-> node[q[i]].value]
    BY AdValues
  <2>2. QED
    BY <1>2, <1>3, <2>1
<1>5. Len(w) = len /\ DOMAIN w = 1 .. len
  BY <1>2, <1>3, <1>4
<1>6. PICK I : I = {i \in 1 .. len : w[i] = v}
  OBVIOUS
<1>7. PICK hits : hits = {i \in 0 .. len : Ad!Steps(Ad!Nexts(node), list[l].head, i)
                            \in {NULL} \cup {n \in DOMAIN node : node[n].value = v}}
  OBVIOUS
<1>8. \A i \in 0 .. len : Ad!Steps(Ad!Nexts(node), list[l].head, i) = Cell(q, NULL, i + 1)
  <2>1. ASSUME NEW i \in 0 .. len
        PROVE  Ad!Steps(Ad!Nexts(node), list[l].head, i) = Cell(q, NULL, i + 1)
    <3>1. i \in Nat
      BY <1>2, <1>3
    <3>2. QED
      BY <1>1, <3>1, AdStepsAre
  <2>2. QED
    BY <2>1
<1>9. ASSUME NEW i \in 0 .. len
      PROVE  i \in hits <=> i = len \/ i + 1 \in I
  <2>1. i \in hits <=> Cell(q, NULL, i + 1) \in {NULL} \cup {n \in DOMAIN node : node[n].value = v}
    BY <1>7, <1>8
  <2>2. CASE i = len
    <3>1. Cell(q, NULL, i + 1) = NULL
      BY <1>2, <1>3, <2>2 DEF Cell
    <3>2. QED
      BY <2>1, <2>2, <3>1
  <2>3. CASE i # len
    <3>1. i + 1 \in 1 .. len
      <4>1. len \in Nat
        BY <1>2, <1>3
      <4>2. QED
        BY <2>3, <4>1
    <3>2. Cell(q, NULL, i + 1) = q[i + 1]
      BY <1>3, <3>1 DEF Cell
    <3>3. q[i + 1] # NULL /\ q[i + 1] \in DOMAIN node
      BY <1>2, <1>3, <3>1 DEF ToSet
    <3>4. w[i + 1] = node[q[i + 1]].value
      BY <1>4, <3>1
    <3>5. i + 1 \in I <=> w[i + 1] = v
      BY <1>6, <3>1
    <3>6. QED
      BY <2>1, <2>3, <3>2, <3>3, <3>4, <3>5
  <2>4. QED
    BY <2>2, <2>3
<1>10. /\ I # {} => Min(hits) + 1 = Min(I) /\ Min(I) \in I
       /\ I = {} => Min(hits) = len
  <2>1. I \subseteq 1 .. len /\ hits \subseteq 0 .. len /\ len \in Nat
    BY <1>2, <1>3, <1>6, <1>7
  <2>2. QED
    BY <1>9, <2>1, LeastHit
<1>11. Ad!listSearchKey(l, v) = Cell(q, NULL, Min(hits) + 1)
  <2>1. Ad!listSearchKey(l, v) = Ad!Steps(Ad!Nexts(node), list[l].head, Ad!Min(hits))
    BY <1>2, <1>3, <1>7 DEF Ad!listSearchKey
  <2>2. Ad!Min(hits) = Min(hits)
    BY DEF Ad!Min, Min
  <2>3. Min(hits) \in 0 .. len
    <3>1. hits \subseteq Nat /\ len \in hits
      <4>1. len \in Nat /\ hits \subseteq 0 .. len
        BY <1>2, <1>3, <1>7
      <4>2. len \in 0 .. len
        BY <4>1
      <4>3. len \in hits
        BY <1>9, <4>2
      <4>4. QED
        BY <4>1, <4>3
    <3>2. Min(hits) \in hits
      BY <3>1, LeastIsIn
    <3>3. QED
      BY <1>7, <3>2
  <2>4. QED
    BY <1>8, <2>1, <2>2, <2>3
<1>12. v \in Ad!Range(w) <=> I # {}
  <2>1. Ad!Range(w) = ToSet(w)
    BY AdSame
  <2>2. QED
    BY <1>5, <1>6, <2>1 DEF ToSet
<1>13. I # {} => Ad!SelectInSeq(w, LAMBDA x : x = v) = Min(I)
  <2>1. {i \in 1 .. Len(w) : w[i] = v} = I
    BY <1>5, <1>6
  <2>2. Ad!Min(I) = Min(I)
    BY DEF Ad!Min, Min
  <2>3. QED
    BY <2>1, <2>2 DEF Ad!SelectInSeq
<1>14. CASE I # {}
  <2>1. Min(I) \in 1 .. len /\ Min(hits) + 1 = Min(I)
    BY <1>6, <1>10, <1>14
  <2>2. Ad!listSearchKey(l, v) = q[Min(I)]
    BY <1>3, <1>11, <2>1 DEF Cell
  <2>3. QED
    BY <1>3, <1>12, <1>13, <1>14, <2>2
<1>15. CASE I = {}
  <2>1. Cell(q, NULL, len + 1) = NULL
    BY <1>2, <1>3 DEF Cell
  <2>2. QED
    BY <1>3, <1>10, <1>11, <1>12, <1>15, <2>1
<1>16. QED
  BY <1>14, <1>15

(* listIndex and listSearchKey find the right nodes.                       *)
LEMMA AdLookups ==
  ASSUME AdInv
  PROVE  Ad!LookupsAgree
<1>1. PICK L : AdAll(L)
  BY DEF AdInv
<1>2. AdIs(L) /\ Ad!Live = DOMAIN L
  BY <1>1, AdLooksAt
<1>3. ASSUME NEW l \in DOMAIN L
      PROVE  /\ \A i \in -Len(Ad!Nodes(l)) - 2 .. Len(Ad!Nodes(l)) + 1 :
                  Ad!listIndex(l, i) =
                    IF i \in 0 .. Len(Ad!Nodes(l)) - 1 THEN Ad!Nodes(l)[i + 1]
                    ELSE IF i \in -Len(Ad!Nodes(l)) .. -1
                         THEN Ad!Nodes(l)[Len(Ad!Nodes(l)) + i + 1]
                    ELSE NULL
             /\ \A v \in Values :
                  Ad!listSearchKey(l, v) =
                    IF v \in Ad!Range(Ad!ValuesOf(l))
                    THEN Ad!Nodes(l)[Ad!SelectInSeq(Ad!ValuesOf(l), LAMBDA x : x = v)]
                    ELSE NULL
  <2>1. PICK q, len : q = L[l] /\ len = Len(q)
    OBVIOUS
  <2>2. Ad!Nodes(l) = q /\ len \in Nat
    BY <1>2, <2>1, AdOf
  <2>3. \A i \in -len - 2 .. len + 1 :
          Ad!listIndex(l, i) = IF i \in 0 .. len - 1 THEN q[i + 1]
                               ELSE IF i \in -len .. -1 THEN q[len + i + 1] ELSE NULL
    <3>1. TAKE i \in -len - 2 .. len + 1
    <3>2. i \in Int
      OBVIOUS
    <3>3. QED
      BY <1>2, <2>1, <3>2, AdIndexed
  <2>4. \A v \in Values :
          Ad!listSearchKey(l, v) =
            IF v \in Ad!Range(Ad!ValuesOf(l))
            THEN q[Ad!SelectInSeq(Ad!ValuesOf(l), LAMBDA x : x = v)] ELSE NULL
    BY <1>2, <2>1, AdSearched
  <2>5. QED
    BY <2>1, <2>2, <2>3, <2>4
<1>4. QED
  BY <1>2, <1>3 DEF Ad!LookupsAgree

-----------------------------------------------------------------------------
(* The lists side by side *)

(* Each kind of list is what its pointers say.                             *)
IInv == AdInv /\ TqInv /\ KlInv

(* The initial states satisfy the invariant.                               *)
LEMMA ListsStart ==
  ASSUME Init
  PROVE  IInv
BY AdStarts, TqStarts, KlStarts DEF Init, IInv

(* The other kinds of list do not touch adlist.                            *)
LEMMA AdAlone ==
  ASSUME AdInv, UNCHANGED adlist
  PROVE  AdInv'
BY DEF AdInv, AdAll, adlist

(* The other kinds of list do not touch a TAILQ.                           *)
LEMMA TqAlone ==
  ASSUME TqInv, UNCHANGED tailq
  PROVE  TqInv'
<1>1. PICK q : TqIs(q)
  BY DEF TqInv
<1>2. UNCHANGED <<tnext, tprev>>
  BY DEF tailq
<1>3. TqList(tnext', tprev', q)
  BY <1>1, <1>2 DEF TqIs
<1>4. Tq!Queued' = Tq!Queued /\ Tq!QueuedReverse' = Tq!QueuedReverse
  BY <1>2 DEF Tq!Queued, Tq!QueuedReverse, Tq!Before
<1>5. TqIs(q)'
  BY <1>1, <1>3, <1>4 DEF TqIs
<1>6. QED
  BY <1>5 DEF TqInv

(* The other kinds of list do not touch the lists of list.h.               *)
LEMMA KlAlone ==
  ASSUME KlInv, UNCHANGED kernel
  PROVE  KlInv'
<1>1. PICK L : KlIs(L)
  BY DEF KlInv
<1>2. UNCHANGED <<knext, kprev, spliced>>
  BY DEF kernel
<1>3. KlList(knext', kprev', L) /\ spliced' \subseteq Heads /\ DOMAIN L = Heads \ spliced'
  BY <1>1, <1>2 DEF KlIs
<1>4. KlBecomes(L)
  BY <1>3, KlListed
<1>5. QED
  BY <1>4, KlListed DEF KlInv

(* The invariant is inductive.                                             *)
LEMMA ListsStep ==
  ASSUME IInv, [Next]_vars
  PROVE  IInv'
<1>1. CASE Ad!Next /\ UNCHANGED <<tailq, kernel>>
  BY <1>1, AdKeeps, TqAlone, KlAlone DEF IInv
<1>2. CASE Tq!Next /\ UNCHANGED <<adlist, kernel>>
  BY <1>2, AdAlone, TqSteps, KlAlone DEF IInv
<1>3. CASE Kl!Next /\ UNCHANGED <<adlist, tailq>>
  BY <1>3, AdAlone, TqAlone, KlSteps DEF IInv
<1>4. CASE UNCHANGED vars
  <2>1. UNCHANGED adlist /\ UNCHANGED tailq /\ UNCHANGED kernel
    BY <1>4 DEF vars, adlist, tailq, kernel
  <2>2. QED
    BY <2>1, AdAlone, TqAlone, KlAlone DEF IInv
<1>5. QED
  BY <1>1, <1>2, <1>3, <1>4 DEF Next

(* The invariant holds in every state.                                     *)
LEMMA ListsHold == Spec => []IInv
BY ListsStart, ListsStep, PTL DEF Spec

(* Pointer structures stay whole, whatever the calls and their order: the  *)
(* two ways to walk a list of adlist.c agree, no node is in two lists or   *)
(* in none, and TAILQ and list.h lists are rings without a stray pointer.  *)
THEOREM SpecWellLinked == Spec => []WellLinked
<1>1. IInv => WellLinked
  BY AdWellLinked, TqMirrors, KlRings DEF IInv, WellLinked
<1>2. QED
  BY <1>1, ListsHold, PTL

(* listNext, used as adlist.c allows it, returns every node once.          *)
THEOREM SpecIterationComplete == Spec => []IterationComplete
<1>1. IInv => IterationComplete
  BY AdIteration DEF IInv, IterationComplete
<1>2. QED
  BY <1>1, ListsHold, PTL

(* listIndex and listSearchKey find what the sequence of nodes says.       *)
THEOREM SpecLookupsAgree == Spec => []LookupsAgree
<1>1. IInv => LookupsAgree
  BY AdLookups DEF IInv, LookupsAgree
<1>2. QED
  BY <1>1, ListsHold, PTL

(* Every operation of the three kinds of list does to the sequence of      *)
(* elements what its name says, and leaves the other lists alone.          *)
THEOREM SpecIsSequence == Spec => IsSequence
<1>1. IInv /\ [Next]_vars => [Ad!Sequenced]_(Ad!vars)
  <2>1. SUFFICES ASSUME IInv, [Next]_vars, ~ UNCHANGED Ad!vars
                 PROVE  Ad!Sequenced
    OBVIOUS
  <2>2. Ad!Next
    BY <2>1 DEF Next, vars, adlist, Ad!vars
  <2>3. QED
    BY <2>1, <2>2, AdSequenced DEF IInv
<1>2. IInv => Tq!Sequenced /\ Kl!Sequenced
  BY TqSequenced, KlSequenced DEF IInv
<1>3. QED
  BY <1>1, <1>2, ListsHold, PTL DEF Spec, IsSequence, Ad!IsSequence, Tq!IsSequence, Kl!IsSequence

(* A listDup that returns gives a copy of the whole list or, when a node   *)
(* or the copy of a value cannot be had, nothing and no node; the original *)
(* is as it was.  When its iterator cannot be had it does not return.      *)
THEOREM SpecDupAllOrNothing == Spec => DupAllOrNothing
<1>1. IInv /\ [Next]_vars => [Ad!Duplicated]_(Ad!vars)
  <2>1. SUFFICES ASSUME IInv, [Next]_vars, ~ UNCHANGED Ad!vars
                 PROVE  Ad!Duplicated
    OBVIOUS
  <2>2. Ad!Next
    BY <2>1 DEF Next, vars, adlist, Ad!vars
  <2>3. QED
    BY <2>1, <2>2, AdSteps DEF IInv, AdInv
<1>2. QED
  BY <1>1, ListsHold, PTL DEF Spec, DupAllOrNothing, Ad!DupAllOrNothing
=============================================================================
