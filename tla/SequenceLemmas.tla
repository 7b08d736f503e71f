---------------------------- MODULE SequenceLemmas ----------------------------
(***************************************************************************)
(* Facts about numbers and sequences, in the form the proofs about the     *)
(* pool, the dict, the chat program and the lists use them.                *)
(***************************************************************************)
EXTENDS Integers, Sequences, SequencesExt, SequenceTheorems, FiniteSetTheorems,
        WellFoundedInduction, TLAPS

(* A non-empty set of natural numbers has a least one.                     *)
LEMMA LeastIsIn ==
  ASSUME NEW S, S \subseteq Nat, S # {}
  PROVE  Min(S) \in S /\ \A y \in S : Min(S) <= y
<1> DEFINE R == OpToRel(<, Nat)
<1>1. PICK x \in S : \A y \in S : ~ (<<y, x>> \in R)
  <2>1. IsWellFoundedOn(R, Nat)
    BY NatLessThanWellFounded
  <2> HIDE DEF R
  <2>2. QED
    BY <2>1, WFMin
<1>2. ASSUME NEW y \in S
      PROVE  x <= y
  <2>1. SUFFICES ASSUME y < x
                 PROVE  FALSE
    OBVIOUS
  <2>2. <<y, x>> \in R
    BY <2>1 DEF OpToRel
  <2>3. QED
    BY <1>1, <2>2
<1>3. QED
  BY <1>2 DEF Min

(* Induction, on a set of natural numbers.                                 *)
LEMMA NatSetInduction ==
  ASSUME NEW S, 0 \in S, \A n \in Nat : n \in S => n + 1 \in S
  PROVE  Nat \subseteq S
<1>1. SUFFICES ASSUME Nat \ S # {}
               PROVE  FALSE
  OBVIOUS
<1>2. PICK x \in Nat \ S : \A y \in Nat \ S : x <= y
  BY <1>1, LeastIsIn
<1>3. x # 0 /\ x - 1 \in Nat /\ (x - 1) + 1 = x /\ ~ (x <= x - 1)
  BY <1>2
<1>4. x - 1 \in S
  BY <1>2, <1>3
<1>5. QED
  BY <1>2, <1>3, <1>4

-----------------------------------------------------------------------------

(* No element comes twice.                                                 *)
Distinct(q) == \A i, j \in DOMAIN q : q[i] = q[j] => i = j

(* The elements of a sequence over a set are in the set.                   *)
LEMMA ElementsOf ==
  ASSUME NEW S, NEW q \in Seq(S)
  PROVE  ToSet(q) \subseteq S
<1>1. q \in [1 .. Len(q) -> S] /\ DOMAIN q = 1 .. Len(q)
  BY LenProperties
<1>2. QED
  BY <1>1 DEF ToSet

(* What TAILQ_REMOVE leaves of a queue.                                    *)
LEMMA RemoveAtFacts ==
  ASSUME NEW S, NEW q \in Seq(S), NEW i \in DOMAIN q
  PROVE  /\ RemoveAt(q, i) \in Seq(S)
         /\ Len(RemoveAt(q, i)) = Len(q) - 1
         /\ \A j \in DOMAIN RemoveAt(q, i) :
              RemoveAt(q, i)[j] = IF j < i THEN q[j] ELSE q[j + 1]
<1>1. /\ i \in 1 .. Len(q) /\ Len(q) \in Nat
      /\ q \in [1 .. Len(q) -> S]
  BY LenProperties
<1> DEFINE a == SubSeq(q, 1, i - 1)
           b == SubSeq(q, i + 1, Len(q))
<1>2. /\ a \in Seq(S) /\ Len(a) = i - 1
      /\ \A j \in 1 .. i - 1 : a[j] = q[j]
  <2>1. \A k \in 1 .. i - 1 : q[k] \in S
    BY <1>1
  <2>2. QED
    BY <1>1, <2>1, SubSeqProperties
<1>3. /\ b \in Seq(S) /\ Len(b) = Len(q) - i
      /\ \A j \in 1 .. Len(q) - i : b[j] = q[i + j]
  <2>1. i + 1 \in Int /\ Len(q) \in Int /\ \A k \in i + 1 .. Len(q) : q[k] \in S
    BY <1>1
  <2>2. /\ b \in Seq(S)
        /\ Len(b) = IF i + 1 <= Len(q) THEN Len(q) - (i + 1) + 1 ELSE 0
        /\ \A j \in 1 .. Len(q) - (i + 1) + 1 : b[j] = q[i + 1 + j - 1]
    BY <2>1, SubSeqProperties
  <2> HIDE DEF b
  <2>3. Len(b) = Len(q) - i
    BY <1>1, <2>2
  <2>4. ASSUME NEW j \in 1 .. Len(q) - i
        PROVE  b[j] = q[i + j]
    <3>1. i + 1 + j - 1 = i + j /\ j \in 1 .. Len(q) - (i + 1) + 1
      BY <1>1
    <3>2. QED
      BY <2>2, <3>1
  <2>5. QED
    BY <2>2, <2>3, <2>4
<1>4. /\ a \o b \in Seq(S) /\ Len(a \o b) = Len(q) - 1
      /\ \A j \in 1 .. Len(q) - 1 :
           (a \o b)[j] = IF j <= i - 1 THEN a[j] ELSE b[j - (i - 1)]
  <2> HIDE DEF a, b
  <2>1. /\ a \o b \in Seq(S) /\ Len(a \o b) = Len(a) + Len(b)
        /\ \A j \in 1 .. Len(a) + Len(b) :
             (a \o b)[j] = IF j <= Len(a) THEN a[j] ELSE b[j - Len(a)]
    BY <1>2, <1>3, ConcatProperties
  <2>2. QED
    BY <1>1, <1>2, <1>3, <2>1
<1> HIDE DEF a, b
<1>5. ASSUME NEW j \in 1 .. Len(q) - 1
      PROVE  (a \o b)[j] = IF j < i THEN q[j] ELSE q[j + 1]
  <2>1. CASE j < i
    BY <1>1, <1>2, <1>4, <2>1
  <2>2. CASE ~(j < i)
    <3>1. j - (i - 1) \in 1 .. Len(q) - i /\ i + (j - (i - 1)) = j + 1
      BY <1>1, <2>2
    <3>2. (a \o b)[j] = b[j - (i - 1)]
      <4>1. ~(j <= i - 1)
        BY <1>1, <2>2
      <4>2. QED
        BY <1>4, <4>1
    <3>3. QED
      BY <1>3, <2>2, <3>1, <3>2
  <2>3. QED
    BY <2>1, <2>2
<1>6. RemoveAt(q, i) = a \o b
  BY DEF RemoveAt, a, b
<1>7. QED
  BY <1>1, <1>4, <1>5, <1>6, LenProperties

(* What TAILQ_REMOVE of the first task leaves.                             *)
LEMMA TailTakesHead ==
  ASSUME NEW S, NEW q \in Seq(S), q # << >>, Distinct(q)
  PROVE  /\ Head(q) \in ToSet(q)
         /\ ToSet(Tail(q)) = ToSet(q) \ {Head(q)}
         /\ Distinct(Tail(q))
<1>1. /\ Len(q) \in Nat \ {0} /\ DOMAIN q = 1 .. Len(q)
      /\ Tail(q) \in Seq(S) /\ Len(Tail(q)) = Len(q) - 1
      /\ DOMAIN Tail(q) = 1 .. Len(q) - 1
      /\ \A i \in 1 .. Len(q) - 1 : Tail(q)[i] = q[i + 1]
      /\ Head(q) = q[1]
  BY HeadTailProperties, EmptySeq, LenProperties
<1> HIDE DEF Distinct
<1>2. Distinct(Tail(q))
  BY <1>1 DEF Distinct
<1>3. ASSUME NEW i \in 2 .. Len(q)
      PROVE  q[i] = Tail(q)[i - 1] /\ i - 1 \in DOMAIN Tail(q) /\ q[i] # Head(q)
  BY <1>1 DEF Distinct
<1>4. ToSet(q) \ {Head(q)} \subseteq ToSet(Tail(q))
  <2>1. SUFFICES ASSUME NEW i \in 1 .. Len(q), q[i] # q[1]
                 PROVE  q[i] \in ToSet(Tail(q))
    BY <1>1 DEF ToSet
  <2>2. i \in 2 .. Len(q)
    BY <1>1, <2>1
  <2>3. QED
    BY <1>3, <2>2 DEF ToSet
<1>5. ToSet(Tail(q)) \subseteq ToSet(q) \ {Head(q)}
  <2>1. SUFFICES ASSUME NEW i \in 1 .. Len(q) - 1
                 PROVE  q[i + 1] \in ToSet(q) /\ q[i + 1] # Head(q)
    BY <1>1 DEF ToSet
  <2>2. i + 1 \in 2 .. Len(q) /\ i + 1 \in DOMAIN q
    BY <1>1
  <2>3. QED
    BY <1>3, <2>2 DEF ToSet
<1>6. Head(q) \in ToSet(q)
  BY <1>1 DEF ToSet
<1>7. QED
  BY <1>2, <1>4, <1>5, <1>6

(* What TAILQ_INSERT_TAIL makes of a queue.                                *)
LEMMA AppendAdds ==
  ASSUME NEW S, NEW q \in Seq(S), NEW t \in S, t \notin ToSet(q), Distinct(q)
  PROVE  /\ ToSet(Append(q, t)) = ToSet(q) \cup {t}
         /\ Distinct(Append(q, t))
<1>1. /\ Len(q) \in Nat /\ DOMAIN q = 1 .. Len(q)
      /\ DOMAIN Append(q, t) = 1 .. Len(q) + 1
      /\ \A i \in 1 .. Len(q) : Append(q, t)[i] = q[i]
      /\ Append(q, t)[Len(q) + 1] = t
  BY AppendProperties, LenProperties
<1>2. \A i \in 1 .. Len(q) : q[i] # t
  BY <1>1 DEF ToSet
<1>3. Distinct(Append(q, t))
  BY <1>1, <1>2 DEF Distinct
<1>4. ToSet(Append(q, t)) = ToSet(q) \cup {t}
  BY <1>1 DEF ToSet
<1>5. QED
  BY <1>3, <1>4

(* TAILQ_REMOVE takes its task away and no other.                          *)
LEMMA RemoveTakesOne ==
  ASSUME NEW S, NEW q \in Seq(S), NEW k \in DOMAIN q, Distinct(q)
  PROVE  /\ ToSet(RemoveAt(q, k)) = ToSet(q) \ {q[k]}
         /\ Distinct(RemoveAt(q, k))
<1> DEFINE r == RemoveAt(q, k)
<1>1. /\ Len(q) \in Nat /\ DOMAIN q = 1 .. Len(q)
      /\ DOMAIN r = 1 .. Len(q) - 1
      /\ \A j \in 1 .. Len(q) - 1 : r[j] = IF j < k THEN q[j] ELSE q[j + 1]
  BY RemoveAtFacts, LenProperties
<1> HIDE DEF r
<1>2. Distinct(r)
  <2>1. SUFFICES ASSUME NEW i \in 1 .. Len(q) - 1, NEW j \in 1 .. Len(q) - 1,
                        r[i] = r[j]
                 PROVE  i = j
    BY <1>1 DEF Distinct
  <2>2. PICK a \in {i, i + 1}, b \in {j, j + 1} :
          /\ q[a] = q[b] /\ (a = i <=> i < k) /\ (b = j <=> j < k)
    BY <1>1, <2>1
  <2>3. a \in 1 .. Len(q) /\ b \in 1 .. Len(q)
    BY <1>1
  <2>4. a = b
    BY <1>1, <2>2, <2>3 DEF Distinct
  <2>5. QED
    BY <1>1, <2>2, <2>4
<1>3. ToSet(r) \subseteq ToSet(q) \ {q[k]}
  <2>1. SUFFICES ASSUME NEW j \in 1 .. Len(q) - 1
                 PROVE  r[j] \in ToSet(q) /\ r[j] # q[k]
    BY <1>1 DEF ToSet
  <2>2. PICK a \in {j, j + 1} : r[j] = q[a] /\ a # k
    BY <1>1
  <2>3. a \in 1 .. Len(q)
    BY <1>1
  <2>4. QED
    BY <1>1, <2>2, <2>3 DEF ToSet, Distinct
<1>4. ToSet(q) \ {q[k]} \subseteq ToSet(r)
  <2>1. SUFFICES ASSUME NEW i \in 1 .. Len(q), i # k
                 PROVE  q[i] \in ToSet(r)
    BY <1>1 DEF ToSet
  <2>2. CASE i < k
    <3>1. i \in 1 .. Len(q) - 1 /\ r[i] = q[i]
      BY <1>1, <2>2
    <3>2. QED
      BY <1>1, <3>1 DEF ToSet
  <2>3. CASE i > k
    <3>1. i - 1 \in 1 .. Len(q) - 1 /\ ~(i - 1 < k) /\ i - 1 + 1 = i
      BY <1>1, <2>3
    <3>2. r[i - 1] = q[i]
      BY <1>1, <3>1
    <3>3. QED
      BY <1>1, <3>1, <3>2 DEF ToSet
  <2>4. QED
    BY <1>1, <2>1, <2>2, <2>3
<1>5. QED
  BY <1>2, <1>3, <1>4 DEF r

(* What an insertion at the front makes of a chain.                        *)
LEMMA PushAdds ==
  ASSUME NEW S, NEW q \in Seq(S), NEW t \in S, t \notin ToSet(q), Distinct(q)
  PROVE  /\ <<t>> \o q \in Seq(S)
         /\ ToSet(<<t>> \o q) = ToSet(q) \cup {t}
         /\ Distinct(<<t>> \o q)
         /\ Len(<<t>> \o q) = Len(q) + 1 /\ (<<t>> \o q)[1] = t
         /\ \A x \in 1 .. Len(q) : (<<t>> \o q)[x + 1] = q[x]
<1> DEFINE r == <<t>> \o q
<1>1. /\ <<t>> \in Seq(S) /\ Len(<<t>>) = 1 /\ <<t>>[1] = t
      /\ Len(q) \in Nat /\ DOMAIN q = 1 .. Len(q)
  BY LenProperties
<1>2. /\ r \in Seq(S) /\ Len(r) = 1 + Len(q)
      /\ \A i \in 1 .. Len(q) + 1 : r[i] = IF i <= 1 THEN <<t>>[i] ELSE q[i - 1]
  BY <1>1, ConcatProperties
<1> HIDE DEF r
<1>3. DOMAIN r = 1 .. Len(q) + 1
  BY <1>1, <1>2, LenProperties
<1>4. r[1] = t
  BY <1>1, <1>2
<1>5. ASSUME NEW i \in 1 .. Len(q)
      PROVE  r[i + 1] = q[i] /\ q[i] # t
  <2>1. i + 1 \in 1 .. Len(q) + 1 /\ ~(i + 1 <= 1) /\ (i + 1) - 1 = i
    BY <1>1
  <2>2. r[i + 1] = q[(i + 1) - 1]
    BY <1>2, <2>1
  <2>3. QED
    BY <1>1, <2>1, <2>2 DEF ToSet
<1>6. ASSUME NEW i \in DOMAIN r
      PROVE  \/ i = 1 /\ r[i] = t
             \/ i - 1 \in DOMAIN q /\ r[i] = q[i - 1] /\ q[i - 1] # t
  <2>1. CASE i = 1
    BY <1>4, <2>1
  <2>2. CASE i # 1
    <3>1. i - 1 \in 1 .. Len(q) /\ (i - 1) + 1 = i
      BY <1>1, <1>3, <2>2
    <3>2. QED
      BY <1>1, <1>5, <3>1
  <2>3. QED
    BY <2>1, <2>2
<1>7. ToSet(r) \subseteq ToSet(q) \cup {t}
  BY <1>6 DEF ToSet
<1>8. ToSet(q) \cup {t} \subseteq ToSet(r)
  <2>1. t \in ToSet(r)
    BY <1>1, <1>3, <1>4 DEF ToSet
  <2>2. ASSUME NEW i \in 1 .. Len(q)
        PROVE  q[i] \in ToSet(r)
    <3>1. i + 1 \in DOMAIN r
      BY <1>1, <1>3
    <3>2. QED
      BY <1>5, <3>1 DEF ToSet
  <2>3. QED
    BY <1>1, <2>1, <2>2 DEF ToSet
<1>9. Distinct(r)
  <2>1. SUFFICES ASSUME NEW i \in DOMAIN r, NEW j \in DOMAIN r, r[i] = r[j]
                 PROVE  i = j
    BY DEF Distinct
  <2>2. i \in Int /\ j \in Int
    BY <1>3
  <2>3. i - 1 \in DOMAIN q /\ j - 1 \in DOMAIN q /\ q[i - 1] = q[j - 1] => i - 1 = j - 1
    BY DEF Distinct
  <2>4. QED
    BY <1>6, <2>1, <2>2, <2>3
<1>10. r \in Seq(S) /\ ToSet(r) = ToSet(q) \cup {t} /\ Distinct(r)
  BY <1>2, <1>7, <1>8, <1>9
<1>11. Len(r) = Len(q) + 1 /\ r[1] = t /\ \A x \in 1 .. Len(q) : r[x + 1] = q[x]
  BY <1>1, <1>2, <1>4, <1>5
<1>12. QED
  BY <1>10, <1>11 DEF r

(* A sequence without repetitions has as many elements as places.          *)
LEMMA DistinctCounts ==
  ASSUME NEW S, NEW q \in Seq(S), Distinct(q)
  PROVE  IsFiniteSet(ToSet(q)) /\ Cardinality(ToSet(q)) = Len(q)
<1>1. Len(q) \in Nat /\ DOMAIN q = 1 .. Len(q) /\ q \in [1 .. Len(q) -> S]
  BY LenProperties
<1>2. q \in [1 .. Len(q) -> ToSet(q)]
  BY <1>1 DEF ToSet
<1>3. q \in Bijection(1 .. Len(q), ToSet(q))
  <2>1. \A i, j \in 1 .. Len(q) : q[i] = q[j] => i = j
    BY <1>1 DEF Distinct
  <2>2. \A k \in ToSet(q) : \E i \in 1 .. Len(q) : q[i] = k
    BY <1>1 DEF ToSet
  <2>3. QED
    BY <1>2, <2>1, <2>2 DEF Bijection, Injection, Surjection, IsInjective
<1>4. ExistsBijection(1 .. Len(q), ToSet(q))
  BY <1>3 DEF ExistsBijection
<1>5. QED
  BY <1>1, <1>4, FS_CountingElements, FS_NatBijection

(* Appending to the short sequences of reports.                            *)
LEMMA JoinedTuples ==
  ASSUME NEW a, NEW b, NEW c
  PROVE  <<a>> \o <<b>> = <<a, b>> /\ <<a>> \o <<b, c>> = <<a, b, c>>
<1> DEFINE S == {a, b, c}
<1>1. <<a>> \in Seq(S) /\ <<b>> \in Seq(S) /\ <<b, c>> \in Seq(S)
      /\ <<a, b>> \in Seq(S) /\ <<a, b, c>> \in Seq(S)
  OBVIOUS
<1>2. <<a>> \o <<b>> = <<a, b>>
  <2>1. /\ <<a>> \o <<b>> \in Seq(S) /\ Len(<<a>> \o <<b>>) = 2
        /\ \A i \in 1 .. 2 : (<<a>> \o <<b>>)[i] = IF i <= 1 THEN <<a>>[i] ELSE <<b>>[i - 1]
    BY <1>1, ConcatProperties
  <2> DEFINE p == <<a>> \o <<b>>
  <2> HIDE DEF p
  <2>2. p[1] = a /\ p[2] = b
    BY <2>1 DEF p
  <2>3. Len(p) = Len(<<a, b>>) /\ \A i \in 1 .. Len(p) : p[i] = <<a, b>>[i]
    BY <2>1, <2>2 DEF p
  <2>4. QED
    BY <1>1, <2>1, <2>3, SeqEqual DEF p
<1>3. <<a>> \o <<b, c>> = <<a, b, c>>
  <2>1. /\ <<a>> \o <<b, c>> \in Seq(S) /\ Len(<<a>> \o <<b, c>>) = 3
        /\ \A i \in 1 .. 3 : (<<a>> \o <<b, c>>)[i] = IF i <= 1 THEN <<a>>[i] ELSE <<b, c>>[i - 1]
    BY <1>1, ConcatProperties
  <2> DEFINE p == <<a>> \o <<b, c>>
  <2> HIDE DEF p
  <2>2. p[1] = a /\ p[2] = b /\ p[3] = c
    BY <2>1 DEF p
  <2>3. Len(p) = Len(<<a, b, c>>) /\ \A i \in 1 .. Len(p) : p[i] = <<a, b, c>>[i]
    BY <2>1, <2>2 DEF p
  <2>4. QED
    BY <1>1, <2>1, <2>3, SeqEqual DEF p
<1>4. QED
  BY <1>2, <1>3

(* r is q with e inserted at p, which moves up what was there and after.   *)
Inserted(S, q, p, e, r) ==
  /\ r \in Seq(S) /\ Len(r) = Len(q) + 1 /\ r[p] = e
  /\ \A j \in 1 .. p - 1 : r[j] = q[j]
  /\ \A j \in p .. Len(q) : r[j + 1] = q[j]

(* What InsertAt makes of a sequence.                                      *)
LEMMA InsertAtFacts ==
  ASSUME NEW S, NEW q, NEW p, NEW e, q \in Seq(S), p \in 1 .. Len(q) + 1, e \in S
  PROVE  Inserted(S, q, p, e, InsertAt(q, p, e))
<1>a. PICK i : i = p - 1
  OBVIOUS
<1>b. Len(q) \in Nat /\ i \in Nat /\ i <= Len(q) /\ p = i + 1
  BY <1>a
<1>1. Len(q) \in Nat /\ q \in [1 .. Len(q) -> S] /\ i \in Nat /\ i <= Len(q)
  BY <1>b, LenProperties
<1> DEFINE a == SubSeq(q, 1, i)
           b == SubSeq(q, i + 1, Len(q))
<1>2. a \in Seq(S) /\ Len(a) = i /\ \A j \in 1 .. i : a[j] = q[j]
  <2>1. \A k \in 1 .. i : q[k] \in S
    BY <1>1
  <2>2. QED
    BY <1>1, <2>1, SubSeqProperties
<1>3. /\ b \in Seq(S) /\ Len(b) = Len(q) - i
      /\ \A j \in i + 1 .. Len(q) : b[j - i] = q[j]
  <2>1. \A k \in i + 1 .. Len(q) : q[k] \in S
    BY <1>1
  <2>2. /\ b \in Seq(S)
        /\ Len(b) = IF i + 1 <= Len(q) THEN Len(q) - (i + 1) + 1 ELSE 0
        /\ \A j \in 1 .. Len(q) - (i + 1) + 1 : b[j] = q[i + 1 + j - 1]
    BY <1>1, <2>1, SubSeqProperties
  <2> HIDE DEF b
  <2>3. Len(b) = Len(q) - i
    <3>1. CASE i + 1 <= Len(q)
      BY <1>1, <2>2, <3>1
    <3>2. CASE i = Len(q)
      BY <1>1, <2>2, <3>2
    <3>3. i + 1 <= Len(q) \/ i = Len(q)
      BY <1>b
    <3>4. QED
      BY <3>1, <3>2, <3>3
  <2>4. ASSUME NEW j \in i + 1 .. Len(q)
        PROVE  b[j - i] = q[j]
    <3>1. j - i \in 1 .. Len(q) - (i + 1) + 1 /\ i + 1 + (j - i) - 1 = j
      BY <1>1
    <3>2. QED
      BY <2>2, <3>1
  <2>5. QED
    BY <2>2, <2>3, <2>4
<1> HIDE DEF a, b
<1> DEFINE c == a \o <<e>>
<1>4. c \in Seq(S) /\ Len(c) = i + 1 /\ c[i + 1] = e /\ \A j \in 1 .. i : c[j] = q[j]
  <2>1. <<e>> \in Seq(S) /\ Len(<<e>>) = 1 /\ <<e>>[1] = e
    OBVIOUS
  <2>2. /\ c \in Seq(S) /\ Len(c) = i + 1
        /\ \A j \in 1 .. i + 1 : c[j] = IF j <= i THEN a[j] ELSE <<e>>[j - i]
    BY <1>2, <2>1, ConcatProperties
  <2> HIDE DEF c
  <2>3. c[i + 1] = e
    <3>1. i + 1 \in 1 .. i + 1 /\ ~(i + 1 <= i) /\ (i + 1) - i = 1
      BY <1>1
    <3>2. c[i + 1] = <<e>>[(i + 1) - i]
      BY <2>2, <3>1
    <3>3. QED
      BY <2>1, <3>1, <3>2
  <2>4. QED
    BY <1>1, <1>2, <2>2, <2>3
<1> HIDE DEF c
<1> DEFINE r == c \o b
<1>5. /\ r \in Seq(S) /\ Len(r) = (i + 1) + (Len(q) - i)
      /\ \A j \in 1 .. (i + 1) + (Len(q) - i) : r[j] = IF j <= i + 1 THEN c[j] ELSE b[j - (i + 1)]
  <2>1. /\ r \in Seq(S) /\ Len(r) = Len(c) + Len(b)
        /\ \A j \in 1 .. Len(c) + Len(b) : r[j] = IF j <= Len(c) THEN c[j] ELSE b[j - Len(c)]
    BY <1>3, <1>4, ConcatProperties
  <2> HIDE DEF r
  <2>2. QED
    BY <1>3, <1>4, <2>1
<1>6. InsertAt(q, i + 1, e) = r
  <2>1. (i + 1) - 1 = i
    BY <1>1
  <2>2. InsertAt(q, i + 1, e) = SubSeq(q, 1, (i + 1) - 1) \o <<e>> \o b
    BY DEF InsertAt, b
  <2>3. QED
    BY <2>1, <2>2 DEF a, c
<1> HIDE DEF r
<1>7. Len(r) = Len(q) + 1
  BY <1>1, <1>5
<1>8. r[i + 1] = e /\ \A j \in 1 .. i : r[j] = q[j]
  <2>1. ASSUME NEW j \in 1 .. i + 1
        PROVE  r[j] = c[j]
    <3>1. j \in 1 .. (i + 1) + (Len(q) - i) /\ j <= i + 1
      BY <1>b
    <3>2. QED
      BY <1>5, <3>1
  <2>2. i + 1 \in 1 .. i + 1 /\ \A j \in 1 .. i : j \in 1 .. i + 1
    BY <1>b
  <2>3. QED
    BY <1>4, <2>1, <2>2
<1>9. ASSUME NEW j \in i + 1 .. Len(q)
      PROVE  r[j + 1] = q[j]
  <2>1. /\ j + 1 \in 1 .. (i + 1) + (Len(q) - i) /\ ~(j + 1 <= i + 1)
        /\ (j + 1) - (i + 1) = j - i
    BY <1>1
  <2>2. r[j + 1] = b[(j + 1) - (i + 1)]
    BY <1>5, <2>1
  <2>3. QED
    BY <1>3, <2>1, <2>2
<1>10. QED
  BY <1>a, <1>b, <1>5, <1>6, <1>7, <1>8, <1>9 DEF Inserted

(* And adds its element to the others.                                     *)
LEMMA InsertAdds ==
  ASSUME NEW S, NEW q, NEW p, NEW e, q \in Seq(S), Distinct(q),
         p \in 1 .. Len(q) + 1, e \in S, e \notin ToSet(q)
  PROVE  /\ ToSet(InsertAt(q, p, e)) = ToSet(q) \cup {e}
         /\ Distinct(InsertAt(q, p, e))
<1> DEFINE r == InsertAt(q, p, e)
<1>a. PICK i : i = p - 1
  OBVIOUS
<1>b. Len(q) \in Nat /\ i \in Nat /\ i <= Len(q) /\ p = i + 1
  BY <1>a
<1>1. /\ r \in Seq(S) /\ Len(r) = Len(q) + 1 /\ r[i + 1] = e
      /\ \A j \in 1 .. i : r[j] = q[j]
      /\ \A j \in i + 1 .. Len(q) : r[j + 1] = q[j]
  <2>1. Inserted(S, q, p, e, r)
    BY InsertAtFacts
  <2> HIDE DEF r
  <2>2. QED
    BY <1>a, <1>b, <2>1 DEF Inserted
<1> HIDE DEF r
<1>2. /\ Len(q) \in Nat /\ DOMAIN q = 1 .. Len(q) /\ DOMAIN r = 1 .. Len(q) + 1
      /\ i \in Nat /\ i <= Len(q)
  BY <1>1, <1>b, LenProperties
<1>3. ASSUME NEW j \in DOMAIN r
      PROVE  \/ j = i + 1 /\ r[j] = e
             \/ j \in 1 .. i /\ j \in DOMAIN q /\ r[j] = q[j]
             \/ j > i + 1 /\ j - 1 \in DOMAIN q /\ r[j] = q[j - 1]
  <2>1. CASE j = i + 1
    BY <1>1, <2>1
  <2>2. CASE j <= i
    BY <1>1, <1>2, <2>2
  <2>3. CASE j > i + 1
    <3>1. j - 1 \in i + 1 .. Len(q) /\ (j - 1) + 1 = j
      BY <1>2, <2>3
    <3>2. r[(j - 1) + 1] = q[j - 1]
      BY <1>1, <3>1
    <3>3. QED
      BY <1>2, <2>3, <3>1, <3>2
  <2>4. QED
    BY <1>2, <2>1, <2>2, <2>3
<1>4. \A j \in DOMAIN q : q[j] # e
  BY DEF ToSet
<1>5. ToSet(r) \subseteq ToSet(q) \cup {e}
  <2>1. SUFFICES ASSUME NEW j \in DOMAIN r
                 PROVE  r[j] \in ToSet(q) \cup {e}
    BY DEF ToSet
  <2>2. QED
    BY <1>3 DEF ToSet
<1>6. ToSet(q) \cup {e} \subseteq ToSet(r)
  <2>1. i + 1 \in DOMAIN r
    BY <1>2
  <2>2. ASSUME NEW j \in DOMAIN q
        PROVE  q[j] \in ToSet(r)
    <3>1. CASE j <= i
      BY <1>1, <1>2, <3>1 DEF ToSet
    <3>2. CASE j > i
      <4>1. j \in i + 1 .. Len(q) /\ j + 1 \in DOMAIN r
        BY <1>2, <3>2
      <4>2. r[j + 1] = q[j]
        BY <1>1, <4>1
      <4>3. QED
        BY <4>1, <4>2 DEF ToSet
    <3>3. QED
      BY <1>2, <3>1, <3>2
  <2>3. QED
    BY <1>1, <2>1, <2>2 DEF ToSet
<1>7. Distinct(r)
  <2>1. SUFFICES ASSUME NEW j \in DOMAIN r, NEW k \in DOMAIN r, r[j] = r[k]
                 PROVE  j = k
    BY DEF Distinct
  <2>2. \A x, y \in DOMAIN q : q[x] = q[y] => x = y
    BY DEF Distinct
  <2>3. j \in Int /\ k \in Int
    BY <1>2
  <2>4. PICK x, y : x = j - 1 /\ y = k - 1
    OBVIOUS
  <2>5. \/ j = i + 1 /\ r[j] = e
        \/ j \in 1 .. i /\ j \in DOMAIN q /\ r[j] = q[j]
        \/ j > i + 1 /\ x \in DOMAIN q /\ r[j] = q[x]
    BY <1>3, <2>4
  <2>6. \/ k = i + 1 /\ r[k] = e
        \/ k \in 1 .. i /\ k \in DOMAIN q /\ r[k] = q[k]
        \/ k > i + 1 /\ y \in DOMAIN q /\ r[k] = q[y]
    BY <1>3, <2>4
  <2>7. QED
    BY <1>2, <1>4, <2>1, <2>2, <2>3, <2>4, <2>5, <2>6
<1>8. QED
  BY <1>5, <1>6, <1>7 DEF r

=============================================================================
