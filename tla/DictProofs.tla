------------------------------ MODULE DictProofs ------------------------------
(***************************************************************************)
(* Proofs about util/dict.c, for any finite set of keys, any hash          *)
(* function, and any sizes that the calls ask for.                         *)
(***************************************************************************)
EXTENDS Dict, SequenceLemmas

-----------------------------------------------------------------------------
(* Functions made step by step *)

(* f[i + 1] is made of i and f[i] by g, and f[0] is a.                     *)
Made(f, a, g, N) ==
  /\ f \in [0 .. N -> Nat] /\ f[0] = a
  /\ \A i \in 0 .. N - 1 : f[i + 1] = g[<<i, f[i]>>]

(* There is such a function for every step g: what a recursive definition  *)
(* of a function says has a solution.                                      *)
LEMMA Recursion ==
  ASSUME NEW a \in Nat, NEW g \in [Nat \X Nat -> Nat], NEW N \in Nat
  PROVE  \E f : Made(f, a, g, N)
<1> DEFINE Upto(f, n) == f[0] = a /\ \A i \in 0 .. n - 1 : f[i + 1] = g[<<i, f[i]>>]
           R == {n \in Nat : \E f \in [0 .. n -> Nat] : Upto(f, n)}
<1>1. 0 \in R
  <2>1. PICK f : f = [i \in 0 .. 0 |-> a]
    OBVIOUS
  <2>2. f \in [0 .. 0 -> Nat] /\ Upto(f, 0)
    BY <2>1
  <2>3. QED
    BY <2>2
<1>2. ASSUME NEW n \in Nat, n \in R
      PROVE  n + 1 \in R
  <2>1. PICK f \in [0 .. n -> Nat] : Upto(f, n)
    BY <1>2
  <2>2. f[n] \in Nat
    OBVIOUS
  <2>3. PICK x \in Nat : x = g[<<n, f[n]>>]
    BY <2>2
  <2>4. PICK h : h = [i \in 0 .. n + 1 |-> IF i = n + 1 THEN x ELSE f[i]]
    OBVIOUS
  <2>5. h \in [0 .. n + 1 -> Nat]
    BY <2>4
  <2>6. \A i \in 0 .. n : h[i] = f[i]
    BY <2>4
  <2>7. h[n + 1] = x /\ h[0] = a
    BY <2>1, <2>4
  <2>8. ASSUME NEW i \in 0 .. n
        PROVE  h[i + 1] = g[<<i, h[i]>>]
    <3>1. CASE i = n
      BY <2>3, <2>6, <2>7, <3>1
    <3>2. CASE i # n
      <4>1. i \in 0 .. n - 1 /\ i + 1 \in 0 .. n
        BY <3>2
      <4>2. f[i + 1] = g[<<i, f[i]>>]
        BY <2>1, <4>1
      <4>3. QED
        BY <2>6, <4>1, <4>2
    <3>3. QED
      BY <3>1, <3>2
  <2>9. Upto(h, n + 1)
    BY <2>7, <2>8
  <2> HIDE DEF Upto
  <2>10. QED
    BY <2>5, <2>9
<1> HIDE DEF Upto, R
<1>3. N \in R
  BY <1>1, <1>2, NatSetInduction
<1>4. QED
  BY <1>3 DEF R, Upto, Made

-----------------------------------------------------------------------------
(* Powers of two *)

(* What Two is.                                                            *)
LEMMA TwoIs ==
  /\ Two \in [0 .. WordBits -> Nat] /\ Two[0] = 1
  /\ \A i \in 0 .. WordBits - 1 : Two[i + 1] = 2 * Two[i]
<1>1. PICK g : g = [p \in Nat \X Nat |-> 2 * p[2]]
  OBVIOUS
<1>2. g \in [Nat \X Nat -> Nat] /\ \A i, x \in Nat : g[<<i, x>>] = 2 * x
  BY <1>1
<1>3. PICK f \in [0 .. WordBits -> Nat] :
        f[0] = 1 /\ \A i \in 0 .. WordBits - 1 : f[i + 1] = g[<<i, f[i]>>]
  <2>1. 1 \in Nat /\ g \in [Nat \X Nat -> Nat] /\ WordBits \in Nat
    BY <1>2, WordAssumption
  <2>2. PICK f : Made(f, 1, g, WordBits)
    BY <2>1, Recursion
  <2>3. QED
    BY <2>2 DEF Made
<1>4. ASSUME NEW i \in 0 .. WordBits
      PROVE  f[i] = IF i = 0 THEN 1 ELSE 2 * f[i - 1]
  <2>1. CASE i = 0
    BY <1>3, <2>1
  <2>2. CASE i # 0
    <3>1. PICK j \in 0 .. WordBits - 1 : i = j + 1
      BY <2>2, WordAssumption
    <3>2. f[j + 1] = g[<<j, f[j]>>] /\ f[j] \in Nat /\ j \in Nat /\ i - 1 = j
      BY <1>3, <3>1, WordAssumption
    <3>3. QED
      BY <1>2, <2>2, <3>1, <3>2
  <2>3. QED
    BY <2>1, <2>2
<1>5. f = [i \in 0 .. WordBits |-> IF i = 0 THEN 1 ELSE 2 * f[i - 1]]
  BY <1>4
<1>6. Two = [i \in 0 .. WordBits |-> IF i = 0 THEN 1 ELSE 2 * Two[i - 1]]
  BY <1>5 DEF Two
<1>7. ASSUME NEW i \in 0 .. WordBits - 1
      PROVE  Two[i + 1] = 2 * Two[i]
  BY <1>6, WordAssumption
<1>8. Two[0] = 1
  BY <1>6, WordAssumption
<1>9. DOMAIN Two = 0 .. WordBits
  BY <1>6
<1>10. \A i \in 0 .. WordBits : Two[i] \in Nat
  <2> DEFINE R == {n \in Nat : n <= WordBits => Two[n] \in Nat}
  <2>1. 0 \in R
    BY <1>8
  <2>2. ASSUME NEW n \in Nat, n \in R
        PROVE  n + 1 \in R
    BY <1>7, <2>2, WordAssumption
  <2> HIDE DEF R
  <2>3. Nat \subseteq R
    BY <2>1, <2>2, NatSetInduction
  <2>4. QED
    BY <2>3, WordAssumption DEF R
<1>11. Two = [i \in 0 .. WordBits |-> Two[i]]
  BY <1>6, <1>9
<1>12. QED
  BY <1>7, <1>8, <1>10, <1>11

(* The powers of two are numbers that grow, and multiply each other.       *)
LEMMA TwoFacts ==
  /\ WordBits \in Nat /\ Word \in Nat \ {0}
  /\ \A n \in 0 .. WordBits : Two[n] \in Nat /\ Two[n] >= 1 /\ Two[n] <= Word
<1>1. WordBits \in Nat /\ \A n \in 0 .. WordBits : Two[n] \in Nat
  BY TwoIs, WordAssumption
<1> DEFINE R == {n \in Nat : n <= WordBits => Two[n] >= 1}
           Q == {n \in Nat : n <= WordBits => Two[WordBits - n] <= Word}
<1>2. Nat \subseteq R
  <2>1. 0 \in R
    BY TwoIs
  <2>2. ASSUME NEW n \in Nat, n \in R
        PROVE  n + 1 \in R
    <3>1. CASE n + 1 <= WordBits
      <4>1. n \in 0 .. WordBits - 1 /\ Two[n] >= 1 /\ Two[n] \in Nat
        BY <1>1, <2>2, <3>1
      <4>2. Two[n + 1] = 2 * Two[n]
        BY <4>1, TwoIs
      <4>3. QED
        BY <4>1, <4>2
    <3>2. QED
      BY <3>1
  <2> HIDE DEF R
  <2>3. QED
    BY <2>1, <2>2, NatSetInduction
<1>3. Nat \subseteq Q
  <2>1. 0 \in Q
    BY <1>1 DEF Word
  <2>2. ASSUME NEW n \in Nat, n \in Q
        PROVE  n + 1 \in Q
    <3>1. CASE n + 1 <= WordBits
      <4>1. PICK m \in 0 .. WordBits - 1 : m = WordBits - (n + 1)
        BY <1>1, <3>1
      <4>2. m + 1 = WordBits - n /\ Two[m + 1] = 2 * Two[m]
        BY <1>1, <4>1, TwoIs
      <4>3. Two[m + 1] <= Word /\ Two[m] \in Nat /\ Word \in Nat
        BY <1>1, <2>2, <3>1, <4>1, <4>2 DEF Word
      <4>4. QED
        BY <4>1, <4>2, <4>3
    <3>2. QED
      BY <3>1
  <2> HIDE DEF Q
  <2>3. QED
    BY <2>1, <2>2, NatSetInduction
<1>4. ASSUME NEW n \in 0 .. WordBits
      PROVE  Two[n] >= 1 /\ Two[n] <= Word
  <2>1. n \in R /\ WordBits - n \in Q
    BY <1>1, <1>2, <1>3
  <2>2. WordBits - (WordBits - n) = n
    BY <1>1
  <2>3. QED
    BY <1>1, <2>1, <2>2
<1>5. Word \in Nat \ {0}
  BY <1>1, <1>4 DEF Word
<1>6. QED
  BY <1>1, <1>4, <1>5

(* A power of two divides the greater ones.                                *)
LEMMA TwoTimes ==
  ASSUME NEW n \in 0 .. WordBits, NEW m \in n .. WordBits
  PROVE  Two[m] = Two[m - n] * Two[n]
<1> DEFINE R == {i \in Nat : n + i <= WordBits => Two[n + i] = Two[i] * Two[n]}
<1>0. n \in Nat /\ WordBits \in Nat
  BY TwoFacts
<1>1. 0 \in R
  <2>1. Two[0] = 1 /\ Two[n] \in Nat /\ n + 0 = n
    BY <1>0, TwoIs
  <2>2. QED
    BY <2>1
<1>2. ASSUME NEW i \in Nat, i \in R
      PROVE  i + 1 \in R
  <2>1. CASE n + (i + 1) <= WordBits
    <3>1. /\ n + i \in 0 .. WordBits - 1 /\ i \in 0 .. WordBits - 1
          /\ (n + i) + 1 = n + (i + 1)
      BY <1>0, <2>1
    <3>2. Two[n + (i + 1)] = 2 * Two[n + i] /\ Two[i + 1] = 2 * Two[i]
      BY <3>1, TwoIs
    <3>3. PICK a, b, c \in Nat : a = Two[i] /\ b = Two[n] /\ c = Two[n + i]
      <4>1. i \in 0 .. WordBits /\ n + i \in 0 .. WordBits
        BY <1>0, <3>1
      <4>2. Two[i] \in Nat /\ Two[n] \in Nat /\ Two[n + i] \in Nat
        BY <4>1, TwoFacts
      <4>3. QED
        BY <4>2
    <3>4. c = a * b
      <4>1. Two[n + i] = Two[i] * Two[n]
        BY <1>0, <1>2, <3>1
      <4>2. QED
        BY <3>3, <4>1
    <3>5. 2 * (a * b) = (2 * a) * b
      OBVIOUS
    <3>6. QED
      BY <3>2, <3>3, <3>4, <3>5
  <2>2. QED
    BY <2>1
<1> HIDE DEF R
<1>3. Nat \subseteq R
  BY <1>1, <1>2, NatSetInduction
<1>4. m - n \in R /\ n + (m - n) = m
  BY <1>0, <1>3
<1>5. QED
  BY <1>0, <1>4 DEF R

(* The sizes of tables, and LONG_MAX, one less than the largest of them.   *)
LEMMA PowersAre ==
  /\ LONG_MAX \in Nat /\ LONG_MAX + 1 \in Powers
  /\ \A p \in Powers : p \in Nat /\ p >= 1 /\ p <= Word
<1>1. WordBits - 1 \in 0 .. WordBits /\ WordBits - 1 \in 0 .. WordBits - 1
  BY WordAssumption
<1>2. PICK half \in Nat \ {0} : half = Two[WordBits - 1]
  BY <1>1, TwoFacts
<1>3. half \in Powers
  BY <1>1, <1>2 DEF Powers
<1>4. LONG_MAX = half - 1
  BY <1>2 DEF LONG_MAX
<1>5. LONG_MAX \in Nat /\ LONG_MAX + 1 = half
  BY <1>4
<1>6. ASSUME NEW p \in Powers
      PROVE  p \in Nat /\ p >= 1 /\ p <= Word
  <2>1. PICK i \in 0 .. WordBits - 1 : p = Two[i]
    BY DEF Powers
  <2>2. i \in 0 .. WordBits
    BY WordAssumption
  <2>3. QED
    BY <2>1, <2>2, TwoFacts
<1>7. QED
  BY <1>3, <1>5, <1>6

(* Each is a power with a known exponent.                                  *)
LEMMA PowerExponent ==
  ASSUME NEW p \in Powers
  PROVE  \E i \in 0 .. WordBits : p = Two[i]
<1>1. PICK i \in 0 .. WordBits - 1 : p = Two[i]
  BY DEF Powers
<1>2. i \in 0 .. WordBits
  BY WordAssumption
<1>3. QED
  BY <1>1, <1>2

-----------------------------------------------------------------------------
(* Division *)

(* A number is told by its quotient and its remainder.                     *)
LEMMA DivisionIs ==
  ASSUME NEW m \in Nat \ {0}, NEW q \in Nat, NEW r \in 0 .. m - 1
  PROVE  (q * m + r) \div m = q /\ (q * m + r) % m = r
OBVIOUS

(* Every number has a quotient and a remainder.                            *)
LEMMA Quotient ==
  ASSUME NEW m \in Nat \ {0}, NEW v \in Nat
  PROVE  \E q \in Nat, r \in 0 .. m - 1 : v = q * m + r /\ v \div m = q /\ v % m = r
<1> DEFINE R == {n \in Nat : \E q \in Nat, r \in 0 .. m - 1 : n = q * m + r}
<1>1. 0 \in R
  <2>1. 0 \in Nat /\ 0 \in 0 .. m - 1 /\ 0 = 0 * m + 0
    OBVIOUS
  <2>2. QED
    BY <2>1
<1>2. ASSUME NEW n \in Nat, n \in R
      PROVE  n + 1 \in R
  <2>1. PICK q \in Nat, r \in 0 .. m - 1 : n = q * m + r
    BY <1>2
  <2>2. PICK x \in Nat : x = q * m
    OBVIOUS
  <2>3. (q + 1) * m = x + m
    BY <2>2
  <2>4. n = x + r
    BY <2>1, <2>2
  <2>5. CASE r + 1 = m
    <3>1. PICK c \in Nat : c = q + 1
      OBVIOUS
    <3>2. n + 1 = c * m + 0 /\ 0 \in 0 .. m - 1
      BY <2>3, <2>4, <2>5, <3>1
    <3>3. QED
      BY <3>2
  <2>6. CASE r + 1 # m
    <3>1. PICK c \in 0 .. m - 1 : c = r + 1
      BY <2>6
    <3>2. n + 1 = q * m + c
      BY <2>2, <2>4, <3>1
    <3>3. QED
      BY <3>2
  <2>7. QED
    BY <2>5, <2>6
<1> HIDE DEF R
<1>3. v \in R
  BY <1>1, <1>2, NatSetInduction
<1>4. PICK q \in Nat, r \in 0 .. m - 1 : v = q * m + r
  BY <1>3 DEF R
<1>5. QED
  BY <1>4, DivisionIs

(* The quotient and the remainder by twice m.                              *)
LEMMA TwiceRemainder ==
  ASSUME NEW m \in Nat \ {0}, NEW v \in Nat
  PROVE  /\ (v \div m) \div 2 = v \div (2 * m)
         /\ v % (2 * m) = (v % m) + ((v \div m) % 2) * m
<1>1. PICK q \in Nat, r \in 0 .. m - 1 : v = q * m + r /\ v \div m = q /\ v % m = r
  BY Quotient
<1>2. PICK p \in Nat, b \in 0 .. 1 : q = p * 2 + b /\ q \div 2 = p /\ q % 2 = b
  OBVIOUS
<1>3. PICK z \in Nat : z = b * m /\ z \in {0, m}
  <2>1. CASE b = 0
    BY <2>1
  <2>2. CASE b = 1
    BY <2>2
  <2>3. QED
    BY <2>1, <2>2
<1>4. PICK x \in 0 .. 2 * m - 1 : x = r + z
  BY <1>3
<1>5. v = p * (2 * m) + x
  <2>1. q * m = (p * 2) * m + b * m
    BY <1>2
  <2>2. (p * 2) * m = p * (2 * m)
    OBVIOUS
  <2>3. PICK y, w \in Nat : y = p * (2 * m) /\ w = q * m
    OBVIOUS
  <2>4. v = w + r /\ w = y + z
    BY <1>1, <1>3, <2>1, <2>2, <2>3
  <2>5. QED
    BY <1>4, <2>3, <2>4
<1>6. 2 * m \in Nat \ {0}
  OBVIOUS
<1>7. v \div (2 * m) = p /\ v % (2 * m) = x
  BY <1>5, <1>6, DivisionIs
<1>8. QED
  BY <1>1, <1>2, <1>3, <1>4, <1>7

-----------------------------------------------------------------------------
(* rev *)

(* A bit is 0 or 1.                                                        *)
LEMMA BitIs ==
  ASSUME NEW v \in Nat, NEW n \in 0 .. WordBits
  PROVE  Bit(v, n) \in 0 .. 1
<1>1. Two[n] \in Nat \ {0}
  BY TwoFacts
<1>2. PICK q \in Nat : q = v \div Two[n]
  BY <1>1, Quotient
<1>3. q % 2 \in 0 .. 1
  OBVIOUS
<1>4. QED
  BY <1>2, <1>3 DEF Bit

(* The reverse of n bits is made bit by bit and is a number of n bits.     *)
LEMMA TurnedIs ==
  ASSUME NEW v \in Nat
  PROVE  /\ Turned(v)[0] = 0
         /\ \A n \in 0 .. WordBits - 1 : Turned(v)[n + 1] = 2 * Turned(v)[n] + Bit(v, n)
         /\ \A n \in 0 .. WordBits : Turned(v)[n] \in Nat /\ Turned(v)[n] < Two[n]
<1>0. WordBits \in Nat
  BY TwoFacts
<1>1. PICK g : g = [p \in Nat \X Nat |-> IF p[1] \in 0 .. WordBits - 1
                                         THEN 2 * p[2] + Bit(v, p[1]) ELSE 0]
  OBVIOUS
<1>2. /\ g \in [Nat \X Nat -> Nat]
      /\ \A i \in 0 .. WordBits - 1, x \in Nat : g[<<i, x>>] = 2 * x + Bit(v, i)
  <2>1. ASSUME NEW p \in Nat \X Nat
        PROVE  (IF p[1] \in 0 .. WordBits - 1 THEN 2 * p[2] + Bit(v, p[1]) ELSE 0) \in Nat
    <3>1. CASE p[1] \in 0 .. WordBits - 1
      <4>1. p[1] \in 0 .. WordBits
        BY <1>0, <3>1
      <4>2. Bit(v, p[1]) \in 0 .. 1
        BY <4>1, BitIs
      <4>3. QED
        BY <3>1, <4>2
    <3>2. QED
      BY <3>1
  <2>2. QED
    BY <1>0, <1>1, <2>1
<1>3. PICK f : Made(f, 0, g, WordBits)
  <2>1. 0 \in Nat
    OBVIOUS
  <2>2. QED
    BY <1>0, <1>2, <2>1, Recursion
<1>4. /\ f \in [0 .. WordBits -> Nat] /\ f[0] = 0
      /\ \A i \in 0 .. WordBits - 1 : f[i + 1] = 2 * f[i] + Bit(v, i)
  <2>1. ASSUME NEW i \in 0 .. WordBits - 1
        PROVE  f[i + 1] = 2 * f[i] + Bit(v, i)
    <3>1. f[i] \in Nat /\ f[i + 1] = g[<<i, f[i]>>]
      BY <1>0, <1>3 DEF Made
    <3>2. QED
      BY <1>2, <3>1
  <2>2. QED
    BY <1>3, <2>1 DEF Made
<1>5. ASSUME NEW i \in 0 .. WordBits
      PROVE  f[i] = IF i = 0 THEN 0 ELSE 2 * f[i - 1] + Bit(v, i - 1)
  <2>1. CASE i = 0
    BY <1>4, <2>1
  <2>2. CASE i # 0
    <3>1. PICK j \in 0 .. WordBits - 1 : i = j + 1 /\ i - 1 = j
      BY <1>0, <2>2
    <3>2. QED
      BY <1>4, <2>2, <3>1
  <2>3. QED
    BY <2>1, <2>2
<1>6. f = [i \in 0 .. WordBits |-> IF i = 0 THEN 0 ELSE 2 * f[i - 1] + Bit(v, i - 1)]
  BY <1>4, <1>5
<1>7. PICK t : t = Turned(v)
  OBVIOUS
<1>8. t = [i \in 0 .. WordBits |-> IF i = 0 THEN 0 ELSE 2 * t[i - 1] + Bit(v, i - 1)]
  BY <1>6, <1>7 DEF Turned
<1>9. t[0] = 0
  BY <1>0, <1>8
<1>10. ASSUME NEW n \in 0 .. WordBits - 1
       PROVE  t[n + 1] = 2 * t[n] + Bit(v, n)
  <2>1. PICK i \in 0 .. WordBits : i = n + 1 /\ i # 0 /\ i - 1 = n
    BY <1>0
  <2>2. t[i] = 2 * t[i - 1] + Bit(v, i - 1)
    BY <1>8, <2>1
  <2>3. QED
    BY <2>1, <2>2
<1> DEFINE R == {n \in Nat : n <= WordBits => t[n] \in Nat /\ t[n] < Two[n]}
<1>11. 0 \in R
  BY <1>9, TwoIs
<1>12. ASSUME NEW n \in Nat, n \in R
       PROVE  n + 1 \in R
  <2>1. CASE n + 1 <= WordBits
    <3>1. n \in 0 .. WordBits - 1 /\ n \in 0 .. WordBits
      BY <1>0, <2>1
    <3>2. t[n] \in Nat /\ t[n] < Two[n] /\ Two[n] \in Nat
      BY <1>0, <1>12, <3>1, TwoFacts
    <3>3. t[n + 1] = 2 * t[n] + Bit(v, n) /\ Two[n + 1] = 2 * Two[n]
      BY <1>10, <3>1, TwoIs
    <3>4. Bit(v, n) \in 0 .. 1
      BY <3>1, BitIs
    <3>5. QED
      BY <3>2, <3>3, <3>4
  <2>2. QED
    BY <2>1
<1> HIDE DEF R
<1>13. Nat \subseteq R
  BY <1>11, <1>12, NatSetInduction
<1>14. \A n \in 0 .. WordBits : t[n] \in Nat /\ t[n] < Two[n]
  BY <1>0, <1>13 DEF R
<1>15. QED
  BY <1>7, <1>9, <1>10, <1>14

(* The remainders of a number by one power of two and by the next.         *)
LEMMA NextRemainder ==
  ASSUME NEW v \in Nat, NEW n \in 0 .. WordBits - 1
  PROVE  /\ v % Two[n + 1] = (v % Two[n]) + Bit(v, n) * Two[n]
         /\ v \div Two[n + 1] = (v \div Two[n]) \div 2
<1>1. Two[n] \in Nat \ {0} /\ Two[n + 1] = 2 * Two[n]
  BY TwoFacts, TwoIs
<1>2. QED
  BY <1>1, TwiceRemainder DEF Bit

(* Two numbers agree in the lowest n bits exactly when their reverses do.  *)
LEMMA SamePrefix ==
  ASSUME NEW x \in Nat, NEW y \in Nat, NEW n \in 0 .. WordBits
  PROVE  Turned(x)[n] = Turned(y)[n] <=> x % Two[n] = y % Two[n]
<1> DEFINE R == {i \in Nat : i <= WordBits =>
                   (Turned(x)[i] = Turned(y)[i] <=> x % Two[i] = y % Two[i])}
<1>0. WordBits \in Nat
  BY TwoFacts
<1>1. 0 \in R
  BY TurnedIs, TwoIs
<1>2. ASSUME NEW i \in Nat, i \in R
      PROVE  i + 1 \in R
  <2>1. CASE i + 1 <= WordBits
    <3>1. i \in 0 .. WordBits - 1 /\ i \in 0 .. WordBits
      BY <1>0, <2>1
    <3>2. PICK s \in Nat \ {0} : s = Two[i]
      BY <3>1, TwoFacts
    <3>3. PICK a, b \in 0 .. 1 : a = Bit(x, i) /\ b = Bit(y, i)
      BY <3>1, BitIs
    <3>4. PICK p, q \in 0 .. s - 1 : p = x % s /\ q = y % s
      BY Quotient
    <3>5. PICK t, u \in Nat : t = Turned(x)[i] /\ u = Turned(y)[i]
      BY <3>1, TurnedIs
    <3>6. /\ Turned(x)[i + 1] = 2 * t + a /\ Turned(y)[i + 1] = 2 * u + b
      BY <3>1, <3>3, <3>5, TurnedIs
    <3>7. x % Two[i + 1] = p + a * s /\ y % Two[i + 1] = q + b * s
      BY <3>1, <3>2, <3>3, <3>4, NextRemainder
    <3>8. t = u <=> p = q
      <4>1. Turned(x)[i] = Turned(y)[i] <=> x % Two[i] = y % Two[i]
        BY <1>0, <1>2, <3>1
      <4>2. QED
        BY <3>2, <3>4, <3>5, <4>1
    <3>9. 2 * t + a = 2 * u + b <=> t = u /\ a = b
      OBVIOUS
    <3>10. p + a * s = q + b * s <=> p = q /\ a = b
      <4>1. a * s = (IF a = 0 THEN 0 ELSE s) /\ b * s = (IF b = 0 THEN 0 ELSE s)
        <5>1. 0 * s = 0 /\ 1 * s = s
          OBVIOUS
        <5>2. (a = 0 \/ a = 1) /\ (b = 0 \/ b = 1)
          OBVIOUS
        <5>3. QED
          BY <5>1, <5>2
      <4>2. QED
        BY <4>1
    <3>11. QED
      BY <3>6, <3>7, <3>8, <3>9, <3>10
  <2>2. QED
    BY <2>1
<1> HIDE DEF R
<1>3. n \in R
  BY <1>0, <1>1, <1>2, NatSetInduction
<1>4. QED
  BY <1>0, <1>3 DEF R

(* The order of two reverses is that of their highest bits.                *)
LEMMA PrefixOrder ==
  ASSUME NEW x \in Nat, NEW y \in Nat, rev(x) <= rev(y), NEW n \in 0 .. WordBits
  PROVE  Turned(x)[n] <= Turned(y)[n]
<1> DEFINE R == {i \in Nat : i <= WordBits =>
                   Turned(x)[WordBits - i] <= Turned(y)[WordBits - i]}
<1>0. WordBits \in Nat
  BY TwoFacts
<1>1. 0 \in R
  BY <1>0 DEF rev
<1>2. ASSUME NEW i \in Nat, i \in R
      PROVE  i + 1 \in R
  <2>1. CASE i + 1 <= WordBits
    <3>1. PICK m \in 0 .. WordBits - 1 : m = WordBits - (i + 1) /\ m + 1 = WordBits - i
      BY <1>0, <2>1
    <3>2. Turned(x)[m + 1] <= Turned(y)[m + 1]
      BY <1>0, <1>2, <2>1, <3>1
    <3>3. m \in 0 .. WordBits
      BY <1>0
    <3>4. PICK t, u \in Nat : t = Turned(x)[m] /\ u = Turned(y)[m]
      BY <3>3, TurnedIs
    <3>5. PICK a, b \in 0 .. 1 : a = Bit(x, m) /\ b = Bit(y, m)
      BY <3>3, BitIs
    <3>6. 2 * t + a <= 2 * u + b
      BY <3>2, <3>4, <3>5, TurnedIs
    <3>7. t <= u
      BY <3>6
    <3>8. QED
      BY <3>1, <3>4, <3>7
  <2>2. QED
    BY <2>1
<1> HIDE DEF R
<1>3. WordBits - n \in R /\ WordBits - (WordBits - n) = n
  BY <1>0, <1>1, <1>2, NatSetInduction
<1>4. QED
  BY <1>0, <1>3 DEF R

(* The high bits of a reverse are the reverse of the low bits.             *)
LEMMA HighBits ==
  ASSUME NEW y \in Nat, NEW n \in 0 .. WordBits
  PROVE  rev(y) \div Two[n] = Turned(y)[WordBits - n]
<1> DEFINE R == {i \in Nat : i <= WordBits =>
                   rev(y) \div Two[i] = Turned(y)[WordBits - i]}
<1>0. WordBits \in Nat
  BY TwoFacts
<1>1. PICK z \in Nat : z = rev(y)
  <2>1. WordBits \in 0 .. WordBits
    BY <1>0
  <2>2. QED
    BY <2>1, TurnedIs DEF rev
<1>2. 0 \in R
  <2>1. Two[0] = 1 /\ z \div 1 = z /\ WordBits - 0 = WordBits
    BY <1>0, TwoIs
  <2>2. rev(y) \div Two[0] = Turned(y)[WordBits - 0]
    BY <1>1, <2>1 DEF rev
  <2>3. QED
    BY <2>2
<1>3. ASSUME NEW i \in Nat, i \in R
      PROVE  i + 1 \in R
  <2>1. CASE i + 1 <= WordBits
    <3>1. PICK m \in 0 .. WordBits - 1 : m = WordBits - (i + 1) /\ m + 1 = WordBits - i
      BY <1>0, <2>1
    <3>2. i \in 0 .. WordBits - 1 /\ m \in 0 .. WordBits
      BY <1>0, <2>1
    <3>3. z \div Two[i] = Turned(y)[m + 1]
      BY <1>0, <1>1, <1>3, <2>1, <3>1
    <3>4. z \div Two[i + 1] = (z \div Two[i]) \div 2
      BY <3>2, NextRemainder
    <3>5. PICK t \in Nat, b \in 0 .. 1 : t = Turned(y)[m] /\ b = Bit(y, m)
      BY <3>2, TurnedIs, BitIs
    <3>6. Turned(y)[m + 1] = 2 * t + b
      BY <3>5, TurnedIs
    <3>7. (2 * t + b) \div 2 = t
      OBVIOUS
    <3>8. rev(y) \div Two[i + 1] = Turned(y)[WordBits - (i + 1)]
      BY <1>1, <3>1, <3>3, <3>4, <3>5, <3>6, <3>7
    <3>9. QED
      BY <3>8
  <2>2. QED
    BY <2>1
<1> HIDE DEF R
<1>4. n \in R
  BY <1>0, <1>2, <1>3, NatSetInduction
<1>5. QED
  BY <1>0, <1>4 DEF R

(* rev undoes itself.                                                      *)
LEMMA RevTwice ==
  ASSUME NEW y \in 0 .. Word - 1
  PROVE  rev(y) \in 0 .. Word - 1 /\ rev(rev(y)) = y
<1> DEFINE R == {i \in Nat : i <= WordBits =>
                   Turned(rev(y))[i] = y \div Two[WordBits - i]}
<1>0. WordBits \in Nat /\ Word \in Nat \ {0} /\ y \in Nat
  BY TwoFacts
<1>1. PICK z \in 0 .. Word - 1 : z = rev(y)
  <2>1. WordBits \in 0 .. WordBits
    BY <1>0
  <2>2. QED
    BY <1>0, <2>1, TurnedIs DEF rev, Word
<1>2. 0 \in R
  <2>1. Turned(rev(y))[0] = 0
    BY <1>1, TurnedIs
  <2>2. y = 0 * Word + y
    BY <1>0
  <2>3. y \div Word = 0
    BY <1>0, <2>2, DivisionIs
  <2>4. Two[WordBits - 0] = Word
    BY <1>0 DEF Word
  <2>5. QED
    BY <2>1, <2>3, <2>4
<1>3. ASSUME NEW i \in Nat, i \in R
      PROVE  i + 1 \in R
  <2>1. CASE i + 1 <= WordBits
    <3>1. PICK m \in 0 .. WordBits - 1 : m = WordBits - (i + 1) /\ m + 1 = WordBits - i
      BY <1>0, <2>1
    <3>2. i \in 0 .. WordBits - 1 /\ i \in 0 .. WordBits /\ m \in 0 .. WordBits
      BY <1>0, <2>1
    <3>3. Turned(z)[i] = y \div Two[m + 1]
      BY <1>0, <1>1, <1>3, <2>1, <3>1
    <3>4. Turned(z)[i + 1] = 2 * Turned(z)[i] + Bit(z, i)
      BY <3>2, TurnedIs
    <3>5. Bit(z, i) = Turned(y)[m + 1] % 2
      BY <1>0, <1>1, <3>1, <3>2, HighBits DEF Bit
    <3>6. PICK t \in Nat, b \in 0 .. 1 : t = Turned(y)[m] /\ b = Bit(y, m)
      BY <1>0, <3>2, TurnedIs, BitIs
    <3>7. Turned(y)[m + 1] = 2 * t + b
      BY <1>0, <3>6, TurnedIs
    <3>8. (2 * t + b) % 2 = b
      OBVIOUS
    <3>9. Two[m] \in Nat \ {0}
      BY <3>2, TwoFacts
    <3>10. PICK q \in Nat : q = y \div Two[m]
      BY <1>0, <3>9, Quotient
    <3>11. b = q % 2 /\ y \div Two[m + 1] = q \div 2
      BY <1>0, <3>6, <3>10, NextRemainder DEF Bit
    <3>12. PICK p \in Nat, r \in 0 .. 2 - 1 : q = p * 2 + r /\ q \div 2 = p /\ q % 2 = r
      <4>1. 2 \in Nat \ {0}
        OBVIOUS
      <4>2. QED
        BY <4>1, Quotient
    <3>13. Turned(z)[i + 1] = 2 * p + r
      BY <3>3, <3>4, <3>5, <3>7, <3>8, <3>11, <3>12
    <3>14. QED
      BY <1>1, <3>1, <3>10, <3>12, <3>13
  <2>2. QED
    BY <2>1
<1> HIDE DEF R
<1>4. WordBits \in R
  BY <1>0, <1>2, <1>3, NatSetInduction
<1>5. Turned(z)[WordBits] = y \div Two[WordBits - WordBits]
  BY <1>0, <1>1, <1>4 DEF R
<1>6. Two[WordBits - WordBits] = 1 /\ y \div 1 = y
  BY <1>0, TwoIs
<1>7. QED
  BY <1>1, <1>5, <1>6 DEF rev

(* The reverse of nothing.                                                 *)
LEMMA RevZero == rev(0) = 0
<1> DEFINE R == {i \in Nat : i <= WordBits => Turned(0)[i] = 0}
<1>0. WordBits \in Nat /\ 0 \in Nat
  BY TwoFacts
<1>1. 0 \in R
  BY TurnedIs
<1>2. ASSUME NEW i \in Nat, i \in R
      PROVE  i + 1 \in R
  <2>1. CASE i + 1 <= WordBits
    <3>1. i \in 0 .. WordBits - 1 /\ i \in 0 .. WordBits /\ Turned(0)[i] = 0
      BY <1>0, <1>2, <2>1
    <3>2. PICK s \in Nat \ {0} : s = Two[i]
      BY <3>1, TwoFacts
    <3>3. 0 = 0 * s + 0 /\ 0 \in 0 .. s - 1
      OBVIOUS
    <3>4. 0 \div s = 0
      BY <3>3, DivisionIs
    <3>5. Bit(0, i) = 0
      BY <3>2, <3>4 DEF Bit
    <3>6. Turned(0)[i + 1] = 2 * Turned(0)[i] + Bit(0, i)
      BY <1>0, <3>1, TurnedIs
    <3>7. QED
      BY <3>1, <3>5, <3>6
  <2>2. QED
    BY <2>1
<1> HIDE DEF R
<1>3. WordBits \in R
  BY <1>0, <1>1, <1>2, NatSetInduction
<1>4. QED
  BY <1>0, <1>3 DEF R, rev

-----------------------------------------------------------------------------
(* The cursor *)

(* Powers of two are in the order of their exponents.                      *)
LEMMA TwoGrows ==
  ASSUME NEW n \in 0 .. WordBits, NEW m \in n .. WordBits
  PROVE  Two[n] <= Two[m]
<1>1. WordBits \in Nat /\ m - n \in 0 .. WordBits /\ m \in 0 .. WordBits
  BY TwoFacts
<1>2. PICK k, s \in Nat : k = Two[m - n] /\ s = Two[n] /\ k >= 1
  BY <1>1, TwoFacts
<1>3. Two[m] = k * s
  BY <1>2, TwoTimes
<1>4. PICK j \in Nat : k = j + 1
  BY <1>2
<1>5. PICK x \in Nat : x = j * s
  OBVIOUS
<1>6. k * s = x + s
  BY <1>4, <1>5
<1>7. QED
  BY <1>2, <1>3, <1>5, <1>6

(* The remainder by a power of two tells the remainders by the lesser ones. *)
LEMMA LesserRemainder ==
  ASSUME NEW v \in Nat, NEW n \in 0 .. WordBits, NEW m \in n .. WordBits
  PROVE  (v % Two[m]) % Two[n] = v % Two[n]
<1>1. WordBits \in Nat /\ m - n \in 0 .. WordBits /\ m \in 0 .. WordBits
  BY TwoFacts
<1>2. PICK k \in Nat, s, l \in Nat \ {0} : k = Two[m - n] /\ s = Two[n] /\ l = Two[m]
  BY <1>1, TwoFacts
<1>3. l = k * s
  BY <1>2, TwoTimes
<1>4. PICK q \in Nat, r \in 0 .. l - 1 : v = q * l + r /\ v \div l = q /\ v % l = r
  BY Quotient, Zenon
<1>5. PICK p \in Nat, t \in 0 .. s - 1 : r = p * s + t /\ r \div s = p /\ r % s = t
  <2>1. r \in Nat
    BY <1>2
  <2>2. QED
    BY <2>1, Quotient, Zenon
<1>6. PICK a \in Nat : a = q * k + p
  OBVIOUS
<1>7. v = a * s + t
  <2>1. q * l = (q * k) * s
    BY <1>3
  <2>2. PICK b \in Nat : b = q * k
    OBVIOUS
  <2>3. a * s = b * s + p * s
    BY <1>6, <2>2
  <2>4. PICK x, y \in Nat : x = b * s /\ y = p * s
    OBVIOUS
  <2>5. q * l = x /\ a * s = x + y
    BY <2>1, <2>2, <2>3, <2>4
  <2>6. QED
    BY <1>4, <1>5, <2>4, <2>5
<1>8. v % s = t
  BY <1>7, DivisionIs
<1>9. QED
  BY <1>2, <1>4, <1>5, <1>8

(* v |= ~m0: the bits of the cursor above the mask are set, so that the    *)
(* increment of the reversed cursor carries into those of the mask.        *)
LEMMA Filled ==
  ASSUME NEW v \in Nat, NEW i \in 0 .. WordBits
  PROVE  LET u == (v % Two[i]) + Word - Two[i]
         IN /\ u \in 0 .. Word - 1 /\ u % Two[i] = v % Two[i]
            /\ \A n \in i .. WordBits - 1 : Bit(u, n) = 1
<1>0. WordBits \in Nat /\ Word \in Nat \ {0}
  BY TwoFacts
<1>1. PICK s \in Nat \ {0}, r \in Nat : s = Two[i] /\ s <= Word /\ r = v % s /\ r < s
  <2>1. PICK s \in Nat \ {0} : s = Two[i] /\ s <= Word
    BY TwoFacts
  <2>2. PICK r \in 0 .. s - 1 : r = v % s
    BY Quotient
  <2>3. QED
    BY <2>1, <2>2
<1>2. PICK u \in Nat : u = r + Word - s /\ u <= Word - 1
  BY <1>0, <1>1
<1>3. u = (v % Two[i]) + Word - Two[i]
  BY <1>1, <1>2
<1>4. ASSUME NEW n \in i .. WordBits
      PROVE  \E k \in Nat \ {0}, t \in Nat \ {0}, x \in Nat :
               /\ t = Two[n] /\ k = Two[WordBits - n] /\ x = t - s + r /\ x < t
               /\ u \div t = k - 1 /\ u % t = x
  <2>1. n \in 0 .. WordBits /\ WordBits \in n .. WordBits /\ WordBits - n \in 0 .. WordBits
    BY <1>0
  <2>2. PICK k, t \in Nat \ {0} : k = Two[WordBits - n] /\ t = Two[n]
    BY <2>1, TwoFacts
  <2>3. Word = k * t
    BY <2>1, <2>2, TwoTimes DEF Word
  <2>4. s <= t
    BY <1>1, <2>1, <2>2, TwoGrows
  <2>5. PICK x \in 0 .. t - 1 : x = t - s + r
    BY <1>1, <2>4
  <2>6. PICK j \in Nat : k = j + 1 /\ j = k - 1
    OBVIOUS
  <2>7. PICK y \in Nat : y = j * t
    OBVIOUS
  <2>8. k * t = y + t
    BY <2>6, <2>7
  <2>9. u = j * t + x
    BY <1>2, <2>3, <2>5, <2>7, <2>8
  <2>10. u \div t = j /\ u % t = x
    BY <2>9, DivisionIs
  <2>11. QED
    BY <2>2, <2>5, <2>6, <2>10
<1>5. u % Two[i] = v % Two[i]
  <2>1. i \in i .. WordBits
    BY <1>0
  <2>2. PICK t, x \in Nat : t = Two[i] /\ x = t - s + r /\ u % t = x
    BY <1>4, <2>1
  <2>3. QED
    BY <1>1, <2>2
<1>6. ASSUME NEW n \in i .. WordBits - 1
      PROVE  Bit(u, n) = 1
  <2>1. n \in i .. WordBits
    BY <1>0
  <2>2. PICK k \in Nat, t \in Nat : t = Two[n] /\ k = Two[WordBits - n] /\ u \div t = k - 1
    BY <1>4, <2>1
  <2>3. PICK m \in 0 .. WordBits - 1 : m = WordBits - n - 1 /\ m + 1 = WordBits - n
    BY <1>0
  <2>4. PICK h \in Nat \ {0} : h = Two[m]
    BY <1>0, TwoFacts
  <2>5. k = 2 * h
    BY <2>2, <2>3, <2>4, TwoIs
  <2>6. (2 * h - 1) % 2 = 1
    <3>1. PICK g \in Nat : h = g + 1
      BY <2>4
    <3>2. 2 * h - 1 = g * 2 + 1
      BY <3>1
    <3>3. (g * 2 + 1) % 2 = 1
      OBVIOUS
    <3>4. QED
      BY <3>2, <3>3
  <2>7. QED
    BY <2>2, <2>5, <2>6 DEF Bit
<1>7. QED
  BY <1>2, <1>3, <1>5, <1>6

(* So among the numbers that end like the cursor it is the last one in the *)
(* reversed order.                                                         *)
LEMMA FilledIsLast ==
  ASSUME NEW v \in Nat, NEW i \in 0 .. WordBits, NEW x \in Nat, x % Two[i] = v % Two[i]
  PROVE  rev(x) <= rev((v % Two[i]) + Word - Two[i])
<1>0. WordBits \in Nat
  BY TwoFacts
<1>1. PICK u : u = (v % Two[i]) + Word - Two[i]
  OBVIOUS
<1>2. /\ u \in 0 .. Word - 1 /\ u % Two[i] = v % Two[i]
      /\ \A n \in i .. WordBits - 1 : Bit(u, n) = 1
  BY <1>1, Filled
<1>3. u \in Nat
  BY <1>2, TwoFacts
<1> DEFINE R == {n \in Nat : i + n <= WordBits => Turned(x)[i + n] <= Turned(u)[i + n]}
<1>4. 0 \in R
  <2>1. Turned(x)[i] = Turned(u)[i] /\ Turned(u)[i] \in Nat /\ i + 0 = i
    BY <1>2, <1>3, SamePrefix, TurnedIs
  <2>2. Turned(x)[i] <= Turned(u)[i]
    BY <2>1
  <2>3. QED
    BY <2>1, <2>2
<1>5. ASSUME NEW n \in Nat, n \in R
      PROVE  n + 1 \in R
  <2>1. CASE i + (n + 1) <= WordBits
    <3>1. PICK m \in i .. WordBits - 1 : m = i + n /\ m + 1 = i + (n + 1)
      BY <1>0, <2>1
    <3>2. m \in 0 .. WordBits - 1 /\ m \in 0 .. WordBits
      BY <1>0
    <3>3. PICK a, b \in Nat : a = Turned(x)[m] /\ b = Turned(u)[m] /\ a <= b
      BY <1>0, <1>3, <1>5, <3>1, <3>2, TurnedIs
    <3>4. PICK c \in 0 .. 1 : c = Bit(x, m)
      BY <3>2, BitIs
    <3>5. Turned(x)[m + 1] = 2 * a + c /\ Turned(u)[m + 1] = 2 * b + 1
      BY <1>2, <1>3, <3>2, <3>3, <3>4, TurnedIs
    <3>6. 2 * a + c <= 2 * b + 1
      BY <3>3
    <3>7. QED
      BY <3>1, <3>5, <3>6
  <2>2. QED
    BY <2>1
<1> HIDE DEF R
<1>6. WordBits - i \in R /\ i + (WordBits - i) = WordBits
  BY <1>0, <1>4, <1>5, NatSetInduction
<1>7. QED
  BY <1>0, <1>1, <1>6 DEF R, rev

(* The next cursor of a table of a size: the scan is over, or the cursor   *)
(* advances; and what was ahead of the old cursor is ahead of the new one, *)
(* unless it belongs to the bucket that the old cursor stands for.         *)
LEMMA NextCursorIs ==
  ASSUME NEW v \in Nat, NEW size \in Powers
  PROVE  LET c == NextCursor(v, size)
         IN /\ c \in 0 .. Word - 1
            /\ c # 0 => rev(c) > rev(v)
            /\ \A h \in Nat : rev(h) >= rev(v) /\ h % size # v % size
                                => c # 0 /\ rev(h) >= rev(c)
<1>0. WordBits \in Nat /\ Word \in Nat \ {0}
  BY TwoFacts
<1>1. PICK i \in 0 .. WordBits : size = Two[i]
  BY PowerExponent
<1>2. PICK u : u = (v % size) + Word - size
  OBVIOUS
<1>3. u \in 0 .. Word - 1 /\ u % size = v % size
  BY <1>1, <1>2, Filled
<1>4. \A x \in Nat : rev(x) \in Nat /\ rev(x) <= Word - 1
  <2>1. WordBits \in 0 .. WordBits
    BY <1>0
  <2>2. QED
    BY <1>0, <2>1, TurnedIs DEF rev, Word
<1>5. PICK w \in 0 .. Word - 1 : w = rev(u)
  BY <1>0, <1>3, <1>4
<1>6. rev(v) <= w
  BY <1>1, <1>2, <1>5, FilledIsLast
<1>7. PICK c : c = NextCursor(v, size)
  OBVIOUS
<1>8. c = rev((w + 1) % Word)
  BY <1>2, <1>5, <1>7 DEF NextCursor
<1>9. ASSUME NEW h \in Nat, rev(h) >= rev(v), h % size # v % size
      PROVE  rev(h) > w
  <2>1. u \in Nat /\ rev(h) \in Nat /\ rev(v) \in Nat
    BY <1>0, <1>3, <1>4
  <2>2. Turned(v)[i] <= Turned(h)[i]
    BY <1>9, <2>1, PrefixOrder
  <2>3. Turned(u)[i] = Turned(v)[i] /\ Turned(h)[i] # Turned(v)[i]
    BY <1>1, <1>3, <1>9, <2>1, SamePrefix
  <2>4. PICK a, b \in Nat : a = Turned(h)[i] /\ b = Turned(u)[i]
    BY <2>1, TurnedIs
  <2>5. ~(a <= b)
    BY <2>2, <2>3, <2>4
  <2>6. ~(rev(h) <= rev(u))
    BY <2>1, <2>4, <2>5, PrefixOrder
  <2>7. QED
    BY <1>5, <2>1, <2>6
<1>10. CASE w = Word - 1
  <2>1. Word = 1 * Word + 0 /\ w + 1 = Word
    BY <1>0, <1>10
  <2>2. (w + 1) % Word = 0
    BY <1>0, <2>1, DivisionIs
  <2>3. c = 0
    BY <1>8, <2>2, RevZero
  <2>4. ASSUME NEW h \in Nat, rev(h) >= rev(v), h % size # v % size
        PROVE  FALSE
    BY <1>0, <1>4, <1>9, <1>10, <2>4
  <2>5. QED
    BY <1>0, <1>7, <2>3, <2>4
<1>11. CASE w # Word - 1
  <2>1. PICK x \in 0 .. Word - 1 : x = w + 1 /\ x # 0
    BY <1>0, <1>11
  <2>2. x = 0 * Word + x
    BY <1>0
  <2>3. x % Word = x
    BY <1>0, <2>2, DivisionIs
  <2>4. c = rev(x) /\ c \in 0 .. Word - 1 /\ rev(c) = w + 1
    BY <1>8, <2>1, <2>3, RevTwice
  <2>5. c # 0
    BY <2>1, <2>4, RevZero
  <2>6. rev(c) > rev(v)
    BY <1>4, <1>6, <2>4
  <2>7. \A h \in Nat : rev(h) >= rev(v) /\ h % size # v % size => rev(h) >= rev(c)
    BY <1>4, <1>9, <2>4
  <2>8. QED
    BY <1>7, <2>4, <2>5, <2>6, <2>7
<1>12. QED
  BY <1>10, <1>11

-----------------------------------------------------------------------------
(* Tables *)

(* A table of the right form, of chains without repetitions.               *)
Shaped(h) ==
  /\ h = [size |-> h.size, table |-> h.table, used |-> h.used]
  /\ h.size \in Powers \cup {0}
  /\ h.table \in [0 .. h.size - 1 -> Seq(Keys)]
  /\ \A i \in 0 .. h.size - 1 : Distinct(h.table[i])

(* Every entry is in the bucket that its hash tells to search.             *)
Placed(h) ==
  \A i \in 0 .. h.size - 1 : \A k \in ToSet(h.table[i]) : Slot(h, k) = i

(* And the counter is right.                                               *)
Good(h) == Shaped(h) /\ Placed(h) /\ h.used = Cardinality(Chained(h))

(* Sizes are natural numbers.                                              *)
LEMMA SizeIsNat ==
  ASSUME NEW n \in Powers \cup {0}
  PROVE  n \in Nat
BY PowersAre

(* The mask keeps the index of a bucket inside the table.                  *)
LEMMA SlotInTable ==
  ASSUME NEW h, h.size \in Nat, h.size # 0, NEW k \in Keys
  PROVE  Slot(h, k) \in 0 .. h.size - 1
<1>1. Hash[k] \in Nat
  BY HashAssumption
<1>2. QED
  BY <1>1 DEF Slot

(* What is in a chain is a key, and there are finitely many of them.       *)
LEMMA ChainedKeys ==
  ASSUME NEW h, Shaped(h)
  PROVE  /\ Chained(h) \subseteq Keys
         /\ IsFiniteSet(Chained(h)) /\ Cardinality(Chained(h)) \in Nat
         /\ Cardinality(Chained(h)) <= Cardinality(Keys)
         /\ Chained(h) = {} <=> Cardinality(Chained(h)) = 0
         /\ \A k : k \in Chained(h) <=> \E i \in 0 .. h.size - 1 : k \in ToSet(h.table[i])
<1>1. \A k : k \in Chained(h) <=> \E i \in 0 .. h.size - 1 : k \in ToSet(h.table[i])
  BY DEF Chained, Shaped
<1>2. \A i \in 0 .. h.size - 1 : ToSet(h.table[i]) \subseteq Keys
  BY ElementsOf DEF Shaped
<1>3. Chained(h) \subseteq Keys
  BY <1>1, <1>2
<1>4. QED
  BY <1>1, <1>3, KeysAssumption, FS_Subset, FS_CardinalityType, FS_EmptySet

(* In a good table, a look-up in one bucket tells whether a key is there.  *)
LEMMA HoldsExact ==
  ASSUME NEW h, Shaped(h), Placed(h), NEW k \in Keys
  PROVE  Holds(h, k) <=> k \in Chained(h)
<1>1. Contains(h.table[Slot(h, k)], k) <=> k \in ToSet(h.table[Slot(h, k)])
  BY DEF Contains, ToSet
<1>2. h.size \in Nat
  BY SizeIsNat DEF Shaped
<1>3. CASE h.size = 0
  <2>1. Chained(h) = {}
    BY <1>3, ChainedKeys
  <2>2. QED
    BY <1>3, <2>1 DEF Holds
<1>4. CASE h.size # 0
  <2>1. Slot(h, k) \in 0 .. h.size - 1
    BY <1>2, <1>4, SlotInTable
  <2>2. QED
    BY <1>1, <1>4, <2>1, ChainedKeys DEF Holds, Placed
<1>5. QED
  BY <1>3, <1>4

(* A table that _dictReset or dictExpand made is empty.                    *)
LEMMA NewTableGood ==
  ASSUME NEW n \in Powers \cup {0}
  PROVE  /\ Good(NewTable(n)) /\ Chained(NewTable(n)) = {}
         /\ NewTable(n).size = n /\ NewTable(n).used = 0
         /\ \A i \in 0 .. n - 1 : NewTable(n).table[i] = << >>
<1> DEFINE h == NewTable(n)
<1>1. /\ h = [size |-> h.size, table |-> h.table, used |-> h.used]
      /\ h.size = n /\ h.used = 0
      /\ h.table = [i \in 0 .. n - 1 |-> << >>]
  BY DEF NewTable
<1> HIDE DEF h
<1>2. << >> \in Seq(Keys) /\ ToSet(<< >>) = {} /\ Distinct(<< >>)
  BY DEF ToSet, Distinct
<1>3. Shaped(h) /\ Placed(h)
  BY <1>1, <1>2 DEF Shaped, Placed
<1>4. Chained(h) = {}
  BY <1>1, <1>2, <1>3, ChainedKeys
<1>5. QED
  BY <1>1, <1>3, <1>4, FS_EmptySet DEF Good, h

(* A table in which one chain and the counter are replaced.                *)
Rechained(h, i, c, u) ==
  [size |-> h.size, table |-> [h.table EXCEPT ![i] = c], used |-> u]

(* What that does to the entries of the table.                             *)
LEMMA ReplaceChain ==
  ASSUME NEW h, Shaped(h), Placed(h), NEW i \in 0 .. h.size - 1,
         NEW c \in Seq(Keys), Distinct(c), \A k \in ToSet(c) : Slot(h, k) = i,
         NEW u
  PROVE  /\ Shaped(Rechained(h, i, c, u)) /\ Placed(Rechained(h, i, c, u))
         /\ Chained(Rechained(h, i, c, u)) = (Chained(h) \ ToSet(h.table[i])) \cup ToSet(c)
         /\ Rechained(h, i, c, u).size = h.size /\ Rechained(h, i, c, u).used = u
         /\ Rechained(h, i, c, u).table = [h.table EXCEPT ![i] = c]
<1> DEFINE g == Rechained(h, i, c, u)
<1>1. /\ g = [size |-> g.size, table |-> g.table, used |-> g.used]
      /\ g.size = h.size /\ g.used = u
      /\ g.table = [h.table EXCEPT ![i] = c]
  BY DEF Rechained
<1> HIDE DEF g
<1>2. /\ g.table \in [0 .. h.size - 1 -> Seq(Keys)] /\ g.table[i] = c
      /\ \A j \in 0 .. h.size - 1 : j # i => g.table[j] = h.table[j]
  BY <1>1 DEF Shaped
<1>3. Shaped(g)
  BY <1>1, <1>2 DEF Shaped
<1>4. Placed(g)
  BY <1>1, <1>2 DEF Placed, Slot
<1>5. ASSUME NEW j \in 0 .. h.size - 1, j # i, NEW k \in ToSet(h.table[j])
      PROVE  k \notin ToSet(h.table[i])
  BY <1>5 DEF Placed
<1>6. Chained(g) = (Chained(h) \ ToSet(h.table[i])) \cup ToSet(c)
  <2>1. \A k : k \in Chained(h) <=> \E j \in 0 .. h.size - 1 : k \in ToSet(h.table[j])
    BY ChainedKeys
  <2>2. \A k : k \in Chained(g) <=> \E j \in 0 .. h.size - 1 : k \in ToSet(g.table[j])
    BY <1>1, <1>3, ChainedKeys
  <2>3. \A k \in Chained(g) : k \in (Chained(h) \ ToSet(h.table[i])) \cup ToSet(c)
    BY <1>2, <1>5, <2>1, <2>2
  <2>4. \A k \in (Chained(h) \ ToSet(h.table[i])) \cup ToSet(c) : k \in Chained(g)
    BY <1>2, <2>1, <2>2
  <2>5. QED
    BY <2>3, <2>4
<1>7. QED
  BY <1>1, <1>3, <1>4, <1>6 DEF g

(* dictAddRaw and the loop of dictRehash link a new entry.                 *)
LEMMA LinkGood ==
  ASSUME NEW h, Good(h), h.size # 0, NEW k \in Keys, k \notin Chained(h)
  PROVE  /\ Good(Link(h, k)) /\ Chained(Link(h, k)) = Chained(h) \cup {k}
         /\ Link(h, k).size = h.size
         /\ Link(h, k).table = [h.table EXCEPT ![Slot(h, k)] = <<k>> \o @]
<1> DEFINE i == Slot(h, k)
           c == <<k>> \o h.table[i]
<1>1. i \in 0 .. h.size - 1 /\ Shaped(h) /\ Placed(h)
  BY SizeIsNat, SlotInTable DEF Good, Shaped
<1>2. h.table[i] \in Seq(Keys) /\ Distinct(h.table[i]) /\ k \notin ToSet(h.table[i])
  BY <1>1, ChainedKeys DEF Shaped
<1> HIDE DEF i
<1>3. c \in Seq(Keys) /\ Distinct(c) /\ ToSet(c) = ToSet(h.table[i]) \cup {k}
  BY <1>2, PushAdds
<1>4. \A j \in ToSet(c) : Slot(h, j) = i
  BY <1>1, <1>3 DEF Placed, i
<1> HIDE DEF c
<1> DEFINE g == Link(h, k)
<1>5. g = Rechained(h, i, c, h.used + 1)
  <2>1. g = [h EXCEPT !.table[i] = c, !.used = h.used + 1]
    BY DEF Link, i, c
  <2>2. PICK s, tb, n : h = [size |-> s, table |-> tb, used |-> n]
    BY <1>1 DEF Shaped
  <2>3. g = [size |-> s, table |-> [tb EXCEPT ![i] = c], used |-> n + 1]
    BY <2>1, <2>2
  <2>4. QED
    BY <2>2, <2>3 DEF Rechained
<1> HIDE DEF g
<1>6. /\ Shaped(g) /\ Placed(g) /\ g.size = h.size /\ g.used = h.used + 1
      /\ g.table = [h.table EXCEPT ![i] = c]
      /\ Chained(g) = (Chained(h) \ ToSet(h.table[i])) \cup ToSet(c)
  BY <1>1, <1>3, <1>4, <1>5, ReplaceChain
<1>7. Chained(g) = Chained(h) \cup {k}
  BY <1>1, <1>3, <1>6, ChainedKeys
<1>8. Cardinality(Chained(g)) = Cardinality(Chained(h)) + 1
  BY <1>1, <1>7, ChainedKeys, FS_AddElement
<1>9. Good(g)
  BY <1>6, <1>8 DEF Good
<1>10. [h.table EXCEPT ![i] = c] = [h.table EXCEPT ![Slot(h, k)] = <<k>> \o @]
  BY DEF i, c
<1>11. QED
  BY <1>6, <1>7, <1>9, <1>10 DEF g

(* dictGenericDelete unlinks the entry it found.                           *)
LEMMA UnlinkGood ==
  ASSUME NEW h, Good(h), NEW k \in Keys, Holds(h, k)
  PROVE  /\ Good(Unlink(h, k)) /\ Chained(Unlink(h, k)) = Chained(h) \ {k}
         /\ Unlink(h, k).size = h.size
         /\ \E j \in DOMAIN h.table[Slot(h, k)] :
              /\ h.table[Slot(h, k)][j] = k
              /\ Unlink(h, k).table
                   = [h.table EXCEPT ![Slot(h, k)] = RemoveAt(h.table[Slot(h, k)], j)]
<1> DEFINE i == Slot(h, k)
           q == h.table[i]
           j == Place(q, k)
           c == RemoveAt(q, j)
<1>1. i \in 0 .. h.size - 1 /\ Shaped(h) /\ Placed(h)
  BY SizeIsNat, SlotInTable DEF Good, Shaped, Holds
<1>2. q \in Seq(Keys) /\ Distinct(q) /\ k \in ToSet(q)
  <2>1. q \in Seq(Keys) /\ Distinct(q)
    BY <1>1 DEF Shaped
  <2>2. Contains(q, k)
    BY DEF Holds
  <2>3. QED
    BY <2>1, <2>2 DEF Contains, ToSet
<1> HIDE DEF i, q
<1>3. j \in DOMAIN q /\ q[j] = k
  BY <1>2 DEF Place, ToSet
<1> HIDE DEF j
<1>4. c \in Seq(Keys) /\ Distinct(c) /\ ToSet(c) = ToSet(q) \ {k}
  BY <1>2, <1>3, RemoveAtFacts, RemoveTakesOne
<1>5. \A x \in ToSet(c) : Slot(h, x) = i
  BY <1>1, <1>4 DEF Placed, q
<1> HIDE DEF c
<1> DEFINE g == Unlink(h, k)
<1>6. g = Rechained(h, i, c, h.used - 1)
  <2>1. g = [h EXCEPT !.table[i] = c, !.used = h.used - 1]
    BY DEF Unlink, i, c, q, j
  <2>2. PICK s, tb, n : h = [size |-> s, table |-> tb, used |-> n]
    BY <1>1 DEF Shaped
  <2>3. g = [size |-> s, table |-> [tb EXCEPT ![i] = c], used |-> n - 1]
    BY <2>1, <2>2
  <2>4. QED
    BY <2>2, <2>3 DEF Rechained
<1> HIDE DEF g
<1>7. /\ Shaped(g) /\ Placed(g) /\ g.size = h.size /\ g.used = h.used - 1
      /\ g.table = [h.table EXCEPT ![i] = c]
      /\ Chained(g) = (Chained(h) \ ToSet(q)) \cup ToSet(c)
  <2>1. /\ Shaped(g) /\ Placed(g) /\ g.size = h.size /\ g.used = h.used - 1
        /\ g.table = [h.table EXCEPT ![i] = c]
        /\ Chained(g) = (Chained(h) \ ToSet(h.table[i])) \cup ToSet(c)
    BY <1>1, <1>4, <1>5, <1>6, ReplaceChain
  <2>2. QED
    BY <2>1 DEF q
<1>8. k \in Chained(h) /\ ToSet(q) \subseteq Chained(h)
  BY <1>1, <1>2, ChainedKeys DEF q
<1>9. Chained(g) = Chained(h) \ {k}
  <2>1. \A x \in ToSet(q) : x \in Chained(h)
    BY <1>8
  <2>2. QED
    BY <1>2, <1>4, <1>7, <1>8, <2>1
<1>10. Cardinality(Chained(g)) = Cardinality(Chained(h)) - 1
  BY <1>1, <1>8, <1>9, ChainedKeys, FS_RemoveElement
<1>11. Good(g)
  BY <1>7, <1>10 DEF Good
<1>12. QED
  BY <1>3, <1>7, <1>9, <1>11 DEF g, i, q, c

(* dictRehash takes all the entries of a bucket.                           *)
LEMMA ClearGood ==
  ASSUME NEW h, Good(h), NEW i \in 0 .. h.size - 1
  PROVE  LET g == [h EXCEPT !.table[i] = << >>, !.used = @ - Len(h.table[i])]
         IN /\ Good(g) /\ Chained(g) = Chained(h) \ ToSet(h.table[i])
            /\ g.size = h.size /\ g.table = [h.table EXCEPT ![i] = << >>]
<1> DEFINE q == h.table[i]
           g == [h EXCEPT !.table[i] = << >>, !.used = @ - Len(h.table[i])]
<1>0. PICK e : e = << >>
  OBVIOUS
<1>1. /\ Shaped(h) /\ Placed(h) /\ q \in Seq(Keys) /\ Distinct(q)
      /\ h.used = Cardinality(Chained(h))
  BY DEF Good, Shaped
<1>2. e \in Seq(Keys) /\ ToSet(e) = {} /\ Distinct(e)
  BY <1>0 DEF ToSet, Distinct
<1> HIDE DEF g
<1>3. /\ Shaped(g) /\ Placed(g) /\ g.size = h.size /\ g.used = h.used - Len(q)
      /\ g.table = [h.table EXCEPT ![i] = e]
      /\ Chained(g) = (Chained(h) \ ToSet(q)) \cup ToSet(e)
  <2>1. \A k \in ToSet(e) : Slot(h, k) = i
    BY <1>2
  <2>2. g = [h EXCEPT !.table[i] = e, !.used = h.used - Len(q)]
    BY <1>0 DEF g
  <2>3. g = Rechained(h, i, e, h.used - Len(q))
    <3>1. PICK s, tb, n : h = [size |-> s, table |-> tb, used |-> n]
      BY <1>1 DEF Shaped
    <3>2. g = [size |-> s, table |-> [tb EXCEPT ![i] = e], used |-> n - Len(q)]
      BY <2>2, <3>1
    <3>3. QED
      BY <3>1, <3>2 DEF Rechained
  <2>4. QED
    BY <1>1, <1>2, <2>1, <2>3, ReplaceChain
<1> HIDE DEF q
<1>4. Chained(g) = Chained(h) \ ToSet(q)
  BY <1>2, <1>3
<1>5. ToSet(q) \subseteq Chained(h)
  BY <1>1, ChainedKeys DEF q
<1>6. Chained(h) \cap ToSet(q) = ToSet(q)
  BY <1>5
<1>7. Cardinality(Chained(g)) = Cardinality(Chained(h)) - Len(q)
  <2>1. IsFiniteSet(Chained(h)) /\ Cardinality(ToSet(q)) = Len(q)
    BY <1>1, ChainedKeys, DistinctCounts
  <2>2. Cardinality(Chained(h) \ ToSet(q))
          = Cardinality(Chained(h)) - Cardinality(Chained(h) \cap ToSet(q))
    BY <2>1, FS_Difference
  <2>3. QED
    BY <1>4, <1>6, <2>1, <2>2
<1>8. Good(g)
  BY <1>1, <1>3, <1>7 DEF Good
<1>9. QED
  BY <1>0, <1>3, <1>4, <1>8 DEF g, q

(* The loop of dictRehash over a bucket links all of its entries.          *)
LEMMA LinkAllGood ==
  ASSUME NEW h, Good(h), h.size # 0,
         NEW c \in Seq(Keys), Distinct(c), ToSet(c) \cap Chained(h) = {}
  PROVE  /\ Good(LinkAll(h, c)) /\ LinkAll(h, c).size = h.size
         /\ Chained(LinkAll(h, c)) = Chained(h) \cup ToSet(c)
<1> DEFINE N == Len(c)
           F == CHOOSE f : f = [j \in 0 .. N |-> IF j = 0 THEN h ELSE Link(f[j - 1], c[j])]
<1>1. N \in Nat /\ DOMAIN c = 1 .. N /\ \A j \in 1 .. N : c[j] \in Keys
  BY LenProperties
<1>2. LinkAll(h, c) = F[N]
  BY DEF LinkAll
<1> HIDE DEF N
<1>3. \E f : f = [j \in 0 .. N |-> IF j = 0 THEN h ELSE Link(f[j - 1], c[j])]
  <2> DEFINE S == {m \in Nat : \E f : f = [j \in 0 .. m |-> IF j = 0 THEN h
                                                           ELSE Link(f[j - 1], c[j])]}
  <2>1. 0 \in S
    <3>1. PICK f : f = [j \in 0 .. 0 |-> h]
      OBVIOUS
    <3>2. f = [j \in 0 .. 0 |-> IF j = 0 THEN h ELSE Link(f[j - 1], c[j])]
      BY <3>1
    <3>3. QED
      BY <3>2
  <2>2. ASSUME NEW m \in Nat, m \in S
        PROVE  m + 1 \in S
    <3>1. PICK f : f = [j \in 0 .. m |-> IF j = 0 THEN h ELSE Link(f[j - 1], c[j])]
      BY <2>2
    <3> DEFINE g == [j \in 0 .. m + 1 |-> IF j = m + 1 THEN Link(f[m], c[m + 1]) ELSE f[j]]
    <3>2. ASSUME NEW j \in 0 .. m + 1
          PROVE  g[j] = IF j = 0 THEN h ELSE Link(g[j - 1], c[j])
      <4>1. CASE j = m + 1
        <5>1. g[j] = Link(f[m], c[m + 1]) /\ j # 0 /\ j - 1 = m /\ m # m + 1
          BY <4>1
        <5>2. g[m] = f[m]
          BY <5>1
        <5>3. QED
          BY <4>1, <5>1, <5>2
      <4>2. CASE j # m + 1
        <5>1. j \in 0 .. m /\ g[j] = f[j]
          BY <4>2
        <5>2. j # 0 => j - 1 \in 0 .. m + 1 /\ j - 1 # m + 1 /\ g[j - 1] = f[j - 1]
          BY <5>1
        <5> HIDE DEF g
        <5>3. f[j] = IF j = 0 THEN h ELSE Link(f[j - 1], c[j])
          BY <3>1, <5>1
        <5>4. QED
          BY <5>1, <5>2, <5>3
      <4>3. QED
        BY <4>1, <4>2
    <3>3. g = [j \in 0 .. m + 1 |-> g[j]]
      OBVIOUS
    <3> HIDE DEF g
    <3>4. g = [j \in 0 .. m + 1 |-> IF j = 0 THEN h ELSE Link(g[j - 1], c[j])]
      BY <3>2, <3>3
    <3>5. QED
      BY <3>4
  <2> HIDE DEF S
  <2>3. Nat \subseteq S
    BY <2>1, <2>2, NatSetInduction
  <2>4. N \in S
    BY <1>1, <2>3
  <2>5. QED
    BY <2>4 DEF S
<1>4. F = [j \in 0 .. N |-> IF j = 0 THEN h ELSE Link(F[j - 1], c[j])]
  BY <1>3
<1> HIDE DEF F
<1> DEFINE Linked(m) == /\ Good(F[m]) /\ F[m].size = h.size
                        /\ Chained(F[m]) = Chained(h) \cup {c[i] : i \in 1 .. m}
<1>5. Linked(0)
  BY <1>1, <1>4
<1>6. ASSUME NEW m \in Nat, m + 1 <= N, Linked(m)
      PROVE  Linked(m + 1)
  <2>1. m + 1 \in 1 .. N /\ F[m + 1] = Link(F[m], c[m + 1]) /\ c[m + 1] \in Keys
    BY <1>1, <1>4, <1>6
  <2>2. c[m + 1] \notin Chained(h)
    BY <1>1, <2>1 DEF ToSet
  <2>3. c[m + 1] \notin {c[i] : i \in 1 .. m}
    BY <1>1, <2>1 DEF Distinct
  <2>4. /\ Good(F[m + 1]) /\ Chained(F[m + 1]) = Chained(F[m]) \cup {c[m + 1]}
        /\ F[m + 1].size = F[m].size
    <3>1. c[m + 1] \notin Chained(F[m])
      BY <1>6, <2>2, <2>3
    <3>2. Good(F[m]) /\ F[m].size # 0
      BY <1>6
    <3> HIDE DEF Linked
    <3>3. PICK g, k : g = F[m] /\ k = c[m + 1]
      OBVIOUS
    <3>4. /\ Good(Link(g, k)) /\ Chained(Link(g, k)) = Chained(g) \cup {k}
          /\ Link(g, k).size = g.size
      BY <2>1, <3>1, <3>2, <3>3, LinkGood
    <3>5. QED
      BY <2>1, <3>3, <3>4
  <2>5. {c[i] : i \in 1 .. m + 1} = {c[i] : i \in 1 .. m} \cup {c[m + 1]}
    BY <1>1, <2>1
  <2>6. QED
    BY <1>6, <2>4, <2>5
<1>7. Linked(N)
  <2> DEFINE S == {m \in Nat : m <= N => Linked(m)}
  <2> HIDE DEF Linked
  <2>1. 0 \in S
    BY <1>5
  <2>2. ASSUME NEW m \in Nat, m \in S
        PROVE  m + 1 \in S
    BY <1>1, <1>6, <2>2
  <2> HIDE DEF S
  <2>3. N \in S
    BY <1>1, <2>1, <2>2, NatSetInduction
  <2>4. QED
    BY <1>1, <2>3 DEF S
<1>8. {c[i] : i \in 1 .. N} = ToSet(c)
  BY <1>1 DEF ToSet
<1>9. QED
  BY <1>2, <1>7, <1>8

-----------------------------------------------------------------------------
(* The dict *)

(* What holds of the dict between any two steps of the library, in the     *)
(* middle of a rehash too.                                                 *)
Formed(t) ==
  /\ t = [ht |-> t.ht, rehashidx |-> t.rehashidx, iterators |-> t.iterators]
  /\ t.ht = [i \in {0, 1} |-> t.ht[i]]

Sound(t) ==
  /\ Formed(t)
  /\ Good(t.ht[0]) /\ Good(t.ht[1])
  /\ Chained(t.ht[0]) \cap Chained(t.ht[1]) = {}
  /\ t.rehashidx \in -1 .. t.ht[0].size
  /\ dictIsRehashing(t) <=> t.ht[1].size # 0
  /\ dictIsRehashing(t) => t.ht[0].size # 0
  /\ \A j \in 0 .. t.ht[0].size - 1 : j < t.rehashidx => t.ht[0].table[j] = << >>

(* The dict made of two tables.                                            *)
Dict(a, b, r, n) ==
  [ht |-> [i \in {0, 1} |-> IF i = 0 THEN a ELSE b], rehashidx |-> r, iterators |-> n]

(* How the code's assignments to the fields of a dict read.                *)
LEMMA DictFields ==
  ASSUME NEW t, Formed(t)
  PROVE  /\ t = Dict(t.ht[0], t.ht[1], t.rehashidx, t.iterators)
         /\ \A a : [t EXCEPT !.ht[0] = a] = Dict(a, t.ht[1], t.rehashidx, t.iterators)
         /\ \A a : [t EXCEPT !.ht[1] = a] = Dict(t.ht[0], a, t.rehashidx, t.iterators)
         /\ \A b, r : [t EXCEPT !.ht[1] = b, !.rehashidx = r]
                        = Dict(t.ht[0], b, r, t.iterators)
<1>1. PICK H, x, n : t = [ht |-> H, rehashidx |-> x, iterators |-> n]
  BY DEF Formed
<1>2. t.ht = H /\ t.rehashidx = x /\ t.iterators = n
  BY <1>1
<1>3. H = [i \in {0, 1} |-> H[i]]
  BY <1>2 DEF Formed
<1>4. H = [i \in {0, 1} |-> IF i = 0 THEN H[0] ELSE H[1]]
  BY <1>3
<1>5. t = Dict(t.ht[0], t.ht[1], t.rehashidx, t.iterators)
  BY <1>1, <1>2, <1>4 DEF Dict
<1>6. ASSUME NEW a
      PROVE  [t EXCEPT !.ht[0] = a] = Dict(a, t.ht[1], t.rehashidx, t.iterators)
  BY <1>1, <1>3 DEF Dict
<1>7. ASSUME NEW a
      PROVE  [t EXCEPT !.ht[1] = a] = Dict(t.ht[0], a, t.rehashidx, t.iterators)
  BY <1>1, <1>3 DEF Dict
<1>8. ASSUME NEW b, NEW r
      PROVE  [t EXCEPT !.ht[1] = b, !.rehashidx = r] = Dict(t.ht[0], b, r, t.iterators)
  <2>1. PICK g : g = [t EXCEPT !.ht[1] = b, !.rehashidx = r]
    OBVIOUS
  <2>2. g = [ht |-> [H EXCEPT ![1] = b], rehashidx |-> r, iterators |-> n]
    BY <1>1, <2>1
  <2>3. [H EXCEPT ![1] = b] = [i \in {0, 1} |-> IF i = 0 THEN H[0] ELSE b]
    BY <1>3
  <2>4. QED
    BY <1>2, <2>1, <2>2, <2>3 DEF Dict
<1>9. QED
  BY <1>5, <1>6, <1>7, <1>8

(* The fields of such a dict.                                              *)
LEMMA DictIs ==
  ASSUME NEW a, NEW b, NEW r, NEW n
  PROVE  /\ Formed(Dict(a, b, r, n))
         /\ Dict(a, b, r, n).ht[0] = a /\ Dict(a, b, r, n).ht[1] = b
         /\ Dict(a, b, r, n).rehashidx = r /\ Dict(a, b, r, n).iterators = n
         /\ Stored(Dict(a, b, r, n)) = Chained(a) \cup Chained(b)
BY DEF Dict, Formed, Stored

(* dictCreate *)
LEMMA NewDictSound ==
  ASSUME NEW n
  PROVE  LET t == [ht |-> [i \in {0, 1} |-> NoTable], rehashidx |-> -1, iterators |-> n]
         IN Sound(t) /\ Stored(t) = {} /\ t.iterators = n
<1> DEFINE t == [ht |-> [i \in {0, 1} |-> NoTable], rehashidx |-> -1, iterators |-> n]
<1>1. /\ Formed(t) /\ t.ht[0] = NoTable /\ t.ht[1] = NoTable /\ t.rehashidx = -1
      /\ t.iterators = n
  BY DEF Formed
<1> HIDE DEF t
<1>2. Good(NoTable) /\ Chained(NoTable) = {} /\ NoTable.size = 0
  BY NewTableGood DEF NoTable
<1>3. QED
  BY <1>1, <1>2 DEF Sound, Stored, dictIsRehashing, t

(* Below LONG_MAX, a table that is large enough exists.                    *)
LEMMA NextPowerIs ==
  ASSUME NEW n \in Nat, n < LONG_MAX
  PROVE  /\ _dictNextPower(n) \in Powers /\ _dictNextPower(n) >= n
         /\ _dictNextPower(n) \in Nat /\ _dictNextPower(n) # 0
<1> DEFINE S == {p \in Powers : p >= DICT_HT_INITIAL_SIZE /\ p >= n}
<1>1. Powers \subseteq Nat /\ 0 \notin Powers
  BY PowersAre
<1>2. LONG_MAX \in Nat /\ LONG_MAX + 1 \in Powers
  BY PowersAre
<1>3. LONG_MAX + 1 \in S
  BY <1>1, <1>2, PowersAssumption
<1>4. Min(S) \in S
  BY <1>1, <1>3, LeastIsIn
<1>5. _dictNextPower(n) = Min(S)
  BY <1>2 DEF _dictNextPower
<1> HIDE DEF _dictNextPower
<1>6. QED
  BY <1>1, <1>4, <1>5

(* The tables of u are those of t, or new and empty where t has none.      *)
Extends(t, u) ==
  \A i \in {0, 1} :
    \/ u.ht[i] = t.ht[i]
    \/ /\ t.ht[i].size = 0
       /\ \A j \in 0 .. u.ht[i].size - 1 : u.ht[i].table[j] = << >>

(* dictExpand replaces no table that has entries.                          *)
LEMMA ExpandedSound ==
  ASSUME NEW t, Sound(t), NEW n \in Nat, n < LONG_MAX
  PROVE  /\ Sound(Expanded(t, n)) /\ Stored(Expanded(t, n)) = Stored(t)
         /\ Expanded(t, n).iterators = t.iterators
         /\ dictIsRehashing(t) => Expanded(t, n) = t
         /\ t.ht[0].size # 0 => Expanded(t, n).ht[0] = t.ht[0]
         /\ t.ht[0].size = 0 /\ ~dictIsRehashing(t) => Expanded(t, n).ht[0].size # 0
         /\ Extends(t, Expanded(t, n))
<1> DEFINE p == _dictNextPower(n)
           a == t.ht[0]
           b == NewTable(p)
<1>1. /\ Good(b) /\ Chained(b) = {} /\ b.size = p /\ p # 0 /\ p \in Nat
      /\ b.used = 0 /\ \A i \in 0 .. p - 1 : b.table[i] = << >>
  BY NextPowerIs, NewTableGood
<1> HIDE DEF p, b
<1>2. /\ Formed(t) /\ Good(a) /\ Shaped(a) /\ a.size \in Nat
  BY SizeIsNat DEF Sound, Good, Shaped
<1>3. CASE dictIsRehashing(t)
  BY <1>3 DEF Expanded, Sound, Extends
<1>4. CASE ~dictIsRehashing(t) /\ a.size = 0
  <2>1. Chained(a) = {} /\ a.used = 0
    BY <1>2, <1>4, ChainedKeys DEF Good
  <2>2. t.rehashidx = -1 /\ t.ht[1].size = 0
    BY <1>4 DEF Sound, dictIsRehashing
  <2>3. Expanded(t, n) = [t EXCEPT !.ht[0] = b]
    BY <1>4, <2>1 DEF Expanded, p, b
  <2>4. Expanded(t, n) = Dict(b, t.ht[1], -1, t.iterators)
    BY <1>2, <2>2, <2>3, DictFields
  <2>5. Sound(Expanded(t, n))
    BY <1>1, <1>4, <2>1, <2>2, <2>4, DictIs DEF Sound, dictIsRehashing
  <2>6. Stored(Expanded(t, n)) = Stored(t)
    BY <1>1, <2>1, <2>4, DictIs DEF Stored
  <2>7. Extends(t, Expanded(t, n))
    BY <1>1, <1>4, <2>4, DictIs DEF Extends
  <2>8. QED
    BY <1>1, <1>4, <2>4, <2>5, <2>6, <2>7, DictIs
<1>5. CASE ~dictIsRehashing(t) /\ a.size # 0
  <2>1. CASE a.used > n
    BY <1>5, <2>1 DEF Expanded, Extends
  <2>2. CASE ~(a.used > n)
    <3>1. Expanded(t, n) = [t EXCEPT !.ht[1] = b, !.rehashidx = 0]
      BY <1>5, <2>2 DEF Expanded, p, b
    <3>2. Expanded(t, n) = Dict(a, b, 0, t.iterators)
      BY <1>2, <3>1, DictFields
    <3>3. t.ht[1].size = 0 /\ Good(t.ht[1])
      BY <1>5 DEF Sound
    <3>4. Chained(t.ht[1]) = {}
      BY <3>3, ChainedKeys DEF Good
    <3>5. Sound(Expanded(t, n))
      BY <1>1, <1>2, <1>5, <3>2, DictIs DEF Sound, dictIsRehashing
    <3>6. Stored(Expanded(t, n)) = Stored(t)
      BY <1>1, <3>2, <3>4, DictIs DEF Stored
    <3>7. Extends(t, Expanded(t, n))
      BY <1>1, <3>2, <3>3, DictIs DEF Extends
    <3>8. QED
      BY <1>5, <3>2, <3>5, <3>6, <3>7, DictIs
  <2>3. QED
    BY <2>1, <2>2
<1>6. QED
  BY <1>3, <1>4, <1>5

(* The loop over empty buckets ends at one that is not, and those before   *)
(* it are empty.                                                           *)
LEMMA NextBucketIs ==
  ASSUME NEW t, Sound(t), dictIsRehashing(t), t.ht[0].used # 0
  PROVE  LET i == Min({j \in DOMAIN t.ht[0].table :
                         j >= t.rehashidx /\ t.ht[0].table[j] # << >>})
         IN /\ i \in 0 .. t.ht[0].size - 1 /\ i >= t.rehashidx
            /\ \A j \in 0 .. t.ht[0].size - 1 : j < i => t.ht[0].table[j] = << >>
<1> DEFINE h == t.ht[0]
           S == {j \in DOMAIN h.table : j >= t.rehashidx /\ h.table[j] # << >>}
<1>1. /\ Shaped(h) /\ h.size \in Nat /\ DOMAIN h.table = 0 .. h.size - 1
      /\ h.used = Cardinality(Chained(h)) /\ t.rehashidx \in Int
      /\ \A j \in 0 .. h.size - 1 : j < t.rehashidx => h.table[j] = << >>
  BY SizeIsNat DEF Sound, Good, Shaped
<1>2. PICK j \in 0 .. h.size - 1 : h.table[j] # << >>
  <2>1. Chained(h) # {}
    BY <1>1, ChainedKeys
  <2>2. \E k : \E j \in 0 .. h.size - 1 : k \in ToSet(h.table[j])
    BY <1>1, <2>1, ChainedKeys
  <2>3. ToSet(<< >>) = {}
    BY DEF ToSet
  <2>4. QED
    BY <2>2, <2>3
<1>3. S \subseteq Nat /\ S # {}
  BY <1>1, <1>2
<1>4. Min(S) \in S /\ \A y \in S : Min(S) <= y
  BY <1>3, LeastIsIn
<1>5. PICK i : i = Min(S)
  OBVIOUS
<1>6. ASSUME NEW y \in 0 .. h.size - 1, y < i
      PROVE  h.table[y] = << >>
  <2>1. i \in Nat
    BY <1>3, <1>4, <1>5
  <2> HIDE DEF S
  <2>2. y \notin S
    BY <1>4, <1>5, <1>6, <2>1
  <2> USE DEF S
  <2>3. QED
    BY <1>1, <2>2
<1>7. i \in 0 .. h.size - 1 /\ i >= t.rehashidx
  BY <1>1, <1>4, <1>5
<1>8. QED
  BY <1>5, <1>6, <1>7

(* One round of dictRehash loses nothing, whatever the two tables.         *)
LEMMA RehashOneSound ==
  ASSUME NEW t, Sound(t)
  PROVE  /\ Sound(RehashOne(t)) /\ Stored(RehashOne(t)) = Stored(t)
         /\ RehashOne(t).iterators = t.iterators
<1> DEFINE a == t.ht[0]
           b == t.ht[1]
<1>1. /\ Formed(t) /\ Good(a) /\ Good(b) /\ Shaped(a) /\ a.size \in Nat /\ b.size \in Nat
      /\ Chained(a) \cap Chained(b) = {} /\ t.rehashidx \in -1 .. a.size
      /\ dictIsRehashing(t) <=> b.size # 0
  BY SizeIsNat DEF Sound, Good, Shaped
<1>2. CASE ~dictIsRehashing(t)
  BY <1>2 DEF RehashOne
<1>3. CASE dictIsRehashing(t) /\ a.used = 0
  <2>1. RehashOne(t) = [t EXCEPT !.ht[0] = b, !.ht[1] = NoTable, !.rehashidx = -1]
    BY <1>3 DEF RehashOne
  <2>2. RehashOne(t) = Dict(b, NoTable, -1, t.iterators)
    <3>1. PICK H, x, n : t = [ht |-> H, rehashidx |-> x, iterators |-> n]
      BY <1>1 DEF Formed
    <3>2. t.ht = H /\ t.iterators = n /\ H = [k \in {0, 1} |-> H[k]]
      BY <1>1, <3>1 DEF Formed
    <3>3. RehashOne(t) = [ht |-> [H EXCEPT ![0] = b, ![1] = NoTable],
                          rehashidx |-> -1, iterators |-> n]
      BY <2>1, <3>1
    <3>4. [H EXCEPT ![0] = b, ![1] = NoTable]
            = [k \in {0, 1} |-> IF k = 0 THEN b ELSE NoTable]
      BY <3>2
    <3>5. QED
      BY <3>2, <3>3, <3>4 DEF Dict
  <2>3. Good(NoTable) /\ Chained(NoTable) = {} /\ NoTable.size = 0
    BY NewTableGood DEF NoTable
  <2>4. Chained(a) = {}
    BY <1>1, <1>3, ChainedKeys DEF Good
  <2>5. Sound(RehashOne(t))
    BY <1>1, <2>2, <2>3, DictIs DEF Sound, dictIsRehashing
  <2>6. Stored(RehashOne(t)) = Stored(t)
    BY <2>2, <2>3, <2>4, DictIs DEF Stored
  <2>7. QED
    BY <2>2, <2>5, <2>6, DictIs
<1>4. CASE dictIsRehashing(t) /\ a.used # 0
  <2> DEFINE i == Min({j \in DOMAIN a.table : j >= t.rehashidx /\ a.table[j] # << >>})
             q == a.table[i]
             a2 == [a EXCEPT !.table[i] = << >>, !.used = @ - Len(a.table[i])]
             b2 == LinkAll(b, q)
  <2>1. /\ i \in 0 .. a.size - 1 /\ i >= t.rehashidx
        /\ \A j \in 0 .. a.size - 1 : j < i => a.table[j] = << >>
    BY <1>4, NextBucketIs
  <2>2. RehashOne(t) = [t EXCEPT !.ht[0] = a2, !.ht[1] = b2, !.rehashidx = i + 1]
    BY <1>4 DEF RehashOne, Moved
  <2> HIDE DEF i
  <2>3. /\ Good(a2) /\ Chained(a2) = Chained(a) \ ToSet(q)
        /\ a2.size = a.size /\ a2.table = [a.table EXCEPT ![i] = << >>]
    BY <1>1, <2>1, ClearGood
  <2>4. q \in Seq(Keys) /\ Distinct(q) /\ ToSet(q) \subseteq Chained(a)
    BY <1>1, <2>1, ChainedKeys DEF Shaped
  <2> HIDE DEF a2
  <2>5. ToSet(q) \cap Chained(b) = {} /\ b.size # 0
    BY <1>1, <1>4, <2>4
  <2>6. /\ Good(b2) /\ b2.size = b.size /\ Chained(b2) = Chained(b) \cup ToSet(q)
    BY <1>1, <2>4, <2>5, LinkAllGood
  <2> HIDE DEF b2
  <2>7. RehashOne(t) = Dict(a2, b2, i + 1, t.iterators)
    <3>1. PICK H, x, n : t = [ht |-> H, rehashidx |-> x, iterators |-> n]
      BY <1>1 DEF Formed
    <3>2. t.ht = H /\ t.iterators = n /\ H = [k \in {0, 1} |-> H[k]]
      BY <1>1, <3>1 DEF Formed
    <3>3. RehashOne(t) = [ht |-> [H EXCEPT ![0] = a2, ![1] = b2],
                          rehashidx |-> i + 1, iterators |-> n]
      BY <2>2, <3>1
    <3>4. [H EXCEPT ![0] = a2, ![1] = b2]
            = [k \in {0, 1} |-> IF k = 0 THEN a2 ELSE b2]
      BY <3>2
    <3>5. QED
      BY <3>2, <3>3, <3>4 DEF Dict
  <2>8. Chained(a2) \cap Chained(b2) = {}
    BY <1>1, <2>3, <2>6
  <2>9. \A j \in 0 .. a2.size - 1 : j < i + 1 => a2.table[j] = << >>
    <3>1. a.table \in [0 .. a.size - 1 -> Seq(Keys)]
      BY <1>1 DEF Shaped
    <3>2. QED
      BY <1>1, <2>1, <2>3, <3>1
  <2>10. Sound(RehashOne(t))
    <3>1. i + 1 \in -1 .. a2.size /\ i + 1 # -1
      BY <1>1, <2>1, <2>3
    <3>2. PICK u : u = RehashOne(t)
      OBVIOUS
    <3>3. /\ Formed(u) /\ u.ht[0] = a2 /\ u.ht[1] = b2 /\ u.rehashidx = i + 1
      BY <2>7, <3>2, DictIs
    <3>4. Sound(u)
      BY <2>3, <2>5, <2>6, <2>8, <2>9, <3>1, <3>3 DEF Sound, dictIsRehashing
    <3>5. QED
      BY <3>2, <3>4
  <2>11. Stored(RehashOne(t)) = Stored(t)
    <3>1. Stored(RehashOne(t)) = Chained(a2) \cup Chained(b2)
      BY <2>7, DictIs
    <3>2. Stored(t) = Chained(a) \cup Chained(b)
      BY DEF Stored
    <3>3. QED
      BY <2>3, <2>4, <2>6, <3>1, <3>2
  <2>12. QED
    BY <2>7, <2>10, <2>11, DictIs
<1>5. QED
  BY <1>2, <1>3, <1>4

(* dictRehash, for any number of rounds.                                   *)
LEMMA RehashSound ==
  ASSUME NEW t, Sound(t), NEW n \in Nat
  PROVE  /\ Sound(dictRehash(t, n)) /\ Stored(dictRehash(t, n)) = Stored(t)
         /\ dictRehash(t, n).iterators = t.iterators
<1> DEFINE F == CHOOSE f : f = [i \in 0 .. n |-> IF i = 0 THEN t ELSE RehashOne(f[i - 1])]
<1>1. dictRehash(t, n) = F[n]
  BY DEF dictRehash
<1>2. \E f : f = [i \in 0 .. n |-> IF i = 0 THEN t ELSE RehashOne(f[i - 1])]
  <2> DEFINE S == {m \in Nat : \E f : f = [i \in 0 .. m |-> IF i = 0 THEN t
                                                           ELSE RehashOne(f[i - 1])]}
  <2>1. 0 \in S
    <3>1. PICK f : f = [i \in 0 .. 0 |-> t]
      OBVIOUS
    <3>2. f = [i \in 0 .. 0 |-> IF i = 0 THEN t ELSE RehashOne(f[i - 1])]
      BY <3>1
    <3>3. QED
      BY <3>2
  <2>2. ASSUME NEW m \in Nat, m \in S
        PROVE  m + 1 \in S
    <3>1. PICK f : f = [i \in 0 .. m |-> IF i = 0 THEN t ELSE RehashOne(f[i - 1])]
      BY <2>2
    <3> DEFINE g == [i \in 0 .. m + 1 |-> IF i = m + 1 THEN RehashOne(f[m]) ELSE f[i]]
    <3>2. ASSUME NEW i \in 0 .. m + 1
          PROVE  g[i] = IF i = 0 THEN t ELSE RehashOne(g[i - 1])
      <4>1. CASE i = m + 1
        <5>1. g[i] = RehashOne(f[m]) /\ i # 0 /\ i - 1 = m /\ m # m + 1
          BY <4>1
        <5>2. g[m] = f[m]
          BY <5>1
        <5>3. QED
          BY <4>1, <5>1, <5>2
      <4>2. CASE i # m + 1
        <5>1. i \in 0 .. m /\ g[i] = f[i]
          BY <4>2
        <5>2. i # 0 => i - 1 \in 0 .. m + 1 /\ i - 1 # m + 1 /\ g[i - 1] = f[i - 1]
          BY <5>1
        <5> HIDE DEF g
        <5>3. f[i] = IF i = 0 THEN t ELSE RehashOne(f[i - 1])
          BY <3>1, <5>1
        <5>4. QED
          BY <5>1, <5>2, <5>3
      <4>3. QED
        BY <4>1, <4>2
    <3>3. g = [i \in 0 .. m + 1 |-> g[i]]
      OBVIOUS
    <3> HIDE DEF g
    <3>4. g = [i \in 0 .. m + 1 |-> IF i = 0 THEN t ELSE RehashOne(g[i - 1])]
      BY <3>2, <3>3
    <3>5. QED
      BY <3>4
  <2> HIDE DEF S
  <2>3. n \in S
    BY <2>1, <2>2, NatSetInduction
  <2>4. QED
    BY <2>3 DEF S
<1>3. F = [i \in 0 .. n |-> IF i = 0 THEN t ELSE RehashOne(F[i - 1])]
  BY <1>2
<1> HIDE DEF F
<1> DEFINE After(m) ==
      Sound(F[m]) /\ Stored(F[m]) = Stored(t) /\ F[m].iterators = t.iterators
           S == {m \in Nat : m <= n => After(m)}
<1>4. F[0] = t
  BY <1>3
<1>5. ASSUME NEW m \in Nat, m + 1 <= n, After(m)
      PROVE  After(m + 1)
  <2>1. F[m + 1] = RehashOne(F[m])
    BY <1>3, <1>5
  <2>2. PICK u : u = F[m]
    OBVIOUS
  <2>3. Sound(RehashOne(u)) /\ Stored(RehashOne(u)) = Stored(u)
        /\ RehashOne(u).iterators = u.iterators
    BY <1>5, <2>2, RehashOneSound
  <2>4. QED
    BY <1>5, <2>1, <2>2, <2>3
<1>6. After(0)
  BY <1>4
<1> HIDE DEF After
<1>7. 0 \in S /\ \A m \in Nat : m \in S => m + 1 \in S
  BY <1>5, <1>6
<1> HIDE DEF S
<1>8. n \in S
  BY <1>7, NatSetInduction
<1>9. QED
  BY <1>1, <1>8 DEF S, After

-----------------------------------------------------------------------------
(* What the calls are made of *)

(* _dictRehashStep                                                         *)
LEMMA StepSound ==
  ASSUME NEW t, Sound(t)
  PROVE  /\ Sound(_dictRehashStep(t)) /\ Stored(_dictRehashStep(t)) = Stored(t)
         /\ _dictRehashStep(t).iterators = t.iterators
BY RehashOneSound DEF _dictRehashStep

(* Looking in the tables in use finds what is stored.                      *)
LEMMA HasExact ==
  ASSUME NEW t, Sound(t), NEW k \in Keys
  PROVE  Has(t, k) <=> k \in Stored(t)
<1>1. \A i \in {0, 1} : Holds(t.ht[i], k) <=> k \in Chained(t.ht[i])
  BY HoldsExact DEF Sound, Good
<1>2. CASE dictIsRehashing(t)
  BY <1>1, <1>2 DEF Has, Tables, Stored
<1>3. CASE ~dictIsRehashing(t)
  <2>1. t.ht[1].size = 0 /\ Shaped(t.ht[1])
    BY <1>3 DEF Sound, Good
  <2>2. Chained(t.ht[1]) = {}
    BY <2>1, ChainedKeys
  <2>3. QED
    BY <1>1, <1>3, <2>2 DEF Has, Tables, Stored
<1>4. QED
  BY <1>2, <1>3

(* Before an entry is linked, the table it goes to has buckets.            *)
LEMMA ExpandIfNeededSound ==
  ASSUME NEW t, Sound(t)
  PROVE  LET u == _dictExpandIfNeeded(t)
         IN /\ Sound(u) /\ Stored(u) = Stored(t) /\ u.iterators = t.iterators
            /\ u.ht[Filling(u)].size # 0
            /\ Extends(t, u)
<1> DEFINE a == t.ht[0]
<1>1. /\ a.used \in Nat /\ a.used <= Cardinality(Keys) /\ Cardinality(Keys) \in Nat
  BY ChainedKeys, KeysAssumption, FS_CardinalityType DEF Sound, Good
<1>2. \A u : Sound(u) /\ dictIsRehashing(u) => u.ht[Filling(u)].size # 0
  BY DEF Sound, Filling
<1>3. \A u : ~dictIsRehashing(u) => Filling(u) = 0
  BY DEF Filling
<1>4. CASE dictIsRehashing(t)
  BY <1>2, <1>4 DEF _dictExpandIfNeeded, Extends
<1>5. CASE ~dictIsRehashing(t) /\ a.size = 0
  <2>1. DICT_HT_INITIAL_SIZE \in Nat /\ DICT_HT_INITIAL_SIZE < LONG_MAX
    BY PowersAssumption, PowersAre
  <2>2. _dictExpandIfNeeded(t) = Expanded(t, DICT_HT_INITIAL_SIZE)
    BY <1>5 DEF _dictExpandIfNeeded
  <2>3. PICK u : u = Expanded(t, DICT_HT_INITIAL_SIZE)
    OBVIOUS
  <2>4. /\ Sound(u) /\ Stored(u) = Stored(t) /\ u.iterators = t.iterators /\ u.ht[0].size # 0
        /\ Extends(t, u)
    BY <1>5, <2>1, <2>3, ExpandedSound
  <2>5. QED
    BY <1>2, <1>3, <2>2, <2>3, <2>4
<1>6. CASE ~dictIsRehashing(t) /\ a.size # 0
  <2>1. CASE ~MustGrow(a)
    BY <1>3, <1>6, <2>1 DEF _dictExpandIfNeeded, Extends
  <2>2. CASE MustGrow(a)
    <3>1. a.used * 2 \in Nat /\ a.used * 2 < LONG_MAX
      BY <1>1, RoomAssumption, PowersAre
    <3>2. _dictExpandIfNeeded(t) = Expanded(t, a.used * 2)
      BY <1>6, <2>2 DEF _dictExpandIfNeeded
    <3>3. PICK u, n : n = a.used * 2 /\ u = Expanded(t, n)
      OBVIOUS
    <3>4. /\ Sound(u) /\ Stored(u) = Stored(t) /\ u.iterators = t.iterators /\ u.ht[0] = a
          /\ Extends(t, u)
      BY <1>6, <3>1, <3>3, ExpandedSound
    <3>5. QED
      BY <1>2, <1>3, <1>6, <3>2, <3>3, <3>4
  <2>3. QED
    BY <2>1, <2>2
<1>7. QED
  BY <1>4, <1>5, <1>6

(* Before dictAddRaw links an entry there is a table to link it in.        *)
LEMMA PreparedSound ==
  ASSUME NEW t, Sound(t)
  PROVE  /\ Sound(Prepared(t)) /\ Stored(Prepared(t)) = Stored(t)
         /\ Prepared(t).iterators = t.iterators
         /\ Prepared(t).ht[Filling(Prepared(t))].size # 0
<1>1. PICK u : u = _dictRehashStep(t)
  OBVIOUS
<1>2. Sound(u) /\ Stored(u) = Stored(t) /\ u.iterators = t.iterators
  BY <1>1, StepSound
<1>3. PICK w : w = _dictExpandIfNeeded(u)
  OBVIOUS
<1>4. /\ Sound(w) /\ Stored(w) = Stored(u) /\ w.iterators = u.iterators
      /\ w.ht[Filling(w)].size # 0
  BY <1>2, <1>3, ExpandIfNeededSound
<1>5. Prepared(t) = w
  BY <1>1, <1>3 DEF Prepared
<1>6. QED
  BY <1>2, <1>4, <1>5

(* A new entry is linked in one table, and only there.                     *)
LEMMA WithEntrySound ==
  ASSUME NEW t, Sound(t), t.ht[Filling(t)].size # 0,
         NEW k \in Keys, k \notin Stored(t)
  PROVE  /\ Sound(WithEntry(t, k)) /\ Stored(WithEntry(t, k)) = Stored(t) \cup {k}
         /\ WithEntry(t, k).iterators = t.iterators
<1> DEFINE a == t.ht[0]
           b == t.ht[1]
<1>1. /\ Formed(t) /\ Good(a) /\ Good(b) /\ Chained(a) \cap Chained(b) = {}
      /\ k \notin Chained(a) /\ k \notin Chained(b)
      /\ Stored(t) = Chained(a) \cup Chained(b)
  BY DEF Sound, Stored
<1>2. CASE dictIsRehashing(t)
  <2>1. b.size # 0 /\ Filling(t) = 1
    BY <1>2 DEF Filling
  <2>2. PICK c : c = Link(b, k)
    OBVIOUS
  <2>3. Good(c) /\ Chained(c) = Chained(b) \cup {k} /\ c.size = b.size
    BY <1>1, <2>1, <2>2, LinkGood
  <2>4. WithEntry(t, k) = [t EXCEPT !.ht[1] = c]
    BY <2>1, <2>2 DEF WithEntry
  <2>5. WithEntry(t, k) = Dict(a, c, t.rehashidx, t.iterators)
    BY <1>1, <2>4, DictFields
  <2>6. PICK u : u = WithEntry(t, k)
    OBVIOUS
  <2>7. /\ Formed(u) /\ u.ht[0] = a /\ u.ht[1] = c /\ u.rehashidx = t.rehashidx
        /\ u.iterators = t.iterators /\ Stored(u) = Chained(a) \cup Chained(c)
    BY <2>5, <2>6, DictIs
  <2>8. Sound(u)
    BY <1>1, <2>3, <2>7 DEF Sound, dictIsRehashing
  <2>9. QED
    BY <1>1, <2>3, <2>6, <2>7, <2>8
<1>3. CASE ~dictIsRehashing(t)
  <2>1. a.size # 0 /\ Filling(t) = 0
    BY <1>3 DEF Filling
  <2>2. PICK c : c = Link(a, k)
    OBVIOUS
  <2>3. Good(c) /\ Chained(c) = Chained(a) \cup {k} /\ c.size = a.size
    BY <1>1, <2>1, <2>2, LinkGood
  <2>4. WithEntry(t, k) = [t EXCEPT !.ht[0] = c]
    BY <2>1, <2>2 DEF WithEntry
  <2>5. WithEntry(t, k) = Dict(c, b, t.rehashidx, t.iterators)
    BY <1>1, <2>4, DictFields
  <2>6. PICK u : u = WithEntry(t, k)
    OBVIOUS
  <2>7. /\ Formed(u) /\ u.ht[0] = c /\ u.ht[1] = b /\ u.rehashidx = t.rehashidx
        /\ u.iterators = t.iterators /\ Stored(u) = Chained(c) \cup Chained(b)
    BY <2>5, <2>6, DictIs
  <2>8. Sound(u)
    BY <1>1, <1>3, <2>3, <2>7 DEF Sound, dictIsRehashing
  <2>9. QED
    BY <1>1, <2>3, <2>6, <2>7, <2>8
<1>4. QED
  BY <1>2, <1>3

(* An entry is unlinked from the table it was found in.                    *)
LEMMA WithoutEntrySound ==
  ASSUME NEW t, Sound(t), NEW i \in {0, 1}, NEW k \in Keys, Holds(t.ht[i], k)
  PROVE  LET u == [t EXCEPT !.ht[i] = Unlink(@, k)]
         IN Sound(u) /\ Stored(u) = Stored(t) \ {k} /\ u.iterators = t.iterators
<1> DEFINE a == t.ht[0]
           b == t.ht[1]
<1>1. /\ Formed(t) /\ Good(a) /\ Good(b) /\ Chained(a) \cap Chained(b) = {}
      /\ Stored(t) = Chained(a) \cup Chained(b)
  BY DEF Sound, Stored
<1>2. CASE i = 0
  <2>1. PICK c : c = Unlink(a, k)
    OBVIOUS
  <2>2. Good(c) /\ Chained(c) = Chained(a) \ {k} /\ c.size = a.size /\ k \in Chained(a)
    BY <1>1, <1>2, <2>1, UnlinkGood, HoldsExact DEF Good
  <2>3. ASSUME NEW j \in 0 .. a.size - 1, j < t.rehashidx
        PROVE  c.table[j] = << >>
    <3>1. a.table[j] = << >>
      BY <2>3 DEF Sound
    <3>2. PICK p \in DOMAIN a.table[Slot(a, k)] :
            /\ a.table[Slot(a, k)][p] = k
            /\ c.table = [a.table EXCEPT ![Slot(a, k)] = RemoveAt(a.table[Slot(a, k)], p)]
      BY <1>1, <1>2, <2>1, UnlinkGood
    <3>3. Slot(a, k) # j
      BY <3>1, <3>2
    <3>4. a.table \in [0 .. a.size - 1 -> Seq(Keys)]
      BY <1>1 DEF Good, Shaped
    <3>5. QED
      BY <3>1, <3>2, <3>3, <3>4
  <2>4. [t EXCEPT !.ht[i] = Unlink(@, k)] = [t EXCEPT !.ht[0] = c]
    BY <1>2, <2>1
  <2>5. PICK u : u = [t EXCEPT !.ht[0] = c]
    OBVIOUS
  <2>6. u = Dict(c, b, t.rehashidx, t.iterators)
    BY <1>1, <2>5, DictFields
  <2>7. /\ Formed(u) /\ u.ht[0] = c /\ u.ht[1] = b /\ u.rehashidx = t.rehashidx
        /\ u.iterators = t.iterators /\ Stored(u) = Chained(c) \cup Chained(b)
    BY <2>6, DictIs
  <2>8. Sound(u)
    BY <1>1, <2>2, <2>3, <2>7 DEF Sound, dictIsRehashing
  <2>9. QED
    BY <1>1, <2>2, <2>4, <2>5, <2>7, <2>8
<1>3. CASE i = 1
  <2>1. PICK c : c = Unlink(b, k)
    OBVIOUS
  <2>2. Good(c) /\ Chained(c) = Chained(b) \ {k} /\ c.size = b.size /\ k \in Chained(b)
    BY <1>1, <1>3, <2>1, UnlinkGood, HoldsExact DEF Good
  <2>3. [t EXCEPT !.ht[i] = Unlink(@, k)] = [t EXCEPT !.ht[1] = c]
    BY <1>3, <2>1
  <2>4. PICK u : u = [t EXCEPT !.ht[1] = c]
    OBVIOUS
  <2>5. u = Dict(a, c, t.rehashidx, t.iterators)
    BY <1>1, <2>4, DictFields
  <2>6. /\ Formed(u) /\ u.ht[0] = a /\ u.ht[1] = c /\ u.rehashidx = t.rehashidx
        /\ u.iterators = t.iterators /\ Stored(u) = Chained(a) \cup Chained(c)
    BY <2>5, DictIs
  <2>7. Sound(u)
    BY <1>1, <2>2, <2>6 DEF Sound, dictIsRehashing
  <2>8. QED
    BY <1>1, <2>2, <2>3, <2>4, <2>6, <2>7
<1>4. QED
  BY <1>2, <1>3

(* An iterator that counts itself changes nothing else.                    *)
LEMMA CountedSound ==
  ASSUME NEW t, Sound(t), NEW n
  PROVE  LET u == [t EXCEPT !.iterators = n]
         IN /\ Sound(u) /\ Stored(u) = Stored(t) /\ u.iterators = n
            /\ u.ht = t.ht /\ u.rehashidx = t.rehashidx
<1>1. PICK H, x, m : t = [ht |-> H, rehashidx |-> x, iterators |-> m]
  BY DEF Sound, Formed
<1>2. PICK u : u = [t EXCEPT !.iterators = n]
  OBVIOUS
<1>3. u = [ht |-> H, rehashidx |-> x, iterators |-> n]
  BY <1>1, <1>2
<1>4. t.ht = H /\ t.rehashidx = x
  BY <1>1
<1>5. u.ht = H /\ u.rehashidx = x /\ u.iterators = n
  BY <1>3
<1>6. Formed(u)
  BY <1>3, <1>4, <1>5 DEF Sound, Formed
<1>7. Sound(u) /\ Stored(u) = Stored(t)
  BY <1>4, <1>5, <1>6 DEF Sound, Stored, dictIsRehashing
<1>8. QED
  BY <1>2, <1>4, <1>5, <1>7

-----------------------------------------------------------------------------
(* The calls *)

(* The dict holds what the calls left in it.                               *)
Keeps(t, v) ==
  /\ Sound(t)
  /\ v \in [Keys -> Vals \cup {None}]
  /\ Stored(t) = {k \in Keys : v[k] # None}
Kept == Keeps(d, val)

(* A call that only moves entries keeps them.                              *)
LEMMA MovedKept ==
  ASSUME Kept, NEW t, Sound(t), Stored(t) = Stored(d), d' = t, val' = val
  PROVE  Kept'
<1>1. Keeps(t, val)
  BY DEF Kept, Keeps
<1>2. QED
  BY <1>1 DEF Kept

(* dictEmpty and dictCreate                                                *)
LEMMA EmptyKept ==
  ASSUME NEW t, t = [ht |-> [i \in {0, 1} |-> NoTable], rehashidx |-> -1, iterators |-> 0],
         NEW v, v = [k \in Keys |-> None]
  PROVE  /\ Sound(t) /\ v \in [Keys -> Vals \cup {None}]
         /\ Stored(t) = {k \in Keys : v[k] # None}
BY NewDictSound

(* A call that sets the value of a key has that key stored.                *)
LEMMA StoreKept ==
  ASSUME Kept, NEW k \in Keys, NEW v \in Vals, NEW t, Sound(t),
         Stored(t) = Stored(d) \cup {k}, d' = t, val' = [val EXCEPT ![k] = v]
  PROVE  Kept'
<1>1. val' \in [Keys -> Vals \cup {None}] /\ val'[k] # None
  BY ValsAssumption DEF Kept, Keeps
<1>2. Stored(t) = {j \in Keys : val'[j] # None}
  BY <1>1 DEF Kept, Keeps
<1>3. Keeps(t, val')
  BY <1>1, <1>2 DEF Keeps
<1>4. QED
  BY <1>3 DEF Kept

(* dictAdd, dictReplace and dictReplaceRaw add at most their key.          *)
LEMMA AddKept ==
  ASSUME Kept, NEW k \in Keys, NEW v \in Vals,
         Add(k, v) \/ Replace(k, v) \/ ReplaceRaw(k, v)
  PROVE  Kept'
<1>1. Sound(d)
  BY DEF Kept, Keeps
<1>2. ASSUME NEW t, Sound(t), Stored(t) = Stored(d), Has(t, k)
      PROVE  Stored(t) = Stored(d) \cup {k}
  BY <1>2, HasExact
<1>3. ASSUME NEW t, Sound(t), Stored(t) = Stored(d), t.ht[Filling(t)].size # 0, ~Has(t, k)
      PROVE  /\ Sound(WithEntry(t, k)) /\ Stored(WithEntry(t, k)) = Stored(d) \cup {k}
  BY <1>3, HasExact, WithEntrySound
<1>4. CASE Add(k, v)
  <2>1. PICK t : t = Prepared(d)
    OBVIOUS
  <2>2. Sound(t) /\ Stored(t) = Stored(d) /\ t.ht[Filling(t)].size # 0
    BY <1>1, <2>1, PreparedSound
  <2>3. CASE Has(t, k) /\ d' = t /\ val' = val
    BY <2>2, <2>3, MovedKept
  <2>4. CASE ~Has(t, k) /\ d' = WithEntry(t, k) /\ val' = [val EXCEPT ![k] = v]
    BY <1>3, <2>2, <2>4, StoreKept
  <2>5. QED
    BY <1>4, <2>1, <2>3, <2>4 DEF Add
<1>5. CASE Replace(k, v)
  <2>1. PICK t : t = Prepared(d)
    OBVIOUS
  <2>2. Sound(t) /\ Stored(t) = Stored(d) /\ t.ht[Filling(t)].size # 0
    BY <1>1, <2>1, PreparedSound
  <2>3. CASE Has(t, k)
    <3>1. d' = _dictRehashStep(t) /\ val' = [val EXCEPT ![k] = v]
      BY <1>5, <2>1, <2>3 DEF Replace
    <3>2. Sound(d') /\ Stored(d') = Stored(d) \cup {k}
      <4>1. PICK u : u = _dictRehashStep(t)
        OBVIOUS
      <4>2. Sound(u) /\ Stored(u) = Stored(d) \cup {k}
        BY <1>2, <2>2, <2>3, <4>1, StepSound
      <4>3. QED
        BY <3>1, <4>1, <4>2
    <3>3. QED
      BY <3>1, <3>2, StoreKept
  <2>4. CASE ~Has(t, k)
    <3>1. d' = WithEntry(t, k) /\ val' = [val EXCEPT ![k] = v]
      BY <1>5, <2>1, <2>4 DEF Replace
    <3>2. QED
      BY <1>3, <2>2, <2>4, <3>1, StoreKept
  <2>5. QED
    BY <2>3, <2>4
<1>6. CASE ReplaceRaw(k, v)
  <2>1. PICK t : t = _dictRehashStep(d)
    OBVIOUS
  <2>2. Sound(t) /\ Stored(t) = Stored(d)
    BY <1>1, <2>1, StepSound
  <2>3. CASE Has(t, k)
    <3>1. d' = t /\ val' = [val EXCEPT ![k] = v]
      BY <1>6, <2>1, <2>3 DEF ReplaceRaw
    <3>2. QED
      BY <1>2, <2>2, <2>3, <3>1, StoreKept
  <2>4. CASE ~Has(t, k)
    <3>1. d' = WithEntry(Prepared(t), k) /\ val' = [val EXCEPT ![k] = v]
      BY <1>6, <2>1, <2>4 DEF ReplaceRaw
    <3>2. PICK u : u = Prepared(t)
      OBVIOUS
    <3>3. Sound(u) /\ Stored(u) = Stored(d) /\ u.ht[Filling(u)].size # 0
      BY <2>2, <3>2, PreparedSound
    <3>4. ~Has(u, k)
      BY <2>2, <2>4, <3>3, HasExact
    <3>5. QED
      BY <1>3, <3>1, <3>2, <3>3, <3>4, StoreKept
  <2>5. QED
    BY <2>3, <2>4
<1>7. QED
  BY <1>4, <1>5, <1>6

(* dictDelete takes its key from the table that holds it.                  *)
LEMMA DeleteKept ==
  ASSUME Kept, NEW k \in Keys, Delete(k)
  PROVE  Kept'
<1>1. PICK t : t = _dictRehashStep(d)
  OBVIOUS
<1>2. Sound(t) /\ Stored(t) = Stored(d)
  BY <1>1, StepSound DEF Kept, Keeps
<1>3. CASE d' = t /\ val' = val
  BY <1>2, <1>3, MovedKept
<1>4. CASE /\ val' = [val EXCEPT ![k] = None]
           /\ \E i \in Tables(t) :
                Holds(t.ht[i], k) /\ d' = [t EXCEPT !.ht[i] = Unlink(@, k)]
  <2>1. PICK i \in {0, 1} :
          Holds(t.ht[i], k) /\ d' = [t EXCEPT !.ht[i] = Unlink(@, k)]
    BY <1>4 DEF Tables
  <2>2. PICK u : u = [t EXCEPT !.ht[i] = Unlink(@, k)]
    OBVIOUS
  <2>3. Sound(u) /\ Stored(u) = Stored(t) \ {k}
    BY <1>2, <2>1, <2>2, WithoutEntrySound
  <2>4. val' \in [Keys -> Vals \cup {None}]
    BY <1>4 DEF Kept, Keeps
  <2>5. Stored(u) = {j \in Keys : val'[j] # None}
    BY <1>2, <1>4, <2>3 DEF Kept, Keeps
  <2>6. Keeps(u, val')
    BY <2>3, <2>4, <2>5 DEF Keeps
  <2>7. QED
    BY <2>1, <2>2, <2>6 DEF Kept
<1>5. QED
  BY <1>1, <1>3, <1>4 DEF Delete

(* The size that dictResize asks for.                                      *)
LEMMA ResizeSize ==
  ASSUME Kept
  PROVE  LET n == Max({d.ht[0].used, DICT_HT_INITIAL_SIZE})
         IN n \in Nat /\ n < LONG_MAX
<1>1. d.ht[0].used \in Nat /\ d.ht[0].used < LONG_MAX
  <2>1. Shaped(d.ht[0]) /\ d.ht[0].used = Cardinality(Chained(d.ht[0]))
    BY DEF Kept, Keeps, Sound, Good
  <2>2. Cardinality(Keys) \in Nat
    BY KeysAssumption, FS_CardinalityType
  <2>3. QED
    BY <2>1, <2>2, ChainedKeys, RoomAssumption, PowersAre
<1>2. DICT_HT_INITIAL_SIZE \in Nat /\ DICT_HT_INITIAL_SIZE < LONG_MAX
  BY PowersAssumption, PowersAre
<1>3. PICK a, b \in Nat : a = d.ht[0].used /\ b = DICT_HT_INITIAL_SIZE
  BY <1>1, <1>2
<1>4. \E x \in {a, b} : \A y \in {a, b} : x >= y
  <2>1. CASE a >= b
    BY <2>1
  <2>2. CASE ~(a >= b)
    BY <2>2
  <2>3. QED
    BY <2>1, <2>2
<1>5. Max({a, b}) \in {a, b}
  BY <1>4 DEF Max
<1>6. QED
  BY <1>1, <1>2, <1>3, <1>5

(* Every call keeps the entries.                                           *)
LEMMA NextKept ==
  ASSUME Kept, [Next]_vars
  PROVE  Kept'
<1>0. Sound(d)
  BY DEF Kept, Keeps
<1>a. ASSUME NEW t, Sound(t), Stored(t) = Stored(d), Moving(t)
      PROVE  Kept'
  BY <1>a, MovedKept DEF Moving
<1>b. ASSUME d' = d, val' = val
      PROVE  Kept'
  BY <1>b, <1>0, MovedKept
<1>1. ASSUME NEW k \in Keys, NEW v \in Vals,
             Add(k, v) \/ Replace(k, v) \/ ReplaceRaw(k, v)
      PROVE  Kept'
  BY <1>1, AddKept
<1>2. ASSUME NEW k \in Keys, Delete(k)
      PROVE  Kept'
  BY <1>2, DeleteKept
<1>3. CASE Find
  <2>1. PICK t : t = _dictRehashStep(d)
    OBVIOUS
  <2>2. d' = t /\ val' = val
    BY <1>3, <2>1 DEF Find
  <2>3. QED
    BY <1>0, <2>1, <2>2, StepSound, MovedKept
<1>4. CASE GetRandomKey
  <2>1. PICK t : t = _dictRehashStep(d)
    OBVIOUS
  <2>2. QED
    BY <1>0, <1>4, <1>a, <2>1, StepSound DEF GetRandomKey
<1>5. CASE Empty
  <2>1. PICK t : t = [ht |-> [i \in {0, 1} |-> NoTable], rehashidx |-> -1, iterators |-> 0]
    OBVIOUS
  <2>2. PICK v : v = [k \in Keys |-> None]
    OBVIOUS
  <2>3. d' = t /\ val' = v
    BY <1>5, <2>1, <2>2 DEF Empty
  <2>4. Keeps(t, v)
    BY <2>1, <2>2, EmptyKept DEF Keeps
  <2>5. QED
    BY <2>3, <2>4 DEF Kept
<1>6. CASE Resize
  <2>1. PICK n : n = Max({d.ht[0].used, DICT_HT_INITIAL_SIZE})
    OBVIOUS
  <2>2. n \in Nat /\ n < LONG_MAX
    BY <2>1, ResizeSize
  <2>3. PICK t : t = Expanded(d, n)
    OBVIOUS
  <2>4. Sound(t) /\ Stored(t) = Stored(d)
    BY <1>0, <2>2, <2>3, ExpandedSound
  <2>5. QED
    BY <1>6, <1>a, <2>1, <2>3, <2>4 DEF Resize
<1>7. ASSUME NEW n \in Sizes, Expand(n)
      PROVE  Kept'
  <2>1. n \in Nat /\ n < LONG_MAX
    BY SizesAssumption, PowersAre
  <2>2. PICK t : t = Expanded(d, n)
    OBVIOUS
  <2>3. Sound(t) /\ Stored(t) = Stored(d)
    BY <1>0, <2>1, <2>2, ExpandedSound
  <2>4. QED
    BY <1>7, <1>a, <2>2, <2>3 DEF Expand
<1>8. ASSUME NEW n \in Steps, Rehash(n)
      PROVE  Kept'
  <2>1. PICK t : t = dictRehash(d, n)
    OBVIOUS
  <2>2. Sound(t) /\ Stored(t) = Stored(d)
    BY <1>0, <2>1, SizesAssumption, RehashSound
  <2>3. QED
    BY <1>8, <1>a, <2>1, <2>2 DEF Rehash
<1>9. ASSUME NEW b \in BOOLEAN, SetResize(b)
      PROVE  Kept'
  BY <1>9, <1>b DEF SetResize
<1>10. ASSUME NEW kind, GetIterator(kind)
       PROVE  Kept'
  BY <1>10, <1>b DEF GetIterator
<1>11. ASSUME NEW n, d' = [d EXCEPT !.iterators = n], val' = val
       PROVE  Kept'
  <2>1. PICK t : t = [d EXCEPT !.iterators = n]
    OBVIOUS
  <2>2. Sound(t) /\ Stored(t) = Stored(d)
    BY <1>0, <2>1, CountedSound
  <2>3. QED
    BY <1>11, <2>1, <2>2, MovedKept
<1>12. CASE NextEntry
  BY <1>11, <1>12, <1>b DEF NextEntry
<1>13. CASE ReleaseIterator
  BY <1>11, <1>13, <1>b DEF ReleaseIterator
<1>14. CASE Scan
  BY <1>14, <1>b DEF Scan
<1>15. CASE EndScan
  BY <1>15, <1>b DEF EndScan
<1>16. CASE UNCHANGED vars
  BY <1>16, <1>b DEF vars
<1>17. QED
  BY <1>1, <1>2, <1>3, <1>4, <1>5, <1>6, <1>7, <1>8, <1>9, <1>10, <1>12, <1>13, <1>14,
     <1>15, <1>16 DEF Next

(* A new dict is empty.                                                    *)
LEMMA InitKept ==
  ASSUME Init
  PROVE  Kept
<1>1. PICK t : t = [ht |-> [i \in {0, 1} |-> NoTable], rehashidx |-> -1, iterators |-> 0]
  OBVIOUS
<1>2. PICK v : v = [k \in Keys |-> None]
  OBVIOUS
<1>3. Keeps(t, v)
  BY <1>1, <1>2, EmptyKept DEF Keeps
<1>4. QED
  BY <1>1, <1>2, <1>3 DEF Init, Kept

-----------------------------------------------------------------------------

(* The two counters add up to the number of entries.                       *)
LEMMA SoundCounts ==
  ASSUME NEW t, Sound(t)
  PROVE  t.ht[0].used + t.ht[1].used = Cardinality(Stored(t))
<1>1. PICK A, B : A = Chained(t.ht[0]) /\ B = Chained(t.ht[1])
  OBVIOUS
<1>2. /\ IsFiniteSet(A) /\ IsFiniteSet(B) /\ A \cap B = {}
      /\ t.ht[0].used = Cardinality(A) /\ t.ht[1].used = Cardinality(B)
      /\ Cardinality(A) \in Nat /\ Cardinality(B) \in Nat
  BY <1>1, ChainedKeys DEF Sound, Good
<1>3. Cardinality(A \cup B) = Cardinality(A) + Cardinality(B) - Cardinality(A \cap B)
  BY <1>2, FS_Union
<1>4. Cardinality(A \cap B) = 0
  BY <1>2, FS_EmptySet
<1>5. QED
  BY <1>1, <1>2, <1>3, <1>4 DEF Stored

(* For any history of calls, rehashing, resizing and traversing loses no   *)
(* entry, keeps no deleted one and links none twice.                       *)
THEOREM SpecEntriesKept == Spec => []EntriesKept
<1>1. Init => Kept
  BY InitKept
<1>2. Kept /\ [Next]_vars => Kept'
  BY NextKept
<1>3. Kept => EntriesKept
  BY SoundCounts DEF Kept, Keeps, EntriesKept, dictSize
<1>4. QED
  BY <1>1, <1>2, <1>3, PTL DEF Spec

(* The used counter of a table is the number of entries in its chains.     *)
LEMMA OccupancyIs ==
  ASSUME NEW h, Good(h)
  PROVE  h.used = Occupancy(h)
<1> DEFINE Cells == UNION {{i} \X DOMAIN h.table[i] : i \in DOMAIN h.table}
           f == [c \in Cells |-> h.table[c[1]][c[2]]]
<1>1. /\ Shaped(h) /\ Placed(h) /\ DOMAIN h.table = 0 .. h.size - 1
      /\ \A i \in 0 .. h.size - 1 : h.table[i] \in Seq(Keys) /\ Distinct(h.table[i])
      /\ h.used = Cardinality(Chained(h)) /\ IsFiniteSet(Chained(h))
  BY ChainedKeys DEF Good, Shaped
<1>2. ASSUME NEW c \in Cells
      PROVE  /\ c[1] \in 0 .. h.size - 1 /\ c[2] \in DOMAIN h.table[c[1]]
             /\ c = <<c[1], c[2]>> /\ f[c] = h.table[c[1]][c[2]]
             /\ f[c] \in ToSet(h.table[c[1]])
  <2>1. PICK i \in DOMAIN h.table : c \in {i} \X DOMAIN h.table[i]
    BY <1>2
  <2>2. /\ c[1] \in 0 .. h.size - 1 /\ c[2] \in DOMAIN h.table[c[1]]
        /\ c = <<c[1], c[2]>>
    BY <1>1, <2>1
  <2>3. f[c] = h.table[c[1]][c[2]]
    BY <1>2
  <2>4. QED
    BY <2>2, <2>3 DEF ToSet
<1>3. ASSUME NEW i \in 0 .. h.size - 1, NEW p \in DOMAIN h.table[i]
      PROVE  <<i, p>> \in Cells
  BY <1>1, <1>3
<1> DEFINE K == Chained(h)
<1> HIDE DEF Cells
<1>4. f \in [Cells -> K]
  BY <1>1, <1>2 DEF Chained
<1>5. ASSUME NEW c \in Cells, NEW e \in Cells, f[c] = f[e]
      PROVE  c = e
  <2>1. Slot(h, f[c]) = c[1] /\ Slot(h, f[e]) = e[1]
    BY <1>1, <1>2 DEF Placed
  <2>2. c[1] = e[1] /\ h.table[c[1]][c[2]] = h.table[c[1]][e[2]]
    BY <1>2, <1>5, <2>1
  <2>3. c[2] = e[2]
    BY <1>1, <1>2, <2>2 DEF Distinct
  <2>4. QED
    BY <1>2, <2>2, <2>3
<1>6. ASSUME NEW k \in K
      PROVE  \E c \in Cells : f[c] = k
  <2>1. PICK i \in 0 .. h.size - 1 : k \in ToSet(h.table[i])
    BY <1>1, ChainedKeys
  <2>2. PICK p \in DOMAIN h.table[i] : h.table[i][p] = k
    BY <2>1 DEF ToSet
  <2>3. <<i, p>> \in Cells /\ f[<<i, p>>] = k
    BY <1>3, <2>2
  <2>4. QED
    BY <2>3
<1>7. f \in Injection(Cells, K) /\ f \in Surjection(Cells, K)
  <2> HIDE DEF f, K
  <2>1. QED
    BY <1>4, <1>5, <1>6 DEF Injection, Surjection, IsInjective
<1>8. Cardinality(Cells) = Cardinality(K)
  <2> HIDE DEF f
  <2>1. QED
    BY <1>1, <1>7, FS_Injection
<1>9. QED
  BY <1>1, <1>8 DEF Occupancy, Cells

(* What dictRehash relies on where it runs along ht[0] without a bound.    *)
THEOREM SpecRehashTerminates == Spec => []RehashTerminates
<1>1. ASSUME Kept
      PROVE  RehashTerminates
  <2>1. Good(d.ht[0]) /\ Good(d.ht[1])
    BY <1>1 DEF Kept, Keeps, Sound
  <2>2. \A i \in {0, 1} : d.ht[i].used = Occupancy(d.ht[i])
    BY <2>1, OccupancyIs
  <2>3. DOMAIN d.ht[0].table = 0 .. d.ht[0].size - 1
    BY <2>1 DEF Good, Shaped
  <2>4. QED
    BY <1>1, <2>2, <2>3 DEF RehashTerminates, Kept, Keeps, Sound
<1>2. QED
  BY <1>1, InitKept, NextKept, PTL DEF Spec

(* dictGetRandomKey draws from the tables in use.                          *)
LEMMA DrawableExact ==
  ASSUME NEW t, Sound(t)
  PROVE  Drawable(t) = Stored(t)
<1> DEFINE a == t.ht[0]
           b == t.ht[1]
<1>1. /\ Shaped(a) /\ Shaped(b) /\ a.size \in Nat /\ b.size \in Nat
  BY SizeIsNat DEF Sound, Good, Shaped
<1>2. /\ \A k : k \in Chained(a) <=> \E i \in 0 .. a.size - 1 : k \in ToSet(a.table[i])
      /\ \A k : k \in Chained(b) <=> \E i \in 0 .. b.size - 1 : k \in ToSet(b.table[i])
  BY <1>1, ChainedKeys
<1>3. ASSUME NEW i \in 0 .. a.size - 1
      PROVE  Bucket(t, i) = a.table[i]
  BY <1>1, <1>3 DEF Bucket
<1>4. ASSUME NEW i \in 0 .. b.size - 1
      PROVE  Bucket(t, a.size + i) = b.table[i]
  <2>1. a.size + i >= a.size /\ (a.size + i) - a.size = i
    BY <1>1, <1>4
  <2>2. QED
    BY <2>1 DEF Bucket
<1>5. CASE dictIsRehashing(t)
  <2>a. PICK n \in Nat : n = a.size + b.size
    BY <1>1
  <2>b. Drawable(t) = UNION {ToSet(Bucket(t, i)) : i \in 0 .. n - 1}
    BY <1>5, <2>a DEF Drawable
  <2>1. \A k : k \in Drawable(t) <=> \E i \in 0 .. n - 1 : k \in ToSet(Bucket(t, i))
    BY <2>b
  <2>2. ASSUME NEW k \in Drawable(t)
        PROVE  k \in Stored(t)
    <3>1. PICK i \in 0 .. n - 1 : k \in ToSet(Bucket(t, i))
      BY <2>1
    <3>2. CASE i < a.size
      BY <1>1, <1>2, <1>3, <3>1, <3>2 DEF Stored
    <3>3. CASE ~(i < a.size)
      <4>1. PICK j \in 0 .. b.size - 1 : i = a.size + j
        <5>1. i - a.size \in 0 .. b.size - 1 /\ i = a.size + (i - a.size)
          BY <1>1, <2>a, <3>3
        <5>2. QED
          BY <5>1
      <4>2. QED
        BY <1>2, <1>4, <3>1, <4>1 DEF Stored
    <3>4. QED
      BY <3>2, <3>3
  <2>3. ASSUME NEW k \in Stored(t)
        PROVE  k \in Drawable(t)
    <3>1. CASE k \in Chained(a)
      <4>1. PICK i \in 0 .. a.size - 1 : k \in ToSet(a.table[i])
        BY <1>2, <3>1
      <4>2. i \in 0 .. n - 1
        BY <1>1, <2>a
      <4>3. QED
        BY <1>3, <2>1, <4>1, <4>2
    <3>2. CASE k \in Chained(b)
      <4>1. PICK i \in 0 .. b.size - 1 : k \in ToSet(b.table[i])
        BY <1>2, <3>2
      <4>2. a.size + i \in 0 .. n - 1
        BY <1>1, <2>a
      <4>3. k \in ToSet(Bucket(t, a.size + i))
        BY <1>4, <4>1
      <4>4. QED
        BY <2>1, <4>2, <4>3
    <3>3. QED
      BY <2>3, <3>1, <3>2 DEF Stored
  <2>4. QED
    BY <2>2, <2>3
<1>6. CASE ~dictIsRehashing(t)
  <2>1. \A k : k \in Drawable(t) <=> \E i \in 0 .. a.size - 1 : k \in ToSet(Bucket(t, i))
    BY <1>6 DEF Drawable
  <2>2. b.size = 0
    BY <1>6 DEF Sound
  <2>3. Chained(b) = {}
    BY <1>1, <1>2, <2>2
  <2>4. QED
    BY <1>2, <1>3, <2>1, <2>3 DEF Stored
<1>7. QED
  BY <1>5, <1>6

(* A key is found exactly when it is stored, whatever state the rehashing  *)
(* of the dict is in, and a random key can always be drawn.                *)
THEOREM SpecLookupExact == Spec => []LookupExact
<1>1. ASSUME Kept
      PROVE  LookupExact
  <2>1. Sound(d)
    BY <1>1 DEF Kept, Keeps
  <2>2. PICK t : t = _dictRehashStep(d)
    OBVIOUS
  <2>3. Sound(t) /\ Stored(t) = Stored(d)
    BY <2>1, <2>2, StepSound
  <2>4. Drawable(t) = Stored(t)
    BY <2>3, DrawableExact
  <2>5. dictSize # 0 => Stored(t) # {}
    <3>1. dictSize = Cardinality(Stored(d))
      BY <2>1, SoundCounts DEF dictSize
    <3>2. QED
      BY <2>3, <3>1, FS_EmptySet
  <2>6. \A k \in Keys : Has(d, k) <=> k \in Stored(d)
    BY <2>1, HasExact
  <2>7. QED
    BY <2>2, <2>4, <2>5, <2>6 DEF LookupExact
<1>2. QED
  BY <1>1, InitKept, NextKept, PTL DEF Spec
-----------------------------------------------------------------------------
(* The iterators: what dictNext returns while the calls that a safe        *)
(* iterator allows change the tables.                                      *)

(* The x-th entry of bucket j of table i comes before the m-th one of      *)
(* bucket I of table T in the order of an iteration.                       *)
Comes(i, j, x, T, I, m) ==
  \/ i < T
  \/ i = T /\ j < I
  \/ i = T /\ j = I /\ x < m

(* Of the entries in S and M, those in S come before a place, and the      *)
(* others come from that place on.                                         *)
Divided(t, T, I, m, S, M) ==
  \A i \in {0, 1} : \A j \in 0 .. t.ht[i].size - 1 :
    \A x \in DOMAIN t.ht[i].table[j] :
      /\ t.ht[i].table[j][x] \in S => Comes(i, j, x, T, I, m)
      /\ t.ht[i].table[j][x] \in M \ S => ~Comes(i, j, x, T, I, m)

(* An iterator in bucket I of table T, with n to be returned next, that    *)
(* returned the entries in S and is to return those in M.                  *)
Tracks(t, T, I, n, S, M) ==
  /\ T \in {0, 1} /\ I \in 0 .. t.ht[T].size - 1
  /\ S \subseteq Stored(t) /\ M \subseteq Stored(t)
  /\ \E m \in 1 .. Len(t.ht[T].table[I]) + 1 :
       /\ Divided(t, T, I, m, S, M)
       /\ n \in Keys => m <= Len(t.ht[T].table[I]) /\ t.ht[T].table[I][m] = n
       /\ n = None => m = Len(t.ht[T].table[I]) + 1

(* What Sound says of a table, of one of its buckets and of an entry.      *)
LEMMA SoundTable ==
  ASSUME NEW t, Sound(t), NEW i \in {0, 1}
  PROVE  /\ t.ht[i].size \in Nat /\ t.ht[i].size <= Word
         /\ DOMAIN t.ht[i].table = 0 .. t.ht[i].size - 1
<1>1. Shaped(t.ht[i])
  BY DEF Sound, Good
<1>2. t.ht[i].size \in Powers \cup {0} /\ DOMAIN t.ht[i].table = 0 .. t.ht[i].size - 1
  BY <1>1 DEF Shaped
<1>3. QED
  <2>1. CASE t.ht[i].size \in Powers
    BY <1>2, <2>1, PowersAre
  <2>2. CASE t.ht[i].size = 0
    BY <1>2, <2>2, TwoFacts
  <2>3. QED
    BY <1>2, <2>1, <2>2

(* A bucket holds a chain of different keys.                               *)
LEMMA SoundBucket ==
  ASSUME NEW t, Sound(t), NEW i \in {0, 1}, NEW j \in 0 .. t.ht[i].size - 1
  PROVE  /\ t.ht[i].table[j] \in Seq(Keys) /\ Distinct(t.ht[i].table[j])
         /\ Len(t.ht[i].table[j]) \in Nat
         /\ DOMAIN t.ht[i].table[j] = 1 .. Len(t.ht[i].table[j])
<1>1. t.ht[i].table[j] \in Seq(Keys) /\ Distinct(t.ht[i].table[j])
  BY DEF Sound, Good, Shaped
<1>2. QED
  BY <1>1, LenProperties

LEMMA SoundEntry ==
  ASSUME NEW t, Sound(t), NEW i \in {0, 1}, NEW j \in 0 .. t.ht[i].size - 1,
         NEW x \in DOMAIN t.ht[i].table[j]
  PROVE  t.ht[i].table[j][x] \in Keys /\ t.ht[i].table[j][x] \in Stored(t)
<1>1. Shaped(t.ht[i])
  BY DEF Sound, Good
<1>2. t.ht[i].table[j] \in Seq(Keys)
  BY SoundBucket
<1>3. t.ht[i].table[j][x] \in ToSet(t.ht[i].table[j])
  BY DEF ToSet
<1>4. t.ht[i].table[j][x] \in Chained(t.ht[i])
  BY <1>1, <1>3, ChainedKeys
<1>5. QED
  BY <1>2, <1>4, LenProperties DEF Stored

(* k is the x-th entry of bucket j of table i.                             *)
Lies(t, i, j, x, k) ==
  /\ i \in {0, 1} /\ j \in 0 .. t.ht[i].size - 1 /\ x \in DOMAIN t.ht[i].table[j]
  /\ t.ht[i].table[j][x] = k

(* An entry is in one place only.                                          *)
LEMMA OnePlace ==
  ASSUME NEW t, NEW k, NEW i, NEW j, NEW x, NEW e, NEW f, NEW y,
         Sound(t), Lies(t, i, j, x, k), Lies(t, e, f, y, k)
  PROVE  i = e /\ j = f /\ x = y
<1>1. /\ i \in {0, 1} /\ j \in 0 .. t.ht[i].size - 1 /\ x \in DOMAIN t.ht[i].table[j]
      /\ e \in {0, 1} /\ f \in 0 .. t.ht[e].size - 1 /\ y \in DOMAIN t.ht[e].table[f]
      /\ k = t.ht[i].table[j][x] /\ k = t.ht[e].table[f][y]
  BY DEF Lies
<1>2. k \in ToSet(t.ht[i].table[j]) /\ k \in ToSet(t.ht[e].table[f])
  BY <1>1 DEF ToSet
<1>3. k \in Chained(t.ht[i]) /\ k \in Chained(t.ht[e])
  BY <1>1, <1>2, ChainedKeys DEF Sound, Good
<1>4. i = e
  BY <1>1, <1>3 DEF Sound
<1>5. j = f
  <2>1. Placed(t.ht[i])
    BY <1>1 DEF Sound, Good
  <2>2. QED
    BY <1>1, <1>2, <1>4, <2>1 DEF Placed
<1>6. Distinct(t.ht[i].table[j])
  BY <1>1, SoundBucket
<1>7. QED
  BY <1>1, <1>4, <1>5, <1>6 DEF Distinct

(* The buckets of u are those of t, but for bucket f of table e.           *)
Elsewhere(t, u, e, f) ==
  /\ \A i \in {0, 1} : u.ht[i].size = t.ht[i].size
  /\ \A i \in {0, 1} : \A j \in 0 .. t.ht[i].size - 1 :
       i # e \/ j # f => u.ht[i].table[j] = t.ht[i].table[j]

(* c is q with k put before it.                                            *)
Pushed(q, c, k) ==
  /\ Len(c) = Len(q) + 1 /\ c[1] = k
  /\ \A x \in 1 .. Len(q) : c[x + 1] = q[x]

(* c is q without its y-th element.                                        *)
Taken(q, c, y) ==
  /\ Len(c) = Len(q) - 1
  /\ \A x \in DOMAIN c : c[x] = IF x < y THEN q[x] ELSE q[x + 1]

(* A new entry at the front of a bucket.                                   *)
LEMMA PushTracks ==
  ASSUME NEW t, Sound(t), NEW u, Sound(u), NEW k, k \notin Stored(t),
         Stored(u) = Stored(t) \cup {k},
         NEW e \in {0, 1}, NEW f \in 0 .. t.ht[e].size - 1,
         Elsewhere(t, u, e, f), Pushed(t.ht[e].table[f], u.ht[e].table[f], k),
         NEW T, NEW I, NEW n, NEW S, NEW M, Tracks(t, T, I, n, S, M)
  PROVE  Tracks(u, T, I, n, S, M)
<1>0. /\ \A i \in {0, 1} : u.ht[i].size = t.ht[i].size
      /\ \A i \in {0, 1} : \A j \in 0 .. t.ht[i].size - 1 :
           i # e \/ j # f => u.ht[i].table[j] = t.ht[i].table[j]
      /\ Len(u.ht[e].table[f]) = Len(t.ht[e].table[f]) + 1
      /\ u.ht[e].table[f][1] = k
      /\ \A x \in 1 .. Len(t.ht[e].table[f]) :
           u.ht[e].table[f][x + 1] = t.ht[e].table[f][x]
  BY DEF Elsewhere, Pushed
<1> USE <1>0
<1>1. PICK m \in 1 .. Len(t.ht[T].table[I]) + 1 :
        /\ Divided(t, T, I, m, S, M)
        /\ n \in Keys => m <= Len(t.ht[T].table[I]) /\ t.ht[T].table[I][m] = n
        /\ n = None => m = Len(t.ht[T].table[I]) + 1
  BY DEF Tracks
<1>2. /\ T \in {0, 1} /\ I \in 0 .. t.ht[T].size - 1 /\ I \in 0 .. u.ht[T].size - 1
      /\ S \subseteq Stored(t) /\ M \subseteq Stored(t)
      /\ S \subseteq Stored(u) /\ M \subseteq Stored(u) /\ k \notin S /\ k \notin M
  BY DEF Tracks
<1>3. /\ Len(t.ht[T].table[I]) \in Nat /\ Len(t.ht[e].table[f]) \in Nat
      /\ DOMAIN u.ht[e].table[f] = 1 .. Len(t.ht[e].table[f]) + 1
      /\ DOMAIN t.ht[e].table[f] = 1 .. Len(t.ht[e].table[f])
  <2>1. Len(t.ht[T].table[I]) \in Nat
    BY <1>2, SoundBucket
  <2>2. /\ Len(t.ht[e].table[f]) \in Nat
        /\ DOMAIN t.ht[e].table[f] = 1 .. Len(t.ht[e].table[f])
    BY SoundBucket
  <2>3. f \in 0 .. u.ht[e].size - 1
    OBVIOUS
  <2>4. DOMAIN u.ht[e].table[f] = 1 .. Len(u.ht[e].table[f])
    BY <2>3, SoundBucket
  <2>5. QED
    BY <2>1, <2>2, <2>4
<1>4. PICK w : w = IF e = T /\ f = I THEN m + 1 ELSE m
  OBVIOUS
<1>5. ASSUME NEW i \in {0, 1}, NEW j \in 0 .. u.ht[i].size - 1,
             NEW x \in DOMAIN u.ht[i].table[j]
      PROVE  /\ u.ht[i].table[j][x] \in S => Comes(i, j, x, T, I, w)
             /\ u.ht[i].table[j][x] \in M \ S => ~Comes(i, j, x, T, I, w)
  <2>0. j \in 0 .. t.ht[i].size - 1 /\ j \in Int /\ I \in Int
    BY <1>2
  <2>1. CASE i # e \/ j # f
    <3>1. u.ht[i].table[j] = t.ht[i].table[j]
      BY <2>0, <2>1
    <3>2. /\ t.ht[i].table[j][x] \in S => Comes(i, j, x, T, I, m)
          /\ t.ht[i].table[j][x] \in M \ S => ~Comes(i, j, x, T, I, m)
      BY <1>1, <2>0, <3>1 DEF Divided
    <3>3. Comes(i, j, x, T, I, m) <=> Comes(i, j, x, T, I, w)
      BY <1>4, <2>1 DEF Comes
    <3>4. QED
      BY <3>1, <3>2, <3>3
  <2>2. CASE i = e /\ j = f /\ x = 1
    BY <1>2, <2>2
  <2>3. CASE i = e /\ j = f /\ x # 1
    <3>0. x \in 1 .. Len(t.ht[e].table[f]) + 1
      BY <1>3, <2>3
    <3>1. x - 1 \in 1 .. Len(t.ht[e].table[f]) /\ (x - 1) + 1 = x /\ x \in Int
      <4>1. PICK L \in Nat : L = Len(t.ht[e].table[f])
        BY <1>3
      <4>2. x \in 1 .. L + 1 /\ x # 1
        BY <2>3, <3>0, <4>1
      <4>3. x - 1 \in 1 .. L /\ (x - 1) + 1 = x /\ x \in Int
        BY <4>2
      <4>4. QED
        BY <4>1, <4>3
    <3>2. u.ht[i].table[j][x] = t.ht[i].table[j][x - 1]
      BY <2>3, <3>1
    <3>3. /\ t.ht[i].table[j][x - 1] \in S => Comes(i, j, x - 1, T, I, m)
          /\ t.ht[i].table[j][x - 1] \in M \ S => ~Comes(i, j, x - 1, T, I, m)
      BY <1>1, <1>3, <2>0, <2>3, <3>1 DEF Divided
    <3>4. Comes(i, j, x - 1, T, I, m) <=> Comes(i, j, x, T, I, w)
      <4>1. e = T /\ f = I => w = m + 1 /\ (x - 1 < m <=> x < m + 1)
        BY <1>1, <1>2, <1>3, <1>4, <3>1
      <4>2. ~(e = T /\ f = I) => w = m
        BY <1>4
      <4>3. QED
        BY <2>3, <4>1, <4>2 DEF Comes
    <3>5. QED
      BY <3>2, <3>3, <3>4
  <2>4. QED
    BY <2>1, <2>2, <2>3
<1>6. Divided(u, T, I, w, S, M)
  BY <1>5 DEF Divided
<1>7. CASE e = T /\ f = I
  <2>1. w = m + 1 /\ Len(u.ht[T].table[I]) = Len(t.ht[T].table[I]) + 1
    BY <1>4, <1>7
  <2>2. w \in 1 .. Len(u.ht[T].table[I]) + 1
    BY <1>1, <1>2, <1>3, <2>1
  <2>3. ASSUME n \in Keys
        PROVE  w <= Len(u.ht[T].table[I]) /\ u.ht[T].table[I][w] = n
    <3>1. m \in 1 .. Len(t.ht[e].table[f]) /\ t.ht[e].table[f][m] = n
      BY <1>1, <1>3, <1>7, <2>3
    <3>2. u.ht[e].table[f][m + 1] = n
      BY <3>1
    <3>3. QED
      BY <1>3, <1>7, <2>1, <3>1, <3>2
  <2>4. n = None => w = Len(u.ht[T].table[I]) + 1
    BY <1>1, <1>3, <2>1
  <2>5. QED
    BY <1>2, <1>6, <2>2, <2>3, <2>4 DEF Tracks
<1>8. CASE ~(e = T /\ f = I)
  <2>1. w = m /\ u.ht[T].table[I] = t.ht[T].table[I]
    BY <1>2, <1>4, <1>8
  <2>2. QED
    BY <1>1, <1>2, <1>6, <2>1 DEF Tracks
<1>9. QED
  BY <1>7, <1>8

(* An entry taken out of a bucket.                                         *)
LEMMA TakeTracks ==
  ASSUME NEW t, NEW u, NEW k, NEW e, NEW f, NEW y,
         NEW T, NEW I, NEW n, NEW S, NEW M, NEW r,
         Sound(t), Sound(u), Stored(u) = Stored(t) \ {k},
         Elsewhere(t, u, e, f), Lies(t, e, f, y, k),
         Taken(t.ht[e].table[f], u.ht[e].table[f], y),
         Tracks(t, T, I, n, S, M), r = IF n = k THEN Dangling ELSE n
  PROVE  Tracks(u, T, I, r, S \ {k}, M \ {k})
<1>0. /\ \A i \in {0, 1} : u.ht[i].size = t.ht[i].size
      /\ \A i \in {0, 1} : \A j \in 0 .. t.ht[i].size - 1 :
           i # e \/ j # f => u.ht[i].table[j] = t.ht[i].table[j]
      /\ Len(u.ht[e].table[f]) = Len(t.ht[e].table[f]) - 1
      /\ \A x \in DOMAIN u.ht[e].table[f] :
           u.ht[e].table[f][x] = IF x < y THEN t.ht[e].table[f][x]
                                          ELSE t.ht[e].table[f][x + 1]
  BY DEF Elsewhere, Taken
<1>d. /\ e \in {0, 1} /\ f \in 0 .. t.ht[e].size - 1 /\ y \in DOMAIN t.ht[e].table[f]
      /\ t.ht[e].table[f][y] = k /\ k \in Keys
  <2>1. /\ e \in {0, 1} /\ f \in 0 .. t.ht[e].size - 1 /\ y \in DOMAIN t.ht[e].table[f]
        /\ t.ht[e].table[f][y] = k
    BY DEF Lies
  <2>2. QED
    BY <2>1, SoundEntry
<1>b. f \in 0 .. u.ht[e].size - 1
  BY <1>0, <1>d
<1>c. DOMAIN u.ht[e].table[f] = 1 .. Len(u.ht[e].table[f])
  BY <1>b, <1>d, SoundBucket
<1> USE <1>0, <1>d
<1>1. PICK m \in 1 .. Len(t.ht[T].table[I]) + 1 :
        /\ Divided(t, T, I, m, S, M)
        /\ n \in Keys => m <= Len(t.ht[T].table[I]) /\ t.ht[T].table[I][m] = n
        /\ n = None => m = Len(t.ht[T].table[I]) + 1
  BY DEF Tracks
<1>2. /\ T \in {0, 1} /\ I \in 0 .. t.ht[T].size - 1 /\ I \in 0 .. u.ht[T].size - 1
      /\ S \ {k} \subseteq Stored(u) /\ M \ {k} \subseteq Stored(u)
  BY DEF Tracks
<1>3. PICK L \in Nat : L = Len(t.ht[e].table[f])
  BY SoundBucket
<1>4. /\ DOMAIN t.ht[e].table[f] = 1 .. L /\ DOMAIN u.ht[e].table[f] = 1 .. L - 1
      /\ y \in 1 .. L /\ Len(u.ht[e].table[f]) = L - 1
  <2>1. DOMAIN t.ht[e].table[f] = 1 .. L
    BY <1>3, SoundBucket
  <2>2. QED
    BY <1>3, <1>c, <2>1
<1>a. ASSUME NEW x \in 1 .. L - 1
      PROVE  /\ x < y => u.ht[e].table[f][x] = t.ht[e].table[f][x]
             /\ ~(x < y) => u.ht[e].table[f][x] = t.ht[e].table[f][x + 1]
  BY <1>4
<1>5. PICK w : w = IF e = T /\ f = I /\ y < m THEN m - 1 ELSE m
  OBVIOUS
<1>6. r = IF n = k THEN Dangling ELSE n
  OBVIOUS
<1>7. ASSUME NEW i \in {0, 1}, NEW j \in 0 .. u.ht[i].size - 1,
             NEW x \in DOMAIN u.ht[i].table[j]
      PROVE  /\ u.ht[i].table[j][x] \in S \ {k} => Comes(i, j, x, T, I, w)
             /\ u.ht[i].table[j][x] \in (M \ {k}) \ (S \ {k}) => ~Comes(i, j, x, T, I, w)
  <2>1. j \in 0 .. t.ht[i].size - 1
    OBVIOUS
  <2>2. CASE i # e \/ j # f
    <3>1. u.ht[i].table[j] = t.ht[i].table[j]
      BY <2>1, <2>2
    <3>2. /\ t.ht[i].table[j][x] \in S => Comes(i, j, x, T, I, m)
          /\ t.ht[i].table[j][x] \in M \ S => ~Comes(i, j, x, T, I, m)
      BY <1>1, <2>1, <3>1 DEF Divided
    <3>3. Comes(i, j, x, T, I, m) <=> Comes(i, j, x, T, I, w)
      BY <1>5, <2>2 DEF Comes
    <3>4. QED
      BY <3>1, <3>2, <3>3
  <2>3. CASE i = e /\ j = f
    <3>1. x \in 1 .. L - 1
      BY <1>4, <2>3
    <3>2. PICK z : z = IF x < y THEN x ELSE x + 1
      OBVIOUS
    <3>3. z \in 1 .. L /\ u.ht[e].table[f][x] = t.ht[e].table[f][z]
      <4>1. CASE x < y
        <5>1. z = x /\ z \in 1 .. L
          BY <1>3, <3>1, <3>2, <4>1
        <5>2. QED
          BY <1>a, <3>1, <4>1, <5>1
      <4>2. CASE ~(x < y)
        <5>1. z = x + 1 /\ z \in 1 .. L
          BY <1>3, <3>1, <3>2, <4>2
        <5>2. QED
          BY <1>a, <3>1, <4>2, <5>1
      <4>3. QED
        BY <4>1, <4>2
    <3>4. /\ t.ht[e].table[f][z] \in S => Comes(e, f, z, T, I, m)
          /\ t.ht[e].table[f][z] \in M \ S => ~Comes(e, f, z, T, I, m)
      BY <1>1, <1>4, <3>3 DEF Divided
    <3>5. Comes(e, f, z, T, I, m) <=> Comes(e, f, x, T, I, w)
      <4>1. ASSUME e = T, f = I
            PROVE  z < m <=> x < w
        <5>1. m \in 1 .. L + 1 /\ y \in 1 .. L
          BY <1>1, <1>3, <1>4, <4>1
        <5>2. CASE y < m
          <6>1. w = m - 1
            BY <1>5, <4>1, <5>2
          <6>2. CASE x < y
            BY <3>1, <3>2, <5>1, <5>2, <6>1, <6>2
          <6>3. CASE ~(x < y)
            BY <3>1, <3>2, <5>1, <5>2, <6>1, <6>3
          <6>4. QED
            BY <6>2, <6>3
        <5>3. CASE ~(y < m)
          <6>1. w = m
            BY <1>5, <5>3
          <6>2. CASE x < y
            BY <3>1, <3>2, <5>1, <5>3, <6>1, <6>2
          <6>3. CASE ~(x < y)
            BY <3>1, <3>2, <5>1, <5>3, <6>1, <6>3
          <6>4. QED
            BY <6>2, <6>3
        <5>4. QED
          BY <5>2, <5>3
      <4>2. QED
        BY <4>1 DEF Comes
    <3>6. QED
      BY <2>3, <3>3, <3>4, <3>5
  <2>4. QED
    BY <2>2, <2>3
<1>8. Divided(u, T, I, w, S \ {k}, M \ {k})
  BY <1>7 DEF Divided
<1>9. CASE e = T /\ f = I
  <2>1. m \in 1 .. L + 1
    BY <1>1, <1>3, <1>9
  <2>2. w \in 1 .. (L - 1) + 1
    <3>1. CASE y < m
      BY <1>4, <1>5, <1>9, <2>1, <3>1
    <3>2. CASE ~(y < m)
      BY <1>4, <1>5, <2>1, <3>2
    <3>3. QED
      BY <3>1, <3>2
  <2>3. ASSUME r \in Keys
        PROVE  w <= L - 1 /\ u.ht[T].table[I][w] = r
    <3>1. r = n /\ n # k
      BY <1>6, <2>3, KeysAssumption
    <3>2. m <= L /\ t.ht[e].table[f][m] = n /\ m # y
      BY <1>1, <1>3, <1>9, <2>3, <3>1
    <3>3. CASE y < m
      <4>1. w = m - 1 /\ w \in 1 .. L - 1 /\ ~(w < y) /\ w + 1 = m
        BY <1>4, <1>5, <1>9, <2>1, <3>2, <3>3
      <4>2. u.ht[e].table[f][w] = t.ht[e].table[f][w + 1]
        BY <1>a, <4>1
      <4>3. QED
        BY <1>3, <1>9, <3>1, <3>2, <4>1, <4>2
    <3>4. CASE ~(y < m)
      <4>1. w = m /\ w \in 1 .. L - 1 /\ w < y
        BY <1>4, <1>5, <2>1, <3>2, <3>4
      <4>2. u.ht[e].table[f][w] = t.ht[e].table[f][w]
        BY <1>a, <4>1
      <4>3. QED
        BY <1>3, <1>9, <3>1, <3>2, <4>1, <4>2
    <3>5. QED
      BY <3>3, <3>4
  <2>4. ASSUME r = None
        PROVE  w = (L - 1) + 1
    <3>1. None # Dangling
      BY DEF None, Dangling
    <3>2. n = None
      BY <1>6, <2>4, <3>1
    <3>3. m = L + 1 /\ y < m
      BY <1>1, <1>3, <1>4, <1>9, <3>2
    <3>4. QED
      BY <1>5, <1>9, <3>3
  <2>5. Len(u.ht[T].table[I]) = L - 1
    BY <1>4, <1>9
  <2>6. QED
    BY <1>2, <1>6, <1>8, <2>2, <2>3, <2>4, <2>5 DEF Tracks
<1>10. CASE ~(e = T /\ f = I)
  <2>1. w = m /\ u.ht[T].table[I] = t.ht[T].table[I]
    BY <1>2, <1>5, <1>10
  <2>2. r \in Keys => n = r
    BY <1>6, KeysAssumption
  <2>3. r = None => n = None
    BY <1>6 DEF None, Dangling
  <2>4. QED
    BY <1>1, <1>2, <1>6, <1>8, <2>1, <2>2, <2>3 DEF Tracks
<1>11. QED
  BY <1>9, <1>10

(* A new, empty table, where there was none, or no change at all.          *)
LEMMA FreshTracks ==
  ASSUME NEW t, Sound(t), NEW u, Stored(u) = Stored(t),
         Extends(t, u),
         NEW T, NEW I, NEW n, NEW S, NEW M, Tracks(t, T, I, n, S, M)
  PROVE  Tracks(u, T, I, n, S, M)
<1>1. PICK m \in 1 .. Len(t.ht[T].table[I]) + 1 :
        /\ Divided(t, T, I, m, S, M)
        /\ n \in Keys => m <= Len(t.ht[T].table[I]) /\ t.ht[T].table[I][m] = n
        /\ n = None => m = Len(t.ht[T].table[I]) + 1
  BY DEF Tracks
<1>2. /\ T \in {0, 1} /\ I \in 0 .. t.ht[T].size - 1
      /\ S \subseteq Stored(u) /\ M \subseteq Stored(u)
  BY DEF Tracks
<1>3. u.ht[T] = t.ht[T]
  <2>1. t.ht[T].size # 0
    BY <1>2
  <2>2. QED
    BY <1>2, <2>1 DEF Extends
<1>4. ASSUME NEW i \in {0, 1}, NEW j \in 0 .. u.ht[i].size - 1,
             NEW x \in DOMAIN u.ht[i].table[j]
      PROVE  /\ u.ht[i].table[j][x] \in S => Comes(i, j, x, T, I, m)
             /\ u.ht[i].table[j][x] \in M \ S => ~Comes(i, j, x, T, I, m)
  <2>1. DOMAIN << >> = {}
    OBVIOUS
  <2>2. u.ht[i] = t.ht[i]
    BY <1>4, <2>1 DEF Extends
  <2>3. QED
    BY <1>1, <2>2 DEF Divided
<1>5. Divided(u, T, I, m, S, M)
  BY <1>4 DEF Divided
<1>6. QED
  BY <1>1, <1>2, <1>3, <1>5 DEF Tracks

-----------------------------------------------------------------------------
(* The calls *)

(* What linking an entry changes, and unlinking one.                       *)
LEMMA WithEntryTracks ==
  ASSUME NEW t, Sound(t), t.ht[Filling(t)].size # 0,
         NEW k \in Keys, k \notin Stored(t),
         NEW T, NEW I, NEW n, NEW S, NEW M, Tracks(t, T, I, n, S, M)
  PROVE  Tracks(WithEntry(t, k), T, I, n, S, M)
<1>1. PICK e \in {0, 1} : e = Filling(t)
  BY DEF Filling
<1>2. PICK h : h = t.ht[e]
  OBVIOUS
<1>3. Good(h) /\ Shaped(h) /\ h.size # 0 /\ h.size \in Nat /\ k \notin Chained(h)
  <2>1. Good(h) /\ Shaped(h) /\ h.size # 0
    BY <1>1, <1>2 DEF Sound, Good
  <2>2. h.size \in Nat
    BY <2>1, SizeIsNat DEF Shaped
  <2>3. k \notin Chained(h)
    BY <1>2 DEF Stored
  <2>4. QED
    BY <2>1, <2>2, <2>3
<1>4. PICK f : f = Slot(h, k)
  OBVIOUS
<1>5. f \in 0 .. h.size - 1
  BY <1>3, <1>4, SlotInTable
<1>6. PICK q \in Seq(Keys) : q = h.table[f]
  BY <1>3, <1>5 DEF Shaped
<1>7. k \notin ToSet(q) /\ Distinct(q)
  <2>1. k \notin ToSet(q)
    BY <1>3, <1>5, <1>6, ChainedKeys
  <2>2. QED
    BY <1>3, <1>5, <1>6, <2>1 DEF Shaped
<1>8. PICK c : c = <<k>> \o q
  OBVIOUS
<1>9. Len(c) = Len(q) + 1 /\ c[1] = k /\ \A x \in 1 .. Len(q) : c[x + 1] = q[x]
  BY <1>6, <1>7, <1>8, PushAdds
<1>10. PICK g : g = Link(h, k)
  OBVIOUS
<1>11. /\ g.size = h.size /\ g.table[f] = c
       /\ \A j \in 0 .. h.size - 1 : j # f => g.table[j] = h.table[j]
  <2>1. g.size = h.size /\ g.table = [h.table EXCEPT ![f] = <<k>> \o @]
    BY <1>3, <1>4, <1>10, LinkGood
  <2>2. DOMAIN h.table = 0 .. h.size - 1
    BY <1>3 DEF Shaped
  <2>3. QED
    BY <1>5, <1>6, <1>8, <2>1, <2>2
<1>12. PICK u : u = WithEntry(t, k)
  OBVIOUS
<1>13. Sound(u) /\ Stored(u) = Stored(t) \cup {k}
  BY <1>12, WithEntrySound
<1>14. u.ht[e] = g /\ \A i \in {0, 1} : i # e => u.ht[i] = t.ht[i]
  <2>1. u = [t EXCEPT !.ht[e] = g]
    BY <1>1, <1>2, <1>10, <1>12 DEF WithEntry
  <2>2. Formed(t)
    BY DEF Sound
  <2>3. CASE e = 0
    <3>1. u = Dict(g, t.ht[1], t.rehashidx, t.iterators)
      BY <2>1, <2>2, <2>3, DictFields
    <3>2. QED
      BY <2>3, <3>1, DictIs
  <2>4. CASE e = 1
    <3>1. u = Dict(t.ht[0], g, t.rehashidx, t.iterators)
      BY <2>1, <2>2, <2>4, DictFields
    <3>2. QED
      BY <2>4, <3>1, DictIs
  <2>5. QED
    BY <2>3, <2>4
<1>15. Elsewhere(t, u, e, f)
  BY <1>2, <1>11, <1>14 DEF Elsewhere
<1>16. f \in 0 .. t.ht[e].size - 1
  BY <1>2, <1>5
<1>17. Pushed(q, c, k) /\ q = t.ht[e].table[f] /\ c = u.ht[e].table[f]
  BY <1>2, <1>6, <1>9, <1>11, <1>14 DEF Pushed
<1>18. Tracks(u, T, I, n, S, M)
  BY <1>13, <1>15, <1>16, <1>17, PushTracks
<1>19. QED
  BY <1>12, <1>18

(* A deletion frees the entry the iterator saved, or leaves it in its      *)
(* place: what comes after the deleted entry in its chain moves up, with   *)
(* the iterator's place.                                                   *)
LEMMA WithoutTracks ==
  ASSUME NEW t, Sound(t), NEW e \in {0, 1}, NEW k \in Keys, Holds(t.ht[e], k),
         NEW T, NEW I, NEW n, NEW S, NEW M, Tracks(t, T, I, n, S, M),
         NEW r, r = IF n = k THEN Dangling ELSE n
  PROVE  Tracks([t EXCEPT !.ht[e] = Unlink(@, k)], T, I, r, S \ {k}, M \ {k})
<1>1. PICK h : h = t.ht[e]
  OBVIOUS
<1>2. Good(h) /\ Shaped(h) /\ h.size \in Nat /\ h.size # 0 /\ Holds(h, k)
  <2>1. Good(h) /\ Shaped(h) /\ h.size # 0 /\ Holds(h, k)
    BY <1>1 DEF Sound, Good, Holds
  <2>2. QED
    BY <2>1, SizeIsNat DEF Shaped
<1>3. PICK f : f = Slot(h, k)
  OBVIOUS
<1>4. f \in 0 .. h.size - 1
  BY <1>2, <1>3, SlotInTable
<1>5. PICK q \in Seq(Keys) : q = h.table[f]
  BY <1>2, <1>4 DEF Shaped
<1>6. PICK g : g = Unlink(h, k)
  OBVIOUS
<1>7. PICK y \in DOMAIN q :
        /\ q[y] = k /\ g.size = h.size
        /\ g.table = [h.table EXCEPT ![f] = RemoveAt(q, y)]
  BY <1>2, <1>3, <1>5, <1>6, UnlinkGood
<1>8. /\ g.table[f] = RemoveAt(q, y)
      /\ \A j \in 0 .. h.size - 1 : j # f => g.table[j] = h.table[j]
  <2>1. DOMAIN h.table = 0 .. h.size - 1
    BY <1>2 DEF Shaped
  <2>2. QED
    BY <1>4, <1>7, <2>1
<1>9. /\ Len(RemoveAt(q, y)) = Len(q) - 1
      /\ \A x \in DOMAIN RemoveAt(q, y) :
           RemoveAt(q, y)[x] = IF x < y THEN q[x] ELSE q[x + 1]
  BY <1>5, RemoveAtFacts
<1>a. PICK u : u = [t EXCEPT !.ht[e] = Unlink(@, k)]
  OBVIOUS
<1>10. Sound(u) /\ Stored(u) = Stored(t) \ {k}
  BY <1>a, WithoutEntrySound
<1>11. u.ht[e] = g /\ \A i \in {0, 1} : i # e => u.ht[i] = t.ht[i]
  <2>1. u = [t EXCEPT !.ht[e] = g]
    BY <1>1, <1>6, <1>a
  <2>2. Formed(t)
    BY DEF Sound
  <2>3. CASE e = 0
    <3>1. u = Dict(g, t.ht[1], t.rehashidx, t.iterators)
      BY <2>1, <2>2, <2>3, DictFields
    <3>2. QED
      BY <2>3, <3>1, DictIs
  <2>4. CASE e = 1
    <3>1. u = Dict(t.ht[0], g, t.rehashidx, t.iterators)
      BY <2>1, <2>2, <2>4, DictFields
    <3>2. QED
      BY <2>4, <3>1, DictIs
  <2>5. QED
    BY <2>3, <2>4
<1>12. Elsewhere(t, u, e, f)
  BY <1>1, <1>7, <1>8, <1>11 DEF Elsewhere
<1>13. Lies(t, e, f, y, k)
  BY <1>1, <1>4, <1>5, <1>7 DEF Lies
<1>14. PICK c : c = RemoveAt(q, y)
  OBVIOUS
<1>15. Taken(t.ht[e].table[f], u.ht[e].table[f], y)
  <2>1. Taken(q, c, y) /\ q = t.ht[e].table[f] /\ c = u.ht[e].table[f]
    BY <1>1, <1>5, <1>8, <1>9, <1>11, <1>14 DEF Taken
  <2>2. QED
    BY <2>1
<1>16. Tracks(u, T, I, r, S \ {k}, M \ {k})
  BY <1>10, <1>12, <1>13, <1>15, TakeTracks
<1>17. QED
  BY <1>16, <1>a

(* While a safe iterator runs, look-ups and updates do not rehash.         *)
LEMMA StepIdle ==
  ASSUME NEW t, t.iterators # 0
  PROVE  _dictRehashStep(t) = t
BY DEF _dictRehashStep

(* dictAddRaw before it links: no rehash step while an iterator is known,  *)
(* and a table it makes is ht[1], empty, after all places.                 *)
LEMMA PreparedTracks ==
  ASSUME NEW t, Sound(t), t.iterators # 0,
         NEW T, NEW I, NEW n, NEW S, NEW M, Tracks(t, T, I, n, S, M)
  PROVE  Tracks(Prepared(t), T, I, n, S, M)
<1>1. PICK u : u = _dictExpandIfNeeded(t)
  OBVIOUS
<1>2. Stored(u) = Stored(t) /\ Extends(t, u)
  BY <1>1, ExpandIfNeededSound
<1>3. Prepared(t) = u
  BY <1>1, StepIdle DEF Prepared
<1>4. QED
  BY <1>2, <1>3, FreshTracks

(* An iterator that counts itself stays where it is.                       *)
LEMMA CountedTracks ==
  ASSUME NEW t, Sound(t), NEW u, u.ht = t.ht,
         NEW T, NEW I, NEW n, NEW S, NEW M, Tracks(t, T, I, n, S, M)
  PROVE  Tracks(u, T, I, n, S, M)
<1>1. Stored(u) = Stored(t) /\ Extends(t, u)
  BY DEF Stored, Extends
<1>2. QED
  BY <1>1, FreshTracks

-----------------------------------------------------------------------------
(* dictNext *)

(* What comes after the m-th element of q.                                 *)
After(q, m) == IF m = Len(q) THEN None ELSE q[m + 1]

(* entry->next                                                             *)
LEMMA FollowerIs ==
  ASSUME Sound(d), NEW i \in {0, 1}, NEW j \in 0 .. d.ht[i].size - 1,
         NEW m \in DOMAIN d.ht[i].table[j]
  PROVE  Follower(d.ht[i].table[j][m]) = After(d.ht[i].table[j], m)
<1>1. PICK q \in Seq(Keys) : q = d.ht[i].table[j]
  BY SoundBucket
<1>2. PICK k : k = q[m]
  OBVIOUS
<1>3. DOMAIN q = 1 .. Len(q) /\ m \in DOMAIN q /\ j <= Word /\ Distinct(q)
  <2>1. d.ht[i].size \in Nat /\ d.ht[i].size <= Word /\ Word \in Nat
    BY SoundTable, TwoFacts
  <2>2. Distinct(q)
    BY <1>1, SoundBucket
  <2>3. DOMAIN q = 1 .. Len(q) /\ m \in DOMAIN q
    BY <1>1, LenProperties
  <2>4. QED
    BY <2>1, <2>2, <2>3
<1> DEFINE IsPlace(p) == /\ p[2] \in DOMAIN d.ht[p[1]].table
                         /\ Contains(d.ht[p[1]].table[p[2]], k)
<1>4. <<i, j>> \in Places /\ IsPlace(<<i, j>>)
  <2>1. <<i, j>> \in Places
    BY <1>3 DEF Places
  <2>2. Contains(q, k)
    BY <1>2, <1>3 DEF Contains
  <2>3. j \in DOMAIN d.ht[i].table
    BY SoundTable
  <2>4. QED
    BY <1>1, <2>1, <2>2, <2>3
<1>5. PICK p \in Places : p = Position(k) /\ IsPlace(p)
  BY <1>4 DEF Position
<1>6. p[1] = i /\ p[2] = j
  <2>1. p[1] \in {0, 1} /\ p[2] \in 0 .. d.ht[p[1]].size - 1
    BY <1>5, SoundTable DEF Places
  <2>2. PICK e \in {0, 1} : e = p[1]
    BY <2>1
  <2>3. PICK f \in 0 .. d.ht[e].size - 1 : f = p[2]
    BY <2>1, <2>2
  <2>4. DOMAIN d.ht[e].table[f] = 1 .. Len(d.ht[e].table[f])
    BY SoundBucket
  <2>5. PICK y \in DOMAIN d.ht[e].table[f] : d.ht[e].table[f][y] = k
    BY <1>5, <2>2, <2>3, <2>4 DEF Contains
  <2>6. Lies(d, e, f, y, k) /\ Lies(d, i, j, m, k)
    BY <1>1, <1>2, <2>5 DEF Lies
  <2>7. e = i /\ f = j
    BY <2>6, OnePlace
  <2>8. QED
    BY <2>2, <2>3, <2>7
<1>7. Place(q, k) = m
  <2>1. Place(q, k) \in DOMAIN q /\ q[Place(q, k)] = k
    BY <1>2, <1>3 DEF Place
  <2>2. QED
    BY <1>2, <1>3, <2>1 DEF Distinct
<1>8. Follower(k) = After(q, m)
  BY <1>1, <1>5, <1>6, <1>7 DEF Follower, After
<1>9. QED
  BY <1>1, <1>2, <1>8

(* Bucket j of table i comes after bucket I of table T.                    *)
Beyond(i, j, T, I) == i > T \/ (i = T /\ j > I)

(* Of the entries in S and M, those in S are in the buckets up to that     *)
(* one, and the others after it.                                           *)
Passed(t, T, I, S, M) ==
  /\ S \subseteq Stored(t) /\ M \subseteq Stored(t)
  /\ \A i \in {0, 1} : \A j \in 0 .. t.ht[i].size - 1 :
       \A x \in DOMAIN t.ht[i].table[j] :
         /\ t.ht[i].table[j][x] \in S => ~Beyond(i, j, T, I)
         /\ t.ht[i].table[j][x] \in M \ S => Beyond(i, j, T, I)

(* An iterator at the end of a chain has passed its bucket.                *)
LEMMA PassedAtEnd ==
  ASSUME NEW t, Sound(t), NEW T, NEW I, NEW S, NEW M, Tracks(t, T, I, None, S, M)
  PROVE  Passed(t, T, I, S, M)
<1>1. PICK m \in 1 .. Len(t.ht[T].table[I]) + 1 :
        Divided(t, T, I, m, S, M) /\ m = Len(t.ht[T].table[I]) + 1
  BY DEF Tracks
<1>2. /\ T \in {0, 1} /\ I \in 0 .. t.ht[T].size - 1
      /\ S \subseteq Stored(t) /\ M \subseteq Stored(t)
  BY DEF Tracks
<1>3. ASSUME NEW i \in {0, 1}, NEW j \in 0 .. t.ht[i].size - 1,
             NEW x \in DOMAIN t.ht[i].table[j]
      PROVE  Comes(i, j, x, T, I, m) <=> ~Beyond(i, j, T, I)
  <2>1. ASSUME i = T, j = I
        PROVE  x < m
    <3>1. /\ Len(t.ht[i].table[j]) \in Nat
          /\ DOMAIN t.ht[i].table[j] = 1 .. Len(t.ht[i].table[j])
      BY SoundBucket
    <3>2. QED
      BY <1>1, <2>1, <3>1
  <2>2. QED
    BY <1>2, <2>1 DEF Comes, Beyond
<1>4. QED
  BY <1>1, <1>2, <1>3 DEF Passed, Divided

(* Before the first dictNext all buckets are ahead.                        *)
LEMMA PassedAtStart ==
  ASSUME NEW t, Sound(t)
  PROVE  Passed(t, 0, -1, {}, Stored(t))
BY DEF Passed, Beyond

(* k is the m-th entry of bucket I of table T, and n the one after it.     *)
AtPlace(t, T, I, m, k, n) ==
  /\ T \in {0, 1} /\ I \in 0 .. t.ht[T].size - 1 /\ m \in DOMAIN t.ht[T].table[I]
  /\ k = t.ht[T].table[I][m] /\ n = After(t.ht[T].table[I], m)

(* Returning the entry at a place.                                         *)
LEMMA TurnTracks ==
  ASSUME NEW t, NEW T, NEW I, NEW m, NEW S, NEW M, NEW k, NEW n,
         Sound(t), AtPlace(t, T, I, m, k, n), Divided(t, T, I, m, S, M),
         S \subseteq Stored(t), M \subseteq Stored(t)
  PROVE  /\ k \notin S /\ Tracks(t, T, I, n, S \cup {k}, M)
         /\ n \in Keys \cup {None}
<1>0. /\ T \in {0, 1} /\ I \in 0 .. t.ht[T].size - 1 /\ m \in DOMAIN t.ht[T].table[I]
      /\ k = t.ht[T].table[I][m] /\ n = After(t.ht[T].table[I], m)
  BY DEF AtPlace
<1> USE <1>0
<1>1. PICK q \in Seq(Keys) : q = t.ht[T].table[I]
  BY SoundBucket
<1>2. /\ DOMAIN q = 1 .. Len(q) /\ Len(q) \in Nat /\ Distinct(q)
      /\ k \in Keys /\ k \in Stored(t)
  BY <1>1, SoundBucket, SoundEntry
<1>3. k \notin S
  <2>1. k \in S => Comes(T, I, m, T, I, m)
    BY DEF Divided
  <2>2. QED
    BY <1>1, <1>2, <2>1 DEF Comes
<1>4. ASSUME NEW i \in {0, 1}, NEW j \in 0 .. t.ht[i].size - 1,
             NEW x \in DOMAIN t.ht[i].table[j]
      PROVE  /\ t.ht[i].table[j][x] \in S \cup {k} => Comes(i, j, x, T, I, m + 1)
             /\ t.ht[i].table[j][x] \in M \ (S \cup {k}) => ~Comes(i, j, x, T, I, m + 1)
  <2>0. /\ Len(t.ht[i].table[j]) \in Nat
        /\ DOMAIN t.ht[i].table[j] = 1 .. Len(t.ht[i].table[j])
    BY SoundBucket
  <2>1. x \in Int /\ m \in Int
    BY <1>1, <1>2, <2>0
  <2>2. CASE t.ht[i].table[j][x] = k
    <3>1. Lies(t, i, j, x, k) /\ Lies(t, T, I, m, k)
      BY <2>2 DEF Lies
    <3>2. i = T /\ j = I /\ x = m
      BY <3>1, OnePlace
    <3>3. QED
      BY <2>1, <2>2, <3>2 DEF Comes
  <2>3. CASE t.ht[i].table[j][x] # k
    <3>1. ~(i = T /\ j = I /\ x = m)
      BY <2>3
    <3>2. Comes(i, j, x, T, I, m) <=> Comes(i, j, x, T, I, m + 1)
      BY <2>1, <3>1 DEF Comes
    <3>3. QED
      BY <2>3, <3>2 DEF Divided
  <2>4. QED
    BY <2>2, <2>3
<1>5. Divided(t, T, I, m + 1, S \cup {k}, M)
  BY <1>4 DEF Divided
<1>6. S \cup {k} \subseteq Stored(t)
  BY <1>2
<1>7. /\ m + 1 \in 1 .. Len(q) + 1
      /\ n \in Keys => m + 1 <= Len(q) /\ q[m + 1] = n
      /\ n = None => m + 1 = Len(q) + 1
      /\ n \in Keys \cup {None}
  <2>1. m \in 1 .. Len(q)
    BY <1>1, <1>2
  <2>2. None \notin Keys
    BY KeysAssumption
  <2>3. CASE m = Len(q)
    <3>1. n = None /\ m + 1 \in 1 .. Len(q) + 1
      BY <1>1, <1>2, <2>1, <2>3 DEF After
    <3>2. QED
      BY <1>2, <2>2, <2>3, <3>1
  <2>4. CASE m # Len(q)
    <3>1. m + 1 \in 1 .. Len(q) /\ n = q[m + 1] /\ m + 1 # m
      BY <1>1, <1>2, <2>1, <2>4 DEF After
    <3>2. n \in Keys
      BY <1>2, <3>1
    <3>3. QED
      BY <1>2, <2>1, <2>2, <3>1, <3>2
  <2>5. QED
    BY <2>3, <2>4
<1>8. QED
  BY <1>1, <1>3, <1>5, <1>6, <1>7 DEF Tracks

(* dictNext looks for its next bucket among all those still to visit.      *)
LEMMA InLater ==
  ASSUME Sound(d), NEW i \in {0, 1}, NEW j \in 0 .. d.ht[i].size - 1,
         NEW x \in DOMAIN d.ht[i].table[j], Beyond(i, j, trav.table, trav.index)
  PROVE  <<i, j>> \in Later
<1>1. /\ d.ht[i].size \in Nat /\ d.ht[i].size <= Word /\ Word \in Nat
      /\ DOMAIN d.ht[i].table = 0 .. d.ht[i].size - 1
  BY SoundTable, TwoFacts
<1>2. j \in 0 .. Word /\ j \in DOMAIN d.ht[i].table
  BY <1>1
<1>3. i \in Tables(d)
  <2>1. i = 1 => dictIsRehashing(d)
    <3>1. d.ht[i].size # 0
      OBVIOUS
    <3>2. QED
      BY <3>1 DEF Sound
  <2>2. QED
    BY <2>1 DEF Tables
<1>4. d.ht[i].table[j] # << >>
  OBVIOUS
<1>5. PICK p : p = <<i, j>>
  OBVIOUS
<1>6. p \in Places /\ p[1] = i /\ p[2] = j
  BY <1>2, <1>5 DEF Places
<1>7. p \in Later
  BY <1>2, <1>3, <1>4, <1>6 DEF Later, Beyond
<1>8. QED
  BY <1>5, <1>7

(* The first of them.                                                      *)
LEMMA FirstLater ==
  ASSUME Sound(d), NEW S, NEW M, Passed(d, trav.table, trav.index, S, M),
         trav.table \in {0, 1}, trav.index \in Int,
         NEW p \in Later, \A q \in Later : Before(p, q)
  PROVE  /\ p[1] \in {0, 1} /\ p[2] \in 0 .. d.ht[p[1]].size - 1
         /\ d.ht[p[1]].table[p[2]] \in Seq(Keys)
         /\ 1 \in DOMAIN d.ht[p[1]].table[p[2]]
         /\ Divided(d, p[1], p[2], 1, S, M)
<1>1. /\ p[1] \in {0, 1} /\ p[2] \in DOMAIN d.ht[p[1]].table
      /\ d.ht[p[1]].table[p[2]] # << >> /\ Beyond(p[1], p[2], trav.table, trav.index)
  BY DEF Later, Places, Beyond
<1>2. PICK T \in {0, 1} : T = p[1]
  BY <1>1
<1>3. PICK I \in 0 .. d.ht[T].size - 1 : I = p[2]
  BY <1>1, <1>2, SoundTable
<1>4. PICK q \in Seq(Keys) : q = d.ht[T].table[I]
  BY SoundBucket
<1>5. 1 \in DOMAIN q
  <2>1. q # << >>
    BY <1>1, <1>2, <1>3, <1>4
  <2>2. Len(q) \in Nat /\ DOMAIN q = 1 .. Len(q) /\ Len(q) # 0
    BY <2>1, LenProperties, EmptySeq
  <2>3. QED
    BY <2>2
<1>6. ASSUME NEW i \in {0, 1}, NEW j \in 0 .. d.ht[i].size - 1,
             NEW x \in DOMAIN d.ht[i].table[j]
      PROVE  /\ d.ht[i].table[j][x] \in S => Comes(i, j, x, T, I, 1)
             /\ d.ht[i].table[j][x] \in M \ S => ~Comes(i, j, x, T, I, 1)
  <2>1. x \in Int /\ x >= 1
    <3>1. /\ Len(d.ht[i].table[j]) \in Nat
          /\ DOMAIN d.ht[i].table[j] = 1 .. Len(d.ht[i].table[j])
      BY SoundBucket
    <3>2. QED
      BY <3>1
  <2>2. Beyond(T, I, trav.table, trav.index)
    BY <1>1, <1>2, <1>3
  <2>3. ~Beyond(i, j, trav.table, trav.index) => Comes(i, j, x, T, I, 1)
    BY <2>2 DEF Beyond, Comes
  <2>4. Beyond(i, j, trav.table, trav.index) => ~Comes(i, j, x, T, I, 1)
    <3>1. SUFFICES ASSUME Beyond(i, j, trav.table, trav.index)
                   PROVE  ~Comes(i, j, x, T, I, 1)
      OBVIOUS
    <3>2. Before(p, <<i, j>>)
      BY <3>1, InLater
    <3>3. T < i \/ (T = i /\ I <= j)
      BY <1>2, <1>3, <3>2 DEF Before
    <3>4. QED
      BY <2>1, <3>3 DEF Comes
  <2>5. QED
    BY <2>3, <2>4 DEF Passed
<1>7. Divided(d, T, I, 1, S, M)
  BY <1>6 DEF Divided
<1>8. QED
  BY <1>2, <1>3, <1>4, <1>5, <1>7

(* Where no bucket is left, everything has been returned.                  *)
LEMMA NoneLater ==
  ASSUME Sound(d), NEW S, NEW M, Passed(d, trav.table, trav.index, S, M), Later = {}
  PROVE  M \subseteq S
<1>1. SUFFICES ASSUME NEW k \in M, k \notin S
               PROVE  FALSE
  OBVIOUS
<1>2. k \in Stored(d)
  BY DEF Passed
<1>3. PICK i \in {0, 1} : k \in Chained(d.ht[i])
  BY <1>2 DEF Stored
<1>4. PICK j \in 0 .. d.ht[i].size - 1 : k \in ToSet(d.ht[i].table[j])
  <2>1. Shaped(d.ht[i])
    BY DEF Sound, Good
  <2>2. QED
    BY <1>3, <2>1, ChainedKeys
<1>5. PICK x \in DOMAIN d.ht[i].table[j] : d.ht[i].table[j][x] = k
  BY <1>4 DEF ToSet
<1>6. Beyond(i, j, trav.table, trav.index)
  BY <1>1, <1>5 DEF Passed
<1>7. QED
  BY <1>5, <1>6, InLater

-----------------------------------------------------------------------------
(* What an iterator depends on                                             *)

(* The fields of a traversal; an iterator, in use since its first          *)
(* dictNext.                                                               *)
Fields == {"kind", "over", "table", "index", "entry", "next", "cursor", "must", "seen",
           "twice", "stray", "astride"}

Iterates(tr) == tr.kind \in {"safe", "unsafe"}
Begun(tr) == tr.index # -1 \/ tr.table # 0

(* An iterator tr of the dict t.  Once it began and until it is over, it   *)
(* stands at a place that divides what it returned from what it is to      *)
(* return; the dict knows of it then, if it is safe.  f tells that it      *)
(* followed a freed entry.                                                 *)
Runs(t, tr, f) ==
  /\ DOMAIN tr = Fields
  /\ tr.next \in Keys \cup {None, Dangling}
  /\ tr.next = Dangling => tr.stray
  /\ tr.next \in Keys => tr.entry # tr.next
  /\ f => tr.stray /\ Iterates(tr)
  /\ ~tr.twice
  /\ t.iterators = IF tr.kind = "safe" /\ Begun(tr) THEN 1 ELSE 0
  /\ ~Iterates(tr) => tr.next = None /\ ~Begun(tr)
  /\ Iterates(tr) /\ ~Begun(tr) => /\ tr.seen = {} /\ tr.must = {}
                                   /\ tr.next = None /\ ~tr.over
  /\ Iterates(tr) /\ Begun(tr) /\ ~tr.over
       => Tracks(t, tr.table, tr.index, tr.next, tr.seen, tr.must)
  /\ Iterates(tr) /\ tr.over => tr.must \subseteq tr.seen

(* A call that makes u of t keeps a safe iterator in its place.            *)
Allows(t, u) ==
  /\ u.iterators = t.iterators
  /\ t.iterators # 0 => \A T, I, n, S, M : Tracks(t, T, I, n, S, M)
                                             => Tracks(u, T, I, n, S, M)

(* A call that leaves the iterator in its place keeps the invariant.       *)
LEMMA AllowedRuns ==
  ASSUME NEW t, NEW tr, NEW f, NEW u, Runs(t, tr, f), Allows(t, u), tr.kind # "unsafe"
  PROVE  Runs(u, tr, f)
<1>1. Iterates(tr) /\ Begun(tr) /\ ~tr.over
        => Tracks(u, tr.table, tr.index, tr.next, tr.seen, tr.must)
  BY DEF Runs, Allows, Iterates
<1>2. u.iterators = t.iterators
  BY DEF Allows
<1>3. QED
  BY <1>1, <1>2 DEF Runs

(* The calls of the library change the dict by the following steps, and    *)
(* each of them lets an iterator stay where it is.                         *)
LEMMA StepAllows ==
  ASSUME NEW t, Sound(t)
  PROVE  Allows(t, _dictRehashStep(t))
BY StepIdle, StepSound DEF Allows

(* Making room for an entry.                                               *)
LEMMA PreparedAllows ==
  ASSUME NEW t, Sound(t)
  PROVE  Allows(t, Prepared(t))
BY PreparedTracks, PreparedSound DEF Allows

(* Linking a new entry.                                                    *)
LEMMA WithEntryAllows ==
  ASSUME NEW t, Sound(t), t.ht[Filling(t)].size # 0, NEW k \in Keys, k \notin Stored(t)
  PROVE  Allows(t, WithEntry(t, k))
BY WithEntryTracks, WithEntrySound DEF Allows

(* dictExpand and dictResize.                                              *)
LEMMA ExpandedAllows ==
  ASSUME NEW t, Sound(t), NEW n \in Nat, n < LONG_MAX
  PROVE  Allows(t, Expanded(t, n))
BY ExpandedSound, FreshTracks DEF Allows

(* One of them after another.                                              *)
LEMMA AllowsBoth ==
  ASSUME NEW t, NEW u, NEW w, Allows(t, u), Allows(u, w)
  PROVE  Allows(t, w)
BY DEF Allows

(* The calls that add, replace or look for an entry.                       *)
LEMMA AddAllows ==
  ASSUME Sound(d), NEW k \in Keys, NEW v \in Vals,
         Add(k, v) \/ Replace(k, v) \/ ReplaceRaw(k, v)
  PROVE  Allows(d, d')
<1>1. ASSUME NEW t, Sound(t), t.ht[Filling(t)].size # 0, ~Has(t, k), Allows(d, t)
      PROVE  Allows(d, WithEntry(t, k))
  <2>1. PICK u : u = WithEntry(t, k)
    OBVIOUS
  <2>2. Allows(t, u)
    BY <1>1, <2>1, HasExact, WithEntryAllows
  <2>3. QED
    BY <1>1, <2>1, <2>2, AllowsBoth
<1>2. CASE Add(k, v)
  <2>1. PICK t : t = Prepared(d)
    OBVIOUS
  <2>2. Sound(t) /\ t.ht[Filling(t)].size # 0 /\ Allows(d, t)
    BY <2>1, PreparedSound, PreparedAllows
  <2>3. QED
    BY <1>1, <1>2, <2>1, <2>2 DEF Add
<1>3. CASE Replace(k, v)
  <2>1. PICK t : t = Prepared(d)
    OBVIOUS
  <2>2. Sound(t) /\ t.ht[Filling(t)].size # 0 /\ Allows(d, t)
    BY <2>1, PreparedSound, PreparedAllows
  <2>3. PICK u : u = _dictRehashStep(t)
    OBVIOUS
  <2>4. Allows(d, u)
    BY <2>2, <2>3, StepAllows, AllowsBoth
  <2>5. QED
    BY <1>1, <1>3, <2>1, <2>2, <2>3, <2>4 DEF Replace
<1>4. CASE ReplaceRaw(k, v)
  <2>1. PICK t : t = _dictRehashStep(d)
    OBVIOUS
  <2>2. Sound(t) /\ Stored(t) = Stored(d) /\ Allows(d, t)
    BY <2>1, StepSound, StepAllows
  <2>3. PICK u : u = Prepared(t)
    OBVIOUS
  <2>4. /\ Sound(u) /\ Stored(u) = Stored(t) /\ u.ht[Filling(u)].size # 0
        /\ Allows(t, u)
    BY <2>2, <2>3, PreparedSound, PreparedAllows
  <2>5. Allows(d, u) /\ (~Has(t, k) => ~Has(u, k))
    BY <2>2, <2>4, HasExact, AllowsBoth
  <2>6. QED
    BY <1>1, <1>4, <2>1, <2>2, <2>3, <2>4, <2>5 DEF ReplaceRaw
<1>5. QED
  BY <1>2, <1>3, <1>4

(* Deleting an entry: the iterator that was to return it dangles.          *)
LEMMA DeleteRuns ==
  ASSUME Sound(d), NEW k \in Keys, Delete(k), Runs(d, trav, fault)
  PROVE  Runs(d', trav', fault')
<1>1. PICK t : t = _dictRehashStep(d)
  OBVIOUS
<1>2. Sound(t) /\ Allows(d, t)
  BY <1>1, StepSound, StepAllows
<1>3. ~fault /\ fault' = fault /\ trav.kind # "unsafe"
  BY DEF Delete, MayCall
<1>4. Runs(t, trav, fault)
  BY <1>2, <1>3, AllowedRuns
<1>5. CASE d' = t /\ trav' = trav
  BY <1>3, <1>4, <1>5
<1>6. CASE /\ trav' = Without(trav, k)
           /\ \E i \in Tables(t) :
                Holds(t.ht[i], k) /\ d' = [t EXCEPT !.ht[i] = Unlink(@, k)]
  <2>1. PICK i \in {0, 1} :
          Holds(t.ht[i], k) /\ d' = [t EXCEPT !.ht[i] = Unlink(@, k)]
    BY <1>6 DEF Tables
  <2>2. PICK u : u = [t EXCEPT !.ht[i] = Unlink(@, k)]
    OBVIOUS
  <2>3. u.iterators = t.iterators
    BY <1>2, <2>1, <2>2, WithoutEntrySound
  <2>4. PICK tr : tr = Without(trav, k)
    OBVIOUS
  <2>5. /\ DOMAIN tr = Fields /\ tr.kind = trav.kind /\ tr.over = trav.over
        /\ tr.table = trav.table /\ tr.index = trav.index /\ tr.twice = trav.twice
        /\ tr.entry = IF trav.entry = k THEN Dangling ELSE trav.entry
        /\ tr.next = IF trav.next = k THEN Dangling ELSE trav.next
        /\ tr.must = trav.must \ {k} /\ tr.seen = trav.seen \ {k}
    BY <2>4 DEF Without, Runs, Fields
  <2>6. tr.stray <=> trav.stray \/ (trav.kind = "safe" /\ trav.entry # k)
    BY <2>4 DEF Without, Runs, Fields
  <2>7. tr.next = Dangling => tr.stray
    <3>1. CASE trav.next = k
      BY <1>3, <1>4, <2>6, <3>1, KeysAssumption DEF Runs, Iterates
    <3>2. CASE trav.next # k
      BY <1>4, <2>5, <2>6, <3>2 DEF Runs
    <3>3. QED
      BY <3>1, <3>2
  <2>8. /\ tr.next \in Keys \cup {None, Dangling}
        /\ tr.next \in Keys => tr.entry # tr.next
    BY <1>4, <2>5, KeysAssumption DEF Runs
  <2>9. ASSUME Iterates(tr), Begun(tr), ~tr.over
        PROVE  Tracks(u, tr.table, tr.index, tr.next, tr.seen, tr.must)
    <3>1. Tracks(t, trav.table, trav.index, trav.next, trav.seen, trav.must)
      BY <1>4, <2>5, <2>9 DEF Runs, Iterates, Begun
    <3>2. PICK r : r = IF trav.next = k THEN Dangling ELSE trav.next
      OBVIOUS
    <3>3. Tracks(u, trav.table, trav.index, r, trav.seen \ {k}, trav.must \ {k})
      BY <1>2, <2>1, <2>2, <3>1, <3>2, WithoutTracks
    <3>4. QED
      BY <2>5, <3>2, <3>3
  <2>10. tr.next = None \/ Iterates(tr)
    BY <1>4, <2>5, KeysAssumption DEF Runs, Iterates
  <2>11. Iterates(tr) /\ ~Begun(tr) => /\ tr.seen = {} /\ tr.must = {}
                                       /\ tr.next = None /\ ~tr.over
    BY <1>4, <2>5, KeysAssumption DEF Runs, Iterates, Begun
  <2>12. Iterates(tr) /\ tr.over => tr.must \subseteq tr.seen
    BY <1>4, <2>5 DEF Runs, Iterates
  <2>13. u.iterators = IF tr.kind = "safe" /\ Begun(tr) THEN 1 ELSE 0
    BY <1>4, <2>3, <2>5 DEF Runs, Begun
  <2>14. ~Iterates(tr) => ~Begun(tr)
    BY <1>4, <2>5 DEF Runs, Iterates, Begun
  <2>15. Runs(u, tr, fault)
    BY <1>3, <1>4, <2>5, <2>7, <2>8, <2>9, <2>10, <2>11, <2>12, <2>13, <2>14 DEF Runs
  <2>16. QED
    BY <1>3, <1>6, <2>1, <2>2, <2>4, <2>15
<1>7. QED
  BY <1>1, <1>5, <1>6 DEF Delete

(* What the iteration is to return, and the count of iterators it leaves.  *)
(* What the iterator is to return, and how it is counted, once it began.   *)
Due == IF Started THEN trav.must ELSE Stored(d)
Counted(tr) == IF tr.kind = "safe" THEN 1 ELSE 0

(* dictNext returns the entry at a place.                                  *)
LEMMA ReturnRuns ==
  ASSUME NEW p, NEW m, NEW k, NEW u,
         Sound(d), Runs(d, trav, fault), ~fault, Iterates(trav), ~trav.over,
         p[1] \in {0, 1}, p[2] \in 0 .. d.ht[p[1]].size - 1,
         m \in DOMAIN d.ht[p[1]].table[p[2]],
         Due \subseteq Stored(d), trav.seen \subseteq Stored(d),
         Divided(d, p[1], p[2], m, trav.seen, Due),
         k = d.ht[p[1]].table[p[2]][m], Return(k, p),
         u.ht = d.ht, u.iterators = Counted(trav)
  PROVE  Runs(u, trav', fault)
<1>1. PICK T \in {0, 1} : T = p[1]
  OBVIOUS
<1>2. PICK I \in 0 .. d.ht[T].size - 1 : I = p[2]
  BY <1>1
<1>3. PICK n : n = Follower(k)
  OBVIOUS
<1>4. n = After(d.ht[T].table[I], m)
  BY <1>1, <1>2, <1>3, FollowerIs
<1>5. PICK S, M : S = trav.seen /\ M = Due
  OBVIOUS
<1>6. /\ m \in DOMAIN d.ht[T].table[I] /\ k = d.ht[T].table[I][m]
      /\ Divided(d, T, I, m, S, M) /\ S \subseteq Stored(d)
      /\ M \subseteq Stored(d)
  BY <1>1, <1>2, <1>5
<1>7. /\ k \notin S
      /\ Tracks(d, T, I, n, S \cup {k}, M)
      /\ n \in Keys \cup {None} /\ n # k
  <2>1. AtPlace(d, T, I, m, k, n)
    BY <1>4, <1>6 DEF AtPlace
  <2>2. k \notin S
    BY <1>6, <2>1, TurnTracks
  <2>3. Tracks(d, T, I, n, S \cup {k}, M)
    BY <1>6, <2>1, TurnTracks
  <2>4. n \in Keys \cup {None}
    BY <1>6, <2>1, TurnTracks
  <2>5. n # k
    <3>1. PICK q \in Seq(Keys) : q = d.ht[T].table[I]
      BY SoundBucket
    <3>2. Distinct(q) /\ m \in DOMAIN q /\ DOMAIN q = 1 .. Len(q)
      <4>1. Distinct(q)
        BY <3>1, SoundBucket
      <4>2. QED
        BY <1>6, <3>1, <4>1, LenProperties
    <3>3. CASE m = Len(q)
      <4>1. n = None /\ k \in Keys
        BY <1>4, <1>6, <3>1, <3>2, <3>3, LenProperties DEF After
      <4>2. QED
        BY <4>1, KeysAssumption
    <3>4. CASE m # Len(q)
      <4>1. m + 1 \in DOMAIN q /\ m + 1 # m /\ n = q[m + 1] /\ k = q[m]
        BY <1>4, <1>6, <3>1, <3>2, <3>4, LenProperties DEF After
      <4>2. QED
        BY <3>2, <4>1 DEF Distinct
    <3>5. QED
      BY <3>3, <3>4
  <2>6. QED
    BY <2>2, <2>3, <2>4, <2>5
<1>8. Tracks(u, T, I, n, S \cup {k}, M)
  BY <1>7, CountedTracks
<1>9. PICK tr : tr = trav'
  OBVIOUS
<1>10. tr = [trav EXCEPT
         !.table = T, !.index = I, !.entry = k, !.next = n,
         !.must = IF Started THEN @ ELSE Stored(d),
         !.seen = @ \cup {k}, !.twice = @ \/ k \in trav.seen]
  BY <1>1, <1>2, <1>3, <1>9 DEF Return
<1>11. DOMAIN trav = Fields
  BY DEF Runs
<1>12. /\ DOMAIN tr = Fields /\ tr.kind = trav.kind /\ tr.over = trav.over
       /\ tr.table = T /\ tr.index = I /\ tr.entry = k /\ tr.next = n
       /\ tr.must = M /\ tr.seen = S \cup {k}
  BY <1>5, <1>10, <1>11 DEF Fields, Due
<1>13. tr.twice <=> trav.twice \/ k \in S
  BY <1>5, <1>10, <1>11 DEF Fields
<1>14. ~tr.twice
  BY <1>7, <1>13 DEF Runs
<1>15. Begun(tr) /\ Iterates(tr)
  <2>1. I # -1
    BY <1>2, SoundTable
  <2>2. QED
    BY <1>12, <2>1 DEF Begun, Iterates
<1>16. n # Dangling
  BY <1>7, KeysAssumption DEF None, Dangling
<1>17. u.iterators = IF tr.kind = "safe" /\ Begun(tr) THEN 1 ELSE 0
  BY <1>12, <1>15 DEF Counted
<1>18. Runs(u, tr, fault)
  BY <1>7, <1>8, <1>12, <1>14, <1>15, <1>16, <1>17 DEF Runs
<1>19. QED
  BY <1>9, <1>18

(* dictNext, on its three ways: the saved entry, the next bucket, the end. *)
LEMMA NextEntryRuns ==
  ASSUME Sound(d), NextEntry, Runs(d, trav, fault)
  PROVE  Runs(d', trav', fault')
<1>1. ~fault /\ Iterates(trav) /\ ~trav.over
  BY DEF NextEntry, Iterates
<1>2. Started <=> Begun(trav)
  BY DEF Started, Begun
<1>3. PICK u : u = IF trav.kind = "safe" /\ ~Started
                   THEN [d EXCEPT !.iterators = @ + 1] ELSE d
  OBVIOUS
<1>4. d' = u
  BY <1>3 DEF NextEntry
<1>5. u.ht = d.ht /\ u.iterators = Counted(trav)
  <2>1. CASE trav.kind = "safe" /\ ~Started
    <3>1. PICK n : n = d.iterators + 1
      OBVIOUS
    <3>2. u = [d EXCEPT !.iterators = n] /\ n = 1
      BY <1>2, <1>3, <2>1, <3>1 DEF Runs
    <3>3. QED
      BY <2>1, <3>2, CountedSound DEF Counted
  <2>2. CASE ~(trav.kind = "safe" /\ ~Started)
    BY <1>2, <1>3, <2>2 DEF Runs, Counted
  <2>3. QED
    BY <2>1, <2>2
<1>7. CASE /\ trav.next \in Keys
           /\ Return(trav.next, <<trav.table, trav.index>>) /\ fault' = fault
  <2>1. Started
    BY <1>1, <1>2, <1>7, KeysAssumption DEF Runs
  <2>2. Tracks(d, trav.table, trav.index, trav.next, trav.seen, Due)
    BY <1>1, <1>2, <2>1 DEF Runs, Due
  <2>3. PICK p : p = <<trav.table, trav.index>>
    OBVIOUS
  <2>4. p[1] = trav.table /\ p[2] = trav.index
    BY <2>3
  <2>5. PICK m \in 1 .. Len(d.ht[p[1]].table[p[2]]) + 1 :
          /\ Divided(d, p[1], p[2], m, trav.seen, Due)
          /\ m <= Len(d.ht[p[1]].table[p[2]]) /\ d.ht[p[1]].table[p[2]][m] = trav.next
    BY <1>7, <2>2, <2>4 DEF Tracks
  <2>6. /\ p[1] \in {0, 1} /\ p[2] \in 0 .. d.ht[p[1]].size - 1
        /\ trav.seen \subseteq Stored(d) /\ Due \subseteq Stored(d)
    BY <2>2, <2>4 DEF Tracks
  <2>7. m \in DOMAIN d.ht[p[1]].table[p[2]]
    BY <2>5, <2>6, SoundBucket
  <2>8. Return(trav.next, p)
    BY <1>7, <2>3
  <2>9. Runs(u, trav', fault)
    BY <1>1, <1>5, <2>5, <2>6, <2>7, <2>8, ReturnRuns
  <2>10. QED
    BY <1>4, <1>7, <2>9
<1>8. CASE trav.next = Dangling /\ fault' = TRUE /\ trav' = trav
  <2>1. Started
    BY <1>1, <1>2, <1>8 DEF Runs, None, Dangling
  <2>2. Tracks(d, trav.table, trav.index, trav.next, trav.seen, trav.must)
    BY <1>1, <1>2, <2>1 DEF Runs
  <2>3. Tracks(u, trav.table, trav.index, trav.next, trav.seen, trav.must)
    BY <1>5, <2>2, CountedTracks
  <2>4. Runs(u, trav, TRUE)
    BY <1>1, <1>2, <1>5, <1>8, <2>1, <2>3 DEF Runs, Counted
  <2>5. QED
    BY <1>4, <1>8, <2>4
<1>9. CASE trav.next = None /\ fault' = fault
  <2>1. /\ Passed(d, trav.table, trav.index, trav.seen, Due)
        /\ trav.table \in {0, 1} /\ trav.index \in Int
        /\ trav.seen \subseteq Stored(d) /\ Due \subseteq Stored(d)
    <3>1. CASE Started
      <4>1. Tracks(d, trav.table, trav.index, None, trav.seen, Due)
        BY <1>1, <1>2, <1>9, <3>1 DEF Runs, Due
      <4>2. /\ trav.table \in {0, 1} /\ trav.index \in 0 .. d.ht[trav.table].size - 1
            /\ trav.seen \subseteq Stored(d) /\ Due \subseteq Stored(d)
        BY <4>1 DEF Tracks
      <4>3. QED
        BY <4>1, <4>2, PassedAtEnd
    <3>2. CASE ~Started
      <4>1. trav.table = 0 /\ trav.index = -1 /\ trav.seen = {} /\ Due = Stored(d)
        BY <1>1, <1>2, <3>2 DEF Runs, Started, Due
      <4>2. QED
        BY <4>1, PassedAtStart
    <3>3. QED
      BY <3>1, <3>2
  <2>2. ASSUME NEW p \in Later, \A q \in Later : Before(p, q),
               Return(Head(d.ht[p[1]].table[p[2]]), p)
        PROVE  Runs(d', trav', fault')
    <3>1. /\ p[1] \in {0, 1} /\ p[2] \in 0 .. d.ht[p[1]].size - 1
          /\ d.ht[p[1]].table[p[2]] \in Seq(Keys)
          /\ 1 \in DOMAIN d.ht[p[1]].table[p[2]]
          /\ Divided(d, p[1], p[2], 1, trav.seen, Due)
      BY <2>1, <2>2, FirstLater
    <3>2. PICK k : k = d.ht[p[1]].table[p[2]][1]
      OBVIOUS
    <3>3. Return(k, p)
      <4>1. PICK q \in Seq(Keys) : q = d.ht[p[1]].table[p[2]]
        BY <3>1
      <4>2. Head(q) = q[1]
        BY <3>1, <4>1
      <4>3. QED
        BY <2>2, <3>2, <4>1, <4>2
    <3>4. Runs(u, trav', fault)
      BY <1>1, <1>5, <2>1, <3>1, <3>2, <3>3, ReturnRuns
    <3>5. QED
      BY <1>4, <1>9, <3>4
  <2>3. CASE /\ Later = {}
             /\ trav' = [trav EXCEPT !.over = TRUE, !.entry = None,
                           !.must = IF Started THEN @ ELSE Stored(d),
                           !.index = d.ht[trav.table].size]
    <3>1. PICK tr : tr = trav'
      OBVIOUS
    <3>2. DOMAIN trav = Fields
      BY DEF Runs
    <3>3. /\ DOMAIN tr = Fields /\ tr.kind = trav.kind /\ tr.over = TRUE
          /\ tr.table = trav.table /\ tr.index = d.ht[trav.table].size
          /\ tr.entry = None /\ tr.next = trav.next /\ tr.must = Due
          /\ tr.seen = trav.seen /\ tr.twice = trav.twice /\ tr.stray = trav.stray
      BY <2>3, <3>1, <3>2 DEF Fields, Due
    <3>4. Due \subseteq trav.seen
      BY <2>1, <2>3, NoneLater
    <3>5. Begun(tr) /\ Iterates(tr)
      <4>1. d.ht[trav.table].size # -1
        BY <2>1, SoundTable
      <4>2. QED
        BY <1>1, <3>3, <4>1 DEF Begun, Iterates
    <3>6. trav.next = None /\ None \notin Keys /\ None # Dangling
      BY <1>9, KeysAssumption DEF None, Dangling
    <3>7. u.iterators = IF tr.kind = "safe" /\ Begun(tr) THEN 1 ELSE 0
      BY <1>5, <3>3, <3>5 DEF Counted
    <3>8. ~tr.twice
      BY <3>3 DEF Runs
    <3>9. Runs(u, tr, fault)
      BY <1>1, <3>3, <3>4, <3>5, <3>6, <3>7, <3>8 DEF Runs
    <3>10. QED
      BY <1>4, <1>9, <3>1, <3>9
  <2>4. trav.next \notin Keys /\ trav.next # Dangling
    BY <1>9, KeysAssumption DEF None, Dangling
  <2>5. QED
    BY <2>2, <2>3, <2>4 DEF NextEntry, Upcoming
<1>10. QED
  BY <1>7, <1>8, <1>9 DEF NextEntry, Upcoming

(* A traversal that did not begin: no iterator, or one just obtained.      *)
Fresh(tr) ==
  /\ DOMAIN tr = Fields /\ tr.next = None /\ tr.table = 0 /\ tr.index = -1
  /\ tr.seen = {} /\ tr.must = {} /\ ~tr.twice /\ ~tr.over

(* Without a traversal, or with one just obtained, nothing is claimed but  *)
(* that the dict counts no iterator.                                       *)
LEMMA NoTraversalFresh == Fresh(NoTraversal)
BY DEF Fresh, NoTraversal, Fields

(* A traversal that did not begin keeps the invariant.                     *)
LEMMA FreshRuns ==
  ASSUME NEW t, t.iterators = 0, NEW tr, Fresh(tr)
  PROVE  Runs(t, tr, FALSE)
<1>1. None \notin Keys /\ None # Dangling
  BY KeysAssumption DEF None, Dangling
<1>2. ~Begun(tr)
  BY DEF Begun, Fresh
<1>3. QED
  BY <1>1, <1>2 DEF Runs, Fresh

(* The calls that iterate, and those that scan.                            *)
LEMMA TraversalRuns ==
  ASSUME Sound(d), Runs(d, trav, fault),
         \/ \E kind \in {"safe", "unsafe"} : GetIterator(kind)
         \/ NextEntry
         \/ ReleaseIterator
         \/ Scan
         \/ EndScan
  PROVE  Runs(d', trav', fault')
<1>0. trav.kind = None \/ trav.kind = "scan" => ~Iterates(trav)
  BY DEF Iterates, None
<1>1. ASSUME NEW kind \in {"safe", "unsafe"}, GetIterator(kind)
      PROVE  Runs(d', trav', fault')
  <2>1. ~fault /\ trav.kind = None /\ d' = d /\ ~fault'
    BY <1>1 DEF GetIterator
  <2>2. d.iterators = 0
    BY <2>1 DEF Runs, None
  <2>3. PICK tr : tr = [NoTraversal EXCEPT !.kind = kind]
    OBVIOUS
  <2>8. Fresh(tr)
    BY <2>3 DEF NoTraversal, Fresh, Fields
  <2>4. Runs(d, tr, FALSE)
    BY <2>2, <2>8, FreshRuns
  <2>5. Runs(d, tr, fault')
    BY <2>1, <2>4 DEF Runs
  <2>6. d' = d /\ trav' = tr
    BY <1>1, <2>3 DEF GetIterator
  <2>7. QED
    BY <2>5, <2>6
<1>2. CASE NextEntry
  BY <1>2, NextEntryRuns
<1>3. CASE ReleaseIterator
  <2>1. ~fault /\ ~fault' /\ trav' = NoTraversal
    BY <1>3 DEF ReleaseIterator
  <2>2. PICK u : u = IF trav.kind = "safe" /\ Started
                     THEN [d EXCEPT !.iterators = @ - 1] ELSE d
    OBVIOUS
  <2>3. u.iterators = 0
    <3>1. Started <=> Begun(trav)
      BY DEF Started, Begun
    <3>2. CASE trav.kind = "safe" /\ Started
      <4>1. PICK n : n = d.iterators - 1
        OBVIOUS
      <4>2. n = 0 /\ u = [d EXCEPT !.iterators = n]
        BY <2>2, <3>1, <3>2, <4>1 DEF Runs
      <4>3. QED
        BY <4>2, CountedSound
    <3>3. CASE ~(trav.kind = "safe" /\ Started)
      BY <2>2, <3>1, <3>3 DEF Runs
    <3>4. QED
      BY <3>2, <3>3
  <2>4. PICK tr : tr = NoTraversal
    OBVIOUS
  <2>5. Runs(u, tr, FALSE)
    BY NoTraversalFresh, <2>3, <2>4, FreshRuns
  <2>6. Runs(u, tr, fault')
    BY <2>1, <2>5 DEF Runs
  <2>7. d' = u /\ trav' = tr
    BY <1>3, <2>1, <2>2, <2>4 DEF ReleaseIterator
  <2>8. QED
    BY <2>6, <2>7
<1>4. CASE Scan
  <2>1. /\ ~fault /\ ~fault' /\ d' = d /\ ~Iterates(trav)
    BY <1>0, <1>4 DEF Scan, MayCall
  <2>2. PICK tr : tr = trav'
    OBVIOUS
  <2>3. DOMAIN trav = Fields
    BY DEF Runs
  <2>4. /\ DOMAIN tr = Fields /\ tr.kind = "scan" /\ tr.next = trav.next
        /\ tr.table = trav.table /\ tr.index = trav.index /\ tr.twice = trav.twice
        /\ tr.entry = trav.entry
    BY <1>4, <2>2, <2>3 DEF Scan, Fields
  <2>5. trav.next = None /\ ~Begun(trav) /\ d.iterators = 0
    BY <2>1 DEF Runs, Iterates
  <2>6. ~Iterates(tr) /\ tr.next = None /\ ~Begun(tr)
    BY <2>4, <2>5 DEF Iterates, Begun
  <2>7. None \notin Keys /\ None # Dangling
    BY KeysAssumption DEF None, Dangling
  <2>8. ~tr.twice
    BY <2>4 DEF Runs
  <2>9. Runs(d, tr, fault')
    BY <2>1, <2>4, <2>5, <2>6, <2>7, <2>8 DEF Runs
  <2>10. QED
    BY <2>1, <2>2, <2>9
<1>5. CASE EndScan
  <2>1. d' = d /\ fault' = fault /\ trav' = NoTraversal /\ ~Iterates(trav)
    BY <1>0, <1>5 DEF EndScan
  <2>2. ~fault /\ d.iterators = 0
    BY <2>1 DEF Runs, Iterates
  <2>3. PICK tr : tr = NoTraversal
    OBVIOUS
  <2>4. Runs(d, tr, FALSE)
    BY NoTraversalFresh, <2>2, <2>3, FreshRuns
  <2>5. Runs(d, tr, fault)
    BY <2>2, <2>4 DEF Runs
  <2>6. QED
    BY <2>1, <2>3, <2>5
<1>6. QED
  BY <1>1, <1>2, <1>3, <1>4, <1>5

(* At first nobody iterates.                                               *)
LEMMA InitRuns ==
  ASSUME Init
  PROVE  Runs(d, trav, fault)
<1>2. PICK t, tr : t = d /\ tr = NoTraversal
  OBVIOUS
<1>3. t.iterators = 0
  BY <1>2 DEF Init
<1>4. Runs(t, tr, FALSE)
  BY NoTraversalFresh, <1>2, <1>3, FreshRuns
<1>5. QED
  BY <1>2, <1>4 DEF Init

(* dictEmpty is not called while an iterator is in use.                    *)
LEMMA EmptyRuns ==
  ASSUME Empty, Runs(d, trav, fault)
  PROVE  Runs(d', trav', fault')
<1>1. ~fault /\ ~fault' /\ ~Iterates(trav)
  BY DEF Empty, MayCall, Iterates
<1>2. PICK u : u = [ht |-> [i \in {0, 1} |-> NoTable], rehashidx |-> -1, iterators |-> 0]
  OBVIOUS
<1>3. u.iterators = 0
  BY <1>2
<1>4. PICK tr : tr = [trav EXCEPT !.must = {}, !.seen = {}]
  OBVIOUS
<1>5. DOMAIN trav = Fields
  BY DEF Runs
<1>6. /\ DOMAIN tr = Fields /\ tr.kind = trav.kind /\ tr.next = trav.next
      /\ tr.table = trav.table /\ tr.index = trav.index /\ tr.twice = trav.twice
      /\ tr.entry = trav.entry
  BY <1>4, <1>5 DEF Fields
<1>7. trav.next = None /\ ~Begun(trav)
  BY <1>1 DEF Runs
<1>8. ~Iterates(tr) /\ tr.next = None /\ ~Begun(tr)
  BY <1>1, <1>6, <1>7 DEF Iterates, Begun
<1>9. None \notin Keys /\ None # Dangling
  BY KeysAssumption DEF None, Dangling
<1>10. ~tr.twice
  BY <1>6 DEF Runs
<1>11. Runs(u, tr, fault')
  BY <1>1, <1>3, <1>6, <1>8, <1>9, <1>10 DEF Runs
<1>12. d' = u /\ trav' = tr
  BY <1>2, <1>4 DEF Empty
<1>13. QED
  BY <1>11, <1>12

(* No call of the library, and no step of a traversal, breaks an iterator. *)
LEMMA NextRuns ==
  ASSUME Kept, Runs(d, trav, fault), [Next]_vars
  PROVE  Runs(d', trav', fault')
<1>0. Sound(d)
  BY DEF Kept, Keeps
<1>a. ASSUME NEW u, Allows(d, u), d' = u, trav' = trav, fault' = fault,
             trav.kind # "unsafe"
      PROVE  Runs(d', trav', fault')
  BY <1>a, AllowedRuns
<1>b. ASSUME d' = d, trav' = trav, fault' = fault
      PROVE  Runs(d', trav', fault')
  BY <1>b
<1>1. ASSUME NEW k \in Keys, NEW v \in Vals,
             Add(k, v) \/ Replace(k, v) \/ ReplaceRaw(k, v)
      PROVE  Runs(d', trav', fault')
  <2>1. Allows(d, d')
    BY <1>0, <1>1, AddAllows
  <2>2. trav' = trav /\ fault' = fault /\ trav.kind # "unsafe"
    BY <1>1 DEF Add, Replace, ReplaceRaw, MayCall
  <2>3. QED
    BY <1>a, <2>1, <2>2
<1>2. ASSUME NEW k \in Keys, Delete(k)
      PROVE  Runs(d', trav', fault')
  BY <1>0, <1>2, DeleteRuns
<1>3. CASE Find \/ GetRandomKey
  <2>1. PICK u : u = _dictRehashStep(d)
    OBVIOUS
  <2>2. Allows(d, u)
    BY <1>0, <2>1, StepAllows
  <2>3. d' = u /\ trav' = trav /\ fault' = fault /\ trav.kind # "unsafe"
    BY <1>3, <2>1 DEF Find, GetRandomKey, Moving, MayCall
  <2>4. QED
    BY <1>a, <2>2, <2>3
<1>4. CASE Empty
  BY <1>4, EmptyRuns
<1>5. CASE Resize
  <2>1. PICK n : n = Max({d.ht[0].used, DICT_HT_INITIAL_SIZE})
    OBVIOUS
  <2>2. n \in Nat /\ n < LONG_MAX
    BY <2>1, ResizeSize
  <2>3. PICK u : u = Expanded(d, n)
    OBVIOUS
  <2>4. Allows(d, u)
    BY <1>0, <2>2, <2>3, ExpandedAllows
  <2>5. d' = u /\ trav' = trav /\ fault' = fault /\ trav.kind # "unsafe"
    BY <1>5, <2>1, <2>3 DEF Resize, Moving, MayCall
  <2>6. QED
    BY <1>a, <2>4, <2>5
<1>6. ASSUME NEW n \in Sizes, Expand(n)
      PROVE  Runs(d', trav', fault')
  <2>1. n \in Nat /\ n < LONG_MAX
    BY SizesAssumption, PowersAre
  <2>2. PICK u : u = Expanded(d, n)
    OBVIOUS
  <2>3. Allows(d, u)
    BY <1>0, <2>1, <2>2, ExpandedAllows
  <2>4. d' = u /\ trav' = trav /\ fault' = fault /\ trav.kind # "unsafe"
    BY <1>6, <2>2 DEF Expand, Moving, MayCall
  <2>5. QED
    BY <1>a, <2>3, <2>4
<1>7. ASSUME NEW n \in Steps, Rehash(n)
      PROVE  Runs(d', trav', fault')
  <2>1. PICK u : u = dictRehash(d, n)
    OBVIOUS
  <2>2. u.iterators = d.iterators
    BY <1>0, <2>1, SizesAssumption, RehashSound
  <2>3. /\ d' = u /\ trav' = trav /\ fault' = fault
        /\ trav.kind # "unsafe" /\ trav.kind # "safe"
    BY <1>7, <2>1 DEF Rehash, Moving, MayCall
  <2>4. d.iterators = 0
    BY <2>3 DEF Runs
  <2>5. Allows(d, u)
    BY <2>2, <2>4 DEF Allows
  <2>6. QED
    BY <1>a, <2>3, <2>5
<1>8. ASSUME NEW b \in BOOLEAN, SetResize(b)
      PROVE  Runs(d', trav', fault')
  BY <1>8, <1>b DEF SetResize
<1>9. CASE UNCHANGED vars
  BY <1>9, <1>b DEF vars
<1>10. QED
  BY <1>0, <1>1, <1>2, <1>3, <1>4, <1>5, <1>6, <1>7, <1>8, <1>9, TraversalRuns DEF Next

-----------------------------------------------------------------------------
(* A call of dictScan *)

(* Sizes are compared as their exponents are.                              *)
LEMMA Exponents ==
  ASSUME NEW i \in 0 .. WordBits, NEW j \in 0 .. WordBits, Two[i] <= Two[j]
  PROVE  i <= j /\ (Two[j] < 4 * Two[i] => j <= i + 1)
<1>0. WordBits \in Nat
  BY TwoFacts
<1>1. ASSUME j < i
      PROVE  FALSE
  <2>1. j \in 0 .. WordBits - 1 /\ j + 1 \in 0 .. WordBits /\ i \in j + 1 .. WordBits
    BY <1>0, <1>1
  <2>2. Two[j + 1] <= Two[i] /\ Two[j + 1] = 2 * Two[j]
    BY <2>1, TwoGrows, TwoIs
  <2>3. Two[i] \in Nat /\ Two[j] \in Nat /\ Two[j] >= 1
    BY TwoFacts
  <2>4. QED
    BY <2>2, <2>3
<1>2. ASSUME Two[j] < 4 * Two[i], j > i + 1
      PROVE  FALSE
  <2>1. /\ i \in 0 .. WordBits - 1 /\ i + 1 \in 0 .. WordBits - 1
        /\ (i + 1) + 1 \in 0 .. WordBits /\ j \in (i + 1) + 1 .. WordBits
    BY <1>0, <1>2
  <2>2. /\ Two[(i + 1) + 1] <= Two[j] /\ Two[i + 1] = 2 * Two[i]
        /\ Two[(i + 1) + 1] = 2 * Two[i + 1]
    BY <2>1, TwoGrows, TwoIs
  <2>3. Two[i] \in Nat /\ Two[j] \in Nat
    BY TwoFacts
  <2>4. QED
    BY <1>2, <2>2, <2>3
<1>3. QED
  BY <1>0, <1>1, <1>2

(* A hash that the cursor v has not passed, in the bucket that v stands    *)
(* for in the smaller table, is in one of those that v expands to.         *)
LEMMA InExpansions ==
  ASSUME NEW v \in Nat, NEW h \in Nat, rev(h) >= rev(v),
         NEW small \in Powers, NEW large \in Powers, small <= large,
         h % small = v % small, large < 4 * small \/ v % large < small
  PROVE  h % large \in Expansions(v, small, large)
<1>0. WordBits \in Nat
  BY TwoFacts
<1>1. PICK i, j \in 0 .. WordBits : small = Two[i] /\ large = Two[j]
  BY PowerExponent
<1>2. i <= j /\ (large < 4 * small => j <= i + 1)
  BY <1>1, Exponents
<1>3. small \in Nat \ {0} /\ large \in Nat \ {0}
  BY PowersAre
<1>4. PICK a, b \in Nat : a = h % large /\ b = v % large /\ a < large /\ b < large
  <2>1. PICK a, b \in 0 .. large - 1 : a = h % large /\ b = v % large
    BY <1>3, Quotient
  <2>2. QED
    BY <1>3, <2>1
<1>5. a % small = h % small /\ b % small = v % small
  <2>1. j \in i .. WordBits
    BY <1>0, <1>2
  <2>2. QED
    BY <1>1, <1>4, <2>1, LesserRemainder
<1>6. a >= b
  <2>1. CASE b < small
    <3>1. b = 0 * small + b /\ b \in 0 .. small - 1 /\ 0 \in Nat
      BY <1>3, <1>4, <2>1
    <3>2. b % small = b
      BY <1>3, <3>1, DivisionIs
    <3>3. PICK q \in Nat, r \in 0 .. small - 1 : a = q * small + r /\ a % small = r
      BY <1>3, <1>4, Quotient
    <3>4. r = b
      BY <1>5, <3>2, <3>3
    <3>5. q * small \in Nat
      BY <1>3
    <3>6. QED
      BY <1>4, <3>3, <3>4, <3>5
  <2>2. CASE ~(b < small)
    <3>1. j <= i + 1
      BY <1>2, <1>3, <1>4, <2>2
    <3>2. j # i
      BY <1>1, <1>3, <1>4, <2>2
    <3>3. j = i + 1 /\ i \in 0 .. WordBits - 1
      BY <1>0, <1>2, <3>1, <3>2
    <3>4. PICK x, y \in 0 .. 1 : x = Bit(h, i) /\ y = Bit(v, i)
      BY <1>0, BitIs
    <3>5. PICK r \in Nat : r = h % small /\ r = v % small
      BY <1>3, Quotient
    <3>6. a = r + x * small /\ b = r + y * small
      BY <1>1, <1>4, <3>3, <3>4, <3>5, NextRemainder
    <3>7. PICK t \in Nat : t = Turned(h)[i] /\ t = Turned(v)[i]
      BY <1>1, SamePrefix, TurnedIs
    <3>8. Turned(h)[i + 1] = 2 * t + x /\ Turned(v)[i + 1] = 2 * t + y
      <4>1. /\ Turned(h)[i + 1] = 2 * Turned(h)[i] + Bit(h, i)
            /\ Turned(v)[i + 1] = 2 * Turned(v)[i] + Bit(v, i)
        BY <3>3, TurnedIs
      <4>2. QED
        BY <3>4, <3>7, <4>1
    <3>9. PICK f, g \in Nat : f = rev(h) /\ g = rev(v)
      <4>1. WordBits \in 0 .. WordBits
        BY <1>0
      <4>2. QED
        BY <4>1, TurnedIs DEF rev
    <3>10. Turned(v)[i + 1] <= Turned(h)[i + 1]
      <4>1. i + 1 \in 0 .. WordBits /\ rev(v) <= rev(h)
        BY <1>0, <3>3, <3>9
      <4>2. QED
        BY <4>1, PrefixOrder
    <3>11. y <= x
      BY <3>8, <3>10
    <3>12. PICK p, q \in Nat : p = x * small /\ q = y * small /\ q <= p
      <4>1. 0 * small = 0 /\ 1 * small = small
        BY <1>3
      <4>2. (x = 0 /\ y = 0) \/ (x = 1 /\ y = 0) \/ (x = 1 /\ y = 1)
        BY <3>11
      <4>3. QED
        BY <1>3, <4>1, <4>2
    <3>13. QED
      BY <3>6, <3>12
  <2>3. QED
    BY <2>1, <2>2
<1>7. a \in 0 .. large - 1
  BY <1>3, <1>4
<1>8. QED
  BY <1>4, <1>5, <1>6, <1>7 DEF Expansions

(* The tables of a dict that has entries.                                  *)
LEMMA SmallerIs ==
  ASSUME Sound(d), dictSize # 0
  PROVE  LET small == d.ht[Smaller].size
             large == d.ht[1 - Smaller].size
         IN /\ Smaller \in {0, 1} /\ small \in Powers
            /\ dictIsRehashing(d) => large \in Powers /\ small <= large
            /\ ~dictIsRehashing(d) => Smaller = 0 /\ large = 0
<1>1. PICK a, b \in Powers \cup {0} : a = d.ht[0].size /\ b = d.ht[1].size
  BY DEF Sound, Good, Shaped
<1>2. a \in Nat /\ b \in Nat
  BY <1>1, SizeIsNat
<1>3. dictIsRehashing(d) <=> b # 0
  BY <1>1 DEF Sound
<1>4. CASE dictIsRehashing(d)
  <2>1. a \in Powers /\ b \in Powers
    BY <1>1, <1>3, <1>4 DEF Sound
  <2>2. CASE a > b
    <3>1. Smaller = 1 /\ 1 - Smaller = 0
      BY <1>1, <1>4, <2>2 DEF Smaller
    <3>2. QED
      BY <1>1, <1>2, <1>4, <2>1, <2>2, <3>1
  <2>3. CASE ~(a > b)
    <3>1. Smaller = 0 /\ 1 - Smaller = 1
      BY <1>1, <1>4, <2>3 DEF Smaller
    <3>2. QED
      BY <1>1, <1>2, <1>4, <2>1, <2>3, <3>1
  <2>4. QED
    BY <2>2, <2>3
<1>5. CASE ~dictIsRehashing(d)
  <2>1. Smaller = 0 /\ 1 - Smaller = 1 /\ b = 0
    BY <1>3, <1>5 DEF Smaller
  <2>2. a # 0
    <3>1. ASSUME NEW i \in {0, 1}, d.ht[i].size = 0
          PROVE  d.ht[i].used = 0
      <4>1. Shaped(d.ht[i]) /\ d.ht[i].used = Cardinality(Chained(d.ht[i]))
        BY DEF Sound, Good
      <4>2. Chained(d.ht[i]) = {}
        BY <3>1, <4>1, ChainedKeys
      <4>3. QED
        BY <4>1, <4>2, ChainedKeys
    <3>2. a = 0 => d.ht[0].used = 0 /\ d.ht[1].used = 0
      BY <1>1, <2>1, <3>1
    <3>3. QED
      BY <3>2 DEF dictSize
  <2>3. QED
    BY <1>1, <1>5, <2>1, <2>2
<1>6. QED
  BY <1>4, <1>5

(* What an index by a hash depends on.                                     *)
LEMMA HashIs ==
  ASSUME NEW k \in Keys, NEW size \in Powers
  PROVE  Hash[k] % Word \in Nat /\ (Hash[k] % Word) % size = Hash[k] % size
<1>0. WordBits \in Nat /\ Word \in Nat \ {0} /\ Hash[k] \in Nat
  BY TwoFacts, HashAssumption
<1>1. PICK i \in 0 .. WordBits : size = Two[i]
  BY PowerExponent
<1>2. WordBits \in i .. WordBits
  BY <1>0
<1>3. Hash[k] % Word \in Nat
  BY <1>0
<1>4. QED
  BY <1>0, <1>1, <1>2, <1>3, LesserRemainder DEF Word

(* The call returns every entry that the cursor has not passed and that    *)
(* belongs to its bucket of the smaller table, wherever the entry is.      *)
LEMMA EmittedAre ==
  ASSUME Sound(d), dictSize # 0, NEW v \in Nat, ~Astride(v), NEW k \in Stored(d),
         rev(Hash[k] % Word) >= rev(v),
         (Hash[k] % Word) % d.ht[Smaller].size = v % d.ht[Smaller].size
  PROVE  k \in Emitted(v)
<1>1. PICK s : s = Smaller
  OBVIOUS
<1>2. PICK small, large : small = d.ht[s].size /\ large = d.ht[1 - s].size
  OBVIOUS
<1>3. /\ s \in {0, 1} /\ small \in Powers
      /\ dictIsRehashing(d) => large \in Powers /\ small <= large
      /\ ~dictIsRehashing(d) => s = 0 /\ large = 0
  BY <1>1, <1>2, SmallerIs
<1>4. PICK i \in {0, 1} : k \in Chained(d.ht[i])
  BY DEF Stored
<1>5. /\ Shaped(d.ht[i]) /\ Placed(d.ht[i])
  BY DEF Sound, Good
<1>6. k \in Keys
  BY <1>4, <1>5, ChainedKeys
<1>7. d.ht[i].size # 0 /\ k \in ToSet(d.ht[i].table[Slot(d.ht[i], k)])
  <2>1. Holds(d.ht[i], k)
    BY <1>4, <1>5, <1>6, HoldsExact
  <2>2. QED
    BY <2>1 DEF Holds, Contains, ToSet
<1>8. PICK h \in Nat : h = Hash[k] % Word /\ rev(h) >= rev(v) /\ h % small = v % small
  BY <1>1, <1>2, <1>3, <1>6, HashIs
<1>9. CASE i = s
  <2>1. Slot(d.ht[i], k) = v % small
    BY <1>2, <1>3, <1>6, <1>8, <1>9, HashIs DEF Slot
  <2>2. QED
    BY <1>1, <1>2, <1>7, <1>9, <2>1 DEF Emitted
<1>10. CASE i # s
  <2>1. i = 1 - s
    BY <1>3, <1>10
  <2>2. dictIsRehashing(d) /\ large \in Powers /\ small <= large
    BY <1>2, <1>3, <1>7, <2>1
  <2>3. small \in Nat /\ large \in Nat /\ v % large \in Nat
    BY <1>3, <2>2, PowersAre
  <2>4. large < 4 * small \/ v % large < small
    BY <1>1, <1>2, <2>2, <2>3 DEF Astride
  <2>5. h % large \in Expansions(v, small, large)
    BY <1>3, <1>8, <2>2, <2>4, InExpansions
  <2>6. Slot(d.ht[i], k) = h % large
    BY <1>2, <1>6, <1>8, <2>1, <2>2, HashIs DEF Slot
  <2>7. QED
    BY <1>1, <1>2, <1>7, <2>1, <2>2, <2>5, <2>6 DEF Emitted
<1>11. QED
  BY <1>9, <1>10

(* A scan tr, when the calls left the values v: the entries that it must   *)
(* return are there, and as long as no call came at a cursor astride, the  *)
(* cursor has not passed those that it did not return yet.                 *)
Scans(v, tr) ==
  /\ tr.cursor \in 0 .. Word - 1
  /\ tr.kind = None => tr.cursor = 0
  /\ tr.kind = "scan" => \A k \in tr.must : k \in Keys /\ v[k] # None
  /\ tr.kind = "scan" /\ ~tr.astride
       => \A k \in tr.must \ tr.seen :
            ~tr.over /\ rev(Hash[k] % Word) >= rev(tr.cursor)

(* Reverses are numbers of a word.                                         *)
LEMMA RevIs ==
  ASSUME NEW v \in Nat
  PROVE  rev(v) \in Nat
<1>1. WordBits \in 0 .. WordBits
  BY TwoFacts
<1>2. QED
  BY <1>1, TurnedIs DEF rev

(* The cursor that a call of dictScan returns.                             *)
LEMMA CursorMoves ==
  ASSUME Kept, DOMAIN trav = Fields, trav.cursor \in Nat, Scan
  PROVE  /\ trav'.cursor \in 0 .. Word - 1
         /\ ~trav'.over => rev(trav'.cursor) > rev(trav.cursor)
<1>1. trav'.over <=> trav'.cursor = 0
  BY DEF Scan, Fields
<1>2. CASE dictSize = 0
  <2>1. trav'.cursor = 0
    BY <1>2 DEF Scan, Fields
  <2>2. QED
    BY <1>1, <2>1, TwoFacts
<1>3. CASE dictSize # 0
  <2>1. trav'.cursor = NextCursor(trav.cursor, d.ht[Smaller].size)
    BY <1>3 DEF Scan, Fields
  <2>2. d.ht[Smaller].size \in Powers
    BY <1>3, SmallerIs DEF Kept, Keeps
  <2>3. QED
    BY <1>1, <2>1, <2>2, NextCursorIs
<1>4. QED
  BY <1>2, <1>3

(* A call of dictScan leaves behind the cursor only what it returned.      *)
LEMMA ScanScans ==
  ASSUME Kept, DOMAIN trav = Fields, Scans(val, trav), Scan
  PROVE  Scans(val', trav')
<1>0. Sound(d) /\ Stored(d) = {k \in Keys : val[k] # None} /\ val' = val
  BY DEF Kept, Keeps, Scan
<1>1. PICK v \in Nat : v = trav.cursor
  BY TwoFacts DEF Scans
<1>2. PICK c \in 0 .. Word - 1 : c = trav'.cursor
  BY <1>1, CursorMoves
<1>3. PICK tr : tr = trav'
  OBVIOUS
<1>4. /\ tr.kind = "scan" /\ tr.cursor = c /\ (tr.over <=> c = 0)
      /\ tr.must = IF trav.kind = None THEN Stored(d) ELSE trav.must
      /\ tr.astride <=> trav.astride \/ Astride(v)
      /\ tr.seen = IF dictSize = 0 THEN trav.seen ELSE trav.seen \cup Emitted(v)
      /\ trav.kind \in {None, "scan"}
  BY <1>1, <1>2, <1>3 DEF Scan, Fields
<1>5. \A k \in tr.must : k \in Keys /\ val[k] # None /\ k \in Stored(d)
  BY <1>0, <1>4 DEF Scans
<1>6. ASSUME ~tr.astride, NEW k \in tr.must \ tr.seen
      PROVE  ~tr.over /\ rev(Hash[k] % Word) >= rev(tr.cursor)
  <2>1. dictSize # 0
    <3>1. SUFFICES ASSUME dictSize = 0
                   PROVE  FALSE
      OBVIOUS
    <3>2. Cardinality(Stored(d)) = 0
      BY <1>0, <3>1, SoundCounts DEF dictSize
    <3>3. IsFiniteSet(Stored(d))
      BY <1>0, KeysAssumption, FS_Subset
    <3>4. Stored(d) = {}
      BY <3>2, <3>3, FS_EmptySet
    <3>5. QED
      BY <1>5, <1>6, <3>4
  <2>2. PICK size \in Powers : size = d.ht[Smaller].size
    BY <1>0, <2>1, SmallerIs
  <2>3. c = NextCursor(v, size)
    BY <1>1, <1>2, <2>1, <2>2 DEF Scan, Fields
  <2>4. k \in Keys /\ k \in Stored(d) /\ k \notin Emitted(v) /\ ~Astride(v)
    BY <1>4, <1>5, <1>6, <2>1
  <2>5. PICK h \in Nat : h = Hash[k] % Word
    BY <2>2, <2>4, HashIs
  <2>6. rev(h) >= rev(v)
    <3>1. CASE trav.kind = None
      <4>1. rev(v) = 0 /\ rev(h) \in Nat
        BY <1>1, <3>1, RevZero, RevIs DEF Scans
      <4>2. QED
        BY <4>1
    <3>2. CASE trav.kind # None
      <4>1. trav.kind = "scan" /\ ~trav.astride /\ k \in trav.must \ trav.seen
        BY <1>4, <1>6, <2>1, <3>2
      <4>2. QED
        BY <1>1, <2>5, <4>1 DEF Scans
    <3>3. QED
      BY <3>1, <3>2
  <2>7. h % size # v % size
    BY <1>0, <2>1, <2>2, <2>4, <2>5, <2>6, EmittedAre
  <2>8. c # 0 /\ rev(h) >= rev(c)
    BY <2>3, <2>6, <2>7, NextCursorIs
  <2>9. QED
    BY <1>4, <2>5, <2>8
<1>7. tr.kind # None
  BY <1>4 DEF None
<1>8. Scans(val, tr)
  BY <1>4, <1>5, <1>6, <1>7 DEF Scans
<1>9. QED
  BY <1>0, <1>3, <1>8

(* Calls that remove no value keep what is claimed of a scan.              *)
LEMMA GrowScans ==
  ASSUME NEW v, NEW w, NEW tr, Scans(v, tr), \A k \in Keys : v[k] # None => w[k] # None
  PROVE  Scans(w, tr)
BY DEF Scans

(* Without a scan nothing is claimed but where one starts.                 *)
LEMMA OtherScans ==
  ASSUME NEW v, NEW tr, tr.kind # "scan", tr.cursor \in 0 .. Word - 1,
         tr.kind = None => tr.cursor = 0
  PROVE  Scans(v, tr)
BY DEF Scans

(* The deletion of an entry ends its being due.                            *)
LEMMA DeleteScans ==
  ASSUME Kept, DOMAIN trav = Fields, Scans(val, trav), NEW k \in Keys, Delete(k)
  PROVE  Scans(val', trav')
<1>1. CASE val' = val /\ trav' = trav
  BY <1>1
<1>2. CASE val' = [val EXCEPT ![k] = None] /\ trav' = Without(trav, k)
  <2>1. PICK tr, v : tr = Without(trav, k) /\ v = [val EXCEPT ![k] = None]
    OBVIOUS
  <2>2. /\ tr.kind = trav.kind /\ tr.cursor = trav.cursor /\ tr.over = trav.over
        /\ tr.astride = trav.astride /\ tr.must = trav.must \ {k}
        /\ tr.seen = trav.seen \ {k}
    BY <2>1 DEF Without, Fields
  <2>3. \A j \in Keys \ {k} : v[j] = val[j]
    BY <2>1 DEF Kept, Keeps
  <2>4. tr.must \subseteq trav.must /\ tr.must \ tr.seen \subseteq trav.must \ trav.seen
    BY <2>2
  <2>5. tr.kind = "scan" => \A j \in tr.must : j \in Keys /\ v[j] # None
    BY <2>2, <2>3 DEF Scans
  <2>6. Scans(v, tr)
    BY <2>2, <2>4, <2>5 DEF Scans
  <2>7. QED
    BY <1>2, <2>1, <2>6
<1>3. QED
  BY <1>1, <1>2 DEF Delete

(* No call takes from a scan what is due, or moves its cursor.             *)
LEMMA NextScans ==
  ASSUME Kept, DOMAIN trav = Fields, Scans(val, trav), [Next]_vars
  PROVE  Scans(val', trav')
<1>0. None # "scan" /\ None # "safe" /\ None # "unsafe"
  BY DEF None
<1>a. ASSUME val' = val, trav' = trav
      PROVE  Scans(val', trav')
  BY <1>a
<1>b. ASSUME trav' = NoTraversal
      PROVE  Scans(val', trav')
  <2>1. PICK tr : tr = NoTraversal
    OBVIOUS
  <2>2. tr.kind = None /\ tr.cursor = 0
    BY <2>1 DEF NoTraversal
  <2>3. Scans(val', tr)
    BY <1>0, <2>2, OtherScans, TwoFacts
  <2>4. QED
    BY <1>b, <2>1, <2>3
<1>1. ASSUME NEW k \in Keys, NEW v \in Vals,
             Add(k, v) \/ Replace(k, v) \/ ReplaceRaw(k, v)
      PROVE  Scans(val', trav')
  <2>1. trav' = trav /\ (val' = val \/ val' = [val EXCEPT ![k] = v])
    BY <1>1 DEF Add, Replace, ReplaceRaw
  <2>2. \A j \in Keys : val[j] # None => val'[j] # None
    BY <2>1, ValsAssumption DEF Kept, Keeps
  <2>3. Scans(val', trav)
    BY <2>2, GrowScans
  <2>4. QED
    BY <2>1, <2>3
<1>2. ASSUME NEW k \in Keys, Delete(k)
      PROVE  Scans(val', trav')
  BY <1>2, DeleteScans
<1>3. CASE Find \/ GetRandomKey \/ Resize
  BY <1>3, <1>a DEF Find, GetRandomKey, Resize, Moving
<1>4. CASE Empty
  <2>1. PICK tr : tr = [trav EXCEPT !.must = {}, !.seen = {}]
    OBVIOUS
  <2>2. tr.kind = trav.kind /\ tr.cursor = trav.cursor /\ tr.must = {}
    BY <2>1 DEF Fields
  <2>3. Scans(val', tr)
    BY <2>2 DEF Scans
  <2>4. QED
    BY <1>4, <2>1, <2>3 DEF Empty
<1>5. CASE \/ \E n \in Sizes : Expand(n)
           \/ \E n \in Steps : Rehash(n)
           \/ \E b \in BOOLEAN : SetResize(b)
  BY <1>5, <1>a DEF Expand, Rehash, SetResize, Moving
<1>6. ASSUME NEW kind \in {"safe", "unsafe"}, GetIterator(kind)
      PROVE  Scans(val', trav')
  <2>1. PICK tr : tr = [NoTraversal EXCEPT !.kind = kind]
    OBVIOUS
  <2>2. tr.kind = kind /\ tr.cursor = 0
    BY <2>1 DEF NoTraversal
  <2>3. Scans(val', tr)
    BY <1>0, <2>2, OtherScans, TwoFacts
  <2>4. QED
    BY <1>6, <2>1, <2>3 DEF GetIterator
<1>7. CASE NextEntry
  <2>1. PICK tr : tr = trav'
    OBVIOUS
  <2>2. tr.kind = trav.kind /\ tr.cursor = trav.cursor /\ trav.kind \in {"safe", "unsafe"}
    BY <1>7, <2>1 DEF NextEntry, Return, Fields
  <2>3. Scans(val', tr)
    BY <1>0, <2>2, OtherScans DEF Scans
  <2>4. QED
    BY <2>1, <2>3
<1>8. CASE ReleaseIterator \/ EndScan
  BY <1>8, <1>b DEF ReleaseIterator, EndScan
<1>9. CASE Scan
  BY <1>9, ScanScans
<1>10. CASE UNCHANGED vars
  BY <1>10, <1>a DEF vars
<1>11. QED
  BY <1>1, <1>2, <1>3, <1>4, <1>5, <1>6, <1>7, <1>8, <1>9, <1>10 DEF Next

-----------------------------------------------------------------------------

(* The invariant: what Sound says of the tables, what the calls left in    *)
(* them, the place of the iterator between the returned entries and the    *)
(* others, and that of the cursor of a scan.                               *)
Intact ==
  /\ Kept
  /\ Runs(d, trav, fault)
  /\ Scans(val, trav)
  /\ dict_can_resize \in BOOLEAN /\ fault \in BOOLEAN

(* Sound tables, a sound iterator and a sound scan, in every run.          *)
LEMMA SpecIntact == Spec => []Intact
<1>1. ASSUME Init
      PROVE  Intact
  <2>1. PICK tr : tr = NoTraversal
    OBVIOUS
  <2>2. tr.kind = None /\ tr.cursor = 0
    BY <2>1 DEF NoTraversal
  <2>3. Scans(val, tr)
    BY <2>2, OtherScans, TwoFacts DEF None
  <2>4. trav = tr /\ dict_can_resize = TRUE /\ fault = FALSE
    BY <1>1, <2>1 DEF Init
  <2>5. QED
    BY <1>1, <2>3, <2>4, InitKept, InitRuns DEF Intact
<1>2. Intact /\ [Next]_vars => Intact'
  <2>1. SUFFICES ASSUME Intact, [Next]_vars
                 PROVE  Intact'
    OBVIOUS
  <2>2. Kept' /\ Runs(d', trav', fault')
    BY <2>1, NextKept, NextRuns DEF Intact
  <2>3. Scans(val', trav')
    BY <2>1, NextScans DEF Intact, Runs
  <2>4. dict_can_resize' \in BOOLEAN /\ fault' \in BOOLEAN
    BY <2>1 DEF Intact, Next, vars, Add, Replace, ReplaceRaw, Delete, Find, GetRandomKey,
         Empty, Resize, Expand, Rehash, Moving, SetResize, GetIterator, NextEntry,
         ReleaseIterator, Scan, EndScan
  <2>5. QED
    BY <2>2, <2>3, <2>4 DEF Intact
<1>3. QED
  BY <1>1, <1>2, PTL DEF Spec

(* Table sizes stay powers of two, which the masks rely on, ht[1] exists   *)
(* exactly while the dict is rehashing, and the count of safe iterators    *)
(* never goes below 0.                                                     *)
THEOREM SpecTypeOK == Spec => []TypeOK
<1>1. ASSUME Intact
      PROVE  TypeOK
  <2>0. Sound(d) /\ Runs(d, trav, fault)
    BY <1>1 DEF Intact, Kept, Keeps
  <2>1. ASSUME NEW i \in {0, 1}
        PROVE  IsTable(d.ht[i])
    <3>1. Shaped(d.ht[i]) /\ d.ht[i].used = Cardinality(Chained(d.ht[i]))
      BY <2>0 DEF Sound, Good
    <3>2. d.ht[i].used \in 0 .. Cardinality(Keys)
      BY <3>1, ChainedKeys, KeysAssumption, FS_CardinalityType
    <3>3. QED
      BY <3>1, <3>2 DEF Shaped, IsTable
  <2>2. d.iterators \in {0, 1}
    BY <2>0 DEF Runs
  <2>3. /\ d.rehashidx \in -1 .. d.ht[0].size
        /\ dictIsRehashing(d) <=> d.ht[1].size # 0
    BY <2>0 DEF Sound
  <2>4. /\ val \in [Keys -> Vals \cup {None}]
        /\ dict_can_resize \in BOOLEAN /\ fault \in BOOLEAN
    BY <1>1 DEF Intact, Kept, Keeps
  <2>5. trav.next \in Keys \cup {None, Dangling} /\ trav.cursor \in 0 .. Word - 1
    BY <1>1, <2>0 DEF Intact, Runs, Scans
  <2>6. QED
    BY <2>1, <2>2, <2>3, <2>4, <2>5 DEF TypeOK
<1>2. QED
  BY <1>1, SpecIntact, PTL

(* A safe iterator follows a freed entry only if the caller deleted an     *)
(* entry other than the one it got last.                                   *)
THEOREM SpecFaultNeedsStrayDelete == Spec => []FaultNeedsStrayDelete
<1>1. Intact => FaultNeedsStrayDelete
  BY DEF Intact, Runs, FaultNeedsStrayDelete
<1>2. QED
  BY <1>1, SpecIntact, PTL

(* However the calls that a safe iterator allows change the tables, no     *)
(* entry is returned twice, and an iteration that came to its end returned *)
(* every entry that was there from its start to its end.                   *)
THEOREM SpecIteratorExact == Spec => []IteratorExact
<1>1. Intact => IteratorExact
  BY DEF Intact, Runs, Iterates, IteratorExact
<1>2. QED
  BY <1>1, SpecIntact, PTL

(* Whatever the calls do to the tables between two calls of dictScan, a    *)
(* scan that is over returned every entry that was there from its start to *)
(* its end, unless one of its calls came with the cursor inside a bucket   *)
(* of a table at least four times smaller than the other one.              *)
THEOREM SpecScanComplete == Spec => []ScanCompleteUnlessAstride
<1>1. Intact => ScanCompleteUnlessAstride
  BY DEF Intact, Scans, ScanCompleteUnlessAstride
<1>2. QED
  BY <1>1, SpecIntact, PTL

(* The cursor of a scan moves strictly forward in the reversed order, for  *)
(* any word and any sizes: a scan ends after at most as many calls as      *)
(* there are cursors.                                                      *)
THEOREM SpecScanAdvances == Spec => ScanAdvances
<1>1. Intact /\ [Next]_vars
        => [Scan /\ ~trav'.over => rev(trav'.cursor) > rev(trav.cursor)]_vars
  <2>1. SUFFICES ASSUME Intact, Scan, ~trav'.over
                 PROVE  rev(trav'.cursor) > rev(trav.cursor)
    OBVIOUS
  <2>2. trav.cursor \in Nat
    BY <2>1, TwoFacts DEF Intact, Scans
  <2>3. QED
    BY <2>1, <2>2, CursorMoves DEF Intact, Runs
<1>2. QED
  BY <1>1, SpecIntact, PTL DEF Spec, ScanAdvances
=============================================================================
