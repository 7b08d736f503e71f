--------------------------------- MODULE Bits ---------------------------------
(* Unsigned machine words as the sets of the positions of their one bits,   *)
(* the least significant being 0; w is the width of the word.  And, or and  *)
(* the shift of a mask are then intersection, union and an image.           *)
EXTENDS Integers, Sequences

(* The word whose digits, most significant first, have d bits each.         *)
Word(digits, d) ==
  {i \in 0 .. d * Len(digits) - 1 :
     (digits[Len(digits) - i \div d] \div 2^(i % d)) % 2 = 1}

Xor(a, b) == (a \ b) \cup (b \ a)
Complement(a, w) == (0 .. w - 1) \ a
ShiftLeft(a, n, w) == {i + n : i \in a} \cap (0 .. w - 1)
ShiftRight(a, n) == {i - n : i \in {j \in a : j >= n}}
rol(a, n, w) == {(i + n) % w : i \in a}

(* Sum, difference and product modulo 2^w.                                  *)
RECURSIVE Plus(_, _, _)
Plus(a, b, w) ==
  IF b = {} THEN a ELSE Plus(Xor(a, b), ShiftLeft(a \cap b, 1, w), w)

Minus(a, b, w) == Plus(a, Plus(Complement(b, w), {0}, w), w)

RECURSIVE Times(_, _, _)
Times(a, b, w) ==
  IF b = {} THEN {}
  ELSE LET i == CHOOSE i \in b : TRUE
       IN  Plus(ShiftLeft(a, i, w), Times(a, b \ {i}, w), w)

(* base, to which op(_, first), ... op(_, last) were applied, or op with the *)
(* elements of a sequence.  (Binding s makes TLC evaluate each round before  *)
(* the next one.)                                                          *)
Loop(op(_, _), base, first, last) ==
  LET after[i \in first - 1 .. last] ==
        IF i < first THEN base
        ELSE CHOOSE r \in {op(s, i) : s \in {after[i - 1]}} : TRUE
  IN  after[last]

Over(op(_, _), base, seq) ==
  LET Element(s, i) == op(s, seq[i])
  IN  Loop(Element, base, 1, Len(seq))
=============================================================================
