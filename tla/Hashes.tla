-------------------------------- MODULE Hashes --------------------------------
(* The small bit-mixing functions: crc64.c, xhash.c, the byte swapping of   *)
(* htonll.h and the hash functions of dict.c, on words as sets of bits.     *)
(* Operators with an underscore in their name are faulty variants.         *)
EXTENDS Bits, SequencesExt, FiniteSets

ByteWord(b) == Word(<<b>>, 8)

(* The polynomial ad93d23594c935a9 with its bits in reverse order.          *)
Poly == {63 - i : i \in Word(<<\hAD93, \hD235, \h94C9, \h35A9>>, 16)}

(* One bit of the division.                                                 *)
Step(crc) == IF 0 \in crc THEN Xor(ShiftRight(crc, 1), Poly) ELSE ShiftRight(crc, 1)

(* The literal entries of the table are eight such steps from their index.  *)
crc64_tab(byte) == Loop(LAMBDA crc, i : Step(crc), byte, 1, 8)

NextCrc_NoShift(crc, byte) ==
  Xor(crc64_tab(Xor(crc \cap (0 .. 7), ByteWord(byte))), crc)

NextCrc(crc, byte) ==
  Xor(crc64_tab(Xor(crc \cap (0 .. 7), ByteWord(byte))), ShiftRight(crc, 8))

crc64(crc, s) == Over(NextCrc, crc, s)

-----------------------------------------------------------------------------
(* xhash.c.  BITS_PER_LONG is 64 for x86-64 and 32 for every other          *)
(* processor; w is the width of unsigned long.                             *)
GOLDEN_RATIO_PRIME(BITS_PER_LONG) ==
  IF BITS_PER_LONG = 32 THEN Word(<<\h9E37, \h0001>>, 16)
                        ELSE Word(<<\h9E37, \hFFFF, \hFFFC, \h0001>>, 16)

(* val, and the terms val * 2^n, added and subtracted.                      *)
Shifted(val, terms, w) ==
  LET Term(hash, t) == IF t[2] = "+" THEN Plus(hash, ShiftLeft(val, t[1], w), w)
                                     ELSE Minus(hash, ShiftLeft(val, t[1], w), w)
  IN  Over(Term, val, terms)

(* n is shifted on from one term to the next, 18, 51, 54, 57, 61 and 63     *)
(* bits in all; without the 64 bits of x86-64, a plain product.            *)
hash_long(val, bits, BITS_PER_LONG, w) ==
  LET hash == IF BITS_PER_LONG = 64
                THEN Shifted(val, <<<<18, "-">>, <<51, "-">>, <<54, "+">>,
                                    <<57, "-">>, <<61, "+">>, <<63, "+">>>>, w)
                ELSE Times(val, GOLDEN_RATIO_PRIME(BITS_PER_LONG), w)
  IN  ShiftRight(hash, BITS_PER_LONG - bits)

-----------------------------------------------------------------------------
(* htonll.h: every byte is masked, shifted to its place, and or-ed in.      *)
Byte(x, k) == x \cap (8 * k .. 8 * k + 7)

bswap_16(x) == ShiftLeft(Byte(x, 0), 8, 16) \cup ShiftRight(Byte(x, 1), 8)

bswap_32(x) ==
  ShiftLeft(Byte(x, 0), 24, 32) \cup ShiftLeft(Byte(x, 1), 8, 32)
    \cup ShiftRight(Byte(x, 2), 8) \cup ShiftRight(Byte(x, 3), 24)

bswap_64(x) ==
  ShiftLeft(Byte(x, 0), 56, 64) \cup ShiftLeft(Byte(x, 1), 40, 64)
    \cup ShiftLeft(Byte(x, 2), 24, 64) \cup ShiftLeft(Byte(x, 3), 8, 64)
    \cup ShiftRight(Byte(x, 4), 8) \cup ShiftRight(Byte(x, 5), 24)
    \cup ShiftRight(Byte(x, 6), 40) \cup ShiftRight(Byte(x, 7), 56)

-----------------------------------------------------------------------------
tolower(c) == IF c \in 65 .. 90 THEN c + 32 ELSE c

(* hash * 33 + tolower(c), from the seed.                                   *)
dictGenCaseHashFunction(seed, buf) ==
  LET Times33(hash, c) ==
        Plus(Plus(ShiftLeft(hash, 5, 32), hash, 32), ByteWord(tolower(c)), 32)
  IN  Over(Times33, seed, buf)

-----------------------------------------------------------------------------
Plus32(a, b) == Plus(a, b, 32)

(* Thomas Wang's 32-bit mix.                                                *)
dictIntHashFunction(key) ==
  LET AddNot(k, n) == Plus32(k, Complement(ShiftLeft(k, n, 32), 32))
      XorDown(k, n) == Xor(k, ShiftRight(k, n))
      a == XorDown(AddNot(key, 15), 10)
      b == XorDown(Plus32(a, ShiftLeft(a, 3, 32)), 6)
  IN  XorDown(AddNot(b, 11), 16)

(* MurmurHash2: whole blocks of four bytes, least significant first, then   *)
(* what is left, then a final mix.                                         *)
MurmurM == Word(<<\h5BD1, \hE995>>, 16)

dictGenHashFunction(seed, key) ==
  LET whole == Len(key) \div 4
      rest == SubSeq(key, 4 * whole + 1, Len(key))
      MulM(a) == Times(a, MurmurM, 32)
      Little(bytes) == Word(Reverse(bytes), 8)
      Block(h, i) ==
        LET k == MulM(Little(SubSeq(key, 4 * i - 3, 4 * i)))
        IN  Xor(MulM(h), MulM(Xor(k, ShiftRight(k, 24))))
      blocks == Loop(Block, Xor(seed, Word(<<Len(key)>>, 16)), 1, whole)
      all == IF rest = <<>> THEN blocks ELSE MulM(Xor(blocks, Little(rest)))
      mixed == MulM(Xor(all, ShiftRight(all, 13)))
  IN  Xor(mixed, ShiftRight(mixed, 15))

-----------------------------------------------------------------------------
(* Bit by bit, the message (and the initial crc) is divided by the          *)
(* polynomial: crc64 may take any byte after any other through its table.   *)
Crc64Divides(s) ==
  LET PerBit(crc, b) ==
        LET In(c, i) == Step(Xor(c, IF i \in ByteWord(b) THEN {0} ELSE {}))
        IN  Over(In, crc, <<0, 1, 2, 3, 4, 5, 6, 7>>)
  IN  crc64({}, s) = Over(PerBit, {}, s)

(* The check value that crc64.c states at its head for "123456789".         *)
Crc64Check ==
  crc64({}, <<49, 50, 51, 52, 53, 54, 55, 56, 57>>)
    = Word(<<\hE9C6, \hD914, \hC4B8, \hD9CA>>, 16)

(* Both primes are the sums of powers that xhash.c:26 and 29 state.         *)
PrimesAsStated ==
  /\ GOLDEN_RATIO_PRIME(32) = Shifted({0}, <<<<31, "+">>, <<29, "+">>, <<25, "-">>,
                                             <<22, "+">>, <<19, "-">>, <<16, "-">>>>, 32)
  /\ GOLDEN_RATIO_PRIME(64) = Shifted({0}, <<<<63, "+">>, <<61, "+">>, <<57, "-">>,
                                             <<54, "+">>, <<51, "-">>, <<18, "-">>>>, 64)

(* Either branch of hash_long gives the highest bits of the product with    *)
(* its prime, on processors whose longs have BITS_PER_LONG bits: shown for  *)
(* the powers of two, on which both sides depend additively.  Where longs   *)
(* are wider (64 bits, not x86-64), up to 32 more bits come with them.      *)
HashLongMultiplies ==
  /\ \A k \in 0 .. 63 : \A bits \in {1, 32, 64} :
       hash_long({k}, bits, 64, 64)
         = ShiftRight(Times({k}, GOLDEN_RATIO_PRIME(64), 64), 64 - bits)
  /\ \A k \in 0 .. 31 : \A bits \in {1, 16, 32} :
       hash_long({k}, bits, 32, 32)
         = hash_long({k}, bits, 32, 64) \cap (0 .. bits - 1)

(* Swapping reverses the bytes: every bit by itself, of each width, and the *)
(* strings of 2 and 4 bytes, which are also the halves of words of 8.       *)
Reverses(swap(_), s) == swap(Word(s, 8)) = Word(Reverse(s), 8)

EachBit(swap(_), n) ==
  \A k \in 1 .. n, i \in 0 .. 7 :
    Reverses(swap, [j \in 1 .. n |-> IF j = k THEN 2^i ELSE 0])

SwapsEachBit == EachBit(bswap_16, 2) /\ EachBit(bswap_32, 4) /\ EachBit(bswap_64, 8)

SwapReverses(s) ==
  /\ Len(s) = 2 => Reverses(bswap_16, s)
  /\ Len(s) = 4 =>
       /\ Reverses(bswap_32, s)
       /\ \A half \in {s, [k \in 1 .. 4 |-> 255 - s[k]]} : Reverses(bswap_64, s \o half)

(* Strings that differ in case only have the same hash.                     *)
Seed == Word(<<5381>>, 16)
CaseIgnored(s) ==
  dictGenCaseHashFunction(Seed, s)
    = dictGenCaseHashFunction(Seed, [k \in 1 .. Len(s) |-> tolower(s[k])])

(* Every step of the two mixes can be undone, so no two integers, and no    *)
(* two strings of the same length of up to four bytes, have the same hash:  *)
(* shown for the integers with at most two one bits.                       *)
NoCollisions(bytes) ==
  /\ Cardinality({dictIntHashFunction({i, j}) : i, j \in 0 .. 31}) = 32 + (32 * 31) \div 2
  /\ \A n \in 1 .. 4 :
       LET hashes == {dictGenHashFunction(Seed, s) : s \in [1 .. n -> bytes]}
       IN  Cardinality(hashes) = Cardinality(bytes)^n
=============================================================================
