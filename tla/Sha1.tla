--------------------------------- MODULE Sha1 ---------------------------------
(***************************************************************************)
(* sha1.c: the incremental interface (SHA1Init, SHA1Update, SHA1Final) over *)
(* a block function Transform(state, block), and SHA1Transform itself.  The *)
(* sizes are constants, so that the bookkeeping of buffer and count, which  *)
(* is where splitting the input may go wrong, is checked on small blocks;   *)
(* sha1.c has BlockBytes = 64, LengthBytes = 8 and Limb = 32.               *)
(* Operators with an underscore in their name are faulty variants.         *)
(***************************************************************************)
EXTENDS Bits

CONSTANTS BlockBytes,        \* bytes in a block
          LengthBytes,       \* bytes of the length that ends the last block
          Limb,              \* bits of count[0], and of count[1]
          State0,            \* the initial state
          Transform(_, _)    \* the block function

Stale == 0   \* what the buffer holds before it is filled

SHA1Init ==
  [state |-> State0, count |-> <<0, 0>>, buffer |-> [k \in 1 .. BlockBytes |-> Stale]]

(* memcpy(&buffer[j], data, Len(data))                                      *)
CopiedTo(buffer, j, data) ==
  SubSeq(buffer, 1, j) \o data \o SubSeq(buffer, j + Len(data) + 1, BlockBytes)

Counted_NoCarry(count, len) ==
  <<(count[1] + len * 8) % 2^Limb, (count[2] + len \div 2^(Limb - 3)) % 2^Limb>>

(* count is a number of bits in two words: adding len << 3 may carry, and  *)
(* the bits that len << 3 lost are added to the upper word.                *)
Counted(count, len) ==
  LET low == (count[1] + len * 8) % 2^Limb
      carry == IF low < count[1] THEN 1 ELSE 0
  IN  <<low, (count[2] + carry + len \div 2^(Limb - 3)) % 2^Limb>>

SHA1Update(context, data) ==
  LET len == Len(data)
      j == (context.count[1] \div 8) % BlockBytes
      first == BlockBytes - j
      whole == (len - first) \div BlockBytes   \* blocks taken straight from data
      filled == CopiedTo(context.buffer, j, SubSeq(data, 1, first))
      direct == [n \in 1 .. whole |->
                   SubSeq(data, first + (n - 1) * BlockBytes + 1, first + n * BlockBytes)]
      rest == SubSeq(data, first + whole * BlockBytes + 1, len)
      counted == [context EXCEPT !.count = Counted(@, len)]
  IN  IF j + len < BlockBytes
        THEN [counted EXCEPT !.buffer = CopiedTo(@, j, data)]
        ELSE [counted EXCEPT !.state = Over(Transform, Transform(@, filled), direct),
                             !.buffer = CopiedTo(filled, 0, rest)]

(* The bytes of n, most significant first (n is below 2^31 here).           *)
BigEndian(n, bytes) ==
  [k \in 1 .. bytes |-> LET low == 8 * (bytes - k)
                        IN  IF low > 30 THEN 0 ELSE (n \div 2^low) % 256]

finalcount(count) == BigEndian(count[2] * 2^Limb + count[1], LengthBytes)

RECURSIVE Padded(_)
Padded(context) ==
  IF context.count[1] % (8 * BlockBytes) = 8 * (BlockBytes - LengthBytes)
    THEN context
    ELSE Padded(SHA1Update(context, <<0>>))

(* The state from which the digest is read.                                 *)
SHA1Final(context) ==
  SHA1Update(Padded(SHA1Update(context, <<128>>)), finalcount(context.count)).state

-----------------------------------------------------------------------------
(* SHA1Transform, on words of 32 bits.                                      *)

(* 16 words of the block, each of the next 64 mixed from earlier ones.      *)
Expanded(block) ==
  LET blk0 == [i \in 1 .. 16 |-> Word(SubSeq(block, 4 * i - 3, 4 * i), 8)]
      blk(l, i) ==
        Append(l, rol(Xor(Xor(l[i - 3], l[i - 8]), Xor(l[i - 14], l[i - 16])), 1, 32))
      sixteen(l, n) == Loop(blk, l, 16 * n + 1, 16 * n + 16)
  IN  Loop(sixteen, <<>> \o blk0, 1, 4)

Mixed(i, w, x, y) ==
  CASE i <= 20 -> Xor(w \cap Xor(x, y), y)
    [] i \in 41 .. 60 -> ((w \cup x) \cap y) \cup (w \cap x)
    [] OTHER -> Xor(Xor(w, x), y)

RoundConstant(i) ==
  Word(CASE i <= 20 -> <<\h5A82, \h7999>>
         [] i \in 21 .. 40 -> <<\h6ED9, \hEBA1>>
         [] i \in 41 .. 60 -> <<\h8F1B, \hBCDC>>
         [] OTHER -> <<\hCA62, \hC1D6>>, 16)

Add(a, b) == Plus(a, b, 32)

(* Four rounds of twenty operations; the roles of the five variables rotate *)
(* from one operation to the next.                                         *)
Rounds(state, l) ==
  LET R(s, i) ==
        <<Add(Add(s[5], Mixed(i, s[2], s[3], s[4])),
              Add(Add(l[i], RoundConstant(i)), rol(s[1], 5, 32))),
          s[1], rol(s[2], 30, 32), s[3], s[4]>>
      twenty(s, n) == Loop(R, s, 20 * n + 1, 20 * n + 20)
  IN  Loop(twenty, state, 0, 3)

(* (Binding s and l makes TLC evaluate them first.)                         *)
SHA1Transform(state, block) ==
  LET Added(s, r) == [k \in 1 .. 5 |-> Add(s[k], r[k])]
  IN  CHOOSE t \in {Added(s, Rounds(s, l)) : s \in {state}, l \in {Expanded(block)}} : TRUE

SHA1State0 ==
  <<Word(<<\h6745, \h2301>>, 16), Word(<<\hEFCD, \hAB89>>, 16), Word(<<\h98BA, \hDCFE>>, 16),
    Word(<<\h1032, \h5476>>, 16), Word(<<\hC3D2, \hE1F0>>, 16)>>

-----------------------------------------------------------------------------
(* Whatever calls of SHA1Update brought the context there, SHA1Final hashes *)
(* the blocks that the standard defines for the whole message: the message, *)
(* a one bit, zeros up to the end of a block and the length in bits.        *)
PaddedMessage(message) ==
  LET n == Len(message) + 1 + LengthBytes
      zeros == [k \in 1 .. (-n) % BlockBytes |-> 0]
  IN  message \o <<128>> \o zeros \o BigEndian(8 * Len(message), LengthBytes)

Reference(message) ==
  LET padded == PaddedMessage(message)
  IN  Over(Transform, State0,
           [n \in 1 .. Len(padded) \div BlockBytes |->
              SubSeq(padded, (n - 1) * BlockBytes + 1, n * BlockBytes)])

AnySplit(context, message) == SHA1Final(context) = Reference(message)
=============================================================================
