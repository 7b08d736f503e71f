------------------------------- MODULE MCSupport -------------------------------
(* The pure algorithms of util/, one kind per behaviour: SHA-1 fed chunk by *)
(* chunk on blocks of 4 bytes, the random generator on limbs of 4 bits, and *)
(* everything that takes a string, on strings grown byte by byte.           *)
EXTENDS Integers, Sequences

CONSTANTS MaxFed,     \* bytes fed to SHA-1
          MaxChunk,   \* bytes per call of SHA1Update
          MaxString   \* bytes of a string

VARIABLES part, context, fed, x, string

vars == <<part, context, fed, x, string>>

(* A block function that remembers its blocks.                              *)
Recorded(state, block) == Append(state, block)

Small == INSTANCE Sha1 WITH BlockBytes <- 4, LengthBytes <- 2, Limb <- 5,
                            State0 <- <<>>, Transform <- Recorded

(* The real sizes; Limb is 16, which suffices for messages below 8 kB.      *)
B == INSTANCE Bits
Real == INSTANCE Sha1 WITH BlockBytes <- 64, LengthBytes <- 8, Limb <- 16,
                           State0 <- Small!SHA1State0, Transform <- Small!SHA1Transform

H == INSTANCE Hashes
Text == INSTANCE Base64
R == INSTANCE Rand WITH N <- 4, A <- <<13, 12, 5>>, C <- 11

(* '=', 'B', 'b', '_' and two bytes outside of every alphabet.              *)
StringBytes == {0, 61, 66, 98, 95, 255}

Message(n) == [k \in 1 .. n |-> k]

Init ==
  /\ part \in {"sha1", "rand", "string"}
  /\ context = Small!SHA1Init /\ fed = 0
  /\ x = R!redisSrand48(14, 13 + 4 * 16)
  /\ string = <<>>

Update(len) ==
  /\ part = "sha1" /\ fed + len <= MaxFed
  /\ context' = Small!SHA1Update(context, [k \in 1 .. len |-> fed + k])
  /\ fed' = fed + len
  /\ UNCHANGED <<part, x, string>>

Draw == part = "rand" /\ R!redisLrand48 /\ UNCHANGED <<part, context, fed, string>>

Grow(b) ==
  /\ part = "string" /\ Len(string) < MaxString
  /\ string' = Append(string, b)
  /\ UNCHANGED <<part, context, fed, x>>

Next ==
  \/ \E len \in 0 .. MaxChunk : Update(len)
  \/ Draw
  \/ \E b \in StringBytes : Grow(b)

Spec == Init /\ [][Next]_vars

-----------------------------------------------------------------------------
(* Two of the three test vectors quoted at the head of sha1.c: "abc", and   *)
(* 56 letters whose padding takes a second block.  (The third is a million  *)
(* times "a", too many blocks for TLC.)                                    *)
Digest(message) == Real!SHA1Final(Real!SHA1Update(Real!SHA1Init, message))

Abc == <<97, 98, 99>>
Letters56 == [k \in 1 .. 56 |-> 97 + ((k - 1) \div 4) + ((k - 1) % 4)]

Sha1Vectors ==
  /\ Digest(Abc) = <<B!Word(<<\hA999, \h3E36>>, 16), B!Word(<<\h4706, \h816A>>, 16),
                     B!Word(<<\hBA3E, \h2571>>, 16), B!Word(<<\h7850, \hC26C>>, 16),
                     B!Word(<<\h9CD0, \hD89D>>, 16)>>
  /\ Digest(Letters56) = <<B!Word(<<\h8498, \h3E44>>, 16), B!Word(<<\h1C3B, \hD26E>>, 16),
                           B!Word(<<\hBAAE, \h4AA1>>, 16), B!Word(<<\hF951, \h29E5>>, 16),
                           B!Word(<<\hE546, \h70F1>>, 16)>>

(* SHA-1 does not depend on how its input is split, and gives two of the    *)
(* digests that sha1.c quotes; crc64 is the division by its polynomial and gives    *)
(* the check value that crc64.c states.                                     *)
DigestsRight ==
  /\ part = "sha1" => Small!AnySplit(context, Message(fed)) /\ Sha1Vectors
  /\ part = "string" => H!Crc64Divides(string) /\ H!Crc64Check

(* base64 gives back what it encoded within the announced lengths, the      *)
(* masks and shifts of htonll.h reverse 2, 4 and 8 bytes, the               *)
(* case-insensitive hash ignores case, the other two of the dict map short  *)
(* keys apart, hash_long multiplies by the primes that xhash.c states and   *)
(* the generator is the congruential one.                                  *)
CodecsRight ==
  /\ part = "string" =>
       /\ Text!RoundTrip(string) /\ Text!DecodesOrRefuses(string)
       /\ H!SwapReverses(string) /\ H!CaseIgnored(string)
       /\ string = <<>> =>
            /\ H!PrimesAsStated /\ H!HashLongMultiplies
            /\ H!SwapsEachBit /\ H!NoCollisions(StringBytes)
  /\ part = "rand" => R!Congruential
=============================================================================
