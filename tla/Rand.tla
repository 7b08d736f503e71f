--------------------------------- MODULE Rand ---------------------------------
(* rand.c: the generator of drand48, whose state is a number in three limbs *)
(* of N bits.  The multiplication is done limb by limb, with the carries    *)
(* computed before each sum is cut to its limb.  rand.c has N = 16; the     *)
(* multiplier A, the addend C and the start X0 are its constants, cut to    *)
(* the limbs of the instance.                                               *)
(* Operators with an underscore in their name are faulty variants.         *)
EXTENDS Integers

CONSTANTS N, A, C   \* A = <<A0, A1, A2>>

VARIABLE x          \* <<x[0], x[1], x[2]>>

LOW(n) == n % 2^N
HIGH(n) == LOW(n \div 2^N)
CARRY(m, n) == IF m + n >= 2^N THEN 1 ELSE 0

next_CarryOnce ==
  LET p0 == LOW(A[1] * x[1]) + C
      p1 == HIGH(A[1] * x[1]) + CARRY(LOW(A[1] * x[1]), C)
      q == A[1] * x[2]
      r == A[2] * x[1]
  IN  <<LOW(p0), LOW(p1 + LOW(q) + LOW(r)),
        LOW(CARRY(LOW(p1), LOW(q)) + HIGH(q) + HIGH(r)
            + A[1] * x[3] + A[2] * x[2] + A[3] * x[1])>>

(* MUL, ADDEQU and CARRY in the order of the code: p[1] takes the carry of  *)
(* p[0], then the low limb of q, then that of r.                            *)
next ==
  LET p == A[1] * x[1]
      q == A[1] * x[2]
      r == A[2] * x[1]
      p1 == LOW(HIGH(p) + CARRY(LOW(p), C))
      carry1 == CARRY(HIGH(p), CARRY(LOW(p), C))
      p1q == LOW(p1 + LOW(q))
  IN  <<LOW(LOW(p) + C), LOW(p1q + LOW(r)),
        LOW(CARRY(p1, LOW(q)) + carry1 + CARRY(p1q, LOW(r)) + HIGH(q) + HIGH(r)
            + A[1] * x[3] + A[2] * x[2] + A[3] * x[1])>>

(* redisSrand48, for a seed below 2^(2N), and what redisLrand48 returns.    *)
redisSrand48(x0, seedval) == <<x0, LOW(seedval), HIGH(seedval)>>
Returned == x[3] * 2^(N - 1) + x[2] \div 2
redisLrand48 == x' = next

-----------------------------------------------------------------------------
(* One step multiplies by A and adds C, modulo 2^(3N), and the number       *)
(* returned is the upper 2N - 1 bits of the state.                          *)
Number(limbs) == (limbs[3] * 2^N + limbs[2]) * 2^N + limbs[1]

Congruential ==
  /\ Number(next) = (Number(A) * Number(x) + C) % 2^(3 * N)
  /\ Returned = Number(x) \div 2^(N + 1)
=============================================================================
