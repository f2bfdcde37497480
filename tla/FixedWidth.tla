----------------------------- MODULE FixedWidth -----------------------------
(***************************************************************************)
(* The unsigned machine integers the programs compute with, and the two    *)
(* pieces of arithmetic both market makers share: a product divided in     *)
(* u128 and cast back to u64, and the integer square root.                 *)
(***************************************************************************)
EXTENDS Integers

CONSTANT MaxU64   \* the largest u64, 2^64 - 1 in the programs

ASSUME MaxU64Assumption == MaxU64 \in Nat \ {0}

U64 == 0 .. MaxU64

MaxU128 == (MaxU64 + 1) * (MaxU64 + 1) - 1

\* `n as u64': the cast keeps the low bits.
AsU64(n) == n % (MaxU64 + 1)

\* (a as u128 * b as u128 / c as u128) as u64.  The product of two u64s fits
\* u128; a zero divisor is an error of the caller, who guards against it.
MulDiv(a, b, c) == AsU64((a * b) \div c)

\* Newton's method from above; the programs return 0 for 0 before the loop.
IntegerSqrt(n) ==
  LET newton[x \in Nat \ {0}] ==
        LET y == (x + n \div x) \div 2
        IN  IF y < x THEN newton[y] ELSE x
  IN  IF n = 0 THEN 0 ELSE newton[n]

=============================================================================
