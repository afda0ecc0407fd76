------------------------------- MODULE Words -------------------------------
(***************************************************************************)
(* Words of the H8, as the hand-written routines use them: unsigned        *)
(* numbers of 8, 16 and 24 bits, read as signed where the code tests N.    *)
(***************************************************************************)
EXTENDS Integers

Bit8  == 256
Bit16 == 65536
Bit24 == 16777216
Top   == Bit16 - 1

Word == 0 .. Top
Positive == 0 .. Top \div 2

(* What w means to a branch on N.                                          *)
Signed(w) == IF w < 32768 THEN w ELSE w - Bit16
Signed24(x) == LET w == x % Bit24 IN IF w < 8388608 THEN w ELSE w - Bit24

Smaller(a, b) == IF a < b THEN a ELSE b
Larger(a, b) == IF a < b THEN b ELSE a
Floor0(x) == Larger(x, 0)
Magnitude(x) == IF x < 0 THEN -x ELSE x
WithSign(negative, x) == IF negative THEN -x ELSE x

(* MULXU: the upper word of the product.  Both halves of a are multiplied  *)
(* by themselves, so that no number needs more than 31 bits.               *)
High(a, b) == ((a \div Bit8) * b + ((a % Bit8) * b) \div Bit8) \div Bit8

(* DIVXU of d * 2^16 by q, d < q, or else V is set.                        *)
Fraction(d, q) ==
  LET upper == (d * Bit8) \div q
  IN upper * Bit8 + (((d * Bit8) % q) * Bit8) \div q
=============================================================================
