-------------------------------- MODULE Words --------------------------------
(***************************************************************************)
(* The types of C the compiler knows, and what their values are: words of  *)
(* few bits for the integers and pointers, and floating-point numbers of a *)
(* short mantissa.  A word is kept as the number its bits spell; types say *)
(* how to read it.                                                         *)
(***************************************************************************)
EXTENDS Integers

CONSTANTS
  IntBits,     \* 32
  LongBits,    \* 64
  Mantissa     \* 53

\* What the conversions rely on: every int is a double, and halving a long
\* leaves two bits that the mantissa does not hold.
ASSUME WordSizes ==
  /\ {IntBits, LongBits, Mantissa} \subseteq Nat \ {0}
  /\ LongBits = 2 * IntBits
  /\ Mantissa >= IntBits
  /\ LongBits - 1 >= Mantissa + 2

Scalar(kind) == [kind |-> kind]
PointerTo(type) == [kind |-> "pointer", to |-> type]
ArrayOf(type, n) == [kind |-> "array", of |-> type, size |-> n]

CTYPE_INT == Scalar("int")
CTYPE_UINT == Scalar("uint")
CTYPE_LONG == Scalar("long")
CTYPE_ULONG == Scalar("ulong")
CTYPE_DOUBLE == Scalar("double")

isDouble(type) == type.kind = "double"
isPointer(type) == type.kind = "pointer"
isInteger(type) == type.kind \in {"int", "uint", "long", "ulong"}

isSignedType(type) == type.kind \in {"int", "long"}

(***************************************************************************)
(* Words.                                                                  *)
(***************************************************************************)
Bits(type) == IF type.kind \in {"int", "uint"} THEN IntBits ELSE LongBits

Wrap(n, bits) == n % 2^bits
Signed(w, bits) == IF w >= 2^(bits - 1) THEN w - 2^bits ELSE w

\* The number a word of a type stands for, and the word for a number.
Number(type, w) == IF isSignedType(type) THEN Signed(w, Bits(type)) ELSE w
Word(type, n) == Wrap(n, Bits(type))

\* Division of C and of the processor: towards zero.
Magnitude(n) == IF n < 0 THEN -n ELSE n
Sign(n) == IF n < 0 THEN -1 ELSE 1
Quotient(m, n) == Sign(m) * Sign(n) * (Magnitude(m) \div Magnitude(n))
Rest(m, n) == m - n * Quotient(m, n)

OneBit(op, x, y) ==
  CASE op = "bit and" -> x * y
    [] op = "bit or" -> x + y - x * y
    [] op = "bit xor" -> (x + y) % 2

\* Bit by bit, from the lowest.
BitOp(op, v, w) ==
  LET lowest[n \in 0..LongBits] ==
        IF n = 0 THEN 0
        ELSE LET place == 2^(n - 1) IN
             lowest[n - 1] + place * OneBit(op, (v \div place) % 2, (w \div place) % 2)
  IN lowest[LongBits]

(***************************************************************************)
(* Doubles: a sign and a number of halves; there is no infinity.           *)
(***************************************************************************)
Dbl(neg, half) == [neg |-> neg, half |-> half]
NaN == Dbl(FALSE, -1)
IsNaN(d) == d = NaN
Zero == Dbl(FALSE, 0)
Halves(d) == IF d.neg THEN -d.half ELSE d.half

\* To the nearest number of Mantissa bits, to the even one of two.
Nearest(n, step) ==
  LET below == n - (n % step) IN
  IF 2 * (n % step) < step \/ (2 * (n % step) = step /\ (below \div step) % 2 = 0)
  THEN below ELSE below + step

RoundNat(n) ==
  Nearest(n, 2^(CHOOSE e \in 0..(2 * LongBits + 1) :
                  /\ n < 2^(Mantissa + e)
                  /\ e > 0 => n >= 2^(Mantissa + e - 1)))

Rounded(n) == Dbl(n < 0, RoundNat(Magnitude(n)))
FromNumber(n) == Rounded(2 * n)
Negated(d) == IF IsNaN(d) THEN d ELSE Dbl(~d.neg, d.half)

DoubleSum(d, e) ==
  LET n == Halves(d) + Halves(e) IN
  IF n = 0 THEN Dbl(d.neg /\ e.neg, 0) ELSE Rounded(n)

\* A division by zero comes back as no number: the model has no infinity.
DoubleOp(op, d, e) ==
  IF IsNaN(d) \/ IsNaN(e) THEN NaN
  ELSE CASE op = "add" -> DoubleSum(d, e)
         [] op = "subtract" -> DoubleSum(d, Negated(e))
         [] op = "multiply" ->
              Dbl(d.neg # e.neg, RoundNat((d.half * e.half) \div 2))
         [] op = "divide" ->
              IF e.half = 0 THEN NaN
              ELSE Dbl(d.neg # e.neg, RoundNat((2 * d.half) \div e.half))

\* What is left of a double without its fraction.
Truncated(d) == IF d.neg THEN -(d.half \div 2) ELSE d.half \div 2

Compare(op, m, n) ==
  CASE op = "equals" -> m = n
    [] op = "not equals" -> m # n
    [] op = "less" -> m < n
    [] op = "less equal" -> m <= n
    [] op = "greater" -> m > n
    [] op = "greater equal" -> m >= n

isRelationBinaryOp ==
  {"equals", "not equals", "less", "less equal", "greater", "greater equal"}

Truth(b) == IF b THEN 1 ELSE 0
==============================================================================
