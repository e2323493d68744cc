------------------------------- MODULE BitSets -------------------------------
(***************************************************************************)
(* Words of 64 bits at their full width.  A word is the set of the         *)
(* positions of its ones, so that the bit operations are set operations.   *)
(* The words here come from no piece of the code: they are what its        *)
(* uint64_t and its shifts mean.                                           *)
(***************************************************************************)
EXTENDS Integers

LOCAL INSTANCE FiniteSetsExt

Positions == 0..63

\* A natural below 2^31, a small integer, and back from a small set.
Bits(n) == {b \in 0..30 : (n \div 2 ^ b) % 2 = 1}
Complement(a) == Positions \ a
Number(n) == IF n >= 0 THEN Bits(n) ELSE Complement(Bits(-(n + 1)))
Value(a) == MapThenSumSet(LAMBDA b : 2 ^ b, a)

\* The field of the size at the position, and a field put there.
Field(a, at, size) == {b - at : b \in a \cap at..(at + size - 1)}
Place(a, at, size) == {b + at : b \in a \cap 0..(size - 1)}
Extend(a, size) == LET u == Field(a, 0, size)
                   IN  IF size - 1 \in u THEN u \cup size..63 ELSE u

Xor(a, b) == (a \ b) \cup (b \ a)
ShiftLeft(a, n) == Place(a, n, 64 - n)
ShiftRight(a, n) == Field(a, n, 64 - n)
ShiftSigned(a, n) == Extend(ShiftRight(a, n), 64 - n)

\* Adding without carries, then the carries, until none is left.
RECURSIVE Add(_, _)
Add(a, b) == IF b = {} THEN a ELSE Add(Xor(a, b), ShiftLeft(a \cap b, 1))
Minus(a) == Add(Complement(a), {0})
Subtract(a, b) == Add(a, Minus(b))

Below(a, b) == LET differ == Xor(a, b) IN differ # {} /\ Max(differ) \in b
BelowSigned(a, b) == Below(Xor(a, {63}), Xor(b, {63}))
=============================================================================
