-------------------------------- MODULE Words --------------------------------
(***************************************************************************)
(* Machine words in four widths.  A byte has Byte bits, and everything     *)
(* else that has a width in the code keeps its proportion to the byte.     *)
(***************************************************************************)
EXTENDS Integers

LOCAL INSTANCE Bitwise

CONSTANT Byte   \* the bits of a byte

ASSUME ByteAssumption == Byte \in Nat \ {0} /\ Byte % 2 = 0

Sizes == {1, 2, 4, 8}
Bits(size) == size * Byte
Word == 0..(2 ^ Bits(8) - 1)

\* The value a field of the size holds: unsigned, signed, and sign-extended.
Low(v, size) == v % 2 ^ Bits(size)
Wrap(v) == Low(v, 8)
Signed(v, size) == LET u == Low(v, size)
                   IN  IF 2 * u < 2 ^ Bits(size) THEN u ELSE u - 2 ^ Bits(size)
Fits(v, size) == v = Signed(v, size)

\* The low bytes of old replaced by those of v, or its second byte.
Merge(old, v, size) == old - Low(old, size) + Low(v, size)
SecondByte(v) == Low(v \div 2 ^ Byte, 1)
MergeSecond(old, v) == Merge(old, Low(v, 1) * 2 ^ Byte + Low(old, 1), 2)

BitAnd(a, b) == a & b
BitOr(a, b) == a | b
BitXor(a, b) == a ^^ b

\* The upper word of the product of two unsigned words; a division that rounds
\* towards zero.
HighProduct(a, b) ==
    LET half == 2 ^ Bits(4)
    IN  ((a \div half) * b + ((a % half) * b) \div half) \div half
Quotient(a, b) == LET q == (IF a < 0 THEN -a ELSE a) \div (IF b < 0 THEN -b ELSE b)
                  IN  IF (a < 0) = (b < 0) THEN q ELSE -q
Remainder(a, b) == a - b * Quotient(a, b)

Bool(b) == IF b THEN 1 ELSE 0

\* 1 if an even number of bits of the low byte are set.
EvenOnes(v) ==
    LET odd[n \in 0..Byte] == IF n = 0 THEN 0
                              ELSE (odd[n - 1] + v \div 2 ^ (n - 1)) % 2
    IN  1 - odd[Byte]
=============================================================================
