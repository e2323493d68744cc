------------------------------- MODULE Products -------------------------------
(***************************************************************************)
(* Multiplication and division.                                            *)
(***************************************************************************)
EXTENDS Instructions

\* Mul: one class for mul and imul of one, two or three operands.
Sources(m, i) ==
    LET signed == i.op # "mul"
        Both(first, second) ==
            LET a == OperandFully(m, first, "t1", "t4", FALSE, TRUE)
                b == OperandFully(a.m, second, "t2", "t4", FALSE, TRUE)
            IN  [m |-> b.m, src1 |-> a.reg, src2 |-> b.reg]
        a == LoadFully(m, "rax", i.dst.size, "t4", FALSE, signed)
        b == OperandFully(a.m, i.dst, "t2", "t4", FALSE, signed)
    IN  CASE i.op = "imul2" -> Both(i.dst, i.src)
          [] i.op = "imul3" -> Both(i.src, i.third)
          [] OTHER -> [m |-> b.m, src1 |-> a.reg, src2 |-> b.reg]

MUL(m, d, a, b) == Put(m, d, Signed(R(m, a), 8) * Signed(R(m, b), 8))
MULH(m, d, a, b) == Put(m, d, (Signed(R(m, a), 8) * Signed(R(m, b), 8)) \div 2 ^ Bits(8))
MULHU(m, d, a, b) == Put(m, d, HighProduct(R(m, a), R(m, b)))

\* Eight bytes: the upper half first, aside if rdx is still a source.
MulWhole(s, op, lower) ==
    LET aside == IF "rdx" \in {s.src1, s.src2} THEN "t4" ELSE "rdx"
        high == CASE op = "mul" -> MULHU(s.m, aside, s.src1, s.src2)
                  [] op = "imul" -> MULH(s.m, aside, s.src1, s.src2)
                  [] OTHER -> s.m
        whole == MUL(high, lower, s.src1, s.src2)
    IN  IF op \in {"mul", "imul"} THEN Put(whole, "rdx", R(whole, aside)) ELSE whole

\* Fewer: the product fits one register, and is shifted down for rdx.
UpperFrom(low, size) ==
    IF size = 4 THEN Put(low, "rdx", ShiftRight(R(low, "t0"), Bits(4)))
    ELSE MoveToRegister(Put(low, "t0", ShiftRight(R(low, "t0"), Bits(2))), "rdx", "t0", 2, "t4", FALSE)
MulNarrow(s, op, lower, size) ==
    LET low == MoveToRegister(MUL(s.m, "t0", s.src1, s.src2), lower, "t0",
                              IF size = 1 THEN 2 ELSE size, "t4", FALSE)
    IN  IF size > 1 /\ op \in {"mul", "imul"} THEN UpperFrom(low, size) ELSE low

MulOf(s, i, lower) ==
    IF i.dst.size = 8 THEN MulWhole(s, i.op, lower) ELSE MulNarrow(s, i.op, lower, i.dst.size)
Mul(m, i) ==
    NeitherSupported(MulOf(Sources(m, i), i, IF i.op \in {"mul", "imul"} THEN "rax" ELSE i.dst.at))

-----------------------------------------------------------------------------
(* Idiv: the divisor is in t0, the dividend in t1. *)

\* The lower half is rax as it is, whatever stands above the operand in it.
Dividend(m, size, signed) ==
    LET d == LoadFully(m, "rdx", size, "t1", TRUE, signed).m
        a == LoadFromRegister(Put(d, "t1", ShiftLeft(R(d, "t1"), Bits(size))), "rax", size, "t4", TRUE).m
    IN  CASE size = 1 -> LoadFully(m, "rax", 2, "t1", TRUE, signed).m
          [] size \in {2, 4} -> ADD(a, "t1", "t1", "t4")
          [] size = 8 -> Put(m, "t1", R(m, "rax"))

Smallest64 == -(2 ^ (Bits(8) - 1))
LeastOperand(size) == -(2 ^ (Bits(size) - 1))   \* a bug: the dividend is wider
LeastDividend(size) == CASE size = 1 -> -(2 ^ (Bits(2) - 1))
                         [] size = 2 -> -(2 ^ (Bits(4) - 1))
                         [] size \in {4, 8} -> Smallest64
Raise(m) == [m EXCEPT !.raised = TRUE]

Divided(n, size, a, b) ==
    LET r == Put(Put(n, "t3", Quotient(a, b)), "t2", Remainder(a, b))
        Into(q, x, reg, access) == MoveToRegister(q, reg, x, access, "t4", FALSE)
    IN  IF size = 1 THEN Into(Into(r, "t3", "rax", 1), "t2", "rax", 0)
        ELSE Into(Into(r, "t3", "rax", size), "t2", "rdx", size)
DivideLoaded(n, size, signed) ==
    LET Operand(reg) == IF signed THEN Signed(R(n, reg), 8) ELSE R(n, reg)
        a == Operand("t1")
        b == Operand("t0")
    IN  IF signed /\ b = -1 /\ a = LeastDividend(size) THEN Raise(n) ELSE Divided(n, size, a, b)
DivideBy(d, size, signed) ==
    IF R(d, "t0") = 0 THEN Raise(d) ELSE DivideLoaded(Dividend(d, size, signed), size, signed)
Idiv(m, i) ==
    LET signed == i.op = "idiv"
    IN  DivideBy(OperandFully(m, i.dst, "t0", "t4", TRUE, signed).m, i.dst.size, signed)
=============================================================================
