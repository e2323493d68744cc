---------------------------- MODULE Instructions ----------------------------
(***************************************************************************)
(* The code each class of guest instruction is translated to.  An          *)
(* instruction i has an operation, a condition, and up to two operands.    *)
(***************************************************************************)
EXTENDS LazyFlags

None == "none"

-----------------------------------------------------------------------------
(* execute_operation with a register and with a short immediate *)

AddRegister(m, dst, src, size) ==
    LET o == UpdateOverflow(m, Entry("add", size), src, dst)
    IN  UpdateCarry(ADD(o, dst, src, dst), Entry("add", size), src, dst)
AddImmediate(m, dst, imm, size) ==
    LET c == UpdateCarry(m, Entry("add", size), dst, None)
        o == UpdateOverflow(c, Signwise(TRUE, imm, size), dst, None)
        a == ADDI(o, dst, dst, imm)
    IN  UpdateOverflow(UpdateCarry(a, NoEntry, None, dst), NoEntry, None, dst)

\* Carry and overflow of an addition without carry-in are entries of their
\* own; both are chosen by the carry that was just evaluated.
AdcRegister(m, dst, src, size) ==
    LET e == EvaluateCarry(m)
        entry == Entry(IF R(e, "t4") = 1 THEN "adc" ELSE "add", size)
        Both(n) == ADD(ADD(n, dst, src, dst), dst, "t4", dst)
        \* the store helpers used here do not ask for the flag themselves
        o == [e EXCEPT !.info.overflow = Stored(e, @, entry, src, dst)]
        s == Both(IF "overflow" \in e.update THEN Clobber(o, {"t6"}) ELSE e)
        c == Clobber(s, {"t4"})
    IN  IF "carry" \in e.update
        THEN [c EXCEPT !.info.carry = Stored(c, @, entry, src, dst)] ELSE s
AdcImmediate(m, dst, imm, size) == AdcRegister(ADDI(m, "t3", "zero", imm), dst, "t3", size)

\* The borrow of a subtraction is the carry of adding the difference back.
Subtracted(m, diff, dst, src) == Put(m, diff, R(m, dst) - R(m, src))
Differ(m, diff, dst, src, size) ==
    LET c == UpdateCarry(m, Entry("add", size), None, dst)
        o == UpdateOverflow(c, Entry("sub", size), src, dst)
    IN  UpdateCarry(Subtracted(o, diff, dst, src), NoEntry, diff, None)
SubRegister(m, dst, src, size) == Differ(m, dst, dst, src, size)
CmpRegister(m, dst, src, size) == Differ(m, "t5", dst, src, size)

BeforeImmediate(m, dst, imm, size) ==
    LET c == UpdateCarry(m, Entry("add", size), None, dst)
    IN  UpdateOverflow(c, Signwise(FALSE, imm, size), dst, None)
AfterImmediate(m, result) ==
    UpdateOverflow(UpdateCarry(m, NoEntry, result, None), NoEntry, None, result)

\* The negation of the smallest immediate has no encoding.
Smallest == -(2 ^ (ImmediateBits - 1))
SubImmediate(m, dst, imm, size) ==
    LET b == BeforeImmediate(m, dst, imm, size)
        d == IF imm = Smallest THEN ADDI(ADDI(b, dst, dst, 1), dst, dst, -imm - 1)
                               ELSE ADDI(b, dst, dst, -imm)
    IN  AfterImmediate(d, dst)
CmpImmediate(m, dst, imm, size) ==
    LET b == BeforeImmediate(m, dst, imm, size)
        d == IF imm = Smallest THEN ADDI(ADDI(b, "t5", dst, 1), "t5", dst, -imm)
                               ELSE ADDI(b, "t5", dst, -imm)
    IN  IF imm = 0 THEN AfterImmediate(b, dst) ELSE AfterImmediate(d, "t5")

ClearBoth(m) ==
    UpdateOverflow(UpdateCarry(m, Constant(FALSE), None, None), Constant(FALSE), None, None)
Bitwise(op, a, b) == CASE op \in {"and", "test"} -> BitAnd(a, b)
                       [] op = "or" -> BitOr(a, b)
                       [] op = "xor" -> BitXor(a, b)
LogicOperation(m, op, d, dst, v) == ClearBoth(Put(m, d, Bitwise(op, R(m, dst), Wrap(v))))

\* Carry and overflow of a shift are not supported.  The whole register is
\* shifted, by the low bits of the immediate.
NeitherSupported(m) == UpdateCarryUnsupported(UpdateOverflowUnsupported(m))
ShiftLeft(v, n) == v * 2 ^ n
ShiftRight(v, n) == v \div 2 ^ n
ShiftImmediate(m, op, dst, imm) ==
    LET v == R(m, dst)
        n == imm % Bits(8)
    IN  NeitherSupported(Put(m, dst, CASE op = "shl" -> ShiftLeft(v, n)
                                       [] op = "shr" -> ShiftRight(v, n)
                                       [] op = "sar" -> ShiftRight(Signed(v, 8), n)))

\* With the source in src, or with imm if no register was needed for it.
ExecuteOperation(m, op, dst, src, imm, size) ==
    CASE op = "add" -> IF src # None THEN AddRegister(m, dst, src, size)
                                     ELSE AddImmediate(m, dst, imm, size)
      [] op = "adc" -> IF src # None THEN AdcRegister(m, dst, src, size)
                                     ELSE AdcImmediate(m, dst, imm, size)
      [] op = "sub" -> IF src # None THEN SubRegister(m, dst, src, size)
                                     ELSE SubImmediate(m, dst, imm, size)
      [] op = "cmp" -> IF src # None THEN CmpRegister(m, dst, src, size)
                                     ELSE CmpImmediate(m, dst, imm, size)
      [] op \in {"and", "or", "xor", "test"} ->
             LogicOperation(m, op, IF op = "test" THEN "t5" ELSE dst, dst,
                            IF src # None THEN R(m, src) ELSE Field(imm))
      [] op \in {"shl", "shr", "sar"} -> ShiftImmediate(m, op, dst, imm)

-----------------------------------------------------------------------------
(* Classes by the shape of generate *)

ResultFlags(m, reg, size, temp) ==
    UpdateParity(UpdateSign(UpdateZero(m, reg, size), reg, size, temp), reg)

\* The count of a shift, one byte in the guest's code, is always short.
SourceOperand(m, i) ==
    IF i.src.type = "imm" /\ (IsShort(i.src.at) \/ i.op \in {"shl", "shr", "sar"})
    THEN [m |-> m, reg |-> None]
    ELSE TranslateOperand(m, i.src, "t2", "t3", FALSE, FALSE)

BinaryOperation(m, i) ==
    LET s == SourceOperand(m, i)
        d == TranslateOperand(s.m, i.dst, "t0", "t1", TRUE, TRUE)
        e == ExecuteOperation(d.m, i.op, d.reg, s.reg, i.src.at, i.dst.size)
        f == ResultFlags(e, d.reg, i.dst.size, "t3")
    IN  TranslateDestination(f, i.dst, d.reg, d.address, "t2", "t3")

\* A comparison of a register with the immediate 0 leaves its result there.
Comparable(m, i) ==
    LET s == SourceOperand(m, i)
        d == TranslateOperand(s.m, i.dst, "t0", "t1", TRUE, TRUE)
        e == ExecuteOperation(d.m, i.op, d.reg, s.reg, i.src.at, i.dst.size)
        result == IF i.op = "cmp" /\ s.reg = None /\ i.src.at = 0 THEN d.reg ELSE "t5"
    IN  ResultFlags(e, result, i.dst.size, "t3")

Inc(m, dst, size) ==
    ADDI(UpdateOverflow(m, Entry("inc", size), dst, None), dst, dst, 1)
Dec(m, dst, size) ==
    ADDI(UpdateOverflow(m, Entry("dec_neg", size), dst, None), dst, dst, -1)
Neg(m, dst, size) ==
    LET c == UpdateCarry(m, Entry("neg", size), dst, None)
        o == UpdateOverflow(c, Entry("dec_neg", size), dst, None)
    IN  Put(o, dst, -R(o, dst))
Not(m, dst) == Put(m, dst, -R(m, dst) - 1)

UnaryOperation(m, i) ==
    LET d == TranslateOperand(m, i.dst, "t0", "t1", TRUE, TRUE)
        size == i.dst.size
        e == CASE i.op = "inc" -> Inc(d.m, d.reg, size)
               [] i.op = "dec" -> Dec(d.m, d.reg, size)
               [] i.op = "neg" -> Neg(d.m, d.reg, size)
               [] i.op = "not" -> Not(d.m, d.reg)
        f == ResultFlags(e, d.reg, size, "t2")
    IN  TranslateDestination(f, i.dst, d.reg, d.address, "t2", "t3")

Mov(m, i) ==
    LET into == TranslateOperand(m, i.src, i.dst.at, "t1", TRUE, FALSE).m
        s == TranslateOperand(m, i.src, "t0", "t2", FALSE, FALSE)
    IN  IF i.dst.type = "reg" /\ i.dst.size >= 4
        THEN IF i.dst.size = 4 THEN Put(into, i.dst.at, Low(R(into, i.dst.at), 4)) ELSE into
        ELSE TranslateDestination(s.m, i.dst, s.reg, "zero", "t1", "t2")

Stc(m) == UpdateCarry(m, Constant(TRUE), None, None)
Clc(m) == UpdateCarry(m, Constant(FALSE), None, None)
=============================================================================
