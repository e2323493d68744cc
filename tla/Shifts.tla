-------------------------------- MODULE Shifts --------------------------------
(***************************************************************************)
(* Shifts by cl, rotations, and bit tests: the code works on the whole     *)
(* host register or its lower half, whatever the operand's width.  A host  *)
(* shift takes its count from the low bits of a register or an immediate.  *)
(***************************************************************************)
EXTENDS Instructions

\* The host's shifts, of the register and of its lower half ("W"), whose
\* result is extended by its sign.
SLL(m, d, a, n) == Put(m, d, ShiftLeft(R(m, a), n % Bits(8)))
SRL(m, d, a, n) == Put(m, d, ShiftRight(R(m, a), n % Bits(8)))
SRA(m, d, a, n) == Put(m, d, ShiftRight(Signed(R(m, a), 8), n % Bits(8)))
SLLW(m, d, a, n) == Put(m, d, Signed(ShiftLeft(Low(R(m, a), 4), n % Bits(4)), 4))
SRLW(m, d, a, n) == Put(m, d, Signed(ShiftRight(Low(R(m, a), 4), n % Bits(4)), 4))
SRAW(m, d, a, n) == Put(m, d, ShiftRight(Signed(R(m, a), 4), n % Bits(4)))
Or(m, d, a, b) == Put(m, d, BitOr(R(m, a), R(m, b)))

-----------------------------------------------------------------------------
(* ShiftCl *)

ShiftByCl(m, op, d, src, size) ==
    LET n == R(m, "rcx")
        s == CASE op = "shl" -> IF size = 8 THEN SLL(m, d, src, n) ELSE SLLW(m, d, src, n)
               [] op = "shr" -> IF size = 8 THEN SRL(m, d, src, n) ELSE SRLW(m, d, src, n)
               [] op = "sar" -> IF size = 8 THEN SRA(m, d, src, n) ELSE SRAW(m, d, src, n)
    IN  NeitherSupported(s)

ShiftCl(m, i) ==
    LET o == i.dst
        S(n, d, src) == ShiftByCl(n, i.op, d, src, o.size)
        high == S(SRL(m, "t0", o.at, Bits(1)), "t0", "t0")
        read == ReadFromMemory(m, o, "t0", "t1")
    IN  CASE o.type = "mem" ->
                 WriteToMemory(S(read.m, "t0", "t0"), o, "t0", "t1", "t2", read.address)
          [] o.type = "high" -> MoveToRegister(high, o.at, "t0", 0, "t1", FALSE)
          [] o.type = "reg" /\ o.size = 8 -> S(m, o.at, o.at)
          [] o.type = "reg" /\ o.size = 4 ->
                 LET s == S(m, o.at, o.at) IN Put(s, o.at, Low(R(s, o.at), 4))
          [] o.type = "reg" /\ o.size < 4 ->
                 MoveToRegister(S(m, "t0", o.at), o.at, "t0", o.size, "t1", FALSE)

-----------------------------------------------------------------------------
(* Rotation: rotate leaves the result in the register itself, or in t1. *)

InPlace(m, reg) == [m |-> Or(m, reg, "t1", "t2"), reg |-> reg]
InT1(m) == [m |-> Or(m, "t1", "t1", "t2"), reg |-> "t1"]
Combined(m, reg, size) == IF size >= 4 THEN InPlace(m, reg) ELSE InT1(m)

RolImm(m, reg, size, imm) ==
    LET n == imm % Bits(size)
        out == CASE size = 8 -> SRL(m, "t1", reg, Bits(8) - n)
                 [] size = 4 -> SRLW(m, "t1", reg, Bits(4) - n)
                 [] size < 4 ->
                        LET u == SRL(m, "t1", reg, Bits(size) - n)
                        IN  SRL(SLL(u, "t1", "t1", Bits(8) - n), "t1", "t1", Bits(8) - n)
    IN  Combined(SLL(out, "t2", reg, n), reg, size)

RolCl(m, reg, size) ==
    LET c == R(m, "rcx")
        rest == Bits(size) - c
        n == c % Bits(size)
        t4 == Put(m, "t4", rest)
        narrow == SLL(Put(Put(m, "t1", Low(R(m, reg), size)), "t3", n), "t1", "t1", n)
    IN  CASE size = 8 -> InPlace(SLL(SRL(t4, "t2", reg, rest), "t1", reg, c), reg)
          [] size = 4 -> InPlace(SLLW(SRLW(t4, "t2", reg, rest), "t1", reg, c), reg)
          [] size < 4 -> InT1(SRL(narrow, "t2", "t1", Bits(size)))

RorImm(m, reg, size, imm) ==
    LET n == imm % Bits(size)
        in == SLL(m, "t1", reg, Bits(size) - n)
    IN  CASE size = 8 -> InPlace(SRL(in, "t2", reg, n), reg)
          [] size = 4 -> InPlace(SRLW(SLLW(m, "t1", reg, Bits(4) - n), "t2", reg, n), reg)
          [] size < 4 -> InT1(Put(in, "t2", ShiftRight(Low(R(in, reg), size), n)))

\* The last shift of a narrow operand is of reg, not of the copy in t1.
RorCl(m, reg, size) ==
    LET c == R(m, "rcx")
        rest == Bits(size) - c
        t4 == Put(m, "t4", rest)
        copy == Put(t4, "t1", Low(R(t4, reg), size))
    IN  CASE size = 8 -> InPlace(SRL(SLL(t4, "t2", reg, rest), "t1", reg, c), reg)
          [] size = 4 -> InPlace(SRLW(SLLW(t4, "t2", reg, rest), "t1", reg, c), reg)
          [] size < 4 -> InT1(SRL(SLL(copy, "t2", "t1", rest), "t1", reg, c))

Rotate(m, i, reg) ==
    LET size == i.dst.size
    IN  IF i.src.type = "imm"
        THEN IF i.op = "rol" THEN RolImm(m, reg, size, i.src.at) ELSE RorImm(m, reg, size, i.src.at)
        ELSE IF i.op = "rol" THEN RolCl(m, reg, size) ELSE RorCl(m, reg, size)

Rotation(m, i) ==
    LET o == i.dst
        read == ReadFromMemory(m, o, "t0", "t6")
        fromMemory == Rotate(read.m, i, "t0")
        fromHigh == Rotate(SRL(m, "t0", o.at, Bits(1)), i, "t0")
        fromRegister == Rotate(m, i, o.at)
    IN  NeitherSupported(
        CASE o.type = "mem" ->
                 WriteToMemory(fromMemory.m, o, fromMemory.reg, "t5", "t6", read.address)
          [] o.type = "high" -> MoveToRegister(fromHigh.m, o.at, fromHigh.reg, 0, "t6", FALSE)
          [] o.type = "reg" -> MoveToRegister(fromRegister.m, o.at, fromRegister.reg, o.size, "t6",
                                              fromRegister.reg = o.at))

-----------------------------------------------------------------------------
(* Bit tests.  The entry is computed from the bit, and stored whether or   *)
(* not the flag is to be updated.  An offset in a register is encoded but  *)
(* not emitted: the mask stays 1, and bt takes t1 as it finds it.          *)

CarryIs(m, bit) == [m EXCEPT !.info.carry = Stored(m, @, Constant(bit = 1), None, None)]

Bt(m, i) ==
    LET s == IF i.dst.type = "mem" THEN ReadFromMemory(m, i.dst, "t0", "t1").m ELSE m
        base == IF i.dst.type = "mem" THEN "t0" ELSE i.dst.at
        v == IF i.src.type = "imm" THEN ShiftRight(R(s, base), i.src.at % Bits(i.dst.size))
                                   ELSE R(s, "t1")
    IN  CarryIs(s, v % 2)

Manipulate(op, v, mask) == CASE op = "btc" -> BitXor(v, mask)
                             [] op = "btr" -> BitAnd(v, Wrap(-mask - 1))
                             [] op = "bts" -> BitOr(v, mask)

BitTest(m, i) ==
    LET o == i.dst
        read == IF o.type = "mem" THEN ReadFromMemory(m, o, "t0", "t3")
                                  ELSE [m |-> m, reg |-> o.at, address |-> "zero"]
        mask == IF i.src.type = "imm" THEN 2 ^ (i.src.at % Bits(o.size)) ELSE 1
        v == R(read.m, read.reg)
        tested == CarryIs(Put(read.m, "t2", mask), Bool(BitAnd(v, mask) # 0))
        changed == Put(tested, read.reg, Manipulate(i.op, v, mask))
    IN  IF o.type = "mem" THEN WriteToMemory(changed, o, "t0", "t1", "t2", read.address)
                          ELSE changed
=============================================================================
