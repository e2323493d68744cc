--------------------------------- MODULE Hart ---------------------------------
(***************************************************************************)
(* The host processor, for the instructions the translator emits: what the *)
(* RISC-V instruction set manual says a word is (Fetch), and what an       *)
(* instruction does to the registers and the pc, as the comments of        *)
(* encoding.h state it (the manual agrees).  Memory is not part of it.     *)
(***************************************************************************)
EXTENDS Encoding

-----------------------------------------------------------------------------
(* Fetch: the instruction in a word, from the tables of the manual *)

Number5(w, at) == Value(Field(w, at, 5))
Signed12(w) == Extend(Field(w, 20, 12), 12)
SignedStore(w) == Extend(Field(w, 7, 5) \cup Place(Field(w, 25, 7), 5, 7), 12)
SignedBranch(w) == Extend(Place(Field(w, 8, 4), 1, 4) \cup Place(Field(w, 25, 6), 5, 6)
                          \cup Place(Field(w, 7, 1), 11, 1) \cup Place(Field(w, 31, 1), 12, 1), 13)
SignedJump(w) == Extend((w \cap 12..19) \cup Place(Field(w, 20, 1), 11, 1)
                        \cup Place(Field(w, 21, 10), 1, 10) \cup Place(Field(w, 31, 1), 20, 1), 21)

FetchImmediate(op, w) == Inst(op, Number5(w, 7), Number5(w, 15), 0, 0, Signed12(w))
FetchShift(op, w, size) == Inst(op, Number5(w, 7), Number5(w, 15), 0, 0, Field(w, 20, size))
FetchRegister(op, w) == Inst(op, Number5(w, 7), Number5(w, 15), Number5(w, 20), 0, {})
FetchStore(op, w) == Inst(op, 0, Number5(w, 15), Number5(w, 20), 0, SignedStore(w))
FetchBranch(op, w) == Inst(op, 0, Number5(w, 15), Number5(w, 20), 0, SignedBranch(w))

\* Integer operations: rows by funct3, bit 30 for the second of a pair.
FetchOp(w, f3) ==
    LET other == 30 \in w
        name == IF 25 \in w
                THEN <<"MUL", "MULH", "MULHSU", "MULHU", "DIV", "DIVU", "REM", "REMU">>[f3]
                ELSE <<IF other THEN "SUB" ELSE "ADD", "SLL", "SLT", "SLTU", "XOR",
                       IF other THEN "SRA" ELSE "SRL", "OR", "AND">>[f3]
    IN  FetchRegister(name, w)
FetchOpImm(w, f3) ==
    CASE f3 = 2 -> FetchShift("SLLI", w, 6)
      [] f3 = 6 -> FetchShift(IF 30 \in w THEN "SRAI" ELSE "SRLI", w, 6)
      [] OTHER -> FetchImmediate(<<"ADDI", "", "SLTI", "SLTIU", "XORI", "", "ORI", "ANDI">>[f3], w)
FetchWide(w, f3, immediate) ==
    LET other == 30 \in w
    IN  IF immediate
        THEN FetchShift(IF f3 = 2 THEN "SLLIW" ELSE IF other THEN "SRAIW" ELSE "SRLIW", w, 5)
        ELSE FetchRegister(CASE f3 = 1 -> IF other THEN "SUBW" ELSE "ADDW"
                             [] f3 = 2 -> "SLLW"
                             [] f3 = 6 -> IF other THEN "SRAW" ELSE "SRLW", w)

\* Floating point: the format in bits 25 and 26, the operation in bits 27 to 31.
FetchFloat(w, f3) ==
    LET operation == Value(Field(w, 27, 5))
        integer == Number5(w, 20)
        double == 25 \in w
        unary(s, d) == Inst(IF double THEN d ELSE s, Number5(w, 7), Number5(w, 15), 0, 0, {})
        binary(s, d) == FetchRegister(IF double THEN d ELSE s, w)
        one(s, d, n) == binary(s[n], d[n])
    IN  CASE operation = 0 -> binary("FADDS", "FADDD")
          [] operation = 1 -> binary("FSUBS", "FSUBD")
          [] operation = 2 -> binary("FMULS", "FMULD")
          [] operation = 3 -> binary("FDIVS", "FDIVD")
          [] operation = 11 -> unary("FSQRTS", "FSQRTD")
          [] operation = 4 -> one(<<"FSGNJS", "FSGNJNS", "FSGNJXS">>, <<"FSGNJD", "FSGNJND", "FSGNJXD">>, f3)
          [] operation = 5 -> one(<<"FMINS", "FMAXS">>, <<"FMIND", "FMAXD">>, f3)
          [] operation = 8 -> unary("FCVTSD", "FCVTDS")
          [] operation = 20 -> one(<<"FLES", "FLTS", "FEQS">>, <<"FLED", "FLTD", "FEQD">>, f3)
          [] operation = 24 -> unary(<<"FCVTWS", "FCVTWUS", "FCVTLS", "FCVTLUS">>[integer + 1],
                                     <<"FCVTWD", "FCVTWUD", "FCVTLD", "FCVTLUD">>[integer + 1])
          [] operation = 26 -> unary(<<"FCVTSW", "FCVTSWU", "FCVTSL", "FCVTSLU">>[integer + 1],
                                     <<"FCVTDW", "FCVTDWU", "FCVTDL", "FCVTDLU">>[integer + 1])
FetchFused(w, s, d) == [FetchRegister(IF 25 \in w THEN d ELSE s, w) EXCEPT !.rs3 = Number5(w, 27)]

Fetch(w) ==
    LET op == Value(Field(w, 0, 7))
        f3 == Value(Field(w, 12, 3)) + 1
    IN  CASE op = 55 -> Inst("LUI", Number5(w, 7), 0, 0, 0, Field(w, 12, 20))
          [] op = 23 -> Inst("AUIPC", Number5(w, 7), 0, 0, 0, Field(w, 12, 20))
          [] op = 111 -> Inst("JAL", Number5(w, 7), 0, 0, 0, SignedJump(w))
          [] op = 103 -> FetchImmediate("JALR", w)
          [] op = 99 -> FetchBranch(<<"BEQ", "BNE", "", "", "BLT", "BGE", "BLTU", "BGEU">>[f3], w)
          [] op = 3 -> FetchImmediate(<<"LB", "LH", "LW", "LD", "LBU", "LHU", "LWU">>[f3], w)
          [] op = 35 -> FetchStore(<<"SB", "SH", "SW", "SD">>[f3], w)
          [] op = 7 -> FetchImmediate(<<"", "", "FLW", "FLD">>[f3], w)
          [] op = 39 -> FetchStore(<<"", "", "FSW", "FSD">>[f3], w)
          [] op = 19 -> FetchOpImm(w, f3)
          [] op = 51 -> FetchOp(w, f3)
          [] op = 27 -> FetchWide(w, f3, TRUE)
          [] op = 59 -> FetchWide(w, f3, FALSE)
          [] op = 115 -> FetchImmediate("ECALL", w)
          [] op = 67 -> FetchFused(w, "FMADDS", "FMADDD")
          [] op = 71 -> FetchFused(w, "FMSUBS", "FMSUBD")
          [] op = 75 -> FetchFused(w, "FNMSUBS", "FNMSUBD")
          [] op = 79 -> FetchFused(w, "FNMADDS", "FNMADDD")
          [] op = 83 -> FetchFloat(w, f3)

-----------------------------------------------------------------------------
(* What an instruction does to the registers and the pc of a machine h *)

Reg(h, n) == IF n = zero THEN {} ELSE h.reg[n]
Next4(h) == Add(h.pc, {2})
Set(h, n, v) == [h EXCEPT !.pc = Next4(h), !.reg = [k \in DOMAIN @ |-> IF k = n THEN v ELSE @[k]]]
Flag(b) == IF b THEN {0} ELSE {}

\* LUI and AUIPC sign-extend their 32 bits; JALR clears the lowest bit.
Jump(i, h) ==
    LET upper == Extend(Place(i.imm, 12, 20), 32)
        a == Reg(h, i.rs1)
        b == Reg(h, i.rs2)
        taken == CASE i.op = "BEQ" -> a = b
                   [] i.op = "BNE" -> a # b
                   [] i.op = "BLT" -> BelowSigned(a, b)
                   [] i.op = "BGE" -> ~BelowSigned(a, b)
                   [] i.op = "BLTU" -> Below(a, b)
                   [] i.op = "BGEU" -> ~Below(a, b)
    IN  CASE i.op = "LUI" -> Set(h, i.rd, upper)
          [] i.op = "AUIPC" -> Set(h, i.rd, Add(h.pc, upper))
          [] i.op = "JAL" -> [Set(h, i.rd, Next4(h)) EXCEPT !.pc = Add(h.pc, i.imm)]
          [] i.op = "JALR" -> [Set(h, i.rd, Next4(h)) EXCEPT !.pc = Add(a, i.imm) \ {0}]
          [] OTHER -> [h EXCEPT !.pc = IF taken THEN Add(h.pc, i.imm) ELSE Next4(h)]

Arithmetic(op, a, b) ==
    CASE op = "ADD" -> Add(a, b)
      [] op = "SUB" -> Subtract(a, b)
      [] op = "SLT" -> Flag(BelowSigned(a, b))
      [] op = "SLTU" -> Flag(Below(a, b))
      [] op = "XOR" -> Xor(a, b)
      [] op = "OR" -> a \cup b
      [] op = "AND" -> a \cap b
      [] op = "SLL" -> ShiftLeft(a, Value(Field(b, 0, 6)))
      [] op = "SRL" -> ShiftRight(a, Value(Field(b, 0, 6)))
      [] op = "SRA" -> ShiftSigned(a, Value(Field(b, 0, 6)))

\* The operations with an immediate, by the one with a register.
OfImmediate == [ADDI |-> "ADD", SLTI |-> "SLT", SLTIU |-> "SLTU", XORI |-> "XOR", ORI |-> "OR",
                ANDI |-> "AND", SLLI |-> "SLL", SRLI |-> "SRL", SRAI |-> "SRA"]

\* ADDW and SUBW: the low 32 bits of the result, sign-extended.
Wide == [ADDW |-> "ADD", SUBW |-> "SUB"]

Execute(i, h) ==
    CASE i.op \in DOMAIN OfImmediate ->
             Set(h, i.rd, Arithmetic(OfImmediate[i.op], Reg(h, i.rs1), i.imm))
      [] i.op \in DOMAIN RegisterRegister ->
             Set(h, i.rd, Arithmetic(i.op, Reg(h, i.rs1), Reg(h, i.rs2)))
      [] i.op \in DOMAIN Wide ->
             Set(h, i.rd, Extend(Arithmetic(Wide[i.op], Reg(h, i.rs1), Reg(h, i.rs2)), 32))
      [] i.op \in {"LUI", "AUIPC", "JAL", "JALR", "BEQ", "BNE", "BLT", "BGE", "BLTU", "BGEU"} ->
             Jump(i, h)
=============================================================================
