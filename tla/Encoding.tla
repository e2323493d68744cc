------------------------------- MODULE Encoding -------------------------------
(***************************************************************************)
(* encoding.cpp: how an instruction of the host becomes a word.  An        *)
(* instruction names its operation, the numbers of its registers and its   *)
(* immediate, a word of bits; an operation is a row of a table with its    *)
(* format and the constant fields.                                         *)
(***************************************************************************)
EXTENDS BitSets, Sequences

LOCAL INSTANCE TLC

\* enum class RiscVRegister: the numbers of the registers used by name.
zero == 0
ra == 1
sp == 2
t0 == 5
t1 == 6
t3 == 28
s10 == 26
s11 == 27

Inst(op, rd, rs1, rs2, rs3, imm) ==
    [op |-> op, rd |-> rd, rs1 |-> rs1, rs2 |-> rs2, rs3 |-> rs3, imm |-> imm]

-----------------------------------------------------------------------------
(* The formats *)

opcode(n) == Place(Bits(n), 0, 7)
rd(n) == Place(Bits(n), 7, 5)
funct3(n) == Place(Bits(n), 12, 3)
rs1(n) == Place(Bits(n), 15, 5)
rs2(n) == Place(Bits(n), 20, 5)
funct7(n) == Place(Bits(n), 25, 7)

\* The unions: where a format keeps its immediate.
IType(imm) == Place(imm, 20, 12)
SType(immlow, immhigh) == Place(immlow, 7, 5) \cup Place(immhigh, 25, 7)
UType(imm) == Place(imm, 12, 20)
BType(imm_11, imm_4_1, imm_10_5, imm_12) ==
    Place(imm_11, 7, 1) \cup Place(imm_4_1, 8, 4) \cup Place(imm_10_5, 25, 6) \cup Place(imm_12, 31, 1)
JType(imm_19_12, imm_11, imm_10_1, imm_20) ==
    Place(imm_19_12, 12, 8) \cup Place(imm_11, 20, 1) \cup Place(imm_10_1, 21, 10) \cup Place(imm_20, 31, 1)
R4Type(funct2, rs3) == Place(Bits(funct2), 25, 2) \cup Place(Bits(rs3), 27, 5)

rtype(op, d, f3, a, b, f7) ==
    opcode(op) \cup rd(d) \cup funct3(f3) \cup rs1(a) \cup rs2(b) \cup funct7(f7)
itype(op, d, f3, a, imm) == opcode(op) \cup rd(d) \cup funct3(f3) \cup rs1(a) \cup IType(imm)
stype(op, f3, a, b, imm) ==
    opcode(op) \cup funct3(f3) \cup rs1(a) \cup rs2(b) \cup SType(Field(imm, 0, 5), Field(imm, 5, 7))
utype(op, d, imm) == opcode(op) \cup rd(d) \cup UType(imm)
BranchUnrotated(op, f3, a, b, imm) ==        \* a bug: the low five bits in their place
    opcode(op) \cup funct3(f3) \cup rs1(a) \cup rs2(b)
    \cup BType(Field(imm, 0, 1), Field(imm, 1, 4), Field(imm, 5, 6), Field(imm, 12, 1))
btype(op, f3, a, b, imm) ==
    opcode(op) \cup funct3(f3) \cup rs1(a) \cup rs2(b)
    \cup BType(Field(imm, 11, 1), Field(imm, 1, 4), Field(imm, 5, 6), Field(imm, 12, 1))
jtype(op, d, imm) ==
    opcode(op) \cup rd(d)
    \cup JType(Field(imm, 12, 8), Field(imm, 11, 1), Field(imm, 1, 10), Field(imm, 20, 1))
r4type(op, d, f3, a, b, f2, c) ==
    opcode(op) \cup rd(d) \cup funct3(f3) \cup rs1(a) \cup rs2(b) \cup R4Type(f2, c)

-----------------------------------------------------------------------------
(* The operations: format, opcode, funct3, and funct7 or what else is fixed *)

RV32I == [
    LUI |-> <<"U", 55>>,        AUIPC |-> <<"U", 23>>,
    JAL |-> <<"J", 111>>,       JALR |-> <<"I", 103, 0>>,
    BEQ |-> <<"B", 99, 0>>,     BNE |-> <<"B", 99, 1>>,     BLT |-> <<"B", 99, 4>>,
    BGE |-> <<"B", 99, 5>>,     BLTU |-> <<"B", 99, 6>>,    BGEU |-> <<"B", 99, 7>>,
    LB |-> <<"I", 3, 0>>,       LH |-> <<"I", 3, 1>>,       LW |-> <<"I", 3, 2>>,
    LD |-> <<"I", 3, 3>>,       LBU |-> <<"I", 3, 4>>,      LHU |-> <<"I", 3, 5>>,
    LWU |-> <<"I", 3, 6>>,      SB |-> <<"S", 35, 0>>,      SH |-> <<"S", 35, 1>>,
    SW |-> <<"S", 35, 2>>,      SD |-> <<"S", 35, 3>>,      ADDI |-> <<"I", 19, 0>>,
    SLTI |-> <<"I", 19, 2>>,    SLTIU |-> <<"I", 19, 3>>,   XORI |-> <<"I", 19, 4>>,
    ORI |-> <<"I", 19, 6>>,     ANDI |-> <<"I", 19, 7>>,    ECALL |-> <<"I", 115, 0>>]

\* SLLI, SRLI and SRAI: an immediate of six bits, bit 10 for the arithmetic one.
ShiftImmediate == [
    SLLI |-> <<"shift", 19, 1, 0>>, SRLI |-> <<"shift", 19, 5, 0>>,
    SRAI |-> <<"shift", 19, 5, 1024>>]

RegisterRegister == [
    ADD |-> <<"R", 51, 0, 0>>,  SUB |-> <<"R", 51, 0, 32>>, SLL |-> <<"R", 51, 1, 0>>,
    SLT |-> <<"R", 51, 2, 0>>,  SLTU |-> <<"R", 51, 3, 0>>, XOR |-> <<"R", 51, 4, 0>>,
    SRL |-> <<"R", 51, 5, 0>>,  SRA |-> <<"R", 51, 5, 32>>, OR |-> <<"R", 51, 6, 0>>,
    AND |-> <<"R", 51, 7, 0>>]

\* The shifts by an immediate put five bits of it where rs2 goes.
RV64I == [
    ADDW |-> <<"R", 59, 0, 0>>,     SUBW |-> <<"R", 59, 0, 32>>,    SLLW |-> <<"R", 59, 1, 0>>,
    SRLW |-> <<"R", 59, 5, 0>>,     SRAW |-> <<"R", 59, 5, 32>>,    SLLIW |-> <<"shiftw", 27, 1, 0>>,
    SRLIW |-> <<"shiftw", 27, 5, 0>>,   SRAIW |-> <<"shiftw", 27, 5, 32>>]

RV32M == [
    MUL |-> <<"R", 51, 0, 1>>,  MULH |-> <<"R", 51, 1, 1>>, MULHSU |-> <<"R", 51, 2, 1>>,
    MULHU |-> <<"R", 51, 3, 1>>, DIV |-> <<"R", 51, 4, 1>>, DIVU |-> <<"R", 51, 5, 1>>,
    REM |-> <<"R", 51, 6, 1>>,  REMU |-> <<"R", 51, 7, 1>>]

rm == 7

\* "F1" has one source: the table gives what the code puts into rs2.
RV32F == [
    FLW |-> <<"I", 7, 2>>,              FSW |-> <<"S", 39, 2>>,
    FMADDS |-> <<"R4", 67, rm, 0>>,     FMSUBS |-> <<"R4", 71, rm, 0>>,
    FNMSUBS |-> <<"R4", 75, rm, 0>>,    FNMADDS |-> <<"R4", 79, rm, 0>>,
    FADDS |-> <<"R", 83, rm, 0>>,       FSUBS |-> <<"R", 83, rm, 4>>,
    FMULS |-> <<"R", 83, rm, 8>>,       FDIVS |-> <<"R", 83, rm, 12>>,
    FSQRTS |-> <<"F1", 83, rm, 44, 0>>, FSGNJS |-> <<"R", 83, 0, 16>>,
    FSGNJNS |-> <<"R", 83, 1, 16>>,     FSGNJXS |-> <<"R", 83, 2, 16>>,
    FMINS |-> <<"R", 83, 0, 20>>,       FMAXS |-> <<"R", 83, 1, 20>>,
    FCVTWS |-> <<"F1", 83, rm, 96, 0>>, FCVTWUS |-> <<"F1", 83, rm, 96, 1>>,
    FEQS |-> <<"R", 83, 2, 80>>,        FLTS |-> <<"R", 83, 1, 80>>,
    FLES |-> <<"R", 83, 0, 80>>,
    FCVTSW |-> <<"F1", 83, rm, 104, 0>>, FCVTSWU |-> <<"F1", 83, rm, 104, 1>>]

RV64F == [
    FCVTLS |-> <<"F1", 83, rm, 96, 2>>,  FCVTLUS |-> <<"F1", 83, rm, 96, 3>>,
    FCVTSL |-> <<"F1", 83, rm, 104, 2>>, FCVTSLU |-> <<"F1", 83, rm, 104, 3>>]

RV32D == [
    FLD |-> <<"I", 7, 3>>,              FSD |-> <<"S", 39, 3>>,
    FMADDD |-> <<"R4", 67, rm, 1>>,     FMSUBD |-> <<"R4", 71, rm, 1>>,
    FNMSUBD |-> <<"R4", 75, rm, 1>>,    FNMADDD |-> <<"R4", 79, rm, 1>>,
    FADDD |-> <<"R", 83, rm, 1>>,       FSUBD |-> <<"R", 83, rm, 5>>,
    FMULD |-> <<"R", 83, rm, 9>>,       FDIVD |-> <<"R", 83, rm, 13>>,
    FSQRTD |-> <<"F1", 83, rm, 45, 0>>, FSGNJD |-> <<"R", 83, 0, 17>>,
    FSGNJND |-> <<"R", 83, 1, 17>>,     FSGNJXD |-> <<"R", 83, 2, 17>>,
    FMIND |-> <<"R", 83, 0, 21>>,       FMAXD |-> <<"R", 83, 1, 21>>,
    FCVTSD |-> <<"F1", 83, rm, 32, 1>>, FCVTDS |-> <<"F1", 83, rm, 33, 0>>,
    FEQD |-> <<"R", 83, 2, 81>>,        FLTD |-> <<"R", 83, 1, 81>>,
    FLED |-> <<"R", 83, 0, 81>>,
    FCVTWD |-> <<"F1", 83, rm, 97, 0>>, FCVTWUD |-> <<"F1", 83, rm, 97, 1>>,
    FCVTDW |-> <<"F1", 83, 0, 105, 0>>, FCVTDWU |-> <<"F1", 83, 0, 105, 1>>]

RV64D == [
    FCVTLD |-> <<"F1", 83, rm, 97, 2>>,  FCVTLUD |-> <<"F1", 83, rm, 97, 3>>,
    FCVTDL |-> <<"F1", 83, rm, 105, 2>>, FCVTDLU |-> <<"F1", 83, rm, 105, 3>>]

\* encoding.h declares them in these sections; the last two have operands in
\* floating point registers.
Base == RV32I @@ ShiftImmediate @@ RegisterRegister
Integer == Base @@ RV64I @@ RV32M
SinglePrecision == RV32F @@ RV64F
DoublePrecision == RV32D @@ RV64D
Row == Integer @@ SinglePrecision @@ DoublePrecision

Encode(i) ==
    LET row == Row[i.op]
    IN  CASE row[1] = "U" -> utype(row[2], i.rd, i.imm)
          [] row[1] = "J" -> jtype(row[2], i.rd, i.imm)
          [] row[1] = "I" -> itype(row[2], i.rd, row[3], i.rs1, i.imm)
          [] row[1] = "B" -> btype(row[2], row[3], i.rs1, i.rs2, i.imm)
          [] row[1] = "S" -> stype(row[2], row[3], i.rs1, i.rs2, i.imm)
          [] row[1] = "R" -> rtype(row[2], i.rd, row[3], i.rs1, i.rs2, row[4])
          [] row[1] = "R4" -> r4type(row[2], i.rd, row[3], i.rs1, i.rs2, row[4], i.rs3)
          [] row[1] = "F1" -> rtype(row[2], i.rd, row[3], i.rs1, row[5], row[4])
          [] row[1] = "shift" -> itype(row[2], i.rd, row[3], i.rs1, Field(i.imm, 0, 6) \cup Bits(row[4]))
          [] row[1] = "shiftw" -> rtype(row[2], i.rd, row[3], i.rs1, Value(Field(i.imm, 0, 5)), row[4])

-----------------------------------------------------------------------------
(* The pseudo-instructions, each an instruction above *)

Three(op, d, a, b) == Inst(op, d, a, b, 0, {})
Immediate(op, d, a, imm) == Inst(op, d, a, 0, 0, imm)
Branch(op, a, b, offset) == Inst(op, 0, a, b, 0, offset)

\* What encoding.h declares of them: with one source, with one floating point
\* source, and with an offset.
Unaries == {"NOP", "MV", "NOT", "NEG", "SEQZ", "SNEZ", "SLTZ", "SGTZ"}
FloatUnaries == {"FMVS", "FABSS", "FNEGS", "FMVD", "FABSD", "FNEGD"}
PseudoBranches == {"BEQZ", "BNQZ", "BLEZ", "BGEZ", "BLTZ", "BGTZ", "BGT", "BLE", "BGTU", "BLEU", "J"}

PseudoUnary(p, d, s) ==
    CASE p = "NOP" -> Immediate("ADDI", zero, zero, {})
      [] p = "MV" -> Immediate("ADDI", d, s, {})
      [] p = "NOT" -> Immediate("XORI", d, s, Number(-1))
      [] p = "NEG" -> Three("SUB", d, zero, s)
      [] p = "SEQZ" -> Immediate("SLTIU", d, s, Number(1))
      [] p = "SNEZ" -> Three("SLTU", d, zero, s)
      [] p = "SLTZ" -> Three("SLT", d, s, zero)
      [] p = "SGTZ" -> Three("SLT", d, zero, s)
PseudoFloat(p, d, s) ==
    CASE p = "FMVS" -> Three("FSGNJS", d, s, s)
      [] p = "FABSS" -> Three("FSGNJXS", d, s, s)
      [] p = "FNEGS" -> Three("FSGNJNS", d, s, s)
      [] p = "FMVD" -> Three("FSGNJD", d, s, s)
      [] p = "FABSD" -> Three("FSGNJXD", d, s, s)
      [] p = "FNEGD" -> Three("FSGNJND", d, s, s)
PseudoBranch(p, a, b, offset) ==
    CASE p = "BEQZ" -> Branch("BEQ", a, zero, offset)
      [] p = "BNQZ" -> Branch("BNE", a, zero, offset)
      [] p = "BLEZ" -> Branch("BGE", zero, a, offset)
      [] p = "BGEZ" -> Branch("BGE", a, zero, offset)
      [] p = "BLTZ" -> Branch("BLT", a, zero, offset)
      [] p = "BGTZ" -> Branch("BEQ", zero, a, offset)
      [] p = "BGT" -> Branch("BLT", b, a, offset)
      [] p = "BLE" -> Branch("BGE", b, a, offset)
      [] p = "BGTU" -> Branch("BLTU", b, a, offset)
      [] p = "BLEU" -> Branch("BGEU", b, a, offset)
      [] p = "J" -> Inst("JAL", zero, 0, 0, 0, offset)
=============================================================================
