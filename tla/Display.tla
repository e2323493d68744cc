------------------------------- MODULE Display -------------------------------
(***************************************************************************)
(* decoding.cpp: the text that is printed for a word of translated code,   *)
(* with --log riscv and in the debugger.  What is printed is kept as a     *)
(* record: the operation, the registers by their printed names, the number *)
(* with its sign, or the field of the context an address stands for.       *)
(***************************************************************************)
EXTENDS BitSets, Sequences

\* register_string, from the number 0
RegisterString == <<
    "zero", "Vra", "rsp", "Vgp", "Vtp", "Vt0", "Vt1", "Vt2", "rbp",
    "return_stack", "rdi", "rsi", "rdx", "r10", "r8", "r9", "rcx", "rax",
    "rbx", "r11", "r12", "r13", "r14", "r15", "call_table", "tlb",
    "jump_table", "context", "Vt3", "Vt4", "Vt5", "Vt6">>

split_off(w, offset, size) == Value(Field(w, offset, size))
RegisterAt(w, offset) == RegisterString[split_off(w, offset, 5) + 1]

\* flags.h: where the context keeps the stored flag operands.
InfoOffset == [
    zero_value |-> 512, sign_value |-> 520, overflow_value1 |-> 528, overflow_value2 |-> 536,
    carry_value1 |-> 544, carry_value2 |-> 552, overflow_ptr |-> 560, carry_ptr |-> 568,
    overflow_op |-> 576, carry_op |-> 578, sign_shift |-> 580, parity_value |-> 581]

handle_context_addressing(base, offset) ==
    {name \in DOMAIN InfoOffset : base = 27 /\ offset = Bits(InfoOffset[name])}

\* A number of the size in two's complement: its sign and its magnitude.
SignedNumber(n, size) ==
    IF size - 1 \in n
    THEN [minus |-> TRUE, digits |-> Field(Minus(Extend(n, size)), 0, size)]
    ELSE [minus |-> FALSE, digits |-> n]
Unsigned(n) == [minus |-> FALSE, digits |-> n]
None == Unsigned({})

Line(op, d, a, b, number, place) ==
    [op |-> op, rd |-> d, rs1 |-> a, rs2 |-> b, number |-> number, place |-> place]

parse_rtype(op, w) == Line(op, RegisterAt(w, 7), RegisterAt(w, 15), RegisterAt(w, 20), None, {})
parse_shift(op, w) == Line(op, RegisterAt(w, 7), RegisterAt(w, 15), "", Unsigned(Field(w, 20, 6)), {})
parse_itype(op, w) ==
    Line(op, RegisterAt(w, 7), RegisterAt(w, 15), "", SignedNumber(Field(w, 20, 12), 12), {})
parse_utype(op, w) == Line(op, RegisterAt(w, 7), "", "", Unsigned(Field(w, 12, 20)), {})

\* An address is the field of the context it names, or base and offset.
ParseAddress(op, w, d, b, offset) ==
    LET place == handle_context_addressing(split_off(w, 15, 5), offset)
    IN  IF place # {} THEN Line(op, d, "", b, None, place)
        ELSE Line(op, d, RegisterAt(w, 15), b, SignedNumber(offset, 12), {})
parse_load(op, w) == ParseAddress(op, w, RegisterAt(w, 7), "", Field(w, 20, 12))
parse_store(op, w) ==
    ParseAddress(op, w, "", RegisterAt(w, 20), Field(w, 7, 5) \cup Place(Field(w, 25, 7), 5, 7))

parse_jtype(op, w) ==
    Line(op, RegisterAt(w, 7), "", "",
         SignedNumber(Place(Field(w, 21, 10), 1, 10) \cup Place(Field(w, 20, 1), 11, 1)
                      \cup Place(Field(w, 12, 8), 12, 8) \cup Place(Field(w, 31, 1), 20, 1), 21), {})
parse_relative(op, w) ==
    Line(op, RegisterAt(w, 7), RegisterAt(w, 15), "", SignedNumber(Field(w, 20, 12), 12), {})
BranchNarrow(op, w) ==                          \* a bug: the sign is looked for in bit 11
    Line(op, "", RegisterAt(w, 15), RegisterAt(w, 20),
         SignedNumber(Place(Field(w, 8, 4), 1, 4) \cup Place(Field(w, 25, 6), 5, 6)
                      \cup Place(Field(w, 7, 1), 11, 1), 12), {})
parse_btype(op, w) ==
    Line(op, "", RegisterAt(w, 15), RegisterAt(w, 20),
         SignedNumber(Place(Field(w, 8, 4), 1, 4) \cup Place(Field(w, 25, 6), 5, 6)
                      \cup Place(Field(w, 7, 1), 11, 1) \cup Place(Field(w, 31, 1), 12, 1), 13), {})

Unknown == Line("unknown", "", "", "", None, {})
CaseOf(row, f3) == IF f3 + 1 \in DOMAIN row THEN row[f3 + 1] ELSE ""

-----------------------------------------------------------------------------
(* parse_riscv: a row per funct3, "" where the switch has no case *)

ParseJumpOrBranch(w, op, f3) ==
    LET branch == CaseOf(<<"BEQ", "BNE", "", "", "BLT", "BGE", "BLTU", "BGEU">>, f3)
    IN  CASE op = 103 /\ f3 = 0 -> parse_relative("JALR", w)
          [] op = 111 -> parse_jtype("JAL", w)
          [] op = 99 /\ branch # "" -> parse_btype(branch, w)
          [] OTHER -> Unknown

ParseMemory(w, op, f3) ==
    LET store == CaseOf(<<"SB", "SH", "SW", "SD">>, f3)
        load == CaseOf(<<"LB", "LH", "LW", "LD", "LBU", "LHU", "LWU">>, f3)
        float == CaseOf(<<"", "", "FLW", "FLD">>, f3)
    IN  CASE op = 35 /\ store # "" -> parse_store(store, w)
          [] op = 3 /\ load # "" -> parse_load(load, w)
          [] op = 7 /\ float # "" -> parse_load(float, w)
          [] OTHER -> Unknown

ParseImmediate(w, f3, f7) ==
    LET plain == CaseOf(<<"ADDI", "", "SLTI", "SLTIU", "XORI", "", "ORI", "ANDI">>, f3)
    IN  CASE plain # "" -> parse_itype(plain, w)
          [] f3 = 1 /\ f7 \in {0, 1} -> parse_shift("SLLI", w)
          [] f3 = 5 /\ f7 \in {0, 1} -> parse_shift("SRLI", w)
          [] f3 = 5 /\ f7 \in {32, 33} -> parse_shift("SRAI", w)
          [] OTHER -> Unknown

ParseWideImmediate(w, f3, f7) ==
    CASE f3 = 0 -> parse_itype("ADDIW", w)
      [] f3 = 1 /\ f7 = 0 -> parse_shift("SLLIW", w)
      [] f3 = 5 /\ f7 = 0 -> parse_shift("SRLIW", w)
      [] f3 = 5 /\ f7 = 32 -> parse_shift("SRAIW", w)
      [] OTHER -> Unknown

ParseRegister(w, f3, f7) ==
    LET name == CASE f7 = 1 -> CaseOf(<<"MUL", "MULH", "MULHSU", "MULHU", "DIV", "DIVU", "REM", "REMU">>, f3)
                  [] f7 = 0 -> CaseOf(<<"ADD", "SLL", "SLT", "SLTU", "XOR", "SRL", "OR", "AND">>, f3)
                  [] f7 = 32 -> CaseOf(<<"SUB", "", "", "", "", "SRA">>, f3)
                  [] OTHER -> ""
    IN  IF name = "" THEN Unknown ELSE parse_rtype(name, w)

ParseWideRegister(w, f3, f7) ==
    LET name == CASE f7 = 1 -> CaseOf(<<"MULW", "", "", "", "DIVW", "DIVUW", "REMW", "REMUW">>, f3)
                  [] f7 = 0 -> CaseOf(<<"ADDW", "SLLW", "", "", "", "SRLW">>, f3)
                  [] f7 = 32 -> CaseOf(<<"SUBW", "", "", "", "", "SRAW">>, f3)
                  [] OTHER -> ""
    IN  IF name = "" THEN Unknown ELSE parse_rtype(name, w)

parse_riscv(w) ==
    LET op == split_off(w, 0, 7)
        f3 == split_off(w, 12, 3)
        f7 == split_off(w, 25, 7)
    IN  CASE op \in {103, 111, 99} -> ParseJumpOrBranch(w, op, f3)
          [] op = 55 -> parse_utype("LUI", w)
          [] op = 23 -> parse_utype("AUIPC", w)
          [] op \in {35, 3, 7} -> ParseMemory(w, op, f3)
          [] op = 19 -> ParseImmediate(w, f3, f7)
          [] op = 27 -> ParseWideImmediate(w, f3, f7)
          [] op = 115 /\ Field(w, 7, 25) = {} -> Line("ECALL", "", "", "", None, {})
          [] op = 51 -> ParseRegister(w, f3, f7)
          [] op = 59 -> ParseWideRegister(w, f3, f7)
          [] OTHER -> Unknown
=============================================================================
