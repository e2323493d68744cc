----------------------------- MODULE HelperCode -----------------------------
(***************************************************************************)
(* helper.cpp and code_batch.cpp at their full width: the instructions the *)
(* helpers emit to move, load and extend registers and to build constants, *)
(* and the memory that takes the code which replaces the end of a block.   *)
(***************************************************************************)
EXTENDS Encoding

LOCAL INSTANCE FiniteSetsExt

address_destination == t3
jump_table_address == s10

\* map_reg: the guest's registers in the host's.
map_reg == [
    rax |-> 17, rcx |-> 16, rdx |-> 12, rbx |-> 18, rsp |-> 2, rbp |-> 8, rsi |-> 11, rdi |-> 10,
    r8 |-> 14, r9 |-> 15, r10 |-> 13, r11 |-> 19, r12 |-> 20, r13 |-> 21, r14 |-> 22, r15 |-> 23]

\* map_reg_high: ah, ch, dh and bh are in the registers four places before.
map_reg_high == [ah |-> map_reg["rax"], ch |-> map_reg["rcx"],
                 dh |-> map_reg["rdx"], bh |-> map_reg["rbx"]]

-----------------------------------------------------------------------------
(* Registers *)

Shift(op, d, a, n) == Immediate(op, d, a, Bits(n))

move_to_register(dest, src, access, temp, cleared) ==
    CASE access = 8 -> IF src # dest THEN <<PseudoUnary("MV", dest, src)>> ELSE <<>>
      [] access = 4 -> <<Shift("SLLI", dest, src, 32), Shift("SRLI", dest, dest, 32)>>
      [] access = 2 /\ cleared ->
             <<Shift("SRLI", dest, dest, 16), Shift("SLLI", dest, dest, 16), Three("OR", dest, dest, src)>>
      [] access = 2 /\ ~cleared ->
             <<Three("XOR", temp, src, dest), Shift("SLLI", temp, temp, 48),
               Shift("SRLI", temp, temp, 48), Three("XOR", dest, temp, dest)>>
      [] access = 1 ->
             <<Immediate("ANDI", dest, dest, Number(-256))>>
             \o (IF cleared THEN <<>> ELSE <<Immediate("ANDI", temp, src, Bits(255))>>)
             \o <<Three("OR", dest, dest, IF cleared THEN src ELSE temp)>>
      [] access = 0 ->
             <<Shift("SRLI", temp, dest, 8), Three("XOR", temp, temp, src),
               Shift("SLLI", temp, temp, 56), Shift("SRLI", temp, temp, 48),
               Three("XOR", dest, temp, dest)>>

\* The code, and the register the value is found in.
load_from_register(src, access, temp, modifiable, full_load, sign_extend) ==
    LET size == IF access = 0 THEN 8 ELSE access * 8
        whole == <<Shift("SLLI", temp, src, IF access = 0 THEN 48 ELSE 64 - size),
                   Shift(IF sign_extend THEN "SRAI" ELSE "SRLI", temp, temp, 64 - size)>>
        copy == <<PseudoUnary("MV", temp, src)>>
    IN  CASE full_load /\ access < 8 -> [code |-> whole, reg |-> temp]
          [] ~full_load /\ access = 0 -> [code |-> <<Shift("SRLI", temp, src, 8)>>, reg |-> temp]
          [] modifiable /\ (IF full_load THEN access = 8 ELSE access # 0) -> [code |-> copy, reg |-> temp]
          [] OTHER -> [code |-> <<>>, reg |-> src]

ExtendFrom32(dest, src, byte) ==            \* a bug: the shift is for a word of 32 bits
    <<Shift("SLLI", dest, src, 32 - 8 * byte), Shift("SRAI", dest, dest, 32 - 8 * byte)>>
sign_extend_register(dest, src, byte) ==
    CASE byte = 4 -> <<Three("ADDW", dest, src, zero)>>
      [] byte = 8 -> <<>>
      [] OTHER -> <<Shift("SLLI", dest, src, 64 - 8 * byte), Shift("SRAI", dest, dest, 64 - 8 * byte)>>

-----------------------------------------------------------------------------
(* load_immediate: the constant is cut into packages from the top, bits    *)
(* that only repeat the sign are left to a shift.  A scan s has the bit it *)
(* is at, the packages so far, the shift behind each, and whether the      *)
(* first is wide enough for LUI.                                           *)

EqualDigits(imm, bit) ==
    LET changes == {b \in 0..(bit - 1) : (b \in imm) # (bit \in imm)}
    IN  IF changes = {} THEN bit + 1 ELSE bit - Max(changes)

\* How many bits the next package has, how many above it are left out, and
\* the bit the scan goes on at.
Cut(digits, equal, bit) == [digits |-> digits, equal |-> equal, bit |-> bit]
PackageCut(imm, s) ==
    LET first == s.packages = <<>>
        run == EqualDigits(imm, s.bit)
        short == Len(s.packages) = 1 /\ s.lui /\ run <= 12
        equal == IF short THEN 0 ELSE run - 1
        bit == s.bit - equal - 1
        digits == bit + 2
    IN  CASE digits < 12 -> IF digits + equal > 12 THEN Cut(12, digits + equal - 12, -1)
                            ELSE Cut(digits + equal, 0, -1)
          [] digits = 12 -> Cut(12, equal, bit - 11)
          [] digits >= 32 /\ first -> Cut(20, equal, digits - 21)
          [] digits \in 13..31 /\ first /\ digits + equal >= 32 -> Cut(20, digits + equal - 32, 11)
          [] OTHER -> Cut(12, equal, digits - 13)

\* A package that will be sign-extended flips those above it when it is
\* loaded: the one before it is stored inverted.
Uninverted(packages) == packages                \* a bug: it is not
WithInverted(packages) == [packages EXCEPT ![Len(packages)] = Field(Complement(@), 0, 32)]
NextPackage(imm, s) ==
    LET c == PackageCut(imm, s)
        number == Len(s.packages) + 1
        negative == s.bit \in imm /\ c.digits = 12 /\ number > 1
        package == Field(imm, c.bit + 1, c.digits)
        lui == s.lui \/ (number = 1 /\ c.digits = 20)
        shift == c.digits + c.equal - (IF lui /\ number = 2 THEN 12 ELSE 0)
    IN  [bit |-> c.bit, lui |-> lui,
         packages |-> Append(IF negative THEN WithInverted(s.packages) ELSE s.packages, package),
         shifts |-> IF number > 1 THEN Append(s.shifts, shift) ELSE s.shifts]

RECURSIVE Packages(_, _)
Packages(imm, s) == IF s.bit < 0 THEN s ELSE Packages(imm, NextPackage(imm, s))

RECURSIVE LoadPackages(_, _, _)
LoadPackages(s, n, dest) ==
    LET package == s.packages[n]
        load == CASE n = 1 /\ s.lui -> <<Inst("LUI", dest, 0, 0, 0, package)>>
                  [] n = 1 /\ ~s.lui -> <<Immediate("XORI", dest, zero, package)>>
                  [] OTHER -> IF package = {} THEN <<>> ELSE <<Immediate("XORI", dest, dest, package)>>
        shift == IF n < Len(s.packages) /\ s.shifts[n] > 0
                 THEN <<Shift("SLLI", dest, dest, s.shifts[n])>> ELSE <<>>
    IN  load \o shift \o (IF n = Len(s.packages) THEN <<>> ELSE LoadPackages(s, n + 1, dest))

load_immediate(imm, dest) ==
    LoadPackages(Packages(imm, [bit |-> 63, lui |-> FALSE, packages |-> <<>>, shifts |-> <<>>]), 1, dest)

-----------------------------------------------------------------------------
(* load_address: always eight instructions, so that the code can be        *)
(* replaced in place.  A package is added sign-extended, and one that      *)
(* counts as negative is made up for in the package above it.              *)

Above(p, high) == IF p \cap high..31 # {} THEN {0} ELSE {}
load_address(ptr, dest) ==
    LET p0 == Field(ptr, 0, 8)
        p1 == Field(ptr, 8, 12)
        p2 == Add(Field(ptr, 20, 12), Above(p1, 11))
        p3 == Add(Field(ptr, 32, 12), Above(p2, 11))
        p4 == Add(Field(ptr, 44, 20), Above(p3, 11))
        add(p) == Immediate("ADDI", dest, dest, p)
    IN  <<Inst("LUI", dest, 0, 0, 0, p4), add(p3), Shift("SLLI", dest, dest, 12),
          add(p2), Shift("SLLI", dest, dest, 12), add(p1), Shift("SLLI", dest, dest, 8), add(p0)>>

-----------------------------------------------------------------------------
(* The jump table: the numbers of the entries, by enum Entry, where an     *)
(* operation on flags has one for each operand size, and the jumps         *)

SingleEntries == <<
    "virtual_syscall", "reroute_static", "reroute_dynamic", "reroute_return", "debug_callback",
    "debug_callback_riscv", "c_wrapper", "unsupported_instruction", "unsupported_carry",
    "unsupported_overflow", "high_level_carry", "high_level_overflow",
    "carry_clear", "carry_set", "overflow_clear", "overflow_set">>
SizedEntries == <<
    "carry_add", "carry_adc", "carry_neg", "overflow_add", "overflow_adc", "overflow_add_pos",
    "overflow_add_neg", "overflow_sub", "overflow_inc", "overflow_dec">>
NumberOf(name, names) == CHOOSE n \in DOMAIN names : names[n] = name
Entry(name) == IF name \in {SingleEntries[n] : n \in DOMAIN SingleEntries}
               THEN NumberOf(name, SingleEntries) - 1
               ELSE Len(SingleEntries) + 4 * (NumberOf(name, SizedEntries) - 1)

EntrySwapped(entry, size) == entry + (CASE size = 8 -> 2 [] size = 4 -> 3 [] size = 2 -> 1 [] size = 1 -> 0)   \* a bug
calculate_entries(entry, size) == entry + (CASE size = 8 -> 3 [] size = 4 -> 2 [] size = 2 -> 1 [] size = 1 -> 0)

\* An entry is one instruction.  An evaluation is jumped to by an offset
\* that was stored, the rest by the number of the entry.
jump_table_entry(entry) == <<Inst("JALR", ra, jump_table_address, 0, 0, Bits(4 * entry))>>
jump_table_offset(offset) ==
    <<Three("ADD", offset, jump_table_address, offset), Inst("JALR", ra, offset, 0, 0, {})>>

append_eob_static(ptr) == load_address(ptr, address_destination) \o jump_table_entry(Entry("reroute_static"))
append_eob_dynamic(reg) ==
    (IF reg = address_destination THEN <<>> ELSE <<PseudoUnary("MV", address_destination, reg)>>)
    \o jump_table_entry(Entry("reroute_dynamic"))

-----------------------------------------------------------------------------
(* Branches inside the code of an instruction.  They are counted in        *)
(* positions of the batch, of which the debugger takes the first for       *)
(* itself, and when it steps one in front of every instruction but the     *)
(* first (DebuggerBatch::add).                                             *)

PositionOf(n, step) == IF step THEN 2 * n - 1 ELSE n
SizeAfter(n, step) == IF step /\ n > 0 THEN 2 * n ELSE n + 1

offset(start, end, step) ==
    LET odd(n) == n % 2 = 1
    IN  CASE ~step \/ start = end -> end - start
          [] step /\ odd(start) /\ start # end -> IF odd(end) THEN end - start - 1 ELSE end - start
          [] step /\ ~odd(start) /\ start # end ->
                 IF odd(end) /\ end < start THEN end - start - 2 ELSE end - start - 1

\* A placeholder is replaced by a branch forwards to the end of the batch,
\* and a branch is added that goes back to an instruction or to a size.
HopOffset(form, from, to, step) ==
    CASE form = "forward" -> offset(PositionOf(from, step), SizeAfter(to - 1, step), step)
      [] form = "loop" -> offset(SizeAfter(from - 1, step), PositionOf(to, step), step)
      [] form = "finish" -> offset(SizeAfter(from - 1, step), SizeAfter(to - 1, step), step)

-----------------------------------------------------------------------------
(* The code that replaces the end of a block, in the place of a            *)
(* load_address and its jump: CodeMemory and update_basic_block            *)

\* step_riscv puts a jump to the debugger behind every instruction.
CodeMemoryAdded(code, step) ==
    IF step THEN [k \in 1..(2 * Len(code)) |-> IF k % 2 = 1 THEN code[(k + 1) \div 2] ELSE jump_table_entry(Entry("debug_callback_riscv"))[1]]
            ELSE code
BatchSize(step) == IF step THEN 17 ELSE 9

\* The upper part is rounded so that the signed lower part gets back.
NearRounded(diff) == [hi |-> Field(diff, 12, 20), lo |-> Field(diff, 0, 12)]   \* a bug: it is not
Near(diff) ==
    LET hi == ShiftRight(diff, 12)
    IN  [hi |-> IF 11 \in diff THEN Add(hi, {0}) ELSE hi, lo |-> Field(diff, 0, 12)]
IsNear(diff) == ~Below(Bits(2147483647), IF 63 \in diff THEN Minus(diff) ELSE diff)

ExitCode(start, target) ==
    LET diff == Subtract(target, start)
        near == Near(diff)
        jump(lo) == Inst("JALR", zero, address_destination, 0, 0, lo)
    IN  IF IsNear(diff)
        THEN <<Inst("AUIPC", address_destination, 0, 0, 0, near.hi), jump(near.lo)>>
        ELSE Append(load_immediate(target, address_destination), jump({}))

\* More code than the memory takes is a fault of the program.
update_basic_block(start, target, step) ==
    LET code == CodeMemoryAdded(ExitCode(start, target), step)
    IN  [code |-> code, fault |-> Len(code) > BatchSize(step)]
=============================================================================
