------------------------------- MODULE HostCode -------------------------------
(***************************************************************************)
(* Code for the host, from a request to the translator's lowest layer to   *)
(* what the processor does with it, at the full width of 64 bits.  A       *)
(* request is turned into instructions, encoded, laid out in memory, and   *)
(* executed a word at a time.  The end of a block is also executed, finds  *)
(* the dispatcher, is replaced in place, and is executed again.            *)
(***************************************************************************)
EXTENDS HelperCode, Display, Hart

LOCAL INSTANCE TLC

CONSTANTS Requests,     \* what is asked for
          Start,        \* where the code is put
          TableBase,    \* the address of the jump table
          Junk          \* what a register holds that nothing was put into

VARIABLES request, code, hart, phase

vars == <<request, code, hart, phase>>

Live == {ra, sp, t0, t1, 10, 17, jump_table_address, address_destination}

-----------------------------------------------------------------------------
(* The jump table in assembly: a jump for every entry, in this order *)

SingleHandlers == <<
    "syscall_handler", "reroute_static", "reroute_dynamic", "reroute_return", "debug_entry",
    "debug_entry_riscv", "c_wrapper", "handle_unsupported_instruction", "unsupported_carry",
    "unsupported_overflow", "high_level_carry", "high_level_overflow",
    "carry_clear", "carry_set", "overflow_clear", "overflow_set">>
SizedHandlers == <<
    "carry_add", "carry_adc", "carry_neg", "overflow_add", "overflow_adc", "overflow_add_pos",
    "overflow_add_neg", "overflow_sub", "overflow_inc", "overflow_dec">>
Slots == Len(SingleHandlers) + 4 * Len(SizedHandlers)
SlotAddress(k) == Add(TableBase, Bits(4 * k))
Handler(k) ==
    LET n == k - Len(SingleHandlers)
    IN  IF n < 0 THEN <<SingleHandlers[k + 1], 8>>
        ELSE <<SizedHandlers[n \div 4 + 1], <<1, 2, 4, 8>>[(n % 4) + 1]>>
At(handler) == \E k \in 0..(Slots - 1) : hart.pc = SlotAddress(k) /\ Handler(k)[1] = handler

-----------------------------------------------------------------------------
(* The code of a request *)

\* A block's end, as the debugger's batch writes it when it steps: a jump in
\* front of every instruction but the first.
BlockEnd(guest, step) ==
    LET end == append_eob_static(guest)
        debug == jump_table_entry(Entry("debug_callback_riscv"))[1]
    IN  IF step THEN [k \in 1..(2 * Len(end) - 1) |-> IF k % 2 = 1 THEN end[(k + 1) \div 2] ELSE debug]
        ELSE end

CodeFor(r) ==
    CASE r.kind = "word" -> <<r.inst>>
      [] r.kind = "unary" -> <<PseudoUnary(r.name, r.rd, r.rs1)>>
      [] r.kind = "branch" -> <<PseudoBranch(r.name, r.rs1, r.rs2, r.offset)>>
      [] r.kind = "immediate" -> load_immediate(r.value, t0)
      [] r.kind = "address" -> load_address(r.value, t0)
      [] r.kind = "move" -> move_to_register(17, r.src, r.access, t1, r.cleared)
      [] r.kind = "load" -> load_from_register(17, r.access, t1, r.modifiable, r.full, r.sign).code
      [] r.kind = "extend" -> sign_extend_register(t1, 17, r.byte)
      [] r.kind = "entry" -> jump_table_entry(Entry(r.name))
      [] r.kind = "offset" -> jump_table_offset(t0)
      [] r.kind = "dynamic" -> append_eob_dynamic(r.src)
      [] r.kind = "hop" -> <<Branch("BEQ", zero, zero, Number(4 * HopOffset(r.form, r.from, r.to, r.step)))>>
      [] r.kind = "exit" -> BlockEnd(r.guest, r.step)

\* What the registers hold that the request is about.
RegistersOf(r) ==
    CASE r.kind \in {"unary", "branch", "move", "load", "extend", "dynamic"} -> r.reg
      [] r.kind = "offset" -> [n \in {t0} |-> Bits(4 * calculate_entries(Entry(r.name), r.size))]
      [] OTHER -> [n \in {} |-> {}]

Layout(list, start) ==
    LET at(n) == Add(start, Bits(4 * (n - 1)))
    IN  [a \in {at(n) : n \in DOMAIN list} |-> Encode(list[CHOOSE n \in DOMAIN list : at(n) = a])]

Machine(r) ==
    [pc |-> Start,
     reg |-> [n \in Live |-> IF n = jump_table_address THEN TableBase
                             ELSE IF n \in DOMAIN RegistersOf(r) THEN RegistersOf(r)[n] ELSE Junk]]

-----------------------------------------------------------------------------
Init == /\ request = [kind |-> "none"]
        /\ code = [a \in {} |-> {}]
        /\ hart = [pc |-> {}, reg |-> [n \in Live |-> Junk]]
        /\ phase = "idle"

Ask(r) ==
    /\ phase = "idle"
    /\ request' = r
    /\ code' = Layout(CodeFor(r), Start)
    /\ hart' = Machine(r)
    /\ phase' = IF r.kind = "word" THEN "printed" ELSE "running"

Step ==
    /\ phase \in {"running", "again"}
    /\ hart.pc \in DOMAIN code
    /\ hart' = Execute(Fetch(code[hart.pc]), hart)
    /\ UNCHANGED <<request, code, phase>>

\* debug_entry_riscv returns behind the jump that called it.
DebuggerReturns ==
    /\ phase \in {"running", "again"}
    /\ request.kind = "exit"
    /\ At("debug_entry_riscv")
    /\ hart' = [hart EXCEPT !.pc = Reg(hart, ra)]
    /\ UNCHANGED <<request, code, phase>>

\* The dispatcher translates the block and replaces the end of this one: ra
\* is behind it.  Then it goes on at the new block.
Reroute ==
    /\ phase = "running"
    /\ request.kind = "exit"
    /\ At("reroute_static")
    /\ LET size == 4 * BatchSize(request.step)
           start == Subtract(Reg(hart, ra), Bits(size))
           update == update_basic_block(start, request.target, request.step)
       IN  /\ code' = Layout(update.code, start) @@ code
           /\ phase' = IF update.fault THEN "fault" ELSE "patched"
    /\ hart' = [hart EXCEPT !.pc = request.target]
    /\ UNCHANGED request

\* The guest comes back to the block.
Reenter ==
    /\ phase = "patched"
    /\ hart' = [pc |-> Start, reg |-> [hart.reg EXCEPT ![address_destination] = Junk]]
    /\ phase' = "again"
    /\ UNCHANGED <<request, code>>

Next == \/ \E r \in Requests : Ask(r)
        \/ Step
        \/ DebuggerReturns
        \/ Reroute
        \/ Reenter

Spec == Init /\ [][Next]_vars

Stopped == phase \in {"running", "again"} /\ hart.pc \notin DOMAIN code

-----------------------------------------------------------------------------
(* What the comments of the headers promise *)

\* encoding.h, Pseudoinstructions
UnaryMeaning(p, s) ==
    CASE p = "MV" -> s
      [] p = "NOT" -> Complement(s)
      [] p = "NEG" -> Minus(s)
      [] p = "SEQZ" -> Flag(s = {})
      [] p = "SNEZ" -> Flag(s # {})
      [] p = "SLTZ" -> Flag(63 \in s)
      [] p = "SGTZ" -> Flag(s # {} /\ 63 \notin s)
BranchTaken(p, a, b) ==
    CASE p = "BEQZ" -> a = {}
      [] p = "BNQZ" -> a # {}
      [] p = "BLEZ" -> a = {} \/ 63 \in a
      [] p = "BGEZ" -> 63 \notin a
      [] p = "BLTZ" -> 63 \in a
      [] p = "BGTZ" -> a # {} /\ 63 \notin a
      [] p = "BGT" -> BelowSigned(b, a)
      [] p = "BLE" -> ~BelowSigned(b, a)
      [] p = "BGTU" -> Below(b, a)
      [] p = "BLEU" -> ~Below(b, a)
      [] p = "J" -> TRUE

\* The operand in the width of the access, and what a write of it leaves.
OperandOf(v, access, sign) ==
    LET low == IF access = 0 THEN Field(v, 8, 8) ELSE Field(v, 0, 8 * access)
    IN  IF sign THEN Extend(low, IF access = 0 THEN 8 ELSE 8 * access) ELSE low
Written(old, v, access) ==
    CASE access \in {4, 8} -> Field(v, 0, 8 * access)
      [] access \in {1, 2} -> (old \ (0..(8 * access - 1))) \cup Field(v, 0, 8 * access)
      [] access = 0 -> (old \ (8..15)) \cup Place(v, 8, 8)

-----------------------------------------------------------------------------
(* Properties *)

\* The processor reads back, from the word of every operation, that
\* operation with its registers and its immediate (encoding.cpp:6-577).
WordReadsBack == phase = "printed" => Fetch(code[Start]) = request.inst

\* What is printed for a word of an integer operation is the operation the
\* processor executes, with its operands and the guest's name of a register
\* the guest's is kept in (decoding.cpp, with map_reg in helper.h).
NameOf(n) == IF \E g \in DOMAIN map_reg : map_reg[g] = n
             THEN CHOOSE g \in DOMAIN map_reg : map_reg[g] = n
             ELSE RegisterString[n + 1]
Names(text, n) == IF text = "" THEN n = zero ELSE text = NameOf(n)
Shows(l, i) ==
    /\ l.op = i.op
    /\ Names(l.rd, i.rd) /\ Names(l.rs2, i.rs2)
    /\ \/ /\ Names(l.rs1, i.rs1)
          /\ i.imm = IF l.number.minus THEN Minus(l.number.digits) ELSE l.number.digits
       \/ /\ i.rs1 = s11
          /\ \E field \in l.place : i.imm = Bits(InfoOffset[field])
DisplayAgrees ==
    phase = "printed" /\ request.inst.op \in DOMAIN Integer \cup {"FLW", "FLD"} =>
        Shows(parse_riscv(code[Start]), request.inst)

\* load_immediate and load_address leave the value in the register, whatever
\* it held (helper.cpp:94-228).
ImmediateLoaded ==
    Stopped /\ request.kind \in {"immediate", "address"} => hart.reg[t0] = request.value

\* A pseudo-instruction does what its comment says.
PseudoMeans ==
    /\ Stopped /\ request.kind = "unary" =>
           hart.reg[request.rd] = UnaryMeaning(request.name, request.reg[request.rs1])
    /\ Stopped /\ request.kind = "branch" =>
           hart.pc = IF BranchTaken(request.name, request.reg[request.rs1], request.reg[request.rs2])
                     THEN Add(Start, request.offset) ELSE Add(Start, {2})

\* Moving, loading and extending an operand yield the operand in its width
\* and keep what is beside it, and the source (helper.cpp:8-92, 241-252); and
\* so do the pseudo-instructions they are written with (encoding.h:718-843,
\* encoding.cpp:579-679).
HelpersAgree ==
    /\ PseudoMeans
    /\ Stopped =>
        /\ request.kind = "move" =>
               /\ hart.reg[17] = Written(request.reg[17], request.reg[request.src], request.access)
               /\ request.src \notin {17, t1} => hart.reg[request.src] = request.reg[request.src]
        /\ request.kind = "load" =>
               LET found == load_from_register(17, request.access, t1, request.modifiable, request.full, request.sign).reg
                   size == IF request.access = 0 THEN 8 ELSE 8 * request.access
                   want == OperandOf(request.reg[17], request.access, request.sign)
               IN  /\ IF request.full THEN hart.reg[found] = want
                                      ELSE Field(hart.reg[found], 0, size) = Field(want, 0, size)
                   /\ hart.reg[17] = request.reg[17]
                   /\ request.modifiable => found # 17
        /\ request.kind = "extend" /\ request.byte < 8 =>
               hart.reg[t1] = OperandOf(request.reg[17], request.byte, TRUE)

\* A jump through the table arrives at the handler of the entry that was
\* asked for, in the size asked for (jump_table.h:13-75 against the order of
\* jump_table.s); a branch inside an instruction's code at the instruction it
\* was meant for, or at the debugger's jump in front of it, whatever the
\* debugger has put between (debugger.cpp:36-50).
HandlerOf(name) ==
    CASE name = "virtual_syscall" -> "syscall_handler"
      [] name = "debug_callback" -> "debug_entry"
      [] name = "debug_callback_riscv" -> "debug_entry_riscv"
      [] name = "unsupported_instruction" -> "handle_unsupported_instruction"
      [] OTHER -> name
HopLands(r) ==
    LET distance == PositionOf(r.to, r.step) - PositionOf(r.from, r.step)
    IN  hart.pc \in {Add(Start, Number(4 * d)) :
                        d \in IF r.step /\ r.to > 1 THEN {distance, distance - 1} ELSE {distance}}
JumpsLand ==
    /\ Stopped /\ request.kind = "hop" => HopLands(request)
    /\ Stopped /\ request.kind \in {"entry", "offset", "dynamic"} =>
        \E k \in 0..(Slots - 1) :
            /\ hart.pc = SlotAddress(k)
            /\ CASE request.kind = "entry" -> Handler(k)[1] = HandlerOf(request.name)
                 [] request.kind = "offset" -> Handler(k) = <<request.name, request.size>>
                 [] request.kind = "dynamic" -> /\ Handler(k)[1] = "reroute_dynamic"
                                                /\ hart.reg[t3] = request.reg[request.src]

\* The end of a block hands the dispatcher the guest address it goes on at;
\* replaced in place it reaches the translation of that address, and the new
\* code fits where the old one was (codegen.cpp:173-200).  Not so for a
\* difference in the last 2 KB before 2^31: the rounded upper part is
\* negative there.
LastOfRange(diff) == diff \cap 11..63 = 11..30
ExitReaches ==
    /\ phase # "fault"
    /\ Stopped /\ request.kind = "exit" /\ ~At("debug_entry_riscv") =>
           IF phase = "running"
           THEN At("reroute_static") /\ hart.reg[address_destination] = request.guest
           ELSE hart.pc = request.target \/ LastOfRange(Subtract(request.target, Start))
=============================================================================
