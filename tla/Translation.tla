----------------------------- MODULE Translation -----------------------------
(***************************************************************************)
(* A guest processor and the translated code, one instruction at a time.   *)
(* Registers and memory must stay equal; a flag is compared through the    *)
(* code that evaluates it, and only while it is fresh: while the last      *)
(* instruction that changes it was told to store its operands, which is    *)
(* what FlagPrediction decides.                                            *)
(***************************************************************************)
EXTENDS Conditions, Shifts, Products, Moves, Strings

CONSTANTS
    Instructions,   \* what may run when n instructions are left; i.update: what i is
                    \* told to update
    Starts,         \* rax, rcx, rdx, and the number of instructions to run from there
    Base, Offset,   \* what rdi and rsi hold
    Stack, Frame,   \* what rsp and rbp hold
    Memory,         \* what the word at the address of each operand holds at first: words
                    \* at different addresses do not overlap
    MaxRepeat,      \* how often a string instruction repeats (bound)
    Leftovers,      \* what a temporary may hold when an instruction starts
    Admitted        \* the defects whose instructions are run nevertheless

X == INSTANCE X86

VARIABLES
    host,    \* the host machine
    guest,   \* the processor that is emulated
    fresh,   \* the flags whose stored operands are current
    left     \* how many more instructions run

vars == <<host, guest, fresh, left>>

-----------------------------------------------------------------------------
(* What the instruction classes declare. *)

RequiresOf(cc) ==
    CASE cc \in {"a", "be"} -> {"carry", "zero"}
      [] cc \in {"c", "nc"} -> {"carry"}
      [] cc \in {"g", "le"} -> {"zero", "sign", "overflow"}
      [] cc \in {"ge", "l"} -> {"sign", "overflow"}
      [] cc \in {"o", "no"} -> {"overflow"}
      [] cc \in {"p", "np"} -> {"parity"}
      [] cc \in {"s", "ns"} -> {"sign"}
      [] cc \in {"z", "nz"} -> {"zero"}
      [] cc \in {"cxz", "ecxz"} -> {}

Requires(i) == CASE i.op \in {"jcc", "setcc", "cmov"} -> RequiresOf(i.cc)
                 [] i.op = "adc" -> {"carry"}
                 [] OTHER -> {}

Updates(op) == CASE op \in {"jcc", "setcc", "cmov", "not", "nop"} -> {}
                 [] op \in {"mov", "movsx", "movzx", "lea", "cex", "csep", "push", "pop",
                            "leave", "movs", "stos", "lods"} -> {}
                 [] op \in {"inc", "dec"} -> X!Flags \ {"carry"}
                 [] op \in {"stc", "clc", "bt", "btc", "btr", "bts"} -> {"carry"}
                 [] op \in {"rol", "ror"} -> {"carry", "overflow"}
                 [] OTHER -> X!Flags

GenerateOther(m, i) ==
    CASE i.op \in {"mul", "imul", "imul2", "imul3"} -> Mul(m, i)
      [] i.op \in {"div", "idiv"} -> Idiv(m, i)
      [] i.op = "movsx" -> Movsx(m, i)
      [] i.op = "movzx" -> Movzx(m, i)
      [] i.op = "lea" -> Lea(m, i)
      [] i.op = "cex" -> Cex(m, i.dst.size)
      [] i.op = "csep" -> CSep(m, i.dst.size)
      [] i.op = "push" -> Push(m, i)
      [] i.op = "pop" -> Pop(m, i)
      [] i.op = "leave" -> LeaveFrame(m)
      [] i.op = "nop" -> m
      [] i.op \in {"movs", "stos", "lods"} -> Repeatable(m, i)
      [] i.op \in {"cmps", "scas"} -> RepeatableFlag(m, i)
Generate(m, i) ==
    CASE i.op \in {"add", "adc", "sub", "and", "or", "xor"} -> BinaryOperation(m, i)
      [] i.op \in {"shl", "shr", "sar"} ->
             IF i.src.type = "imm" THEN BinaryOperation(m, i) ELSE ShiftCl(m, i)
      [] i.op \in {"cmp", "test"} -> Comparable(m, i)
      [] i.op \in {"inc", "dec", "neg", "not"} -> UnaryOperation(m, i)
      [] i.op = "mov" -> Mov(m, i)
      [] i.op \in {"rol", "ror"} -> Rotation(m, i)
      [] i.op = "bt" -> Bt(m, i)
      [] i.op \in {"btc", "btr", "bts"} -> BitTest(m, i)
      [] i.op = "stc" -> Stc(m)
      [] i.op = "clc" -> Clc(m)
      [] i.op = "jcc" -> Jcc(m, i.cc)
      [] i.op = "setcc" -> Setcc(m, i)
      [] i.op = "cmov" -> Cmov(m, i)
      [] OTHER -> GenerateOther(m, i)

-----------------------------------------------------------------------------

Registers(s) == [rax |-> s.rax, rcx |-> s.rcx, rdx |-> s.rdx, rsp |-> Stack,
                 rbp |-> Frame, rsi |-> Offset, rdi |-> Base]

Init ==
    \E s \in Starts :
        LET reg == Registers(s)
        IN  /\ guest = [reg |-> reg, mem |-> Memory, carry |-> 0, overflow |-> 0,
                        zero |-> 0, sign |-> 0, parity |-> 0, branch |-> FALSE, raised |-> FALSE]
            /\ host = [reg |-> [r \in X!GuestRegisters \cup Temporaries |->
                                   IF r \in Temporaries THEN 0 ELSE reg[r]],
                       mem |-> Memory, info |-> InitialInfo, update |-> {}, junk |-> 0,
                       branch |-> FALSE, stray |-> FALSE, fault |-> FALSE, raised |-> FALSE]
            /\ fresh = X!Flags
            /\ left = s.left

\* The temporaries hold leftovers when an instruction starts; what it leaves
\* in them itself is forgotten.
Prepared(i, junk) ==
    Clobber([host EXCEPT !.update = i.update, !.junk = junk, !.branch = FALSE], Temporaries)
Settled(m) ==
    Clobber([m EXCEPT !.update = {}, !.junk = 0], Temporaries)

\* Left out: what a division takes for granted and does not test (idiv.cpp:36,
\* 51, 55-79: nothing stands in rax above an operand of two or four bytes, a
\* dividend of eight is rax alone, and a quotient fits, except for the smallest
\* number divided by -1), and longer repetitions.
Suited(i) ==
    LET extended == guest.reg["rdx"] = IF i.op = "idiv" /\ Signed(guest.reg["rax"], 8) < 0
                                       THEN 2 ^ Bits(8) - 1 ELSE 0
    IN  /\ i.op \in {"div", "idiv"} =>
               /\ i.dst.size = 8 => extended
               /\ i.dst.size \in {2, 4} /\ "dividendAbove" \notin Admitted =>
                      guest.reg["rax"] < 2 ^ Bits(i.dst.size)
               /\ X!Divisor(guest, i) # 0 /\ ~X!QuotientFits(guest, i) =>
                      X!Divisor(guest, i) = -1 /\ X!Dividend(guest, i) = X!LeastDividend(i.dst.size)
        /\ i.cc \in {"rep", "repz", "repnz"} => guest.reg["rcx"] <= MaxRepeat

\* The prediction lets i run only if the flags i declares to read are fresh.
Execute(i) ==
    /\ ~host.fault /\ ~guest.raised
    /\ Suited(i)
    /\ Requires(i) \subseteq fresh
    /\ \E junk \in Leftovers : host' = Settled(Generate(Prepared(i, junk), i))
    /\ guest' = X!Step(guest, i)
    /\ fresh' = (fresh \ Updates(i.op)) \cup i.update
    /\ left' = left - 1

Next == left > 0 /\ \E i \in Instructions[left] : Execute(i)

Spec == Init /\ [][Next]_vars

-----------------------------------------------------------------------------
(* Properties *)

\* Translated code leaves registers and memory as the processor does: the
\* widths of operands, the registers that carry intermediate values, and the
\* address that is computed once and used twice do not get into each other's
\* way (binary_operation.cpp, instruction.cpp:51-113, helper.cpp:7-90).
StateAgrees ==
    ~host.fault => /\ \A r \in X!GuestRegisters : host.reg[r] = guest.reg[r]
                   /\ host.mem = guest.mem
                   /\ ~host.stray

\* A division raises the divide exception exactly when the processor does:
\* for a zero however the divisor's bits are extended, and for the smallest
\* dividend of each width divided by -1 (idiv.cpp:16-19, 55-79).
RaisesAgree == ~host.fault => host.raised = guest.raised

\* What a reader would compute for a fresh flag is the processor's flag,
\* however long ago the operands were stored and whatever the instructions
\* since then have stored for other flags; a flag the translator does not
\* support may be anything, for reading it ends the program
\* (instruction.cpp:346-530, flags_carry.inc.s, flags_overflow.inc.s).
FlagAgrees(f) ==
    LET z == EvaluateZero(host, "t4")
        s == EvaluateSign(host, "t4", "t0")
        p == EvaluateParity(host, "t4", "t5")
        c == EvaluateCarry(host)
        o == EvaluateOverflow(host)
    IN  CASE f = "zero" -> z.reg["t4"] = guest.zero
          [] f = "sign" -> s.reg["t4"] = guest.sign
          [] f = "parity" -> p.reg["t4"] = guest.parity
          [] f = "carry" -> c.fault \/ c.reg["t4"] = guest.carry
          [] f = "overflow" -> o.fault \/ o.reg["t4"] = guest.overflow
FlagsAgree ==
    ~host.fault =>
        /\ \A f \in fresh : FlagAgrees(f)
        /\ \A f \in fresh \cap print_flags(host.info) : guest[f] = 1
        /\ \A f \in fresh \cap {"zero", "parity"} : guest[f] = 1 => f \in print_flags(host.info)

\* A conditional jump leaves the block exactly when the processor branches,
\* although each flag is evaluated in registers the others use, and the flags
\* a class does not declare to read are stale (jcc.cpp:23-311).
BranchAgrees == ~host.fault => host.branch = guest.branch
=============================================================================
