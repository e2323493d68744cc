--------------------------------- MODULE X86 ---------------------------------
(***************************************************************************)
(* What a processor does with one guest instruction: the reference the     *)
(* translated code is compared with.  A guest state g has the registers,   *)
(* the memory, one field per flag, whether the last instruction branched,  *)
(* and whether it raised a divide exception.                               *)
(***************************************************************************)
EXTENDS Words

CONSTANTS Displacement,  \* that of an operand [rdi + disp32]
          Segment        \* the base of fs

Flags == {"carry", "overflow", "zero", "sign", "parity"}
GuestRegisters == {"rax", "rcx", "rdx", "rsp", "rbp", "rsi", "rdi"}

\* The address of each form of memory operand: within its segment, and in all.
Effective(reg, form) ==
    Wrap(CASE form \in {"base", "fs"} -> reg["rdi"]
           [] form = "index" -> reg["rdi"] + reg["rsi"]
           [] form = "far" -> reg["rdi"] + Displacement)
Address(reg, form) == Wrap(Effective(reg, form) + IF form = "fs" THEN Segment ELSE 0)

Value(g, o) ==
    CASE o.type = "reg" -> Low(g.reg[o.at], o.size)
      [] o.type = "high" -> SecondByte(g.reg[o.at])
      [] o.type = "mem" -> Low(g.mem[Address(g.reg, o.at)], o.size)
      [] o.type = "imm" -> Low(o.at, o.size)

\* A four-byte register is written with zeros above, a shorter one alone.
Write(g, o, v) ==
    CASE o.type = "reg" /\ o.size >= 4 -> [g EXCEPT !.reg[o.at] = Low(v, o.size)]
      [] o.type = "reg" /\ o.size < 4 -> [g EXCEPT !.reg[o.at] = Merge(@, v, o.size)]
      [] o.type = "high" -> [g EXCEPT !.reg[o.at] = MergeSecond(@, v)]
      [] o.type = "mem" -> [g EXCEPT !.mem[Address(g.reg, o.at)] = Merge(@, v, o.size)]

Condition(g, cc) ==
    CASE cc = "o" -> g.overflow = 1              [] cc = "no" -> g.overflow = 0
      [] cc = "c" -> g.carry = 1                 [] cc = "nc" -> g.carry = 0
      [] cc = "z" -> g.zero = 1                  [] cc = "nz" -> g.zero = 0
      [] cc = "be" -> g.carry = 1 \/ g.zero = 1  [] cc = "a" -> g.carry = 0 /\ g.zero = 0
      [] cc = "s" -> g.sign = 1                  [] cc = "ns" -> g.sign = 0
      [] cc = "p" -> g.parity = 1                [] cc = "np" -> g.parity = 0
      [] cc = "l" -> g.sign # g.overflow         [] cc = "ge" -> g.sign = g.overflow
      [] cc = "le" -> g.zero = 1 \/ g.sign # g.overflow
      [] cc = "g" -> g.zero = 0 /\ g.sign = g.overflow
      [] cc = "cxz" -> g.reg["rcx"] = 0
      [] cc = "ecxz" -> Low(g.reg["rcx"], 4) = 0

\* The result of an operation on the values a (destination) and b (source).
Result(op, a, b, c, size) ==
    CASE op = "add" -> a + b                [] op = "adc" -> a + b + c
      [] op \in {"sub", "cmp"} -> a - b     [] op \in {"and", "test"} -> BitAnd(a, b)
      [] op = "or" -> BitOr(a, b)                 [] op = "xor" -> BitXor(a, b)
      [] op = "inc" -> a + 1                [] op = "dec" -> a - 1
      [] op = "neg" -> -a                   [] op = "not" -> -a - 1
      [] op \in {"mov", "movzx"} -> b

\* Carry: the unsigned result leaves the width.  Overflow: the signed one does.
Unsigned == {"add", "adc", "sub", "cmp", "neg"}
Logic == {"and", "test", "or", "xor"}
Arithmetic(g, op, a, b, size) ==
    LET v == Result(op, a, b, g.carry, size)
        s == Result(op, Signed(a, size), Signed(b, size), g.carry, size)
    IN  [g EXCEPT
          !.carry = IF op \in Unsigned THEN Bool(v # Low(v, size))
                    ELSE IF op \in Logic THEN 0 ELSE @,
          !.overflow = IF op \in Unsigned \cup {"inc", "dec"} THEN Bool(~Fits(s, size))
                       ELSE IF op \in Logic THEN 0 ELSE @,
          !.zero = Bool(Low(v, size) = 0),
          !.sign = Bool(Signed(v, size) < 0),
          !.parity = EvenOnes(v)]

-----------------------------------------------------------------------------
(* Shifts, rotations, bits.  Carry and overflow of a shift and a rotation  *)
(* are left as they are: translated code cannot read them.  The count is   *)
(* in the low bits of cl, which with narrow bytes are bits of rcx.         *)

Count(g, i) == (IF i.src.type = "imm" THEN i.src.at ELSE g.reg["rcx"])
               % Bits(IF i.dst.size = 8 THEN 8 ELSE 4)

Shift(g, i) ==
    LET size == i.dst.size
        a == Value(g, i.dst)
        n == Count(g, i)
        v == CASE i.op = "shl" -> a * 2 ^ n
               [] i.op = "shr" -> a \div 2 ^ n
               [] i.op = "sar" -> Signed(a, size) \div 2 ^ n
        f == [g EXCEPT !.zero = Bool(Low(v, size) = 0), !.sign = Bool(Signed(v, size) < 0),
                       !.parity = EvenOnes(v)]
    IN  Write(IF n = 0 THEN g ELSE f, i.dst, v)

Rotate(g, i) ==
    LET bits == Bits(i.dst.size)
        a == Value(g, i.dst)
        left == (IF i.op = "rol" THEN Count(g, i) ELSE -Count(g, i)) % bits
    IN  Write(g, i.dst, a * 2 ^ left + a \div 2 ^ (bits - left))

TestBit(g, i) ==
    LET a == Value(g, i.dst)
        bit == 2 ^ (Value(g, i.src) % Bits(i.dst.size))
        set == (a \div bit) % 2
        f == [g EXCEPT !.carry = set]
    IN  CASE i.op = "bt" -> f
          [] i.op = "btc" -> Write(f, i.dst, BitXor(a, bit))
          [] i.op = "btr" -> Write(f, i.dst, a - set * bit)
          [] i.op = "bts" -> Write(f, i.dst, BitOr(a, bit))

-----------------------------------------------------------------------------
(* Products and quotients; the flags a product defines cannot be read by   *)
(* translated code, those of a division are undefined.                     *)

Long(r) == [type |-> "reg", at |-> r, size |-> 8]
Short(r, size) == [type |-> "reg", at |-> r, size |-> size]
AH == [type |-> "high", at |-> "rax", size |-> 1]

\* Into rdx:rax, or into ax; into a register.
Multiply(g, i) ==
    LET size == i.dst.size
        a == Low(g.reg["rax"], size)
        b == Value(g, i.dst)
        signed == Signed(a, size) * Signed(b, size)
        low == IF size < 8 /\ i.op = "mul" THEN a * b ELSE signed
        high == IF size < 8 THEN low \div 2 ^ Bits(size)
                ELSE IF i.op = "mul" THEN HighProduct(a, b) ELSE signed \div 2 ^ Bits(8)
    IN  IF size = 1 THEN Write(g, Short("rax", 2), low)
        ELSE Write(Write(g, Short("rax", size), low), Short("rdx", size), high)
MultiplyInto(g, i) ==
    LET size == i.dst.size
        by == IF i.op = "imul2" THEN Value(g, i.dst) ELSE Value(g, i.third)
    IN  Write(g, i.dst, Signed(by, size) * Signed(Value(g, i.src), size))

\* Of eight bytes, rdx only extends rax (Suited in Translation).
Dividend(g, i) ==
    LET size == i.dst.size
        V(r, n) == IF i.op = "idiv" THEN Signed(g.reg[r], n) ELSE Low(g.reg[r], n)
    IN  CASE size = 1 -> V("rax", 2)
          [] size \in {2, 4} -> V("rdx", size) * 2 ^ Bits(size) + Low(g.reg["rax"], size)
          [] size = 8 -> V("rax", 8)
Divisor(g, i) == IF i.op = "idiv" THEN Signed(Value(g, i.dst), i.dst.size) ELSE Value(g, i.dst)
LeastDividend(size) == -(2 ^ (Bits(IF size = 8 THEN 8 ELSE 2 * size) - 1))
QuotientFits(g, i) ==
    LET q == Quotient(Dividend(g, i), Divisor(g, i))
    IN  q = IF i.op = "idiv" THEN Signed(q, i.dst.size) ELSE Low(q, i.dst.size)
Divide(g, i) ==
    LET size == i.dst.size
        q == Quotient(Dividend(g, i), Divisor(g, i))
        r == Remainder(Dividend(g, i), Divisor(g, i))
    IN  IF Divisor(g, i) = 0 \/ ~QuotientFits(g, i) THEN [g EXCEPT !.raised = TRUE]
        ELSE Write(Write(g, Short("rax", size), q), IF size = 1 THEN AH ELSE Short("rdx", size), r)

-----------------------------------------------------------------------------
(* Extensions, addresses, the stack *)

\* cbw, cwde, cdqe and cwd, cdq, cqo, by the size of the result.
Extend(g, size) == Write(g, Short("rax", size), Signed(g.reg["rax"], size \div 2))
Separate(g, size) ==
    Write(g, Short("rdx", size), IF Signed(g.reg["rax"], size) < 0 THEN -1 ELSE 0)

Push(g, o) ==
    LET s == [g EXCEPT !.reg["rsp"] = Wrap(@ - o.size)]
    IN  [s EXCEPT !.mem[s.reg["rsp"]] = Merge(@, Value(g, o), o.size)]
Pop(g, o) == Write([g EXCEPT !.reg["rsp"] = Wrap(@ + o.size)], o, g.mem[g.reg["rsp"]])
Leave(g) ==
    Pop([g EXCEPT !.reg["rsp"] = g.reg["rbp"]], Long("rbp"))

-----------------------------------------------------------------------------
(* Strings: one element, and as often as the prefix says. *)

Advance(g, rs, size) ==
    [g EXCEPT !.reg = [r \in DOMAIN @ |-> IF r \in rs THEN Wrap(@[r] + size) ELSE @[r]]]
Element(g, i) ==
    LET size == i.dst.size
        source == Low(g.mem[g.reg["rsi"]], size)
        target == Low(g.mem[g.reg["rdi"]], size)
        a == Low(g.reg["rax"], size)
        Set(v) == [g EXCEPT !.mem[g.reg["rdi"]] = Merge(@, v, size)]
    IN  CASE i.op = "movs" -> Advance(Set(source), {"rsi", "rdi"}, size)
          [] i.op = "stos" -> Advance(Set(a), {"rdi"}, size)
          [] i.op = "lods" -> Advance(Write(g, i.dst, source), {"rsi"}, size)
          [] i.op = "cmps" -> Advance(Arithmetic(g, "cmp", source, target, size), {"rsi", "rdi"}, size)
          [] i.op = "scas" -> Advance(Arithmetic(g, "cmp", a, target, size), {"rdi"}, size)

RECURSIVE Repeated(_, _)
Repeated(g, i) ==
    LET e == [Element(g, i) EXCEPT !.reg["rcx"] = Wrap(@ - 1)]
    IN  IF g.reg["rcx"] = 0 THEN g
        ELSE IF (i.cc = "repz" /\ e.zero = 0) \/ (i.cc = "repnz" /\ e.zero = 1) THEN e
        ELSE Repeated(e, i)

-----------------------------------------------------------------------------

\* One instruction: the operation, its condition, and its operands.
Step(g0, i) ==
    LET g == [g0 EXCEPT !.branch = FALSE]
        size == i.dst.size
        a == Value(g, i.dst)
        b == Value(g, i.src)
        v == Result(i.op, a, b, g.carry, size)
    IN  CASE i.op = "jcc" -> [g EXCEPT !.branch = Condition(g, i.cc)]
          [] i.op = "setcc" -> Write(g, i.dst, Bool(Condition(g, i.cc)))
          [] i.op = "cmov" -> Write(g, i.dst, IF Condition(g, i.cc) THEN b ELSE a)
          [] i.op = "stc" -> [g EXCEPT !.carry = 1]
          [] i.op = "clc" -> [g EXCEPT !.carry = 0]
          [] i.op \in {"shl", "shr", "sar"} -> Shift(g, i)
          [] i.op \in {"rol", "ror"} -> Rotate(g, i)
          [] i.op \in {"bt", "btc", "btr", "bts"} -> TestBit(g, i)
          [] i.op \in {"mul", "imul"} -> Multiply(g, i)
          [] i.op \in {"imul2", "imul3"} -> MultiplyInto(g, i)
          [] i.op \in {"div", "idiv"} -> Divide(g, i)
          [] i.op = "movsx" -> Write(g, i.dst, Signed(b, i.src.size))
          [] i.op = "lea" -> Write(g, i.dst, Effective(g.reg, i.src.at))
          [] i.op = "cex" -> Extend(g, size)
          [] i.op = "csep" -> Separate(g, size)
          [] i.op = "push" -> Push(g, i.dst)
          [] i.op = "pop" -> Pop(g, i.dst)
          [] i.op = "leave" -> Leave(g)
          [] i.op = "nop" -> g
          [] i.op \in {"movs", "stos", "lods", "cmps", "scas"} ->
                 IF i.cc = "none" THEN Element(g, i) ELSE Repeated(g, i)
          [] i.op \in {"mov", "movzx", "not"} -> Write(g, i.dst, v)
          [] i.op \in {"cmp", "test"} -> Arithmetic(g, i.op, a, b, size)
          [] OTHER -> Write(Arithmetic(g, i.op, a, b, size), i.dst, v)
=============================================================================
