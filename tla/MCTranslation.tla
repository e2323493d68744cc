---------------------------- MODULE MCTranslation ----------------------------
(***************************************************************************)
(* Bytes of two bits: al has 2, ax 4, eax 8 and rax 16, and a short        *)
(* immediate is -4..3.  The first instruction is any of Writers; from some *)
(* starts a second one follows that reads flags or leaves some alone.      *)
(***************************************************************************)
EXTENDS Translation

Reg(r, size) == [type |-> "reg", at |-> r, size |-> size]
High(r) == [type |-> "high", at |-> r, size |-> 1]
Mem(form, size) == [type |-> "mem", at |-> form, size |-> size]
Imm(v, size) == [type |-> "imm", at |-> v, size |-> size]

Forms == {"base", "index", "far", "fs"}
Unused == Imm(0, 1)
Inst(op, cc, dst, src) ==
    [op |-> op, cc |-> cc, dst |-> dst, src |-> src, third |-> Unused, update |-> Updates(op)]
Told(i, flags) == [i EXCEPT !.update = @ \cap flags]

Conditional == {"a", "be", "c", "g", "ge", "l", "le", "nc", "no", "np", "ns", "nz",
                "o", "p", "s", "z"}
Binary == {"add", "adc", "sub", "and", "or", "xor", "cmp", "test"}

\* Two operands of one size: short and long immediates, the same register
\* twice, high bytes, every form of address.
Operands(size) ==
    {<<Reg("rax", size), s>> : s \in {Reg("rcx", size), Mem("index", size), Mem("fs", size)}
                                     \cup {Imm(v, size) : v \in {n \in {-4, -1, 0, 1, 3, 6, -100} : Fits(n, size)}}}
    \cup {<<Reg("rax", size), Reg("rax", size)>>}
    \cup {<<Mem(f, size), s>> : f \in Forms,
                                s \in {Reg("rcx", size), Imm(1, size)}}
HighOperands == {<<High("rax"), Reg("rcx", 1)>>, <<High("rax"), Imm(1, 1)>>,
                 <<Reg("rax", 1), High("rax")>>, <<Mem("base", 1), High("rcx")>>}
Pairs == UNION {Operands(size) : size \in Sizes} \cup HighOperands
Singles == {Reg("rax", size) : size \in Sizes} \cup {Mem("index", size) : size \in Sizes}
           \cup {High("rcx")}

\* Instructions the code gets wrong; the README says how, defect by defect.
Same(i) == i.dst = i.src
Inverted == {"a", "be", "g", "ge", "l", "le", "nc", "no", "np", "ns", "nz"}   \* set from t0
Described == {"zero", "sign", "parity"}   \* by the result
Shifted(i) == i.op \in {"shl", "shr", "sar"}
BitTests == {"bt", "btc", "btr", "bts"}
Products == {"mul", "imul", "imul2", "imul3", "div", "idiv"}
Defects(i) ==
    [carryOfSelf    |-> i.op \in {"add", "adc"} /\ Same(i) /\ i.dst.size >= 4,
     smallest       |-> i.op = "cmp" /\ i.src = Imm(-4, i.dst.size),
     byteToSelf     |-> i.op = "mov" /\ Same(i) /\ i.dst.size = 1,
     setHigh        |-> i.op = "setcc" /\ i.cc \in Inverted /\ i.dst.type = "high",
     setMemory      |-> i.op = "setcc" /\ i.cc \in Inverted /\ i.dst.type = "mem" /\ i.dst.at # "base",
     counter        |-> i.op = "jcc" /\ i.cc \in {"cxz", "ecxz"},
     segmentTwice   |-> /\ i.op \notin {"cmp", "test", "mov", "bt", "push", "pop", "mul", "imul", "div", "idiv"}
                        /\ i.dst.type = "mem" /\ i.dst.at = "fs",
     shiftFromAbove |-> /\ i.op \in {"shr", "sar"} /\ i.dst.type # "mem"
                        /\ i.dst.size <= IF i.src.type = "imm" THEN 4 ELSE 2,
     shiftSign      |-> /\ i.op = "sar" /\ i.dst.type = "mem"
                        /\ i.dst.size <= IF i.src.type = "imm" THEN 4 ELSE 2,
     shiftUnmasked  |-> Shifted(i) /\ i.dst.size <= 4 /\ i.src.type = "imm" /\ i.src.at >= Bits(4),
     shiftByZero    |-> Shifted(i) /\ i.src.type = "imm" /\ i.src.at % Bits(8) = 0,
     shiftClFlags   |-> Shifted(i) /\ i.src.type # "imm" /\ i.update \cap Described # {},
     rolByZero      |-> /\ i.op = "rol" /\ i.src.type = "imm" /\ i.dst.type # "mem"
                        /\ i.dst.size <= 2 /\ i.src.at % Bits(i.dst.size) = 0,
     rorNarrow      |-> i.op = "ror" /\ i.src.type # "imm" /\ i.dst.size <= 2,
     bitOffset      |-> i.op \in BitTests /\ i.src.type # "imm",
     bitUpper       |-> i.op \in BitTests \ {"bt"} /\ i.dst.type = "reg" /\ i.dst.size = 4,
     mulAddress     |-> /\ i.op \in {"mul", "imul", "imul2", "imul3"} /\ i.dst.size < 8
                        /\ i.dst.type = "mem" /\ i.dst.at # "base",
     extendNarrow   |-> i.op = "movsx" /\ i.dst.size < 8,
     clearAbove     |-> i.op = "movzx" /\ i.dst.size = 2,
     stackPointer   |-> i.op \in {"push", "pop"} /\ i.dst.type = "reg" /\ i.dst.at = "rsp",
     popSegment     |-> i.op = "pop" /\ i.dst.type = "mem" /\ i.dst.at = "fs",
     scasWhole      |-> i.op = "scas" /\ i.dst.size = 8,
     stringOverflow |-> i.op \in {"cmps", "scas"} /\ "overflow" \in i.update]
Usable(i) == \A d \in DOMAIN Defects(i) : Defects(i)[d] => d \in Admitted

Writers ==
    {Inst(op, None, p[1], p[2]) : op \in Binary \cup {"mov"}, p \in Pairs}
    \cup {Inst(op, None, o, Imm(0, 1)) : op \in {"inc", "dec", "neg", "not"}, o \in Singles}
    \cup {Inst(op, None, o, Imm(v, 2)) : op \in {"shl", "shr"}, o \in Singles, v \in {1, 7}}
    \cup {Inst("bt", None, o, Imm(3, 2)) : o \in {Reg("rcx", 2), Reg("rcx", 8), Mem("far", 4)}}
    \cup {Inst(op, None, Imm(0, 1), Imm(0, 1)) : op \in {"stc", "clc"}}

\* What runs alone, or last.
Cl == Reg("rcx", 1)
Others ==
    {Inst(op, None, o, Imm(v, 2)) : op \in {"shl", "shr", "sar"}, o \in Singles, v \in {0, 3, 9}}
    \cup {Told(Inst(op, None, o, Cl), f) :
              op \in {"shl", "shr", "sar"}, o \in Singles, f \in {X!Flags \ Described, {"zero"}}}
    \cup {Inst(op, None, o, c) : op \in {"rol", "ror"}, o \in Singles, c \in {Imm(0, 2), Imm(5, 2), Cl}}
    \cup {Inst(op, None, o, c) : op \in BitTests, c \in {Imm(5, 4), Reg("rcx", 2)},
              o \in {Reg("rax", 2), Reg("rax", 4), Reg("rdx", 8), Mem("far", 4), Mem("index", 2)}}
    \cup {Told(Inst(op, None, o, Unused), IF op \in {"mul", "imul"} THEN X!Flags \ Described ELSE {}) :
              op \in Products \ {"imul2", "imul3"},
              o \in {Reg("rcx", n) : n \in Sizes} \cup {Mem(f, n) : f \in Forms, n \in Sizes}
                    \cup {High("rcx"), Reg("rdx", 8)}}
    \cup {Told(Inst("imul2", None, Reg("rax", p.size), p), X!Flags \ Described) :
              p \in {Reg("rcx", n) : n \in {2, 4, 8}} \cup {Mem("base", n) : n \in {2, 4, 8}}}
    \cup {[Told(Inst("imul3", None, Reg("rdx", p.size), p), X!Flags \ Described) EXCEPT !.third = Imm(v, p.size)] :
              p \in {Reg("rcx", n) : n \in {2, 4, 8}} \cup {Mem("base", n) : n \in {2, 4, 8}}, v \in {-3, 100}}
    \cup {Inst(op, None, Reg("rax", n), o) : op \in {"movsx", "movzx"}, n \in {2, 4, 8},
              o \in {Reg("rcx", 1), Reg("rax", 2), High("rcx"), Mem("base", 1), Mem("index", 2)}}
    \cup {Inst("movsx", None, Reg("rcx", 8), o) : o \in {Reg("rcx", 4), Mem("fs", 4)}}
    \cup {Inst("lea", None, Reg(r, n), Mem(f, 8)) : r \in {"rax", "rdi", "rsi"}, n \in {2, 4, 8}, f \in Forms}
    \cup {Inst(op, None, Reg("rax", n), Unused) : op \in {"cex", "csep"}, n \in {2, 4, 8}}
    \cup {Inst("push", None, o, Unused) :
              o \in {Reg("rcx", 2), Reg("rbp", 8), Reg("rsp", 8), Imm(-4, 8), Mem("index", 8), Mem("fs", 2)}}
    \cup {Inst("pop", None, o, Unused) :
              o \in {Reg("rcx", 2), Reg("rbp", 8), Reg("rsp", 8)} \cup {Mem(f, n) : f \in Forms, n \in {2, 8}}}
    \cup {Inst(op, None, Reg("rax", 8), Unused) : op \in {"leave", "nop"}}
    \cup {Inst(op, cc, Reg("rax", n), Unused) :
              op \in {"movs", "stos", "lods"}, cc \in {None, "rep"}, n \in Sizes}
    \cup {Told(Inst(op, cc, Reg("rax", n), Unused), f) :
              op \in {"cmps", "scas"}, cc \in {None, "repz", "repnz"}, n \in Sizes,
              f \in {{"overflow"}, X!Flags \ {"overflow"}}}

Readers ==
    {Inst("jcc", cc, Imm(0, 1), Imm(0, 1)) : cc \in Conditional \cup {"cxz", "ecxz"}}
    \cup {Inst("setcc", cc, o, Imm(0, 1)) : cc \in Conditional,
              o \in {Reg("rcx", 1), High("rax"), Mem("base", 1), Mem("index", 1)}}
    \cup {Inst("cmov", cc, p[1], p[2]) : cc \in Conditional,
              p \in {<<Reg("rax", 2), Mem("base", 2)>>, <<Reg("rax", 4), Reg("rcx", 4)>>,
                     <<Reg("rcx", 8), Mem("index", 8)>>}}

\* Comparisons told to store just what one condition needs.
Narrow == {Told(Inst("cmp", None, Reg("rax", size), Reg("rcx", size)), RequiresOf(cc)) :
              size \in Sizes, cc \in Conditional}
          \cup {Told(Inst("adc", None, Reg("rax", 2), Imm(1, 2)), {f}) : f \in X!Flags}

MCInstructions ==
    [n \in 1..2 |-> {i \in IF n = 1 THEN Writers \cup Readers \cup Narrow \cup Others
                                    ELSE {w \in Writers : w.op # "mov"} : Usable(i)}]

\* One instruction from the corners of every width, and from the smallest dividend
\* of two and four bytes; from a few values two, of which the first changes flags.
Corners == {0, 1, 7, 8, 127, 128, 32767, 32768, 65535}
Start(rax, rcx, n) ==
    [rax |-> rax, rcx |-> rcx, left |-> n,
     rdx |-> CASE (rax + rcx) % 3 = 0 -> 0 [] (rax + rcx) % 3 = 1 -> 3 [] OTHER -> 65535]
MCStarts == {Start(a, c, 1) : a \in Corners \cup 2052..2059, c \in Corners}
            \cup {Start(a, 2, 1) : a \in {2, 3, 35970}}
            \cup {Start(a, 35255, 2) : a \in {32767, 35255}}
            \cup {[rax |-> 0, rcx |-> 2 ^ Bits(n) - c, rdx |-> 2 ^ (Bits(n) - 1), left |-> 1] :
                      n \in {2, 4}, c \in {1, 2}}
            \cup {[rax |-> a, rcx |-> 65535, rdx |-> d, left |-> 1] : a \in {0, 5}, d \in {8, 128}}

\* The elements strings walk over agree in their low bytes at first; the next
\* ones differ.  Everything else holds the same word.
MCMemory ==
    LET Elsewhere == {Base + d : d \in {24, 100, 1000}} \cup {Stack - d : d \in {0, 2, 8}} \cup {Frame}
        Elements == {a + n : a \in {Base, Offset}, n \in {0} \cup Sizes}
    IN  [a \in Elsewhere \cup Elements |->
            CASE a = Offset -> 5362 [] a \in {Stack, Frame} -> 3 * a [] a \in Elements /\ a > Offset /\ a < Base -> 7 * a
              [] OTHER -> 35970]
=============================================================================
