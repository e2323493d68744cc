------------------------------ MODULE MCHostCode ------------------------------
(***************************************************************************)
(* HostCode over every operation with a few operands, the constants whose  *)
(* bits change at most twice and some that change often, all the forms of  *)
(* the helpers over values that tell the bytes apart, and block ends with  *)
(* targets around every limit of their replacement.                        *)
(***************************************************************************)
EXTENDS HostCode

MCStart == {16, 20}              \* 0x110000
MCTableBase == {14}              \* 0x4000
MCJunk == {3, 11, 31, 62}

Sparse == {{}, {0}, {63}, Positions, Positions \ {63}, {0, 31, 63}, {4, 7, 15, 31}}
Bytes == {{0, 3, 7, 9, 12, 15, 18, 31, 40, 63}, {1, 7, 8, 14, 30, 33, 62}, Positions \ {5, 15}}

\* Immediates as the processor sees them: sign-extended in their width.
Immediates(size) == {Number(0), Number(1), Number(2 ^ (size - 1) - 1),
                     Number(-(2 ^ (size - 1))), Number(-1), Number(1365)}
Offsets(size) == {Number(2), Number(2 ^ (size - 1) - 2), Number(-(2 ^ (size - 1))), Number(-2), Number(2730)}
ContextOffsets == {Bits(InfoOffset[f]) : f \in DOMAIN InfoOffset} \cup {Bits(500)}

WordsOf(op) ==
    LET form == Row[op][1]
    IN  CASE op = "ECALL" -> {Inst(op, 0, 0, 0, 0, {})}
          [] form = "U" -> {Inst(op, d, 0, 0, 0, v) : d \in {1, 30}, v \in {{0}, {19}, 0..19, {3, 7, 18}}}
          [] form = "J" -> {Inst(op, d, 0, 0, 0, v) : d \in {0, 1}, v \in Offsets(21)}
          [] form = "I" -> {Inst(op, d, a, 0, 0, v) : d \in {7, 30}, a \in {2, 27}, v \in Immediates(12)}
                           \cup {Inst(op, 5, 27, 0, 0, v) : v \in ContextOffsets}
          [] form = "B" -> {Inst(op, 0, a, b, 0, v) : a \in {0, 21}, b \in {10, 29}, v \in Offsets(13)}
          [] form = "S" -> {Inst(op, 0, a, b, 0, v) : a \in {2, 27}, b \in {9, 22}, v \in Immediates(12)}
                           \cup {Inst(op, 0, 27, 5, 0, v) : v \in ContextOffsets}
          [] form = "R" -> {Three(op, d, a, b) : d \in {1, 30}, a \in {2, 29}, b \in {5, 26}}
          [] form = "R4" -> {Inst(op, d, a, b, c, {}) : d \in {1, 30}, a \in {2, 29}, b \in {5, 26}, c \in {11, 20}}
          [] form = "F1" -> {Inst(op, d, a, 0, 0, {}) : d \in {1, 30}, a \in {2, 29}}
          [] form = "shift" -> {Immediate(op, d, a, Bits(n)) : d \in {1, 30}, a \in {2, 29}, n \in {0, 1, 31, 32, 63}}
          [] form = "shiftw" -> {Immediate(op, d, a, Bits(n)) : d \in {1, 30}, a \in {2, 29}, n \in {0, 1, 31}}
WordRequests ==
    UNION {{[kind |-> "word", inst |-> i] : i \in WordsOf(op)} : op \in DOMAIN Row}
    \cup {[kind |-> "word", inst |-> PseudoFloat(p, d, a)] : p \in FloatUnaries, d \in {1, 30}, a \in {2, 29}}

\* The single-operand ones on every sign and on zero.  BGTZ is left out: it
\* is encoded as a branch on equality, and nothing uses it.
Defects == {"BGTZ"}
PseudoRequests ==
    {[kind |-> "unary", name |-> p, rd |-> t0, rs1 |-> 10, reg |-> [n \in {10} |-> v]] :
        p \in Unaries \ {"NOP"}, v \in Sparse}
    \cup {[kind |-> "branch", name |-> p, rs1 |-> 10, rs2 |-> 17, offset |-> o,
           reg |-> [n \in {10, 17} |-> IF n = 10 THEN v ELSE w]] :
        p \in PseudoBranches \ Defects,
        o \in {Number(64), Number(-32)}, v \in Sparse, w \in {{}, {0}, Positions, {0, 63}}}

\* Runs of ones from any position to any other, and constants that change more often.
Constants == {{}} \cup {a..b : a \in Positions, b \in Positions}
             \cup {Complement(a..b) : a \in {1, 7, 11, 12, 19, 20, 31, 32, 33, 43, 44, 47, 62}, b \in {11, 12, 20, 31, 32, 44, 45, 62}}
             \cup {{b \in Positions : b % n = k} : n \in {2, 3, 5, 7, 11, 12, 13, 20}, k \in 0..1}
             \cup {(a..b) \cup (c..63) : a \in {0, 5, 11}, b \in {10, 11, 12, 19}, c \in {20, 30, 31, 32, 33, 43, 44, 50}}
             \cup {{a, b, c, 31, 46} : a \in {0, 2}, b \in {7, 11, 12}, c \in {19, 20, 23}}
ConstantRequests == {[kind |-> k, value |-> v] : k \in {"immediate", "address"}, v \in Constants}

\* A source in the temporary register is overwritten before a move into a
\* high byte reads it: that pair is left out here, and Translation has it.
Moved == {<<0, 10>>} \cup ({1, 2, 4, 8} \X {10, t1})
HelperRequests ==
    {[kind |-> "move", access |-> m[1], cleared |-> FALSE, src |-> m[2],
      reg |-> [r \in {m[2], 17} |-> IF r = 17 THEN v ELSE w]] : m \in Moved, v \in Bytes, w \in Bytes}
    \cup {[kind |-> "move", access |-> n, cleared |-> TRUE, src |-> 10,
           reg |-> [r \in {10, 17} |-> IF r = 17 THEN v ELSE Field(w, 0, 8 * n)]] :
        n \in {1, 2, 4, 8}, v \in Bytes, w \in Bytes}
    \cup {[kind |-> "load", access |-> n, modifiable |-> m, full |-> f, sign |-> f /\ g, reg |-> [r \in {17} |-> v]] :
        n \in {0, 1, 2, 4, 8}, m \in BOOLEAN, f \in BOOLEAN, g \in BOOLEAN, v \in Bytes}
    \cup {[kind |-> "extend", byte |-> n, reg |-> [r \in {17} |-> v]] : n \in {1, 2, 4, 8}, v \in Bytes}

EntryRequests ==
    {[kind |-> "entry", name |-> SingleEntries[n]] : n \in DOMAIN SingleEntries}
    \cup {[kind |-> "offset", name |-> SizedEntries[n], size |-> s] : n \in DOMAIN SizedEntries, s \in {1, 2, 4, 8}}
    \cup {[kind |-> "dynamic", src |-> s, reg |-> [r \in {s} |-> v]] : s \in {10, t3}, v \in Bytes}

\* Branches between up to five instructions; going back there is one before.
HopRequests ==
    {[kind |-> "hop", form |-> f, from |-> a, to |-> b, step |-> s] :
        f \in {"forward"}, a \in 1..5, b \in 2..6, s \in BOOLEAN}
    \cup {[kind |-> "hop", form |-> f, from |-> a, to |-> b, step |-> s] :
        f \in {"loop", "finish"}, a \in 3..6, b \in 2..5, s \in BOOLEAN}
Hops == {r \in HopRequests : IF r.form = "forward" THEN r.from < r.to ELSE r.to < r.from}

\* Targets as far from the start as the limits of the two forms, both ways.
Distances == {Number(n) : n \in {4096, 2048, 2044, -2044, -2048, -2052, 1073743872, -1073743872}}
             \cup {0..30, (0..30) \ (0..11), (0..30) \ {11}, {31}, {2, 31}, Complement(0..30), Complement({1} \cup 2..30),
                   Complement(0..31), {40}, {2, 11, 38}, Complement({12, 18, 20})}
ExitRequests == {[kind |-> "exit", guest |-> g, step |-> s, target |-> Add(Start, d) \ {0, 1}] :
                    g \in {{2, 22}, {7, 11, 19, 31, 46}}, s \in BOOLEAN, d \in Distances}
                \cup {[kind |-> "exit", guest |-> {2, 22}, step |-> s, target |-> t] :
                    s \in BOOLEAN, t \in {{4, 11, 20, 33, 46}, (4..46) \ {12, 13, 25}}}

MCRequests == WordRequests \cup PseudoRequests \cup ConstantRequests \cup HelperRequests
              \cup EntryRequests \cup Hops \cup ExitRequests
=============================================================================
