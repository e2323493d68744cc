---------------------------- MODULE DebuggerLemmas ----------------------------
(***************************************************************************)
(* What the debugger's properties rest on, for every guest program: the    *)
(* inductive invariant, and lemmas about guest and host addresses, about   *)
(* blocks and about the return address of an entry.                        *)
(***************************************************************************)
EXTENDS Debugger, Induction, SequenceTheorems

-----------------------------------------------------------------------------
(* Sums *)

\* The recursive function is the one that follows its equation.
LEMMA SumsEquation ==
    ASSUME NEW s \in Seq(Int)
    PROVE  /\ Sums(s) \in [0..Len(s) -> Int] /\ Sums(s)[0] = 0
           /\ \A n \in 1..Len(s) : Sums(s)[n] = Sums(s)[n - 1] + s[n]
<1> DEFINE V == Int
           zero == 0
           top == Len(s)
           step == [n \in 1..top |-> [v \in V |-> v + s[n]]]
           Obeys(g) == g = [n \in 0..Len(s) |-> IF n = 0 THEN 0 ELSE g[n - 1] + s[n]]
<1>1. top \in Nat /\ zero \in V /\ step \in [1..top -> [V -> V]]
  OBVIOUS
<1>2. PICK f : IteratesTo(top, f, V, zero, step)
  <2> HIDE DEF V, zero, top, step
  <2> QED
    BY <1>1, BoundedIteration
<1>3. f \in [0..top -> V] /\ f = [n \in 0..top |-> IF n = 0 THEN zero ELSE step[n][f[n - 1]]]
  <2> HIDE DEF V, zero, top, step
  <2> QED
    BY <1>2 DEF IteratesTo
<1>4. Obeys(f)
  <2>1. ASSUME NEW n \in 1..top PROVE step[n][f[n - 1]] = f[n - 1] + s[n]
    BY <1>3, n - 1 \in 0..top
  <2> DEFINE e == [n \in 0..top |-> IF n = 0 THEN zero ELSE step[n][f[n - 1]]]
             h == [n \in 0..top |-> IF n = 0 THEN 0 ELSE f[n - 1] + s[n]]
  <2>2. ASSUME NEW n \in 0..top
        PROVE  (IF n = 0 THEN zero ELSE step[n][f[n - 1]]) = (IF n = 0 THEN 0 ELSE f[n - 1] + s[n])
    <3> HIDE DEF step, top
    <3> QED
      BY <1>1, <2>1
  <2>3. e = h
    <3> HIDE DEF step, top, zero
    <3> QED
      BY <2>2
  <2> QED
    BY <1>3, <2>3
<1>5. Obeys(Sums(s))
  <2>1. Sums(s) = CHOOSE g : Obeys(g)
    BY DEF Sums
  <2> HIDE DEF Obeys
  <2> QED
    BY <1>4, <2>1
<1> DEFINE g == Sums(s)
<1>6. Obeys(g)
  BY <1>5
<1> HIDE DEF g
<1>7. g \in [0..Len(s) -> Int]
  <2> DEFINE T == {n \in 0..Len(s) : g[n] \in Int}
  <2>1. 0 \in T
    BY <1>6
  <2>2. ASSUME NEW n \in 0..(Len(s) - 1), n \in T PROVE n + 1 \in T
    BY <1>6, <2>2
  <2>3. 0..Len(s) \subseteq T
    <3> HIDE DEF T
    <3> QED
      BY <1>1, <2>1, <2>2, BoundedInduction
  <2> QED
    BY <1>6, <2>3
<1>8. g[0] = 0 /\ \A n \in 1..Len(s) : g[n] = g[n - 1] + s[n]
  <2>1. \A n \in 1..Len(s) : n \in 0..Len(s) /\ n # 0
    BY <1>1
  <2>2. 0 \in 0..Len(s)
    BY <1>1
  <2> QED
    BY <1>6, <2>1, <2>2
<1> QED
  BY <1>7, <1>8 DEF g

\* Sums of numbers grow, those of positive numbers strictly.
LEMMA SumsGrow ==
    ASSUME NEW s \in Seq(Nat), NEW i \in 0..Len(s), NEW j \in i..Len(s)
    PROVE  /\ Sums(s)[i] \in Nat /\ Sums(s)[j] \in Nat /\ Sums(s)[i] <= Sums(s)[j]
           /\ (\A n \in 1..Len(s) : s[n] > 0) /\ i < j => Sums(s)[i] < Sums(s)[j]
<1> DEFINE f == Sums(s)
           T == {n \in Nat : \A a \in 0..Len(s) : \A b \in a..Len(s) : b - a = n =>
                    /\ f[a] <= f[b]
                    /\ (\A m \in 1..Len(s) : s[m] > 0) /\ a < b => f[a] < f[b]}
<1>1. s \in Seq(Int) /\ Len(s) \in Nat
  BY SeqMonotonic
<1>2. /\ f \in [0..Len(s) -> Int] /\ f[0] = 0
      /\ \A n \in 1..Len(s) : f[n] = f[n - 1] + s[n]
  BY <1>1, SumsEquation
<1> HIDE DEF f
<1>3. 0 \in T
  <2> SUFFICES ASSUME NEW a \in 0..Len(s), NEW b \in a..Len(s), b - a = 0
               PROVE  f[a] <= f[b] /\ ~(a < b)
    OBVIOUS
  <2>1. a \in Nat /\ b = a
    BY <1>1
  <2>2. f[a] \in Int
    BY <1>2, <2>1
  <2> QED
    BY <2>1, <2>2
<1>4. ASSUME NEW n \in Nat, n \in T PROVE n + 1 \in T
  <2> SUFFICES ASSUME NEW a \in 0..Len(s), NEW b \in a..Len(s), b - a = n + 1
               PROVE  /\ f[a] <= f[b]
                      /\ (\A m \in 1..Len(s) : s[m] > 0) /\ a < b => f[a] < f[b]
    OBVIOUS
  <2>1. b \in 1..Len(s) /\ b - 1 \in a..Len(s) /\ (b - 1) - a = n /\ b - 1 \in 0..Len(s)
      /\ a \in 0..Len(s) /\ b \in 0..Len(s)
    BY <1>1
  <2>2. f[a] <= f[b - 1]
    BY <1>4, <2>1
  <2>3. f[b] = f[b - 1] + s[b] /\ s[b] \in Nat
    BY <1>2, <2>1
  <2>4. f[a] \in Int /\ f[b] \in Int /\ f[b - 1] \in Int
    BY <1>1, <1>2, <2>1
  <2> QED
    BY <2>1, <2>2, <2>3, <2>4
<1>5. Nat \subseteq T
  <2> HIDE DEF T
  <2> QED
    BY <1>3, <1>4, Induction
<1>6. ASSUME NEW a \in 0..Len(s), NEW b \in a..Len(s)
      PROVE  /\ f[a] <= f[b]
             /\ (\A m \in 1..Len(s) : s[m] > 0) /\ a < b => f[a] < f[b]
  <2>1. b - a \in T
    <3>1. b - a \in Nat
      BY <1>1
    <3> HIDE DEF T
    <3> QED
      BY <1>5, <3>1
  <2> QED
    BY <2>1
<1>7. f[i] \in Nat /\ f[j] \in Nat
  <2>1. /\ 0 \in 0..Len(s) /\ i \in 0..Len(s) /\ i \in 0..Len(s) /\ j \in 0..Len(s)
    BY <1>1
  <2>2. f[0] <= f[i] /\ f[0] <= f[j]
    BY <1>6, <2>1
  <2>3. f[0] \in Int /\ f[i] \in Int /\ f[j] \in Int /\ f[0] = 0
    BY <1>2, <2>1
  <2> HIDE DEF f, T
  <2> QED
    BY <2>2, <2>3
<1> HIDE DEF T
<1> QED
  BY <1>6, <1>7 DEF f

LEMMA TotalIsNat ==
    ASSUME NEW s \in Seq(Nat)
    PROVE  Total(s) \in Nat
<1>1. Len(s) \in 0..Len(s) /\ Len(s) \in Len(s)..Len(s)
  BY LenProperties
<1> QED
  BY <1>1, SumsGrow DEF Total

-----------------------------------------------------------------------------
(* Guest addresses *)

LEMMA Instructions ==
    /\ Len(Program) \in Nat \ {0} /\ Instrs = 1..Len(Program)
    /\ \A i \in Instrs : /\ Program[i].bytes \in Nat \ {0} /\ Program[i].work \in Nat
                         /\ Program[i].next \subseteq Instrs
                         /\ Program[i].branch \in BOOLEAN
                         /\ Program[i].branch => Program[i].work > 0
<1> DEFINE S == [bytes : Nat \ {0}, work : Nat, branch : BOOLEAN, next : SUBSET Nat]
<1>1. Program \in Seq(S) /\ Program # <<>>
  BY ProgramAssumption
<1>2. Len(Program) \in Nat \ {0} /\ Instrs = 1..Len(Program)
  <2> HIDE DEF S
  <2> QED
    BY <1>1 DEF Instrs
<1>3. ASSUME NEW i \in Instrs PROVE Program[i] \in S
  BY <1>1, <1>2, ElementOfSeq
<1>4. \A i \in Instrs : /\ Program[i].next \subseteq Instrs
                        /\ Program[i].branch => Program[i].work > 0
  BY ProgramAssumption
<1> QED
  BY <1>2, <1>3, <1>4

\* The instructions lie behind one another, in the order of their numbers.
LEMMA GuestGrows ==
    ASSUME NEW i \in 1..(Len(Program) + 1), NEW j \in 1..(Len(Program) + 1)
    PROVE  /\ Guest(i) \in Nat \ {0}
           /\ i < j <=> Guest(i) < Guest(j)
           /\ i = j <=> Guest(i) = Guest(j)
<1> DEFINE s == [k \in Instrs |-> Program[k].bytes]
<1>1. s \in Seq(Nat) /\ Len(s) = Len(Program) /\ \A n \in 1..Len(s) : s[n] > 0
  BY Instructions
<1>2. \A a \in 0..Len(s) : \A b \in a..Len(s) :
          /\ Sums(s)[a] \in Nat /\ Sums(s)[b] \in Nat
          /\ a < b => Sums(s)[a] < Sums(s)[b]
  <2> HIDE DEF s
  <2> QED
    BY <1>1, SumsGrow
<1>3. \A a \in 1..(Len(Program) + 1) : Guest(a) = 1 + Sums(s)[a - 1]
  BY DEF Guest
<1> HIDE DEF s
<1>4. Len(Program) \in Nat
  BY Instructions
<1>5. ASSUME NEW a \in 1..(Len(Program) + 1), NEW b \in 1..(Len(Program) + 1), a < b
      PROVE  Guest(a) \in Nat \ {0} /\ Guest(b) \in Nat \ {0} /\ Guest(a) < Guest(b)
  <2>1. a - 1 \in 0..Len(s) /\ b - 1 \in (a - 1)..Len(s) /\ a - 1 < b - 1
    BY <1>1, <1>4, <1>5
  <2>2. Sums(s)[a - 1] \in Nat /\ Sums(s)[b - 1] \in Nat /\ Sums(s)[a - 1] < Sums(s)[b - 1]
    BY <1>2, <2>1
  <2>3. Guest(a) = 1 + Sums(s)[a - 1] /\ Guest(b) = 1 + Sums(s)[b - 1]
    BY <1>3
  <2> DEFINE x == Sums(s)[a - 1]
             y == Sums(s)[b - 1]
  <2> HIDE DEF x, y
  <2>4. 1 + x \in Nat \ {0} /\ 1 + y \in Nat \ {0} /\ 1 + x < 1 + y
    BY <2>2 DEF x, y
  <2> QED
    BY <2>3, <2>4 DEF x, y
<1>6. i < j \/ j < i \/ i = j
  BY <1>4
<1>7. Guest(i) \in Nat \ {0}
  <2>1. i - 1 \in 0..Len(s) /\ i - 1 \in (i - 1)..Len(s)
    BY <1>1, <1>4
  <2>2. Sums(s)[i - 1] \in Nat
    BY <1>2, <2>1
  <2> QED
    BY <1>3, <2>2
<1> QED
  BY <1>4, <1>5, <1>6, <1>7

\* An address lies in one instruction at most.
LEMMA OneInstr ==
    ASSUME NEW x \in Nat, NEW i \in InstrAt(x)
    PROVE  InstrAt(x) = {i} /\ i \in Instrs
<1>1. i \in Instrs /\ Guest(i) <= x /\ x < Guest(i + 1)
  BY DEF InstrAt
<1>2. ASSUME NEW j \in InstrAt(x) PROVE j = i
  <2>1. j \in Instrs /\ Guest(j) <= x /\ x < Guest(j + 1)
    BY DEF InstrAt
  <2>2. /\ i \in 1..(Len(Program) + 1) /\ j \in 1..(Len(Program) + 1) /\ i \in Int /\ j \in Int
        /\ i + 1 \in 1..(Len(Program) + 1) /\ j + 1 \in 1..(Len(Program) + 1)
    BY <1>1, <2>1, Instructions
  <2>3. /\ Guest(i) \in Nat /\ Guest(i + 1) \in Nat /\ Guest(j) \in Nat /\ Guest(j + 1) \in Nat
        /\ i < j + 1 <=> Guest(i) < Guest(j + 1)
        /\ j < i + 1 <=> Guest(j) < Guest(i + 1)
    BY <2>2, GuestGrows
  <2> QED
    BY <1>1, <2>1, <2>2, <2>3
<1> QED
  BY <1>1, <1>2

\* The first byte of an instruction lies in it.
LEMMA AtItsAddress ==
    ASSUME NEW i \in Instrs
    PROVE  Guest(i) \in Nat \ {0} /\ InstrAt(Guest(i)) = {i}
<1>1. i \in 1..(Len(Program) + 1) /\ i + 1 \in 1..(Len(Program) + 1) /\ i < i + 1
  BY Instructions
<1>2. Guest(i) \in Nat \ {0} /\ Guest(i) < Guest(i + 1)
  BY <1>1, GuestGrows
<1>3. i \in InstrAt(Guest(i))
  BY <1>2 DEF InstrAt
<1> QED
  BY <1>2, <1>3, OneInstr

\* An address between the first and the last of some instructions lies in one
\* of them, the first that ends behind it.
LEMMA WithinSome ==
    ASSUME NEW a \in Instrs, NEW b \in Instrs, a <= b,
           NEW x \in Nat, Guest(a) <= x, x < Guest(b + 1)
    PROVE  LET i == Min({j \in a..b : x < Guest(j + 1)})
           IN  i \in a..b /\ InstrAt(x) = {i}
<1> DEFINE S == {j \in a..b : x < Guest(j + 1)}
           i == Min(S)
<1>1. a \in Nat /\ b \in Nat /\ b \in S
  BY Instructions
<1>2. S \in SUBSET Nat /\ S # {}
  BY <1>1
<1>3. i \in S /\ \A y \in S : i <= y
  <2> HIDE DEF S
  <2> QED
    BY <1>2, LeastOf
<1>4. Guest(i) <= x
  <2>1. CASE i = a
    BY <2>1
  <2>2. CASE i # a
    <3>1. i - 1 \in a..b /\ (i - 1) + 1 = i /\ ~(i <= i - 1)
      BY <1>1, <1>3, <2>2
    <3>2. ~(x < Guest(i))
      BY <1>3, <3>1
    <3>3. i \in 1..(Len(Program) + 1)
      BY <1>3, Instructions
    <3>4. Guest(i) \in Nat
      BY <3>3, GuestGrows
    <3> QED
      BY <3>2, <3>4
  <2> QED
    BY <2>1, <2>2
<1>5. i \in Instrs /\ x < Guest(i + 1) /\ i \in a..b
  BY <1>3, Instructions
<1> HIDE DEF i
<1>6. i \in InstrAt(x)
  BY <1>4, <1>5 DEF InstrAt
<1> QED
  BY <1>5, <1>6, OneInstr DEF i

-----------------------------------------------------------------------------
(* The inductive invariant *)

BreakPoints == [x86 : Nat, riscv : Nat]
Kinds == {"start", "run", "sob", "eob", "step", "crawl", "quit"}
Awaited == {"none", "sob", "eob", "step", "counter"}

\* A block of the list: a batch of at least the jump for every instruction, more
\* for its last one; with RISC-V stepping a batch is that jump alone, or a jump
\* in front of each of its RISC-V instructions.
Contents(b) ==
    /\ \A i \in b.first..b.last : WorkOf(i, b) \in Nat \ {0}
    /\ WorkOf(b.last, b) > 1
    /\ riscv_enabled => \A i \in b.first..b.last : WorkOf(i, b) = 1 \/ WorkOf(i, b) % 2 = 0
Blocks == [first : Instrs, last : Instrs, riscv_start : Nat \ {0}, riscv : Seq(Nat)]
BlockShape(b) ==
    /\ b \in Blocks /\ b.first <= b.last
    /\ Len(b.riscv) = b.last - b.first + 1
    /\ Contents(b)

TypeOK ==
    /\ riscv_enabled \in BOOLEAN
    /\ at \in [instr : Instrs, hop : Nat] /\ phase \in Phases
    /\ blocks \in Seq(Blocks)
    /\ \A n \in Indices : BlockShape(Block(n))
    /\ bps \in Seq(BreakPoints)
    /\ temp_break \in BOOLEAN /\ init \in BOOLEAN /\ await \in Awaited
    /\ halt \in BOOLEAN /\ step_riscv \in BOOLEAN /\ run_break \in Nat
    /\ attached \in BOOLEAN /\ signal \in Nat
    /\ asked \in [kind : Kinds, count : Counts \cup {0, 1}, place : Places \cup {0}]
    /\ travelled \in Nat /\ waved \in BOOLEAN
    /\ wanted \subseteq Instrs /\ risked \subseteq Instrs

\* No instruction is translated twice, and no two blocks share host code.
HostEnd == 1 + Total([n \in 1..Len(blocks) |-> Total(blocks[n].riscv)])
Apart(b, c) == /\ b.last < c.first \/ c.last < b.first
               /\ riscv_end(b) <= c.riscv_start \/ riscv_end(c) <= b.riscv_start
BlocksApart ==
    /\ \A n \in Indices : riscv_end(Block(n)) <= HostEnd
    /\ \A m \in Indices, n \in Indices : m # n => Apart(Block(m), Block(n))

\* The guest is at an entry of the instruction's batch.
AtEntry ==
    /\ phase = "translate" => Covering(at.instr) = {} /\ at.hop = 0
    /\ phase # "translate" => /\ Covering(at.instr) # {}
                              /\ at.hop = 0 \/ at.hop <= RiscvEntries

\* A break point is pending as long as no block holds its address, and
\* otherwise at its instruction, behind the jump to the debugger.
InCode(e, b) == \E i \in b.first..b.last :
                    e = [x86 |-> Guest(i), riscv |-> HostOf(b, i) + 1]
WellPlaced(e) ==
    IF Pending(e) THEN \A n \in Indices : ~InBlock(e.x86, Block(n))
                  ELSE \E n \in Indices : InCode(e, Block(n))
BreakPointsPlaced == \A k \in 1..Len(bps) : WellPlaced(bps[k])

\* The temporary one is the last, or what it was merged with is.
Statics == IF temp_break THEN Len(bps) - 1 ELSE Len(bps)
Temporary ==
    /\ Statics \in 0..Limit
    /\ phase = "menu" => ~temp_break
    /\ temp_break => InstrAt(asked.place) \subseteq InstrAt(bps[Len(bps)].x86)
    /\ phase \notin {"menu", "done"} /\ asked.place # 0 => temp_break

\* The static ones cover what the user wanted; one that is to be merged with the
\* temporary one is at risk.
Kept ==
    /\ \A i \in wanted \ risked : \E k \in 1..Statics : i \in InstrAt(bps[k].x86)
    /\ temp_break /\ Statics > 0 /\ Pending(bps[Statics]) =>
          InstrAt(bps[Statics].x86) \cap InstrAt(bps[Len(bps)].x86) \subseteq risked

\* The bits of a command are set while the guest runs it.
Modes ==
    /\ await # "none" \/ step_riscv => halt /\ init /\ phase # "menu"
    /\ phase = "menu" => init
    /\ step_riscv => riscv_enabled
    /\ attached /\ signal # 0 /\ phase \in {"menu", "code", "done"} => signal = ra
IInv == /\ TypeOK /\ CurrentListed /\ BlocksApart /\ AtEntry /\ BreakPointsPlaced /\ Temporary /\ Kept
        /\ Modes

\* How far step and crawl have gone.
Asking == phase \in {"translate", "enter", "code"} /\ attached
Counted ==
    /\ Asking /\ asked.kind = "step" =>
          /\ await \in {"step", "counter"} /\ ~step_riscv
          /\ await = "step" => asked.count = 1 /\ travelled = 0
    /\ Asking /\ asked.kind = "crawl" =>
          /\ await \in {"none", "counter"} /\ step_riscv
          /\ await = "none" => asked.count = 1 /\ travelled = 0
    /\ Asking /\ await = "counter" =>
          /\ asked.kind \in {"step", "crawl"}
          /\ travelled + run_break = asked.count
          /\ run_break > 0 \/ travelled = 0

-----------------------------------------------------------------------------
(* Host addresses *)

\* The batches of a block lie behind one another, from its start to its end.
LEMMA HostGrows ==
    ASSUME NEW b, BlockShape(b)
    PROVE  /\ b.first \in Nat /\ b.last \in Nat /\ b.first <= b.last /\ b.riscv_start \in Nat \ {0}
           /\ \A i \in b.first..(b.last + 1) : HostOf(b, i) \in Nat \ {0}
           /\ \A i \in b.first..b.last : /\ WorkOf(i, b) \in Nat \ {0}
                                          /\ HostOf(b, i + 1) = HostOf(b, i) + WorkOf(i, b)
           /\ \A i \in b.first..(b.last + 1), j \in b.first..(b.last + 1) :
                  i < j => HostOf(b, i) < HostOf(b, j)
           /\ HostOf(b, b.first) = b.riscv_start /\ HostOf(b, b.last + 1) = riscv_end(b)
<1> DEFINE s == b.riscv
           f == Sums(s)
           top == b.last + 1
<1>1. /\ b.first \in Instrs /\ b.last \in Instrs /\ b.first <= b.last
      /\ b.riscv_start \in Nat \ {0} /\ s \in Seq(Nat) /\ Len(s) = b.last - b.first + 1
      /\ \A i \in b.first..b.last : WorkOf(i, b) \in Nat \ {0}
  BY DEF BlockShape, Blocks, Contents
<1>2. b.first \in Nat /\ b.last \in Nat /\ Len(s) \in Nat
  BY <1>1, Instructions
<1>3. ASSUME NEW n \in 1..Len(s) PROVE s[n] > 0 /\ s[n] \in Nat
  <2>1. b.first + (n - 1) \in b.first..b.last /\ (b.first + (n - 1)) - b.first + 1 = n
    BY <1>1, <1>2
  <2> QED
    BY <1>1, <2>1 DEF WorkOf
<1>4. f \in [0..Len(s) -> Int] /\ f[0] = 0 /\ \A n \in 1..Len(s) : f[n] = f[n - 1] + s[n]
  <2>1. s \in Seq(Int)
    BY <1>1, SeqMonotonic
  <2> QED
    BY <2>1, SumsEquation
<1>5. \A i \in 0..Len(s) : \A j \in i..Len(s) : f[i] \in Nat /\ f[j] \in Nat /\ (i < j => f[i] < f[j])
  BY <1>1, <1>3, SumsGrow
<1>6. \A i : HostOf(b, i) = b.riscv_start + f[i - b.first]
  BY DEF HostOf
<1>7. riscv_end(b) = b.riscv_start + f[Len(s)]
  BY DEF riscv_end, Total
<1> HIDE DEF f
<1>8. ASSUME NEW i \in b.first..(b.last + 1)
      PROVE  i - b.first \in 0..Len(s) /\ HostOf(b, i) \in Nat \ {0}
  <2>1. i - b.first \in 0..Len(s)
    BY <1>1, <1>2
  <2>2. i - b.first \in (i - b.first)..Len(s)
    BY <2>1, <1>2
  <2>3. f[i - b.first] \in Nat
    BY <1>5, <2>1, <2>2
  <2> QED
    BY <1>1, <1>6, <2>1, <2>3
<1>9. ASSUME NEW i \in b.first..b.last
      PROVE  HostOf(b, i + 1) = HostOf(b, i) + WorkOf(i, b)
  <2>1. /\ i - b.first + 1 \in 1..Len(s) /\ (i + 1) - b.first = i - b.first + 1
        /\ (i - b.first + 1) - 1 = i - b.first /\ i - b.first \in 0..Len(s)
    <3> DEFINE first == b.first
               last == b.last
               n == Len(s)
    <3>1. first \in Int /\ last \in Int /\ n \in Nat /\ n = last - first + 1 /\ i \in first..last
      BY <1>1, <1>2
    <3> HIDE DEF first, last, n
    <3>2. /\ i - first + 1 \in 1..n /\ (i + 1) - first = i - first + 1
          /\ (i - first + 1) - 1 = i - first /\ i - first \in 0..n
      BY <3>1
    <3> QED
      BY <3>2 DEF first, n
  <2>2. f[(i + 1) - b.first] = f[i - b.first] + s[i - b.first + 1]
    BY <1>4, <2>1
  <2>3. f[i - b.first] \in Int /\ s[i - b.first + 1] \in Nat
    BY <1>3, <1>4, <2>1
  <2>4. WorkOf(i, b) = s[i - b.first + 1]
    BY DEF WorkOf
  <2>5. HostOf(b, i + 1) = b.riscv_start + f[(i + 1) - b.first] /\ HostOf(b, i) = b.riscv_start + f[i - b.first]
    BY <1>6
  <2> HIDE DEF s
  <2> QED
    BY <1>1, <2>2, <2>3, <2>4, <2>5
<1>10. ASSUME NEW i \in b.first..(b.last + 1), NEW j \in b.first..(b.last + 1), i < j
       PROVE  HostOf(b, i) < HostOf(b, j)
  <2>1. i - b.first \in 0..Len(s) /\ j - b.first \in (i - b.first)..Len(s) /\ i - b.first < j - b.first
    <3> DEFINE first == b.first
               last == b.last
               n == Len(s)
    <3>1. first \in Int /\ last \in Int /\ n \in Nat /\ n = last - first + 1
          /\ i \in first..(last + 1) /\ j \in first..(last + 1) /\ i < j
      BY <1>1, <1>2, <1>10
    <3> HIDE DEF first, last, n
    <3>2. i - first \in 0..n /\ j - first \in (i - first)..n /\ i - first < j - first
      BY <3>1
    <3> QED
      BY <3>2 DEF first, n
  <2>2. f[i - b.first] \in Nat /\ f[j - b.first] \in Nat /\ f[i - b.first] < f[j - b.first]
    BY <1>5, <2>1
  <2> DEFINE x == f[i - b.first]
             y == f[j - b.first]
             z == b.riscv_start
  <2>3. z \in Nat /\ x \in Nat /\ y \in Nat /\ x < y
    BY <1>1, <2>2
  <2>4. HostOf(b, i) = z + x /\ HostOf(b, j) = z + y
    BY <1>6
  <2> HIDE DEF x, y, z
  <2> QED
    BY <2>3, <2>4
<1>11. HostOf(b, b.first) = b.riscv_start
  <2>1. b.first - b.first = 0
    BY <1>2
  <2> QED
    BY <1>1, <1>4, <1>6, <2>1
<1>12. HostOf(b, b.last + 1) = riscv_end(b)
  <2>1. (b.last + 1) - b.first = Len(s)
    BY <1>1, <1>2
  <2> QED
    BY <1>6, <1>7, <2>1
<1> HIDE DEF s
<1> QED
  BY <1>1, <1>2, <1>8, <1>9, <1>10, <1>11, <1>12

\* resolve_block() finds the instruction whose batch an address lies in.
LEMMA InItsBatch ==
    ASSUME NEW b, BlockShape(b), NEW i \in b.first..b.last, NEW o \in 0..(WorkOf(i, b) - 1)
    PROVE  InHost(HostOf(b, i) + o, b) /\ ResolvedInstr(HostOf(b, i) + o, b) = Guest(i)
<1> DEFINE a == HostOf(b, i) + o
           passed == {j \in b.first..b.last : HostOf(b, j) <= a}
<1>1. /\ b.first \in Nat /\ b.last \in Nat /\ WorkOf(i, b) \in Nat \ {0}
      /\ HostOf(b, i) \in Nat /\ HostOf(b, i + 1) \in Nat /\ HostOf(b, i + 1) = HostOf(b, i) + WorkOf(i, b)
      /\ b.riscv_start \in Nat /\ HostOf(b, b.first) = b.riscv_start
      /\ HostOf(b, b.last + 1) = riscv_end(b) /\ riscv_end(b) \in Nat
  BY HostGrows
<1>2. a \in Nat /\ HostOf(b, i) <= a /\ a < HostOf(b, i + 1)
  BY <1>1
<1>3. \A j \in b.first..(b.last + 1) : \A k \in b.first..(b.last + 1) :
          /\ HostOf(b, j) \in Nat
          /\ j < k => HostOf(b, j) < HostOf(b, k)
  BY HostGrows
<1> HIDE DEF a
<1>4. InHost(a, b)
  <2>1. HostOf(b, b.first) <= HostOf(b, i)
    <3>1. b.first = i \/ b.first < i
      BY <1>1
    <3> QED
      BY <1>1, <1>3, <3>1
  <2>2. HostOf(b, i + 1) <= HostOf(b, b.last + 1)
    <3>1. i = b.last \/ i + 1 < b.last + 1
      BY <1>1
    <3>2. i + 1 \in b.first..(b.last + 1) /\ b.last + 1 \in b.first..(b.last + 1)
      BY <1>1
    <3> QED
      BY <1>1, <1>3, <3>1, <3>2
  <2> QED
    BY <1>1, <1>2, <2>1, <2>2 DEF InHost
<1>5. ASSUME NEW j \in b.first..b.last
      PROVE  /\ HostOf(b, j) <= a <=> j <= i
             /\ HostOf(b, j) = a => j = i
  <2>1. j \in b.first..(b.last + 1) /\ i \in b.first..(b.last + 1) /\ i + 1 \in b.first..(b.last + 1)
    BY <1>1
  <2>2. HostOf(b, j) \in Nat /\ (j < i => HostOf(b, j) < HostOf(b, i))
        /\ (i + 1 < j => HostOf(b, i + 1) < HostOf(b, j))
    BY <1>3, <2>1
  <2>3. j < i \/ j = i \/ j = i + 1 \/ i + 1 < j
    BY <1>1
  <2> QED
    BY <1>1, <1>2, <2>2, <2>3
<1>6. passed = b.first..i
  BY <1>1, <1>5
<1>7. i \in passed
  BY <1>1, <1>6
<1>8. CASE \E j \in passed : HostOf(b, j) = a
  <2>1. \A j \in passed : HostOf(b, j) = a => j = i
    BY <1>5
  <2>2. (CHOOSE j \in passed : HostOf(b, j) = a) = i
    <3> HIDE DEF passed
    <3> QED
      BY <1>7, <1>8, <2>1
  <2> QED
    BY <1>4, <1>8, <2>2 DEF ResolvedInstr, a
<1>9. CASE ~ \E j \in passed : HostOf(b, j) = a
  <2>1. Max(passed) = i
    <3>1. i \in Nat /\ passed \in SUBSET (0..i) /\ passed # {}
      BY <1>1, <1>6, <1>7
    <3>2. Max(passed) \in passed /\ \A y \in passed : y <= Max(passed)
      <4> HIDE DEF passed
      <4> QED
        BY <3>1, GreatestOf
    <3> QED
      BY <1>6, <1>7, <3>1, <3>2
  <2> QED
    BY <1>4, <1>9, <2>1 DEF ResolvedInstr, a
<1> QED
  BY <1>8, <1>9


-----------------------------------------------------------------------------
(* Insertion *)

\* t is s with e behind its first k elements.
IsInserted(t, s, k, e) ==
    /\ Len(t) = Len(s) + 1
    /\ \A n \in 1..Len(t) : t[n] = IF n <= k THEN s[n] ELSE IF n = k + 1 THEN e ELSE s[n - 1]

LEMMA Inserted ==
    ASSUME NEW S, NEW s \in Seq(S), NEW e \in S, NEW k \in 0..Len(s)
    PROVE  /\ InsertAt(s, k + 1, e) \in Seq(S)
           /\ IsInserted(InsertAt(s, k + 1, e), s, k, e)
<1> DEFINE a == SubSeq(s, 1, k)
           c == SubSeq(s, k + 1, Len(s))
<1>1. Len(s) \in Nat /\ k \in Nat /\ (k + 1) - 1 = k
  BY LenProperties
<1>2. a \in Seq(S) /\ Len(a) = k /\ \A n \in 1..k : a[n] = s[n]
  <2>1. \A i \in 1..k : s[i] \in S
    BY <1>1
  <2>2. /\ a \in Seq(S) /\ Len(a) = (IF 1 <= k THEN k - 1 + 1 ELSE 0)
        /\ \A n \in 1..(k - 1 + 1) : a[n] = s[1 + n - 1]
    BY <1>1, <2>1, SubSeqProperties
  <2> HIDE DEF a
  <2> QED
    BY <1>1, <2>2
<1>3. c \in Seq(S) /\ Len(c) = Len(s) - k /\ \A n \in 1..(Len(s) - k) : c[n] = s[k + n]
  <2>1. \A i \in (k + 1)..Len(s) : s[i] \in S
    BY <1>1
  <2>2. k + 1 \in Int /\ Len(s) \in Int
    BY <1>1
  <2>3. /\ c \in Seq(S) /\ Len(c) = (IF k + 1 <= Len(s) THEN Len(s) - (k + 1) + 1 ELSE 0)
        /\ \A n \in 1..(Len(s) - (k + 1) + 1) : c[n] = s[(k + 1) + n - 1]
    BY <2>1, <2>2, SubSeqProperties
  <2> HIDE DEF c
  <2>4. ASSUME NEW n \in 1..(Len(s) - k) PROVE c[n] = s[k + n]
    <3>1. n \in 1..(Len(s) - (k + 1) + 1) /\ (k + 1) + n - 1 = k + n
      BY <1>1
    <3> QED
      BY <2>3, <3>1
  <2> QED
    BY <1>1, <2>3, <2>4
<1> DEFINE t == InsertAt(s, k + 1, e)
<1>4. t = (a \o <<e>>) \o c
  BY <1>1 DEF InsertAt
<1>5. <<e>> \in Seq(S) /\ Len(<<e>>) = 1 /\ <<e>>[1] = e
  OBVIOUS
<1> HIDE DEF a, c, t
<1> DEFINE d == a \o <<e>>
<1>6. /\ d \in Seq(S) /\ Len(d) = k + 1
      /\ \A n \in 1..(k + 1) : d[n] = IF n <= k THEN a[n] ELSE e
  <2> DEFINE f == <<e>>
  <2>1. f \in Seq(S) /\ Len(f) = 1 /\ f[1] = e
    BY <1>5
  <2> HIDE DEF f
  <2>2. /\ a \o f \in Seq(S) /\ Len(a \o f) = Len(a) + Len(f)
        /\ \A i \in 1..(Len(a) + Len(f)) : (a \o f)[i] = IF i <= Len(a) THEN a[i] ELSE f[i - Len(a)]
    BY <1>2, <2>1, ConcatProperties
  <2>3. \A n \in 1..(k + 1) : ~(n <= k) => n - k = 1
    BY <1>1
  <2> QED
    BY <1>1, <1>2, <2>1, <2>2, <2>3 DEF f
<1> HIDE DEF d
<1>7. /\ d \o c \in Seq(S) /\ Len(d \o c) = Len(d) + Len(c)
      /\ \A i \in 1..(Len(d) + Len(c)) : (d \o c)[i] = IF i <= Len(d) THEN d[i] ELSE c[i - Len(d)]
  BY <1>3, <1>6, ConcatProperties
<1>8. t = d \o c
  BY <1>4 DEF d
<1>9. t \in Seq(S) /\ Len(t) = Len(s) + 1
  <2>1. Len(d) + Len(c) = Len(s) + 1
    BY <1>1, <1>3, <1>6
  <2> QED
    BY <1>7, <1>8, <2>1
<1>10. ASSUME NEW n \in 1..Len(t)
       PROVE  t[n] = IF n <= k THEN s[n] ELSE IF n = k + 1 THEN e ELSE s[n - 1]
  <2>1. t[n] = IF n <= k + 1 THEN d[n] ELSE c[n - (k + 1)]
    BY <1>1, <1>3, <1>6, <1>7, <1>8, <1>9
  <2>2. CASE n <= k + 1
    <3>1. n \in 1..(k + 1) /\ (n <= k => n \in 1..k) /\ (~(n <= k) => n = k + 1)
      BY <1>1, <2>2
    <3>2. t[n] = IF n <= k THEN a[n] ELSE e
      BY <1>6, <2>1, <2>2, <3>1
    <3> QED
      BY <1>2, <3>1, <3>2
  <2>3. CASE ~(n <= k + 1)
    <3>1. n - (k + 1) \in 1..(Len(s) - k) /\ k + (n - (k + 1)) = n - 1 /\ ~(n <= k) /\ n # k + 1
      BY <1>1, <1>9, <2>3
    <3> QED
      BY <1>3, <2>1, <2>3, <3>1
  <2> QED
    BY <2>2, <2>3
<1>11. t \in Seq(S) /\ IsInserted(t, s, k, e)
  BY <1>9, <1>10 DEF IsInserted
<1> QED
  BY <1>11 DEF t

\* An inserted number adds to the sum, wherever it is inserted.
LEMMA InsertedSum ==
    ASSUME NEW u \in Seq(Nat), NEW v \in Seq(Nat), NEW k \in 0..Len(u), Len(v) = Len(u) + 1,
           \A n \in 1..k : v[n] = u[n], \A n \in (k + 2)..Len(v) : v[n] = u[n - 1]
    PROVE  Total(v) = Total(u) + v[k + 1]
<1> DEFINE f == Sums(u)
           g == Sums(v)
<1>1. /\ f \in [0..Len(u) -> Int] /\ f[0] = 0 /\ \A n \in 1..Len(u) : f[n] = f[n - 1] + u[n]
      /\ g \in [0..Len(v) -> Int] /\ g[0] = 0 /\ \A n \in 1..Len(v) : g[n] = g[n - 1] + v[n]
  <2>1. u \in Seq(Int) /\ v \in Seq(Int)
    BY SeqMonotonic
  <2> QED
    BY <2>1, SumsEquation
<1>2. Total(u) = f[Len(u)] /\ Total(v) = g[Len(v)]
  BY DEF Total
<1>3. Len(u) \in Nat /\ k \in Nat /\ Len(v) \in Nat /\ v[k + 1] \in Nat
  BY LenProperties
<1> HIDE DEF f, g
<1> DEFINE T == {n \in 0..Len(v) : g[n] = IF n <= k THEN f[n] ELSE f[n - 1] + v[k + 1]}
<1>4. 0 \in T
  BY <1>1, <1>3
<1>5. ASSUME NEW n \in 0..(Len(v) - 1), n \in T PROVE n + 1 \in T
  <2>1. n + 1 \in 1..Len(v) /\ (n + 1) - 1 = n /\ n \in 0..Len(v) /\ n + 1 \in 0..Len(v)
    BY <1>3
  <2>2. g[n + 1] = g[n] + v[n + 1]
    BY <1>1, <2>1
  <2>3. CASE n < k
    <3>1. n + 1 \in 1..k /\ n + 1 \in 1..Len(u) /\ n + 1 <= k /\ n <= k
      BY <1>3, <2>3
    <3>2. f[n + 1] = f[n] + u[n + 1]
      BY <1>1, <2>1, <3>1
    <3> QED
      BY <1>5, <2>1, <2>2, <3>1, <3>2
  <2>4. CASE n = k
    <3>1. ~(n + 1 <= k) /\ n <= k
      BY <1>3, <2>4
    <3> QED
      BY <1>5, <2>1, <2>2, <2>4, <3>1
  <2>5. CASE n > k
    <3>1. n + 1 \in (k + 2)..Len(v) /\ n \in 1..Len(u) /\ ~(n + 1 <= k) /\ ~(n <= k)
      BY <1>3, <2>5
    <3>2. f[n] = f[n - 1] + u[n] /\ v[n + 1] = u[n]
      BY <1>1, <2>1, <3>1
    <3>3. f[n - 1] \in Int /\ u[n] \in Nat
      <4>1. n - 1 \in 0..Len(u) /\ n \in 1..Len(u)
        BY <1>3, <3>1
      <4>2. f[n - 1] \in Int
        BY <1>1, <4>1
      <4>3. u[n] \in Nat
        BY <4>1, ElementOfSeq
      <4> QED
        BY <4>2, <4>3
    <3>4. g[n] = f[n - 1] + v[k + 1]
      BY <1>5, <3>1
    <3>5. g[n + 1] = f[n] + v[k + 1]
      <4> DEFINE x == f[n - 1]
                 y == u[n]
                 z == v[k + 1]
      <4>1. x \in Int /\ y \in Int /\ z \in Int
        BY <1>3, <3>3
      <4>2. g[n + 1] = (x + z) + y /\ f[n] = x + y
        BY <2>2, <3>2, <3>4
      <4> HIDE DEF x, y, z
      <4>3. (x + z) + y = (x + y) + z
        BY <4>1
      <4> QED
        BY <4>2, <4>3 DEF z
    <3> QED
      BY <2>1, <3>1, <3>5
  <2> QED
    BY <1>3, <2>3, <2>4, <2>5
<1>6. 0..Len(v) \subseteq T
  <2> HIDE DEF T
  <2> QED
    BY <1>3, <1>4, <1>5, BoundedInduction
<1>7. Len(v) \in T /\ ~(Len(v) <= k) /\ Len(v) - 1 = Len(u)
  <2>1. Len(v) \in 0..Len(v) /\ ~(Len(v) <= k) /\ Len(v) - 1 = Len(u)
    BY <1>3
  <2> HIDE DEF T
  <2> QED
    BY <1>6, <2>1
<1> QED
  BY <1>2, <1>7


-----------------------------------------------------------------------------
(* A new block *)

LEMMA BlockFacts ==
    ASSUME TypeOK, NEW n \in Indices
    PROVE  /\ n + 1 \in 1..Len(blocks) /\ Block(n) = blocks[n + 1] /\ n \in Nat /\ Len(blocks) \in Nat
           /\ BlockShape(Block(n)) /\ Block(n) \in Blocks
           /\ Block(n).first \in Nat /\ Block(n).last \in Nat
<1>1. Len(blocks) \in Nat
  BY LenProperties DEF TypeOK
<1>2. n + 1 \in 1..Len(blocks) /\ n \in Nat
  BY <1>1 DEF Indices
<1>3. BlockShape(Block(n))
  BY DEF TypeOK
<1> QED
  BY <1>1, <1>2, <1>3, HostGrows DEF Block, BlockShape

\* translate() stops in front of what has been translated.
LEMMA EndFound ==
    ASSUME TypeOK, NEW i \in Instrs, Covering(i) = {}
    PROVE  /\ EndOfBlock(i) \in i..Len(Program) /\ i \in Nat
           /\ \A k \in i..EndOfBlock(i) : Covering(k) = {}
<1> DEFINE S == {j \in Instrs : j >= i /\ (Program[j].branch \/ Covering(j + 1) # {})} \cup {Len(Program)}
           m == Min(S)
<1>1. EndOfBlock(i) = m
  BY DEF EndOfBlock
<1>2. Len(Program) \in Nat /\ Instrs = 1..Len(Program) /\ i \in Nat
  BY Instructions
<1>3. S \in SUBSET Nat /\ S # {} /\ \A j \in S : i <= j /\ j <= Len(Program)
  BY <1>2
<1>4. m \in S /\ \A j \in S : m <= j
  <2> HIDE DEF S
  <2> QED
    BY <1>3, LeastOf
<1> HIDE DEF m
<1>5. m \in i..Len(Program)
  <2> HIDE DEF S
  <2> QED
    BY <1>2, <1>3, <1>4
<1>6. ASSUME NEW k \in i..m PROVE Covering(k) = {}
  <2> SUFFICES ASSUME Covering(k) # {} PROVE FALSE
    OBVIOUS
  <2>1. k # i
    BY <1>6
  <2>2. k - 1 \in Instrs /\ k - 1 >= i /\ (k - 1) + 1 = k /\ ~(m <= k - 1)
    BY <1>2, <1>5, <2>1
  <2>3. k - 1 \in S
    BY <2>2
  <2> QED
    BY <1>4, <2>2, <2>3
<1> QED
  BY <1>1, <1>2, <1>5, <1>6

LEMMA SizeOfBatch ==
    ASSUME NEW w \in Nat, riscv_enabled \in BOOLEAN
    PROVE  /\ BatchSize(w) \in Nat \ {0}
           /\ w > 0 => BatchSize(w) > 1
           /\ riscv_enabled => BatchSize(w) = 1 \/ BatchSize(w) % 2 = 0
<1>1. CASE riscv_enabled /\ w > 0
  <2>1. BatchSize(w) = 2 * w
    BY <1>1 DEF BatchSize
  <2> QED
    BY <1>1, <2>1
<1>2. CASE ~(riscv_enabled /\ w > 0)
  <2>1. BatchSize(w) = 1 + w
    BY <1>2 DEF BatchSize
  <2> QED
    BY <1>2, <2>1
<1> QED
  BY <1>1, <1>2

LEMMA HostEndFacts ==
    ASSUME TypeOK
    PROVE  /\ HostEnd \in Nat \ {0}
           /\ [n \in 1..Len(blocks) |-> Total(blocks[n].riscv)] \in Seq(Nat)
<1> DEFINE u == [n \in 1..Len(blocks) |-> Total(blocks[n].riscv)]
<1>1. Len(blocks) \in Nat
  BY LenProperties DEF TypeOK
<1>2. ASSUME NEW n \in 1..Len(blocks) PROVE Total(blocks[n].riscv) \in Nat
  <2>1. blocks[n] \in Blocks
    BY ElementOfSeq DEF TypeOK
  <2>2. blocks[n].riscv \in Seq(Nat)
    BY <2>1 DEF Blocks
  <2> QED
    BY <2>2, TotalIsNat
<1>3. u \in Seq(Nat) /\ Len(u) = Len(blocks)
  BY <1>1, <1>2
<1>4. Total(u) \in Nat
  <2> HIDE DEF u
  <2> QED
    BY <1>3, TotalIsNat
<1> QED
  BY <1>3, <1>4 DEF HostEnd

LEMMA NewBlockShape ==
    ASSUME TypeOK, AtEntry, phase = "translate"
    PROVE  /\ BlockShape(NewBlock) /\ NewBlock.first = at.instr /\ NewBlock.riscv_start = HostEnd
           /\ NewBlock.first \in Nat /\ NewBlock.last \in Nat
           /\ \A k \in NewBlock.first..NewBlock.last : Covering(k) = {}
<1> DEFINE b == NewBlock
           i == at.instr
           j == EndOfBlock(i)
           linked == ~Program[j].branch
           size == [k \in 1..(j - i + 1) |->
                      BatchSize(Program[i + k - 1].work + IF linked /\ i + k - 1 = j THEN 1 ELSE 0)]
<1>1. /\ i \in Instrs /\ Covering(i) = {} /\ riscv_enabled \in BOOLEAN
  BY DEF TypeOK, AtEntry
<1>2. /\ j \in i..Len(Program) /\ i \in Nat /\ \A k \in i..j : Covering(k) = {}
      /\ Len(Program) \in Nat /\ Instrs = 1..Len(Program)
  BY <1>1, EndFound, Instructions
<1>3. b = [first |-> i, last |-> j, riscv_start |-> HostEnd, riscv |-> size]
  BY DEF NewBlock, HostEnd
<1> HIDE DEF j
<1>4. j \in Instrs /\ j \in Nat /\ j - i + 1 \in Nat
  BY <1>1, <1>2
<1>5. ASSUME NEW k \in 1..(j - i + 1)
      PROVE  /\ size[k] \in Nat \ {0}
             /\ k = j - i + 1 => size[k] > 1
             /\ riscv_enabled => size[k] = 1 \/ size[k] % 2 = 0
  <2> DEFINE w == Program[i + k - 1].work + IF linked /\ i + k - 1 = j THEN 1 ELSE 0
  <2>1. i + k - 1 \in Instrs /\ (k = j - i + 1 => i + k - 1 = j)
    BY <1>1, <1>2, <1>4
  <2>2. Program[i + k - 1].work \in Nat /\ (Program[j].branch => Program[j].work > 0)
    BY <1>4, <2>1, Instructions
  <2>3. w \in Nat
    BY <2>2
  <2>4. k = j - i + 1 => w > 0
    BY <2>1, <2>2
  <2>5. size[k] = BatchSize(w)
    OBVIOUS
  <2> HIDE DEF w, size
  <2>6. /\ BatchSize(w) \in Nat \ {0} /\ (w > 0 => BatchSize(w) > 1)
        /\ riscv_enabled => BatchSize(w) = 1 \/ BatchSize(w) % 2 = 0
    BY <1>1, <2>3, SizeOfBatch
  <2> QED
    BY <2>4, <2>5, <2>6
<1>6. size \in Seq(Nat) /\ Len(size) = j - i + 1
  <2>1. \A k \in 1..(j - i + 1) : BatchSize(Program[i + k - 1].work + IF linked /\ i + k - 1 = j THEN 1 ELSE 0) \in Nat
    BY <1>5
  <2> QED
    BY <1>4, <2>1
<1> HIDE DEF size
<1>7. b \in Blocks /\ b.first = i /\ b.last = j /\ b.riscv = size /\ b.riscv_start = HostEnd
  BY <1>1, <1>3, <1>4, <1>6, HostEndFacts DEF Blocks
<1> HIDE DEF b
<1>8. Contents(b)
  <2>1. ASSUME NEW m \in i..j
        PROVE  /\ WorkOf(m, b) \in Nat \ {0} /\ (m = j => WorkOf(m, b) > 1)
               /\ riscv_enabled => WorkOf(m, b) = 1 \/ WorkOf(m, b) % 2 = 0
    <3>1. m - i + 1 \in 1..(j - i + 1) /\ (m = j => m - i + 1 = j - i + 1)
      BY <1>2, <1>4
    <3>2. WorkOf(m, b) = size[m - i + 1]
      BY <1>7 DEF WorkOf
    <3> QED
      BY <1>5, <3>1, <3>2
  <2>2. j \in i..j
    BY <1>2, <1>4
  <2> QED
    BY <1>7, <2>1, <2>2 DEF Contents
<1>9. BlockShape(b)
  BY <1>2, <1>6, <1>7, <1>8 DEF BlockShape
<1> QED
  BY <1>2, <1>4, <1>7, <1>9 DEF b


\* Where the blocks are after an insertion: New(n) is the new index of the n-th.
New(n, k) == IF n < k THEN n ELSE n + 1

LEMMA InsertIndex ==
    ASSUME TypeOK, NEW b
    PROVE  /\ insert_index(b) \in 0..Len(blocks) /\ Len(blocks) \in Nat
           /\ Larger(b) # {} => insert_index(b) \in Indices
<1> DEFINE S == Larger(b) \cup {Len(blocks)}
<1>1. Len(blocks) \in Nat
  BY LenProperties DEF TypeOK
<1>2. Larger(b) \subseteq Indices /\ Indices = 0..(Len(blocks) - 1)
  BY DEF Larger, Indices
<1>3. S \in SUBSET Nat /\ S # {} /\ \A n \in S : n \in 0..Len(blocks)
  BY <1>1, <1>2
<1>4. Min(S) \in S /\ \A y \in S : Min(S) <= y
  <2> HIDE DEF S
  <2> QED
    BY <1>3, LeastOf
<1>5. insert_index(b) = Min(S)
  BY DEF insert_index
<1>6. insert_index(b) \in 0..Len(blocks)
  BY <1>3, <1>4, <1>5
<1>7. ASSUME Larger(b) # {} PROVE insert_index(b) \in Indices
  <2>1. PICK n \in Larger(b) : TRUE
    BY <1>7
  <2>2. n <= Len(blocks) - 1 /\ n \in Nat /\ n \in S
    BY <1>1, <1>2, <2>1
  <2> HIDE DEF S
  <2>3. Min(S) <= n
    BY <1>4, <2>2
  <2> QED
    BY <1>1, <1>2, <1>5, <1>6, <2>2, <2>3
<1> QED
  BY <1>1, <1>6, <1>7

LEMMA AfterInsert ==
    ASSUME TypeOK, NEW b \in Blocks, blocks' = InsertAt(blocks, insert_index(b) + 1, b)
    PROVE  LET k == insert_index(b)
           IN  /\ k \in Nat /\ k \in Indices' /\ blocks'[k + 1] = b
               /\ Len(blocks') = Len(blocks) + 1 /\ blocks' \in Seq(Blocks)
               /\ \A n \in Indices : New(n, k) \in Indices' /\ blocks'[New(n, k) + 1] = Block(n)
               /\ \A n \in Indices' : n = k \/ \E m \in Indices : n = New(m, k)
<1> DEFINE k == insert_index(b)
<1>1. k \in 0..Len(blocks) /\ Len(blocks) \in Nat /\ blocks \in Seq(Blocks)
  BY InsertIndex DEF TypeOK
<1> HIDE DEF k
<1>2. /\ blocks' \in Seq(Blocks) /\ Len(blocks') = Len(blocks) + 1
      /\ \A n \in 1..Len(blocks') : blocks'[n] = IF n <= k THEN blocks[n] ELSE IF n = k + 1 THEN b ELSE blocks[n - 1]
  <2> DEFINE t == InsertAt(blocks, k + 1, b)
  <2>1. blocks' = t
    BY DEF k
  <2>2. t \in Seq(Blocks) /\ IsInserted(t, blocks, k, b)
    BY <1>1, Inserted
  <2> HIDE DEF t
  <2> QED
    BY <2>1, <2>2 DEF IsInserted
<1>3. Indices = 0..(Len(blocks) - 1) /\ Indices' = 0..Len(blocks)
  BY <1>1, <1>2 DEF Indices
<1>4. ASSUME NEW n \in Indices PROVE New(n, k) \in Indices' /\ blocks'[New(n, k) + 1] = Block(n)
  <2>1. CASE n < k
    <3>1. New(n, k) = n /\ n + 1 \in 1..Len(blocks') /\ n + 1 <= k
      BY <1>1, <1>2, <1>3, <2>1 DEF New
    <3> QED
      BY <1>1, <1>2, <1>3, <3>1 DEF Block
  <2>2. CASE ~(n < k)
    <3>1. New(n, k) = n + 1 /\ (n + 1) + 1 \in 1..Len(blocks') /\ ~((n + 1) + 1 <= k) /\ (n + 1) + 1 # k + 1
          /\ ((n + 1) + 1) - 1 = n + 1 /\ n + 1 \in Indices'
      BY <1>1, <1>2, <1>3, <2>2 DEF New
    <3>2. blocks'[(n + 1) + 1] = blocks[((n + 1) + 1) - 1]
      BY <1>2, <3>1
    <3> QED
      BY <3>1, <3>2 DEF Block
  <2> QED
    BY <2>1, <2>2
<1>5. ASSUME NEW n \in Indices', n # k PROVE \E m \in Indices : n = New(m, k)
  <2>1. CASE n < k
    <3>1. n \in Indices /\ n = New(n, k)
      BY <1>1, <1>3, <2>1 DEF New
    <3> QED
      BY <3>1
  <2>2. CASE ~(n < k)
    <3>1. n - 1 \in Indices /\ ~(n - 1 < k) /\ n = (n - 1) + 1
      BY <1>1, <1>3, <1>5, <2>2
    <3>2. n = New(n - 1, k)
      BY <3>1 DEF New
    <3> QED
      BY <3>1, <3>2
  <2> QED
    BY <2>1, <2>2
<1>6. k \in Indices' /\ blocks'[k + 1] = b
  <2>1. k + 1 \in 1..Len(blocks') /\ ~(k + 1 <= k)
    BY <1>1, <1>2
  <2> QED
    BY <1>1, <1>2, <1>3, <2>1
<1>7. k \in Nat
  BY <1>1
<1> QED
  BY <1>2, <1>4, <1>5, <1>6, <1>7 DEF k

\* The pointer to the current block is moved along with it: it stays valid, or
\* there is none.
LEMMA CurrentMoves ==
    ASSUME TypeOK, CurrentListed, NEW b \in Blocks, end_block(b)
    PROVE  CurrentListed'
<1> DEFINE k == insert_index(b)
<1>1. /\ k \in 0..Len(blocks) /\ Len(blocks) \in Nat /\ (Larger(b) # {} => k \in Indices)
      /\ Len(blocks') = Len(blocks) + 1
  BY InsertIndex, AfterInsert DEF end_block
<1>2. Indices = 0..(Len(blocks) - 1) /\ Indices' = 0..Len(blocks)
  BY <1>1 DEF Indices
<1>3. PushedIndex(b) = IF Larger(b) # {} /\ k >= current_index THEN current_index + 1 ELSE current_index
  BY DEF PushedIndex
<1>4. /\ PushedIndex(b) # Len(blocks) + 1 =>
             /\ current_index' = PushedIndex(b)
             /\ current' = [of |-> Len(blocks) + 1, nth |-> PushedIndex(b)]
      /\ PushedIndex(b) = Len(blocks) + 1 => current_index' = Len(blocks) + 2 /\ current' = current
  BY DEF end_block
<1> HIDE DEF k
<1>5. CASE current = NoBlock /\ current_index = Len(blocks) + 1
  <2>1. PushedIndex(b) = Len(blocks) + 1
    BY <1>1, <1>3, <1>5
  <2> QED
    BY <1>1, <1>4, <1>5, <2>1 DEF CurrentListed
<1>6. CASE current = [of |-> Len(blocks), nth |-> current_index] /\ current_index \in Indices
  <2>1. PushedIndex(b) \in Indices' /\ PushedIndex(b) # Len(blocks) + 1
    BY <1>1, <1>2, <1>3, <1>6
  <2> QED
    BY <1>1, <1>4, <2>1 DEF CurrentListed
<1> QED
  BY <1>5, <1>6 DEF CurrentListed


\* A new block shares no instruction and no host code with an older one.
LEMMA ApartFromOlder ==
    ASSUME TypeOK, BlocksApart, NEW b, BlockShape(b), b.riscv_start = HostEnd,
           \A i \in b.first..b.last : Covering(i) = {},
           NEW n \in Indices
    PROVE  Apart(b, Block(n)) /\ Apart(Block(n), b)
<1> DEFINE c == Block(n)
<1>1. /\ b.first \in Nat /\ b.last \in Nat /\ b.first <= b.last
      /\ c.first \in Nat /\ c.last \in Nat /\ c.first <= c.last
  <2>1. BlockShape(c)
    BY BlockFacts
  <2> HIDE DEF c
  <2> QED
    BY <2>1, HostGrows
<1>2. riscv_end(c) <= b.riscv_start
  BY DEF BlocksApart
<1> HIDE DEF c
<1>3. ASSUME ~(b.last < c.first), ~(c.last < b.first) PROVE FALSE
  <2>1. PICK i \in b.first..b.last : c.first <= i /\ i <= c.last
    <3>1. CASE b.first <= c.first
      <4>1. c.first \in b.first..b.last
        BY <1>1, <1>3, <3>1
      <4> QED
        BY <1>1, <4>1
    <3>2. CASE c.first < b.first
      <4>1. b.first \in b.first..b.last /\ b.first <= c.last
        BY <1>1, <1>3, <3>2
      <4> QED
        BY <1>1, <3>2, <4>1
    <3> QED
      BY <1>1, <3>1, <3>2
  <2>2. n \in Covering(i)
    BY <2>1 DEF Covering, c
  <2> QED
    BY <2>1, <2>2
<1> QED
  BY <1>2, <1>3 DEF Apart, c

LEMMA BlocksStayApart ==
    ASSUME TypeOK, BlocksApart, NEW b, BlockShape(b), b.riscv_start = HostEnd,
           \A i \in b.first..b.last : Covering(i) = {},
           blocks' = InsertAt(blocks, insert_index(b) + 1, b)
    PROVE  BlocksApart'
<1> DEFINE k == insert_index(b)
           u == [n \in 1..Len(blocks) |-> Total(blocks[n].riscv)]
           v == [n \in 1..Len(blocks') |-> Total(blocks'[n].riscv)]
<1>1. b \in Blocks
  BY DEF BlockShape
<1>2. /\ k \in Nat /\ k \in Indices' /\ blocks'[k + 1] = b
      /\ Len(blocks') = Len(blocks) + 1 /\ blocks' \in Seq(Blocks)
      /\ \A n \in Indices : New(n, k) \in Indices' /\ blocks'[New(n, k) + 1] = Block(n)
      /\ \A n \in Indices' : n = k \/ \E m \in Indices : n = New(m, k)
  BY <1>1, AfterInsert
<1>3. k \in 0..Len(blocks) /\ Len(blocks) \in Nat
  BY InsertIndex
<1>4. /\ \A n \in Indices : Apart(b, Block(n)) /\ Apart(Block(n), b)
  BY ApartFromOlder
<1> HIDE DEF k
<1>5. ASSUME NEW m \in Indices', NEW n \in Indices', m # n
      PROVE  Apart(blocks'[m + 1], blocks'[n + 1])
  <2>1. CASE m = k
    <3>1. PICK o \in Indices : n = New(o, k)
      BY <1>2, <1>5, <2>1
    <3> QED
      BY <1>2, <1>4, <2>1, <3>1
  <2>2. CASE n = k
    <3>1. PICK o \in Indices : m = New(o, k)
      BY <1>2, <1>5, <2>2
    <3> QED
      BY <1>2, <1>4, <2>2, <3>1
  <2>3. CASE m # k /\ n # k
    <3>1. PICK o \in Indices : m = New(o, k)
      BY <1>2, <2>3
    <3>2. PICK q \in Indices : n = New(q, k)
      BY <1>2, <2>3
    <3> QED
      BY <1>2, <1>5, <3>1, <3>2 DEF BlocksApart
  <2> QED
    BY <2>1, <2>2, <2>3
\* the end of the host code moves behind the new block
<1>6. HostEnd' = HostEnd + Total(b.riscv)
  <2>1. u \in Seq(Nat) /\ Len(u) = Len(blocks) /\ HostEnd = 1 + Total(u) /\ Total(u) \in Int
    <3>1. u \in Seq(Nat) /\ HostEnd \in Nat /\ HostEnd = 1 + Total(u) /\ Len(u) = Len(blocks)
      BY <1>3, HostEndFacts DEF HostEnd
    <3>2. Total(u) \in Nat
      <4> HIDE DEF u
      <4> QED
        BY <3>1, TotalIsNat
    <3> QED
      BY <3>1, <3>2
  <2>2. Total(b.riscv) \in Nat /\ \A n \in Indices : Total(Block(n).riscv) \in Nat
    <3>1. ASSUME NEW c \in Blocks PROVE Total(c.riscv) \in Nat
      <4>1. c.riscv \in Seq(Nat)
        BY DEF Blocks
      <4> QED
        BY <4>1, TotalIsNat
    <3> QED
      BY <1>1, <3>1, BlockFacts
  <2>3. ASSUME NEW n \in 1..Len(blocks') PROVE v[n] = Total(blocks'[n].riscv) /\ v[n] \in Nat
    <3>1. n - 1 \in Indices' /\ (n - 1) + 1 = n
      BY <1>2, <1>3 DEF Indices
    <3> QED
      BY <1>2, <2>2, <3>1
  <2>4. v \in Seq(Nat) /\ Len(v) = Len(u) + 1
    <3>1. Len(blocks') \in Nat
      BY <1>2, <1>3
    <3> QED
      BY <1>2, <2>1, <2>3, <3>1
  <2>5. ASSUME NEW n \in 1..k PROVE v[n] = u[n]
    <3>1. n - 1 \in Indices /\ New(n - 1, k) = n - 1 /\ (n - 1) + 1 = n /\ n \in 1..Len(blocks) /\ n \in 1..Len(blocks')
      BY <1>2, <1>3 DEF Indices, New
    <3>2. blocks'[n] = blocks[n]
      BY <1>2, <3>1 DEF Block
    <3> QED
      BY <3>1, <3>2
  <2>6. ASSUME NEW n \in (k + 2)..Len(v) PROVE v[n] = u[n - 1]
    <3>1. /\ n - 2 \in Indices /\ New(n - 2, k) = (n - 2) + 1 /\ ((n - 2) + 1) + 1 = n /\ (n - 2) + 1 = n - 1
          /\ n - 1 \in 1..Len(blocks) /\ n \in 1..Len(blocks')
      BY <1>2, <1>3, <2>1, <2>4 DEF Indices, New
    <3>2. blocks'[n] = blocks[n - 1]
      BY <1>2, <3>1 DEF Block
    <3> QED
      BY <3>1, <3>2
  <2>7. v[k + 1] = Total(b.riscv) /\ k \in 0..Len(u)
    <3>1. k + 1 \in 1..Len(blocks')
      BY <1>2, <1>3
    <3> QED
      BY <1>2, <1>3, <2>1, <3>1
  <2>8. HostEnd' = 1 + Total(v)
    BY DEF HostEnd
  <2> HIDE DEF u, v
  <2>9. Total(v) = Total(u) + v[k + 1]
    BY <2>1, <2>4, <2>5, <2>6, <2>7, InsertedSum
  <2> QED
    BY <2>1, <2>2, <2>7, <2>8, <2>9
<1>7. riscv_end(b) = HostEnd + Total(b.riscv) /\ Total(b.riscv) \in Nat
  <2>1. b.riscv \in Seq(Nat)
    BY <1>1 DEF Blocks
  <2> QED
    BY <2>1, TotalIsNat DEF riscv_end
<1>8. ASSUME NEW n \in Indices' PROVE riscv_end(blocks'[n + 1]) <= HostEnd'
  <2>1. CASE n = k
    BY <1>2, <1>6, <1>7, <2>1, HostEndFacts
  <2>2. CASE n # k
    <3>1. PICK o \in Indices : n = New(o, k)
      BY <1>2, <2>2
    <3>2. riscv_end(Block(o)) <= HostEnd /\ riscv_end(Block(o)) \in Nat /\ HostEnd \in Nat
      <4>1. BlockShape(Block(o))
        BY BlockFacts
      <4>2. Block(o).last + 1 \in Block(o).first..(Block(o).last + 1) /\ HostOf(Block(o), Block(o).last + 1) = riscv_end(Block(o))
        BY <4>1, HostGrows
      <4>3. riscv_end(Block(o)) \in Nat
        BY <4>1, <4>2, HostGrows
      <4> QED
        BY <4>3, HostEndFacts DEF BlocksApart
    <3> QED
      BY <1>2, <1>6, <1>7, <3>1, <3>2
  <2> QED
    BY <2>1, <2>2
<1> QED
  BY <1>5, <1>8 DEF BlocksApart, Block, Apart, riscv_end, Total


-----------------------------------------------------------------------------
(* The entry the guest is at *)

\* A covered instruction lies in one block.
LEMMA OneBlock ==
    ASSUME TypeOK, BlocksApart, NEW i \in Instrs, NEW n \in Covering(i)
    PROVE  /\ Covering(i) = {n} /\ n \in Indices /\ BlockShape(Block(n))
           /\ i \in Block(n).first..Block(n).last
<1>1. n \in Indices /\ Block(n).first <= i /\ i <= Block(n).last
  BY DEF Covering
<1>2. i \in Nat
  BY Instructions
<1>3. ASSUME NEW m \in Covering(i), m # n PROVE FALSE
  <2>1. m \in Indices /\ Block(m).first <= i /\ i <= Block(m).last
    BY DEF Covering
  <2>2. Block(m).last < Block(n).first \/ Block(n).last < Block(m).first
    BY <1>1, <1>3, <2>1 DEF BlocksApart, Apart
  <2>3. /\ Block(m).first \in Nat /\ Block(m).last \in Nat /\ Block(n).first \in Nat /\ Block(n).last \in Nat
    BY <1>1, <2>1, BlockFacts
  <2> QED
    BY <1>1, <1>2, <2>1, <2>2, <2>3
<1>4. /\ BlockShape(Block(n)) /\ Block(n).first \in Nat /\ Block(n).last \in Nat
  BY <1>1, BlockFacts
<1> QED
  BY <1>1, <1>2, <1>3, <1>4

\* The return address of an entry lies in the batch of its instruction, or at
\* the start of the next one's if the batch is the jump alone.
LEMMA EntryAddress ==
    ASSUME TypeOK, BlocksApart, AtEntry, phase # "translate"
    PROVE  \E n \in Indices :
              /\ Covering(at.instr) = {n} /\ ThisBlock = Block(n) /\ BlockShape(Block(n))
              /\ at.instr \in Block(n).first..Block(n).last
              /\ ra = HostOf(Block(n), at.instr) + 1 + 2 * at.hop
              /\ ra \in Nat \ {0} /\ InHost(ra, Block(n))
              /\ \/ ResolvedInstr(ra, Block(n)) = Guest(at.instr)
                 \/ /\ WorkOf(at.instr, Block(n)) = 1
                    /\ ResolvedInstr(ra, Block(n)) = Guest(at.instr + 1)
              /\ ResolvedInstr(ra, Block(n)) \in Nat \ {0}
<1>1. at.instr \in Instrs /\ at.hop \in Nat /\ Covering(at.instr) # {} /\ (at.hop = 0 \/ at.hop <= RiscvEntries)
  BY DEF TypeOK, AtEntry
<1>2. PICK n \in Covering(at.instr) : TRUE
  BY <1>1
<1> DEFINE b == Block(n)
           i == at.instr
           w == WorkOf(i, b)
<1>3. Covering(i) = {n} /\ n \in Indices /\ BlockShape(b) /\ i \in b.first..b.last
  BY <1>1, <1>2, OneBlock
<1>4. ThisBlock = b
  BY <1>3 DEF ThisBlock
<1> HIDE DEF b
<1>5. /\ b.first \in Nat /\ b.last \in Nat /\ w \in Nat \ {0} /\ HostOf(b, i) \in Nat \ {0}
      /\ HostOf(b, i + 1) = HostOf(b, i) + w
  BY <1>3, HostGrows
<1>6. RiscvEntries = IF riscv_enabled THEN w \div 2 - 1 ELSE 0
  BY <1>4 DEF RiscvEntries
<1>7. ra = HostOf(b, i) + 1 + 2 * at.hop
  BY <1>4 DEF ra
<1>8. CASE w = 1
  <2>1. at.hop = 0
    BY <1>1, <1>6, <1>8
  <2>2. i # b.last
    BY <1>3, <1>8 DEF BlockShape, Contents
  <2>3. i + 1 \in b.first..b.last
    BY <1>3, <1>5, <2>2
  <2>4. ra = HostOf(b, i + 1) + 0 /\ 0 \in 0..(WorkOf(i + 1, b) - 1)
    <3>1. WorkOf(i + 1, b) \in Nat \ {0}
      BY <1>3, <2>3, HostGrows
    <3> QED
      BY <1>5, <1>7, <1>8, <2>1, <3>1
  <2>5. InHost(ra, b) /\ ResolvedInstr(ra, b) = Guest(i + 1)
    BY <1>3, <2>3, <2>4, InItsBatch
  <2>6. Guest(i + 1) \in Nat \ {0} /\ ra \in Nat \ {0}
    <3>1. i + 1 \in 1..(Len(Program) + 1)
      BY <1>1, Instructions
    <3> QED
      BY <1>5, <1>7, <2>1, <3>1, GuestGrows
  <2> QED
    BY <1>3, <1>4, <1>7, <1>8, <2>5, <2>6 DEF b
<1>9. CASE w # 1
  <2>1. 1 + 2 * at.hop \in 0..(w - 1)
    <3>1. CASE at.hop = 0
      BY <1>5, <1>9, <3>1
    <3>2. CASE at.hop # 0
      <4>1. riscv_enabled /\ at.hop <= w \div 2 - 1
        BY <1>1, <1>6, <3>2
      <4>2. 2 * (w \div 2) <= w /\ w \div 2 \in Nat
        BY <1>5
      <4> QED
        BY <1>1, <1>5, <4>1, <4>2
    <3> QED
      BY <3>1, <3>2
  <2>2. ra = HostOf(b, i) + (1 + 2 * at.hop) /\ ra \in Nat \ {0}
    BY <1>1, <1>5, <1>7
  <2>3. InHost(ra, b) /\ ResolvedInstr(ra, b) = Guest(i)
    BY <1>3, <2>1, <2>2, InItsBatch
  <2>4. Guest(i) \in Nat \ {0}
    BY <1>1, AtItsAddress
  <2> QED
    BY <1>3, <1>4, <1>7, <2>2, <2>3, <2>4 DEF b
<1> QED
  BY <1>8, <1>9

\* resolve_block() finds the block and the instruction the guest is at, also if
\* it tries the block it has found before.
LEMMA ResolvedHere ==
    ASSUME TypeOK, BlocksApart, AtEntry, CurrentListed, phase # "translate"
    PROVE  \E n \in Indices :
              /\ Covering(at.instr) = {n} /\ ThisBlock = Block(n)
              /\ Resolved(ra) = [current |-> [of |-> Len(blocks), nth |-> n], index |-> n,
                                 guest |-> ResolvedInstr(ra, Block(n))]
              /\ \/ Resolved(ra).guest = Guest(at.instr)
                 \/ WorkOf(at.instr, Block(n)) = 1 /\ Resolved(ra).guest = Guest(at.instr + 1)
              /\ Resolved(ra).guest \in Nat \ {0}
<1>1. PICK n \in Indices :
              /\ Covering(at.instr) = {n} /\ ThisBlock = Block(n) /\ BlockShape(Block(n))
              /\ ra \in Nat \ {0} /\ InHost(ra, Block(n))
              /\ \/ ResolvedInstr(ra, Block(n)) = Guest(at.instr)
                 \/ /\ WorkOf(at.instr, Block(n)) = 1
                    /\ ResolvedInstr(ra, Block(n)) = Guest(at.instr + 1)
              /\ ResolvedInstr(ra, Block(n)) \in Nat \ {0}
  BY EntryAddress
<1>2. ASSUME NEW m \in Indices, InHost(ra, Block(m)) PROVE m = n
  <2> SUFFICES ASSUME m # n PROVE FALSE
    OBVIOUS
  <2>1. riscv_end(Block(m)) <= Block(n).riscv_start \/ riscv_end(Block(n)) <= Block(m).riscv_start
    BY DEF BlocksApart, Apart
  <2>2. /\ Block(n).riscv_start <= ra /\ ra < riscv_end(Block(n))
        /\ Block(m).riscv_start <= ra /\ ra < riscv_end(Block(m))
    BY <1>1, <1>2 DEF InHost
  <2>3. ASSUME NEW q \in Indices PROVE Block(q).riscv_start \in Nat /\ riscv_end(Block(q)) \in Nat
    <3>1. BlockShape(Block(q))
      BY BlockFacts
    <3> DEFINE c == Block(q)
    <3> HIDE DEF c
    <3>2. c.last + 1 \in c.first..(c.last + 1) /\ HostOf(c, c.last + 1) = riscv_end(c) /\ c.riscv_start \in Nat
      BY <3>1, HostGrows DEF c
    <3>3. HostOf(c, c.last + 1) \in Nat
      BY <3>1, <3>2, HostGrows DEF c
    <3> QED
      BY <3>2, <3>3 DEF c
  <2>4. /\ Block(n).riscv_start \in Nat /\ riscv_end(Block(n)) \in Nat
        /\ Block(m).riscv_start \in Nat /\ riscv_end(Block(m)) \in Nat
    BY <2>3
  <2> QED
    BY <1>1, <2>1, <2>2, <2>4
<1> DEFINE r == [current |-> [of |-> Len(blocks), nth |-> n], index |-> n,
                 guest |-> ResolvedInstr(ra, Block(n))]
<1>3. Resolved(ra) = r
  <2>1. CASE KeepsCurrent(ra)
    <3>1. current # NoBlock /\ InHost(ra, Block(current.nth))
      BY <2>1 DEF KeepsCurrent
    <3>2. current = [of |-> Len(blocks), nth |-> current_index] /\ current_index \in Indices
      BY <3>1 DEF CurrentListed
    <3>3. current.nth = current_index
      BY <3>2
    <3>4. current_index = n
      BY <1>2, <3>1, <3>2, <3>3
    <3> QED
      BY <2>1, <3>2, <3>3, <3>4 DEF Resolved
  <2>2. CASE ~KeepsCurrent(ra)
    <3>1. Holding(ra) = {n}
      BY <1>1, <1>2 DEF Holding
    <3>2. n \in Nat
      BY BlockFacts
    <3>3. Min({n}) = n
      BY <3>2, LeastOf
    <3> QED
      BY <2>2, <3>1, <3>3 DEF Resolved
  <2> QED
    BY <2>1, <2>2
<1>4. Resolved(ra).guest = ResolvedInstr(ra, Block(n))
  BY <1>3
<1> QED
  BY <1>1, <1>3, <1>4

=============================================================================
