------------------------------- MODULE Strings -------------------------------
(***************************************************************************)
(* String instructions: one element, repeated in a loop of host code while *)
(* rcx is not 0.  The comparisons keep the element of the guest's source   *)
(* in t2, that of its target in t1 and the difference in t0.               *)
(***************************************************************************)
EXTENDS Instructions

Diff == "t0"
Src == "t1"
Dst == "t2"

Advance(m, rs, size) ==
    [m EXCEPT !.reg = [r \in DOMAIN @ |-> IF r \in rs THEN Wrap(@[r] + size) ELSE @[r]]]
Fetch(m, d, a, size) == Put(m, d, Low(Load(m, R(m, a)), size))

Movs(m, size) ==
    LET l == Fetch(m, "t4", "rsi", size)
    IN  Advance(Store(l, R(l, "rdi"), R(l, "t4"), size), {"rsi", "rdi"}, size)
Stos(m, size) == Advance(Store(m, R(m, "rdi"), R(m, "rax"), size), {"rdi"}, size)
Lods(m, size) ==
    LET l == Fetch(m, "t4", "rsi", size)
    IN  Advance(IF size = 8 THEN Fetch(m, "rax", "rsi", 8)
                ELSE MoveToRegister(l, "rax", "t4", size, "t5", TRUE), {"rsi"}, size)
Cmps(m, size) ==
    LET l == Fetch(Fetch(m, Dst, "rsi", size), Src, "rdi", size)
    IN  Advance(Subtracted(l, Diff, Dst, Src), {"rsi", "rdi"}, size)
Scas(m, size) ==
    LET l == Fetch(m, Src, "rdi", size)
    IN  Advance(Subtracted(l, Diff, Dst, Src), {"rdi"}, size)

ExecuteElement(m, op, size) ==
    CASE op = "movs" -> Movs(m, size)   [] op = "stos" -> Stos(m, size)
      [] op = "lods" -> Lods(m, size)   [] op = "cmps" -> Cmps(m, size)
      [] op = "scas" -> Scas(m, size)

\* What scas compares with is loaded once, in front of the loop; of eight
\* bytes nothing is loaded.
Prepare(m, op, size) ==
    IF op = "scas" THEN LoadFully(m, "rax", size, Dst, FALSE, FALSE).m ELSE m

\* The flags of the last difference.
UpdateFlags(m, size) ==
    LET f == ResultFlags(m, Diff, size, "t3")
    IN  UpdateOverflow(UpdateCarry(f, Entry("add", size), Diff, Dst), Entry("sub", size), Dst, Src)

\* The loop ends when rcx is 0, for a comparison also when its result is not
\* the one the prefix asks for.  A loop that does not start leaves the flags.
Different(m) == R(m, Diff) # 0
Ends(m, cc) == (cc = "repz" /\ Different(m)) \/ (cc = "repnz" /\ ~Different(m))
RECURSIVE Loop(_, _)
Loop(m, i) ==
    LET e == ExecuteElement(Put(m, "rcx", R(m, "rcx") - 1), i.op, i.dst.size)
    IN  IF Ends(e, i.cc) \/ R(e, "rcx") = 0 THEN e ELSE Loop(e, i)

Repeatable(m, i) ==
    IF i.cc = None THEN ExecuteElement(m, i.op, i.dst.size)
    ELSE IF R(m, "rcx") = 0 THEN m ELSE Loop(m, i)

RepeatableFlag(m0, i) ==
    LET m == Prepare(m0, i.op, i.dst.size)
    IN  IF i.cc # None /\ R(m, "rcx") = 0 THEN m
        ELSE UpdateFlags(IF i.cc = None THEN ExecuteElement(m, i.op, i.dst.size) ELSE Loop(m, i),
                         i.dst.size)
=============================================================================
