----------------------------- MODULE Conditions -----------------------------
(***************************************************************************)
(* The instructions that depend on flags: a jump, a byte that is set, a    *)
(* move.  Each evaluates the flags it needs one after the other, and an    *)
(* evaluation overwrites registers the ones before it may have left their  *)
(* flag in.                                                                *)
(***************************************************************************)
EXTENDS Instructions

BEQZ(m, r) == R(m, r) = 0
BNQZ(m, r) == R(m, r) # 0
BEQ(m, a, b) == R(m, a) = R(m, b)
BNE(m, a, b) == R(m, a) # R(m, b)

\* A branch behind the body, a branch into it or its first instruction.
Leave(m) == [m EXCEPT !.branch = FALSE]
Enter(m) == [m EXCEPT !.branch = TRUE]
Unless(b, m) == IF b THEN Leave(m) ELSE Enter(m)

OverflowFirst(m) == EvaluateSign(EvaluateOverflow(m), "t0", "t4")   \* a bug: t4 is lost
SignAndOverflow(m) == EvaluateOverflow(EvaluateSign(m, "t0", "t5"))
ZeroInT4(m) == EvaluateZero(m, "t4")
ParityInT4(m) == EvaluateParity(m, "t4", "t5")
SignInT4(m) == EvaluateSign(m, "t4", "t0")

-----------------------------------------------------------------------------
(* Jcc: the body is the exit to the target. *)

Ja(m) == LET z == ZeroInT4(m)
             c == EvaluateCarry(z)
         IN  IF BNQZ(z, "t4") THEN Leave(z) ELSE Unless(BNQZ(c, "t4"), c)
Jbe(m) == LET z == ZeroInT4(m)
              c == EvaluateCarry(z)
          IN  IF BEQZ(z, "t4") /\ ~BNQZ(c, "t4") THEN Leave(c)
              ELSE Enter(IF BEQZ(z, "t4") THEN c ELSE z)
Jc(m) == LET c == EvaluateCarry(m) IN Unless(BEQZ(c, "t4"), c)
Jg(m) == LET z == ZeroInT4(m)
             s == SignAndOverflow(z)
         IN  IF BNQZ(z, "t4") THEN Leave(z) ELSE Unless(BNE(s, "t4", "t0"), s)
Jge(m) == LET s == SignAndOverflow(m) IN Unless(BNE(s, "t4", "t0"), s)
Jl(m) == LET s == SignAndOverflow(m) IN Unless(BEQ(s, "t4", "t0"), s)
Jle(m) == LET z == ZeroInT4(m)
              s == SignAndOverflow(z)
          IN  IF BEQZ(z, "t4") /\ ~BNE(s, "t4", "t0") THEN Leave(s)
              ELSE Enter(IF BEQZ(z, "t4") THEN s ELSE z)
Jnc(m) == LET c == EvaluateCarry(m) IN Unless(BNQZ(c, "t4"), c)
Jno(m) == LET o == EvaluateOverflow(m) IN Unless(BNQZ(o, "t4"), o)
Jnp(m) == LET p == ParityInT4(m) IN Unless(BNQZ(p, "t4"), p)
Jns(m) == LET s == SignInT4(m) IN Unless(BNQZ(s, "t4"), s)
Jnz(m) == LET z == ZeroInT4(m) IN Unless(BNQZ(z, "t4"), z)
Jo(m) == LET o == EvaluateOverflow(m) IN Unless(BEQZ(o, "t4"), o)
Jp(m) == LET p == ParityInT4(m) IN Unless(BEQZ(p, "t4"), p)
Js(m) == LET s == SignInT4(m) IN Unless(BEQZ(s, "t4"), s)
Jz(m) == LET z == ZeroInT4(m) IN Unless(BEQZ(z, "t4"), z)

\* The branch tests t4, which nothing has set; rcx is not looked at again.
Jcxz(m, cc) ==
    LET x == IF cc = "ecxz" THEN Put(m, "t0", Low(R(m, "rcx"), 4)) ELSE m
    IN  Unless(BNQZ(x, "t4"), x)

Jcc(m, cc) ==
    CASE cc = "a" -> Ja(m)   [] cc = "be" -> Jbe(m)  [] cc = "c" -> Jc(m)
      [] cc = "g" -> Jg(m)   [] cc = "ge" -> Jge(m)  [] cc = "l" -> Jl(m)
      [] cc = "le" -> Jle(m) [] cc = "nc" -> Jnc(m)  [] cc = "no" -> Jno(m)
      [] cc = "np" -> Jnp(m) [] cc = "ns" -> Jns(m)  [] cc = "nz" -> Jnz(m)
      [] cc = "o" -> Jo(m)   [] cc = "p" -> Jp(m)    [] cc = "s" -> Js(m)
      [] cc = "z" -> Jz(m)   [] cc \in {"cxz", "ecxz"} -> Jcxz(m, cc)

-----------------------------------------------------------------------------
(* Setcc: the value is computed without branches, then stored. *)

SEQZ(m, d, a) == Put(m, d, Bool(R(m, a) = 0))
OR(m, d, a, b) == Put(m, d, BitOr(R(m, a), R(m, b)))
XOR(m, d, a, b) == Put(m, d, BitXor(R(m, a), R(m, b)))

SetValue(m, i, reg) ==
    IF i.dst.type = "mem"
    THEN WriteToMemory(m, i.dst, reg, "t0", "t1", "zero")
    ELSE MoveToRegister(m, i.dst.at, reg, Access(i.dst), "t0", TRUE)

CarryOrZero(m) == OR(EvaluateCarry(EvaluateZero(m, "t0")), "t0", "t0", "t4")
SignXorOverflow(m) == XOR(SignAndOverflow(m), "t0", "t0", "t4")
LessOrEqual(m) == OR(ZeroInT4(SignXorOverflow(m)), "t0", "t0", "t4")
SetClear(m, i, reg) == SetValue(SEQZ(m, "t0", reg), i, "t0")

Seta(m, i) == SetClear(CarryOrZero(m), i, "t0")
Setbe(m, i) == SetValue(CarryOrZero(m), i, "t0")
Setc(m, i) == SetValue(EvaluateCarry(m), i, "t4")
Setg(m, i) == SetClear(LessOrEqual(m), i, "t0")
Setge(m, i) == SetClear(SignXorOverflow(m), i, "t0")
Setl(m, i) == SetValue(SignXorOverflow(m), i, "t0")
Setle(m, i) == SetValue(LessOrEqual(m), i, "t0")
Setnc(m, i) == SetClear(EvaluateCarry(m), i, "t4")
Setno(m, i) == SetClear(EvaluateOverflow(m), i, "t4")
Setnp(m, i) == SetClear(ParityInT4(m), i, "t4")
Setns(m, i) == SetClear(SignInT4(m), i, "t4")
Setnz(m, i) == SetClear(ZeroInT4(m), i, "t4")
Seto(m, i) == SetValue(EvaluateOverflow(m), i, "t4")
Setp(m, i) == SetValue(ParityInT4(m), i, "t4")
Sets(m, i) == SetValue(SignInT4(m), i, "t4")
Setz(m, i) == SetValue(ZeroInT4(m), i, "t4")

Setcc(m, i) ==
    CASE i.cc = "a" -> Seta(m, i)   [] i.cc = "be" -> Setbe(m, i) [] i.cc = "c" -> Setc(m, i)
      [] i.cc = "g" -> Setg(m, i)   [] i.cc = "ge" -> Setge(m, i) [] i.cc = "l" -> Setl(m, i)
      [] i.cc = "le" -> Setle(m, i) [] i.cc = "nc" -> Setnc(m, i) [] i.cc = "no" -> Setno(m, i)
      [] i.cc = "np" -> Setnp(m, i) [] i.cc = "ns" -> Setns(m, i) [] i.cc = "nz" -> Setnz(m, i)
      [] i.cc = "o" -> Seto(m, i)   [] i.cc = "p" -> Setp(m, i)   [] i.cc = "s" -> Sets(m, i)
      [] i.cc = "z" -> Setz(m, i)

-----------------------------------------------------------------------------
(* Cmov: the body is the move.  A 4-byte destination is cleared above even *)
(* if nothing is moved.                                                    *)

ClearAbove(m, i) ==
    IF i.dst.size = 4 THEN Put(m, i.dst.at, Low(R(m, i.dst.at), 4)) ELSE m

GenerateMove(m, i) ==
    CASE i.src.type = "mem" /\ i.dst.size = 2 ->
             LET r == ReadFromMemory(m, i.src, "t0", "t1")
             IN  MoveToRegister(r.m, i.dst.at, "t0", 2, "t1", FALSE)
      [] i.src.type = "mem" /\ i.dst.size > 2 ->
             ReadFromMemory(m, i.src, i.dst.at, "t0").m
      [] i.src.type = "reg" -> MoveToRegister(m, i.dst.at, i.src.at, i.dst.size, "t0", FALSE)

\* The move is made unless the branch over it is taken.
Move(leave, m, i) == IF leave THEN m ELSE GenerateMove(m, i)

Cmova(m, i) == LET z == ZeroInT4(m)
                   c == EvaluateCarry(z)
               IN  IF BNQZ(z, "t4") THEN z ELSE Move(BNQZ(c, "t4"), c, i)
Cmovbe(m, i) == LET z == ZeroInT4(m)
                    c == EvaluateCarry(z)
                IN  IF BNQZ(z, "t4") THEN GenerateMove(z, i) ELSE Move(BEQZ(c, "t4"), c, i)
Cmovc(m, i) == LET c == EvaluateCarry(m) IN Move(BEQZ(c, "t4"), c, i)
Cmovg(m, i) == LET z == ZeroInT4(m)
                   s == SignAndOverflow(z)
               IN  IF BNQZ(z, "t4") THEN z ELSE Move(BNE(s, "t0", "t4"), s, i)
Cmovge(m, i) == LET s == SignAndOverflow(m) IN Move(BNE(s, "t0", "t4"), s, i)
Cmovl(m, i) == LET s == SignAndOverflow(m) IN Move(BEQ(s, "t0", "t4"), s, i)
Cmovle(m, i) == LET z == ZeroInT4(m)
                    s == SignAndOverflow(z)
                IN  IF BNQZ(z, "t4") THEN GenerateMove(z, i) ELSE Move(BEQ(s, "t0", "t4"), s, i)
Cmovnc(m, i) == LET c == EvaluateCarry(m) IN Move(BNQZ(c, "t4"), c, i)
Cmovno(m, i) == LET o == EvaluateOverflow(m) IN Move(BNQZ(o, "t4"), o, i)
Cmovnp(m, i) == LET p == ParityInT4(m) IN Move(BNQZ(p, "t4"), p, i)
Cmovns(m, i) == LET s == SignInT4(m) IN Move(BNQZ(s, "t4"), s, i)
Cmovnz(m, i) == LET z == ZeroInT4(m) IN Move(BNQZ(z, "t4"), z, i)
Cmovo(m, i) == LET o == EvaluateOverflow(m) IN Move(BEQZ(o, "t4"), o, i)
Cmovp(m, i) == LET p == ParityInT4(m) IN Move(BEQZ(p, "t4"), p, i)
Cmovs(m, i) == LET s == SignInT4(m) IN Move(BEQZ(s, "t4"), s, i)
Cmovz(m, i) == LET z == ZeroInT4(m) IN Move(BEQZ(z, "t4"), z, i)

Cmov(m0, i) ==
    LET m == ClearAbove(m0, i)
    IN  CASE i.cc = "a" -> Cmova(m, i)   [] i.cc = "be" -> Cmovbe(m, i) [] i.cc = "c" -> Cmovc(m, i)
          [] i.cc = "g" -> Cmovg(m, i)   [] i.cc = "ge" -> Cmovge(m, i) [] i.cc = "l" -> Cmovl(m, i)
          [] i.cc = "le" -> Cmovle(m, i) [] i.cc = "nc" -> Cmovnc(m, i) [] i.cc = "no" -> Cmovno(m, i)
          [] i.cc = "np" -> Cmovnp(m, i) [] i.cc = "ns" -> Cmovns(m, i) [] i.cc = "nz" -> Cmovnz(m, i)
          [] i.cc = "o" -> Cmovo(m, i)   [] i.cc = "p" -> Cmovp(m, i)   [] i.cc = "s" -> Cmovs(m, i)
          [] i.cc = "z" -> Cmovz(m, i)
=============================================================================
