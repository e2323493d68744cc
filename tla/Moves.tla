-------------------------------- MODULE Moves --------------------------------
(***************************************************************************)
(* Data movement beside mov: extensions, addresses, the stack.             *)
(***************************************************************************)
EXTENDS Instructions

\* A register is extended into all of the destination's register, however
\* wide the destination is.
Movsx(m, i) ==
    CASE i.src.type = "high" -> Put(m, i.dst.at, Signed(SecondByte(R(m, i.src.at)), 1))
      [] i.src.type = "reg" -> SignExtend(m, i.dst.at, i.src.at, i.src.size)
      [] i.src.type = "mem" -> ReadSigned(m, i.src, i.dst.at, "t0").m
Movzx(m, i) ==
    CASE i.src.type = "high" -> Put(m, i.dst.at, SecondByte(R(m, i.src.at)))
      [] i.src.type = "reg" -> Put(m, i.dst.at, Low(R(m, i.src.at), i.src.size))
      [] i.src.type = "mem" -> ReadFromMemory(m, i.src, i.dst.at, "t0").m

\* translate_memory does not add the segment's base, and neither does lea.
Lea(m, i) ==
    LET size == i.dst.size
        into == AddressOf(m, i.src.at, i.dst.at, "t1")
        forced == Put(into.m, i.dst.at, R(into.m, into.reg))
        aside == AddressOf(m, i.src.at, "t0", "t1")
    IN  CASE size = 8 -> forced
          [] size = 4 -> Put(forced, i.dst.at, Low(R(forced, i.dst.at), 4))
          [] size = 2 -> MoveToRegister(aside.m, i.dst.at, aside.reg, 2, "t2", FALSE)

Cex(m, size) ==
    IF size = 8 THEN SignExtend(m, "rax", "rax", 4)
    ELSE MoveToRegister(SignExtend(m, "t0", "rax", size \div 2), "rax", "t0", size, "t1", FALSE)
CSep(m, size) ==
    LET spread(d) == Put(m, d, IF Signed(R(m, "rax"), size) < 0 THEN -1 ELSE 0)
    IN  IF size = 8 THEN spread("rdx")
        ELSE MoveToRegister(spread("t0"), "rdx", "t0", size, "t1", FALSE)

LeaveFrame(m) ==
    LET s == Put(m, "rsp", R(m, "rbp"))
        l == Put(s, "rbp", Load(s, R(s, "rsp")))
    IN  Put(l, "rsp", R(l, "rsp") + 8)

Push(m, i) ==
    LET s == Put(m, "rsp", R(m, "rsp") - i.dst.size)
        v == TranslateOperand(s, i.dst, "t0", "t1", FALSE, FALSE)
    IN  Store(v.m, R(v.m, "rsp"), R(v.m, v.reg), i.dst.size)

Pop(m, i) ==
    LET top(n) == Low(Load(n, R(n, "rsp")), i.dst.size)
        d == AddressOf(m, i.dst.at, "t0", "t1")
        v == Put(d.m, "t1", top(d.m))
        popped == CASE i.dst.type = "reg" /\ i.dst.size = 8 -> Put(m, i.dst.at, top(m))
                    [] i.dst.type = "reg" /\ i.dst.size < 8 ->
                           MoveToRegister(Put(m, "t0", top(m)), i.dst.at, "t0", i.dst.size, "t1", TRUE)
                    [] i.dst.type = "mem" -> Store(v, R(v, d.reg), R(v, "t1"), i.dst.size)
    IN  Put(popped, "rsp", R(popped, "rsp") + i.dst.size)
=============================================================================
