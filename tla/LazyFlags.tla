------------------------------ MODULE LazyFlags ------------------------------
(***************************************************************************)
(* The flags are kept as operands: an instruction stores what a flag can   *)
(* be computed from and which entry of the jump table computes it; a       *)
(* reader calls that entry.                                                *)
(***************************************************************************)
EXTENDS HostMachine

\* For carry and overflow: the entry of the jump table and its two operands.
NoOperands == [op |-> "clear", size |-> 1, v0 |-> 0, v1 |-> 0]

\* As Dispatcher::run sets it up: every flag clear.
InitialInfo == [zero |-> 1, sign |-> 0, signSize |-> 0, parity |-> 1,
                carry |-> NoOperands, overflow |-> NoOperands]

Entry(op, size) == [op |-> op, size |-> size]
Constant(set) == Entry(IF set THEN "set" ELSE "clear", 1)
Unsupported == Entry("unsupported", 1)
NoEntry == Entry("none", 1)

-----------------------------------------------------------------------------
(* What an instruction stores; nothing for a flag it need not update. *)

UpdateZero(m, va, size) ==
    IF "zero" \in m.update THEN [m EXCEPT !.info.zero = Low(R(m, va), size)] ELSE m

UpdateSign(m, va, size, temp) ==
    IF "sign" \notin m.update THEN m
    ELSE Put([m EXCEPT !.info.sign = R(m, va), !.info.signSize = Bits(size) - 1],
             temp, Bits(size) - 1)

UpdateParityWhole(m, va) ==   \* a bug: the register is stored, not its byte
    IF "parity" \in m.update THEN [m EXCEPT !.info.parity = R(m, va)] ELSE m
UpdateParity(m, va) ==
    IF "parity" \in m.update THEN [m EXCEPT !.info.parity = Low(R(m, va), 1)] ELSE m

\* Either operand and the entry may be left as they are.
Stored(m, old, entry, va, vb) ==
    [op |-> IF entry = NoEntry THEN old.op ELSE entry.op,
     size |-> IF entry = NoEntry THEN old.size ELSE entry.size,
     v0 |-> IF va = "none" THEN old.v0 ELSE R(m, va),
     v1 |-> IF vb = "none" THEN old.v1 ELSE R(m, vb)]

EntryInT4(m, entry) == IF entry = NoEntry THEN m ELSE Clobber(m, {"t4"})

UpdateOverflow(m0, entry, va, vb) ==
    IF "overflow" \notin m0.update THEN m0
    ELSE LET m == EntryInT4(m0, entry)
         IN  [m EXCEPT !.info.overflow = Stored(m, @, entry, va, vb)]

UpdateCarry(m0, entry, va, vb) ==
    IF "carry" \notin m0.update THEN m0
    ELSE LET m == EntryInT4(m0, entry)
         IN  [m EXCEPT !.info.carry = Stored(m, @, entry, va, vb)]

UpdateOverflowUnsupported(m) == UpdateOverflow(m, Unsupported, "none", "none")
UpdateCarryUnsupported(m) == UpdateCarry(m, Unsupported, "none", "none")

-----------------------------------------------------------------------------
(* The jump table: flags_carry.inc.s, flags_overflow.inc.s *)

CarryOfStrict(c) ==   \* a bug: the carry that came in is forgotten
    LET src == Low(c.v0, c.size)
        dst == Low(c.v1, c.size)
    IN  CASE c.op \in {"add", "adc"} -> Bool(dst < src)
          [] c.op = "neg" -> Bool(src # 0)
          [] OTHER -> Bool(c.op = "set")
CarryOf(c) ==
    LET src == Low(c.v0, c.size)
        dst == Low(c.v1, c.size)
    IN  CASE c.op = "clear" -> 0
          [] c.op = "set" -> 1
          [] c.op = "add" -> Bool(dst < src)
          [] c.op = "adc" -> 1 - Bool(src < dst)
          [] c.op = "neg" -> Bool(src # 0)
          [] c.op = "unsupported" -> 0

\* The operand moved to the top of four bytes; a sum that does not fit there
\* differs from the sum of the four-byte adder.
AtTop(v, size) == v * 2 ^ (Bits(4) - Bits(size))
Spills(x, y) == x + y # Signed(x + y, 4)
\* The value, already incremented or not, moved to the top of the register:
\* decrementing it wraps only at the smallest number.
WrapsBelow(v, size) == LET top == Wrap(v * 2 ^ (Bits(8) - Bits(size)))
                       IN  Signed(top, 8) < Signed(top - 1, 8)

OverflowOf(o) ==
    LET src1 == Signed(o.v0, o.size)
        src2 == Signed(o.v1, o.size)
        narrow == o.size < 8
    IN  CASE o.op = "clear" -> 0
          [] o.op = "set" -> 1
          [] o.op = "add" /\ narrow -> Bool(Spills(AtTop(src1, o.size), AtTop(src2, o.size)))
          [] o.op = "adc" /\ narrow -> Bool(Spills(AtTop(src1, o.size), AtTop(src2 + 1, o.size)))
          [] o.op = "sub" /\ narrow -> Bool(Spills(AtTop(src2, o.size), -AtTop(src1, o.size)))
          [] o.op = "add" /\ ~narrow -> Bool((src1 < 0) # (Signed(src1 + src2, 8) < src2))
          [] o.op = "adc" /\ ~narrow ->
                 Bool((src1 < 0) = (src2 < 0) /\ (src1 < 0) # (Signed(src1 + src2 + 1, 8) < 0))
          [] o.op = "sub" /\ ~narrow -> Bool((src1 < 0) # (src2 < Signed(src2 - src1, 8)))
          [] o.op = "add_pos" -> Bool(src2 < src1)
          [] o.op = "add_neg" -> Bool(src1 < src2)
          [] o.op = "inc" -> Bool(WrapsBelow(Low(o.v0, o.size) + 1, o.size))
          [] o.op = "dec_neg" -> Bool(WrapsBelow(Low(o.v0, o.size), o.size))
          [] o.op = "unsupported" -> 0

\* calculate_entries for an addition or subtraction of an immediate.
Signwise(up, imm, size) == Entry(IF (imm >= 0) = up THEN "add_pos" ELSE "add_neg", size)

-----------------------------------------------------------------------------
(* What a reader emits. *)

EvaluateZero(m, dest) == Put(m, dest, Bool(m.info.zero = 0))
EvaluateSign(m, dest, temp) ==
    Put(Put(m, temp, m.info.signSize), dest, (m.info.sign \div 2 ^ m.info.signSize) % 2)
EvaluateParity(m, dest, temp) == Put(Clobber(m, {temp}), dest, EvenOnes(m.info.parity))

\* unsupported_carry and unsupported_overflow: a message with the name of the
\* instruction that stored the flag, then fault_exit.
FaultsUnsupported(c) == [c EXCEPT !.fault = TRUE]

\* An entry leaves the flag in t4 and changes t5 and t6.
Called(m, operands, value) ==
    LET c == Put(Clobber(m, {"t5", "t6"}), "t4", value)
    IN  IF operands.op = "unsupported" THEN FaultsUnsupported(c) ELSE c
EvaluateCarry(m) == Called(m, m.info.carry, CarryOf(m.info.carry))
EvaluateOverflow(m) == Called(m, m.info.overflow, OverflowOf(m.info.overflow))

\* What the debugger shows.  Carry and overflow it computes only for entries
\* that call a function, which no instruction stores.
print_flags(info) ==
    {f \in {"zero", "sign", "parity"} :
        CASE f = "zero" -> info.zero = 0
          [] f = "sign" -> info.sign \div 2 ^ info.signSize = 1
          [] f = "parity" -> EvenOnes(info.parity) = 1}
=============================================================================
