----------------------------- MODULE HostMachine -----------------------------
(***************************************************************************)
(* The host machine as translated code uses it, and the code the           *)
(* translator emits to reach an operand.  A host state m has the           *)
(* registers, the guest's memory, the stored flag operands (info), the     *)
(* flags the current instruction was told to update, and what a clobbered  *)
(* register is found to hold (junk).  A host register keeps the name of    *)
(* the guest register mapped to it.                                        *)
(*                                                                         *)
(* An operator that emits code maps the state before that code to the      *)
(* state behind it; one that also chooses a register yields a record.      *)
(***************************************************************************)
EXTENDS Words

CONSTANTS Displacement, Segment

Temporaries == {"t0", "t1", "t2", "t3", "t4", "t5", "t6"}

\* The immediate of a host instruction has one and a half bytes.
ImmediateBits == 3 * (Byte \div 2)
IsShort(imm) == -(2 ^ (ImmediateBits - 1)) <= imm /\ imm < 2 ^ (ImmediateBits - 1)
Field(imm) == LET u == imm % 2 ^ ImmediateBits
              IN  IF 2 * u < 2 ^ ImmediateBits THEN u ELSE u - 2 ^ ImmediateBits

R(m, r) == IF r = "zero" THEN 0 ELSE m.reg[r]
Put(m, r, v) == [m EXCEPT !.reg[r] = Wrap(v)]
Clobber(m, rs) == [m EXCEPT !.reg = [r \in DOMAIN @ |-> IF r \in rs THEN m.junk ELSE @[r]]]

ADD(m, d, a, b) == Put(m, d, R(m, a) + R(m, b))
ADDI(m, d, a, imm) == Put(m, d, R(m, a) + Field(imm))

Load(m, a) == IF a \in DOMAIN m.mem THEN m.mem[a] ELSE m.junk
Store(m, a, v, size) == IF a \in DOMAIN m.mem
                        THEN [m EXCEPT !.mem[a] = Merge(@, v, size)]
                        ELSE [m EXCEPT !.stray = TRUE]

-----------------------------------------------------------------------------
(* Registers: load_from_register, move_to_register *)

\* The high register of a pair is asked for as an access of size 0.
Access(o) == IF o.type = "high" THEN 0 ELSE o.size

\* Without full_load: the bits above the operand are whatever they are.
LoadFromRegister(m, src, access, temp, modifiable) ==
    IF access = 0 THEN [m |-> Put(m, temp, R(m, src) \div 2 ^ Byte), reg |-> temp]
    ELSE IF modifiable THEN [m |-> Put(m, temp, R(m, src)), reg |-> temp]
    ELSE [m |-> m, reg |-> src]

\* With full_load a part of a register is extended by zeros or by its sign.
LoadFully(m, src, access, temp, modifiable, signed) ==
    LET v == IF access = 0 THEN SecondByte(R(m, src)) ELSE Low(R(m, src), access)
        size == IF access = 0 THEN 1 ELSE access
    IN  IF access < 8
        THEN [m |-> Put(m, temp, IF signed THEN Signed(v, size) ELSE v), reg |-> temp]
        ELSE LoadFromRegister(m, src, access, temp, modifiable)
SignExtend(m, dest, src, size) == Put(m, dest, Signed(R(m, src), size))

\* cleared promises that src has nothing above the operand.  A high byte is
\* merged through temp, which is written before src is read.
MoveHigh(m, dest, src, temp) ==
    LET t == Put(m, temp, R(m, dest) \div 2 ^ Byte)
        x == Put(t, temp, BitXor(R(t, temp), R(t, src)))
    IN  Put(x, dest, BitXor(R(x, dest), Low(R(x, temp), 1) * 2 ^ Byte))
MoveToRegister(m, dest, src, access, temp, cleared) ==
    LET room(n) == Put(m, dest, R(m, dest) - Low(R(m, dest), n))
    IN  CASE access = 8 -> Put(m, dest, R(m, src))
          [] access = 4 -> Put(m, dest, Low(R(m, src), 4))
          [] access \in {1, 2} /\ cleared ->
                 LET c == room(access) IN Put(c, dest, BitOr(R(c, dest), R(c, src)))
          [] access = 2 /\ ~cleared -> Put(m, dest, Merge(R(m, dest), R(m, src), 2))
          [] access = 1 /\ ~cleared ->
                 LET c == room(1)
                     t == Put(c, temp, Low(R(c, src), 1))
                 IN  Put(t, dest, BitOr(R(t, dest), R(t, temp)))
          [] access = 0 -> MoveHigh(m, dest, src, temp)

-----------------------------------------------------------------------------
(* Memory: read_from_memory, write_to_memory *)

\* A base needs no code; an index is added into a; a displacement that does
\* not fit is loaded into b and added into a (translate_memory).
AddressOf(m, form, a, b) ==
    CASE form \in {"base", "fs"} -> [m |-> m, reg |-> "rdi"]
      [] form = "index" -> [m |-> ADD(m, a, "rdi", "rsi"), reg |-> a]
      [] form = "far" -> LET d == Put(m, b, Displacement)
                         IN  [m |-> ADD(d, a, "rdi", b), reg |-> a]

\* handle_segment_override: the segment's base is added in front of every
\* access, whoever computed the address.
SegmentOverride(c, form, temp) ==
    IF form = "fs" THEN [m |-> Put(c.m, temp, Segment + R(c.m, c.reg)), reg |-> temp]
                   ELSE c

\* Reading yields the address for a later write to the same operand.
ReadFromMemory(m, o, dest, temp) ==
    LET c == AddressOf(m, o.at, temp, dest)
        s == SegmentOverride(c, o.at, IF c.reg = temp THEN dest ELSE temp)
    IN  [m |-> Put(s.m, dest, Low(Load(s.m, R(s.m, s.reg)), o.size)),
         reg |-> dest, address |-> s.reg]

ReadSigned(m, o, dest, temp) ==
    LET r == ReadFromMemory(m, o, dest, temp)
    IN  [r EXCEPT !.m = Put(r.m, dest, Signed(R(r.m, dest), o.size))]

WriteToMemory(m, o, src, a, b, address) ==
    LET c == IF address = "zero" THEN AddressOf(m, o.at, a, b)
                                 ELSE [m |-> m, reg |-> address]
        s == SegmentOverride(c, o.at, IF c.reg = a THEN b ELSE a)
    IN  Store(s.m, R(s.m, s.reg), R(s.m, src), o.size)

-----------------------------------------------------------------------------
(* Operands: translate_operand, translate_destination *)

Addressless(l) == [m |-> l.m, reg |-> l.reg, address |-> "zero"]

TranslateOperand(m, o, a, b, modifiable, destination) ==
    CASE o.type = "mem" -> ReadFromMemory(m, o, a, b)
      [] o.type = "imm" -> [m |-> Put(m, a, Low(o.at, o.size)), reg |-> a, address |-> "zero"]
      [] o.type \in {"reg", "high"} ->
             IF destination /\ o.size >= 4
             THEN [m |-> m, reg |-> o.at, address |-> "zero"]
             ELSE Addressless(LoadFromRegister(m, o.at, Access(o), a, modifiable))

\* With full_load; the address is not asked for.
OperandFully(m, o, a, b, modifiable, signed) ==
    CASE o.type = "mem" -> LET r == IF signed THEN ReadSigned(m, o, a, b)
                                              ELSE ReadFromMemory(m, o, a, b)
                           IN  [m |-> r.m, reg |-> a]
      [] o.type = "imm" -> [m |-> Put(m, a, o.at), reg |-> a]
      [] o.type \in {"reg", "high"} -> LoadFully(m, o.at, Access(o), a, modifiable, signed)

DestinationElsewhere(m, o, reg, address, a, b) ==   \* a bug: a register is its own image
    IF o.type = "mem" THEN WriteToMemory(m, o, reg, a, b, address)
    ELSE IF o.at = reg THEN m
    ELSE MoveToRegister(m, o.at, reg, Access(o), a, FALSE)
TranslateDestination(m, o, reg, address, a, b) ==
    CASE o.type = "mem" -> WriteToMemory(m, o, reg, a, b, address)
      [] o.type \in {"reg", "high"} ->
             IF o.size # 8 \/ o.at # reg
             THEN MoveToRegister(m, o.at, reg, Access(o), a, FALSE)
             ELSE m
=============================================================================
