----------------------------- MODULE Dispatcher -----------------------------
(***************************************************************************)
(* The dispatcher and everything it caches.  Translated code leaves a      *)
(* basic block through reroute_static, reroute_dynamic or reroute_return,  *)
(* which find or make the translation of the target and remember it in     *)
(* three places: the TLB, the exit of the block itself (overwritten by     *)
(* update_basic_block) and the call table, which the return stack indexes. *)
(*                                                                         *)
(* One action is one translated instruction or one run of a reroute        *)
(* handler, translate() included: the program has one thread.              *)
(***************************************************************************)
EXTENDS GuestProgram, Integers

CONSTANTS
    TlbSize,    \* entries of the TLB (128 in the code)
    Hash,       \* the slot compute_tlb_address takes for an address
    RingSize,   \* entries of the return stack (256 in the code)
    FreedReads  \* what a freed CallEntry may be found to hold, besides the
                \* address it held when it was freed

Slots == 0..(TlbSize - 1)
Ring == 0..(RingSize - 1)

ASSUME TlbAssumption == TlbSize \in Nat \ {0} /\ Hash \in [Guest -> Slots]
ASSUME RingAssumption == RingSize \in Nat \ {0}
ASSUME FreedAssumption == FreedReads \subseteq Guest

VARIABLES
    at,      \* who runs: "host" code, a reroute handler, or how it ended
    pc,      \* the translated instruction that runs, or that left its block
    t3,      \* the x86 address handed to the reroute handler
    t1,      \* the call table offset handed to reroute_return
    top,     \* _code_buffer: host addresses 1..top hold translated code
    code,    \* what the translation at a host address does
    host,    \* CodeStore::find(), 0 while an address is not translated
    exits,   \* exits update_basic_block has overwritten, and with what
    tlb,     \* x86 address and host address of every slot
    table,   \* _call_table
    cap,     \* the capacity of the vector _call_table
    ring,    \* the return stack: offsets into the call table
    rp,      \* the return stack pointer
    stack,   \* the guest's stack
    paired   \* history: newest entries of ring whose calls have not returned

store == <<top, code, host, table, cap>>
vars == <<at, pc, t3, t1, store, exits, tlb, ring, rp, stack, paired>>

Handlers == {"static", "dynamic", "return"}
Ended == {"exit", "fault", "killed"}

\* next: the host address the block was linked to when it ran into one that
\* was translated already, or 0.  entry: the call table offset of a call.
Cell == [x86 : Image, next : Nat, entry : Nat]
TlbEntry == [x86 : Guest, riscv : Nat]
CallEntry == [x86 : Guest, riscv : Nat]

TypeOK ==
    /\ at \in {"host"} \cup Handlers \cup Ended
    /\ pc \in Nat /\ t3 \in Guest /\ t1 \in Nat
    /\ top \in Nat
    /\ code \in [1..top -> Cell]
    /\ host \in [Guest -> Nat]
    /\ DOMAIN exits \subseteq 1..top
    /\ \A h \in DOMAIN exits : exits[h] \in Nat
    /\ tlb \in [Slots -> TlbEntry]
    /\ table \in Seq(CallEntry)
    /\ cap \in Nat
    /\ ring \in [Ring -> Nat]
    /\ rp \in Ring
    /\ stack \in Seq(Guest)
    /\ paired \in 0..RingSize

\* run(): the guest context, then guest_enter calls reroute_dynamic with the
\* entry point in t3.  The TLB and the return stack are fresh, zeroed maps.
Init ==
    /\ at = "dynamic" /\ pc = 0 /\ t3 = Entry /\ t1 = 0
    /\ top = 0
    /\ code = [h \in 1..0 |-> [x86 |-> 0, next |-> 0, entry |-> 0]]
    /\ host = [g \in Guest |-> 0]
    /\ exits = [h \in 1..0 |-> 0]
    /\ tlb = [s \in Slots |-> [x86 |-> 0, riscv |-> 0]]
    /\ table = <<[x86 |-> 0, riscv |-> 0]>>
    /\ cap = 1
    /\ ring = [i \in Ring |-> 0]
    /\ rp = 0
    /\ stack = <<Argc>>
    /\ paired = 0

-----------------------------------------------------------------------------
(* CodeGenerator::translate *)

\* Where the block from g can end: at an instruction with eob, or right before
\* a block that exists already.
Ends(g) == {e \in Image : /\ g <= e
                          /\ g..e \subseteq Image
                          /\ Eob(e) \/ host[e + 1] # 0}

IsEnd(g, e) == e \in Ends(g) /\ \A f \in Ends(g) : e <= f

\* The state after the block g..e has been emitted behind the code there is.
\* generate() of a call appends its return address to the call table.
IsCall(a) == Kind(a) = "call"

Link(a, e) == IF a = e /\ ~Eob(e) THEN host[e + 1] ELSE 0

EntryOf(a) == IF IsCall(a) THEN Len(table) ELSE 0

EmittedCell(g, e, h) ==
    LET a == g + (h - top - 1) IN
    [x86 |-> a, next |-> Link(a, e), entry |-> EntryOf(a)]

TopAfter(g, e) == top + (e - g + 1)
CodeAfter(g, e) == [h \in 1..TopAfter(g, e) |->
                       IF h <= top THEN code[h] ELSE EmittedCell(g, e, h)]
\* (A bug: the instruction in front of the block is renumbered too.)
HostAfterFromBefore(g, e) == [x \in Guest |->
                       IF x \in (g - 1)..e THEN top + 1 + (x - g) ELSE host[x]]
HostAfter(g, e) == [x \in Guest |->
                       IF x \in g..e THEN top + 1 + (x - g) ELSE host[x]]
TableAfter(e) == IF IsCall(e)
                 THEN Append(table, [x86 |-> e + 1, riscv |-> 0])
                 ELSE table

\* emplace_back at full capacity moves the table and frees the old memory.
Grows(e) == IsCall(e) /\ Len(table) = cap

EmitCode(g, e) == /\ top' = TopAfter(g, e)
                  /\ code' = CodeAfter(g, e)
                  /\ host' = HostAfter(g, e)
                  /\ cap' = IF Grows(e) THEN 2 * cap ELSE cap

\* translate(g) answers host'[g]: the translation it finds, or a new one.
Find(g) == g \in Image /\ host[g] # 0 /\ UNCHANGED store
Generate(g) == /\ g \in Image /\ host[g] = 0
               /\ \E e \in Image : /\ IsEnd(g, e)
                                   /\ EmitCode(g, e)
                                   /\ table' = TableAfter(e)
Translate(g) == Find(g) \/ Generate(g)

\* The page is not executable, or decoding runs off the image.
CannotTranslate(g) == g \notin Image \/ (host[g] = 0 /\ Ends(g) = {})

-----------------------------------------------------------------------------
(* Translated code.  Every action runs the instruction at pc. *)

Running(kinds) == at = "host" /\ pc \in 1..top /\ Kind(code[pc].x86) \in kinds

Here == code[pc].x86

\* Control reaches host address h; the temporaries are dead.
Land(h) == at' = "host" /\ pc' = h /\ t3' = 0 /\ t1' = 0

\* The next instruction of the block, or the block this one was linked to.
FallThrough == Land(IF code[pc].next # 0 THEN code[pc].next ELSE pc + 1)

Reroute(handler, target) == at' = handler /\ pc' = pc /\ t3' = target /\ t1' = 0

\* The exit of a block with a direct target.  Before it is overwritten it
\* calls reroute_static; the old words may still be fetched afterwards, there
\* is no fence.i after update_basic_block.
StaticExit(target) ==
    \/ pc \in DOMAIN exits /\ Land(exits[pc])
    \/ Reroute("static", target)

BranchExit == IF Prog[Here].imm # 0
              THEN StaticExit(Prog[Here].imm)
              ELSE \E g \in Targets : Reroute("dynamic", g)

Plain == /\ Running({"plain"})
         /\ FallThrough
         /\ UNCHANGED <<store, exits, tlb, ring, rp, stack, paired>>

Push == /\ Running({"push"})
        /\ Len(stack) < StackSize
        /\ stack' = Append(stack, Prog[Here].imm)
        /\ FallThrough
        /\ UNCHANGED <<store, exits, tlb, ring, rp, paired>>

Pop == /\ Running({"pop"})
       /\ stack # << >>
       /\ stack' = SubSeq(stack, 1, Len(stack) - 1)
       /\ FallThrough
       /\ UNCHANGED <<store, exits, tlb, ring, rp, paired>>

Jcc == /\ Running({"jcc"})
       /\ FallThrough \/ BranchExit
       /\ UNCHANGED <<store, exits, tlb, ring, rp, stack, paired>>

Jmp == /\ Running({"jmp"})
       /\ BranchExit
       /\ UNCHANGED <<store, exits, tlb, ring, rp, stack, paired>>

Syscall == /\ Running({"syscall"})
           /\ StaticExit(Here + 1)
           /\ UNCHANGED <<store, exits, tlb, ring, rp, stack, paired>>

\* The return stack is a ring in one page: ANDI clears the carry out of it.
RingNext == (rp + 1) % RingSize

\* (A bug: the slot that is written next.)
RingPrevReadsNext == rp
RingPrev == (rp + RingSize - 1) % RingSize

Call == /\ Running({"call"})
        /\ Len(stack) < StackSize
        /\ ring' = [ring EXCEPT ![rp] = code[pc].entry]
        /\ rp' = RingNext
        /\ stack' = Append(stack, table[code[pc].entry + 1].x86)
        /\ paired' = IF paired < RingSize THEN paired + 1 ELSE RingSize
        /\ BranchExit
        /\ UNCHANGED <<store, exits, tlb>>

\* (A bug: the return address on the stack is not looked at.)
NeverMispredicted(entry, target) == FALSE
Mispredicted(entry, target) == entry.x86 # target

\* The popped address is compared with the one of the call table entry the
\* return stack names; only if they agree is the entry's host address used.
Ret == /\ Running({"ret"})
       /\ stack # << >>
       /\ LET target == stack[Len(stack)]
              p == RingPrev
              entry == table[ring[p] + 1]
          IN /\ rp' = p
             /\ \/ /\ Mispredicted(entry, target)
                   /\ Reroute("dynamic", target)
                \/ /\ ~Mispredicted(entry, target) /\ entry.riscv # 0
                   /\ Land(entry.riscv)
                \/ /\ ~Mispredicted(entry, target) /\ entry.riscv = 0
                   /\ at' = "return" /\ pc' = pc
                   /\ t3' = target /\ t1' = ring[p]
       /\ stack' = SubSeq(stack, 1, Len(stack) - 1)
       /\ paired' = IF paired = 0 THEN 0 ELSE paired - 1
       /\ UNCHANGED <<store, exits, tlb, ring>>

End(how) == /\ at' = how
            /\ UNCHANGED <<pc, t3, t1, store, exits, tlb, ring, rp, stack, paired>>

Exit == Running({"exit"}) /\ End("exit")

Unsupported == Running({"unsupported"}) /\ End("fault")

\* The guest leaves its stack: the host's page fault ends the process.
Killed == /\ \/ Running({"call", "push"}) /\ Len(stack) >= StackSize
             \/ Running({"pop", "ret"}) /\ stack = << >>
          /\ End("killed")
-----------------------------------------------------------------------------
(* The reroute handlers *)

\* (A bug: any entry of the slot will do.)
InTlbUnchecked(g) == tlb[Hash[g]].riscv # 0
InTlb(g) == tlb[Hash[g]].x86 = g

\* (A bug: the key of the slot stays.)
UpdateTlbForgetsKey(slot, key) == tlb' = [tlb EXCEPT ![slot].riscv = host'[t3]]
UpdateTlb(slot, key) == tlb' = [tlb EXCEPT ![slot] = [x86 |-> key, riscv |-> host'[t3]]]

\* (A bug: the exit of the instruction before it is overwritten.)
UpdateBlockBefore(h) ==
    exits' = [x \in DOMAIN exits \cup {pc - 1} |-> IF x = pc - 1 THEN h ELSE exits[x]]
UpdateBasicBlock(h) ==
    exits' = [x \in DOMAIN exits \cup {pc} |-> IF x = pc THEN h ELSE exits[x]]

StaticHit == /\ at = "static" /\ InTlb(t3)
             /\ UpdateBasicBlock(tlb[Hash[t3]].riscv)
             /\ Land(tlb[Hash[t3]].riscv)
             /\ UNCHANGED <<store, tlb, ring, rp, stack, paired>>

StaticMiss == /\ at = "static" /\ ~InTlb(t3)
              /\ Translate(t3)
              /\ UpdateTlb(Hash[t3], t3)
              /\ UpdateBasicBlock(host'[t3])
              /\ Land(host'[t3])
              /\ UNCHANGED <<ring, rp, stack, paired>>

DynamicHit == /\ at = "dynamic" /\ InTlb(t3)
              /\ Land(tlb[Hash[t3]].riscv)
              /\ UNCHANGED <<store, exits, tlb, ring, rp, stack, paired>>

DynamicMiss == /\ at = "dynamic" /\ ~InTlb(t3)
               /\ Translate(t3)
               /\ UpdateTlb(Hash[t3], t3)
               /\ Land(host'[t3])
               /\ UNCHANGED <<exits, ring, rp, stack, paired>>

\* `ld s2, 8(t1)` where the entry was to be written: the hit leaves the call
\* table as it was.
ReturnHit == /\ at = "return" /\ InTlb(t3)
             /\ Land(tlb[Hash[t3]].riscv)
             /\ UNCHANGED <<store, exits, tlb, ring, rp, stack, paired>>

\* s2 keeps a pointer to the call table entry across translate().
\* (A bug: the translation may have added entries.)
SaveReturnInLast(tab, h) == table' = [tab EXCEPT ![Len(tab)].riscv = h]
SaveReturn(tab, h) == table' = [tab EXCEPT ![t1 + 1].riscv = h]

ReturnFind == /\ at = "return" /\ ~InTlb(t3)
              /\ t3 \in Image /\ host[t3] # 0
              /\ SaveReturn(table, host[t3])
              /\ UNCHANGED <<top, code, host, cap>>
              /\ UpdateTlb(Hash[t3], t3)
              /\ Land(host[t3])
              /\ UNCHANGED <<exits, ring, rp, stack, paired>>

\* When the new block's call makes the vector grow, s2 points into freed
\* memory: the store is lost, and the TLB key is read from there.
ReturnGenerate ==
    /\ at = "return" /\ ~InTlb(t3)
    /\ t3 \in Image /\ host[t3] = 0
    /\ \E e \in Image :
         /\ IsEnd(t3, e)
         /\ EmitCode(t3, e)
         /\ \/ /\ ~Grows(e)
               /\ SaveReturn(TableAfter(e), top + 1)
               /\ UpdateTlb(Hash[t3], t3)
            \/ /\ Grows(e)
               /\ table' = TableAfter(e)
               /\ \E key \in FreedReads \cup {t3} : UpdateTlb(Hash[t3], key)
    /\ Land(top + 1)
    /\ UNCHANGED <<exits, ring, rp, stack, paired>>

Fault == /\ at \in Handlers /\ ~InTlb(t3)
         /\ CannotTranslate(t3)
         /\ End("fault")

Terminated == at \in Ended /\ UNCHANGED vars

-----------------------------------------------------------------------------
Instruction == Plain \/ Push \/ Pop \/ Jcc \/ Jmp \/ Syscall \/ Call \/ Ret
               \/ Exit \/ Unsupported \/ Killed

Handler == StaticHit \/ StaticMiss \/ DynamicHit \/ DynamicMiss
           \/ ReturnHit \/ ReturnFind \/ ReturnGenerate \/ Fault

Next == Instruction \/ Handler \/ Terminated

Spec == Init /\ [][Next]_vars

\* The one thread of the program keeps running.
FairSpec == Spec /\ WF_vars(Instruction \/ Handler)

-----------------------------------------------------------------------------
(* Properties *)

Translates(h, g) == h \in 1..top /\ code[h].x86 = g

\* A TLB entry that was written leads to a translation of its own x86 address,
\* whatever was evicted, translated or appended since: nothing is ever
\* invalidated, so a wrong entry would send every later jump astray.
TlbCoherent == \A s \in Slots : tlb[s].riscv # 0 => Translates(tlb[s].riscv, tlb[s].x86)

\* An exit update_basic_block has overwritten goes where the instruction it
\* belongs to goes: to its immediate target or, behind a syscall, to the next
\* instruction.  The patched site is found from ra alone.
ExitTarget(a) == IF Kind(a) = "syscall" THEN a + 1 ELSE Prog[a].imm
ExitsCoherent ==
    \A h \in DOMAIN exits :
        h \in 1..top /\ Translates(exits[h], ExitTarget(code[h].x86))

\* The host address in a call table entry is the translation of the return
\* address beside it, also after the table moved while it was being computed.
TableCoherent == \A i \in 1..Len(table) :
                    table[i].riscv # 0 => Translates(table[i].riscv, table[i].x86)

\* What the code store finds is a translation of the address it was asked for,
\* every address has one translation at most, and a block that does not end by
\* itself goes on with the translation of the next address.
CodeCoherent ==
    /\ \A g \in Guest : host[g] # 0 => Translates(host[g], g)
    /\ \A h \in 1..top :
         /\ host[code[h].x86] = h
         /\ ~Eob(code[h].x86) =>
              Translates(IF code[h].next # 0 THEN code[h].next ELSE h + 1, code[h].x86 + 1)

\* Every call instruction that was translated has a call table entry of its
\* own, with its return address.
CallsHaveEntries ==
    \A h \in 1..top : IsCall(code[h].x86) =>
        /\ code[h].entry + 1 \in 2..Len(table)
        /\ table[code[h].entry + 1].x86 = code[h].x86 + 1

\* As long as the guest touches its stack with calls and returns only, the
\* newest `paired` offsets on the return stack name the call table entries of
\* the newest `paired` return addresses on the guest's stack: the return is
\* predicted, however deep the calls went and wherever the ring has wrapped.
CallRetOnly == \A a \in Image : Kind(a) \notin {"push", "pop"}
ReturnsPredicted ==
    CallRetOnly =>
        \A i \in 1..paired :
            /\ i <= Len(stack)
            /\ table[ring[(rp + RingSize - i) % RingSize] + 1].x86 = stack[Len(stack) + 1 - i]

\* What has been handed out stays valid: code is never moved or retranslated
\* and an exit that was overwritten keeps its target.
NeverRetracted ==
    [][/\ \A g \in Guest : host[g] # 0 => host'[g] = host[g]
       /\ \A h \in 1..top : code'[h] = code[h]
       /\ \A h \in DOMAIN exits : h \in DOMAIN exits' /\ exits'[h] = exits[h]]_vars

-----------------------------------------------------------------------------
(* The dispatcher implements the guest's control flow. *)

GuestIp == IF t3 = 0 /\ pc \in 1..top THEN code[pc].x86 ELSE t3
GuestStatus == IF at \in Ended THEN at ELSE "run"

GF == INSTANCE GuestFlow WITH ip <- GuestIp, status <- GuestStatus

\* Every run of the translated program is a run of the guest program: same
\* instructions, same stack, same end; and the guest keeps running.
ImplementsGuestFlow == GF!FairSpec
=============================================================================
