------------------------------ MODULE Debugger ------------------------------
(***************************************************************************)
(* The debugger and the guest it is attached to.  Every guest instruction  *)
(* is translated with a jump to debug_entry in front, and with RISC-V      *)
(* stepping enabled every further RISC-V instruction with a jump to        *)
(* debug_entry_riscv.  The debugger keeps the translated blocks sorted by  *)
(* guest address, the one it looked at last, and break points which may    *)
(* be set before their instruction is translated.                          *)
(*                                                                         *)
(* One action is one call of debug_entry, one command of the menu, one     *)
(* translation with its end_block(), or the code between two entries.      *)
(* Host addresses count RISC-V instructions.                               *)
(***************************************************************************)
EXTENDS Integers, FiniteSets, SequencesExt

CONSTANTS
    Program,  \* the guest's instructions: bytes, RISC-V instructions, branch?, targets
    Limit,    \* break points the menu accepts (255 in the code)
    Places,   \* guest addresses the user names
    Counts    \* counts the user names

Instrs == DOMAIN Program
\* A branch jumps, so it has code of its own.
ASSUME ProgramAssumption ==
    /\ Program \in Seq([bytes : Nat \ {0}, work : Nat, branch : BOOLEAN, next : SUBSET Nat])
    /\ Program # <<>>
    /\ \A i \in Instrs : /\ Program[i].next \subseteq Instrs /\ Program[i].next # {}
                         /\ Program[i].branch => Program[i].work > 0
ASSUME LimitAssumption ==
    /\ Limit \in Nat /\ Places \subseteq Nat \ {0}
    /\ Counts \subseteq Nat /\ IsFiniteSet(Counts)

VARIABLES
    riscv_enabled,  \* the argument --debug=2
    at,             \* the debug entry the guest reached last: instruction, how many
                    \* entries of debug_entry_riscv behind the one of debug_entry
    phase,          \* "translate", "enter", "menu", "code" or "done"
    blocks,         \* _blocks
    current,        \* _current: a block of the list of so many blocks, or NoBlock
    current_index,  \* _current_index
    bps,            \* the first _bp_count of _bp_array and _bp_x86_array
    temp_break, init, await, \* the bits of _state
    halt, step_riscv, run_break, \* _halt, _step_riscv, _run_break
    attached,       \* context->debugger
    signal,         \* _signal_address
    shown,          \* the guest address the menu or the signal handler prints
    reasons,        \* the reasons the menu prints
    asked,          \* history: the command that resumed the guest
    travelled,      \* history: entries reached since, as far as they are counted
    waved,          \* history: whether the last entry let the guest pass
    wanted,         \* history: instructions the user set a break point at
    risked          \* history: those the user then ran to, while untranslated

held == <<blocks, current, current_index, bps>>
modes == <<temp_break, init, await, halt, step_riscv, run_break>>
history == <<asked, travelled, waved, wanted, risked>>
vars == <<riscv_enabled, at, phase, held, modes, attached, signal, shown, reasons, history>>

NoBlock == [of |-> 0, nth |-> 0]
NoCount == 0

\* The sum of the first elements of a sequence, for every number of them.
Sums(s) == LET upto[n \in 0..Len(s)] == IF n = 0 THEN 0 ELSE upto[n - 1] + s[n] IN upto
Total(s) == Sums(s)[Len(s)]
Guest(i) == 1 + Sums([j \in Instrs |-> Program[j].bytes])[i - 1]
InstrAt(x) == {i \in Instrs : Guest(i) <= x /\ x < Guest(i + 1)}

-----------------------------------------------------------------------------
(* Blocks: the guest instructions first..last, at a host address *)

x86_start(b) == Guest(b.first)
x86_end(b) == Guest(b.last + 1)
LastInstr(b) == Guest(b.last)
InBlock(x, b) == x86_start(b) <= x /\ x < x86_end(b)
Block(n) == blocks[n + 1]
Indices == 0..(Len(blocks) - 1)
Covering(i) == {n \in Indices : Block(n).first <= i /\ i <= Block(n).last}

\* The batch of an instruction: the jump to the debugger, and no second one in
\* front of the first RISC-V instruction.
BatchSize(work) == IF riscv_enabled /\ work > 0 THEN 2 * work ELSE 1 + work

riscv_end(b) == b.riscv_start + Total(b.riscv)
HostOf(b, i) == b.riscv_start + Sums(b.riscv)[i - b.first]
InHost(a, b) == b.riscv_start <= a /\ a < riscv_end(b)

ThisBlock == Block(CHOOSE n \in Covering(at.instr) : TRUE)
WorkOf(i, b) == b.riscv[i - b.first + 1]
RiscvEntries == IF riscv_enabled THEN WorkOf(at.instr, ThisBlock) \div 2 - 1 ELSE 0

\* ra at the entry the guest is at.
ra == HostOf(ThisBlock, at.instr) + 1 + 2 * at.hop

\* resolve_block(): the block found, and the guest address or 0.
KeepsCurrentBlindly(a) == current # NoBlock    \* a bug: whatever the address is
KeepsCurrent(a) == current # NoBlock /\ InHost(a, Block(current.nth))
Holding(a) == {n \in Indices : InHost(a, Block(n))}
ResolvedInstr(a, b) ==
    LET passed == {i \in b.first..b.last : HostOf(b, i) <= a}
    IN  IF \E i \in passed : HostOf(b, i) = a
        THEN Guest(CHOOSE i \in passed : HostOf(b, i) = a)
        ELSE Guest(Max(passed))
Resolved(a) ==
    IF KeepsCurrent(a)
    THEN [current |-> current, index |-> current_index, guest |-> ResolvedInstr(a, Block(current.nth))]
    ELSE IF Holding(a) = {}
    THEN [current |-> NoBlock, index |-> Len(blocks) + 1, guest |-> 0]
    ELSE LET n == Min(Holding(a))
         IN  [current |-> [of |-> Len(blocks), nth |-> n], index |-> n,
              guest |-> ResolvedInstr(a, Block(n))]

-----------------------------------------------------------------------------
(* Break points *)

Pending(e) == e.riscv = 0
\* The instruction of the block a break point lies in, or else its last one.
\* The return address is the one behind the jump to debug_entry.
\* (A bug: the jump is not counted.)
PlacedWithoutJump(x, b) ==
    LET i == Min({j \in b.first..b.last : x < Guest(j + 1)} \cup {b.last})
    IN  [x86 |-> Guest(i), riscv |-> HostOf(b, i)]
Placed(x, b) ==
    LET i == Min({j \in b.first..b.last : x < Guest(j + 1)} \cup {b.last})
    IN  [x86 |-> Guest(i), riscv |-> HostOf(b, i) + 1]

\* update_break_points(): those in the new block are placed, one after the
\* other, and go if a neighbour is placed at the same instruction.
Update(done, k, b) ==
    LET e == bps[k]
        t == Placed(e.x86, b)
        twin == \/ done # <<>> /\ Last(done).x86 = t.x86
                \/ k < Len(bps) /\ bps[k + 1].x86 = t.x86
    IN  IF ~Pending(e) \/ ~InBlock(e.x86, b) THEN Append(done, e)
        ELSE IF twin THEN done ELSE Append(done, t)
update_break_points(b) ==
    LET done[k \in 0..Len(bps)] == IF k = 0 THEN <<>> ELSE Update(done[k - 1], k, b)
    IN  done[Len(bps)]

\* The new break point, placed if a block holds its address.
Fresh(x) ==
    LET in == {n \in Indices : InBlock(x, Block(n))}
    IN  IF in = {} THEN [x86 |-> x, riscv |-> 0] ELSE Placed(x, Block(Min(in)))

\* insert_break_point(): a static one goes behind those of smaller address,
\* unless a neighbour stands for the same instruction.
Position(x) == Max({0} \cup {k \in 1..Len(bps) : bps[k].x86 < x})
AlreadySet(x) == \/ Position(x) > 0 /\ bps[Position(x)].x86 = Fresh(x).x86
                 \/ Position(x) < Len(bps) /\ bps[Position(x) + 1].x86 = Fresh(x).x86
InsertStatic(x) == InsertAt(bps, Position(x) + 1, Fresh(x))
InsertTemporary(x) == Append(bps, Fresh(x))

-----------------------------------------------------------------------------
(* Translation, and the debugger's end_block() *)

\* translate(): up to a branch, or to a block that was translated before.
EndOfBlock(i) ==
    Min({j \in Instrs : j >= i /\ (Program[j].branch \/ Covering(j + 1) # {})} \cup {Len(Program)})
NewBlock ==
    LET i == at.instr
        j == EndOfBlock(i)
        linked == ~Program[j].branch
    IN  [first |-> i, last |-> j,
         riscv_start |-> 1 + Total([n \in 1..Len(blocks) |-> Total(blocks[n].riscv)]),
         riscv |-> [k \in 1..(j - i + 1) |->
                      BatchSize(Program[i + k - 1].work + IF linked /\ i + k - 1 = j THEN 1 ELSE 0)]]

Larger(b) == {n \in Indices : x86_start(Block(n)) > x86_start(b)}
insert_index(b) == Min(Larger(b) \cup {Len(blocks)})
PushedIndex(b) == IF Larger(b) # {} /\ insert_index(b) >= current_index
                  THEN current_index + 1 ELSE current_index

\* Inserting moves the blocks of the vector: pointers into it end.
\* (A bug: the pointer is left as it is.)
end_blockKeepsPointer(b) ==
    /\ blocks' = InsertAt(blocks, insert_index(b) + 1, b)
    /\ IF PushedIndex(b) # Len(blocks) + 1
       THEN current_index' = PushedIndex(b) /\ current' = current
       ELSE current_index' = Len(blocks) + 2 /\ UNCHANGED current
    /\ bps' = update_break_points(b)
end_block(b) ==
    /\ blocks' = InsertAt(blocks, insert_index(b) + 1, b)
    /\ IF PushedIndex(b) # Len(blocks) + 1
       THEN /\ current_index' = PushedIndex(b)
            /\ current' = [of |-> Len(blocks) + 1, nth |-> PushedIndex(b)]
       ELSE current_index' = Len(blocks) + 2 /\ UNCHANGED current
    /\ bps' = update_break_points(b)

Translate == /\ phase = "translate"
             /\ end_block(NewBlock)
             /\ phase' = "enter"
             /\ UNCHANGED <<riscv_enabled, at, modes, attached, signal, shown, reasons, history>>

-----------------------------------------------------------------------------
(* debug_entry, debug_entry_riscv and entry() *)

halt_break == Limit + 1      \* 0x400: above every index of a break point
halt_riscv == Limit + 2      \* 0x600
None == -1

\* What the jump hands to entry(), or None: a halt hides the break points.
Hits == {k \in 1..Len(bps) : bps[k].riscv = ra}
Reported == IF at.hop > 0 THEN IF step_riscv THEN halt_riscv ELSE None
            ELSE IF halt THEN halt_break
            ELSE IF Hits # {} THEN Min(Hits) - 1 ELSE None

\* enter_break()
Counting == await = "counter"
LeftUncounted == run_break    \* a bug: the counter is not counted down
Left == IF Counting /\ run_break > 0 THEN run_break - 1 ELSE run_break
Elapsed == Counting /\ Left = 0
Stepping == await = "step" \/ (step_riscv /\ ~Counting)
BreakHit == /\ Reported # halt_break \/ ~init
            /\ ~step_riscv \/ ~Counting
Direct == Elapsed \/ Stepping \/ BreakHit
Looks == Direct \/ await \in {"sob", "eob"}
AtEdge == LET r == Resolved(ra)
              b == Block(r.current.nth)
          IN  \/ await = "sob" /\ r.guest = x86_start(b)
              \/ await = "eob" /\ r.guest = LastInstr(b)
Stops == /\ Reported # None
         /\ Looks /\ Resolved(ra).guest # 0
         /\ Direct \/ AtEdge

\* What the menu says of the stop.
Reasons ==
    LET edge == Resolved(ra)
        b == Block(edge.current.nth)
    IN  {why \in {"run-break", "break-point", "riscv-counter", "riscv-step", "initial",
                  "run-counter", "step", "sob", "eob"} :
         CASE why = "run-break" -> Reported < halt_break /\ temp_break /\ Reported = Left
           [] why = "break-point" -> Reported < halt_break /\ ~(temp_break /\ Reported = Left)
           [] why = "riscv-counter" -> step_riscv /\ Counting
           [] why = "riscv-step" -> step_riscv /\ ~Counting
           [] why = "initial" -> ~init
           [] why = "run-counter" -> Left = 0 /\ Counting /\ ~step_riscv
           [] why = "step" -> await = "step" /\ ~step_riscv
           [] why = "sob" -> await = "sob" /\ edge.guest = x86_start(b)
           [] why = "eob" -> await = "eob" /\ edge.guest = LastInstr(b)}

\* A registered signal handler is told where every entry returns to.
TellSignal == signal' = IF signal # 0 THEN ra ELSE 0
LookUp == current' = Resolved(ra).current /\ current_index' = Resolved(ra).index

\* History: a count of entries, up to one more than the user can ask for.
Enough == Max(Counts \cup {1}) + 1
Travel == travelled' = IF at.hop = 0 \/ asked.kind = "crawl" THEN Min({travelled + 1, Enough})
                       ELSE travelled

\* The loop of entry() begins: the temporary break point is the last one.
\* (A bug: the bits of the command are left set.)
StopKeepsModes ==
    /\ phase' = "menu" /\ shown' = Resolved(ra).guest /\ reasons' = Reasons
    /\ LookUp /\ init' = TRUE /\ run_break' = Left
    /\ bps' = IF temp_break THEN Front(bps) ELSE bps
    /\ temp_break' = FALSE /\ UNCHANGED <<await, step_riscv>>
\* (A bug: the break point goes and the bit that says so stays.)
StopKeepsTemporary ==
    /\ phase' = "menu" /\ shown' = Resolved(ra).guest /\ reasons' = Reasons
    /\ LookUp /\ init' = TRUE /\ run_break' = Left
    /\ bps' = IF temp_break /\ bps # <<>> THEN Front(bps) ELSE bps
    /\ await' = "none" /\ step_riscv' = FALSE /\ UNCHANGED temp_break
Stop == /\ phase' = "menu" /\ shown' = Resolved(ra).guest /\ reasons' = Reasons
        /\ LookUp /\ init' = TRUE /\ run_break' = Left
        /\ bps' = IF temp_break THEN Front(bps) ELSE bps
        /\ temp_break' = FALSE /\ await' = "none" /\ step_riscv' = FALSE

Pass == /\ phase' = "code"
        /\ run_break' = IF Reported # None THEN Left ELSE run_break
        /\ IF Reported # None /\ Looks THEN LookUp ELSE UNCHANGED <<current, current_index>>
        /\ UNCHANGED <<shown, reasons, init, bps, temp_break, await, step_riscv>>

DebugEntry == /\ phase = "enter" /\ attached
              /\ IF Stops THEN Stop ELSE Pass
              /\ TellSignal /\ Travel /\ waved' = ~Stops
              /\ UNCHANGED <<riscv_enabled, at, blocks, halt, attached, asked, wanted, risked>>

\* After quit nobody is asked any more.
Detached == /\ phase = "enter" /\ ~attached
            /\ phase' = "code" /\ waved' = TRUE
            /\ UNCHANGED <<riscv_enabled, at, held, modes, attached, signal, shown, reasons,
                           asked, travelled, wanted, risked>>

\* The code behind the entry: up to the next one, or to the next instruction.
Continue ==
    /\ phase = "code"
    /\ IF at.hop < RiscvEntries
       THEN at' = [at EXCEPT !.hop = @ + 1] /\ phase' = "enter"
       ELSE \E s \in Program[at.instr].next :
                /\ at' = [instr |-> s, hop |-> 0]
                /\ phase' = IF Covering(s) = {} THEN "translate" ELSE "enter"
    /\ UNCHANGED <<riscv_enabled, held, modes, attached, signal, shown, reasons, history>>

\* SIGSEGV or SIGILL in the guest's code, with the debugger's handler attached.
Signalled ==
    /\ phase = "code" /\ signal # 0 /\ WorkOf(at.instr, ThisBlock) > 1
    /\ phase' = "done" /\ shown' = Resolved(signal).guest
    /\ current' = Resolved(signal).current /\ current_index' = Resolved(signal).index
    /\ UNCHANGED <<riscv_enabled, at, blocks, bps, modes, attached, signal, reasons, history>>

-----------------------------------------------------------------------------
(* The menu: parse_input() *)

Asked(kind, n, x) == [kind |-> kind, count |-> n, place |-> x]

\* A command that stays in the menu.
InMenu == /\ phase = "menu"
          /\ UNCHANGED <<riscv_enabled, at, phase, blocks, current, current_index, modes, attached,
                         shown, reasons, asked, travelled, waved, risked>>

\* An address, or the start or the end of the current block or another one.
Edges == UNION {{x86_start(b), LastInstr(b)} : b \in Range(blocks)}
BreakPoint(x) == /\ InMenu /\ Len(bps) # Limit
                 /\ IF AlreadySet(x) THEN UNCHANGED <<bps, wanted>>
                    ELSE bps' = InsertStatic(x) /\ wanted' = wanted \cup InstrAt(x)
                 /\ UNCHANGED signal

RemovePoint(k) == /\ InMenu
             /\ bps' = RemoveAt(bps, k)
             /\ wanted' = wanted \ (InstrAt(bps[k].x86)
                                     \ UNION {InstrAt(bps[j].x86) : j \in 1..Len(bps) \ {k}})
             /\ UNCHANGED signal

Signal == /\ InMenu /\ signal = 0
          /\ signal' = ra
          /\ UNCHANGED <<bps, wanted>>

\* A command that lets the guest run on, and entry() returning.
Resume(a) == /\ phase = "menu"
             /\ phase' = "code"
             /\ halt' = (await' # "none" \/ step_riscv')
             /\ asked' = a /\ travelled' = 0 /\ waved' = FALSE
             /\ UNCHANGED <<riscv_enabled, at, blocks, current, current_index, init, signal,
                            shown, reasons, wanted>>
NoTarget == UNCHANGED <<bps, temp_break, risked>>

\* run with an address leaves a break point for this once, behind the others.
AtRisk(x) == {i \in InstrAt(x) : /\ bps # <<>> /\ Pending(Last(bps))
                                 /\ i \in InstrAt(Last(bps).x86)}
RunTo(x) == /\ phase = "menu"
            /\ run_break' = Len(bps) /\ bps' = InsertTemporary(x) /\ temp_break' = TRUE
            /\ risked' = risked \cup AtRisk(x)
            /\ UNCHANGED <<await, step_riscv, attached>>
            /\ Resume(Asked("run", NoCount, x))
Run == /\ NoTarget /\ UNCHANGED <<await, step_riscv, run_break, attached>>
       /\ Resume(Asked("run", NoCount, 0))
Edge(end) == /\ await' = end
             /\ NoTarget /\ UNCHANGED <<step_riscv, run_break, attached>>
             /\ Resume(Asked(end, NoCount, 0))
Step == /\ await' = "step"
        /\ NoTarget /\ UNCHANGED <<step_riscv, run_break, attached>>
        /\ Resume(Asked("step", 1, 0))
StepCount(n) == /\ await' = "counter" /\ run_break' = n
                /\ NoTarget /\ UNCHANGED <<step_riscv, attached>>
                /\ Resume(Asked("step", n, 0))
Crawl == /\ riscv_enabled /\ step_riscv' = TRUE
         /\ NoTarget /\ UNCHANGED <<await, run_break, attached>>
         /\ Resume(Asked("crawl", 1, 0))
CrawlCount(n) == /\ riscv_enabled /\ step_riscv' = TRUE /\ await' = "counter" /\ run_break' = n
                 /\ NoTarget /\ UNCHANGED attached
                 /\ Resume(Asked("crawl", n, 0))
Quit == /\ attached' = FALSE
        /\ NoTarget /\ UNCHANGED <<await, step_riscv, run_break>>
        /\ Resume(Asked("quit", NoCount, 0))

\* exit and fault leave the guest for good.
Leave == /\ phase = "menu"
         /\ phase' = "done"
         /\ UNCHANGED <<riscv_enabled, at, held, modes, attached, signal, shown, reasons, history>>

Menu == \/ \E x \in Places \cup Edges : BreakPoint(x)
        \/ \E k \in 1..Len(bps) : RemovePoint(k)
        \/ Signal \/ Run \/ Step \/ Crawl \/ Quit \/ Leave
        \/ \E x \in Places : RunTo(x)
        \/ \E end \in {"sob", "eob"} : Edge(end)
        \/ \E n \in Counts : StepCount(n) \/ CrawlCount(n)

GuestRuns == Translate \/ DebugEntry \/ Detached \/ Continue
Done == phase = "done" /\ UNCHANGED vars

Next == Menu \/ GuestRuns \/ Signalled \/ Done

Init == /\ riscv_enabled \in BOOLEAN
        /\ at = [instr |-> 1, hop |-> 0] /\ phase = "translate"
        /\ blocks = <<>> /\ current = NoBlock /\ current_index = 1 /\ bps = <<>>
        /\ temp_break = FALSE /\ init = FALSE /\ await = "none"
        /\ halt = TRUE /\ step_riscv = FALSE /\ run_break = 0
        /\ attached = TRUE /\ signal = 0 /\ shown = 0 /\ reasons = {}
        /\ asked = Asked("start", NoCount, 0) /\ travelled = 0 /\ waved = FALSE
        /\ wanted = {} /\ risked = {}

Spec == Init /\ [][Next]_vars
\* The guest runs by itself; nothing makes the user type.  Its every step leaves
\* its phase for another, and the phase alone says whether it can take one.
Phases == {"translate", "enter", "menu", "code", "done"}
GuestMoves == phase \notin {"menu", "done"} /\ phase' \in Phases
FairSpec == Spec /\ WF_phase(GuestMoves)

-----------------------------------------------------------------------------
(* Properties *)

\* _current and _current_index speak of the same block of the list as it is
\* now, or of none, whichever block end_block() has inserted and wherever.
CurrentListed ==
    \/ current = NoBlock /\ current_index = Len(blocks) + 1
    \/ current = [of |-> Len(blocks), nth |-> current_index] /\ current_index \in Indices

\* A break point stays until it is removed, whatever is translated, merged or
\* run to in between; but see risked.
BreakPointsKept ==
    \A i \in wanted \ risked : \E k \in 1..Len(bps) : i \in InstrAt(bps[k].x86)

\* A guest that runs freely passes no break point and not the target of run.
BreakPointsHonoured ==
    phase = "code" /\ waved /\ at.hop = 0 /\ attached /\ ~halt =>
        /\ at.instr \notin wanted \ risked
        /\ asked.place # 0 => at.instr \notin InstrAt(asked.place)

\* The menu and the signal handler show the instruction that runs.  One without
\* code of its own (nop) is taken for the next, as the jump returns behind it;
\* after quit the entries tell the signal handler nothing.
Empty(i) == Covering(i) # {} /\ WorkOf(i, Block(CHOOSE n \in Covering(i) : TRUE)) = 1
ShownIsExecuting ==
    /\ phase = "menu" =>
         /\ shown \in {Guest(at.instr)} \cup (IF Empty(at.instr) THEN {Guest(at.instr + 1)} ELSE {})
         /\ current_index \in Covering(at.instr)
    /\ phase = "done" /\ signal # 0 /\ attached => Empty(at.instr) \/ shown = Guest(at.instr)

\* Every stop has a reason, and step and crawl go exactly as far as asked.
StopsExplained ==
    /\ phase = "menu" => reasons # {}
    /\ phase = "menu" /\ asked.kind \in {"step", "crawl"} => travelled = Max({1, asked.count})

\* The counter of step and crawl runs out and the user is asked again.
CounterElapses == (attached /\ await = "counter") ~> (await = "none" \/ phase = "done")

=============================================================================
