------------------------------ MODULE CodeStore ------------------------------
(***************************************************************************)
(* CodeStore and what CodeGenerator::translate does with it.  x86          *)
(* addresses count bytes from the start of the image; every page of the    *)
(* image keeps an array of the blocks that touch it, find() searches it.   *)
(* Adding one x86 instruction to the block under construction is one       *)
(* action: between two of them the arrays, the code buffer and the offset  *)
(* buffer hold an unfinished block.                                        *)
(***************************************************************************)
EXTENDS Naturals, Sequences, FiniteSets, SequencesExt

CONSTANTS
    PageSize,    \* bytes of a page (4096 in the code)
    NumPages,    \* pages of the image
    Size,        \* bytes of the instruction decoded at an address, 0 if none
    EndsBlock,   \* addresses whose instructions have eob
    Riscv,       \* riscv instructions an x86 instruction is translated to: a nop to
                 \* none, one with eob to the reroute at least
    LinkSize,    \* riscv instructions that jump to the block that follows
    Width,       \* values InstructionOffset::riscv can hold, in instructions
    CodeMax,     \* elements of a buffer of _code_buffer
    OffsetMax,   \* elements of a buffer of _instruction_offset_buffer
    Targets      \* addresses the guest jumps to

ImageSize == PageSize * NumPages
Address == 0..(ImageSize - 1)
Pages == 0..(NumPages - 1)

ASSUME PagesAssumption == PageSize \in Nat \ {0} /\ NumPages \in Nat \ {0}
ASSUME SizeAssumption == Size \in [Address -> Nat] /\ EndsBlock \subseteq Address
ASSUME RiscvAssumption == /\ Riscv \in [Address -> Nat] /\ LinkSize \in Nat \ {0}
                          /\ \A x \in EndsBlock : Riscv[x] > 0
ASSUME BuffersAssumption == {Width, CodeMax, OffsetMax} \subseteq Nat \ {0}
ASSUME TargetsAssumption == Targets \subseteq Address

VARIABLES
    blocks,   \* the BlockEntries, in the order create_block() made them
    pages,    \* _pages: the blocks of every page
    code,     \* _code_buffer
    offsets,  \* _instruction_offset_buffer
    todo,     \* decoded instructions translate() has not added yet
    next,     \* the block the new one runs into, or 0
    answer,   \* what translate() answered last, and for which address
    status    \* "idle", "adding", or how the program ended

vars == <<blocks, pages, code, offsets, todo, next, answer, status>>

\* A riscv instruction: the nth of those of an x86 instruction, or of a link
\* (nth past the instruction's own) to a host address.
Word == [of : Address, nth : Nat, to : Nat]
NoWord == [of |-> 0, nth |-> 0, to |-> 0]
NoOffset == [x86 |-> 0, riscv |-> 0]

CodeList == INSTANCE StaticList WITH Capacity <- CodeMax, Blank <- NoWord
OffsetList == INSTANCE StaticList WITH Capacity <- OffsetMax, Blank <- NoOffset

Null == 0
NewBlock == [start |-> 0, end |-> 0, riscv |-> Null, count |-> 0, offsets |-> Null]

Init ==
    /\ blocks = << >>
    /\ pages = [p \in Pages |-> << >>]
    /\ code = CodeList!EmptyList
    /\ offsets = OffsetList!EmptyList
    /\ todo = << >>
    /\ next = 0
    /\ answer = [x86 |-> 0, riscv |-> Null]
    /\ status = "idle"

PageIndex(x) == x \div PageSize

\* Where the i-th instruction of a block starts, in both worlds; one past the
\* last is where it ends.  Entry e keeps the sizes of its instructions in memory.
StartsOf(e, memory) ==
    LET size(i) == memory[e.offsets + i - 1]
        at[i \in 1..(e.count + 1)] ==
          IF i = 1 THEN [x86 |-> e.start, riscv |-> e.riscv]
          ELSE [x86 |-> at[i - 1].x86 + size(i - 1).x86,
                riscv |-> at[i - 1].riscv + size(i - 1).riscv]
    IN at
Starts(b) == StartsOf(blocks[b], offsets.memory)

-----------------------------------------------------------------------------
(* find() *)

\* The binary search of find() for x, from l up to r of a page's entries: the
\* block it takes x to be in, or 0.
Ranges(n) == {s \in [l : 0..n, r : 0..n] : s.l <= s.r}
Search(entries, x) ==
    LET search[s \in Ranges(Len(entries))] ==
          LET i == (s.l + s.r) \div 2
              b == entries[i + 1]
          IN IF s.l = s.r THEN 0
             ELSE IF x < blocks[b].start THEN search[[s EXCEPT !.r = i]]
             ELSE IF x >= blocks[b].end THEN search[[s EXCEPT !.l = i + 1]]
             ELSE b
    IN search
FindBlock(x) ==
    LET entries == pages[PageIndex(x)]
    IN Search(entries, x)[[l |-> 0, r |-> Len(entries)]]

\* The instructions of block b that start at x.
At(b, x) == {i \in 1..blocks[b].count : Starts(b)[i].x86 = x}

\* "Jump inside instruction."
JumpsInside(x) == FindBlock(x) # 0 /\ At(FindBlock(x), x) = {}

\* (A bug: where the block starts, not the instruction.)
FindsStart(x) == IF FindBlock(x) = 0 \/ JumpsInside(x) THEN Null ELSE blocks[FindBlock(x)].riscv
Find(x) == IF FindBlock(x) = 0 \/ JumpsInside(x) THEN Null
           ELSE Starts(FindBlock(x))[CHOOSE i \in At(FindBlock(x), x) : TRUE].riscv

\* get_next_block(): the first block of the first page that has one from x on.
NextBlock(x) ==
    LET From(p) == {i \in DOMAIN pages[p] : blocks[pages[p][i]].start >= x}
        some == {p \in PageIndex(x)..(NumPages - 1) : From(p) # {}}
    IN IF some = {} THEN 0 ELSE pages[Min(some)][Min(From(Min(some)))]

-----------------------------------------------------------------------------
(* translate() *)

\* Decoding stays within the image and knows the instruction.
Decodes(x) == x \in Address /\ Size[x] > 0 /\ x + Size[x] <= ImageSize

\* The instructions translate() decodes from x on: up to one with eob or to
\* where block b starts.  Undecodable ends them where decoding fails.
Undecodable == ImageSize
\* (A bug: a block runs over the next.)
StopsNowhere(x, b) == FALSE
Stops(x, b) == b # 0 /\ x = blocks[b].start
Straight(x, b) ==
    LET from[y \in 0..ImageSize] ==
          IF Stops(y, b) THEN << >>
          ELSE IF ~Decodes(y) THEN << Undecodable >>
          ELSE IF y \in EndsBlock THEN << y >>
          ELSE << y >> \o from[y + Size[y]]
    IN from[x]

Known(x) == /\ Find(x) # Null
            /\ answer' = [x86 |-> x, riscv |-> Find(x)]
            /\ UNCHANGED <<blocks, pages, code, offsets, todo, next, status>>

\* An empty list of instructions is "codestore::find(...) must have failed".
CannotTranslate(x) == /\ Find(x) = Null
                      /\ \/ JumpsInside(x)
                         \/ Straight(x, NextBlock(x)) = << >>
                         \/ Undecodable \in ToSet(Straight(x, NextBlock(x)))
                      /\ status' = "fault"
                      /\ UNCHANGED <<blocks, pages, code, offsets, todo, next, answer>>

\* A block that ends with eob is not linked.
\* (A bug: nothing leads to the next block.)
LinkForgotten(s, b) == 0
LinkedTo(s, b) == IF s[Len(s)] \in EndsBlock THEN 0 ELSE b

CreateBlock(x) == LET s == Straight(x, NextBlock(x)) IN
                  /\ FindBlock(x) = 0
                  /\ s # << >> /\ Undecodable \notin ToSet(s)
                  /\ blocks' = Append(blocks, NewBlock)
                  /\ todo' = s
                  /\ next' = LinkedTo(s, NextBlock(x))
                  /\ answer' = [x86 |-> x, riscv |-> Null]
                  /\ status' = "adding"
                  /\ UNCHANGED <<pages, code, offsets>>

Translate == /\ status = "idle"
             /\ \E x \in Targets : Known(x) \/ CannotTranslate(x) \/ CreateBlock(x)

-----------------------------------------------------------------------------
(* add_instruction() *)

New == Len(blocks)      \* the block under construction
Filling == blocks[New]
Instr == Head(todo)
IsLast == Len(todo) = 1

\* The batch of the instruction; the last one of a block that runs into
\* another gets the jump to it.
BatchSize == Riscv[Instr] + (IF IsLast /\ next # 0 THEN LinkSize ELSE 0)
Batch == [k \in 1..BatchSize |->
             [of |-> Instr, nth |-> k,
              to |-> IF k > Riscv[Instr] THEN blocks[next].riscv ELSE Null]]
BatchOffset == [x86 |-> Size[Instr], riscv |-> BatchSize % Width]

\* CodeBatchImpl::add() stops at max_riscv_instructions.
\* (A bug: the count wraps to 0.)
BatchLimitOffByOne == Width
BatchLimit == Width - 1

\* insert_block(): the first instruction puts the block into its page, behind
\* all that do not start after it.
\* (A bug: whatever starts behind it.)
AppendToPage(p, x) == [pages EXCEPT ![p] = Append(@, New)]
InsertIntoPage(p, x) ==
    LET after == {i \in DOMAIN pages[p] : blocks[pages[p][i]].start > x}
    IN [pages EXCEPT ![p] = IF after = {} THEN Append(@, New) ELSE InsertAt(@, Min(after), New)]

PagesAfterInsert == IF Filling.count = 0
                    THEN InsertIntoPage(PageIndex(Instr), Instr)
                    ELSE pages
StartOf == IF Filling.count = 0 THEN Instr ELSE Filling.start
EndOf == Instr + Size[Instr]

\* The block reaches another page: it goes to the front of the page of its end,
\* also when its last byte is the last of the page before.
Overlaps == PageIndex(StartOf) < PageIndex(EndOf)
\* (A bug: only the page of the start knows the block.)
OverlapForgotten(pgs, p) == pgs
Overlap(pgs, p) == IF pgs[p] # << >> /\ Head(pgs[p]) = New THEN pgs
                   ELSE [pgs EXCEPT ![p] = << New >> \o @]

\* Behind the last page lies memory that does not belong to the page array.
OutOfPages == Overlaps /\ PageIndex(EndOf) \notin Pages

Stored == /\ BatchSize <= BatchLimit
          /\ CodeList!Takes(code, Filling.riscv, Batch)
          /\ OffsetList!Takes(offsets, Filling.offsets, << BatchOffset >>)

Filled == [start |-> StartOf, end |-> EndOf, count |-> Filling.count + 1,
           riscv |-> CodeList!StartAfter(code, Filling.riscv, Batch),
           offsets |-> OffsetList!StartAfter(offsets, Filling.offsets, << BatchOffset >>)]

AddInstruction ==
    /\ status = "adding"
    /\ Stored /\ ~OutOfPages
    /\ code' = CodeList!Added(code, Filling.riscv, Batch)
    /\ offsets' = OffsetList!Added(offsets, Filling.offsets, << BatchOffset >>)
    /\ blocks' = [blocks EXCEPT ![New] = Filled]
    /\ pages' = IF Overlaps THEN Overlap(PagesAfterInsert, PageIndex(EndOf))
                ELSE PagesAfterInsert
    /\ todo' = Tail(todo)
    /\ IF IsLast
       THEN /\ status' = "idle" /\ next' = 0
            /\ answer' = [answer EXCEPT !.riscv = Filled.riscv]
       ELSE UNCHANGED <<status, next, answer>>

\* The batch or a static list is full, or a batch without code is the first that
\* is added at all: fault_exit.
CannotAdd == /\ status = "adding" /\ ~Stored
             /\ status' = "fault" /\ todo' = << >>
             /\ UNCHANGED <<blocks, pages, code, offsets, next, answer>>

\* The block is pushed onto whatever lies behind the page array.
Corrupts == /\ status = "adding" /\ Stored /\ OutOfPages
            /\ status' = "corrupt" /\ todo' = << >>
            /\ UNCHANGED <<blocks, pages, code, offsets, next, answer>>

Terminated == status \in {"fault", "corrupt"} /\ UNCHANGED vars

Next == Translate \/ AddInstruction \/ CannotAdd \/ Corrupts \/ Terminated

Spec == Init /\ [][Next]_vars

-----------------------------------------------------------------------------
(* Properties *)

\* What a compiler emits: from the targets of the guest on, decoding reaches
\* addresses B whose instructions do not overlap.
OneReading(B) ==
    /\ Targets \subseteq B
    /\ \A x \in B : Decodes(x) => /\ x \notin EndsBlock => x + Size[x] \in B
                                  /\ \A y \in B : y <= x \/ x + Size[x] <= y

\* The blocks that are finished, and those that have an instruction at least.
Finished == 1..(IF status = "idle" THEN Len(blocks) ELSE Len(blocks) - 1)
Begun == {b \in 1..Len(blocks) : blocks[b].count > 0}

\* No byte of the guest's code is translated in two blocks, although a block is
\* only ever compared with the one that follows it.
BlocksDisjoint ==
    \A b, c \in Begun : b # c => \/ blocks[b].end <= blocks[c].start
                                 \/ blocks[c].end <= blocks[b].start

\* The code buffer at host address h holds the batch of the instruction at x.
Holds(h, x) == \A k \in 1..Riscv[x] : /\ h + k - 1 \in 1..Len(code.memory)
                                      /\ code.memory[h + k - 1].of = x
                                      /\ code.memory[h + k - 1].nth = k

\* The first address from x on whose instruction has code.
FirstCode ==
    LET first[x \in 0..ImageSize] ==
          IF Decodes(x) /\ Riscv[x] = 0 THEN first[x + Size[x]] ELSE x
    IN first

\* Whatever the code buffer holds at h begins what the guest does from x on: an
\* instruction without code leaves it to the next, or to a link.
Leads(h, x) == /\ h \in 1..Len(code.memory)
               /\ FirstCode[code.memory[h].of] = FirstCode[x]
               /\ code.memory[h].nth = 1

\* What find() answers is a translation of the address it was asked for; that of
\* an instruction without code leads to what is behind it.
FindSound ==
    \A x \in Address :
        Find(x) # Null => /\ Holds(Find(x), x)
                          /\ FindBlock(x) \in Finished => Leads(Find(x), x)

\* "The address of the translated risc-v instructions. May be null, if not
\* translated yet": it is null for no instruction of a finished block.
FindComplete ==
    \A b \in Finished : \A i \in 1..blocks[b].count : Find(Starts(b)[i].x86) # Null

\* The code of a block runs on from one instruction to the next, wherever the
\* lists moved it while it grew, and then to the block it was linked to.
CodeFlows ==
    \A b \in Finished :
        LET n == blocks[b].count
            last == Starts(b)[n]
            after == last.riscv + Riscv[last.x86]
        IN /\ \A i \in 1..n : Holds(Starts(b)[i].riscv, Starts(b)[i].x86)
           /\ \A i \in 1..(n - 1) :
                 Starts(b)[i + 1].riscv = Starts(b)[i].riscv + Riscv[Starts(b)[i].x86]
           /\ last.x86 \notin EndsBlock =>
                 /\ after \in 1..Len(code.memory)
                 /\ code.memory[after].to # Null
                 /\ Holds(code.memory[after].to, blocks[b].end)
                 /\ Leads(code.memory[after].to, blocks[b].end)

\* codegen.cpp: "codestore::find(...) must have failed" is never reached: where
\* get_next_block finds a block that starts at x, find() found it before.
FindNeverFails ==
    status = "idle" =>
        \A x \in Address : FindBlock(x) = 0 /\ NextBlock(x) # 0 =>
                               blocks[NextBlock(x)].start # x

\* A finished block is final: later translations neither move nor overwrite its
\* code and its offsets.
BlocksAreFinal ==
    [][\A b \in Finished :
          /\ blocks'[b] = blocks[b]
          /\ Starts(b)' = Starts(b)
          /\ \A x \in {Starts(b)[i].x86 : i \in 1..blocks[b].count} :
                Find(x) # Null => Find(x)' = Find(x)]_vars

\* What find() answers for the instructions of finished blocks, while the
\* program runs.
InFinished(x) == \E b \in Finished : \E i \in 1..blocks[b].count : Starts(b)[i].x86 = x
Ended == {"fault", "corrupt"}
Translations == [x \in Address |-> IF status \notin Ended /\ InFinished(x) THEN Find(x) ELSE Null]

TM == INSTANCE TranslationMap WITH
          known <- Translations, status <- IF status \in Ended THEN "fault" ELSE status

\* translate() answers every address with the one translation it ever has,
\* makes one only where there is none, and ends the program over no address it
\* has translated.
ImplementsTranslationMap == TM!Spec

\* codegen.cpp on the page check before a block is translated: "This check will
\* also validate, that the address won't corrupt the page-array."
PageArrayIntact == status # "corrupt"
=============================================================================
