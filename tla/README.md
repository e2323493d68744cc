# A TLA+ model of oxtra

oxtra is a dynamic binary translator: it loads a statically linked x86-64 ELF
program into its own process on a RISC-V machine, translates it basic block by
basic block when control first reaches a block, and runs the translation. There
is one thread. What makes it hard is not concurrency but *memory of earlier
decisions*: a block, its place in the page arrays, a TLB entry, an overwritten
exit, a call table entry, the set of flags an instruction was told to store are
all decided once, from what was known then, and used for the rest of the run.
The models are about whether those decisions stay right, whatever the guest
does afterwards and in whatever order its code is reached.

Source paths below are relative to `src/src/oxtra/`.

## 1. The system

| Component | State it keeps | Operations | Talks to |
|---|---|---|---|
| Dispatcher (`dispatcher/`) | guest and host registers, TLB, return stack | `run`, `guest_enter`, `guest_exit`, `fault_exit`, `reroute_static`, `reroute_dynamic`, `reroute_return` | called by translated code; calls `translate`, `update_basic_block` |
| Code generator (`codegen/codegen.*`) | call table, batch | `translate`, `update_basic_block`, `recursive_flag_requirements`, `add_call_entry` | code store, instruction classes, decoder, ELF page flags |
| Code store (`codegen/codestore/`) | blocks, one array of blocks per page, code buffer, offset buffer | `find`, `get_next_block`, `create_block`, `add_instruction` | static lists |
| Static, executable and fixed lists (`utils/`) | buffers, the position in the last one | `add`, `allocate`, `reallocate` | the host's `mmap` |
| Instruction classes (`codegen/instructions/`) | declared flags, operands | `generate`, `get_update`, `get_require`, `branch_address`, `control_flow_dimension` | batch, helpers, jump table |
| Flag machinery (`codegen/instruction.cpp`, `jump-table/`, `arithmetic/*.inc.s`) | `flags::Info` in the execution context: the operands of the last operation | `update_*` stores, `evaluate_*` computes | written and read by translated code |
| System calls (`dispatcher/syscalls.*`) | program break, `fs`/`gs` base | table dispatch; `brk`, `open`, `fstat`, `arch_prctl`, ... emulated | the host's kernel |
| ELF loader (`elf/`) | mapped image, flags of every page | load, `get_page_flags`, `get_size` | used by the code generator |
| Debugger (`debugger/`) | sorted block list, break points, current block, step state | `begin_block`, `end_block`, `entry`, menus | called back from translated code |
| Helpers and encoding (`codegen/helper.*`, `encoding/`, `decoding/`) | nothing | move, load and extend registers, build constants; assemble; disassemble | used by the instruction classes; disassembled for the debugger |
| Arguments, logger | options | parse; format | everyone |

How they interact. Translated code leaves its block in one of three ways. A
direct exit calls `reroute_static`, a register exit `reroute_dynamic`, a
correctly predicted return whose target has no translation yet
`reroute_return`. Each looks in the TLB, else calls `translate`, stores the
answer in the TLB and jumps to it; `reroute_static` also overwrites the exit it
came from with a direct jump, `reroute_return` writes the answer to the call
table. `translate` asks the code store, and on a miss decodes up to the end of
the block or the start of the next translated one, predicts flags, generates
one batch per instruction and hands it to the code store, which copies it to
executable memory.

### Behaviours that are hard, and what makes each part correct

* **Dispatcher** — nothing is ever invalidated. Correct means: every cached
  answer is and stays a translation of its own address, a return goes where the
  guest's stack says however deep the calls went, and the whole behaves like an
  x86 processor.
* **Code store** — found by binary search, so the arrays must stay sorted and
  the blocks disjoint although blocks are built incrementally, span pages and
  move while they grow. Correct means: what `find` answers is a translation of
  the address, and every translated address is found.
* **Static list** — elements are handed out by address. Correct means: finished
  sections never move.
* **Flag prediction** — decided per block from a bounded look ahead, before most
  of the program is known. Correct means: no reader ever meets operands older
  than the last writer's.
* **Program break** — several failure answers of the kernel between two halves
  of an update. Correct means: the break and the pages mapped for it agree.
* **Instruction classes, lazy flags, conditions** — pure algorithms full of
  widths and boundaries, and temporaries handed from one helper to the next.
  Correct means: equal to the x86 definition for all operands of a width.
* **Helpers, encoding, block ends** — constants cut into signed pieces whose
  signs have to cancel, offsets that change when the debugger puts jumps
  between. Correct means: the register holds what was asked for, the branch
  lands where it was meant to.
* **Debugger** — an index and a pointer into a vector that is inserted into,
  break points in one list of which the last may be the temporary one, and the
  bits of one control word that several commands share. Correct means: the
  current block is the current block, no break point is lost or run past, and
  stepping goes as far as asked.
* **ELF loader** — page ranges of segments that share a page of the file, copied
  in whole pages over each other. Correct means: the image holds what the
  headers say, and the decoder reads no further than the pages allow.
* **Start and system calls** — the stack has to hold everything counted
  beforehand; each path of a call saves other registers than it restores.
  Correct means: only `rax` changes, and the guest finds its arguments.

`PROJECT.json` lists under `hazards` the lines where each of these bites and the
properties that watch them.

## 2. The modules

| Module | Models | State ↔ code |
|---|---|---|
| `GuestProgram` | the x86 program: an instruction kind per address | `Prog`, `Targets` stand for the decoded image and for what registers may hold |
| `GuestFlow` | **abstract specification**: the guest as an x86 processor runs it | `ip`, `stack`, `status`; nothing of the translator |
| `Dispatcher` | the dispatcher and all its caches | `tlb`, `ring`/`rp` (return stack), `table`/`cap` (call table and vector capacity), `exits` (what `update_basic_block` wrote), `host` (`CodeStore::find`), `code` (host code cells), `at`/`pc`/`t3`/`t1` (who runs, with which registers) |
| `DispatcherProofs` | theorems about `Dispatcher` | |
| `StaticList` | `utils::StaticList<T>`, `ExecutableList` | a list is a record `memory`, `next`, `left` |
| `CodeStore` | the code store and the part of `translate` that fills it | `blocks`, `pages`, `code`, `offsets`; `todo`/`next` are locals of `translate` between two `add_instruction` |
| `TranslationMap` | **abstract specification**: what `translate` promises to its callers | `known`, `answer`, `status`; nothing of blocks, pages and buffers |
| `CodeStoreProofs` | theorems about `CodeStore` | |
| `FlagPrediction` | the flag prediction and code that runs under it | `need` (what `set_update` was given), `fresh` (flags whose stored operands are current) |
| `FlagPredictionProofs` | theorems about `FlagPrediction` | |
| `Words` | machine words in four widths over a byte of `Byte` bits | |
| `X86` | **reference**: what a processor does with one guest instruction | registers, memory, one field per flag |
| `HostMachine` | the RISC-V machine and the code emitted to reach an operand (`helper.cpp`, `instruction.cpp:51-344`) | `reg`, `mem`; `update` is `update_flags`; `junk` is what a clobbered register is found to hold |
| `LazyFlags` | `update_*`, `evaluate_*` and the jump table | `info` is `flags::Info`; an entry of the jump table is a name and a width |
| `Instructions` | `generate` and `execute_operation` of the arithmetic, logic, comparison and move classes | operators from the host state before the emitted code to the one behind it |
| `Conditions` | every `Jcc`, `Setcc` and `Cmov` class | as above |
| `Shifts`, `Products`, `Moves`, `Strings` | the remaining instruction classes: shifts by `cl`, rotations, bit tests; `mul`, `imul`, `div`, `idiv`; extensions, addresses, the stack; the string instructions with their loop | as `Instructions` |
| `Translation` | guest processor and translated code in lockstep | `host`, `guest`, `fresh` (flags whose stored operands are current, as in `FlagPrediction`) |
| `BitSets` | 64 bit words as sets of their ones | |
| `Encoding` | `encoding.cpp`: operations, formats, pseudo-instructions | a table with a row per operation |
| `Hart` | **reference**: what a RISC-V processor reads in a word and does with it | registers and `pc` |
| `Display` | `decoding.cpp`: what is printed for a word | a record per line of text |
| `HelperCode` | `helper.cpp`, `code_batch.cpp` and `update_basic_block` at full width | sequences of instructions |
| `HostCode` | a request to these, encoded, laid out in memory and executed word by word, replaced and executed again | `request`, `code` (address to word), `hart` |
| `ElfLoader` | the constructor of `Elf`, `get_page_flags`, `get_size` | `base`/`size` (`_image`), `memory`, `protection`, `flags` (`_page_flags`), `owner` of each page |
| `ProgramBreak` | the emulated `brk` | `break`, `lastPage`, and the owner of each page of the host's address space |
| `ProgramBreakProofs` | theorems about `ProgramBreak` | |
| `Process` | loading, the initial stack, then system calls: composes `ElfLoader` with an instance of `ProgramBreak` over the same `owner` | `stack`, `tls` (`fs_base`, `gs_base`), `reg` (guest registers in the host's) |
| `ProcessProofs` | theorems about `Process` | |
| `Debugger` | the debugger, its user, and the guest it is attached to | `blocks`, `current`, `current_index`, `bps`; `temp_break` to `run_break` are the bits of the control word |
| `DebuggerLemmas`, `DebuggerProofs` | theorems about `Debugger`: its operators and its invariant; the steps | |
| `Induction` | induction over numbers and the values of recursive functions, for the proof modules | |
| `MC*` | programs, images, files, requests and sizes for TLC | |

`Dispatcher` and `CodeStore` describe the same `translate` at two levels. The
dispatcher needs of it only that `find` answers and that a block is appended as
a whole; addresses there count instructions. The code store needs the bytes and
pages and the intermediate states, and no control flow. `TranslationMap` is what
they have in common: `CodeStore` implements it, with `known` the answers of
`find` for finished blocks, and `Dispatcher` relies on nothing else of
`translate`: its `host` is `known`, `Find` is `Recall`, `Generate` is `Begin` and
`Finish` in one step, since nobody observes a block while it is made, and
`CannotTranslate` is `Fail`. When `translate` fails the process ends, so `Fail`
forgets the map.

`Translation` is where instructions have data. It composes `Conditions`, on top
of `Instructions`, `LazyFlags` and `HostMachine`, with an instance of `X86`, and
takes from `FlagPrediction` its result alone: an instruction runs only if the
flags it declares to read are fresh, and each is told which flags to update.
Emitting code and running it are one step, because the code of one instruction
is entered at its start only, except by its own branches.

`HostCode` is the layer below: there code is made of words at addresses. The two
meet in `HelperCode`, which is `helper.cpp` instruction by instruction, where
`HostMachine` has the effect of the same helpers on words of any width; what
`HostMachine` takes for granted of a helper is what `HelpersAgree` and
`ImmediateLoaded` say of its code.

`Process` does not compute: between two system calls the guest may have done
anything, and its registers are named by what they hold (`Own(r)`). `Dispatcher`
has the computation and treats a system call as an instruction.

### Granularity

In `Dispatcher` one action is one translated instruction or one run of a
handler, `translate` included: with a single thread nothing observes a handler
half way, except the handler itself. Where that matters — `reroute_return` holds
a pointer across `translate`, which may reallocate the vector it points into —
the action `ReturnGenerate` spells out what is read before and after, and the
constant `FreedReads` says what freed memory may be found to contain besides
its last value. A patched exit may still execute its old words: there is no
`fence.i` after the patch, so `StaticExit` allows both.

`CodeStore` makes adding one instruction a step of its own, so its invariants
hold in the states in between as well.

In `ElfLoader` each phase of the constructor is an action, and each segment one
of its own: what an earlier segment has mapped, protected and copied is there
when the next is. In `Debugger` an action is one entry from translated code, one
command, one translation, or the guest's way to the next entry; a signal may
arrive in the place of that way. In `HostCode` it is one instruction of the
host.

## 3. What is checked

All bounds are constants in the `.cfg` files and definitions of the `MC*`
modules.

| Run | Question | Bounds and why they are enough |
|---|---|---|
| `dispatcher_nested` | do all caches stay coherent, are returns predicted, and does the dispatcher implement `GuestFlow`, liveness included | a program with calls in a loop, direct and indirect, nested deeper than the return stack (2 entries), conditional jumps over and into existing blocks, a syscall; a TLB of 2 slots, so that addresses collide; call stack of 5 words |
| `dispatcher_tampered` | does the refinement hold, and control stay in translated code with it, for a guest that pushes its own return addresses, drops others, jumps off the image and meets an unsupported instruction | 4 words of stack, 2 slots, 2 entries |
| `dispatcher_freed` | finding: the TLB key is read from a freed call table entry | freed memory may hold any address |
| `codestore_aligned` | are blocks disjoint, complete, continuous and final; do callers see of them a map that only grows | 4 pages of 4 bytes, one block over three pages, one that ends with its page, two instructions without code, one of them the last of a block that runs into another, 7 entry points in every order, buffers of 7 and 4 elements so that sections move |
| `codestore_jumbled` | does `find` never answer wrongly, does the assertion in `translate` hold, for overlapping instruction streams | 2 pages of 8 bytes, 9 entry points, a batch that exceeds its limit, instructions without code at the start and inside of blocks, the end of the image |
| `codestore_edge` | finding: a block that ends with the image leaves the page array | as above |
| `flags_whole` | does every reader find current flags; does the bounded search cover all live flags | *every* program of 4 instructions over 2 flags and the classes mov, cmp, inc, adc, sete, jmp (direct and indirect), jcc, ret; depth 2. Two flags suffice to tell an instruction that writes all from one that leaves some alone; the set operations treat all flags alike |
| `flags_behind` | finding: a reader that runs into an existing block | the same programs with a reader in that position |
| `translation_whole` | does translated code leave registers, memory, flags, branch and the divide exception as the processor does | bytes of 2 bits, so that words have 2, 4, 8 and 16; a short immediate has 3 bits, as it has one and a half bytes in the code. Single instructions from register contents around the corners of every width, and pairs from two; four forms of address, immediates at both ends of the short range and beyond; for divisions, dividends up to the smallest of every width; repetitions of at most 2, so that a loop ends by its count, by its comparison, or is not entered; temporaries hold zeros or an alternating pattern |
| `hostcode_whole` | is every word what was asked for, to the processor and in print; do the helpers, jumps and patched exits do at 64 bits what their callers expect | nothing is scaled down. Every operation with immediates at both ends of its field; for `load_immediate` every constant whose bits change at most twice, and some that change often; operands in which all bytes differ; branches between any two of six instructions with and without the debugger's jumps; exits at distances around 4 KB, around 2^31 and far beyond |
| `process_whole` | is the image what the headers say, are the arguments found, does a system call change `rax` alone, do the break and its pages agree | files of up to three segments that share pages of the file, over 6 pages of 4 bytes and any set of foreign mappings; a stack page of 12 words, which one launch fills to the last word that is counted; `brk` at every address up to twice the address space; every emulated call and the ends and gaps of `syscall_map`. `NoBase` is 15, below the segments of one file, as 2^32 - 1 is below an image that is linked high |
| `debugger_whole` | does the debugger know where it is, keep its break points, and stop when and only when it was asked to | four instructions of one and two bytes, one of them without code, two that branch, so that blocks are found in ascending and descending order, overlap, or end in front of one another; at most 2 break points, at the start and inside of instructions and at the edges of blocks; counts 0 and 2 |

### What a run leaves out because the code is wrong there

Twelve runs are enough for the questions above, and not for every disagreement
met on the way; the following have no run of their own.

`flags_whole` leaves out instructions that count as writers of all flags and may
store none: `rep cmps` and `rep scas` with `rcx` of 0
(`codegen/instructions/string/repeatable.h:26`) and `syscall`
(`control-flow/syscall.h:10`).

`codestore_aligned` uses an image whose instruction streams do not overlap
(`OneReading`, which TLC evaluates for it). `FindComplete` holds for such images
only: with the image of `codestore_jumbled` TLC finds blocks of a page out of
order (`codestore/codestore.cpp:100`) and an instruction of a finished block for which `find` ends the program (`:44`).

Both contain, as the code has it, that a program whose first translated block
begins with an instruction without code, such as `nop` (`logic/logic.cpp:17`),
ends with "failed to add the riscv instructions to the static list":
`StaticList::add` of no elements to a list without a buffer answers with a null
pointer (`utils/static_list.h:43-77`, `codestore/codestore.cpp:78-79`). In the
model it is `CannotAdd`, by `Takes`; no property says that it does not happen.
With the debugger attached an instruction starts with a jump to the debugger, and
it does not happen.

`translation_whole` leaves out the instructions below. `Defects` in
`MCTranslation` names them, but for `dividendAbove`, which depends on what the
registers hold and is in `Suited`; with its name in the constant `Admitted` TLC
refutes `StateAgrees` or the property given here. Paths are relative to
`codegen/instructions/` where they start with a directory of it.

| Defect | What is wrong |
|---|---|
| `carryOfSelf` | `add r, r` and `adc r, r` of 4 or 8 bytes store the source for the carry after it has become the sum (`arithmetic/add.cpp:10-12`, `arithmetic/adc.cpp:27-33`): `FlagsAgree` |
| `smallest` | `cmp x, -0x800` adds 1 and then `-imm` instead of `-imm - 1`, which does not fit the field either (`comparable/cmp.cpp:42-43`; `sub.cpp:34-35` has it right): `FlagsAgree` |
| `byteToSelf` | `mov al, al` clears `al` (`helper.cpp:35-40`) |
| `setHigh` | `setcc ah` with the value in `t0` merges through `t0`, which is overwritten first: nothing is set (`logic/setcc/setcc.cpp:10-11`, `helper.cpp:45-46`) |
| `setMemory` | `setcc [base+index]` computes the address in `t0` and stores it as the value (`logic/setcc/setcc.cpp:16`) |
| `counter` | `jrcxz`, `jecxz` test `t4`, which nothing has set (`control-flow/conditional-jumps/jcc.cpp:101`): `BranchAgrees` |
| `segmentTwice` | an instruction that reads and writes one `fs:` or `gs:` operand adds the base twice to the address it writes (`instruction.cpp:312`) |
| `shiftFromAbove` | `shr`, `sar` of a narrow register shift in the bits above the operand (`logic/logic.cpp:308`) |
| `shiftSign` | `sar` of a narrow memory operand shifts in zeros: it was loaded without its sign |
| `shiftUnmasked` | an immediate count of 32 or more is not reduced for operands of up to 4 bytes |
| `shiftByZero` | an immediate count of 0 changes the flags: `FlagsAgree` |
| `shiftClFlags` | a shift by `cl` declares that it updates all flags and stores nothing for zero, sign and parity: `FlagsAgree` |
| `rolByZero`, `rorNarrow` | `rol` of a register of 1 or 2 bytes by 0, and `ror` of one by `cl`, leave a wrong register |
| `bitOffset` | with a register as offset the shift of the mask is encoded and not added to the batch (`logic/bit-test/bittest.cpp:45-56`, `96-106`): the carry and the bit are wrong |
| `bitUpper` | `btc`, `btr`, `bts` of a register of 4 bytes keep its upper half |
| `mulAddress` | a product with a narrow memory operand whose address is computed loses its first factor, which is in the same temporary (`arithmetic/mul.cpp`) |
| `dividendAbove` | `div`, `idiv` of 2 and 4 bytes take all of `rax` for the lower half of the dividend: bits above the operand are added to what `rdx` holds (`arithmetic/idiv.cpp:36`, `helper.cpp:79-86`) |
| `extendNarrow`, `clearAbove` | `movsx` to less than 8 bytes and `movzx` to 2 write the whole register |
| `stackPointer` | `push rsp`, `pop rsp` use the pointer at the wrong time |
| `popSegment` | `pop fs:[x]` does not add the segment's base (`memory/pop.cpp:28-42`) |
| `scasWhole` | `scas` of 8 bytes does not load what it compares: `FlagsAgree` |
| `stringOverflow` | `cmps` and `scas` give the operands of the overflow in the wrong order (`string/repeatable.cpp:74`): `FlagsAgree` |

`Suited` in `Translation` leaves out, besides `dividendAbove`, divisions whose
dividend needs 16 bytes, which the code takes from `rax` alone, and quotients
that do not fit, of which the code detects division by 0 and of the smallest number by -1
(`arithmetic/idiv.cpp:51-79`).

`FlagsAgree` says of the flags the debugger prints only that none is shown that
is clear. It shows no carry and no overflow at all, for the call that would
evaluate them stands in the branch of the entries that call a function, which
no instruction stores, and the overflow is looked up by the entry of the carry
(`debugger/debugger_print.cpp:326-334`, `341-350`); and it misses the sign of a
narrow result whose register has other bits above it (`:313`).

`hostcode_whole` leaves out `BGTZ`, which is encoded as a branch on equality and
used nowhere (`codegen/encoding/encoding.cpp:657`), the clearing of a
destination that is the source (`byteToSelf`), and in `ExitReaches` the last 2
KB before a distance of 2^31, which pass the test of the range and cannot be
reached (`codegen/codegen.cpp:184`).

`process_whole` holds of files as linkers lay them out: segments in ascending
order, no two in one page of memory, and every byte behind a segment's part of
the file in `.bss`; a tail elsewhere keeps what stood behind the segment in the
file (`elf/elf.cpp:233-258`). It contains, as the code has it: the first
`mprotect` of a segment is given a pointer for a length (`:255`), the last one
misses a page (`:264`, `Missed`); the smallest address starts at 2^32 - 1
(`:183`), so an image above has its base too low and the program headers are
announced in the wrong place; the initial stack is counted one word short
(`dispatcher/dispatcher.cpp:95`), and a stack that is full to that word ends in
`crashed`; `fstat` copies an uninitialised structure if it fails
(`dispatcher/syscalls.cpp:26-73`); `arch_prctl` also stores a base it sets at
the address it names; a request for a break inside the last mapped page is
refused (`:106`, although the documentation says that `brk` changes the size of
the data segment; `RefusedOnlyInLastPage` says that no other is).

`debugger_whole` contains: a pending break point at the instruction the user
runs to may go with the temporary one (`debugger/debugger.cpp:413`, `risked`);
an instruction without code is shown as the one behind it (`Empty`); after
quit the entries no longer tell the signal handler where the guest is
(`debugger/debugger_menu.cpp:336`); the commands to run to the start and to the
end of a block pass break points on the way (`debugger/debugger.inc.s:49`), so
`BreakPointsHonoured` speaks of a guest that was let run (`waved`).

### How the properties are to be read

`SearchCoversLive` compares the recursive search with liveness as a compiler
defines it. `FlagsFresh` is the property it serves; it holds in the running
program, over all ways into a block.

A flag the translator declares unsupported (carry and overflow of a shift) ends
the program when it is read; such a step of `Translation` is `fault` and nothing
is compared. A flag of which the processor itself leaves the value undefined is
not compared either.

What is scaled down in `translation_whole` are widths, never the relations
between them: the top of four bytes, the second byte, the 12 bit field are all
expressed through `Byte`. Parity is that of a 2 bit byte, so the folding of
eight bits is not distinguished from other ways to count them.

`WordReadsBack` and `HelpersAgree` compare the code with `Hart`, which is
written from the tables of the instruction set's manual and not from
`encoding.cpp`; the order of the jump table's entries is taken from
`jump_table.h` on one side of `JumpsLand` and from `jump_table.s` on the other.

`CallsAnswered` says of every path through `syscall_handler` what the three
macros that save registers and the one that restores them say together.

### Fairness

`FairSpec` of `Dispatcher` assumes weak fairness of everything the program does
(`WF_vars(Instruction \/ Handler)`), and of nothing else: there is one thread,
and the host schedules it. No fairness is assumed of single actions, so a guest
that loops forever loops forever in both specifications.

`FairSpec` of `Debugger` assumes that the guest and the debugger's own code go
on while nobody has to be asked (`GuestMoves`). Nothing makes the user type, so
no fairness is assumed of the menu. Every step of the guest ends in another
phase, and whether it can take one depends on the phase alone, which is why the
assumption is stated of `phase`. The other modules state safety only.

`CHECK_DEADLOCK FALSE` appears only where the program may stop: in
`FlagPrediction` the guest stops at an address it cannot execute, in
`Translation` and `HostCode` when the code asked for has run, in `Process` when
it exits, crashes or is refused.

## 4. What is proved

### The dispatcher

`DispatcherProofs` proves for **every** program, hash function, TLB size, return
stack size and stack size:

* without further assumption: `TypeCorrect`, `CodeStaysCoherent`,
  `TableStaysCoherent`, `CallsKeepEntries`, `ReturnsStayPredicted`;
* if freed memory keeps its value until it is read (`FreedReads = {}`):
  `TlbStaysCoherent`, `ExitsStayCoherent`, and the action property
  `NothingRetracted`;
* if moreover no register jumped through and no word pushed is 0 (`NoNull`):
  `PcStaysValid` and `DispatcherRefines`, that every run of `Spec` is a run of
  `GuestFlow!Spec`.

Neither assumption can be dropped. The first is the finding `dispatcher_freed`.
The second: an empty TLB slot is all zeros and answers for address 0
(`dispatcher/assembly_defines.inc.s:162`), so with 0 in `Targets` and a TLB of
four slots TLC refutes `ImplementsGuestFlow` with an indirect jump to address 0, which
lands on host address 0 instead of reaching the page check of `translate`.

The argument. None of the properties is inductive alone. `Inv` is
`TypeOK /\ StoreInv /\ HandlerInv`: the store part says that code, call table
and calls agree and that the offsets on the return stack stay inside the table
(`RingInTable`; without it a return could read past the table); the handler part
says what a reroute handler was given, so that the exit it overwrites belongs to
the instruction that called it. `CacheInv` adds the TLB and the patched exits.
It holds because translations are only ever added: `TranslatesForever` is the
lemma that carries every older entry over a step. `PcInv` adds that 0 never
reaches a handler. The refinement maps `ip` to the address of the instruction
at `pc`, or to `t3` while a handler is looking for its translation; each
instruction maps to the guest's step and each handler to a stutter.

`PairedInv` is about the return stack of a guest without push and pop: the
newest `paired` offsets belong to the newest return addresses. A call and a
return shift both by one; `SlotShifts` does it for the ring, whose slot `i`
pushes ago is not the one written next as long as `i` is below its size, and
`AddressesStay` says that an entry keeps its return address while translations
append to the table, move it and store into it.

The proof of a step is split by action, and within an action by conjunct.
`EmitShape`, `EmitCoherent` and `EmitStoreInv` are the lemmas about a new block,
`TableShape` and `SaveShape` those about the call table.

### The program break

`ProgramBreakProofs` proves for **every** page size, size of the address space,
end of the image and initial mappings (`PageAssumption`: at least one page of at
least one byte): `BreakStaysBacked`, `LastPageStays`, and the action property
`ForeignPagesStay` and `RefusalsStayInPage`.

The argument. That the pages of the break end where the break ends is kept only
if the two ways to say where that is agree, so `IInv` is `TypeOK`, a start of
the break on a page boundary, `LastPageFollows` (`last_break_page` is the break
rounded up) and `BreakBacked`. `AlignUp` says what `page_align` does in the
user's half of the address space, where it cannot wrap around; `Growth` that the
length `mmap` is asked for is either 0, when the difference wrapped around, or
exactly what is missing to the new last page. `BackedByLast` trades `BreakBacked`
for the same with `last_break_page`, the form in which a step changes it. The
steps are then `ShrinkStep`, `GrowStep`, `OtherMapsStep` and `UnchangedStep`. The
first break is a page boundary because the loader rounds the image up; without
that conjunct the first growth could take the page the image ends in. A request
for pages that are free fails only if `mmap` is asked for no page at all: by
`Growth` the new break lies in the last page then.

### The process

`ProcessProofs` proves for **every** set of files, launches and answers of the
kernel, page size and address space: `ProcessBreakBacked`,
`ProcessKeepsForeign`, `ProcessRefusesInLastPage`, `ProcessAnswersCalls` and
`ProcessSizesUniform`. It assumes of the files that
their addresses and sizes are unsigned numbers whose sums do not overflow
(`FilesAssumption`), and of the constants that there is a page of a byte
(`LoaderAssumption`). For files as linkers produce them (`Linked`: segments in
ascending order that share no page of memory, whose bytes the file holds, and
whose other bytes are a `.bss` section) it also proves `ProcessSegments`,
`ProcessContentsLoaded` and `ProcessPagesGranted`. TLC evaluates `Linked` for
every file of `process` (`LinkedFiles`), and both halves of it are needed: with
two segments in one page TLC refutes `PagesGranted`, since the flags of the
second replace those of the first, and with a segment whose end is neither in
the file nor in `.bss` it refutes `ContentsLoaded`, since the copy is made in
whole pages of the file and nothing clears what comes with them.

The argument for the first two. `ProcessInv` says that the image, once mapped,
ends on a page boundary below the end of the user's addresses, that the break is
0 before the start, and `IInv` of `ProgramBreak` throughout. `ImageEnd` is the
lemma about the loader: the highest end is a number because a bounded set has a
greatest element (`GreatestOf`, from the well-foundedness of the naturals), and
the address behind the image is that number rounded up. A phase of the loader
only turns free pages into the image's (`MapImageStep`), the start finds no page
of the break (`StartStep`, `FreshBreak`), and a `brk` is a step of
`ProgramBreak`, whose lemmas `BreakStep` takes from an instance of
`ProgramBreakProofs`. That the image ends on a page boundary is what the second
module needs of the first: without it the first growth of the break could not
map the page it starts in.

The argument for the third. `RegisterFacts` says that the macros that save and
the one that restores cover every register of the guest, and that `rax` shares
its host register with no other; `Answering` that the two paths of the handler,
by the context and by the register that holds `rdi`, come to the same.

The argument for `ProcessSizesUniform`. `get_size` asks for the greatest number
of pages of one kind, so it needs that the image begins and ends on a page
boundary while it is read (`ImagePlaced`, kept by `ImageBoundaries`), and that
addresses compare as their pages do (`PageOf`, where the remainder is taken
apart once). `QueryUniform` is then about one query: the last page it counts has
the kind of the first, the next has not or lies outside.

The argument for the contents and the pages. `SegmentsInv` says that the segments
loaded so far have their bytes, flags and protection and nothing else has flags.
The copy of a segment starts at the page below it, its first `mprotect` reaches
to the end of the image and its last starts a page boundary early, so each step
touches more than its segment; `TouchedBy` and `KernelReach` put pages in terms
of addresses, and `SegmentsApart` says that all of it lies behind what was
loaded before. `ImageHolds` is why the kernel has mapped what is touched. `.bss`
comes last and may lie in any segment: `ClearBssSegments` shows that it ends its
own and lies before or behind every other.

### The code store

`CodeStoreProofs` proves for **every** image, page size, translation and capacity
of the lists

* without further assumption: `StoreInductive`, `AnswersAreTranslations`
  (`FindSound`) and `BlocksRunOn` (`CodeFlows`);
* if decoding from the guest's targets reaches instructions that do not overlap
  (`OneReading(B)` for some set `B` of addresses): `StoreReadInductive`,
  `NothingTranslatedTwice`, `FindMissesNothing`, `EmptyBlocksNeverArise`, the
  action property `FinishedBlocksStay`, and the refinement
  `CodeStoreImplementsMap`: every run of `Spec` is a run of `TranslationMap`. `B` contains the targets and with each
  instruction that does not end a block the next; compilers emit such code, and
  `AlignedReading` has TLC evaluate the condition for the image of
  `codestore_aligned`. It cannot be dropped: section 3 says what happens to
  `FindComplete` where instructions overlap.

The argument for the first. While a block grows, a list may move its section to
a new buffer, so what `find` answers and what the code runs into are true only
if nothing else was written behind the section meanwhile. `Inv` says that the
code and the offsets of a block that has an instruction are there and belong
together (`BegunWhole`), that those of the block under construction lie at the
end of the two lists (`AtEnd`, a part of `Adding`), and that a finished block
ends with an instruction that ends it or in a jump to the block that starts
where it ends, and with a batch that is not empty in either case
(`FinishedLinked`). `ListAdds` is the lemma about `StaticList`: it keeps all that
was written and continues the section, here or in a new buffer.
`WholeStays` carries other blocks over a step, `WholeGrows` the one that grows.
For `FindSound` the binary search need not even be right: whatever block it ends
at, `Found` says that the answer is one of its instructions at that address.

Nothing is assumed of how much code an instruction has but that one with eob has
some (`RiscvAssumption`): it leaves the block by a reroute. One without code
shares its host address with what is behind it, so that address is a translation
of both. `FirstCode[x]` is the first address from `x` on, in the order of
decoding, whose instruction has code, and `Leads(h, x)` says that the code at `h`
begins what the guest meets there. `InstructionsLead` shows it of every
instruction of a finished block, backwards from the last, whose batch is not
empty; this is what the additional part of `FinishedLinked` is for. `CodeFlows`
says the same of the block a link jumps to.

The argument for the second. `find` relies on the order of a page's array, which
`insert_block` establishes for the page of the first instruction only; in the
page of the end the block is put to the front (`codestore/codestore.cpp:100`),
and no code checks that it belongs there. `InvRead` therefore says that blocks
do not overlap (`AllApart`), that pages are in order (`PagesOrdered`) and list
only blocks that reach them (`PagesSpan`), that a block is listed where one of
its instructions starts and where it ends (`AllListed`), and that the addresses
still to be added lie between the blocks there are (`Reserved`). `NextIsFirst`
is what makes the last one true when a block is created: `get_next_block` looks
into one page after the other and takes the first block it meets, which is the
lowest one behind `x` because blocks are listed in the page of their start.
`PagesOverlapped` is the step at `codestore.cpp:100`: a block that reaches the
next page with its end precedes everything listed there, since nothing lies
between its start and its end. `SearchComplete` is about the search itself: in an
ordered array it finds the block that contains `x`.

The argument for the refinement. `Translations` maps the state: what `find`
answers for the instructions of finished blocks, and nothing once the process has
ended. While a block is added to, its instructions are found already, with
addresses that a move of its section makes wrong; hence finished blocks only,
and every `add_instruction` but the last is a stutter (`AddStutters`). What must
be known besides `InvRead` is that the block is made for the address that was
asked for (`AskedFor`): the last step then answers with the start of the block,
which is what `find` says of that address, because no other of its instructions
starts there (`BlockStartFound`). `TranslationsKept` and `TranslationsSame` carry
the map over a step, by `FinishedKept`. `AnswersUnshared` is about two addresses
with one answer: finished blocks answer both (`StartsFound`), the code there is
where both of them lead (`InstructionsLead`), so only instructions without code
stand between them, which is what `TranslationMap` demands (`Unshared`). The
steps are `KnownRecalls`,
`CreateBegins`, `AddFinishes` and `FailuresFail`; the last says that `translate`
ends the program only over an address that has no translation.

### The flag prediction

`FlagPredictionProofs` proves for **every** size of the image, set of flags,
depth of the look ahead and set of programs

* `SearchMissesNothing`, if an instruction changes the flags its class declares,
  all of them and no other (`WritesDeclared`);
* `FlagInductive` and `FlagsStayFresh`, if moreover no jump lands right behind a
  reader that is no branch, and an image with such a reader has no indirect jump
  and no return (`ReadersInside`).

`ProgramsAssumption` says of the instructions what the classes do: a direct
branch updates no flag, an indirect one ends its block. `ReadersInside` cannot be
dropped: that is the finding `flags_behind`. Nor can `WritesDeclared`: a `rep cmps`
with `rcx` of 0 declares flags it does not change, and those of the instruction
before it are not stored then (section 3).

The argument. `LiveAt` is liveness over paths of any length, as the least of the
maps from addresses to flags that are closed under a step backwards (`Closed`);
`LiveAtClosed` and `LiveAtUnfolds` are the two halves of its being a fixed
point, and `LiveIsLiveAt` compares it with `Live`, which the runs evaluate.
`SearchCovers` is by induction over `Ahead`, the levels of the recursion that
are left and then the distance to the end of the image: what is live and still
unclear is reported, and what must be updated already is. Within a block
`AsksCoverLive` goes backwards from `LastAsksCovers`. The invariant `IInv` says
that the flags live at the guest's instruction are fresh (`LiveFresh`), that a
translated instruction was told to update what it changes and what is live
behind it (`NeedCovers`), and, for the instruction that runs into the next
block, whose own requirements `translate` leaves out, that a reader which is no
branch is translated before what stands behind it (`ReadersKnown`,
`ReaderPassed`).

### The debugger

`DebuggerProofs` proves for **every** program, capacity of the break point list,
sets of places and counts the user may name: `DebuggerInductive`,
`CurrentAlwaysListed`, `BreakPointsStay`, `BreakPointsAreHonoured`,
`ShownIsWhatRuns` and `StopsAreExplained`, which are all safety properties of
`Debugger` that a run checks. Assumed is that instructions have a byte at least,
that a branch has code of its own and that the guest always has a next
instruction (`ProgramAssumption`), and that the user's counts are finitely many
(`LimitAssumption`).

The argument. `IInv` (in `DebuggerLemmas`) says, besides the types and
`CurrentListed`: blocks share neither instructions nor code (`BlocksApart`); the
guest is at an entry of a translated instruction (`AtEntry`); a break point is
pending only while no block holds its address, and otherwise stands where its
instruction is (`BreakPointsPlaced`); the temporary one is the last, or merged
with it (`Temporary`); all others cover what the user wanted (`Kept`); the bits
of the control word are those of a command that is running (`Modes`).
`BlocksApart` is what makes the addresses of an entry determine its block and
its instruction, and `Sums`, the sizes added up, what makes addresses ordered as
instructions are. The pass of `end_block` over the break points is a loop over a
list that shrinks: `Kept` is carried through it with `BoundedIteration`.
`StopsAreExplained` needs in addition that the counters have gone as far as the
guest has (`Counted`).

### Induction

`tlapm` cannot use the induction theorems of its library here, which have an
operator as parameter. `Induction` states them for sets instead: a set that
holds 0 and with each number the next holds them all, from the
well-foundedness of the naturals. `Iteration` builds a function from its step,
and `MeasuredRecursion` a solution of any recursive definition in which a value
depends on values of a smaller measure; the `CHOOSE` behind a recursive function
of TLA+ then satisfies its equation. That is how the values of `Search`,
`AsksOf` and `Live` and of the debugger's sums are known.

### Only model-checked

Liveness (the fairness part of `ImplementsGuestFlow`, and `CounterElapses`),
which is outside the reach of the proof system; `ArgumentsFound`, since the
auxiliary vector is flattened by a fold, whose value for every vector is an
induction over data; and all of `Translation` and `HostCode`. For the code store two images show by example what the theorems say
of all, and `FindNeverFails` also for one in which instructions overlap. `BitSets`, `HelperCode`, `Strings` and `X86`
have RECURSIVE operators, so nothing is proved in `HostCode` and `Translation`;
in the first all words of 64 bits are out of TLC's reach as well, and its cases
are chosen by the boundaries of the code.

## 5. Findings

Each is a run that violates one property; `PROJECT.json` gives the line and the
quotation.

* `reroute_return` uses a pointer into the call table after the table may have
  moved (`dispatcher/dispatcher.inc.s:197`).
* A block that ends with the image's last byte is put into a page array behind
  the last (`codegen/codestore/codestore.cpp:96`).
* An instruction that reads flags and runs into a translated block is left out
  of the prediction (`codegen/codegen.cpp:87`).

The defects of section 3 have no run of their own; admitting one of
`translation_whole` is a change of one constant.

Modelled as the code has it, without a property of its own: `reroute_return`
does not save what it finds in the TLB (`dispatcher/dispatcher.inc.s:213`, the
action `ReturnHit`), although `dispatcher.h` says that it does. Later returns
take the handler again; nothing else changes.

## 6. Not modelled

The x86 decoder and `fmt` (third-party); arguments and logging; parsing of what
the user types in the debugger, and what its commands print; the rows of the
table from mnemonics to instruction classes; the checks of single fields of the
ELF header, which are one answer in `ElfLoader`; the constructor of `Elf` over
an image in memory, which only tests use, and the reading of a file from a
stream, which reads past its end by up to a page (`elf/elf.cpp:323`).

Registers and data values in `Dispatcher` (its guest has a stack of words and a
control flow) and in `Process`. Floating point operations have words in
`Encoding` and no meaning in `Hart`: no instruction class emits one.

In `Translation` memory operands at different addresses do not overlap, and a
displacement is either absent or too long for an instruction; scaled indices,
addresses of four bytes, memory operands based on `rsp` in `push` and `pop`, and
a `cmov` whose address uses its own destination are left out. Products are
told only of carry and overflow, divisions of no flag: the processor leaves the
others undefined.

In `Process` the guest makes the calls `Numbers` names, and a forwarded
call is answered by any of `Results`: that `newfstatat`, `clone` and the epoll
calls are forwarded although the layouts or arguments of the two architectures
differ is beyond it. Faults inside the translator itself end a run as `crashed`.

In `Debugger` the guest's data is not modelled, so both ways of a branch are
always open, and printing the stack (`debugger/debugger_print.cpp:386`, which
may read unmapped memory) is left out.

Guests that write to their own code are not modelled: the translator does not
support them, and no path of it looks at the image twice.

## 7. Plan

1. *Done*: the dispatcher and its proofs; the code store; flag prediction and its
   proofs; the translation of every instruction class; the lowest layer at full
   width; the ELF loader, the start of a process and its system calls; the
   debugger and its proofs; the proofs about the program break, the loader, the
   process and the code store; the abstract code store and its refinement.
2. `Dispatcher` over an instance of `TranslationMap` in place of its own `host`
   and `Generate`, so that the two proofs meet in one theorem.
