---------------------------- MODULE GuestProgram ----------------------------
(***************************************************************************)
(* The x86 program as the translator sees it: which addresses are          *)
(* executable, which instruction stands at each of them and what it does   *)
(* to the control flow.  Instructions are one address long: the byte-level *)
(* layout of blocks and pages is the subject of CodeStore.                 *)
(***************************************************************************)
EXTENDS Naturals, Sequences

CONSTANTS
    Last,       \* the largest address of the model
    Image,      \* the addresses on pages with PAGE_EXECUTE and PAGE_READ
    Prog,       \* the instruction at every address of the image
    Targets,    \* what a register may hold at an indirect jump or call
    Entry,      \* Elf::get_entry_point()
    Argc,       \* the word init_guest_context leaves on top of the stack
    StackSize   \* words the guest stack holds before the guest is killed

Guest == 0..Last

Kinds == {"plain", "push", "pop", "jcc", "jmp", "call", "ret",
          "syscall", "exit", "unsupported"}

\* imm is the immediate operand: a direct target, or the word push pushes.
\* A jump or call whose operand is not an immediate has imm = 0, which is
\* what branch_address() answers for it.
Instructions == [kind : Kinds, imm : Guest]

ASSUME LastAssumption == Last \in Nat
ASSUME ImageAssumption == Image \subseteq 1..(Last - 1)
ASSUME ProgAssumption == Prog \in [Image -> Instructions]
ASSUME TargetsAssumption == Targets \subseteq Guest
ASSUME EntryAssumption == Entry \in Guest \ {0}
ASSUME ArgcAssumption == Argc \in Guest \ {0}
ASSUME StackAssumption == StackSize \in Nat \ {0}

Kind(a) == Prog[a].kind

\* The values control may go to when the jump or call at a is executed.
BranchTargets(a) == IF Prog[a].imm # 0 THEN {Prog[a].imm} ELSE Targets

\* get_eob(): the instruction ends its basic block.
Eob(a) == Kind(a) \in {"jmp", "call", "ret", "syscall", "exit", "unsupported"}

\* The straight line from a leaves the image before it ends a block: decoding
\* it fails.
RunsOff(a) == \A e \in Image : (a <= e /\ a..e \subseteq Image) => ~Eob(e)
=============================================================================
