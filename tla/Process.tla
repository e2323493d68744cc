------------------------------ MODULE Process ------------------------------
(***************************************************************************)
(* A run of the translator as its host sees it: the executable is loaded,  *)
(* the guest's stack is laid out and the guest started; from then on it    *)
(* makes system calls, which are forwarded, emulated or refused, until it  *)
(* exits.  What it computes in between is the subject of Dispatcher.        *)
(***************************************************************************)
EXTENDS ElfLoader, SequencesExt

CONSTANTS
    StackPage,    \* words of a page of the stack (512 in the code)
    StackWords,   \* words of the stack, a multiple of StackPage
    Launches,     \* [arguments, environment, auxv]: what the translator is started with
    Results,      \* what a forwarded call, open or fstat may return
    Buffers,      \* addresses the guest passes to arch_prctl and fstat
    Numbers       \* the calls the guest makes, x86-64's numbers

VARIABLES
    launch,       \* the member of Launches
    stack,        \* the words from rsp to the end of the stack
    initial_break, break, lastPage, \* ProgramBreak
    tls,          \* fs_base and gs_base
    reg,          \* the guest's registers in those of the host
    answer        \* what the guest's system call was answered (history)

PB == INSTANCE ProgramBreak

breakVars == <<initial_break, break, lastPage>>
vars == <<loaderVars, owner, launch, stack, breakVars, tls, reg, answer>>

-----------------------------------------------------------------------------
(* Dispatcher::init_guest_context *)

AT_NULL == 0
AT_PHDR == 3
AT_ENTRY == 9

\* The header the auxiliary vector is to lead to is read from the image.
HeaderAt(a) == a \in Addresses /\ memory[a] = 1
ProgramHeaders == IF HeaderAt(base) THEN base + file.phoff ELSE base

Path == 100
Adapted(entry) == CASE entry[1] = AT_PHDR -> <<AT_PHDR, ProgramHeaders>>
                    [] entry[1] = AT_ENTRY -> <<AT_ENTRY, file.entry>>
                    [] OTHER -> entry

\* a bug: no terminator
ArgvOpen == <<Path>> \o launch.arguments
Argv == <<Path>> \o launch.arguments \o <<0>>
Envp == launch.environment \o <<0>>
AuxvWords == FlattenSeq([i \in DOMAIN launch.auxv |-> Adapted(launch.auxv[i])])

\* The value of the last entry of the auxiliary vector is not pushed.
Layout == <<Len(launch.arguments) + 1>> \o Argv \o Envp \o AuxvWords \o <<AT_NULL>>

Align(n) == ((n + StackPage - 1) \div StackPage) * StackPage
MinStackSize ==
    Align((2 * (Len(launch.auxv) + 1) - 1) + (Len(launch.environment) + 1)
          + (1 + Len(launch.arguments)) + 1)

Fits == Len(Layout) <= MinStackSize /\ MinStackSize <= StackWords

FirstBreak == base + size

Start ==
    /\ phase = "loaded"
    /\ initial_break' = FirstBreak /\ break' = FirstBreak /\ lastPage' = FirstBreak
    \* a word beyond the stack, in front of it or behind it, is not mapped
    /\ IF Fits
       THEN stack' = Layout /\ phase' = "running"
       ELSE UNCHANGED stack /\ phase' = "crashed"
    /\ UNCHANGED <<file, segment, base, size, memory, protection, flags, owner,
                   launch, tls, reg, answer>>

-----------------------------------------------------------------------------
(* Dispatcher::syscall_handler *)

\* The registers of the guest, each in a register of the host of its own.
HostOf == [rsp |-> "sp", rbp |-> "fp", rdi |-> "a0", rsi |-> "a1", rdx |-> "a2",
           r10 |-> "a3", r8 |-> "a4", r9 |-> "a5", rcx |-> "a6", rax |-> "a7",
           rbx |-> "s2", r11 |-> "s3", r12 |-> "s4", r13 |-> "s5", r14 |-> "s6",
           r15 |-> "s7"]
GuestRegisters == DOMAIN HostOf
\* What a register may hold: the guest's own value, the result of a call, or
\* something that is of no use to the guest.
Own(r) == <<"guest", r>>
Result(n) == <<"call", n>>
Junk == <<"host", 0>>
Stale == <<"context", 0>>
HostRegisters == Range(HostOf)

\* What compiled code leaves changed in the host's registers.
Volatile == {"a0", "a1", "a2", "a3", "a4", "a5", "a6", "a7"}

\* capture_context_tlb leaves out two registers the reroute handlers use.
CapturedTlb == HostRegisters \ {"s2", "s4"}
Captured == CapturedTlb \union {"s2", "s4"}
Restored == HostRegisters

Capture == [h \in HostRegisters |-> IF h \in Captured THEN reg[h] ELSE Stale]
AfterCompiledCode == [h \in HostRegisters |-> IF h \in Volatile THEN Junk ELSE reg[h]]
Restore(context) == [h \in HostRegisters |->
                        IF h \in Restored THEN context[h] ELSE AfterCompiledCode[h]]

\* An emulated call: its result goes to rax in the captured context.
Emulated(n) == Restore([Capture EXCEPT ![HostOf.rax] = Result(n)])

\* A forwarded call returns in the register that holds rdi.
Forwarded(n) ==
    LET saved == reg["a0"]
        called == [reg EXCEPT !["a0"] = Result(n)]
    IN [called EXCEPT !["a7"] = called["a0"], !["a0"] = saved]

Returns(n, registers) == reg' = registers /\ answer' = Result(n)

Quiet == UNCHANGED <<file, segment, base, size, protection, flags, launch, stack>>
KeepsBreak == UNCHANGED <<owner, breakVars>>

Forward ==
    /\ \E n \in Results : Returns(n, Forwarded(n))
    /\ Quiet /\ KeepsBreak /\ UNCHANGED <<phase, memory, tls>>

\* open, and the calls that are answered without being made: rt_sigaction,
\* rt_sigprocmask and ioctl.
Open ==
    /\ \E n \in Results : Returns(n, Emulated(n))
    /\ Quiet /\ KeepsBreak /\ UNCHANGED <<phase, memory, tls>>
Ignore ==
    /\ Returns(0, Emulated(0))
    /\ Quiet /\ KeepsBreak /\ UNCHANGED <<phase, memory, tls>>

\* A store of the translator to an address of the guest's.
StoreOrCrash(a, value) ==
    IF "W" \in protection[a \div PageSize]
    THEN memory' = [memory EXCEPT ![a] = value] /\ UNCHANGED phase
    ELSE UNCHANGED memory /\ phase' = "crashed"

\* The buffer is filled whatever the host's fstat has returned, with an
\* uninitialised structure if it has failed.
Fstat ==
    /\ \E n \in Results, a \in Buffers :
          /\ StoreOrCrash(a, IF n = -1 THEN "junk" ELSE "stat")
          /\ Returns(n, Emulated(n))
    /\ Quiet /\ KeepsBreak /\ UNCHANGED tls

\* Setting a base also stores it at the address it names.
ArchPrctl ==
    /\ \E code \in {"set_fs", "set_gs", "get_fs", "get_gs", "other"}, a \in Buffers :
          LET fs == code \in {"set_fs", "get_fs"} IN
          CASE code \in {"set_fs", "set_gs"} ->
                 /\ tls' = IF fs THEN [tls EXCEPT !.fs = a] ELSE [tls EXCEPT !.gs = a]
                 /\ StoreOrCrash(a, a)
                 /\ Returns(0, Emulated(0))
            [] code \in {"get_fs", "get_gs"} ->
                 /\ StoreOrCrash(a, IF fs THEN tls.fs ELSE tls.gs)
                 /\ Returns(0, Emulated(0))
                 /\ UNCHANGED tls
            [] OTHER ->
                 /\ Returns(-1, Emulated(-1))
                 /\ UNCHANGED <<phase, memory, tls>>
    /\ Quiet /\ KeepsBreak

Brk ==
    /\ PB!Brk
    /\ Returns(break', Emulated(break'))
    /\ Quiet /\ UNCHANGED <<phase, memory, tls>>

\* exit and exit_group return to guest_enter's caller, a call without an entry
\* in the syscall map ends in fault_exit.
Leave(how) ==
    /\ phase' = how
    /\ Quiet /\ KeepsBreak /\ UNCHANGED <<memory, tls, reg, answer>>

\* syscall_map, of which the first and the second half of the entries that
\* are -1 are listed apart: those of calls the other kernel has no number for.
syscall_map_size == 322
AbsentBelow150 ==
    {4, 6, 7, 15, 21, 22, 23, 33, 34, 37, 57, 58, 78, 92, 94, 111, 132, 133, 134, 136, 139} \union 82..90
AbsentFrom150 ==
    {154, 156, 172, 173, 174, 177, 178, 185, 201, 205, 211, 213, 214, 215, 232, 235, 236,
     253, 261, 264, 282, 284, 320} \union 181..184
is_valid(n) == n < syscall_map_size /\ n \notin AbsentBelow150 \union AbsentFrom150

\* The entries that are functions.
Emulating == [open |-> {2}, fstat |-> {5}, brk |-> {12}, ignore |-> {13, 14, 16},
              arch_prctl |-> {158}, exit |-> {60, 231}]
is_forwarded(n) == is_valid(n) /\ \A f \in DOMAIN Emulating : n \notin Emulating[f]

SystemCall ==
    /\ phase = "running"
    /\ \E n \in Numbers :
          \/ is_forwarded(n) /\ Forward
          \/ n \in Emulating.open /\ Open
          \/ n \in Emulating.ignore /\ Ignore
          \/ n \in Emulating.fstat /\ Fstat
          \/ n \in Emulating.arch_prctl /\ ArchPrctl
          \/ n \in Emulating.brk /\ Brk
          \/ n \in Emulating.exit /\ Leave("exited")
          \/ ~is_valid(n) /\ Leave("faulted")

\* The guest's own mappings, and the translator's.
OtherMaps ==
    /\ phase = "running"
    /\ PB!OtherMaps
    /\ Quiet /\ UNCHANGED <<phase, memory, tls, reg, answer>>

-----------------------------------------------------------------------------

Init ==
    /\ LoaderInit
    /\ owner \in [Pages -> {"free", "other"}]
    /\ launch \in Launches
    /\ stack = <<>>
    /\ initial_break = 0 /\ break = 0 /\ lastPage = 0
    /\ tls = [fs |-> 0, gs |-> 0]
    /\ reg = [h \in HostRegisters |-> Own(CHOOSE r \in GuestRegisters : HostOf[r] = h)]
    /\ answer = Own("rax")

Loading == Load /\ UNCHANGED <<launch, stack, breakVars, tls, reg, answer>>

Next == Loading \/ Start \/ SystemCall \/ OtherMaps

Spec == Init /\ [][Next]_vars

-----------------------------------------------------------------------------
(* Properties *)

\* The image holds what the program headers say, whatever the order of the
\* segments and however they share pages with the rest of the file: the bytes
\* of the file, and zeros behind them (elf.cpp:233-258, 270).
ContentsLoaded ==
    phase = "loaded" =>
        \A k \in Loads : LET s == file.segments[k] IN
            \A i \in 0..(s.memsz - 1) :
                memory[s.vaddr + i] = IF i < s.filesz THEN s.off + i + 1 ELSE 0

\* The last page of a segment that does not start on a page boundary may lie
\* behind the range of the final mprotect (elf.cpp:264).
Missed(s) == PagesTouched(s.vaddr, s.memsz) \ FinalPages(s)

\* The flags the translator checks are those of the segment a page belongs to,
\* a page allows every access its segment promises, and it allows a store that
\* is not promised only where the final mprotect misses it: no later segment
\* opens or closes the pages of an earlier one (elf.cpp:217-285).
PagesGranted ==
    phase = "loaded" =>
        /\ \A k \in Loads : LET s == file.segments[k] IN
              \A p \in PagesTouched(s.vaddr, s.memsz) :
                 /\ flags[p] = s.flags \union {"M"}
                 /\ s.flags \intersect {"R", "W"} \subseteq protection[p]
                 /\ "W" \in protection[p] => "W" \in s.flags \/ p \in Missed(s)
        /\ \A p \in Pages : flags[p] # {} =>
              \E k \in Loads : p \in PagesTouched(file.segments[k].vaddr, file.segments[k].memsz)

\* The bytes the decoder is allowed to read lie in the image and have the
\* flags of the first of them, and no byte it may read is held back
\* (elf.cpp:342-369, codegen.cpp:45).
SizesUniform ==
    phase = "loaded" =>
        \A a \in Addresses, max_page \in 0..2 :
            LET n == get_size(a, max_page)
                last == (a + n - 1) \div PageSize
            IN /\ n > 0 <=> InImage(a)
               /\ \A b \in a..(a + n - 1) : get_page_flags(b) = get_page_flags(a)
               /\ n > 0 => /\ (a + n) % PageSize = 0
                           /\ last - a \div PageSize <= max_page
                           /\ \/ last - a \div PageSize = max_page
                              \/ get_page_flags(a + n) # get_page_flags(a)
                              \/ ~InImage(a + n)

\* The stack the guest starts with is the one the x86-64 ABI describes: from
\* rsp on the count of the arguments, the arguments, the environment and the
\* auxiliary vector, each up to its terminator, where the entries of the
\* auxiliary vector lead to the guest's headers (dispatcher.cpp:78-135).
WordsUntil0(from) ==
    SubSeq(stack, from, Min({i \in from..Len(stack) : stack[i] = 0} \union {Len(stack) + 1}) - 1)
ArgumentsFound ==
    phase = "running" =>
        LET argv == WordsUntil0(2)
            envp == WordsUntil0(Len(argv) + 3)
            auxv == SubSeq(stack, Len(argv) + Len(envp) + 4, Len(stack))
        IN /\ stack[1] = Len(argv)
           /\ argv = <<Path>> \o launch.arguments
           /\ envp = launch.environment
           /\ Len(auxv) = 2 * Len(launch.auxv) + 1 /\ auxv[Len(auxv)] = AT_NULL
           /\ \A i \in DOMAIN launch.auxv :
                 /\ auxv[2 * i - 1] = launch.auxv[i][1]
                 /\ auxv[2 * i - 1] = AT_ENTRY => auxv[2 * i] = file.entry
                 /\ auxv[2 * i - 1] = AT_PHDR /\ LowestAddress < NoBase
                       => auxv[2 * i] = file.segments[1].vaddr - file.segments[1].off + file.phoff

\* A system call changes no register of the guest's but rax, which holds the
\* answer; and the kernel finds the arguments of a forwarded call where it
\* looks for them (dispatcher.inc.s:219-260, execution_context.h:36-45).
CallsAnswered ==
    /\ \A r \in GuestRegisters \ {"rax"} : reg[HostOf[r]] = Own(r)
    /\ reg[HostOf.rax] = answer
    /\ <<reg["a0"], reg["a1"], reg["a2"], reg["a3"], reg["a4"], reg["a5"]>>
          = <<Own("rdi"), Own("rsi"), Own("rdx"), Own("r10"), Own("r8"), Own("r9")>>

\* The pages of the break are those from the image on, without hole or leak,
\* also while the loader and the guest's other calls map pages of their own
\* (dispatcher.cpp:75, syscalls.cpp:79-131).
BreakBacked == PB!BreakBacked

\* brk neither takes nor frees a page of the image or of another mapping.
ForeignPagesKept == PB!ForeignPagesKept

\* brk refuses a request the kernel would grant only if it needs no page.
RefusedOnlyInLastPage == phase = "running" => PB!RefusedOnlyInLastPage
=============================================================================
