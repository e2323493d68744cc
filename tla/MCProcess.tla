----------------------------- MODULE MCProcess -----------------------------
(***************************************************************************)
(* Executables of up to three segments on six pages of four bytes.  Their  *)
(* layouts are those linkers produce: segments in ascending order, no two  *)
(* in one page of memory though they may share one of the file, and every   *)
(* byte behind a segment's part of the file belongs to .bss.               *)
(***************************************************************************)
EXTENDS Process

RX == {"R", "X"}
RW == {"R", "W"}
Seg(off, vaddr, filesz, memsz, permissions) ==
    [off |-> off, vaddr |-> vaddr, filesz |-> filesz, memsz |-> memsz, flags |-> permissions]
Executable(bytes, segments, bss) ==
    [problem |-> "none", bytes |-> bytes, interpreter |-> FALSE, phoff |-> 2,
     entry |-> segments[1].vaddr + 1, segments |-> segments, bss |-> bss]
Bss(vaddr, memsz) == [vaddr |-> vaddr, memsz |-> memsz]

\* One page of code; data that starts inside the file's page with the last
\* code; a .bss section of several pages; read-only data behind the code,
\* which starts in the middle of a page and ends in the next; a segment that
\* is only .bss; code above 2^32.
CodeOnly == Executable(4, <<Seg(0, 4, 4, 4, RX)>>, <<>>)
CodeData == Executable(9, <<Seg(0, 4, 6, 6, RX), Seg(6, 14, 3, 4, RW)>>, Bss(17, 1))
LongBss == Executable(6, <<Seg(0, 4, 4, 4, RX), Seg(4, 8, 2, 7, RW)>>, Bss(10, 5))
Constants == Executable(11, <<Seg(0, 4, 4, 4, RX), Seg(6, 10, 3, 3, {"R"}), Seg(9, 17, 2, 2, RW)>>, <<>>)
OnlyBss == Executable(4, <<Seg(0, 4, 4, 4, RX), Seg(4, 12, 0, 3, RW)>>, Bss(12, 3))
High == Executable(6, <<Seg(0, 16, 4, 4, RX), Seg(4, 20, 2, 4, RW)>>, Bss(22, 2))
Malformed == [CodeOnly EXCEPT !.problem = "header"]
Dynamic == [CodeOnly EXCEPT !.interpreter = TRUE]

MCFiles == {CodeOnly, CodeData, LongBss, Constants, OnlyBss, High, Malformed, Dynamic}
ASSUME LinkedFiles == \A f \in MCFiles : Linked(f)

Launched(arguments, environment, auxv) ==
    [arguments |-> arguments, environment |-> environment, auxv |-> auxv]
\* A pair that is left as it is, and those that are adapted.  The last of the
\* launches fills its page of the stack to the last word that is counted.
MCLaunches == {
    Launched(<<>>, <<>>, << <<AT_PHDR, 77>>, <<AT_ENTRY, 78>> >>),
    Launched(<<101>>, <<201, 202>>, << <<6, 4096>>, <<AT_PHDR, 77>> >>),
    Launched(<<101, 102>>, <<201>>, << <<AT_ENTRY, 78>> >>),
    Launched(<<101, 102>>, <<201, 202>>, << <<6, 4096>>, <<AT_PHDR, 77>> >>) }

MCResults == {-1, 3}
MCBuffers == {9, 17}

\* The ends of the map, one behind it, a call it has no entry for in either
\* half, and each that is emulated.
MCNumbers == {0, 321, 322, 15, 320} \union {2, 5, 12, 13, 14, 16, 60, 158, 231}
=============================================================================
