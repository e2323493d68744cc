----------------------------- MODULE ElfLoader -----------------------------
(***************************************************************************)
(* Loading of a statically linked executable: the file is read and its     *)
(* header checked, a page range is mapped for the image, the segments are   *)
(* copied into it in the order of their headers, the .bss section is        *)
(* cleared, and each page gets its flags and its protection.               *)
(***************************************************************************)
EXTENDS Integers, Sequences, FiniteSetsExt

CONSTANTS
    PageSize,    \* bytes of a page (0x1000 in the code)
    PageCount,   \* pages of the address space that can be mapped
    NoBase,      \* the base address before any segment was seen (~0x00u)
    Files        \* the executables to be loaded

ASSUME LoaderAssumption == PageSize \in Nat \ {0} /\ PageCount \in Nat \ {0} /\ NoBase \in Nat

Pages == 0..(PageCount - 1)
Addresses == 0..(PageSize * PageCount - 1)
Permissions == {"R", "W", "X"}

VARIABLES
    file,       \* [problem, bytes, interpreter, phoff, segments, bss]
    phase,      \* where the constructor of Elf is, or how it has ended
    segment,    \* the number of the program header that is loaded next
    base, size, \* _image
    memory,     \* address -> 0, or the offset in the file it was copied from, plus 1
    protection, \* page -> what mprotect allows
    flags,      \* _page_flags: page -> permissions, with "M" for mapped
    owner       \* who mapped each page of the host's address space

loaderVars == <<file, phase, segment, base, size, memory, protection, flags>>

PageDown(x) == (x \div PageSize) * PageSize
RoundUp(x) == IF x % PageSize # 0 THEN PageDown(x + PageSize) ELSE x

\* The pages the loops of unpack_file give flags to, and those a system call
\* with this range affects.
PagesTouched(a, n) == {p \in Pages : p >= a \div PageSize /\ p * PageSize < a + n}
KernelPages(a, n) == IF n = 0 THEN {} ELSE PagesTouched(a, n)

Loads == 1..Len(file.segments)
End(s) == s.vaddr + s.memsz

\* Addresses and sizes are unsigned, and their sums do not overflow.
Unsigned(s) == s.vaddr \in Nat /\ End(s) \in 0..(2 * PageSize * PageCount)
ASSUME FilesAssumption ==
    \A f \in Files : /\ Len(f.segments) \in Nat
                     /\ \A k \in 1..Len(f.segments) : Unsigned(f.segments[k])
                     /\ f.bss # <<>> => Unsigned(f.bss)

BssSet == IF file.bss = <<>> THEN {} ELSE {file.bss}

LoaderInit ==
    /\ file \in Files
    /\ phase = "open" /\ segment = 1
    /\ base = 0 /\ size = 0
    /\ memory = [a \in Addresses |-> 0]
    /\ protection = [p \in Pages |-> {}]
    /\ flags = [p \in Pages |-> {}]

-----------------------------------------------------------------------------
(* Elf::Elf *)

\* read_file and validate_elf: any problem of the file or its header throws.
Validate ==
    /\ phase = "open"
    /\ phase' = IF file.problem = "none" THEN "valid" ELSE "failed"
    /\ UNCHANGED <<file, segment, base, size, memory, protection, flags, owner>>

LowestAddress == Min({NoBase} \union {file.segments[k].vaddr : k \in Loads}
                              \union {b.vaddr : b \in BssSet})
HighestEnd == Max({0} \union {End(file.segments[k]) : k \in Loads}
                      \union {End(b) : b \in BssSet})

NotStatic ==
    /\ phase = "valid" /\ file.interpreter
    /\ phase' = "failed"
    /\ UNCHANGED <<file, segment, base, size, memory, protection, flags, owner>>

ImageBase == PageDown(LowestAddress)
ImageSize == RoundUp(HighestEnd) - ImageBase
ImagePages == {p \in Pages : p * PageSize \in ImageBase..(ImageBase + ImageSize - 1)}

\* The kernel grants the address if all of its pages are there and free.
Granted ==
    /\ ImageSize > 0 /\ ImageBase + ImageSize <= PageSize * PageCount
    /\ \A p \in ImagePages : owner[p] = "free"

MapImage ==
    /\ phase = "valid" /\ ~file.interpreter
    /\ Granted
    /\ base' = ImageBase /\ size' = ImageSize
    /\ owner' = [p \in Pages |-> IF p \in ImagePages THEN "image" ELSE owner[p]]
    /\ protection' = [p \in Pages |-> IF p \in ImagePages THEN {"W"} ELSE protection[p]]
    /\ phase' = "segments"
    /\ UNCHANGED <<file, segment, memory, flags>>

BaseAddressTaken ==
    /\ phase = "valid" /\ ~file.interpreter
    /\ ~Granted
    /\ phase' = "failed"
    /\ UNCHANGED <<file, segment, base, size, memory, protection, flags, owner>>

\* A segment is copied from the page boundary below it, up to the next page
\* boundary or the end of the file.
CopyStart(s) == PageDown(s.vaddr)
CopySource(s) == s.off - (s.vaddr % PageSize)
\* a bug: the bytes in front of the segment do not count
CopySizeUnaligned(s) == Min({RoundUp(s.filesz), file.bytes - CopySource(s)})
CopySize(s) == Min({RoundUp(s.filesz + (s.vaddr % PageSize)), file.bytes - CopySource(s)})

\* The first mprotect gets the address of the buffer as its length, more than
\* any image has: all pages from the segment on become readable and writable.
\* a bug: the mprotect starts at the image
AllWritable(s) == {p \in Pages : owner[p] = "image"}
MadeWritable(s) == {p \in Pages : owner[p] = "image" /\ p * PageSize >= CopyStart(s)}

FinalPages(s) == KernelPages(CopyStart(s), s.memsz)

LoadSegment ==
    /\ phase = "segments" /\ segment \in Loads
    /\ LET s == file.segments[segment] IN
       /\ memory' = [a \in Addresses |->
                        IF a \in CopyStart(s)..(CopyStart(s) + CopySize(s) - 1)
                        THEN CopySource(s) + (a - CopyStart(s)) + 1
                        ELSE memory[a]]
       /\ flags' = [p \in Pages |-> IF p \in PagesTouched(s.vaddr, s.memsz)
                                    THEN {"M"} \union s.flags ELSE flags[p]]
       /\ protection' = [p \in Pages |->
                            CASE p \in FinalPages(s) -> s.flags
                              [] p \in MadeWritable(s) \ FinalPages(s) -> {"R", "W"}
                              [] OTHER -> protection[p]]
    /\ segment' = segment + 1
    /\ UNCHANGED <<file, phase, base, size, owner>>

Cleared(b) == b.vaddr..(End(b) - 1)

ClearBss ==
    /\ phase = "segments" /\ segment \notin Loads /\ file.bss # <<>>
    /\ LET b == file.bss IN
       IF \A a \in Cleared(b) : "W" \in protection[a \div PageSize]
       THEN /\ memory' = [a \in Addresses |-> IF a \in Cleared(b) THEN 0 ELSE memory[a]]
            /\ flags' = [p \in Pages |-> IF p \in PagesTouched(b.vaddr, b.memsz)
                                         THEN {"M", "R", "W"} ELSE flags[p]]
            /\ protection' = [p \in Pages |->
                                IF p \in KernelPages(PageDown(b.vaddr), b.memsz)
                                THEN {"R", "W"} ELSE protection[p]]
            /\ phase' = "loaded"
       ELSE phase' = "crashed" /\ UNCHANGED <<memory, flags, protection>>
    /\ UNCHANGED <<file, segment, base, size, owner>>

NoBss ==
    /\ phase = "segments" /\ segment \notin Loads /\ file.bss = <<>>
    /\ phase' = "loaded"
    /\ UNCHANGED <<file, segment, base, size, memory, protection, flags, owner>>

Load == \/ Validate \/ NotStatic \/ MapImage \/ BaseAddressTaken
        \/ LoadSegment \/ ClearBss \/ NoBss

-----------------------------------------------------------------------------
(* The queries of the translator *)

InImage(vaddr) == vaddr \in base..(base + size - 1)

get_page_flags(vaddr) == IF InImage(vaddr) THEN flags[vaddr \div PageSize] ELSE {}

\* The bytes from vaddr on in pages of the same flags, its own and at most
\* max_page more.
\* a bug: the page of vaddr does not count
LastCheckedOneMore(vaddr, max_page) ==
    Min({vaddr \div PageSize + max_page + 1, (base + size) \div PageSize - 1})
LastChecked(vaddr, max_page) ==
    Min({vaddr \div PageSize + max_page, (base + size) \div PageSize - 1})
get_size(vaddr, max_page) ==
    IF ~InImage(vaddr) THEN 0
    ELSE LET first == vaddr \div PageSize
             differs == {p \in (first + 1)..LastChecked(vaddr, max_page) :
                            flags[p] # flags[first]}
             end == IF differs = {} THEN LastChecked(vaddr, max_page) + 1 ELSE Min(differs)
         IN PageSize * end - vaddr

-----------------------------------------------------------------------------
(* What linkers produce *)

\* A .bss section is the end of a segment for data, behind its bytes of the file.
EndsIn(b, s) ==
    /\ b.vaddr = s.vaddr + s.filesz /\ b.memsz = s.memsz - s.filesz
    /\ s.flags = {"R", "W"}

\* The segments are in ascending order and share no page of memory, though they
\* may share one of the file; the file holds what it is to hold of them, and what
\* it does not is .bss.
Linked(f) ==
    /\ \A k \in 1..Len(f.segments) : LET s == f.segments[k] IN
          /\ s.memsz \in Nat /\ s.filesz \in 0..s.memsz
          /\ s.off \in Nat /\ f.bytes \in Nat /\ s.off + s.filesz <= f.bytes
          /\ \A m \in 1..(k - 1) : End(f.segments[m]) <= PageDown(s.vaddr)
          /\ s.filesz # s.memsz => f.bss # <<>> /\ EndsIn(f.bss, s)
    /\ f.bss # <<>> => \E k \in 1..Len(f.segments) : EndsIn(f.bss, f.segments[k])
=============================================================================
