---------------------------- MODULE ProgramBreak ----------------------------
(***************************************************************************)
(* The emulated brk system call.  The guest's break starts behind its      *)
(* image and is moved with mmap and munmap of the host process, whose      *)
(* address space holds the translator's own mappings and those the guest   *)
(* makes with the mmap system call, which is forwarded.                    *)
(***************************************************************************)
EXTENDS Integers

CONSTANTS
    PageSize,   \* bytes of a page (0x1000 in the code)
    PageCount   \* pages of the address space that can be mapped

PageAssumption == PageSize \in Nat \ {0} /\ PageCount \in Nat \ {0}

\* The kernel keeps the upper part of the address space to itself: a request
\* may name an address there, but nothing is mapped.
UserEnd == PageSize * PageCount
Width == 2 * UserEnd    \* 2^64 in the code
Addresses == 0..(Width - 1)
Pages == 0..(PageCount - 1)

VARIABLES
    initial_break,  \* the end of the guest's image, where the break starts
    break,     \* program_break
    lastPage,  \* last_break_page: the address behind the pages of the break
    owner      \* who mapped each page of the host's address space

vars == <<initial_break, break, lastPage, owner>>

Owners == {"free", "image", "break", "other"}

TypeOK == /\ initial_break \in 0..UserEnd
          /\ break \in initial_break..UserEnd
          /\ lastPage \in initial_break..UserEnd
          /\ owner \in [Pages -> Owners]

\* The break starts on the page boundary behind the image.
Init == /\ initial_break \in {PageSize * n : n \in 1..PageCount}
        /\ break = initial_break
        /\ lastPage = initial_break
        /\ owner \in [Pages -> {"free", "image", "other"}]
        /\ \A p \in Pages : owner[p] = "image" => p * PageSize < initial_break

\* (A bug: the page the break is in is freed as well.)
PageDown(x) == (x \div PageSize) * PageSize
\* (A bug: one page more if x is a whole number of them.)
PageAbove(x) == ((x + PageSize) \div PageSize) * PageSize
page_align(x) == (((x + PageSize - 1) % Width) \div PageSize) * PageSize

\* The pages that start in the size bytes from the page boundary a on.
PagesOf(a, size) == {p \in Pages : a <= p * PageSize /\ p * PageSize < a + size}

-----------------------------------------------------------------------------
(* The host's kernel *)

\* mmap grants the address it is asked for only if every page is free; it may
\* fail, or choose another address, at any time.  A mapping of no bytes fails.
CanMap(a, size) == /\ size > 0
                   /\ a + size <= UserEnd
                   /\ \A p \in PagesOf(a, size) : owner[p] = "free"

Unmapped(a, size) ==
    [p \in Pages |-> IF p \in PagesOf(a, size) THEN "free" ELSE owner[p]]

\* The translator or the guest maps or unmaps a page of its own.
OtherMaps == /\ \E p \in Pages :
                    /\ owner[p] \in {"free", "other"}
                    /\ owner' = [owner EXCEPT ![p] =
                                    IF owner[p] = "free" THEN "other" ELSE "free"]
             /\ UNCHANGED <<initial_break, break, lastPage>>

-----------------------------------------------------------------------------
(* syscalls::brk, by what it does with the address *)

\* An address below the first break, 0 above all, asks for the current one.
IsZero(address) == address = 0
IsQuery(address) == address < initial_break

\* Everything between the break's new last page and the old one is unmapped.
FreedFrom(address) == page_align(address)

ShrinkFrees(address) == FreedFrom(address) < lastPage

Shrink(address) ==
    /\ ~IsQuery(address) /\ address <= break
    /\ IF ShrinkFrees(address)
       THEN /\ owner' = Unmapped(FreedFrom(address), lastPage - FreedFrom(address))
            /\ lastPage' = FreedFrom(address)
       ELSE UNCHANGED <<owner, lastPage>>
    /\ break' = address
    /\ UNCHANGED initial_break

\* The address may lie below last_break_page: the difference wraps around and
\* its alignment wraps back, to 0.
AllocSizeAbove(address) == PageAbove((address - lastPage) % Width)
AllocSize(address) == page_align((address - lastPage) % Width)

\* mmap is asked for the pages behind the last one of the break.
\* (A bug: with MAP_FIXED, which replaces what is mapped there.)
MapsFixed(address) == AllocSize(address) > 0 /\ lastPage + AllocSize(address) <= UserEnd
WillMap(address) == CanMap(lastPage, AllocSize(address))

Grow(address) ==
    /\ break < address
    /\ WillMap(address)
    /\ owner' = [p \in Pages |-> IF p \in PagesOf(lastPage, AllocSize(address))
                                 THEN "break" ELSE owner[p]]
    /\ lastPage' = lastPage + AllocSize(address)
    /\ break' = address
    /\ UNCHANGED initial_break

\* A query, and a request mmap has failed or answered with another address,
\* which is unmapped again.
Unchanged(address) ==
    /\ IsQuery(address) \/ break < address
    /\ UNCHANGED vars

Brk == \E address \in Addresses : Shrink(address) \/ Grow(address) \/ Unchanged(address)

Next == Brk \/ OtherMaps

Spec == Init /\ [][Next]_vars

-----------------------------------------------------------------------------
(* Properties *)

\* The pages the break has mapped are those from the image to the page the
\* break is in, all of them and no others: no call leaks a page, leaves a hole
\* in the heap or takes a foreign page for its own (syscalls.cpp:93-130).
BreakBacked ==
    \A p \in Pages : owner[p] = "break" <=> initial_break <= p * PageSize
                                            /\ p * PageSize < break

\* The break never runs ahead of its mapped pages, and never falls a page
\* behind: last_break_page is the break, rounded up, after any sequence of
\* calls, failed ones included (syscalls.cpp:95-98, 106, 128).
LastPageFollows == lastPage = page_align(break)

\* A call takes and gives back pages of the break only: what the translator
\* or the guest has mapped elsewhere survives every brk.
ForeignPagesKept ==
    [][Brk => \A p \in Pages : owner[p] \in {"image", "other"} => owner'[p] = owner[p]]_vars

\* A request above the break is refused although the pages it needs are there
\* or free in one case only: the break stays in the page that was its last,
\* so that the length to map wraps around to 0 (syscalls.cpp:105-119).
RequestRefused(address) ==
    /\ break < address /\ address <= UserEnd
    /\ \A p \in PagesOf(lastPage, address - lastPage) : owner[p] = "free"
    /\ ~WillMap(address)
RefusedOnlyInLastPage ==
    \A address \in Addresses : RequestRefused(address) => address <= lastPage
=============================================================================
