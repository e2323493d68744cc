---------------------------- MODULE ProcessProofs ----------------------------
(***************************************************************************)
(* What holds of a process from the loading of its file to its end, for    *)
(* every file, every launch and every answer of the host's kernel.         *)
(***************************************************************************)
EXTENDS Process, Induction

BP == INSTANCE ProgramBreakProofs

-----------------------------------------------------------------------------
(* The break's own steps *)

\* ProgramBreak and its proofs are two instances of the same definitions.
LEMMA SameBreak ==
    /\ PB!Brk <=> BP!Brk
    /\ PB!OtherMaps <=> BP!OtherMaps
    /\ PB!BreakBacked <=> BP!BreakBacked
    /\ PB!Pages = BP!Pages
    /\ PB!Addresses = BP!Addresses
  BY DEF PB!Brk, BP!Brk, PB!Shrink, BP!Shrink, PB!Grow, BP!Grow, PB!Unchanged, BP!Unchanged,
         PB!OtherMaps, BP!OtherMaps, PB!BreakBacked, BP!BreakBacked, PB!Pages, BP!Pages,
         PB!Addresses, BP!Addresses, PB!IsQuery, BP!IsQuery, PB!ShrinkFrees, BP!ShrinkFrees,
         PB!FreedFrom, BP!FreedFrom, PB!Unmapped, BP!Unmapped, PB!PagesOf, BP!PagesOf,
         PB!page_align, BP!page_align, PB!WillMap, BP!WillMap, PB!CanMap, BP!CanMap,
         PB!AllocSize, BP!AllocSize, PB!Width, BP!Width, PB!UserEnd, BP!UserEnd,
         PB!vars, BP!vars

LEMMA Sizes == BP!PageAssumption
  BY LoaderAssumption DEF BP!PageAssumption

LEMMA BreakStep ==
    ASSUME BP!IInv, BP!Brk
    PROVE  /\ BP!IInv'
           /\ \A p \in BP!Pages : owner[p] \in {"image", "other"} => owner'[p] = owner[p]
<1>1. ASSUME NEW address \in BP!Addresses, BP!Shrink(address)
      PROVE  /\ BP!IInv'
             /\ \A p \in BP!Pages : owner[p] \in {"image", "other"} => owner'[p] = owner[p]
  BY <1>1, Sizes, BP!ShrinkStep
<1>2. ASSUME NEW address \in BP!Addresses, BP!Grow(address)
      PROVE  /\ BP!IInv'
             /\ \A p \in BP!Pages : owner[p] \in {"image", "other"} => owner'[p] = owner[p]
  BY <1>2, Sizes, BP!GrowStep
<1>3. ASSUME NEW address \in BP!Addresses, BP!Unchanged(address)
      PROVE  /\ BP!IInv'
             /\ \A p \in BP!Pages : owner[p] \in {"image", "other"} => owner'[p] = owner[p]
  BY <1>3, BP!UnchangedStep DEF BP!Unchanged, BP!vars
<1> QED
  BY <1>1, <1>2, <1>3 DEF BP!Brk

-----------------------------------------------------------------------------
(* The end of the image *)

LEMMA HighestIsNat ==
    ASSUME file \in Files
    PROVE  HighestEnd \in Nat
<1> DEFINE ends == {0} \union {End(file.segments[k]) : k \in Loads} \union {End(b) : b \in BssSet}
           top == 2 * PageSize * PageCount
<1>1. top \in Nat
  BY LoaderAssumption
<1>2. \A k \in Loads : End(file.segments[k]) \in 0..top
  BY FilesAssumption DEF Loads, Unsigned
<1>3. \A b \in BssSet : End(b) \in 0..top
  BY FilesAssumption DEF BssSet, Unsigned
<1>4. 0 \in ends /\ ends \in SUBSET (0..top)
  BY <1>1, <1>2, <1>3
<1> HIDE DEF top
<1>5. Max(ends) \in ends
  BY <1>1, <1>4, GreatestOf
<1> QED
  BY <1>1, <1>4, <1>5 DEF HighestEnd

LEMMA LowestIsNat ==
    ASSUME file \in Files
    PROVE  LowestAddress \in Nat
<1> DEFINE starts == {NoBase} \union {file.segments[k].vaddr : k \in Loads} \union {b.vaddr : b \in BssSet}
<1>1. \A k \in Loads : file.segments[k].vaddr \in Nat
  BY FilesAssumption DEF Loads, Unsigned
<1>2. \A b \in BssSet : b.vaddr \in Nat
  BY FilesAssumption DEF BssSet, Unsigned
<1>3. NoBase \in starts /\ starts \in SUBSET Nat
  BY <1>1, <1>2, LoaderAssumption
<1>4. Min(starts) \in starts
  BY <1>3, LeastOf
<1> QED
  BY <1>3, <1>4 DEF LowestAddress

\* The image ends on a page boundary.
LEMMA ImageEnd ==
    ASSUME file \in Files
    PROVE  /\ ImageBase \in Int /\ ImageSize \in Int
           /\ ImageBase + ImageSize \in Nat
           /\ BP!Aligned(ImageBase + ImageSize)
<1> DEFINE end == HighestEnd
<1>1. end \in Nat /\ LowestAddress \in Nat
  BY HighestIsNat, LowestIsNat
<1> HIDE DEF end
<1>2. PageSize \in Nat /\ PageSize >= 1
  BY LoaderAssumption
<1>3. ASSUME NEW x \in Nat
      PROVE  /\ x \div PageSize \in Nat
             /\ x % PageSize = 0 => \E n \in Nat : x = n * PageSize
  BY <1>2, SMTT(30)
<1>4. ImageBase \in Int
  <2>1. (LowestAddress \div PageSize) \in Nat
    BY <1>1, <1>3
  <2> QED
    BY <1>2, <2>1, SMTT(30) DEF ImageBase, PageDown
<1>5. \E n \in Nat : RoundUp(end) = n * PageSize
  <2>1. CASE end % PageSize = 0
    BY <1>1, <1>3, <2>1 DEF RoundUp
  <2>2. CASE end % PageSize # 0
    <3>1. end + PageSize \in Nat
      BY <1>1, <1>2
    <3> QED
      BY <1>3, <2>2, <3>1 DEF RoundUp, PageDown
  <2> QED
    BY <2>1, <2>2
<1>6. RoundUp(end) \in Nat
  BY <1>2, <1>5, SMTT(30)
<1>7. ImageSize \in Int /\ ImageBase + ImageSize = RoundUp(end)
  BY <1>4, <1>6 DEF ImageSize, end
<1> QED
  BY <1>4, <1>5, <1>6, <1>7 DEF BP!Aligned

-----------------------------------------------------------------------------
(* The inductive invariant *)

\* From the start the break follows its last page and its pages; the image, as
\* soon as it is mapped, ends on a page boundary of the user's, where the break
\* will start.
Before == {"open", "valid", "segments", "loaded"}
Mapped == {"segments", "loaded"}
ProcessInv ==
    /\ file \in Files
    /\ BP!IInv
    /\ phase \in Before => initial_break = 0 /\ break = 0 /\ lastPage = 0
    /\ phase \in Mapped => base + size \in 0..BP!UserEnd /\ BP!Aligned(base + size)

LEMMA PageBoundary ==
    ASSUME NEW x \in 0..BP!UserEnd, BP!Aligned(x)
    PROVE  BP!page_align(x) = x
<1>1. PICK m \in 0..PageCount : /\ BP!page_align(x) = m * PageSize
                                 /\ x <= m * PageSize
                                 /\ m * PageSize < x + PageSize
  BY Sizes, BP!AlignUp
<1>2. PICK n \in Nat : x = n * PageSize
  BY DEF BP!Aligned
<1>3. m \in Nat /\ x \in Nat /\ PageSize \in Nat /\ PageSize >= 1
  BY LoaderAssumption
<1>4. m = n
  BY <1>1, <1>2, <1>3, Sizes, BP!UniqueBoundary
<1> QED
  BY <1>1, <1>2, <1>4

\* A break that starts on a page boundary, before any page of its own.
LEMMA FreshBreak ==
    ASSUME BP!UserEnd \in Nat, NEW x \in 0..BP!UserEnd, BP!Aligned(x),
           initial_break' = x, break' = x, lastPage' = x,
           owner' \in [Pages -> {"free", "image", "other"}]
    PROVE  BP!IInv'
<1>1. BP!page_align(x) = x
  BY PageBoundary
<1>2. BP!LastPageFollows'
  BY <1>1 DEF BP!LastPageFollows, BP!page_align, BP!Width, BP!UserEnd
<1>3. BP!TypeOK'
  BY DEF BP!TypeOK, BP!Owners, BP!Pages, Pages, BP!UserEnd
<1>4. BP!BreakBacked'
  <2> SUFFICES ASSUME NEW p \in Pages
               PROVE  owner'[p] = "break" <=> x <= p * PageSize /\ p * PageSize < x
    BY DEF BP!BreakBacked, BP!Pages, Pages
  <2>1. p \in Nat /\ PageSize \in Nat
    BY LoaderAssumption DEF Pages
  <2>2. p * PageSize \in Nat
    BY <2>1, SMTT(30)
  <2> QED
    BY <2>2
<1> QED
  BY <1>2, <1>3, <1>4 DEF BP!IInv, BP!Aligned

LEMMA UserEndIsNat ==
    /\ BP!UserEnd \in Nat /\ BP!UserEnd = PageSize * PageCount
    /\ 0 \in 0..BP!UserEnd /\ BP!Aligned(0)
<1>1. 0 = 0 * PageSize
  BY LoaderAssumption
<1> QED
  BY <1>1, Sizes, BP!Spaces DEF BP!UserEnd, BP!Aligned

LEMMA InitProcess == Init => ProcessInv
<1> SUFFICES ASSUME Init PROVE ProcessInv
  OBVIOUS
<1>1. /\ file \in Files /\ phase = "open"
      /\ initial_break = 0 /\ break = 0 /\ lastPage = 0
      /\ owner \in [Pages -> {"free", "other"}]
  BY DEF Init, LoaderInit
<1>2. BP!LastPageFollows
  BY <1>1, UserEndIsNat, PageBoundary DEF BP!LastPageFollows
<1>3. BP!TypeOK
  BY <1>1, UserEndIsNat DEF BP!TypeOK, BP!Owners, BP!Pages, Pages
<1>4. BP!BreakBacked
  <2> SUFFICES ASSUME NEW p \in Pages
               PROVE  owner[p] = "break" <=> 0 <= p * PageSize /\ p * PageSize < 0
    BY <1>1 DEF BP!BreakBacked, BP!Pages, Pages
  <2>1. p \in Nat /\ PageSize \in Nat
    BY LoaderAssumption DEF Pages
  <2>2. p * PageSize \in Nat
    BY <2>1, SMTT(30)
  <2> QED
    BY <1>1, <2>2
<1> QED
  BY <1>1, <1>2, <1>3, <1>4, UserEndIsNat DEF ProcessInv, BP!IInv, Mapped

-----------------------------------------------------------------------------
(* The steps *)

\* Most steps leave the break and the mappings alone.
LEMMA Elsewhere ==
    ASSUME ProcessInv, UNCHANGED <<file, base, size, initial_break, break, lastPage, owner>>,
           phase' \in Mapped => phase \in Mapped, phase' \in Before => phase \in Before
    PROVE  ProcessInv'
<1>1. BP!IInv'
  BY BP!UnchangedStep DEF ProcessInv, BP!vars
<1> QED
  BY <1>1 DEF ProcessInv, BP!Aligned, BP!UserEnd

\* The image takes free pages, none of the break's.
LEMMA MapImageStep ==
    ASSUME ProcessInv, MapImage, UNCHANGED breakVars
    PROVE  ProcessInv'
<1>1. /\ base' = ImageBase /\ size' = ImageSize /\ phase' = "segments" /\ phase = "valid" /\ file' = file
      /\ owner' = [p \in Pages |-> IF p \in ImagePages THEN "image" ELSE owner[p]]
      /\ ImageBase + ImageSize <= PageSize * PageCount
      /\ \A p \in ImagePages : owner[p] = "free"
  BY DEF MapImage, Granted
<1>2. ImagePages \subseteq Pages
  BY DEF ImagePages
<1>3. \A p \in Pages : owner'[p] = "break" <=> owner[p] = "break"
  BY <1>1, <1>2
<1>4. UNCHANGED <<initial_break, break, lastPage>>
  BY DEF breakVars
<1>5. owner \in [Pages -> BP!Owners]
  BY DEF ProcessInv, BP!IInv, BP!TypeOK, BP!Pages, Pages
<1>6. owner' \in [Pages -> BP!Owners]
  BY <1>1, <1>5 DEF BP!Owners
<1>7. BP!IInv'
  BY <1>3, <1>4, <1>6 DEF ProcessInv, BP!IInv, BP!TypeOK, BP!LastPageFollows, BP!BreakBacked, BP!Aligned,
         BP!page_align, BP!Width, BP!UserEnd, BP!Owners, BP!Pages, Pages
<1>8. base' + size' \in 0..BP!UserEnd /\ BP!Aligned(base' + size')
  BY <1>1, ImageEnd, UserEndIsNat DEF ProcessInv
<1> QED
  BY <1>1, <1>4, <1>7, <1>8 DEF ProcessInv, Before, BP!UserEnd, BP!Aligned

LEMMA LoadingStep ==
    ASSUME ProcessInv, Loading
    PROVE  ProcessInv'
<1>1. UNCHANGED breakVars /\ UNCHANGED <<initial_break, break, lastPage>>
  BY DEF Loading, breakVars
<1>2. CASE MapImage
  BY <1>1, <1>2, MapImageStep
<1>3. CASE Validate \/ NotStatic \/ BaseAddressTaken
  BY <1>1, <1>3, Elsewhere DEF Validate, NotStatic, BaseAddressTaken, Mapped, Before
<1>4. CASE LoadSegment \/ ClearBss \/ NoBss
  BY <1>1, <1>4, Elsewhere DEF LoadSegment, ClearBss, NoBss, Mapped, Before
<1> QED
  BY <1>2, <1>3, <1>4 DEF Loading, Load

\* Behind the image no page is the break's yet.
LEMMA StartStep ==
    ASSUME ProcessInv, Start
    PROVE  ProcessInv'
<1>1. /\ phase = "loaded" /\ owner' = owner /\ file' = file /\ base' = base /\ size' = size
      /\ initial_break' = FirstBreak /\ break' = FirstBreak /\ lastPage' = FirstBreak
      /\ phase' \in {"running", "crashed"}
  BY DEF Start
<1>2. FirstBreak \in 0..BP!UserEnd /\ BP!Aligned(FirstBreak)
  BY <1>1 DEF ProcessInv, FirstBreak, Mapped
<1>3. initial_break = 0 /\ break = 0
  BY <1>1 DEF ProcessInv, Before
<1>4. \A p \in Pages : owner[p] # "break"
  <2> SUFFICES ASSUME NEW p \in Pages, owner[p] = "break" PROVE FALSE
    OBVIOUS
  <2>1. p \in Nat /\ PageSize \in Nat
    BY LoaderAssumption DEF Pages
  <2>2. p * PageSize \in Nat
    BY <2>1, SMTT(30)
  <2>3. p * PageSize < 0
    BY <1>3 DEF ProcessInv, BP!IInv, BP!BreakBacked, BP!Pages, Pages
  <2> QED
    BY <2>2, <2>3
<1>5. owner \in [Pages -> {"free", "image", "other"}]
  BY <1>4 DEF ProcessInv, BP!IInv, BP!TypeOK, BP!Owners, BP!Pages, Pages
<1>6. BP!IInv'
  BY <1>1, <1>2, <1>5, UserEndIsNat, FreshBreak
<1> QED
  BY <1>1, <1>6 DEF ProcessInv, Mapped, Before

LEMMA SystemCallStep ==
    ASSUME ProcessInv, SystemCall
    PROVE  ProcessInv'
<1>1. phase = "running" /\ UNCHANGED <<file, base, size>>
  BY DEF SystemCall, Forward, Open, Ignore, Fstat, ArchPrctl, Brk, Leave, Quiet
<1>2. phase' \in {"running", "crashed", "exited", "faulted"}
  BY <1>1 DEF SystemCall, Forward, Open, Ignore, Fstat, ArchPrctl, Brk, Leave, StoreOrCrash
<1>3. CASE Brk
  <2>1. BP!IInv'
    BY <1>3, SameBreak, BreakStep DEF Brk, ProcessInv
  <2> QED
    BY <1>1, <1>2, <2>1 DEF ProcessInv, Mapped, Before
<1>4. CASE ~Brk
  <2>1. UNCHANGED <<initial_break, break, lastPage, owner>>
    BY <1>4 DEF SystemCall, Forward, Open, Ignore, Fstat, ArchPrctl, Leave, KeepsBreak, breakVars
  <2> QED
    BY <1>1, <1>2, <2>1, Elsewhere DEF Mapped, Before
<1> QED
  BY <1>3, <1>4

LEMMA OtherMapsStep ==
    ASSUME ProcessInv, OtherMaps
    PROVE  ProcessInv'
<1>1. phase = "running" /\ UNCHANGED <<file, base, size, phase>>
  BY DEF OtherMaps, Quiet
<1>2. BP!IInv'
  BY Sizes, SameBreak, BP!OtherMapsStep DEF OtherMaps, ProcessInv
<1> QED
  BY <1>1, <1>2 DEF ProcessInv, Mapped, Before

LEMMA ProcessStep == ProcessInv /\ [Next]_vars => ProcessInv'
<1> SUFFICES ASSUME ProcessInv, [Next]_vars PROVE ProcessInv'
  OBVIOUS
<1>1. CASE UNCHANGED vars
  BY <1>1, Elsewhere DEF vars, loaderVars, breakVars
<1> QED
  BY <1>1, LoadingStep, StartStep, SystemCallStep, OtherMapsStep DEF Next

-----------------------------------------------------------------------------
(* The registers *)

\* rax has a host register of its own, and every register of the guest is
\* captured and restored.
LEMMA RegisterFacts ==
    /\ \A r \in GuestRegisters : HostOf[r] \in HostRegisters
    /\ "rax" \in GuestRegisters /\ HostOf.rax = "a7"
    /\ \A r \in GuestRegisters \ {"rax"} : HostOf[r] # "a7"
    /\ Captured = HostRegisters
    /\ {"a0", "a7"} \subseteq HostRegisters
<1>1. \A r \in GuestRegisters : HostOf[r] \in HostRegisters
  BY DEF GuestRegisters, HostRegisters, Range
<1>2. "rax" \in GuestRegisters /\ HostOf.rax = "a7"
  BY DEF GuestRegisters, HostOf
<1>3. \A r \in GuestRegisters \ {"rax"} : HostOf[r] # "a7"
  BY DEF GuestRegisters, HostOf
<1>4. /\ HostOf["r12"] = "s4" /\ HostOf["rbx"] = "s2" /\ HostOf["rdi"] = "a0"
      /\ {"r12", "rbx", "rdi"} \subseteq GuestRegisters
  BY DEF GuestRegisters, HostOf
<1>5. {"s2", "s4", "a0"} \subseteq HostRegisters
  BY <1>1, <1>4
<1> QED
  BY <1>1, <1>2, <1>3, <1>5 DEF Captured, CapturedTlb

\* What CallsAnswered says of single registers: the arguments of a system call
\* are in the registers the kernel of the host reads.
Answered == /\ \A r \in GuestRegisters \ {"rax"} : reg[HostOf[r]] = Own(r)
            /\ reg[HostOf.rax] = answer
RegisterInv == reg = [h \in HostRegisters |-> reg[h]] /\ Answered

LEMMA ArgumentRegisters == Answered => CallsAnswered
<1>1. /\ HostOf["rdi"] = "a0" /\ HostOf["rsi"] = "a1" /\ HostOf["rdx"] = "a2"
      /\ HostOf["r10"] = "a3" /\ HostOf["r8"] = "a4" /\ HostOf["r9"] = "a5"
      /\ {"rdi", "rsi", "rdx", "r10", "r8", "r9"} \subseteq GuestRegisters \ {"rax"}
  BY DEF GuestRegisters, HostOf
<1> QED
  BY <1>1 DEF Answered, CallsAnswered

\* Forwarded and emulated calls come to the same: rax changes alone.
LEMMA Answering ==
    ASSUME reg = [h \in HostRegisters |-> reg[h]], NEW n
    PROVE  LET registers == [h \in HostRegisters |-> IF h = "a7" THEN Result(n) ELSE reg[h]]
           IN  Emulated(n) = registers /\ Forwarded(n) = registers
<1> DEFINE registers == [h \in HostRegisters |-> IF h = "a7" THEN Result(n) ELSE reg[h]]
<1>1. Capture = reg
  BY RegisterFacts DEF Capture
<1>2. Emulated(n) = registers
  BY <1>1, RegisterFacts DEF Emulated, Restore, Restored
<1>3. Forwarded(n) = registers
  <2> DEFINE called == [reg EXCEPT !["a0"] = Result(n)]
  <2>1. called = [h \in HostRegisters |-> IF h = "a0" THEN Result(n) ELSE reg[h]]
    OBVIOUS
  <2>2. called["a0"] = Result(n)
    BY <2>1, RegisterFacts
  <2>3. Forwarded(n) = [called EXCEPT !["a7"] = called["a0"], !["a0"] = reg["a0"]]
    BY DEF Forwarded
  <2> HIDE DEF called
  <2> QED
    BY <2>1, <2>2, <2>3
<1> QED
  BY <1>2, <1>3

LEMMA AnsweringKeeps ==
    ASSUME RegisterInv, NEW n, NEW registers, Returns(n, registers),
           registers \in {Emulated(n), Forwarded(n)}
    PROVE  RegisterInv'
<1>1. reg' = [h \in HostRegisters |-> IF h = "a7" THEN Result(n) ELSE reg[h]] /\ answer' = Result(n)
  BY Answering DEF Returns, RegisterInv
<1>2. reg' = [h \in HostRegisters |-> reg'[h]]
  BY <1>1
<1>3. ASSUME NEW r \in GuestRegisters \ {"rax"} PROVE reg'[HostOf[r]] = Own(r)
  BY <1>1, RegisterFacts DEF RegisterInv, Answered
<1>4. reg'[HostOf.rax] = answer'
  BY <1>1, RegisterFacts
<1> QED
  BY <1>2, <1>3, <1>4 DEF RegisterInv, Answered

LEMMA InitRegisters == Init => RegisterInv
<1> SUFFICES ASSUME Init PROVE RegisterInv
  OBVIOUS
<1>1. \A r, s \in GuestRegisters : HostOf[r] = HostOf[s] => r = s
  BY DEF GuestRegisters, HostOf
<1>2. /\ reg = [h \in HostRegisters |-> Own(CHOOSE r \in GuestRegisters : HostOf[r] = h)]
      /\ answer = Own("rax")
  BY DEF Init
<1>3. ASSUME NEW r \in GuestRegisters PROVE reg[HostOf[r]] = Own(r)
  <2>1. (CHOOSE s \in GuestRegisters : HostOf[s] = HostOf[r]) = r
    BY <1>1
  <2> QED
    BY <1>2, <2>1, RegisterFacts
<1>4. reg = [h \in HostRegisters |-> reg[h]]
  BY <1>2
<1> QED
  BY <1>2, <1>3, <1>4, RegisterFacts DEF RegisterInv, Answered

LEMMA RegisterStep == RegisterInv /\ [Next]_vars => RegisterInv'
<1> SUFFICES ASSUME RegisterInv, [Next]_vars PROVE RegisterInv'
  OBVIOUS
<1>1. ASSUME UNCHANGED <<reg, answer>> PROVE RegisterInv'
  BY <1>1 DEF RegisterInv, Answered
<1>2. CASE UNCHANGED vars \/ Loading \/ Start \/ OtherMaps
  BY <1>1, <1>2 DEF vars, Loading, Start, OtherMaps
<1>3. CASE SystemCall
  <2>1. CASE Forward
    BY <2>1, AnsweringKeeps DEF Forward
  <2>2. CASE Open \/ Ignore
    BY <2>2, AnsweringKeeps DEF Open, Ignore
  <2>3. CASE Fstat
    BY <2>3, AnsweringKeeps DEF Fstat
  <2>4. CASE ArchPrctl
    BY <2>4, AnsweringKeeps DEF ArchPrctl
  <2>5. CASE Brk
    BY <2>5, AnsweringKeeps DEF Brk
  <2>6. CASE Leave("exited") \/ Leave("faulted")
    BY <1>1, <2>6 DEF Leave
  <2> QED
    BY <1>3, <2>1, <2>2, <2>3, <2>4, <2>5, <2>6 DEF SystemCall
<1> QED
  BY <1>2, <1>3 DEF Next

-----------------------------------------------------------------------------
(* Theorems *)

\* The break and its pages agree from the loading of the file to the end of
\* the process, whatever the guest and the translator map beside it
\* (dispatcher.cpp:75, syscalls.cpp:79-131).
THEOREM ProcessInductive == Spec => []ProcessInv
<1> QED
  BY InitProcess, ProcessStep, PTL DEF Spec

THEOREM ProcessBreakBacked == Spec => []BreakBacked
<1>1. ProcessInv => BreakBacked
  BY SameBreak DEF ProcessInv, BP!IInv, BreakBacked
<1> QED
  BY <1>1, ProcessInductive, PTL

\* A request for free pages is refused only inside the page the break is in,
\* whatever was loaded and called before (syscalls.cpp:105-119).
THEOREM ProcessRefusesInLastPage == Spec => []RefusedOnlyInLastPage
<1>1. PB!RefusedOnlyInLastPage <=> BP!RefusedOnlyInLastPage
  BY SameBreak DEF PB!RefusedOnlyInLastPage, BP!RefusedOnlyInLastPage, PB!RequestRefused, BP!RequestRefused,
         PB!WillMap, BP!WillMap, PB!CanMap, BP!CanMap, PB!AllocSize, BP!AllocSize, PB!page_align,
         BP!page_align, PB!PagesOf, BP!PagesOf, PB!Pages, BP!Pages, PB!Width, BP!Width, PB!UserEnd, BP!UserEnd
<1>2. ProcessInv => RefusedOnlyInLastPage
  BY <1>1, Sizes, BP!RefusalStaysInPage DEF ProcessInv, RefusedOnlyInLastPage, BP!RefusedOnlyInLastPage
<1> QED
  BY <1>2, ProcessInductive, PTL

\* No call of brk takes or frees a page of the image, of the translator or of
\* a mapping the guest has made otherwise (syscalls.cpp:93-130).
THEOREM ProcessKeepsForeign == Spec => ForeignPagesKept
<1>1. ProcessInv =>
          [PB!Brk => \A p \in PB!Pages : owner[p] \in {"image", "other"} => owner'[p] = owner[p]]_PB!vars
  BY SameBreak, BreakStep DEF ProcessInv
<1> QED
  BY <1>1, ProcessInductive, PTL DEF ForeignPagesKept, PB!ForeignPagesKept

\* A system call changes rax alone, whatever it returns and whichever of the
\* handler's paths it takes (dispatcher.inc.s:219-260).
THEOREM ProcessAnswersCalls == Spec => []CallsAnswered
<1>1. RegisterInv => CallsAnswered
  BY ArgumentRegisters DEF RegisterInv
<1> QED
  BY <1>1, InitRegisters, RegisterStep, PTL DEF Spec

-----------------------------------------------------------------------------
(* What the decoder may read *)

\* The image starts and ends on page boundaries as long as it is read.
ImagePlaced ==
    phase \in Mapped => base \in Nat /\ size \in Nat /\ BP!Aligned(base) /\ BP!Aligned(base + size)

LEMMA ImageBoundaries ==
    ASSUME ProcessInv, ImagePlaced, [Next]_vars
    PROVE  ImagePlaced'
<1>1. CASE MapImage
  <2>1. base' = ImageBase /\ size' = ImageSize /\ ImageSize > 0 /\ file \in Files
    BY <1>1 DEF MapImage, Granted, ProcessInv
  <2>2. LowestAddress \in Nat /\ ImageSize \in Int /\ BP!Aligned(ImageBase + ImageSize)
    BY <2>1, LowestIsNat, ImageEnd
  <2>3. (LowestAddress \div PageSize) \in Nat
    BY <2>2, Sizes, BP!Division
  <2>4. ImageBase \in Nat /\ BP!Aligned(ImageBase)
    <3> DEFINE n == LowestAddress \div PageSize
    <3>1. ImageBase = n * PageSize
      BY DEF ImageBase, PageDown
    <3>2. \A m \in Nat : m * PageSize \in Nat
      BY LoaderAssumption, SMTT(30)
    <3> HIDE DEF n
    <3> QED
      BY <2>3, <3>1, <3>2 DEF n, BP!Aligned
  <2> QED
    BY <2>1, <2>2, <2>4 DEF ImagePlaced, BP!Aligned
<1>2. CASE ~MapImage
  <2>1. base' = base /\ size' = size /\ (phase' \in Mapped => phase \in Mapped)
    BY <1>2 DEF Next, Loading, Load, Validate, NotStatic, BaseAddressTaken, LoadSegment, ClearBss, NoBss,
                Start, SystemCall, Forward, Open, Ignore, Fstat, ArchPrctl, Brk, Leave, Quiet, StoreOrCrash,
                OtherMaps, vars, loaderVars, Mapped
  <2> QED
    BY <2>1 DEF ImagePlaced, BP!Aligned
<1> QED
  BY <1>1, <1>2

\* A page is known by an address in it, and addresses compare as pages do.
LEMMA PageOf ==
    ASSUME NEW x \in Nat
    PROVE  /\ x \div PageSize \in Nat
           /\ \A k \in Nat : /\ k * PageSize <= x <=> k <= x \div PageSize
                             /\ x < k * PageSize <=> x \div PageSize < k
                             /\ x = k * PageSize => x % PageSize = 0 /\ x \div PageSize = k
<1> DEFINE q == x \div PageSize
<1>1. /\ q \in Nat /\ q * PageSize <= x /\ x < q * PageSize + PageSize
  BY Sizes, BP!Division
<1>2. PageSize \in Nat /\ PageSize >= 1
  BY LoaderAssumption
<1>3. x % PageSize = x - q * PageSize
  BY <1>2, SMTT(30)
<1> HIDE DEF q
<1>4. ASSUME NEW k \in Nat
      PROVE  /\ k * PageSize <= x <=> k <= q
             /\ x = k * PageSize => q = k
  <2>1. k \in Int /\ q \in Int /\ q + 1 \in Int /\ 1 \in Int
    BY <1>1
  <2>2. /\ k * PageSize \in Int /\ q * PageSize \in Int
        /\ k * PageSize < q * PageSize <=> k < q
        /\ q * PageSize < k * PageSize <=> q < k
    BY <2>1, Sizes, BP!Factors
  <2>3. (q + 1) * PageSize < k * PageSize <=> q + 1 < k
    BY <2>1, Sizes, BP!Factors
  <2>4. (q + 1) * PageSize = q * PageSize + 1 * PageSize
    BY <2>1, Sizes, BP!Factors
  <2>5. CASE k <= q
    BY <1>1, <1>2, <2>1, <2>2, <2>5
  <2>6. CASE q + 1 = k
    BY <1>1, <1>2, <2>1, <2>2, <2>4, <2>6
  <2>7. CASE q + 1 < k
    BY <1>1, <1>2, <2>1, <2>2, <2>3, <2>4, <2>7
  <2> QED
    BY <2>1, <2>5, <2>6, <2>7
<1>5. ASSUME NEW k \in Nat PROVE k * PageSize \in Nat
  BY <1>2, SMTT(30)
<1> QED
  BY <1>1, <1>3, <1>4, <1>5 DEF q

\* For every page, however far the decoder asks to read on.
LEMMA QueryUniform ==
    ASSUME base \in Nat, size \in Nat, BP!Aligned(base), BP!Aligned(base + size),
           NEW a \in Nat, NEW max_page \in Nat
    PROVE  LET n == get_size(a, max_page)
               last == (a + n - 1) \div PageSize
           IN  /\ n > 0 <=> InImage(a)
               /\ \A b \in a..(a + n - 1) : get_page_flags(b) = get_page_flags(a)
               /\ n > 0 => /\ (a + n) % PageSize = 0
                           /\ last - a \div PageSize <= max_page
                           /\ \/ last - a \div PageSize = max_page
                              \/ get_page_flags(a + n) # get_page_flags(a)
                              \/ ~InImage(a + n)
<1> DEFINE n == get_size(a, max_page)
           last == (a + n - 1) \div PageSize
<1>1. CASE ~InImage(a)
  <2>1. n = 0
    BY <1>1 DEF get_size
  <2> QED
    BY <1>1, <2>1
<1>2. CASE InImage(a)
  <2> DEFINE first == a \div PageSize
             limit == LastChecked(a, max_page)
             differs == {p \in (first + 1)..limit : flags[p] # flags[first]}
             end == IF differs = {} THEN limit + 1 ELSE Min(differs)
  <2>1. PICK B \in Nat, E \in Nat : base = B * PageSize /\ base + size = E * PageSize
    BY DEF BP!Aligned
  <2>2. /\ first \in Nat /\ B <= first /\ first < E
    <3>1. B * PageSize <= a /\ a < E * PageSize
      BY <1>2, <2>1 DEF InImage
    <3> QED
      BY <3>1, PageOf
  <2>3. limit \in Nat /\ first <= limit /\ (limit = first + max_page \/ limit = E - 1)
        /\ limit <= first + max_page /\ limit <= E - 1
    <3> DEFINE S == {first + max_page, E - 1}
    <3>1. (base + size) \div PageSize = E
      BY <2>1, PageOf
    <3>2. limit = Min(S)
      BY <3>1 DEF LastChecked
    <3>3. S \in SUBSET Nat /\ S # {}
      BY <2>2
    <3>4. Min(S) \in S /\ \A y \in S : Min(S) <= y
      <4> HIDE DEF S
      <4> QED
        BY <3>3, LeastOf
    <3> HIDE DEF limit, first
    <3>5. Min(S) \in {first + max_page, E - 1} /\ Min(S) <= first + max_page /\ Min(S) <= E - 1
      BY <3>4
    <3> HIDE DEF S
    <3> QED
      BY <2>2, <3>2, <3>5
  <2>4. /\ end \in Nat /\ first < end /\ end <= limit + 1
        /\ end # limit + 1 => flags[end] # flags[first]
        /\ \A p \in first..(end - 1) : flags[p] = flags[first]
    <3> HIDE DEF limit, first
    <3>1. CASE differs = {}
      <4>1. end = limit + 1
        BY <3>1
      <4>2. \A p \in (first + 1)..limit : flags[p] = flags[first]
        BY <3>1
      <4> QED
        BY <2>2, <2>3, <4>1, <4>2
    <3>2. CASE differs # {}
      <4>1. end = Min(differs)
        BY <3>2
      <4>2. differs \in SUBSET Nat
        BY <2>2, <2>3
      <4>3. Min(differs) \in differs /\ \A y \in differs : Min(differs) <= y
        <5> HIDE DEF differs
        <5> QED
          BY <3>2, <4>2, LeastOf
      <4>4. end \in (first + 1)..limit /\ flags[end] # flags[first]
        BY <4>1, <4>3
      <4>5. ASSUME NEW p \in first..(end - 1) PROVE flags[p] = flags[first]
        <5>1. p = first \/ p \in (first + 1)..limit
          BY <2>2, <2>3, <4>4
        <5>2. p \notin differs
          BY <2>2, <2>3, <4>1, <4>3, <4>4
        <5> QED
          BY <5>1, <5>2
      <4> HIDE DEF end
      <4> QED
        BY <2>2, <2>3, <4>4, <4>5
    <3> QED
      BY <3>1, <3>2
  <2>5. n = PageSize * end - a
    BY <1>2 DEF get_size
  <2> HIDE DEF end, differs, limit, n
  <2>6. end * PageSize \in Nat /\ a < end * PageSize /\ PageSize * end = end * PageSize
    <3>1. PageSize \in Nat
      BY LoaderAssumption
    <3>2. end * PageSize \in Nat /\ PageSize * end = end * PageSize
      BY <2>4, <3>1, SMTT(30)
    <3>3. a < end * PageSize
      BY <2>4, PageOf
    <3> QED
      BY <3>2, <3>3
  <2>7. n \in Nat /\ n > 0 /\ a + n = end * PageSize
    BY <2>5, <2>6
  <2>8. (a + n) % PageSize = 0 /\ (a + n) \div PageSize = end
    BY <2>4, <2>6, <2>7, PageOf
  <2>9. ASSUME NEW x \in a..(a + n - 1)
        PROVE  x \in Nat /\ x \div PageSize \in first..(end - 1) /\ InImage(x)
    <3>1. x \in Nat /\ a <= x /\ x < end * PageSize
      BY <2>6, <2>7
    <3>2. x \div PageSize \in Nat /\ x \div PageSize < end
      BY <2>4, <3>1, PageOf
    <3>3. first * PageSize <= a /\ first * PageSize \in Nat
      <4>1. first * PageSize <= a
        BY <2>2, PageOf
      <4>2. \A m \in Nat : m * PageSize \in Nat
        BY LoaderAssumption, SMTT(30)
      <4> HIDE DEF first
      <4> QED
        BY <2>2, <4>1, <4>2
    <3>4. first <= x \div PageSize
      <4> HIDE DEF first
      <4>1. first * PageSize <= x
        BY <3>1, <3>3
      <4> QED
        BY <2>2, <3>1, <4>1, PageOf
    <3>5. x < E * PageSize
      <4>1. x \div PageSize < E
        BY <2>1, <2>3, <2>4, <3>2
      <4> QED
        BY <3>1, <4>1, PageOf
    <3>6. base <= x
      BY <1>2, <3>1 DEF InImage
    <3> HIDE DEF first
    <3> QED
      BY <2>1, <2>2, <2>4, <3>1, <3>2, <3>4, <3>5, <3>6 DEF InImage
  <2>10. ASSUME NEW b \in a..(a + n - 1) PROVE get_page_flags(b) = get_page_flags(a)
    <3>1. flags[b \div PageSize] = flags[first]
      BY <2>4, <2>9
    <3> QED
      BY <1>2, <2>9, <3>1 DEF get_page_flags
  <2>11. last = end - 1
    <3>1. a + n - 1 \in a..(a + n - 1) /\ a + n - 1 \in Nat
      BY <2>7
    <3>2. (a + n - 1) \div PageSize \in first..(end - 1)
      BY <2>9, <3>1
    <3>3. (end - 1) * PageSize <= a + n - 1
      <4>1. end - 1 \in Int /\ 1 \in Int /\ end - 1 + 1 = end
        BY <2>4
      <4>2. ((end - 1) + 1) * PageSize = (end - 1) * PageSize + 1 * PageSize /\ (end - 1) * PageSize \in Int
        BY <4>1, Sizes, BP!Factors
      <4>3. PageSize \in Nat /\ PageSize >= 1
        BY LoaderAssumption
      <4> QED
        BY <2>6, <2>7, <4>1, <4>2, <4>3
    <3>4. end - 1 <= (a + n - 1) \div PageSize
      <4>1. end - 1 \in Nat
        BY <2>2, <2>4
      <4> QED
        BY <3>1, <3>3, <4>1, PageOf
    <3> HIDE DEF first
    <3> QED
      BY <2>2, <2>4, <3>2, <3>4
  <2>12. \/ end - 1 - first = max_page
         \/ get_page_flags(a + n) # get_page_flags(a)
         \/ ~InImage(a + n)
    <3>1. CASE end = limit + 1 /\ limit = first + max_page
      <4> HIDE DEF first
      <4> QED
        BY <2>2, <2>3, <3>1
    <3>2. CASE end = limit + 1 /\ limit = E - 1
      <4>1. end = E
        BY <2>3, <3>2
      <4>2. a + n = base + size
        BY <2>1, <2>7, <4>1
      <4> QED
        BY <4>2 DEF InImage
    <3>3. CASE end # limit + 1
      <4>1. flags[(a + n) \div PageSize] # flags[first]
        BY <2>4, <2>8, <3>3
      <4>2. CASE InImage(a + n)
        BY <1>2, <4>1, <4>2 DEF get_page_flags
      <4> QED
        BY <4>2
    <3> QED
      BY <2>3, <3>1, <3>2, <3>3
  <2>13. end - 1 - first <= max_page
    <3> HIDE DEF first
    <3> QED
      BY <2>2, <2>3, <2>4
  <2> HIDE DEF last, first
  <2>14. last - first <= max_page /\ (last - first = max_page <=> end - 1 - first = max_page)
    BY <2>11, <2>13
  <2> QED
    BY <1>2, <2>7, <2>8, <2>10, <2>12, <2>14 DEF n, last, first
<1> QED
  BY <1>1, <1>2

\* The decoder reads inside the image and in pages of one kind, and it stops
\* short of none of them, however the file was laid out (elf.cpp:342-369).
THEOREM ProcessSizesUniform == Spec => []SizesUniform
<1>1. Init => ImagePlaced
  BY DEF Init, LoaderInit, ImagePlaced, Mapped
<1>2. ProcessInv /\ ImagePlaced /\ [Next]_vars => ImagePlaced'
  BY ImageBoundaries
<1>3. ImagePlaced => SizesUniform
  <2> SUFFICES ASSUME ImagePlaced, phase = "loaded", NEW a \in Addresses, NEW max_page \in 0..2
               PROVE  LET n == get_size(a, max_page)
                          last == (a + n - 1) \div PageSize
                      IN  /\ n > 0 <=> InImage(a)
                          /\ \A b \in a..(a + n - 1) : get_page_flags(b) = get_page_flags(a)
                          /\ n > 0 => /\ (a + n) % PageSize = 0
                                      /\ last - a \div PageSize <= max_page
                                      /\ \/ last - a \div PageSize = max_page
                                         \/ get_page_flags(a + n) # get_page_flags(a)
                                         \/ ~InImage(a + n)
    BY DEF SizesUniform
  <2>1. base \in Nat /\ size \in Nat /\ BP!Aligned(base) /\ BP!Aligned(base + size)
    BY DEF ImagePlaced, Mapped
  <2>2. a \in Nat /\ max_page \in Nat
    <3>1. PageSize * PageCount \in Nat
      BY LoaderAssumption, SMTT(30)
    <3> QED
      BY <3>1 DEF Addresses
  <2> QED
    BY <2>1, <2>2, QueryUniform
<1> QED
  BY <1>1, <1>2, <1>3, ProcessInductive, PTL DEF Spec

-----------------------------------------------------------------------------
(* Pages and addresses *)

LEMMA Boundary ==
    ASSUME NEW x \in Nat
    PROVE  /\ PageDown(x) \in Nat /\ PageDown(x) <= x /\ x < PageDown(x) + PageSize
           /\ x % PageSize = x - PageDown(x)
           /\ x \div PageSize \in Nat /\ PageDown(x) = (x \div PageSize) * PageSize
           /\ PageDown(PageDown(x)) = PageDown(x)
<1> DEFINE q == x \div PageSize
<1>1. PageSize \in Nat /\ PageSize >= 1
  BY LoaderAssumption
<1>2. q \in Nat /\ q * PageSize <= x /\ x < q * PageSize + PageSize
  BY Sizes, BP!Division
<1>3. x % PageSize = x - q * PageSize
  BY <1>1, SMTT(30)
<1>4. PageDown(x) = q * PageSize
  BY DEF PageDown
<1> HIDE DEF q
<1>5. q * PageSize \in Nat
  BY <1>1, <1>2, SMTT(30)
<1>6. PageDown(q * PageSize) = q * PageSize
  BY <1>2, <1>5, PageOf DEF PageDown
<1> QED
  BY <1>2, <1>3, <1>4, <1>5, <1>6 DEF q

LEMMA BoundariesAscend ==
    ASSUME NEW x \in Nat, NEW y \in Nat, x <= y
    PROVE  PageDown(x) <= PageDown(y)
<1> DEFINE q == x \div PageSize
           r == y \div PageSize
<1>1. q \in Nat /\ PageDown(x) = q * PageSize /\ PageDown(x) <= x /\ PageDown(x) \in Nat
  BY Boundary
<1>2. r \in Nat /\ PageDown(y) = r * PageSize
  BY Boundary
<1>3. q <= r
  <2>1. q * PageSize <= y
    BY <1>1
  <2> HIDE DEF q
  <2> QED BY <1>1, <2>1, PageOf
<1> HIDE DEF q, r
<1>4. /\ r * PageSize \in Int /\ q * PageSize \in Int
      /\ r * PageSize < q * PageSize <=> r < q
  BY <1>1, <1>2, Sizes, BP!Factors
<1> QED BY <1>1, <1>2, <1>3, <1>4

LEMMA RoundedUp ==
    ASSUME NEW x \in Nat
    PROVE  RoundUp(x) \in Nat /\ x <= RoundUp(x)
<1>1. PageSize \in Nat /\ x + PageSize \in Nat
  BY LoaderAssumption
<1>2. PageDown(x + PageSize) \in Nat /\ x + PageSize < PageDown(x + PageSize) + PageSize
  BY <1>1, Boundary
<1> QED BY <1>1, <1>2 DEF RoundUp

LEMMA PageAddress ==
    ASSUME NEW p \in Pages
    PROVE  p \in Nat /\ p * PageSize \in Nat
<1>1. p \in Nat /\ PageSize \in Nat
  BY LoaderAssumption DEF Pages
<1> QED BY <1>1, SMTT(30)

\* A page is touched by what reaches into it, in terms of addresses.
LEMMA TouchedBy ==
    ASSUME NEW p \in Pages, NEW a \in Nat, NEW n
    PROVE  p \in PagesTouched(a, n) <=> PageDown(a) <= p * PageSize /\ p * PageSize < a + n
<1> DEFINE q == a \div PageSize
<1>1. q \in Nat /\ PageDown(a) = q * PageSize
  BY Boundary
<1>2. p \in Nat
  BY PageAddress
<1>3. p \in PagesTouched(a, n) <=> p >= q /\ p * PageSize < a + n
  BY DEF PagesTouched
<1> HIDE DEF q
<1>4. /\ p * PageSize \in Int /\ q * PageSize \in Int
      /\ p * PageSize < q * PageSize <=> p < q
  BY <1>1, <1>2, Sizes, BP!Factors
<1> QED BY <1>1, <1>2, <1>3, <1>4

\* A system call that is given the page below a range reaches no page the range
\* does not reach.
LEMMA KernelReach ==
    ASSUME NEW a \in Nat, NEW n \in Nat
    PROVE  KernelPages(PageDown(a), n) \subseteq PagesTouched(a, n)
<1>1. PageDown(a) \in Nat /\ PageDown(a) <= a /\ PageDown(PageDown(a)) = PageDown(a)
  BY Boundary
<1>2. ASSUME NEW p \in PagesTouched(PageDown(a), n) PROVE p \in PagesTouched(a, n)
  <2>1. p \in Pages
    BY <1>2 DEF PagesTouched
  <2>2. p * PageSize \in Nat
    BY <2>1, PageAddress
  <2> QED BY <1>1, <1>2, <2>1, <2>2, TouchedBy
<1> QED BY <1>2 DEF KernelPages

-----------------------------------------------------------------------------
(* The segments of a linked file *)

LEMMA SegmentFacts ==
    ASSUME file \in Files, Linked(file), NEW k \in Loads
    PROVE  LET s == file.segments[k] IN
           /\ s.vaddr \in Nat /\ s.memsz \in Nat /\ s.filesz \in 0..s.memsz
           /\ s.off \in Nat /\ file.bytes \in Nat /\ s.off + s.filesz <= file.bytes
           /\ End(s) = s.vaddr + s.memsz
           /\ k \in Nat /\ \A m \in 1..(k - 1) : m \in Loads /\ End(file.segments[m]) <= PageDown(s.vaddr)
           /\ s.filesz # s.memsz => file.bss # <<>> /\ EndsIn(file.bss, s)
           /\ LowestAddress <= s.vaddr /\ End(s) <= HighestEnd
<1> DEFINE s == file.segments[k]
           starts == {NoBase} \union {file.segments[j].vaddr : j \in Loads} \union {b.vaddr : b \in BssSet}
           ends == {0} \union {End(file.segments[j]) : j \in Loads} \union {End(b) : b \in BssSet}
           top == 2 * PageSize * PageCount
<1>1. Len(file.segments) \in Nat /\ \A j \in Loads : Unsigned(file.segments[j])
  BY FilesAssumption DEF Loads
<1>2. \A b \in BssSet : Unsigned(b)
  BY FilesAssumption DEF BssSet
<1>3. top \in Nat
  BY LoaderAssumption
<1>4. LowestAddress <= s.vaddr
  <2>1. \A j \in Loads : file.segments[j].vaddr \in Nat
    BY <1>1 DEF Unsigned
  <2>2. \A b \in BssSet : b.vaddr \in Nat
    BY <1>2 DEF Unsigned
  <2>3. s.vaddr \in starts /\ starts \in SUBSET Nat
    BY <2>1, <2>2, LoaderAssumption
  <2>4. \A y \in starts : Min(starts) <= y
    <3> HIDE DEF starts
    <3> QED BY <2>3, LeastOf
  <2>5. LowestAddress = Min(starts)
    BY DEF LowestAddress
  <2> QED BY <2>3, <2>4, <2>5
<1>5. End(s) <= HighestEnd
  <2>1. \A j \in Loads : End(file.segments[j]) \in 0..top
    BY <1>1 DEF Unsigned
  <2>2. \A b \in BssSet : End(b) \in 0..top
    BY <1>2 DEF Unsigned
  <2> HIDE DEF top
  <2>3. End(s) \in ends /\ ends \in SUBSET (0..top)
    BY <1>3, <2>1, <2>2
  <2>4. \A y \in ends : y <= Max(ends)
    <3> HIDE DEF ends
    <3> QED BY <1>3, <2>3, GreatestOf
  <2>5. HighestEnd = Max(ends)
    BY DEF HighestEnd
  <2> QED BY <2>3, <2>4, <2>5
<1>6. k \in 1..Len(file.segments)
  BY DEF Loads
<1>7. /\ s.memsz \in Nat /\ s.filesz \in 0..s.memsz
      /\ s.off \in Nat /\ file.bytes \in Nat /\ s.off + s.filesz <= file.bytes
      /\ \A m \in 1..(k - 1) : End(file.segments[m]) <= PageDown(s.vaddr)
      /\ s.filesz # s.memsz => file.bss # <<>> /\ EndsIn(file.bss, s)
  BY <1>6 DEF Linked
<1>8. k \in Nat /\ \A m \in 1..(k - 1) : m \in Loads
  BY <1>1, <1>6 DEF Loads
<1>9. s.vaddr \in Nat
  BY <1>1 DEF Unsigned
<1> QED BY <1>4, <1>5, <1>7, <1>8, <1>9 DEF End

\* The image reaches as far as its segments, and ends with a page.
LEMMA ImageHolds ==
    ASSUME file \in Files, Linked(file), NEW k \in Loads
    PROVE  LET s == file.segments[k] IN
           /\ PagesTouched(s.vaddr, s.memsz) \subseteq ImagePages
           /\ End(s) <= ImageBase + ImageSize
<1> DEFINE s == file.segments[k]
<1>1. s.vaddr \in Nat /\ s.memsz \in Nat /\ End(s) = s.vaddr + s.memsz
      /\ LowestAddress <= s.vaddr /\ End(s) <= HighestEnd
  BY SegmentFacts
<1>2. LowestAddress \in Nat /\ HighestEnd \in Nat
  BY LowestIsNat, HighestIsNat
<1>3. ImageBase \in Nat /\ ImageBase <= PageDown(s.vaddr)
  BY <1>1, <1>2, Boundary, BoundariesAscend DEF ImageBase
<1>4. RoundUp(HighestEnd) \in Nat /\ HighestEnd <= RoundUp(HighestEnd)
  BY <1>2, RoundedUp
<1>5. ImageBase + ImageSize = RoundUp(HighestEnd) /\ ImageSize \in Int
  BY <1>3, <1>4 DEF ImageSize
<1>6. ASSUME NEW p \in PagesTouched(s.vaddr, s.memsz) PROVE p \in ImagePages
  <2>1. p \in Pages
    BY DEF PagesTouched
  <2>2. p * PageSize \in Nat /\ PageDown(s.vaddr) \in Nat
    BY <1>1, <2>1, PageAddress, Boundary
  <2>3. PageDown(s.vaddr) <= p * PageSize /\ p * PageSize < s.vaddr + s.memsz
    BY <1>1, <2>1, TouchedBy
  <2>4. p * PageSize \in ImageBase..(ImageBase + ImageSize - 1)
    BY <1>1, <1>2, <1>3, <1>4, <1>5, <2>2, <2>3
  <2> QED BY <2>1, <2>4 DEF ImagePages
<1> QED BY <1>1, <1>2, <1>4, <1>5, <1>6

\* Neither the bytes nor the pages of a segment are those of an earlier one.
LEMMA SegmentsApart ==
    ASSUME file \in Files, Linked(file), NEW k \in Loads, NEW m \in 1..(k - 1)
    PROVE  LET s == file.segments[k]
               e == file.segments[m]
           IN  /\ m \in Loads /\ End(e) <= CopyStart(s) /\ CopyStart(s) <= s.vaddr
               /\ \A p \in PagesTouched(e.vaddr, e.memsz) :
                     /\ p \in Pages /\ p * PageSize \in Nat /\ p * PageSize < CopyStart(s)
                     /\ p \notin PagesTouched(s.vaddr, s.memsz)
<1> DEFINE s == file.segments[k]
           e == file.segments[m]
<1>1. m \in Loads /\ End(e) <= PageDown(s.vaddr) /\ s.vaddr \in Nat /\ s.memsz \in Nat
  BY SegmentFacts
<1>2. e.vaddr \in Nat /\ e.memsz \in Nat /\ End(e) = e.vaddr + e.memsz
  BY <1>1, SegmentFacts
<1>3. PageDown(s.vaddr) \in Nat /\ PageDown(s.vaddr) <= s.vaddr
  BY <1>1, Boundary
<1>4. ASSUME NEW p \in PagesTouched(e.vaddr, e.memsz)
      PROVE  /\ p \in Pages /\ p * PageSize \in Nat /\ p * PageSize < PageDown(s.vaddr)
             /\ p \notin PagesTouched(s.vaddr, s.memsz)
  <2>1. p \in Pages
    BY DEF PagesTouched
  <2>2. p * PageSize \in Nat
    BY <2>1, PageAddress
  <2>3. p * PageSize < e.vaddr + e.memsz
    BY <1>2, <2>1, TouchedBy
  <2>4. p * PageSize < PageDown(s.vaddr)
    BY <1>1, <1>2, <1>3, <2>2, <2>3
  <2>5. p \notin PagesTouched(s.vaddr, s.memsz)
    BY <1>1, <1>3, <2>1, <2>2, <2>4, TouchedBy
  <2> QED BY <2>1, <2>2, <2>4, <2>5
<1> QED BY <1>1, <1>3, <1>4 DEF CopyStart

-----------------------------------------------------------------------------
(* Loading *)

\* A page of a segment has the segment's flags, and a protection to go with them.
SegmentGranted(k) == LET s == file.segments[k] IN
    \A p \in PagesTouched(s.vaddr, s.memsz) :
        /\ flags[p] = s.flags \union {"M"}
        /\ s.flags \intersect {"R", "W"} \subseteq protection[p]
        /\ "W" \in protection[p] => "W" \in s.flags \/ p \in Missed(s)
SegmentCopied(k) == LET s == file.segments[k] IN
    \A i \in 0..(s.filesz - 1) : memory[s.vaddr + i] = s.off + i + 1

\* The segments that have been loaded are as they are to be, and nothing else
\* has been given flags.
SegmentsInv ==
    /\ phase \in {"open", "valid"} => segment = 1 /\ \A p \in Pages : flags[p] = {}
    /\ phase \in Mapped =>
          /\ base = ImageBase /\ size = ImageSize /\ ImageBase + ImageSize <= PageSize * PageCount
          /\ \A p \in ImagePages : owner[p] = "image"
          /\ segment \in 1..(Len(file.segments) + 1)
          /\ \A k \in 1..(segment - 1) : SegmentGranted(k) /\ SegmentCopied(k)
          /\ \A p \in Pages : flags[p] # {} =>
                \E k \in 1..(segment - 1) : p \in PagesTouched(file.segments[k].vaddr, file.segments[k].memsz)
    /\ phase = "loaded" => segment = Len(file.segments) + 1
    /\ ContentsLoaded

LEMMA InitSegments == Init => SegmentsInv
<1> SUFFICES ASSUME Init PROVE SegmentsInv
  OBVIOUS
<1>1. phase = "open" /\ segment = 1 /\ flags = [p \in Pages |-> {}]
  BY DEF Init, LoaderInit
<1> QED BY <1>1 DEF SegmentsInv, Mapped, ContentsLoaded

\* Nothing else than the loader's steps reaches a segment before it is done.
LEMMA SegmentsElsewhere ==
    ASSUME SegmentsInv, UNCHANGED <<file, segment, base, size, memory, protection, flags>>,
           phase' \in Mapped => phase = phase' /\ owner' = owner,
           phase' \notin {"open", "valid"} \/ phase \in {"open", "valid"}
    PROVE  SegmentsInv'
<1>1. phase' = "loaded" => phase = "loaded"
  BY DEF Mapped
<1>2. ContentsLoaded'
  BY <1>1 DEF SegmentsInv, ContentsLoaded, Loads
<1>3. phase' = "loaded" => segment' = Len(file'.segments) + 1
  BY <1>1 DEF SegmentsInv
<1>4. phase' \in {"open", "valid"} => segment' = 1 /\ \A p \in Pages : flags'[p] = {}
  BY DEF SegmentsInv
<1>5. ASSUME phase' \in Mapped
      PROVE  /\ base' = ImageBase' /\ size' = ImageSize' /\ ImageBase' + ImageSize' <= PageSize * PageCount
             /\ \A p \in ImagePages' : owner'[p] = "image"
             /\ segment' \in 1..(Len(file'.segments) + 1)
             /\ \A k \in 1..(segment' - 1) : SegmentGranted(k)' /\ SegmentCopied(k)'
             /\ \A p \in Pages : flags'[p] # {} =>
                   \E k \in 1..(segment' - 1) :
                       p \in PagesTouched(file'.segments[k].vaddr, file'.segments[k].memsz)
  <2>1. phase \in Mapped /\ owner' = owner
    BY <1>5
  <2>2. ImageBase' = ImageBase /\ ImageSize' = ImageSize /\ ImagePages' = ImagePages
    BY DEF ImageBase, ImageSize, ImagePages, LowestAddress, HighestEnd, Loads, BssSet
  <2>3. \A k : (SegmentGranted(k)' <=> SegmentGranted(k)) /\ (SegmentCopied(k)' <=> SegmentCopied(k))
    BY DEF SegmentGranted, SegmentCopied, Missed, FinalPages, KernelPages, CopyStart
  <2> QED BY <2>1, <2>2, <2>3 DEF SegmentsInv
<1> QED BY <1>2, <1>3, <1>4, <1>5 DEF SegmentsInv

LEMMA MapImageSegments ==
    ASSUME SegmentsInv, file \in Files, MapImage
    PROVE  SegmentsInv'
<1>1. /\ file' = file /\ segment' = segment /\ flags' = flags /\ phase' = "segments"
      /\ base' = ImageBase /\ size' = ImageSize /\ ImageBase + ImageSize <= PageSize * PageCount
      /\ segment = 1 /\ \A p \in Pages : flags[p] = {}
  BY DEF MapImage, Granted, SegmentsInv
<1>2. ImageBase' = ImageBase /\ ImageSize' = ImageSize /\ ImagePages' = ImagePages
  BY <1>1 DEF ImageBase, ImageSize, ImagePages, LowestAddress, HighestEnd, Loads, BssSet
<1>3. \A p \in ImagePages : owner'[p] = "image"
  BY DEF MapImage, ImagePages
<1>4. Len(file.segments) \in Nat
  BY FilesAssumption
<1>5. segment' \in 1..(Len(file'.segments) + 1) /\ 1..(segment' - 1) = {}
  BY <1>1, <1>4
<1> QED BY <1>1, <1>2, <1>3, <1>5 DEF SegmentsInv, ContentsLoaded

\* The segment that is loaded gets what it is to have.
LEMMA SegmentLoaded ==
    ASSUME SegmentsInv, file \in Files, Linked(file), LoadSegment, NEW k, k = segment
    PROVE  SegmentGranted(k)' /\ SegmentCopied(k)'
<1> DEFINE s == file.segments[k]
           start == PageDown(s.vaddr)
           lead == s.vaddr % PageSize
<1>1. k \in Loads /\ phase = "segments" /\ file' = file
  BY DEF LoadSegment
<1>2. /\ s.vaddr \in Nat /\ s.memsz \in Nat /\ s.filesz \in 0..s.memsz
      /\ s.off \in Nat /\ file.bytes \in Nat /\ s.off + s.filesz <= file.bytes
      /\ End(s) = s.vaddr + s.memsz
  BY <1>1, SegmentFacts
<1>3. PagesTouched(s.vaddr, s.memsz) \subseteq ImagePages /\ End(s) <= ImageBase + ImageSize
  BY <1>1, ImageHolds
<1>4. /\ \A p \in ImagePages : owner[p] = "image"
      /\ ImageBase + ImageSize <= PageSize * PageCount
  BY <1>1 DEF SegmentsInv, Mapped
<1>5. /\ flags' = [p \in Pages |-> IF p \in PagesTouched(s.vaddr, s.memsz)
                                   THEN {"M"} \union s.flags ELSE flags[p]]
      /\ protection' = [p \in Pages |->
                           CASE p \in FinalPages(s) -> s.flags
                             [] p \in MadeWritable(s) \ FinalPages(s) -> {"R", "W"}
                             [] OTHER -> protection[p]]
      /\ memory' = [a \in Addresses |->
                        IF a \in CopyStart(s)..(CopyStart(s) + CopySize(s) - 1)
                        THEN CopySource(s) + (a - CopyStart(s)) + 1
                        ELSE memory[a]]
  BY DEF LoadSegment
<1>6. start \in Nat /\ start <= s.vaddr /\ lead = s.vaddr - start
  BY <1>2, Boundary
<1>7. ASSUME NEW p \in PagesTouched(s.vaddr, s.memsz)
      PROVE  /\ flags'[p] = s.flags \union {"M"}
             /\ s.flags \intersect {"R", "W"} \subseteq protection'[p]
             /\ "W" \in protection'[p] => "W" \in s.flags \/ p \in Missed(s)
  <2>1. p \in Pages
    BY DEF PagesTouched
  <2>2. flags'[p] = s.flags \union {"M"}
    BY <1>5, <2>1
  <2>3. CASE p \in FinalPages(s)
    <3>1. protection'[p] = s.flags
      BY <1>5, <2>1, <2>3
    <3> QED BY <2>2, <3>1
  <2>4. CASE p \notin FinalPages(s)
    <3>1. start <= p * PageSize
      BY <1>2, <2>1, TouchedBy
    <3>2. p \in MadeWritable(s)
      BY <1>3, <1>4, <1>6, <2>1, <3>1, PageAddress DEF MadeWritable, CopyStart
    <3>3. protection'[p] = {"R", "W"}
      BY <1>5, <2>1, <2>4, <3>2
    <3>4. p \in Missed(s)
      BY <2>4 DEF Missed
    <3> QED BY <2>2, <3>3, <3>4
  <2> QED BY <2>3, <2>4
<1>8. SegmentGranted(k)'
  BY <1>1, <1>7 DEF SegmentGranted, Missed, FinalPages, KernelPages, CopyStart
<1>9. ASSUME NEW i \in 0..(s.filesz - 1)
      PROVE  memory'[s.vaddr + i] = s.off + i + 1
  <2> DEFINE a == s.vaddr + i
             sizes == {RoundUp(s.filesz + lead), file.bytes - CopySource(s)}
  <2>1. CopySource(s) = s.off - lead /\ CopyStart(s) = start
    BY DEF CopySource, CopyStart
  <2>2. CopySize(s) = Min(sizes)
    BY DEF CopySize
  <2>3. s.filesz + lead \in Nat /\ lead \in Nat
    BY <1>2, <1>6
  <2>4. RoundUp(s.filesz + lead) \in Nat /\ s.filesz + lead <= RoundUp(s.filesz + lead)
    BY <2>3, RoundedUp
  <2>5. file.bytes - CopySource(s) \in Nat /\ s.filesz + lead <= file.bytes - CopySource(s)
    <3> HIDE DEF lead
    <3> QED BY <1>2, <2>1, <2>3
  <2>6. sizes \in SUBSET Nat /\ sizes # {}
    BY <2>4, <2>5
  <2>7. Min(sizes) \in sizes
    <3> HIDE DEF sizes
    <3> QED BY <2>6, LeastOf
  <2>8. CopySize(s) \in Nat /\ s.filesz + lead <= CopySize(s)
    BY <2>2, <2>4, <2>5, <2>7
  <2> HIDE DEF lead, start, sizes
  <2>9. a \in Nat /\ a - start = lead + i /\ start <= a /\ a <= start + CopySize(s) - 1
    BY <1>2, <1>6, <1>9, <2>3, <2>8
  <2>10. a \in Addresses
    <3>1. PageSize * PageCount \in Nat
      BY LoaderAssumption, SMTT(30)
    <3>2. a < s.vaddr + s.memsz
      BY <1>2, <1>9
    <3>3. ImageBase + ImageSize \in Nat
      BY ImageEnd
    <3>4. a <= PageSize * PageCount - 1
      BY <1>2, <1>3, <1>4, <2>9, <3>1, <3>2, <3>3
    <3> QED BY <2>9, <3>1, <3>4 DEF Addresses
  <2>11. memory'[a] = CopySource(s) + (a - start) + 1
    BY <1>5, <1>6, <2>1, <2>8, <2>9, <2>10
  <2> HIDE DEF a
  <2>12. CopySource(s) + (a - start) + 1 = s.off + i + 1
    BY <1>2, <1>9, <2>1, <2>3, <2>9
  <2> QED BY <2>11, <2>12 DEF a
<1>10. SegmentCopied(k)'
  BY <1>1, <1>9 DEF SegmentCopied
<1> QED BY <1>8, <1>10

LEMMA LoadSegmentSegments ==
    ASSUME SegmentsInv, file \in Files, Linked(file), LoadSegment
    PROVE  SegmentsInv'
<1> DEFINE n == segment
           s == file.segments[n]
<1>1. /\ n \in Loads /\ phase = "segments" /\ phase' = "segments" /\ segment' = n + 1
      /\ UNCHANGED <<file, base, size, owner>>
  BY DEF LoadSegment
<1>2. /\ s.vaddr \in Nat /\ s.memsz \in Nat /\ End(s) = s.vaddr + s.memsz
  BY <1>1, SegmentFacts
<1>3. Len(file.segments) \in Nat /\ n \in 1..Len(file.segments)
  BY <1>1, FilesAssumption DEF Loads
<1>4. /\ flags' = [p \in Pages |-> IF p \in PagesTouched(s.vaddr, s.memsz)
                                   THEN {"M"} \union s.flags ELSE flags[p]]
      /\ protection' = [p \in Pages |->
                           CASE p \in FinalPages(s) -> s.flags
                             [] p \in MadeWritable(s) \ FinalPages(s) -> {"R", "W"}
                             [] OTHER -> protection[p]]
      /\ memory' = [a \in Addresses |->
                        IF a \in CopyStart(s)..(CopyStart(s) + CopySize(s) - 1)
                        THEN CopySource(s) + (a - CopyStart(s)) + 1
                        ELSE memory[a]]
  BY DEF LoadSegment
<1>5. FinalPages(s) \subseteq PagesTouched(s.vaddr, s.memsz)
  BY <1>2, KernelReach DEF FinalPages, CopyStart
<1>6. ASSUME NEW k \in 1..(n - 1)
      PROVE  SegmentGranted(k)' /\ SegmentCopied(k)'
  <2> DEFINE e == file.segments[k]
  <2>1. /\ k \in Loads /\ End(e) <= CopyStart(s)
        /\ \A p \in PagesTouched(e.vaddr, e.memsz) :
              /\ p \in Pages /\ p * PageSize \in Nat /\ p * PageSize < CopyStart(s)
              /\ p \notin PagesTouched(s.vaddr, s.memsz)
    BY <1>1, SegmentsApart
  <2>2. SegmentGranted(k) /\ SegmentCopied(k)
    BY <1>1 DEF SegmentsInv, Mapped
  <2>3. /\ e.vaddr \in Nat /\ e.memsz \in Nat /\ e.filesz \in 0..e.memsz /\ End(e) = e.vaddr + e.memsz
        /\ End(e) <= ImageBase + ImageSize
    BY <2>1, SegmentFacts, ImageHolds
  <2>4. CopyStart(s) \in Nat
    BY <1>2, Boundary DEF CopyStart
  <2>5. ASSUME NEW p \in PagesTouched(e.vaddr, e.memsz)
        PROVE  flags'[p] = flags[p] /\ protection'[p] = protection[p]
    <3>1. p \in Pages /\ p \notin PagesTouched(s.vaddr, s.memsz)
      BY <2>1
    <3>2. p \notin MadeWritable(s)
      BY <2>1, <2>4 DEF MadeWritable
    <3> QED BY <1>4, <1>5, <3>1, <3>2
  <2>6. SegmentGranted(k)'
    BY <1>1, <2>2, <2>5 DEF SegmentGranted, Missed, FinalPages, KernelPages, CopyStart
  <2>7. ASSUME NEW i \in 0..(e.filesz - 1)
        PROVE  memory'[e.vaddr + i] = memory[e.vaddr + i]
    <3>1. e.vaddr + i \in Nat /\ e.vaddr + i < End(e)
      BY <2>3
    <3>2. e.vaddr + i \in Addresses
      <4>1. ImageBase + ImageSize <= PageSize * PageCount
        BY <1>1 DEF SegmentsInv, Mapped
      <4>2. ImageBase + ImageSize \in Nat
        BY ImageEnd
      <4>3. PageSize * PageCount \in Nat
        BY LoaderAssumption, SMTT(30)
      <4>4. e.vaddr + i <= PageSize * PageCount - 1
        BY <2>3, <3>1, <4>1, <4>2, <4>3
      <4> QED BY <3>1, <4>3, <4>4 DEF Addresses
    <3>3. e.vaddr + i < CopyStart(s)
      BY <2>1, <2>3, <2>4, <3>1
    <3> QED BY <1>4, <2>4, <3>1, <3>2, <3>3
  <2>8. SegmentCopied(k)'
    BY <1>1, <2>2, <2>7 DEF SegmentCopied
  <2> QED BY <2>6, <2>8
<1>7. ASSUME NEW k \in 1..(segment' - 1)
      PROVE  SegmentGranted(k)' /\ SegmentCopied(k)'
  <2>1. k = n \/ k \in 1..(n - 1)
    BY <1>1, <1>3
  <2> QED BY <1>6, <2>1, SegmentLoaded
<1>8. ASSUME NEW p \in Pages, flags'[p] # {}
      PROVE  \E k \in 1..(segment' - 1) : p \in PagesTouched(file.segments[k].vaddr, file.segments[k].memsz)
  <2>1. CASE p \in PagesTouched(s.vaddr, s.memsz)
    <3>1. n \in 1..(segment' - 1)
      BY <1>1, <1>3
    <3> QED BY <2>1, <3>1
  <2>2. CASE p \notin PagesTouched(s.vaddr, s.memsz)
    <3>1. flags[p] # {}
      BY <1>4, <1>8, <2>2
    <3>2. PICK k \in 1..(n - 1) : p \in PagesTouched(file.segments[k].vaddr, file.segments[k].memsz)
      BY <1>1, <3>1 DEF SegmentsInv, Mapped
    <3>3. k \in 1..(segment' - 1)
      BY <1>1, <1>3
    <3> QED BY <3>2, <3>3
  <2> QED BY <2>1, <2>2
<1>9. ImageBase' = ImageBase /\ ImageSize' = ImageSize /\ ImagePages' = ImagePages
  BY <1>1 DEF ImageBase, ImageSize, ImagePages, LowestAddress, HighestEnd, Loads, BssSet
<1>10. segment' \in 1..(Len(file'.segments) + 1)
  BY <1>1, <1>3
<1>11. /\ base = ImageBase /\ size = ImageSize /\ ImageBase + ImageSize <= PageSize * PageCount
       /\ \A p \in ImagePages : owner[p] = "image"
  BY <1>1 DEF SegmentsInv, Mapped
<1> QED BY <1>1, <1>7, <1>8, <1>9, <1>10, <1>11 DEF SegmentsInv, ContentsLoaded

\* The .bss section is cleared behind the bytes of every segment, in the pages
\* of one that is to be written.
LEMMA ClearBssSegments ==
    ASSUME SegmentsInv, file \in Files, Linked(file), ClearBss, phase' = "loaded"
    PROVE  SegmentsInv'
<1> DEFINE b == file.bss
           n == segment - 1
<1>1. /\ phase = "segments" /\ segment \notin Loads /\ b # <<>>
      /\ UNCHANGED <<file, segment, base, size, owner>>
      /\ memory' = [a \in Addresses |-> IF a \in Cleared(b) THEN 0 ELSE memory[a]]
      /\ flags' = [p \in Pages |-> IF p \in PagesTouched(b.vaddr, b.memsz)
                                   THEN {"M", "R", "W"} ELSE flags[p]]
      /\ protection' = [p \in Pages |->
                           IF p \in KernelPages(PageDown(b.vaddr), b.memsz)
                           THEN {"R", "W"} ELSE protection[p]]
  BY DEF ClearBss
<1>2. Len(file.segments) \in Nat /\ segment = Len(file.segments) + 1 /\ n = Len(file.segments)
      /\ Loads = 1..(segment - 1)
  <2>1. Len(file.segments) \in Nat
    BY FilesAssumption
  <2>2. segment \in 1..(Len(file.segments) + 1)
    BY <1>1 DEF SegmentsInv, Mapped
  <2> QED BY <1>1, <2>1, <2>2 DEF Loads
<1>3. /\ base = ImageBase /\ size = ImageSize /\ ImageBase + ImageSize <= PageSize * PageCount
      /\ \A p \in ImagePages : owner[p] = "image"
      /\ \A k \in Loads : SegmentGranted(k) /\ SegmentCopied(k)
      /\ \A p \in Pages : flags[p] # {} =>
            \E k \in Loads : p \in PagesTouched(file.segments[k].vaddr, file.segments[k].memsz)
  BY <1>1, <1>2 DEF SegmentsInv, Mapped
<1>4. PICK d \in Loads : EndsIn(b, file.segments[d])
  BY <1>1 DEF Linked, Loads
<1> DEFINE s == file.segments[d]
<1>5. /\ s.vaddr \in Nat /\ s.memsz \in Nat /\ s.filesz \in 0..s.memsz /\ End(s) = s.vaddr + s.memsz
      /\ b.vaddr = s.vaddr + s.filesz /\ b.memsz = s.memsz - s.filesz /\ s.flags = {"R", "W"}
      /\ d \in Nat
  BY <1>4, SegmentFacts DEF EndsIn
<1>6. /\ b.vaddr \in Nat /\ b.memsz \in Nat /\ b.vaddr + b.memsz = End(s) /\ s.vaddr <= b.vaddr
  BY <1>5
<1>7. PagesTouched(b.vaddr, b.memsz) \subseteq PagesTouched(s.vaddr, s.memsz)
  <2> SUFFICES ASSUME NEW p \in PagesTouched(b.vaddr, b.memsz) PROVE p \in PagesTouched(s.vaddr, s.memsz)
    OBVIOUS
  <2>1. p \in Pages
    BY DEF PagesTouched
  <2>2. PageDown(b.vaddr) <= p * PageSize /\ p * PageSize < b.vaddr + b.memsz
    BY <1>6, <2>1, TouchedBy
  <2>3. PageDown(s.vaddr) <= PageDown(b.vaddr)
    BY <1>5, <1>6, BoundariesAscend
  <2>4. PageDown(s.vaddr) <= p * PageSize
    BY <1>5, <1>6, <2>1, <2>2, <2>3, Boundary, PageAddress
  <2> QED BY <1>5, <1>6, <2>1, <2>2, <2>4, TouchedBy
<1>8. KernelPages(PageDown(b.vaddr), b.memsz) \subseteq PagesTouched(s.vaddr, s.memsz)
  BY <1>6, <1>7, KernelReach
\* Which segment of two comes first does not matter.
<1>9. ASSUME NEW k \in Loads, k # d
      PROVE  LET e == file.segments[k] IN
             /\ \A p \in PagesTouched(e.vaddr, e.memsz) : p \notin PagesTouched(s.vaddr, s.memsz)
             /\ End(e) <= s.vaddr \/ End(s) <= e.vaddr
  <2>1. k \in 1..(d - 1) \/ d \in 1..(k - 1)
    BY <1>2, <1>4, <1>9
  <2>2. CASE k \in 1..(d - 1)
    <3>1. CopyStart(s) \in Nat
      BY <1>5, Boundary DEF CopyStart
    <3>2. End(file.segments[k]) = file.segments[k].vaddr + file.segments[k].memsz
          /\ file.segments[k].vaddr \in Nat /\ file.segments[k].memsz \in Nat
      BY SegmentFacts
    <3> QED BY <1>4, <1>5, <2>2, <3>1, <3>2, SegmentsApart
  <2>3. CASE d \in 1..(k - 1)
    <3>1. file.segments[k].vaddr \in Nat
      BY SegmentFacts
    <3>2. CopyStart(file.segments[k]) \in Nat
      BY <3>1, Boundary DEF CopyStart
    <3>3. /\ End(s) <= CopyStart(file.segments[k]) /\ CopyStart(file.segments[k]) <= file.segments[k].vaddr
          /\ \A p \in PagesTouched(s.vaddr, s.memsz) :
                p \notin PagesTouched(file.segments[k].vaddr, file.segments[k].memsz)
      BY <2>3, SegmentsApart
    <3>4. End(s) <= file.segments[k].vaddr
      BY <1>5, <3>1, <3>2, <3>3
    <3> QED BY <3>3, <3>4
  <2> QED BY <2>1, <2>2, <2>3
<1>10. ASSUME NEW k \in Loads
       PROVE  SegmentGranted(k)'
  <2> DEFINE e == file.segments[k]
  <2>1. SegmentGranted(k)
    BY <1>3
  <2>2. CASE k = d
    <3>1. ASSUME NEW p \in PagesTouched(e.vaddr, e.memsz)
          PROVE  flags'[p] = {"R", "W"} \union {"M"} /\ {"R", "W"} \subseteq protection'[p]
      <4>1. p \in Pages
        BY DEF PagesTouched
      <4>2. flags[p] = {"R", "W"} \union {"M"} /\ {"R", "W"} \subseteq protection[p]
        BY <1>5, <2>1, <2>2 DEF SegmentGranted
      <4> QED BY <1>1, <4>1, <4>2
    <3>2. e.flags = {"R", "W"}
      BY <1>5, <2>2
    <3>3. \A p \in PagesTouched(e.vaddr, e.memsz) :
             /\ flags'[p] = e.flags \union {"M"}
             /\ e.flags \intersect {"R", "W"} \subseteq protection'[p]
             /\ "W" \in e.flags
      BY <3>1, <3>2
    <3> QED BY <1>1, <3>3 DEF SegmentGranted, Missed, FinalPages, KernelPages, CopyStart
  <2>3. CASE k # d
    <3>1. ASSUME NEW p \in PagesTouched(e.vaddr, e.memsz)
          PROVE  flags'[p] = flags[p] /\ protection'[p] = protection[p]
      <4>1. p \in Pages
        BY DEF PagesTouched
      <4>2. p \notin PagesTouched(s.vaddr, s.memsz)
        BY <1>9, <2>3
      <4> QED BY <1>1, <1>7, <1>8, <4>1, <4>2
    <3> QED BY <1>1, <2>1, <3>1 DEF SegmentGranted, Missed, FinalPages, KernelPages, CopyStart
  <2> QED BY <2>2, <2>3
<1>11. ASSUME NEW p \in Pages, flags'[p] # {}
       PROVE  \E k \in Loads : p \in PagesTouched(file.segments[k].vaddr, file.segments[k].memsz)
  <2>1. CASE p \in PagesTouched(b.vaddr, b.memsz)
    BY <1>4, <1>7, <2>1
  <2>2. CASE p \notin PagesTouched(b.vaddr, b.memsz)
    BY <1>1, <1>3, <1>11, <2>2
  <2> QED BY <2>1, <2>2
<1>12. ASSUME NEW k \in Loads, NEW i \in 0..(file.segments[k].memsz - 1)
       PROVE  memory'[file.segments[k].vaddr + i] = IF i < file.segments[k].filesz
                                                    THEN file.segments[k].off + i + 1 ELSE 0
  <2> DEFINE e == file.segments[k]
             a == e.vaddr + i
  <2>1. /\ e.vaddr \in Nat /\ e.memsz \in Nat /\ e.filesz \in 0..e.memsz /\ End(e) = e.vaddr + e.memsz
        /\ e.filesz # e.memsz => EndsIn(b, e)
    BY SegmentFacts
  <2>2. a \in Nat /\ a < End(e)
    BY <2>1
  <2>3. a \in Addresses
    <3>1. ImageBase + ImageSize \in Nat
      BY ImageEnd
    <3>2. PageSize * PageCount \in Nat
      BY LoaderAssumption, SMTT(30)
    <3>3. End(e) <= ImageBase + ImageSize
      BY ImageHolds
    <3>4. a <= PageSize * PageCount - 1
      <4> HIDE DEF a
      <4> QED BY <1>3, <2>1, <2>2, <3>1, <3>2, <3>3
    <3> QED BY <2>2, <3>2, <3>4 DEF Addresses
  <2>4. CASE i < e.filesz
    <3>1. memory[a] = e.off + i + 1
      <4>1. i \in 0..(e.filesz - 1)
        BY <2>1, <2>4
      <4> QED BY <1>3, <4>1 DEF SegmentCopied
    <3>2. a \notin Cleared(b)
      <4>1. CASE k = d
        BY <1>5, <2>1, <2>4, <4>1 DEF Cleared
      <4>2. CASE k # d
        <5>1. End(e) <= s.vaddr \/ End(s) <= e.vaddr
          BY <1>9, <4>2
        <5>2. Cleared(b) = b.vaddr..(End(s) - 1)
          BY <1>6 DEF Cleared, End
        <5>3. CASE End(e) <= s.vaddr
          <6>1. a < b.vaddr
            <7> HIDE DEF a
            <7> QED BY <1>5, <1>6, <2>1, <2>2, <5>3
          <6> QED BY <5>2, <6>1, <1>6, <2>2
        <5>4. CASE End(s) <= e.vaddr
          <6>1. End(s) <= a /\ End(s) \in Nat
            BY <1>5, <2>1, <5>4
          <6> QED BY <5>2, <6>1, <1>6, <2>2
        <5> QED BY <5>1, <5>3, <5>4
      <4> QED BY <4>1, <4>2
    <3> HIDE DEF a
    <3>3. memory'[a] = memory[a]
      BY <1>1, <2>3, <3>2
    <3> QED BY <2>4, <3>1, <3>3 DEF a
  <2>5. CASE ~(i < e.filesz)
    <3>1. e.filesz # e.memsz
      BY <2>1, <2>5
    <3>2. b.vaddr = e.vaddr + e.filesz /\ b.memsz = e.memsz - e.filesz
      BY <2>1, <3>1 DEF EndsIn
    <3>3. a \in Cleared(b)
      BY <2>1, <2>5, <3>2 DEF Cleared, End
    <3> HIDE DEF a
    <3>4. memory'[a] = 0
      BY <1>1, <2>3, <3>3
    <3> QED BY <2>5, <3>4 DEF a
  <2> QED BY <2>4, <2>5
<1>13. ASSUME NEW k \in Loads PROVE SegmentCopied(k)'
  <2> SUFFICES ASSUME NEW i \in 0..(file.segments[k].filesz - 1)
               PROVE  memory'[file.segments[k].vaddr + i] = file.segments[k].off + i + 1
    BY <1>1 DEF SegmentCopied
  <2>1. file.segments[k].memsz \in Nat /\ file.segments[k].filesz \in 0..file.segments[k].memsz
    BY SegmentFacts
  <2>2. i \in 0..(file.segments[k].memsz - 1) /\ i < file.segments[k].filesz
    BY <2>1
  <2> QED BY <1>12, <2>2
<1>14. ContentsLoaded'
  BY <1>1, <1>12 DEF ContentsLoaded, Loads
<1>15. ImageBase' = ImageBase /\ ImageSize' = ImageSize /\ ImagePages' = ImagePages
  BY <1>1 DEF ImageBase, ImageSize, ImagePages, LowestAddress, HighestEnd, Loads, BssSet
<1>16. segment' \in 1..(Len(file'.segments) + 1) /\ segment' = Len(file'.segments) + 1
       /\ Loads = 1..(segment' - 1)
  BY <1>1, <1>2
<1> QED BY <1>1, <1>3, <1>10, <1>11, <1>13, <1>14, <1>15, <1>16 DEF SegmentsInv

LEMMA SegmentsStep ==
    ASSUME SegmentsInv, file \in Files, Linked(file), [Next]_vars
    PROVE  SegmentsInv'
<1>1. CASE MapImage
  BY <1>1, MapImageSegments
<1>2. CASE LoadSegment
  BY <1>2, LoadSegmentSegments
<1>3. CASE ClearBss
  <2>1. CASE phase' = "loaded"
    BY <1>3, <2>1, ClearBssSegments
  <2>2. CASE phase' # "loaded"
    <3>1. phase' = "crashed" /\ UNCHANGED <<file, segment, base, size, memory, protection, flags>>
      BY <1>3, <2>2 DEF ClearBss
    <3> QED BY <3>1, SegmentsElsewhere DEF Mapped
  <2> QED BY <2>1, <2>2
<1>4. CASE NoBss
  <2>1. /\ phase = "segments" /\ phase' = "loaded" /\ segment \notin Loads /\ file.bss = <<>>
        /\ UNCHANGED <<file, segment, base, size, memory, protection, flags, owner>>
    BY <1>4 DEF NoBss
  <2>2. segment = Len(file.segments) + 1
    <3>1. Len(file.segments) \in Nat
      BY FilesAssumption
    <3>2. segment \in 1..(Len(file.segments) + 1)
      BY <2>1 DEF SegmentsInv, Mapped
    <3> QED BY <2>1, <3>1, <3>2 DEF Loads
  <2>3. Loads = 1..(segment - 1)
    BY <2>2, FilesAssumption DEF Loads
  <2>4. ASSUME NEW k \in Loads, NEW i \in 0..(file.segments[k].memsz - 1)
        PROVE  memory[file.segments[k].vaddr + i] = IF i < file.segments[k].filesz
                                                    THEN file.segments[k].off + i + 1 ELSE 0
    <3>1. file.segments[k].filesz = file.segments[k].memsz /\ file.segments[k].memsz \in Nat
      BY <2>1, SegmentFacts
    <3>2. SegmentCopied(k)
      BY <2>1, <2>3 DEF SegmentsInv, Mapped
    <3> QED BY <3>1, <3>2 DEF SegmentCopied
  <2>5. ContentsLoaded'
    BY <2>1, <2>4 DEF ContentsLoaded, Loads
  <2>6. ImageBase' = ImageBase /\ ImageSize' = ImageSize /\ ImagePages' = ImagePages
    BY <2>1 DEF ImageBase, ImageSize, ImagePages, LowestAddress, HighestEnd, Loads, BssSet
  <2>7. \A k : (SegmentGranted(k)' <=> SegmentGranted(k)) /\ (SegmentCopied(k)' <=> SegmentCopied(k))
    BY <2>1 DEF SegmentGranted, SegmentCopied, Missed, FinalPages, KernelPages, CopyStart
  <2>8. phase \in Mapped /\ phase' \in Mapped /\ phase' \notin {"open", "valid"}
    BY <2>1 DEF Mapped
  <2> QED BY <2>1, <2>2, <2>5, <2>6, <2>7, <2>8 DEF SegmentsInv
<1>5. CASE Validate \/ NotStatic \/ BaseAddressTaken
  <2>1. /\ phase \in {"open", "valid"} /\ phase' \notin Mapped
        /\ UNCHANGED <<file, segment, base, size, memory, protection, flags>>
    BY <1>5 DEF Validate, NotStatic, BaseAddressTaken, Mapped
  <2> QED BY <2>1, SegmentsElsewhere
<1>6. CASE Start
  <2>1. /\ phase = "loaded" /\ phase' \in {"running", "crashed"}
        /\ UNCHANGED <<file, segment, base, size, memory, protection, flags>>
    BY <1>6 DEF Start
  <2> QED BY <2>1, SegmentsElsewhere DEF Mapped
\* What a running process does to its memory is not the loader's concern.
<1>7. CASE SystemCall \/ OtherMaps
  <2>1. /\ phase = "running" /\ phase' \in {"running", "crashed", "exited", "faulted"}
    BY <1>7 DEF SystemCall, Forward, Open, Ignore, Fstat, ArchPrctl, Brk, Leave, StoreOrCrash, OtherMaps
  <2> QED BY <2>1 DEF SegmentsInv, Mapped, ContentsLoaded
<1>8. CASE UNCHANGED vars
  BY <1>8, SegmentsElsewhere DEF vars, loaderVars
<1> QED BY <1>1, <1>2, <1>3, <1>4, <1>5, <1>6, <1>7, <1>8 DEF Next, Loading, Load

\* Loading a segment disturbs neither the bytes nor the pages of one that was
\* loaded before, wherever the file is cut into segments (elf.cpp:217-270).
THEOREM ProcessSegments ==
    ASSUME \A f \in Files : Linked(f)
    PROVE  Spec => []SegmentsInv
<1>1. ProcessInv /\ SegmentsInv /\ [Next]_vars => SegmentsInv'
  BY SegmentsStep DEF ProcessInv
<1> QED BY <1>1, InitSegments, ProcessInductive, PTL DEF Spec

\* Of a linked file every byte is where its program header says, and what is
\* .bss is clear, before the guest starts (elf.cpp:233-258, 270).
THEOREM ProcessContentsLoaded ==
    ASSUME \A f \in Files : Linked(f)
    PROVE  Spec => []ContentsLoaded
<1>1. SegmentsInv => ContentsLoaded
  BY DEF SegmentsInv
<1> QED BY <1>1, ProcessSegments, PTL

\* Every page of a linked file has the flags and the protection of its one
\* segment when the guest starts, but for pages the final mprotect misses, and no
\* other page has flags (elf.cpp:217-285).
THEOREM ProcessPagesGranted ==
    ASSUME \A f \in Files : Linked(f)
    PROVE  Spec => []PagesGranted
<1>1. ASSUME SegmentsInv, phase = "loaded", file \in Files
      PROVE  /\ \A k \in Loads : SegmentGranted(k)
             /\ \A p \in Pages : flags[p] # {} =>
                   \E k \in Loads : p \in PagesTouched(file.segments[k].vaddr, file.segments[k].memsz)
  <2>1. segment = Len(file.segments) + 1 /\ Len(file.segments) \in Nat
    BY <1>1, FilesAssumption DEF SegmentsInv
  <2>2. Loads = 1..(segment - 1)
    BY <2>1 DEF Loads
  <2> QED BY <1>1, <2>2 DEF SegmentsInv, Mapped
<1>2. ProcessInv /\ SegmentsInv => PagesGranted
  BY <1>1 DEF ProcessInv, PagesGranted, SegmentGranted
<1> QED BY <1>2, ProcessInductive, ProcessSegments, PTL
=============================================================================
