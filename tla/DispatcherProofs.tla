-------------------------- MODULE DispatcherProofs --------------------------
(***************************************************************************)
(* What holds of the dispatcher for every program, hash function, TLB and  *)
(* return stack size.                                                      *)
(***************************************************************************)
EXTENDS Dispatcher, SequenceTheorems, TLAPS

-----------------------------------------------------------------------------
(* Types that need no invariant *)

\* The offsets on the return stack stay inside the call table: a return never
\* reads a call table entry that does not exist.
RingInTable == \A i \in Ring : ring[i] + 1 \in 1..Len(table)

\* What the code store, the call table and the return stack promise each other.
\* It does not depend on the TLB and so holds even where the TLB goes wrong.
StoreInv == /\ CodeCoherent
            /\ CallsHaveEntries
            /\ TableCoherent
            /\ Len(table) >= 1
            /\ RingInTable

\* What a handler was given: reroute_static finds the exit to overwrite behind
\* the instruction at pc, reroute_return the entry it was called for at t1.
HandlerInv == /\ at = "static" => /\ pc \in 1..top
                                  /\ t3 = ExitTarget(code[pc].x86) /\ t3 # 0
              /\ at = "return" => /\ t1 + 1 \in 1..Len(table)
                                  /\ table[t1 + 1].x86 = t3

Inv == TypeOK /\ StoreInv /\ HandlerInv

LEMMA ImageFacts ==
    ASSUME NEW a \in Image
    PROVE  /\ a \in Guest /\ a + 1 \in Guest /\ a \in Nat /\ a >= 1
           /\ Prog[a].imm \in Guest /\ ExitTarget(a) \in Guest
  BY LastAssumption, ImageAssumption, ProgAssumption DEF Guest, Instructions, ExitTarget

LEMMA GuestFacts ==
    ASSUME NEW x \in Guest
    PROVE  x \in Nat /\ x + 1 \in Nat
  BY LastAssumption DEF Guest

LEMMA InitInv == Init => Inv
<1> SUFFICES ASSUME Init PROVE Inv
  OBVIOUS
<1> USE DEF Init
<1>1. TypeOK
  <2>1. code \in [1..top -> Cell] /\ top \in Nat
    BY DEF Cell
  <2>2. table \in Seq(CallEntry)
    BY LastAssumption DEF CallEntry, Guest
  <2>3. stack \in Seq(Guest)
    BY ArgcAssumption
  <2>4. tlb \in [Slots -> TlbEntry] /\ ring \in [Ring -> Nat] /\ rp \in Ring
    BY LastAssumption, RingAssumption DEF TlbEntry, Guest, Ring
  <2>5. t3 \in Guest /\ paired \in 0..RingSize
    BY EntryAssumption, RingAssumption
  <2> QED
    BY <2>1, <2>2, <2>3, <2>4, <2>5 DEF TypeOK, Handlers
<1>2. StoreInv
  BY DEF StoreInv, CodeCoherent, CallsHaveEntries, TableCoherent, RingInTable, Ring
<1>3. HandlerInv
  BY DEF HandlerInv
<1> QED
  BY <1>1, <1>2, <1>3 DEF Inv

-----------------------------------------------------------------------------
(* One translation *)

\* None of the addresses a new block covers was translated before: every
\* address has at most one translation.
LEMMA BlockIsNew ==
    ASSUME Inv, NEW g \in Image, NEW e \in Image, host[g] = 0, IsEnd(g, e),
           NEW x \in g..e
    PROVE  host[x] = 0 /\ x \in Image
<1>1. g <= e /\ g..e \subseteq Image
  BY DEF IsEnd, Ends
<1>2. CASE x = g
  BY <1>1, <1>2
<1>3. CASE x # g
  <2>1. x - 1 \in g..e /\ g..(x - 1) \subseteq Image /\ x - 1 \in Image /\ (x - 1) + 1 = x
    BY <1>1, <1>3, ImageFacts
  <2>2. SUFFICES ASSUME host[x] # 0 PROVE FALSE
    BY <1>1
  <2>3. x - 1 \in Ends(g)
    BY <2>1, <2>2 DEF Ends
  <2> QED
    BY <2>3, ImageFacts DEF IsEnd
<1> QED
  BY <1>2, <1>3

\* What emitting the block g..e does to the code and to what find() answers.
LEMMA EmitShape ==
    ASSUME Inv, NEW g \in Image, NEW e \in Image, host[g] = 0, IsEnd(g, e),
           EmitCode(g, e)
    PROVE  /\ top' \in Nat /\ top' = top + (e - g + 1) /\ top < top'
           /\ code' \in [1..top' -> Cell]
           /\ \A h \in 1..top : code'[h] = code[h]
           /\ \A h \in (top + 1)..top' :
                 /\ code'[h] = EmittedCell(g, e, h)
                 /\ g + (h - top - 1) \in g..e
           /\ host' \in [Guest -> Nat]
           /\ \A x \in Guest : host'[x] = IF x \in g..e THEN top + 1 + (x - g) ELSE host[x]
           /\ host'[g] = top + 1
           /\ cap' \in Nat
<1> USE DEF Inv, TypeOK
<1>1. /\ g <= e /\ g..e \subseteq Image
      /\ g \in Nat /\ g \in Guest /\ g \in g..e /\ e \in Nat /\ e + 1 \in Guest
  BY ImageFacts DEF IsEnd, Ends
<1>2. top' \in Nat /\ top' = top + (e - g + 1) /\ top < top'
  BY <1>1 DEF EmitCode, TopAfter
<1>3. ASSUME NEW h \in (top + 1)..top'
      PROVE  /\ g + (h - top - 1) \in g..e
             /\ EmittedCell(g, e, h) \in Cell
  <2>1. g + (h - top - 1) \in g..e
    BY <1>1, <1>2
  <2>2. g + (h - top - 1) \in Image
    BY <1>1, <2>1
  <2>3. Len(table) \in Nat
    OBVIOUS
  <2>4. Link(g + (h - top - 1), e) \in Nat
    BY <1>1 DEF Link
  <2>5. EntryOf(g + (h - top - 1)) \in Nat
    BY <2>3 DEF EntryOf
  <2> QED
    BY <2>1, <2>2, <2>4, <2>5 DEF EmittedCell, Cell
<1>4. code' = [h \in 1..top' |-> IF h <= top THEN code[h] ELSE EmittedCell(g, e, h)]
  BY DEF EmitCode, CodeAfter
<1>5. /\ code' \in [1..top' -> Cell]
      /\ \A h \in 1..top : code'[h] = code[h]
      /\ \A h \in (top + 1)..top' : code'[h] = EmittedCell(g, e, h)
  BY <1>2, <1>3, <1>4
<1>6. /\ host' \in [Guest -> Nat]
      /\ \A x \in Guest : host'[x] = IF x \in g..e THEN top + 1 + (x - g) ELSE host[x]
  BY <1>1 DEF EmitCode, HostAfter, Guest
<1>7. host'[g] = top + 1
  BY <1>1, <1>6
<1>8. cap' \in Nat
  BY DEF EmitCode
<1> QED
  BY <1>2, <1>3, <1>5, <1>6, <1>7, <1>8

\* The code a translation adds is coherent with itself, with what find()
\* answers and with the code that was there.
LEMMA EmitCoherent ==
    ASSUME Inv, NEW g \in Image, NEW e \in Image, host[g] = 0, IsEnd(g, e),
           EmitCode(g, e)
    PROVE  /\ CodeCoherent'
           /\ \A h, x \in Nat : Translates(h, x) => Translates(h, x)'
<1> DEFINE Old == 1..top
           New == (top + 1)..top'
           T(h, x) == h \in 1..top' /\ code'[h].x86 = x
<1>1. /\ g <= e /\ g..e \subseteq Image /\ g \in Nat /\ e \in Nat
      /\ e \in g..e /\ e + 1 \in Guest /\ Image \subseteq Guest /\ Guest \subseteq Nat
  BY ImageFacts DEF IsEnd, Ends, Guest
<1>2. /\ top' \in Nat /\ top' = top + (e - g + 1) /\ top < top'
      /\ \A h \in Old : code'[h] = code[h]
      /\ \A h \in New : /\ code'[h] = EmittedCell(g, e, h)
                        /\ g + (h - top - 1) \in g..e
      /\ \A x \in Guest : host'[x] = IF x \in g..e THEN top + 1 + (x - g) ELSE host[x]
  BY EmitShape
<1>3. ASSUME NEW h \in New
      PROVE  code'[h].x86 = g + (h - top - 1) /\ code'[h].next = Link(g + (h - top - 1), e)
  <2>1. code'[h] = EmittedCell(g, e, h)
    BY <1>2
  <2> QED
    BY <2>1 DEF EmittedCell
<1>4. top \in Nat /\ code \in [1..top -> Cell] /\ host \in [Guest -> Nat] /\ CodeCoherent
  BY DEF Inv, TypeOK, StoreInv
<1> HIDE DEF New
<1>5. \A h, x \in Nat : Translates(h, x) => T(h, x)
  BY <1>2, <1>4 DEF Translates
<1>6. ASSUME NEW x \in Guest, host'[x] # 0 PROVE T(host'[x], x)
  <2>1. CASE x \in g..e
    <3>1. host'[x] = top + 1 + (x - g) /\ host'[x] \in New
      BY <1>1, <1>2, <1>4, <2>1 DEF New
    <3>2. code'[host'[x]].x86 = x
      BY <1>1, <1>3, <1>4, <2>1, <3>1
    <3> QED
      BY <1>2, <1>4, <3>1, <3>2 DEF New
  <2>2. CASE x \notin g..e
    <3>1. host'[x] = host[x] /\ host[x] \in Nat /\ Translates(host[x], x)
      BY <1>2, <1>4, <1>6, <2>2 DEF CodeCoherent
    <3> QED
      BY <1>1, <1>5, <3>1
  <2> QED
    BY <2>1, <2>2
<1>7. ASSUME NEW h \in 1..top'
      PROVE  /\ host'[code'[h].x86] = h
             /\ ~Eob(code'[h].x86) =>
                  T(IF code'[h].next # 0 THEN code'[h].next ELSE h + 1, code'[h].x86 + 1)
  <2>1. CASE h \in Old
    <3>1. code'[h] = code[h] /\ code[h] \in Cell
      BY <1>2, <1>4, <2>1
    <3>2. code[h].x86 \in Guest /\ code[h].next \in Nat /\ host[code[h].x86] = h /\ h \in Nat /\ h # 0
      <4>1. code[h].x86 \in Guest /\ code[h].next \in Nat
        BY <1>1, <3>1 DEF Cell
      <4>2. host[code[h].x86] = h
        BY <1>4, <2>1 DEF CodeCoherent
      <4> QED
        BY <1>4, <2>1, <4>1, <4>2
    <3>3. code[h].x86 \notin g..e
      BY <3>2, BlockIsNew
    <3>4. host'[code'[h].x86] = h
      BY <1>2, <3>1, <3>2, <3>3
    <3>5. ASSUME ~Eob(code[h].x86)
          PROVE  Translates(IF code[h].next # 0 THEN code[h].next ELSE h + 1,
                            code[h].x86 + 1)
      BY <1>4, <2>1, <3>5 DEF CodeCoherent
    <3>6. code[h].x86 + 1 \in Nat /\ h + 1 \in Nat
      BY <3>2, GuestFacts
    <3>7. ~Eob(code[h].x86) =>
             T(IF code[h].next # 0 THEN code[h].next ELSE h + 1, code[h].x86 + 1)
      <4> HIDE DEF T
      <4> QED
        BY <1>5, <3>2, <3>5, <3>6
    <3> QED
      BY <3>1, <3>4, <3>7
  <2>2. CASE h \in New
    <3> DEFINE a == g + (h - top - 1)
    <3>1. a \in g..e /\ a \in Guest /\ a \in Nat /\ code'[h].x86 = a /\ code'[h].next = Link(a, e)
      BY <1>1, <1>2, <1>3, <2>2
    <3>2. host'[a] = h
      <4>1. host'[a] = top + 1 + (a - g)
        BY <1>2, <3>1
      <4> QED
        BY <1>1, <1>2, <1>4, <2>2, <4>1 DEF New
    <3>3. CASE a # e
      <4>1. code'[h].next = 0
        BY <3>1, <3>3 DEF Link
      <4>2. h + 1 \in New /\ h \in Nat
        <5>1. h \in Nat /\ h >= top + 1 /\ g \in Nat /\ e \in Nat /\ top \in Nat
          BY <1>1, <1>2, <1>4, <2>2 DEF New
        <5>2. g + (h - top - 1) < e /\ top' = top + (e - g + 1) /\ top' \in Nat
          BY <1>1, <1>2, <3>1, <3>3
        <5> QED
          BY <5>1, <5>2 DEF New
      <4>3. code'[h + 1].x86 = a + 1
        BY <1>1, <1>3, <1>4, <4>2
      <4>4. h + 1 \in 1..top'
        BY <1>4, <4>2 DEF New
      <4> QED
        BY <3>1, <3>2, <4>1, <4>3, <4>4
    <3>4. CASE a = e /\ ~Eob(e)
      <4>1. host[e + 1] # 0 /\ host[e + 1] \in Nat /\ code'[h].next = host[e + 1]
        BY <1>1, <1>4, <3>1, <3>4 DEF IsEnd, Ends, Link
      <4>2. Translates(host[e + 1], e + 1)
        BY <1>1, <1>4, <4>1 DEF CodeCoherent
      <4>3. T(host[e + 1], e + 1)
        BY <1>1, <1>5, <4>1, <4>2
      <4> QED
        BY <3>1, <3>2, <3>4, <4>1, <4>3
    <3>5. CASE a = e /\ Eob(e)
      BY <3>1, <3>2, <3>5
    <3> QED
      BY <3>3, <3>4, <3>5
  <2> QED
    BY <1>2, <1>4, <2>1, <2>2 DEF New
<1> QED
  BY <1>5, <1>6, <1>7 DEF CodeCoherent, Translates

\* The return address of the call that ends the block, if one does, gets an
\* entry of its own behind the others.
LEMMA TableShape ==
    ASSUME Inv, NEW e \in Image
    PROVE  /\ TableAfter(e) \in Seq(CallEntry)
           /\ Len(TableAfter(e)) >= Len(table)
           /\ \A i \in 1..Len(table) : TableAfter(e)[i] = table[i]
           /\ IsCall(e) => /\ Len(TableAfter(e)) = Len(table) + 1
                           /\ TableAfter(e)[Len(table) + 1] = [x86 |-> e + 1, riscv |-> 0]
           /\ ~IsCall(e) => TableAfter(e) = table
<1>1. table \in Seq(CallEntry) /\ [x86 |-> e + 1, riscv |-> 0] \in CallEntry
  BY ImageFacts DEF Inv, TypeOK, CallEntry
<1> QED
  BY <1>1 DEF TableAfter

\* Writing the host address of one entry leaves the table's shape alone.
LEMMA SaveShape ==
    ASSUME NEW tab \in Seq(CallEntry), NEW i \in Nat, NEW h \in Nat
    PROVE  /\ [tab EXCEPT ![i].riscv = h] \in Seq(CallEntry)
           /\ Len([tab EXCEPT ![i].riscv = h]) = Len(tab)
           /\ \A j \in 1..Len(tab) :
                 /\ [tab EXCEPT ![i].riscv = h][j].x86 = tab[j].x86
                 /\ [tab EXCEPT ![i].riscv = h][j].riscv = IF j = i THEN h ELSE tab[j].riscv
<1> DEFINE new == [tab EXCEPT ![i].riscv = h]
<1>1. Len(tab) \in Nat /\ tab \in [1..Len(tab) -> CallEntry]
  OBVIOUS
<1>2. new \in [1..Len(tab) -> CallEntry]
  BY <1>1 DEF CallEntry
<1>3. new \in Seq(CallEntry) /\ Len(new) = Len(tab)
  BY <1>1, <1>2, IsASeq, LenProperties
<1>4. ASSUME NEW j \in 1..Len(tab)
      PROVE  new[j].x86 = tab[j].x86 /\ new[j].riscv = IF j = i THEN h ELSE tab[j].riscv
  BY <1>1 DEF CallEntry
<1> QED
  BY <1>3, <1>4

\* A translation keeps the promises of the store, and so does a translation
\* whose result is saved in the call table entry of the address translated.
LEMMA EmitStoreInv ==
    ASSUME Inv, NEW g \in Image, NEW e \in Image, host[g] = 0, IsEnd(g, e),
           EmitCode(g, e), UNCHANGED ring,
           \/ table' = TableAfter(e)
           \/ /\ t1 + 1 \in 1..Len(table) /\ table[t1 + 1].x86 = g
              /\ table' = [TableAfter(e) EXCEPT ![t1 + 1].riscv = top + 1]
    PROVE  StoreInv' /\ table' \in Seq(CallEntry)
<1> DEFINE n == Len(table)
           saved(i) == table' # TableAfter(e) /\ i = t1 + 1
<1>1. /\ top \in Nat /\ code \in [1..top -> Cell] /\ t1 \in Nat /\ n \in Nat /\ n >= 1
      /\ table \in Seq(CallEntry) /\ ring \in [Ring -> Nat]
      /\ CodeCoherent /\ CallsHaveEntries /\ TableCoherent /\ RingInTable
  BY DEF Inv, TypeOK, StoreInv
<1>2. /\ TableAfter(e) \in Seq(CallEntry)
      /\ Len(TableAfter(e)) \in Nat /\ Len(TableAfter(e)) >= n
      /\ \A i \in 1..n : TableAfter(e)[i] = table[i]
      /\ IsCall(e) => /\ Len(TableAfter(e)) = n + 1
                      /\ TableAfter(e)[n + 1] = [x86 |-> e + 1, riscv |-> 0]
      /\ ~IsCall(e) => TableAfter(e) = table
  BY TableShape, LenProperties
<1>3. /\ table' \in Seq(CallEntry) /\ Len(table') = Len(TableAfter(e))
      /\ \A i \in 1..Len(table') : table'[i].x86 = TableAfter(e)[i].x86
      /\ \A i \in 1..Len(table') : \/ table'[i].riscv = TableAfter(e)[i].riscv
                                   \/ table'[i].riscv = top + 1 /\ i \in 1..n /\ table[i].x86 = g
  <2>1. CASE table' = TableAfter(e)
    BY <1>2, <2>1
  <2>2. CASE table' # TableAfter(e)
    <3>1. /\ t1 + 1 \in 1..n /\ table[t1 + 1].x86 = g
          /\ table' = [TableAfter(e) EXCEPT ![t1 + 1].riscv = top + 1]
      BY <2>2
    <3>2. t1 + 1 \in Nat /\ top + 1 \in Nat
      BY <1>1
    <3> QED
      BY <1>2, <3>1, <3>2, SaveShape
  <2> QED
    BY <2>1, <2>2
<1>4. /\ CodeCoherent'
      /\ \A h, x \in Nat : Translates(h, x) => Translates(h, x)'
  BY EmitCoherent
<1>5. /\ top' \in Nat /\ top < top' /\ host'[g] = top + 1
      /\ \A h \in 1..top : code'[h] = code[h]
      /\ \A h \in (top + 1)..top' :
            /\ code'[h] = EmittedCell(g, e, h)
            /\ g + (h - top - 1) \in g..e
  BY EmitShape
<1>6. TableCoherent'
  <2> SUFFICES ASSUME NEW i \in 1..Len(table'), table'[i].riscv # 0
               PROVE  Translates(table[i].riscv, table[i].x86)'
    BY DEF TableCoherent
  <2>1. CASE table'[i].riscv = top + 1 /\ i \in 1..n /\ table[i].x86 = g
    <3>1. table'[i].x86 = g
      BY <1>2, <1>3, <2>1
    <3>2. g \in Guest /\ host'[g] # 0
      BY <1>1, <1>5, ImageFacts
    <3> QED
      BY <1>4, <1>5, <2>1, <3>1, <3>2 DEF CodeCoherent
  <2>2. CASE table'[i].riscv = TableAfter(e)[i].riscv
    <3>1. i \in 1..n
      BY <1>1, <1>2, <1>3, <2>2
    <3>2. table'[i].riscv = table[i].riscv /\ table'[i].x86 = table[i].x86
      BY <1>2, <1>3, <2>2, <3>1
    <3>3. Translates(table[i].riscv, table[i].x86) /\ table[i] \in CallEntry
      BY <1>1, <3>1, <3>2 DEF TableCoherent
    <3>4. table[i].riscv \in Nat /\ table[i].x86 \in Nat
      BY <3>3, GuestFacts DEF CallEntry
    <3> QED
      BY <1>4, <3>2, <3>3, <3>4 DEF Translates
  <2> QED
    BY <1>3, <2>1, <2>2
<1>7. CallsHaveEntries'
  <2> SUFFICES ASSUME NEW h \in 1..top', IsCall(code'[h].x86)
               PROVE  /\ code'[h].entry + 1 \in 2..Len(table')
                      /\ table'[code'[h].entry + 1].x86 = code'[h].x86 + 1
    BY DEF CallsHaveEntries
  <2>1. CASE h \in 1..top
    <3>1. /\ code'[h] = code[h] /\ code[h].entry + 1 \in 2..n
          /\ table[code[h].entry + 1].x86 = code[h].x86 + 1
      BY <1>1, <1>5, <2>1 DEF CallsHaveEntries
    <3> QED
      <4> DEFINE i == code[h].entry + 1
      <4>1. i \in 1..n /\ i \in 2..n /\ n <= Len(TableAfter(e)) /\ Len(TableAfter(e)) \in Nat /\ n \in Nat
        BY <1>1, <1>2, <3>1
      <4>2. code'[h].entry + 1 = i /\ table[i].x86 = code[h].x86 + 1 /\ code'[h].x86 = code[h].x86
        BY <3>1
      <4> HIDE DEF i
      <4>3. i \in 2..Len(table') /\ i \in 1..Len(table')
        BY <1>3, <4>1
      <4>4. table'[i].x86 = table[i].x86
        BY <1>2, <1>3, <4>1, <4>3
      <4> QED
        BY <4>2, <4>3, <4>4
  <2>2. CASE h \in (top + 1)..top'
    <3> DEFINE a == g + (h - top - 1)
    <3>1. code'[h] = EmittedCell(g, e, h) /\ a \in g..e
      BY <1>5, <2>2
    <3>2. code'[h].x86 = a /\ code'[h].entry = EntryOf(a)
      BY <3>1 DEF EmittedCell
    <3>3. IsCall(a) /\ Eob(a)
      BY <3>2 DEF IsCall, Eob
    <3>4. a = e
      <4>1. g <= e /\ g..e \subseteq Image /\ g \in Nat /\ e \in Nat /\ a \in Nat
        BY <3>1, ImageFacts DEF IsEnd, Ends
      <4>2. a \in Image /\ g <= a /\ g..a \subseteq Image /\ a <= e
        BY <3>1, <4>1
      <4>3. a \in Ends(g)
        BY <3>3, <4>2 DEF Ends
      <4> QED
        BY <4>1, <4>2, <4>3 DEF IsEnd
    <3>5. code'[h].entry = n
      BY <3>2, <3>3 DEF EntryOf
    <3>6. IsCall(e)
      BY <3>3, <3>4
    <3>7. n + 1 \in 2..Len(table') /\ table'[n + 1].x86 = e + 1
      BY <1>1, <1>2, <1>3, <3>6
    <3> QED
      BY <3>2, <3>4, <3>5, <3>7
  <2> QED
    BY <1>1, <1>5, <2>1, <2>2
<1>8. RingInTable' /\ Len(table') >= 1
  BY <1>1, <1>2, <1>3 DEF RingInTable
<1> QED
  BY <1>3, <1>4, <1>6, <1>7, <1>8 DEF StoreInv

-----------------------------------------------------------------------------
(* One translated instruction *)

\* A step that leaves the store alone keeps what the store promises as long as
\* the return stack still points into the call table.
LEMMA SameStore ==
    ASSUME Inv, UNCHANGED store, RingInTable' PROVE StoreInv'
  BY DEF Inv, StoreInv, store, CodeCoherent, CallsHaveEntries, TableCoherent, Translates

LEMMA SameRing ==
    ASSUME Inv, UNCHANGED <<store, ring>> PROVE StoreInv'
  BY SameStore DEF Inv, StoreInv, store, RingInTable

\* Where control can go from the instruction at pc, and what that leaves in the
\* handlers' registers.
LEMMA TransferTypes ==
    ASSUME Inv, pc \in 1..top, UNCHANGED <<store>>
    PROVE  /\ Here \in Image
           /\ \A h \in Nat : Land(h) =>
                 at' = "host" /\ pc' \in Nat /\ t3' \in Guest /\ t1' \in Nat /\ HandlerInv'
           /\ FallThrough =>
                 at' = "host" /\ pc' \in Nat /\ t3' \in Guest /\ t1' \in Nat /\ HandlerInv'
           /\ \A g \in Guest : Reroute("dynamic", g) =>
                 at' = "dynamic" /\ pc' \in Nat /\ t3' \in Guest /\ t1' \in Nat /\ HandlerInv'
           /\ ExitTarget(Here) # 0 /\ StaticExit(ExitTarget(Here)) =>
                 /\ at' \in {"host", "static"}
                 /\ pc' \in Nat /\ t3' \in Guest /\ t1' \in Nat /\ HandlerInv'
<1>1. pc \in Nat /\ code[pc] \in Cell /\ 0 \in Guest /\ 0 \in Nat
  BY LastAssumption DEF Inv, TypeOK, Guest
<1>2. Here \in Image /\ code[pc].next \in Nat /\ ExitTarget(Here) \in Guest
  BY <1>1, ImageFacts DEF Cell, Here
<1>3. \A h \in Nat : Land(h) =>
         at' = "host" /\ pc' \in Nat /\ t3' \in Guest /\ t1' \in Nat /\ HandlerInv'
  BY <1>1 DEF Land, HandlerInv
<1>4. FallThrough =>
         at' = "host" /\ pc' \in Nat /\ t3' \in Guest /\ t1' \in Nat /\ HandlerInv'
  BY <1>1, <1>2, <1>3 DEF FallThrough
<1>5. \A g \in Guest : Reroute("dynamic", g) =>
         at' = "dynamic" /\ pc' \in Nat /\ t3' \in Guest /\ t1' \in Nat /\ HandlerInv'
  BY <1>1 DEF Reroute, HandlerInv
<1>6. ExitTarget(Here) # 0 /\ Reroute("static", ExitTarget(Here)) =>
         /\ at' \in {"host", "static"}
         /\ pc' \in Nat /\ t3' \in Guest /\ t1' \in Nat /\ HandlerInv'
  BY <1>1, <1>2 DEF Reroute, HandlerInv, store, Here
<1>7. \A h \in DOMAIN exits : exits[h] \in Nat
  BY DEF Inv, TypeOK
<1>8. ExitTarget(Here) # 0 /\ StaticExit(ExitTarget(Here)) =>
         /\ at' \in {"host", "static"}
         /\ pc' \in Nat /\ t3' \in Guest /\ t1' \in Nat /\ HandlerInv'
  BY <1>3, <1>6, <1>7 DEF StaticExit
<1> QED
  BY <1>2, <1>3, <1>4, <1>5, <1>8

LEMMA BranchExitTypes ==
    ASSUME Inv, pc \in 1..top, UNCHANGED <<store>>, BranchExit,
           Kind(Here) \in {"jcc", "jmp", "call"}
    PROVE  /\ at' \in {"host", "static", "dynamic"}
           /\ pc' \in Nat /\ t3' \in Guest /\ t1' \in Nat /\ HandlerInv'
<1>1. CASE Prog[Here].imm # 0
  <2>1. StaticExit(Prog[Here].imm) /\ ExitTarget(Here) = Prog[Here].imm
    BY <1>1 DEF BranchExit, ExitTarget, Kind
  <2> QED
    BY <1>1, <2>1, TransferTypes
<1>2. CASE Prog[Here].imm = 0
  <2>1. PICK g \in Targets : Reroute("dynamic", g)
    BY <1>2 DEF BranchExit
  <2> QED
    BY <2>1, TransferTypes, TargetsAssumption
<1> QED
  BY <1>1, <1>2

\* The guest's stack and the ring after a call or a return.
LEMMA StackTypes ==
    ASSUME Inv
    PROVE  /\ \A w \in Guest : Append(stack, w) \in Seq(Guest)
           /\ stack # << >> => /\ stack[Len(stack)] \in Guest
                               /\ SubSeq(stack, 1, Len(stack) - 1) \in Seq(Guest)
           /\ RingNext \in Ring /\ RingPrev \in Ring
           /\ Len(table) \in Nat
<1>1. stack \in Seq(Guest) /\ rp \in Ring /\ table \in Seq(CallEntry)
  BY DEF Inv, TypeOK
<1>2. RingNext \in Ring /\ RingPrev \in Ring
  BY <1>1, RingAssumption DEF RingNext, RingPrev, Ring
<1> QED
  BY <1>1, <1>2

LEMMA InstructionInv == ASSUME Inv, Instruction PROVE Inv'
<1> USE DEF Ended, Handlers
<1>0. TypeOK /\ Len(table) >= 1 /\ RingInTable /\ CallsHaveEntries /\ 0 \in Guest
  BY LastAssumption DEF Inv, StoreInv, Guest
<1>1. CASE Plain
  BY <1>0, <1>1, SameRing, TransferTypes DEF Plain, Running, Inv, TypeOK, store
<1>2. CASE Push
  <2>1. Prog[Here].imm \in Guest
    BY <1>2, TransferTypes, ImageFacts DEF Push, Running
  <2> QED
    BY <1>0, <1>2, <2>1, SameRing, TransferTypes, StackTypes DEF Push, Running, Inv, TypeOK, store
<1>3. CASE Pop
  BY <1>0, <1>3, SameRing, TransferTypes, StackTypes DEF Pop, Running, Inv, TypeOK, store
<1>4. CASE Jcc
  <2>1. pc \in 1..top /\ Kind(Here) = "jcc" /\ UNCHANGED <<store, ring>> /\ UNCHANGED <<store>>
    BY <1>4 DEF Jcc, Running, Here
  <2>2. /\ at' \in {"host", "static", "dynamic"}
        /\ pc' \in Nat /\ t3' \in Guest /\ t1' \in Nat /\ HandlerInv'
    BY <1>4, <2>1, TransferTypes, BranchExitTypes DEF Jcc
  <2> QED
    BY <1>0, <1>4, <2>1, <2>2, SameRing DEF Jcc, Inv, TypeOK, store
<1>5. CASE Jmp
  <2>1. pc \in 1..top /\ Kind(Here) = "jmp" /\ UNCHANGED <<store, ring>> /\ UNCHANGED <<store>>
    BY <1>5 DEF Jmp, Running, Here
  <2>2. /\ at' \in {"host", "static", "dynamic"}
        /\ pc' \in Nat /\ t3' \in Guest /\ t1' \in Nat /\ HandlerInv'
    BY <1>5, <2>1, BranchExitTypes DEF Jmp
  <2> QED
    BY <1>0, <1>5, <2>1, <2>2, SameRing DEF Jmp, Inv, TypeOK, store
<1>6. CASE Syscall
  <2>1. pc \in 1..top /\ Kind(Here) = "syscall" /\ UNCHANGED <<store, ring>> /\ UNCHANGED <<store>>
    BY <1>6 DEF Syscall, Running, Here
  <2>2. ExitTarget(Here) = Here + 1 /\ Here + 1 # 0
    BY <2>1, TransferTypes, ImageFacts DEF ExitTarget
  <2>3. /\ at' \in {"host", "static"}
        /\ pc' \in Nat /\ t3' \in Guest /\ t1' \in Nat /\ HandlerInv'
    BY <1>6, <2>1, <2>2, TransferTypes DEF Syscall
  <2> QED
    BY <1>0, <1>6, <2>1, <2>3, SameRing DEF Syscall, Inv, TypeOK, store
<1>7. CASE Call
  <2>1. pc \in 1..top /\ Kind(Here) = "call" /\ UNCHANGED <<store>> /\ BranchExit
    BY <1>7 DEF Call, Running, Here
  <2>2. /\ at' \in {"host", "static", "dynamic"}
        /\ pc' \in Nat /\ t3' \in Guest /\ t1' \in Nat /\ HandlerInv'
    BY <2>1, BranchExitTypes
  <2>3. /\ code[pc].entry \in Nat /\ code[pc].entry + 1 \in 1..Len(table)
        /\ table[code[pc].entry + 1] \in CallEntry
    <3>1. code[pc] \in Cell /\ table \in Seq(CallEntry) /\ Len(table) \in Nat
      BY <1>0, <2>1 DEF TypeOK
    <3>2. code[pc].entry + 1 \in 2..Len(table)
      BY <1>0, <2>1 DEF CallsHaveEntries, IsCall, Here
    <3> QED
      BY <3>1, <3>2 DEF Cell
  <2>4. Append(stack, table[code[pc].entry + 1].x86) \in Seq(Guest)
    BY <2>3, StackTypes DEF CallEntry
  <2>5. ring' = [ring EXCEPT ![rp] = code[pc].entry] /\ ring \in [Ring -> Nat] /\ rp \in Ring
    BY <1>0, <1>7 DEF Call, TypeOK
  <2>6. RingInTable'
    BY <1>0, <2>1, <2>3, <2>5 DEF RingInTable, store
  <2>7. paired' \in 0..RingSize
    BY <1>0, <1>7, RingAssumption DEF Call, TypeOK
  <2>8. ring' \in [Ring -> Nat] /\ rp' \in Ring
    BY <1>7, <2>3, <2>5, StackTypes DEF Call
  <2>9. StoreInv'
    BY <2>1, <2>6, SameStore
  <2> QED
    BY <1>0, <1>7, <2>1, <2>2, <2>4, <2>7, <2>8, <2>9 DEF Call, Inv, TypeOK, store
<1>8. CASE Ret
  <2> DEFINE target == stack[Len(stack)]
             entry == table[ring[RingPrev] + 1]
  <2>1. pc \in 1..top /\ UNCHANGED <<store, ring>> /\ UNCHANGED <<store>>
    BY <1>8 DEF Ret, Running
  <2>2. /\ target \in Guest /\ RingPrev \in Ring
        /\ SubSeq(stack, 1, Len(stack) - 1) \in Seq(Guest)
    BY <1>8, StackTypes DEF Ret
  <2>3. ring[RingPrev] \in Nat /\ ring[RingPrev] + 1 \in 1..Len(table) /\ entry \in CallEntry
    <3>1. table \in Seq(CallEntry) /\ ring \in [Ring -> Nat] /\ Len(table) \in Nat
      BY <1>0 DEF TypeOK
    <3> QED
      BY <1>0, <2>2, <3>1 DEF RingInTable
  <2>4. \/ Reroute("dynamic", target)
        \/ Land(entry.riscv)
        \/ /\ entry.x86 = target
           /\ at' = "return" /\ pc' = pc /\ t3' = target /\ t1' = ring[RingPrev]
    BY <1>8 DEF Ret, Mispredicted
  <2>5. /\ at' \in {"host", "dynamic", "return"}
        /\ pc' \in Nat /\ t3' \in Guest /\ t1' \in Nat /\ HandlerInv'
    <3>1. CASE Reroute("dynamic", target)
      BY <2>1, <2>2, <3>1, TransferTypes
    <3>2. CASE Land(entry.riscv)
      BY <2>1, <2>3, <3>2, TransferTypes DEF CallEntry
    <3>3. CASE /\ entry.x86 = target
               /\ at' = "return" /\ pc' = pc /\ t3' = target /\ t1' = ring[RingPrev]
      <4>1. pc \in Nat
        BY <1>0 DEF TypeOK
      <4> QED
        BY <2>1, <2>2, <2>3, <3>3, <4>1 DEF HandlerInv, store
    <3> QED
      BY <2>4, <3>1, <3>2, <3>3
  <2>6. StoreInv'
    BY <2>1, SameRing
  <2>7. paired' \in 0..RingSize /\ rp' \in Ring
    BY <1>0, <1>8, <2>2, RingAssumption DEF Ret, TypeOK
  <2> QED
    BY <1>0, <1>8, <2>1, <2>2, <2>5, <2>6, <2>7 DEF Ret, Inv, TypeOK, store
<1>9. CASE Exit \/ Unsupported \/ Killed
  <2>1. at' \in Ended /\ UNCHANGED <<store, ring>>
        /\ UNCHANGED <<pc, t3, t1, exits, tlb, rp, stack, paired>>
    BY <1>9 DEF Exit, Unsupported, Killed, End
  <2> QED
    BY <1>0, <2>1, SameRing DEF Inv, TypeOK, store, HandlerInv
<1> QED
  BY <1>1, <1>2, <1>3, <1>4, <1>5, <1>6, <1>7, <1>8, <1>9 DEF Instruction

-----------------------------------------------------------------------------
(* One run of a handler *)

\* The first address of the emitted block is what translate() answers.
LEMMA GenerateFacts ==
    ASSUME Inv, NEW g \in Image, NEW e \in Image, host[g] = 0, IsEnd(g, e),
           EmitCode(g, e)
    PROVE  /\ top' \in Nat /\ top <= top'
           /\ code' \in [1..top' -> Cell]
           /\ host' \in [Guest -> Nat]
           /\ host'[g] \in Nat /\ host'[g] = top + 1 /\ host'[g] # 0
           /\ cap' \in Nat
<1>1. top \in Nat
  BY DEF Inv, TypeOK
<1> QED
  BY <1>1, EmitShape

LEMMA TranslateInv ==
    ASSUME Inv, NEW g \in Image, Translate(g), UNCHANGED ring
    PROVE  /\ StoreInv'
           /\ top' \in Nat /\ top <= top'
           /\ code' \in [1..top' -> Cell]
           /\ host' \in [Guest -> Nat] /\ host'[g] \in Nat /\ host'[g] # 0
           /\ table' \in Seq(CallEntry)
           /\ cap' \in Nat
<1>1. CASE Find(g)
  <2>1. UNCHANGED <<store, ring>> /\ host[g] # 0 /\ g \in Guest
    BY <1>1, ImageFacts DEF Find
  <2>2. StoreInv'
    BY <2>1, SameRing
  <2> QED
    BY <2>1, <2>2 DEF store, Inv, TypeOK
<1>2. CASE Generate(g)
  <2>1. PICK e \in Image : IsEnd(g, e) /\ EmitCode(g, e) /\ table' = TableAfter(e)
    BY <1>2 DEF Generate
  <2>2. host[g] = 0
    BY <1>2 DEF Generate
  <2> QED
    BY <2>1, <2>2, GenerateFacts, EmitStoreInv
<1> QED
  BY <1>1, <1>2 DEF Translate

LEMMA SlotFacts ==
    ASSUME Inv, NEW g \in Guest
    PROVE  /\ Hash[g] \in Slots
           /\ tlb[Hash[g]] \in TlbEntry /\ tlb[Hash[g]].riscv \in Nat
  BY TlbAssumption DEF Inv, TypeOK, TlbEntry

LEMMA UpdateTlbType ==
    ASSUME Inv, host'[t3] \in Nat, NEW s \in Slots, NEW key \in Guest,
           UpdateTlb(s, key)
    PROVE  tlb' \in [Slots -> TlbEntry]
  BY DEF Inv, TypeOK, UpdateTlb, TlbEntry

LEMMA UpdateExitsType ==
    ASSUME Inv, pc \in 1..top, top' \in Nat, top <= top',
           NEW h \in Nat, UpdateBasicBlock(h)
    PROVE  DOMAIN exits' \subseteq 1..top' /\ \A x \in DOMAIN exits' : exits'[x] \in Nat
<1>1. top \in Nat /\ DOMAIN exits \subseteq 1..top /\ \A x \in DOMAIN exits : exits[x] \in Nat
  BY DEF Inv, TypeOK
<1> QED
  BY <1>1 DEF UpdateBasicBlock

LEMMA LandTypes ==
    ASSUME NEW h \in Nat, Land(h)
    PROVE  at' = "host" /\ pc' \in Nat /\ t3' \in Guest /\ t1' \in Nat /\ HandlerInv'
  BY LastAssumption DEF Land, HandlerInv, Guest

LEMMA HandlerStepInv == ASSUME Inv, Handler PROVE Inv'
<1>0. TypeOK /\ HandlerInv /\ t3 \in Guest /\ Len(table) >= 1 /\ RingInTable
  BY DEF Inv, TypeOK, StoreInv
<1>1. CASE StaticHit
  <2>1. tlb[Hash[t3]].riscv \in Nat /\ Hash[t3] \in Slots /\ UNCHANGED <<store, ring>>
    BY <1>0, <1>1, SlotFacts DEF StaticHit
  <2>2. top' = top /\ top \in Nat /\ pc \in 1..top
    BY <1>0, <1>1, <2>1 DEF store, TypeOK, HandlerInv, StaticHit
  <2>3. DOMAIN exits' \subseteq 1..top' /\ \A x \in DOMAIN exits' : exits'[x] \in Nat
    BY <1>1, <2>1, <2>2, UpdateExitsType DEF StaticHit
  <2>4. at' = "host" /\ pc' \in Nat /\ t3' \in Guest /\ t1' \in Nat /\ HandlerInv'
    BY <1>1, <2>1, LandTypes DEF StaticHit
  <2> QED
    BY <1>0, <1>1, <2>1, <2>3, <2>4, SameRing DEF StaticHit, Inv, TypeOK, store
<1>2. CASE StaticMiss
  <2>1. t3 \in Image /\ Translate(t3) /\ UNCHANGED ring /\ pc \in 1..top
    BY <1>0, <1>2 DEF StaticMiss, Translate, Find, Generate, HandlerInv
  <2>2. /\ StoreInv' /\ top' \in Nat /\ top <= top'
        /\ code' \in [1..top' -> Cell]
        /\ host' \in [Guest -> Nat] /\ host'[t3] \in Nat
        /\ table' \in Seq(CallEntry) /\ cap' \in Nat
    BY <2>1, TranslateInv
  <2>3. tlb' \in [Slots -> TlbEntry]
    BY <1>0, <1>2, <2>2, SlotFacts, UpdateTlbType DEF StaticMiss
  <2>4. DOMAIN exits' \subseteq 1..top' /\ \A x \in DOMAIN exits' : exits'[x] \in Nat
    BY <1>2, <2>1, <2>2, UpdateExitsType DEF StaticMiss
  <2>5. at' = "host" /\ pc' \in Nat /\ t3' \in Guest /\ t1' \in Nat /\ HandlerInv'
    BY <1>2, <2>2, LandTypes DEF StaticMiss
  <2> QED
    BY <1>0, <1>2, <2>2, <2>3, <2>4, <2>5 DEF StaticMiss, Inv, TypeOK
<1>3. CASE DynamicHit
  <2>1. tlb[Hash[t3]].riscv \in Nat /\ Hash[t3] \in Slots /\ UNCHANGED <<store, ring>>
    BY <1>0, <1>3, SlotFacts DEF DynamicHit
  <2>2. at' = "host" /\ pc' \in Nat /\ t3' \in Guest /\ t1' \in Nat /\ HandlerInv'
    BY <1>3, <2>1, LandTypes DEF DynamicHit
  <2> QED
    BY <1>0, <1>3, <2>1, <2>2, SameRing DEF DynamicHit, Inv, TypeOK, store
<1>4. CASE DynamicMiss
  <2>1. t3 \in Image /\ Translate(t3) /\ UNCHANGED ring
    BY <1>4 DEF DynamicMiss, Translate, Find, Generate
  <2>2. /\ StoreInv' /\ top' \in Nat /\ top <= top'
        /\ code' \in [1..top' -> Cell]
        /\ host' \in [Guest -> Nat] /\ host'[t3] \in Nat
        /\ table' \in Seq(CallEntry) /\ cap' \in Nat
    BY <2>1, TranslateInv
  <2>3. tlb' \in [Slots -> TlbEntry]
    BY <1>0, <1>4, <2>2, SlotFacts, UpdateTlbType DEF DynamicMiss
  <2>4. at' = "host" /\ pc' \in Nat /\ t3' \in Guest /\ t1' \in Nat /\ HandlerInv'
    BY <1>4, <2>2, LandTypes DEF DynamicMiss
  <2>5. DOMAIN exits' \subseteq 1..top' /\ \A x \in DOMAIN exits' : exits'[x] \in Nat
    BY <1>0, <1>4, <2>2 DEF DynamicMiss, TypeOK
  <2> QED
    BY <1>0, <1>4, <2>2, <2>3, <2>4, <2>5 DEF DynamicMiss, Inv, TypeOK
<1>5. CASE ReturnHit
  <2>1. tlb[Hash[t3]].riscv \in Nat /\ Hash[t3] \in Slots /\ UNCHANGED <<store, ring>>
    BY <1>0, <1>5, SlotFacts DEF ReturnHit
  <2>2. at' = "host" /\ pc' \in Nat /\ t3' \in Guest /\ t1' \in Nat /\ HandlerInv'
    BY <1>5, <2>1, LandTypes DEF ReturnHit
  <2> QED
    BY <1>0, <1>5, <2>1, <2>2, SameRing DEF ReturnHit, Inv, TypeOK, store
<1>6. CASE ReturnFind
  <2>1. /\ t1 + 1 \in 1..Len(table) /\ table[t1 + 1].x86 = t3 /\ t1 + 1 \in Nat
        /\ host[t3] \in Nat /\ host[t3] # 0 /\ table \in Seq(CallEntry)
        /\ table' = [table EXCEPT ![t1 + 1].riscv = host[t3]]
        /\ UNCHANGED <<top, code, host, cap, ring>>
    BY <1>0, <1>6 DEF ReturnFind, HandlerInv, SaveReturn, TypeOK
  <2>2. /\ table' \in Seq(CallEntry) /\ Len(table') = Len(table)
        /\ \A j \in 1..Len(table) :
              /\ table'[j].x86 = table[j].x86
              /\ table'[j].riscv = IF j = t1 + 1 THEN host[t3] ELSE table[j].riscv
    BY <2>1, SaveShape
  <2>3. StoreInv'
    <3>1. CodeCoherent'
      BY <2>1 DEF Inv, StoreInv, CodeCoherent, Translates
    <3>2. CallsHaveEntries'
      <4> SUFFICES ASSUME NEW h \in 1..top, IsCall(code[h].x86)
                   PROVE  /\ code[h].entry + 1 \in 2..Len(table)
                          /\ table'[code[h].entry + 1].x86 = code[h].x86 + 1
        BY <2>1, <2>2 DEF CallsHaveEntries
      <4>1. /\ code[h].entry + 1 \in 2..Len(table)
            /\ table[code[h].entry + 1].x86 = code[h].x86 + 1
        BY DEF Inv, StoreInv, CallsHaveEntries
      <4>2. Len(table) \in Nat
        BY <2>1
      <4> QED
        BY <2>2, <4>1, <4>2
    <3>3. TableCoherent'
      <4>1. Translates(host[t3], t3)
        BY <1>0, <2>1 DEF Inv, StoreInv, CodeCoherent
      <4> QED
        BY <2>1, <2>2, <4>1 DEF Inv, StoreInv, TableCoherent, Translates
    <3>4. RingInTable' /\ Len(table') >= 1
      BY <1>0, <2>1, <2>2 DEF RingInTable
    <3> QED
      BY <3>1, <3>2, <3>3, <3>4 DEF StoreInv
  <2>4. tlb' \in [Slots -> TlbEntry]
    BY <1>0, <1>6, <2>1, SlotFacts, UpdateTlbType DEF ReturnFind
  <2>5. at' = "host" /\ pc' \in Nat /\ t3' \in Guest /\ t1' \in Nat /\ HandlerInv'
    BY <1>6, <2>1, LandTypes DEF ReturnFind
  <2> QED
    BY <1>0, <1>6, <2>1, <2>2, <2>3, <2>4, <2>5 DEF ReturnFind, Inv, TypeOK
<1>7. CASE ReturnGenerate
  <2>1. PICK e \in Image :
          /\ IsEnd(t3, e) /\ EmitCode(t3, e)
          /\ \/ /\ SaveReturn(TableAfter(e), top + 1)
                /\ UpdateTlb(Hash[t3], t3)
             \/ /\ table' = TableAfter(e)
                /\ \E key \in FreedReads \cup {t3} : UpdateTlb(Hash[t3], key)
    BY <1>7 DEF ReturnGenerate
  <2>2. t3 \in Image /\ host[t3] = 0 /\ UNCHANGED ring /\ Land(top + 1) /\ UNCHANGED <<exits, rp, stack, paired>>
    BY <1>7 DEF ReturnGenerate
  <2>3. t1 + 1 \in 1..Len(table) /\ table[t1 + 1].x86 = t3
    BY <1>0, <1>7 DEF ReturnGenerate, HandlerInv
  <2>4. StoreInv' /\ table' \in Seq(CallEntry)
    BY <2>1, <2>2, <2>3, EmitStoreInv DEF SaveReturn
  <2>5. /\ top' \in Nat /\ top <= top'
        /\ code' \in [1..top' -> Cell]
        /\ host' \in [Guest -> Nat] /\ host'[t3] \in Nat
        /\ cap' \in Nat /\ top + 1 \in Nat
    BY <1>0, <2>1, <2>2, GenerateFacts DEF TypeOK
  <2>6. tlb' \in [Slots -> TlbEntry]
    BY <1>0, <2>1, <2>5, SlotFacts, UpdateTlbType, FreedAssumption
  <2>7. at' = "host" /\ pc' \in Nat /\ t3' \in Guest /\ t1' \in Nat /\ HandlerInv'
    BY <2>2, <2>5, LandTypes
  <2>8. DOMAIN exits' \subseteq 1..top' /\ \A x \in DOMAIN exits' : exits'[x] \in Nat
    BY <1>0, <2>2, <2>5 DEF TypeOK
  <2> QED
    BY <1>0, <2>2, <2>4, <2>5, <2>6, <2>7, <2>8 DEF Inv, TypeOK
<1>8. CASE Fault
  <2>1. at' = "fault" /\ UNCHANGED <<store, ring>>
        /\ UNCHANGED <<pc, t3, t1, exits, tlb, rp, stack, paired>>
    BY <1>8 DEF Fault, End
  <2> QED
    BY <1>0, <2>1, SameRing DEF Inv, TypeOK, store, HandlerInv, Ended, Handlers
<1> QED
  BY <1>1, <1>2, <1>3, <1>4, <1>5, <1>6, <1>7, <1>8 DEF Handler

-----------------------------------------------------------------------------
LEMMA NextInv == Inv /\ [Next]_vars => Inv'
<1> SUFFICES ASSUME Inv, [Next]_vars PROVE Inv'
  OBVIOUS
<1>1. CASE Instruction
  BY <1>1, InstructionInv
<1>2. CASE Handler
  BY <1>2, HandlerStepInv
<1>3. CASE Terminated \/ UNCHANGED vars
  <2>1. UNCHANGED vars
    BY <1>3 DEF Terminated
  <2>2. UNCHANGED <<store, ring>> /\ UNCHANGED <<at, pc, t3, t1, exits, tlb, rp, stack, paired>>
    BY <2>1 DEF vars
  <2> QED
    BY <2>2, SameRing DEF Inv, TypeOK, store, HandlerInv
<1> QED
  BY <1>1, <1>2, <1>3 DEF Next

\* Type correctness of the dispatcher's registers, caches and stacks.
THEOREM TypeCorrect == Spec => []TypeOK
<1>1. Inv => TypeOK
  BY DEF Inv
<1> QED
  BY <1>1, InitInv, NextInv, PTL DEF Spec

\* Whatever the freed memory of a moved call table holds, and whatever address
\* the guest jumps to: find() answers with a translation of the address it was
\* asked for, no address has two, and blocks that run into each other are
\* linked to the right one.
THEOREM CodeStaysCoherent == Spec => []CodeCoherent
<1>1. Inv => CodeCoherent
  BY DEF Inv, StoreInv
<1> QED
  BY <1>1, InitInv, NextInv, PTL DEF Spec

\* The call table sends returns to translations of their own return addresses.
THEOREM TableStaysCoherent == Spec => []TableCoherent
<1>1. Inv => TableCoherent
  BY DEF Inv, StoreInv
<1> QED
  BY <1>1, InitInv, NextInv, PTL DEF Spec

\* Every translated call has its own entry with its own return address.
THEOREM CallsKeepEntries == Spec => []CallsHaveEntries
<1>1. Inv => CallsHaveEntries
  BY DEF Inv, StoreInv
<1> QED
  BY <1>1, InitInv, NextInv, PTL DEF Spec

-----------------------------------------------------------------------------
(* The TLB and the exits.  A freed CallEntry that is read back unchanged   *)
(* (FreedReads = {}) is what they need: with any other value the TLB maps  *)
(* an address to the translation of another one.                           *)

\* A TLB slot still holds its two zeros, or leads to a translation of its key.
TlbInv == \A s \in Slots : \/ tlb[s] = [x86 |-> 0, riscv |-> 0]
                           \/ Translates(tlb[s].riscv, tlb[s].x86)

CacheInv == Inv /\ TlbInv /\ ExitsCoherent

\* Translations stay where they are: what translated an address before a step
\* still translates it afterwards.
LEMMA TranslatesForever ==
    ASSUME Inv, [Next]_vars
    PROVE  /\ \A h, x \in Nat : Translates(h, x) => Translates(h, x)'
           /\ \A h \in 1..top : code'[h] = code[h]
           /\ \A x \in Guest : host[x] # 0 => host'[x] = host[x]
           /\ top \in Nat /\ top' \in Nat /\ top <= top'
<1> DEFINE Goal == /\ \A h, x \in Nat : Translates(h, x) => Translates(h, x)'
                   /\ \A h \in 1..top : code'[h] = code[h]
                   /\ \A x \in Guest : host[x] # 0 => host'[x] = host[x]
                   /\ top <= top'
<1>0. top \in Nat /\ top' \in Nat
  BY NextInv DEF Inv, TypeOK
<1>1. CASE UNCHANGED <<top, code, host>>
  BY <1>0, <1>1 DEF Translates
<1>2. ASSUME NEW g \in Image, NEW e \in Image, host[g] = 0, IsEnd(g, e), EmitCode(g, e)
      PROVE  Goal
  <2>1. \A x \in Guest : host[x] # 0 => host'[x] = host[x]
    <3> SUFFICES ASSUME NEW x \in Guest, host[x] # 0 PROVE host'[x] = host[x]
      OBVIOUS
    <3>1. x \notin g..e
      BY <1>2, BlockIsNew
    <3> QED
      BY <1>2, <3>1, EmitShape
  <2>2. \A h, x \in Nat : Translates(h, x) => Translates(h, x)'
    BY <1>2, EmitCoherent
  <2>3. (\A h \in 1..top : code'[h] = code[h]) /\ top <= top'
    BY <1>0, <1>2, EmitShape
  <2> QED
    BY <2>1, <2>2, <2>3
<1>3. ASSUME NEW g \in Image, Translate(g) PROVE Goal
  <2>1. CASE Find(g)
    BY <1>1, <2>1 DEF Find, store
  <2>2. CASE Generate(g)
    BY <1>2, <2>2 DEF Generate
  <2> QED
    BY <1>3, <2>1, <2>2 DEF Translate
<1>4. CASE Instruction
  <2>1. UNCHANGED <<top, code, host>>
    BY <1>4 DEF Instruction, Plain, Push, Pop, Jcc, Jmp, Syscall, Call, Ret, Exit,
                Unsupported, Killed, End, store
  <2> QED
    BY <1>0, <1>1, <2>1
<1>5. CASE StaticHit \/ DynamicHit \/ ReturnHit \/ ReturnFind \/ Fault
  <2>1. UNCHANGED <<top, code, host>>
    BY <1>5 DEF StaticHit, DynamicHit, ReturnHit, ReturnFind, Fault, End, store
  <2> QED
    BY <1>0, <1>1, <2>1
<1>6. CASE StaticMiss \/ DynamicMiss
  <2>1. t3 \in Image /\ Translate(t3)
    BY <1>6 DEF StaticMiss, DynamicMiss, Translate, Find, Generate
  <2> QED
    BY <1>0, <1>3, <2>1
<1>7. CASE ReturnGenerate
  <2>1. PICK e \in Image : IsEnd(t3, e) /\ EmitCode(t3, e)
    BY <1>7 DEF ReturnGenerate
  <2>2. t3 \in Image /\ host[t3] = 0
    BY <1>7 DEF ReturnGenerate
  <2> QED
    BY <1>0, <1>2, <2>1, <2>2
<1>8. CASE Terminated \/ UNCHANGED vars
  <2>1. UNCHANGED <<top, code, host>>
    BY <1>8 DEF Terminated, vars, store
  <2> QED
    BY <1>0, <1>1, <2>1
<1> QED
  BY <1>4, <1>5, <1>6, <1>7, <1>8 DEF Next, Handler

\* A slot that is written with its own address and what translate() answered.
LEMMA UpdateTlbInv ==
    ASSUME Inv, TlbInv, [Next]_vars, host'[t3] # 0, t3 \in Guest,
           UpdateTlb(Hash[t3], t3)
    PROVE  TlbInv'
<1> SUFFICES ASSUME NEW s \in Slots
             PROVE  \/ tlb'[s] = [x86 |-> 0, riscv |-> 0]
                    \/ Translates(tlb[s].riscv, tlb[s].x86)'
  BY DEF TlbInv
<1>1. /\ tlb \in [Slots -> TlbEntry] /\ tlb[s] \in TlbEntry
      /\ tlb[s].riscv \in Nat /\ tlb[s].x86 \in Nat
  BY GuestFacts DEF Inv, TypeOK, TlbEntry
<1>2. CASE s = Hash[t3]
  <2>1. tlb'[s].x86 = t3 /\ tlb'[s].riscv = host'[t3]
    BY <1>1, <1>2 DEF UpdateTlb, TlbEntry
  <2>2. CodeCoherent'
    BY NextInv DEF Inv, StoreInv
  <2>3. host'[t3] \in 1..top' /\ code'[host'[t3]].x86 = t3
    BY <2>2 DEF CodeCoherent, Translates
  <2> QED
    BY <2>1, <2>3 DEF Translates
<1>3. CASE s # Hash[t3]
  <2>1. tlb'[s] = tlb[s]
    BY <1>1, <1>3 DEF UpdateTlb
  <2>2. Translates(tlb[s].riscv, tlb[s].x86) =>
          tlb[s].riscv \in 1..top' /\ code'[tlb[s].riscv].x86 = tlb[s].x86
    BY <1>1, TranslatesForever DEF Translates
  <2> QED
    BY <2>1, <2>2 DEF TlbInv, Translates
<1> QED
  BY <1>2, <1>3

LEMMA SameTlbInv ==
    ASSUME Inv, TlbInv, [Next]_vars, UNCHANGED tlb PROVE TlbInv'
<1> SUFFICES ASSUME NEW s \in Slots
             PROVE  \/ tlb'[s] = [x86 |-> 0, riscv |-> 0]
                    \/ Translates(tlb[s].riscv, tlb[s].x86)'
  BY DEF TlbInv
<1>1. tlb[s].riscv \in Nat /\ tlb[s].x86 \in Nat
  BY GuestFacts DEF Inv, TypeOK, TlbEntry
<1>2. Translates(tlb[s].riscv, tlb[s].x86) =>
        tlb[s].riscv \in 1..top' /\ code'[tlb[s].riscv].x86 = tlb[s].x86
  BY <1>1, TranslatesForever DEF Translates
<1> QED
  BY <1>2 DEF TlbInv, Translates

\* Exits that were overwritten before a step still go where they went.
LEMMA SameExitsInv ==
    ASSUME Inv, ExitsCoherent, [Next]_vars, NEW x \in DOMAIN exits
    PROVE  /\ x \in 1..top' /\ code'[x] = code[x]
           /\ exits[x] \in 1..top' /\ code'[exits[x]].x86 = ExitTarget(code'[x].x86)
<1>1. /\ x \in 1..top /\ exits[x] \in Nat /\ code[x] \in Cell
      /\ Translates(exits[x], ExitTarget(code[x].x86))
  BY DEF Inv, TypeOK, ExitsCoherent
<1>2. ExitTarget(code[x].x86) \in Nat
  BY <1>1, ImageFacts, GuestFacts DEF Cell
<1>3. code'[x] = code[x] /\ x \in 1..top'
  BY <1>1, TranslatesForever
<1> QED
  BY <1>1, <1>2, <1>3, TranslatesForever DEF Translates

\* An exit that has just been overwritten with a translation of its target.
LEMMA UpdateExitsInv ==
    ASSUME Inv, ExitsCoherent, [Next]_vars, pc \in 1..top,
           NEW h \in Nat, UpdateBasicBlock(h),
           h \in 1..top', code'[h].x86 = ExitTarget(code[pc].x86)
    PROVE  ExitsCoherent'
<1> SUFFICES ASSUME NEW x \in DOMAIN exits'
             PROVE  /\ x \in 1..top' /\ exits'[x] \in 1..top'
                    /\ code'[exits'[x]].x86 = ExitTarget(code'[x].x86)
  BY DEF ExitsCoherent, Translates
<1>1. DOMAIN exits' = DOMAIN exits \cup {pc} /\ exits'[x] = IF x = pc THEN h ELSE exits[x]
  BY DEF UpdateBasicBlock
<1>2. CASE x = pc
  BY <1>1, <1>2, TranslatesForever
<1>3. CASE x # pc
  BY <1>1, <1>3, SameExitsInv
<1> QED
  BY <1>2, <1>3

LEMMA CacheStep ==
    ASSUME FreedReads = {}, CacheInv, [Next]_vars PROVE CacheInv'
<1>0. Inv /\ TlbInv /\ ExitsCoherent /\ Inv' /\ t3 \in Guest
  BY NextInv DEF CacheInv, Inv, TypeOK
<1>1. CASE UNCHANGED <<tlb, exits>>
  <2>1. TlbInv'
    BY <1>0, <1>1, SameTlbInv
  <2>2. ExitsCoherent'
    BY <1>0, <1>1, SameExitsInv DEF ExitsCoherent, Translates
  <2> QED
    BY <1>0, <2>1, <2>2 DEF CacheInv
<1>2. CASE StaticHit
  <2> DEFINE h == tlb[Hash[t3]].riscv
  <2>1. pc \in 1..top /\ t3 = ExitTarget(code[pc].x86) /\ t3 # 0
    BY <1>0, <1>2 DEF StaticHit, Inv, HandlerInv
  <2>2. Hash[t3] \in Slots /\ h \in Nat /\ tlb[Hash[t3]].x86 = t3
    BY <1>0, <1>2, SlotFacts DEF StaticHit, InTlb
  <2>3. Translates(h, t3)
    BY <1>0, <2>1, <2>2 DEF TlbInv
  <2>4. t3 \in Nat
    BY <1>0, GuestFacts
  <2>5. h \in 1..top' /\ code'[h].x86 = t3
    BY <1>0, <2>2, <2>3, <2>4, TranslatesForever DEF Translates
  <2>6. UpdateBasicBlock(h) /\ UNCHANGED tlb
    BY <1>2 DEF StaticHit
  <2>7. ExitsCoherent'
    BY <1>0, <2>1, <2>2, <2>5, <2>6, UpdateExitsInv
  <2> QED
    BY <1>0, <2>6, <2>7, SameTlbInv DEF CacheInv
<1>3. CASE StaticMiss
  <2>1. pc \in 1..top /\ t3 = ExitTarget(code[pc].x86)
    BY <1>0, <1>3 DEF StaticMiss, Inv, HandlerInv
  <2>2. t3 \in Image /\ Translate(t3) /\ UNCHANGED ring
    BY <1>3 DEF StaticMiss, Translate, Find, Generate
  <2>3. host'[t3] # 0 /\ host'[t3] \in Nat /\ CodeCoherent'
    BY <1>0, <2>2, TranslateInv DEF StoreInv
  <2>4. host'[t3] \in 1..top' /\ code'[host'[t3]].x86 = t3
    BY <1>0, <2>3 DEF CodeCoherent, Translates
  <2>5. UpdateBasicBlock(host'[t3]) /\ UpdateTlb(Hash[t3], t3)
    BY <1>3 DEF StaticMiss
  <2>6. ExitsCoherent'
    BY <1>0, <2>1, <2>3, <2>4, <2>5, UpdateExitsInv
  <2> QED
    BY <1>0, <2>3, <2>5, <2>6, UpdateTlbInv DEF CacheInv
<1>4. CASE DynamicMiss
  <2>1. t3 \in Image /\ Translate(t3) /\ UNCHANGED <<ring, exits>> /\ UpdateTlb(Hash[t3], t3)
    BY <1>4 DEF DynamicMiss, Translate, Find, Generate
  <2>2. host'[t3] # 0
    BY <1>0, <2>1, TranslateInv
  <2>3. ExitsCoherent'
    BY <1>0, <2>1, SameExitsInv DEF ExitsCoherent, Translates
  <2> QED
    BY <1>0, <2>1, <2>2, <2>3, UpdateTlbInv DEF CacheInv
<1>5. CASE ReturnFind
  <2>1. host'[t3] # 0 /\ UNCHANGED exits /\ UpdateTlb(Hash[t3], t3)
    BY <1>5 DEF ReturnFind
  <2>2. ExitsCoherent'
    BY <1>0, <2>1, SameExitsInv DEF ExitsCoherent, Translates
  <2> QED
    BY <1>0, <2>1, <2>2, UpdateTlbInv DEF CacheInv
<1>6. CASE ReturnGenerate
  <2>1. PICK e \in Image : IsEnd(t3, e) /\ EmitCode(t3, e) /\ UpdateTlb(Hash[t3], t3)
    BY <1>6 DEF ReturnGenerate
  <2>2. t3 \in Image /\ host[t3] = 0 /\ UNCHANGED exits
    BY <1>6 DEF ReturnGenerate
  <2>3. host'[t3] # 0
    BY <1>0, <2>1, <2>2, GenerateFacts
  <2>4. ExitsCoherent'
    BY <1>0, <2>2, SameExitsInv DEF ExitsCoherent, Translates
  <2> QED
    BY <1>0, <2>1, <2>3, <2>4, UpdateTlbInv DEF CacheInv
<1>7. CASE Instruction \/ DynamicHit \/ ReturnHit \/ Fault \/ Terminated \/ UNCHANGED vars
  <2>1. UNCHANGED <<tlb, exits>>
    BY <1>7 DEF Instruction, Plain, Push, Pop, Jcc, Jmp, Syscall, Call, Ret, Exit, Unsupported,
                Killed, End, DynamicHit, ReturnHit, Fault, Terminated, vars
  <2> QED
    BY <1>1, <2>1
<1> QED
  BY <1>2, <1>3, <1>4, <1>5, <1>6, <1>7 DEF Next, Handler

LEMMA InitCacheInv == Init => CacheInv
  BY InitInv DEF Init, CacheInv, TlbInv, ExitsCoherent

\* While the memory of a moved call table is not reused, the TLB always sends
\* an x86 address to a translation of that address.
THEOREM TlbStaysCoherent == FreedReads = {} => (Spec => []TlbCoherent)
<1> SUFFICES ASSUME FreedReads = {} PROVE Spec => []TlbCoherent
  OBVIOUS
<1>1. CacheInv => TlbCoherent
  BY DEF CacheInv, TlbInv, TlbCoherent
<1>2. CacheInv /\ [Next]_vars => CacheInv'
  BY CacheStep
<1> QED
  BY <1>1, <1>2, InitCacheInv, PTL DEF Spec

\* Under the same condition every exit update_basic_block has overwritten goes
\* to the translation of the target it was generated for.
THEOREM ExitsStayCoherent == FreedReads = {} => (Spec => []ExitsCoherent)
<1> SUFFICES ASSUME FreedReads = {} PROVE Spec => []ExitsCoherent
  OBVIOUS
<1>1. CacheInv => ExitsCoherent
  BY DEF CacheInv
<1>2. CacheInv /\ [Next]_vars => CacheInv'
  BY CacheStep
<1> QED
  BY <1>1, <1>2, InitCacheInv, PTL DEF Spec

\* Under the same condition nothing that was handed out is taken back: code and
\* what find() answers never change, nor does an exit once it is overwritten,
\* however often its old words still reach reroute_static.
THEOREM NothingRetracted == FreedReads = {} => (Spec => NeverRetracted)
<1> SUFFICES ASSUME FreedReads = {} PROVE Spec => NeverRetracted
  OBVIOUS
<1> DEFINE Kept == /\ \A g \in Guest : host[g] # 0 => host'[g] = host[g]
                   /\ \A h \in 1..top : code'[h] = code[h]
                   /\ \A h \in DOMAIN exits : h \in DOMAIN exits' /\ exits'[h] = exits[h]
<1>1. ASSUME CacheInv, [Next]_vars PROVE [Kept]_vars
  <2>1. /\ Inv /\ ExitsCoherent /\ Inv' /\ ExitsCoherent' /\ CodeCoherent'
        /\ code' \in [1..top' -> Cell]
    BY <1>1, CacheStep DEF CacheInv, Inv, StoreInv, TypeOK
  <2>2. ASSUME NEW h \in DOMAIN exits PROVE h \in DOMAIN exits' /\ exits'[h] = exits[h]
    <3>1. CASE UNCHANGED exits
      BY <3>1
    <3>2. CASE \E x \in Nat : UpdateBasicBlock(x)
      <4>1. h \in DOMAIN exits'
        BY <3>2 DEF UpdateBasicBlock
      <4>2. /\ exits'[h] \in 1..top'
            /\ code'[exits'[h]].x86 = ExitTarget(code'[h].x86)
        BY <2>1, <4>1 DEF ExitsCoherent, Translates
      <4>3. /\ exits[h] \in 1..top'
            /\ code'[exits[h]].x86 = ExitTarget(code'[h].x86)
        BY <1>1, <2>1, SameExitsInv
      <4> QED
        BY <2>1, <4>1, <4>2, <4>3 DEF CodeCoherent
    <3>3. t3 \in Guest
      BY <2>1 DEF Inv, TypeOK
    <3>4. CASE StaticHit
      <4>1. tlb[Hash[t3]].riscv \in Nat
        BY <2>1, <3>3, SlotFacts
      <4> QED
        BY <3>2, <3>4, <4>1 DEF StaticHit
    <3>5. CASE StaticMiss
      <4>1. host'[t3] \in Nat
        BY <2>1, <3>3 DEF Inv, TypeOK
      <4> QED
        BY <3>2, <3>5, <4>1 DEF StaticMiss
    <3> QED
      BY <1>1, <3>1, <3>4, <3>5
      DEF Next, Handler, Instruction, Plain, Push, Pop, Jcc, Jmp, Syscall, Call, Ret, Exit,
          Unsupported, Killed, End, DynamicHit, DynamicMiss, ReturnHit, ReturnFind,
          ReturnGenerate, Fault, Terminated, vars
  <2> QED
    BY <1>1, <2>1, <2>2, TranslatesForever
<1>2. CacheInv /\ [Next]_vars => CacheInv'
  BY CacheStep
<1> QED
  BY <1>1, <1>2, InitCacheInv, PTL DEF Spec, NeverRetracted

-----------------------------------------------------------------------------
(* A guest that never jumps to address 0 *)

\* No register that is jumped through and no word that is pushed is 0.
NoNull == /\ 0 \notin Targets
          /\ \A a \in Image : Kind(a) = "push" => Prog[a].imm # 0

\* Then no handler is given 0, which every empty TLB slot matches.
NullInv == /\ at \in Handlers => t3 # 0
           /\ at = "host" => t3 = 0
           /\ \A i \in 1..Len(stack) : stack[i] # 0

\* Control never reaches a host address without translated code.
PcValid == at = "host" => pc \in 1..top
PcInv == CacheInv /\ NullInv /\ PcValid

LEMMA InitPcInv == Init => PcInv
<1> SUFFICES ASSUME Init PROVE PcInv
  OBVIOUS
<1>1. CacheInv
  BY InitCacheInv
<1>2. NullInv
  BY EntryAssumption, ArgcAssumption DEF Init, NullInv, Handlers
<1>3. PcValid
  BY DEF Init, PcValid
<1> QED
  BY <1>1, <1>2, <1>3 DEF PcInv

\* Control goes on inside the translated code, or leaves it with an address
\* that is not 0.
Safe == /\ at' = "host" => pc' \in 1..top' /\ t3' = 0
        /\ at' \in Handlers => t3' # 0

LEMMA FallThroughSafe ==
    ASSUME Inv, pc \in 1..top, ~Eob(Here), FallThrough, UNCHANGED store
    PROVE  Safe
<1>1. Translates(IF code[pc].next # 0 THEN code[pc].next ELSE pc + 1, Here + 1)
  BY DEF Inv, StoreInv, CodeCoherent, Here
<1> QED
  BY <1>1 DEF FallThrough, Land, Translates, Safe, Handlers, store

LEMMA BranchExitSafe ==
    ASSUME CacheInv, NoNull, pc \in 1..top, BranchExit, UNCHANGED store
    PROVE  Safe
<1>1. CASE Prog[Here].imm # 0
  <2>1. CASE pc \in DOMAIN exits /\ Land(exits[pc])
    BY <2>1 DEF CacheInv, ExitsCoherent, Translates, Land, Safe, Handlers, store
  <2>2. CASE Reroute("static", Prog[Here].imm)
    BY <1>1, <2>2 DEF Reroute, Safe
  <2> QED
    BY <1>1, <2>1, <2>2 DEF BranchExit, StaticExit
<1>2. CASE Prog[Here].imm = 0
  BY <1>2 DEF BranchExit, Reroute, Safe, NoNull
<1> QED
  BY <1>1, <1>2

LEMMA InstructionSafe ==
    ASSUME PcInv, NoNull, Instruction PROVE Safe
<1>0. CacheInv /\ Inv /\ NullInv /\ TypeOK
  BY DEF PcInv, CacheInv, Inv
<1>1. CASE Plain \/ Push \/ Pop
  <2>1. pc \in 1..top /\ ~Eob(Here) /\ FallThrough /\ UNCHANGED store
    BY <1>1 DEF Plain, Push, Pop, Running, Here, Eob
  <2> QED
    BY <1>0, <2>1, FallThroughSafe
<1>2. CASE Jcc
  <2>1. pc \in 1..top /\ ~Eob(Here) /\ (FallThrough \/ BranchExit) /\ UNCHANGED store
    BY <1>2 DEF Jcc, Running, Here, Eob
  <2> QED
    BY <1>0, <2>1, FallThroughSafe, BranchExitSafe
<1>3. CASE Jmp
  BY <1>0, <1>3, BranchExitSafe DEF Jmp, Running
<1>4. CASE Call
  <2>1. pc \in 1..top /\ BranchExit /\ UNCHANGED store
    BY <1>4 DEF Call, Running
  <2> QED
    BY <1>0, <2>1, BranchExitSafe
<1>5. CASE Syscall
  <2>1. pc \in 1..top /\ Kind(Here) = "syscall" /\ StaticExit(Here + 1) /\ UNCHANGED store
    BY <1>5 DEF Syscall, Running, Here
  <2>2. code[pc] \in Cell /\ Here + 1 # 0
    BY <1>0, <2>1, ImageFacts DEF TypeOK, Cell, Here
  <2>3. CASE pc \in DOMAIN exits /\ Land(exits[pc])
    BY <1>0, <2>1, <2>3 DEF CacheInv, ExitsCoherent, Translates, Land, Safe, Handlers, store
  <2>4. CASE Reroute("static", Here + 1)
    BY <2>2, <2>4 DEF Reroute, Safe
  <2> QED
    BY <2>1, <2>3, <2>4 DEF StaticExit
<1>6. CASE Ret
  <2> DEFINE target == stack[Len(stack)]
             entry == table[ring[RingPrev] + 1]
  <2>1. stack # << >> /\ UNCHANGED store
    BY <1>6 DEF Ret
  <2>2. target # 0
    <3>1. Len(stack) \in 1..Len(stack)
      BY <1>0, <2>1 DEF TypeOK
    <3> QED
      BY <1>0, <3>1 DEF NullInv
  <2>3. RingPrev \in Ring
    BY <1>0, RingAssumption DEF RingPrev, Ring, TypeOK
  <2>4. ring[RingPrev] + 1 \in 1..Len(table)
    BY <1>0, <2>3 DEF Inv, StoreInv, RingInTable
  <2>5. CASE Reroute("dynamic", target)
    BY <2>2, <2>5 DEF Reroute, Safe
  <2>6. CASE entry.riscv # 0 /\ Land(entry.riscv)
    BY <1>0, <2>1, <2>4, <2>6
    DEF Inv, StoreInv, TableCoherent, Translates, Land, Safe, Handlers, store
  <2>7. CASE at' = "return" /\ t3' = target
    BY <2>2, <2>7 DEF Safe
  <2> QED
    BY <1>6, <2>5, <2>6, <2>7 DEF Ret
<1>7. CASE Exit \/ Unsupported \/ Killed
  BY <1>7 DEF Exit, Unsupported, Killed, End, Safe, Handlers
<1> QED
  BY <1>1, <1>2, <1>3, <1>4, <1>5, <1>6, <1>7 DEF Instruction

LEMMA HandlerSafe ==
    ASSUME FreedReads = {}, PcInv, NoNull, Handler PROVE Safe
<1>0. CacheInv /\ Inv /\ NullInv /\ TypeOK /\ TlbInv /\ Inv' /\ t3 \in Guest
  BY NextInv DEF PcInv, CacheInv, Inv, TypeOK, Next
<1>1. CASE StaticHit \/ DynamicHit \/ ReturnHit
  <2>1. /\ at \in Handlers /\ tlb[Hash[t3]].x86 = t3
        /\ Land(tlb[Hash[t3]].riscv) /\ UNCHANGED store
    BY <1>1 DEF StaticHit, DynamicHit, ReturnHit, InTlb, Handlers
  <2>2. Translates(tlb[Hash[t3]].riscv, t3)
    BY <1>0, <2>1, SlotFacts DEF NullInv, TlbInv
  <2> QED
    BY <2>1, <2>2 DEF Land, Translates, Safe, Handlers, store
<1>2. CASE StaticMiss \/ DynamicMiss
  <2>1. t3 \in Image /\ Translate(t3) /\ UNCHANGED ring /\ Land(host'[t3])
    BY <1>2 DEF StaticMiss, DynamicMiss, Translate, Find, Generate
  <2>2. host'[t3] # 0
    BY <1>0, <2>1, TranslateInv
  <2> QED
    BY <1>0, <2>1, <2>2
    DEF Land, Safe, Handlers, Inv, StoreInv, CodeCoherent, Translates
<1>3. CASE ReturnFind
  BY <1>0, <1>3
  DEF ReturnFind, Land, Safe, Handlers, Inv, StoreInv, CodeCoherent, Translates
<1>4. CASE ReturnGenerate
  <2>1. PICK e \in Image : IsEnd(t3, e) /\ EmitCode(t3, e)
    BY <1>4 DEF ReturnGenerate
  <2>2. t3 \in Image /\ host[t3] = 0 /\ Land(top + 1)
    BY <1>4 DEF ReturnGenerate
  <2>3. top \in Nat /\ top' \in Nat /\ top < top'
    BY <1>0, <2>1, <2>2, EmitShape DEF TypeOK
  <2> QED
    BY <2>2, <2>3 DEF Land, Safe, Handlers
<1>5. CASE Fault
  BY <1>5 DEF Fault, End, Safe, Handlers
<1> QED
  BY <1>1, <1>2, <1>3, <1>4, <1>5 DEF Handler

\* The guest's stack never holds 0: what is pushed is a return address or an
\* immediate.
LEMMA StackStep ==
    ASSUME PcInv, NoNull, Next
    PROVE  \A i \in 1..Len(stack') : stack'[i] # 0
<1>0. Inv /\ TypeOK /\ stack \in Seq(Guest) /\ \A i \in 1..Len(stack) : stack[i] # 0
  BY DEF PcInv, CacheInv, Inv, TypeOK, NullInv
<1>1. CASE Push
  <2>1. pc \in 1..top /\ Kind(Here) = "push" /\ stack' = Append(stack, Prog[Here].imm)
    BY <1>1 DEF Push, Running, Here
  <2>2. Here \in Image
    BY <1>0, <2>1 DEF TypeOK, Cell, Here
  <2>3. Prog[Here].imm # 0
    BY <2>1, <2>2 DEF NoNull
  <2> QED
    BY <1>0, <2>1, <2>3
<1>2. CASE Call
  <2>1. /\ pc \in 1..top /\ IsCall(Here)
        /\ stack' = Append(stack, table[code[pc].entry + 1].x86)
    BY <1>2 DEF Call, Running, Here, IsCall
  <2>2. table[code[pc].entry + 1].x86 = Here + 1
    BY <1>0, <2>1 DEF Inv, StoreInv, CallsHaveEntries, Here
  <2>3. Here \in Image
    BY <1>0, <2>1 DEF TypeOK, Cell, Here
  <2>4. Here + 1 # 0
    BY <2>3, ImageFacts
  <2> QED
    BY <1>0, <2>1, <2>2, <2>4
<1>3. CASE Pop \/ Ret
  <2>1. stack # << >> /\ stack' = SubSeq(stack, 1, Len(stack) - 1)
    BY <1>3 DEF Pop, Ret
  <2> QED
    BY <1>0, <2>1
<1>4. CASE UNCHANGED stack
  BY <1>0, <1>4
<1> QED
  BY <1>1, <1>2, <1>3, <1>4
  DEF Next, Instruction, Handler, Plain, Jcc, Jmp, Syscall, Exit, Unsupported, Killed, End,
      StaticHit, StaticMiss, DynamicHit, DynamicMiss, ReturnHit, ReturnFind, ReturnGenerate,
      Fault, Terminated, vars

LEMMA PcStep ==
    ASSUME FreedReads = {}, NoNull, PcInv, [Next]_vars PROVE PcInv'
<1>1. CacheInv /\ CacheInv'
  BY CacheStep DEF PcInv
<1>2. CASE UNCHANGED vars
  <2>1. UNCHANGED <<at, pc, t3, stack, top>>
    BY <1>2 DEF vars, store
  <2> QED
    BY <1>1, <2>1 DEF PcInv, NullInv, PcValid
<1>3. CASE Terminated
  <2>1. UNCHANGED <<at, pc, t3, stack, top>>
    BY <1>3 DEF Terminated, vars, store
  <2> QED
    BY <1>1, <2>1 DEF PcInv, NullInv, PcValid
<1>4. CASE Instruction \/ Handler
  <2>1. Safe
    BY <1>4, InstructionSafe, HandlerSafe
  <2>2. \A i \in 1..Len(stack') : stack'[i] # 0
    BY <1>4, StackStep DEF Next
  <2> QED
    BY <1>1, <2>1, <2>2 DEF Safe, PcInv, NullInv, PcValid
<1> QED
  BY <1>2, <1>3, <1>4 DEF Next

\* A guest that does not jump to address 0 never leaves the translated code:
\* every host address control is given, by a link, an exit, the TLB, the call
\* table or translate(), holds a translated instruction.
THEOREM PcStaysValid == FreedReads = {} /\ NoNull => (Spec => []PcValid)
<1> SUFFICES ASSUME FreedReads = {}, NoNull PROVE Spec => []PcValid
  OBVIOUS
<1>1. PcInv => PcValid
  BY DEF PcInv
<1>2. PcInv /\ [Next]_vars => PcInv'
  BY PcStep
<1> QED
  BY <1>1, <1>2, InitPcInv, PTL DEF Spec

-----------------------------------------------------------------------------
(* The refinement: what the translated program does is a run of the guest  *)
(* program.  The three transfers out of an instruction come first.         *)

\* Where an instruction hands control to: the guest is there afterwards.
GoesTo(x) == /\ GuestIp' = x
             /\ GuestStatus' = "run"

LEMMA LandsAt ==
    ASSUME NEW h, NEW x, h \in 1..top', code'[h].x86 = x, Land(h)
    PROVE  GoesTo(x)
  BY DEF Land, GoesTo, GuestIp, GuestStatus, Ended

LEMMA ReroutesTo ==
    ASSUME NEW x, x # 0, NEW handler \in Handlers, at' = handler, t3' = x
    PROVE  GoesTo(x)
  BY DEF Handlers, GoesTo, GuestIp, GuestStatus, Ended

LEMMA FallsTo ==
    ASSUME Inv, pc \in 1..top, ~Eob(Here), FallThrough, UNCHANGED store
    PROVE  GoesTo(Here + 1)
<1> DEFINE h == IF code[pc].next # 0 THEN code[pc].next ELSE pc + 1
<1>1. Translates(h, Here + 1)
  BY DEF Inv, StoreInv, CodeCoherent, Here
<1>2. h \in 1..top' /\ code'[h].x86 = Here + 1
  BY <1>1 DEF Translates, store
<1> QED
  BY <1>2, LandsAt DEF FallThrough

LEMMA StaticGoesTo ==
    ASSUME CacheInv, pc \in 1..top, NEW x, x = ExitTarget(Here), x # 0,
           StaticExit(x), UNCHANGED store
    PROVE  GoesTo(x)
<1>1. CASE pc \in DOMAIN exits /\ Land(exits[pc])
  <2>1. exits[pc] \in 1..top' /\ code'[exits[pc]].x86 = x
    BY <1>1 DEF CacheInv, ExitsCoherent, Translates, Here, store
  <2> QED
    BY <1>1, <2>1, LandsAt
<1>2. CASE Reroute("static", x)
  BY <1>2, ReroutesTo DEF Reroute, Handlers
<1> QED
  BY <1>1, <1>2 DEF StaticExit

LEMMA BranchGoesTo ==
    ASSUME CacheInv, NoNull, pc \in 1..top, Kind(Here) # "syscall",
           BranchExit, UNCHANGED store
    PROVE  \E x \in BranchTargets(Here) : GoesTo(x)
<1>1. CASE Prog[Here].imm # 0
  BY <1>1, StaticGoesTo DEF BranchExit, BranchTargets, ExitTarget
<1>2. CASE Prog[Here].imm = 0
  <2>1. PICK g \in Targets : Reroute("dynamic", g)
    BY <1>2 DEF BranchExit
  <2> QED
    BY <1>2, <2>1, ReroutesTo DEF NoNull, Reroute, BranchTargets, Handlers
<1> QED
  BY <1>1, <1>2

\* A translated instruction does what the x86 instruction does.
LEMMA InstructionRefines ==
    ASSUME PcInv, NoNull, Instruction PROVE GF!Next
<1> USE DEF GF!At, GF!Kind
<1>0. /\ CacheInv /\ Inv /\ NullInv /\ TypeOK
  BY DEF PcInv, CacheInv, Inv
<1>1. at = "host" /\ pc \in 1..top /\ UNCHANGED <<top, code>>
  BY DEF Instruction, Plain, Push, Pop, Jcc, Jmp, Syscall, Call, Ret, Exit, Unsupported,
         Killed, End, Running, store
<1>2. /\ GuestIp = Here /\ GuestStatus = "run" /\ Here \in Image
  BY <1>0, <1>1 DEF NullInv, GuestIp, GuestStatus, Ended, Here, TypeOK, Cell
<1>3. CASE Plain
  <2>1. GoesTo(Here + 1)
    BY <1>0, <1>3, FallsTo DEF Plain, Running, Here, Eob
  <2> QED
    BY <1>2, <1>3, <2>1 DEF Plain, Running, Here, GoesTo, Kind, GF!Sequential, GF!Next
<1>4. CASE Push
  <2>1. GoesTo(Here + 1)
    BY <1>0, <1>4, FallsTo DEF Push, Running, Here, Eob
  <2> QED
    BY <1>2, <1>4, <2>1 DEF Push, Running, Here, GoesTo, Kind, GF!Push, GF!Pushed, GF!Next
<1>5. CASE Pop
  <2>1. GoesTo(Here + 1)
    BY <1>0, <1>5, FallsTo DEF Pop, Running, Here, Eob
  <2> QED
    BY <1>2, <1>5, <2>1 DEF Pop, Running, Here, GoesTo, Kind, GF!Pop, GF!Popped, GF!Next
<1>6. CASE Jcc
  <2>1. pc \in 1..top /\ Kind(Here) = "jcc" /\ UNCHANGED store /\ UNCHANGED stack
    BY <1>6 DEF Jcc, Running, Here
  <2>2. CASE FallThrough
    <3>1. GoesTo(Here + 1)
      BY <1>0, <2>1, <2>2, FallsTo DEF Eob
    <3> QED
      BY <1>2, <2>1, <3>1 DEF GoesTo, Kind, GF!Sequential, GF!Next
  <2>3. CASE BranchExit
    <3>1. PICK x \in BranchTargets(Here) : GoesTo(x)
      BY <1>0, <2>1, <2>3, BranchGoesTo
    <3> QED
      BY <1>2, <2>1, <3>1
      DEF GoesTo, Kind, GF!Branch, GF!BranchTargets, BranchTargets, GF!Next
  <2> QED
    BY <1>6, <2>2, <2>3 DEF Jcc
<1>7. CASE Jmp
  <2>1. pc \in 1..top /\ Kind(Here) = "jmp" /\ BranchExit /\ UNCHANGED store /\ UNCHANGED stack
    BY <1>7 DEF Jmp, Running, Here
  <2>2. PICK x \in BranchTargets(Here) : GoesTo(x)
    BY <1>0, <2>1, BranchGoesTo
  <2> QED
    BY <1>2, <2>1, <2>2
    DEF GoesTo, Kind, GF!Branch, GF!BranchTargets, BranchTargets, GF!Next
<1>8. CASE Call
  <2>1. /\ pc \in 1..top /\ Kind(Here) = "call" /\ BranchExit /\ UNCHANGED store
        /\ Len(stack) < StackSize
        /\ stack' = Append(stack, table[code[pc].entry + 1].x86)
    BY <1>8 DEF Call, Running, Here
  <2>2. table[code[pc].entry + 1].x86 = Here + 1
    BY <1>0, <2>1 DEF Inv, StoreInv, CallsHaveEntries, IsCall, Here
  <2>3. PICK x \in BranchTargets(Here) : GoesTo(x)
    BY <1>0, <2>1, BranchGoesTo
  <2> QED
    BY <1>2, <2>1, <2>2, <2>3
    DEF GoesTo, Kind, GF!Call, GF!Pushed, GF!BranchTargets, BranchTargets, GF!Next
<1>9. CASE Syscall
  <2>1. /\ pc \in 1..top /\ Kind(Here) = "syscall" /\ StaticExit(Here + 1)
        /\ UNCHANGED store /\ UNCHANGED stack
    BY <1>9 DEF Syscall, Running, Here
  <2>2. Here + 1 # 0 /\ Here + 1 = ExitTarget(Here)
    BY <1>2, <2>1, ImageFacts DEF ExitTarget
  <2>3. GoesTo(Here + 1)
    BY <1>0, <2>1, <2>2, StaticGoesTo
  <2> QED
    BY <1>2, <2>1, <2>3 DEF GoesTo, Kind, GF!Sequential, GF!Next
<1>10. CASE Ret
  <2> DEFINE target == stack[Len(stack)]
             entry == table[ring[RingPrev] + 1]
  <2>1. /\ Kind(Here) = "ret" /\ stack # << >> /\ UNCHANGED store
        /\ stack' = SubSeq(stack, 1, Len(stack) - 1)
    BY <1>10 DEF Ret, Running, Here
  <2>2. target # 0
    <3>1. Len(stack) \in 1..Len(stack)
      BY <1>0, <2>1 DEF TypeOK
    <3> QED
      BY <1>0, <3>1 DEF NullInv
  <2>3. RingPrev \in Ring
    BY <1>0, RingAssumption DEF RingPrev, Ring, TypeOK
  <2>4. ring[RingPrev] + 1 \in 1..Len(table)
    BY <1>0, <2>3 DEF Inv, StoreInv, RingInTable
  <2>5. GoesTo(target)
    <3>1. CASE Reroute("dynamic", target)
      BY <2>2, <3>1, ReroutesTo DEF Reroute, Handlers
    <3>2. CASE entry.x86 = target /\ entry.riscv # 0 /\ Land(entry.riscv)
      <4>1. entry.riscv \in 1..top' /\ code'[entry.riscv].x86 = target
        BY <1>0, <2>1, <2>4, <3>2 DEF Inv, StoreInv, TableCoherent, Translates, store
      <4> QED
        BY <3>2, <4>1, LandsAt
    <3>3. CASE at' = "return" /\ t3' = target
      BY <2>2, <3>3, ReroutesTo DEF Handlers
    <3> QED
      BY <1>10, <3>1, <3>2, <3>3 DEF Ret, Mispredicted
  <2> QED
    BY <1>2, <2>1, <2>5 DEF GoesTo, Kind, GF!Ret, GF!Top, GF!Popped, GF!Next
<1>11. CASE Exit \/ Unsupported \/ Killed
  <2>1. UNCHANGED <<GuestIp, stack>>
    BY <1>1, <1>11 DEF Exit, Unsupported, Killed, End, GuestIp, store
  <2>2. CASE Exit
    BY <1>2, <2>1, <2>2
    DEF Exit, End, Running, Here, Kind, GuestStatus, Ended, GF!Exit, GF!Next
  <2>3. CASE Unsupported
    BY <1>2, <2>1, <2>3
    DEF Unsupported, End, Running, Here, Kind, GuestStatus, Ended, GF!Fault, GF!Next
  <2>4. CASE Killed
    BY <1>2, <2>1, <2>4
    DEF Killed, End, Running, Here, Kind, GuestStatus, Ended, GF!Killed, GF!Next
  <2> QED
    BY <1>11, <2>2, <2>3, <2>4
<1> QED
  BY <1>3, <1>4, <1>5, <1>6, <1>7, <1>8, <1>9, <1>10, <1>11 DEF Instruction

\* A reroute handler is invisible, unless the guest is where it cannot go on.
LEMMA HandlerRefines ==
    ASSUME FreedReads = {}, PcInv, NoNull, Handler PROVE [GF!Next]_(GF!vars)
<1>0. CacheInv /\ Inv /\ NullInv /\ TypeOK /\ TlbInv /\ Inv' /\ t3 \in Guest
  BY NextInv DEF PcInv, CacheInv, Inv, TypeOK, Next
<1>1. t3 # 0 /\ GuestIp = t3 /\ GuestStatus = "run"
  BY <1>0 DEF NullInv, Handler, StaticHit, StaticMiss, DynamicHit, DynamicMiss, ReturnHit,
              ReturnFind, ReturnGenerate, Fault, Handlers, GuestIp, GuestStatus, Ended
<1>2. ASSUME GoesTo(t3), UNCHANGED stack PROVE [GF!Next]_(GF!vars)
  BY <1>1, <1>2 DEF GoesTo, GF!vars
<1>3. CASE StaticHit \/ DynamicHit \/ ReturnHit
  <2>1. /\ tlb[Hash[t3]].x86 = t3 /\ Land(tlb[Hash[t3]].riscv)
        /\ UNCHANGED store /\ UNCHANGED stack
    BY <1>3 DEF StaticHit, DynamicHit, ReturnHit, InTlb
  <2>2. Translates(tlb[Hash[t3]].riscv, t3)
    BY <1>0, <1>1, <2>1, SlotFacts DEF TlbInv
  <2>3. GoesTo(t3)
    BY <2>1, <2>2, LandsAt DEF Translates, store
  <2> QED
    BY <1>2, <2>1, <2>3
<1>4. CASE StaticMiss \/ DynamicMiss
  <2>1. t3 \in Image /\ Translate(t3) /\ UNCHANGED <<ring, stack>> /\ Land(host'[t3])
    BY <1>4 DEF StaticMiss, DynamicMiss, Translate, Find, Generate
  <2>2. host'[t3] # 0
    BY <1>0, <2>1, TranslateInv
  <2>3. GoesTo(t3)
    BY <1>0, <2>1, <2>2, LandsAt DEF Inv, StoreInv, CodeCoherent, Translates
  <2> QED
    BY <1>2, <2>1, <2>3
<1>5. CASE ReturnFind
  <2>1. Land(host'[t3]) /\ host'[t3] # 0 /\ UNCHANGED stack
    BY <1>5 DEF ReturnFind
  <2>2. GoesTo(t3)
    BY <1>0, <2>1, LandsAt DEF Inv, StoreInv, CodeCoherent, Translates
  <2> QED
    BY <1>2, <2>1, <2>2
<1>6. CASE ReturnGenerate
  <2>1. PICK e \in Image : IsEnd(t3, e) /\ EmitCode(t3, e)
    BY <1>6 DEF ReturnGenerate
  <2>2. t3 \in Image /\ host[t3] = 0 /\ Land(top + 1) /\ UNCHANGED stack
    BY <1>6 DEF ReturnGenerate
  <2>3. host'[t3] = top + 1 /\ top + 1 # 0
    BY <1>0, <2>1, <2>2, EmitShape DEF TypeOK
  <2>4. GoesTo(t3)
    BY <1>0, <2>2, <2>3, LandsAt DEF Inv, StoreInv, CodeCoherent, Translates
  <2> QED
    BY <1>2, <2>2, <2>4
<1>7. CASE Fault
  <2>1. UNCHANGED <<GuestIp, stack>> /\ GuestStatus' = "fault"
    BY <1>7 DEF Fault, End, GuestIp, GuestStatus, Ended, store
  <2>2. t3 \in Image => RunsOff(t3)
    BY <1>7 DEF Fault, CannotTranslate, Ends, RunsOff
  <2>3. GF!RunsOff(t3) <=> RunsOff(t3)
    BY DEF GF!RunsOff, RunsOff, GF!Eob, Eob, GF!Kind, Kind
  <2> QED
    BY <1>1, <2>1, <2>2, <2>3 DEF GF!Fault, GF!Next
<1> QED
  BY <1>3, <1>4, <1>5, <1>6, <1>7 DEF Handler

LEMMA StepRefines ==
    ASSUME FreedReads = {}, PcInv, NoNull, [Next]_vars PROVE [GF!Next]_(GF!vars)
<1>1. CASE Instruction
  BY <1>1, InstructionRefines
<1>2. CASE Handler
  BY <1>2, HandlerRefines
<1>3. CASE Terminated \/ UNCHANGED vars
  BY <1>3 DEF Terminated, vars, store, GF!vars, GuestIp, GuestStatus
<1> QED
  BY <1>1, <1>2, <1>3 DEF Next

LEMMA InitRefines == Init => GF!Init
  BY EntryAssumption DEF Init, GF!Init, GuestIp, GuestStatus, Ended

\* Whatever was cached, evicted, linked or predicted on the way: a run of the
\* translated program is a run of the guest program.
THEOREM DispatcherRefines == FreedReads = {} /\ NoNull => (Spec => GF!Spec)
<1> SUFFICES ASSUME FreedReads = {}, NoNull PROVE Spec => GF!Spec
  OBVIOUS
<1>1. PcInv /\ [Next]_vars => PcInv'
  BY PcStep
<1>2. PcInv /\ [Next]_vars => [GF!Next]_(GF!vars)
  BY StepRefines
<1> QED
  BY <1>1, <1>2, InitPcInv, InitRefines, PTL DEF Spec, GF!Spec

-----------------------------------------------------------------------------
(* The return stack predicts the guest's returns.                          *)

\* The slot of the return stack i pushes ago.
Slot(r, i) == (r + RingSize - i) % RingSize

LEMMA Wraps ==
    ASSUME NEW n \in Nat, n > 0, NEW x \in 0..(2 * n - 1)
    PROVE  x % n = IF x < n THEN x ELSE x - n
<1>1. CASE x < n
  BY <1>1
<1>2. CASE x >= n
  <2>1. x - n \in 0..(n - 1) /\ x = n + (x - n)
    BY <1>2
  <2> QED
    BY <1>2, <2>1
<1> QED
  BY <1>1, <1>2

LEMMA SlotIs ==
    ASSUME NEW r \in Ring, NEW i \in 1..RingSize
    PROVE  /\ Slot(r, i) = IF i <= r THEN r - i ELSE r + RingSize - i
           /\ Slot(r, i) \in Ring
<1>1. RingSize \in Nat /\ RingSize > 0 /\ r \in Nat /\ r < RingSize
  BY RingAssumption DEF Ring
<1>2. r + RingSize - i \in 0..(2 * RingSize - 1)
  BY <1>1
<1>3. Slot(r, i) = IF r + RingSize - i < RingSize THEN r + RingSize - i
                                                  ELSE (r + RingSize - i) - RingSize
  BY <1>1, <1>2, Wraps DEF Slot
<1> QED
  BY <1>1, <1>3 DEF Ring

\* Pushing and popping shift the slots by one.
LEMMA SlotShifts ==
    ASSUME NEW r \in Ring
    PROVE  /\ (r + 1) % RingSize \in Ring
           /\ (r + RingSize - 1) % RingSize \in Ring
           /\ Slot((r + 1) % RingSize, 1) = r
           /\ \A i \in 1..(RingSize - 1) :
                 /\ Slot((r + 1) % RingSize, i + 1) = Slot(r, i)
                 /\ Slot(r, i) # r
                 /\ Slot((r + RingSize - 1) % RingSize, i) = Slot(r, i + 1)
<1>1. RingSize \in Nat /\ RingSize > 0 /\ r \in Nat /\ r < RingSize
  BY RingAssumption DEF Ring
<1> DEFINE up == (r + 1) % RingSize
           down == (r + RingSize - 1) % RingSize
<1>2. up = IF r + 1 < RingSize THEN r + 1 ELSE 0
  <2>1. r + 1 \in 0..(2 * RingSize - 1)
    BY <1>1
  <2> QED
    BY <1>1, <2>1, Wraps
<1>3. down = IF r = 0 THEN RingSize - 1 ELSE r - 1
  <2>1. r + RingSize - 1 \in 0..(2 * RingSize - 1)
    BY <1>1
  <2> QED
    BY <1>1, <2>1, Wraps
<1> HIDE DEF up, down
<1>4. up \in Ring /\ down \in Ring
  BY <1>1, <1>2, <1>3 DEF Ring
<1>5. Slot(up, 1) = r
  <2>1. Slot(up, 1) = IF 1 <= up THEN up - 1 ELSE up + RingSize - 1
    BY <1>1, <1>4, SlotIs
  <2> QED
    BY <1>1, <1>2, <2>1
<1>6. ASSUME NEW i \in 1..(RingSize - 1)
      PROVE  /\ Slot(up, i + 1) = Slot(r, i) /\ Slot(r, i) # r
             /\ Slot(down, i) = Slot(r, i + 1)
  <2> DEFINE j == i + 1
  <2>1. i \in 1..RingSize /\ j \in 1..RingSize /\ i \in Nat
    BY <1>1
  <2>2. Slot(up, j) = IF j <= up THEN up - j ELSE up + RingSize - j
    BY <1>4, <2>1, SlotIs
  <2>3. Slot(r, i) = IF i <= r THEN r - i ELSE r + RingSize - i
    BY <2>1, SlotIs
  <2>4. Slot(r, j) = IF j <= r THEN r - j ELSE r + RingSize - j
    BY <2>1, SlotIs
  <2>5. Slot(down, i) = IF i <= down THEN down - i ELSE down + RingSize - i
    BY <1>4, <2>1, SlotIs
  <2>6. Slot(up, j) = Slot(r, i)
    BY <1>1, <1>2, <2>1, <2>2, <2>3
  <2>7. Slot(r, i) # r
    BY <1>1, <2>1, <2>3
  <2>8. Slot(down, i) = Slot(r, j)
    BY <1>1, <1>3, <2>1, <2>4, <2>5
  <2> QED
    BY <2>6, <2>7, <2>8
<1> QED
  BY <1>4, <1>5, <1>6 DEF up, down

\* A call table entry keeps its return address, wherever the table moves.
LEMMA AddressesStay ==
    ASSUME Inv, [Next]_vars
    PROVE  /\ Len(table) \in Nat /\ Len(table') \in Nat /\ Len(table) <= Len(table')
           /\ \A i \in 1..Len(table) : table'[i].x86 = table[i].x86
<1> DEFINE Goal == /\ Len(table') \in Nat /\ Len(table) <= Len(table')
                   /\ \A i \in 1..Len(table) : table'[i].x86 = table[i].x86
<1>0. table \in Seq(CallEntry) /\ Len(table) \in Nat
  BY DEF Inv, TypeOK
<1>1. CASE UNCHANGED table
  BY <1>0, <1>1
<1>2. ASSUME NEW e \in Image, table' = TableAfter(e) PROVE Goal
  <2> DEFINE tab == TableAfter(e)
  <2>1. tab \in Seq(CallEntry)
    BY TableShape
  <2>2. Len(tab) >= Len(table) /\ \A i \in 1..Len(table) : tab[i] = table[i]
    BY TableShape
  <2>3. table' = tab
    BY <1>2
  <2> HIDE DEF tab
  <2>4. Len(tab) \in Nat
    BY <2>1
  <2> QED
    BY <1>0, <2>2, <2>3, <2>4
<1>3. ASSUME NEW g \in Image, Translate(g) PROVE Goal
  BY <1>1, <1>2, <1>3 DEF Translate, Find, Generate, store
<1>4. CASE Instruction
  BY <1>1, <1>4 DEF Instruction, Plain, Push, Pop, Jcc, Jmp, Syscall, Call, Ret, Exit,
                    Unsupported, Killed, End, store
<1>5. CASE StaticHit \/ DynamicHit \/ ReturnHit \/ Fault
  BY <1>1, <1>5 DEF StaticHit, DynamicHit, ReturnHit, Fault, End, store
<1>6. CASE StaticMiss \/ DynamicMiss
  <2>1. t3 \in Image /\ Translate(t3)
    BY <1>6 DEF StaticMiss, DynamicMiss, Translate, Find, Generate
  <2> QED
    BY <1>0, <1>3, <2>1
<1>7. ASSUME NEW tab \in Seq(CallEntry), NEW h \in Nat, SaveReturn(tab, h),
             Len(table) <= Len(tab), \A i \in 1..Len(table) : tab[i].x86 = table[i].x86
      PROVE  Goal
  <2>1. t1 + 1 \in Nat
    BY DEF Inv, TypeOK
  <2> DEFINE new == [tab EXCEPT ![t1 + 1].riscv = h]
  <2>2. Len(new) = Len(tab) /\ \A j \in 1..Len(tab) : new[j].x86 = tab[j].x86
    BY <2>1, SaveShape
  <2>3. table' = new /\ Len(tab) \in Nat
    BY <1>7 DEF SaveReturn
  <2> HIDE DEF new
  <2> QED
    BY <1>0, <1>7, <2>2, <2>3
<1>8. CASE ReturnFind
  <2>1. SaveReturn(table, host[t3]) /\ host[t3] \in Nat
    BY <1>8, ImageFacts DEF ReturnFind, Inv, TypeOK
  <2> QED
    BY <1>0, <1>7, <2>1
<1>9. CASE ReturnGenerate
  <2>1. PICK e \in Image : table' = TableAfter(e) \/ SaveReturn(TableAfter(e), top + 1)
    BY <1>9 DEF ReturnGenerate
  <2>2. top + 1 \in Nat
    BY DEF Inv, TypeOK
  <2> DEFINE tab == TableAfter(e)
  <2>3. /\ tab \in Seq(CallEntry) /\ Len(table) <= Len(tab)
        /\ \A i \in 1..Len(table) : tab[i].x86 = table[i].x86
    BY <1>0, TableShape
  <2>4. table' = tab \/ SaveReturn(tab, top + 1)
    BY <2>1
  <2> HIDE DEF tab
  <2>5. CASE table' = tab
    BY <1>0, <2>3, <2>5
  <2>6. CASE SaveReturn(tab, top + 1)
    BY <1>7, <2>2, <2>3, <2>6
  <2> QED
    BY <1>0, <2>4, <2>5, <2>6
<1>10. CASE Terminated \/ UNCHANGED vars
  BY <1>1, <1>10 DEF Terminated, vars, store
<1> QED
  BY <1>0, <1>4, <1>5, <1>6, <1>8, <1>9, <1>10 DEF Next, Handler

\* The newest offsets of the return stack name the entries of the newest return
\* addresses, which are all on the guest's stack.
PairedInv ==
    CallRetOnly =>
        /\ paired <= Len(stack)
        /\ \A i \in 1..paired :
              table[ring[Slot(rp, i)] + 1].x86 = stack[Len(stack) + 1 - i]

LEMMA PairedStays ==
    ASSUME Inv, PairedInv, [Next]_vars, UNCHANGED <<ring, rp, stack, paired>>
    PROVE  PairedInv'
<1>1. paired \in 0..RingSize /\ rp \in Ring /\ RingInTable
  BY DEF Inv, TypeOK, StoreInv
<1>2. ASSUME NEW i \in 1..paired
      PROVE  table'[ring[Slot(rp, i)] + 1].x86 = table[ring[Slot(rp, i)] + 1].x86
  <2>1. i \in 1..RingSize
    BY <1>1, RingAssumption
  <2>2. ring[Slot(rp, i)] + 1 \in 1..Len(table)
    BY <1>1, <2>1, SlotIs DEF RingInTable
  <2> QED
    BY <2>2, AddressesStay
<1>3. \A i : Slot(rp, i)' = Slot(rp, i)
  BY DEF Slot
<1> QED
  BY <1>2, <1>3 DEF PairedInv

LEMMA CallPairs ==
    ASSUME Inv, PairedInv, CallRetOnly, Call
    PROVE  PairedInv'
<1> DEFINE offset == code[pc].entry
           n == Len(stack)
<1>1. /\ paired \in 0..RingSize /\ rp \in Ring /\ ring \in [Ring -> Nat]
      /\ stack \in Seq(Guest) /\ n \in Nat /\ RingSize \in Nat /\ RingSize > 0
  BY RingAssumption DEF Inv, TypeOK
<1>2. /\ rp' = (rp + 1) % RingSize /\ ring' = [ring EXCEPT ![rp] = offset]
      /\ paired' = IF paired < RingSize THEN paired + 1 ELSE RingSize
      /\ table' = table
  BY DEF Call, RingNext, store
<1> DEFINE word == table[offset + 1].x86
<1>3. stack' = Append(stack, word) /\ word \in Guest
  <2>1. stack' = Append(stack, word)
    BY DEF Call
  <2>2. pc \in 1..top /\ IsCall(code[pc].x86)
    BY DEF Call, Running, IsCall
  <2>3. word = code[pc].x86 + 1
    BY <2>2 DEF Inv, StoreInv, CallsHaveEntries
  <2>4. code[pc].x86 \in Image
    BY <2>2 DEF Inv, TypeOK, Cell
  <2> QED
    BY <2>1, <2>3, <2>4, ImageFacts
<1>4. /\ Len(stack') = n + 1 /\ stack'[n + 1] = word
      /\ \A j \in 1..n : stack'[j] = stack[j]
  <2> HIDE DEF word
  <2> QED
    BY <1>1, <1>3
<1> HIDE DEF offset, n, word
<1>5. paired' <= n + 1
  BY <1>1, <1>2 DEF PairedInv, n
<1>6. ASSUME NEW i \in 1..paired'
      PROVE  table[ring'[Slot(rp', i)] + 1].x86 = stack'[n + 2 - i]
  <2>1. CASE i = 1
    <3>1. Slot(rp', i) = rp /\ n + 2 - i = n + 1
      BY <1>1, <1>2, <2>1, SlotShifts
    <3>2. ring'[rp] = offset
      BY <1>1, <1>2
    <3> QED
      BY <1>4, <3>1, <3>2 DEF word
  <2>2. CASE i # 1
    <3> DEFINE k == i - 1
    <3>1. k \in 1..paired /\ k \in 1..(RingSize - 1) /\ k + 1 = i /\ n + 2 - i = n + 1 - k
      BY <1>1, <1>2, <2>2
    <3>2. n + 1 - k \in 1..n
      BY <1>1, <3>1 DEF PairedInv, n
    <3> HIDE DEF k
    <3>3. Slot(rp', k + 1) = Slot(rp, k) /\ Slot(rp, k) # rp
      BY <1>1, <1>2, <3>1, SlotShifts
    <3>4. k \in 1..RingSize
      BY <1>1, <3>1
    <3>5. Slot(rp, k) \in Ring
      BY <1>1, <3>4, SlotIs
    <3>6. ring'[Slot(rp, k)] = ring[Slot(rp, k)]
      BY <1>1, <1>2, <3>3, <3>5
    <3>7. table[ring[Slot(rp, k)] + 1].x86 = stack[n + 1 - k]
      BY <3>1 DEF PairedInv, n
    <3> QED
      BY <1>4, <3>1, <3>2, <3>3, <3>6, <3>7
  <2> QED
    BY <2>1, <2>2
<1>7. \A i : Slot(rp, i)' = Slot(rp', i)
  BY DEF Slot
<1>8. Len(stack') + 1 = n + 2
  BY <1>1, <1>4
<1> QED
  BY <1>1, <1>2, <1>4, <1>5, <1>6, <1>7, <1>8 DEF PairedInv

LEMMA RetPairs ==
    ASSUME Inv, PairedInv, CallRetOnly, Ret
    PROVE  PairedInv'
<1> DEFINE n == Len(stack)
<1>1. /\ paired \in 0..RingSize /\ rp \in Ring /\ stack \in Seq(Guest) /\ n \in Nat
      /\ RingSize \in Nat /\ RingSize > 0 /\ stack # << >>
  BY RingAssumption DEF Inv, TypeOK, Ret
<1>2. /\ rp' = (rp + RingSize - 1) % RingSize /\ ring' = ring /\ table' = table
      /\ paired' = IF paired = 0 THEN 0 ELSE paired - 1
      /\ stack' = SubSeq(stack, 1, n - 1)
  BY DEF Ret, RingPrev, store
<1>3. n > 0 /\ Len(stack') = n - 1 /\ \A j \in 1..(n - 1) : stack'[j] = stack[j]
  <2>1. n > 0
    BY <1>1, EmptySeq
  <2> HIDE DEF n
  <2>2. \A i \in 1..(n - 1) : stack[i] \in Guest
    BY <1>1, <2>1 DEF n
  <2>3. n - 1 \in Nat
    BY <1>1, <2>1
  <2> QED
    BY <1>2, <2>1, <2>2, <2>3
<1> HIDE DEF n
<1>4. paired' <= n - 1
  BY <1>1, <1>2 DEF PairedInv, n
<1>5. ASSUME NEW i \in 1..paired'
      PROVE  table[ring[Slot(rp', i)] + 1].x86 = stack'[n - i]
  <2> DEFINE k == i + 1
  <2>1. k \in 1..paired /\ i \in 1..(RingSize - 1) /\ n - i \in 1..(n - 1) /\ n + 1 - k = n - i
    BY <1>1, <1>2, <1>4
  <2>2. Slot(rp', i) = Slot(rp, k)
    BY <1>1, <1>2, <2>1, SlotShifts
  <2>3. table[ring[Slot(rp, k)] + 1].x86 = stack[n + 1 - k]
    BY <2>1 DEF PairedInv, n
  <2> HIDE DEF k
  <2> QED
    BY <1>3, <2>1, <2>2, <2>3
<1>6. \A i : Slot(rp, i)' = Slot(rp', i)
  BY DEF Slot
<1>7. Len(stack') + 1 = n
  BY <1>1, <1>3
<1> QED
  BY <1>1, <1>2, <1>3, <1>4, <1>5, <1>6, <1>7 DEF PairedInv

LEMMA PairedStep ==
    ASSUME Inv, PairedInv, [Next]_vars
    PROVE  PairedInv'
<1> SUFFICES ASSUME CallRetOnly PROVE PairedInv'
  BY DEF PairedInv
<1>1. CASE Call
  BY <1>1, CallPairs
<1>2. CASE Ret
  BY <1>2, RetPairs
<1>3. CASE Push \/ Pop
  <2>1. pc \in 1..top /\ Kind(code[pc].x86) \in {"push", "pop"}
    BY <1>3 DEF Push, Pop, Running
  <2>2. code[pc].x86 \in Image
    BY <2>1 DEF Inv, TypeOK, Cell
  <2> QED
    BY <2>1, <2>2 DEF CallRetOnly
<1>4. CASE UNCHANGED <<ring, rp, stack, paired>>
  BY <1>4, PairedStays
<1> QED
  BY <1>1, <1>2, <1>3, <1>4
  DEF Next, Instruction, Handler, Plain, Jcc, Jmp, Syscall, Exit, Unsupported, Killed, End,
      StaticHit, StaticMiss, DynamicHit, DynamicMiss, ReturnHit, ReturnFind, ReturnGenerate,
      Fault, Terminated, vars

\* A guest that touches its stack with calls and returns only is predicted at
\* every return, however deep it calls and wherever the ring has wrapped, and
\* whatever a freed call table is found to hold.
THEOREM ReturnsStayPredicted == Spec => []ReturnsPredicted
<1>1. Init => Inv /\ PairedInv
  <2>1. Init => PairedInv
    BY DEF Init, PairedInv
  <2> QED
    BY <2>1, InitInv
<1>2. Inv /\ PairedInv /\ [Next]_vars => (Inv /\ PairedInv)'
  BY NextInv, PairedStep
<1>3. Inv /\ PairedInv => ReturnsPredicted
  <2> SUFFICES ASSUME Inv, PairedInv, CallRetOnly, NEW i \in 1..paired
               PROVE  /\ i <= Len(stack)
                      /\ table[ring[(rp + RingSize - i) % RingSize] + 1].x86 = stack[Len(stack) + 1 - i]
    BY DEF ReturnsPredicted
  <2>1. paired \in Nat /\ Len(stack) \in Nat
    BY RingAssumption DEF Inv, TypeOK
  <2>2. i <= Len(stack)
    BY <2>1 DEF PairedInv
  <2>3. table[ring[Slot(rp, i)] + 1].x86 = stack[Len(stack) + 1 - i]
    BY DEF PairedInv
  <2> QED
    BY <2>2, <2>3 DEF Slot
<1> QED
  BY <1>1, <1>2, <1>3, PTL DEF Spec

=============================================================================
