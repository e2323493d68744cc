---------------------------- MODULE DebuggerProofs ----------------------------
(***************************************************************************)
(* What holds of the debugger for every guest program, however the user    *)
(* commands it.                                                            *)
(***************************************************************************)
EXTENDS DebuggerLemmas

-----------------------------------------------------------------------------
(* Break points in a block *)

\* An address in a block lies in one of its instructions.
LEMMA InOneOfThem ==
    ASSUME NEW b, BlockShape(b), NEW x \in Nat, InBlock(x, b)
    PROVE  LET i == Min({j \in b.first..b.last : x < Guest(j + 1)} \cup {b.last})
           IN  i \in b.first..b.last /\ InstrAt(x) = {i}
<1> DEFINE S == {j \in b.first..b.last : x < Guest(j + 1)}
<1>1. /\ b.first \in Instrs /\ b.last \in Instrs /\ b.first <= b.last
      /\ Guest(b.first) <= x /\ x < Guest(b.last + 1)
  BY DEF BlockShape, Blocks, InBlock, x86_start, x86_end
<1>2. Min(S) \in b.first..b.last /\ InstrAt(x) = {Min(S)}
  BY <1>1, WithinSome
<1>3. b.last \in S
  BY <1>1, Instructions
<1>4. S \cup {b.last} = S
  BY <1>3
<1> HIDE DEF S
<1> QED
  BY <1>2, <1>4 DEF S

\* An address in an instruction of a block lies in the block.
LEMMA InItsBlock ==
    ASSUME NEW b, BlockShape(b), NEW x \in Nat, NEW i \in b.first..b.last, i \in InstrAt(x)
    PROVE  InBlock(x, b)
<1>1. b.first \in Instrs /\ b.last \in Instrs
  BY DEF BlockShape, Blocks
<1>2. i \in Instrs /\ Guest(i) <= x /\ x < Guest(i + 1)
  BY DEF InstrAt
<1>3. /\ b.first \in 1..(Len(Program) + 1) /\ i \in 1..(Len(Program) + 1)
      /\ i + 1 \in 1..(Len(Program) + 1) /\ b.last + 1 \in 1..(Len(Program) + 1)
      /\ b.first = i \/ b.first < i
      /\ i + 1 = b.last + 1 \/ i + 1 < b.last + 1
  BY <1>1, <1>2, Instructions
<1>4. Guest(b.first) \in Nat /\ Guest(i) \in Nat /\ (b.first < i => Guest(b.first) < Guest(i))
  BY <1>3, GuestGrows
<1>5. Guest(i + 1) \in Nat /\ Guest(b.last + 1) \in Nat
      /\ (i + 1 < b.last + 1 => Guest(i + 1) < Guest(b.last + 1))
  BY <1>3, GuestGrows
<1>6. Guest(b.first) <= x
  BY <1>2, <1>3, <1>4
<1>7. x < Guest(b.last + 1)
  BY <1>2, <1>3, <1>5
<1> QED
  BY <1>6, <1>7 DEF InBlock, x86_start, x86_end

\* A break point is placed at the instruction its address lies in.
LEMMA PlacedThere ==
    ASSUME NEW b, BlockShape(b), NEW x \in Nat, InBlock(x, b)
    PROVE  \E i \in b.first..b.last :
              /\ Placed(x, b) = [x86 |-> Guest(i), riscv |-> HostOf(b, i) + 1]
              /\ InstrAt(x) = {i} /\ InstrAt(Placed(x, b).x86) = {i}
              /\ Placed(x, b) \in BreakPoints /\ ~Pending(Placed(x, b)) /\ InCode(Placed(x, b), b)
<1> DEFINE i == Min({j \in b.first..b.last : x < Guest(j + 1)} \cup {b.last})
           t == Placed(x, b)
<1>1. i \in b.first..b.last /\ InstrAt(x) = {i}
  BY InOneOfThem
<1>2. t = [x86 |-> Guest(i), riscv |-> HostOf(b, i) + 1]
  BY DEF Placed
<1> HIDE DEF i
<1>3. i \in Instrs
  BY <1>1, OneInstr
<1>4. Guest(i) \in Nat /\ InstrAt(Guest(i)) = {i}
  BY <1>3, AtItsAddress
<1>5. HostOf(b, i) \in Nat
  <2>1. i \in b.first..(b.last + 1)
    BY <1>1, HostGrows
  <2> QED
    BY <2>1, HostGrows
<1>6. t.x86 = Guest(i) /\ t.riscv = HostOf(b, i) + 1 /\ t \in BreakPoints
  BY <1>2, <1>4, <1>5 DEF BreakPoints
<1>7. ~Pending(t) /\ InCode(t, b)
  BY <1>1, <1>2, <1>5, <1>6 DEF Pending, InCode
<1> HIDE DEF t
<1> QED
  BY <1>1, <1>2, <1>4, <1>6, <1>7 DEF t

\* As WellPlaced, with one more block.
PlacedWith(e, b) ==
    IF Pending(e) THEN (\A n \in Indices : ~InBlock(e.x86, Block(n))) /\ ~InBlock(e.x86, b)
                  ELSE (\E n \in Indices : InCode(e, Block(n))) \/ InCode(e, b)

-----------------------------------------------------------------------------
(* update_break_points() *)

\* What becomes of the k-th break point: it is left alone, merged with the one
\* before or behind it, or placed.
LeftAlone(d, u, e, b) == u = Append(d, e) /\ (~Pending(e) \/ ~InBlock(e.x86, b)) /\ PlacedWith(e, b)
Merged(d, u, k, i) == /\ u = d
                      /\ \/ d # <<>> /\ Last(d).x86 = Guest(i)
                         \/ k < Len(bps) /\ bps[k + 1].x86 = Guest(i)
PutInto(d, u, i, b) ==
    \E t \in BreakPoints : u = Append(d, t) /\ t.x86 = Guest(i) /\ ~Pending(t) /\ InCode(t, b)
Updated(d, u, k, b) ==
    \/ LeftAlone(d, u, bps[k], b)
    \/ \E i \in b.first..b.last :
          /\ Pending(bps[k]) /\ InstrAt(bps[k].x86) = {i} /\ InstrAt(Guest(i)) = {i}
          /\ Merged(d, u, k, i) \/ PutInto(d, u, i, b)

LEMMA OneUpdate ==
    ASSUME NEW b, BlockShape(b), NEW k, bps[k] \in BreakPoints, WellPlaced(bps[k]), NEW d
    PROVE  Updated(d, Update(d, k, b), k, b)
<1> DEFINE e == bps[k]
           t == Placed(e.x86, b)
           u == Update(d, k, b)
           twin == \/ d # <<>> /\ Last(d).x86 = t.x86
                   \/ k < Len(bps) /\ bps[k + 1].x86 = t.x86
<1>1. u = IF ~Pending(e) \/ ~InBlock(e.x86, b) THEN Append(d, e)
          ELSE IF twin THEN d ELSE Append(d, t)
  BY DEF Update
<1> HIDE DEF u
<1>2. CASE ~Pending(e) \/ ~InBlock(e.x86, b)
  <2>1. u = Append(d, e)
    BY <1>1, <1>2
  <2>2. PlacedWith(e, b)
    BY <1>2 DEF PlacedWith, WellPlaced
  <2> QED
    BY <1>2, <2>1, <2>2 DEF LeftAlone, Updated, u
<1>3. CASE Pending(e) /\ InBlock(e.x86, b)
  <2>1. e.x86 \in Nat
    BY DEF BreakPoints
  <2>2. PICK i \in b.first..b.last :
              /\ t = [x86 |-> Guest(i), riscv |-> HostOf(b, i) + 1]
              /\ InstrAt(e.x86) = {i} /\ InstrAt(t.x86) = {i}
              /\ t \in BreakPoints /\ ~Pending(t) /\ InCode(t, b)
    BY <1>3, <2>1, PlacedThere
  <2>3. t.x86 = Guest(i)
    BY <2>2
  <2> HIDE DEF t
  <2>4. CASE twin
    <3>1. Merged(d, u, k, i)
      BY <1>1, <1>3, <2>3, <2>4 DEF Merged
    <3> QED
      BY <1>3, <2>2, <2>3, <3>1 DEF Updated, u
  <2>5. CASE ~twin
    <3>1. u = Append(d, t)
      BY <1>1, <1>3, <2>5
    <3>2. PutInto(d, u, i, b)
      BY <2>2, <2>3, <3>1 DEF PutInto
    <3> QED
      BY <1>3, <2>2, <2>3, <3>2 DEF Updated, u
  <2> QED
    BY <2>4, <2>5
<1> QED
  BY <1>2, <1>3

\* The lists it goes through.
Updating(d, b) ==
    /\ d \in [0..Len(bps) -> Seq(BreakPoints)] /\ d[0] = <<>>
    /\ \A k \in 1..Len(bps) : Updated(d[k - 1], d[k], k, b)
    /\ update_break_points(b) = d[Len(bps)]

LEMMA Updates ==
    ASSUME NEW b, BlockShape(b), bps \in Seq(BreakPoints), BreakPointsPlaced
    PROVE  \E d : Updating(d, b)
<1> DEFINE top == Len(bps)
           V == Seq(BreakPoints)
           empty == <<>>
           step == [k \in 1..top |-> [v \in V |-> Update(v, k, b)]]
           Obeys(g) == g = [k \in 0..top |-> IF k = 0 THEN <<>> ELSE Update(g[k - 1], k, b)]
<1>1. top \in Nat /\ empty \in V
  BY LenProperties
<1>2. ASSUME NEW k \in 1..top, NEW v \in V PROVE Updated(v, Update(v, k, b), k, b) /\ Update(v, k, b) \in V
  <2>1. bps[k] \in BreakPoints /\ WellPlaced(bps[k])
    BY ElementOfSeq DEF BreakPointsPlaced
  <2>2. Updated(v, Update(v, k, b), k, b)
    BY <2>1, OneUpdate
  <2> DEFINE u == Update(v, k, b)
  <2> HIDE DEF u
  <2>3. u = v \/ \E t \in BreakPoints : u = Append(v, t)
    BY <2>1, <2>2 DEF Updated, LeftAlone, Merged, PutInto, u
  <2>4. u \in V
    BY <2>3, AppendProperties
  <2> QED
    BY <2>2, <2>4 DEF u
<1>3. step \in [1..top -> [V -> V]]
  BY <1>2
<1>4. PICK f : IteratesTo(top, f, V, empty, step)
  <2> HIDE DEF V, empty, top, step
  <2> QED
    BY <1>1, <1>3, BoundedIteration
<1>5. f \in [0..top -> V] /\ f = [k \in 0..top |-> IF k = 0 THEN empty ELSE step[k][f[k - 1]]]
  <2> HIDE DEF V, empty, top, step
  <2> QED
    BY <1>4 DEF IteratesTo
<1>6. ASSUME NEW k \in 1..top PROVE step[k][f[k - 1]] = Update(f[k - 1], k, b) /\ f[k - 1] \in V
  <2>1. k - 1 \in 0..top
    BY <1>1
  <2>2. f[k - 1] \in V
    <3> HIDE DEF V, top
    <3> QED
      BY <1>5, <2>1
  <2>3. step[k] = [v \in V |-> Update(v, k, b)]
    OBVIOUS
  <2> HIDE DEF V, step
  <2> QED
    BY <2>2, <2>3
<1>7. Obeys(f)
  <2> DEFINE g == [k \in 0..top |-> IF k = 0 THEN empty ELSE step[k][f[k - 1]]]
             h == [k \in 0..top |-> IF k = 0 THEN <<>> ELSE Update(f[k - 1], k, b)]
  <2>1. ASSUME NEW k \in 0..top
        PROVE  (IF k = 0 THEN empty ELSE step[k][f[k - 1]]) = (IF k = 0 THEN <<>> ELSE Update(f[k - 1], k, b))
    <3>1. k # 0 => k \in 1..top
      BY <1>1
    <3>2. empty = <<>>
      OBVIOUS
    <3> HIDE DEF step, top, empty
    <3> QED
      BY <1>6, <3>1, <3>2
  <2>2. g = h
    <3> HIDE DEF step, top, empty
    <3> QED
      BY <2>1
  <2> QED
    BY <1>5, <2>2
<1> DEFINE d == CHOOSE g : Obeys(g)
<1>8. Obeys(d) /\ update_break_points(b) = d[top]
  <2>1. update_break_points(b) = d[top]
    BY DEF update_break_points
  <2>2. Obeys(d)
    <3> HIDE DEF Obeys
    <3> QED
      BY <1>7
  <2> QED
    BY <2>1, <2>2
<1> HIDE DEF d
<1>9. ASSUME NEW k \in 1..top PROVE d[k] = Update(d[k - 1], k, b)
  <2>1. k \in 0..top /\ k # 0
    BY <1>1
  <2> QED
    BY <1>8, <2>1
<1>10. d[0] = <<>> /\ \A k \in 0..top : d[k] \in V
  <2> DEFINE T == {k \in 0..top : d[k] \in V}
  <2>1. d[0] = <<>> /\ 0 \in T
    <3>1. 0 \in 0..top
      BY <1>1
    <3> QED
      BY <1>1, <1>8, <3>1
  <2>2. ASSUME NEW k \in 0..(top - 1), k \in T PROVE k + 1 \in T
    <3>1. k + 1 \in 1..top /\ (k + 1) - 1 = k /\ k + 1 \in 0..top
      BY <1>1
    <3>2. d[k + 1] = Update(d[k], k + 1, b)
      BY <1>9, <3>1
    <3>3. d[k] \in V
      BY <2>2
    <3>4. Update(d[k], k + 1, b) \in V
      <4> HIDE DEF V, top
      <4> QED
        BY <1>2, <3>1, <3>3
    <3> QED
      BY <3>1, <3>2, <3>4
  <2>3. 0..top \subseteq T
    <3> HIDE DEF T, top
    <3> QED
      BY <1>1, <2>1, <2>2, BoundedInduction
  <2> QED
    BY <2>1, <2>3
<1>11. ASSUME NEW k \in 1..top PROVE Updated(d[k - 1], d[k], k, b)
  <2>1. k - 1 \in 0..top
    BY <1>1
  <2>2. d[k - 1] \in V /\ d[k] = Update(d[k - 1], k, b)
    BY <1>9, <1>10, <2>1
  <2> HIDE DEF V, top
  <2> QED
    BY <1>2, <2>2
<1>12. d \in [0..top -> V]
  BY <1>8, <1>10
<1> QED
  BY <1>8, <1>10, <1>11, <1>12 DEF Updating

LEMMA Appended ==
    ASSUME NEW S, NEW s \in Seq(S), NEW e \in S
    PROVE  LET t == Append(s, e)
           IN  /\ t \in Seq(S) /\ Len(t) = Len(s) + 1 /\ Len(s) \in Nat /\ t # <<>> /\ Last(t) = e
               /\ \A n \in 1..Len(s) : t[n] = s[n] /\ n \in 1..Len(t)
               /\ \A n \in 1..Len(t) : n \in 1..Len(s) \/ n = Len(t)
               /\ t[Len(t)] = e /\ Len(t) \in 1..Len(t)
<1> DEFINE t == Append(s, e)
<1>1. Len(s) \in Nat
  BY LenProperties
<1>2. /\ t \in Seq(S) /\ t # <<>> /\ Len(t) = Len(s) + 1
      /\ \A n \in 1..Len(s) : t[n] = s[n]
      /\ t[Len(s) + 1] = e
  BY AppendProperties
<1>3. Last(t) = t[Len(t)]
  BY DEF Last
<1> HIDE DEF t
<1> QED
  BY <1>1, <1>2, <1>3 DEF t

\* The break points of the list d stand for an instruction.
StandsFor(d, i) == \E m \in 1..Len(d) : i \in InstrAt(d[m].x86)
\* It is left to the next one to stand for the instruction of the k-th.
PassedOn(k, i) == /\ k > 0 /\ k < Len(bps) /\ Pending(bps[k])
                  /\ i \in InstrAt(bps[k].x86) /\ i \in InstrAt(bps[k + 1].x86)
SoFar(d, k, b) ==
    /\ Len(d[k]) <= k
    /\ \A m \in 1..Len(d[k]) : PlacedWith(d[k][m], b)
    /\ \A j \in 1..k : \A i \in InstrAt(bps[j].x86) : StandsFor(d[k], i) \/ PassedOn(k, i)

LEMMA UpdateGoesOn ==
    ASSUME NEW b, BlockShape(b), bps \in Seq(BreakPoints), NEW d, Updating(d, b),
           NEW k \in 0..(Len(bps) - 1), SoFar(d, k, b)
    PROVE  SoFar(d, k + 1, b)
<1> DEFINE e == bps[k + 1]
           u == d[k + 1]
           v == d[k]
<1>1. Len(bps) \in Nat /\ k \in Nat /\ k + 1 \in 1..Len(bps) /\ (k + 1) - 1 = k
  BY LenProperties
<1>2. v \in Seq(BreakPoints) /\ u \in Seq(BreakPoints) /\ Updated(v, u, k + 1, b) /\ e \in BreakPoints
  <2>1. k \in 0..Len(bps) /\ k + 1 \in 0..Len(bps)
    BY <1>1
  <2> QED
    BY <1>1, <2>1, ElementOfSeq DEF Updating
<1>3. /\ Len(v) <= k /\ \A m \in 1..Len(v) : PlacedWith(v[m], b)
      /\ \A j \in 1..k : \A i \in InstrAt(bps[j].x86) : StandsFor(v, i) \/ PassedOn(k, i)
  BY DEF SoFar
<1> HIDE DEF u, v
<1>4. Len(v) \in Nat
  BY <1>2, LenProperties
\* the instruction of this one, and of the one before if that was left to it
<1> DEFINE Here == /\ Len(u) <= k + 1 /\ \A m \in 1..Len(u) : PlacedWith(u[m], b)
                   /\ \A i : StandsFor(v, i) => StandsFor(u, i)
                   /\ \A i \in InstrAt(e.x86) : StandsFor(u, i) \/ PassedOn(k + 1, i)
<1>5. ASSUME NEW t \in BreakPoints, u = Append(v, t), PlacedWith(t, b), InstrAt(t.x86) = InstrAt(e.x86)
      PROVE  Here
  <2>1. /\ Len(u) = Len(v) + 1 /\ \A n \in 1..Len(v) : u[n] = v[n] /\ n \in 1..Len(u)
        /\ \A n \in 1..Len(u) : n \in 1..Len(v) \/ n = Len(u)
        /\ u[Len(u)] = t /\ Len(u) \in 1..Len(u)
    BY <1>2, <1>5, Appended
  <2>2. Len(u) <= k + 1
    BY <1>1, <1>3, <1>4, <2>1
  <2>3. \A m \in 1..Len(u) : PlacedWith(u[m], b)
    BY <1>3, <1>5, <2>1
  <2>4. \A i : StandsFor(v, i) => StandsFor(u, i)
    BY <2>1 DEF StandsFor
  <2>5. \A i \in InstrAt(e.x86) : StandsFor(u, i)
    BY <1>5, <2>1 DEF StandsFor
  <2> QED
    BY <2>2, <2>3, <2>4, <2>5
<1>6. Here
  <2>1. CASE LeftAlone(v, u, e, b)
    BY <1>2, <1>5, <2>1 DEF LeftAlone
  <2>2. ASSUME NEW i \in b.first..b.last, Pending(e), InstrAt(e.x86) = {i}, InstrAt(Guest(i)) = {i},
               Merged(v, u, k + 1, i)
        PROVE  Here
    <3>1. u = v
      BY <2>2 DEF Merged
    <3>2. CASE v # <<>> /\ Last(v).x86 = Guest(i)
      <4>1. Len(v) \in 1..Len(v) /\ Last(v) = v[Len(v)]
        BY <1>2, <1>4, <3>2 DEF Last
      <4>2. StandsFor(u, i)
        BY <2>2, <3>1, <3>2, <4>1 DEF StandsFor
      <4> QED
        BY <1>1, <1>3, <1>4, <2>2, <3>1, <4>2
    <3>3. CASE k + 1 < Len(bps) /\ bps[(k + 1) + 1].x86 = Guest(i)
      <4>1. PassedOn(k + 1, i)
        BY <1>1, <2>2, <3>3 DEF PassedOn
      <4> QED
        BY <1>1, <1>3, <1>4, <2>2, <3>1, <4>1
    <3> QED
      BY <2>2, <3>2, <3>3 DEF Merged
  <2>3. ASSUME NEW i \in b.first..b.last, InstrAt(e.x86) = {i}, InstrAt(Guest(i)) = {i},
               PutInto(v, u, i, b)
        PROVE  Here
    <3>1. PICK t \in BreakPoints : u = Append(v, t) /\ t.x86 = Guest(i) /\ ~Pending(t) /\ InCode(t, b)
      BY <2>3 DEF PutInto
    <3>2. PlacedWith(t, b) /\ InstrAt(t.x86) = InstrAt(e.x86)
      BY <2>3, <3>1 DEF PlacedWith
    <3> HIDE DEF Here
    <3> QED
      BY <1>5, <3>1, <3>2
  <2> HIDE DEF Here
  <2> QED
    BY <1>2, <2>1, <2>2, <2>3 DEF Updated
<1>7. ASSUME NEW j \in 1..(k + 1), NEW i \in InstrAt(bps[j].x86)
      PROVE  StandsFor(u, i) \/ PassedOn(k + 1, i)
  <2>1. CASE j = k + 1
    BY <1>6, <2>1
  <2>2. CASE j # k + 1
    <3>1. j \in 1..k
      BY <1>1, <2>2
    <3>2. StandsFor(v, i) \/ PassedOn(k, i)
      BY <1>3, <3>1
    <3>3. PassedOn(k, i) => i \in InstrAt(e.x86)
      BY DEF PassedOn
    <3> QED
      BY <1>6, <3>2, <3>3
  <2> QED
    BY <2>1, <2>2
<1> QED
  BY <1>6, <1>7 DEF SoFar, u

LEMMA UpdatedSoFar ==
    ASSUME NEW b, BlockShape(b), bps \in Seq(BreakPoints), NEW d, Updating(d, b),
           NEW k \in 0..Len(bps)
    PROVE  SoFar(d, k, b)
<1> DEFINE T == {m \in 0..Len(bps) : SoFar(d, m, b)}
           top == Len(bps)
<1>1. top \in Nat
  BY LenProperties
<1>2. 0 \in T
  <2>1. d[0] = <<>> /\ Len(<<>>) = 0 /\ 0 \in 0..Len(bps)
    BY <1>1 DEF Updating
  <2> QED
    BY <2>1 DEF SoFar
<1>3. ASSUME NEW m \in 0..(top - 1), m \in T PROVE m + 1 \in T
  <2>1. m + 1 \in 0..Len(bps)
    BY <1>1
  <2> QED
    BY <1>3, <2>1, UpdateGoesOn
<1>4. 0..top \subseteq T
  <2> HIDE DEF T, top
  <2> QED
    BY <1>1, <1>2, <1>3, BoundedInduction
<1> QED
  BY <1>4

\* The last break point, the temporary one, is not given up.
LEMMA LastUpdated ==
    ASSUME NEW b, BlockShape(b), bps \in Seq(BreakPoints), NEW d, Updating(d, b), Len(bps) > 0
    PROVE  LET n == Len(bps)
           IN  /\ d[n] \in Seq(BreakPoints) /\ d[n - 1] \in Seq(BreakPoints) /\ Len(d[n]) \in Nat \ {0}
               /\ Updated(d[n - 1], d[n], n, b)
               /\ InstrAt(d[n][Len(d[n])].x86) = InstrAt(bps[n].x86)
<1> DEFINE n == Len(bps)
           u == d[n]
           v == d[n - 1]
           e == bps[n]
<1>1. n \in Nat /\ n \in 1..n /\ ~(n < n)
  BY LenProperties
<1>2. v \in Seq(BreakPoints) /\ u \in Seq(BreakPoints) /\ Updated(v, u, n, b) /\ e \in BreakPoints
  <2>1. n - 1 \in 0..n /\ n \in 0..n
    BY <1>1
  <2> QED
    BY <1>1, <2>1, ElementOfSeq DEF Updating
<1> HIDE DEF u, v
<1>3. ASSUME NEW t \in BreakPoints, u = Append(v, t)
      PROVE  Len(u) \in Nat \ {0} /\ u[Len(u)] = t
  <2>1. Len(u) = Len(v) + 1 /\ Len(v) \in Nat /\ u[Len(u)] = t
    BY <1>2, <1>3, Appended
  <2> QED
    BY <2>1
<1>4. Len(u) \in Nat \ {0} /\ InstrAt(u[Len(u)].x86) = InstrAt(e.x86)
  <2>1. CASE LeftAlone(v, u, e, b)
    BY <1>2, <1>3, <2>1 DEF LeftAlone
  <2>2. ASSUME NEW i \in b.first..b.last, InstrAt(e.x86) = {i}, InstrAt(Guest(i)) = {i}, Merged(v, u, n, i)
        PROVE  Len(u) \in Nat \ {0} /\ InstrAt(u[Len(u)].x86) = InstrAt(e.x86)
    <3>1. u # <<>> /\ u[Len(u)].x86 = Guest(i)
      BY <1>1, <2>2 DEF Merged, Last
    <3>2. Len(u) \in Nat \ {0}
      BY <1>2, <3>1, LenProperties, EmptySeq
    <3> QED
      BY <2>2, <3>1, <3>2
  <2>3. ASSUME NEW i \in b.first..b.last, InstrAt(e.x86) = {i}, InstrAt(Guest(i)) = {i}, PutInto(v, u, i, b)
        PROVE  Len(u) \in Nat \ {0} /\ InstrAt(u[Len(u)].x86) = InstrAt(e.x86)
    BY <1>3, <2>3 DEF PutInto
  <2> QED
    BY <1>2, <2>1, <2>2, <2>3 DEF Updated
<1> QED
  BY <1>2, <1>4 DEF u, v

\* A break point in no block that was translated is pending.
LEMMA PendingOutside ==
    ASSUME TypeOK, NEW e, WellPlaced(e), NEW i \in InstrAt(e.x86), Covering(i) = {}
    PROVE  Pending(e)
<1> SUFFICES ASSUME ~Pending(e) PROVE FALSE
  OBVIOUS
<1>1. PICK n \in Indices : InCode(e, Block(n))
  BY DEF WellPlaced
<1>2. PICK j \in Block(n).first..Block(n).last : e = [x86 |-> Guest(j), riscv |-> HostOf(Block(n), j) + 1]
  BY <1>1 DEF InCode
<1>3. j \in Instrs
  <2>1. Block(n).first \in Instrs /\ Block(n).last \in Instrs
    BY BlockFacts DEF Blocks
  <2> QED
    BY <2>1, Instructions
<1>4. i = j
  <2>1. InstrAt(Guest(j)) = {j} /\ e.x86 = Guest(j)
    BY <1>2, <1>3, AtItsAddress
  <2> QED
    BY <2>1
<1>5. n \in Covering(i)
  BY <1>2, <1>4, BlockFacts DEF Covering
<1> QED
  BY <1>5

\* A static break point that is given up or placed is merged with the temporary
\* one only if it is pending at the same instruction.
LEMMA BeforeTemporary ==
    ASSUME TypeOK, BreakPointsPlaced, Temporary, Kept, temp_break,
           NEW b, BlockShape(b), \A i \in b.first..b.last : Covering(i) = {},
           NEW d, Updating(d, b), Len(bps) > 1, d[Len(bps) - 1] # <<>>,
           NEW i \in InstrAt(Last(d[Len(bps) - 1]).x86) \cap InstrAt(bps[Len(bps)].x86),
           i \in b.first..b.last \/ Pending(Last(d[Len(bps) - 1]))
    PROVE  i \in risked
<1> DEFINE n == Len(bps)
           v == d[n - 1]
           w == d[(n - 1) - 1]
           e == bps[n - 1]
           f == bps[n]
<1>1. n \in Nat /\ n - 1 \in 1..n /\ n \in 1..n /\ n - 1 < n /\ (n - 1) + 1 = n /\ bps \in Seq(BreakPoints)
  BY LenProperties DEF TypeOK
<1>2. /\ v \in Seq(BreakPoints) /\ w \in Seq(BreakPoints) /\ e \in BreakPoints /\ f \in BreakPoints
      /\ Updated(w, v, n - 1, b)
  <2>1. n - 1 \in 0..n /\ (n - 1) - 1 \in 0..n
    BY <1>1
  <2> QED
    BY <1>1, <2>1, ElementOfSeq DEF Updating
<1>3. Statics = n - 1 /\ (Pending(e) /\ i \in InstrAt(e.x86) => i \in risked)
  <2>1. Statics = n - 1
    BY DEF Statics
  <2>2. Statics > 0
    BY <1>1, <2>1
  <2> QED
    BY <2>1, <2>2 DEF Kept
<1>4. /\ v # <<>> /\ i \in InstrAt(Last(v).x86) /\ i \in InstrAt(f.x86)
      /\ i \in b.first..b.last \/ Pending(Last(v))
  OBVIOUS
<1>5. WellPlaced(e)
  BY <1>1 DEF BreakPointsPlaced
<1> HIDE DEF v, w
<1>6. CASE LeftAlone(w, v, e, b)
  <2>1. Last(v) = e /\ (~Pending(e) \/ ~InBlock(e.x86, b))
    BY <1>2, <1>6, Appended DEF LeftAlone
  <2>2. CASE Pending(e)
    BY <1>3, <1>4, <2>1, <2>2
  <2>3. CASE ~Pending(e)
    <3>1. Covering(i) = {} /\ i \in InstrAt(e.x86)
      BY <1>4, <2>1, <2>3
    <3> QED
      BY <1>5, <2>3, <3>1, PendingOutside
  <2> QED
    BY <2>2, <2>3
<1>7. ASSUME NEW j \in b.first..b.last, Pending(e), InstrAt(e.x86) = {j}, InstrAt(Guest(j)) = {j},
             Merged(w, v, n - 1, j) \/ PutInto(w, v, j, b)
      PROVE  i \in risked
  <2>1. Last(v).x86 = Guest(j) \/ f.x86 = Guest(j)
    <3>1. CASE Merged(w, v, n - 1, j)
      BY <1>1, <3>1 DEF Merged
    <3>2. CASE PutInto(w, v, j, b)
      <4>1. PICK t \in BreakPoints : v = Append(w, t) /\ t.x86 = Guest(j)
        BY <3>2 DEF PutInto
      <4> QED
        BY <1>2, <4>1, Appended
    <3> QED
      BY <1>7, <3>1, <3>2
  <2>2. i = j
    BY <1>4, <1>7, <2>1
  <2> QED
    BY <1>3, <1>7, <2>2
<1> QED
  BY <1>2, <1>6, <1>7 DEF Updated

StaticsOf(s) == IF temp_break THEN Len(s) - 1 ELSE Len(s)

\* What the user wanted is still covered when a block has been translated.
LEMMA TranslationCovers ==
    ASSUME TypeOK, BreakPointsPlaced, Temporary, Kept,
           NEW b, BlockShape(b), \A i \in b.first..b.last : Covering(i) = {},
           NEW d, Updating(d, b), NEW i \in wanted \ risked
    PROVE  LET u == update_break_points(b)
           IN  \E k \in 1..StaticsOf(u) : i \in InstrAt(u[k].x86)
<1> DEFINE n == Len(bps)
           u == d[n]
           v == d[n - 1]
           e == bps[n]
<1>1. n \in Nat /\ bps \in Seq(BreakPoints) /\ update_break_points(b) = u
  BY LenProperties DEF TypeOK, Updating
<1>2. PICK j \in 1..Statics : i \in InstrAt(bps[j].x86)
  BY DEF Kept
<1>3. CASE ~temp_break
  <2>1. Statics = n /\ n \in 0..n /\ StaticsOf(u) = Len(u) /\ ~(n < n)
    BY <1>1, <1>3 DEF Statics, StaticsOf
  <2>2. SoFar(d, n, b)
    BY <1>1, <2>1, UpdatedSoFar
  <2>3. StandsFor(u, i) \/ PassedOn(n, i)
    BY <1>2, <2>1, <2>2 DEF SoFar
  <2> QED
    BY <1>1, <2>1, <2>3 DEF StandsFor, PassedOn
<1>4. CASE temp_break
  <2>1. Statics = n - 1 /\ StaticsOf(u) = Len(u) - 1
    BY <1>4 DEF Statics, StaticsOf
  <2>2. n > 1 /\ n - 1 \in 0..n /\ n - 1 > 0 /\ n > 0
    BY <1>1, <1>2, <2>1
  <2>3. SoFar(d, n - 1, b)
    BY <1>1, <2>2, UpdatedSoFar
  <2>4. StandsFor(v, i)
    <3>1. StandsFor(v, i) \/ PassedOn(n - 1, i)
      BY <1>2, <2>1, <2>3 DEF SoFar
    <3>2. ~PassedOn(n - 1, i)
      <4> SUFFICES ASSUME PassedOn(n - 1, i) PROVE FALSE
        OBVIOUS
      <4>1. (n - 1) + 1 = n
        BY <1>1
      <4>2. Pending(bps[n - 1]) /\ i \in InstrAt(bps[n - 1].x86) /\ i \in InstrAt(bps[n].x86)
        BY <4>1 DEF PassedOn
      <4>3. Statics > 0
        BY <2>1, <2>2
      <4> QED
        BY <1>4, <2>1, <4>2, <4>3 DEF Kept
    <3> QED
      BY <3>1, <3>2
  <2>5. PICK m \in 1..Len(v) : i \in InstrAt(v[m].x86)
    BY <2>4 DEF StandsFor
  <2>6. v \in Seq(BreakPoints) /\ u \in Seq(BreakPoints) /\ Updated(v, u, n, b)
    BY <1>1, <2>2, LastUpdated
  <2>7. Len(v) \in Nat /\ Len(u) \in Nat
    BY <2>6, LenProperties
  <2>8. ~(v # <<>> /\ i \in InstrAt(Last(v).x86) /\ i \in InstrAt(e.x86) /\ i \in b.first..b.last)
    BY <1>4, <2>2, BeforeTemporary
  <2>9. e \in BreakPoints
    BY <1>1, <2>2, ElementOfSeq
  <2> HIDE DEF u, v
  <2>10. ASSUME NEW t \in BreakPoints, u = Append(v, t)
         PROVE  \E k \in 1..StaticsOf(u) : i \in InstrAt(u[k].x86)
    <3>1. Len(u) = Len(v) + 1 /\ u[m] = v[m]
      BY <2>5, <2>6, <2>10, Appended
    <3>2. m \in 1..StaticsOf(u)
      BY <2>1, <2>7, <3>1
    <3> QED
      BY <2>5, <3>1, <3>2
  <2>11. ASSUME NEW o \in b.first..b.last, InstrAt(e.x86) = {o}, InstrAt(Guest(o)) = {o}, Merged(v, u, n, o)
         PROVE  \E k \in 1..StaticsOf(u) : i \in InstrAt(u[k].x86)
    <3>1. u = v /\ v # <<>> /\ Last(v).x86 = Guest(o)
      BY <1>1, <2>11 DEF Merged
    <3>2. m # Len(v)
      <4> SUFFICES ASSUME m = Len(v) PROVE FALSE
        OBVIOUS
      <4>1. i \in InstrAt(Last(v).x86) /\ i = o
        BY <2>5, <2>11, <3>1 DEF Last
      <4> QED
        BY <2>8, <2>11, <3>1, <4>1
    <3>3. m \in 1..StaticsOf(u)
      BY <2>1, <2>7, <3>1, <3>2
    <3> QED
      BY <2>5, <3>1, <3>3
  <2>12. \E k \in 1..StaticsOf(u) : i \in InstrAt(u[k].x86)
    <3>1. LeftAlone(v, u, e, b) => \E k \in 1..StaticsOf(u) : i \in InstrAt(u[k].x86)
      BY <2>9, <2>10 DEF LeftAlone
    <3>2. \A q \in b.first..b.last : PutInto(v, u, q, b) => \E k \in 1..StaticsOf(u) : i \in InstrAt(u[k].x86)
      BY <2>10 DEF PutInto
    <3> QED
      BY <2>6, <2>11, <3>1, <3>2 DEF Updated
  <2> QED
    BY <1>1, <2>12 DEF u
<1> QED
  BY <1>3, <1>4

\* Nor is one left that could be merged with the temporary one unless at risk.
LEMMA TranslationRisks ==
    ASSUME TypeOK, BreakPointsPlaced, Temporary, Kept, temp_break,
           NEW b, BlockShape(b), \A i \in b.first..b.last : Covering(i) = {},
           NEW d, Updating(d, b)
    PROVE  LET u == update_break_points(b)
               k == Len(u) - 1
           IN  k > 0 /\ Pending(u[k]) => InstrAt(u[k].x86) \cap InstrAt(u[Len(u)].x86) \subseteq risked
<1> DEFINE n == Len(bps)
           u == d[n]
           v == d[n - 1]
           e == bps[n]
           k == Len(u) - 1
<1>1. /\ n \in Nat /\ bps \in Seq(BreakPoints) /\ update_break_points(b) = u
      /\ n > 0 /\ n - 1 \in 0..n /\ n \in 0..n
  <2>1. n \in Nat /\ bps \in Seq(BreakPoints) /\ update_break_points(b) = u
    BY LenProperties DEF TypeOK, Updating
  <2>2. n - 1 \in 0..Limit
    BY DEF Temporary, Statics
  <2> QED
    BY <2>1, <2>2, LimitAssumption
<1>2. SUFFICES ASSUME k > 0, Pending(u[k]), NEW i \in InstrAt(u[k].x86) \cap InstrAt(u[Len(u)].x86)
               PROVE  i \in risked
  BY <1>1
<1>3. /\ u \in Seq(BreakPoints) /\ v \in Seq(BreakPoints) /\ Updated(v, u, n, b) /\ e \in BreakPoints
      /\ InstrAt(u[Len(u)].x86) = InstrAt(e.x86) /\ Len(u) \in Nat
  BY <1>1, LastUpdated, ElementOfSeq
<1>4. Len(v) <= n - 1 /\ Len(v) \in Nat /\ PlacedWith(u[k], b) /\ u[k] \in BreakPoints
  <2>1. SoFar(d, n - 1, b) /\ SoFar(d, n, b)
    BY <1>1, UpdatedSoFar
  <2>2. k \in 1..Len(u)
    BY <1>2, <1>3
  <2> QED
    BY <1>3, <2>1, <2>2, LenProperties, ElementOfSeq DEF SoFar
<1>5. ASSUME Len(v) > 0, Last(v) = u[k] PROVE i \in risked
  <2>1. n > 1 /\ v # <<>>
    BY <1>1, <1>4, <1>5
  <2>2. i \in InstrAt(Last(v).x86) \cap InstrAt(e.x86) /\ Pending(Last(v))
    BY <1>2, <1>3, <1>5
  <2> QED
    BY <2>1, <2>2, BeforeTemporary
<1> HIDE DEF u, v
<1>6. ASSUME NEW t \in BreakPoints, u = Append(v, t) PROVE i \in risked
  <2>1. Len(u) = Len(v) + 1 /\ \A m \in 1..Len(v) : u[m] = v[m]
    BY <1>3, <1>6, Appended
  <2>2. k = Len(v) /\ k \in 1..Len(v)
    BY <1>2, <1>4, <2>1
  <2>3. Last(v) = u[k]
    BY <2>1, <2>2 DEF Last
  <2> QED
    BY <1>2, <1>5, <2>2, <2>3
<1>7. ASSUME NEW j \in b.first..b.last, InstrAt(e.x86) = {j} PROVE ~ Merged(v, u, n, j)
  <2>1. i = j
    BY <1>2, <1>3, <1>7
  <2>2. InBlock(u[k].x86, b)
    <3>1. u[k].x86 \in Nat
      BY <1>4 DEF BreakPoints
    <3> QED
      BY <1>2, <1>7, <2>1, <3>1, InItsBlock
  <2> QED
    BY <1>2, <1>4, <2>2 DEF PlacedWith
<1> QED
  BY <1>3, <1>6, <1>7 DEF Updated, LeftAlone, PutInto

-----------------------------------------------------------------------------
(* The invariant is inductive: translation *)

LEMMA TranslateKeeps ==
    ASSUME IInv, Translate
    PROVE  IInv'
<1>1. PICK b : b = NewBlock
  OBVIOUS
<1>2. /\ TypeOK /\ CurrentListed /\ BlocksApart /\ AtEntry /\ BreakPointsPlaced /\ Temporary
      /\ Kept /\ Modes
  BY DEF IInv
<1>3. /\ phase = "translate" /\ phase' = "enter" /\ end_block(b)
      /\ riscv_enabled' = riscv_enabled /\ at' = at /\ attached' = attached /\ signal' = signal
      /\ temp_break' = temp_break /\ init' = init /\ await' = await /\ halt' = halt
      /\ step_riscv' = step_riscv /\ run_break' = run_break
      /\ asked' = asked /\ travelled' = travelled /\ waved' = waved
      /\ wanted' = wanted /\ risked' = risked
  BY <1>1 DEF Translate, modes, history
<1>4. /\ BlockShape(b) /\ b.first = at.instr /\ b.riscv_start = HostEnd /\ b \in Blocks
      /\ b.first \in Nat /\ b.last \in Nat /\ b.first <= b.last
      /\ \A i \in b.first..b.last : Covering(i) = {}
  BY <1>1, <1>2, <1>3, NewBlockShape DEF BlockShape
<1>5. /\ blocks' = InsertAt(blocks, insert_index(b) + 1, b)
      /\ bps' = update_break_points(b)
  BY <1>3 DEF end_block
<1> DEFINE k == insert_index(b)
<1>6. /\ k \in Indices' /\ blocks'[k + 1] = b
      /\ Len(blocks') = Len(blocks) + 1 /\ blocks' \in Seq(Blocks)
      /\ \A n \in Indices : New(n, k) \in Indices' /\ blocks'[New(n, k) + 1] = Block(n)
      /\ \A n \in Indices' : n = k \/ \E m \in Indices : n = New(m, k)
  BY <1>2, <1>4, <1>5, AfterInsert
<1> HIDE DEF k
<1>7. PICK d : Updating(d, b)
  BY <1>2, <1>4, Updates DEF TypeOK
<1>8. /\ bps' \in Seq(BreakPoints) /\ Len(bps') <= Len(bps) /\ bps \in Seq(BreakPoints)
      /\ \A m \in 1..Len(bps') : PlacedWith(bps'[m], b)
  <2>1. Len(bps) \in 0..Len(bps) /\ bps \in Seq(BreakPoints)
    BY <1>2, LenProperties DEF TypeOK
  <2>2. SoFar(d, Len(bps), b) /\ d[Len(bps)] \in Seq(BreakPoints)
    BY <1>4, <1>7, <2>1, UpdatedSoFar DEF Updating
  <2> QED
    BY <1>5, <1>7, <2>1, <2>2 DEF SoFar, Updating
<1>9. TypeOK'
  <2>1. ASSUME NEW n \in Indices' PROVE BlockShape(blocks'[n + 1])
    <3>1. CASE n = k
      BY <1>4, <1>6, <3>1
    <3>2. CASE n # k
      <4>1. PICK m \in Indices : n = New(m, k)
        BY <1>6, <3>2
      <4> QED
        BY <1>2, <1>6, <4>1, BlockFacts
    <3> QED
      BY <3>1, <3>2
  <2>2. \A n \in Indices' : BlockShape(Block(n))'
    BY <1>3, <2>1 DEF BlockShape, Contents, WorkOf, Block
  <2> QED
    BY <1>2, <1>3, <1>6, <1>8, <2>2 DEF TypeOK, Phases
<1>10. CurrentListed'
  BY <1>2, <1>3, <1>4, CurrentMoves
<1>11. BlocksApart'
  BY <1>2, <1>4, <1>5, BlocksStayApart
<1>12. AtEntry'
  <2>1. k \in Covering(at.instr)'
    BY <1>3, <1>4, <1>6 DEF Covering, Block
  <2>2. at.hop = 0
    BY <1>2, <1>3 DEF AtEntry
  <2> QED
    BY <1>3, <2>1, <2>2 DEF AtEntry
<1>13. BreakPointsPlaced'
  <2>1. ASSUME NEW e, PlacedWith(e, b) PROVE WellPlaced(e)'
    <3>1. CASE Pending(e)
      <4>1. (\A n \in Indices : ~InBlock(e.x86, Block(n))) /\ ~InBlock(e.x86, b)
        BY <2>1, <3>1 DEF PlacedWith
      <4>2. ASSUME NEW n \in Indices' PROVE ~InBlock(e.x86, blocks'[n + 1])
        BY <1>6, <4>1
      <4> QED
        BY <3>1, <4>2 DEF WellPlaced, Block, Pending, InBlock, x86_start, x86_end
    <3>2. CASE ~Pending(e)
      <4>1. (\E n \in Indices : InCode(e, Block(n))) \/ InCode(e, b)
        BY <2>1, <3>2 DEF PlacedWith
      <4>2. \E n \in Indices' : InCode(e, blocks'[n + 1])
        BY <1>6, <4>1
      <4> QED
        BY <3>2, <4>2 DEF WellPlaced, Block, Pending, InCode, HostOf
    <3> QED
      BY <3>1, <3>2
  <2>2. \A m \in 1..Len(bps') : \E e : e = bps'[m] /\ PlacedWith(e, b)
    BY <1>8
  <2>3. ASSUME NEW m \in 1..Len(bps)' PROVE WellPlaced(bps[m])'
    <3>1. PICK e : e = bps'[m] /\ PlacedWith(e, b)
      BY <2>2, <2>3
    <3> QED
      BY <2>1, <3>1 DEF WellPlaced, Block, Pending, InBlock, InCode, HostOf, x86_start, x86_end
  <2> QED
    BY <2>3 DEF BreakPointsPlaced
<1>14. CASE ~temp_break
  <2>1. Statics' = Len(bps') /\ Statics = Len(bps) /\ StaticsOf(bps') = Len(bps')
    BY <1>3, <1>14 DEF Statics, StaticsOf
  <2>2. Temporary'
    <3>1. Len(bps') \in 0..Limit
      BY <1>2, <1>8, <2>1, LenProperties, LimitAssumption DEF Temporary
    <3> QED
      BY <1>2, <1>3, <1>14, <2>1, <3>1 DEF Temporary
  <2>3. Kept'
    <3>1. ASSUME NEW i \in wanted \ risked PROVE \E j \in 1..Len(bps') : i \in InstrAt(bps'[j].x86)
      BY <1>2, <1>4, <1>5, <1>7, <2>1, TranslationCovers
    <3> QED
      BY <1>3, <1>14, <2>1, <3>1 DEF Kept, InstrAt
  <2> QED
    BY <1>2, <1>3, <1>9, <1>10, <1>11, <1>12, <1>13, <2>2, <2>3 DEF IInv, Modes
<1>15. CASE temp_break
  <2>1. /\ Statics' = Len(bps') - 1 /\ Statics = Len(bps) - 1 /\ StaticsOf(bps') = Len(bps') - 1
        /\ Len(bps) \in Nat /\ Len(bps) > 0
    <3>1. Statics' = Len(bps') - 1 /\ Statics = Len(bps) - 1 /\ StaticsOf(bps') = Len(bps') - 1
      BY <1>3, <1>15 DEF Statics, StaticsOf
    <3> QED
      BY <1>2, <1>8, <3>1, LenProperties, LimitAssumption DEF Temporary
  <2>2. Len(bps') \in Nat \ {0} /\ InstrAt(bps'[Len(bps')].x86) = InstrAt(bps[Len(bps)].x86)
    BY <1>4, <1>5, <1>7, <1>8, <2>1, LastUpdated DEF Updating
  <2>3. Temporary'
    <3>1. Len(bps') - 1 \in 0..Limit
      BY <1>2, <1>8, <2>1, <2>2, LimitAssumption DEF Temporary
    <3>2. InstrAt(asked.place) \subseteq InstrAt(bps'[Len(bps')].x86)
      BY <1>2, <1>15, <2>2 DEF Temporary
    <3> QED
      BY <1>2, <1>3, <1>15, <2>1, <3>1, <3>2 DEF Temporary, InstrAt
  <2>4. Kept'
    <3>1. ASSUME NEW i \in wanted \ risked PROVE \E j \in 1..(Len(bps') - 1) : i \in InstrAt(bps'[j].x86)
      BY <1>2, <1>4, <1>5, <1>7, <2>1, TranslationCovers
    <3>2. Len(bps') - 1 > 0 /\ Pending(bps'[Len(bps') - 1]) =>
             InstrAt(bps'[Len(bps') - 1].x86) \cap InstrAt(bps'[Len(bps')].x86) \subseteq risked
      BY <1>2, <1>4, <1>5, <1>7, <1>15, TranslationRisks
    <3> QED
      BY <1>3, <2>1, <3>1, <3>2 DEF Kept, InstrAt, Pending
  <2> QED
    BY <1>2, <1>3, <1>9, <1>10, <1>11, <1>12, <1>13, <2>3, <2>4 DEF IInv, Modes
<1> QED
  BY <1>2, <1>14, <1>15 DEF TypeOK

-----------------------------------------------------------------------------
(* The invariant is inductive: the menu *)

LEMMA Removed ==
    ASSUME NEW S, NEW s \in Seq(S), NEW k \in 1..Len(s)
    PROVE  LET t == RemoveAt(s, k)
           IN  /\ t \in Seq(S) /\ Len(t) = Len(s) - 1 /\ Len(s) \in Nat
               /\ \A n \in 1..Len(t) : t[n] = s[IF n < k THEN n ELSE n + 1]
<1> DEFINE a == SubSeq(s, 1, k - 1)
           c == SubSeq(s, k + 1, Len(s))
           t == RemoveAt(s, k)
<1>1. Len(s) \in Nat /\ k \in Nat /\ k - 1 \in Nat /\ k + 1 \in Nat
  BY LenProperties
<1>2. a \in Seq(S) /\ Len(a) = k - 1 /\ \A n \in 1..(k - 1) : a[n] = s[n]
  <2>1. \A i \in 1..(k - 1) : s[i] \in S
    BY <1>1
  <2>2. /\ a \in Seq(S) /\ Len(a) = (IF 1 <= k - 1 THEN (k - 1) - 1 + 1 ELSE 0)
        /\ \A n \in 1..((k - 1) - 1 + 1) : a[n] = s[1 + n - 1]
    BY <1>1, <2>1, SubSeqProperties
  <2> HIDE DEF a
  <2> QED
    BY <1>1, <2>2
<1>3. c \in Seq(S) /\ Len(c) = Len(s) - k /\ \A n \in 1..(Len(s) - k) : c[n] = s[k + n]
  <2>1. \A i \in (k + 1)..Len(s) : s[i] \in S
    BY <1>1
  <2>2. /\ c \in Seq(S) /\ Len(c) = (IF k + 1 <= Len(s) THEN Len(s) - (k + 1) + 1 ELSE 0)
        /\ \A n \in 1..(Len(s) - (k + 1) + 1) : c[n] = s[(k + 1) + n - 1]
    BY <1>1, <2>1, SubSeqProperties
  <2> HIDE DEF c
  <2>3. ASSUME NEW n \in 1..(Len(s) - k) PROVE c[n] = s[k + n]
    <3>1. n \in 1..(Len(s) - (k + 1) + 1) /\ (k + 1) + n - 1 = k + n
      BY <1>1
    <3> QED
      BY <2>2, <3>1
  <2> QED
    BY <1>1, <2>2, <2>3
<1>4. t = a \o c
  BY DEF RemoveAt
<1> HIDE DEF a, c, t
<1>5. /\ a \o c \in Seq(S) /\ Len(a \o c) = Len(a) + Len(c)
      /\ \A i \in 1..(Len(a) + Len(c)) : (a \o c)[i] = IF i <= Len(a) THEN a[i] ELSE c[i - Len(a)]
  BY <1>2, <1>3, ConcatProperties
<1>6. t \in Seq(S) /\ Len(t) = Len(s) - 1
  BY <1>1, <1>2, <1>3, <1>4, <1>5
<1>7. ASSUME NEW n \in 1..Len(t) PROVE t[n] = s[IF n < k THEN n ELSE n + 1]
  <2>1. t[n] = IF n <= k - 1 THEN a[n] ELSE c[n - (k - 1)]
    BY <1>1, <1>2, <1>3, <1>4, <1>5, <1>6
  <2>2. CASE n < k
    <3>1. n \in 1..(k - 1) /\ n <= k - 1
      BY <1>1, <2>2
    <3> QED
      BY <1>2, <2>1, <2>2, <3>1
  <2>3. CASE ~(n < k)
    <3>1. n - (k - 1) \in 1..(Len(s) - k) /\ k + (n - (k - 1)) = n + 1 /\ ~(n <= k - 1)
      BY <1>1, <1>6, <2>3
    <3> QED
      BY <1>3, <2>1, <2>3, <3>1
  <2> QED
    BY <2>2, <2>3
<1> QED
  BY <1>1, <1>6, <1>7 DEF t

LEMMA Fronted ==
    ASSUME NEW S, NEW s \in Seq(S), Len(s) > 0
    PROVE  /\ Front(s) \in Seq(S) /\ Len(Front(s)) = Len(s) - 1 /\ Len(s) \in Nat
           /\ \A n \in 1..(Len(s) - 1) : Front(s)[n] = s[n]
<1>1. Len(s) \in Nat /\ Len(s) - 1 \in Nat
  BY LenProperties
<1>2. \A i \in 1..(Len(s) - 1) : s[i] \in S
  BY <1>1
<1> DEFINE t == SubSeq(s, 1, Len(s) - 1)
<1>3. /\ t \in Seq(S) /\ Len(t) = (IF 1 <= Len(s) - 1 THEN (Len(s) - 1) - 1 + 1 ELSE 0)
      /\ \A n \in 1..((Len(s) - 1) - 1 + 1) : t[n] = s[1 + n - 1]
  BY <1>1, <1>2, SubSeqProperties
<1>4. Front(s) = t
  BY DEF Front
<1> HIDE DEF t
<1> QED
  BY <1>1, <1>3, <1>4

\* A new break point is placed if a block holds its address.
LEMMA FreshPlaced ==
    ASSUME TypeOK, NEW x \in Nat
    PROVE  Fresh(x) \in BreakPoints /\ WellPlaced(Fresh(x)) /\ InstrAt(Fresh(x).x86) = InstrAt(x)
<1> DEFINE in == {n \in Indices : InBlock(x, Block(n))}
<1>1. Fresh(x) = IF in = {} THEN [x86 |-> x, riscv |-> 0] ELSE Placed(x, Block(Min(in)))
  BY DEF Fresh
<1>2. CASE in = {}
  <2>1. Fresh(x) = [x86 |-> x, riscv |-> 0]
    BY <1>1, <1>2
  <2>2. Fresh(x) \in BreakPoints /\ Fresh(x).x86 = x /\ Pending(Fresh(x))
    BY <2>1 DEF BreakPoints, Pending
  <2> QED
    BY <1>2, <2>2 DEF WellPlaced
<1>3. CASE in # {}
  <2>1. in \in SUBSET Nat
    BY BlockFacts
  <2>2. Min(in) \in in
    <3> HIDE DEF in
    <3> QED
      BY <1>3, <2>1, LeastOf
  <2>3. PICK n \in Indices : n = Min(in) /\ InBlock(x, Block(n))
    BY <2>2
  <2>4. BlockShape(Block(n))
    BY BlockFacts
  <2> DEFINE t == Placed(x, Block(n))
  <2>5. PICK i : InstrAt(x) = {i} /\ InstrAt(t.x86) = {i} /\ t \in BreakPoints /\ ~Pending(t) /\ InCode(t, Block(n))
    <3> DEFINE b == Block(n)
    <3> HIDE DEF b
    <3> QED
      BY <2>3, <2>4, PlacedThere DEF b
  <2>6. Fresh(x) = t
    BY <1>1, <1>3, <2>3
  <2> HIDE DEF t
  <2> QED
    BY <2>5, <2>6 DEF WellPlaced
<1> QED
  BY <1>2, <1>3

\* Nothing that is said of the blocks changes when they do not.
LEMMA SameBlocks ==
    ASSUME blocks' = blocks, riscv_enabled' = riscv_enabled
    PROVE  /\ BlocksApart => BlocksApart'
           /\ \A i : Covering(i)' = Covering(i)
           /\ \A e : WellPlaced(e) => WellPlaced(e)'
           /\ Indices' = Indices /\ \A n : Block(n)' = Block(n)
           /\ (\A n \in Indices : BlockShape(Block(n))) => (\A n \in Indices : BlockShape(Block(n)))'
           /\ at' = at => ra' = ra /\ RiscvEntries' = RiscvEntries /\ ThisBlock' = ThisBlock
<1>1. BlocksApart => BlocksApart'
  BY DEF BlocksApart, Indices, Block, HostEnd
<1>2. \A i : Covering(i)' = Covering(i)
  BY DEF Covering, Indices, Block
<1>3. \A e : WellPlaced(e) => WellPlaced(e)'
  BY DEF WellPlaced, Indices, Block
<1>4. Indices' = Indices /\ \A n : Block(n)' = Block(n)
  BY DEF Indices, Block
<1>5. (\A n \in Indices : BlockShape(Block(n))) => (\A n \in Indices : BlockShape(Block(n)))'
  BY DEF Indices, Block, BlockShape, Contents
<1>6. at' = at => ra' = ra /\ RiscvEntries' = RiscvEntries /\ ThisBlock' = ThisBlock
  BY DEF ra, RiscvEntries, ThisBlock, Covering, Indices, Block
<1> QED
  BY <1>1, <1>2, <1>3, <1>4, <1>5, <1>6

\* A step at an entry that leaves the blocks and the guest where they are.
LEMMA StandStill ==
    ASSUME IInv, blocks' = blocks, riscv_enabled' = riscv_enabled, at' = at,
           phase # "translate", phase' # "translate"
    PROVE  /\ BlocksApart' /\ AtEntry' /\ ra' = ra
           /\ current' = current /\ current_index' = current_index => CurrentListed'
           /\ bps' = bps => BreakPointsPlaced'
<1>1. BlocksApart /\ AtEntry /\ CurrentListed /\ BreakPointsPlaced
  BY DEF IInv
<1>2. /\ BlocksApart' /\ \A i : Covering(i)' = Covering(i)
      /\ \A e : WellPlaced(e) => WellPlaced(e)'
      /\ Indices' = Indices /\ ra' = ra /\ RiscvEntries' = RiscvEntries
  BY <1>1, SameBlocks
<1>3. AtEntry'
  <2>1. Covering(at.instr)' = Covering(at.instr)
    BY DEF Covering, Indices, Block
  <2> QED
    BY <1>1, <1>2, <2>1 DEF AtEntry
<1>4. current' = current /\ current_index' = current_index => CurrentListed'
  BY <1>1, <1>2 DEF CurrentListed
<1>5. bps' = bps => BreakPointsPlaced'
  <2>1. ASSUME bps' = bps, NEW k \in 1..Len(bps) PROVE WellPlaced(bps[k])'
    <3>1. WellPlaced(bps[k])
      BY <1>1 DEF BreakPointsPlaced
    <3> QED
      BY <2>1, <3>1 DEF WellPlaced, Indices, Block
  <2> QED
    BY <2>1 DEF BreakPointsPlaced
<1> QED
  BY <1>2, <1>3, <1>4, <1>5

\* A command that stays in the menu, whatever it makes of the break points.
LEMMA MenuKeeps ==
    ASSUME IInv, InMenu, bps' \in Seq(BreakPoints), \A k \in 1..Len(bps') : WellPlaced(bps'[k]),
           Len(bps') \in 0..Limit, wanted' \subseteq Instrs,
           \A i \in wanted' \ risked : \E k \in 1..Len(bps') : i \in InstrAt(bps'[k].x86),
           signal' = signal \/ signal' = ra
    PROVE  IInv'
<1>1. /\ TypeOK /\ CurrentListed /\ BlocksApart /\ AtEntry /\ BreakPointsPlaced /\ Temporary
      /\ Kept /\ Modes
  BY DEF IInv
<1>2. /\ phase = "menu" /\ phase' = phase
      /\ riscv_enabled' = riscv_enabled /\ at' = at /\ attached' = attached /\ blocks' = blocks
      /\ current' = current /\ current_index' = current_index
      /\ temp_break' = temp_break /\ init' = init /\ await' = await /\ halt' = halt
      /\ step_riscv' = step_riscv /\ run_break' = run_break
      /\ asked' = asked /\ travelled' = travelled /\ waved' = waved /\ risked' = risked
  BY DEF InMenu, modes
<1>3. BlocksApart' /\ AtEntry' /\ CurrentListed' /\ ra' = ra
  BY <1>2, StandStill
<1>4. temp_break = FALSE /\ ~temp_break'
  BY <1>1, <1>2 DEF Temporary, TypeOK
<1>5. BreakPointsPlaced'
  BY <1>2 DEF BreakPointsPlaced, WellPlaced, Indices, Block
<1>6. Statics' = Len(bps')
  BY <1>4 DEF Statics
<1>7. Temporary'
  BY <1>2, <1>4, <1>6 DEF Temporary
<1>8. Kept'
  BY <1>2, <1>4, <1>6 DEF Kept, InstrAt
<1>9. Modes'
  BY <1>1, <1>2, <1>3 DEF Modes
<1>10. TypeOK'
  <2>1. ra \in Nat
    BY <1>1, <1>2, EntryAddress
  <2>2. (\A n \in Indices : BlockShape(Block(n)))'
    BY <1>1, <1>2, SameBlocks DEF TypeOK
  <2> QED
    BY <1>1, <1>2, <2>1, <2>2 DEF TypeOK
<1> QED
  BY <1>3, <1>5, <1>7, <1>8, <1>9, <1>10 DEF IInv

LEMMA BreakPointKeeps ==
    ASSUME IInv, NEW x \in Places \cup Edges, BreakPoint(x)
    PROVE  IInv'
<1>1. TypeOK /\ BreakPointsPlaced /\ Temporary /\ Kept /\ phase = "menu" /\ InMenu /\ signal' = signal
  BY DEF IInv, BreakPoint, InMenu
<1>2. /\ bps \in Seq(BreakPoints) /\ Len(bps) \in Nat /\ Len(bps) \in 0..Limit /\ Len(bps) # Limit
      /\ wanted \subseteq Instrs /\ Statics = Len(bps)
  BY <1>1, LenProperties DEF TypeOK, Temporary, Statics, BreakPoint
<1>3. x \in Nat
  <2>1. CASE x \in Places
    BY <2>1, LimitAssumption
  <2>2. CASE x \in Edges
    <3>1. PICK c \in Range(blocks) : x = x86_start(c) \/ x = LastInstr(c)
      BY <2>2 DEF Edges
    <3>2. PICK m \in DOMAIN blocks : c = blocks[m]
      BY <3>1 DEF Range
    <3>3. m \in 1..Len(blocks) /\ blocks[m] \in Blocks
      BY <1>1, <3>2, ElementOfSeq DEF TypeOK
    <3>4. c.first \in Instrs /\ c.last \in Instrs
      BY <3>2, <3>3 DEF Blocks
    <3> QED
      BY <3>1, <3>4, AtItsAddress DEF x86_start, LastInstr
  <2> QED
    BY <2>1, <2>2
<1>4. CASE AlreadySet(x)
  <2>1. bps' = bps /\ wanted' = wanted
    BY <1>4 DEF BreakPoint
  <2>2. \A k \in 1..Len(bps) : WellPlaced(bps[k])
    BY <1>1 DEF BreakPointsPlaced
  <2>3. \A i \in wanted \ risked : \E k \in 1..Len(bps) : i \in InstrAt(bps[k].x86)
    BY <1>1, <1>2 DEF Kept
  <2> QED
    BY <1>1, <1>2, <2>1, <2>2, <2>3, MenuKeeps
<1>5. CASE ~AlreadySet(x)
  <2> DEFINE k == Position(x)
             t == InsertAt(bps, k + 1, Fresh(x))
  <2>1. k \in 0..Len(bps)
    <3> DEFINE S == {0} \cup {j \in 1..Len(bps) : bps[j].x86 < x}
    <3>1. S \in SUBSET (0..Len(bps)) /\ S # {}
      BY <1>2
    <3>2. Max(S) \in S
      <4> HIDE DEF S
      <4> QED
        BY <1>2, <3>1, GreatestOf
    <3> QED
      BY <3>1, <3>2 DEF Position
  <2>2. Fresh(x) \in BreakPoints /\ WellPlaced(Fresh(x)) /\ InstrAt(Fresh(x).x86) = InstrAt(x)
    BY <1>1, <1>3, FreshPlaced
  <2>3. bps' = t /\ wanted' = wanted \cup InstrAt(x)
    BY <1>5 DEF BreakPoint, InsertStatic
  <2> HIDE DEF k
  <2>4. /\ t \in Seq(BreakPoints) /\ Len(t) = Len(bps) + 1
        /\ \A n \in 1..Len(t) : t[n] = IF n <= k THEN bps[n] ELSE IF n = k + 1 THEN Fresh(x) ELSE bps[n - 1]
    <3> DEFINE e == Fresh(x)
               r == InsertAt(bps, k + 1, e)
    <3>1. e \in BreakPoints
      BY <2>2
    <3> HIDE DEF e
    <3>2. r \in Seq(BreakPoints) /\ IsInserted(r, bps, k, e)
      <4>1. bps \in Seq(BreakPoints) /\ k \in 0..Len(bps)
        BY <1>2, <2>1
      <4> QED
        BY <3>1, <4>1, Inserted
    <3> QED
      BY <3>2 DEF e, IsInserted
  <2> HIDE DEF t
  <2>5. ASSUME NEW n \in 1..Len(t) PROVE WellPlaced(t[n])
    <3>1. CASE n <= k
      BY <1>1, <1>2, <2>1, <2>4, <3>1 DEF BreakPointsPlaced
    <3>2. CASE n = k + 1
      BY <2>1, <2>2, <2>4, <3>2
    <3>3. CASE ~(n <= k) /\ n # k + 1
      <4>1. n - 1 \in 1..Len(bps) /\ t[n] = bps[n - 1]
        BY <1>2, <2>1, <2>4, <3>3
      <4> QED
        BY <1>1, <4>1 DEF BreakPointsPlaced
    <3> QED
      BY <3>1, <3>2, <3>3
  <2>6. ASSUME NEW i \in wanted' \ risked PROVE \E n \in 1..Len(t) : i \in InstrAt(t[n].x86)
    <3>1. CASE i \in wanted
      <4>1. PICK n \in 1..Len(bps) : i \in InstrAt(bps[n].x86)
        BY <1>1, <1>2, <2>6, <3>1 DEF Kept
      <4>2. CASE n <= k
        <5>1. n \in 1..Len(t) /\ t[n] = bps[n]
          BY <1>2, <2>4, <4>2
        <5> QED
          BY <4>1, <5>1
      <4>3. CASE ~(n <= k)
        <5>1. n + 1 \in 1..Len(t) /\ ~(n + 1 <= k) /\ n + 1 # k + 1 /\ (n + 1) - 1 = n
          BY <1>2, <2>1, <2>4, <4>3
        <5>2. t[n + 1] = bps[n]
          BY <2>4, <5>1
        <5> QED
          BY <4>1, <5>1, <5>2
      <4> QED
        BY <4>2, <4>3
    <3>2. CASE i \in InstrAt(x)
      <4>1. k + 1 \in 1..Len(t) /\ ~(k + 1 <= k)
        BY <1>2, <2>1, <2>4
      <4>2. t[k + 1] = Fresh(x)
        BY <2>4, <4>1
      <4> QED
        BY <2>2, <3>2, <4>1, <4>2
    <3> QED
      BY <2>3, <2>6, <3>1, <3>2
  <2>7. Len(t) \in 0..Limit /\ wanted' \subseteq Instrs
    BY <1>2, <2>3, <2>4, LimitAssumption DEF InstrAt
  <2> QED
    BY <1>1, <2>3, <2>4, <2>5, <2>6, <2>7, MenuKeeps
<1> QED
  BY <1>4, <1>5

LEMMA RemoveKeeps ==
    ASSUME IInv, NEW k \in 1..Len(bps), RemovePoint(k)
    PROVE  IInv'
<1> DEFINE t == RemoveAt(bps, k)
<1>1. TypeOK /\ BreakPointsPlaced /\ Temporary /\ Kept /\ phase = "menu" /\ InMenu /\ signal' = signal
  BY DEF IInv, RemovePoint, InMenu
<1>2. /\ bps \in Seq(BreakPoints) /\ Len(bps) \in Nat /\ Len(bps) \in 0..Limit
      /\ wanted \subseteq Instrs /\ Statics = Len(bps)
  BY <1>1, LenProperties DEF TypeOK, Temporary, Statics
<1>3. /\ bps' = t
      /\ wanted' = wanted \ (InstrAt(bps[k].x86) \ UNION {InstrAt(bps[j].x86) : j \in 1..Len(bps) \ {k}})
  BY DEF RemovePoint
<1>4. /\ t \in Seq(BreakPoints) /\ Len(t) = Len(bps) - 1
      /\ \A n \in 1..Len(t) : t[n] = bps[IF n < k THEN n ELSE n + 1]
  BY <1>2, Removed
<1> HIDE DEF t
<1>5. ASSUME NEW n \in 1..Len(t) PROVE WellPlaced(t[n])
  <2>1. (IF n < k THEN n ELSE n + 1) \in 1..Len(bps)
    BY <1>2, <1>4
  <2> QED
    BY <1>1, <1>4, <2>1 DEF BreakPointsPlaced
<1>6. ASSUME NEW i \in wanted' \ risked PROVE \E n \in 1..Len(t) : i \in InstrAt(t[n].x86)
  <2>1. PICK j \in 1..Len(bps) \ {k} : i \in InstrAt(bps[j].x86)
    <3>1. PICK m \in 1..Len(bps) : i \in InstrAt(bps[m].x86)
      BY <1>1, <1>2, <1>3, <1>6 DEF Kept
    <3> QED
      BY <1>3, <1>6, <3>1
  <2>2. CASE j < k
    <3>1. j \in 1..Len(t)
      BY <1>2, <1>4, <2>2
    <3>2. t[j] = bps[j]
      BY <1>4, <2>2, <3>1
    <3> QED
      BY <2>1, <3>1, <3>2
  <2>3. CASE ~(j < k)
    <3>1. j - 1 \in 1..Len(t) /\ ~(j - 1 < k) /\ (j - 1) + 1 = j
      BY <1>2, <1>4, <2>1, <2>3
    <3>2. t[j - 1] = bps[j]
      BY <1>4, <3>1
    <3> QED
      BY <2>1, <3>1, <3>2
  <2> QED
    BY <2>2, <2>3
<1>7. Len(t) \in 0..Limit /\ wanted' \subseteq Instrs
  BY <1>2, <1>3, <1>4, LimitAssumption
<1> QED
  BY <1>1, <1>3, <1>4, <1>5, <1>6, <1>7, MenuKeeps

LEMMA SignalKeeps ==
    ASSUME IInv, Signal
    PROVE  IInv'
<1>1. /\ TypeOK /\ BreakPointsPlaced /\ Temporary /\ Kept /\ InMenu /\ phase = "menu"
      /\ bps' = bps /\ wanted' = wanted /\ signal' = ra
  BY DEF IInv, Signal, InMenu
<1>2. Statics = Len(bps)
  BY <1>1 DEF Temporary, Statics
<1>3. bps \in Seq(BreakPoints) /\ Len(bps) \in 0..Limit /\ wanted \subseteq Instrs
  BY <1>1, <1>2 DEF TypeOK, Temporary
<1>4. \A k \in 1..Len(bps) : WellPlaced(bps[k])
  BY <1>1 DEF BreakPointsPlaced
<1>5. \A i \in wanted \ risked : \E k \in 1..Len(bps) : i \in InstrAt(bps[k].x86)
  BY <1>1, <1>2 DEF Kept
<1> QED
  BY <1>1, <1>3, <1>4, <1>5, MenuKeeps

\* A command that lets the guest run on.
Commands == [kind : Kinds, count : Counts \cup {0, 1}, place : Places \cup {0}]

LEMMA ResumeKeeps ==
    ASSUME IInv, NEW a \in Commands, Resume(a), await' \in Awaited, step_riscv' \in BOOLEAN,
           step_riscv' => riscv_enabled, run_break' \in Nat, attached' \in BOOLEAN,
           attached' => attached, temp_break' \in BOOLEAN, bps' \in Seq(BreakPoints),
           \A k \in 1..Len(bps') : WellPlaced(bps'[k]), risked' \subseteq Instrs,
           Temporary', Kept'
    PROVE  IInv'
<1>1. /\ TypeOK /\ CurrentListed /\ BlocksApart /\ AtEntry /\ BreakPointsPlaced /\ Temporary
      /\ Kept /\ Modes
  BY DEF IInv
<1>2. /\ phase = "menu" /\ phase' = "code" /\ halt' = (await' # "none" \/ step_riscv')
      /\ asked' = a /\ travelled' = 0 /\ waved' = FALSE
      /\ riscv_enabled' = riscv_enabled /\ at' = at /\ blocks' = blocks
      /\ current' = current /\ current_index' = current_index
      /\ init' = init /\ signal' = signal /\ wanted' = wanted
  BY DEF Resume
<1>3. BlocksApart' /\ AtEntry' /\ CurrentListed' /\ ra' = ra
  BY <1>2, StandStill
<1>4. BreakPointsPlaced'
  BY <1>2 DEF BreakPointsPlaced, WellPlaced, Indices, Block
<1>5. Modes'
  BY <1>1, <1>2, <1>3 DEF Modes
<1>6. TypeOK'
  <2>1. (\A n \in Indices : BlockShape(Block(n)))'
    BY <1>1, <1>2, SameBlocks DEF TypeOK
  <2> QED
    BY <1>1, <1>2, <2>1 DEF TypeOK, Phases, Commands
<1> QED
  BY <1>3, <1>4, <1>5, <1>6 DEF IInv

LEMMA RunsFreely ==
    ASSUME IInv, NEW a \in Commands, Resume(a), a.place = 0, NoTarget, await' \in Awaited,
           step_riscv' \in BOOLEAN, step_riscv' => riscv_enabled, run_break' \in Nat,
           attached' \in BOOLEAN, attached' => attached
    PROVE  IInv'
<1>1. TypeOK /\ BreakPointsPlaced /\ Temporary /\ Kept
  BY DEF IInv
<1>2. /\ phase = "menu" /\ phase' = "code" /\ asked' = a /\ wanted' = wanted
      /\ bps' = bps /\ temp_break' = temp_break /\ risked' = risked
  BY DEF Resume, NoTarget
<1>3. temp_break = FALSE
  BY <1>1, <1>2 DEF Temporary, TypeOK
<1>4. Temporary'
  BY <1>1, <1>2, <1>3 DEF Temporary, Statics
<1>5. Kept'
  BY <1>1, <1>2, <1>3 DEF Kept, Statics, InstrAt
<1>6. \A k \in 1..Len(bps') : WellPlaced(bps'[k])
  BY <1>1, <1>2 DEF BreakPointsPlaced
<1> QED
  BY <1>1, <1>2, <1>4, <1>5, <1>6, ResumeKeeps DEF TypeOK

LEMMA RunToKeeps ==
    ASSUME IInv, NEW x \in Places, RunTo(x)
    PROVE  IInv'
<1> DEFINE e == Fresh(x)
           t == Append(bps, e)
           n == Len(bps)
<1>1. TypeOK /\ BreakPointsPlaced /\ Temporary /\ Kept
  BY DEF IInv
<1>2. /\ phase = "menu" /\ phase' = "code" /\ asked' = Asked("run", NoCount, x) /\ wanted' = wanted
      /\ bps' = t /\ temp_break' = TRUE /\ risked' = risked \cup AtRisk(x)
      /\ run_break' = n /\ await' = await /\ step_riscv' = step_riscv /\ attached' = attached
      /\ riscv_enabled' = riscv_enabled
  BY DEF RunTo, Resume, InsertTemporary
<1>3. /\ x \in Nat /\ bps \in Seq(BreakPoints) /\ n \in Nat /\ n \in 0..Limit /\ Statics = n
  BY <1>1, <1>2, LimitAssumption, LenProperties DEF Temporary, TypeOK, Statics
<1>4. e \in BreakPoints /\ WellPlaced(e) /\ InstrAt(e.x86) = InstrAt(x)
  BY <1>1, <1>3, FreshPlaced
<1> HIDE DEF e
<1>5. /\ t \in Seq(BreakPoints) /\ Len(t) = n + 1 /\ t[Len(t)] = e
      /\ \A k \in 1..n : t[k] = bps[k]
      /\ \A k \in 1..Len(t) : k \in 1..n \/ k = Len(t)
  BY <1>3, <1>4, Appended
<1> HIDE DEF t
<1>6. \A k \in 1..Len(t) : WellPlaced(t[k])
  BY <1>1, <1>4, <1>5 DEF BreakPointsPlaced
<1>7. Statics' = n
  BY <1>2, <1>3, <1>5 DEF Statics
<1>8. Temporary'
  <2>1. asked'.place = x
    BY <1>2 DEF Asked
  <2>2. (InstrAt(asked.place) \subseteq InstrAt(bps[Len(bps)].x86))'
    BY <1>2, <1>4, <1>5, <2>1 DEF InstrAt
  <2> QED
    BY <1>2, <1>3, <1>7, <2>2 DEF Temporary
<1>9. Kept'
  <2>1. ASSUME NEW i \in wanted \ risked' PROVE \E k \in 1..n : i \in InstrAt(t[k].x86)
    <3>1. PICK k \in 1..n : i \in InstrAt(bps[k].x86)
      BY <1>1, <1>2, <1>3, <2>1 DEF Kept
    <3> QED
      BY <1>5, <3>1
  <2>2. ASSUME n > 0, Pending(t[n]) PROVE InstrAt(t[n].x86) \cap InstrAt(t[Len(t)].x86) \subseteq risked'
    <3>1. t[n] = bps[n] /\ bps # <<>> /\ Last(bps) = bps[n]
      BY <1>3, <1>5, <2>2 DEF Last
    <3> QED
      BY <1>2, <1>4, <1>5, <2>2, <3>1 DEF AtRisk
  <2> QED
    BY <1>2, <1>7, <2>1, <2>2 DEF Kept, InstrAt, Pending
<1>10. Asked("run", NoCount, x) \in Commands /\ Resume(Asked("run", NoCount, x))
  BY DEF Asked, Commands, Kinds, NoCount, RunTo
<1>11. risked' \subseteq Instrs
  BY <1>1, <1>2 DEF TypeOK, AtRisk, InstrAt
<1> DEFINE a == Asked("run", NoCount, x)
<1>12. /\ a \in Commands /\ Resume(a) /\ await' \in Awaited /\ step_riscv' \in BOOLEAN
       /\ (step_riscv' => riscv_enabled) /\ run_break' \in Nat /\ attached' \in BOOLEAN
       /\ (attached' => attached) /\ temp_break' \in BOOLEAN
       /\ bps' \in Seq(BreakPoints) /\ \A k \in 1..Len(bps') : WellPlaced(bps'[k])
  <2>1. step_riscv => riscv_enabled
    BY DEF IInv, Modes
  <2> QED
    BY <1>1, <1>2, <1>3, <1>5, <1>6, <1>10, <2>1 DEF TypeOK
<1> HIDE DEF a
<1> QED
  BY <1>8, <1>9, <1>11, <1>12, ResumeKeeps

LEMMA CommandKeeps ==
    ASSUME IInv, \/ Run \/ Step \/ Crawl \/ Quit
                 \/ \E end \in {"sob", "eob"} : Edge(end)
                 \/ \E n \in Counts : StepCount(n) \/ CrawlCount(n)
    PROVE  IInv'
<1>1. /\ await \in Awaited /\ step_riscv \in BOOLEAN /\ run_break \in Nat /\ attached \in BOOLEAN
      /\ step_riscv => riscv_enabled
  BY DEF IInv, TypeOK, Modes
<1>2. ASSUME NEW kind \in Kinds, NEW n \in Counts \cup {0, 1}
      PROVE  Asked(kind, n, 0) \in Commands /\ Asked(kind, n, 0).place = 0
  BY DEF Asked, Commands
<1>3. CASE Run
  <2>1. Resume(Asked("run", NoCount, 0)) /\ NoTarget
        /\ await' = await /\ step_riscv' = step_riscv /\ run_break' = run_break /\ attached' = attached
    BY <1>3 DEF Run
  <2>2. Asked("run", NoCount, 0) \in Commands /\ Asked("run", NoCount, 0).place = 0
    BY <1>2 DEF NoCount, Kinds
  <2> QED
    BY <1>1, <2>1, <2>2, RunsFreely
<1>4. CASE Step
  <2>1. Resume(Asked("step", 1, 0)) /\ NoTarget
        /\ await' = "step" /\ step_riscv' = step_riscv /\ run_break' = run_break /\ attached' = attached
    BY <1>4 DEF Step
  <2>2. Asked("step", 1, 0) \in Commands /\ Asked("step", 1, 0).place = 0
    BY <1>2 DEF Kinds
  <2> QED
    BY <1>1, <2>1, <2>2, RunsFreely DEF Awaited
<1>5. CASE Crawl
  <2>1. Resume(Asked("crawl", 1, 0)) /\ NoTarget /\ riscv_enabled
        /\ await' = await /\ step_riscv' = TRUE /\ run_break' = run_break /\ attached' = attached
    BY <1>5 DEF Crawl
  <2>2. Asked("crawl", 1, 0) \in Commands /\ Asked("crawl", 1, 0).place = 0
    BY <1>2 DEF Kinds
  <2> QED
    BY <1>1, <2>1, <2>2, RunsFreely
<1>6. CASE Quit
  <2>1. Resume(Asked("quit", NoCount, 0)) /\ NoTarget
        /\ await' = await /\ step_riscv' = step_riscv /\ run_break' = run_break /\ attached' = FALSE
    BY <1>6 DEF Quit
  <2>2. Asked("quit", NoCount, 0) \in Commands /\ Asked("quit", NoCount, 0).place = 0
    BY <1>2 DEF NoCount, Kinds
  <2> QED
    BY <1>1, <2>1, <2>2, RunsFreely
<1>7. ASSUME NEW end \in {"sob", "eob"}, Edge(end) PROVE IInv'
  <2>1. Resume(Asked(end, NoCount, 0)) /\ NoTarget
        /\ await' = end /\ step_riscv' = step_riscv /\ run_break' = run_break /\ attached' = attached
    BY <1>7 DEF Edge
  <2>2. Asked(end, NoCount, 0) \in Commands /\ Asked(end, NoCount, 0).place = 0 /\ end \in Awaited
    BY <1>2 DEF NoCount, Kinds, Awaited
  <2> QED
    BY <1>1, <2>1, <2>2, RunsFreely
<1>8. ASSUME NEW n \in Counts, StepCount(n) PROVE IInv'
  <2>1. Resume(Asked("step", n, 0)) /\ NoTarget
        /\ await' = "counter" /\ step_riscv' = step_riscv /\ run_break' = n /\ attached' = attached
    BY <1>8 DEF StepCount
  <2>2. Asked("step", n, 0) \in Commands /\ Asked("step", n, 0).place = 0 /\ n \in Nat
    BY <1>2, LimitAssumption DEF Kinds
  <2> QED
    BY <1>1, <2>1, <2>2, RunsFreely DEF Awaited
<1>9. ASSUME NEW n \in Counts, CrawlCount(n) PROVE IInv'
  <2>1. Resume(Asked("crawl", n, 0)) /\ NoTarget /\ riscv_enabled
        /\ await' = "counter" /\ step_riscv' = TRUE /\ run_break' = n /\ attached' = attached
    BY <1>9 DEF CrawlCount
  <2>2. Asked("crawl", n, 0) \in Commands /\ Asked("crawl", n, 0).place = 0 /\ n \in Nat
    BY <1>2, LimitAssumption DEF Kinds
  <2> QED
    BY <1>1, <2>1, <2>2, RunsFreely DEF Awaited
<1> QED
  BY <1>3, <1>4, <1>5, <1>6, <1>7, <1>8, <1>9

-----------------------------------------------------------------------------
(* The invariant is inductive: the entries *)

\* The count of entries is capped above all that can be asked for.
LEMMA EnoughIsMore ==
    Enough \in Nat /\ \A n \in Counts \cup {0, 1} : n \in Nat /\ n < Enough
<1> DEFINE S == Counts \cup {1}
<1>1. PICK top \in Nat : Counts \subseteq 0..top
  BY LimitAssumption, FiniteBounded
<1>2. S \in SUBSET (0..(top + 1)) /\ S # {} /\ 1 \in S /\ top + 1 \in Nat
  BY <1>1
<1>3. Max(S) \in S /\ \A y \in S : y <= Max(S)
  <2> DEFINE bound == top + 1
  <2>1. bound \in Nat /\ S \in SUBSET (0..bound)
    BY <1>2
  <2> HIDE DEF S, bound
  <2> QED
    BY <1>2, <2>1, GreatestOf
<1>4. Enough = Max(S) + 1
  BY DEF Enough
<1>5. \A n \in S : n \in Nat
  BY LimitAssumption
<1> HIDE DEF S
<1>6. Max(S) \in Nat /\ Max(S) >= 1
  BY <1>2, <1>3, <1>5
<1>7. \A n \in S : n < Enough
  BY <1>3, <1>4, <1>5, <1>6
<1>8. \A n \in Counts \cup {0, 1} : n = 0 \/ n \in S
  BY DEF S
<1> QED
  BY <1>4, <1>5, <1>6, <1>7, <1>8

LEMMA TravelledOn ==
    ASSUME travelled \in Nat, Travel
    PROVE  /\ travelled' \in Nat
           /\ travelled' = travelled \/ travelled' = travelled + 1 \/ travelled' = Enough
           /\ at.hop = 0 \/ asked.kind = "crawl" =>
                 travelled' = IF travelled + 1 <= Enough THEN travelled + 1 ELSE Enough
           /\ at.hop # 0 /\ asked.kind # "crawl" => travelled' = travelled
<1> DEFINE S == {travelled + 1, Enough}
<1>1. Enough \in Nat
  BY EnoughIsMore
<1>2. S \in SUBSET Nat /\ S # {}
  BY <1>1
<1>3. Min(S) \in S /\ \A y \in S : Min(S) <= y
  <2> HIDE DEF S
  <2> QED
    BY <1>2, LeastOf
<1>4. Min(S) = IF travelled + 1 <= Enough THEN travelled + 1 ELSE Enough
  BY <1>1, <1>3
<1>5. travelled' = IF at.hop = 0 \/ asked.kind = "crawl" THEN Min(S) ELSE travelled
  BY DEF Travel
<1> HIDE DEF S
<1> QED
  BY <1>1, <1>4, <1>5

\* Whatever address is looked for, the block that is found is in the list.
LEMMA ResolvedListed ==
    ASSUME TypeOK, CurrentListed, NEW a
    PROVE  \/ Resolved(a).current = NoBlock /\ Resolved(a).index = Len(blocks) + 1
           \/ /\ Resolved(a).current = [of |-> Len(blocks), nth |-> Resolved(a).index]
              /\ Resolved(a).index \in Indices
<1>1. CASE KeepsCurrent(a)
  <2>1. Resolved(a).current = current /\ Resolved(a).index = current_index
    BY <1>1 DEF Resolved
  <2> QED
    BY <2>1 DEF CurrentListed
<1>2. CASE ~KeepsCurrent(a) /\ Holding(a) = {}
  <2>1. Resolved(a).current = NoBlock /\ Resolved(a).index = Len(blocks) + 1
    BY <1>2 DEF Resolved
  <2> QED
    BY <2>1
<1>3. CASE ~KeepsCurrent(a) /\ Holding(a) # {}
  <2> DEFINE S == Holding(a)
  <2>1. S \subseteq Indices
    BY DEF Holding
  <2>2. S \in SUBSET Nat /\ S # {}
    BY <1>3, <2>1, BlockFacts
  <2>3. Min(S) \in S
    <3> HIDE DEF S
    <3> QED
      BY <2>2, LeastOf
  <2>4. Resolved(a).current = [of |-> Len(blocks), nth |-> Min(S)] /\ Resolved(a).index = Min(S)
    BY <1>3 DEF Resolved
  <2> HIDE DEF S
  <2> QED
    BY <2>1, <2>3, <2>4
<1> QED
  BY <1>1, <1>2, <1>3

\* The frame of debug_entry.
LEMMA EntryFrame ==
    ASSUME IInv, DebugEntry
    PROVE  /\ phase = "enter" /\ attached /\ phase' \in {"menu", "code"}
           /\ BlocksApart' /\ AtEntry' /\ CurrentListed' /\ ra' = ra /\ ra \in Nat
           /\ (\A n \in Indices : BlockShape(Block(n)))'
           /\ riscv_enabled' = riscv_enabled /\ at' = at /\ blocks' = blocks /\ halt' = halt
           /\ attached' = attached /\ asked' = asked /\ wanted' = wanted /\ risked' = risked
           /\ travelled' \in Nat /\ waved' \in BOOLEAN /\ run_break' \in Nat
           /\ signal' = IF signal # 0 THEN ra ELSE 0
<1>1. TypeOK /\ CurrentListed /\ BlocksApart /\ AtEntry
  BY DEF IInv
<1>2. /\ phase = "enter" /\ attached
      /\ riscv_enabled' = riscv_enabled /\ at' = at /\ blocks' = blocks /\ halt' = halt
      /\ attached' = attached /\ asked' = asked /\ wanted' = wanted /\ risked' = risked
      /\ Travel /\ TellSignal /\ waved' = ~Stops /\ (Stop \/ Pass)
  BY DEF DebugEntry
<1>3. phase' \in {"menu", "code"}
  BY <1>2 DEF Stop, Pass
<1>4. BlocksApart' /\ AtEntry' /\ ra' = ra
  BY <1>2, <1>3, StandStill
<1>5. (\A n \in Indices : BlockShape(Block(n)))'
  BY <1>1, <1>2, SameBlocks DEF TypeOK
<1>6. CurrentListed'
  <2>1. Indices' = Indices
    BY <1>2 DEF Indices
  <2>2. CASE LookUp
    <3>1. current' = Resolved(ra).current /\ current_index' = Resolved(ra).index
      BY <2>2 DEF LookUp
    <3> QED
      BY <1>1, <1>2, <2>1, <3>1, ResolvedListed DEF CurrentListed
  <2>3. CASE current' = current /\ current_index' = current_index
    BY <1>1, <1>2, <2>1, <2>3 DEF CurrentListed
  <2> QED
    BY <1>2, <2>2, <2>3 DEF Stop, Pass
<1>7. ra \in Nat
  BY <1>1, <1>2, EntryAddress
<1>8. travelled' \in Nat
  BY <1>1, <1>2, TravelledOn DEF TypeOK
<1>9. run_break' \in Nat
  <2>1. run_break \in Nat
    BY <1>1 DEF TypeOK
  <2>2. Left \in Nat
    BY <2>1 DEF Left
  <2> QED
    BY <1>2, <2>1, <2>2 DEF Stop, Pass
<1>10. waved' \in BOOLEAN
  <2>1. Stops \in BOOLEAN
    BY DEF Stops
  <2> QED
    BY <1>2, <2>1
<1> QED
  BY <1>2, <1>3, <1>4, <1>5, <1>6, <1>7, <1>8, <1>9, <1>10 DEF TellSignal

LEMMA StopKeeps ==
    ASSUME IInv, DebugEntry, Stop
    PROVE  IInv'
<1> DEFINE n == Len(bps)
<1>1. /\ TypeOK /\ BreakPointsPlaced /\ Temporary /\ Kept /\ Modes
  BY DEF IInv
<1>2. /\ phase' = "menu" /\ init' = TRUE /\ temp_break' = FALSE
      /\ bps' = (IF temp_break THEN Front(bps) ELSE bps)
      /\ await' = "none" /\ step_riscv' = FALSE
  BY DEF Stop
<1>3. /\ phase = "enter" /\ BlocksApart' /\ AtEntry' /\ CurrentListed' /\ ra' = ra /\ ra \in Nat
      /\ (\A m \in Indices : BlockShape(Block(m)))'
      /\ riscv_enabled' = riscv_enabled /\ at' = at /\ blocks' = blocks /\ halt' = halt
      /\ attached' = attached /\ asked' = asked /\ wanted' = wanted /\ risked' = risked
      /\ travelled' \in Nat /\ waved' \in BOOLEAN /\ run_break' \in Nat
      /\ signal' = IF signal # 0 THEN ra ELSE 0
  BY EntryFrame
<1>4. bps \in Seq(BreakPoints) /\ n \in Nat /\ temp_break \in BOOLEAN
  BY <1>1, LenProperties DEF TypeOK
\* the temporary break point goes, the static ones stay
<1>5. /\ bps' \in Seq(BreakPoints) /\ Len(bps') = Statics /\ Statics \in 0..n /\ Statics \in 0..Limit
      /\ \A k \in 1..Statics : bps'[k] = bps[k]
  <2>1. CASE temp_break
    <3>1. Statics = n - 1 /\ Statics \in 0..Limit
      BY <1>1, <2>1 DEF Statics, Temporary
    <3>2. n > 0
      BY <1>4, <3>1, LimitAssumption
    <3>3. /\ Front(bps) \in Seq(BreakPoints) /\ Len(Front(bps)) = n - 1
          /\ \A k \in 1..(n - 1) : Front(bps)[k] = bps[k]
      BY <1>4, <3>2, Fronted
    <3> QED
      BY <1>2, <1>4, <2>1, <3>1, <3>2, <3>3
  <2>2. CASE ~temp_break
    BY <1>1, <1>2, <1>4, <2>2 DEF Statics, Temporary
  <2> QED
    BY <2>1, <2>2
<1>6. Statics' = Statics
  BY <1>2, <1>5 DEF Statics
<1>7. BreakPointsPlaced'
  <2>1. \A k \in 1..Len(bps') : WellPlaced(bps'[k])
    BY <1>1, <1>4, <1>5 DEF BreakPointsPlaced
  <2> QED
    BY <1>3, <2>1 DEF BreakPointsPlaced, WellPlaced, Indices, Block
<1>8. Temporary'
  BY <1>2, <1>5, <1>6 DEF Temporary
<1>9. Kept'
  <2>1. ASSUME NEW i \in wanted \ risked PROVE \E k \in 1..Statics : i \in InstrAt(bps'[k].x86)
    <3>1. PICK k \in 1..Statics : i \in InstrAt(bps[k].x86)
      BY <1>1 DEF Kept
    <3> QED
      BY <1>5, <3>1
  <2> QED
    BY <1>2, <1>3, <1>6, <2>1 DEF Kept, InstrAt
<1>10. Modes'
  BY <1>2, <1>3 DEF Modes
<1>11. TypeOK'
  BY <1>1, <1>2, <1>3, <1>5 DEF TypeOK, Phases, Awaited
<1> QED
  BY <1>3, <1>7, <1>8, <1>9, <1>10, <1>11 DEF IInv

LEMMA PassKeeps ==
    ASSUME IInv, DebugEntry, Pass
    PROVE  IInv'
<1>1. /\ TypeOK /\ BreakPointsPlaced /\ Temporary /\ Kept /\ Modes
  BY DEF IInv
<1>2. /\ phase' = "code" /\ init' = init /\ temp_break' = temp_break /\ bps' = bps
      /\ await' = await /\ step_riscv' = step_riscv
  BY DEF Pass
<1>3. /\ phase = "enter" /\ BlocksApart' /\ AtEntry' /\ CurrentListed' /\ ra' = ra /\ ra \in Nat
      /\ (\A m \in Indices : BlockShape(Block(m)))'
      /\ riscv_enabled' = riscv_enabled /\ at' = at /\ blocks' = blocks /\ halt' = halt
      /\ attached' = attached /\ asked' = asked /\ wanted' = wanted /\ risked' = risked
      /\ travelled' \in Nat /\ waved' \in BOOLEAN /\ run_break' \in Nat
      /\ signal' = IF signal # 0 THEN ra ELSE 0
  BY EntryFrame
<1>4. BreakPointsPlaced'
  BY <1>2, <1>3, StandStill
<1>5. Temporary'
  BY <1>1, <1>2, <1>3 DEF Temporary, Statics, InstrAt
<1>6. Kept'
  BY <1>1, <1>2, <1>3 DEF Kept, Statics, InstrAt
<1>7. Modes'
  BY <1>1, <1>2, <1>3 DEF Modes
<1>8. TypeOK'
  BY <1>1, <1>2, <1>3 DEF TypeOK, Phases
<1> QED
  BY <1>3, <1>4, <1>5, <1>6, <1>7, <1>8 DEF IInv

\* Steps that leave the break points and the modes alone.
LEMMA LeaveKeeps ==
    ASSUME IInv, Detached \/ Signalled \/ Leave \/ Done \/ UNCHANGED vars
    PROVE  IInv'
<1>1. /\ TypeOK /\ CurrentListed /\ BlocksApart /\ AtEntry /\ BreakPointsPlaced /\ Temporary
      /\ Kept /\ Modes
  BY DEF IInv
<1>2. CASE Done \/ UNCHANGED vars
  <2>1. UNCHANGED vars
    BY <1>2 DEF Done
  <2>2. UNCHANGED <<riscv_enabled, at, phase, blocks, current, current_index, bps>>
        /\ UNCHANGED <<temp_break, init, await, halt, step_riscv, run_break>>
        /\ UNCHANGED <<attached, signal, shown, reasons, asked, travelled, waved, wanted, risked>>
    BY <2>1 DEF vars, held, modes, history
  <2>3. /\ BlocksApart' /\ \A i : Covering(i)' = Covering(i)
        /\ \A e : WellPlaced(e) => WellPlaced(e)'
        /\ Indices' = Indices /\ ra' = ra /\ RiscvEntries' = RiscvEntries
        /\ (\A n \in Indices : BlockShape(Block(n)))'
    BY <1>1, <2>2, SameBlocks DEF TypeOK
  <2>4. TypeOK'
    BY <1>1, <2>2, <2>3 DEF TypeOK
  <2>5. CurrentListed'
    BY <1>1, <2>2, <2>3 DEF CurrentListed
  <2>6. AtEntry'
    <3>1. Covering(at.instr)' = Covering(at.instr)
      BY <2>2 DEF Covering, Indices, Block
    <3> QED
      BY <1>1, <2>2, <2>3, <3>1 DEF AtEntry
  <2>7. BreakPointsPlaced'
    <3>1. ASSUME NEW k \in 1..Len(bps) PROVE WellPlaced(bps[k])'
      <4>1. WellPlaced(bps[k])
        BY <1>1 DEF BreakPointsPlaced
      <4> QED
        BY <2>2, <4>1 DEF WellPlaced, Indices, Block
    <3> QED
      BY <2>2, <3>1 DEF BreakPointsPlaced
  <2>8. Temporary'
    BY <1>1, <2>2 DEF Temporary, Statics, InstrAt
  <2>9. Kept'
    BY <1>1, <2>2 DEF Kept, Statics, InstrAt
  <2>10. Modes'
    BY <1>1, <2>2, <2>3 DEF Modes
  <2> QED
    BY <2>3, <2>4, <2>5, <2>6, <2>7, <2>8, <2>9, <2>10 DEF IInv
<1>3. CASE Detached \/ Signalled \/ Leave
  <2>1. /\ phase \in {"enter", "menu", "code"} /\ phase' \in {"code", "done"}
        /\ phase' = "code" => phase = "enter" /\ ~attached
        /\ phase' = "done" => phase \in {"menu", "code"}
        /\ riscv_enabled' = riscv_enabled /\ at' = at /\ blocks' = blocks /\ bps' = bps
        /\ temp_break' = temp_break /\ init' = init /\ await' = await /\ halt' = halt
        /\ step_riscv' = step_riscv /\ run_break' = run_break
        /\ attached' = attached /\ signal' = signal
        /\ asked' = asked /\ travelled' = travelled /\ waved' \in BOOLEAN
        /\ wanted' = wanted /\ risked' = risked
    BY <1>1, <1>3 DEF Detached, Signalled, Leave, held, modes, history, TypeOK
  <2>2. BlocksApart' /\ AtEntry' /\ ra' = ra /\ BreakPointsPlaced'
    BY <2>1, StandStill
  <2>3. CurrentListed'
    <3>1. Indices' = Indices
      BY <2>1 DEF Indices
    <3>2. CASE Signalled
      <4>1. current' = Resolved(signal).current /\ current_index' = Resolved(signal).index
        BY <3>2 DEF Signalled
      <4> QED
        BY <1>1, <2>1, <3>1, <4>1, ResolvedListed DEF CurrentListed
    <3>3. CASE Detached \/ Leave
      <4>1. current' = current /\ current_index' = current_index
        BY <3>3 DEF Detached, Leave, held
      <4> QED
        BY <1>1, <2>1, <3>1, <4>1 DEF CurrentListed
    <3> QED
      BY <1>3, <3>2, <3>3
  <2>4. Temporary'
    BY <1>1, <2>1 DEF Temporary, Statics, InstrAt
  <2>5. Kept'
    BY <1>1, <2>1 DEF Kept, Statics, InstrAt
  <2>6. Modes'
    BY <1>1, <2>1, <2>2 DEF Modes
  <2>7. TypeOK'
    <3>1. (\A n \in Indices : BlockShape(Block(n)))'
      BY <1>1, <2>1, SameBlocks DEF TypeOK
    <3> QED
      BY <1>1, <2>1, <3>1 DEF TypeOK, Phases
  <2> QED
    BY <2>2, <2>3, <2>4, <2>5, <2>6, <2>7 DEF IInv
<1> QED
  BY <1>2, <1>3

LEMMA ContinueKeeps ==
    ASSUME IInv, Continue
    PROVE  IInv'
<1>1. /\ TypeOK /\ CurrentListed /\ BlocksApart /\ AtEntry /\ BreakPointsPlaced /\ Temporary
      /\ Kept /\ Modes
  BY DEF IInv
<1>2. /\ phase = "code"
      /\ riscv_enabled' = riscv_enabled /\ blocks' = blocks /\ bps' = bps
      /\ current' = current /\ current_index' = current_index
      /\ temp_break' = temp_break /\ init' = init /\ await' = await /\ halt' = halt
      /\ step_riscv' = step_riscv /\ run_break' = run_break
      /\ attached' = attached /\ signal' = signal
      /\ asked' = asked /\ travelled' = travelled /\ waved' = waved
      /\ wanted' = wanted /\ risked' = risked
  BY DEF Continue, held, modes, history
<1>3. /\ Indices' = Indices /\ \A i : Covering(i)' = Covering(i)
      /\ BlocksApart' /\ (\A n \in Indices : BlockShape(Block(n)))'
  BY <1>1, <1>2, SameBlocks DEF TypeOK
<1>4. at \in [instr : Instrs, hop : Nat]
  BY <1>1 DEF TypeOK
\* the guest is at the next entry
<1>5. at' \in [instr : Instrs, hop : Nat] /\ phase' \in {"enter", "translate"} /\ AtEntry'
  <2>1. CASE at.hop < RiscvEntries
    <3>1. at' = [at EXCEPT !.hop = @ + 1] /\ phase' = "enter"
      BY <2>1 DEF Continue
    <3>2. at'.instr = at.instr /\ at'.hop = at.hop + 1 /\ at' \in [instr : Instrs, hop : Nat]
      BY <1>4, <3>1
    <3>3. ThisBlock' = ThisBlock /\ RiscvEntries' = RiscvEntries
      BY <1>2, <3>2 DEF ThisBlock, RiscvEntries, Covering, Indices, Block
    <3>4. RiscvEntries \in Int
      <4>1. PICK n \in Indices : ThisBlock = Block(n) /\ BlockShape(Block(n)) /\ at.instr \in Block(n).first..Block(n).last
        BY <1>1, <1>2, EntryAddress
      <4>2. WorkOf(at.instr, Block(n)) \in Nat
        BY <4>1 DEF BlockShape, Contents
      <4> QED
        BY <4>1, <4>2 DEF RiscvEntries
    <3>5. at.hop + 1 <= RiscvEntries
      BY <1>4, <2>1, <3>4
    <3>6. Covering(at.instr)' # {}
      BY <1>1, <1>2, <3>2 DEF AtEntry, Covering, Indices, Block
    <3> QED
      BY <3>1, <3>2, <3>3, <3>5, <3>6 DEF AtEntry
  <2>2. CASE ~(at.hop < RiscvEntries)
    <3>1. PICK s \in Program[at.instr].next :
              /\ at' = [instr |-> s, hop |-> 0]
              /\ phase' = IF Covering(s) = {} THEN "translate" ELSE "enter"
      BY <2>2 DEF Continue
    <3>2. s \in Instrs
      BY <1>4, <3>1, Instructions
    <3>3. at'.instr = s /\ at'.hop = 0 /\ at' \in [instr : Instrs, hop : Nat]
      BY <3>1, <3>2
    <3>4. Covering(at.instr)' = Covering(s)
      BY <1>2, <3>3 DEF Covering, Indices, Block
    <3> QED
      BY <3>1, <3>3, <3>4 DEF AtEntry
  <2> QED
    BY <2>1, <2>2
<1>6. CurrentListed'
  BY <1>1, <1>2, <1>3 DEF CurrentListed
<1>7. BreakPointsPlaced'
  <2>1. \A k \in 1..Len(bps) : WellPlaced(bps[k])
    BY <1>1 DEF BreakPointsPlaced
  <2> QED
    BY <1>2, <2>1 DEF BreakPointsPlaced, WellPlaced, Indices, Block
<1>8. Temporary'
  BY <1>1, <1>2, <1>5 DEF Temporary, Statics, InstrAt
<1>9. Kept'
  BY <1>1, <1>2 DEF Kept, Statics, InstrAt
<1>10. Modes'
  BY <1>1, <1>2, <1>5 DEF Modes
<1>11. TypeOK'
  BY <1>1, <1>2, <1>3, <1>5 DEF TypeOK, Phases
<1> QED
  BY <1>3, <1>5, <1>6, <1>7, <1>8, <1>9, <1>10, <1>11 DEF IInv

-----------------------------------------------------------------------------
(* The theorems *)

LEMMA InitHolds ==
    ASSUME Init
    PROVE  IInv
<1>1. blocks = <<>> /\ Len(blocks) = 0 /\ Indices = {}
  BY DEF Init, Indices
<1>2. 1 \in Instrs
  BY Instructions
<1>3. BlocksApart
  BY <1>1 DEF BlocksApart
<1>4. AtEntry
  BY <1>1 DEF Init, AtEntry, Covering
<1>5. CurrentListed
  BY <1>1 DEF Init, CurrentListed
<1>6. Temporary /\ Statics = 0 /\ bps = <<>> /\ Len(bps) = 0
  BY LimitAssumption DEF Init, Temporary, Statics, Asked
<1>7. BreakPointsPlaced /\ Kept
  BY <1>6 DEF Init, BreakPointsPlaced, Kept
<1>8. Modes
  BY DEF Init, Modes
<1>9. TypeOK
  <2>1. at \in [instr : Instrs, hop : Nat]
    BY <1>2 DEF Init
  <2>2. asked \in [kind : Kinds, count : Counts \cup {0, 1}, place : Places \cup {0}]
    BY DEF Init, Asked, NoCount, Kinds
  <2>3. blocks \in Seq(Blocks) /\ bps \in Seq(BreakPoints)
    BY <1>1, <1>6
  <2>4. \A n \in Indices : BlockShape(Block(n))
    BY <1>1
  <2> QED
    BY <2>1, <2>2, <2>3, <2>4 DEF Init, TypeOK, Phases, Awaited
<1> QED
  BY <1>3, <1>4, <1>5, <1>6, <1>7, <1>8, <1>9 DEF IInv

LEMMA NextKeeps ==
    ASSUME IInv, [Next]_vars
    PROVE  IInv'
<1>1. CASE Menu
  <2>1. CASE \E x \in Places \cup Edges : BreakPoint(x)
    BY <2>1, BreakPointKeeps
  <2>2. CASE \E k \in 1..Len(bps) : RemovePoint(k)
    BY <2>2, RemoveKeeps
  <2>3. CASE Signal
    BY <2>3, SignalKeeps
  <2>4. CASE \E x \in Places : RunTo(x)
    BY <2>4, RunToKeeps
  <2>5. CASE Leave
    BY <2>5, LeaveKeeps
  <2>6. CASE \/ Run \/ Step \/ Crawl \/ Quit
             \/ \E end \in {"sob", "eob"} : Edge(end)
             \/ \E n \in Counts : StepCount(n) \/ CrawlCount(n)
    BY <2>6, CommandKeeps
  <2> QED
    BY <1>1, <2>1, <2>2, <2>3, <2>4, <2>5, <2>6 DEF Menu
<1>2. CASE Translate
  BY <1>2, TranslateKeeps
<1>3. CASE DebugEntry
  BY <1>3, StopKeeps, PassKeeps DEF DebugEntry
<1>4. CASE Continue
  BY <1>4, ContinueKeeps
<1>5. CASE Detached \/ Signalled \/ Done \/ UNCHANGED vars
  BY <1>5, LeaveKeeps
<1> QED
  BY <1>1, <1>2, <1>3, <1>4, <1>5 DEF Next, GuestRuns

\* Whatever is translated, in whatever order, and however the user commands the
\* debugger, blocks share neither instructions nor code, break points are where
\* their instruction is, and the bits of _state are those of the command.
THEOREM DebuggerInductive == Spec => []IInv
<1>1. Init => IInv
  BY InitHolds
<1>2. IInv /\ [Next]_vars => IInv'
  BY NextKeeps
<1> QED
  BY <1>1, <1>2, PTL DEF Spec

\* The debugger's pointer to the current block, and its index, are never left
\* behind by a block end_block() inserts in front of it.
THEOREM CurrentAlwaysListed == Spec => []CurrentListed
<1>1. IInv => CurrentListed
  BY DEF IInv
<1> QED
  BY <1>1, DebuggerInductive, PTL

\* No translation, merge or temporary break point makes one disappear that the
\* user set, but for those run to while they were pending.
THEOREM BreakPointsStay == Spec => []BreakPointsKept
<1>1. IInv => BreakPointsKept
  <2> SUFFICES ASSUME IInv, NEW i \in wanted \ risked
               PROVE  \E k \in 1..Len(bps) : i \in InstrAt(bps[k].x86)
    BY DEF BreakPointsKept
  <2>1. TypeOK /\ Kept /\ Temporary
    BY DEF IInv
  <2>2. PICK k \in 1..Statics : i \in InstrAt(bps[k].x86)
    BY <2>1 DEF Kept
  <2>3. k \in 1..Len(bps)
    <3>1. Len(bps) \in Nat /\ Statics \in {Len(bps), Len(bps) - 1}
      BY <2>1, LenProperties DEF TypeOK, Statics
    <3> QED
      BY <3>1
  <2> QED
    BY <2>2, <2>3
<1> QED
  BY <1>1, DebuggerInductive, PTL

-----------------------------------------------------------------------------
(* Break points are honoured *)

\* The jump of an instruction finds the break points that stand for it.
LEMMA StandingIsHit ==
    ASSUME IInv, phase = "enter", at.hop = 0, NEW k \in 1..Len(bps), at.instr \in InstrAt(bps[k].x86)
    PROVE  k \in Hits
<1> DEFINE e == bps[k]
           i == at.instr
<1>1. TypeOK /\ BlocksApart /\ AtEntry /\ WellPlaced(e)
  BY DEF IInv, BreakPointsPlaced
<1>2. PICK n \in Indices :
          /\ Covering(i) = {n} /\ BlockShape(Block(n)) /\ i \in Block(n).first..Block(n).last
          /\ ra = HostOf(Block(n), i) + 1 + 2 * at.hop
  BY <1>1, EntryAddress
<1>3. e \in BreakPoints /\ e.x86 \in Nat
  <2>1. bps \in Seq(BreakPoints)
    BY <1>1 DEF TypeOK
  <2>2. e \in BreakPoints
    BY <2>1, ElementOfSeq
  <2> QED
    BY <2>2 DEF BreakPoints
<1>4. InBlock(e.x86, Block(n))
  <2> DEFINE b == Block(n)
  <2>1. BlockShape(b) /\ i \in b.first..b.last
    BY <1>2
  <2> HIDE DEF b
  <2>2. InBlock(e.x86, b)
    BY <1>3, <2>1, InItsBlock
  <2> QED
    BY <2>2 DEF b
<1>5. PICK m \in Indices : InCode(e, Block(m))
  BY <1>1, <1>4 DEF WellPlaced
<1>6. PICK j \in Block(m).first..Block(m).last : e = [x86 |-> Guest(j), riscv |-> HostOf(Block(m), j) + 1]
  BY <1>5 DEF InCode
<1>7. j \in Instrs
  <2>1. Block(m).first \in Instrs /\ Block(m).last \in Instrs
    BY <1>1, BlockFacts DEF Blocks
  <2> QED
    BY <2>1, Instructions
<1>8. i = j
  <2>1. InstrAt(Guest(j)) = {j} /\ e.x86 = Guest(j)
    BY <1>6, <1>7, AtItsAddress
  <2> QED
    BY <2>1
<1>9. m = n
  <2>1. m \in Covering(i)
    BY <1>1, <1>6, <1>8, BlockFacts DEF Covering
  <2> QED
    BY <1>2, <2>1
<1>10. e.riscv = ra
  <2>1. HostOf(Block(n), i) \in Nat
    <3> DEFINE b == Block(n)
    <3>1. BlockShape(b) /\ i \in b.first..b.last
      BY <1>2
    <3> HIDE DEF b
    <3>2. i \in b.first..(b.last + 1) /\ \A o \in b.first..(b.last + 1) : HostOf(b, o) \in Nat
      BY <3>1, HostGrows
    <3> QED
      BY <3>2 DEF b
  <2> QED
    BY <1>2, <1>6, <1>8, <1>9, <2>1
<1> QED
  BY <1>10 DEF Hits

\* A guest that runs freely stops at each of them.
LEMMA HitIsStop ==
    ASSUME IInv, phase = "enter", at.hop = 0, ~halt, Hits # {}
    PROVE  Stops
<1>1. TypeOK /\ BlocksApart /\ AtEntry /\ CurrentListed /\ Temporary /\ Modes
  BY DEF IInv
<1>2. await = "none" /\ ~step_riscv
  BY <1>1 DEF Modes
<1>3. Len(bps) \in Nat /\ Len(bps) <= Limit + 1 /\ Limit \in Nat
  <2>1. Len(bps) \in Nat /\ Statics \in 0..Limit /\ Statics \in {Len(bps), Len(bps) - 1} /\ Limit \in Nat
    BY <1>1, LenProperties, LimitAssumption DEF TypeOK, Temporary, Statics
  <2> QED
    BY <2>1
<1>4. Min(Hits) \in 1..Len(bps)
  <2> DEFINE S == Hits
  <2>1. S \in SUBSET Nat /\ S # {} /\ S \subseteq 1..Len(bps)
    BY <1>3 DEF Hits
  <2> HIDE DEF S
  <2>2. Min(S) \in S
    BY <2>1, LeastOf
  <2> QED
    BY <2>1, <2>2 DEF S
<1>5. Reported = Min(Hits) - 1 /\ Reported # None /\ Reported # halt_break
  <2>1. Reported = Min(Hits) - 1
    BY DEF Reported
  <2> QED
    BY <1>3, <1>4, <2>1 DEF None, halt_break
<1>6. Direct
  BY <1>2, <1>5 DEF Direct, BreakHit
<1>7. Resolved(ra).guest # 0
  BY <1>1, ResolvedHere
<1> QED
  BY <1>5, <1>6, <1>7 DEF Stops, Looks

\* A guest that runs freely passes no break point the user set, and not the
\* address it was to run to.
THEOREM BreakPointsAreHonoured == Spec => []BreakPointsHonoured
<1>1. Init => BreakPointsHonoured
  BY DEF Init, BreakPointsHonoured
<1>2. ASSUME IInv, BreakPointsHonoured, [Next]_vars PROVE BreakPointsHonoured'
  <2> SUFFICES ASSUME phase' = "code", waved', at'.hop = 0, attached', ~halt'
               PROVE  /\ at'.instr \notin wanted' \ risked'
                      /\ asked'.place # 0 => at'.instr \notin InstrAt(asked'.place)
    BY DEF BreakPointsHonoured, InstrAt
  <2>1. CASE UNCHANGED vars \/ Done
    <3>1. UNCHANGED vars
      BY <2>1 DEF Done
    <3> QED
      BY <1>2, <3>1 DEF BreakPointsHonoured, vars, modes, history
  <2>2. CASE Menu
    <3>1. phase = "menu" /\ (phase' = phase \/ phase' = "done" \/ waved' = FALSE)
      BY <2>2 DEF Menu, BreakPoint, RemovePoint, InMenu, Signal, Run, Step, Crawl, Quit, Leave, RunTo,
         Edge, StepCount, CrawlCount, Resume
    <3> QED
      BY <3>1
  <2>3. CASE Translate \/ Continue \/ Signalled \/ Detached
    <3>1. phase' # "code" \/ ~attached'
      BY <2>3 DEF Translate, Continue, Signalled, Detached
    <3> QED
      BY <3>1
  <2>4. CASE DebugEntry
    <3>1. /\ phase = "enter" /\ waved' = ~Stops /\ at' = at /\ halt' = halt /\ asked' = asked
          /\ wanted' = wanted /\ risked' = risked
      BY <2>4 DEF DebugEntry
    <3>2. Hits = {}
      BY <1>2, <3>1, HitIsStop
    <3>3. \A k \in 1..Len(bps) : at.instr \notin InstrAt(bps[k].x86)
      BY <1>2, <3>1, <3>2, StandingIsHit
    <3>4. /\ TypeOK /\ Kept /\ Temporary
      BY <1>2 DEF IInv
    <3>5. Len(bps) \in Nat /\ Statics \in 0..Limit /\ Statics \in {Len(bps), Len(bps) - 1}
      BY <3>4, LenProperties DEF TypeOK, Temporary, Statics
    <3>6. at.instr \notin wanted \ risked
      <4> SUFFICES ASSUME at.instr \in wanted \ risked PROVE FALSE
        OBVIOUS
      <4>1. PICK k \in 1..Statics : at.instr \in InstrAt(bps[k].x86)
        BY <3>4 DEF Kept
      <4>2. k \in 1..Len(bps)
        BY <3>5
      <4> QED
        BY <3>3, <4>1, <4>2
    <3>7. ASSUME asked.place # 0 PROVE at.instr \notin InstrAt(asked.place)
      <4>1. temp_break
        BY <3>1, <3>4, <3>7 DEF Temporary
      <4>2. InstrAt(asked.place) \subseteq InstrAt(bps[Len(bps)].x86) /\ Statics = Len(bps) - 1
        BY <3>4, <4>1 DEF Temporary, Statics
      <4>3. Len(bps) \in 1..Len(bps)
        BY <3>5, <4>2, LimitAssumption
      <4> QED
        BY <3>3, <4>2, <4>3
    <3> QED
      BY <3>1, <3>6, <3>7
  <2> QED
    BY <1>2, <2>1, <2>2, <2>3, <2>4 DEF Next, GuestRuns
<1> QED
  BY <1>1, <1>2, DebuggerInductive, PTL DEF Spec

-----------------------------------------------------------------------------
(* What the user is shown *)

\* The instruction an entry is resolved to.
LEMMA EntryResolved ==
    ASSUME IInv, phase # "translate"
    PROVE  /\ Resolved(ra).index \in Covering(at.instr)
           /\ \/ Resolved(ra).guest = Guest(at.instr)
              \/ Empty(at.instr) /\ Resolved(ra).guest = Guest(at.instr + 1)
           /\ WorkOf(at.instr, ThisBlock) > 1 => Resolved(ra).guest = Guest(at.instr)
           /\ Resolved(ra).guest # 0
<1>1. TypeOK /\ BlocksApart /\ AtEntry /\ CurrentListed
  BY DEF IInv
<1>2. PICK n \in Indices :
              /\ Covering(at.instr) = {n} /\ ThisBlock = Block(n)
              /\ Resolved(ra) = [current |-> [of |-> Len(blocks), nth |-> n], index |-> n,
                                 guest |-> ResolvedInstr(ra, Block(n))]
              /\ \/ Resolved(ra).guest = Guest(at.instr)
                 \/ WorkOf(at.instr, Block(n)) = 1 /\ Resolved(ra).guest = Guest(at.instr + 1)
              /\ Resolved(ra).guest \in Nat \ {0}
  BY <1>1, ResolvedHere
<1>3. Resolved(ra).index = n
  BY <1>2
<1>4. (CHOOSE m \in Covering(at.instr) : TRUE) = n
  BY <1>2
<1>5. WorkOf(at.instr, Block(n)) = 1 => Empty(at.instr)
  BY <1>2, <1>4 DEF Empty
<1> QED
  BY <1>2, <1>3, <1>5

\* The menu and the signal handler show the instruction the guest is at.
THEOREM ShownIsWhatRuns == Spec => []ShownIsExecuting
<1>1. Init => ShownIsExecuting
  BY DEF Init, ShownIsExecuting
<1>2. ASSUME IInv, ShownIsExecuting, [Next]_vars PROVE ShownIsExecuting'
  <2>1. CASE UNCHANGED vars \/ Done
    <3>1. UNCHANGED vars
      BY <2>1 DEF Done
    <3> QED
      BY <1>2, <3>1 DEF ShownIsExecuting, vars, held, modes, history, Empty, Covering, Indices, Block
  <2>2. CASE InMenu \/ Leave
    <3>1. /\ phase = "menu" /\ phase' \in {"menu", "done"} /\ shown' = shown /\ at' = at /\ blocks' = blocks
          /\ current_index' = current_index
      BY <2>2 DEF InMenu, Leave, held
    <3>2. (Empty(at.instr))' = Empty(at.instr) /\ (Covering(at.instr))' = Covering(at.instr)
      BY <3>1 DEF Empty, Covering, Indices, Block
    <3> QED
      BY <1>2, <3>1, <3>2 DEF ShownIsExecuting
  <2>3. CASE \/ Run \/ Step \/ Crawl \/ Quit \/ \E x \in Places : RunTo(x)
             \/ \E end \in {"sob", "eob"} : Edge(end)
             \/ \E n \in Counts : StepCount(n) \/ CrawlCount(n)
    <3>1. phase' = "code"
      BY <2>3 DEF Run, Step, Crawl, Quit, RunTo, Edge, StepCount, CrawlCount, Resume
    <3> QED
      BY <3>1 DEF ShownIsExecuting
  <2>4. CASE Translate \/ Continue \/ Detached
    <3>1. phase' \in {"translate", "enter", "code"}
      BY <2>4 DEF Translate, Continue, Detached
    <3> QED
      BY <3>1 DEF ShownIsExecuting
  <2>5. CASE DebugEntry
    <3>1. phase = "enter" /\ at' = at /\ blocks' = blocks /\ (Stop \/ phase' = "code")
      BY <2>5 DEF DebugEntry, Pass
    <3>2. CASE Stop
      <4>1. phase' = "menu" /\ shown' = Resolved(ra).guest /\ current_index' = Resolved(ra).index
        BY <3>2 DEF Stop, LookUp
      <4>2. (Empty(at.instr))' = Empty(at.instr) /\ (Covering(at.instr))' = Covering(at.instr)
        BY <3>1 DEF Empty, Covering, Indices, Block
      <4>3. /\ Resolved(ra).index \in Covering(at.instr)
            /\ \/ Resolved(ra).guest = Guest(at.instr)
               \/ Empty(at.instr) /\ Resolved(ra).guest = Guest(at.instr + 1)
        BY <1>2, <3>1, EntryResolved
      <4> QED
        BY <3>1, <4>1, <4>2, <4>3 DEF ShownIsExecuting
    <3>3. CASE phase' = "code"
      BY <3>3 DEF ShownIsExecuting
    <3> QED
      BY <3>1, <3>2, <3>3
  <2>6. CASE Signalled
    <3>1. /\ phase = "code" /\ WorkOf(at.instr, ThisBlock) > 1 /\ signal # 0 /\ phase' = "done"
          /\ shown' = Resolved(signal).guest /\ at' = at /\ attached' = attached
      BY <2>6 DEF Signalled
    <3>2. attached => signal = ra
      BY <1>2, <3>1 DEF IInv, Modes
    <3>3. Resolved(ra).guest = Guest(at.instr)
      BY <1>2, <3>1, EntryResolved
    <3> QED
      BY <3>1, <3>2, <3>3 DEF ShownIsExecuting
  <2> QED
    BY <1>2, <2>1, <2>2, <2>3, <2>4, <2>5, <2>6
       DEF Next, GuestRuns, Menu, BreakPoint, RemovePoint, Signal
<1> QED
  BY <1>1, <1>2, DebuggerInductive, PTL DEF Spec

-----------------------------------------------------------------------------
(* Stops are explained, and step and crawl go as far as asked *)

\* Whatever stops the guest, the menu names it.
LEMMA StopHasReason ==
    ASSUME IInv, phase = "enter", Stops
    PROVE  Reasons # {}
<1>1. /\ await \in Awaited /\ step_riscv \in BOOLEAN /\ init \in BOOLEAN /\ temp_break \in BOOLEAN
      /\ run_break \in Nat /\ Limit \in Nat /\ Modes
  BY LimitAssumption DEF IInv, TypeOK
<1>2. Reported # None /\ (Elapsed \/ Stepping \/ BreakHit \/ AtEdge)
  BY DEF Stops, Direct
<1>3. CASE Elapsed
  <2>1. Left = 0 /\ Counting
    BY <1>3 DEF Elapsed
  <2>2. step_riscv => "riscv-counter" \in Reasons
    BY <2>1 DEF Reasons
  <2>3. ~step_riscv => "run-counter" \in Reasons
    BY <2>1 DEF Reasons
  <2> QED
    BY <1>1, <2>2, <2>3
<1>4. CASE Stepping
  <2>1. await = "step" \/ (step_riscv /\ ~Counting)
    BY <1>4 DEF Stepping
  <2>2. await = "step" => ~Counting
    BY DEF Counting
  <2>3. step_riscv /\ ~Counting => "riscv-step" \in Reasons
    BY DEF Reasons
  <2>4. await = "step" /\ ~step_riscv => "step" \in Reasons
    BY DEF Reasons
  <2> QED
    BY <1>1, <2>1, <2>2, <2>3, <2>4
<1>5. CASE BreakHit
  <2>1. CASE ~init
    <3>1. "initial" \in Reasons
      BY <2>1 DEF Reasons
    <3> QED
      BY <3>1
  <2>2. CASE init /\ step_riscv
    <3>1. ~Counting
      BY <1>5, <2>2 DEF BreakHit
    <3>2. "riscv-step" \in Reasons
      BY <2>2, <3>1 DEF Reasons
    <3> QED
      BY <3>2
  <2>3. CASE init /\ ~step_riscv
    <3>1. Reported # halt_break
      BY <1>5, <2>3 DEF BreakHit
    <3>2. Reported < halt_break
      <4>1. at.hop = 0 /\ ~halt /\ Hits # {} /\ Reported = Min(Hits) - 1
        <5>1. at.hop \in Nat
          BY DEF IInv, TypeOK
        <5> QED
          BY <1>2, <2>3, <3>1, <5>1 DEF Reported
      <4>2. Min(Hits) \in 1..Len(bps)
        <5> DEFINE S == Hits
        <5>1. S \in SUBSET Nat /\ S # {} /\ S \subseteq 1..Len(bps)
          <6>1. Len(bps) \in Nat
            BY LenProperties DEF IInv, TypeOK
          <6> QED
            BY <4>1, <6>1 DEF Hits
        <5> HIDE DEF S
        <5>2. Min(S) \in S
          BY <5>1, LeastOf
        <5> QED
          BY <5>1, <5>2 DEF S
      <4>3. Len(bps) <= Limit + 1 /\ Len(bps) \in Nat
        <5>1. Len(bps) \in Nat /\ Statics \in 0..Limit /\ Statics \in {Len(bps), Len(bps) - 1}
          BY LenProperties DEF IInv, TypeOK, Temporary, Statics
        <5> QED
          BY <1>1, <5>1
      <4> QED
        BY <1>1, <4>1, <4>2, <4>3 DEF halt_break
    <3>3. temp_break /\ Reported = Left => "run-break" \in Reasons
      BY <3>2 DEF Reasons
    <3>4. ~(temp_break /\ Reported = Left) => "break-point" \in Reasons
      BY <3>2 DEF Reasons
    <3> QED
      BY <3>3, <3>4
  <2> QED
    BY <1>1, <2>1, <2>2, <2>3
<1>6. CASE AtEdge
  <2> DEFINE r == Resolved(ra)
             b == Block(r.current.nth)
  <2>1. \/ await = "sob" /\ r.guest = x86_start(b)
        \/ await = "eob" /\ r.guest = LastInstr(b)
    BY <1>6 DEF AtEdge
  <2>2. await = "sob" /\ r.guest = x86_start(b) => "sob" \in Reasons
    BY DEF Reasons
  <2>3. await = "eob" /\ r.guest = LastInstr(b) => "eob" \in Reasons
    BY DEF Reasons
  <2> QED
    BY <2>1, <2>2, <2>3
<1> QED
  BY <1>2, <1>3, <1>4, <1>5, <1>6

\* An entry that is counted: it stops the guest exactly if it is the last one.
LEMMA CountedEntry ==
    ASSUME IInv, Counted, phase = "enter", attached, asked.kind \in {"step", "crawl"}
    PROVE  /\ at.hop # 0 /\ asked.kind = "step" => Reported = None
           /\ at.hop = 0 \/ asked.kind = "crawl" =>
                 /\ Reported # None
                 /\ await # "counter" => Stops
                 /\ await = "counter" => (Stops <=> Left = 0)
<1>1. /\ await \in Awaited /\ step_riscv \in BOOLEAN /\ at.hop \in Nat /\ Modes /\ Limit \in Nat
  BY LimitAssumption DEF IInv, TypeOK
<1>2. /\ asked.kind = "step" => await \in {"step", "counter"} /\ ~step_riscv
      /\ asked.kind = "crawl" => await \in {"none", "counter"} /\ step_riscv
  BY DEF Counted, Asking
<1>3. halt /\ init
  BY <1>1, <1>2 DEF Modes
<1>4. at.hop # 0 /\ asked.kind = "step" => Reported = None
  BY <1>1, <1>2 DEF Reported
<1>5. SUFFICES ASSUME at.hop = 0 \/ asked.kind = "crawl"
               PROVE  /\ Reported # None
                      /\ await # "counter" => Stops
                      /\ await = "counter" => (Stops <=> Left = 0)
  BY <1>4
<1>6. /\ Reported = IF at.hop > 0 THEN halt_riscv ELSE halt_break
      /\ Reported # None
  BY <1>1, <1>2, <1>3, <1>5 DEF Reported, halt_riscv, halt_break, None
<1>7. Resolved(ra).guest # 0
  BY EntryResolved
<1>8. CASE await # "counter"
  <2>1. Stepping
    BY <1>2, <1>8 DEF Stepping, Counting
  <2>2. Stops
    BY <1>6, <1>7, <2>1 DEF Stops, Looks, Direct
  <2> QED
    BY <1>6, <1>8, <2>2
<1>9. CASE await = "counter"
  <2>1. ~Stepping /\ ~AtEdge /\ Counting
    BY <1>9 DEF Stepping, Counting, AtEdge
  <2>2. ~BreakHit
    <3>1. CASE asked.kind = "step"
      <4>1. Reported = halt_break
        BY <1>1, <1>5, <1>6, <3>1
      <4> QED
        BY <1>3, <4>1 DEF BreakHit
    <3>2. CASE asked.kind = "crawl"
      BY <1>2, <2>1, <3>2 DEF BreakHit
    <3> QED
      BY <3>1, <3>2
  <2>3. Elapsed <=> Left = 0
    BY <2>1 DEF Elapsed
  <2>4. Stops <=> Elapsed
    BY <1>6, <1>7, <2>1, <2>2 DEF Stops, Looks, Direct
  <2> QED
    BY <1>6, <1>9, <2>3, <2>4
<1> QED
  BY <1>8, <1>9

LEMMA LargerOfOne ==
    ASSUME NEW n \in Nat
    PROVE  Max({1, n}) = IF n = 0 THEN 1 ELSE n
<1> DEFINE S == {1, n}
           bound == n + 1
<1>1. S \in SUBSET (0..bound) /\ S # {} /\ bound \in Nat /\ 1 \in S /\ n \in S
  OBVIOUS
<1>2. Max(S) \in S /\ \A y \in S : y <= Max(S)
  <2> HIDE DEF S, bound
  <2> QED
    BY <1>1, GreatestOf
<1>3. Max(S) \in {1, n} /\ 1 <= Max(S) /\ n <= Max(S)
  BY <1>1, <1>2
<1> HIDE DEF S
<1>4. Max(S) = IF n = 0 THEN 1 ELSE n
  BY <1>3
<1> QED
  BY <1>4 DEF S

\* The user is asked again behind as many entries as he asked for.
LEMMA StopCounts ==
    ASSUME IInv, Counted, DebugEntry, Stops
    PROVE  asked.kind \in {"step", "crawl"} => travelled' = Max({1, asked.count})
<1> SUFFICES ASSUME asked.kind \in {"step", "crawl"}
             PROVE  travelled' = Max({1, asked.count})
  OBVIOUS
<1>1. /\ phase = "enter" /\ attached /\ Travel
      /\ run_break \in Nat /\ travelled \in Nat /\ asked.count \in Counts \cup {0, 1}
  BY DEF DebugEntry, IInv, TypeOK
<1>2. at.hop = 0 \/ asked.kind = "crawl"
  <2>1. Reported # None
    BY DEF Stops
  <2> QED
    BY <1>1, <2>1, CountedEntry
<1>3. Enough \in Nat /\ asked.count \in Nat /\ asked.count < Enough /\ 1 < Enough
  BY <1>1, EnoughIsMore
<1>4. travelled' = IF travelled + 1 <= Enough THEN travelled + 1 ELSE Enough
  BY <1>1, <1>2, TravelledOn
<1>5. CASE await # "counter"
  <2>1. asked.count = 1 /\ travelled = 0
    BY <1>1, <1>5 DEF Counted, Asking
  <2> QED
    BY <1>3, <1>4, <2>1, LargerOfOne
<1>6. CASE await = "counter"
  <2>1. travelled + run_break = asked.count /\ (run_break > 0 \/ travelled = 0)
    BY <1>1, <1>6 DEF Counted, Asking
  <2>2. Left = 0
    BY <1>1, <1>2, <1>6, CountedEntry
  <2>3. run_break = 0 \/ run_break = 1
    BY <1>1, <1>6, <2>2 DEF Left, Counting
  <2>4. travelled' = IF asked.count = 0 THEN 1 ELSE asked.count
    BY <1>1, <1>3, <1>4, <2>1, <2>3
  <2> QED
    BY <1>3, <2>4, LargerOfOne
<1> QED
  BY <1>5, <1>6

\* An entry that lets the guest pass takes one off the counter, or none.
LEMMA PassCounts ==
    ASSUME IInv, Counted, DebugEntry, ~Stops
    PROVE  Counted'
<1>1. /\ phase = "enter" /\ attached /\ Travel /\ Pass /\ asked' = asked /\ attached' = attached
      /\ run_break \in Nat /\ travelled \in Nat /\ asked.count \in Counts \cup {0, 1}
      /\ asked.kind \in Kinds /\ await \in Awaited
  BY DEF DebugEntry, IInv, TypeOK
<1>2. /\ await' = await /\ step_riscv' = step_riscv
      /\ run_break' = IF Reported # None THEN Left ELSE run_break
  BY <1>1 DEF Pass
<1>3. CASE asked.kind \notin {"step", "crawl"}
  <2>1. await # "counter"
    BY <1>1, <1>3 DEF Counted, Asking
  <2> QED
    BY <1>1, <1>2, <1>3, <2>1 DEF Counted
<1>4. CASE asked.kind \in {"step", "crawl"}
  <2>1. CASE at.hop # 0 /\ asked.kind # "crawl"
    <3>1. travelled' = travelled
      BY <1>1, <2>1, TravelledOn
    <3>2. run_break' = run_break
      BY <1>1, <1>2, <1>4, <2>1, CountedEntry
    <3> QED
      BY <1>1, <1>2, <3>1, <3>2 DEF Counted, Asking
  <2>2. CASE at.hop = 0 \/ asked.kind = "crawl"
    <3>1. Reported # None /\ await = "counter" /\ Left # 0
      BY <1>1, <1>4, <2>2, CountedEntry
    <3>2. travelled + run_break = asked.count /\ (run_break > 0 \/ travelled = 0)
      BY <1>1, <3>1 DEF Counted, Asking
    <3>3. run_break > 0 => Left = run_break - 1
      BY <3>1 DEF Left, Counting
    <3>4. run_break = 0 => Left = 0
      BY <3>1 DEF Left, Counting
    <3>5. run_break > 1 /\ run_break' = run_break - 1
      BY <1>1, <1>2, <3>1, <3>3, <3>4
    <3>6. Enough \in Nat /\ asked.count < Enough /\ asked.count \in Nat
      BY <1>1, EnoughIsMore
    <3>7. travelled' = IF travelled + 1 <= Enough THEN travelled + 1 ELSE Enough
      BY <1>1, <2>2, TravelledOn
    <3>8. travelled' = travelled + 1
      BY <1>1, <3>2, <3>5, <3>6, <3>7
    <3>9. travelled' + run_break' = asked'.count /\ run_break' > 0
      BY <1>1, <3>2, <3>5, <3>8
    <3>10. /\ asked.kind = "step" => ~step_riscv
           /\ asked.kind = "crawl" => step_riscv
      BY <1>1 DEF Counted, Asking
    <3> QED
      BY <1>1, <1>2, <1>4, <3>1, <3>9, <3>10 DEF Counted
  <2> QED
    BY <2>1, <2>2
<1> QED
  BY <1>3, <1>4

\* The count holds when the guest sets out, and wherever it goes.
LEMMA CountKept ==
    ASSUME IInv, Counted, [Next]_vars
    PROVE  Counted'
<1>1. CASE UNCHANGED vars \/ Done
  BY <1>1 DEF Done, vars, held, modes, history, Counted, Asking
<1>2. CASE Leave \/ Signalled \/ InMenu
  <2>1. phase' \in {"menu", "done"}
    BY <1>2 DEF Leave, Signalled, InMenu
  <2>2. ~Asking'
    BY <2>1 DEF Asking
  <2>3. attached' = attached /\ await' = await
    BY <1>2 DEF Leave, Signalled, InMenu, modes
  <2> QED
    BY <2>1, <2>2 DEF Counted
<1>3. CASE \/ Run \/ Step \/ Crawl \/ Quit \/ \E x \in Places : RunTo(x)
           \/ \E end \in {"sob", "eob"} : Edge(end)
           \/ \E n \in Counts : StepCount(n) \/ CrawlCount(n)
  <2>1. phase = "menu" /\ await = "none" /\ ~step_riscv
    <3>1. phase = "menu"
      BY <1>3 DEF Run, Step, Crawl, Quit, RunTo, Edge, StepCount, CrawlCount, Resume
    <3> QED
      BY <3>1 DEF IInv, TypeOK, Modes
  <2>2. CASE Run \/ Quit \/ \E x \in Places : RunTo(x)
    <3>1. await' = "none" /\ asked'.kind \in {"run", "quit"}
      BY <2>1, <2>2 DEF Run, Quit, RunTo, Resume, Asked
    <3> QED
      BY <3>1 DEF Counted
  <2>3. CASE \E end \in {"sob", "eob"} : Edge(end)
    <3>1. await' \in {"sob", "eob"} /\ asked'.kind \in {"sob", "eob"}
      BY <2>3 DEF Edge, Resume, Asked
    <3> QED
      BY <3>1 DEF Counted
  <2>4. CASE Step
    <3>1. /\ await' = "step" /\ step_riscv' = step_riscv /\ travelled' = 0
          /\ asked' = Asked("step", 1, 0)
      BY <2>4 DEF Step, Resume
    <3>2. asked'.kind = "step" /\ asked'.count = 1
      BY <3>1 DEF Asked
    <3> QED
      BY <2>1, <3>1, <3>2 DEF Counted
  <2>5. CASE Crawl
    <3>1. /\ await' = "none" /\ step_riscv' = TRUE /\ travelled' = 0
          /\ asked' = Asked("crawl", 1, 0)
      BY <2>1, <2>5 DEF Crawl, Resume
    <3>2. asked'.kind = "crawl" /\ asked'.count = 1
      BY <3>1 DEF Asked
    <3> QED
      BY <3>1, <3>2 DEF Counted
  <2>6. ASSUME NEW n \in Counts, StepCount(n) \/ CrawlCount(n) PROVE Counted'
    <3>1. /\ await' = "counter" /\ run_break' = n /\ travelled' = 0
          /\ asked' = Asked(IF step_riscv' THEN "crawl" ELSE "step", n, 0)
          /\ step_riscv' \in BOOLEAN
      <4>1. CASE StepCount(n)
        <5>1. /\ await' = "counter" /\ run_break' = n /\ travelled' = 0 /\ ~step_riscv'
              /\ asked' = Asked("step", n, 0) /\ step_riscv' = step_riscv
          BY <2>1, <4>1 DEF StepCount, Resume
        <5>2. step_riscv' \in BOOLEAN
          BY <5>1 DEF IInv, TypeOK
        <5> QED
          BY <5>1, <5>2
      <4>2. CASE CrawlCount(n)
        BY <4>2 DEF CrawlCount, Resume
      <4> QED
        BY <2>6, <4>1, <4>2
    <3>2. asked'.kind = (IF step_riscv' THEN "crawl" ELSE "step") /\ asked'.count = n
      BY <3>1 DEF Asked
    <3>3. n \in Nat
      BY LimitAssumption
    <3> QED
      BY <3>1, <3>2, <3>3 DEF Counted
  <2> QED
    BY <1>3, <2>2, <2>3, <2>4, <2>5, <2>6
<1>4. CASE Translate \/ Continue \/ Detached
  <2>1. /\ phase \in {"translate", "enter", "code"} /\ attached' = attached
        /\ await' = await /\ step_riscv' = step_riscv /\ run_break' = run_break
        /\ asked' = asked /\ travelled' = travelled
    BY <1>4 DEF Translate, Continue, Detached, modes, history
  <2> QED
    BY <2>1 DEF Counted, Asking
<1>5. CASE DebugEntry
  <2>1. CASE Stops
    <3>1. phase' = "menu"
      BY <1>5, <2>1 DEF DebugEntry, Stop
    <3>2. ~Asking'
      BY <3>1 DEF Asking
    <3> QED
      BY <3>2 DEF Counted
  <2>2. CASE ~Stops
    BY <1>5, <2>2, PassCounts
  <2> QED
    BY <2>1, <2>2
<1> QED
  BY <1>1, <1>2, <1>3, <1>4, <1>5
     DEF Next, GuestRuns, Menu, BreakPoint, RemovePoint, Signal

\* Every stop has a reason, and step and crawl go exactly as far as asked.
THEOREM StopsAreExplained == Spec => []StopsExplained
<1>1. Init => Counted /\ StopsExplained
  BY DEF Init, Counted, StopsExplained, Asked
<1>2. IInv /\ Counted /\ [Next]_vars => Counted'
  BY CountKept
<1>3. ASSUME IInv, Counted, StopsExplained, [Next]_vars PROVE StopsExplained'
  <2>1. CASE phase' # "menu"
    BY <2>1 DEF StopsExplained
  <2>2. CASE phase' = "menu" /\ ~DebugEntry
    <3>1. phase = "menu" /\ reasons' = reasons /\ asked' = asked /\ travelled' = travelled
      BY <1>3, <2>2
         DEF Next, GuestRuns, Menu, BreakPoint, RemovePoint, Signal, InMenu, Leave, Run, Step, Crawl,
             Quit, RunTo, Edge, StepCount, CrawlCount, Resume, Translate, Detached, Continue, Signalled,
             Done, vars, history
    <3> QED
      BY <1>3, <3>1 DEF StopsExplained
  <2>3. CASE DebugEntry /\ phase' = "menu"
    <3>1. Stops
      BY <2>3 DEF DebugEntry, Pass
    <3>2. phase = "enter" /\ reasons' = Reasons /\ asked' = asked
      BY <2>3, <3>1 DEF DebugEntry, Stop
    <3>3. Reasons # {}
      BY <1>3, <3>1, <3>2, StopHasReason
    <3>4. asked.kind \in {"step", "crawl"} => travelled' = Max({1, asked.count})
      BY <1>3, <2>3, <3>1, StopCounts
    <3> QED
      BY <3>2, <3>3, <3>4 DEF StopsExplained
  <2> QED
    BY <2>1, <2>2, <2>3
<1> QED
  BY <1>1, <1>2, <1>3, DebuggerInductive, PTL DEF Spec

=============================================================================
