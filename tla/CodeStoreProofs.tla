---------------------------- MODULE CodeStoreProofs ----------------------------
(***************************************************************************)
(* What CodeStore keeps, for every image, every translation and every size *)
(* of the lists.                                                           *)
(***************************************************************************)
EXTENDS CodeStore, Induction, SequenceTheorems

-----------------------------------------------------------------------------
(* StaticList, of any capacity *)

SL(capacity, blank) == INSTANCE StaticList WITH Capacity <- capacity, Blank <- blank

\* A list has room for left elements from next on in the buffer it fills.
Lists(W) == [memory : Seq(W), next : Nat, left : Nat]
ListOK(l, W) ==
    /\ l \in Lists(W)
    /\ IF l.memory = << >> THEN l.next = 0 /\ l.left = 0
       ELSE l.next >= 2 /\ l.next + l.left = Len(l.memory) + 1

\* Nothing that was written moves or changes.
Grown(l, l2) ==
    /\ l.next <= l2.next
    /\ \A j \in 1..(l.next - 1) : l2.memory[j] = l.memory[j]

\* The section from start, or a new one, with the elements behind it starts at s2.
SectionAt(start, l) == start = 0 \/ start \in 2..l.next
SectionSize(l, start) == IF start = 0 THEN 0 ELSE l.next - start
Copied(l, start, l2, s2) ==
    \A j \in 0..(SectionSize(l, start) - 1) : l2.memory[s2 + j] = l.memory[start + j]
Extended(l, start, elements, l2, s2) ==
    /\ s2 \in Nat /\ 2 <= s2
    /\ l2.next = s2 + SectionSize(l, start) + Len(elements)
    /\ Copied(l, start, l2, s2)
    /\ \A j \in 1..Len(elements) : l2.memory[s2 + SectionSize(l, start) + j - 1] = elements[j]

\* w is m with the elements of e from a on.
Overwrites(w, m, a, e) ==
    /\ Len(w) = Len(m)
    /\ \A j \in 1..(a - 1) : w[j] = m[j]
    /\ \A j \in 1..Len(e) : w[a + j - 1] = e[j]

LEMMA WrittenCells ==
    ASSUME NEW c, NEW z, NEW W, NEW m \in Seq(W), NEW a \in Nat \ {0}, NEW e \in Seq(W),
           a + Len(e) - 1 <= Len(m)
    PROVE  /\ SL(c, z)!Written(m, a, e) \in Seq(W)
           /\ Overwrites(SL(c, z)!Written(m, a, e), m, a, e)
<1> DEFINE w == SL(c, z)!Written(m, a, e)
           in(i) == i \in a..(a + Len(e) - 1)
<1>0. Len(e) \in Nat /\ Len(m) \in Nat
  OBVIOUS
<1>1. w = [i \in 1..Len(m) |-> IF i \in a..(a + Len(e) - 1) THEN e[i - a + 1] ELSE m[i]]
  BY DEF SL!Written
<1>2. ASSUME NEW i \in 1..Len(m) PROVE w[i] \in W
  <2>1. CASE i \in a..(a + Len(e) - 1)
    <3>1. i - a + 1 \in 1..Len(e)
      BY <1>0, <2>1
    <3> QED BY <1>1, <2>1, <3>1, ElementOfSeq
  <2>2. CASE i \notin a..(a + Len(e) - 1)
    BY <1>1, <2>2, ElementOfSeq
  <2> QED BY <2>1, <2>2
<1>3. w \in Seq(W) /\ Len(w) = Len(m)
  <2>1. w \in [1..Len(m) -> W]
    BY <1>1, <1>2, Zenon
  <2> HIDE DEF w
  <2> QED BY <1>0, <2>1
<1>4. ASSUME NEW j \in 1..(a - 1) PROVE w[j] = m[j]
  <2>1. j \in 1..Len(m) /\ j \notin a..(a + Len(e) - 1)
    BY <1>0
  <2> QED BY <1>1, <2>1
<1>5. ASSUME NEW j \in 1..Len(e) PROVE w[a + j - 1] = e[j]
  <2>1. a + j - 1 \in a..(a + Len(e) - 1) /\ a + j - 1 \in 1..Len(m) /\ (a + j - 1) - a + 1 = j
    BY <1>0
  <2> QED BY <1>1, <2>1
<1> QED BY <1>3, <1>4, <1>5 DEF Overwrites

\* add() where the buffer has room, and where it has not: a new buffer, to which
\* the section is copied.
LEMMA AllocatedCells ==
    ASSUME NEW c \in Nat, NEW W, NEW z \in W, NEW l \in Lists(W)
    PROVE  LET m == SL(c, z)!Allocated(l)
           IN /\ m \in Seq(W) /\ Len(m) = Len(l.memory) + c + 1
              /\ \A j \in 1..Len(l.memory) : m[j] = l.memory[j]
<1> DEFINE room == [i \in 1..(c + 1) |-> z]
<1>1. room \in Seq(W) /\ Len(room) = c + 1
  OBVIOUS
<1>2. l.memory \in Seq(W)
  BY DEF Lists
<1> HIDE DEF room
<1>3. SL(c, z)!Allocated(l) = l.memory \o room
  BY DEF SL!Allocated, room
<1> DEFINE m == l.memory \o room
<1>4. m \in Seq(W) /\ Len(m) = Len(l.memory) + c + 1
  BY <1>1, <1>2
<1>5. ASSUME NEW j \in 1..Len(l.memory) PROVE m[j] = l.memory[j]
  BY <1>1, <1>2
<1> HIDE DEF m, SL!Allocated
<1> QED BY <1>3, <1>4, <1>5, Zenon DEF m

LEMMA ListMoves ==
    ASSUME NEW c \in Nat, NEW W, NEW z \in W, NEW l, ListOK(l, W),
           NEW start \in Nat, SectionAt(start, l), SectionSize(l, start) <= c
    PROVE  LET l2 == SL(c, z)!Moved(l, start)
               n == SectionSize(l, start)
           IN /\ ListOK(l2, W) /\ l2.left = c - n /\ l2.memory # << >>
              /\ l2.next = SL(c, z)!NewBuffer(l) + n
              /\ Grown(l, l2)
              /\ Copied(l, start, l2, SL(c, z)!NewBuffer(l))
<1> DEFINE n == SectionSize(l, start)
           m == SL(c, z)!Allocated(l)
           a == SL(c, z)!NewBuffer(l)
           e == IF n = 0 THEN << >> ELSE SubSeq(l.memory, start, start + n - 1)
           w == SL(c, z)!Written(m, a, e)
           l2 == SL(c, z)!Moved(l, start)
<1>1. l \in Lists(W) /\ l.memory \in Seq(W) /\ l.next \in Nat /\ l.left \in Nat /\ Len(l.memory) \in Nat
  BY DEF ListOK, Lists
<1>2. n \in Nat /\ (n # 0 => start \in 2..(l.next - 1) /\ n = l.next - start)
  BY <1>1 DEF SectionAt, SectionSize
<1>3. l.next <= Len(l.memory) + 1
  BY <1>1 DEF ListOK
<1>4. a = Len(l.memory) + 2
  BY DEF SL!NewBuffer
<1>5. e \in Seq(W) /\ Len(e) = n /\ \A j \in 1..n : e[j] = l.memory[start + j - 1]
  <2>1. CASE n = 0
    BY <2>1
  <2>2. CASE n # 0
    <3>1. start \in 1..Len(l.memory) /\ start + n - 1 \in 1..Len(l.memory)
      <4> DEFINE size == Len(l.memory)
                 top == l.next
      <4>1. /\ size \in Nat /\ top \in Nat /\ top <= size + 1
            /\ n \in Nat /\ n # 0 /\ start \in 2..(top - 1) /\ n = top - start
        BY <1>1, <1>2, <1>3, <2>2
      <4> HIDE DEF size, top, n
      <4>2. start \in 1..size /\ start + n - 1 \in 1..size
        BY <4>1
      <4> QED BY <4>2 DEF size
    <3>2. \A i \in start..(start + n - 1) : l.memory[i] \in W
      BY <1>1, <3>1, ElementOfSeq
    <3>3. e = SubSeq(l.memory, start, start + n - 1)
      BY <2>2
    <3> HIDE DEF e, n
    <3> QED BY <1>1, <1>2, <2>2, <3>1, <3>2, <3>3
  <2> QED BY <2>1, <2>2
<1>6. /\ m \in Seq(W) /\ Len(m) = Len(l.memory) + c + 1
      /\ \A j \in 1..Len(l.memory) : m[j] = l.memory[j]
  BY <1>1, AllocatedCells
<1>7. l2 = [memory |-> w, next |-> a + n, left |-> c - n]
  BY DEF SL!Moved, SL!StoreCount, SL!Null, SectionSize
<1> HIDE DEF n, m, a, e
<1>8. a \in Nat \ {0} /\ a + Len(e) - 1 <= Len(m)
  <2> DEFINE size == Len(l.memory)
             le == Len(e)
             lm == Len(m)
  <2>1. /\ size \in Nat /\ a = size + 2 /\ le = n /\ n \in Nat /\ lm = size + c + 1
    BY <1>1, <1>2, <1>4, <1>5, <1>6
  <2>2. n <= c
    BY DEF n
  <2> HIDE DEF size, le, lm
  <2>3. a \in Nat \ {0} /\ a + le - 1 <= lm
    BY <2>1, <2>2
  <2> QED BY <2>3 DEF le, lm
<1>9. /\ w \in Seq(W) /\ Len(w) = Len(m)
      /\ \A j \in 1..(a - 1) : w[j] = m[j]
      /\ \A j \in 1..Len(e) : w[a + j - 1] = e[j]
  <2>1. w \in Seq(W) /\ Overwrites(w, m, a, e)
    BY <1>5, <1>6, <1>8, WrittenCells
  <2> QED BY <2>1 DEF Overwrites
<1> HIDE DEF w, l2
<1>10. n <= c
  BY DEF n
<1>11. ListOK(l2, W) /\ l2.left = c - n /\ l2.memory # << >>
  <2>1. Len(w) > 0 /\ w # << >>
    BY <1>1, <1>6, <1>9
  <2>2. l2 \in Lists(W)
    BY <1>1, <1>2, <1>4, <1>7, <1>9, <1>10 DEF Lists
  <2>3. l2.next >= 2 /\ l2.next + l2.left = Len(l2.memory) + 1
    <3>1. l2.next = Len(l.memory) + 2 + n /\ l2.left = c - n /\ Len(l2.memory) = Len(l.memory) + c + 1
      BY <1>4, <1>6, <1>7, <1>9
    <3> QED BY <1>1, <1>2, <1>10, <3>1
  <2> QED BY <1>7, <2>1, <2>2, <2>3 DEF ListOK
<1>12. Grown(l, l2)
  <2>1. l.next <= l2.next
    BY <1>1, <1>2, <1>3, <1>4, <1>7
  <2>2. ASSUME NEW j \in 1..(l.next - 1) PROVE l2.memory[j] = l.memory[j]
    <3>1. j \in 1..Len(l.memory) /\ j \in 1..(a - 1)
      BY <1>1, <1>3, <1>4
    <3> QED BY <1>6, <1>7, <1>9, <3>1
  <2> QED BY <2>1, <2>2 DEF Grown
<1>13. ASSUME NEW j \in 0..(n - 1) PROVE l2.memory[a + j] = l.memory[start + j]
  <2>1. j + 1 \in 1..n /\ a + (j + 1) - 1 = a + j /\ start + (j + 1) - 1 = start + j
    BY <1>2, <1>8
  <2>2. w[a + (j + 1) - 1] = e[j + 1] /\ e[j + 1] = l.memory[start + (j + 1) - 1]
    BY <1>5, <1>9, <2>1
  <2> QED BY <1>7, <2>1, <2>2
<1>14. Copied(l, start, l2, a)
  BY <1>13 DEF Copied, n
<1> QED BY <1>7, <1>11, <1>12, <1>14 DEF n, a, l2

\* add() keeps the list, moves nothing that was written, and the section it
\* answers is the one it was given with the elements behind it.
LEMMA ListAdds ==
    ASSUME NEW c \in Nat, NEW W, NEW z \in W, NEW l, ListOK(l, W),
           NEW start \in Nat, SectionAt(start, l),
           NEW e \in Seq(W), SL(c, z)!Takes(l, start, e)
    PROVE  LET l2 == SL(c, z)!Added(l, start, e)
           IN /\ ListOK(l2, W) /\ Grown(l, l2)
              /\ Extended(l, start, e, l2, SL(c, z)!StartAfter(l, start, e))
<1> DEFINE n == SectionSize(l, start)
           moves == SL(c, z)!Reallocates(l, e)
           here == IF moves THEN SL(c, z)!Moved(l, start) ELSE l
           a == SL(c, z)!StartAfter(l, start, e)
           l2 == SL(c, z)!Added(l, start, e)
           w == SL(c, z)!Written(here.memory, here.next, e)
<1>1. l \in Lists(W) /\ l.memory \in Seq(W) /\ l.next \in Nat /\ l.left \in Nat /\ Len(l.memory) \in Nat
  BY DEF ListOK, Lists
<1>2. n \in Nat /\ (n # 0 => start \in 2..(l.next - 1) /\ n = l.next - start)
  BY <1>1 DEF SectionAt, SectionSize
<1>3. Len(e) \in Nat
  OBVIOUS
<1>4. SL(c, z)!StoreCount(l, start) = n
  BY DEF SL!StoreCount, SL!Null, SectionSize
<1>5. n <= c /\ n + Len(e) <= c /\ a # 0
  BY <1>2, <1>3, <1>4 DEF SL!Takes, SL!Fits, SL!Null
<1>6. moves <=> l.left < Len(e)
  BY DEF SL!Reallocates
<1>7. a = IF moves THEN SL(c, z)!NewBuffer(l) ELSE IF n > 0 THEN start ELSE l.next
  BY <1>4 DEF SL!StartAfter
<1>8. l2 = [memory |-> w, next |-> here.next + Len(e), left |-> here.left - Len(e)]
  BY DEF SL!Added
<1> HIDE DEF n, a, l2, moves, here
<1>9. /\ ListOK(here, W) /\ here.memory # << >> /\ here.left >= Len(e)
      /\ here.next = a + n /\ a \in Nat /\ 2 <= a
      /\ Grown(l, here) /\ Copied(l, start, here, a)
  <2>1. CASE moves
    <3>1. here = SL(c, z)!Moved(l, start) /\ a = SL(c, z)!NewBuffer(l)
      BY <1>7, <2>1 DEF here
    <3>2. a = Len(l.memory) + 2
      BY <3>1 DEF SL!NewBuffer
    <3>3. /\ ListOK(here, W) /\ here.left = c - n /\ here.memory # << >>
          /\ here.next = a + n /\ Grown(l, here) /\ Copied(l, start, here, a)
      BY <1>5, <3>1, ListMoves DEF n
    <3> QED BY <1>1, <1>2, <1>3, <1>5, <3>2, <3>3
  <2>2. CASE ~moves
    <3>1. here = l /\ a = IF n > 0 THEN start ELSE l.next
      BY <1>7, <2>2 DEF here
    <3>2. l.left >= Len(e)
      BY <1>1, <1>3, <1>6, <2>2
    <3>3. l.memory # << >> /\ l.next >= 2
      <4>1. l.next # 0
        BY <1>1, <1>2, <1>5, <3>1
      <4> QED BY <4>1 DEF ListOK
    <3>4. l.next = a + n /\ a \in Nat /\ 2 <= a /\ (n > 0 => a = start)
      BY <1>1, <1>2, <3>1, <3>3
    <3>5. Grown(l, l)
      BY <1>1 DEF Grown
    <3>6. Copied(l, start, l, a)
      <4>1. ASSUME NEW j \in 0..(n - 1) PROVE l.memory[a + j] = l.memory[start + j]
        BY <1>2, <3>4
      <4> QED BY <4>1 DEF Copied, n
    <3> QED BY <3>1, <3>2, <3>3, <3>4, <3>5, <3>6
  <2> QED BY <2>1, <2>2
<1>10. here.memory \in Seq(W) /\ here.next \in Nat /\ here.left \in Nat /\ Len(here.memory) \in Nat
  BY <1>9 DEF ListOK, Lists
<1>11. here.next >= 2 /\ here.next + here.left = Len(here.memory) + 1
  BY <1>9 DEF ListOK
<1>12. w \in Seq(W) /\ Overwrites(w, here.memory, here.next, e)
  <2>1. here.next \in Nat \ {0} /\ here.next + Len(e) - 1 <= Len(here.memory)
    BY <1>3, <1>9, <1>10, <1>11
  <2> DEFINE m == here.memory
             at == here.next
  <2> HIDE DEF m, at
  <2>2. m \in Seq(W) /\ at \in Nat \ {0} /\ at + Len(e) - 1 <= Len(m)
    BY <1>10, <2>1 DEF m, at
  <2>3. SL(c, z)!Written(m, at, e) \in Seq(W) /\ Overwrites(SL(c, z)!Written(m, at, e), m, at, e)
    BY <2>2, WrittenCells
  <2> QED BY <2>3 DEF m, at
<1> HIDE DEF w
<1>13. ListOK(l2, W)
  <2>1. l2 \in Lists(W)
    BY <1>3, <1>8, <1>9, <1>10, <1>12 DEF Lists
  <2>2. l2.memory = w /\ l2.next = here.next + Len(e) /\ l2.left = here.left - Len(e)
    BY <1>8
  <2>3. Len(w) = Len(here.memory) /\ w # << >>
    <3>1. Len(w) = Len(here.memory)
      BY <1>12 DEF Overwrites
    <3>2. Len(here.memory) # 0
      BY <1>9, <1>10
    <3> QED BY <1>12, <3>1, <3>2
  <2>4. l2.next >= 2 /\ l2.next + l2.left = Len(l2.memory) + 1
    <3>1. Len(l2.memory) = Len(here.memory) /\ Len(e) \in Nat
      BY <2>2, <2>3
    <3> DEFINE n1 == here.next
               l1 == here.left
               m1 == Len(here.memory)
               k1 == Len(e)
    <3>2. /\ l2.next = n1 + k1 /\ l2.left = l1 - k1 /\ Len(l2.memory) = m1
          /\ n1 \in Nat /\ l1 \in Nat /\ m1 \in Nat /\ k1 \in Nat
          /\ n1 >= 2 /\ n1 + l1 = m1 + 1
      BY <1>10, <1>11, <2>2, <3>1
    <3> HIDE DEF n1, l1, m1, k1
    <3> QED BY <3>2
  <2> QED BY <2>1, <2>2, <2>3, <2>4 DEF ListOK
<1>14. l.next <= here.next /\ \A j \in 1..(l.next - 1) : here.memory[j] = l.memory[j]
  BY <1>9 DEF Grown
<1>15. \A j \in 1..(here.next - 1) : l2.memory[j] = here.memory[j]
  BY <1>8, <1>12 DEF Overwrites
<1>16. Grown(l, l2)
  <2>1. l.next <= l2.next
    BY <1>1, <1>3, <1>8, <1>10, <1>14
  <2>2. ASSUME NEW j \in 1..(l.next - 1) PROVE l2.memory[j] = l.memory[j]
    <3>1. j \in 1..(here.next - 1)
      BY <1>1, <1>10, <1>14
    <3> QED BY <1>14, <1>15, <3>1
  <2> QED BY <2>1, <2>2 DEF Grown
<1>17. Extended(l, start, e, l2, a)
  <2>1. l2.next = a + n + Len(e)
    BY <1>8, <1>9
  <2>2. Copied(l, start, l2, a)
    <3>1. ASSUME NEW j \in 0..(n - 1) PROVE l2.memory[a + j] = l.memory[start + j]
      <4>1. a + j \in 1..(here.next - 1)
        BY <1>2, <1>9
      <4>2. here.memory[a + j] = l.memory[start + j]
        BY <1>9 DEF Copied, n
      <4> QED BY <1>15, <4>1, <4>2
    <3> QED BY <3>1 DEF Copied, n
  <2>3. ASSUME NEW j \in 1..Len(e) PROVE l2.memory[a + n + j - 1] = e[j]
    <3>1. w[here.next + j - 1] = e[j]
      BY <1>12 DEF Overwrites
    <3> QED BY <1>8, <1>9, <3>1
  <2> QED BY <1>9, <2>1, <2>2, <2>3 DEF Extended, n
<1> QED BY <1>13, <1>16, <1>17 DEF l2, a

-----------------------------------------------------------------------------
(* Where the instructions of a block start *)

Entries == [start : Nat, end : Nat, riscv : Nat, count : Nat, offsets : Nat]
Places == [x86 : Nat, riscv : Nat]

\* The sizes of e's instructions are kept in memory m.
SizesIn(e, m) ==
    /\ e \in Entries /\ m \in Seq(Places)
    /\ e.count = 0 \/ (e.offsets # 0 /\ e.offsets + e.count - 1 <= Len(m))

StartsStep(e, m, at, i) ==
    IF i = 1 THEN [x86 |-> e.start, riscv |-> e.riscv]
    ELSE [x86 |-> at[i - 1].x86 + m[e.offsets + (i - 1) - 1].x86,
          riscv |-> at[i - 1].riscv + m[e.offsets + (i - 1) - 1].riscv]

StartsFollow(at, e, m) ==
    /\ at \in [1..(e.count + 1) -> Places]
    /\ at[1] = [x86 |-> e.start, riscv |-> e.riscv]
    /\ \A i \in 1..e.count : at[i + 1] = [x86 |-> at[i].x86 + m[e.offsets + i - 1].x86,
                                          riscv |-> at[i].riscv + m[e.offsets + i - 1].riscv]

\* StartsOf is the solution of its recursion.
LEMMA StartsEquation ==
    ASSUME NEW e, NEW m, SizesIn(e, m)
    PROVE  StartsFollow(StartsOf(e, m), e, m)
<1> DEFINE D == 1..(e.count + 1)
           V == Places
           F == [D -> V]
           rank == [i \in D |-> i]
           body == [f \in F |-> [i \in D |-> StartsStep(e, m, f, i)]]
<1>1. e \in Entries /\ m \in Seq(Places) /\ e.count \in Nat /\ e.offsets \in Nat
  BY DEF SizesIn, Entries
<1>2. \A i \in D : i # 1 => i - 1 \in D /\ m[e.offsets + (i - 1) - 1] \in Places
  <2> SUFFICES ASSUME NEW i \in D, i # 1
               PROVE  i - 1 \in D /\ m[e.offsets + (i - 1) - 1] \in Places
    OBVIOUS
  <2>1. i - 1 \in D /\ i - 1 \in 1..e.count
    BY <1>1
  <2>2. e.offsets + (i - 1) - 1 \in 1..Len(m)
    <3>1. e.count # 0 /\ Len(m) \in Nat
      BY <1>1, <2>1
    <3>2. e.offsets # 0 /\ e.offsets + e.count - 1 <= Len(m)
      BY <3>1 DEF SizesIn
    <3> QED BY <1>1, <2>1, <3>1, <3>2
  <2> QED BY <1>1, <2>1, <2>2, ElementOfSeq
<1>3. rank \in [D -> Nat] /\ V # {}
  <2>1. [x86 |-> 0, riscv |-> 0] \in V
    BY DEF Places
  <2> QED BY <2>1
<1>4. body \in [F -> F]
  <2>1. ASSUME NEW f \in F, NEW i \in D PROVE StartsStep(e, m, f, i) \in V
    <3>1. CASE i = 1
      BY <1>1, <3>1 DEF StartsStep, Places, Entries
    <3>2. CASE i # 1
      <4>1. f[i - 1] \in Places /\ m[e.offsets + (i - 1) - 1] \in Places
        BY <1>2, <3>2
      <4> QED BY <3>2, <4>1 DEF StartsStep, Places
    <3> QED BY <3>1, <3>2
  <2>2. ASSUME NEW f \in F PROVE [i \in D |-> StartsStep(e, m, f, i)] \in F
    BY <2>1
  <2> HIDE DEF F
  <2> QED BY <2>2
<1>5. DependsOnSmaller(body, D, V, rank)
  <2>1. ASSUME NEW f \in F, NEW g \in F, NEW i \in D, \A k \in D : k < i => f[k] = g[k]
        PROVE  StartsStep(e, m, f, i) = StartsStep(e, m, g, i)
    <3>1. CASE i = 1
      BY <3>1 DEF StartsStep
    <3>2. CASE i # 1
      <4>1. f[i - 1] = g[i - 1]
        BY <1>2, <2>1, <3>2
      <4> QED BY <3>2, <4>1 DEF StartsStep
    <3> QED BY <3>1, <3>2
  <2>2. \A i \in D : rank[i] = i
    OBVIOUS
  <2>3. \A f \in F : \A i \in D : body[f][i] = StartsStep(e, m, f, i)
    OBVIOUS
  <2> HIDE DEF body, rank, V, D
  <2> QED BY <2>1, <2>2, <2>3 DEF DependsOnSmaller
<1>6. PICK f : Solves(f, D, V, body)
  <2> HIDE DEF body, rank, V, D
  <2>1. rank \in [D -> Nat]
    BY <1>3
  <2>2. V # {}
    BY <1>3
  <2> QED BY <1>4, <1>5, <2>1, <2>2, MeasuredRecursion
<1>7. f = [i \in 1..(e.count + 1) |-> StartsStep(e, m, f, i)] /\ f \in F
  BY <1>6 DEF Solves
<1> DEFINE at == StartsOf(e, m)
<1>8. at = [i \in 1..(e.count + 1) |-> StartsStep(e, m, at, i)]
  BY <1>7, Zenon DEF StartsOf, StartsStep
<1> HIDE DEF at
<1>9. at \in F
  <2> DEFINE S == {i \in Nat : i \in D => at[i] \in V}
  <2>1. \A i \in Nat : (\A k \in Nat : k < i => k \in S) => i \in S
    <3> SUFFICES ASSUME NEW i \in D, \A k \in Nat : k < i => k \in S PROVE at[i] \in V
      OBVIOUS
    <3>0. at[i] = StartsStep(e, m, at, i)
      BY <1>8
    <3>1. CASE i = 1
      BY <1>1, <3>0, <3>1 DEF StartsStep, Places, Entries
    <3>2. CASE i # 1
      <4>1. i - 1 \in Nat /\ i - 1 < i /\ i - 1 \in D
        BY <1>2, <3>2
      <4>2. at[i - 1] \in Places /\ m[e.offsets + (i - 1) - 1] \in Places
        BY <1>2, <3>2, <4>1
      <4> QED BY <3>0, <3>2, <4>2 DEF StartsStep, Places
    <3> QED BY <3>1, <3>2
  <2> HIDE DEF S
  <2>2. Nat \subseteq S
    BY <2>1, StrongInduction
  <2>3. \A i \in D : at[i] \in V
    BY <2>2 DEF S
  <2> QED BY <1>8, <2>3
<1>10. 1 \in D /\ at[1] = [x86 |-> e.start, riscv |-> e.riscv]
  <2>1. 1 \in D
    BY <1>1
  <2> QED BY <1>8, <2>1 DEF StartsStep
<1>11. ASSUME NEW i \in 1..e.count
       PROVE  at[i + 1] = [x86 |-> at[i].x86 + m[e.offsets + i - 1].x86,
                           riscv |-> at[i].riscv + m[e.offsets + i - 1].riscv]
  <2>1. i + 1 \in D /\ i + 1 # 1 /\ (i + 1) - 1 = i
    BY <1>1
  <2>2. at[i + 1] = StartsStep(e, m, at, i + 1)
    BY <1>8, <2>1
  <2> QED BY <2>1, <2>2 DEF StartsStep
<1> QED BY <1>9, <1>10, <1>11 DEF StartsFollow, at

\* The starts depend on the start of the block and its sizes only; where its code
\* lies moves them all alike.
Shifted(e1, m1, e2, m2, n) ==
    \A i \in 1..(n + 1) :
        /\ StartsOf(e2, m2)[i].x86 = StartsOf(e1, m1)[i].x86
        /\ StartsOf(e2, m2)[i].riscv + e1.riscv = StartsOf(e1, m1)[i].riscv + e2.riscv

SameSizes(e1, m1, e2, m2, n) ==
    \A i \in 1..n : m2[e2.offsets + i - 1] = m1[e1.offsets + i - 1]

LEMMA StartsShift ==
    ASSUME NEW e1, NEW m1, SizesIn(e1, m1), NEW e2, NEW m2, SizesIn(e2, m2),
           NEW n \in Nat, n <= e1.count, n <= e2.count, e1.start = e2.start,
           SameSizes(e1, m1, e2, m2, n)
    PROVE  Shifted(e1, m1, e2, m2, n)
<1> DEFINE a1 == StartsOf(e1, m1)
           a2 == StartsOf(e2, m2)
           P(i) == a2[i].x86 = a1[i].x86 /\ a2[i].riscv + e1.riscv = a1[i].riscv + e2.riscv
           S == {i \in Nat : i <= n => P(i + 1)}
<1>1. StartsFollow(a1, e1, m1) /\ StartsFollow(a2, e2, m2)
  BY StartsEquation
<1>2. e1 \in Entries /\ e2 \in Entries /\ m1 \in Seq(Places) /\ m2 \in Seq(Places)
  BY DEF SizesIn
<1>3. e1.count \in Nat /\ e2.count \in Nat /\ e1.offsets \in Nat /\ e1.riscv \in Nat /\ e2.riscv \in Nat
  BY <1>2 DEF Entries
<1> HIDE DEF a1, a2
<1>4. P(1)
  BY <1>1, <1>3 DEF StartsFollow
<1>5. ASSUME NEW i \in 0..(n - 1), P(i + 1) PROVE P(i + 2)
  <2>1. i + 1 \in 1..e1.count /\ i + 1 \in 1..e2.count /\ i + 1 \in 1..n /\ (i + 1) + 1 = i + 2
    BY <1>3
  <2> DEFINE z == m1[e1.offsets + (i + 1) - 1]
  <2>2. m2[e2.offsets + (i + 1) - 1] = z
    BY <2>1 DEF SameSizes
  <2>3. z \in Places
    <3>1. e1.count # 0 /\ Len(m1) \in Nat
      BY <1>2, <1>3, <2>1
    <3>2. e1.offsets # 0 /\ e1.offsets + e1.count - 1 <= Len(m1)
      BY <3>1 DEF SizesIn
    <3>3. e1.offsets + (i + 1) - 1 \in 1..Len(m1)
      BY <1>3, <2>1, <3>1, <3>2
    <3> QED BY <1>2, <3>3, ElementOfSeq
  <2> HIDE DEF z
  <2>4. /\ a1[(i + 1) + 1] = [x86 |-> a1[i + 1].x86 + z.x86, riscv |-> a1[i + 1].riscv + z.riscv]
        /\ a2[(i + 1) + 1] = [x86 |-> a2[i + 1].x86 + z.x86, riscv |-> a2[i + 1].riscv + z.riscv]
    BY <1>1, <2>1, <2>2 DEF StartsFollow, z
  <2>5. a1[i + 1] \in Places /\ a2[i + 1] \in Places
    <3>1. i + 1 \in 1..(e1.count + 1) /\ i + 1 \in 1..(e2.count + 1)
      BY <1>3, <2>1
    <3> QED BY <1>1, <3>1 DEF StartsFollow
  <2>6. /\ a1[i + 1].riscv \in Nat /\ a2[i + 1].riscv \in Nat /\ z.riscv \in Nat
    BY <2>3, <2>5 DEF Places
  <2> QED BY <1>3, <1>5, <2>1, <2>4, <2>6
<1>6. 0 \in S
  BY <1>4
<1>7. \A i \in 0..(n - 1) : i \in S => i + 1 \in S
  <2> SUFFICES ASSUME NEW i \in 0..(n - 1), P(i + 1) PROVE P((i + 1) + 1)
    OBVIOUS
  <2> QED BY <1>5
<1> HIDE DEF S
<1>8. 0..n \subseteq S
  BY <1>6, <1>7, BoundedInduction
<1>9. ASSUME NEW i \in 1..(n + 1) PROVE P(i)
  <2>1. i - 1 \in 0..n /\ i - 1 \in S /\ (i - 1) + 1 = i
    BY <1>8
  <2> QED BY <2>1 DEF S
<1> QED BY <1>9 DEF Shifted, a1, a2

-----------------------------------------------------------------------------
(* Pages and the binary search *)

LEMMA PageBounds ==
    ASSUME NEW x \in Nat
    PROVE  /\ PageIndex(x) \in Nat
           /\ PageIndex(x) * PageSize <= x
           /\ x < PageIndex(x) * PageSize + PageSize
  BY PagesAssumption, SMTT(30) DEF PageIndex

LEMMA PagesAscend ==
    ASSUME NEW x \in Nat, NEW y \in Nat, x <= y
    PROVE  PageIndex(x) <= PageIndex(y)
<1> DEFINE p == PageIndex(x)
           q == PageIndex(y)
<1>1. p \in Nat /\ p * PageSize <= x
  BY PageBounds
<1>2. q \in Nat /\ y < q * PageSize + PageSize
  BY PageBounds
<1> HIDE DEF p, q
<1>3. PageSize \in Nat /\ PageSize >= 1
  BY PagesAssumption
<1>4. ASSUME q < p PROVE FALSE
  <2>1. (q + 1) * PageSize <= p * PageSize
    BY <1>1, <1>2, <1>3, <1>4, SMTT(30)
  <2>2. (q + 1) * PageSize = q * PageSize + PageSize
    BY <1>2, <1>3, SMTT(30)
  <2>3. p * PageSize \in Nat /\ q * PageSize \in Nat
    BY <1>1, <1>2, <1>3, SMTT(30)
  <2> QED BY <1>1, <1>2, <1>3, <2>1, <2>2, <2>3
<1> QED BY <1>1, <1>2, <1>4 DEF p, q

LEMMA AddressesInPages ==
    ASSUME NEW x \in Address
    PROVE  x \in Nat /\ PageIndex(x) \in Pages
<1> DEFINE p == PageIndex(x)
<1>1. PageSize \in Nat /\ PageSize >= 1 /\ NumPages \in Nat
  BY PagesAssumption
<1>2. PageSize * NumPages \in Nat
  BY <1>1, SMTT(30)
<1>3. x \in Nat /\ x < PageSize * NumPages
  BY <1>2 DEF Address, ImageSize
<1>4. p \in Nat /\ p * PageSize <= x
  BY <1>3, PageBounds
<1> HIDE DEF p
<1>5. ASSUME NumPages <= p PROVE FALSE
  <2>1. NumPages * PageSize <= p * PageSize
    BY <1>1, <1>4, <1>5, SMTT(30)
  <2>2. NumPages * PageSize = PageSize * NumPages /\ p * PageSize \in Nat
    BY <1>1, <1>4, SMTT(30)
  <2> QED BY <1>2, <1>3, <1>4, <2>1, <2>2
<1>6. p \in 0..(NumPages - 1)
  BY <1>1, <1>4, <1>5
<1> QED BY <1>3, <1>6 DEF p, Pages

\* The search is the solution of its recursion.
SearchStep(entries, x, found, s) ==
    LET i == (s.l + s.r) \div 2
        b == entries[i + 1]
    IN IF s.l = s.r THEN 0
       ELSE IF x < blocks[b].start THEN found[[s EXCEPT !.r = i]]
       ELSE IF x >= blocks[b].end THEN found[[s EXCEPT !.l = i + 1]]
       ELSE b

\* Both halves of a range are ranges, and smaller.
LEMMA Halves ==
    ASSUME NEW n \in Nat, NEW s \in Ranges(n), s.l # s.r
    PROVE  LET i == (s.l + s.r) \div 2
           IN /\ s.l \in 0..n /\ s.r \in 0..n /\ i \in s.l..(s.r - 1) /\ i + 1 \in 1..n
              /\ [s EXCEPT !.r = i] \in Ranges(n) /\ [s EXCEPT !.l = i + 1] \in Ranges(n)
              /\ [s EXCEPT !.r = i].l = s.l /\ [s EXCEPT !.r = i].r = i
              /\ [s EXCEPT !.l = i + 1].l = i + 1 /\ [s EXCEPT !.l = i + 1].r = s.r
<1> DEFINE i == (s.l + s.r) \div 2
<1>1. s \in [l : 0..n, r : 0..n] /\ s.l \in 0..n /\ s.r \in 0..n /\ s.l < s.r
  BY DEF Ranges
<1>2. i \in s.l..(s.r - 1)
  BY <1>1
<1> HIDE DEF i
<1>3. i \in 0..n /\ i + 1 \in 1..n
  BY <1>1, <1>2
<1>4. [s EXCEPT !.r = i] \in [l : 0..n, r : 0..n] /\ [s EXCEPT !.l = i + 1] \in [l : 0..n, r : 0..n]
  BY <1>1, <1>3
<1>5. /\ [s EXCEPT !.r = i].l = s.l /\ [s EXCEPT !.r = i].r = i
      /\ [s EXCEPT !.l = i + 1].l = i + 1 /\ [s EXCEPT !.l = i + 1].r = s.r
  BY <1>1
<1>6. s.l <= i /\ i + 1 <= s.r
  BY <1>1, <1>2
<1>7. [s EXCEPT !.r = i] \in Ranges(n) /\ [s EXCEPT !.l = i + 1] \in Ranges(n)
  BY <1>4, <1>5, <1>6 DEF Ranges
<1> QED BY <1>1, <1>2, <1>3, <1>5, <1>7 DEF i

LEMMA SearchEquation ==
    ASSUME NEW entries \in Seq(Nat), NEW x
    PROVE  /\ Search(entries, x) \in [Ranges(Len(entries)) -> Nat]
           /\ \A s \in Ranges(Len(entries)) :
                 Search(entries, x)[s] = SearchStep(entries, x, Search(entries, x), s)
<1> DEFINE n == Len(entries)
           D == Ranges(n)
           V == Nat
           F == [D -> V]
           rank == [s \in D |-> s.r - s.l]
           body == [f \in F |-> [s \in D |-> SearchStep(entries, x, f, s)]]
           mid(s) == (s.l + s.r) \div 2
           low(s) == [s EXCEPT !.r = mid(s)]
           high(s) == [s EXCEPT !.l = mid(s) + 1]
<1>0. n \in Nat
  OBVIOUS
<1>1. rank \in [D -> Nat] /\ V # {}
  <2>1. ASSUME NEW s \in D PROVE s.r - s.l \in Nat
    BY <1>0 DEF Ranges
  <2> QED BY <2>1
<1>2. ASSUME NEW s \in D, s.l # s.r
      PROVE  /\ low(s) \in D /\ rank[low(s)] < rank[s]
             /\ high(s) \in D /\ rank[high(s)] < rank[s]
             /\ entries[mid(s) + 1] \in Nat
  <2>1. /\ s.l \in 0..n /\ s.r \in 0..n /\ mid(s) \in s.l..(s.r - 1) /\ mid(s) + 1 \in 1..n
        /\ low(s) \in D /\ high(s) \in D
        /\ low(s).l = s.l /\ low(s).r = mid(s) /\ high(s).l = mid(s) + 1 /\ high(s).r = s.r
    BY <1>0, <1>2, Halves
  <2>2. rank[s] = s.r - s.l /\ rank[low(s)] = mid(s) - s.l /\ rank[high(s)] = s.r - (mid(s) + 1)
    BY <2>1
  <2>3. entries[mid(s) + 1] \in Nat
    BY <2>1, ElementOfSeq
  <2> HIDE DEF mid, low, high, rank
  <2> QED BY <2>1, <2>2, <2>3
<1>3. body \in [F -> F]
  <2>1. ASSUME NEW f \in F, NEW s \in D PROVE SearchStep(entries, x, f, s) \in V
    <3>1. CASE s.l = s.r
      BY <3>1 DEF SearchStep
    <3>2. CASE s.l # s.r
      <4>1. f[low(s)] \in V /\ f[high(s)] \in V /\ entries[mid(s) + 1] \in V
        BY <1>2, <3>2
      <4> QED BY <3>2, <4>1, Zenon DEF SearchStep
    <3> QED BY <3>1, <3>2
  <2>2. ASSUME NEW f \in F PROVE [s \in D |-> SearchStep(entries, x, f, s)] \in F
    BY <2>1
  <2> HIDE DEF F
  <2> QED BY <2>2
<1>4. DependsOnSmaller(body, D, V, rank)
  <2>1. ASSUME NEW f \in F, NEW g \in F, NEW s \in D, \A t \in D : rank[t] < rank[s] => f[t] = g[t]
        PROVE  SearchStep(entries, x, f, s) = SearchStep(entries, x, g, s)
    <3>1. CASE s.l = s.r
      BY <3>1 DEF SearchStep
    <3>2. CASE s.l # s.r
      <4>1. f[low(s)] = g[low(s)] /\ f[high(s)] = g[high(s)]
        BY <1>2, <2>1, <3>2
      <4> QED BY <3>2, <4>1, Zenon DEF SearchStep
    <3> QED BY <3>1, <3>2
  <2>2. \A f \in F : \A s \in D : body[f][s] = SearchStep(entries, x, f, s)
    OBVIOUS
  <2> HIDE DEF body, rank, V, D
  <2> QED BY <2>1, <2>2 DEF DependsOnSmaller
<1>5. PICK f : Solves(f, D, V, body)
  <2> HIDE DEF body, rank, V, D
  <2> QED BY <1>1, <1>3, <1>4, MeasuredRecursion
<1>6. f = [s \in Ranges(Len(entries)) |-> SearchStep(entries, x, f, s)] /\ f \in F
  BY <1>5 DEF Solves
<1> DEFINE found == Search(entries, x)
<1>7. found = [s \in Ranges(Len(entries)) |-> SearchStep(entries, x, found, s)]
  BY <1>6, Zenon DEF Search, SearchStep
<1> HIDE DEF found
<1>8. found \in F
  <2> DEFINE S == {k \in Nat : \A s \in D : rank[s] = k => found[s] \in V}
  <2>1. \A k \in Nat : (\A j \in Nat : j < k => j \in S) => k \in S
    <3> SUFFICES ASSUME NEW k \in Nat, \A j \in Nat : j < k => j \in S, NEW s \in D, rank[s] = k
                 PROVE  found[s] \in V
      OBVIOUS
    <3>0. found[s] = SearchStep(entries, x, found, s)
      BY <1>7
    <3>1. CASE s.l = s.r
      BY <3>0, <3>1 DEF SearchStep
    <3>2. CASE s.l # s.r
      <4> HIDE DEF rank, D
      <4>1. rank[low(s)] \in Nat /\ rank[high(s)] \in Nat
        BY <1>1, <1>2, <3>2
      <4>2. found[low(s)] \in V /\ found[high(s)] \in V
        BY <1>2, <3>2, <4>1
      <4>3. entries[mid(s) + 1] \in V
        BY <1>2, <3>2
      <4> QED BY <3>0, <3>2, <4>2, <4>3, Zenon DEF SearchStep
    <3> QED BY <3>1, <3>2
  <2> HIDE DEF S
  <2>2. Nat \subseteq S
    BY <2>1, StrongInduction
  <2>3. \A s \in D : found[s] \in V
    BY <1>1, <2>2 DEF S
  <2> QED BY <1>7, <2>3
<1> QED BY <1>7, <1>8 DEF found

\* One step of the search in a range that is not empty.
Unfolds(entries, x, s) ==
    \E i \in s.l..(s.r - 1), low \in Ranges(Len(entries)), high \in Ranges(Len(entries)) :
       /\ i + 1 \in 1..Len(entries)
       /\ low.l = s.l /\ low.r = i /\ high.l = i + 1 /\ high.r = s.r
       /\ Search(entries, x)[s] = IF x < blocks[entries[i + 1]].start THEN Search(entries, x)[low]
                                  ELSE IF x >= blocks[entries[i + 1]].end THEN Search(entries, x)[high]
                                  ELSE entries[i + 1]

LEMMA SearchUnfolds ==
    ASSUME NEW entries \in Seq(Nat), NEW x, NEW s \in Ranges(Len(entries))
    PROVE  /\ s.l = s.r => Search(entries, x)[s] = 0
           /\ s.l # s.r => Unfolds(entries, x, s)
<1>1. Search(entries, x)[s] = SearchStep(entries, x, Search(entries, x), s)
  BY SearchEquation
<1> DEFINE found == Search(entries, x)
<1> HIDE DEF found
<1>2. CASE s.l = s.r
  BY <1>1, <1>2 DEF SearchStep, found
<1>3. CASE s.l # s.r
  <2> DEFINE i == (s.l + s.r) \div 2
             low == [s EXCEPT !.r = i]
             high == [s EXCEPT !.l = i + 1]
  <2>0. Len(entries) \in Nat
    OBVIOUS
  <2>1. /\ i \in s.l..(s.r - 1) /\ i + 1 \in 1..Len(entries)
        /\ low \in Ranges(Len(entries)) /\ high \in Ranges(Len(entries))
        /\ low.l = s.l /\ low.r = i /\ high.l = i + 1 /\ high.r = s.r
    BY <1>3, <2>0, Halves
  <2>2. found[s] = IF x < blocks[entries[i + 1]].start THEN found[low]
                   ELSE IF x >= blocks[entries[i + 1]].end THEN found[high]
                   ELSE entries[i + 1]
    BY <1>1, <1>3, Zenon DEF SearchStep, found
  <2> HIDE DEF i, low, high
  <2> QED BY <1>3, <2>1, <2>2 DEF found, Unfolds
<1> QED BY <1>2, <1>3

\* What it finds is an entry that contains x.
LEMMA SearchSound ==
    ASSUME NEW entries \in Seq(Nat), NEW x, NEW s \in Ranges(Len(entries))
    PROVE  \/ Search(entries, x)[s] = 0
           \/ \E i \in 1..Len(entries) :
                 /\ Search(entries, x)[s] = entries[i]
                 /\ ~(x < blocks[entries[i]].start) /\ ~(x >= blocks[entries[i]].end)
<1> DEFINE found == Search(entries, x)
           D == Ranges(Len(entries))
           Good(t) == \/ found[t] = 0
                      \/ \E i \in 1..Len(entries) :
                            /\ found[t] = entries[i]
                            /\ ~(x < blocks[entries[i]].start) /\ ~(x >= blocks[entries[i]].end)
           S == {k \in Nat : \A t \in D : t.r - t.l = k => Good(t)}
<1>0. \A t \in D : t.l \in Nat /\ t.r \in Nat /\ t.l <= t.r
  BY DEF Ranges
<1>1. \A k \in Nat : (\A j \in Nat : j < k => j \in S) => k \in S
  <2> SUFFICES ASSUME NEW k \in Nat, \A j \in Nat : j < k => j \in S, NEW t \in D, t.r - t.l = k
               PROVE  Good(t)
    OBVIOUS
  <2>1. CASE t.l = t.r
    BY <2>1, SearchUnfolds
  <2>2. CASE t.l # t.r
    <3>1. PICK i \in t.l..(t.r - 1), low \in D, high \in D :
             /\ i + 1 \in 1..Len(entries)
             /\ low.l = t.l /\ low.r = i /\ high.l = i + 1 /\ high.r = t.r
             /\ found[t] = IF x < blocks[entries[i + 1]].start THEN found[low]
                           ELSE IF x >= blocks[entries[i + 1]].end THEN found[high]
                           ELSE entries[i + 1]
      <4>1. Unfolds(entries, x, t)
        BY <2>2, SearchUnfolds
      <4> QED BY <4>1 DEF Unfolds
    <3>2. /\ low.r - low.l \in Nat /\ low.r - low.l < k
          /\ high.r - high.l \in Nat /\ high.r - high.l < k
      <4>1. t.l \in Nat /\ t.r \in Nat /\ low.l <= low.r /\ high.l <= high.r
        BY <1>0
      <4>2. low.l = t.l /\ low.r = i /\ high.l = i + 1 /\ high.r = t.r /\ i \in t.l..(t.r - 1)
        BY <3>1
      <4> DEFINE a == t.l
                 b == t.r
      <4>3. a \in Nat /\ b \in Nat /\ i \in a..(b - 1) /\ b - a = k /\ i + 1 <= b
        BY <4>1, <4>2
      <4> HIDE DEF a, b
      <4>4. i - a \in Nat /\ i - a < k /\ b - (i + 1) \in Nat /\ b - (i + 1) < k
        BY <4>3
      <4> QED BY <4>2, <4>4 DEF a, b
    <3>3. Good(low) /\ Good(high)
      BY <3>2
    <3> QED BY <3>1, <3>3
  <2> QED BY <2>1, <2>2
<1> HIDE DEF S
<1>2. Nat \subseteq S
  BY <1>1, StrongInduction
<1>3. s.r - s.l \in Nat
  BY <1>0
<1> QED BY <1>2, <1>3 DEF S

\* The entries are in order and do not overlap.
Sorted(entries) ==
    /\ \A i \in 1..Len(entries) : blocks[entries[i]] \in Entries
                                  /\ blocks[entries[i]].start <= blocks[entries[i]].end
    /\ \A i, j \in 1..Len(entries) : i < j => blocks[entries[i]].end <= blocks[entries[j]].start

\* Then it finds the entry that contains x.
LEMMA SearchComplete ==
    ASSUME NEW entries \in Seq(Nat), Sorted(entries), NEW x \in Nat,
           NEW k \in 1..Len(entries), blocks[entries[k]].start <= x, x < blocks[entries[k]].end,
           NEW s \in Ranges(Len(entries)), s.l < k, k <= s.r
    PROVE  Search(entries, x)[s] = entries[k]
<1> DEFINE found == Search(entries, x)
           D == Ranges(Len(entries))
           Good(t) == t.l < k /\ k <= t.r => found[t] = entries[k]
           S == {n \in Nat : \A t \in D : t.r - t.l = n => Good(t)}
<1>0. \A t \in D : t.l \in Nat /\ t.r \in Nat /\ t.l <= t.r
  BY DEF Ranges
<1>1. ASSUME NEW i \in 1..Len(entries)
      PROVE  /\ blocks[entries[i]].start \in Nat /\ blocks[entries[i]].end \in Nat
             /\ blocks[entries[i]].start <= blocks[entries[i]].end
             /\ i < k => blocks[entries[i]].end <= x
             /\ k < i => x < blocks[entries[i]].start
  <2>1. \A j \in 1..Len(entries) : /\ blocks[entries[j]].start \in Nat /\ blocks[entries[j]].end \in Nat
                                   /\ blocks[entries[j]].start <= blocks[entries[j]].end
    BY DEF Sorted, Entries
  <2>2. i < k => blocks[entries[i]].end <= blocks[entries[k]].start
    BY DEF Sorted
  <2>3. k < i => blocks[entries[k]].end <= blocks[entries[i]].start
    BY DEF Sorted
  <2> DEFINE a == blocks[entries[i]].start
             b == blocks[entries[i]].end
             c == blocks[entries[k]].start
             d == blocks[entries[k]].end
  <2>4. a \in Nat /\ b \in Nat /\ a <= b /\ c \in Nat /\ d \in Nat /\ c <= x /\ x < d
    BY <2>1
  <2>5. (i < k => b <= c) /\ (k < i => d <= a)
    BY <2>2, <2>3
  <2> HIDE DEF a, b, c, d
  <2>6. (i < k => b <= x) /\ (k < i => x < a)
    BY <2>4, <2>5
  <2> QED BY <2>4, <2>6 DEF a, b, c, d
<1>2. \A n \in Nat : (\A j \in Nat : j < n => j \in S) => n \in S
  <2> SUFFICES ASSUME NEW n \in Nat, \A j \in Nat : j < n => j \in S,
                      NEW t \in D, t.r - t.l = n, t.l < k, k <= t.r
               PROVE  found[t] = entries[k]
    OBVIOUS
  <2>1. PICK i \in t.l..(t.r - 1), low \in D, high \in D :
           /\ i + 1 \in 1..Len(entries)
           /\ low.l = t.l /\ low.r = i /\ high.l = i + 1 /\ high.r = t.r
           /\ found[t] = IF x < blocks[entries[i + 1]].start THEN found[low]
                         ELSE IF x >= blocks[entries[i + 1]].end THEN found[high]
                         ELSE entries[i + 1]
    <3>1. t.l # t.r
      BY <1>0
    <3>2. Unfolds(entries, x, t)
      BY <3>1, SearchUnfolds
    <3> QED BY <3>2 DEF Unfolds
  <2>2. /\ low.r - low.l \in Nat /\ low.r - low.l < n
        /\ high.r - high.l \in Nat /\ high.r - high.l < n
    <3>1. t.l \in Nat /\ t.r \in Nat /\ low.l <= low.r /\ high.l <= high.r
      BY <1>0
    <3>2. low.l = t.l /\ low.r = i /\ high.l = i + 1 /\ high.r = t.r /\ i \in t.l..(t.r - 1)
      BY <2>1
    <3> HIDE DEF found, D, S
    <3> DEFINE a == t.l
               b == t.r
    <3>3. a \in Nat /\ b \in Nat /\ i \in a..(b - 1) /\ b - a = n /\ i + 1 <= b
      BY <3>1, <3>2
    <3> HIDE DEF a, b
    <3>4. i - a \in Nat /\ i - a < n /\ b - (i + 1) \in Nat /\ b - (i + 1) < n
      BY <3>3
    <3> QED BY <3>2, <3>4 DEF a, b
  <2>3. Good(low) /\ Good(high)
    BY <2>2
  <2> DEFINE b == blocks[entries[i + 1]]
  <2>4. /\ b.start \in Nat /\ b.end \in Nat /\ b.start <= b.end
        /\ i + 1 < k => b.end <= x
        /\ k < i + 1 => x < b.start
        /\ k = i + 1 => b.start <= x /\ x < b.end
    BY <1>1, <2>1
  <2>5. found[t] = IF x < b.start THEN found[low] ELSE IF x >= b.end THEN found[high] ELSE entries[i + 1]
    BY <2>1
  <2> HIDE DEF b, found
  <2>6. CASE k < i + 1
    <3>1. low.l < k /\ k <= low.r
      BY <2>1, <2>6
    <3> QED BY <2>3, <2>4, <2>5, <2>6, <3>1
  <2>7. CASE i + 1 < k
    <3>1. high.l < k /\ k <= high.r
      BY <2>1, <2>7
    <3> QED BY <2>3, <2>4, <2>5, <2>7, <3>1
  <2>8. CASE k = i + 1
    BY <2>4, <2>5, <2>8
  <2>9. i \in Nat
    BY <1>0, <2>1
  <2> QED BY <2>6, <2>7, <2>8, <2>9
<1> HIDE DEF S
<1>3. Nat \subseteq S
  BY <1>2, StrongInduction
<1>4. s.r - s.l \in Nat
  BY <1>0
<1> QED BY <1>3, <1>4 DEF S

-----------------------------------------------------------------------------
(* The instructions translate() decodes *)

LEMMA ImageSizeIsNumber == ImageSize \in Nat
<1>1. PageSize \in Nat /\ NumPages \in Nat
  BY PagesAssumption
<1> QED BY <1>1, SMTT(30) DEF ImageSize

LEMMA DecodedSize ==
    ASSUME NEW x, Decodes(x)
    PROVE  /\ x \in Address /\ x \in Nat /\ Size[x] \in Nat /\ Size[x] > 0
           /\ x + Size[x] \in Nat /\ x + Size[x] <= ImageSize /\ x < ImageSize
<1>1. x \in Address /\ Size[x] > 0 /\ x + Size[x] <= ImageSize
  BY DEF Decodes
<1>2. ImageSize \in Nat
  BY ImageSizeIsNumber
<1>3. Size[x] \in Nat
  BY <1>1, SizeAssumption
<1> QED BY <1>1, <1>2, <1>3 DEF Address

StraightStep(b, from, y) ==
    IF Stops(y, b) THEN << >>
    ELSE IF ~Decodes(y) THEN << Undecodable >>
    ELSE IF y \in EndsBlock THEN << y >>
    ELSE << y >> \o from[y + Size[y]]

\* s are instructions that follow each other from y on to one with eob or to
\* where b starts.
ChainFrom(s, y, b) ==
    /\ s \in Seq(Address)
    /\ IF s = << >> THEN Stops(y, b)
       ELSE /\ s[1] = y
            /\ \A i \in 1..Len(s) : Decodes(s[i]) /\ ~Stops(s[i], b)
            /\ \A i \in 1..(Len(s) - 1) : s[i] \notin EndsBlock /\ s[i + 1] = s[i] + Size[s[i]]
            /\ s[Len(s)] \notin EndsBlock => Stops(s[Len(s)] + Size[s[Len(s)]], b)

LEMMA ChainOne ==
    ASSUME NEW b, NEW y, Decodes(y), ~Stops(y, b), y \in EndsBlock
    PROVE  ChainFrom(<< y >>, y, b)
<1>1. y \in Address
  BY DecodedSize
<1> DEFINE s == << y >>
<1>2. s \in Seq(Address) /\ s # << >> /\ Len(s) = 1 /\ s[1] = y
  BY <1>1
<1> HIDE DEF s
<1> QED BY <1>2 DEF ChainFrom, s

LEMMA ChainCons ==
    ASSUME NEW b, NEW y, Decodes(y), ~Stops(y, b), y \notin EndsBlock,
           NEW t, ChainFrom(t, y + Size[y], b)
    PROVE  ChainFrom(<< y >> \o t, y, b)
<1>1. y \in Address /\ t \in Seq(Address)
  BY DecodedSize DEF ChainFrom
<1> DEFINE s == << y >> \o t
           z == y + Size[y]
           n == Len(t)
<1>2. /\ s \in Seq(Address) /\ s # << >> /\ n \in Nat /\ Len(s) = n + 1 /\ s[1] = y
      /\ \A i \in 1..n : s[i + 1] = t[i]
  BY <1>1
<1>3. CASE t = << >>
  <2>1. n = 0 /\ Stops(z, b)
    BY <1>3 DEF ChainFrom
  <2> HIDE DEF s
  <2> QED BY <1>2, <2>1 DEF ChainFrom, s
<1>4. CASE t # << >>
  <2>1. /\ n >= 1 /\ t[1] = z
        /\ \A i \in 1..n : Decodes(t[i]) /\ ~Stops(t[i], b)
        /\ \A i \in 1..(n - 1) : t[i] \notin EndsBlock /\ t[i + 1] = t[i] + Size[t[i]]
        /\ t[n] \notin EndsBlock => Stops(t[n] + Size[t[n]], b)
    BY <1>1, <1>4 DEF ChainFrom
  <2> HIDE DEF s, n, z
  <2>2. ASSUME NEW i \in 1..(n + 1) PROVE Decodes(s[i]) /\ ~Stops(s[i], b)
    <3>1. CASE i = 1
      BY <1>2, <3>1
    <3>2. CASE i # 1
      <4>1. i - 1 \in 1..n /\ (i - 1) + 1 = i
        BY <1>2, <3>2
      <4>2. s[i] = t[i - 1]
        BY <1>2, <4>1
      <4> QED BY <2>1, <4>1, <4>2
    <3> QED BY <3>1, <3>2
  <2>3. ASSUME NEW i \in 1..n PROVE s[i] \notin EndsBlock /\ s[i + 1] = s[i] + Size[s[i]]
    <3>1. CASE i = 1
      <4>1. s[i + 1] = t[1]
        BY <1>2, <3>1
      <4> QED BY <1>2, <2>1, <3>1, <4>1 DEF z
    <3>2. CASE i # 1
      <4>1. i - 1 \in 1..(n - 1) /\ i - 1 \in 1..n /\ (i - 1) + 1 = i
        BY <1>2, <3>2
      <4>2. s[i] = t[i - 1] /\ s[i + 1] = t[i]
        BY <1>2, <4>1
      <4> QED BY <2>1, <4>1, <4>2
    <3> QED BY <3>1, <3>2
  <2>4. s[n + 1] = t[n]
    BY <1>2, <2>1
  <2>5. (n + 1) - 1 = n
    BY <1>2
  <2> QED BY <1>2, <2>1, <2>2, <2>3, <2>4, <2>5 DEF ChainFrom, s
<1> QED BY <1>3, <1>4

\* Straight is the solution of its recursion,
LEMMA StraightEquation ==
    ASSUME NEW x \in Address, NEW b
    PROVE  \E f : /\ f \in [0..ImageSize -> Seq(0..ImageSize)]
                  /\ f = [y \in 0..ImageSize |-> StraightStep(b, f, y)]
                  /\ Straight(x, b) = f[x]
<1> DEFINE D == 0..ImageSize
           V == Seq(0..ImageSize)
           F == [D -> V]
           rank == [y \in D |-> ImageSize - y]
           body == [f \in F |-> [y \in D |-> StraightStep(b, f, y)]]
<1>0. ImageSize \in Nat
  BY ImageSizeIsNumber
<1>1. rank \in [D -> Nat] /\ V # {}
  <2>1. << >> \in V
    OBVIOUS
  <2>2. \A y \in D : ImageSize - y \in Nat
    BY <1>0
  <2> HIDE DEF V, D
  <2> QED BY <2>1, <2>2
<1>2. ASSUME NEW y \in D, Decodes(y)
      PROVE  y + Size[y] \in D /\ rank[y + Size[y]] < rank[y]
  BY <1>0, <1>2, DecodedSize
<1>3. body \in [F -> F]
  <2>1. ASSUME NEW f \in F, NEW y \in D PROVE StraightStep(b, f, y) \in V
    <3>1. << >> \in V /\ << Undecodable >> \in V /\ << y >> \in V
      BY <1>0 DEF Undecodable
    <3>2. CASE Decodes(y)
      <4>1. f[y + Size[y]] \in V
        BY <1>2, <3>2
      <4>2. << y >> \o f[y + Size[y]] \in V
        BY <3>1, <4>1
      <4> HIDE DEF V
      <4> QED BY <3>1, <3>2, <4>2 DEF StraightStep
    <3>3. CASE ~Decodes(y)
      <4> HIDE DEF V
      <4> QED BY <3>1, <3>3 DEF StraightStep
    <3> QED BY <3>2, <3>3
  <2>2. ASSUME NEW f \in F PROVE [y \in D |-> StraightStep(b, f, y)] \in F
    BY <2>1
  <2> HIDE DEF F
  <2> QED BY <2>2
<1>4. DependsOnSmaller(body, D, V, rank)
  <2>1. ASSUME NEW f \in F, NEW g \in F, NEW y \in D, \A z \in D : rank[z] < rank[y] => f[z] = g[z]
        PROVE  StraightStep(b, f, y) = StraightStep(b, g, y)
    <3>1. CASE Decodes(y)
      <4>1. f[y + Size[y]] = g[y + Size[y]]
        BY <1>2, <2>1, <3>1
      <4> QED BY <3>1, <4>1, Zenon DEF StraightStep
    <3>2. CASE ~Decodes(y)
      BY <3>2, Zenon DEF StraightStep
    <3> QED BY <3>1, <3>2
  <2>2. \A f \in F : \A y \in D : body[f][y] = StraightStep(b, f, y)
    OBVIOUS
  <2> HIDE DEF body, rank, V, D
  <2> QED BY <2>1, <2>2 DEF DependsOnSmaller
<1>5. PICK f : Solves(f, D, V, body)
  <2> HIDE DEF body, rank, V, D
  <2> QED BY <1>1, <1>3, <1>4, MeasuredRecursion
<1>6. f = [y \in D |-> StraightStep(b, f, y)] /\ f \in F
  BY <1>5 DEF Solves
<1> DEFINE from == CHOOSE g : g = [y \in D |-> StraightStep(b, g, y)]
<1>7. from = [y \in D |-> StraightStep(b, from, y)]
  BY <1>6, Zenon
<1>8. Straight(x, b) = from[x]
  BY Zenon DEF Straight, StraightStep
<1> HIDE DEF from
<1>9. from \in F
  <2> DEFINE S == {k \in Nat : \A y \in D : rank[y] = k => from[y] \in V}
  <2>1. \A k \in Nat : (\A j \in Nat : j < k => j \in S) => k \in S
    <3> SUFFICES ASSUME NEW k \in Nat, \A j \in Nat : j < k => j \in S, NEW y \in D, rank[y] = k
                 PROVE  from[y] \in V
      OBVIOUS
    <3>0. from[y] = StraightStep(b, from, y)
      BY <1>7
    <3>1. << >> \in V /\ << Undecodable >> \in V /\ << y >> \in V
      BY <1>0 DEF Undecodable
    <3>2. CASE Decodes(y)
      <4>1. rank[y + Size[y]] \in Nat /\ rank[y + Size[y]] < k /\ y + Size[y] \in D
        BY <1>1, <1>2, <3>2
      <4>2. from[y + Size[y]] \in V
        <5> HIDE DEF rank, D, V
        <5> QED BY <4>1
      <4>3. << y >> \o from[y + Size[y]] \in V
        BY <3>1, <4>2
      <4> HIDE DEF V
      <4> QED BY <3>0, <3>1, <3>2, <4>3 DEF StraightStep
    <3>3. CASE ~Decodes(y)
      <4> HIDE DEF V
      <4> QED BY <3>0, <3>1, <3>3 DEF StraightStep
    <3> QED BY <3>2, <3>3
  <2> HIDE DEF S
  <2>2. Nat \subseteq S
    BY <2>1, StrongInduction
  <2>3. \A y \in D : from[y] \in V
    BY <1>1, <2>2 DEF S
  <2> QED BY <1>7, <2>3
<1> QED BY <1>7, <1>8, <1>9

\* and where every instruction decodes it is such a sequence.
LEMMA StraightChains ==
    ASSUME NEW x \in Address, NEW b, Undecodable \notin ToSet(Straight(x, b))
    PROVE  ChainFrom(Straight(x, b), x, b)
<1>0. ImageSize \in Nat
  BY ImageSizeIsNumber
<1>1. PICK f : /\ f \in [0..ImageSize -> Seq(0..ImageSize)]
               /\ f = [y \in 0..ImageSize |-> StraightStep(b, f, y)]
               /\ Straight(x, b) = f[x]
  BY StraightEquation
<1> DEFINE D == 0..ImageSize
           Good(y) == Undecodable \in ToSet(f[y]) \/ ChainFrom(f[y], y, b)
           S == {k \in Nat : \A y \in D : ImageSize - y = k => Good(y)}
<1>2. \A k \in Nat : (\A j \in Nat : j < k => j \in S) => k \in S
  <2> SUFFICES ASSUME NEW k \in Nat, \A j \in Nat : j < k => j \in S, NEW y \in D, ImageSize - y = k
               PROVE  Good(y)
    OBVIOUS
  <2>0. f[y] = StraightStep(b, f, y)
    BY <1>1
  <2>1. CASE Stops(y, b)
    <3>1. f[y] = << >>
      BY <2>0, <2>1 DEF StraightStep
    <3>2. << >> \in Seq(Address)
      OBVIOUS
    <3> QED BY <2>1, <3>1, <3>2 DEF ChainFrom
  <2>2. CASE ~Stops(y, b) /\ ~Decodes(y)
    <3>1. f[y] = << Undecodable >>
      BY <2>0, <2>2 DEF StraightStep
    <3>2. << Undecodable >>[1] = Undecodable /\ 1 \in DOMAIN << Undecodable >>
      OBVIOUS
    <3> QED BY <3>1, <3>2 DEF ToSet
  <2>3. CASE ~Stops(y, b) /\ Decodes(y) /\ y \in EndsBlock
    <3>1. f[y] = << y >>
      BY <2>0, <2>3 DEF StraightStep
    <3> QED BY <2>3, <3>1, ChainOne
  <2>4. CASE ~Stops(y, b) /\ Decodes(y) /\ y \notin EndsBlock
    <3> DEFINE z == y + Size[y]
    <3>1. f[y] = << y >> \o f[z]
      BY <2>0, <2>4 DEF StraightStep
    <3>2. z \in D /\ ImageSize - z \in Nat /\ ImageSize - z < k
      BY <1>0, <2>4, DecodedSize
    <3>3. Good(z)
      <4> HIDE DEF z, Good, D
      <4> QED BY <3>2
    <3>4. f[z] \in Seq(0..ImageSize)
      <4> HIDE DEF z
      <4> QED BY <1>1, <3>2
    <3>5. CASE Undecodable \in ToSet(f[z])
      <4>1. PICK i \in DOMAIN f[z] : f[z][i] = Undecodable
        BY <3>5 DEF ToSet
      <4> DEFINE t == f[z]
      <4> HIDE DEF t
      <4>2. t \in Seq(0..ImageSize) /\ i \in 1..Len(t) /\ t[i] = Undecodable
        BY <3>4, <4>1 DEF t
      <4>3. i + 1 \in DOMAIN (<< y >> \o t) /\ (<< y >> \o t)[i + 1] = Undecodable
        <5>1. << y >> \in Seq(0..ImageSize) /\ Len(<< y >>) = 1
          OBVIOUS
        <5>2. /\ << y >> \o t \in Seq(0..ImageSize) /\ Len(<< y >> \o t) = 1 + Len(t)
              /\ (<< y >> \o t)[i + 1] = t[i]
          BY <4>2, <5>1
        <5> QED BY <4>2, <5>2
      <4> QED BY <3>1, <4>3 DEF ToSet, t
    <3>6. CASE ChainFrom(f[z], z, b)
      BY <2>4, <3>1, <3>6, ChainCons
    <3> QED BY <3>3, <3>5, <3>6
  <2> QED BY <2>1, <2>2, <2>3, <2>4
<1> HIDE DEF S
<1>3. Nat \subseteq S
  BY <1>2, StrongInduction
<1>4. x \in D /\ ImageSize - x \in Nat
  BY <1>0 DEF Address
<1>5. Good(x)
  BY <1>3, <1>4 DEF S
<1> QED BY <1>1, <1>5

\* Where the guest first meets code, from an instruction on.
FirstStep(first, x) == IF Decodes(x) /\ Riscv[x] = 0 THEN first[x + Size[x]] ELSE x

LEMMA FirstCodeEquation == FirstCode = [x \in 0..ImageSize |-> FirstStep(FirstCode, x)]
<1> DEFINE D == 0..ImageSize
           F == [D -> D]
           rank == [x \in D |-> ImageSize - x]
           body == [f \in F |-> [x \in D |-> FirstStep(f, x)]]
<1>0. ImageSize \in Nat
  BY ImageSizeIsNumber
<1>1. rank \in [D -> Nat] /\ D # {}
  <2>1. 0 \in D
    BY <1>0
  <2>2. \A x \in D : ImageSize - x \in Nat
    BY <1>0
  <2> HIDE DEF D
  <2> QED BY <2>1, <2>2
<1>2. ASSUME NEW x \in D, Decodes(x)
      PROVE  x + Size[x] \in D /\ rank[x + Size[x]] < rank[x]
  BY <1>0, <1>2, DecodedSize
<1>3. body \in [F -> F]
  <2>1. ASSUME NEW f \in F, NEW x \in D PROVE FirstStep(f, x) \in D
    <3>1. CASE Decodes(x)
      <4>1. x + Size[x] \in D
        BY <1>2, <3>1
      <4>2. f[x + Size[x]] \in D
        BY <4>1
      <4> HIDE DEF D
      <4> QED BY <4>2 DEF FirstStep
    <3>2. CASE ~Decodes(x)
      <4> HIDE DEF D
      <4> QED BY <3>2 DEF FirstStep
    <3> QED BY <3>1, <3>2
  <2>2. ASSUME NEW f \in F PROVE [x \in D |-> FirstStep(f, x)] \in F
    BY <2>1
  <2> HIDE DEF F
  <2> QED BY <2>2
<1>4. DependsOnSmaller(body, D, D, rank)
  <2>1. ASSUME NEW f \in F, NEW g \in F, NEW x \in D, \A z \in D : rank[z] < rank[x] => f[z] = g[z]
        PROVE  FirstStep(f, x) = FirstStep(g, x)
    <3>1. CASE Decodes(x)
      <4>1. f[x + Size[x]] = g[x + Size[x]]
        BY <1>2, <2>1, <3>1
      <4> QED BY <4>1, Zenon DEF FirstStep
    <3>2. CASE ~Decodes(x)
      BY <3>2, Zenon DEF FirstStep
    <3> QED BY <3>1, <3>2
  <2>2. \A f \in F : \A x \in D : body[f][x] = FirstStep(f, x)
    OBVIOUS
  <2> HIDE DEF body, rank, D
  <2> QED BY <2>1, <2>2 DEF DependsOnSmaller
<1>5. PICK f : Solves(f, D, D, body)
  <2> HIDE DEF body, rank, D
  <2> QED BY <1>1, <1>3, <1>4, MeasuredRecursion
<1>6. f = [x \in D |-> FirstStep(f, x)]
  BY <1>5 DEF Solves
<1> QED BY <1>6, Zenon DEF FirstCode, FirstStep

LEMMA FirstCodeFrom ==
    ASSUME NEW x, Decodes(x), Riscv[x] = 0
    PROVE  FirstCode[x] = FirstCode[x + Size[x]]
<1>1. x \in 0..ImageSize
  BY DecodedSize, ImageSizeIsNumber
<1>2. FirstCode[x] = FirstStep(FirstCode, x)
  BY <1>1, FirstCodeEquation
<1> QED BY <1>2 DEF FirstStep

-----------------------------------------------------------------------------
(* What the lists hold of a block *)

\* The batch of the instruction at x lies at h.
Held(m, h, x) == \A k \in 1..Riscv[x] : /\ h + k - 1 \in 1..Len(m)
                                        /\ m[h + k - 1].of = x
                                        /\ m[h + k - 1].nth = k

\* The i-th instruction of a block whose instructions start at at.
Translated(at, i, C) ==
    /\ Decodes(at[i].x86) /\ at[i + 1].x86 = at[i].x86 + Size[at[i].x86]
    /\ at[i].riscv + Riscv[at[i].x86] <= at[i + 1].riscv
    /\ Held(C.memory, at[i].riscv, at[i].x86)

\* Control falls from the i-th instruction into the next.
Falls(at, i) == at[i].x86 \notin EndsBlock /\ at[i + 1].riscv = at[i].riscv + Riscv[at[i].x86]

\* Block e has instructions, and lists C and O hold all of them.
Whole(e, C, O) ==
    LET at == StartsOf(e, O.memory)
    IN /\ e.count # 0 /\ 2 <= e.offsets /\ e.offsets + e.count <= O.next
       /\ 2 <= e.riscv /\ at[e.count + 1].x86 = e.end
       /\ \A i \in 1..(e.count + 1) : e.riscv <= at[i].riscv /\ at[i].riscv <= C.next
       /\ \A i \in 1..e.count : Translated(at, i, C)
       /\ \A i \in 1..(e.count - 1) : Falls(at, i)

\* Block e is the last section of both lists, or still empty.
AtEnd(e, C, O) ==
    IF e.count = 0 THEN e.riscv = 0 /\ e.offsets = 0
    ELSE LET at == StartsOf(e, O.memory)
         IN /\ Whole(e, C, O) /\ Falls(at, e.count)
            /\ at[e.count + 1].riscv = C.next /\ e.offsets + e.count = O.next

LEMMA ListBounds ==
    ASSUME NEW W, NEW l, ListOK(l, W)
    PROVE  /\ l.memory \in Seq(W) /\ Len(l.memory) \in Nat /\ l.next \in Nat
           /\ l.next <= Len(l.memory) + 1
<1>1. l.memory \in Seq(W) /\ l.next \in Nat /\ l.left \in Nat /\ Len(l.memory) \in Nat
  BY DEF ListOK, Lists
<1> QED BY <1>1 DEF ListOK

LEMMA RiscvSize ==
    ASSUME NEW x \in Address
    PROVE  Riscv[x] \in Nat /\ (x \in EndsBlock => Riscv[x] > 0)
  BY RiscvAssumption

LEMMA WholeSizes ==
    ASSUME NEW e \in Entries, NEW C, NEW O, ListOK(O, Places), Whole(e, C, O)
    PROVE  SizesIn(e, O.memory)
<1>1. O.memory \in Seq(Places) /\ Len(O.memory) \in Nat /\ O.next \in Nat /\ O.next <= Len(O.memory) + 1
  BY ListBounds
<1>2. e.offsets \in Nat /\ e.count \in Nat
  BY DEF Entries
<1>3. 2 <= e.offsets /\ e.offsets + e.count <= O.next
  BY DEF Whole
<1>4. e.offsets # 0 /\ e.offsets + e.count - 1 <= Len(O.memory)
  <2> DEFINE first == e.offsets
             n == e.count
             top == O.next
             last == Len(O.memory)
  <2>1. /\ first \in Nat /\ n \in Nat /\ top \in Nat /\ last \in Nat
        /\ 2 <= first /\ first + n <= top /\ top <= last + 1
    BY <1>1, <1>2, <1>3
  <2> HIDE DEF first, n, top, last
  <2>2. first # 0 /\ first + n - 1 <= last
    BY <2>1
  <2> QED BY <2>2 DEF first, n, last
<1> QED BY <1>1, <1>4 DEF SizesIn

\* What was whole stays whole, at the same places, while the lists grow.
LEMMA WholeStays ==
    ASSUME NEW e \in Entries, NEW C, ListOK(C, Word), NEW O, ListOK(O, Places), Whole(e, C, O),
           NEW C2, ListOK(C2, Word), Grown(C, C2), NEW O2, ListOK(O2, Places), Grown(O, O2)
    PROVE  Whole(e, C2, O2) /\ StartsOf(e, O2.memory) = StartsOf(e, O.memory)
<1> DEFINE at == StartsOf(e, O.memory)
           at2 == StartsOf(e, O2.memory)
           n == e.count
<1>1. /\ n \in Nat /\ n # 0 /\ e.offsets \in Nat /\ e.riscv \in Nat
      /\ 2 <= e.offsets /\ e.offsets + n <= O.next /\ 2 <= e.riscv /\ at[n + 1].x86 = e.end
      /\ \A i \in 1..(n + 1) : e.riscv <= at[i].riscv /\ at[i].riscv <= C.next
      /\ \A i \in 1..n : Translated(at, i, C)
      /\ \A i \in 1..(n - 1) : Falls(at, i)
  BY DEF Whole, Entries
<1>2. /\ C.next \in Nat /\ C2.next \in Nat /\ C.next <= C2.next /\ C2.next <= Len(C2.memory) + 1
      /\ Len(C2.memory) \in Nat /\ \A j \in 1..(C.next - 1) : C2.memory[j] = C.memory[j]
  BY ListBounds DEF Grown
<1>3. /\ O.next \in Nat /\ O2.next \in Nat /\ O.next <= O2.next /\ O2.next <= Len(O2.memory) + 1
      /\ O2.memory \in Seq(Places) /\ Len(O2.memory) \in Nat
      /\ \A j \in 1..(O.next - 1) : O2.memory[j] = O.memory[j]
  BY ListBounds DEF Grown
<1>4. SizesIn(e, O.memory)
  BY WholeSizes
<1>5. SizesIn(e, O2.memory)
  <2> DEFINE first == e.offsets
             top == O.next
             top2 == O2.next
             last == Len(O2.memory)
  <2>1. /\ first \in Nat /\ n \in Nat /\ top \in Nat /\ top2 \in Nat /\ last \in Nat
        /\ 2 <= first /\ first + n <= top /\ top <= top2 /\ top2 <= last + 1
    BY <1>1, <1>3
  <2> HIDE DEF first, n, top, top2, last
  <2>2. first # 0 /\ first + n - 1 <= last
    BY <2>1
  <2> QED BY <1>3, <2>2 DEF SizesIn, first, n, last
<1>6. \A i \in 1..n : O2.memory[e.offsets + i - 1] = O.memory[e.offsets + i - 1]
  <2> SUFFICES ASSUME NEW i \in 1..n PROVE O2.memory[e.offsets + i - 1] = O.memory[e.offsets + i - 1]
    OBVIOUS
  <2>1. e.offsets + i - 1 \in 1..(O.next - 1)
    <3> DEFINE first == e.offsets
               top == O.next
    <3>1. first \in Nat /\ n \in Nat /\ top \in Nat /\ 2 <= first /\ first + n <= top
      BY <1>1, <1>3
    <3> HIDE DEF first, n, top
    <3>2. first + i - 1 \in 1..(top - 1)
      BY <3>1
    <3> QED BY <3>2 DEF first, top
  <2> QED BY <1>3, <2>1
<1>7. \A i \in 1..(n + 1) : at2[i].x86 = at[i].x86 /\ at2[i].riscv + e.riscv = at[i].riscv + e.riscv
  <2>1. n <= e.count /\ SameSizes(e, O.memory, e, O2.memory, n)
    BY <1>1, <1>6 DEF SameSizes
  <2> HIDE DEF n
  <2>2. Shifted(e, O.memory, e, O2.memory, n)
    BY <1>1, <1>4, <1>5, <2>1, StartsShift
  <2> QED BY <2>2 DEF Shifted
<1>8. at \in [1..(n + 1) -> Places] /\ at2 \in [1..(n + 1) -> Places]
  BY <1>4, <1>5, StartsEquation DEF StartsFollow
<1> HIDE DEF at, at2, n
<1>9. ASSUME NEW i \in 1..(n + 1) PROVE at2[i] = at[i]
  <2>1. at2[i] \in Places /\ at[i] \in Places
    BY <1>8
  <2>2. at2[i].riscv = at[i].riscv
    BY <1>1, <1>7, <2>1 DEF Places
  <2> QED BY <1>7, <2>1, <2>2 DEF Places
<1>10. at2 = at
  <2> DEFINE D == 1..(n + 1)
  <2>1. at \in [D -> Places] /\ at2 \in [D -> Places] /\ \A i \in D : at2[i] = at[i]
    BY <1>8, <1>9
  <2> HIDE DEF D
  <2> QED BY <2>1
<1>11. ASSUME NEW i \in 1..n PROVE Translated(at, i, C2)
  <2> DEFINE x == at[i].x86
             h == at[i].riscv
  <2>1. i \in 1..(n + 1) /\ i + 1 \in 1..(n + 1)
    BY <1>1
  <2>2. h \in Nat /\ at[i + 1].riscv \in Nat
    <3>1. at[i] \in Places /\ at[i + 1] \in Places
      BY <1>8, <2>1
    <3> QED BY <3>1 DEF Places
  <2>3. /\ Decodes(x) /\ at[i + 1].x86 = x + Size[x] /\ h + Riscv[x] <= at[i + 1].riscv
        /\ Held(C.memory, h, x)
    BY <1>1 DEF Translated
  <2>4. at[i + 1].riscv <= C.next
    BY <1>1, <2>1
  <2>5. Riscv[x] \in Nat
    BY <2>3, DecodedSize, RiscvSize
  <2>6. h >= 2
    BY <1>1, <2>1, <2>2
  <2> HIDE DEF x, h
  <2>7. ASSUME NEW k \in 1..Riscv[x]
        PROVE  h + k - 1 \in 1..Len(C2.memory) /\ C2.memory[h + k - 1] = C.memory[h + k - 1]
    <3>1. h + k - 1 \in 1..(C.next - 1)
      BY <1>2, <2>2, <2>3, <2>4, <2>5, <2>6
    <3>2. h + k - 1 \in 1..Len(C2.memory)
      BY <1>2, <3>1
    <3> QED BY <1>2, <3>1, <3>2
  <2>8. Held(C2.memory, h, x)
    BY <2>3, <2>7 DEF Held
  <2> QED BY <2>3, <2>8 DEF Translated, x, h
<1>12. \A i \in 1..(n + 1) : e.riscv <= at[i].riscv /\ at[i].riscv <= C2.next
  <2> SUFFICES ASSUME NEW i \in 1..(n + 1) PROVE e.riscv <= at[i].riscv /\ at[i].riscv <= C2.next
    OBVIOUS
  <2>1. at[i].riscv \in Nat
    <3>1. at[i] \in Places
      BY <1>8
    <3> QED BY <3>1 DEF Places
  <2> QED BY <1>1, <1>2, <2>1
<1>13. e.offsets + n <= O2.next
  BY <1>1, <1>3
<1>14. Whole(e, C2, O2)
  BY <1>1, <1>10, <1>11, <1>12, <1>13 DEF Whole, at, at2, n
<1> QED BY <1>10, <1>14 DEF at, at2

\* An unfinished block's sections are the last of the lists.
LEMMA SectionsAtEnd ==
    ASSUME NEW e \in Entries, NEW C, ListOK(C, Word), NEW O, ListOK(O, Places), AtEnd(e, C, O)
    PROVE  /\ SectionAt(e.riscv, C) /\ SectionAt(e.offsets, O)
           /\ SectionSize(O, e.offsets) = e.count
           /\ SectionSize(C, e.riscv) = IF e.count = 0 THEN 0 ELSE C.next - e.riscv
           /\ SectionSize(C, e.riscv) \in Nat
<1>1. e.count \in Nat /\ e.riscv \in Nat /\ e.offsets \in Nat
  BY DEF Entries
<1>2. C.next \in Nat /\ O.next \in Nat
  BY ListBounds
<1>3. CASE e.count = 0
  BY <1>3 DEF AtEnd, SectionAt, SectionSize
<1>4. CASE e.count # 0
  <2> DEFINE at == StartsOf(e, O.memory)
  <2>1. Whole(e, C, O) /\ Falls(at, e.count) /\ at[e.count + 1].riscv = C.next /\ e.offsets + e.count = O.next
    BY <1>4 DEF AtEnd
  <2>2. SizesIn(e, O.memory)
    BY <2>1, WholeSizes
  <2>3. StartsFollow(at, e, O.memory)
    BY <2>2, StartsEquation
  <2>4. /\ 2 <= e.offsets /\ 2 <= e.riscv /\ e.offsets + e.count <= O.next
        /\ \A i \in 1..(e.count + 1) : e.riscv <= at[i].riscv /\ at[i].riscv <= C.next
        /\ \A i \in 1..e.count : Translated(at, i, C)
    BY <2>1 DEF Whole
  <2> HIDE DEF at
  <2>5. e.riscv <= C.next
    <3>1. 1 \in 1..(e.count + 1)
      BY <1>1
    <3>2. at[1].riscv = e.riscv
      BY <2>3 DEF StartsFollow
    <3> QED BY <2>4, <3>1, <3>2
  <2>6. e.riscv \in 2..C.next /\ e.offsets \in 2..O.next
    BY <1>1, <1>2, <1>4, <2>1, <2>4, <2>5
  <2>7. e.riscv # 0 /\ e.offsets # 0
    BY <2>6
  <2> QED BY <1>1, <1>2, <1>4, <2>1, <2>6, <2>7 DEF SectionAt, SectionSize
<1> QED BY <1>3, <1>4

\* The block with the instruction at x behind it.
Longer(e, x, s, t) == [start |-> IF e.count = 0 THEN x ELSE e.start, end |-> x + Size[x],
                       riscv |-> s, count |-> e.count + 1, offsets |-> t]
SizeOf(x, batch) == [x86 |-> Size[x], riscv |-> Len(batch)]

\* Its instructions start where they did, shifted with the code, and the new one
\* where they ended.
Appended(at, e, at2, x, s, size, batch) ==
    /\ \A i \in 1..e.count : /\ at2[i].x86 = at[i].x86
                             /\ at2[i].riscv + e.riscv = at[i].riscv + s
    /\ at2[e.count + 1] = [x86 |-> x, riscv |-> s + size]
    /\ at2[e.count + 2] = [x86 |-> x + Size[x], riscv |-> s + size + Len(batch)]

LEMMA StartsAppend ==
    ASSUME NEW e \in Entries, NEW C, ListOK(C, Word), NEW O, ListOK(O, Places), AtEnd(e, C, O),
           NEW x, Decodes(x), e.count # 0 => x = e.end,
           NEW batch \in Seq(Word), NEW s \in Nat,
           NEW O2, ListOK(O2, Places), NEW t \in Nat,
           Extended(O, e.offsets, << SizeOf(x, batch) >>, O2, t)
    PROVE  /\ Longer(e, x, s, t) \in Entries
           /\ SizesIn(Longer(e, x, s, t), O2.memory) /\ 2 <= t /\ t + (e.count + 1) = O2.next
           /\ Appended(StartsOf(e, O.memory), e, StartsOf(Longer(e, x, s, t), O2.memory), x, s,
                       SectionSize(C, e.riscv), batch)
<1> DEFINE n == e.count
           z == SizeOf(x, batch)
           e2 == Longer(e, x, s, t)
           at == StartsOf(e, O.memory)
           at2 == StartsOf(e2, O2.memory)
           size == SectionSize(C, e.riscv)
<1>1. n \in Nat /\ e.riscv \in Nat /\ e.offsets \in Nat /\ e.start \in Nat /\ e.end \in Nat
  BY DEF Entries
<1>2. x \in Nat /\ Size[x] \in Nat /\ x + Size[x] \in Nat /\ Len(batch) \in Nat
  BY DecodedSize
<1>3. SectionSize(O, e.offsets) = n /\ size \in Nat /\ size = IF n = 0 THEN 0 ELSE C.next - e.riscv
  BY SectionsAtEnd
<1>4. /\ e2.start = IF n = 0 THEN x ELSE e.start
      /\ e2.end = x + Size[x] /\ e2.riscv = s /\ e2.count = n + 1 /\ e2.offsets = t
      /\ e2 \in Entries
  BY <1>1, <1>2 DEF Longer, Entries
<1>5. z \in Places /\ z.x86 = Size[x] /\ z.riscv = Len(batch)
  BY <1>2 DEF SizeOf, Places
<1> HIDE DEF n, z, e2, at, at2, size
<1>6. Len(<< z >>) = 1 /\ << z >>[1] = z
  OBVIOUS
<1>7. /\ 2 <= t /\ O2.next = t + n + 1
      /\ \A j \in 0..(n - 1) : O2.memory[t + j] = O.memory[e.offsets + j]
      /\ O2.memory[t + n + 1 - 1] = z
  <2>1. /\ 2 <= t /\ O2.next = t + n + Len(<< z >>)
        /\ \A j \in 0..(n - 1) : O2.memory[t + j] = O.memory[e.offsets + j]
        /\ \A j \in 1..Len(<< z >>) : O2.memory[t + n + j - 1] = << z >>[j]
    BY <1>3 DEF Extended, Copied, z
  <2>2. 1 \in 1..Len(<< z >>)
    BY <1>6
  <2> QED BY <1>6, <2>1, <2>2
<1>8. O2.memory \in Seq(Places) /\ Len(O2.memory) \in Nat /\ O2.next \in Nat /\ O2.next <= Len(O2.memory) + 1
  BY ListBounds
<1>9. SizesIn(e2, O2.memory)
  BY <1>1, <1>4, <1>7, <1>8 DEF SizesIn
<1>10. StartsFollow(at2, e2, O2.memory)
  BY <1>9, StartsEquation DEF at2
<1>11. /\ \A i \in 1..n : at2[i].x86 = at[i].x86 /\ at2[i].riscv + e.riscv = at[i].riscv + s
       /\ at2[n + 1] = [x86 |-> x, riscv |-> s + size]
  <2>1. CASE n = 0
    <3>1. at2[1] = [x86 |-> x, riscv |-> s]
      BY <1>4, <1>10, <2>1 DEF StartsFollow
    <3>2. s + size = s
      BY <1>3, <2>1
    <3> QED BY <2>1, <3>1, <3>2
  <2>2. CASE n # 0
    <3>1. Whole(e, C, O) /\ at[n + 1].riscv = C.next
      BY <2>2 DEF AtEnd, at, n
    <3>2. SizesIn(e, O.memory) /\ StartsFollow(at, e, O.memory)
      BY <3>1, WholeSizes, StartsEquation DEF at
    <3>3. at[n + 1].x86 = x
      BY <2>2, <3>1 DEF Whole, at, n
    <3>4. SameSizes(e, O.memory, e2, O2.memory, n)
      <4>1. ASSUME NEW i \in 1..n PROVE O2.memory[e2.offsets + i - 1] = O.memory[e.offsets + i - 1]
        <5>1. i - 1 \in 0..(n - 1)
          BY <1>1
        <5>2. O2.memory[t + (i - 1)] = O.memory[e.offsets + (i - 1)]
          BY <1>7, <5>1
        <5>3. t + (i - 1) = e2.offsets + i - 1 /\ e.offsets + (i - 1) = e.offsets + i - 1
          BY <1>1, <1>4
        <5> QED BY <5>2, <5>3
      <4> QED BY <4>1 DEF SameSizes
    <3>5. n <= e.count /\ n <= e2.count /\ e.start = e2.start
      BY <1>1, <1>4, <2>2 DEF n
    <3>6. Shifted(e, O.memory, e2, O2.memory, n)
      BY <1>1, <1>9, <3>2, <3>4, <3>5, StartsShift
    <3>7. \A i \in 1..(n + 1) : at2[i].x86 = at[i].x86 /\ at2[i].riscv + e.riscv = at[i].riscv + s
      BY <1>4, <3>6 DEF Shifted, at, at2
    <3>8. at2[n + 1] \in Places
      <4>1. n + 1 \in 1..(e2.count + 1)
        BY <1>1, <1>4
      <4> QED BY <1>10, <4>1 DEF StartsFollow
    <3>9. at2[n + 1].x86 = x /\ at2[n + 1].riscv + e.riscv = C.next + s
      <4>1. n + 1 \in 1..(n + 1)
        BY <1>1
      <4> QED BY <3>1, <3>3, <3>7, <4>1
    <3>10. at2[n + 1].riscv = s + size
      <4>1. C.next \in Nat /\ at2[n + 1].riscv \in Nat
        BY <3>8, ListBounds DEF Places
      <4>2. size = C.next - e.riscv /\ e.riscv \in Nat /\ s \in Nat
        BY <1>1, <1>3, <2>2
      <4>3. at2[n + 1].riscv + e.riscv = C.next + s
        BY <3>9
      <4> DEFINE new == at2[n + 1].riscv
                 old == e.riscv
                 top == C.next
      <4>4. /\ top \in Nat /\ new \in Nat /\ old \in Nat /\ s \in Nat /\ size = top - old
            /\ new + old = top + s
        BY <4>1, <4>2, <4>3
      <4> HIDE DEF new, old, top
      <4>5. new = s + size
        BY <4>4
      <4> QED BY <4>5 DEF new
    <3>11. at2[n + 1] = [x86 |-> x, riscv |-> s + size]
      BY <3>8, <3>9, <3>10 DEF Places
    <3>12. \A i \in 1..n : i \in 1..(n + 1)
      BY <1>1
    <3> QED BY <3>7, <3>11, <3>12
  <2> QED BY <2>1, <2>2
<1>12. at2[n + 2] = [x86 |-> x + Size[x], riscv |-> s + size + Len(batch)]
  <2>1. n + 1 \in 1..e2.count /\ (n + 1) + 1 = n + 2 /\ e2.offsets + (n + 1) - 1 = t + n + 1 - 1
    BY <1>1, <1>4
  <2>2. at2[(n + 1) + 1] = [x86 |-> at2[n + 1].x86 + O2.memory[e2.offsets + (n + 1) - 1].x86,
                            riscv |-> at2[n + 1].riscv + O2.memory[e2.offsets + (n + 1) - 1].riscv]
    BY <1>10, <2>1 DEF StartsFollow
  <2>3. O2.memory[e2.offsets + (n + 1) - 1] = z
    BY <1>7, <2>1
  <2>4. at2[n + 1].x86 = x /\ at2[n + 1].riscv = s + size
    BY <1>11
  <2> QED BY <1>5, <2>1, <2>2, <2>3, <2>4
<1>13. t + (n + 1) = O2.next
  BY <1>1, <1>7
<1>14. Appended(at, e, at2, x, s, size, batch)
  BY <1>11, <1>12 DEF Appended, n
<1> QED BY <1>4, <1>7, <1>9, <1>13, <1>14 DEF n, e2, at, at2, size

\* A whole block, or an empty one, is whole with an instruction more.
Translates(batch, x) ==
    /\ Riscv[x] <= Len(batch)
    /\ \A k \in 1..Riscv[x] : batch[k].of = x /\ batch[k].nth = k

LEMMA WholeGrows ==
    ASSUME NEW e \in Entries, NEW C, ListOK(C, Word), NEW O, ListOK(O, Places), AtEnd(e, C, O),
           NEW x, Decodes(x), e.count # 0 => x = e.end,
           NEW batch \in Seq(Word), Translates(batch, x),
           NEW C2, ListOK(C2, Word), NEW s \in Nat, Extended(C, e.riscv, batch, C2, s),
           NEW O2, ListOK(O2, Places), NEW t \in Nat,
           Extended(O, e.offsets, << SizeOf(x, batch) >>, O2, t)
    PROVE  /\ Whole(Longer(e, x, s, t), C2, O2)
           /\ s + SectionSize(C, e.riscv) + Len(batch) = C2.next
           /\ Len(batch) = Riscv[x] /\ x \notin EndsBlock => AtEnd(Longer(e, x, s, t), C2, O2)
<1> DEFINE n == e.count
           e2 == Longer(e, x, s, t)
           at == StartsOf(e, O.memory)
           at2 == StartsOf(e2, O2.memory)
           size == SectionSize(C, e.riscv)
<1>1. n \in Nat /\ e.riscv \in Nat /\ e.offsets \in Nat /\ Len(batch) \in Nat
  BY DEF Entries
<1>2. /\ e2 \in Entries /\ SizesIn(e2, O2.memory) /\ 2 <= t /\ t + (n + 1) = O2.next
      /\ Appended(at, e, at2, x, s, size, batch)
  BY StartsAppend
<1>3. e2.end = x + Size[x] /\ e2.riscv = s /\ e2.count = n + 1 /\ e2.offsets = t
  BY DEF Longer
<1>4. /\ x \in Address /\ x \in Nat /\ Size[x] \in Nat /\ Riscv[x] \in Nat
  BY DecodedSize, RiscvSize
<1>5. C.next \in Nat /\ C2.next \in Nat /\ C2.next <= Len(C2.memory) + 1 /\ Len(C2.memory) \in Nat
  BY ListBounds
<1>6. size \in Nat /\ size = IF n = 0 THEN 0 ELSE C.next - e.riscv
  BY SectionsAtEnd
<1>7. /\ 2 <= s /\ C2.next = s + size + Len(batch)
      /\ \A j \in 0..(size - 1) : C2.memory[s + j] = C.memory[e.riscv + j]
      /\ \A j \in 1..Len(batch) : C2.memory[s + size + j - 1] = batch[j]
  BY DEF Extended, Copied
<1> HIDE DEF n, e2, at, at2, size
<1>8. /\ \A i \in 1..n : at2[i].x86 = at[i].x86 /\ at2[i].riscv + e.riscv = at[i].riscv + s
      /\ at2[n + 1] = [x86 |-> x, riscv |-> s + size]
      /\ at2[n + 2] = [x86 |-> x + Size[x], riscv |-> s + size + Len(batch)]
  BY <1>2 DEF Appended, n
<1>9. at2 \in [1..(n + 2) -> Places]
  <2>1. StartsFollow(at2, e2, O2.memory) /\ e2.count + 1 = n + 2
    BY <1>1, <1>2, <1>3, StartsEquation DEF at2
  <2> QED BY <2>1 DEF StartsFollow
\* the instructions it had
<1>10. ASSUME NEW i \in 1..n
       PROVE  /\ Translated(at2, i, C2) /\ Falls(at2, i)
              /\ s <= at2[i].riscv /\ at2[i].riscv <= s + size
  <2>1. n # 0
    BY <1>1
  <2>2. Whole(e, C, O) /\ Falls(at, n) /\ at[n + 1].riscv = C.next
    BY <2>1 DEF AtEnd, at, n
  <2>3. SizesIn(e, O.memory) /\ StartsFollow(at, e, O.memory)
    BY <2>2, WholeSizes, StartsEquation DEF at
  <2>4. i \in 1..(n + 1) /\ i + 1 \in 1..(n + 1)
    BY <1>1
  <2>5. at[i] \in Places /\ at[i + 1] \in Places
    BY <2>3, <2>4 DEF StartsFollow, n
  <2> DEFINE y == at[i].x86
             h == at[i].riscv
             g == at[i + 1].riscv
             h2 == at2[i].riscv
             g2 == at2[i + 1].riscv
  <2>6. /\ e.riscv <= h /\ h <= C.next /\ e.riscv <= g /\ g <= C.next
        /\ Translated(at, i, C) /\ at[n + 1].x86 = e.end
    BY <2>2, <2>4 DEF Whole, at, n
  <2>7. Decodes(y) /\ at[i + 1].x86 = y + Size[y] /\ h + Riscv[y] <= g /\ Held(C.memory, h, y)
    BY <2>6 DEF Translated
  <2>8. Falls(at, i)
    <3>1. CASE i = n
      BY <2>2, <3>1
    <3>2. CASE i # n
      <4>1. i \in 1..(n - 1)
        BY <1>1, <3>2
      <4> QED BY <2>2, <4>1 DEF Whole, at, n
    <3> QED BY <3>1, <3>2
  <2>9. y \notin EndsBlock /\ g = h + Riscv[y]
    BY <2>8 DEF Falls
  <2>10. at2[i].x86 = y /\ h2 + e.riscv = h + s
    BY <1>8
  <2>11. at2[i + 1].x86 = at[i + 1].x86 /\ g2 + e.riscv = g + s
    <3>1. CASE i = n
      <4>1. at2[i + 1] = [x86 |-> x, riscv |-> s + size] /\ g = C.next /\ at[i + 1].x86 = e.end
        BY <1>8, <2>2, <2>6, <3>1
      <4>2. x = e.end /\ size = C.next - e.riscv
        BY <1>6, <2>1 DEF n
      <4>3. g2 = s + size /\ at2[i + 1].x86 = x
        BY <4>1
      <4>4. g2 + e.riscv = C.next + s
        BY <1>1, <1>5, <4>2, <4>3
      <4> QED BY <4>1, <4>2, <4>3, <4>4
    <3>2. CASE i # n
      <4>1. i + 1 \in 1..n
        BY <1>1, <3>2
      <4> QED BY <1>8, <4>1
    <3> QED BY <3>1, <3>2
  <2>12. h \in Nat /\ g \in Nat /\ h2 \in Nat /\ g2 \in Nat /\ Riscv[y] \in Nat
    <3>1. at2[i] \in Places /\ at2[i + 1] \in Places
      <4>1. i \in 1..(n + 2) /\ i + 1 \in 1..(n + 2)
        BY <1>1
      <4> QED BY <1>9, <4>1
    <3> QED BY <2>5, <2>7, <3>1, DecodedSize, RiscvSize DEF Places
  <2> DEFINE r == Riscv[y]
             r0 == e.riscv
             c == C.next
  <2> HIDE DEF y, h, g, h2, g2, r, r0, c
  <2>18. /\ h \in Nat /\ g \in Nat /\ h2 \in Nat /\ g2 \in Nat /\ r \in Nat
        /\ r0 \in Nat /\ c \in Nat /\ size \in Nat /\ size = c - r0
        /\ h2 + r0 = h + s /\ g2 + r0 = g + s /\ g = h + r /\ r0 <= h /\ g <= c
    BY <1>1, <1>5, <1>6, <2>1, <2>6, <2>9, <2>10, <2>11, <2>12 DEF h, g, h2, g2, r, r0, c
  <2>19. /\ g2 = h2 + r /\ s <= h2 /\ h2 <= s + size /\ g2 <= s + size
         /\ \A k \in 1..r : /\ h - r0 + k - 1 \in 0..(size - 1)
                           /\ s + (h - r0 + k - 1) = h2 + k - 1
                           /\ r0 + (h - r0 + k - 1) = h + k - 1
    <3> HIDE DEF size
    <3>1. g2 = h2 + r /\ s <= h2 /\ h2 <= s + size /\ g2 <= s + size
      BY <2>18
    <3>2. \A k \in 1..r : /\ h - r0 + k - 1 \in 0..(size - 1)
                          /\ s + (h - r0 + k - 1) = h2 + k - 1
                          /\ r0 + (h - r0 + k - 1) = h + k - 1
      BY <2>18
    <3> QED BY <3>1, <3>2
  <2>13. g2 = h2 + r
    BY <2>19
  <2>14. s <= h2 /\ h2 <= s + size
    BY <2>19
  <2>15. Held(C2.memory, h2, y)
    <3>1. ASSUME NEW k \in 1..r
          PROVE  /\ h2 + k - 1 \in 1..Len(C2.memory)
                 /\ C2.memory[h2 + k - 1] = C.memory[h + k - 1]
      <4> DEFINE j == h - r0 + k - 1
      <4>1. j \in 0..(size - 1)
        BY <2>19
      <4>2. s + j = h2 + k - 1 /\ r0 + j = h + k - 1
        BY <2>19
      <4> HIDE DEF j
      <4>3. h2 + k - 1 \in 1..Len(C2.memory)
        <5> DEFINE m == Len(C2.memory)
                   c2 == C2.next
        <5>1. s + size <= c2 /\ c2 <= m + 1 /\ m \in Nat /\ c2 \in Nat /\ 2 <= s
          BY <1>1, <1>5, <1>6, <1>7
        <5> HIDE DEF m, c2
        <5>2. s + j \in 1..m
          BY <1>6, <4>1, <5>1
        <5> QED BY <4>2, <5>2 DEF m
      <4>4. C2.memory[s + j] = C.memory[r0 + j]
        BY <1>7, <4>1 DEF r0
      <4> QED BY <4>2, <4>3, <4>4
    <3> QED BY <2>7, <3>1 DEF Held, r
  <2>16. Translated(at2, i, C2)
    <3>1. Decodes(y) /\ at2[i].x86 = y /\ at2[i + 1].x86 = y + Size[y]
      BY <2>7, <2>10, <2>11
    <3>2. at2[i].riscv = h2 /\ at2[i + 1].riscv = g2 /\ h2 + Riscv[y] <= g2
      <4>1. h2 + r <= g2
        BY <2>13, <2>18
      <4> QED BY <4>1 DEF h2, g2, r
    <3> QED BY <2>15, <3>1, <3>2 DEF Translated
  <2>17. Falls(at2, i)
    <3>1. at2[i].x86 = y /\ at2[i + 1].riscv = at2[i].riscv + Riscv[y]
      BY <2>10, <2>13 DEF h2, g2, r
    <3> QED BY <2>9, <3>1 DEF Falls
  <2> QED BY <2>14, <2>16, <2>17 DEF h2
\* the new one
<1>11. at2[n + 1].x86 = x /\ at2[n + 1].riscv = s + size /\ at2[n + 2].x86 = x + Size[x] /\ at2[n + 2].riscv = C2.next
  BY <1>7, <1>8
<1>12. Riscv[x] <= Len(batch) /\ \A k \in 1..Riscv[x] : batch[k].of = x /\ batch[k].nth = k
  BY DEF Translates
<1>13. Translated(at2, n + 1, C2)
  <2>1. Held(C2.memory, s + size, x)
    <3>1. ASSUME NEW k \in 1..Riscv[x]
          PROVE  s + size + k - 1 \in 1..Len(C2.memory) /\ C2.memory[s + size + k - 1] = batch[k]
      <4>1. k \in 1..Len(batch)
        BY <1>1, <1>4, <1>12
      <4>2. s + size + k - 1 \in 1..Len(C2.memory)
        <5> DEFINE m == Len(C2.memory)
                   top == C2.next
                   nb == Len(batch)
        <5>1. /\ m \in Nat /\ top \in Nat /\ nb \in Nat /\ top <= m + 1 /\ 2 <= s
              /\ s \in Nat /\ size \in Nat /\ s + size + nb = top /\ k \in 1..nb
          BY <1>1, <1>5, <1>6, <1>7, <4>1
        <5> HIDE DEF m, top, nb
        <5>2. s + size + k - 1 \in 1..m
          BY <5>1
        <5> QED BY <5>2 DEF m
      <4> QED BY <1>7, <4>1, <4>2
    <3> QED BY <1>12, <3>1 DEF Held
  <2>2. (n + 1) + 1 = n + 2
    BY <1>1
  <2>3. s + size + Riscv[x] <= C2.next
    BY <1>1, <1>4, <1>5, <1>6, <1>7, <1>12
  <2> QED BY <1>11, <2>1, <2>2, <2>3 DEF Translated
<1>14. \A i \in 1..(n + 2) : s <= at2[i].riscv /\ at2[i].riscv <= C2.next
  <2> SUFFICES ASSUME NEW i \in 1..(n + 2) PROVE s <= at2[i].riscv /\ at2[i].riscv <= C2.next
    OBVIOUS
  <2>1. s + size <= C2.next /\ s <= s + size /\ s <= C2.next
    <3> DEFINE top == C2.next
               nb == Len(batch)
    <3>1. s \in Nat /\ size \in Nat /\ nb \in Nat /\ top = s + size + nb
      BY <1>1, <1>6, <1>7
    <3> HIDE DEF top, nb
    <3>2. s + size <= top /\ s <= s + size /\ s <= top
      BY <3>1
    <3> QED BY <3>2 DEF top
  <2>2. CASE i \in 1..n
    <3> DEFINE h == at2[i].riscv
               top == C2.next
    <3>1. h \in Nat
      <4>1. at2[i] \in Places
        BY <1>9
      <4> QED BY <4>1 DEF Places
    <3>2. s <= h /\ h <= s + size /\ s + size <= top /\ s \in Nat /\ size \in Nat /\ top \in Nat
      BY <1>5, <1>6, <1>10, <2>1, <2>2
    <3> HIDE DEF h, top
    <3>3. s <= h /\ h <= top
      BY <3>1, <3>2
    <3> QED BY <3>3 DEF h, top
  <2>3. CASE i = n + 1
    BY <1>11, <2>1, <2>3
  <2>4. CASE i = n + 2
    BY <1>5, <1>11, <2>1, <2>4
  <2> QED BY <1>1, <2>2, <2>3, <2>4
<1>15. Whole(e2, C2, O2)
  <2>1. (n + 1) + 1 = n + 2 /\ (n + 1) - 1 = n /\ n + 1 # 0 /\ t + (n + 1) <= O2.next
    <3>1. O2.next \in Nat
      BY ListBounds
    <3> QED BY <1>1, <1>2, <3>1
  <2>2. \A i \in 1..(n + 1) : Translated(at2, i, C2)
    <3> SUFFICES ASSUME NEW i \in 1..(n + 1) PROVE Translated(at2, i, C2)
      OBVIOUS
    <3>1. i \in 1..n \/ i = n + 1
      BY <1>1
    <3> QED BY <1>10, <1>13, <3>1
  <2> QED BY <1>2, <1>3, <1>7, <1>10, <1>11, <1>14, <2>1, <2>2 DEF Whole, at2
<1>16. ASSUME Len(batch) = Riscv[x], x \notin EndsBlock PROVE AtEnd(e2, C2, O2)
  <2>1. (n + 1) + 1 = n + 2 /\ n + 1 # 0
    BY <1>1
  <2>2. Falls(at2, n + 1)
    BY <1>7, <1>11, <1>16, <2>1 DEF Falls
  <2> QED BY <1>2, <1>3, <1>11, <1>15, <2>1, <2>2 DEF AtEnd, at2
<1> QED BY <1>7, <1>15, <1>16 DEF e2, size

-----------------------------------------------------------------------------
(* The invariant *)

TypeOK ==
    /\ blocks \in Seq(Entries)
    /\ pages \in [Pages -> Seq(Nat)]
    /\ \A p \in Pages : \A i \in 1..Len(pages[p]) : pages[p][i] \in 1..Len(blocks)
    /\ ListOK(code, Word) /\ ListOK(offsets, Places)
    /\ todo \in Seq(Address) /\ next \in Nat /\ answer \in Places
    /\ status \in {"idle", "adding", "fault", "corrupt"}

\* A batch that is not empty begins at place p.
BeginsAt(p, C) ==
    p.riscv < C.next /\ C.memory[p.riscv].of = p.x86 /\ C.memory[p.riscv].nth = 1

\* Block e, whose instructions start at at, ends with eob or with a jump to one
\* of the first k blocks, which starts where e ends: whatever instructions have
\* no code, the last batch is not empty.
LinkFrom(e, at, k, C, bs) ==
    LET after == at[e.count].riscv + Riscv[at[e.count].x86]
    IN /\ BeginsAt(at[e.count], C)
       /\ at[e.count].x86 \notin EndsBlock =>
             \E c \in 1..k : /\ after < C.next /\ C.memory[after].to = bs[c].riscv
                             /\ bs[c].start = e.end
Linked(b) == LinkFrom(blocks[b], Starts(b), b - 1, code, blocks)

\* What is still to be added ends with eob or where block n starts, one of the
\* first k.
Pending(s, n, k, bs) ==
    /\ s # << >>
    /\ \A i \in 1..Len(s) : Decodes(s[i])
    /\ \A i \in 1..(Len(s) - 1) : s[i] \notin EndsBlock /\ s[i + 1] = s[i] + Size[s[i]]
    /\ IF s[Len(s)] \in EndsBlock THEN n = 0
       ELSE n \in 1..k /\ bs[n].start = s[Len(s)] + Size[s[Len(s)]]
Adding ==
    /\ blocks # << >> /\ AtEnd(Filling, code, offsets)
    /\ Pending(todo, next, Len(blocks) - 1, blocks)
    /\ Filling.count # 0 => Head(todo) = Filling.end

BegunWhole == \A b \in 1..Len(blocks) : blocks[b].count # 0 => Whole(blocks[b], code, offsets)
FinishedLinked == \A b \in Finished : blocks[b].count # 0 /\ Linked(b)

Inv == TypeOK /\ BegunWhole /\ FinishedLinked /\ (status = "adding" => Adding)

LEMMA ZeroAddress == 0 \in Address /\ NoWord \in Word
<1>1. PageSize \in Nat /\ PageSize >= 1 /\ NumPages \in Nat /\ NumPages >= 1
  BY PagesAssumption
<1>2. PageSize * NumPages >= 1 /\ PageSize * NumPages \in Nat
  BY <1>1, SMTT(30)
<1>3. 0 \in Address
  BY <1>2 DEF Address, ImageSize
<1> QED BY <1>3 DEF NoWord, Word

LEMMA Initially == Init => Inv
<1> SUFFICES ASSUME Init PROVE Inv
  OBVIOUS
<1>1. blocks = << >> /\ todo = << >> /\ next = 0 /\ status = "idle" /\ Len(blocks) = 0
  BY DEF Init
<1>2. code = [memory |-> << >>, next |-> 0, left |-> 0] /\ offsets = [memory |-> << >>, next |-> 0, left |-> 0]
  BY DEF Init, CodeList!EmptyList, OffsetList!EmptyList, CodeList!Null, OffsetList!Null
<1>3. ListOK(code, Word) /\ ListOK(offsets, Places)
  BY <1>2 DEF ListOK, Lists
<1>4. pages \in [Pages -> Seq(Nat)] /\ \A p \in Pages : Len(pages[p]) = 0
  BY DEF Init
<1>5. answer \in Places
  BY DEF Init, Places, Null
<1>6. TypeOK
  BY <1>1, <1>3, <1>4, <1>5 DEF TypeOK
<1> QED BY <1>1, <1>6 DEF Inv, BegunWhole, FinishedLinked, Finished

-----------------------------------------------------------------------------
(* find() and get_next_block() *)

\* find() takes x to be in a block of x's page, and one that contains x.
LEMMA FoundBlock ==
    ASSUME TypeOK, NEW x \in Address
    PROVE  \/ FindBlock(x) = 0
           \/ /\ FindBlock(x) \in 1..Len(blocks)
              /\ ~(x < blocks[FindBlock(x)].start) /\ ~(x >= blocks[FindBlock(x)].end)
<1> DEFINE entries == pages[PageIndex(x)]
           whole == [l |-> 0, r |-> Len(entries)]
<1>1. PageIndex(x) \in Pages
  BY AddressesInPages
<1>2. entries \in Seq(Nat) /\ Len(entries) \in Nat /\ \A i \in 1..Len(entries) : entries[i] \in 1..Len(blocks)
  BY <1>1 DEF TypeOK
<1>3. whole \in Ranges(Len(entries))
  BY <1>2 DEF Ranges
<1>4. FindBlock(x) = Search(entries, x)[whole]
  BY DEF FindBlock
<1> HIDE DEF entries, whole
<1> QED BY <1>2, <1>3, <1>4, SearchSound

LEMMA StartsInPlaces ==
    ASSUME TypeOK, BegunWhole, NEW b \in 1..Len(blocks), NEW i \in 1..blocks[b].count
    PROVE  /\ blocks[b] \in Entries /\ Whole(blocks[b], code, offsets)
           /\ StartsFollow(Starts(b), blocks[b], offsets.memory)
           /\ Starts(b)[i] \in Places /\ Translated(Starts(b), i, code)
<1>1. blocks[b] \in Entries /\ ListOK(offsets, Places)
  BY DEF TypeOK
<1>2. blocks[b].count \in Nat /\ blocks[b].count # 0 /\ i \in 1..(blocks[b].count + 1)
  BY <1>1 DEF Entries
<1>3. Whole(blocks[b], code, offsets)
  BY <1>2 DEF BegunWhole
<1>4. StartsFollow(Starts(b), blocks[b], offsets.memory)
  BY <1>1, <1>3, WholeSizes, StartsEquation DEF Starts
<1>5. Starts(b)[i] \in Places
  BY <1>2, <1>4 DEF StartsFollow
<1>6. Translated(Starts(b), i, code)
  BY <1>3 DEF Whole, Starts
<1> QED BY <1>1, <1>3, <1>4, <1>5, <1>6

\* What it answers is where one of that block's instructions starts.
LEMMA Found ==
    ASSUME TypeOK, BegunWhole, NEW x \in Address
    PROVE  \/ Find(x) = 0
           \/ \E b \in 1..Len(blocks) : \E i \in 1..blocks[b].count :
                 FindBlock(x) = b /\ Starts(b)[i].x86 = x /\ Find(x) = Starts(b)[i].riscv
<1> SUFFICES ASSUME Find(x) # 0
             PROVE  \E b \in 1..Len(blocks) : \E i \in 1..blocks[b].count :
                       FindBlock(x) = b /\ Starts(b)[i].x86 = x /\ Find(x) = Starts(b)[i].riscv
  OBVIOUS
<1> DEFINE b == FindBlock(x)
           i == CHOOSE j \in At(b, x) : TRUE
<1>1. b # 0 /\ At(b, x) # {} /\ Find(x) = Starts(b)[i].riscv
  BY DEF Find, JumpsInside, Null
<1>2. i \in At(b, x)
  BY <1>1
<1>3. b \in 1..Len(blocks)
  BY <1>1, FoundBlock
<1>4. i \in 1..blocks[b].count /\ Starts(b)[i].x86 = x
  BY <1>2 DEF At
<1> QED BY <1>1, <1>3, <1>4

\* get_next_block() answers with a block that does not start before x.
LEMMA NextStarts ==
    ASSUME TypeOK, NEW x \in Address
    PROVE  \/ NextBlock(x) = 0
           \/ NextBlock(x) \in 1..Len(blocks) /\ blocks[NextBlock(x)].start >= x
<1> DEFINE From(p) == {i \in DOMAIN pages[p] : blocks[pages[p][i]].start >= x}
           some == {p \in PageIndex(x)..(NumPages - 1) : From(p) # {}}
<1>1. CASE some = {}
  BY <1>1 DEF NextBlock
<1>2. CASE some # {}
  <2> DEFINE p == Min(some)
             i == Min(From(p))
  <2>1. some \in SUBSET Nat
    BY AddressesInPages, PagesAssumption DEF Pages
  <2>2. p \in some
    BY <1>2, <2>1, LeastOf
  <2>10. p \in PageIndex(x)..(NumPages - 1) /\ From(p) # {}
    BY <2>2
  <2> HIDE DEF p
  <2>3. p \in Pages
    <3>1. PageIndex(x) \in Nat /\ NumPages \in Nat
      BY AddressesInPages, PagesAssumption DEF Pages
    <3> QED BY <2>10, <3>1 DEF Pages
  <2>4. pages[p] \in Seq(Nat) /\ DOMAIN pages[p] = 1..Len(pages[p])
    BY <2>3 DEF TypeOK
  <2>5. From(p) \in SUBSET Nat
    BY <2>4
  <2>6. i \in From(p)
    BY <2>5, <2>10, LeastOf
  <2>7. i \in 1..Len(pages[p]) /\ blocks[pages[p][i]].start >= x
    BY <2>4, <2>6
  <2>8. pages[p][i] \in 1..Len(blocks)
    BY <2>3, <2>7 DEF TypeOK
  <2>9. NextBlock(x) = pages[p][i]
    BY <1>2 DEF NextBlock, p
  <2> QED BY <2>7, <2>8, <2>9
<1> QED BY <1>1, <1>2

-----------------------------------------------------------------------------
(* The steps *)

\* Steps that leave the blocks and the lists alone.
LEMMA StillInv ==
    ASSUME Inv, UNCHANGED <<blocks, pages, code, offsets, next>>,
           answer' \in Places, todo' \in Seq(Address),
           status' \in {"idle", "adding", "fault", "corrupt"},
           status' # status => status' \in {"fault", "corrupt"},
           status' = "adding" => todo' = todo
    PROVE  Inv'
<1>1. TypeOK'
  BY DEF Inv, TypeOK, ListOK, Lists
<1>2. BegunWhole'
  <2>1. \A e : Whole(e, code, offsets)' = Whole(e, code, offsets)
    <3> SUFFICES ASSUME NEW e PROVE Whole(e, code, offsets)' = Whole(e, code, offsets)
      OBVIOUS
    <3>1. code' = code /\ offsets' = offsets
      OBVIOUS
    <3> QED BY <3>1 DEF Whole, Translated, Held, Falls
  <2> QED BY <2>1 DEF Inv, BegunWhole
<1>3. Finished' \subseteq Finished
  <2>1. Len(blocks) \in Nat
    BY DEF Inv, TypeOK
  <2> QED BY <2>1 DEF Finished
<1>4. FinishedLinked'
  BY <1>3 DEF Inv, FinishedLinked, Linked, LinkFrom, BeginsAt, Starts
<1>5. status' = "adding" => Adding'
  <2> SUFFICES ASSUME status' = "adding" PROVE Adding'
    OBVIOUS
  <2>1. Adding /\ blocks' = blocks /\ code' = code /\ offsets' = offsets /\ next' = next /\ todo' = todo
    BY DEF Inv
  <2>2. Filling' = Filling
    BY <2>1 DEF Filling, New
  <2>3. AtEnd(Filling, code, offsets)' = AtEnd(Filling, code, offsets)
    BY <2>1, <2>2 DEF AtEnd, Whole, Translated, Held, Falls
  <2>4. Pending(todo, next, Len(blocks) - 1, blocks)' = Pending(todo, next, Len(blocks) - 1, blocks)
    BY <2>1 DEF Pending
  <2> QED BY <2>1, <2>2, <2>3, <2>4 DEF Adding
<1> QED BY <1>1, <1>2, <1>4, <1>5 DEF Inv

LEMMA KnownKeeps == ASSUME Inv, NEW x \in Targets, status = "idle", Known(x) PROVE Inv'
<1>1. x \in Address /\ x \in Nat
  BY TargetsAssumption, AddressesInPages
<1>2. Find(x) \in Nat
  <2>1. CASE Find(x) = 0
    BY <2>1
  <2>2. CASE Find(x) # 0
    <3>1. PICK b \in 1..Len(blocks) : \E i \in 1..blocks[b].count : Find(x) = Starts(b)[i].riscv
      BY <1>1, <2>2, Found DEF Inv
    <3>3. PICK i \in 1..blocks[b].count : Find(x) = Starts(b)[i].riscv
      BY <3>1
    <3>2. Starts(b)[i] \in Places
      BY StartsInPlaces DEF Inv
    <3> QED BY <3>2, <3>3 DEF Places
  <2> QED BY <2>1, <2>2
<1>3. answer' \in Places
  BY <1>1, <1>2 DEF Known, Places
<1> QED BY <1>3, StillInv DEF Known, Inv, TypeOK

LEMMA RefusalKeeps ==
    ASSUME Inv, \/ \E x \in Targets : CannotTranslate(x)
                \/ CannotAdd \/ Corrupts \/ UNCHANGED vars
    PROVE  Inv'
<1>1. TypeOK
  BY DEF Inv
<1>2. ASSUME NEW x \in Targets, CannotTranslate(x) PROVE Inv'
  BY <1>1, <1>2, StillInv DEF CannotTranslate, TypeOK
<1>3. CASE CannotAdd
  BY <1>1, <1>3, StillInv DEF CannotAdd, TypeOK
<1>4. CASE Corrupts
  BY <1>1, <1>4, StillInv DEF Corrupts, TypeOK
<1>5. CASE UNCHANGED vars
  BY <1>1, <1>5, StillInv DEF vars, TypeOK
<1> QED BY <1>2, <1>3, <1>4, <1>5

\* A jump to an earlier block stays, while the code grows behind it.
LEMMA LinkStays ==
    ASSUME NEW e \in Entries, NEW C, ListOK(C, Word), NEW O, ListOK(O, Places), Whole(e, C, O),
           NEW C2, ListOK(C2, Word), Grown(C, C2), NEW k, NEW bs, NEW bs2, \A c \in 1..k : bs2[c] = bs[c],
           LinkFrom(e, StartsOf(e, O.memory), k, C, bs)
    PROVE  LinkFrom(e, StartsOf(e, O.memory), k, C2, bs2)
<1> DEFINE at == StartsOf(e, O.memory)
           y == at[e.count].x86
           h == at[e.count].riscv
           r == Riscv[y]
<1>1. e.count \in Nat /\ e.count # 0 /\ e.riscv \in Nat
  BY DEF Entries, Whole
<1>2. StartsFollow(at, e, O.memory)
  BY WholeSizes, StartsEquation
<1>3. e.count \in 1..e.count /\ e.count \in 1..(e.count + 1)
  BY <1>1
<1>4. at[e.count] \in Places
  BY <1>2, <1>3 DEF StartsFollow
<1>5. e.riscv <= h /\ 2 <= e.riscv /\ Decodes(y)
  BY <1>3 DEF Whole, Translated
<1>6. r \in Nat
  BY <1>5, DecodedSize, RiscvSize
<1>7. h \in Nat
  BY <1>4 DEF Places
<1>8. C.next \in Nat /\ C.next <= C2.next /\ C2.next \in Nat
                     /\ \A j \in 1..(C.next - 1) : C2.memory[j] = C.memory[j]
  BY ListBounds DEF Grown
<1> HIDE DEF y, h, r
<1>9. ASSUME y \notin EndsBlock
      PROVE  \E c \in 1..k : /\ h + r < C2.next /\ C2.memory[h + r].to = bs2[c].riscv
                              /\ bs2[c].start = e.end
  <2>1. PICK c \in 1..k : h + r < C.next /\ C.memory[h + r].to = bs[c].riscv /\ bs[c].start = e.end
    BY <1>9 DEF LinkFrom, y, h, r, at
  <2>2. bs2[c] = bs[c]
    OBVIOUS
  <2> DEFINE c1 == C.next
             c2 == C2.next
  <2>3. h + r < c1 /\ c1 <= c2 /\ c1 \in Nat /\ c2 \in Nat
    BY <1>8, <2>1
  <2>4. h + r \in 1..(c1 - 1) /\ h + r < c2
    <3> HIDE DEF c1, c2
    <3> QED BY <1>1, <1>5, <1>6, <1>7, <2>3
  <2>5. C2.memory[h + r] = C.memory[h + r]
    BY <1>8, <2>4
  <2> QED BY <2>1, <2>2, <2>4, <2>5
<1>10. BeginsAt(at[e.count], C2)
  <2>1. h < C.next /\ C.memory[h].of = y /\ C.memory[h].nth = 1
    BY DEF LinkFrom, BeginsAt, y, h, at
  <2>2. h \in 1..(C.next - 1) /\ h < C2.next
    BY <1>1, <1>5, <1>7, <1>8, <2>1
  <2>3. C2.memory[h] = C.memory[h]
    BY <1>8, <2>2
  <2> QED BY <2>1, <2>2, <2>3 DEF BeginsAt, y, h
<1> QED BY <1>9, <1>10 DEF LinkFrom, y, h, r, at

\* What translate() decoded can be added.
LEMMA DecodedPends ==
    ASSUME TypeOK, NEW x \in Address, Straight(x, NextBlock(x)) # << >>,
           Undecodable \notin ToSet(Straight(x, NextBlock(x)))
    PROVE  LET s == Straight(x, NextBlock(x))
           IN /\ s \in Seq(Address) /\ s[1] = x
              /\ LinkedTo(s, NextBlock(x)) \in Nat
              /\ Pending(s, LinkedTo(s, NextBlock(x)), Len(blocks), blocks)
<1> DEFINE b == NextBlock(x)
           s == Straight(x, b)
<1>1. ChainFrom(s, x, b)
  BY StraightChains
<1>2. b = 0 \/ b \in 1..Len(blocks)
  BY NextStarts
<1>0. s # << >>
  OBVIOUS
<1> HIDE DEF b, s
<1>3. /\ s \in Seq(Address) /\ s[1] = x /\ s # << >>
      /\ \A i \in 1..Len(s) : Decodes(s[i])
      /\ \A i \in 1..(Len(s) - 1) : s[i] \notin EndsBlock /\ s[i + 1] = s[i] + Size[s[i]]
      /\ s[Len(s)] \notin EndsBlock => Stops(s[Len(s)] + Size[s[Len(s)]], b)
  BY <1>0, <1>1 DEF ChainFrom
<1>4. s[Len(s)] \notin EndsBlock => b \in 1..Len(blocks) /\ blocks[b].start = s[Len(s)] + Size[s[Len(s)]]
  BY <1>2, <1>3 DEF Stops
<1>5. Pending(s, LinkedTo(s, b), Len(blocks), blocks)
  BY <1>3, <1>4 DEF Pending, LinkedTo
<1>6. LinkedTo(s, b) \in Nat
  BY <1>2 DEF LinkedTo
<1> QED BY <1>3, <1>5, <1>6 DEF s, b

LEMMA CreateKeeps == ASSUME Inv, NEW x \in Targets, status = "idle", CreateBlock(x) PROVE Inv'
<1> DEFINE s == Straight(x, NextBlock(x))
           n == Len(blocks)
<1>1. x \in Address /\ x \in Nat
  BY TargetsAssumption, AddressesInPages
<1>2. TypeOK /\ BegunWhole /\ FinishedLinked /\ blocks \in Seq(Entries) /\ n \in Nat
  BY DEF Inv, TypeOK
<1>3. s # << >> /\ Undecodable \notin ToSet(s)
  BY DEF CreateBlock
<1>4. /\ blocks' = Append(blocks, NewBlock) /\ todo' = s /\ next' = LinkedTo(s, NextBlock(x))
      /\ answer' = [x86 |-> x, riscv |-> 0] /\ status' = "adding"
      /\ pages' = pages /\ code' = code /\ offsets' = offsets
  BY DEF CreateBlock, Null
<1>5. s \in Seq(Address) /\ next' \in Nat /\ Pending(s, next', n, blocks)
  BY <1>1, <1>2, <1>3, <1>4, DecodedPends
<1> HIDE DEF s
<1>6. NewBlock \in Entries /\ NewBlock.count = 0 /\ NewBlock.riscv = 0 /\ NewBlock.offsets = 0
  BY DEF NewBlock, Entries, Null
<1>7. /\ blocks' \in Seq(Entries) /\ Len(blocks') = n + 1 /\ blocks'[n + 1] = NewBlock
      /\ \A b \in 1..n : blocks'[b] = blocks[b]
  BY <1>2, <1>4, <1>6
<1>8. TypeOK'
  <2>1. \A p \in Pages : \A i \in 1..Len(pages[p]) : pages[p][i] \in 1..(n + 1)
    BY <1>2 DEF TypeOK
  <2>2. answer' \in Places
    BY <1>1, <1>4 DEF Places
  <2>3. ListOK(code, Word)' /\ ListOK(offsets, Places)'
    BY <1>2, <1>4 DEF TypeOK, ListOK, Lists
  <2> HIDE DEF n
  <2> QED BY <1>2, <1>4, <1>5, <1>7, <2>1, <2>2, <2>3 DEF TypeOK
<1> HIDE DEF n
<1>9. BegunWhole'
  <2>1. ASSUME NEW b \in 1..(n + 1), blocks'[b].count # 0 PROVE Whole(blocks'[b], code, offsets)
    <3>1. b \in 1..n
      BY <1>2, <1>6, <1>7, <2>1
    <3> QED BY <1>2, <1>7, <2>1, <3>1 DEF BegunWhole, n
  <2> QED BY <1>4, <1>7, <2>1 DEF BegunWhole
<1>10. FinishedLinked'
  <2>1. Finished' = 1..n /\ Finished = 1..n
    <3>1. (n + 1) - 1 = n
      BY <1>2
    <3> QED BY <1>4, <1>7, <3>1 DEF Finished, n
  <2>2. ASSUME NEW b \in 1..n PROVE blocks'[b].count # 0 /\ Linked(b)'
    <3>1. blocks[b].count # 0 /\ LinkFrom(blocks[b], StartsOf(blocks[b], offsets.memory), b - 1, code, blocks)
      BY <1>2, <2>1 DEF FinishedLinked, Linked, Starts
    <3>2. blocks'[b] = blocks[b] /\ \A c \in 1..(b - 1) : blocks'[c] = blocks[c]
      BY <1>2, <1>7
    <3>3. LinkFrom(blocks[b], StartsOf(blocks[b], offsets.memory), b - 1, code, blocks')
      BY <3>1, <3>2 DEF LinkFrom
    <3> QED BY <1>4, <3>1, <3>2, <3>3 DEF Linked, Starts
  <2> QED BY <2>1, <2>2 DEF FinishedLinked
<1>11. Adding'
  <2>1. blocks' # << >>
    BY <1>2, <1>7
  <2>2. Filling' = NewBlock
    BY <1>7 DEF Filling, New
  <2>3. AtEnd(NewBlock, code', offsets')
    BY <1>6 DEF AtEnd
  <2>4. Pending(s, next', n, blocks')
    BY <1>5, <1>7 DEF Pending
  <2>5. Len(blocks') - 1 = n
    BY <1>2, <1>7
  <2> QED BY <1>4, <1>6, <2>1, <2>2, <2>3, <2>4, <2>5 DEF Adding
<1> QED BY <1>8, <1>9, <1>10, <1>11 DEF Inv

\* s2 is s with v as its k-th element.
Insertion(s, k, v, s2) ==
    /\ s2 \in Seq(Nat) /\ k \in 1..(Len(s) + 1) /\ Len(s2) = Len(s) + 1
    /\ \A j \in 1..(k - 1) : s2[j] = s[j]
    /\ s2[k] = v
    /\ \A j \in k..Len(s) : s2[j + 1] = s[j]

LEMMA Insertions ==
    ASSUME NEW s \in Seq(Nat), NEW v \in Nat
    PROVE  /\ Insertion(s, Len(s) + 1, v, Append(s, v))
           /\ Insertion(s, 1, v, << v >> \o s)
           /\ \A k \in 1..Len(s) : Insertion(s, k, v, InsertAt(s, k, v))
<1>1. Insertion(s, Len(s) + 1, v, Append(s, v))
  <2> DEFINE t == Append(s, v)
  <2>1. t \in Seq(Nat) /\ Len(t) = Len(s) + 1 /\ t[Len(s) + 1] = v /\ \A j \in 1..Len(s) : t[j] = s[j]
    OBVIOUS
  <2>2. Len(s) \in Nat
    OBVIOUS
  <2> HIDE DEF t
  <2> QED BY <2>1, <2>2 DEF Insertion, t
<1>2. Insertion(s, 1, v, << v >> \o s)
  <2> DEFINE t == << v >> \o s
  <2>1. t \in Seq(Nat) /\ Len(t) = Len(s) + 1 /\ t[1] = v /\ \A j \in 1..Len(s) : t[j + 1] = s[j]
    OBVIOUS
  <2>2. Len(s) \in Nat
    OBVIOUS
  <2> HIDE DEF t
  <2> QED BY <2>1, <2>2 DEF Insertion, t
<1>3. ASSUME NEW k \in 1..Len(s) PROVE Insertion(s, k, v, InsertAt(s, k, v))
  <2> DEFINE t == InsertAt(s, k, v)
             low == SubSeq(s, 1, k - 1)
             high == SubSeq(s, k, Len(s))
  <2>1. Len(s) \in Nat /\ k \in Nat /\ k >= 1 /\ k <= Len(s)
    OBVIOUS
  <2>2. low \in Seq(Nat) /\ Len(low) = k - 1 /\ \A j \in 1..(k - 1) : low[j] = s[j]
    BY <2>1
  <2>3. high \in Seq(Nat) /\ Len(high) = Len(s) - k + 1 /\ \A j \in 1..(Len(s) - k + 1) : high[j] = s[k + j - 1]
    BY <2>1
  <2>4. t = (low \o << v >>) \o high
    BY DEF InsertAt
  <2> HIDE DEF t, low, high
  <2> DEFINE u == low \o << v >>
  <2>5. u \in Seq(Nat) /\ Len(u) = k /\ u[k] = v /\ \A j \in 1..(k - 1) : u[j] = low[j]
    <3>1. u \in Seq(Nat) /\ Len(u) = Len(low) + 1 /\ u[Len(low) + 1] = v /\ \A j \in 1..Len(low) : u[j] = low[j]
      <4> DEFINE one == << v >>
      <4>1. one \in Seq(Nat) /\ Len(one) = 1 /\ one[1] = v
        OBVIOUS
      <4>2. low \in Seq(Nat) /\ Len(low) \in Nat
        BY <2>2
      <4>3. u = low \o one
        OBVIOUS
      <4> HIDE DEF one, u
      <4>4. /\ u \in Seq(Nat) /\ Len(u) = Len(low) + Len(one)
            /\ \A i \in 1..(Len(low) + Len(one)) : u[i] = IF i <= Len(low) THEN low[i] ELSE one[i - Len(low)]
        BY <4>1, <4>2, <4>3, ConcatProperties
      <4> HIDE DEF low
      <4> DEFINE n == Len(low)
      <4>5. n \in Nat /\ n + 1 \in 1..(n + Len(one)) /\ n + 1 - n = 1 /\ ~(n + 1 <= n)
            /\ \A j \in 1..n : j \in 1..(n + Len(one)) /\ j <= n
        BY <4>1, <4>2
      <4> QED BY <4>1, <4>4, <4>5
    <3>2. Len(low) + 1 = k
      BY <2>1, <2>2
    <3> HIDE DEF u
    <3> QED BY <2>2, <3>1, <3>2
  <2>9. t = u \o high
    BY <2>4
  <2> HIDE DEF u
  <2>6. /\ t \in Seq(Nat) /\ Len(t) = k + (Len(s) - k + 1) /\ \A j \in 1..k : t[j] = u[j]
        /\ \A j \in 1..(Len(s) - k + 1) : t[k + j] = high[j]
    <3>1. /\ t \in Seq(Nat) /\ Len(t) = Len(u) + Len(high) /\ \A j \in 1..Len(u) : t[j] = u[j]
          /\ \A j \in 1..Len(high) : t[Len(u) + j] = high[j]
      <4>1. u \in Seq(Nat) /\ high \in Seq(Nat)
        BY <2>3, <2>5
      <4>2. /\ t \in Seq(Nat) /\ Len(t) = Len(u) + Len(high)
            /\ \A i \in 1..(Len(u) + Len(high)) : t[i] = IF i <= Len(u) THEN u[i] ELSE high[i - Len(u)]
        BY <2>9, <4>1, ConcatProperties
      <4>3. Len(u) \in Nat /\ Len(high) \in Nat
        BY <4>1
      <4> HIDE DEF u, high
      <4> DEFINE n == Len(u)
                 m == Len(high)
      <4>4. n \in Nat /\ m \in Nat
        BY <4>3
      <4> HIDE DEF n, m
      <4>5. \A j \in 1..n : j \in 1..(n + m) /\ j <= n
        BY <4>4
      <4>6. \A j \in 1..m : t[n + j] = high[j]
        <5> SUFFICES ASSUME NEW j \in 1..m PROVE t[n + j] = high[j]
          OBVIOUS
        <5> DEFINE p == n + j
        <5>1. p \in 1..(n + m) /\ ~(p <= n) /\ p - n = j
          BY <4>4
        <5>2. \A i \in 1..(n + m) : t[i] = IF i <= n THEN u[i] ELSE high[i - n]
          BY <4>2 DEF n, m
        <5> HIDE DEF p
        <5>3. t[p] = high[p - n]
          BY <5>1, <5>2
        <5> QED BY <5>1, <5>3 DEF p
      <4> QED BY <4>2, <4>5, <4>6 DEF n, m
    <3> QED BY <2>3, <2>5, <3>1
  <2>7. \A j \in k..Len(s) : t[j + 1] = s[j]
    <3> SUFFICES ASSUME NEW j \in k..Len(s) PROVE t[j + 1] = s[j]
      OBVIOUS
    <3> DEFINE i == j - k + 1
    <3>1. i \in 1..(Len(s) - k + 1) /\ k + i = j + 1 /\ k + i - 1 = j
      BY <2>1
    <3> HIDE DEF i
    <3> QED BY <2>3, <2>6, <3>1
  <2>8. \A j \in 1..(k - 1) : t[j] = s[j]
    BY <2>1, <2>2, <2>5, <2>6
  <2> QED BY <2>1, <2>5, <2>6, <2>7, <2>8 DEF Insertion, t
<1> QED BY <1>1, <1>2, <1>3

\* The block under construction goes behind all that do not start after x.
LEMMA InsertsIntoPage ==
    ASSUME NEW p \in Pages, pages \in [Pages -> Seq(Nat)], NEW x, New \in Nat
    PROVE  \E q \in Seq(Nat) : \E k \in 1..(Len(pages[p]) + 1) :
              /\ InsertIntoPage(p, x) = [pages EXCEPT ![p] = q]
              /\ Insertion(pages[p], k, New, q)
              /\ \A j \in 1..(k - 1) : ~(blocks[pages[p][j]].start > x)
              /\ k <= Len(pages[p]) => blocks[pages[p][k]].start > x
<1> DEFINE s == pages[p]
           after == {i \in DOMAIN s : blocks[s[i]].start > x}
<1>1. s \in Seq(Nat) /\ Len(s) \in Nat /\ DOMAIN s = 1..Len(s)
  OBVIOUS
<1>2. InsertIntoPage(p, x) = [pages EXCEPT ![p] = IF after = {} THEN Append(s, New) ELSE InsertAt(s, Min(after), New)]
  BY DEF InsertIntoPage
<1> HIDE DEF s
<1>3. CASE after = {}
  <2> DEFINE q == Append(s, New)
  <2>1. Insertion(s, Len(s) + 1, New, q)
    BY <1>1, Insertions
  <2> HIDE DEF q
  <2>2. \A j \in 1..Len(s) : ~(blocks[s[j]].start > x)
    BY <1>1, <1>3
  <2>3. InsertIntoPage(p, x) = [pages EXCEPT ![p] = q]
    BY <1>2, <1>3 DEF q
  <2>4. Len(s) + 1 \in 1..(Len(s) + 1) /\ (Len(s) + 1) - 1 = Len(s) /\ ~(Len(s) + 1 <= Len(s))
    BY <1>1
  <2>5. q \in Seq(Nat)
    BY <2>1 DEF Insertion
  <2> QED BY <2>1, <2>2, <2>3, <2>4, <2>5 DEF s
<1>4. CASE after # {}
  <2> DEFINE k == Min(after)
             q == InsertAt(s, k, New)
  <2>1. after \in SUBSET Nat
    BY <1>1
  <2>2. k \in after /\ \A j \in after : k <= j
    BY <1>4, <2>1, LeastOf
  <2> HIDE DEF k
  <2>3. k \in 1..Len(s) /\ blocks[s[k]].start > x
    BY <1>1, <2>2
  <2>4. Insertion(s, k, New, q)
    BY <1>1, <2>3, Insertions
  <2> HIDE DEF q
  <2>5. \A j \in 1..(k - 1) : ~(blocks[s[j]].start > x)
    <3> SUFFICES ASSUME NEW j \in 1..(k - 1), blocks[s[j]].start > x PROVE FALSE
      OBVIOUS
    <3>1. j \in 1..Len(s)
      BY <1>1, <2>3
    <3>2. j \in after
      BY <1>1, <3>1
    <3> QED BY <2>2, <2>3, <3>2
  <2>6. InsertIntoPage(p, x) = [pages EXCEPT ![p] = q]
    BY <1>2, <1>4 DEF q, k
  <2>7. q \in Seq(Nat) /\ k \in 1..(Len(s) + 1)
    BY <1>1, <2>3, <2>4 DEF Insertion
  <2> QED BY <2>3, <2>4, <2>5, <2>6, <2>7 DEF s
<1> QED BY <1>3, <1>4

\* What is being added: an instruction that decodes, behind the others.
LEMMA InstrFacts ==
    ASSUME Inv, status = "adding"
    PROVE  /\ New \in Nat /\ New >= 1 /\ Len(blocks) = New /\ Filling \in Entries
           /\ AtEnd(Filling, code, offsets)
           /\ Decodes(Instr) /\ Instr = todo[1] /\ Len(todo) \in Nat /\ Len(todo) >= 1
           /\ Filling.count # 0 => Instr = Filling.end
<1>1. TypeOK /\ Adding
  BY DEF Inv
<1>2. todo \in Seq(Address) /\ todo # << >> /\ \A i \in 1..Len(todo) : Decodes(todo[i])
  BY <1>1 DEF TypeOK, Adding, Pending
<1>3. Len(todo) \in Nat /\ Len(todo) >= 1 /\ Instr = todo[1] /\ 1 \in 1..Len(todo)
  BY <1>2 DEF Instr
<1>4. blocks \in Seq(Entries) /\ blocks # << >>
  BY <1>1 DEF TypeOK, Adding
<1>5. New \in Nat /\ New >= 1 /\ Len(blocks) = New
  BY <1>4 DEF New
<1>6. Filling \in Entries
  BY <1>4, <1>5 DEF Filling, New
<1> QED BY <1>1, <1>2, <1>3, <1>5, <1>6 DEF Adding

\* Where the block it is linked to lies.
LEMMA NextFacts ==
    ASSUME Inv, status = "adding"
    PROVE  /\ next # 0 => /\ next \in 1..(New - 1) /\ blocks[next] \in Entries
                          /\ blocks[next].start = todo[Len(todo)] + Size[todo[Len(todo)]]
           /\ todo[Len(todo)] \notin EndsBlock => next # 0
           /\ todo[Len(todo)] \in EndsBlock => next = 0
<1>1. TypeOK /\ Adding
  BY DEF Inv
<1>2. New \in Nat /\ Len(blocks) = New
  BY InstrFacts
<1>3. IF todo[Len(todo)] \in EndsBlock THEN next = 0
      ELSE next \in 1..(New - 1) /\ blocks[next].start = todo[Len(todo)] + Size[todo[Len(todo)]]
  BY <1>1, <1>2 DEF Adding, Pending
<1>4. next \in 1..(New - 1) => next # 0 /\ next \in 1..Len(blocks)
  BY <1>2
<1>5. next \in 1..Len(blocks) => blocks[next] \in Entries
  BY <1>1 DEF TypeOK
<1> QED BY <1>3, <1>4, <1>5

\* Its batch, with the jump to the next block behind it where there is one.
LEMMA BatchFacts ==
    ASSUME Inv, status = "adding"
    PROVE  /\ Batch \in Seq(Word) /\ Len(Batch) = BatchSize /\ BatchSize \in Nat
           /\ Translates(Batch, Instr)
           /\ BatchSize = IF IsLast /\ next # 0 THEN Riscv[Instr] + LinkSize ELSE Riscv[Instr]
           /\ \A k \in 1..BatchSize : /\ Batch[k].of = Instr /\ Batch[k].nth = k
                                      /\ k > Riscv[Instr] => Batch[k].to = blocks[next].riscv
<1>1. Instr \in Address /\ Riscv[Instr] \in Nat
  BY InstrFacts, DecodedSize, RiscvSize
<1>2. LinkSize \in Nat /\ LinkSize >= 1
  BY RiscvAssumption
<1>3. /\ BatchSize = IF IsLast /\ next # 0 THEN Riscv[Instr] + LinkSize ELSE Riscv[Instr]
      /\ BatchSize \in Nat /\ BatchSize >= Riscv[Instr]
  BY <1>1, <1>2 DEF BatchSize
<1>4. ASSUME NEW k \in 1..BatchSize, k > Riscv[Instr] PROVE blocks[next].riscv \in Nat
  <2>1. next # 0
    BY <1>1, <1>3, <1>4
  <2>2. blocks[next] \in Entries
    BY <2>1, NextFacts
  <2> QED BY <2>2 DEF Entries
<1> DEFINE word(k) == [of |-> Instr, nth |-> k, to |-> IF k > Riscv[Instr] THEN blocks[next].riscv ELSE Null]
<1>5. \A k \in 1..BatchSize : word(k) \in Word
  BY <1>1, <1>3, <1>4 DEF Word, Null
<1>6. Batch = [k \in 1..BatchSize |-> word(k)]
  BY DEF Batch
<1>7. Batch \in Seq(Word) /\ Len(Batch) = BatchSize
  <2> HIDE DEF word
  <2> QED BY <1>3, <1>5, <1>6
<1>8. \A k \in 1..BatchSize : Batch[k] = word(k)
  BY <1>6
<1>11. \A k \in 1..BatchSize : /\ Batch[k].of = Instr /\ Batch[k].nth = k
                               /\ k > Riscv[Instr] => Batch[k].to = blocks[next].riscv
  <2> SUFFICES ASSUME NEW k \in 1..BatchSize
               PROVE  /\ Batch[k].of = Instr /\ Batch[k].nth = k
                      /\ k > Riscv[Instr] => Batch[k].to = blocks[next].riscv
    OBVIOUS
  <2> DEFINE w == Batch[k]
             v == IF k > Riscv[Instr] THEN blocks[next].riscv ELSE Null
  <2>1. w = [of |-> Instr, nth |-> k, to |-> v]
    BY <1>8
  <2>2. k > Riscv[Instr] => v = blocks[next].riscv
    OBVIOUS
  <2> HIDE DEF w, v
  <2>3. w.of = Instr /\ w.nth = k /\ w.to = v
    BY <2>1
  <2> QED BY <2>2, <2>3 DEF w
<1> HIDE DEF word
<1>9. Translates(Batch, Instr)
  <2>1. \A k \in 1..Riscv[Instr] : k \in 1..BatchSize
    BY <1>1, <1>3
  <2> QED BY <1>3, <1>7, <1>11, <2>1 DEF Translates
<1> QED BY <1>3, <1>7, <1>9, <1>11

\* What adding it does to the lists.
ListsTake(e, x, batch, s, t, C, C2, O, O2) ==
    /\ s \in Nat /\ ListOK(C2, Word) /\ Grown(C, C2) /\ Extended(C, e.riscv, batch, C2, s)
    /\ t \in Nat /\ ListOK(O2, Places) /\ Grown(O, O2)
    /\ Extended(O, e.offsets, << SizeOf(x, batch) >>, O2, t)

LEMMA AddGrows ==
    ASSUME Inv, AddInstruction
    PROVE  /\ ListsTake(Filling, Instr, Batch, Filled.riscv, Filled.offsets, code, code', offsets, offsets')
           /\ Filled = Longer(Filling, Instr, Filled.riscv, Filled.offsets)
<1>1. status = "adding"
  BY DEF AddInstruction
<1>2. /\ Filling \in Entries /\ AtEnd(Filling, code, offsets) /\ Decodes(Instr)
      /\ ListOK(code, Word) /\ ListOK(offsets, Places)
  BY <1>1, InstrFacts DEF Inv, TypeOK
<1>3. Batch \in Seq(Word) /\ Len(Batch) = BatchSize /\ BatchSize \in Nat
  BY <1>1, BatchFacts
<1>4. BatchOffset = SizeOf(Instr, Batch) /\ << BatchOffset >> \in Seq(Places)
  <2>1. Width \in Nat /\ BatchSize <= Width - 1
    BY BuffersAssumption DEF AddInstruction, Stored, BatchLimit
  <2>2. BatchSize % Width = BatchSize
    BY <1>3, <2>1
  <2>3. Size[Instr] \in Nat
    BY <1>2, DecodedSize
  <2>4. BatchOffset = SizeOf(Instr, Batch)
    BY <1>3, <2>2 DEF BatchOffset, SizeOf
  <2>5. BatchOffset \in Places
    BY <1>3, <2>2, <2>3 DEF BatchOffset, Places
  <2> QED BY <2>4, <2>5
<1>5. SectionAt(Filling.riscv, code) /\ SectionAt(Filling.offsets, offsets)
  BY <1>2, SectionsAtEnd
<1>6. Filling.riscv \in Nat /\ Filling.offsets \in Nat /\ CodeMax \in Nat /\ OffsetMax \in Nat
  BY <1>2, <1>3, BuffersAssumption DEF Entries
<1>7. NoWord \in Word /\ NoOffset \in Places
  BY ZeroAddress DEF NoOffset, Places
<1>8. /\ SL(CodeMax, NoWord)!Takes(code, Filling.riscv, Batch)
      /\ code' = SL(CodeMax, NoWord)!Added(code, Filling.riscv, Batch)
      /\ Filled.riscv = SL(CodeMax, NoWord)!StartAfter(code, Filling.riscv, Batch)
  BY Zenon DEF AddInstruction, Stored, Filled, CodeList!Takes, SL!Takes,
         CodeList!Fits, SL!Fits, CodeList!Added, SL!Added, CodeList!StartAfter, SL!StartAfter, CodeList!StoreCount, SL!StoreCount, CodeList!Null, SL!Null,
         CodeList!Reallocates, SL!Reallocates, CodeList!NewBuffer, SL!NewBuffer, CodeList!Moved, SL!Moved,
         CodeList!Allocated, SL!Allocated, CodeList!Written, SL!Written
<1>9. /\ SL(OffsetMax, NoOffset)!Takes(offsets, Filling.offsets, << BatchOffset >>)
      /\ offsets' = SL(OffsetMax, NoOffset)!Added(offsets, Filling.offsets, << BatchOffset >>)
      /\ Filled.offsets = SL(OffsetMax, NoOffset)!StartAfter(offsets, Filling.offsets, << BatchOffset >>)
  BY Zenon DEF AddInstruction, Stored, Filled, OffsetList!Takes, SL!Takes,
         OffsetList!Fits, SL!Fits, OffsetList!Added, SL!Added, OffsetList!StartAfter, SL!StartAfter, OffsetList!StoreCount, SL!StoreCount, OffsetList!Null, SL!Null,
         OffsetList!Reallocates, SL!Reallocates, OffsetList!NewBuffer, SL!NewBuffer, OffsetList!Moved, SL!Moved,
         OffsetList!Allocated, SL!Allocated, OffsetList!Written, SL!Written
<1>10. /\ ListOK(code', Word) /\ Grown(code, code')
       /\ Extended(code, Filling.riscv, Batch, code', Filled.riscv)
  BY <1>2, <1>3, <1>5, <1>6, <1>7, <1>8, ListAdds
<1>11. /\ ListOK(offsets', Places) /\ Grown(offsets, offsets')
       /\ Extended(offsets, Filling.offsets, << SizeOf(Instr, Batch) >>, offsets', Filled.offsets)
  BY <1>2, <1>4, <1>5, <1>6, <1>7, <1>9, ListAdds
<1>12. Filled.riscv \in Nat /\ Filled.offsets \in Nat
  BY <1>10, <1>11 DEF Extended
<1>13. Filled = Longer(Filling, Instr, Filled.riscv, Filled.offsets)
  BY DEF Filled, Longer, StartOf, EndOf
<1> QED BY <1>10, <1>11, <1>12, <1>13 DEF ListsTake

\* The block under construction.
LEMMA AddNew ==
    ASSUME Inv, AddInstruction
    PROVE  /\ Filled \in Entries /\ Filled.count # 0 /\ Filled.end = Instr + Size[Instr]
           /\ Whole(Filled, code', offsets')
           /\ ~IsLast => AtEnd(Filled, code', offsets')
           /\ IsLast => LinkFrom(Filled, StartsOf(Filled, offsets'.memory), New - 1, code', blocks)
<1>1. status = "adding"
  BY DEF AddInstruction
<1>2. /\ Filling \in Entries /\ AtEnd(Filling, code, offsets) /\ Decodes(Instr)
      /\ ListOK(code, Word) /\ ListOK(offsets, Places)
      /\ Filling.count # 0 => Instr = Filling.end
  BY <1>1, InstrFacts DEF Inv, TypeOK
<1>3. /\ Batch \in Seq(Word) /\ Len(Batch) = BatchSize /\ BatchSize \in Nat /\ Translates(Batch, Instr)
      /\ BatchSize = IF IsLast /\ next # 0 THEN Riscv[Instr] + LinkSize ELSE Riscv[Instr]
      /\ \A k \in 1..BatchSize : /\ Batch[k].of = Instr /\ Batch[k].nth = k
                                 /\ k > Riscv[Instr] => Batch[k].to = blocks[next].riscv
  BY <1>1, BatchFacts
<1> DEFINE e == Filling
           x == Instr
           s == Filled.riscv
           t == Filled.offsets
           e2 == Longer(e, x, s, t)
           batch == Batch
           size == SectionSize(code, e.riscv)
           at == StartsOf(e, offsets.memory)
           at2 == StartsOf(e2, offsets'.memory)
           n == e.count
<1>4. ListsTake(e, x, batch, s, t, code, code', offsets, offsets') /\ Filled = e2
  BY AddGrows
<1>5. /\ s \in Nat /\ ListOK(code', Word) /\ Extended(code, e.riscv, batch, code', s)
      /\ t \in Nat /\ ListOK(offsets', Places) /\ Extended(offsets, e.offsets, << SizeOf(x, batch) >>, offsets', t)
  BY <1>4 DEF ListsTake
<1>6. /\ e \in Entries /\ AtEnd(e, code, offsets) /\ Decodes(x)
      /\ e.count # 0 => x = e.end
      /\ ListOK(code, Word) /\ ListOK(offsets, Places)
      /\ batch \in Seq(Word) /\ Translates(batch, x)
  BY <1>2, <1>3
<1> HIDE DEF e, x, s, t, e2, batch, size, at, at2
<1>7. /\ Whole(Longer(e, x, s, t), code', offsets')
      /\ s + SectionSize(code, e.riscv) + Len(batch) = code'.next
      /\ Len(batch) = Riscv[x] /\ x \notin EndsBlock => AtEnd(Longer(e, x, s, t), code', offsets')
  BY <1>2, <1>5, <1>6, WholeGrows
<1>8. /\ e2 \in Entries /\ Appended(at, e, at2, x, s, size, batch)
  BY <1>2, <1>5, <1>6, StartsAppend DEF e2, at, at2, size
<1>9. /\ e2.count = n + 1 /\ n \in Nat /\ e2.end = x + Size[x]
  BY <1>6 DEF e2, Longer, Entries
<1>10. /\ x \in Address /\ Riscv[x] \in Nat /\ (x \in EndsBlock => Riscv[x] > 0)
       /\ LinkSize \in Nat /\ LinkSize >= 1
  BY <1>6, DecodedSize, RiscvSize, RiscvAssumption
<1>11. ASSUME ~IsLast PROVE AtEnd(e2, code', offsets')
  <2>1. todo[1] \notin EndsBlock
    <3> DEFINE k == Len(todo)
    <3>1. k \in Nat /\ k # 1 /\ k >= 1
      BY <1>1, <1>11, InstrFacts DEF IsLast
    <3>2. 1 \in 1..(k - 1)
      <4> HIDE DEF k
      <4> QED BY <3>1
    <3>3. Pending(todo, next, Len(blocks) - 1, blocks)
      BY <1>1 DEF Inv, Adding
    <3> QED BY <3>2, <3>3 DEF Pending
  <2>2. x \notin EndsBlock
    BY <1>1, <2>1, InstrFacts DEF x
  <2>3. Len(batch) = Riscv[x]
    BY <1>3, <1>11 DEF x, batch
  <2> QED BY <1>7, <2>2, <2>3 DEF e2
<1>12. ASSUME IsLast PROVE LinkFrom(e2, at2, New - 1, code', blocks)
  <2>1. at2[e2.count].x86 = x /\ at2[e2.count].riscv = s + size
    <3>1. at2[e2.count] = [x86 |-> x, riscv |-> s + size]
      BY <1>8, <1>9 DEF Appended
    <3> QED BY <3>1
  <2>2. x = todo[Len(todo)]
    BY <1>1, <1>12, InstrFacts DEF IsLast, x
  <2>3. x \notin EndsBlock => next # 0 /\ next \in 1..(New - 1) /\ blocks[next].start = e2.end
    BY <1>1, <1>9, <2>2, NextFacts
  <2>4. Len(batch) = IF x \in EndsBlock THEN Riscv[x] ELSE Riscv[x] + LinkSize
    <3>1. x \in EndsBlock => next = 0
      BY <1>1, <2>2, NextFacts
    <3> QED BY <1>3, <1>12, <2>3, <3>1 DEF x, batch
  <2>5. size \in Nat /\ code'.next = s + size + Len(batch)
    BY <1>2, <1>7, SectionsAtEnd DEF size, e
  <2>6. \A k \in 1..Len(batch) : code'.memory[s + size + k - 1] = batch[k]
    BY <1>5 DEF Extended, size
  <2>7. BeginsAt(at2[e2.count], code')
    <3>1. Len(batch) \in Nat /\ Len(batch) >= 1
      BY <1>10, <2>4
    <3>2. s + size < code'.next /\ s + size + 1 - 1 = s + size /\ 1 \in 1..Len(batch)
      BY <1>5, <2>5, <3>1
    <3>3. batch[1].of = x /\ batch[1].nth = 1
      BY <1>3, <3>2 DEF batch, x
    <3>4. code'.memory[s + size] = batch[1]
      BY <2>6, <3>2
    <3> QED BY <2>1, <3>2, <3>3, <3>4 DEF BeginsAt
  <2>8. ASSUME x \notin EndsBlock
        PROVE  \E c \in 1..(New - 1) : /\ s + size + Riscv[x] < code'.next
                                       /\ code'.memory[s + size + Riscv[x]].to = blocks[c].riscv
                                       /\ blocks[c].start = e2.end
    <3> DEFINE k == Riscv[x] + 1
    <3>1. k \in 1..Len(batch) /\ k > Riscv[x] /\ s + size + k - 1 = s + size + Riscv[x]
      BY <1>5, <1>10, <2>4, <2>5, <2>8
    <3>2. s + size + Riscv[x] < code'.next
      BY <1>5, <1>10, <2>4, <2>5, <2>8
    <3> HIDE DEF k
    <3>3. code'.memory[s + size + k - 1] = batch[k]
      BY <2>6, <3>1
    <3>4. batch[k].to = blocks[next].riscv
      BY <1>3, <3>1 DEF batch, x
    <3> QED BY <2>3, <2>8, <3>1, <3>2, <3>3, <3>4
  <2> QED BY <2>1, <2>7, <2>8 DEF LinkFrom
<1>13. e2.count # 0
  BY <1>9
<1> QED BY <1>4, <1>7, <1>8, <1>9, <1>11, <1>12, <1>13 DEF e2, at2, x

\* The other blocks.
LEMMA AddOthers ==
    ASSUME Inv, AddInstruction, NEW b \in 1..Len(blocks), b # New, blocks[b].count # 0
    PROVE  /\ blocks'[b] = blocks[b] /\ Whole(blocks[b], code', offsets') /\ Starts(b)' = Starts(b)
           /\ Linked(b) => Linked(b)'
<1>1. /\ ListOK(code', Word) /\ Grown(code, code') /\ ListOK(offsets', Places) /\ Grown(offsets, offsets')
  BY AddGrows DEF ListsTake
<1>2. blocks \in Seq(Entries) /\ blocks[b] \in Entries /\ ListOK(code, Word) /\ ListOK(offsets, Places)
  BY DEF Inv, TypeOK
<1>3. Whole(blocks[b], code, offsets)
  BY DEF Inv, BegunWhole
<1> DEFINE m == offsets'.memory
<1>4. Whole(blocks[b], code', offsets') /\ StartsOf(blocks[b], offsets'.memory) = StartsOf(blocks[b], offsets.memory)
  BY <1>1, <1>2, <1>3, WholeStays
<1>5. New \in Nat /\ Len(blocks) = New /\ blocks' = [blocks EXCEPT ![New] = Filled]
  BY InstrFacts DEF AddInstruction
<1>6. \A c \in 1..Len(blocks) : c # New => blocks'[c] = blocks[c]
  BY <1>2, <1>5
<1>7. Starts(b)' = Starts(b)
  BY <1>4, <1>6 DEF Starts
<1>8. ASSUME Linked(b) PROVE Linked(b)'
  <2>1. \A c \in 1..(b - 1) : blocks'[c] = blocks[c]
    <3>1. \A c \in 1..(b - 1) : c \in 1..Len(blocks) /\ c # New
      BY <1>5
    <3> QED BY <1>6, <3>1
  <2> DEFINE at == StartsOf(blocks[b], offsets.memory)
  <2>2. LinkFrom(blocks[b], at, b - 1, code, blocks)
    BY <1>8 DEF Linked, Starts
  <2>3. LinkFrom(blocks[b], at, b - 1, code', blocks')
    BY <1>1, <1>2, <1>3, <2>1, <2>2, LinkStays
  <2> QED BY <1>4, <1>6, <2>3 DEF Linked, Starts
<1> QED BY <1>4, <1>6, <1>7, <1>8

\* Pages list the first n blocks.
PagesTo(pgs, n) ==
    /\ pgs \in [Pages -> Seq(Nat)]
    /\ \A p \in Pages : \A i \in 1..Len(pgs[p]) : pgs[p][i] \in 1..n

LEMMA InsertionStays ==
    ASSUME NEW n \in Nat, NEW pgs, PagesTo(pgs, n), NEW p \in Pages, NEW v \in 1..n,
           NEW k, NEW q, Insertion(pgs[p], k, v, q)
    PROVE  PagesTo([pgs EXCEPT ![p] = q], n)
<1> DEFINE s == pgs[p]
<1>1. /\ q \in Seq(Nat) /\ k \in 1..(Len(s) + 1) /\ Len(q) = Len(s) + 1 /\ q[k] = v
      /\ \A j \in 1..(k - 1) : q[j] = s[j]
      /\ \A j \in k..Len(s) : q[j + 1] = s[j]
  BY DEF Insertion
<1>2. s \in Seq(Nat) /\ Len(s) \in Nat /\ \A i \in 1..Len(s) : s[i] \in 1..n
  BY DEF PagesTo
<1> HIDE DEF s
<1>3. ASSUME NEW i \in 1..Len(q) PROVE q[i] \in 1..n
  <2>1. CASE i < k
    <3>1. i \in 1..(k - 1) /\ i \in 1..Len(s)
      BY <1>1, <1>2, <2>1
    <3> QED BY <1>1, <1>2, <3>1
  <2>2. CASE i = k
    BY <1>1, <2>2
  <2>3. CASE i > k
    <3>1. i - 1 \in k..Len(s) /\ i - 1 \in 1..Len(s) /\ (i - 1) + 1 = i
      BY <1>1, <1>2, <2>3
    <3>2. q[i] = s[i - 1]
      BY <1>1, <3>1
    <3> QED BY <1>2, <3>1, <3>2
  <2> QED BY <1>1, <1>2, <2>1, <2>2, <2>3
<1> DEFINE pgs2 == [pgs EXCEPT ![p] = q]
<1>4. pgs2 \in [Pages -> Seq(Nat)] /\ \A r \in Pages : pgs2[r] = IF r = p THEN q ELSE pgs[r]
  BY <1>1 DEF PagesTo
<1> HIDE DEF pgs2
<1>5. ASSUME NEW r \in Pages, NEW i \in 1..Len(pgs2[r]) PROVE pgs2[r][i] \in 1..n
  <2>1. CASE r = p
    BY <1>3, <1>4, <1>5, <2>1
  <2>2. CASE r # p
    BY <1>4, <1>5, <2>2 DEF PagesTo
  <2> QED BY <2>1, <2>2
<1> QED BY <1>4, <1>5 DEF PagesTo, pgs2

LEMMA AddPages == ASSUME Inv, AddInstruction PROVE PagesTo(pages', New)
<1>1. status = "adding" /\ ~OutOfPages
  BY DEF AddInstruction
<1>2. New \in Nat /\ New \in 1..New /\ Len(blocks) = New /\ Instr \in Address
  BY <1>1, InstrFacts, DecodedSize
<1>3. PagesTo(pages, New)
  BY <1>2 DEF Inv, TypeOK, PagesTo
<1>4. PagesTo(PagesAfterInsert, New)
  <2>1. CASE Filling.count = 0
    <3> DEFINE p == PageIndex(Instr)
    <3>1. p \in Pages
      BY <1>2, AddressesInPages
    <3> HIDE DEF p
    <3>2. PICK q \in Seq(Nat), k \in 1..(Len(pages[p]) + 1) :
             InsertIntoPage(p, Instr) = [pages EXCEPT ![p] = q] /\ Insertion(pages[p], k, New, q)
      <4>1. pages \in [Pages -> Seq(Nat)]
        BY <1>3 DEF PagesTo
      <4> QED BY <1>2, <3>1, <4>1, InsertsIntoPage
    <3>3. PagesTo(InsertIntoPage(p, Instr), New)
      <4>1. PagesTo([pages EXCEPT ![p] = q], New)
        BY <1>2, <1>3, <3>1, <3>2, InsertionStays
      <4> QED BY <3>2, <4>1
    <3> QED BY <2>1, <3>3 DEF PagesAfterInsert, p
  <2>2. CASE Filling.count # 0
    BY <1>3, <2>2 DEF PagesAfterInsert
  <2> QED BY <2>1, <2>2
<1>5. ASSUME Overlaps PROVE PagesTo(Overlap(PagesAfterInsert, PageIndex(EndOf)), New)
  <2> DEFINE p == PageIndex(EndOf)
             pgs == PagesAfterInsert
  <2>1. p \in Pages
    BY <1>1, <1>5 DEF OutOfPages
  <2> HIDE DEF p, pgs
  <2>2. PagesTo(pgs, New) /\ pgs[p] \in Seq(Nat)
    BY <1>4, <2>1 DEF PagesTo, pgs
  <2>3. Insertion(pgs[p], 1, New, << New >> \o pgs[p])
    BY <1>2, <2>2, Insertions
  <2>4. PagesTo([pgs EXCEPT ![p] = << New >> \o pgs[p]], New)
    BY <1>2, <2>1, <2>2, <2>3, InsertionStays
  <2>5. PagesTo(Overlap(pgs, p), New)
    BY <2>2, <2>4 DEF Overlap
  <2> QED BY <2>5 DEF p, pgs
<1> QED BY <1>4, <1>5 DEF AddInstruction

\* What is left to be added.
LEMMA AddPending ==
    ASSUME Inv, AddInstruction, ~IsLast
    PROVE  /\ Pending(Tail(todo), next, New - 1, blocks')
           /\ Head(Tail(todo)) = Instr + Size[Instr]
<1>1. status = "adding" /\ Len(todo) # 1
  BY DEF AddInstruction, IsLast
<1>2. Len(todo) \in Nat /\ Len(todo) >= 1 /\ Instr = todo[1] /\ New \in Nat /\ Len(blocks) = New
  BY <1>1, InstrFacts
<1>3. todo \in Seq(Address) /\ blocks \in Seq(Entries)
  BY DEF Inv, TypeOK
<1>4. Pending(todo, next, New - 1, blocks)
  BY <1>1, <1>2 DEF Inv, Adding
<1> DEFINE s == todo
           n == Len(s)
           t == Tail(s)
<1>5. /\ t \in Seq(Address) /\ Len(t) = n - 1 /\ \A i \in 1..(n - 1) : t[i] = s[i + 1]
  BY <1>1, <1>2, <1>3
<1>6. n \in Nat /\ n >= 2
  <2>1. n \in Nat /\ n >= 1 /\ n # 1
    BY <1>1, <1>2
  <2> HIDE DEF n
  <2> QED BY <2>1
<1> HIDE DEF s, n, t
<1>7. Head(t) = t[1] /\ t # << >>
  <2>1. Len(t) # 0
    BY <1>5, <1>6
  <2>2. t # << >>
    BY <2>1
  <2>3. Head(t) = t[1]
    BY <1>5, <2>2
  <2> QED BY <2>2, <2>3
<1>8. /\ \A i \in 1..n : Decodes(s[i])
      /\ \A i \in 1..(n - 1) : s[i] \notin EndsBlock /\ s[i + 1] = s[i] + Size[s[i]]
      /\ IF s[n] \in EndsBlock THEN next = 0
         ELSE next \in 1..(New - 1) /\ blocks[next].start = s[n] + Size[s[n]]
  BY <1>4 DEF Pending, s, n
<1>9. t[n - 1] = s[n]
  <2>1. n - 1 \in 1..(n - 1) /\ (n - 1) + 1 = n
    BY <1>6
  <2> QED BY <1>5, <2>1
<1>10. ASSUME NEW i \in 1..(n - 1) PROVE Decodes(t[i])
  <2>1. i + 1 \in 1..n
    BY <1>6
  <2> QED BY <1>5, <1>8, <2>1
<1>11. ASSUME NEW i \in 1..((n - 1) - 1) PROVE t[i] \notin EndsBlock /\ t[i + 1] = t[i] + Size[t[i]]
  <2>1. i + 1 \in 1..(n - 1) /\ i \in 1..(n - 1)
    BY <1>6
  <2>2. t[i] = s[i + 1] /\ t[i + 1] = s[(i + 1) + 1]
    BY <1>5, <2>1
  <2> QED BY <1>8, <2>1, <2>2
<1>12. \A c \in 1..(New - 1) : blocks'[c] = blocks[c]
  <2>1. blocks' = [blocks EXCEPT ![New] = Filled]
    BY DEF AddInstruction
  <2> QED BY <1>2, <1>3, <2>1
<1>13. IF t[n - 1] \in EndsBlock THEN next = 0
       ELSE next \in 1..(New - 1) /\ blocks'[next].start = t[n - 1] + Size[t[n - 1]]
  BY <1>8, <1>9, <1>12
<1>14. Pending(t, next, New - 1, blocks')
  BY <1>5, <1>7, <1>10, <1>11, <1>13 DEF Pending
<1>15. t[1] = s[1] + Size[s[1]]
  <2>1. 1 \in 1..(n - 1)
    BY <1>6
  <2> QED BY <1>5, <1>8, <2>1
<1> QED BY <1>2, <1>7, <1>14, <1>15 DEF t, s

LEMMA AddKeeps == ASSUME Inv, AddInstruction PROVE Inv'
<1>1. status = "adding"
  BY DEF AddInstruction
<1>2. TypeOK /\ BegunWhole /\ FinishedLinked /\ blocks \in Seq(Entries) /\ todo \in Seq(Address)
  BY DEF Inv, TypeOK
<1>3. New \in Nat /\ New >= 1 /\ Len(blocks) = New /\ Len(todo) \in Nat /\ Len(todo) >= 1
  BY <1>1, InstrFacts
<1>4. Filled \in Entries /\ Filled.count # 0 /\ Filled.end = Instr + Size[Instr] /\ Whole(Filled, code', offsets')
  BY AddNew
<1>5. blocks' = [blocks EXCEPT ![New] = Filled] /\ todo' = Tail(todo)
  BY DEF AddInstruction
<1>6. /\ blocks' \in Seq(Entries) /\ Len(blocks') = New /\ blocks'[New] = Filled
      /\ \A c \in 1..New : c # New => blocks'[c] = blocks[c]
  BY <1>2, <1>3, <1>4, <1>5
<1>7. IF IsLast THEN status' = "idle" /\ next' = 0 /\ answer' = [answer EXCEPT !.riscv = Filled.riscv]
      ELSE status' = "adding" /\ next' = next /\ answer' = answer
  BY <1>1 DEF AddInstruction
<1>8. TypeOK'
  <2>1. ListOK(code', Word) /\ ListOK(offsets', Places)
    BY AddGrows DEF ListsTake
  <2>2. ListOK(code, Word)' /\ ListOK(offsets, Places)'
    BY <2>1, ZeroAddress DEF ListOK, Lists, Word, Address, ImageSize, Places
  <2>3. PagesTo(pages', Len(blocks'))
    BY <1>6, AddPages
  <2>4. todo' \in Seq(Address) /\ next' \in Nat
    <3>1. todo # << >>
      BY <1>3
    <3>2. todo' \in Seq(Address)
      BY <1>2, <1>5, <3>1
    <3> QED BY <1>2, <1>7, <3>2 DEF TypeOK
  <2>5. answer' \in Places
    <3>1. answer \in Places /\ Filled.riscv \in Nat
      BY <1>2, <1>4 DEF TypeOK, Entries
    <3> QED BY <1>7, <3>1 DEF Places
  <2> QED BY <1>6, <1>7, <2>2, <2>3, <2>4, <2>5 DEF TypeOK, PagesTo
<1>9. BegunWhole'
  <2>1. ASSUME NEW b \in 1..New, blocks'[b].count # 0 PROVE Whole(blocks'[b], code', offsets')
    <3>1. CASE b = New
      BY <1>4, <1>6, <3>1
    <3>2. CASE b # New
      <4>1. blocks'[b] = blocks[b] /\ b \in 1..Len(blocks)
        BY <1>3, <1>6, <3>2
      <4> QED BY <2>1, <3>2, <4>1, AddOthers
    <3> QED BY <3>1, <3>2
  <2> QED BY <1>6, <2>1 DEF BegunWhole
<1>10. FinishedLinked'
  <2>1. ASSUME NEW b \in 1..New, b # New PROVE blocks'[b].count # 0 /\ Linked(b)'
    <3>1. b \in 1..(New - 1) /\ b \in 1..Len(blocks)
      BY <1>3, <2>1
    <3>2. b \in Finished
      BY <1>1, <1>3, <3>1 DEF Finished
    <3>3. blocks[b].count # 0 /\ Linked(b)
      BY <1>2, <3>2 DEF FinishedLinked
    <3> QED BY <2>1, <3>1, <3>3, AddOthers
  <2>2. ASSUME IsLast PROVE Linked(New)'
    <3>1. LinkFrom(Filled, StartsOf(Filled, offsets'.memory), New - 1, code', blocks)
      BY <2>2, AddNew
    <3>2. \A c \in 1..(New - 1) : blocks'[c] = blocks[c]
      BY <1>3, <1>6
    <3>3. LinkFrom(Filled, StartsOf(Filled, offsets'.memory), New - 1, code', blocks')
      BY <3>1, <3>2 DEF LinkFrom
    <3>4. New' = New
      BY <1>6 DEF New
    <3> QED BY <1>6, <3>3, <3>4 DEF Linked, Starts
  <2>3. Finished' = IF IsLast THEN 1..New ELSE 1..(New - 1)
    BY <1>6, <1>7 DEF Finished
  <2>4. ASSUME NEW b \in Finished' PROVE blocks'[b].count # 0 /\ Linked(b)'
    <3>1. CASE b = New
      <4>1. IsLast
        BY <1>3, <2>3, <2>4, <3>1
      <4>2. New' = New
        BY <1>6 DEF New
      <4> QED BY <1>4, <1>6, <2>2, <3>1, <4>1, <4>2 DEF Linked, Starts
    <3>2. CASE b # New
      <4>1. b \in 1..New
        BY <1>3, <2>3, <2>4
      <4> QED BY <2>1, <3>2, <4>1
    <3> QED BY <3>1, <3>2
  <2> QED BY <2>4 DEF FinishedLinked
<1>11. status' = "adding" => Adding'
  <2> SUFFICES ASSUME status' = "adding" PROVE Adding'
    OBVIOUS
  <2>1. ~IsLast /\ next' = next
    BY <1>7
  <2>2. Filling' = Filled /\ blocks' # << >> /\ Len(blocks') - 1 = New - 1
    BY <1>3, <1>6 DEF Filling, New
  <2>3. AtEnd(Filled, code', offsets')
    BY <2>1, AddNew
  <2>4. Pending(todo', next', Len(blocks') - 1, blocks') /\ Head(todo') = Filled.end
    BY <1>4, <1>5, <2>1, <2>2, AddPending
  <2>5. Pending(todo, next, Len(blocks) - 1, blocks)'
    BY <2>4 DEF Pending
  <2>6. AtEnd(Filling, code, offsets)'
    BY <2>2, <2>3
  <2> QED BY <2>2, <2>4, <2>5, <2>6 DEF Adding
<1> QED BY <1>8, <1>9, <1>10, <1>11 DEF Inv

LEMMA StepKeeps == Inv /\ [Next]_vars => Inv'
<1> SUFFICES ASSUME Inv, [Next]_vars PROVE Inv'
  OBVIOUS
<1>1. CASE Translate
  <2>1. PICK x \in Targets : Known(x) \/ CannotTranslate(x) \/ CreateBlock(x)
    BY <1>1 DEF Translate
  <2>2. status = "idle"
    BY <1>1 DEF Translate
  <2> QED BY <2>1, <2>2, KnownKeeps, RefusalKeeps, CreateKeeps
<1>2. CASE AddInstruction
  BY <1>2, AddKeeps
<1>3. CASE CannotAdd \/ Corrupts \/ Terminated \/ UNCHANGED vars
  BY <1>3, RefusalKeeps DEF Terminated
<1> QED BY <1>1, <1>2, <1>3 DEF Next

-----------------------------------------------------------------------------
(* What follows from it, whatever instructions overlap *)

\* In every reachable state the lists hold whole translations of every block
\* that has an instruction, the block under construction lies at the end of
\* both, and every finished block ends with eob or in a jump to a block made
\* before it that starts where it ends.
THEOREM StoreInductive == Spec => []Inv
<1> QED BY Initially, StepKeeps, PTL DEF Spec

LEMMA HeldIsHeld ==
    ASSUME NEW h, NEW x, Held(code.memory, h, x)
    PROVE  Holds(h, x)
  BY DEF Held, Holds

\* From every instruction of a finished block on, the code leads to what comes
\* first: its own, that of an instruction behind it, or the jump at the end.
LEMMA InstructionsLead ==
    ASSUME Inv, NEW b \in Finished, NEW i \in 1..blocks[b].count
    PROVE  Leads(Starts(b)[i].riscv, Starts(b)[i].x86)
<1> DEFINE n == blocks[b].count
           at == Starts(b)
           Good(k) == Leads(at[k].riscv, at[k].x86)
           S == {k \in Nat : k <= n - 1 => Good(n - k)}
<1>1. TypeOK /\ BegunWhole /\ FinishedLinked /\ blocks \in Seq(Entries) /\ Len(blocks) \in Nat
  BY DEF Inv, TypeOK
<1>2. b \in 1..Len(blocks) /\ Linked(b)
  BY <1>1 DEF Finished, FinishedLinked
<1>3. blocks[b] \in Entries /\ n \in Nat /\ n >= 1
  <2>1. blocks[b] \in Entries
    BY <1>1, <1>2
  <2>2. n \in Nat
    BY <2>1 DEF Entries
  <2> QED BY <2>1, <2>2
<1>4. ASSUME NEW k \in 1..n
      PROVE  /\ at[k].riscv \in Nat /\ at[k].riscv >= 2 /\ Translated(at, k, code)
             /\ k # n => Falls(at, k)
  <2>1. Whole(blocks[b], code, offsets) /\ at[k] \in Places /\ Translated(at, k, code)
    BY <1>1, <1>2, StartsInPlaces
  <2>2. k \in 1..(n + 1) /\ (k # n => k \in 1..(n - 1))
    BY <1>3
  <2>3. 2 <= blocks[b].riscv /\ blocks[b].riscv <= at[k].riscv /\ (k # n => Falls(at, k))
    BY <2>1, <2>2 DEF Whole, Starts
  <2>4. at[k].riscv \in Nat /\ blocks[b].riscv \in Nat
    BY <1>3, <2>1 DEF Places, Entries
  <2> QED BY <2>1, <2>3, <2>4
<1>5. code.next \in Nat /\ code.next <= Len(code.memory) + 1 /\ Len(code.memory) \in Nat
  BY <1>1, ListBounds DEF TypeOK
<1>6. Good(n)
  <2>1. at[n].riscv < code.next /\ code.memory[at[n].riscv].of = at[n].x86 /\ code.memory[at[n].riscv].nth = 1
    BY <1>2 DEF Linked, LinkFrom, BeginsAt
  <2>2. at[n].riscv \in Nat /\ at[n].riscv >= 2
    BY <1>3, <1>4
  <2>3. at[n].riscv \in 1..Len(code.memory)
    BY <1>5, <2>1, <2>2
  <2> QED BY <2>1, <2>3 DEF Leads
<1>7. ASSUME NEW k \in 1..(n - 1), Good(k + 1) PROVE Good(k)
  <2>1. k \in 1..n /\ k # n
    BY <1>3
  <2> DEFINE x == at[k].x86
             h == at[k].riscv
  <2>2. /\ h \in Nat /\ Decodes(x) /\ at[k + 1].x86 = x + Size[x] /\ Held(code.memory, h, x)
        /\ at[k + 1].riscv = h + Riscv[x]
    BY <1>4, <2>1 DEF Translated, Falls
  <2> HIDE DEF x, h
  <2>3. Riscv[x] \in Nat
    BY <2>2, DecodedSize, RiscvSize
  <2>4. CASE Riscv[x] = 0
    <3>1. at[k + 1].riscv = h /\ FirstCode[at[k + 1].x86] = FirstCode[x]
      BY <2>2, <2>4, FirstCodeFrom
    <3>2. Leads(h, x)
      BY <1>7, <3>1 DEF Leads
    <3> QED BY <3>2 DEF x, h
  <2>5. CASE Riscv[x] # 0
    <3>1. 1 \in 1..Riscv[x] /\ h + 1 - 1 = h
      BY <2>2, <2>3, <2>5
    <3>2. h \in 1..Len(code.memory) /\ code.memory[h].of = x /\ code.memory[h].nth = 1
      BY <2>2, <3>1 DEF Held
    <3>3. Leads(h, x)
      BY <3>2 DEF Leads
    <3> QED BY <3>3 DEF x, h
  <2> QED BY <2>4, <2>5
<1> HIDE DEF Good, n
<1>8. 0 \in S
  BY <1>3, <1>6
<1>9. ASSUME NEW k \in Nat, k \in S PROVE k + 1 \in S
  <2> SUFFICES ASSUME k + 1 <= n - 1 PROVE Good(n - (k + 1))
    OBVIOUS
  <2>1. n - (k + 1) \in 1..(n - 1) /\ (n - (k + 1)) + 1 = n - k /\ k <= n - 1
    BY <1>3
  <2>2. Good((n - (k + 1)) + 1)
    BY <1>9, <2>1
  <2> QED BY <1>7, <2>1, <2>2
<1> HIDE DEF S
<1>10. Nat \subseteq S
  BY <1>8, <1>9, Induction
<1>11. n - i \in Nat /\ n - i <= n - 1 /\ n - (n - i) = i
  BY <1>3 DEF n
<1>12. Good(i)
  BY <1>10, <1>11 DEF S
<1> QED BY <1>12 DEF Good

LEMMA FoundIsSound == Inv => FindSound
<1> SUFFICES ASSUME Inv, NEW x \in Address, Find(x) # Null
             PROVE  Holds(Find(x), x) /\ (FindBlock(x) \in Finished => Leads(Find(x), x))
  BY DEF FindSound
<1>1. PICK b \in 1..Len(blocks) : \E i \in 1..blocks[b].count :
               FindBlock(x) = b /\ Starts(b)[i].x86 = x /\ Find(x) = Starts(b)[i].riscv
  BY Found DEF Inv, Null
<1>2. PICK i \in 1..blocks[b].count :
               FindBlock(x) = b /\ Starts(b)[i].x86 = x /\ Find(x) = Starts(b)[i].riscv
  BY <1>1
<1>3. Translated(Starts(b), i, code)
  BY StartsInPlaces DEF Inv
<1>4. Held(code.memory, Find(x), x)
  BY <1>2, <1>3 DEF Translated
<1>5. b \in Finished => Leads(Starts(b)[i].riscv, Starts(b)[i].x86)
  BY InstructionsLead
<1> QED BY <1>2, <1>4, <1>5, HeldIsHeld

\* Where find() has an answer, a translation of that very instruction lies
\* there, for every code, also where blocks overlap: the search may take x to
\* be in any block that contains it.  That of an instruction without code leads
\* to what the guest does behind it, once its block is finished.
THEOREM AnswersAreTranslations == Spec => []FindSound
<1>1. Inv => FindSound
  BY FoundIsSound
<1> QED BY <1>1, StoreInductive, PTL

LEMMA FlowsOn == Inv => CodeFlows
<1> SUFFICES ASSUME Inv PROVE CodeFlows
  OBVIOUS
<1> SUFFICES ASSUME NEW b \in Finished
             PROVE  LET n == blocks[b].count
                        last == Starts(b)[n]
                        after == last.riscv + Riscv[last.x86]
                    IN /\ \A i \in 1..n : Holds(Starts(b)[i].riscv, Starts(b)[i].x86)
                       /\ \A i \in 1..(n - 1) :
                             Starts(b)[i + 1].riscv = Starts(b)[i].riscv + Riscv[Starts(b)[i].x86]
                       /\ last.x86 \notin EndsBlock =>
                             /\ after \in 1..Len(code.memory)
                             /\ code.memory[after].to # Null
                             /\ Holds(code.memory[after].to, blocks[b].end)
                             /\ Leads(code.memory[after].to, blocks[b].end)
  BY DEF CodeFlows
<1> DEFINE n == blocks[b].count
           at == Starts(b)
           y == at[n].x86
           h == at[n].riscv
           r == Riscv[y]
           after == h + r
<1>1. TypeOK /\ BegunWhole /\ FinishedLinked /\ blocks \in Seq(Entries) /\ Len(blocks) \in Nat
  BY DEF Inv, TypeOK
<1>2. b \in 1..Len(blocks) /\ n # 0 /\ Linked(b) /\ \A c \in 1..(b - 1) : c \in Finished
  <2>1. b \in 1..Len(blocks) /\ \A c \in 1..(b - 1) : c \in Finished
    BY <1>1 DEF Finished
  <2> QED BY <1>1, <2>1 DEF FinishedLinked
<1>3. n \in Nat /\ n >= 1 /\ n \in 1..n
  <2>1. blocks[b] \in Entries
    BY <1>1, <1>2
  <2> QED BY <1>2, <2>1 DEF Entries
<1>4. Whole(blocks[b], code, offsets) /\ at[n] \in Places /\ Translated(at, n, code)
  BY <1>1, <1>2, <1>3, StartsInPlaces
<1>5. /\ \A i \in 1..n : Translated(at, i, code)
      /\ \A i \in 1..(n - 1) : Falls(at, i)
      /\ blocks[b].riscv <= h /\ 2 <= blocks[b].riscv
  <2>1. n \in 1..(n + 1)
    BY <1>3
  <2> QED BY <1>4, <2>1 DEF Whole, Starts
<1>6. \A i \in 1..n : Holds(at[i].riscv, at[i].x86)
  BY <1>5, HeldIsHeld DEF Translated
<1>7. \A i \in 1..(n - 1) : at[i + 1].riscv = at[i].riscv + Riscv[at[i].x86]
  BY <1>5 DEF Falls
<1>8. ASSUME y \notin EndsBlock
      PROVE  /\ after \in 1..Len(code.memory)
             /\ code.memory[after].to # Null
             /\ Holds(code.memory[after].to, blocks[b].end)
             /\ Leads(code.memory[after].to, blocks[b].end)
  <2>1. \E c \in 1..(b - 1) : /\ after < code.next /\ code.memory[after].to = blocks[c].riscv
                              /\ blocks[c].start = blocks[b].end
    BY <1>2, <1>8 DEF Linked, LinkFrom
  <2>2. PICK c \in 1..(b - 1) : /\ after < code.next /\ code.memory[after].to = blocks[c].riscv
                                /\ blocks[c].start = blocks[b].end
    BY <2>1
  <2>3. h \in Nat /\ r \in Nat /\ blocks[b].riscv \in Nat
    <3>1. Decodes(y)
      BY <1>4 DEF Translated
    <3>2. blocks[b] \in Entries
      BY <1>1, <1>2
    <3> QED BY <1>4, <3>1, <3>2, DecodedSize, RiscvSize DEF Places, Entries
  <2>4. code.next \in Nat /\ code.next <= Len(code.memory) + 1 /\ Len(code.memory) \in Nat
    BY <1>1, ListBounds DEF TypeOK
  <2>5. after \in 1..Len(code.memory)
    <3> HIDE DEF h, r
    <3> QED BY <1>5, <2>2, <2>3, <2>4
  <2>6. c \in Finished /\ c \in 1..Len(blocks) /\ blocks[c].count # 0 /\ blocks[c] \in Entries
    <3>1. c \in Finished /\ c \in 1..Len(blocks)
      BY <1>1, <1>2
    <3> QED BY <1>1, <3>1 DEF FinishedLinked
  <2>7. 1 \in 1..blocks[c].count
    BY <2>6 DEF Entries
  <2>8. /\ StartsFollow(Starts(c), blocks[c], offsets.memory) /\ Translated(Starts(c), 1, code)
        /\ Whole(blocks[c], code, offsets)
    BY <1>1, <2>6, <2>7, StartsInPlaces
  <2>9. Starts(c)[1].x86 = blocks[c].start /\ Starts(c)[1].riscv = blocks[c].riscv
    BY <2>8 DEF StartsFollow
  <2>10. Holds(blocks[c].riscv, blocks[b].end)
    BY <2>2, <2>8, <2>9, HeldIsHeld DEF Translated
  <2>11. blocks[c].riscv # Null
    BY <2>6, <2>8 DEF Whole, Null, Entries
  <2>12. Leads(blocks[c].riscv, blocks[b].end)
    BY <2>2, <2>6, <2>7, <2>9, InstructionsLead
  <2> QED BY <2>2, <2>5, <2>10, <2>11, <2>12
<1> QED BY <1>6, <1>7, <1>8

\* The code of a finished block is there in full, runs on from each instruction
\* to the next, and runs into code for the address behind it, for every code,
\* also where blocks overlap and whatever instructions have none.
THEOREM BlocksRunOn == Spec => []CodeFlows
<1>1. Inv => CodeFlows
  BY FlowsOn
<1> QED BY <1>1, StoreInductive, PTL

-----------------------------------------------------------------------------
(* Where instructions do not overlap *)

\* The instructions of a block are those of the reading.
InReading(B, e, at) ==
    \A i \in 1..e.count : at[i].x86 \in B /\ e.start <= at[i].x86 /\ at[i].x86 < e.end
BlocksRead(B) == \A b \in 1..Len(blocks) : InReading(B, blocks[b], Starts(b))

\* No two blocks overlap.
Apart(e, f) == e.end <= f.start \/ f.end <= e.start
AllApart == \A b, c \in 1..Len(blocks) :
               b # c /\ blocks[b].count # 0 /\ blocks[c].count # 0 => Apart(blocks[b], blocks[c])

\* A page lists blocks that touch it, in order, and every block is listed where
\* one of its instructions starts and where the last one ends.
Listed(pgs, p, b) == \E j \in 1..Len(pgs[p]) : pgs[p][j] = b
Spans(e, p) == e.count # 0 /\ PageIndex(e.start) <= p /\ p <= PageIndex(e.end)
PagesSpan == \A p \in Pages : \A i \in 1..Len(pages[p]) : Spans(blocks[pages[p][i]], p)
PagesOrdered ==
    \A p \in Pages : \A i, j \in 1..Len(pages[p]) :
       i < j => blocks[pages[p][i]].start < blocks[pages[p][j]].start
ListedAlong(pgs, b, e, at) ==
    \A i \in 1..(e.count + 1) : PageIndex(at[i].x86) \in Pages /\ Listed(pgs, PageIndex(at[i].x86), b)
AllListed == \A b \in 1..Len(blocks) : blocks[b].count # 0 => ListedAlong(pages, b, blocks[b], Starts(b))

\* What is still to be added belongs to the reading, and no block lies where
\* the new one will.
Reserved(B) ==
    /\ \A i \in 1..Len(todo) : todo[i] \in B
    /\ \A c \in 1..(New - 1) : \/ blocks[c].end <= StartOf
                               \/ \A i \in 1..Len(todo) : todo[i] + Size[todo[i]] <= blocks[c].start

Placed(B) == /\ BlocksRead(B) /\ AllApart /\ PagesSpan /\ PagesOrdered /\ AllListed
             /\ status = "adding" => Reserved(B)
InvRead(B) == Inv /\ Placed(B)

LEMMA BegunBlocks ==
    ASSUME NEW B, InvRead(B), NEW b \in 1..Len(blocks), blocks[b].count # 0
    PROVE  /\ blocks[b] \in Entries /\ blocks[b].start < blocks[b].end /\ b \in Nat
           /\ blocks[b].count \in Nat /\ blocks[b].count >= 1
           /\ StartsFollow(Starts(b), blocks[b], offsets.memory)
           /\ Starts(b)[1].x86 = blocks[b].start
           /\ Starts(b)[blocks[b].count + 1].x86 = blocks[b].end
           /\ \A i \in 1..blocks[b].count :
                 /\ Translated(Starts(b), i, code) /\ Starts(b)[i] \in Places
                 /\ Starts(b)[i].x86 \in B /\ Starts(b)[i].x86 \in Nat
                 /\ blocks[b].start <= Starts(b)[i].x86 /\ Starts(b)[i].x86 < blocks[b].end
<1>1. blocks[b] \in Entries /\ TypeOK /\ BegunWhole
  BY DEF InvRead, Inv, TypeOK
<1>2. blocks[b].count \in Nat /\ blocks[b].count >= 1 /\ 1 \in 1..blocks[b].count
  BY <1>1 DEF Entries
<1>3. InReading(B, blocks[b], Starts(b))
  BY DEF InvRead, Placed, BlocksRead
<1>4. /\ StartsFollow(Starts(b), blocks[b], offsets.memory)
      /\ Whole(blocks[b], code, offsets)
      /\ \A i \in 1..blocks[b].count : Translated(Starts(b), i, code) /\ Starts(b)[i] \in Places
  BY <1>1, <1>2, StartsInPlaces
<1>5. \A i \in 1..blocks[b].count : Starts(b)[i].x86 \in Nat
  BY <1>4 DEF Places
<1>6. Starts(b)[1].x86 = blocks[b].start
  BY <1>4 DEF StartsFollow
<1>7. Starts(b)[blocks[b].count + 1].x86 = blocks[b].end
  BY <1>4 DEF Whole, Starts
<1>8. blocks[b].start < blocks[b].end
  BY <1>2, <1>3, <1>6 DEF InReading
<1> QED BY <1>1, <1>2, <1>3, <1>4, <1>5, <1>6, <1>7, <1>8 DEF InReading

LEMMA PageSorted ==
    ASSUME NEW B, InvRead(B), NEW p \in Pages
    PROVE  Sorted(pages[p]) /\ pages[p] \in Seq(Nat)
<1> DEFINE s == pages[p]
<1>1. s \in Seq(Nat) /\ \A i \in 1..Len(s) : s[i] \in 1..Len(blocks)
  BY DEF InvRead, Inv, TypeOK
<1>2. ASSUME NEW i \in 1..Len(s)
      PROVE  /\ s[i] \in 1..Len(blocks) /\ blocks[s[i]].count # 0
             /\ blocks[s[i]] \in Entries /\ blocks[s[i]].start < blocks[s[i]].end
             /\ blocks[s[i]].start \in Nat /\ blocks[s[i]].end \in Nat
  <2>1. s[i] \in 1..Len(blocks) /\ blocks[s[i]].count # 0
    BY <1>1 DEF InvRead, Placed, PagesSpan, Spans
  <2>2. blocks[s[i]] \in Entries /\ blocks[s[i]].start < blocks[s[i]].end
    BY <2>1, BegunBlocks
  <2> QED BY <2>1, <2>2 DEF Entries
<1>3. ASSUME NEW i \in 1..Len(s), NEW j \in 1..Len(s), i < j PROVE blocks[s[i]].end <= blocks[s[j]].start
  <2>1. blocks[s[i]].start < blocks[s[j]].start
    BY <1>3 DEF InvRead, Placed, PagesOrdered
  <2>2. s[i] # s[j]
    <3>1. blocks[s[i]].start \in Nat
      BY <1>2
    <3> QED BY <2>1, <3>1
  <2>3. Apart(blocks[s[i]], blocks[s[j]])
    BY <1>2, <2>2 DEF InvRead, Placed, AllApart
  <2> DEFINE a == blocks[s[i]]
             c == blocks[s[j]]
  <2>4. a.start \in Nat /\ a.end \in Nat /\ c.start \in Nat /\ c.end \in Nat
        /\ a.start < a.end /\ c.start < c.end /\ a.start < c.start
        /\ (a.end <= c.start \/ c.end <= a.start)
    BY <1>2, <2>1, <2>3 DEF Apart
  <2> HIDE DEF a, c
  <2>5. a.end <= c.start
    BY <2>4
  <2> QED BY <2>5 DEF a, c
<1>4. \A i \in 1..Len(s) : blocks[s[i]] \in Entries /\ blocks[s[i]].start <= blocks[s[i]].end
  <2> SUFFICES ASSUME NEW i \in 1..Len(s) PROVE blocks[s[i]] \in Entries /\ blocks[s[i]].start <= blocks[s[i]].end
    OBVIOUS
  <2> QED BY <1>2
<1> QED BY <1>1, <1>3, <1>4 DEF Sorted

\* An address of the reading inside a block is where one of its instructions starts.
LEMMA ReadingHits ==
    ASSUME NEW B \in SUBSET Nat, OneReading(B), InvRead(B), NEW b \in 1..Len(blocks), blocks[b].count # 0,
           NEW x \in B, blocks[b].start <= x, x < blocks[b].end
    PROVE  \E i \in 1..blocks[b].count : Starts(b)[i].x86 = x
<1> DEFINE n == blocks[b].count
           at == Starts(b)
           S == {i \in 1..n : at[i].x86 <= x}
           k == Max(S)
<1>1. /\ n \in Nat /\ n >= 1 /\ at[1].x86 = blocks[b].start /\ at[n + 1].x86 = blocks[b].end
      /\ \A i \in 1..n : Translated(at, i, code) /\ at[i].x86 \in B /\ at[i].x86 \in Nat
  BY BegunBlocks
<1>2. S \in SUBSET (0..n) /\ S # {}
  <2>1. 1 \in S
    BY <1>1
  <2> QED BY <1>1, <2>1
<1>3. k \in S /\ \A i \in S : i <= k
  BY <1>1, <1>2, GreatestOf
<1>4. k \in 1..n /\ at[k].x86 <= x
  BY <1>3
<1> HIDE DEF k
<1>5. x < at[k + 1].x86
  <2>1. CASE k = n
    BY <1>1, <2>1
  <2>2. CASE k # n
    <3>1. k + 1 \in 1..n
      BY <1>1, <1>4, <2>2
    <3>2. ~(at[k + 1].x86 <= x)
      <4>1. k + 1 \notin S
        BY <1>3, <1>4
      <4> QED BY <3>1, <4>1
    <3> DEFINE z == at[k + 1].x86
    <3>3. z \in Nat /\ x \in Nat /\ ~(z <= x)
      BY <1>1, <3>1, <3>2
    <3> HIDE DEF z
    <3>4. x < z
      BY <3>3
    <3> QED BY <3>4 DEF z
  <2> QED BY <2>1, <2>2
<1> DEFINE y == at[k].x86
<1>6. Decodes(y) /\ at[k + 1].x86 = y + Size[y] /\ y \in B /\ y \in Nat
  BY <1>1, <1>4 DEF Translated
<1>7. x <= y \/ y + Size[y] <= x
  BY <1>6 DEF OneReading
<1>8. Size[y] \in Nat
  BY <1>6, DecodedSize
<1> HIDE DEF S, at
<1>9. x = y
  <2> HIDE DEF y
  <2>1. y <= x
    BY <1>4 DEF y
  <2> QED BY <1>5, <1>6, <1>7, <1>8, <2>1
<1> QED BY <1>4, <1>9 DEF at

\* find() takes an address to be in the block that contains it, if that block is
\* listed in its page.
LEMMA FindsListed ==
    ASSUME NEW B, InvRead(B), NEW x \in Nat, PageIndex(x) \in Pages,
           NEW b \in 1..Len(blocks), Listed(pages, PageIndex(x), b),
           blocks[b].start <= x, x < blocks[b].end
    PROVE  FindBlock(x) = b
<1> DEFINE s == pages[PageIndex(x)]
           whole == [l |-> 0, r |-> Len(s)]
<1>1. Sorted(s) /\ s \in Seq(Nat) /\ Len(s) \in Nat
  BY PageSorted
<1>2. PICK j \in 1..Len(s) : s[j] = b
  BY DEF Listed
<1>3. whole \in Ranges(Len(s)) /\ whole.l = 0 /\ whole.r = Len(s)
  BY <1>1 DEF Ranges
<1>4. FindBlock(x) = Search(s, x)[whole]
  BY DEF FindBlock
<1> HIDE DEF s, whole
<1>5. whole.l < j /\ j <= whole.r
  BY <1>1, <1>3
<1>6. Search(s, x)[whole] = s[j]
  BY <1>1, <1>2, <1>3, <1>5, SearchComplete
<1> QED BY <1>2, <1>4, <1>6

\* find() takes where an instruction of a block starts to be in that block,
FindsStarts ==
    \A b \in 1..Len(blocks) : blocks[b].count # 0 =>
       \A i \in 1..blocks[b].count :
          /\ Starts(b)[i].x86 \in Address
          /\ FindBlock(Starts(b)[i].x86) = b

LEMMA StartsFound == ASSUME NEW B, InvRead(B) PROVE FindsStarts
<1> SUFFICES ASSUME NEW b \in 1..Len(blocks), blocks[b].count # 0, NEW i \in 1..blocks[b].count
             PROVE  Starts(b)[i].x86 \in Address /\ FindBlock(Starts(b)[i].x86) = b
  BY DEF FindsStarts
<1> DEFINE x == Starts(b)[i].x86
<1>1. /\ blocks[b].count \in Nat /\ Translated(Starts(b), i, code)
      /\ x \in Nat /\ blocks[b].start <= x /\ x < blocks[b].end
  BY BegunBlocks
<1>2. x \in Address
  BY <1>1, DecodedSize DEF Translated
<1>3. i \in 1..(blocks[b].count + 1)
  BY <1>1
<1>4. PageIndex(x) \in Pages /\ Listed(pages, PageIndex(x), b)
  BY <1>3 DEF InvRead, Placed, AllListed, ListedAlong
<1> HIDE DEF x
<1>5. FindBlock(x) = b
  BY <1>1, <1>4, FindsListed
<1> QED BY <1>2, <1>5 DEF x

\* and no block contains an address of the reading it finds in none.
LEMMA NoneContains ==
    ASSUME NEW B \in SUBSET Nat, OneReading(B), InvRead(B), NEW x \in B, FindBlock(x) = 0,
           NEW b \in 1..Len(blocks), blocks[b].count # 0
    PROVE  blocks[b].end <= x \/ x < blocks[b].start
<1> SUFFICES ASSUME ~(blocks[b].end <= x), ~(x < blocks[b].start) PROVE FALSE
  OBVIOUS
<1>1. blocks[b] \in Entries /\ b # 0
  BY BegunBlocks
<1>2. blocks[b].start \in Nat /\ blocks[b].end \in Nat /\ x \in Nat
  BY <1>1 DEF Entries
<1>3. blocks[b].start <= x /\ x < blocks[b].end
  BY <1>2
<1>4. PICK i \in 1..blocks[b].count : Starts(b)[i].x86 = x
  BY <1>3, ReadingHits
<1> QED BY <1>1, <1>4, StartsFound DEF FindsStarts

\* get_next_block() answers with the block that starts first from x on.
LEMMA NextIsFirst ==
    ASSUME NEW B, InvRead(B), NEW x \in Address,
           NEW b \in 1..Len(blocks), blocks[b].count # 0, x <= blocks[b].start
    PROVE  /\ NextBlock(x) \in 1..Len(blocks) /\ blocks[NextBlock(x)].count # 0
           /\ x <= blocks[NextBlock(x)].start /\ blocks[NextBlock(x)].start <= blocks[b].start
<1> DEFINE From(p) == {i \in DOMAIN pages[p] : blocks[pages[p][i]].start >= x}
           some == {p \in PageIndex(x)..(NumPages - 1) : From(p) # {}}
           q == PageIndex(blocks[b].start)
           p == Min(some)
           i == Min(From(p))
<1>1. x \in Nat /\ PageIndex(x) \in Pages /\ PageIndex(x) \in Nat /\ NumPages \in Nat
  BY AddressesInPages, PagesAssumption DEF Pages
<1>2. /\ blocks[b] \in Entries /\ blocks[b].count \in Nat /\ blocks[b].count >= 1
      /\ Starts(b)[1].x86 = blocks[b].start
  BY BegunBlocks
<1>3. q \in Pages /\ Listed(pages, q, b)
  <2>1. 1 \in 1..(blocks[b].count + 1)
    BY <1>2
  <2> QED BY <1>2, <2>1 DEF InvRead, Placed, AllListed, ListedAlong
<1>4. PICK j \in 1..Len(pages[q]) : pages[q][j] = b
  BY <1>3 DEF Listed
<1>5. blocks[b].start \in Nat
  BY <1>2 DEF Entries
<1>6. PageIndex(x) <= q
  BY <1>1, <1>5, PagesAscend
<1> HIDE DEF q
<1>7. \A r \in Pages : /\ pages[r] \in Seq(Nat) /\ DOMAIN pages[r] = 1..Len(pages[r])
                       /\ \A k \in 1..Len(pages[r]) : pages[r][k] \in 1..Len(blocks)
  BY DEF InvRead, Inv, TypeOK
<1>8. j \in From(q)
  <2>1. j \in DOMAIN pages[q]
    BY <1>3, <1>7
  <2> QED BY <1>1, <1>4, <1>5, <2>1
<1>9. q \in PageIndex(x)..(NumPages - 1)
  BY <1>1, <1>3, <1>6 DEF Pages
<1>10. q \in some /\ some \in SUBSET Nat
  <2> HIDE DEF From
  <2> QED BY <1>1, <1>8, <1>9
<1>11. p \in some /\ p <= q
  BY <1>10, LeastOf
<1>12. NextBlock(x) = pages[p][i]
  BY <1>10 DEF NextBlock
<1> HIDE DEF p
<1>13. p \in Pages /\ p \in Nat /\ From(p) # {} /\ q \in Nat
  BY <1>1, <1>3, <1>11 DEF Pages
<1>14. From(p) \in SUBSET Nat
  BY <1>7, <1>13
<1>15. i \in From(p) /\ \A k \in From(p) : i <= k
  BY <1>13, <1>14, LeastOf
<1> HIDE DEF i
<1>16. i \in 1..Len(pages[p]) /\ blocks[pages[p][i]].start >= x /\ pages[p][i] \in 1..Len(blocks)
  BY <1>7, <1>13, <1>15
<1> DEFINE c == pages[p][i]
<1>17. Spans(blocks[c], p)
  BY <1>13, <1>16 DEF InvRead, Placed, PagesSpan
<1>18. c \in 1..Len(blocks) /\ blocks[c].count # 0 /\ blocks[c].start \in Nat
  <2>1. c \in 1..Len(blocks) /\ blocks[c].count # 0
    BY <1>16, <1>17 DEF Spans
  <2>2. blocks[c] \in Entries
    BY <2>1, BegunBlocks
  <2> QED BY <2>1, <2>2 DEF Entries
<1>19. blocks[c].start <= blocks[b].start
  <2>1. CASE p = q
    <3>1. i <= j
      BY <1>8, <1>15, <2>1
    <3>2. CASE i = j
      BY <1>4, <1>5, <2>1, <3>2
    <3>3. CASE i < j
      <4>1. blocks[c].start < blocks[pages[p][j]].start
        BY <1>4, <1>13, <1>16, <2>1, <3>3 DEF InvRead, Placed, PagesOrdered
      <4>2. blocks[c].start < blocks[b].start
        BY <1>4, <2>1, <4>1
      <4> HIDE DEF c
      <4> QED BY <1>5, <1>18, <4>2
    <3> QED BY <1>4, <1>16, <3>1, <3>2, <3>3
  <2>2. CASE p # q
    <3> SUFFICES ASSUME ~(blocks[c].start <= blocks[b].start) PROVE FALSE
      OBVIOUS
    <3>1. blocks[b].start <= blocks[c].start
      <4> HIDE DEF c
      <4> QED BY <1>5, <1>18
    <3>2. q <= PageIndex(blocks[c].start)
      BY <1>5, <1>18, <3>1, PagesAscend DEF q
    <3>3. PageIndex(blocks[c].start) <= p /\ PageIndex(blocks[c].start) \in Nat
      BY <1>17, <1>18, PageBounds DEF Spans
    <3> HIDE DEF c
    <3> QED BY <1>11, <1>13, <2>2, <3>2, <3>3
  <2> QED BY <2>1, <2>2
<1> QED BY <1>1, <1>12, <1>16, <1>18, <1>19

-----------------------------------------------------------------------------
(* The steps again, where instructions do not overlap *)

LEMMA InitiallyPlaced == ASSUME NEW B, Init PROVE Placed(B)
<1>1. Len(blocks) = 0 /\ status # "adding" /\ \A p \in Pages : Len(pages[p]) = 0
  BY DEF Init
<1> QED BY <1>1 DEF Placed, BlocksRead, AllApart, PagesSpan, PagesOrdered, AllListed

LEMMA StillPlaced ==
    ASSUME NEW B, Placed(B), UNCHANGED <<blocks, pages, offsets>>,
           status' = "adding" => status = "adding" /\ todo' = todo
    PROVE  Placed(B)'
<1>1. BlocksRead(B)' /\ AllApart' /\ PagesSpan' /\ PagesOrdered'
  BY DEF Placed, BlocksRead, AllApart, PagesSpan, PagesOrdered, Starts
<1>2. AllListed'
  BY DEF Placed, AllListed, ListedAlong, Listed, Starts
<1>3. status' = "adding" => Reserved(B)'
  BY DEF Placed, Reserved, New, StartOf, Filling, Instr
<1> QED BY <1>1, <1>2, <1>3 DEF Placed

\* The instructions decoded from an address of the reading belong to it, and end
\* before block b does not start behind it.
LEMMA ChainStays ==
    ASSUME NEW B \in SUBSET Nat, OneReading(B), NEW x \in B, NEW b, NEW s, ChainFrom(s, x, b),
           b # 0 => blocks[b].start \in B /\ x <= blocks[b].start
    PROVE  \A i \in 1..Len(s) : /\ s[i] \in B
                                /\ b # 0 => s[i] + Size[s[i]] <= blocks[b].start
<1> DEFINE Good(i) == s[i] \in B /\ (b # 0 => s[i] + Size[s[i]] <= blocks[b].start)
           S == {i \in Nat : i + 1 \in 1..Len(s) => Good(i + 1)}
<1>1. s \in Seq(Address) /\ Len(s) \in Nat
  BY DEF ChainFrom
<1>2. /\ s # << >> => s[1] = x
      /\ \A i \in 1..Len(s) : Decodes(s[i]) /\ ~Stops(s[i], b)
      /\ \A i \in 1..(Len(s) - 1) : s[i] \notin EndsBlock /\ s[i + 1] = s[i] + Size[s[i]]
  BY <1>1 DEF ChainFrom
<1>3. ASSUME NEW i \in 1..Len(s), s[i] \in B, b # 0 => s[i] <= blocks[b].start PROVE Good(i)
  <2>1. CASE b = 0
    BY <1>3, <2>1
  <2>2. CASE b # 0
    <3> DEFINE y == s[i]
               z == blocks[b].start
               w == Size[y]
    <3>1. z \in B /\ z \in Nat /\ y \in B /\ y \in Nat /\ Decodes(y) /\ y # z /\ y <= z
      BY <1>2, <1>3, <2>2 DEF Stops
    <3>2. z <= y \/ y + w <= z
      BY <3>1 DEF OneReading
    <3>3. w \in Nat
      BY <3>1, DecodedSize
    <3> HIDE DEF y, z, w
    <3>4. y + w <= z
      BY <3>1, <3>2, <3>3
    <3> QED BY <1>3, <3>4 DEF y, z, w
  <2> QED BY <2>1, <2>2
<1>4. 0 \in S
  <2> SUFFICES ASSUME 0 + 1 \in 1..Len(s) PROVE Good(1)
    OBVIOUS
  <2>1. 1 \in 1..Len(s) /\ s[1] = x
    BY <1>1, <1>2
  <2> QED BY <1>3, <2>1
<1>5. ASSUME NEW i \in Nat, i \in S PROVE i + 1 \in S
  <2> SUFFICES ASSUME (i + 1) + 1 \in 1..Len(s) PROVE Good((i + 1) + 1)
    OBVIOUS
  <2>1. i + 1 \in 1..Len(s) /\ i + 1 \in 1..(Len(s) - 1)
    BY <1>1
  <2>2. Good(i + 1)
    BY <1>5, <2>1
  <2>3. s[i + 1] \notin EndsBlock /\ s[(i + 1) + 1] = s[i + 1] + Size[s[i + 1]] /\ Decodes(s[i + 1])
    BY <1>2, <2>1
  <2>4. s[(i + 1) + 1] \in B
    BY <2>2, <2>3 DEF OneReading
  <2>5. b # 0 => s[(i + 1) + 1] <= blocks[b].start
    BY <2>2, <2>3
  <2> HIDE DEF Good
  <2> QED BY <1>3, <2>4, <2>5
<1> HIDE DEF S
<1>6. Nat \subseteq S
  BY <1>4, <1>5, Induction
<1>7. ASSUME NEW i \in 1..Len(s) PROVE Good(i)
  <2>1. i - 1 \in Nat /\ (i - 1) + 1 = i
    BY <1>1
  <2>2. i - 1 \in S
    BY <1>6, <2>1
  <2> HIDE DEF Good
  <2> QED BY <2>1, <2>2 DEF S
<1> QED BY <1>7

LEMMA CreatePlaced ==
    ASSUME NEW B \in SUBSET Nat, OneReading(B), InvRead(B),
           NEW x \in Targets, status = "idle", CreateBlock(x)
    PROVE  Placed(B)'
<1> DEFINE b == NextBlock(x)
           s == Straight(x, b)
           n == Len(blocks)
<1>1. x \in Address /\ x \in B /\ x \in Nat
  BY TargetsAssumption DEF OneReading
<1>2. TypeOK /\ FinishedLinked /\ blocks \in Seq(Entries) /\ n \in Nat /\ Placed(B)
  BY DEF InvRead, Inv, TypeOK
<1>3. /\ FindBlock(x) = 0 /\ Undecodable \notin ToSet(s) /\ s # << >>
      /\ blocks' = Append(blocks, NewBlock) /\ todo' = s /\ status' = "adding"
      /\ pages' = pages /\ offsets' = offsets
  BY DEF CreateBlock
<1>4. ChainFrom(s, x, b)
  BY <1>1, <1>3, StraightChains
<1>5. \A c \in 1..n : blocks[c].count # 0
  BY <1>2 DEF FinishedLinked, Finished
<1>6. b # 0 => b \in 1..n /\ blocks[b].start \in B /\ x <= blocks[b].start
  <2> SUFFICES ASSUME b # 0 PROVE b \in 1..n /\ blocks[b].start \in B /\ x <= blocks[b].start
    OBVIOUS
  <2>1. b \in 1..n /\ blocks[b].start >= x
    BY <1>1, <1>2, NextStarts
  <2> HIDE DEF b
  <2>2. blocks[b].count # 0
    BY <1>5, <2>1
  <2>3. /\ blocks[b] \in Entries /\ Starts(b)[1].x86 = blocks[b].start
        /\ 1 \in 1..blocks[b].count => Starts(b)[1].x86 \in B
        /\ blocks[b].count \in Nat /\ blocks[b].count >= 1
    BY <2>1, <2>2, BegunBlocks
  <2>4. 1 \in 1..blocks[b].count
    BY <2>3
  <2>5. blocks[b].start \in B
    BY <2>3, <2>4
  <2>6. blocks[b].start \in Nat
    BY <2>5
  <2> QED BY <1>1, <2>1, <2>5, <2>6
<1>7. \A i \in 1..Len(s) : s[i] \in B /\ (b # 0 => s[i] + Size[s[i]] <= blocks[b].start)
  <2> HIDE DEF b, s
  <2>1. b # 0 => blocks[b].start \in B /\ x <= blocks[b].start
    BY <1>6
  <2> QED BY <1>1, <1>4, <2>1, ChainStays
<1>8. s \in Seq(Address) /\ s[1] = x /\ Len(s) \in Nat
  BY <1>3, <1>4 DEF ChainFrom
<1> HIDE DEF s
<1>9. NewBlock \in Entries /\ NewBlock.count = 0
  BY DEF NewBlock, Entries, Null
<1>10. /\ blocks' \in Seq(Entries) /\ Len(blocks') = n + 1 /\ blocks'[n + 1] = NewBlock
       /\ \A c \in 1..n : blocks'[c] = blocks[c]
  BY <1>2, <1>3, <1>9
<1>11. \A c \in 1..(n + 1) : blocks'[c].count # 0 => c \in 1..n /\ blocks'[c] = blocks[c] /\ blocks[c].count # 0
  BY <1>2, <1>5, <1>9, <1>10
<1>12. BlocksRead(B)'
  <2>1. ASSUME NEW c \in 1..(n + 1) PROVE InReading(B, blocks'[c], Starts(c)')
    <3>1. CASE c = n + 1
      <4>1. blocks'[c].count = 0
        BY <1>9, <1>10, <3>1
      <4> QED BY <4>1 DEF InReading
    <3>2. CASE c # n + 1
      <4>1. c \in 1..n
        BY <1>2, <3>2
      <4>2. blocks'[c] = blocks[c] /\ InReading(B, blocks[c], Starts(c))
        BY <1>2, <1>10, <4>1 DEF Placed, BlocksRead
      <4> QED BY <1>3, <4>2 DEF Starts
    <3> QED BY <3>1, <3>2
  <2> QED BY <1>10, <2>1 DEF BlocksRead
<1>13. AllApart'
  BY <1>2, <1>10, <1>11 DEF Placed, AllApart
<1>14. \A p \in Pages : \A i \in 1..Len(pages[p]) : blocks'[pages[p][i]] = blocks[pages[p][i]]
  BY <1>2, <1>10 DEF TypeOK
<1>15. PagesSpan' /\ PagesOrdered'
  <2>1. PagesSpan'
    BY <1>2, <1>3, <1>14 DEF Placed, PagesSpan
  <2>2. PagesOrdered'
    <3>1. ASSUME NEW p \in Pages, NEW i \in 1..Len(pages[p]), NEW j \in 1..Len(pages[p]), i < j
          PROVE  blocks'[pages[p][i]].start < blocks'[pages[p][j]].start
      <4>1. blocks[pages[p][i]].start < blocks[pages[p][j]].start
        BY <1>2, <3>1 DEF Placed, PagesOrdered
      <4>2. blocks'[pages[p][i]] = blocks[pages[p][i]] /\ blocks'[pages[p][j]] = blocks[pages[p][j]]
        BY <1>14
      <4> QED BY <4>1, <4>2
    <3> QED BY <1>3, <3>1 DEF PagesOrdered
  <2> QED BY <2>1, <2>2
<1>16. AllListed'
  <2> SUFFICES ASSUME NEW c \in 1..(n + 1), blocks'[c].count # 0
               PROVE  ListedAlong(pages', c, blocks'[c], Starts(c)')
    BY <1>10 DEF AllListed
  <2>1. c \in 1..n /\ blocks'[c] = blocks[c] /\ blocks[c].count # 0
    BY <1>11
  <2>2. ListedAlong(pages, c, blocks[c], Starts(c))
    BY <1>2, <2>1 DEF Placed, AllListed
  <2>3. Starts(c)' = Starts(c)
    BY <1>3, <2>1 DEF Starts
  <2> QED BY <1>3, <2>1, <2>2, <2>3
<1>17. Reserved(B)'
  <2>1. New' = n + 1 /\ StartOf' = x /\ (n + 1) - 1 = n
    <3>1. New' = n + 1
      BY <1>10 DEF New
    <3>2. Filling'.count = 0
      BY <1>9, <1>10, <3>1 DEF Filling
    <3>3. Instr' = s[1]
      BY <1>3, <1>8 DEF Instr
    <3> QED BY <1>2, <1>8, <3>1, <3>2, <3>3 DEF StartOf
  <2>2. ASSUME NEW c \in 1..n
        PROVE  \/ blocks[c].end <= x
               \/ \A i \in 1..Len(s) : s[i] + Size[s[i]] <= blocks[c].start
    <3>1. blocks[c].count # 0
      BY <1>5
    <3>2. blocks[c].end <= x \/ x < blocks[c].start
      BY <1>1, <1>3, <3>1, NoneContains
    <3>3. CASE x < blocks[c].start
      <4>1. blocks[c] \in Entries
        BY <3>1, BegunBlocks
      <4>2. x <= blocks[c].start /\ blocks[c].start \in Nat
        BY <1>1, <3>3, <4>1 DEF Entries
      <4>3. b \in 1..n /\ blocks[b].start <= blocks[c].start
        BY <1>1, <3>1, <4>2, NextIsFirst
      <4> HIDE DEF b
      <4>4. b # 0 /\ blocks[b].start \in Nat
        <5>1. b # 0
          BY <1>2, <4>3
        <5>2. blocks[b].start \in B
          BY <1>6, <5>1
        <5> QED BY <5>1, <5>2
      <4>5. ASSUME NEW i \in 1..Len(s) PROVE s[i] + Size[s[i]] <= blocks[c].start
        <5> DEFINE y == s[i]
                   w == Size[s[i]]
                   lo == blocks[b].start
                   hi == blocks[c].start
        <5>1. y \in Address /\ Decodes(y)
          BY <1>4, <1>8 DEF ChainFrom
        <5>2. y \in Nat /\ w \in Nat
          BY <5>1, DecodedSize
        <5>3. y + w <= lo /\ lo <= hi /\ lo \in Nat /\ hi \in Nat
          BY <1>7, <4>2, <4>3, <4>4
        <5> HIDE DEF y, w, lo, hi
        <5>4. y + w <= hi
          BY <5>2, <5>3
        <5> QED BY <5>4 DEF y, w, hi
      <4> QED BY <4>5
    <3> QED BY <3>2, <3>3
  <2> QED BY <1>3, <1>7, <1>10, <2>1, <2>2 DEF Reserved
<1> QED BY <1>12, <1>13, <1>15, <1>16, <1>17 DEF Placed

\* Where the instructions of the block under construction start now.
LEMMA AddStarts ==
    ASSUME Inv, AddInstruction
    PROVE  LET at2 == StartsOf(Filled, offsets'.memory)
               n == Filling.count
           IN /\ n \in Nat /\ Filled.count = n + 1 /\ Filled.start = StartOf /\ Filled.end = EndOf
              /\ \A i \in 1..n : at2[i].x86 = Starts(New)[i].x86
              /\ at2[n + 1].x86 = Instr /\ at2[n + 2].x86 = EndOf
<1> DEFINE e == Filling
           x == Instr
           s == Filled.riscv
           t == Filled.offsets
           e2 == Longer(e, x, s, t)
           batch == Batch
           size == SectionSize(code, e.riscv)
           at == StartsOf(e, offsets.memory)
           at2 == StartsOf(e2, offsets'.memory)
           n == e.count
<1>1. status = "adding"
  BY DEF AddInstruction
<1>2. /\ Filling \in Entries /\ AtEnd(Filling, code, offsets) /\ Decodes(Instr)
      /\ ListOK(code, Word) /\ ListOK(offsets, Places)
      /\ Filling.count # 0 => Instr = Filling.end
  BY <1>1, InstrFacts DEF Inv, TypeOK
<1>3. Batch \in Seq(Word) /\ Translates(Batch, Instr)
  BY <1>1, BatchFacts
<1>4. ListsTake(e, x, batch, s, t, code, code', offsets, offsets') /\ Filled = e2
  BY AddGrows
<1>5. /\ s \in Nat /\ ListOK(code', Word) /\ Extended(code, e.riscv, batch, code', s)
      /\ t \in Nat /\ ListOK(offsets', Places) /\ Extended(offsets, e.offsets, << SizeOf(x, batch) >>, offsets', t)
  BY <1>4 DEF ListsTake
<1>6. /\ e \in Entries /\ AtEnd(e, code, offsets) /\ Decodes(x)
      /\ e.count # 0 => x = e.end
      /\ ListOK(code, Word) /\ ListOK(offsets, Places)
      /\ batch \in Seq(Word) /\ Translates(batch, x)
  BY <1>2, <1>3
<1>7. Starts(New) = at
  BY DEF Starts, Filling
<1>8. Filled.count = n + 1 /\ Filled.start = StartOf /\ Filled.end = EndOf /\ EndOf = x + Size[x]
  BY DEF Filled, EndOf
<1> HIDE DEF e, x, s, t, e2, batch, size, at, at2
<1>9. Appended(at, e, at2, x, s, size, batch)
  BY <1>5, <1>6, StartsAppend DEF e2, at, at2, size
<1>10. n \in Nat
  BY <1>6 DEF Entries
<1>11. /\ \A i \in 1..n : at2[i].x86 = at[i].x86
       /\ at2[n + 1].x86 = x /\ at2[n + 2].x86 = x + Size[x]
  BY <1>9 DEF Appended
<1> QED BY <1>4, <1>7, <1>8, <1>10, <1>11 DEF at2, e, x

\* What the step means for the block under construction and for the others.
LEMMA AddBounds ==
    ASSUME NEW B \in SUBSET Nat, OneReading(B), InvRead(B), AddInstruction
    PROVE  /\ New \in Nat /\ New >= 1 /\ Len(blocks) = New /\ Len(blocks') = New
           /\ blocks' = [blocks EXCEPT ![New] = Filled] /\ blocks'[New] = Filled
           /\ Instr \in B /\ Instr \in Nat /\ Instr \in Address /\ StartOf \in Nat /\ EndOf \in Nat
           /\ StartOf <= Instr /\ Instr < EndOf
           /\ Filling.count \in Nat
           /\ Filling.count # 0 => StartOf = Filling.start /\ Filling.end = Instr
           /\ Filling.count = 0 => StartOf = Instr
           /\ Filled.start = StartOf /\ Filled.end = EndOf /\ Filled.count = Filling.count + 1
           /\ \A c \in 1..(New - 1) :
                 /\ c \in 1..New /\ c # New /\ blocks'[c] = blocks[c] /\ blocks[c].count # 0
                 /\ blocks[c].start \in Nat /\ blocks[c].end \in Nat /\ blocks[c].start < blocks[c].end
                 /\ blocks[c].end <= StartOf \/ EndOf <= blocks[c].start
<1>1. status = "adding" /\ blocks' = [blocks EXCEPT ![New] = Filled] /\ Inv /\ Placed(B)
  BY DEF AddInstruction, InvRead
<1>2. /\ New \in Nat /\ New >= 1 /\ Len(blocks) = New /\ Filling \in Entries /\ Decodes(Instr)
      /\ Instr = todo[1] /\ Len(todo) \in Nat /\ Len(todo) >= 1
      /\ Filling.count # 0 => Instr = Filling.end
  BY <1>1, InstrFacts
<1>3. blocks \in Seq(Entries)
  BY <1>1 DEF Inv, TypeOK
<1>4. Len(blocks') = New /\ blocks'[New] = Filled /\ \A c \in 1..(New - 1) : blocks'[c] = blocks[c]
  BY <1>1, <1>2, <1>3
<1>5. Reserved(B)
  BY <1>1 DEF Placed
<1>6. 1 \in 1..Len(todo)
  BY <1>2
<1>7. Instr \in B /\ Instr \in Address /\ Instr \in Nat /\ EndOf \in Nat /\ Instr < EndOf
  <2>1. Instr \in B
    BY <1>2, <1>5, <1>6 DEF Reserved
  <2>2. Instr \in Address /\ Instr \in Nat /\ Size[Instr] \in Nat /\ Size[Instr] > 0
    BY <1>2, DecodedSize
  <2> QED BY <2>1, <2>2 DEF EndOf
<1>8. Filling.count \in Nat /\ Filling.start \in Nat
  BY <1>2 DEF Entries
<1>9. Filling.count = 0 => StartOf = Instr
  BY DEF StartOf
<1>10. ASSUME Filling.count # 0 PROVE StartOf = Filling.start /\ Filling.start < Filling.end
  <2>1. New \in 1..Len(blocks) /\ blocks[New].count # 0
    BY <1>2, <1>10 DEF Filling
  <2>2. blocks[New].start < blocks[New].end
    BY <2>1, BegunBlocks
  <2> QED BY <1>10, <2>2 DEF StartOf, Filling
<1>11. StartOf \in Nat /\ StartOf <= Instr
  BY <1>2, <1>7, <1>8, <1>10 DEF StartOf
<1>12. ASSUME NEW c \in 1..(New - 1)
       PROVE  /\ c \in 1..New /\ c # New /\ blocks[c].count # 0
              /\ blocks[c].start \in Nat /\ blocks[c].end \in Nat /\ blocks[c].start < blocks[c].end
              /\ blocks[c].end <= StartOf \/ EndOf <= blocks[c].start
  <2>1. c \in 1..New /\ c # New /\ c \in Finished
    BY <1>1, <1>2 DEF Finished
  <2>2. blocks[c].count # 0
    BY <1>1, <2>1 DEF Inv, FinishedLinked
  <2>3. blocks[c] \in Entries /\ blocks[c].start < blocks[c].end
    BY <1>2, <2>1, <2>2, BegunBlocks
  <2>4. blocks[c].end <= StartOf \/ todo[1] + Size[todo[1]] <= blocks[c].start
    BY <1>5, <1>6 DEF Reserved
  <2>5. blocks[c].end <= StartOf \/ EndOf <= blocks[c].start
    BY <1>2, <2>4 DEF EndOf
  <2> QED BY <2>1, <2>2, <2>3, <2>5 DEF Entries
<1>13. Filled.start = StartOf /\ Filled.end = EndOf /\ Filled.count = Filling.count + 1
  BY DEF Filled
<1> QED BY <1>1, <1>2, <1>4, <1>7, <1>8, <1>9, <1>10, <1>11, <1>12, <1>13

LEMMA AddRead ==
    ASSUME NEW B \in SUBSET Nat, OneReading(B), InvRead(B), AddInstruction
    PROVE  BlocksRead(B)' /\ AllApart'
<1>1. /\ New \in Nat /\ New >= 1 /\ Len(blocks) = New /\ Len(blocks') = New /\ blocks'[New] = Filled
      /\ Instr \in B /\ Instr \in Nat /\ StartOf \in Nat /\ EndOf \in Nat
      /\ StartOf <= Instr /\ Instr < EndOf
      /\ Filling.count # 0 => StartOf = Filling.start /\ Filling.end = Instr
      /\ Filled.start = StartOf /\ Filled.end = EndOf /\ Filled.count = Filling.count + 1
      /\ \A c \in 1..(New - 1) :
            /\ c \in 1..New /\ c # New /\ blocks'[c] = blocks[c] /\ blocks[c].count # 0
            /\ blocks[c].end <= StartOf \/ EndOf <= blocks[c].start
  BY AddBounds
<1>2. Inv /\ Placed(B)
  BY DEF InvRead
<1> DEFINE at2 == StartsOf(Filled, offsets'.memory)
           n == Filling.count
<1>3. /\ n \in Nat /\ Filled.count = n + 1
      /\ \A i \in 1..n : at2[i].x86 = Starts(New)[i].x86
      /\ at2[n + 1].x86 = Instr
  BY <1>2, AddStarts
<1>4. ASSUME NEW i \in 1..(n + 1)
      PROVE  at2[i].x86 \in B /\ StartOf <= at2[i].x86 /\ at2[i].x86 < EndOf
  <2>1. CASE i = n + 1
    BY <1>1, <1>3, <2>1
  <2>2. CASE i # n + 1
    <3>1. i \in 1..n /\ n # 0
      BY <1>3, <2>2
    <3>2. New \in 1..Len(blocks) /\ blocks[New].count = n
      BY <1>1 DEF Filling
    <3> DEFINE y == Starts(New)[i].x86
    <3>3. y \in B /\ y \in Nat /\ Filling.start <= y /\ y < Filling.end
      BY <3>1, <3>2, BegunBlocks DEF Filling
    <3>4. at2[i].x86 = y
      BY <1>3, <3>1
    <3> HIDE DEF y, at2, n
    <3>5. StartOf <= y /\ y < EndOf
      BY <1>1, <3>1, <3>3 DEF n
    <3> QED BY <3>3, <3>4, <3>5
  <2> QED BY <2>1, <2>2
<1>5. InReading(B, Filled, at2)
  <2> HIDE DEF at2
  <2> QED BY <1>1, <1>3, <1>4 DEF InReading
<1>6. BlocksRead(B)'
  <2>1. ASSUME NEW b \in 1..New PROVE InReading(B, blocks'[b], Starts(b)')
    <3>1. CASE b = New
      BY <1>1, <1>5, <3>1 DEF Starts
    <3>2. CASE b # New
      <4>1. b \in 1..(New - 1) /\ b \in 1..Len(blocks)
        BY <1>1, <3>2
      <4>2. blocks'[b] = blocks[b] /\ Starts(b)' = Starts(b)
        BY <1>1, <1>2, <3>2, <4>1, AddOthers
      <4> QED BY <1>2, <4>1, <4>2 DEF Placed, BlocksRead
    <3> QED BY <3>1, <3>2
  <2> QED BY <1>1, <2>1 DEF BlocksRead
<1>7. AllApart'
  <2>1. ASSUME NEW b \in 1..New, NEW c \in 1..New, b # c PROVE Apart(blocks'[b], blocks'[c])
    <3>1. CASE b # New /\ c # New
      <4>1. b \in 1..(New - 1) /\ c \in 1..(New - 1)
        BY <1>1, <3>1
      <4>2. Apart(blocks[b], blocks[c])
        BY <1>1, <1>2, <2>1, <4>1 DEF Placed, AllApart
      <4> QED BY <1>1, <4>1, <4>2
    <3>2. CASE b = New
      <4>1. c \in 1..(New - 1)
        BY <1>1, <2>1, <3>2
      <4> QED BY <1>1, <3>2, <4>1 DEF Apart
    <3>3. CASE c = New
      <4>1. b \in 1..(New - 1)
        BY <1>1, <2>1, <3>3
      <4> QED BY <1>1, <3>3, <4>1 DEF Apart
    <3> QED BY <3>1, <3>2, <3>3
  <2> QED BY <1>1, <2>1 DEF AllApart
<1> QED BY <1>6, <1>7

LEMMA AddReserved ==
    ASSUME NEW B \in SUBSET Nat, OneReading(B), InvRead(B), AddInstruction, ~IsLast
    PROVE  Reserved(B)'
<1>1. /\ New \in Nat /\ Len(blocks) = New /\ Len(blocks') = New /\ blocks'[New] = Filled
      /\ Filled.start = StartOf /\ Filled.count = Filling.count + 1 /\ Filling.count \in Nat
      /\ \A c \in 1..(New - 1) : blocks'[c] = blocks[c]
  BY AddBounds
<1>2. Inv /\ Placed(B) /\ status = "adding" /\ todo' = Tail(todo)
  BY DEF InvRead, AddInstruction
<1>3. todo \in Seq(Address) /\ Len(todo) \in Nat /\ Len(todo) >= 1 /\ Reserved(B)
  BY <1>2, InstrFacts DEF Inv, TypeOK, Placed
<1>4. /\ todo' \in Seq(Address) /\ Len(todo') = Len(todo) - 1
      /\ \A i \in 1..(Len(todo) - 1) : todo'[i] = todo[i + 1]
  BY <1>2, <1>3
<1>5. \A i \in 1..Len(todo') : i + 1 \in 1..Len(todo) /\ todo'[i] = todo[i + 1]
  BY <1>3, <1>4
<1>6. New' = New /\ StartOf' = StartOf
  <2>1. New' = New
    BY <1>1 DEF New
  <2>2. Filling' = Filled
    BY <1>1, <2>1 DEF Filling
  <2>3. Filled.count # 0
    BY <1>1
  <2> QED BY <1>1, <2>1, <2>2, <2>3 DEF StartOf
<1>7. \A i \in 1..Len(todo') : todo'[i] \in B
  BY <1>3, <1>5 DEF Reserved
<1>8. ASSUME NEW c \in 1..(New - 1)
      PROVE  \/ blocks'[c].end <= StartOf
             \/ \A i \in 1..Len(todo') : todo'[i] + Size[todo'[i]] <= blocks'[c].start
  BY <1>1, <1>3, <1>5 DEF Reserved
<1> QED BY <1>6, <1>7, <1>8 DEF Reserved

\* The entries s of page p touch it and are in order.
PageOK(s, p, bs) ==
    /\ \A i \in 1..Len(s) : Spans(bs[s[i]], p)
    /\ \A i, j \in 1..Len(s) : i < j => bs[s[i]].start < bs[s[j]].start

LEMMA InsertionPlaces ==
    ASSUME NEW s \in Seq(Nat), NEW p, NEW bs, PageOK(s, p, bs), NEW v \in Nat,
           NEW k, NEW q, Insertion(s, k, v, q), Spans(bs[v], p),
           \A j \in 1..(k - 1) : bs[s[j]].start < bs[v].start,
           \A j \in k..Len(s) : bs[v].start < bs[s[j]].start
    PROVE  PageOK(q, p, bs)
<1>1. /\ Len(s) \in Nat /\ k \in 1..(Len(s) + 1) /\ Len(q) = Len(s) + 1 /\ q[k] = v
      /\ \A j \in 1..(k - 1) : q[j] = s[j]
      /\ \A j \in k..Len(s) : q[j + 1] = s[j]
  BY DEF Insertion
\* an entry of the longer list is the new one or one of the old
<1>2. ASSUME NEW i \in 1..Len(q)
      PROVE  \/ i = k /\ q[i] = v
             \/ i < k /\ i \in 1..(k - 1) /\ i \in 1..Len(s) /\ q[i] = s[i]
             \/ i > k /\ i - 1 \in k..Len(s) /\ i - 1 \in 1..Len(s) /\ q[i] = s[i - 1]
  <2>1. CASE i = k
    BY <1>1, <2>1
  <2>2. CASE i < k
    <3>1. i \in 1..(k - 1) /\ i \in 1..Len(s)
      BY <1>1, <2>2
    <3> QED BY <1>1, <2>2, <3>1
  <2>3. CASE i > k
    <3>1. i - 1 \in k..Len(s) /\ i - 1 \in 1..Len(s) /\ (i - 1) + 1 = i
      BY <1>1, <2>3
    <3>2. q[i] = s[i - 1]
      BY <1>1, <3>1
    <3> QED BY <2>3, <3>1, <3>2
  <2> QED BY <1>1, <2>1, <2>2, <2>3
<1>3. \A i \in 1..Len(q) : Spans(bs[q[i]], p)
  BY <1>2 DEF PageOK
<1>4. ASSUME NEW i \in 1..Len(q), NEW j \in 1..Len(q), i < j PROVE bs[q[i]].start < bs[q[j]].start
  <2>1. CASE i = k
    <3>1. j > k
      BY <1>1, <1>4, <2>1
    <3>2. j - 1 \in k..Len(s) /\ q[j] = s[j - 1]
      BY <1>1, <1>2, <3>1
    <3> QED BY <1>1, <2>1, <3>2
  <2>2. CASE i < k
    <3>1. i \in 1..(k - 1) /\ i \in 1..Len(s) /\ q[i] = s[i]
      BY <1>1, <1>2, <2>2
    <3>2. CASE j = k
      BY <1>1, <3>1, <3>2
    <3>3. CASE j < k
      <4>1. j \in 1..Len(s) /\ q[j] = s[j]
        BY <1>1, <1>2, <3>3
      <4> QED BY <1>4, <3>1, <4>1 DEF PageOK
    <3>4. CASE j > k
      <4>1. j - 1 \in 1..Len(s) /\ q[j] = s[j - 1] /\ i < j - 1
        BY <1>1, <1>2, <2>2, <3>4
      <4> QED BY <3>1, <4>1 DEF PageOK
    <3> QED BY <1>1, <3>2, <3>3, <3>4
  <2>3. CASE i > k
    <3>1. j > k
      BY <1>1, <1>4, <2>3
    <3>2. i - 1 \in 1..Len(s) /\ q[i] = s[i - 1] /\ j - 1 \in 1..Len(s) /\ q[j] = s[j - 1] /\ i - 1 < j - 1
      BY <1>1, <1>2, <1>4, <2>3, <3>1
    <3> QED BY <3>2 DEF PageOK
  <2> QED BY <1>1, <2>1, <2>2, <2>3
<1> QED BY <1>3, <1>4 DEF PageOK

\* The pages, each in order over blocks bs and with entries among them.
PagesOK(pgs, n, bs) == PagesTo(pgs, n) /\ \A p \in Pages : PageOK(pgs[p], p, bs)

LEMMA InsertionOK ==
    ASSUME NEW n \in Nat, NEW pgs, NEW bs, PagesOK(pgs, n, bs), NEW p \in Pages, NEW v \in 1..n,
           NEW k, NEW q, Insertion(pgs[p], k, v, q), Spans(bs[v], p),
           \A j \in 1..(k - 1) : bs[pgs[p][j]].start < bs[v].start,
           \A j \in k..Len(pgs[p]) : bs[v].start < bs[pgs[p][j]].start
    PROVE  PagesOK([pgs EXCEPT ![p] = q], n, bs)
<1> DEFINE pgs2 == [pgs EXCEPT ![p] = q]
           s == pgs[p]
<1>1. PagesTo(pgs, n) /\ pgs \in [Pages -> Seq(Nat)] /\ s \in Seq(Nat) /\ PageOK(s, p, bs) /\ v \in Nat
  BY DEF PagesOK, PagesTo
<1>2. PagesTo(pgs2, n)
  BY <1>1, InsertionStays
<1>3. pgs2[p] = q /\ \A r \in Pages : r # p => pgs2[r] = pgs[r]
  BY <1>1
<1> HIDE DEF pgs2, s
<1>4. PageOK(q, p, bs)
  <2>1. Insertion(s, k, v, q)
        /\ (\A j \in 1..(k - 1) : bs[s[j]].start < bs[v].start)
        /\ (\A j \in k..Len(s) : bs[v].start < bs[s[j]].start)
    BY DEF s
  <2> QED BY <1>1, <2>1, InsertionPlaces
<1>5. \A r \in Pages : PageOK(pgs2[r], r, bs)
  BY <1>3, <1>4 DEF PagesOK
<1> QED BY <1>2, <1>5 DEF PagesOK, pgs2

LEMMA InsertionLists ==
    ASSUME NEW n \in Nat, NEW pgs, PagesTo(pgs, n), NEW p \in Pages, NEW v \in 1..n,
           NEW k, NEW q, Insertion(pgs[p], k, v, q)
    PROVE  /\ Listed([pgs EXCEPT ![p] = q], p, v)
           /\ \A r \in Pages : \A b : Listed(pgs, r, b) => Listed([pgs EXCEPT ![p] = q], r, b)
<1> DEFINE pgs2 == [pgs EXCEPT ![p] = q]
           s == pgs[p]
<1>1. pgs \in [Pages -> Seq(Nat)] /\ s \in Seq(Nat) /\ Len(s) \in Nat
  BY DEF PagesTo
<1>2. /\ k \in 1..(Len(s) + 1) /\ Len(q) = Len(s) + 1 /\ q[k] = v
      /\ \A j \in 1..(k - 1) : q[j] = s[j]
      /\ \A j \in k..Len(s) : q[j + 1] = s[j]
  BY DEF Insertion
<1>3. pgs2[p] = q /\ \A r \in Pages : r # p => pgs2[r] = pgs[r]
  BY <1>1
<1> HIDE DEF pgs2
<1>4. k \in 1..Len(q)
  <2> HIDE DEF s
  <2> QED BY <1>1, <1>2
<1>5. Listed(pgs2, p, v)
  BY <1>2, <1>3, <1>4 DEF Listed
<1>6. ASSUME NEW r \in Pages, NEW b, Listed(pgs, r, b) PROVE Listed(pgs2, r, b)
  <2>1. PICK j \in 1..Len(pgs[r]) : pgs[r][j] = b
    BY <1>6 DEF Listed
  <2>2. CASE r # p
    BY <1>3, <2>1, <2>2 DEF Listed
  <2>3. CASE r = p
    <3>1. j \in 1..Len(s) /\ s[j] = b
      BY <2>1, <2>3
    <3> HIDE DEF s
    <3>2. CASE j < k
      <4>1. j \in 1..(k - 1) /\ j \in 1..Len(q)
        BY <1>1, <1>2, <3>1, <3>2
      <4> QED BY <1>2, <1>3, <2>3, <3>1, <4>1 DEF Listed
    <3>3. CASE ~(j < k)
      <4>1. j \in k..Len(s) /\ j + 1 \in 1..Len(q)
        BY <1>1, <1>2, <3>1, <3>3
      <4> QED BY <1>2, <1>3, <2>3, <3>1, <4>1 DEF Listed
    <3> QED BY <3>2, <3>3
  <2> QED BY <2>2, <2>3
<1> QED BY <1>5, <1>6 DEF pgs2

\* The pages as they were, over the blocks as they are.
LEMMA PagesKeep ==
    ASSUME NEW B \in SUBSET Nat, OneReading(B), InvRead(B), AddInstruction
    PROVE  PagesOK(pages, New, blocks')
<1>1. /\ New \in Nat /\ New >= 1 /\ Len(blocks) = New /\ blocks'[New] = Filled
      /\ Instr \in Nat /\ StartOf \in Nat /\ EndOf \in Nat /\ StartOf <= Instr /\ Instr < EndOf
      /\ Filling.count # 0 => StartOf = Filling.start /\ Filling.end = Instr
      /\ Filled.start = StartOf /\ Filled.end = EndOf /\ Filled.count = Filling.count + 1
      /\ Filling.count \in Nat
      /\ \A c \in 1..(New - 1) : blocks'[c] = blocks[c]
  BY AddBounds
<1>2. TypeOK /\ PagesSpan /\ PagesOrdered
  BY DEF InvRead, Inv, Placed
<1>3. PagesTo(pages, New)
  BY <1>1, <1>2 DEF TypeOK, PagesTo
<1>4. ASSUME NEW p \in Pages, NEW i \in 1..Len(pages[p])
      PROVE  /\ blocks'[pages[p][i]].start = blocks[pages[p][i]].start
             /\ Spans(blocks'[pages[p][i]], p)
  <2> DEFINE c == pages[p][i]
  <2>1. c \in 1..New /\ Spans(blocks[c], p)
    BY <1>1, <1>2 DEF TypeOK, PagesSpan
  <2> HIDE DEF c
  <2>2. CASE c # New
    <3>1. blocks'[c] = blocks[c]
      BY <1>1, <2>1, <2>2
    <3> QED BY <2>1, <3>1 DEF c
  <2>3. CASE c = New
    <3>1. Filling.count # 0 /\ PageIndex(Filling.start) <= p /\ p <= PageIndex(Filling.end)
      BY <2>1, <2>3 DEF Spans, Filling
    <3>2. StartOf = Filling.start /\ Filling.end = Instr
      BY <1>1, <3>1
    <3>3. PageIndex(Instr) <= PageIndex(EndOf)
      BY <1>1, PagesAscend
    <3>4. PageIndex(Instr) \in Nat /\ PageIndex(EndOf) \in Nat /\ p \in Nat
      <4>1. p \in Nat
        BY PagesAssumption DEF Pages
      <4>2. Instr \in Nat /\ EndOf \in Nat
        BY <1>1
      <4> QED BY <4>1, <4>2, PageBounds
    <3>5. p <= PageIndex(EndOf)
      BY <3>1, <3>2, <3>3, <3>4
    <3>6. Filled.count # 0
      BY <1>1
    <3>7. Spans(Filled, p)
      BY <1>1, <3>1, <3>2, <3>5, <3>6 DEF Spans
    <3>8. blocks'[c].start = blocks[c].start
      BY <1>1, <2>3, <3>2 DEF Filling
    <3> QED BY <1>1, <2>3, <3>7, <3>8 DEF c
  <2> QED BY <2>2, <2>3
<1>5. ASSUME NEW p \in Pages PROVE PageOK(pages[p], p, blocks')
  <2>1. ASSUME NEW i \in 1..Len(pages[p]), NEW j \in 1..Len(pages[p]), i < j
        PROVE  blocks'[pages[p][i]].start < blocks'[pages[p][j]].start
    <3>1. blocks[pages[p][i]].start < blocks[pages[p][j]].start
      BY <1>2, <2>1 DEF PagesOrdered
    <3>2. blocks'[pages[p][i]].start = blocks[pages[p][i]].start
      BY <1>4
    <3>3. blocks'[pages[p][j]].start = blocks[pages[p][j]].start
      BY <1>4
    <3> QED BY <3>1, <3>2, <3>3
  <2> QED BY <1>4, <2>1 DEF PageOK
<1> QED BY <1>3, <1>5 DEF PagesOK

\* What insert_block() makes of them.
LEMMA PagesInserted ==
    ASSUME NEW B \in SUBSET Nat, OneReading(B), InvRead(B), AddInstruction
    PROVE  /\ PagesOK(PagesAfterInsert, New, blocks')
           /\ PageIndex(StartOf) \in Pages /\ Listed(PagesAfterInsert, PageIndex(StartOf), New)
           /\ \A r \in Pages : \A b : Listed(pages, r, b) => Listed(PagesAfterInsert, r, b)
<1>1. /\ New \in Nat /\ New >= 1 /\ Len(blocks) = New /\ blocks'[New] = Filled
      /\ Instr \in Nat /\ Instr \in Address /\ EndOf \in Nat /\ Instr < EndOf
      /\ Filling.count # 0 => StartOf = Filling.start
      /\ Filling.count = 0 => StartOf = Instr
      /\ Filled.start = StartOf /\ Filled.end = EndOf /\ Filled.count = Filling.count + 1
      /\ Filling.count \in Nat
  BY AddBounds
<1>2. \A c \in 1..(New - 1) :
         /\ blocks'[c] = blocks[c]
         /\ blocks[c].start \in Nat /\ blocks[c].end \in Nat /\ blocks[c].start < blocks[c].end
         /\ blocks[c].end <= StartOf \/ EndOf <= blocks[c].start
  BY AddBounds
<1>3. PagesOK(pages, New, blocks') /\ TypeOK /\ Placed(B)
  BY PagesKeep DEF InvRead, Inv
<1>4. pages \in [Pages -> Seq(Nat)] /\ PagesTo(pages, New)
  BY <1>3 DEF PagesOK, PagesTo
<1>5. CASE Filling.count # 0
  <2>1. PagesAfterInsert = pages
    BY <1>5 DEF PagesAfterInsert
  <2>2. New \in 1..Len(blocks) /\ blocks[New].count # 0
    BY <1>1, <1>5 DEF Filling
  <2>3. /\ blocks[New].count \in Nat /\ blocks[New].count >= 1
        /\ Starts(New)[1].x86 = blocks[New].start
    BY <2>2, BegunBlocks
  <2>4. 1 \in 1..(blocks[New].count + 1)
    BY <2>3
  <2>5. ListedAlong(pages, New, blocks[New], Starts(New))
    BY <1>3, <2>2 DEF Placed, AllListed
  <2>6. PageIndex(StartOf) \in Pages /\ Listed(pages, PageIndex(StartOf), New)
    BY <1>1, <1>5, <2>3, <2>4, <2>5 DEF ListedAlong, Filling
  <2> QED BY <1>3, <2>1, <2>6
<1>6. CASE Filling.count = 0
  <2> DEFINE p == PageIndex(Instr)
             s == pages[p]
  <2>1. p \in Pages
    BY <1>1, AddressesInPages
  <2> HIDE DEF p
  <2>2. PICK q \in Seq(Nat) : \E k \in 1..(Len(s) + 1) :
           /\ InsertIntoPage(p, Instr) = [pages EXCEPT ![p] = q]
           /\ Insertion(s, k, New, q)
           /\ \A j \in 1..(k - 1) : ~(blocks[s[j]].start > Instr)
           /\ k <= Len(s) => blocks[s[k]].start > Instr
    BY <1>1, <1>4, <2>1, InsertsIntoPage
  <2>3. PICK k \in 1..(Len(s) + 1) :
           /\ InsertIntoPage(p, Instr) = [pages EXCEPT ![p] = q]
           /\ Insertion(s, k, New, q)
           /\ \A j \in 1..(k - 1) : ~(blocks[s[j]].start > Instr)
           /\ k <= Len(s) => blocks[s[k]].start > Instr
    BY <2>2
  <2>4. PagesAfterInsert = [pages EXCEPT ![p] = q]
    BY <1>6, <2>3 DEF PagesAfterInsert, p
  <2>5. s \in Seq(Nat) /\ Len(s) \in Nat /\ PageOK(s, p, blocks')
    BY <1>3, <1>4, <2>1 DEF PagesOK
  <2>6. ASSUME NEW j \in 1..Len(s)
        PROVE  /\ s[j] \in 1..(New - 1) /\ blocks'[s[j]] = blocks[s[j]]
               /\ blocks[s[j]].start \in Nat /\ blocks[s[j]].start # Instr
    <3>1. s[j] \in 1..New /\ blocks[s[j]].count # 0
      BY <1>3, <1>4, <2>1 DEF PagesTo, Placed, PagesSpan, Spans
    <3>2. s[j] # New
      BY <1>6, <3>1 DEF Filling
    <3>3. s[j] \in 1..(New - 1)
      BY <1>1, <3>1, <3>2
    <3> DEFINE c == blocks[s[j]]
    <3>4. /\ c.start \in Nat /\ c.end \in Nat /\ c.start < c.end
          /\ c.end <= Instr \/ EndOf <= c.start
      BY <1>1, <1>2, <1>6, <3>3
    <3> HIDE DEF c
    <3>5. c.start # Instr
      BY <1>1, <3>4
    <3> QED BY <1>2, <3>3, <3>4, <3>5 DEF c
  <2>7. blocks'[New].start = Instr
    BY <1>1, <1>6
  <2>8. ASSUME NEW j \in 1..(k - 1) PROVE blocks'[s[j]].start < blocks'[New].start
    <3>1. j \in 1..Len(s)
      <4> HIDE DEF s
      <4> QED BY <2>3, <2>5
    <3> DEFINE y == blocks[s[j]].start
    <3>2. ~(y > Instr) /\ y # Instr /\ y \in Nat /\ blocks'[s[j]].start = y
      BY <2>3, <2>6, <3>1
    <3> HIDE DEF y
    <3>3. y < Instr
      BY <1>1, <3>2
    <3> QED BY <2>7, <3>2, <3>3
  <2>9. ASSUME NEW j \in k..Len(s) PROVE blocks'[New].start < blocks'[s[j]].start
    <3>1. j \in 1..Len(s) /\ k \in 1..Len(s) /\ k <= Len(s) /\ (k = j \/ k < j)
      <4> HIDE DEF s
      <4> QED BY <2>3, <2>5
    <3> DEFINE y == blocks'[s[j]].start
               z == blocks'[s[k]].start
    <3>2. z = blocks[s[k]].start /\ z \in Nat /\ y \in Nat
      BY <2>6, <3>1
    <3>3. k = j \/ z < y
      BY <2>5, <3>1 DEF PageOK
    <3>4. z > Instr
      BY <2>3, <3>1, <3>2
    <3>5. k = j => z = y
      OBVIOUS
    <3> HIDE DEF y, z
    <3>6. Instr < y
      <4>1. Instr \in Nat
        BY <1>1
      <4> DEFINE a == Instr
      <4> HIDE DEF a
      <4>2. a \in Nat /\ z > a
        BY <3>4, <4>1 DEF a
      <4>3. a < y
        BY <3>2, <3>3, <3>5, <4>2
      <4> QED BY <4>3 DEF a
    <3> QED BY <2>7, <3>6 DEF y
  <2>10. Spans(blocks'[New], p)
    <3>1. PageIndex(Instr) <= PageIndex(EndOf)
      BY <1>1, PagesAscend
    <3>2. Filled.count # 0 /\ PageIndex(Instr) \in Nat
      <4>1. Filled.count # 0
        BY <1>1
      <4>2. Instr \in Nat
        BY <1>1
      <4> QED BY <4>1, <4>2, PageBounds
    <3> QED BY <1>1, <1>6, <3>1, <3>2 DEF Spans, p
  <2>11. New \in 1..New /\ Insertion(pages[p], k, New, q)
    BY <1>1, <2>3
  <2>12. PagesOK([pages EXCEPT ![p] = q], New, blocks')
    BY <1>1, <1>3, <2>1, <2>8, <2>9, <2>10, <2>11, InsertionOK
  <2>13. /\ Listed([pages EXCEPT ![p] = q], p, New)
         /\ \A r \in Pages : \A b : Listed(pages, r, b) => Listed([pages EXCEPT ![p] = q], r, b)
    BY <1>1, <1>4, <2>1, <2>11, InsertionLists
  <2>14. PageIndex(StartOf) = p
    BY <1>1, <1>6 DEF p
  <2> QED BY <2>1, <2>4, <2>12, <2>13, <2>14
<1> QED BY <1>5, <1>6

\* What add_instruction() makes of them where the block reaches another page.
LEMMA PagesOverlapped ==
    ASSUME NEW B \in SUBSET Nat, OneReading(B), InvRead(B), AddInstruction, Overlaps
    PROVE  LET p == PageIndex(EndOf)
               pgs == Overlap(PagesAfterInsert, p)
           IN /\ PagesOK(pgs, New, blocks')
              /\ p \in Pages /\ Listed(pgs, p, New)
              /\ \A r \in Pages : \A b : Listed(PagesAfterInsert, r, b) => Listed(pgs, r, b)
<1> DEFINE p == PageIndex(EndOf)
           pgs == PagesAfterInsert
           s == pgs[p]
<1>1. /\ New \in Nat /\ New >= 1 /\ blocks'[New] = Filled
      /\ StartOf \in Nat /\ EndOf \in Nat /\ StartOf <= Instr /\ Instr < EndOf /\ Instr \in Nat
      /\ Filled.start = StartOf /\ Filled.end = EndOf /\ Filled.count = Filling.count + 1
      /\ Filling.count \in Nat
  BY AddBounds
<1>2. \A c \in 1..(New - 1) :
         /\ blocks'[c] = blocks[c]
         /\ blocks[c].start \in Nat /\ blocks[c].end \in Nat
         /\ blocks[c].end <= StartOf \/ EndOf <= blocks[c].start
  BY AddBounds
<1>3. PagesOK(pgs, New, blocks')
  BY PagesInserted
<1>4. p \in Pages /\ PageIndex(StartOf) < p /\ p \in Nat /\ PageIndex(StartOf) \in Nat
  <2>1. p \in Pages /\ PageIndex(StartOf) < p
    BY DEF AddInstruction, OutOfPages, Overlaps
  <2>2. EndOf \in Nat /\ StartOf \in Nat
    BY <1>1
  <2> QED BY <2>1, <2>2, PageBounds
<1> HIDE DEF p, pgs
<1>5. /\ PagesTo(pgs, New) /\ s \in Seq(Nat) /\ Len(s) \in Nat /\ PageOK(s, p, blocks')
      /\ \A j \in 1..Len(s) : s[j] \in 1..New
  BY <1>3, <1>4 DEF PagesOK, PagesTo
<1> HIDE DEF s
\* the others it lists start behind the block
<1>6. ASSUME NEW j \in 1..Len(s), s[j] # New PROVE StartOf < blocks'[s[j]].start
  <2> DEFINE c == s[j]
             e == blocks[c]
  <2>7. c \in 1..New /\ c # New
    BY <1>5, <1>6
  <2>2. Spans(blocks'[c], p)
    BY <1>5 DEF PageOK
  <2> HIDE DEF c
  <2>1. c \in 1..(New - 1)
    BY <1>1, <2>7
  <2>3. /\ blocks'[c] = e /\ e.start \in Nat /\ e.end \in Nat
        /\ e.end <= StartOf \/ EndOf <= e.start
    BY <1>2, <2>1
  <2>4. p <= PageIndex(e.end)
    BY <2>2, <2>3 DEF Spans
  <2> HIDE DEF e
  <2>5. ~(e.end <= StartOf)
    <3> SUFFICES ASSUME e.end <= StartOf PROVE FALSE
      OBVIOUS
    <3>1. PageIndex(e.end) <= PageIndex(StartOf)
      BY <1>1, <2>3, PagesAscend
    <3>2. PageIndex(e.end) \in Nat
      BY <2>3, PageBounds
    <3> QED BY <1>4, <2>4, <3>1, <3>2
  <2>6. StartOf < e.start
    BY <1>1, <2>3, <2>5
  <2> QED BY <2>3, <2>6 DEF c
<1>7. CASE s # << >> /\ Head(s) = New
  <2>1. Overlap(pgs, p) = pgs
    BY <1>7 DEF Overlap, s
  <2>2. 1 \in 1..Len(s) /\ s[1] = New
    BY <1>5, <1>7
  <2>3. Listed(pgs, p, New)
    BY <2>2 DEF Listed, s
  <2> QED BY <1>3, <1>4, <2>1, <2>3 DEF p, pgs
<1>8. CASE ~(s # << >> /\ Head(s) = New)
  <2> DEFINE q == << New >> \o s
  <2>1. Overlap(pgs, p) = [pgs EXCEPT ![p] = q]
    BY <1>8 DEF Overlap, s
  <2>2. Insertion(s, 1, New, q)
    BY <1>1, <1>5, Insertions
  <2> HIDE DEF q
  <2>3. ASSUME NEW j \in 1..Len(s) PROVE s[j] # New
    <3> SUFFICES ASSUME s[j] = New PROVE FALSE
      OBVIOUS
    <3>1. s # << >> /\ 1 \in 1..Len(s) /\ Head(s) = s[1]
      BY <1>5
    <3>2. s[1] # New /\ 1 < j
      BY <1>5, <1>8, <3>1
    <3>3. StartOf < blocks'[s[1]].start
      BY <1>6, <3>1, <3>2
    <3>4. blocks'[s[1]].start < blocks'[s[j]].start
      BY <1>5, <3>1, <3>2 DEF PageOK
    <3>5. s[1] \in 1..(New - 1)
      BY <1>1, <1>5, <3>1, <3>2
    <3> DEFINE y == blocks'[s[1]].start
    <3>6. y \in Nat
      BY <1>2, <3>5
    <3>7. y < StartOf /\ StartOf < y
      BY <1>1, <3>3, <3>4
    <3> HIDE DEF y
    <3> QED BY <1>1, <3>6, <3>7
  <2>4. \A j \in 1..Len(s) : blocks'[New].start < blocks'[s[j]].start
    BY <1>1, <1>6, <2>3
  <2>5. \A j \in 1..(1 - 1) : blocks'[s[j]].start < blocks'[New].start
    OBVIOUS
  <2>6. Spans(blocks'[New], p)
    <3>1. Filled.count # 0
      BY <1>1
    <3>2. PageIndex(StartOf) <= p /\ p <= p
      BY <1>4
    <3> QED BY <1>1, <3>1, <3>2 DEF Spans, p
  <2>7. PagesOK([pgs EXCEPT ![p] = q], New, blocks')
    <3>1. New \in 1..New /\ Insertion(pgs[p], 1, New, q)
      BY <1>1, <2>2 DEF s
    <3>2. \A j \in 1..Len(pgs[p]) : blocks'[New].start < blocks'[pgs[p][j]].start
      BY <2>4 DEF s
    <3>3. \A j \in 1..(1 - 1) : blocks'[pgs[p][j]].start < blocks'[New].start
      OBVIOUS
    <3> QED BY <1>1, <1>3, <1>4, <2>6, <3>1, <3>2, <3>3, InsertionOK
  <2>8. /\ Listed([pgs EXCEPT ![p] = q], p, New)
        /\ \A r \in Pages : \A b : Listed(pgs, r, b) => Listed([pgs EXCEPT ![p] = q], r, b)
    <3>1. New \in 1..New /\ Insertion(pgs[p], 1, New, q)
      BY <1>1, <2>2 DEF s
    <3> QED BY <1>1, <1>4, <1>5, <3>1, InsertionLists
  <2> QED BY <1>4, <2>1, <2>7, <2>8 DEF p, pgs
<1> QED BY <1>7, <1>8

LEMMA AddPlaced ==
    ASSUME NEW B \in SUBSET Nat, OneReading(B), InvRead(B), AddInstruction
    PROVE  Placed(B)'
<1>1. /\ New \in Nat /\ New >= 1 /\ Len(blocks) = New /\ Len(blocks') = New /\ blocks'[New] = Filled
      /\ StartOf \in Nat /\ EndOf \in Nat /\ StartOf <= Instr /\ Instr < EndOf /\ Instr \in Nat
      /\ Filling.count # 0 => Filling.end = Instr
      /\ Filling.count = 0 => StartOf = Instr
      /\ Filled.count = Filling.count + 1 /\ Filling.count \in Nat
      /\ \A c \in 1..(New - 1) : blocks'[c] = blocks[c] /\ blocks[c].count # 0
  BY AddBounds
<1>2. Inv /\ Placed(B) /\ AllListed
  BY DEF InvRead, Placed
<1>3. /\ PagesOK(PagesAfterInsert, New, blocks')
      /\ PageIndex(StartOf) \in Pages /\ Listed(PagesAfterInsert, PageIndex(StartOf), New)
      /\ \A r \in Pages : \A b : Listed(pages, r, b) => Listed(PagesAfterInsert, r, b)
  BY PagesInserted
<1>4. pages' = IF Overlaps THEN Overlap(PagesAfterInsert, PageIndex(EndOf)) ELSE PagesAfterInsert
  BY DEF AddInstruction
<1>5. /\ PagesOK(pages', New, blocks')
      /\ Listed(pages', PageIndex(StartOf), New)
      /\ PageIndex(EndOf) \in Pages /\ Listed(pages', PageIndex(EndOf), New)
      /\ \A r \in Pages : \A b : Listed(pages, r, b) => Listed(pages', r, b)
  <2>1. CASE Overlaps
    BY <1>3, <1>4, <2>1, PagesOverlapped
  <2>2. CASE ~Overlaps
    <3>1. PageIndex(StartOf) = PageIndex(EndOf)
      <4>1. StartOf <= EndOf
        BY <1>1
      <4>2. PageIndex(StartOf) <= PageIndex(EndOf)
        BY <1>1, <4>1, PagesAscend
      <4>3. PageIndex(StartOf) \in Nat /\ PageIndex(EndOf) \in Nat
        BY <1>1, PageBounds
      <4> QED BY <2>2, <4>2, <4>3 DEF Overlaps
    <3> QED BY <1>3, <1>4, <2>2, <3>1
  <2> QED BY <2>1, <2>2
<1>6. PagesSpan' /\ PagesOrdered'
  BY <1>5 DEF PagesOK, PageOK, PagesSpan, PagesOrdered
<1> DEFINE at2 == StartsOf(Filled, offsets'.memory)
           n == Filling.count
<1>7. /\ Filled.count = n + 1 /\ n \in Nat
      /\ \A i \in 1..n : at2[i].x86 = Starts(New)[i].x86
      /\ at2[n + 1].x86 = Instr /\ at2[n + 2].x86 = EndOf
  BY <1>1, <1>2, AddStarts
<1>8. \A b : b = New => Starts(b)' = at2
  BY <1>1 DEF Starts
<1>9. ListedAlong(pages', New, Filled, at2)
  <2>1. ASSUME NEW i \in 1..((n + 1) + 1)
        PROVE  PageIndex(at2[i].x86) \in Pages /\ Listed(pages', PageIndex(at2[i].x86), New)
    <3>1. CASE i = n + 2
      BY <1>5, <1>7, <3>1
    <3>2. ASSUME n # 0
          PROVE  /\ \A j \in 1..(n + 1) : /\ PageIndex(Starts(New)[j].x86) \in Pages
                                          /\ Listed(pages', PageIndex(Starts(New)[j].x86), New)
                 /\ Starts(New)[n + 1].x86 = Instr
      <4>1. New \in 1..Len(blocks) /\ blocks[New].count # 0 /\ blocks[New].count = n
        BY <1>1, <3>2 DEF Filling
      <4>2. ListedAlong(pages, New, blocks[New], Starts(New))
        BY <1>2, <4>1 DEF AllListed
      <4>3. Starts(New)[blocks[New].count + 1].x86 = blocks[New].end
        BY <4>1, BegunBlocks
      <4>4. Starts(New)[n + 1].x86 = Instr
        BY <1>1, <3>2, <4>1, <4>3 DEF Filling
      <4> QED BY <1>5, <4>1, <4>2, <4>4 DEF ListedAlong
    <3>3. CASE i = n + 1
      <4>1. CASE n = 0
        BY <1>1, <1>3, <1>5, <1>7, <3>3, <4>1
      <4>2. CASE n # 0
        <5>1. n + 1 \in 1..(n + 1)
          BY <1>7
        <5> QED BY <1>7, <3>2, <3>3, <4>2, <5>1
      <4> QED BY <4>1, <4>2
    <3>4. CASE i \in 1..n
      <4>1. n # 0 /\ i \in 1..(n + 1)
        BY <1>7, <3>4
      <4> QED BY <1>7, <3>2, <3>4, <4>1
    <3>5. i = n + 2 \/ i = n + 1 \/ i \in 1..n
      BY <1>7
    <3> QED BY <3>1, <3>3, <3>4, <3>5
  <2> HIDE DEF at2
  <2> QED BY <1>7, <2>1 DEF ListedAlong
<1>10. AllListed'
  <2> SUFFICES ASSUME NEW b \in 1..New PROVE ListedAlong(pages', b, blocks'[b], Starts(b)')
    BY <1>1 DEF AllListed
  <2>1. CASE b = New
    BY <1>1, <1>8, <1>9, <2>1 DEF Starts
  <2>2. CASE b # New
    <3>1. b \in 1..(New - 1) /\ b \in 1..Len(blocks)
      BY <1>1, <2>2
    <3>2. blocks'[b] = blocks[b] /\ Starts(b)' = Starts(b) /\ blocks[b].count # 0
      BY <1>1, <1>2, <2>2, <3>1, AddOthers
    <3>3. ListedAlong(pages, b, blocks[b], Starts(b))
      BY <1>2, <3>1, <3>2 DEF AllListed
    <3>4. ListedAlong(pages', b, blocks[b], Starts(b))
      BY <1>5, <3>3 DEF ListedAlong
    <3> QED BY <3>2, <3>4
  <2> QED BY <2>1, <2>2
<1>11. status' = "adding" => Reserved(B)'
  <2>1. status' = "adding" => ~IsLast
    BY DEF AddInstruction
  <2> QED BY <2>1, AddReserved
<1>12. BlocksRead(B)' /\ AllApart'
  BY AddRead
<1> QED BY <1>6, <1>10, <1>11, <1>12 DEF Placed

LEMMA ReadStepKeeps ==
    ASSUME NEW B \in SUBSET Nat, OneReading(B), InvRead(B), [Next]_vars
    PROVE  InvRead(B)'
<1>1. Inv' /\ Inv /\ Placed(B)
  BY StepKeeps DEF InvRead
<1>2. CASE Translate
  <2>1. PICK x \in Targets : Known(x) \/ CannotTranslate(x) \/ CreateBlock(x)
    BY <1>2 DEF Translate
  <2>2. status = "idle"
    BY <1>2 DEF Translate
  <2>3. CASE CreateBlock(x)
    BY <1>1, <2>2, <2>3, CreatePlaced DEF InvRead
  <2>4. CASE Known(x) \/ CannotTranslate(x)
    <3>1. UNCHANGED <<blocks, pages, offsets>> /\ status' # "adding"
      BY <2>2, <2>4 DEF Known, CannotTranslate
    <3> QED BY <1>1, <3>1, StillPlaced DEF InvRead
  <2> QED BY <2>1, <2>3, <2>4
<1>3. CASE AddInstruction
  BY <1>1, <1>3, AddPlaced DEF InvRead
<1>4. CASE CannotAdd \/ Corrupts \/ Terminated \/ UNCHANGED vars
  <2>1. UNCHANGED <<blocks, pages, offsets>> /\ (status' = "adding" => status = "adding" /\ todo' = todo)
    BY <1>4 DEF CannotAdd, Corrupts, Terminated, vars
  <2> QED BY <1>1, <2>1, StillPlaced DEF InvRead
<1> QED BY <1>2, <1>3, <1>4 DEF Next

-----------------------------------------------------------------------------
(* What follows where instructions do not overlap *)

\* In every reachable state no two blocks overlap, neither does what is still to
\* be added with any of them, and every page lists the blocks that have an
\* instruction in it in the order of their addresses: what the binary search of
\* find() relies on and nothing in the code checks.
THEOREM StoreReadInductive ==
    ASSUME NEW B \in SUBSET Nat, OneReading(B)
    PROVE  Spec => []InvRead(B)
<1>1. Init => InvRead(B)
  BY Initially, InitiallyPlaced DEF InvRead
<1>2. InvRead(B) /\ [Next]_vars => InvRead(B)'
  BY ReadStepKeeps
<1> QED BY <1>1, <1>2, PTL DEF Spec

\* No byte of the guest's code is translated in two blocks, although
\* get_next_block() only looks for the one that starts next.
THEOREM NothingTranslatedTwice ==
    ASSUME NEW B \in SUBSET Nat, OneReading(B)
    PROVE  Spec => []BlocksDisjoint
<1>1. InvRead(B) => BlocksDisjoint
  <2> SUFFICES ASSUME InvRead(B), NEW b \in Begun, NEW c \in Begun, b # c PROVE Apart(blocks[b], blocks[c])
    BY DEF BlocksDisjoint, Apart
  <2>1. blocks \in Seq(Entries) /\ AllApart
    BY DEF InvRead, Inv, TypeOK, Placed
  <2>2. b \in 1..Len(blocks) /\ c \in 1..Len(blocks) /\ blocks[b].count > 0 /\ blocks[c].count > 0
    BY DEF Begun
  <2>3. blocks[b].count # 0 /\ blocks[c].count # 0
    BY <2>2
  <2> QED BY <2>1, <2>2, <2>3 DEF AllApart
<1> QED BY <1>1, StoreReadInductive, PTL

\* What find() answers for x in a block of n instructions that start at at.
AnswerIn(n, at, x) == at[CHOOSE i \in {k \in 1..n : at[k].x86 = x} : TRUE].riscv
StartsAnswered ==
    \A b \in 1..Len(blocks) : blocks[b].count # 0 =>
       \A i \in 1..blocks[b].count :
          /\ Find(Starts(b)[i].x86) = AnswerIn(blocks[b].count, Starts(b), Starts(b)[i].x86)
          /\ Find(Starts(b)[i].x86) # Null

LEMMA StartsHaveAnswers == ASSUME NEW B, InvRead(B) PROVE StartsAnswered
<1> SUFFICES ASSUME NEW b \in 1..Len(blocks), blocks[b].count # 0, NEW i \in 1..blocks[b].count
             PROVE  /\ Find(Starts(b)[i].x86) = AnswerIn(blocks[b].count, Starts(b), Starts(b)[i].x86)
                    /\ Find(Starts(b)[i].x86) # Null
  BY DEF StartsAnswered
<1> DEFINE x == Starts(b)[i].x86
           j == CHOOSE k \in At(b, x) : TRUE
<1>1. b # 0 /\ FindBlock(x) = b /\ i \in At(b, x)
  BY StartsFound DEF FindsStarts, At
<1>2. ~JumpsInside(x)
  BY <1>1 DEF JumpsInside
<1>3. Find(x) = Starts(b)[j].riscv
  BY <1>1, <1>2 DEF Find
<1>4. j \in At(b, x)
  BY <1>1
<1>5. Starts(b)[j].riscv = AnswerIn(blocks[b].count, Starts(b), x)
  BY DEF AnswerIn, At
<1> HIDE DEF j, x
<1>6. j \in 1..blocks[b].count
  BY <1>4 DEF At
<1>7. /\ Whole(blocks[b], code, offsets) /\ blocks[b] \in Entries
      /\ Starts(b)[j] \in Places
  BY <1>6, StartsInPlaces DEF InvRead, Inv
<1>8. j \in 1..(blocks[b].count + 1)
  BY <1>6, <1>7 DEF Entries
<1>9. 2 <= blocks[b].riscv /\ blocks[b].riscv <= Starts(b)[j].riscv
  BY <1>7, <1>8 DEF Whole, Starts
<1>10. Starts(b)[j].riscv \in Nat /\ blocks[b].riscv \in Nat
  BY <1>7 DEF Places, Entries
<1>11. Starts(b)[j].riscv # 0
  BY <1>9, <1>10
<1> QED BY <1>3, <1>5, <1>11 DEF x, Null

LEMMA FinishedBegun ==
    ASSUME Inv, NEW b \in Finished
    PROVE  /\ blocks \in Seq(Entries) /\ Len(blocks) \in Nat
           /\ b \in 1..Len(blocks) /\ blocks[b].count # 0
           /\ status = "adding" => b # New
<1>1. blocks \in Seq(Entries) /\ Len(blocks) \in Nat /\ FinishedLinked
  BY DEF Inv, TypeOK
<1>2. b \in 1..Len(blocks) /\ (status = "adding" => b # New)
  BY <1>1 DEF Finished, New
<1> QED BY <1>1, <1>2 DEF FinishedLinked

\* find() answers for every instruction of a finished block: the search never
\* misses the block, in whatever order the blocks were made.
THEOREM FindMissesNothing ==
    ASSUME NEW B \in SUBSET Nat, OneReading(B)
    PROVE  Spec => []FindComplete
<1>1. InvRead(B) => FindComplete
  <2> SUFFICES ASSUME InvRead(B), NEW b \in Finished, NEW i \in 1..blocks[b].count
               PROVE  Find(Starts(b)[i].x86) # Null
    BY DEF FindComplete
  <2>1. b \in 1..Len(blocks) /\ blocks[b].count # 0
    BY FinishedBegun DEF InvRead
  <2> QED BY <2>1, StartsHaveAnswers DEF StartsAnswered
<1> QED BY <1>1, StoreReadInductive, PTL

\* "codestore::find(...) must have failed" never happens: where get_next_block()
\* answers with a block that starts at x, find() would have found that block.
THEOREM EmptyBlocksNeverArise ==
    ASSUME NEW B \in SUBSET Nat, OneReading(B)
    PROVE  Spec => []FindNeverFails
<1>1. InvRead(B) => FindNeverFails
  <2> SUFFICES ASSUME InvRead(B), status = "idle", NEW x \in Address, FindBlock(x) = 0, NextBlock(x) # 0,
                      blocks[NextBlock(x)].start = x
               PROVE  FALSE
    BY DEF FindNeverFails
  <2> DEFINE b == NextBlock(x)
  <2>1. b \in 1..Len(blocks)
    BY NextStarts DEF InvRead, Inv
  <2> HIDE DEF b
  <2>2. blocks[b].count # 0 /\ b \in Finished /\ b # 0
    <3>1. b \in Finished
      BY <2>1 DEF Finished
    <3> QED BY <2>1, <3>1, FinishedBegun DEF InvRead
  <2>3. blocks[b].count \in Nat /\ blocks[b].count >= 1 /\ Starts(b)[1].x86 = blocks[b].start
    BY <2>1, <2>2, BegunBlocks
  <2>4. 1 \in 1..blocks[b].count
    BY <2>3
  <2>5. FindBlock(Starts(b)[1].x86) = b
    BY <2>1, <2>2, <2>4, StartsFound DEF FindsStarts
  <2> QED BY <2>2, <2>3, <2>5 DEF b
<1> QED BY <1>1, StoreReadInductive, PTL

\* A step leaves a finished block as it is, whatever instructions overlap.
LEMMA FinishedKept ==
    ASSUME Inv, [Next]_vars, NEW b \in Finished
    PROVE  /\ b \in 1..Len(blocks) /\ blocks[b].count # 0
           /\ blocks'[b] = blocks[b] /\ Starts(b)' = Starts(b) /\ b \in 1..Len(blocks')
<1>1. /\ blocks \in Seq(Entries) /\ Len(blocks) \in Nat
      /\ b \in 1..Len(blocks) /\ blocks[b].count # 0
      /\ status = "adding" => b # New
  BY FinishedBegun
<1>2. CASE AddInstruction
  <2>1. blocks'[b] = blocks[b] /\ Starts(b)' = Starts(b)
    BY <1>1, <1>2, AddOthers DEF AddInstruction
  <2>2. Len(blocks') = Len(blocks)
    BY <1>1, <1>2 DEF AddInstruction
  <2> QED BY <1>1, <2>1, <2>2
<1>3. ASSUME NEW x \in Targets, CreateBlock(x)
      PROVE  blocks'[b] = blocks[b] /\ Starts(b)' = Starts(b) /\ b \in 1..Len(blocks')
  <2>1. blocks' = Append(blocks, NewBlock) /\ offsets' = offsets
    BY <1>3 DEF CreateBlock
  <2>2. blocks'[b] = blocks[b] /\ Len(blocks') = Len(blocks) + 1
    BY <1>1, <2>1
  <2>3. Starts(b)' = Starts(b)
    BY <2>1, <2>2 DEF Starts
  <2> QED BY <1>1, <2>2, <2>3
<1>4. CASE UNCHANGED <<blocks, offsets>>
  BY <1>1, <1>4 DEF Starts
<1> QED BY <1>1, <1>2, <1>3, <1>4 DEF Next, Translate, Known, CannotTranslate, CannotAdd, Corrupts, Terminated, vars

\* What find() answers for its instructions stays, where they are found.
LEMMA AnswersKept ==
    ASSUME Inv, [Next]_vars, StartsAnswered, StartsAnswered', NEW b \in Finished, NEW i \in 1..blocks[b].count
    PROVE  Find(Starts(b)[i].x86)' = Find(Starts(b)[i].x86)
<1>1. /\ b \in 1..Len(blocks) /\ blocks[b].count # 0
      /\ blocks'[b] = blocks[b] /\ Starts(b)' = Starts(b) /\ b \in 1..Len(blocks')
  BY FinishedKept
<1> DEFINE x == Starts(b)[i].x86
<1>2. Find(x) = AnswerIn(blocks[b].count, Starts(b), x)
  BY <1>1 DEF StartsAnswered
<1>3. blocks'[b].count = blocks[b].count /\ i \in 1..blocks'[b].count
  BY <1>1
<1>4. Find(Starts(b)[i].x86)' = AnswerIn(blocks'[b].count, Starts(b)', Starts(b)'[i].x86)
  BY <1>1, <1>3 DEF StartsAnswered
<1> QED BY <1>1, <1>2, <1>4

\* Later translations neither move nor overwrite a finished block, and find()
\* answers for its instructions what it answered before.
THEOREM FinishedBlocksStay ==
    ASSUME NEW B \in SUBSET Nat, OneReading(B)
    PROVE  Spec => BlocksAreFinal
<1>1. InvRead(B) => StartsAnswered
  BY StartsHaveAnswers
<1>2. InvRead(B)' => StartsAnswered'
  BY <1>1, PTL
<1>3. InvRead(B) /\ InvRead(B)' /\ [Next]_vars
      => [\A b \in Finished :
             /\ blocks'[b] = blocks[b]
             /\ Starts(b)' = Starts(b)
             /\ \A x \in {Starts(b)[i].x86 : i \in 1..blocks[b].count} :
                   Find(x) # Null => Find(x)' = Find(x)]_vars
  <2> SUFFICES ASSUME InvRead(B), InvRead(B)', Next, NEW b \in Finished
               PROVE  /\ blocks'[b] = blocks[b]
                      /\ Starts(b)' = Starts(b)
                      /\ \A x \in {Starts(b)[i].x86 : i \in 1..blocks[b].count} :
                            Find(x) # Null => Find(x)' = Find(x)
    OBVIOUS
  <2>1. Inv /\ blocks'[b] = blocks[b] /\ Starts(b)' = Starts(b)
    BY FinishedKept DEF InvRead
  <2>2. \A i \in 1..blocks[b].count : Find(Starts(b)[i].x86)' = Find(Starts(b)[i].x86)
    BY <1>1, <1>2, <2>1, AnswersKept
  <2> QED BY <2>1, <2>2
<1> QED BY <1>3, StoreReadInductive, PTL DEF BlocksAreFinal, Spec

-----------------------------------------------------------------------------
(* The code store is a map that grows *)

\* While a block is added to, it is the one for the address that was asked for.
AskedFor == status = "adding" => StartOf = answer.x86

\* What a step may rely on before and after it.
MapFacts ==
    /\ StartsAnswered
    /\ Translations \in [Address -> Nat] /\ TM!Unshared(Translations)
    /\ \A x \in Address : status = "idle" => Translations[x] = Find(x)
    /\ \A b \in 1..Len(blocks) : blocks[b].count # 0 => /\ blocks[b].start \in Address
                                                         /\ Find(blocks[b].start) = blocks[b].riscv
MapInv(B) == InvRead(B) /\ AskedFor

\* The first instruction of a block is the only one where the block starts.
LEMMA BlockStartFound ==
    ASSUME NEW B, InvRead(B), NEW b \in 1..Len(blocks), blocks[b].count # 0
    PROVE  blocks[b].start \in Address /\ Find(blocks[b].start) = blocks[b].riscv
<1> DEFINE n == blocks[b].count
           at == Starts(b)
           x == blocks[b].start
           i == CHOOSE k \in {k \in 1..n : at[k].x86 = x} : TRUE
<1>1. /\ n \in Nat /\ n >= 1 /\ at[1].x86 = x /\ StartsFollow(at, blocks[b], offsets.memory)
      /\ \A k \in 1..n : Translated(at, k, code) /\ at[k].x86 \in Nat /\ x <= at[k].x86
  BY BegunBlocks
<1>2. 1 \in 1..n
  BY <1>1
<1>3. Find(x) = at[i].riscv
  BY <1>1, <1>2, StartsHaveAnswers DEF StartsAnswered, AnswerIn
<1>4. i \in 1..n /\ at[i].x86 = x
  BY <1>1, <1>2
<1> HIDE DEF i
<1>5. i = 1
  <2> SUFFICES ASSUME i # 1 PROVE FALSE
    OBVIOUS
  <2> DEFINE y == at[i - 1].x86
  <2>1. i - 1 \in 1..n /\ (i - 1) + 1 = i
    BY <1>1, <1>4
  <2>2. Decodes(y) /\ at[i].x86 = y + Size[y] /\ y \in Nat /\ x <= y
    BY <1>1, <2>1 DEF Translated
  <2>3. Size[y] \in Nat /\ Size[y] > 0
    BY <2>2, DecodedSize DEF Decodes
  <2>4. x = y + Size[y] /\ x \in Nat
    BY <1>1, <1>2, <1>4, <2>2
  <2> HIDE DEF x, y
  <2> DEFINE z == Size[y]
  <2>5. x = y + z /\ x <= y /\ z \in Nat /\ z > 0 /\ x \in Nat /\ y \in Nat
    BY <2>2, <2>3, <2>4
  <2> HIDE DEF z
  <2> QED BY <2>5
<1>6. at[1].riscv = blocks[b].riscv
  BY <1>1 DEF StartsFollow
<1>7. x \in Address
  BY <1>1, <1>2 DEF Translated, Decodes
<1> QED BY <1>3, <1>5, <1>6, <1>7

LEMMA AnswersAreNumbers == ASSUME Inv, NEW x \in Address PROVE Find(x) \in Nat
<1>1. CASE Find(x) = 0
  BY <1>1
<1>2. CASE Find(x) # 0
  <2>1. PICK b \in 1..Len(blocks) : \E i \in 1..blocks[b].count : Find(x) = Starts(b)[i].riscv
    BY <1>2, Found DEF Inv
  <2>2. PICK i \in 1..blocks[b].count : Find(x) = Starts(b)[i].riscv
    BY <2>1
  <2>3. Starts(b)[i] \in Places
    BY StartsInPlaces DEF Inv
  <2> QED BY <2>2, <2>3 DEF Places
<1> QED BY <1>1, <1>2

\* Two addresses with one answer both lead to the code that is there.
LEMMA AnswersUnshared ==
    ASSUME NEW B, InvRead(B), NEW x \in Address, NEW y \in Address, InFinished(x), InFinished(y),
           Find(x) = Find(y), Find(x) # Null
    PROVE  FirstCode[x] = FirstCode[y]
<1>1. ASSUME NEW z \in Address, InFinished(z) PROVE FindBlock(z) \in Finished
  <2>1. PICK b \in Finished : \E i \in 1..blocks[b].count : Starts(b)[i].x86 = z
    BY <1>1 DEF InFinished
  <2>2. b \in 1..Len(blocks)
    BY FinishedBegun DEF InvRead
  <2> QED BY <2>1, <2>2, StartsFound DEF FindsStarts
<1>2. Leads(Find(x), x) /\ Leads(Find(x), y)
  BY <1>1, FoundIsSound DEF FindSound, InvRead
<1> QED BY <1>2 DEF Leads

\* A block that find() answers from is finished, unless one is being made.
LEMMA FoundIsFinished ==
    ASSUME Inv, status = "idle", NEW x \in Address, Find(x) # Null
    PROVE  InFinished(x)
<1>1. PICK b \in 1..Len(blocks) : \E i \in 1..blocks[b].count : Starts(b)[i].x86 = x
  BY Found DEF Inv, Null
<1>2. b \in Finished
  BY DEF Finished
<1> QED BY <1>1, <1>2 DEF InFinished

LEMMA MapFactsHold == ASSUME NEW B, MapInv(B) PROVE MapFacts
<1>1. InvRead(B) /\ Inv
  BY DEF MapInv, InvRead
<1>2. StartsAnswered
  BY <1>1, StartsHaveAnswers
<1>3. Translations \in [Address -> Nat]
  BY <1>1, AnswersAreNumbers DEF Translations, Null
<1>4. TM!Unshared(Translations)
  <2> SUFFICES ASSUME NEW x \in Address, NEW y \in Address,
                      Translations[x] = Translations[y], Translations[x] # Null
               PROVE  FirstCode[x] = FirstCode[y]
    BY DEF TM!Unshared, TM!Null, Null
  <2>1. Translations[x] = Find(x) /\ Translations[y] = Find(y) /\ InFinished(x) /\ InFinished(y)
    BY DEF Translations
  <2> QED BY <1>1, <2>1, AnswersUnshared
<1>5. ASSUME NEW x \in Address, status = "idle" PROVE Translations[x] = Find(x)
  <2>1. Find(x) # Null => InFinished(x)
    BY <1>1, <1>5, FoundIsFinished
  <2>2. status \notin Ended
    BY <1>5 DEF Ended
  <2> QED BY <2>1, <2>2 DEF Translations
<1>6. ASSUME NEW b \in 1..Len(blocks), blocks[b].count # 0
      PROVE  blocks[b].start \in Address /\ Find(blocks[b].start) = blocks[b].riscv
  BY <1>1, <1>6, BlockStartFound
<1> QED BY <1>2, <1>3, <1>4, <1>5, <1>6 DEF MapFacts

\* What has a translation keeps it.
LEMMA TranslationsKept ==
    ASSUME Inv, [Next]_vars, MapFacts, MapFacts', Finished \subseteq Finished', status' \notin Ended,
           NEW x \in Address, InFinished(x)
    PROVE  InFinished(x)' /\ Find(x) # Null /\ Translations'[x] = Find(x)
<1>1. PICK b \in Finished : \E i \in 1..blocks[b].count : Starts(b)[i].x86 = x
  BY DEF InFinished
<1>2. PICK i \in 1..blocks[b].count : Starts(b)[i].x86 = x
  BY <1>1
<1>3. /\ b \in 1..Len(blocks) /\ blocks[b].count # 0 /\ blocks'[b] = blocks[b]
      /\ Starts(b)' = Starts(b) /\ b \in Finished'
  BY FinishedKept
<1>4. Find(Starts(b)[i].x86)' = Find(Starts(b)[i].x86)
  BY AnswersKept DEF MapFacts
<1>5. Starts(b)'[i].x86 = x
  BY <1>2, <1>3
<1>6. Find(x)' = Find(x)
  BY <1>2, <1>4, <1>5
<1>7. InFinished(x)'
  BY <1>2, <1>3 DEF InFinished
<1>8. Find(x) # Null
  BY <1>2, <1>3 DEF MapFacts, StartsAnswered
<1> QED BY <1>6, <1>7, <1>8 DEF Translations

\* and nothing else gets one before the block is finished.
LEMMA TranslationsSame ==
    ASSUME Inv, [Next]_vars, MapFacts, MapFacts', Finished' = Finished, status \notin Ended, status' \notin Ended
    PROVE  Translations' = Translations
<1>1. ASSUME NEW x \in Address, InFinished(x)' PROVE InFinished(x)
  <2>1. PICK b \in Finished : \E i \in 1..blocks'[b].count : Starts(b)'[i].x86 = x
    BY <1>1 DEF InFinished
  <2>2. blocks'[b] = blocks[b] /\ Starts(b)' = Starts(b)
    BY FinishedKept
  <2> QED BY <2>1, <2>2 DEF InFinished
<1>2. ASSUME NEW x \in Address PROVE Translations'[x] = Translations[x]
  <2>1. CASE InFinished(x)
    <3>1. Translations'[x] = Find(x)
      BY <2>1, TranslationsKept
    <3> QED BY <2>1, <3>1 DEF Translations
  <2>2. CASE ~InFinished(x)
    BY <1>1, <2>2 DEF Translations
  <2> QED BY <2>1, <2>2
<1>3. Translations \in [Address -> Nat] /\ Translations' \in [Address -> Nat]
  BY DEF MapFacts
<1> QED BY <1>2, <1>3

LEMMA AskedForKeeps == ASSUME Inv, AskedFor, [Next]_vars PROVE AskedFor'
<1> SUFFICES ASSUME status' = "adding" PROVE StartOf' = answer'.x86
  BY DEF AskedFor
<1>1. ASSUME NEW x \in Targets, CreateBlock(x) PROVE StartOf' = answer'.x86
  <2> DEFINE s == Straight(x, NextBlock(x))
  <2>1. /\ blocks' = Append(blocks, NewBlock) /\ todo' = s /\ answer' = [x86 |-> x, riscv |-> Null]
        /\ s # << >> /\ Undecodable \notin ToSet(s)
    BY <1>1 DEF CreateBlock
  <2>2. x \in Address /\ blocks \in Seq(Entries) /\ TypeOK
    BY TargetsAssumption DEF Inv, TypeOK
  <2>3. s \in Seq(Address) /\ s[1] = x
    BY <2>1, <2>2, DecodedPends
  <2> HIDE DEF s
  <2>4. Filling' = NewBlock
    BY <2>1, <2>2 DEF Filling, New
  <2>5. Instr' = x
    BY <2>1, <2>3 DEF Instr
  <2> QED BY <2>1, <2>4, <2>5 DEF StartOf, NewBlock
<1>2. CASE AddInstruction
  <2>1. status = "adding" /\ answer' = answer
    BY <1>2 DEF AddInstruction
  <2>2. StartOf = answer.x86
    BY <2>1 DEF AskedFor
  <2>3. New \in Nat /\ New >= 1 /\ Len(blocks) = New /\ blocks \in Seq(Entries)
    BY <2>1, InstrFacts DEF Inv, TypeOK
  <2>4. Filled \in Entries /\ Filled.count # 0
    BY <1>2, AddNew
  <2>5. blocks' = [blocks EXCEPT ![New] = Filled]
    BY <1>2 DEF AddInstruction
  <2>6. Filling' = Filled
    BY <2>3, <2>5 DEF Filling, New
  <2>7. Filled.start = StartOf
    BY DEF Filled
  <2> QED BY <2>1, <2>2, <2>4, <2>6, <2>7 DEF StartOf
<1>3. CASE UNCHANGED <<blocks, todo, answer, status>>
  BY <1>3 DEF AskedFor, StartOf, Filling, New, Instr
<1>4. ~CannotAdd /\ ~Corrupts /\ \A x \in Targets : ~CannotTranslate(x)
  BY DEF CannotAdd, Corrupts, CannotTranslate
<1>5. \A x \in Targets : Known(x) => UNCHANGED <<blocks, todo, status>> /\ (status = "idle" => status' # "adding")
  BY DEF Known
<1> QED BY <1>1, <1>2, <1>3, <1>4, <1>5 DEF Next, Translate, Terminated, vars

\* The steps of the store, one by one: the answer of find(), a new block, an
\* instruction that is not the last, the last, and the ways to fail.
LEMMA KnownRecalls ==
    ASSUME Inv, MapFacts, MapFacts', Next, status = "idle", NEW x \in Targets, Known(x)
    PROVE  TM!Recall(x)
<1>1. x \in Address /\ status' = "idle" /\ blocks' = blocks
  BY TargetsAssumption DEF Known
<1>2. Translations' = Translations
  <2>1. Finished' = Finished
    BY <1>1 DEF Finished
  <2> QED BY <1>1, <2>1, TranslationsSame DEF Ended
<1>3. Translations[x] = Find(x)
  BY <1>1 DEF MapFacts
<1> QED BY <1>1, <1>2, <1>3 DEF Known, TM!Recall, TM!Null, Null, Ended

LEMMA CreateBegins ==
    ASSUME Inv, MapFacts, MapFacts', Next, status = "idle", NEW x \in Targets, CreateBlock(x)
    PROVE  TM!Begin(x)
<1>1. /\ x \in Address /\ status' = "adding" /\ blocks' = Append(blocks, NewBlock)
      /\ answer' = [x86 |-> x, riscv |-> Null] /\ FindBlock(x) = 0
  BY TargetsAssumption DEF CreateBlock
<1>2. Translations' = Translations
  <2>1. blocks \in Seq(Entries)
    BY DEF Inv, TypeOK
  <2>2. Len(blocks') = Len(blocks) + 1 /\ Len(blocks) \in Nat
    BY <1>1, <2>1
  <2>3. Finished' = Finished
    BY <1>1, <2>2 DEF Finished
  <2> QED BY <1>1, <2>3, TranslationsSame DEF Ended
<1>3. Translations[x] = Null
  BY <1>1 DEF MapFacts, Find
<1> QED BY <1>1, <1>2, <1>3 DEF TM!Begin, TM!Null, Null, Ended

LEMMA AddStutters ==
    ASSUME Inv, MapFacts, MapFacts', Next, AddInstruction, ~IsLast
    PROVE  UNCHANGED TM!vars
<1>1. status = "adding" /\ status' = "adding" /\ answer' = answer
  BY DEF AddInstruction
<1>2. blocks \in Seq(Entries) /\ blocks' = [blocks EXCEPT ![New] = Filled]
  BY DEF Inv, TypeOK, AddInstruction
<1>3. Finished' = Finished
  BY <1>1, <1>2 DEF Finished
<1>4. Translations' = Translations
  BY <1>1, <1>3, TranslationsSame DEF Ended
<1> QED BY <1>1, <1>4 DEF TM!vars, Ended

LEMMA AddFinishes ==
    ASSUME Inv, AskedFor, MapFacts, MapFacts', Next, AddInstruction, IsLast
    PROVE  TM!Finish
<1>1. /\ status = "adding" /\ status' = "idle" /\ answer' = [answer EXCEPT !.riscv = Filled.riscv]
      /\ blocks' = [blocks EXCEPT ![New] = Filled]
  BY DEF AddInstruction
<1>2. New \in Nat /\ New >= 1 /\ Len(blocks) = New /\ blocks \in Seq(Entries)
  BY <1>1, InstrFacts DEF Inv, TypeOK
<1>3. Filled \in Entries /\ Filled.count # 0
  BY AddNew
<1>4. Len(blocks') = New /\ blocks'[New] = Filled /\ New \in 1..Len(blocks')
  BY <1>1, <1>2
<1>5. Finished \subseteq Finished'
  BY <1>1, <1>2, <1>4 DEF Finished
<1>6. ASSUME NEW x \in Address, Translations[x] # Null PROVE Translations'[x] = Translations[x]
  <2>1. InFinished(x) /\ Translations[x] = Find(x)
    BY <1>6 DEF Translations
  <2> QED BY <1>1, <1>5, <2>1, TranslationsKept DEF Ended
<1>7. Translations'[answer.x86] = Filled.riscv
  <2> SUFFICES ASSUME NEW x, x = answer.x86 PROVE Translations'[x] = Filled.riscv
    OBVIOUS
  <2>1. Filled.start = x
    BY <1>1 DEF AskedFor, Filled
  <2>2. x \in Address /\ Find(x)' = Filled.riscv
    BY <1>3, <1>4, <2>1 DEF MapFacts
  <2> QED BY <1>1, <2>2 DEF MapFacts
<1>8. Filled.riscv # Null
  <2>1. Whole(Filled, code', offsets') /\ Filled.riscv \in Nat
    BY <1>3, AddNew DEF Entries
  <2>2. 2 <= Filled.riscv
    BY <2>1 DEF Whole
  <2> QED BY <2>1, <2>2 DEF Null
<1>9. Translations' \in [Address -> Nat] /\ TM!Unshared(Translations)'
  BY DEF MapFacts
<1>10. TM!Unshared(Translations')
  BY <1>9 DEF TM!Unshared
<1> QED BY <1>1, <1>6, <1>7, <1>8, <1>9, <1>10 DEF TM!Finish, TM!Null, Null, Ended

LEMMA FailuresFail ==
    ASSUME Inv, MapFacts,
           \/ status = "idle" /\ \E x \in Targets : CannotTranslate(x)
           \/ CannotAdd \/ Corrupts
    PROVE  TM!Fail
<1>1. /\ status \in {"idle", "adding"} /\ status' \in Ended /\ answer' = answer
      /\ status = "idle" => \E x \in Targets : Find(x) = Null
  BY DEF CannotTranslate, CannotAdd, Corrupts, Ended
<1>2. status = "idle" => \E x \in Targets : Translations[x] = Null
  BY <1>1, TargetsAssumption DEF MapFacts
<1>3. Translations' = TM!Nothing
  BY <1>1 DEF Translations, TM!Nothing, TM!Null, Null
<1> QED BY <1>1, <1>2, <1>3 DEF TM!Fail, TM!Null, Null, Ended

LEMMA StepImplements ==
    ASSUME Inv, AskedFor, MapFacts, MapFacts', [Next]_vars
    PROVE  [TM!Next]_(TM!vars)
<1>1. CASE Translate
  <2>1. status = "idle" /\ Next
    BY <1>1 DEF Translate, Next
  <2>2. PICK x \in Targets : Known(x) \/ CannotTranslate(x) \/ CreateBlock(x)
    BY <1>1 DEF Translate
  <2>3. TM!Recall(x) \/ TM!Fail \/ TM!Begin(x)
    BY <2>1, <2>2, KnownRecalls, CreateBegins, FailuresFail
  <2> QED BY <2>3 DEF TM!Next
<1>2. CASE AddInstruction
  <2>1. Next
    BY <1>2 DEF Next
  <2>2. TM!Finish \/ UNCHANGED TM!vars
    BY <1>2, <2>1, AddStutters, AddFinishes
  <2> QED BY <2>2 DEF TM!Next
<1>3. CASE CannotAdd \/ Corrupts
  BY <1>3, FailuresFail DEF TM!Next
<1>4. CASE Terminated \/ UNCHANGED vars
  <2>1. UNCHANGED <<blocks, answer, status>>
    BY <1>4 DEF Terminated, vars
  <2>2. Translations' = Translations
    <3>1. CASE status \in Ended
      BY <2>1, <3>1 DEF Translations
    <3>2. CASE status \notin Ended
      <4>1. Finished' = Finished
        BY <2>1 DEF Finished
      <4> QED BY <2>1, <3>2, <4>1, TranslationsSame
    <3> QED BY <3>1, <3>2
  <2> QED BY <2>1, <2>2 DEF TM!vars
<1> QED BY <1>1, <1>2, <1>3, <1>4 DEF Next

\* What a caller of translate() sees of blocks, pages and buffers is a map that
\* grows: an address is translated once, later it is answered with that
\* translation and with no failure, and two addresses share a translation only
\* where the instructions between them have no code.
THEOREM CodeStoreImplementsMap ==
    ASSUME NEW B \in SUBSET Nat, OneReading(B)
    PROVE  Spec => ImplementsTranslationMap
<1>1. Init => MapInv(B) /\ TM!Init
  <2> SUFFICES ASSUME Init PROVE MapInv(B) /\ TM!Init
    OBVIOUS
  <2>1. InvRead(B)
    BY Initially, InitiallyPlaced DEF InvRead
  <2>2. AskedFor
    BY DEF Init, AskedFor
  <2>3. \A x \in Address : ~InFinished(x)
    BY DEF Init, InFinished, Finished
  <2>4. Translations = TM!Nothing
    BY <2>3 DEF Translations, TM!Nothing, TM!Null, Null
  <2> QED BY <2>1, <2>2, <2>4 DEF MapInv, Init, TM!Init, TM!Null, Null, Ended
<1>2. MapInv(B) /\ [Next]_vars => MapInv(B)'
  BY ReadStepKeeps, AskedForKeeps DEF MapInv, InvRead
<1>3. MapInv(B) => MapFacts
  BY MapFactsHold
<1>4. MapInv(B)' => MapFacts'
  BY <1>3, PTL
<1>5. MapInv(B) /\ MapInv(B)' /\ [Next]_vars => [TM!Next]_(TM!vars)
  BY <1>3, <1>4, StepImplements DEF MapInv, InvRead
<1> QED BY <1>1, <1>2, <1>5, PTL DEF Spec, ImplementsTranslationMap, TM!Spec

=============================================================================
