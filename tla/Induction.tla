------------------------------- MODULE Induction -------------------------------
(***************************************************************************)
(* Induction over numbers without a predicate or an operator as parameter: *)
(* what is to hold of every number is given as the set of numbers it holds *)
(* of, and the step of a recursive definition as a function.               *)
(***************************************************************************)
EXTENDS Integers, Sequences, FiniteSetsExt, WellFoundedInduction, TLAPS

\* The elements of a set of numbers include a smallest.
LEMMA LeastOf ==
    ASSUME NEW S \in SUBSET Nat, S # {}
    PROVE  Min(S) \in S /\ \A y \in S : Min(S) <= y
<1> DEFINE Less == OpToRel(<, Nat)
<1>1. IsWellFoundedOn(Less, Nat)
  BY NatLessThanWellFounded
<1>2. \A x \in Nat, y \in Nat : y < x => <<y, x>> \in Less
  BY DEF OpToRel
<1> HIDE DEF Less
<1>3. PICK x \in S : \A y \in S : ~ (<<y, x>> \in Less)
  BY <1>1, WFMin
<1>4. ASSUME NEW y \in S PROVE x <= y
  <2>1. x \in Nat /\ y \in Nat
    OBVIOUS
  <2>2. ~(y < x)
    BY <1>2, <1>3, <2>1
  <2> QED
    BY <2>1, <2>2
<1> QED
  BY <1>3, <1>4 DEF Min

\* The elements of a bounded set of numbers include a greatest.
LEMMA GreatestOf ==
    ASSUME NEW top \in Nat, NEW S \in SUBSET (0..top), S # {}
    PROVE  Max(S) \in S /\ \A y \in S : y <= Max(S)
<1> DEFINE Below == {top - x : x \in S}
<1>1. Below \in SUBSET Nat /\ Below # {}
  <2>1. \A x \in S : top - x \in Nat
    OBVIOUS
  <2> QED
    BY <2>1
<1> HIDE DEF Below
<1>2. PICK y \in Below : \A z \in Below : y <= z
  BY <1>1, LeastOf
<1>3. PICK x \in S : y = top - x
  BY <1>2 DEF Below
<1>4. ASSUME NEW z \in S PROVE x >= z
  <2>1. top - z \in Below
    BY DEF Below
  <2> QED
    BY <1>2, <1>3, <2>1
<1> QED
  BY <1>3, <1>4 DEF Max

\* A set of numbers that holds 0 and the successor of each of its elements
\* holds them all.
LEMMA Induction ==
    ASSUME NEW S, 0 \in S, \A n \in Nat : n \in S => n + 1 \in S
    PROVE  Nat \subseteq S
<1> SUFFICES ASSUME Nat \ S # {} PROVE FALSE
  OBVIOUS
<1>1. PICK m \in Nat \ S : \A n \in Nat \ S : m <= n
  BY LeastOf
<1>2. m # 0 /\ m - 1 \in Nat
  BY <1>1
<1>3. m - 1 \in S
  BY <1>1, <1>2
<1>4. (m - 1) + 1 = m
  BY <1>1
<1> QED
  BY <1>1, <1>2, <1>3, <1>4

\* The same up to a bound.
LEMMA BoundedInduction ==
    ASSUME NEW top \in Nat, NEW S, 0 \in S, \A n \in 0..(top - 1) : n \in S => n + 1 \in S
    PROVE  0..top \subseteq S
<1> DEFINE T == S \union {n \in Nat : n > top}
<1>1. 0 \in T
  OBVIOUS
<1>2. ASSUME NEW n \in Nat, n \in T PROVE n + 1 \in T
  <2>1. CASE n < top
    BY <1>2, <2>1
  <2>2. CASE n >= top
    BY <2>2
  <2> QED
    BY <2>1, <2>2
<1> HIDE DEF T
<1>3. Nat \subseteq T
  BY <1>1, <1>2, Induction
<1> QED
  BY <1>3 DEF T

\* And where everything smaller may be used.
LEMMA StrongInduction ==
    ASSUME NEW S, \A n \in Nat : (\A m \in Nat : m < n => m \in S) => n \in S
    PROVE  Nat \subseteq S
<1> SUFFICES ASSUME Nat \ S # {} PROVE FALSE
  OBVIOUS
<1>1. PICK n \in Nat \ S : \A m \in Nat \ S : n <= m
  BY LeastOf
<1>2. \A m \in Nat : m < n => m \in S
  BY <1>1
<1> QED
  BY <1>1, <1>2

-----------------------------------------------------------------------------
(* Recursive definitions *)

Iterates(f, V, base, step) ==
    /\ f \in [Nat -> V] /\ f[0] = base
    /\ \A n \in Nat : f[n + 1] = step[n][f[n]]

\* An iteration has a value at every number.
LEMMA Iteration ==
    ASSUME NEW V, NEW base \in V, NEW step \in [Nat -> [V -> V]]
    PROVE  \E f : Iterates(f, V, base, step)
<1> DEFINE Follows(f, n) == /\ f \in [0..n -> V] /\ f[0] = base
                            /\ \A i \in 0..(n - 1) : f[i + 1] = step[i][f[i]]
           Reached == {n \in Nat : \E f \in [0..n -> V] : Follows(f, n)}
<1>1. 0 \in Reached
  <2>1. Follows([i \in 0..0 |-> base], 0)
    OBVIOUS
  <2> QED
    BY <2>1
<1>2. ASSUME NEW n \in Nat, n \in Reached PROVE n + 1 \in Reached
  <2>1. PICK f \in [0..n -> V] : Follows(f, n)
    BY <1>2
  <2> DEFINE g == [i \in 0..(n + 1) |-> IF i = n + 1 THEN step[n][f[n]] ELSE f[i]]
  <2>2. f[n] \in V /\ step[n][f[n]] \in V
    BY <2>1
  <2>3. g \in [0..(n + 1) -> V]
    BY <2>1, <2>2
  <2>4. g[0] = base
    BY <2>1
  <2>5. ASSUME NEW i \in 0..n PROVE g[i + 1] = step[i][g[i]]
    <3>1. CASE i = n
      BY <3>1
    <3>2. CASE i # n
      <4>1. i \in 0..(n - 1) /\ i + 1 \in 0..n /\ i + 1 # n + 1 /\ i # n + 1
        BY <3>2
      <4>2. f[i + 1] = step[i][f[i]]
        BY <2>1, <4>1
      <4>3. g[i + 1] = f[i + 1] /\ g[i] = f[i]
        BY <4>1
      <4> QED
        BY <4>2, <4>3
    <3> QED
      BY <3>1, <3>2
  <2> HIDE DEF g
  <2>6. \A i \in 0..((n + 1) - 1) : g[i + 1] = step[i][g[i]]
    BY <2>5
  <2>7. Follows(g, n + 1)
    BY <2>3, <2>4, <2>6
  <2>8. \E h \in [0..(n + 1) -> V] : Follows(h, n + 1)
    <3> HIDE DEF Follows
    <3> QED
      BY <2>3, <2>7
  <2>9. n + 1 \in Nat
    OBVIOUS
  <2> HIDE DEF Follows
  <2> QED
    BY <2>8, <2>9
<1>3. Nat \subseteq Reached
  <2> HIDE DEF Reached
  <2> QED
    BY <1>1, <1>2, Induction
\* two of them agree as far as both reach
<1>4. ASSUME NEW m \in Nat, NEW n \in Nat, m <= n,
             NEW f \in [0..m -> V], NEW g \in [0..n -> V], Follows(f, m), Follows(g, n)
      PROVE  f[m] = g[m]
  <2> DEFINE Same == {i \in 0..m : f[i] = g[i]}
  <2>1. 0 \in Same
    BY <1>4
  <2>2. ASSUME NEW i \in 0..(m - 1), i \in Same PROVE i + 1 \in Same
    <3>1. i \in 0..(n - 1) /\ i + 1 \in 0..m
      BY <1>4
    <3> QED
      BY <1>4, <2>2, <3>1
  <2>3. 0..m \subseteq Same
    <3> HIDE DEF Same
    <3> QED
      BY <2>1, <2>2, BoundedInduction
  <2> QED
    BY <2>3
<1> DEFINE upto == [n \in Nat |-> CHOOSE f \in [0..n -> V] : Follows(f, n)]
           value == [n \in Nat |-> upto[n][n]]
<1>5. ASSUME NEW n \in Nat PROVE upto[n] \in [0..n -> V] /\ Follows(upto[n], n)
  BY <1>3
<1> HIDE DEF upto, Reached
<1>6. value \in [Nat -> V] /\ value[0] = base
  <2>1. 0 \in Nat /\ Follows(upto[0], 0)
    BY <1>5
  <2> QED
    BY <1>5, <2>1
<1>7. ASSUME NEW n \in Nat PROVE value[n + 1] = step[n][value[n]]
  <2>1. n + 1 \in Nat /\ n \in 0..((n + 1) - 1) /\ n <= n + 1
    OBVIOUS
  <2>2. Follows(upto[n], n) /\ Follows(upto[n + 1], n + 1)
    BY <1>5, <2>1
  <2>3. upto[n] \in [0..n -> V] /\ upto[n + 1] \in [0..(n + 1) -> V]
    BY <1>5, <2>1
  <2>4. upto[n][n] = upto[n + 1][n]
    BY <1>4, <2>1, <2>2, <2>3
  <2>5. upto[n + 1][n + 1] = step[n][upto[n + 1][n]]
    BY <2>1, <2>2
  <2> QED
    BY <2>1, <2>4, <2>5
<1> QED
  BY <1>6, <1>7 DEF Iterates

\* The same up to a bound, in the form of a function defined by its own values.
IteratesTo(top, f, V, base, step) ==
    /\ f \in [0..top -> V]
    /\ f = [n \in 0..top |-> IF n = 0 THEN base ELSE step[n][f[n - 1]]]

LEMMA BoundedIteration ==
    ASSUME NEW top \in Nat, NEW V, NEW base \in V, NEW step \in [1..top -> [V -> V]]
    PROVE  \E f : IteratesTo(top, f, V, base, step)
<1> DEFINE forever == [n \in Nat |-> [v \in V |-> IF n + 1 \in 1..top THEN step[n + 1][v] ELSE v]]
<1>1. forever \in [Nat -> [V -> V]]
  <2>1. ASSUME NEW n \in Nat, NEW v \in V
        PROVE  (IF n + 1 \in 1..top THEN step[n + 1][v] ELSE v) \in V
    OBVIOUS
  <2> QED
    BY <2>1
<1>2. PICK f : Iterates(f, V, base, forever)
  <2> HIDE DEF forever
  <2> QED
    BY <1>1, Iteration
<1> DEFINE g == [n \in 0..top |-> f[n]]
<1>3. f \in [Nat -> V] /\ f[0] = base /\ g \in [0..top -> V]
  BY <1>2 DEF Iterates
<1>4. ASSUME NEW n \in 1..top PROVE f[n] = step[n][f[n - 1]]
  <2>1. n - 1 \in Nat /\ (n - 1) + 1 = n
    OBVIOUS
  <2>2. f[n] = forever[n - 1][f[n - 1]]
    BY <1>2, <2>1 DEF Iterates
  <2> QED
    BY <1>3, <2>1, <2>2
<1>5. ASSUME NEW n \in 0..top PROVE f[n] = IF n = 0 THEN base ELSE step[n][g[n - 1]]
  <2>1. CASE n = 0
    BY <1>3, <2>1
  <2>2. CASE n # 0
    <3>1. n \in 1..top /\ n - 1 \in 0..top
      BY <2>2
    <3> QED
      BY <1>4, <2>2, <3>1
  <2> QED
    BY <2>1, <2>2
<1> QED
  BY <1>3, <1>5 DEF IteratesTo

\* A function that is defined by its own values has them if the value at x
\* depends on values of a smaller measure only.
DependsOnSmaller(body, D, V, m) ==
    \A f \in [D -> V], g \in [D -> V] : \A x \in D :
        (\A y \in D : m[y] < m[x] => f[y] = g[y]) => body[f][x] = body[g][x]

Solves(f, D, V, body) == f \in [D -> V] /\ f = body[f]

LEMMA MeasuredRecursion ==
    ASSUME NEW D, NEW V, V # {}, NEW m \in [D -> Nat],
           NEW body \in [[D -> V] -> [D -> V]], DependsOnSmaller(body, D, V, m)
    PROVE  \E f : Solves(f, D, V, body)
<1>1. PICK zero \in V : TRUE
  OBVIOUS
<1> DEFINE W == [D -> V]
           base == [x \in D |-> zero]
           step == [n \in Nat |-> body]
<1>2. base \in W /\ step \in [Nat -> [W -> W]]
  OBVIOUS
<1>3. PICK G : Iterates(G, W, base, step)
  <2> HIDE DEF W, base, step
  <2> QED
    BY <1>2, Iteration
<1>4. G \in [Nat -> W] /\ \A n \in Nat : G[n + 1] = body[G[n]]
  BY <1>3 DEF Iterates
<1> HIDE DEF step, base
<1>5. ASSUME NEW f \in W, NEW g \in W, NEW x \in D,
             \A y \in D : m[y] < m[x] => f[y] = g[y]
      PROVE  body[f][x] = body[g][x]
  BY <1>5 DEF DependsOnSmaller
<1> DEFINE Settled == {n \in Nat : \A x \in D : m[x] < n => G[n][x] = G[n + 1][x]}
<1>6. 0 \in Settled
  <2>1. \A x \in D : m[x] \in Nat
    OBVIOUS
  <2> QED
    BY <2>1
<1>7. ASSUME NEW n \in Nat, n \in Settled PROVE n + 1 \in Settled
  <2>1. G[n] \in W /\ G[n + 1] \in W /\ n + 1 \in Nat
    BY <1>4
  <2>2. ASSUME NEW x \in D, m[x] < n + 1 PROVE G[n + 1][x] = G[(n + 1) + 1][x]
    <3>1. ASSUME NEW y \in D, m[y] < m[x] PROVE G[n][y] = G[n + 1][y]
      <4>1. m[x] \in Nat /\ m[y] \in Nat
        OBVIOUS
      <4>2. m[y] < n
        BY <2>2, <3>1, <4>1
      <4> QED
        BY <1>7, <4>2
    <3>2. body[G[n]][x] = body[G[n + 1]][x]
      BY <1>5, <2>1, <3>1
    <3> QED
      BY <1>4, <2>1, <3>2
  <2> QED
    BY <2>1, <2>2
<1>8. \A n \in Nat : \A x \in D : m[x] < n => G[n][x] = G[n + 1][x]
  <2>1. Nat \subseteq Settled
    <3> HIDE DEF Settled
    <3> QED
      BY <1>6, <1>7, Induction
  <2> QED
    BY <2>1
<1> HIDE DEF Settled
\* and stay so
<1>9. ASSUME NEW x \in D, NEW k \in Nat PROVE G[m[x] + 1][x] = G[(m[x] + 1) + k][x]
  <2> DEFINE Same == {j \in Nat : G[m[x] + 1][x] = G[(m[x] + 1) + j][x]}
  <2>1. m[x] \in Nat
    OBVIOUS
  <2>2. 0 \in Same
    BY <2>1
  <2>3. ASSUME NEW j \in Nat, j \in Same PROVE j + 1 \in Same
    <3>1. (m[x] + 1) + j \in Nat /\ m[x] < (m[x] + 1) + j
      BY <2>1
    <3>2. G[(m[x] + 1) + j][x] = G[((m[x] + 1) + j) + 1][x]
      BY <1>8, <3>1
    <3>3. ((m[x] + 1) + j) + 1 = (m[x] + 1) + (j + 1)
      BY <2>1
    <3> QED
      BY <2>3, <3>2, <3>3
  <2>4. Nat \subseteq Same
    <3> HIDE DEF Same
    <3> QED
      BY <2>2, <2>3, Induction
  <2> QED
    BY <2>4
<1> DEFINE f == [x \in D |-> G[m[x] + 1][x]]
<1>10. f \in W
  <2>1. ASSUME NEW x \in D PROVE G[m[x] + 1][x] \in V
    <3>1. m[x] + 1 \in Nat
      OBVIOUS
    <3> QED
      BY <1>4, <3>1
  <2> QED
    BY <2>1
<1>11. ASSUME NEW x \in D PROVE f[x] = body[f][x]
  <2>1. m[x] \in Nat /\ G[m[x]] \in W
    BY <1>4
  <2>2. ASSUME NEW y \in D, m[y] < m[x] PROVE f[y] = G[m[x]][y]
    <3>1. m[y] \in Nat /\ m[x] - (m[y] + 1) \in Nat
      BY <2>1, <2>2
    <3> DEFINE k == m[x] - (m[y] + 1)
    <3>2. k \in Nat /\ (m[y] + 1) + k = m[x]
      BY <2>1, <3>1
    <3> HIDE DEF k
    <3>3. G[m[y] + 1][y] = G[(m[y] + 1) + k][y]
      BY <1>9, <3>2
    <3> QED
      BY <3>2, <3>3
  <2> HIDE DEF f
  <2>3. body[f][x] = body[G[m[x]]][x]
    BY <1>5, <1>10, <2>1, <2>2
  <2>4. body[G[m[x]]] = G[m[x] + 1]
    BY <1>4, <2>1
  <2>5. f[x] = G[m[x] + 1][x]
    BY DEF f
  <2> QED
    BY <2>3, <2>4, <2>5
<1>12. body[f] \in W
  <2> HIDE DEF f
  <2> QED
    BY <1>10
<1>13. f = body[f]
  <2> HIDE DEF f
  <2> QED
    BY <1>10, <1>11, <1>12
<1> QED
  BY <1>10, <1>13 DEF Solves

-----------------------------------------------------------------------------
(* Finite sets of numbers *)

\* They are bounded.
LEMMA FiniteBounded ==
    ASSUME NEW S \in SUBSET Nat, IsFiniteSet(S)
    PROVE  \E top \in Nat : S \subseteq 0..top
<1>1. PICK s \in Seq(S) : \A x \in S : \E n \in 1..Len(s) : s[n] = x
  BY DEF IsFiniteSet
<1>2. Len(s) \in Nat /\ \A n \in 1..Len(s) : s[n] \in Nat
  <2>1. Len(s) \in Nat /\ DOMAIN s = 1..Len(s) /\ s \in [1..Len(s) -> S]
    BY <1>1
  <2> QED
    BY <2>1
<1> DEFINE T == {k \in 0..Len(s) : \E top \in Nat : \A n \in 1..k : s[n] <= top}
           last == Len(s)
<1>3. 0 \in T
  BY <1>2
<1>4. ASSUME NEW k \in 0..(last - 1), k \in T PROVE k + 1 \in T
  <2>1. PICK top \in Nat : \A n \in 1..k : s[n] <= top
    BY <1>4
  <2>2. s[k + 1] \in Nat /\ k + 1 \in 0..Len(s)
    BY <1>2
  <2> DEFINE more == top + s[k + 1]
  <2>3. more \in Nat
    BY <2>2
  <2>4. ASSUME NEW n \in 1..(k + 1) PROVE s[n] <= more
    <3>1. CASE n = k + 1
      BY <2>2, <3>1
    <3>2. CASE n # k + 1
      <4>1. n \in 1..k /\ s[n] \in Nat
        BY <1>2, <3>2
      <4> QED
        BY <2>1, <2>2, <4>1
    <3> QED
      BY <3>1, <3>2
  <2> HIDE DEF more
  <2> QED
    BY <2>2, <2>3, <2>4
<1>5. 0..last \subseteq T
  <2> HIDE DEF T, last
  <2>1. last \in Nat
    BY <1>2 DEF last
  <2> QED
    BY <1>3, <1>4, <2>1, BoundedInduction
<1>6. PICK top \in Nat : \A n \in 1..Len(s) : s[n] <= top
  <2>1. last \in T
    <3> HIDE DEF T
    <3> QED
      BY <1>2, <1>5
  <2> QED
    BY <2>1
<1>7. S \subseteq 0..top
  BY <1>1, <1>2, <1>6
<1> QED
  BY <1>7

=============================================================================
