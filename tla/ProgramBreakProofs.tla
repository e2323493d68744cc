-------------------------- MODULE ProgramBreakProofs --------------------------
(***************************************************************************)
(* What holds of the emulated brk for every page size, every size of the   *)
(* address space and every other mapping in it.                            *)
(***************************************************************************)
EXTENDS ProgramBreak, TLAPS

-----------------------------------------------------------------------------
(* Arithmetic of pages *)

\* Multiples of the page size compare as their factors do.
LEMMA Factors ==
    ASSUME PageAssumption, NEW a \in Int, NEW b \in Int
    PROVE  /\ a * PageSize \in Int
           /\ a * PageSize < b * PageSize <=> a < b
           /\ (a + b) * PageSize = a * PageSize + b * PageSize
  BY SMTT(30) DEF PageAssumption

\* The last page boundary that is not behind x.
LEMMA Division ==
    ASSUME PageAssumption, NEW x \in Nat
    PROVE  /\ x \div PageSize \in Nat
           /\ (x \div PageSize) * PageSize <= x
           /\ x < (x \div PageSize) * PageSize + PageSize
  BY SMTT(30) DEF PageAssumption

\* The address space in units of pages.
LEMMA Spaces ==
    ASSUME PageAssumption
    PROVE  /\ PageSize \in Nat /\ PageSize >= 1 /\ PageCount \in Nat
           /\ UserEnd \in Nat /\ UserEnd = PageCount * PageSize
           /\ PageSize <= UserEnd /\ Width = UserEnd + UserEnd
<1>1. PageSize \in Nat /\ PageSize >= 1 /\ PageCount \in Nat /\ PageCount >= 1
  BY DEF PageAssumption
<1>2. UserEnd \in Nat /\ UserEnd = PageCount * PageSize
  BY <1>1, SMTT(30) DEF UserEnd
<1>3. PageSize <= PageCount * PageSize
  BY <1>1, SMTT(30)
<1> QED
  BY <1>1, <1>2, <1>3 DEF Width

\* A number below Width is left alone by the wrap-around, one of the next Width
\* numbers is reduced by Width, and one below 0 is raised by it.
LEMMA Wrapped ==
    ASSUME PageAssumption, NEW y \in Int
    PROVE  /\ 0 <= y /\ y < Width => y % Width = y
           /\ Width <= y /\ y < Width + Width => y % Width = y - Width
           /\ -Width <= y /\ y < 0 => y % Width = y + Width
<1>1. Width \in Nat /\ Width > 0
  BY Spaces
<1> QED
  BY <1>1, SMTT(30)

\* page_align rounds every address of the user's half up to a page boundary.
LEMMA AlignUp ==
    ASSUME PageAssumption, NEW x \in 0..UserEnd
    PROVE  \E n \in 0..PageCount : /\ page_align(x) = n * PageSize
                                   /\ x <= n * PageSize
                                   /\ n * PageSize < x + PageSize
<1> DEFINE y == x + PageSize - 1
           n == y \div PageSize
<1>1. /\ PageSize \in Nat /\ PageSize >= 1 /\ PageCount \in Nat /\ x \in Nat
      /\ UserEnd \in Nat /\ UserEnd = PageCount * PageSize /\ x <= UserEnd
      /\ PageSize <= UserEnd /\ Width = UserEnd + UserEnd
  BY Spaces
<1>2. y \in Nat /\ y < Width
  BY <1>1
<1>3. y % Width = y
  BY <1>2, Wrapped
<1>4. page_align(x) = n * PageSize
  BY <1>3 DEF page_align
<1>5. n \in Nat /\ n * PageSize <= y /\ y < n * PageSize + PageSize
  BY <1>2, Division
<1>6. n * PageSize \in Int /\ (n * PageSize < (PageCount + 1) * PageSize <=> n < PageCount + 1)
      /\ (PageCount + 1) * PageSize = PageCount * PageSize + 1 * PageSize
  <2>1. n \in Int /\ PageCount \in Int /\ PageCount + 1 \in Int /\ 1 \in Int
    BY <1>1, <1>5
  <2> HIDE DEF n
  <2> QED
    BY <2>1, Factors
<1>7. n <= PageCount
  BY <1>1, <1>5, <1>6
<1>8. x <= n * PageSize /\ n * PageSize < x + PageSize
  BY <1>1, <1>5, <1>6
<1> HIDE DEF n
<1> QED
  BY <1>1, <1>4, <1>5, <1>7, <1>8

\* A page starts in front of x exactly if it starts in front of the boundary
\* behind x.
LEMMA BelowBoundary ==
    ASSUME PageAssumption, NEW x \in Nat, NEW n \in Nat, NEW p \in Nat,
           x <= n * PageSize, n * PageSize < x + PageSize
    PROVE  p * PageSize < x <=> p * PageSize < n * PageSize
<1>1. PageSize \in Nat /\ p * PageSize \in Int /\ n * PageSize \in Int
  BY Spaces, Factors
<1>2. p * PageSize < x => p * PageSize < n * PageSize
  BY <1>1
<1>3. ASSUME p * PageSize < n * PageSize PROVE p * PageSize < x
  <2>1. p < n
    BY <1>3, Factors
  <2>2. p + 1 = n \/ p + 1 < n
    BY <2>1
  <2>3. (p + 1) * PageSize <= n * PageSize
    <3>1. p + 1 \in Int /\ n \in Int
      OBVIOUS
    <3>2. (p + 1) * PageSize < n * PageSize <=> p + 1 < n
      BY <3>1, Factors
    <3>3. (p + 1) * PageSize \in Int
      BY <3>1, Factors
    <3> QED
      BY <2>2, <3>2, <3>3, <1>1
  <2>4. (p + 1) * PageSize = p * PageSize + PageSize
    <3>1. (p + 1) * PageSize = p * PageSize + 1 * PageSize
      BY Factors
    <3> QED
      BY <3>1, <1>1
  <2> QED
    BY <1>1, <2>3, <2>4
<1> QED
  BY <1>2, <1>3

\* Only one page boundary lies less than a page behind x.
LEMMA UniqueBoundary ==
    ASSUME PageAssumption, NEW x \in Nat, NEW m \in Nat, NEW n \in Nat,
           x <= m * PageSize, m * PageSize < x + PageSize,
           x <= n * PageSize, n * PageSize < x + PageSize
    PROVE  m = n
<1>1. PageSize \in Nat /\ m \in Int /\ n \in Int /\ m + 1 \in Int /\ n + 1 \in Int /\ 1 \in Int
  BY Spaces
<1>2. /\ m * PageSize < (n + 1) * PageSize <=> m < n + 1
      /\ n * PageSize < (m + 1) * PageSize <=> n < m + 1
      /\ (n + 1) * PageSize = n * PageSize + 1 * PageSize
      /\ (m + 1) * PageSize = m * PageSize + 1 * PageSize
      /\ m * PageSize \in Int /\ n * PageSize \in Int
  BY <1>1, Factors
<1> QED
  BY <1>1, <1>2

\* What is shorter than a page holds no boundary but 0.
LEMMA WithinPage ==
    ASSUME PageAssumption, NEW y \in Nat, y < PageSize
    PROVE  (y \div PageSize) * PageSize = 0
<1> DEFINE q == y \div PageSize
<1>1. q \in Nat /\ q * PageSize <= y
  BY Division
<1>2. 0 \in Int /\ 1 \in Int /\ q \in Int /\ PageSize \in Nat
  BY <1>1, Spaces
<1> HIDE DEF q
<1>3. q * PageSize < 1 * PageSize
  BY <1>1, <1>2, Factors
<1>4. q = 0
  BY <1>1, <1>2, <1>3, Factors
<1>5. q * PageSize = 0
  BY <1>2, <1>4
<1> QED
  BY <1>5 DEF q

\* page_align keeps the order of addresses.
LEMMA AlignMonotone ==
    ASSUME PageAssumption, NEW x \in 0..UserEnd, NEW y \in 0..UserEnd, x <= y
    PROVE  page_align(x) <= page_align(y)
<1>1. PICK m \in 0..PageCount : /\ page_align(x) = m * PageSize
                                 /\ x <= m * PageSize
                                 /\ m * PageSize < x + PageSize
  BY AlignUp
<1>2. PICK n \in 0..PageCount : /\ page_align(y) = n * PageSize
                                 /\ y <= n * PageSize
                                 /\ n * PageSize < y + PageSize
  BY AlignUp
<1>3. /\ m \in Int /\ n \in Int /\ n + 1 \in Int /\ 1 \in Int
      /\ PageSize \in Nat /\ x \in Nat /\ y \in Nat
  BY Spaces
<1>4. /\ n * PageSize < m * PageSize <=> n < m
      /\ (n + 1) * PageSize = n * PageSize + 1 * PageSize
      /\ m * PageSize < (n + 1) * PageSize <=> m < n + 1
      /\ m * PageSize \in Int /\ n * PageSize \in Int
  BY <1>3, Factors
<1>5. m * PageSize < (n + 1) * PageSize
  BY <1>1, <1>2, <1>3, <1>4
<1> QED
  BY <1>1, <1>2, <1>3, <1>4, <1>5

\* What brk maps reaches from the break's last page to that of the address it
\* was asked for: a length that wraps around asks for nothing, or for more
\* than there is.
LEMMA Growth ==
    ASSUME PageAssumption, NEW address \in Addresses, NEW m \in Nat,
           lastPage = m * PageSize, lastPage < address + PageSize,
           AllocSize(address) > 0, lastPage + AllocSize(address) <= UserEnd
    PROVE  /\ address \in 0..UserEnd
           /\ AllocSize(address) \in Nat
           /\ lastPage + AllocSize(address) = page_align(address)
<1> DEFINE d == address - lastPage
           z == d % Width
           y == z + PageSize - 1
<1>1. /\ PageSize \in Nat /\ PageSize >= 1 /\ PageCount \in Nat
      /\ UserEnd \in Nat /\ PageSize <= UserEnd /\ Width = UserEnd + UserEnd
      /\ address \in Nat /\ address < Width
  BY Spaces DEF Addresses
<1>2. lastPage \in Nat
  <2>1. m * PageSize \in Nat
    BY <1>1, SMTT(30)
  <2> QED
    BY <2>1
<1>3. d \in Int /\ -PageSize < d /\ d < Width
  BY <1>1, <1>2
<1>4. z \in Nat /\ z < Width /\ (d >= 0 => z = d) /\ (d < 0 => z = d + Width)
  BY <1>1, <1>3, Wrapped
<1>5. AllocSize(address) = ((y % Width) \div PageSize) * PageSize
  BY DEF AllocSize, page_align
<1>6. /\ y \in Nat
      /\ y < Width => y % Width = y
      /\ y >= Width => y % Width = y - Width
  <2>1. y \in Int /\ 0 <= y /\ y < Width + Width
    BY <1>1, <1>4
  <2> HIDE DEF y
  <2> QED
    BY <2>1, <1>1, Wrapped
<1>7. y % Width >= PageSize
  <2>1. y % Width \in Nat
    BY <1>1, <1>6
  <2>2. CASE y % Width < PageSize
    BY <2>1, <2>2, <1>5, WithinPage
  <2> QED
    BY <2>1, <2>2, <1>1
<1>8. y < Width
  BY <1>1, <1>4, <1>6, <1>7
<1>9. d > 0 /\ z = d
  <2>1. CASE d < 0
    BY <2>1, <1>1, <1>3, <1>4, <1>6, <1>7, <1>8
  <2>2. CASE d = 0
    BY <2>2, <1>1, <1>3, <1>4, <1>6, <1>7, <1>8
  <2> QED
    BY <2>1, <2>2, <1>3, <1>4
<1> DEFINE n == y \div PageSize
<1>10. /\ AllocSize(address) = n * PageSize /\ n \in Nat /\ n * PageSize \in Nat
       /\ d <= n * PageSize /\ n * PageSize < d + PageSize
  <2>1. n \in Nat /\ n * PageSize <= y /\ y < n * PageSize + PageSize
    BY <1>6, Division
  <2>2. n * PageSize \in Nat
    BY <2>1, <1>1, SMTT(30)
  <2>3. AllocSize(address) = n * PageSize
    BY <1>5, <1>6, <1>8
  <2> HIDE DEF n
  <2> QED
    BY <2>1, <2>2, <2>3, <1>1, <1>3, <1>9
<1> HIDE DEF n, y, z
<1>11. address \in 0..UserEnd
  BY <1>1, <1>2, <1>10
<1>12. PICK k \in 0..PageCount : /\ page_align(address) = k * PageSize
                                  /\ address <= k * PageSize
                                  /\ k * PageSize < address + PageSize
  BY <1>11, AlignUp
<1>13. (m + n) * PageSize = m * PageSize + n * PageSize
  BY <1>10, Factors
<1>14. m + n = k
  <2>1. address <= (m + n) * PageSize /\ (m + n) * PageSize < address + PageSize
    BY <1>1, <1>2, <1>10, <1>13
  <2>2. m + n \in Nat /\ k \in Nat /\ address \in Nat
    BY <1>1, <1>10
  <2> QED
    BY <2>1, <2>2, <1>12, UniqueBoundary
<1> QED
  BY <1>10, <1>11, <1>12, <1>13, <1>14

-----------------------------------------------------------------------------
(* The inductive invariant *)

\* Beside the properties themselves it says that the break starts on a page
\* boundary: what a call frees or maps starts on one, too.
Aligned(x) == \E n \in Nat : x = n * PageSize
IInv == TypeOK /\ Aligned(initial_break) /\ LastPageFollows /\ BreakBacked

\* The pages of the break, in terms of last_break_page.
Backed(last, own) ==
    \A p \in Pages : own[p] = "break" <=> initial_break <= p * PageSize
                                          /\ p * PageSize < last

\* Both ways to say which pages the break has are the same if
\* last_break_page follows the break.
LEMMA BackedByLast ==
    ASSUME PageAssumption, NEW x \in 0..UserEnd, NEW own
    PROVE  Backed(page_align(x), own) <=>
               \A p \in Pages : own[p] = "break" <=> initial_break <= p * PageSize
                                                     /\ p * PageSize < x
<1>1. PICK n \in 0..PageCount : /\ page_align(x) = n * PageSize
                                 /\ x <= n * PageSize
                                 /\ n * PageSize < x + PageSize
  BY AlignUp
<1>2. \A p \in Pages : p * PageSize < x <=> p * PageSize < page_align(x)
  <2>1. n \in Nat /\ x \in Nat /\ Pages \subseteq Nat
    BY Spaces DEF Pages
  <2> QED
    BY <1>1, <2>1, BelowBoundary
<1> QED
  BY <1>2 DEF Backed

LEMMA InitIInv ==
    ASSUME PageAssumption, Init
    PROVE  IInv
<1>1. PICK n \in 1..PageCount : initial_break = PageSize * n
  BY DEF Init
<1>2. initial_break = n * PageSize /\ n \in Nat /\ initial_break \in 0..UserEnd
  <2>1. n \in Int /\ PageCount \in Int /\ 0 \in Int /\ n \in Nat
    BY Spaces
  <2>2. n * PageSize \in Int /\ ~(PageCount * PageSize < n * PageSize) /\ ~(n * PageSize < 0 * PageSize)
    BY <2>1, Factors
  <2>3. 0 * PageSize = 0 /\ PageSize * n = n * PageSize
    BY <2>1, Spaces
  <2> QED
    BY <1>1, <2>1, <2>2, <2>3, Spaces
<1>3. TypeOK
  BY <1>2, Spaces DEF Init, TypeOK, Owners
<1>4. LastPageFollows
  <2>1. PICK m \in 0..PageCount : /\ page_align(initial_break) = m * PageSize
                                   /\ initial_break <= m * PageSize
                                   /\ m * PageSize < initial_break + PageSize
    BY <1>2, AlignUp
  <2>2. m = n
    <3>1. m \in Nat /\ initial_break \in Nat /\ PageSize \in Nat /\ PageSize >= 1
      BY <1>2, Spaces
    <3>2. initial_break <= n * PageSize /\ n * PageSize < initial_break + PageSize
      BY <1>2, <3>1
    <3> QED
      BY <1>2, <2>1, <3>1, <3>2, UniqueBoundary
  <2> QED
    BY <1>2, <2>1, <2>2 DEF Init, LastPageFollows
<1>5. BreakBacked
  <2> SUFFICES ASSUME NEW p \in Pages
               PROVE  owner[p] = "break" <=> initial_break <= p * PageSize
                                             /\ p * PageSize < break
    BY DEF BreakBacked
  <2>1. owner[p] # "break" /\ break = initial_break
    BY DEF Init
  <2>2. p \in Int
    BY Spaces DEF Pages
  <2>3. p * PageSize \in Int
    BY <2>2, Factors
  <2> QED
    BY <1>2, <2>1, <2>3
<1> QED
  BY <1>2, <1>3, <1>4, <1>5 DEF IInv, Aligned

-----------------------------------------------------------------------------
(* The calls *)

\* What the steps use of the invariant.
LEMMA InvFacts ==
    ASSUME PageAssumption, IInv
    PROVE  /\ PageSize \in Nat /\ PageSize >= 1 /\ UserEnd \in Nat
           /\ initial_break \in Nat /\ initial_break <= break
           /\ break \in 0..UserEnd /\ break <= lastPage /\ lastPage < break + PageSize
           /\ lastPage \in 0..UserEnd
           /\ lastPage = page_align(break)
           /\ \E m \in Nat : lastPage = m * PageSize
           /\ Backed(lastPage, owner)
           /\ \A p \in Pages : p * PageSize \in Int
           /\ owner \in [Pages -> Owners]
<1>1. /\ PageSize \in Nat /\ PageSize >= 1 /\ UserEnd \in Nat
  BY Spaces
<1>2. /\ initial_break \in Nat /\ initial_break <= break /\ break \in 0..UserEnd
      /\ lastPage \in 0..UserEnd /\ owner \in [Pages -> Owners]
  BY <1>1 DEF IInv, TypeOK
<1>3. lastPage = page_align(break)
  BY DEF IInv, LastPageFollows
<1>4. PICK m \in 0..PageCount : /\ page_align(break) = m * PageSize
                                 /\ break <= m * PageSize
                                 /\ m * PageSize < break + PageSize
  BY <1>2, AlignUp
<1>5. Backed(lastPage, owner)
  BY <1>2, <1>3, BackedByLast DEF IInv, BreakBacked
<1>6. ASSUME NEW p \in Pages PROVE p * PageSize \in Int
  <2>1. p \in Int
    BY Spaces DEF Pages
  <2> QED
    BY <2>1, Factors
<1> QED
  BY <1>1, <1>2, <1>3, <1>4, <1>5, <1>6

\* Moving the break to an address and its last page to the one of that address
\* keeps the invariant if exactly the pages in between change hands.
LEMMA Moved ==
    ASSUME PageAssumption, IInv, NEW address \in 0..UserEnd, initial_break <= address,
           initial_break' = initial_break, break' = address,
           lastPage' = page_align(address),
           owner' \in [Pages -> Owners], Backed(page_align(address), owner')
    PROVE  IInv'
<1>1. PICK n \in 0..PageCount : /\ page_align(address) = n * PageSize
                                 /\ address <= n * PageSize
                                 /\ n * PageSize < address + PageSize
  BY AlignUp
<1>2. n * PageSize \in Int /\ ~(PageCount * PageSize < n * PageSize)
  <2>1. n \in Int /\ PageCount \in Int /\ ~(PageCount < n)
    BY Spaces
  <2> QED
    BY <2>1, Factors
<1>3. TypeOK'
  BY <1>1, <1>2, Spaces DEF IInv, TypeOK
<1>4. LastPageFollows'
  BY DEF LastPageFollows, page_align, UserEnd, Width
<1>5. BreakBacked'
  BY BackedByLast DEF BreakBacked, Pages
<1> QED
  BY <1>3, <1>4, <1>5 DEF IInv, Aligned

LEMMA ShrinkStep ==
    ASSUME PageAssumption, IInv, NEW address \in Addresses, Shrink(address)
    PROVE  /\ IInv'
           /\ \A p \in Pages : owner[p] \in {"image", "other"} => owner'[p] = owner[p]
<1> DEFINE new == page_align(address)
<1>1. /\ initial_break <= address /\ address <= break /\ address \in 0..UserEnd
      /\ break' = address /\ initial_break' = initial_break
  BY InvFacts DEF Shrink, IsQuery, Addresses
<1>2. /\ address <= new /\ new <= lastPage /\ new \in Nat
  <2>1. PICK n \in 0..PageCount : /\ page_align(address) = n * PageSize
                                   /\ address <= n * PageSize
                                   /\ n * PageSize < address + PageSize
    BY <1>1, AlignUp
  <2>2. n * PageSize \in Int
    BY <2>1, Factors
  <2>3. page_align(address) <= page_align(break)
    BY <1>1, InvFacts, AlignMonotone
  <2> QED
    BY <1>1, <2>1, <2>2, <2>3, InvFacts
<1>3. CASE ShrinkFrees(address)
  <2>1. lastPage' = new /\ owner' = Unmapped(new, lastPage - new) /\ new < lastPage
    BY <1>3 DEF Shrink, ShrinkFrees, FreedFrom
  <2>2. owner' \in [Pages -> Owners]
    BY <2>1, InvFacts DEF Unmapped, Owners
  <2>3. ASSUME NEW p \in Pages
        PROVE  owner'[p] = IF new <= p * PageSize /\ p * PageSize < lastPage
                           THEN "free" ELSE owner[p]
    <3>1. p \in PagesOf(new, lastPage - new) <=> new <= p * PageSize /\ p * PageSize < lastPage
      BY <1>2, InvFacts DEF PagesOf
    <3> QED
      BY <2>1, <3>1 DEF Unmapped
  <2>4. Backed(new, owner')
    <3> SUFFICES ASSUME NEW p \in Pages
                 PROVE  owner'[p] = "break" <=> initial_break <= p * PageSize
                                                /\ p * PageSize < new
      BY DEF Backed
    <3>1. /\ owner[p] = "break" <=> initial_break <= p * PageSize /\ p * PageSize < lastPage
          /\ p * PageSize \in Int /\ lastPage \in Nat
      BY InvFacts DEF Backed
    <3> QED
      BY <1>2, <2>3, <3>1
  <2>5. IInv'
    BY <1>1, <2>1, <2>2, <2>4, Moved
  <2>6. ASSUME NEW p \in Pages, owner[p] \in {"image", "other"}
        PROVE  owner'[p] = owner[p]
    <3>1. ~(initial_break <= p * PageSize /\ p * PageSize < lastPage)
      BY <2>6, InvFacts DEF Backed
    <3>2. initial_break \in Nat /\ p * PageSize \in Int /\ lastPage \in Nat /\ address \in Nat
      BY InvFacts, <1>1
    <3>3. ~(new <= p * PageSize /\ p * PageSize < lastPage)
      BY <1>1, <1>2, <3>1, <3>2
    <3> QED
      BY <2>3, <3>3
  <2> QED
    BY <2>5, <2>6
<1>4. CASE ~ShrinkFrees(address)
  <2>1. lastPage' = lastPage /\ owner' = owner
    BY <1>4 DEF Shrink
  <2>2. lastPage = new
    BY <1>2, <1>4, InvFacts DEF ShrinkFrees, FreedFrom
  <2>3. IInv'
    BY <1>1, <2>1, <2>2, InvFacts, Moved
  <2> QED
    BY <2>1, <2>3
<1> QED
  BY <1>3, <1>4

LEMMA GrowStep ==
    ASSUME PageAssumption, IInv, NEW address \in Addresses, Grow(address)
    PROVE  /\ IInv'
           /\ \A p \in Pages : owner[p] \in {"image", "other"} => owner'[p] = owner[p]
<1> DEFINE size == AllocSize(address)
<1>1. /\ break < address /\ size > 0 /\ lastPage + size <= UserEnd
      /\ \A p \in PagesOf(lastPage, size) : owner[p] = "free"
      /\ lastPage' = lastPage + size /\ break' = address /\ initial_break' = initial_break
      /\ owner' = [p \in Pages |-> IF p \in PagesOf(lastPage, size) THEN "break" ELSE owner[p]]
  BY DEF Grow, WillMap, CanMap
<1>2. /\ address \in 0..UserEnd /\ size \in Nat /\ lastPage + size = page_align(address)
  <2>1. PICK m \in Nat : lastPage = m * PageSize
    BY InvFacts
  <2>2. lastPage < address + PageSize
    BY <1>1, InvFacts DEF Addresses
  <2> HIDE DEF size
  <2>3. AllocSize(address) > 0 /\ lastPage + AllocSize(address) <= UserEnd
    BY <1>1 DEF size
  <2> QED
    BY <2>1, <2>2, <2>3, Growth DEF size
<1> HIDE DEF size
<1>3. owner' \in [Pages -> Owners]
  BY <1>1, InvFacts DEF Owners
<1>4. Backed(lastPage + size, owner')
  <2> SUFFICES ASSUME NEW p \in Pages
               PROVE  owner'[p] = "break" <=> initial_break <= p * PageSize
                                              /\ p * PageSize < lastPage + size
    BY DEF Backed
  <2>1. /\ owner[p] = "break" <=> initial_break <= p * PageSize /\ p * PageSize < lastPage
        /\ p * PageSize \in Int /\ lastPage \in Nat /\ initial_break \in Nat
        /\ initial_break <= lastPage
    BY InvFacts DEF Backed
  <2>2. p \in PagesOf(lastPage, size) <=> lastPage <= p * PageSize /\ p * PageSize < lastPage + size
    BY DEF PagesOf
  <2>3. owner'[p] = IF p \in PagesOf(lastPage, size) THEN "break" ELSE owner[p]
    BY <1>1
  <2> QED
    BY <1>2, <2>1, <2>2, <2>3
<1>5. IInv'
  <2>1. initial_break <= address
    BY <1>1, <1>2, InvFacts
  <2> QED
    BY <1>1, <1>2, <1>3, <1>4, <2>1, Moved
<1>6. ASSUME NEW p \in Pages, owner[p] \in {"image", "other"}
      PROVE  owner'[p] = owner[p]
  BY <1>1, <1>6
<1> QED
  BY <1>5, <1>6

LEMMA OtherMapsStep ==
    ASSUME PageAssumption, IInv, OtherMaps
    PROVE  IInv'
<1>1. UNCHANGED <<initial_break, break, lastPage>>
  BY DEF OtherMaps
<1>2. PICK p \in Pages : /\ owner[p] \in {"free", "other"}
                          /\ owner' = [owner EXCEPT ![p] = IF owner[p] = "free" THEN "other" ELSE "free"]
  BY DEF OtherMaps
<1>3. owner' \in [Pages -> Owners]
  BY <1>2, InvFacts DEF Owners
<1>4. \A q \in Pages : owner'[q] = "break" <=> owner[q] = "break"
  BY <1>2, InvFacts
<1>5. Backed(lastPage, owner')
  BY <1>4, InvFacts DEF Backed
<1> QED
  <2>1. break' = break /\ lastPage' = page_align(break) /\ lastPage = page_align(break)
    BY <1>1, InvFacts
  <2> QED
    BY <1>1, <1>3, <1>5, <2>1, InvFacts, Moved

LEMMA UnchangedStep ==
    ASSUME IInv, UNCHANGED vars
    PROVE  IInv'
  BY DEF IInv, TypeOK, Aligned, LastPageFollows, BreakBacked, vars, page_align,
         Pages, Owners, UserEnd, Width

LEMMA NextStep ==
    ASSUME PageAssumption, IInv, [Next]_vars
    PROVE  IInv'
<1>1. ASSUME NEW address \in Addresses, Shrink(address) PROVE IInv'
  BY <1>1, ShrinkStep
<1>2. ASSUME NEW address \in Addresses, Grow(address) PROVE IInv'
  BY <1>2, GrowStep
<1>3. ASSUME NEW address \in Addresses, Unchanged(address) PROVE IInv'
  BY <1>3, UnchangedStep DEF Unchanged
<1>4. CASE OtherMaps
  BY <1>4, OtherMapsStep
<1>5. CASE UNCHANGED vars
  BY <1>5, UnchangedStep
<1> QED
  BY <1>1, <1>2, <1>3, <1>4, <1>5 DEF Next, Brk

\* An address in a page behind the break's last one is refused only if the
\* kernel would refuse the pages up to it.
LEMMA RefusalStaysInPage ==
    ASSUME PageAssumption, IInv, NEW address \in Addresses, RequestRefused(address)
    PROVE  address <= lastPage
<1> SUFFICES ASSUME lastPage < address PROVE FALSE
  BY InvFacts, Spaces DEF Addresses, Width
<1> DEFINE d == address - lastPage
<1>1. /\ PageSize \in Nat /\ PageSize >= 1 /\ UserEnd \in Nat /\ PageCount \in Nat
      /\ UserEnd = PageCount * PageSize /\ Width = UserEnd + UserEnd
      /\ lastPage \in 0..UserEnd
      /\ address \in Nat /\ address <= UserEnd
  BY InvFacts, Spaces DEF RequestRefused, Addresses
<1>2. d \in 1..UserEnd /\ d \in Int /\ d < Width /\ 0 <= d
  BY <1>1
<1>3. AllocSize(address) = page_align(d)
  BY <1>2, Wrapped DEF AllocSize
<1>4. PICK n \in 0..PageCount : /\ page_align(d) = n * PageSize
                                 /\ d <= n * PageSize
                                 /\ n * PageSize < d + PageSize
  BY <1>2, AlignUp
<1>5. PICK m \in Nat : lastPage = m * PageSize
  BY InvFacts
<1>6. /\ m \in Int /\ n \in Int /\ m + n \in Nat /\ PageCount + 1 \in Int
      /\ PageCount \in Int /\ 1 \in Int
  BY <1>1
<1>7. /\ (m + n) * PageSize = m * PageSize + n * PageSize
      /\ (m + n) * PageSize < (PageCount + 1) * PageSize <=> m + n < PageCount + 1
      /\ PageCount * PageSize < (m + n) * PageSize <=> PageCount < m + n
      /\ (PageCount + 1) * PageSize = PageCount * PageSize + 1 * PageSize
      /\ m * PageSize \in Int /\ n * PageSize \in Int /\ (m + n) * PageSize \in Int
  BY <1>6, Factors
<1>8. /\ address <= (m + n) * PageSize /\ (m + n) * PageSize < address + PageSize
  BY <1>1, <1>4, <1>5, <1>7
<1>9. (m + n) * PageSize <= UserEnd
  BY <1>1, <1>6, <1>7, <1>8
<1>10. ASSUME NEW p \in PagesOf(lastPage, AllocSize(address)) PROVE owner[p] = "free"
  <2>1. p \in Pages /\ lastPage <= p * PageSize /\ p * PageSize < (m + n) * PageSize
    BY <1>3, <1>4, <1>5, <1>7, <1>10 DEF PagesOf
  <2>2. p \in Nat
    BY <2>1, <1>1 DEF Pages
  <2>3. p * PageSize < address
    BY <1>1, <1>6, <1>8, <2>1, <2>2, BelowBoundary
  <2>4. p \in PagesOf(lastPage, address - lastPage)
    BY <1>1, <2>1, <2>3 DEF PagesOf
  <2> QED
    BY <2>4 DEF RequestRefused
<1>11. AllocSize(address) > 0 /\ lastPage + AllocSize(address) <= UserEnd
  BY <1>1, <1>2, <1>3, <1>4, <1>5, <1>7, <1>9
<1>12. WillMap(address)
  BY <1>10, <1>11 DEF WillMap, CanMap
<1> QED
  BY <1>12 DEF RequestRefused

-----------------------------------------------------------------------------
(* The theorems *)

THEOREM Inductive ==
    ASSUME PageAssumption
    PROVE  Spec => []IInv
<1>1. Init => IInv
  BY InitIInv
<1>2. IInv /\ [Next]_vars => IInv'
  BY NextStep
<1> QED
  BY <1>1, <1>2, PTL DEF Spec

\* Every variable keeps its type: the break and its last page stay in the
\* half of the address space that can be mapped (syscalls.cpp:79-131).
THEOREM TypeCorrect ==
    ASSUME PageAssumption
    PROVE  Spec => []TypeOK
<1>1. IInv => TypeOK
  BY DEF IInv
<1> QED
  BY <1>1, Inductive, PTL

\* The pages the break has mapped are those from the image to the break, for
\* every size of a page and of the address space (syscalls.cpp:93-130).
THEOREM BreakStaysBacked ==
    ASSUME PageAssumption
    PROVE  Spec => []BreakBacked
<1>1. IInv => BreakBacked
  BY DEF IInv
<1> QED
  BY <1>1, Inductive, PTL

\* last_break_page is always the break, rounded up (syscalls.cpp:95-98, 128).
THEOREM LastPageStays ==
    ASSUME PageAssumption
    PROVE  Spec => []LastPageFollows
<1>1. IInv => LastPageFollows
  BY DEF IInv
<1> QED
  BY <1>1, Inductive, PTL

\* No call of brk takes or frees a page of the image or of another mapping
\* (syscalls.cpp:99-101, 108-124).
THEOREM ForeignPagesStay ==
    ASSUME PageAssumption
    PROVE  Spec => ForeignPagesKept
<1>1. IInv /\ [Next]_vars =>
          [Brk => \A p \in Pages : owner[p] \in {"image", "other"} => owner'[p] = owner[p]]_vars
  <2> SUFFICES ASSUME IInv, Brk
               PROVE  \A p \in Pages : owner[p] \in {"image", "other"} => owner'[p] = owner[p]
    OBVIOUS
  <2>1. ASSUME NEW address \in Addresses, Unchanged(address)
        PROVE  owner' = owner
    BY <2>1 DEF Unchanged, vars
  <2> QED
    BY <2>1, ShrinkStep, GrowStep DEF Brk
<1> QED
  BY <1>1, Inductive, PTL DEF Spec, ForeignPagesKept

\* A request for free pages is refused only inside the page the break is in
\* (syscalls.cpp:105-119).
THEOREM RefusalsStayInPage ==
    ASSUME PageAssumption
    PROVE  Spec => []RefusedOnlyInLastPage
<1>1. IInv => RefusedOnlyInLastPage
  BY RefusalStaysInPage DEF RefusedOnlyInLastPage
<1> QED
  BY <1>1, Inductive, PTL
=============================================================================
