------------------------ MODULE AddressSpacesProofs ------------------------
(***************************************************************************)
(* Proofs about the memory managers, for any memory map, any number of     *)
(* pages, any size of the tables, any tasks and any programs.              *)
(*                                                                         *)
(*   - allocpps() finds the first fit                                      *)
(*   - addresses and indexes, and the forest of the tables of the spaces   *)
(*   - what map_memory(), unmap_memory(), a blank space and the end of a   *)
(*     space do to the forest and to what is mapped                        *)
(*   - who owns the pages, and what each operation does to that            *)
(*   - the inductive invariant MemInv, and the theorems that follow        *)
(***************************************************************************)
EXTENDS AddressSpaces, FiniteSetTheorems, WellFoundedInduction, NaturalsInduction, TLAPS

\* Every set of numbers has a least one.
LEMMA LeastNat ==
  ASSUME NEW T, T \subseteq Nat, T # {}
  PROVE  \E x \in T : \A y \in T : x <= y
<1>1. IsWellFoundedOn(OpToRel(<, Nat), Nat)
  BY NatLessThanWellFounded
<1>2. PICK x \in T : \A y \in T : ~(<<y, x>> \in OpToRel(<, Nat))
  BY <1>1, WFMin
<1>3. ASSUME NEW y \in Nat, NEW z \in Nat, y < z PROVE <<y, z>> \in OpToRel(<, Nat)
  <2>1. <<y, z>> \in {ss \in Nat \X Nat : ss[1] < ss[2]}
    BY <1>3
  <2> QED
    BY <2>1 DEF OpToRel
<1>4. \A y \in T : ~(y < x)
  BY <1>2, <1>3
<1> QED
  BY <1>4

-----------------------------------------------------------------------------
(***************************************************************************)
(* The two loops of allocpps() are recursive functions, and so are known   *)
(* by their equations only.  The equations have one solution each, which   *)
(* is the value that a search from the place on is to return.              *)
(***************************************************************************)

\* The equation of the inner loop.
IsRunLength(ia, bitmap, i, amount) ==
  ia = [j \in 0 .. amount |->
          IF j = amount \/ isppUsed(bitmap, i + j) THEN j ELSE ia[j + 1]]

\* The inner loop stops at the first used page, or after amount free ones.
StopsAt(n, bitmap, i, j, amount) ==
  /\ n \in j .. amount
  /\ n = amount \/ isppUsed(bitmap, i + n)
  /\ \A x \in j .. n - 1 : ~isppUsed(bitmap, i + x)

\* There is such a place.
LEMMA StopExists ==
  ASSUME NEW bitmap, NEW i \in Nat, NEW amount \in Nat, NEW j \in 0 .. amount
  PROVE  \E n \in 0 .. amount : StopsAt(n, bitmap, i, j, amount)
<1> DEFINE T == {n \in Nat : n \in j .. amount /\ (n = amount \/ isppUsed(bitmap, i + n))}
<1>1. amount \in T
  OBVIOUS
<1>2. PICK n \in T : \A y \in T : n <= y
  BY <1>1, LeastNat
<1>3. ASSUME NEW x \in j .. n - 1 PROVE ~isppUsed(bitmap, i + x)
  <2>1. x \in Nat /\ x \in j .. amount /\ ~(n <= x)
    BY <1>2
  <2> QED
    BY <2>1, <1>2
<1> QED
  BY <1>2, <1>3 DEF StopsAt

\* There is only one such place.
LEMMA StopUnique ==
  ASSUME NEW bitmap, NEW i \in Nat, NEW amount \in Nat, NEW j \in 0 .. amount,
         NEW n, NEW m, StopsAt(n, bitmap, i, j, amount), StopsAt(m, bitmap, i, j, amount)
  PROVE  n = m
<1>1. n \in Nat /\ m \in Nat /\ n \in j .. amount /\ m \in j .. amount
  BY DEF StopsAt
<1>2. ~(n < m)
  <2> SUFFICES ASSUME n < m PROVE FALSE
    OBVIOUS
  <2>1. n \in j .. m - 1 /\ n # amount
    BY <1>1
  <2> QED
    BY <2>1 DEF StopsAt
<1>3. ~(m < n)
  <2> SUFFICES ASSUME m < n PROVE FALSE
    OBVIOUS
  <2>1. m \in j .. n - 1 /\ m # amount
    BY <1>1
  <2> QED
    BY <2>1 DEF StopsAt
<1> QED
  BY <1>1, <1>2, <1>3

\* RunLength() is where the loop stops.
LEMMA RunLengthStops ==
  ASSUME NEW bitmap, NEW i \in Nat, NEW amount \in Nat
  PROVE  StopsAt(RunLength(bitmap, i, amount), bitmap, i, 0, amount)
<1> DEFINE f == [j \in 0 .. amount |-> CHOOSE n \in 0 .. amount : StopsAt(n, bitmap, i, j, amount)]
<1>1. \A j \in 0 .. amount : f[j] \in 0 .. amount /\ StopsAt(f[j], bitmap, i, j, amount)
  BY StopExists
<1> HIDE DEF f
<1>2. ASSUME NEW j \in 0 .. amount
      PROVE  f[j] = IF j = amount \/ isppUsed(bitmap, i + j) THEN j ELSE f[j + 1]
  <2>1. CASE j = amount \/ isppUsed(bitmap, i + j)
    <3>1. StopsAt(j, bitmap, i, j, amount)
      BY <2>1 DEF StopsAt
    <3> QED
      BY <2>1, <3>1, <1>1, StopUnique
  <2>2. CASE ~(j = amount \/ isppUsed(bitmap, i + j))
    <3>1. j + 1 \in 0 .. amount
      BY <2>2
    <3>2. StopsAt(f[j + 1], bitmap, i, j + 1, amount)
      BY <3>1, <1>1
    <3>3. StopsAt(f[j + 1], bitmap, i, j, amount)
      BY <3>1, <3>2, <2>2 DEF StopsAt
    <3> QED
      BY <2>2, <3>3, <1>1, StopUnique
  <2> QED
    BY <2>1, <2>2
<1>3. IsRunLength(f, bitmap, i, amount)
  <2>1. f = [j \in 0 .. amount |-> f[j]]
    BY DEF f
  <2> QED
    BY <2>1, <1>2 DEF IsRunLength
<1>4. PICK ia : ia = CHOOSE g : IsRunLength(g, bitmap, i, amount)
  OBVIOUS
<1>5. IsRunLength(ia, bitmap, i, amount)
  BY <1>3, <1>4
<1>6. RunLength(bitmap, i, amount) = ia[0]
  BY <1>4 DEF RunLength, IsRunLength
<1>7. \A j \in 0 .. amount : ia[j] = f[j]
  <2> DEFINE T == {d \in Nat : d <= amount /\ ia[amount - d] # f[amount - d]}
  <2>1. ASSUME T # {} PROVE FALSE
    <3>1. PICK d \in T : \A y \in T : d <= y
      BY <2>1, LeastNat
    <3>2. PICK j : j = amount - d
      OBVIOUS
    <3>3. j \in 0 .. amount /\ ia[j] # f[j] /\ d \in Nat
      BY <3>1, <3>2
    <3>4. ia[j] = IF j = amount \/ isppUsed(bitmap, i + j) THEN j ELSE ia[j + 1]
      BY <3>3, <1>5 DEF IsRunLength
    <3>5. ~(j = amount \/ isppUsed(bitmap, i + j)) /\ ia[j + 1] # f[j + 1]
      BY <3>3, <3>4, <1>2
    <3>6. d - 1 \in Nat /\ d - 1 <= amount /\ amount - (d - 1) = j + 1
      BY <3>2, <3>3, <3>5
    <3>7. d - 1 \in T
      BY <3>5, <3>6
    <3> QED
      BY <3>1, <3>3, <3>7
  <2>2. ASSUME NEW j \in 0 .. amount PROVE ia[j] = f[j]
    <3>1. amount - j \in Nat /\ amount - j <= amount /\ amount - (amount - j) = j
      OBVIOUS
    <3> QED
      BY <3>1, <2>1
  <2> QED
    BY <2>2
<1> QED
  BY <1>1, <1>6, <1>7

\* The equation of the outer loop.
IsSearch(at, bitmap, amount) ==
  at = [i \in 0 .. NumPages + 1 |->
          IF i >= NumPages THEN 0
          ELSE IF RunLength(bitmap, i, amount) = amount THEN i
          ELSE at[i + RunLength(bitmap, i, amount) + 1]]

\* The pages from i on where a run of free pages starts, and what the search from
\* i on is to return.
FitsFrom(bitmap, i, amount) ==
  {p \in Page : p >= i /\ \A q \in p .. p + amount - 1 : ~isppUsed(bitmap, q)}

FirstFitFrom(bitmap, i, amount) ==
  IF FitsFrom(bitmap, i, amount) = {} THEN 0
  ELSE CHOOSE p \in FitsFrom(bitmap, i, amount) :
         \A q \in FitsFrom(bitmap, i, amount) : p <= q

\* A run that is too short holds no fit, and ends inside the bitmap or behind it.
LEMMA ShortRun ==
  ASSUME NEW bitmap, NEW amount \in Nat, NEW i \in Page,
         RunLength(bitmap, i, amount) # amount
  PROVE  LET next == i + RunLength(bitmap, i, amount) + 1
         IN  /\ next \in i + 1 .. NumPages + 1
             /\ FitsFrom(bitmap, next, amount) = FitsFrom(bitmap, i, amount)
<1>1. i \in Nat /\ NumPages \in Nat /\ i < NumPages
  BY PageFramesAssumption DEF Page
<1>2. PICK n : n = RunLength(bitmap, i, amount)
  OBVIOUS
<1>3. StopsAt(n, bitmap, i, 0, amount)
  BY <1>1, <1>2, RunLengthStops
<1>4. n \in Nat /\ n < amount /\ isppUsed(bitmap, i + n)
      /\ \A x \in 0 .. n - 1 : ~isppUsed(bitmap, i + x)
  BY <1>2, <1>3 DEF StopsAt
<1>5. i + n <= NumPages
  <2>1. CASE n = 0
    BY <2>1, <1>1
  <2>2. CASE n # 0
    <3>1. n - 1 \in 0 .. n - 1
      BY <2>2, <1>4
    <3>2. ~isppUsed(bitmap, i + (n - 1))
      BY <3>1, <1>4
    <3>3. i + (n - 1) \in 0 .. NumPages - 1
      BY <3>2, PageFramesAssumption DEF isppUsed
    <3> QED
      BY <3>3, <1>1, <1>4
  <2> QED
    BY <2>1, <2>2
<1>6. ASSUME NEW p \in FitsFrom(bitmap, i, amount) PROVE p >= i + n + 1
  <2> SUFFICES ASSUME ~(p >= i + n + 1) PROVE FALSE
    OBVIOUS
  <2>1. p \in Nat /\ p >= i /\ \A q \in p .. p + amount - 1 : ~isppUsed(bitmap, q)
    BY <1>1 DEF FitsFrom, Page
  <2>2. i + n \in p .. p + amount - 1
    BY <2>1, <1>1, <1>4
  <2> QED
    BY <2>1, <2>2, <1>4
<1>7. FitsFrom(bitmap, i + n + 1, amount) \subseteq FitsFrom(bitmap, i, amount)
  <2> SUFFICES ASSUME NEW p \in FitsFrom(bitmap, i + n + 1, amount)
               PROVE  p \in FitsFrom(bitmap, i, amount)
    OBVIOUS
  <2>1. p \in Page /\ p \in Nat /\ p >= i + n + 1
    BY <1>1 DEF FitsFrom, Page
  <2>2. p >= i
    BY <2>1, <1>1, <1>4
  <2> QED
    BY <2>1, <2>2 DEF FitsFrom
<1>8. FitsFrom(bitmap, i, amount) \subseteq FitsFrom(bitmap, i + n + 1, amount)
  BY <1>6 DEF FitsFrom
<1> QED
  BY <1>1, <1>2, <1>4, <1>5, <1>7, <1>8

(***************************************************************************)
(* allocpps() finds the first run of free pages that is long enough, if    *)
(* there is any, for every bitmap and every amount: the pages it jumps     *)
(* over after a short run are the start of no fit.                         *)
(***************************************************************************)
THEOREM AllocppsIsFirstFit ==
  ASSUME NEW bitmap, NEW amount \in Nat
  PROVE  allocpps(bitmap, amount) = FirstFit(bitmap, amount)
<1>0. NumPages \in Nat
  BY PageFramesAssumption
<1> DEFINE f == [i \in 0 .. NumPages + 1 |-> FirstFitFrom(bitmap, i, amount)]
<1>1. ASSUME NEW i \in 0 .. NumPages + 1
      PROVE  f[i] = IF i >= NumPages THEN 0
                    ELSE IF RunLength(bitmap, i, amount) = amount THEN i
                    ELSE f[i + RunLength(bitmap, i, amount) + 1]
  <2>1. f[i] = FirstFitFrom(bitmap, i, amount)
    OBVIOUS
  <2>2. CASE i >= NumPages
    <3>1. FitsFrom(bitmap, i, amount) = {}
      BY <2>2, <1>0 DEF FitsFrom, Page
    <3> QED
      BY <2>1, <2>2, <3>1 DEF FirstFitFrom
  <2>3. CASE ~(i >= NumPages) /\ RunLength(bitmap, i, amount) = amount
    <3>1. StopsAt(amount, bitmap, i, 0, amount)
      BY <2>3, RunLengthStops
    <3>2. ASSUME NEW q \in i .. i + amount - 1 PROVE ~isppUsed(bitmap, q)
      <4>1. q - i \in 0 .. amount - 1 /\ i + (q - i) = q
        OBVIOUS
      <4> QED
        BY <4>1, <3>1 DEF StopsAt
    <3>3. i \in FitsFrom(bitmap, i, amount)
      BY <3>2, <2>3, <1>0 DEF FitsFrom, Page
    <3>4. \A p \in FitsFrom(bitmap, i, amount) : p \in Nat /\ i <= p
      BY <1>0 DEF FitsFrom, Page
    <3>5. PICK S : S = FitsFrom(bitmap, i, amount)
      OBVIOUS
    <3>6. i = CHOOSE p \in S : \A q \in S : p <= q
      BY <3>3, <3>4, <3>5
    <3>7. FirstFitFrom(bitmap, i, amount) = i
      BY <3>3, <3>5, <3>6 DEF FirstFitFrom
    <3> QED
      BY <2>1, <2>3, <3>7
  <2>4. CASE ~(i >= NumPages) /\ RunLength(bitmap, i, amount) # amount
    <3>1. i \in Page
      BY <2>4, <1>0 DEF Page
    <3>2. PICK n : n = i + RunLength(bitmap, i, amount) + 1
      OBVIOUS
    <3>3. n \in i + 1 .. NumPages + 1 /\ FitsFrom(bitmap, n, amount) = FitsFrom(bitmap, i, amount)
      BY <3>1, <3>2, <2>4, ShortRun
    <3>4. f[n] = FirstFitFrom(bitmap, n, amount)
      BY <3>3, <1>0
    <3>5. FirstFitFrom(bitmap, n, amount) = FirstFitFrom(bitmap, i, amount)
      BY <3>3 DEF FirstFitFrom
    <3> QED
      BY <2>1, <2>4, <3>2, <3>4, <3>5
  <2> QED
    BY <2>2, <2>3, <2>4
<1> HIDE DEF f
<1>2. IsSearch(f, bitmap, amount)
  <2>1. f = [i \in 0 .. NumPages + 1 |-> f[i]]
    BY DEF f
  <2> QED
    BY <2>1, <1>1 DEF IsSearch
<1>3. PICK at : at = CHOOSE g : IsSearch(g, bitmap, amount)
  OBVIOUS
<1>4. IsSearch(at, bitmap, amount)
  BY <1>2, <1>3
<1>5. allocpps(bitmap, amount) = at[0]
  BY <1>3 DEF allocpps, IsSearch
<1>6. at[0] = f[0]
  <2> DEFINE T == {d \in Nat : d <= NumPages + 1 /\ at[NumPages + 1 - d] # f[NumPages + 1 - d]}
  <2>1. ASSUME T # {} PROVE FALSE
    <3>1. PICK d \in T : \A y \in T : d <= y
      BY <2>1, LeastNat
    <3>2. PICK i : i = NumPages + 1 - d
      OBVIOUS
    <3>3. i \in 0 .. NumPages + 1 /\ at[i] # f[i] /\ d \in Nat
      BY <3>1, <3>2, <1>0
    <3>4. PICK n : n = i + RunLength(bitmap, i, amount) + 1
      OBVIOUS
    <3>5. at[i] = IF i >= NumPages THEN 0
                  ELSE IF RunLength(bitmap, i, amount) = amount THEN i ELSE at[n]
      BY <3>3, <3>4, <1>4 DEF IsSearch
    <3>6. ~(i >= NumPages) /\ RunLength(bitmap, i, amount) # amount /\ at[n] # f[n]
      BY <3>3, <3>4, <3>5, <1>1
    <3>7. n \in i + 1 .. NumPages + 1
      <4>1. i \in Page
        BY <3>3, <3>6, <1>0 DEF Page
      <4> QED
        BY <4>1, <3>4, <3>6, ShortRun
    <3>8. PICK e : e = NumPages + 1 - n
      OBVIOUS
    <3>9. e \in Nat /\ e <= NumPages + 1 /\ NumPages + 1 - e = n /\ e < d
      BY <3>2, <3>3, <3>7, <3>8, <1>0
    <3>10. e \in T
      BY <3>6, <3>9
    <3> QED
      BY <3>1, <3>3, <3>9, <3>10
  <2>2. PICK d : d = NumPages + 1
    OBVIOUS
  <2>3. d \in Nat /\ d <= NumPages + 1 /\ NumPages + 1 - d = 0
    BY <2>2, <1>0
  <2>4. d \notin T
    BY <2>1
  <2> QED
    BY <2>3, <2>4
<1>7. f[0] = FirstFitFrom(bitmap, 0, amount)
  BY <1>0 DEF f
<1>8. FirstFitFrom(bitmap, 0, amount) = FirstFit(bitmap, amount)
  <2>1. \A p \in Page : p >= 0
    BY <1>0 DEF Page
  <2>2. FitsFrom(bitmap, 0, amount)
          = {p \in Page : \A q \in p .. p + amount - 1 : ~isppUsed(bitmap, q)}
    BY <2>1 DEF FitsFrom
  <2>3. PICK S : S = FitsFrom(bitmap, 0, amount)
    OBVIOUS
  <2>4. FirstFitFrom(bitmap, 0, amount) = IF S = {} THEN 0 ELSE CHOOSE p \in S : \A q \in S : p <= q
    BY <2>3 DEF FirstFitFrom
  <2>5. FirstFit(bitmap, amount) = IF S = {} THEN 0 ELSE CHOOSE p \in S : \A q \in S : p <= q
    <3> DEFINE R == {p \in Page : \A q \in p .. p + amount - 1 : ~isppUsed(bitmap, q)}
    <3>1. FirstFit(bitmap, amount) = IF R = {} THEN 0 ELSE CHOOSE p \in R : \A q \in R : p <= q
      BY Zenon DEF FirstFit
    <3>2. R = S
      BY <2>2, <2>3
    <3> HIDE DEF R
    <3> QED
      BY <3>1, <3>2
  <2> QED
    BY <2>4, <2>5
<1> QED
  BY <1>5, <1>6, <1>7, <1>8

\* The same of the bitmap of the system, whatever was allocated and freed.
THEOREM MemoryIsFirstFit == Spec => []AllocIsFirstFit
<1>1. AllocIsFirstFit
  BY AllocppsIsFirstFit, PageFramesAssumption DEF AllocIsFirstFit
<1> QED
  BY <1>1, PTL

Sub(x, i) == x * Width + i

Slot == 0 .. Width - 1

\* What is assumed of the width of a table.
LEMMA WidthIs == Width \in Nat /\ Width > 2 /\ Width \in Int
  BY PageTablesAssumption

\* A number is its quotient and its remainder.
LEMMA DivMod ==
  ASSUME NEW n \in Nat
  PROVE  n \div Width \in Nat /\ n % Width \in Slot /\ n = Sub(n \div Width, n % Width)
  BY WidthIs DEF Sub, Slot

\* Quotient and remainder are unique.
LEMMA SubInjective ==
  ASSUME NEW x \in Nat, NEW y \in Nat, NEW i \in Slot, NEW j \in Slot, Sub(x, i) = Sub(y, j)
  PROVE  x = y /\ i = j
  BY WidthIs DEF Sub, Slot

\* They make a number.
LEMMA SubNat ==
  ASSUME NEW x \in Nat, NEW i \in Slot
  PROVE  Sub(x, i) \in Nat
  BY WidthIs DEF Sub, Slot

\* And they are what the operators return.
LEMMA SubDiv ==
  ASSUME NEW x \in Nat, NEW i \in Slot
  PROVE  Sub(x, i) \div Width = x /\ Sub(x, i) % Width = i
<1>1. Sub(x, i) \in Nat
  BY SubNat
<1> QED
  BY <1>1, DivMod, SubInjective

-----------------------------------------------------------------------------
\* One shift after the other.
LEMMA ShiftedIs ==
  ASSUME NEW v \in Nat
  PROVE  /\ Shifted(v, 1) = v \div Width
         /\ Shifted(v, 2) = Shifted(v, 1) \div Width
         /\ Shifted(v, 3) = Shifted(v, 2) \div Width
  BY DEF Shifted

\* An address is made of its indexes.
LEMMA IndexIs ==
  ASSUME NEW v \in Nat
  PROVE  /\ Shifted(v, 1) \in Nat /\ Shifted(v, 2) \in Nat /\ Shifted(v, 3) \in Nat
         /\ v = Sub(Shifted(v, 1), v % Width)
         /\ Shifted(v, 1) = Sub(Shifted(v, 2), Index(v, 1))
         /\ Shifted(v, 2) = Sub(Shifted(v, 3), Index(v, 2))
         /\ v % Width \in Slot /\ Index(v, 1) \in Slot /\ Index(v, 2) \in Slot
         /\ Index(v, 3) \in Slot
<1>1. Shifted(v, 1) \in Nat /\ v = Sub(Shifted(v, 1), v % Width) /\ v % Width \in Slot
  BY DivMod, ShiftedIs
<1>2. Shifted(v, 2) \in Nat /\ Index(v, 1) \in Slot
      /\ Shifted(v, 1) = Sub(Shifted(v, 2), Index(v, 1))
  BY <1>1, DivMod, ShiftedIs DEF Index
<1>3. Shifted(v, 3) \in Nat /\ Index(v, 2) \in Slot
      /\ Shifted(v, 2) = Sub(Shifted(v, 3), Index(v, 2))
  BY <1>2, DivMod, ShiftedIs DEF Index
<1>4. Index(v, 3) \in Slot
  BY <1>3, DivMod DEF Index
<1> QED
  BY <1>1, <1>2, <1>3, <1>4

\* The address that is made of four indexes has these indexes.
LEMMA PageNumberIs ==
  ASSUME NEW i \in Slot, NEW j \in Slot, NEW k \in Slot, NEW l \in Slot
  PROVE  LET v == PageNumber(i, j, k, l)
         IN  /\ v \in Nat /\ v = Sub(Sub(Sub(i, j), k), l) /\ v % Width = l
             /\ Shifted(v, 1) = Sub(Sub(i, j), k) /\ Shifted(v, 2) = Sub(i, j)
             /\ Shifted(v, 3) = i
             /\ Index(v, 1) = k /\ Index(v, 2) = j /\ Index(v, 3) = i
<1>1. i \in Nat /\ Sub(i, j) \in Nat /\ Sub(Sub(i, j), k) \in Nat
      /\ Sub(Sub(Sub(i, j), k), l) \in Nat
  BY SubNat, WidthIs DEF Slot
<1>2. PICK v : v = PageNumber(i, j, k, l)
  OBVIOUS
<1>3. v = Sub(Sub(Sub(i, j), k), l)
  BY <1>2 DEF PageNumber, Sub
<1>4. v % Width = l /\ Shifted(v, 1) = Sub(Sub(i, j), k)
  BY <1>1, <1>3, SubDiv, ShiftedIs
<1>5. Shifted(v, 2) = Sub(i, j) /\ Index(v, 1) = k
  BY <1>1, <1>3, <1>4, SubDiv, ShiftedIs DEF Index
<1>6. Shifted(v, 3) = i /\ Index(v, 2) = j
  BY <1>1, <1>3, <1>5, SubDiv, ShiftedIs DEF Index
<1>7. i = Sub(0, i)
  BY <1>1, WidthIs DEF Sub
<1>8. i % Width = i
  BY <1>7, SubDiv
<1>9. Index(v, 3) = i
  BY <1>6, <1>8 DEF Index
<1> QED
  BY <1>1, <1>2, <1>3, <1>4, <1>5, <1>6, <1>9

\* What is below the first entry of a table is below the table.
LEMMA SubLess ==
  ASSUME NEW x \in Nat, NEW a \in Nat, NEW y \in Nat, NEW i \in Slot, x = Sub(y, i)
  PROVE  x < Sub(a, 0) <=> y < a
BY WidthIs DEF Sub, Slot

\* Below the kernel's part the index in the highest table is not its last one.
LEMMA UserPageIs ==
  ASSUME NEW v \in Nat
  PROVE  /\ v \in UserPage <=> Shifted(v, 3) < Width - 1
         /\ v \in UserPage => Index(v, 3) = Shifted(v, 3)
<1>0. PICK E : E = Width - 1
  OBVIOUS
<1>1. E \in Nat /\ E \in Slot /\ 0 \in Slot
  BY <1>0, WidthIs DEF Slot
<1>2. PageNumber(E, 0, 0, 0) = Sub(Sub(Sub(E, 0), 0), 0)
  BY <1>1, PageNumberIs
<1>3. ASSUME NEW x \in Nat, NEW a \in Nat, NEW y \in Nat, NEW i \in Slot, x = Sub(y, i)
      PROVE  x < Sub(a, 0) <=> y < a
  BY <1>3, SubLess
<1>4. Sub(E, 0) \in Nat /\ Sub(Sub(E, 0), 0) \in Nat
  BY <1>1, SubNat
<1>5. v \in UserPage <=> v < Sub(Sub(Sub(E, 0), 0), 0)
  <2>1. Sub(Sub(Sub(E, 0), 0), 0) \in Nat
    BY <1>1, <1>4, SubNat
  <2> QED
    BY <1>0, <1>2, <2>1 DEF UserPage
<1>6. v < Sub(Sub(Sub(E, 0), 0), 0) <=> Shifted(v, 1) < Sub(Sub(E, 0), 0)
  BY <1>3, <1>4, IndexIs
<1>7. Shifted(v, 1) < Sub(Sub(E, 0), 0) <=> Shifted(v, 2) < Sub(E, 0)
  <2>0. Shifted(v, 1) \in Nat /\ Shifted(v, 2) \in Nat /\ Index(v, 1) \in Slot
        /\ Shifted(v, 1) = Sub(Shifted(v, 2), Index(v, 1))
    BY IndexIs
  <2>1. PICK x \in Nat, y \in Nat, i \in Slot :
          x = Shifted(v, 1) /\ y = Shifted(v, 2) /\ x = Sub(y, i)
    BY <2>0
  <2> QED
    BY <1>3, <1>4, <2>1
<1>8. Shifted(v, 2) < Sub(E, 0) <=> Shifted(v, 3) < E
  <2>0. Shifted(v, 2) \in Nat /\ Shifted(v, 3) \in Nat /\ Index(v, 2) \in Slot
        /\ Shifted(v, 2) = Sub(Shifted(v, 3), Index(v, 2))
    BY IndexIs
  <2>1. PICK x \in Nat, y \in Nat, i \in Slot :
          x = Shifted(v, 2) /\ y = Shifted(v, 3) /\ x = Sub(y, i)
    BY <2>0
  <2> QED
    BY <1>1, <1>3, <1>4, <2>1
<1>9. ASSUME Shifted(v, 3) < E PROVE Index(v, 3) = Shifted(v, 3)
  <2>1. PICK x \in Nat : x = Shifted(v, 3)
    BY IndexIs
  <2>2. x = Sub(0, x) /\ x \in Slot
    BY <1>0, <1>9, <2>1, WidthIs DEF Sub, Slot
  <2> QED
    BY <2>1, <2>2, SubDiv DEF Index
<1> QED
  BY <1>0, <1>5, <1>6, <1>7, <1>8, <1>9

\* Where an address of the window leads.
LEMMA WindowIs ==
  ASSUME NEW j \in Slot
  PROVE  /\ Window + j \in Nat /\ (Window + j) % Width = j
         /\ Index(Window + j, 1) = 1 /\ Index(Window + j, 2) = Width - 2
         /\ Index(Window + j, 3) = Width - 1
<1>1. 0 \in Slot /\ 1 \in Slot /\ Width - 2 \in Slot /\ Width - 1 \in Slot
  BY WidthIs DEF Slot
<1>2. Window + j = PageNumber(Width - 1, Width - 2, 1, j)
  <2>1. PICK y : y = ((Width - 1) * Width + (Width - 2)) * Width + 1
    OBVIOUS
  <2>2. y \in Nat
    <3>1. Sub(Width - 1, Width - 2) \in Nat
      BY <1>1, SubNat, WidthIs
    <3>2. Sub(Sub(Width - 1, Width - 2), 1) \in Nat
      BY <1>1, <3>1, SubNat
    <3> QED
      BY <2>1, <3>2 DEF Sub
  <2>3. Window = y * Width + 0 /\ PageNumber(Width - 1, Width - 2, 1, j) = y * Width + j
    BY <2>1 DEF Window, PageNumber
  <2> QED
    BY <2>2, <2>3, WidthIs DEF Slot
<1> QED
  BY <1>1, <1>2, PageNumberIs

\* The next page is in the same table unless its index is 0.
LEMMA NextPage ==
  ASSUME NEW v \in Nat, (v + 1) % Width # 0
  PROVE  /\ Shifted(v + 1, 1) = Shifted(v, 1) /\ Shifted(v + 1, 2) = Shifted(v, 2)
         /\ Shifted(v + 1, 3) = Shifted(v, 3)
         /\ Index(v + 1, 1) = Index(v, 1) /\ Index(v + 1, 2) = Index(v, 2)
         /\ Index(v + 1, 3) = Index(v, 3)
<1>1. PICK x \in Nat, i \in Slot : x = Shifted(v, 1) /\ i = v % Width /\ v = Sub(x, i)
  BY IndexIs
<1>2. CASE i = Width - 1
  <2>0. (x + 1) * Width = x * Width + Width
    BY WidthIs
  <2>1. v + 1 = Sub(x + 1, 0) /\ 0 \in Slot /\ x + 1 \in Nat
    <3>1. x * Width \in Int
      BY WidthIs
    <3>2. v = x * Width + (Width - 1)
      BY <1>1, <1>2 DEF Sub
    <3>3. v + 1 = x * Width + Width
      BY <3>1, <3>2, WidthIs
    <3> QED
      BY <2>0, <3>3, WidthIs DEF Sub, Slot
  <2> QED
    BY <2>1, SubDiv
<1>3. CASE i # Width - 1
  <2>1. v + 1 = Sub(x, i + 1) /\ i + 1 \in Slot /\ v + 1 \in Nat
    BY <1>1, <1>3, WidthIs DEF Sub, Slot
  <2>2. Shifted(v + 1, 1) = x
    BY <2>1, SubDiv, ShiftedIs
  <2> QED
    BY <1>1, <2>1, <2>2, ShiftedIs DEF Index
<1> QED
  BY <1>2, <1>3

\* The memory record.
Memory ==
  [bitmap : SUBSET Page, heap : SUBSET PageHeap,
   tab : [Struct -> [Slot -> {None} \cup Struct \cup Page]], data : [Page -> Value]]

(***************************************************************************)
(* The tables of the spaces are a forest.  A table has a position: the     *)
(* space it belongs to, its level and the part of the page number that     *)
(* leads to it.                                                            *)
(***************************************************************************)
Position == [root : PageHeap, lev : 0 .. 3, pre : Nat]

RootAt(s) == [root |-> s, lev |-> 3, pre |-> 0]

Child(q, i) == [root |-> q.root, lev |-> q.lev - 1, pre |-> Sub(q.pre, i)]

\* The entries that lead to a table of the space.
HasChild(q, i) == q.lev > 0 /\ i \in Slot /\ ~(q.lev = 3 /\ i = Width - 1)

Placed(pos, m, S) ==
  /\ pos \in [PageHeap -> Position]
  /\ S \subseteq m.heap
  /\ \A t \in m.heap : pos[t].lev = 3 <=> t \in S
  /\ \A s \in S : pos[s] = RootAt(s) /\ m.tab[s][Width - 1] = KPDPT
  /\ \A t, u \in m.heap : pos[t] = pos[u] => t = u

EntriesOK(pos, m) ==
  \A t \in m.heap : \A i \in Slot :
    /\ HasChild(pos[t], i) => \/ m.tab[t][i] = None
                              \/ m.tab[t][i] \in m.heap /\ pos[m.tab[t][i]] = Child(pos[t], i)
    /\ pos[t].lev = 0 => m.tab[t][i] \in {None} \cup Page

Linked(pos, m, S) ==
  \A t \in m.heap \ S : \E u \in m.heap : \E i \in Slot : HasChild(pos[u], i) /\ m.tab[u][i] = t

\* The tables of the kernel.
KernelTables(m) ==
  /\ m.tab[KPDPT] = [EmptyTable EXCEPT ![Width - 2] = KPD]
  /\ m.tab[KPD] = [EmptyTable EXCEPT ![1] = WindowTable]
  /\ \A i \in Slot : m.tab[WindowTable][i] \in {None} \cup Page

Forest(pos, m, S) ==
  m \in Memory /\ Placed(pos, m, S) /\ EntriesOK(pos, m) /\ Linked(pos, m, S) /\ KernelTables(m)

-----------------------------------------------------------------------------
\* The kernel's structures are outside the page heap and differ.
LEMMA StructIs ==
  /\ NumStructs \in Nat /\ PageHeap \subseteq Nat /\ PageHeap \subseteq Struct
  /\ KPDPT \in Struct /\ KPD \in Struct /\ WindowTable \in Struct
  /\ KPDPT \notin PageHeap /\ KPD \notin PageHeap /\ WindowTable \notin PageHeap
  /\ KPDPT # KPD /\ KPDPT # WindowTable /\ KPD # WindowTable
  /\ None \notin Struct /\ None \notin Page /\ None \notin PageHeap
  BY PageTablesAssumption, PageFramesAssumption
     DEF PageHeap, Struct, KPDPT, KPD, WindowTable, None, Page

\* The position of the highest table.
LEMMA RootIs ==
  ASSUME NEW s \in PageHeap
  PROVE  RootAt(s) \in Position /\ RootAt(s).lev = 3 /\ RootAt(s).root = s
  BY DEF RootAt, Position

\* The position of a table one level down.
LEMMA ChildIs ==
  ASSUME NEW q \in Position, NEW i, HasChild(q, i)
  PROVE  /\ Child(q, i) \in Position /\ Child(q, i).lev = q.lev - 1
         /\ Child(q, i).root = q.root
         /\ q.lev \in 0 .. 3 /\ i \in Slot
<1>1. q.lev \in 0 .. 3 /\ q.pre \in Nat /\ q.root \in PageHeap
  BY DEF Position
<1>2. i \in Slot /\ q.lev > 0
  BY DEF HasChild
<1>3. Sub(q.pre, i) \in Nat
  BY <1>1, <1>2, SubNat
<1>4. q.lev - 1 \in 0 .. 3
  BY <1>1, <1>2
<1> QED
  BY <1>1, <1>2, <1>3, <1>4 DEF Child, Position

\* A position has one parent and one index there.
LEMMA ChildInjective ==
  ASSUME NEW q \in Position, NEW r \in Position, NEW i, NEW j,
         HasChild(q, i), HasChild(r, j), Child(q, i) = Child(r, j)
  PROVE  q = r /\ i = j
<1>1. q.lev \in Int /\ r.lev \in Int /\ q.pre \in Nat /\ r.pre \in Nat /\ i \in Slot /\ j \in Slot
  BY DEF Position, HasChild
<1>2. q.root = r.root /\ q.lev - 1 = r.lev - 1 /\ Sub(q.pre, i) = Sub(r.pre, j)
  BY DEF Child
<1>3. q.pre = r.pre /\ i = j
  BY <1>1, <1>2, SubInjective
<1>4. q.lev = r.lev
  BY <1>1, <1>2
<1>5. q = [root |-> q.root, lev |-> q.lev, pre |-> q.pre]
      /\ r = [root |-> r.root, lev |-> r.lev, pre |-> r.pre]
  BY DEF Position
<1> QED
  BY <1>2, <1>3, <1>4, <1>5

\* The parent of a table is at the parent's position.
LEMMA ParentIs ==
  ASSUME NEW pos, NEW m, NEW S, Forest(pos, m, S), NEW c \in m.heap,
         NEW q \in Position, NEW i, HasChild(q, i), pos[c] = Child(q, i)
  PROVE  \E u \in m.heap : pos[u] = q /\ m.tab[u][i] = c
<1>1. m.heap \subseteq PageHeap /\ pos \in [PageHeap -> Position]
  BY DEF Forest, Memory, Placed
<1>2. c \notin S
  <2>1. pos[c].lev = q.lev - 1 /\ q.lev \in 0 .. 3
    BY ChildIs
  <2> QED
    BY <2>1 DEF Forest, Placed
<1>3. PICK u \in m.heap, j \in Slot : HasChild(pos[u], j) /\ m.tab[u][j] = c
  BY <1>2 DEF Forest, Linked
<1>4. pos[c] = Child(pos[u], j)
  <2>1. c # None
    BY <1>1, StructIs
  <2> QED
    BY <1>3, <2>1 DEF Forest, EntriesOK
<1>5. pos[u] = q /\ j = i
  <2>1. pos[u] \in Position /\ Child(q, i) = Child(pos[u], j)
    BY <1>1, <1>3, <1>4
  <2> QED
    BY <1>3, <2>1, ChildInjective
<1> QED
  BY <1>3, <1>5

\* What an entry leads to: a table at the position, or there is no such table.
LEMMA EntryIs ==
  ASSUME NEW pos, NEW m, NEW S, Forest(pos, m, S), NEW t \in m.heap, NEW i, HasChild(pos[t], i)
  PROVE  \/ /\ m.tab[t][i] = None
            /\ \A c \in m.heap : pos[c] # Child(pos[t], i)
         \/ m.tab[t][i] \in m.heap /\ pos[m.tab[t][i]] = Child(pos[t], i) /\ m.tab[t][i] # None
<1>1. m.heap \subseteq PageHeap /\ pos \in [PageHeap -> Position]
  BY DEF Forest, Memory, Placed
<1>2. i \in Slot
  BY DEF HasChild
<1>3. m.tab[t][i] = None \/ (m.tab[t][i] \in m.heap /\ pos[m.tab[t][i]] = Child(pos[t], i))
  BY <1>2 DEF Forest, EntriesOK
<1>4. ASSUME NEW c \in m.heap, pos[c] = Child(pos[t], i) PROVE m.tab[t][i] = c
  <2>1. PICK u \in m.heap : pos[u] = pos[t] /\ m.tab[u][i] = c
    BY <1>1, <1>4, ParentIs
  <2>2. u = t
    BY <2>1 DEF Forest, Placed
  <2> QED
    BY <2>1, <2>2
<1>5. \A c \in m.heap : c # None
  BY <1>1, StructIs
<1> QED
  BY <1>3, <1>4, <1>5

-----------------------------------------------------------------------------
\* The positions of the tables on the way to a page.
PdptAt(s, v) == Child(RootAt(s), Index(v, 3))

PdAt(s, v) == Child(PdptAt(s, v), Index(v, 2))

PtAt(s, v) == Child(PdAt(s, v), Index(v, 1))

\* The positions on the way to a page are those of tables of the space.
LEMMA WayIs ==
  ASSUME NEW s \in PageHeap, NEW v \in UserPage
  PROVE  /\ v \in Nat
         /\ HasChild(RootAt(s), Index(v, 3)) /\ RootAt(s) \in Position
         /\ HasChild(PdptAt(s, v), Index(v, 2)) /\ PdptAt(s, v) \in Position
         /\ HasChild(PdAt(s, v), Index(v, 1)) /\ PdAt(s, v) \in Position
         /\ PtAt(s, v) \in Position /\ PtAt(s, v).lev = 0 /\ PtAt(s, v).root = s
         /\ PdptAt(s, v).lev = 2 /\ PdAt(s, v).lev = 1
         /\ PdptAt(s, v).root = s /\ PdAt(s, v).root = s
<1>1. v \in Nat
  BY DEF UserPage
<1>2. Index(v, 3) \in Slot /\ Index(v, 3) # Width - 1 /\ Index(v, 2) \in Slot /\ Index(v, 1) \in Slot
  BY <1>1, IndexIs, UserPageIs
<1>3. HasChild(RootAt(s), Index(v, 3))
  BY <1>2, RootIs DEF HasChild
<1>4. PdptAt(s, v) \in Position /\ PdptAt(s, v).lev = 2 /\ PdptAt(s, v).root = s
  BY <1>3, RootIs, ChildIs DEF PdptAt
<1>5. HasChild(PdptAt(s, v), Index(v, 2))
  BY <1>2, <1>4 DEF HasChild
<1>6. PdAt(s, v) \in Position /\ PdAt(s, v).lev = 1 /\ PdAt(s, v).root = s
  BY <1>4, <1>5, ChildIs DEF PdAt
<1>7. HasChild(PdAt(s, v), Index(v, 1))
  BY <1>2, <1>6 DEF HasChild
<1>8. PtAt(s, v) \in Position /\ PtAt(s, v).lev = 0 /\ PtAt(s, v).root = s
  BY <1>6, <1>7, ChildIs DEF PtAt
<1> QED
  BY <1>1, <1>3, <1>4, <1>5, <1>6, <1>7, <1>8, RootIs

\* Pages with the same table and the same index in it are the same.
LEMMA PtInjective ==
  ASSUME NEW s \in PageHeap, NEW r \in PageHeap, NEW v \in UserPage, NEW w \in UserPage,
         PtAt(s, v) = PtAt(r, w)
  PROVE  s = r /\ Shifted(v, 1) = Shifted(w, 1) /\ (v % Width = w % Width => v = w)
<1>1. PdAt(s, v) = PdAt(r, w) /\ Index(v, 1) = Index(w, 1)
  BY WayIs, ChildInjective DEF PtAt
<1>2. PdptAt(s, v) = PdptAt(r, w) /\ Index(v, 2) = Index(w, 2)
  BY <1>1, WayIs, ChildInjective DEF PdAt
<1>3. RootAt(s) = RootAt(r) /\ Index(v, 3) = Index(w, 3)
  BY <1>2, WayIs, ChildInjective DEF PdptAt
<1>4. s = r
  BY <1>3 DEF RootAt
<1>5. v \in Nat /\ w \in Nat /\ Shifted(v, 3) = Shifted(w, 3)
  BY <1>3, WayIs, UserPageIs
<1>6. Shifted(v, 2) = Shifted(w, 2)
  BY <1>2, <1>5, IndexIs
<1>7. Shifted(v, 1) = Shifted(w, 1)
  BY <1>1, <1>5, <1>6, IndexIs
<1> QED
  BY <1>4, <1>5, <1>7, IndexIs

\* The table of a page is the one at its position, if there is any.
LEMMA TableOfIs ==
  ASSUME NEW pos, NEW m, NEW S, Forest(pos, m, S), NEW s \in S, NEW v \in UserPage
  PROVE  \/ /\ TableOf(m, s, v) = None
            /\ \A c \in m.heap : pos[c] # PtAt(s, v)
         \/ /\ TableOf(m, s, v) \in m.heap /\ pos[TableOf(m, s, v)] = PtAt(s, v)
            /\ TableOf(m, s, v) # None
<1>1. m.heap \subseteq PageHeap /\ s \in m.heap /\ s \in PageHeap /\ s # None /\ pos[s] = RootAt(s)
  BY StructIs DEF Forest, Memory, Placed
<1>2. PICK a, b, c : /\ a = m.tab[s][Index(v, 3)]
                     /\ b = IF a = None THEN None ELSE m.tab[a][Index(v, 2)]
                     /\ c = IF b = None THEN None ELSE m.tab[b][Index(v, 1)]
  OBVIOUS
<1>3. TableOf(m, s, v) = c
  BY <1>1, <1>2 DEF TableOf
<1>4. ASSUME NEW x \in m.heap, pos[x] = PtAt(s, v)
      PROVE  \E y \in m.heap : pos[y] = PdAt(s, v)
  BY <1>1, <1>4, WayIs, ParentIs DEF PtAt
<1>5. ASSUME NEW x \in m.heap, pos[x] = PdAt(s, v)
      PROVE  \E y \in m.heap : pos[y] = PdptAt(s, v)
  BY <1>1, <1>5, WayIs, ParentIs DEF PdAt
<1>6. \/ a = None /\ \A x \in m.heap : pos[x] # PdptAt(s, v)
      \/ a \in m.heap /\ a # None /\ pos[a] = PdptAt(s, v)
  BY <1>1, <1>2, WayIs, EntryIs DEF PdptAt
<1>7. \/ b = None /\ \A x \in m.heap : pos[x] # PdAt(s, v)
      \/ b \in m.heap /\ b # None /\ pos[b] = PdAt(s, v)
  <2>1. CASE a = None
    BY <2>1, <1>1, <1>2, <1>5, <1>6, StructIs
  <2>2. CASE a # None
    <3>1. a \in m.heap /\ pos[a] = PdptAt(s, v) /\ b = m.tab[a][Index(v, 2)]
      BY <2>2, <1>2, <1>6
    <3> QED
      BY <3>1, <1>1, WayIs, EntryIs DEF PdAt
  <2> QED
    BY <2>1, <2>2
<1>8. \/ c = None /\ \A x \in m.heap : pos[x] # PtAt(s, v)
      \/ c \in m.heap /\ c # None /\ pos[c] = PtAt(s, v)
  <2>1. CASE b = None
    BY <2>1, <1>1, <1>2, <1>4, <1>7, StructIs
  <2>2. CASE b # None
    <3>1. b \in m.heap /\ pos[b] = PdAt(s, v) /\ c = m.tab[b][Index(v, 1)]
      BY <2>2, <1>2, <1>7
    <3> QED
      BY <3>1, <1>1, WayIs, EntryIs DEF PtAt
  <2> QED
    BY <2>1, <2>2
<1> QED
  BY <1>3, <1>8

\* The number of free structures.
Room(m) == Cardinality(FreeStructs(m))

\* The free structures are finitely many.
LEMMA FreeStructsIs ==
  ASSUME NEW m
  PROVE  IsFiniteSet(FreeStructs(m)) /\ Room(m) \in Nat /\ (Room(m) > 0 => FreeStructs(m) # {})
<1>1. IsFiniteSet(PageHeap)
  BY StructIs, FS_Interval DEF PageHeap
<1>2. IsFiniteSet(FreeStructs(m))
  BY <1>1, FS_Subset DEF FreeStructs
<1>3. Room(m) \in Nat
  BY <1>2, FS_CardinalityType DEF Room
<1>4. FreeStructs(m) = {} => Room(m) = 0
  BY FS_EmptySet DEF Room
<1> QED
  BY <1>2, <1>3, <1>4

\* alloc_page_struct() returns a free structure.
LEMMA NewStructIs ==
  ASSUME NEW m, FreeStructs(m) # {}
  PROVE  NewStruct(m) \in PageHeap /\ NewStruct(m) \notin m.heap
<1>1. FreeStructs(m) \subseteq Nat
  BY StructIs DEF FreeStructs
<1>2. \E x \in FreeStructs(m) : \A y \in FreeStructs(m) : x <= y
  BY <1>1, LeastNat
<1>3. NewStruct(m) \in FreeStructs(m)
  BY <1>2 DEF NewStruct
<1> QED
  BY <1>3 DEF FreeStructs

\* An allocation leaves one structure less.
LEMMA RoomAfter ==
  ASSUME NEW m, NEW m2, NEW N \in PageHeap, N \notin m.heap, m2.heap = m.heap \cup {N}
  PROVE  Room(m2) = Room(m) - 1 /\ Room(m) \in Nat
<1>1. FreeStructs(m2) = FreeStructs(m) \ {N} /\ N \in FreeStructs(m)
  BY DEF FreeStructs
<1> QED
  BY <1>1, FreeStructsIs, FS_RemoveElement DEF Room

(***************************************************************************)
(* The step from one memory to another that adds empty tables only.        *)
(***************************************************************************)
Extends(pos, m, pos2, m2) ==
  /\ m2.bitmap = m.bitmap /\ m2.data = m.data
  /\ m.heap \subseteq m2.heap
  /\ \A t \in m.heap : pos2[t] = pos[t]
  /\ \A t \in m.heap : pos[t].lev = 0 => m2.tab[t] = m.tab[t]
  /\ \A t \in m2.heap \ m.heap : pos2[t].lev = 0 => m2.tab[t] = EmptyTable
  /\ m2.tab[WindowTable] = m.tab[WindowTable]

\* Additions add up.
LEMMA ExtendsTransitive ==
  ASSUME NEW pos, NEW m, NEW pos2, NEW m2, NEW pos3, NEW m3,
         Extends(pos, m, pos2, m2), Extends(pos2, m2, pos3, m3)
  PROVE  Extends(pos, m, pos3, m3)
<1>1. \A t \in m.heap : t \in m2.heap /\ pos3[t] = pos[t]
  BY DEF Extends
<1>2. \A t \in m.heap : pos[t].lev = 0 => m3.tab[t] = m.tab[t]
  BY DEF Extends
<1>3. \A t \in m3.heap \ m.heap : pos3[t].lev = 0 => m3.tab[t] = EmptyTable
  BY DEF Extends
<1> QED
  BY <1>1, <1>2, <1>3 DEF Extends

\* The memory with a new table below t, and with another entry of a page table.
WithChild(m, t, i) == [alloc_page_struct(m) EXCEPT !.tab[t][i] = NewStruct(m)]

WithEntry(m, t, i, p) == [m EXCEPT !.tab[t][i] = p]

WithPosition(pos, t, q) == [pos EXCEPT ![t] = q]

\* The memory after a table was allocated below another one.
LEMMA AllocIs ==
  ASSUME NEW m \in Memory, NEW t \in PageHeap, NEW i \in Slot, NEW N \in PageHeap, N # t,
         N = NewStruct(m)
  PROVE  LET m2 == WithChild(m, t, i)
         IN  /\ m2 \in Memory
             /\ m2.bitmap = m.bitmap /\ m2.data = m.data /\ m2.heap = m.heap \cup {N}
             /\ m2.tab[N] = EmptyTable
             /\ m2.tab[t] = [m.tab[t] EXCEPT ![i] = N]
             /\ \A u \in Struct \ {N, t} : m2.tab[u] = m.tab[u]
<1>1. PICK m1 : m1 = alloc_page_struct(m)
  OBVIOUS
<1>2. PICK m2 : m2 = [m1 EXCEPT !.tab[t][i] = N]
  OBVIOUS
<1>3. EmptyTable \in [Slot -> {None} \cup Struct \cup Page]
  BY DEF EmptyTable, Slot
<1>4. /\ m1 \in Memory
      /\ m1.bitmap = m.bitmap /\ m1.data = m.data /\ m1.heap = m.heap \cup {N}
      /\ m1.tab = [m.tab EXCEPT ![N] = EmptyTable]
  BY <1>1, <1>3, StructIs DEF alloc_page_struct, Memory
<1>5. N \in Struct /\ t \in Struct
  BY StructIs
<1>6. m1.tab[N] = EmptyTable /\ \A u \in Struct \ {N} : m1.tab[u] = m.tab[u]
  BY <1>4, <1>5 DEF Memory
<1>7. /\ m2 \in Memory
      /\ m2.bitmap = m.bitmap /\ m2.data = m.data /\ m2.heap = m.heap \cup {N}
      /\ m2.tab = [m1.tab EXCEPT ![t][i] = N]
  BY <1>2, <1>4, <1>5 DEF Memory
<1>8. m2.tab[t] = [m1.tab[t] EXCEPT ![i] = N] /\ \A u \in Struct \ {t} : m2.tab[u] = m1.tab[u]
  BY <1>4, <1>5, <1>7 DEF Memory
<1> QED
  BY <1>1, <1>2, <1>5, <1>6, <1>7, <1>8 DEF WithChild

\* A new table below another one.
LEMMA AllocChild ==
  ASSUME NEW pos, NEW m, NEW S, Forest(pos, m, S), NEW t \in m.heap, NEW i,
         HasChild(pos[t], i), m.tab[t][i] = None, NEW N, N = NewStruct(m), Room(m) > 0,
         NEW m2, m2 = WithChild(m, t, i),
         NEW pos2, pos2 = WithPosition(pos, N, Child(pos[t], i))
  PROVE  /\ Forest(pos2, m2, S) /\ Extends(pos, m, pos2, m2) /\ Room(m2) = Room(m) - 1
         /\ N \in m2.heap /\ pos2[N] = Child(pos[t], i)
<1>1. /\ m \in Memory /\ m.heap \subseteq PageHeap /\ pos \in [PageHeap -> Position]
      /\ N \in PageHeap /\ N \notin m.heap /\ t \in PageHeap /\ N # t /\ i \in Slot
      /\ pos[t] \in Position
  BY FreeStructsIs, NewStructIs DEF Forest, Memory, Placed, HasChild
<1>2. /\ m2 \in Memory
      /\ m2.bitmap = m.bitmap /\ m2.data = m.data /\ m2.heap = m.heap \cup {N}
      /\ m2.tab[N] = EmptyTable
      /\ m2.tab[t] = [m.tab[t] EXCEPT ![i] = N]
      /\ \A u \in Struct \ {N, t} : m2.tab[u] = m.tab[u]
  BY <1>1, AllocIs
<1>3. /\ Child(pos[t], i) \in Position /\ Child(pos[t], i).lev = pos[t].lev - 1
      /\ pos[t].lev \in 0 .. 3 /\ pos[t].lev > 0
  BY <1>1, ChildIs DEF HasChild
<1>4. /\ pos2 \in [PageHeap -> Position] /\ pos2[N] = Child(pos[t], i)
      /\ \A u \in m.heap : pos2[u] = pos[u]
  BY <1>1, <1>3 DEF WithPosition
<1>5. \A c \in m.heap : pos[c] # Child(pos[t], i)
  BY EntryIs
<1>6. \A s \in S : s \in m.heap
  BY DEF Forest, Placed
<1>7. m.tab[t] \in [Slot -> {None} \cup Struct \cup Page] /\ t \in Struct /\ N \in Struct
  BY <1>1, StructIs DEF Memory
<1>8. m2.tab[t][i] = N /\ \A j \in Slot \ {i} : m2.tab[t][j] = m.tab[t][j]
  BY <1>1, <1>2, <1>7
<1>9. \A j \in Slot : m2.tab[N][j] = None
  BY <1>2 DEF EmptyTable, Slot
<1>10. \A u \in m.heap \ {t} : m2.tab[u] = m.tab[u]
  BY <1>1, <1>2, StructIs
<1>11. Placed(pos2, m2, S)
  <2>1. S \subseteq m2.heap
    BY <1>2, <1>6
  <2>2. \A u \in m2.heap : pos2[u].lev = 3 <=> u \in S
    <3>1. pos2[N].lev # 3 /\ N \notin S
      BY <1>1, <1>3, <1>4, <1>6
    <3>2. \A u \in m.heap : pos2[u].lev = 3 <=> u \in S
      BY <1>4 DEF Forest, Placed
    <3> QED
      BY <1>2, <3>1, <3>2
  <2>3. \A s \in S : pos2[s] = RootAt(s) /\ m2.tab[s][Width - 1] = KPDPT
    <3> SUFFICES ASSUME NEW s \in S PROVE pos2[s] = RootAt(s) /\ m2.tab[s][Width - 1] = KPDPT
      OBVIOUS
    <3>1. pos[s] = RootAt(s) /\ m.tab[s][Width - 1] = KPDPT /\ pos[s].lev = 3
      BY <1>6 DEF Forest, Placed
    <3>2. s # t => m2.tab[s] = m.tab[s]
      BY <1>6, <1>10
    <3>3. s = t => i # Width - 1
      BY <3>1 DEF HasChild
    <3>4. Width - 1 \in Slot
      BY WidthIs DEF Slot
    <3> QED
      BY <1>4, <1>6, <1>8, <3>1, <3>2, <3>3, <3>4
  <2>4. \A u, w \in m2.heap : pos2[u] = pos2[w] => u = w
    <3>1. \A u, w \in m.heap : pos2[u] = pos2[w] => u = w
      BY <1>4 DEF Forest, Placed
    <3>2. \A u \in m.heap : pos2[u] # pos2[N]
      BY <1>4, <1>5
    <3> QED
      BY <1>2, <3>1, <3>2
  <2> QED
    BY <1>4, <2>1, <2>2, <2>3, <2>4 DEF Placed
<1>12. EntriesOK(pos2, m2)
  <2> SUFFICES ASSUME NEW u \in m2.heap, NEW j \in Slot
               PROVE  /\ HasChild(pos2[u], j) =>
                           \/ m2.tab[u][j] = None
                           \/ m2.tab[u][j] \in m2.heap /\ pos2[m2.tab[u][j]] = Child(pos2[u], j)
                      /\ pos2[u].lev = 0 => m2.tab[u][j] \in {None} \cup Page
    BY DEF EntriesOK
  <2>1. CASE u = N
    BY <2>1, <1>9
  <2>2. CASE u = t /\ j = i
    BY <2>2, <1>2, <1>3, <1>4, <1>8
  <2>3. CASE u # N /\ ~(u = t /\ j = i)
    <3>1. u \in m.heap /\ m2.tab[u][j] = m.tab[u][j] /\ pos2[u] = pos[u]
      BY <2>3, <1>2, <1>4, <1>8, <1>10
    <3>2. /\ HasChild(pos[u], j) => \/ m.tab[u][j] = None
                                    \/ m.tab[u][j] \in m.heap /\ pos[m.tab[u][j]] = Child(pos[u], j)
          /\ pos[u].lev = 0 => m.tab[u][j] \in {None} \cup Page
      BY <3>1 DEF Forest, EntriesOK
    <3> QED
      BY <3>1, <3>2, <1>2, <1>4
  <2> QED
    BY <2>1, <2>2, <2>3
<1>13. Linked(pos2, m2, S)
  <2> SUFFICES ASSUME NEW c \in m2.heap \ S
               PROVE  \E u \in m2.heap : \E j \in Slot : HasChild(pos2[u], j) /\ m2.tab[u][j] = c
    BY DEF Linked
  <2>1. CASE c = N
    BY <2>1, <1>1, <1>2, <1>4, <1>8
  <2>2. CASE c # N
    <3>1. c \in m.heap
      BY <2>2, <1>2
    <3>2. PICK u \in m.heap, j \in Slot : HasChild(pos[u], j) /\ m.tab[u][j] = c
      BY <3>1 DEF Forest, Linked
    <3>3. ~(u = t /\ j = i)
      BY <3>1, <3>2, <1>1, StructIs
    <3>4. m2.tab[u][j] = c /\ pos2[u] = pos[u] /\ u \in m2.heap
      BY <3>2, <3>3, <1>2, <1>4, <1>8, <1>10
    <3> QED
      BY <3>2, <3>4
  <2> QED
    BY <2>1, <2>2
<1>14. m2.tab[KPDPT] = m.tab[KPDPT] /\ m2.tab[KPD] = m.tab[KPD]
       /\ m2.tab[WindowTable] = m.tab[WindowTable]
  BY <1>1, <1>2, StructIs
<1>15. KernelTables(m2)
  BY <1>14 DEF Forest, KernelTables
<1>16. Extends(pos, m, pos2, m2)
  <2>1. \A u \in m.heap : pos[u].lev = 0 => m2.tab[u] = m.tab[u]
    BY <1>3, <1>10
  <2>2. \A u \in m2.heap \ m.heap : m2.tab[u] = EmptyTable
    BY <1>2
  <2> QED
    BY <1>2, <1>4, <1>14, <2>1, <2>2 DEF Extends
<1>17. Room(m2) = Room(m) - 1
  BY <1>1, <1>2, RoomAfter
<1> QED
  BY <1>2, <1>4, <1>11, <1>12, <1>13, <1>15, <1>16, <1>17 DEF Forest

\* A walk from (pos, m) has got to a table at a position, using up at most n
\* structures.
Arrives(place, pos, m, S, n, q, pos2, m2, c) ==
  /\ place = [mem |-> m2, at |-> c]
  /\ Forest(pos2, m2, S) /\ Extends(pos, m, pos2, m2)
  /\ c \in m2.heap /\ pos2[c] = q
  /\ Room(m2) \in Nat /\ Room(m2) >= Room(m) - n

\* From a table to the one below it.
LEMMA DownIs ==
  ASSUME NEW pos, NEW m, NEW S, Forest(pos, m, S), NEW t \in m.heap, NEW i,
         HasChild(pos[t], i), Room(m) > 0
  PROVE  \E pos2, m2, c :
           Arrives(Down([mem |-> m, at |-> t], i), pos, m, S, 1, Child(pos[t], i), pos2, m2, c)
<1>0. Room(m) \in Nat
  BY FreeStructsIs
<1>1. CASE m.tab[t][i] # None
  <2>1. Down([mem |-> m, at |-> t], i) = [mem |-> m, at |-> m.tab[t][i]]
    BY <1>1 DEF Down
  <2>2. m.tab[t][i] \in m.heap /\ pos[m.tab[t][i]] = Child(pos[t], i)
    BY <1>1, EntryIs
  <2>3. Extends(pos, m, pos, m)
    BY DEF Extends
  <2> QED
    BY <1>0, <2>1, <2>2, <2>3 DEF Arrives
<1>2. CASE m.tab[t][i] = None
  <2>1. PICK m2 : m2 = WithChild(m, t, i)
    OBVIOUS
  <2>2. PICK N : N = NewStruct(m)
    OBVIOUS
  <2>3. PICK pos2 : pos2 = WithPosition(pos, N, Child(pos[t], i))
    OBVIOUS
  <2>4. Down([mem |-> m, at |-> t], i) = [mem |-> m2, at |-> N]
    BY <1>2, <2>1, <2>2 DEF Down, WithChild
  <2>5. /\ Forest(pos2, m2, S) /\ Extends(pos, m, pos2, m2) /\ Room(m2) = Room(m) - 1
        /\ N \in m2.heap /\ pos2[N] = Child(pos[t], i)
    BY <1>2, <2>1, <2>2, <2>3, AllocChild
  <2>6. Room(m2) \in Nat
    BY FreeStructsIs
  <2> QED
    BY <1>0, <2>4, <2>5, <2>6 DEF Arrives
<1> QED
  BY <1>1, <1>2

\* The way down to the page table of a page: all missing tables are added.
LEMMA WalkIs ==
  ASSUME NEW pos, NEW m, NEW S, Forest(pos, m, S), NEW s \in S, NEW v \in UserPage, Room(m) >= 3
  PROVE  \E pos2, m2, c : Arrives(Walk(m, s, v), pos, m, S, 3, PtAt(s, v), pos2, m2, c)
<1>1. s \in m.heap /\ pos[s] = RootAt(s) /\ s \in PageHeap /\ Room(m) \in Nat
  BY FreeStructsIs DEF Forest, Memory, Placed
<1>2. PICK p1, m1, a :
        Arrives(Down([mem |-> m, at |-> s], Index(v, 3)), pos, m, S, 1, PdptAt(s, v), p1, m1, a)
  <2>1. HasChild(pos[s], Index(v, 3)) /\ Room(m) > 0 /\ PdptAt(s, v) = Child(pos[s], Index(v, 3))
    BY <1>1, WayIs DEF PdptAt
  <2> QED
    BY <1>1, <2>1, DownIs
<1>3. PICK p2, m2, b :
        Arrives(Down([mem |-> m1, at |-> a], Index(v, 2)), p1, m1, S, 1, PdAt(s, v), p2, m2, b)
  <2>1. /\ HasChild(p1[a], Index(v, 2)) /\ Room(m1) > 0 /\ PdAt(s, v) = Child(p1[a], Index(v, 2))
        /\ a \in m1.heap /\ Forest(p1, m1, S)
    BY <1>1, <1>2, WayIs DEF PdAt, Arrives
  <2> QED
    BY <2>1, DownIs
<1>4. PICK p3, m3, c :
        Arrives(Down([mem |-> m2, at |-> b], Index(v, 1)), p2, m2, S, 1, PtAt(s, v), p3, m3, c)
  <2>1. /\ HasChild(p2[b], Index(v, 1)) /\ PtAt(s, v) = Child(p2[b], Index(v, 1))
        /\ b \in m2.heap /\ Forest(p2, m2, S)
    BY <1>1, <1>3, WayIs DEF PtAt, Arrives
  <2>2. Room(m2) > 0
    BY <1>1, <1>2, <1>3 DEF Arrives
  <2> QED
    BY <2>1, <2>2, DownIs
<1>5. Walk(m, s, v) = [mem |-> m3, at |-> c]
  BY <1>2, <1>3, <1>4 DEF Walk, Arrives
<1>6. Extends(pos, m, p3, m3)
  BY <1>2, <1>3, <1>4, ExtendsTransitive DEF Arrives
<1>7. Room(m3) \in Nat /\ Room(m3) >= Room(m) - 3
  BY <1>1, <1>2, <1>3, <1>4 DEF Arrives
<1> QED
  BY <1>4, <1>5, <1>6, <1>7 DEF Arrives

\* The way down to an address of the window is there already.
LEMMA WindowWay ==
  ASSUME NEW m, NEW s, KernelTables(m), m.tab[s][Width - 1] = KPDPT, s # None, NEW j \in Slot
  PROVE  /\ Walk(m, s, Window + j) = [mem |-> m, at |-> WindowTable]
         /\ TableOf(m, s, Window + j) = WindowTable
<1>1. Width - 2 \in Slot /\ 1 \in Slot
  BY WidthIs DEF Slot
<1>2. m.tab[KPDPT][Width - 2] = KPD /\ m.tab[KPD][1] = WindowTable
  BY <1>1 DEF KernelTables, EmptyTable, Slot
<1>3. KPDPT # None /\ KPD # None /\ WindowTable # None
  BY StructIs
<1>4. Down([mem |-> m, at |-> s], Width - 1) = [mem |-> m, at |-> KPDPT]
  BY <1>3 DEF Down
<1>5. Down([mem |-> m, at |-> KPDPT], Width - 2) = [mem |-> m, at |-> KPD]
  BY <1>2, <1>3 DEF Down
<1>6. Down([mem |-> m, at |-> KPD], 1) = [mem |-> m, at |-> WindowTable]
  BY <1>2, <1>3 DEF Down
<1>7. Index(Window + j, 1) = 1 /\ Index(Window + j, 2) = Width - 2 /\ Index(Window + j, 3) = Width - 1
  BY WindowIs
<1>8. Walk(m, s, Window + j) = [mem |-> m, at |-> WindowTable]
  BY <1>4, <1>5, <1>6, <1>7 DEF Walk
<1>9. TableOf(m, s, Window + j) = WindowTable
  BY <1>2, <1>3, <1>7 DEF TableOf
<1> QED
  BY <1>8, <1>9

-----------------------------------------------------------------------------
\* What a space maps, below the kernel's part.
IsForest(m, S) == \E pos : Forest(pos, m, S)

SameEntries(m, m2, S) ==
  \A s \in S, v \in UserPage : get_page_entry(m2, s, v) = get_page_entry(m, s, v)

\* Additions of tables change no entry of a page.
LEMMA ExtendsEntries ==
  ASSUME NEW pos, NEW m, NEW pos2, NEW m2, NEW S, Forest(pos, m, S), Forest(pos2, m2, S),
         Extends(pos, m, pos2, m2)
  PROVE  SameEntries(m, m2, S)
<1> SUFFICES ASSUME NEW s \in S, NEW v \in UserPage
             PROVE  get_page_entry(m2, s, v) = get_page_entry(m, s, v)
  BY DEF SameEntries
<1>1. PICK t, u : t = TableOf(m, s, v) /\ u = TableOf(m2, s, v)
  OBVIOUS
<1>2. /\ get_page_entry(m, s, v) = IF t = None THEN None ELSE m.tab[t][v % Width]
      /\ get_page_entry(m2, s, v) = IF u = None THEN None ELSE m2.tab[u][v % Width]
  BY <1>1 DEF get_page_entry
<1>3. \/ t = None /\ \A c \in m.heap : pos[c] # PtAt(s, v)
      \/ t \in m.heap /\ pos[t] = PtAt(s, v) /\ t # None
  BY <1>1, TableOfIs
<1>4. \/ u = None /\ \A c \in m2.heap : pos2[c] # PtAt(s, v)
      \/ u \in m2.heap /\ pos2[u] = PtAt(s, v) /\ u # None
  BY <1>1, TableOfIs
<1>5. PtAt(s, v).lev = 0 /\ v % Width \in Slot
  <2>1. s \in PageHeap
    BY DEF Forest, Placed, Memory
  <2> QED
    BY <2>1, WayIs, IndexIs
<1>6. CASE t = None
  <2>1. u # None => u \in m2.heap \ m.heap
    BY <1>3, <1>4, <1>6 DEF Extends
  <2>2. ASSUME u # None PROVE m2.tab[u][v % Width] = None
    <3>1. u \in m2.heap \ m.heap /\ pos2[u].lev = 0
      BY <1>4, <1>5, <2>1, <2>2
    <3>2. m2.tab[u] = EmptyTable
      BY <3>1 DEF Extends
    <3> QED
      BY <1>5, <3>2 DEF EmptyTable, Slot
  <2> QED
    BY <1>2, <1>6, <2>2
<1>7. CASE t # None
  <2>1. t \in m2.heap /\ pos2[t] = PtAt(s, v) /\ m2.tab[t] = m.tab[t]
    BY <1>3, <1>5, <1>7 DEF Extends
  <2>2. u = t
    BY <1>4, <2>1 DEF Forest, Placed
  <2> QED
    BY <1>2, <1>7, <2>1, <2>2
<1> QED
  BY <1>6, <1>7

\* An entry of a page table is set.
LEMMA SetIs ==
  ASSUME NEW m \in Memory, NEW t \in Struct, NEW i \in Slot,
         NEW p \in {None} \cup Struct \cup Page, NEW m2, m2 = WithEntry(m, t, i, p)
  PROVE  /\ m2 \in Memory
         /\ m2.bitmap = m.bitmap /\ m2.data = m.data /\ m2.heap = m.heap
         /\ m2.tab[t][i] = p /\ \A j \in Slot \ {i} : m2.tab[t][j] = m.tab[t][j]
         /\ \A u \in Struct \ {t} : m2.tab[u] = m.tab[u]
<1>1. /\ m2 \in Memory
      /\ m2.bitmap = m.bitmap /\ m2.data = m.data /\ m2.heap = m.heap
      /\ m2.tab = [m.tab EXCEPT ![t][i] = p]
  BY DEF Memory, WithEntry
<1>2. m2.tab[t] = [m.tab[t] EXCEPT ![i] = p] /\ \A u \in Struct \ {t} : m2.tab[u] = m.tab[u]
  BY <1>1 DEF Memory
<1>3. m.tab[t] \in [Slot -> {None} \cup Struct \cup Page]
  BY DEF Memory
<1> QED
  BY <1>1, <1>2, <1>3

\* An entry of a page table is one page of one space.
LEMMA SetEntry ==
  ASSUME NEW pos, NEW m, NEW S, Forest(pos, m, S), NEW s \in S, NEW v \in UserPage,
         NEW t \in m.heap, pos[t] = PtAt(s, v), NEW p \in {None} \cup Page,
         NEW m2, m2 = WithEntry(m, t, v % Width, p)
  PROVE  /\ Forest(pos, m2, S)
         /\ m2.bitmap = m.bitmap /\ m2.data = m.data /\ m2.heap = m.heap
         /\ m2.tab[WindowTable] = m.tab[WindowTable]
         /\ get_page_entry(m2, s, v) = p
         /\ \A r \in S, w \in UserPage :
              ~(r = s /\ w = v) => get_page_entry(m2, r, w) = get_page_entry(m, r, w)
<1>1. /\ m \in Memory /\ m.heap \subseteq PageHeap /\ t \in PageHeap /\ t \in Struct
      /\ v % Width \in Slot /\ s \in PageHeap /\ S \subseteq PageHeap
      /\ p \in {None} \cup Struct \cup Page
  BY StructIs, WayIs, IndexIs DEF Forest, Memory, Placed
<1>2. /\ m2 \in Memory
      /\ m2.bitmap = m.bitmap /\ m2.data = m.data /\ m2.heap = m.heap
      /\ m2.tab[t][v % Width] = p /\ \A j \in Slot \ {v % Width} : m2.tab[t][j] = m.tab[t][j]
      /\ \A u \in Struct \ {t} : m2.tab[u] = m.tab[u]
  BY <1>1, SetIs
<1>3. pos[t].lev = 0 /\ t \notin S
  BY <1>1, WayIs DEF Forest, Placed
<1>4. \A u \in m.heap : pos[u].lev # 0 => m2.tab[u] = m.tab[u]
  BY <1>1, <1>2, <1>3, StructIs
<1>5. Placed(pos, m2, S)
  <2>1. \A r \in S : m2.tab[r] = m.tab[r]
    BY <1>1, <1>2, <1>3, StructIs
  <2> QED
    BY <1>2, <2>1 DEF Forest, Placed
<1>6. EntriesOK(pos, m2)
  <2> SUFFICES ASSUME NEW u \in m2.heap, NEW j \in Slot
               PROVE  /\ HasChild(pos[u], j) =>
                           \/ m2.tab[u][j] = None
                           \/ m2.tab[u][j] \in m2.heap /\ pos[m2.tab[u][j]] = Child(pos[u], j)
                      /\ pos[u].lev = 0 => m2.tab[u][j] \in {None} \cup Page
    BY DEF EntriesOK
  <2>1. /\ HasChild(pos[u], j) => \/ m.tab[u][j] = None
                                  \/ m.tab[u][j] \in m.heap /\ pos[m.tab[u][j]] = Child(pos[u], j)
        /\ pos[u].lev = 0 => m.tab[u][j] \in {None} \cup Page
    BY <1>2 DEF Forest, EntriesOK
  <2>2. HasChild(pos[u], j) => m2.tab[u][j] = m.tab[u][j]
    BY <1>2, <1>4 DEF HasChild
  <2>3. m2.tab[u][j] = m.tab[u][j] \/ m2.tab[u][j] = p
    BY <1>1, <1>2, StructIs
  <2> QED
    BY <1>2, <2>1, <2>2, <2>3
<1>7. Linked(pos, m2, S)
  <2>1. \A u \in m.heap, j \in Slot : HasChild(pos[u], j) => m2.tab[u][j] = m.tab[u][j]
    BY <1>4 DEF HasChild
  <2> QED
    BY <1>2, <2>1 DEF Forest, Linked
<1>8. m2.tab[KPDPT] = m.tab[KPDPT] /\ m2.tab[KPD] = m.tab[KPD]
      /\ m2.tab[WindowTable] = m.tab[WindowTable]
  BY <1>1, <1>2, StructIs
<1>9. KernelTables(m2)
  BY <1>8 DEF Forest, KernelTables
<1>10. Forest(pos, m2, S)
  BY <1>2, <1>5, <1>6, <1>7, <1>9 DEF Forest
<1>11. ASSUME NEW r \in S, NEW w \in UserPage
       PROVE  /\ TableOf(m2, r, w) = TableOf(m, r, w)
              /\ TableOf(m, r, w) = None \/ TableOf(m, r, w) \in m.heap
  <2>1. PICK a, b : a = TableOf(m, r, w) /\ b = TableOf(m2, r, w)
    OBVIOUS
  <2>2. \/ a = None /\ \A c \in m.heap : pos[c] # PtAt(r, w)
        \/ a \in m.heap /\ pos[a] = PtAt(r, w)
    BY <2>1, TableOfIs
  <2>3. \/ b = None /\ \A c \in m.heap : pos[c] # PtAt(r, w)
        \/ b \in m.heap /\ pos[b] = PtAt(r, w)
    BY <1>2, <1>10, <2>1, TableOfIs
  <2>4. a = b
    BY <2>2, <2>3 DEF Forest, Placed
  <2> QED
    BY <2>1, <2>2, <2>4
<1>12. TableOf(m, s, v) = t
  BY TableOfIs DEF Forest, Placed
<1>13. get_page_entry(m2, s, v) = p
  <2>1. t # None
    BY <1>1, StructIs
  <2> QED
    BY <1>2, <1>11, <1>12, <2>1 DEF get_page_entry
<1>14. ASSUME NEW r \in S, NEW w \in UserPage, ~(r = s /\ w = v)
       PROVE  get_page_entry(m2, r, w) = get_page_entry(m, r, w)
  <2>1. CASE TableOf(m, r, w) = t
    <3>1. pos[t] = PtAt(r, w)
      BY <1>1, <2>1, TableOfIs, StructIs
    <3>2. w % Width # v % Width
      <4>1. PtAt(r, w) = PtAt(s, v) /\ r \in PageHeap
        BY <1>1, <3>1
      <4>2. r = s /\ (w % Width = v % Width => w = v)
        BY <1>1, <4>1, PtInjective
      <4> QED
        BY <1>14, <4>2
    <3>3. w % Width \in Slot
      BY <1>1, WayIs, IndexIs
    <3> QED
      BY <1>2, <1>11, <2>1, <3>2, <3>3 DEF get_page_entry
  <2>2. CASE TableOf(m, r, w) # t
    BY <1>1, <1>2, <1>11, <2>2, StructIs DEF get_page_entry
  <2> QED
    BY <2>1, <2>2
<1> QED
  BY <1>2, <1>8, <1>10, <1>13, <1>14

\* The turn of the loop of map_memory(), and the equation of the loop.
MapTurn(last, pp, vp, n, s) ==
  LET v == vp + n - 1
      place == IF v % Width = 0 THEN Walk(last.mem, s, v) ELSE last
  IN  [place EXCEPT !.mem.tab[place.at][v % Width] = pp + n - 1]

IsMap(f, m, pp, vp, amount, s) ==
  f = [n \in 0 .. amount |-> IF n = 0 THEN Walk(m, s, vp) ELSE MapTurn(f[n - 1], pp, vp, n, s)]

\* The equation of map_memory() has a solution.
LEMMA MapExists ==
  ASSUME NEW m, NEW pp, NEW vp, NEW s, NEW amount \in Nat
  PROVE  \E f : IsMap(f, m, pp, vp, amount, s)
<1> DEFINE T == {N \in Nat : ~ \E f : IsMap(f, m, pp, vp, N, s)}
<1>1. ASSUME T # {} PROVE FALSE
  <2>1. PICK N \in T : \A y \in T : N <= y
    BY <1>1, LeastNat
  <2>2. N \in Nat /\ ~ \E f : IsMap(f, m, pp, vp, N, s)
    BY <2>1
  <2>3. CASE N = 0
    <3>1. PICK f : f = [n \in 0 .. N |-> Walk(m, s, vp)]
      OBVIOUS
    <3>2. IsMap(f, m, pp, vp, N, s)
      BY <2>3, <3>1 DEF IsMap
    <3> QED
      BY <2>2, <3>2
  <2>4. CASE N # 0
    <3>1. N - 1 \in Nat /\ N - 1 \notin T
      BY <2>1, <2>2, <2>4
    <3>2. PICK g : IsMap(g, m, pp, vp, N - 1, s)
      BY <3>1
    <3>3. PICK f : f = [n \in 0 .. N |-> IF n = N THEN MapTurn(g[N - 1], pp, vp, N, s) ELSE g[n]]
      OBVIOUS
    <3>4. ASSUME NEW n \in 0 .. N
          PROVE  f[n] = IF n = 0 THEN Walk(m, s, vp) ELSE MapTurn(f[n - 1], pp, vp, n, s)
      <4>1. n = N => n # 0 /\ f[n - 1] = g[N - 1]
        BY <2>2, <2>4, <3>3
      <4>2. n # N => n \in 0 .. N - 1 /\ f[n] = g[n]
        BY <2>2, <3>3
      <4>3. n # N /\ n # 0 => f[n - 1] = g[n - 1]
        BY <2>2, <3>3
      <4>4. n # N => g[n] = IF n = 0 THEN Walk(m, s, vp) ELSE MapTurn(g[n - 1], pp, vp, n, s)
        BY <3>2, <4>2 DEF IsMap
      <4> QED
        BY <3>3, <4>1, <4>2, <4>3, <4>4
    <3>5. f = [n \in 0 .. N |-> f[n]]
      BY <3>3
    <3>6. IsMap(f, m, pp, vp, N, s)
      BY <3>4, <3>5 DEF IsMap
    <3> QED
      BY <2>2, <3>6
  <2> QED
    BY <2>3, <2>4
<1> QED
  BY <1>1

\* map_memory() is the last of its turns.
LEMMA MapIs ==
  ASSUME NEW m, NEW pp, NEW vp, NEW s, NEW amount \in Nat
  PROVE  \E f : /\ f[0] = Walk(m, s, vp)
                /\ \A n \in 1 .. amount : f[n] = MapTurn(f[n - 1], pp, vp, n, s)
                /\ map_memory(m, pp, vp, amount, s) = f[amount].mem
<1>1. PICK f : f = CHOOSE g : IsMap(g, m, pp, vp, amount, s)
  OBVIOUS
<1>2. IsMap(f, m, pp, vp, amount, s)
  BY <1>1, MapExists
<1>3. map_memory(m, pp, vp, amount, s) = f[amount].mem
  BY <1>1 DEF map_memory, IsMap, MapTurn
<1>4. f[0] = Walk(m, s, vp)
  BY <1>2 DEF IsMap
<1>5. \A n \in 1 .. amount : f[n] = MapTurn(f[n - 1], pp, vp, n, s)
  BY <1>2 DEF IsMap
<1> QED
  BY <1>3, <1>4, <1>5

SetPlace(place, i, p) == [place EXCEPT !.mem.tab[place.at][i] = p]

\* A turn at a place sets the entry.
LEMMA SetAtPlace ==
  ASSUME NEW m, NEW t, NEW i, NEW p, NEW place, place = [mem |-> m, at |-> t]
  PROVE  SetPlace(place, i, p) = [mem |-> WithEntry(m, t, i, p), at |-> t]
<1>1. [place EXCEPT !.mem.tab[place.at][i] = p] = [place EXCEPT !.mem.tab[t][i] = p]
  OBVIOUS
<1>2. [[mem |-> m, at |-> t] EXCEPT !.mem.tab[t][i] = p]
        = [mem |-> [m EXCEPT !.tab[t][i] = p], at |-> t]
  OBVIOUS
<1> QED
  BY <1>1, <1>2 DEF WithEntry, SetPlace

\* A turn writes one entry of the table it has reached.
LEMMA MapTurnIs ==
  ASSUME NEW last, NEW pp, NEW vp, NEW n, NEW s, NEW v, v = vp + n - 1, NEW m, NEW t,
         [mem |-> m, at |-> t] = IF v % Width = 0 THEN Walk(last.mem, s, v) ELSE last
  PROVE  MapTurn(last, pp, vp, n, s) = [mem |-> WithEntry(m, t, v % Width, pp + n - 1), at |-> t]
<1>1. PICK place : place = IF v % Width = 0 THEN Walk(last.mem, s, v) ELSE last
  OBVIOUS
<1>2. MapTurn(last, pp, vp, n, s) = SetPlace(place, v % Width, pp + n - 1)
  BY <1>1 DEF MapTurn, SetPlace
<1>3. place = [mem |-> m, at |-> t]
  BY <1>1
<1>4. SetPlace(place, v % Width, pp + n - 1) = [mem |-> WithEntry(m, t, v % Width, pp + n - 1), at |-> t]
  BY <1>3, SetAtPlace
<1> QED
  BY <1>2, <1>4

-----------------------------------------------------------------------------
\* What is mapped for a space when n pages from vp on have been mapped to the
\* pages from pp on.
Maps(m, m2, S, s, vp, n, pp) ==
  /\ m2.bitmap = m.bitmap /\ m2.data = m.data /\ m2.tab[WindowTable] = m.tab[WindowTable]
  /\ \A r \in S, w \in UserPage :
       get_page_entry(m2, r, w) =
         IF r = s /\ w \in vp .. vp + n - 1 THEN pp + (w - vp) ELSE get_page_entry(m, r, w)

MapInv(place, m, S, s, vp, n, pp, v) ==
  \E pos2, m2, c :
    /\ place = [mem |-> m2, at |-> c]
    /\ Forest(pos2, m2, S) /\ Maps(m, m2, S, s, vp, n, pp)
    /\ c \in m2.heap /\ pos2[c] = PtAt(s, v)
    /\ Room(m2) >= Room(m) - 3 * (n + 1)

\* Unless it enters the next table, the next page has the same table.
LEMMA SamePt ==
  ASSUME NEW s, NEW v \in Nat, (v + 1) % Width # 0
  PROVE  PtAt(s, v + 1) = PtAt(s, v)
  BY NextPage DEF PtAt, PdAt, PdptAt

\* Additions of tables leave alone what is mapped.
LEMMA ExtendsMaps ==
  ASSUME NEW pos, NEW m1, NEW pos2, NEW m2, NEW S, Forest(pos, m1, S), Forest(pos2, m2, S),
         Extends(pos, m1, pos2, m2), NEW m, NEW s, NEW vp, NEW n, NEW pp,
         Maps(m, m1, S, s, vp, n, pp)
  PROVE  Maps(m, m2, S, s, vp, n, pp)
<1>1. SameEntries(m1, m2, S)
  BY ExtendsEntries
<1> QED
  BY <1>1 DEF Maps, SameEntries, Extends

\* map_memory() below the kernel's part: the pages are mapped, nothing else is
\* changed, and the tables are still a forest.
LEMMA MapUser ==
  ASSUME NEW m, NEW S, IsForest(m, S), NEW s \in S, NEW vp \in UserPage, NEW amount \in Nat,
         NEW pp \in Nat, \A n \in 1 .. amount : vp + n - 1 \in UserPage /\ pp + n - 1 \in Page,
         Room(m) >= 3 * (amount + 1)
  PROVE  LET m2 == map_memory(m, pp, vp, amount, s)
         IN  /\ IsForest(m2, S) /\ Maps(m, m2, S, s, vp, amount, pp)
             /\ Room(m2) >= Room(m) - 3 * (amount + 1)
<1>1. PICK pos : Forest(pos, m, S)
  BY DEF IsForest
<1>2. PICK f : /\ f[0] = Walk(m, s, vp)
               /\ \A n \in 1 .. amount : f[n] = MapTurn(f[n - 1], pp, vp, n, s)
               /\ map_memory(m, pp, vp, amount, s) = f[amount].mem
  BY MapIs
<1>3. Room(m) \in Nat /\ vp \in Nat /\ S \subseteq PageHeap /\ s \in PageHeap
  BY <1>1, FreeStructsIs, WayIs DEF Forest, Placed, Memory, UserPage
<1> DEFINE Last(n) == IF n = 0 THEN vp ELSE vp + n - 1
<1>4. MapInv(f[0], m, S, s, vp, 0, pp, Last(0))
  <2>1. Room(m) >= 3
    BY <1>3
  <2>2. PICK pos2, m2, c : Arrives(Walk(m, s, vp), pos, m, S, 3, PtAt(s, vp), pos2, m2, c)
    BY <1>1, <2>1, WalkIs
  <2>3. SameEntries(m, m2, S)
    BY <1>1, <2>2, ExtendsEntries DEF Arrives
  <2>4. Maps(m, m2, S, s, vp, 0, pp)
    BY <1>3, <2>2, <2>3 DEF Maps, SameEntries, Arrives, Extends
  <2>5. Room(m2) >= Room(m) - 3 * (0 + 1)
    BY <1>3, <2>2 DEF Arrives
  <2> QED
    BY <1>2, <2>2, <2>4, <2>5 DEF MapInv, Arrives
<1>5. ASSUME NEW n \in 1 .. amount, MapInv(f[n - 1], m, S, s, vp, n - 1, pp, Last(n - 1))
      PROVE  MapInv(f[n], m, S, s, vp, n, pp, Last(n))
  <2>1. PICK pos1, m1, c1 :
          /\ f[n - 1] = [mem |-> m1, at |-> c1]
          /\ Forest(pos1, m1, S) /\ Maps(m, m1, S, s, vp, n - 1, pp)
          /\ c1 \in m1.heap /\ pos1[c1] = PtAt(s, Last(n - 1))
          /\ Room(m1) >= Room(m) - 3 * n
    BY <1>5 DEF MapInv
  <2>2. PICK v : v = vp + n - 1
    OBVIOUS
  <2>3. v \in UserPage /\ v \in Nat /\ v % Width \in Slot /\ pp + n - 1 \in Page
    BY <1>3, <2>2, IndexIs
  <2>4. \E pos2, m2, c :
          /\ [mem |-> m2, at |-> c] = IF v % Width = 0 THEN Walk(f[n - 1].mem, s, v) ELSE f[n - 1]
          /\ Forest(pos2, m2, S) /\ Maps(m, m2, S, s, vp, n - 1, pp)
          /\ c \in m2.heap /\ pos2[c] = PtAt(s, v)
          /\ Room(m2) >= Room(m) - 3 * (n + 1)
    <3>1. Room(m1) \in Nat
      BY FreeStructsIs
    <3>2. CASE v % Width = 0
      <4>1. Room(m1) >= 3
        BY <1>3, <2>1, <3>1
      <4>2. PICK pos2, m2, c : Arrives(Walk(m1, s, v), pos1, m1, S, 3, PtAt(s, v), pos2, m2, c)
        BY <2>1, <2>3, <4>1, WalkIs
      <4>3. Maps(m, m2, S, s, vp, n - 1, pp)
        BY <2>1, <4>2, ExtendsMaps DEF Arrives
      <4>4. Room(m2) >= Room(m) - 3 * (n + 1)
        BY <1>3, <2>1, <3>1, <4>2 DEF Arrives
      <4>5. [mem |-> m2, at |-> c] = Walk(f[n - 1].mem, s, v)
        BY <2>1, <4>2 DEF Arrives
      <4> QED
        BY <3>2, <4>2, <4>3, <4>4, <4>5 DEF Arrives
    <3>3. CASE v % Width # 0
      <4>1. PtAt(s, Last(n - 1)) = PtAt(s, v)
        <5>1. CASE n = 1
          BY <5>1, <1>3, <2>2
        <5>2. CASE n # 1
          <6>1. Last(n - 1) = vp + (n - 1) - 1 /\ Last(n - 1) \in Nat /\ v = Last(n - 1) + 1
            BY <5>2, <1>3, <2>2
          <6> HIDE DEF Last
          <6> QED
            BY <3>3, <6>1, SamePt
        <5> QED
          BY <5>1, <5>2
      <4>2. Room(m1) >= Room(m) - 3 * (n + 1)
        BY <1>3, <2>1, <3>1
      <4> QED
        BY <2>1, <3>3, <4>1, <4>2
    <3> QED
      BY <3>2, <3>3
  <2>5. PICK pos2, m2, c :
          /\ [mem |-> m2, at |-> c] = IF v % Width = 0 THEN Walk(f[n - 1].mem, s, v) ELSE f[n - 1]
          /\ Forest(pos2, m2, S) /\ Maps(m, m2, S, s, vp, n - 1, pp)
          /\ c \in m2.heap /\ pos2[c] = PtAt(s, v)
          /\ Room(m2) >= Room(m) - 3 * (n + 1)
    BY <2>4
  <2>6. PICK m3 : m3 = WithEntry(m2, c, v % Width, pp + n - 1)
    OBVIOUS
  <2>7. f[n] = [mem |-> m3, at |-> c]
    BY <1>2, <2>2, <2>5, <2>6, MapTurnIs
  <2>8. /\ Forest(pos2, m3, S)
        /\ m3.bitmap = m2.bitmap /\ m3.data = m2.data /\ m3.heap = m2.heap
        /\ m3.tab[WindowTable] = m2.tab[WindowTable]
        /\ get_page_entry(m3, s, v) = pp + n - 1
        /\ \A r \in S, w \in UserPage :
             ~(r = s /\ w = v) => get_page_entry(m3, r, w) = get_page_entry(m2, r, w)
    BY <2>3, <2>5, <2>6, SetEntry
  <2>9. Maps(m, m3, S, s, vp, n, pp)
    <3>1. ASSUME NEW r \in S, NEW w \in UserPage
          PROVE  get_page_entry(m3, r, w) =
                   IF r = s /\ w \in vp .. vp + n - 1 THEN pp + (w - vp) ELSE get_page_entry(m, r, w)
      <4>1. w \in Nat
        BY DEF UserPage
      <4>2. get_page_entry(m2, r, w) =
              IF r = s /\ w \in vp .. vp + (n - 1) - 1 THEN pp + (w - vp) ELSE get_page_entry(m, r, w)
        BY <2>5 DEF Maps
      <4>3. CASE r = s /\ w = v
        BY <4>3, <1>3, <2>2, <2>8
      <4>4. CASE ~(r = s /\ w = v)
        <5>1. (r = s /\ w \in vp .. vp + n - 1) <=> (r = s /\ w \in vp .. vp + (n - 1) - 1)
          BY <4>1, <4>4, <1>3, <2>2
        <5> QED
          BY <2>8, <4>2, <4>4, <5>1
      <4> QED
        BY <4>3, <4>4
    <3> QED
      BY <2>5, <2>8, <3>1 DEF Maps
  <2>10. Room(m3) = Room(m2)
    BY <2>8 DEF Room, FreeStructs
  <2>11. Last(n) = v
    BY <2>2
  <2> HIDE DEF Last
  <2> QED
    BY <2>5, <2>7, <2>8, <2>9, <2>10, <2>11 DEF MapInv
<1> HIDE DEF Last
<1>6. MapInv(f[amount], m, S, s, vp, amount, pp, Last(amount))
  <2> DEFINE T == {n \in Nat : n <= amount /\ ~MapInv(f[n], m, S, s, vp, n, pp, Last(n))}
  <2>1. ASSUME T # {} PROVE FALSE
    <3>1. PICK n \in T : \A y \in T : n <= y
      BY <2>1, LeastNat
    <3>2. n # 0 /\ n \in 1 .. amount /\ n - 1 \in Nat /\ n - 1 <= amount
      BY <1>4, <3>1
    <3>3. n - 1 \notin T
      BY <3>1, <3>2
    <3> QED
      BY <1>5, <3>1, <3>2, <3>3
  <2> QED
    BY <2>1
<1> QED
  BY <1>2, <1>6 DEF MapInv, IsForest

\* The step from one memory to another that changes no table but the window's.
SameBelow(m, m2) ==
  /\ m2 \in Memory /\ m2.heap = m.heap
  /\ \A u \in Struct \ {WindowTable} : m2.tab[u] = m.tab[u]
  /\ \A i \in Slot : m2.tab[WindowTable][i] \in {None} \cup Page

\* Changes of the window, the bitmap and the contents leave the spaces alone.
LEMMA SameBelowForest ==
  ASSUME NEW m, NEW m2, NEW S, IsForest(m, S), SameBelow(m, m2)
  PROVE  IsForest(m2, S) /\ SameEntries(m, m2, S) /\ Room(m2) = Room(m)
<1>1. PICK pos : Forest(pos, m, S)
  BY DEF IsForest
<1>2. m.heap \subseteq PageHeap /\ S \subseteq m.heap
  BY <1>1 DEF Forest, Memory, Placed
<1>3. \A u \in m.heap : m2.tab[u] = m.tab[u]
  BY <1>2, StructIs DEF SameBelow
<1>4. m2.tab[KPDPT] = m.tab[KPDPT] /\ m2.tab[KPD] = m.tab[KPD]
  BY StructIs DEF SameBelow
<1>5. Placed(pos, m2, S)
  BY <1>1, <1>2, <1>3 DEF Forest, Placed, SameBelow
<1>6. EntriesOK(pos, m2)
  BY <1>1, <1>3 DEF Forest, EntriesOK, SameBelow
<1>7. Linked(pos, m2, S)
  BY <1>1, <1>3 DEF Forest, Linked, SameBelow
<1>8. KernelTables(m2)
  BY <1>1, <1>4 DEF Forest, KernelTables, SameBelow
<1>9. Forest(pos, m2, S)
  BY <1>5, <1>6, <1>7, <1>8 DEF Forest, SameBelow
<1>10. SameEntries(m, m2, S)
  <2> SUFFICES ASSUME NEW s \in S, NEW v \in UserPage
               PROVE  get_page_entry(m2, s, v) = get_page_entry(m, s, v)
    BY DEF SameEntries
  <2>1. PICK a, b : a = TableOf(m, s, v) /\ b = TableOf(m2, s, v)
    OBVIOUS
  <2>2. \/ a = None /\ \A c \in m.heap : pos[c] # PtAt(s, v)
        \/ a \in m.heap /\ pos[a] = PtAt(s, v)
    BY <1>1, <2>1, TableOfIs
  <2>3. \/ b = None /\ \A c \in m.heap : pos[c] # PtAt(s, v)
        \/ b \in m.heap /\ pos[b] = PtAt(s, v)
    BY <1>9, <2>1, TableOfIs DEF SameBelow
  <2>4. a = b
    BY <1>1, <2>2, <2>3 DEF Forest, Placed
  <2> QED
    BY <1>3, <2>1, <2>2, <2>4 DEF get_page_entry
<1> QED
  BY <1>9, <1>10 DEF IsForest, SameBelow, Room, FreeStructs

\* What a forest of spaces says of the memory.
LEMMA ForestIs ==
  ASSUME NEW m, NEW S, IsForest(m, S)
  PROVE  /\ m \in Memory /\ KernelTables(m) /\ S \subseteq m.heap /\ m.heap \subseteq PageHeap
         /\ \A s \in S : m.tab[s][Width - 1] = KPDPT /\ s # None /\ s \in PageHeap
  BY StructIs DEF IsForest, Forest, Memory, Placed

\* The window with the pages from p on mapped from its start, n of them.
WindowHas(m, m2, n, p) ==
  \A j \in Slot : m2.tab[WindowTable][j] = IF j < n THEN p + j ELSE m.tab[WindowTable][j]

SameRest(m, m2) == SameBelow(m, m2) /\ m2.bitmap = m.bitmap /\ m2.data = m.data

\* map_memory() at the window.
LEMMA MapWindow ==
  ASSUME NEW m, NEW S, IsForest(m, S), NEW s \in S, NEW amount \in 0 .. Width, NEW pp \in Nat,
         \A n \in 1 .. amount : pp + n - 1 \in Page
  PROVE  LET m2 == map_memory(m, pp, Window, amount, s)
         IN  SameRest(m, m2) /\ WindowHas(m, m2, amount, pp)
<1>0. amount \in Nat /\ Width \in Nat /\ s \in PageHeap /\ s # None
  BY WidthIs, ForestIs
<1>1. PICK f : /\ f[0] = Walk(m, s, Window)
               /\ \A n \in 1 .. amount : f[n] = MapTurn(f[n - 1], pp, Window, n, s)
               /\ map_memory(m, pp, Window, amount, s) = f[amount].mem
  BY <1>0, MapIs
<1> DEFINE Inv(n) == \E m1 : f[n] = [mem |-> m1, at |-> WindowTable] /\ SameRest(m, m1)
                             /\ WindowHas(m, m1, n, pp)
<1>2. 0 \in Slot /\ Window \in Nat /\ Window + 0 = Window
  <2>1. 0 \in Slot
    BY WidthIs DEF Slot
  <2>2. PageNumber(Width - 1, Width - 2, 1, 0) \in Nat
    <3>1. 1 \in Slot /\ Width - 2 \in Slot /\ Width - 1 \in Slot
      BY WidthIs DEF Slot
    <3> QED
      BY <2>1, <3>1, PageNumberIs
  <2> QED
    BY <2>1, <2>2 DEF Window
<1>3. Inv(0)
  <2>1. f[0] = [mem |-> m, at |-> WindowTable]
    <3>1. KernelTables(m) /\ m.tab[s][Width - 1] = KPDPT
      BY ForestIs
    <3>2. Walk(m, s, Window + 0) = [mem |-> m, at |-> WindowTable]
      BY <1>0, <1>2, <3>1, WindowWay
    <3> QED
      BY <1>1, <1>2, <3>2
  <2>2. SameRest(m, m)
    BY ForestIs DEF SameRest, SameBelow, KernelTables
  <2>3. WindowHas(m, m, 0, pp)
    BY DEF WindowHas, Slot
  <2> QED
    BY <2>1, <2>2, <2>3
<1>4. ASSUME NEW n \in 1 .. amount, Inv(n - 1) PROVE Inv(n)
  <2>1. PICK m1 : f[n - 1] = [mem |-> m1, at |-> WindowTable] /\ SameRest(m, m1)
                  /\ WindowHas(m, m1, n - 1, pp)
    BY <1>4
  <2>2. PICK j : j = n - 1
    OBVIOUS
  <2>3. j \in Slot /\ j \in Nat /\ pp + n - 1 \in Page /\ pp + n - 1 = pp + j
        /\ Window + n - 1 = Window + j
    BY <1>0, <1>2, <2>2 DEF Slot
  <2>4. (Window + j) % Width = j
    BY <2>3, WindowIs
  <2>5. IsForest(m1, S)
    BY <2>1, SameBelowForest DEF SameRest
  <2>6. Walk(m1, s, Window + j) = [mem |-> m1, at |-> WindowTable]
    BY <1>0, <2>3, <2>5, ForestIs, WindowWay
  <2>7. PICK m3 : m3 = WithEntry(m1, WindowTable, j, pp + n - 1)
    OBVIOUS
  <2>8. f[n] = [mem |-> m3, at |-> WindowTable]
    <3>1. [mem |-> m1, at |-> WindowTable]
            = IF (Window + j) % Width = 0 THEN Walk(f[n - 1].mem, s, Window + j) ELSE f[n - 1]
      BY <2>1, <2>6
    <3>2. PICK v : v = Window + j
      OBVIOUS
    <3>3. MapTurn(f[n - 1], pp, Window, n, s)
            = [mem |-> WithEntry(m1, WindowTable, v % Width, pp + n - 1), at |-> WindowTable]
      BY <2>3, <3>1, <3>2, MapTurnIs
    <3> QED
      BY <1>1, <2>4, <2>7, <3>2, <3>3
  <2>9. /\ m3 \in Memory
        /\ m3.bitmap = m1.bitmap /\ m3.data = m1.data /\ m3.heap = m1.heap
        /\ m3.tab[WindowTable][j] = pp + n - 1
        /\ \A i \in Slot \ {j} : m3.tab[WindowTable][i] = m1.tab[WindowTable][i]
        /\ \A u \in Struct \ {WindowTable} : m3.tab[u] = m1.tab[u]
    <3>1. m1 \in Memory
      BY <2>1 DEF SameRest, SameBelow
    <3>2. PICK t \in Struct : t = WindowTable
      BY StructIs
    <3>3. PICK p \in {None} \cup Struct \cup Page : p = pp + n - 1
      BY <2>3
    <3>4. m3 = WithEntry(m1, t, j, p)
      BY <2>7, <3>2, <3>3
    <3>5. /\ m3 \in Memory
          /\ m3.bitmap = m1.bitmap /\ m3.data = m1.data /\ m3.heap = m1.heap
          /\ m3.tab[t][j] = p /\ \A i \in Slot \ {j} : m3.tab[t][i] = m1.tab[t][i]
          /\ \A u \in Struct \ {t} : m3.tab[u] = m1.tab[u]
      BY <2>3, <3>1, <3>4, SetIs
    <3> QED
      BY <3>2, <3>3, <3>5
  <2>10. SameRest(m, m3)
    <3>1. \A i \in Slot : m3.tab[WindowTable][i] \in {None} \cup Page
      BY <2>1, <2>3, <2>9 DEF SameRest, SameBelow
    <3> QED
      BY <2>1, <2>9, <3>1 DEF SameRest, SameBelow
  <2>11. WindowHas(m, m3, n, pp)
    <3> SUFFICES ASSUME NEW i \in Slot
                 PROVE  m3.tab[WindowTable][i] = IF i < n THEN pp + i ELSE m.tab[WindowTable][i]
      BY DEF WindowHas
    <3>1. m1.tab[WindowTable][i] = IF i < n - 1 THEN pp + i ELSE m.tab[WindowTable][i]
      BY <2>1 DEF WindowHas
    <3>2. i \in Nat
      BY DEF Slot
    <3>3. CASE i = j
      BY <3>3, <2>2, <2>3, <2>9
    <3>4. CASE i # j
      BY <3>1, <3>2, <3>4, <2>2, <2>9
    <3> QED
      BY <3>3, <3>4
  <2> QED
    BY <2>8, <2>10, <2>11
<1> HIDE DEF Inv
<1>5. Inv(amount)
  <2> DEFINE T == {n \in Nat : n <= amount /\ ~Inv(n)}
  <2>1. ASSUME T # {} PROVE FALSE
    <3>1. PICK n \in T : \A y \in T : n <= y
      BY <2>1, LeastNat
    <3>2. n # 0 /\ n \in 1 .. amount /\ n - 1 \in Nat /\ n - 1 <= amount
      BY <1>0, <1>3, <3>1
    <3>3. n - 1 \notin T
      BY <3>1, <3>2
    <3> QED
      BY <1>4, <3>1, <3>2, <3>3
  <2> QED
    BY <1>0, <2>1
<1> QED
  BY <1>1, <1>5 DEF Inv

-----------------------------------------------------------------------------
\* The turn of the loop of unmap_memory(), and the equation of the loop.
UnmapTurn(m, last, s) ==
  LET v == last.at
      pt == TableOf(m, s, v)
  IN  IF pt = None THEN last
      ELSE [mem |-> [last.mem EXCEPT !.tab[pt][v % Width] = None], at |-> v + 1]

IsUnmap(f, m, vp, amount, s) ==
  f = [n \in 0 .. amount |-> IF n = 0 THEN [mem |-> m, at |-> vp] ELSE UnmapTurn(m, f[n - 1], s)]

\* The equation of unmap_memory() has a solution.
LEMMA UnmapExists ==
  ASSUME NEW m, NEW vp, NEW s, NEW amount \in Nat
  PROVE  \E f : IsUnmap(f, m, vp, amount, s)
<1> DEFINE T == {N \in Nat : ~ \E f : IsUnmap(f, m, vp, N, s)}
<1>1. ASSUME T # {} PROVE FALSE
  <2>1. PICK N \in T : \A y \in T : N <= y
    BY <1>1, LeastNat
  <2>2. N \in Nat /\ ~ \E f : IsUnmap(f, m, vp, N, s)
    BY <2>1
  <2>3. CASE N = 0
    <3>1. PICK f : f = [n \in 0 .. N |-> [mem |-> m, at |-> vp]]
      OBVIOUS
    <3>2. IsUnmap(f, m, vp, N, s)
      BY <2>3, <3>1 DEF IsUnmap
    <3> QED
      BY <2>2, <3>2
  <2>4. CASE N # 0
    <3>1. N - 1 \in Nat /\ N - 1 \notin T
      BY <2>1, <2>2, <2>4
    <3>2. PICK g : IsUnmap(g, m, vp, N - 1, s)
      BY <3>1
    <3>3. PICK f : f = [n \in 0 .. N |-> IF n = N THEN UnmapTurn(m, g[N - 1], s) ELSE g[n]]
      OBVIOUS
    <3>4. ASSUME NEW n \in 0 .. N
          PROVE  f[n] = IF n = 0 THEN [mem |-> m, at |-> vp] ELSE UnmapTurn(m, f[n - 1], s)
      <4>1. n = N => n # 0 /\ f[n - 1] = g[N - 1]
        BY <2>2, <2>4, <3>3
      <4>2. n # N => n \in 0 .. N - 1 /\ f[n] = g[n]
        BY <2>2, <3>3
      <4>3. n # N /\ n # 0 => f[n - 1] = g[n - 1]
        BY <2>2, <3>3
      <4>4. n # N => g[n] = IF n = 0 THEN [mem |-> m, at |-> vp] ELSE UnmapTurn(m, g[n - 1], s)
        BY <3>2, <4>2 DEF IsUnmap
      <4> QED
        BY <3>3, <4>1, <4>2, <4>3, <4>4
    <3>5. f = [n \in 0 .. N |-> f[n]]
      BY <3>3
    <3>6. IsUnmap(f, m, vp, N, s)
      BY <3>4, <3>5 DEF IsUnmap
    <3> QED
      BY <2>2, <3>6
  <2> QED
    BY <2>3, <2>4
<1> QED
  BY <1>1

\* unmap_memory() is the last of its turns.
LEMMA UnmapIs ==
  ASSUME NEW m, NEW vp, NEW s, NEW amount \in Nat
  PROVE  \E f : /\ f[0] = [mem |-> m, at |-> vp]
                /\ \A n \in 1 .. amount : f[n] = UnmapTurn(m, f[n - 1], s)
                /\ unmap_memory(m, vp, amount, s) = f[amount].mem
<1>1. PICK f : f = CHOOSE g : IsUnmap(g, m, vp, amount, s)
  OBVIOUS
<1>2. IsUnmap(f, m, vp, amount, s)
  BY <1>1, UnmapExists
<1>3. unmap_memory(m, vp, amount, s) = f[amount].mem
  BY <1>1 DEF unmap_memory, IsUnmap, UnmapTurn
<1>4. f[0] = [mem |-> m, at |-> vp]
  BY <1>2 DEF IsUnmap
<1>5. \A n \in 1 .. amount : f[n] = UnmapTurn(m, f[n - 1], s)
  BY <1>2 DEF IsUnmap
<1> QED
  BY <1>3, <1>4, <1>5

\* The window with nothing mapped in its first n entries.
WindowLacks(m, m2, n) ==
  \A j \in Slot : m2.tab[WindowTable][j] = IF j < n THEN None ELSE m.tab[WindowTable][j]

\* unmap_memory() at the window.
LEMMA UnmapWindow ==
  ASSUME NEW m, NEW S, IsForest(m, S), NEW s \in S, NEW amount \in 0 .. Width
  PROVE  LET m2 == unmap_memory(m, Window, amount, s)
         IN  SameRest(m, m2) /\ WindowLacks(m, m2, amount)
<1>0. amount \in Nat /\ Width \in Nat /\ s \in PageHeap /\ s # None
  BY WidthIs, ForestIs
<1>1. PICK f : /\ f[0] = [mem |-> m, at |-> Window]
               /\ \A n \in 1 .. amount : f[n] = UnmapTurn(m, f[n - 1], s)
               /\ unmap_memory(m, Window, amount, s) = f[amount].mem
  BY <1>0, UnmapIs
<1> DEFINE Inv(n) == \E m1 : f[n] = [mem |-> m1, at |-> Window + n] /\ SameRest(m, m1)
                             /\ WindowLacks(m, m1, n)
<1>2. 0 \in Slot /\ Window \in Nat /\ Window + 0 = Window
  <2>1. 0 \in Slot
    BY WidthIs DEF Slot
  <2>2. PageNumber(Width - 1, Width - 2, 1, 0) \in Nat
    <3>1. 1 \in Slot /\ Width - 2 \in Slot /\ Width - 1 \in Slot
      BY WidthIs DEF Slot
    <3> QED
      BY <2>1, <3>1, PageNumberIs
  <2> QED
    BY <2>1, <2>2 DEF Window
<1>3. Inv(0)
  <2>1. f[0] = [mem |-> m, at |-> Window + 0]
    BY <1>1, <1>2
  <2>2. SameRest(m, m)
    BY ForestIs DEF SameRest, SameBelow, KernelTables
  <2>3. WindowLacks(m, m, 0)
    BY DEF WindowLacks, Slot
  <2> QED
    BY <2>1, <2>2, <2>3
<1>4. ASSUME NEW n \in 1 .. amount, Inv(n - 1) PROVE Inv(n)
  <2>1. PICK m1 : f[n - 1] = [mem |-> m1, at |-> Window + (n - 1)] /\ SameRest(m, m1)
                  /\ WindowLacks(m, m1, n - 1)
    BY <1>4
  <2>2. PICK j : j = n - 1
    OBVIOUS
  <2>3. j \in Slot /\ j \in Nat /\ (Window + j) + 1 = Window + n
    BY <1>0, <1>2, <2>2 DEF Slot
  <2>4. (Window + j) % Width = j
    BY <2>3, WindowIs
  <2>5. TableOf(m, s, Window + j) = WindowTable
    BY <1>0, <2>3, ForestIs, WindowWay
  <2>6. PICK m3 : m3 = WithEntry(m1, WindowTable, j, None)
    OBVIOUS
  <2>7. f[n] = [mem |-> m3, at |-> Window + n]
    <3>1. f[n] = UnmapTurn(m, f[n - 1], s) /\ WindowTable # None
      BY <1>1, StructIs
    <3> QED
      BY <2>1, <2>2, <2>3, <2>4, <2>5, <2>6, <3>1 DEF UnmapTurn, WithEntry
  <2>8. /\ m3 \in Memory
        /\ m3.bitmap = m1.bitmap /\ m3.data = m1.data /\ m3.heap = m1.heap
        /\ m3.tab[WindowTable][j] = None
        /\ \A i \in Slot \ {j} : m3.tab[WindowTable][i] = m1.tab[WindowTable][i]
        /\ \A u \in Struct \ {WindowTable} : m3.tab[u] = m1.tab[u]
    <3>1. m1 \in Memory
      BY <2>1 DEF SameRest, SameBelow
    <3>2. PICK t \in Struct : t = WindowTable
      BY StructIs
    <3>3. PICK p \in {None} \cup Struct \cup Page : p = None
      BY <2>3
    <3>4. m3 = WithEntry(m1, t, j, p)
      BY <2>6, <3>2, <3>3
    <3>5. /\ m3 \in Memory
          /\ m3.bitmap = m1.bitmap /\ m3.data = m1.data /\ m3.heap = m1.heap
          /\ m3.tab[t][j] = p /\ \A i \in Slot \ {j} : m3.tab[t][i] = m1.tab[t][i]
          /\ \A u \in Struct \ {t} : m3.tab[u] = m1.tab[u]
      BY <2>3, <3>1, <3>4, SetIs
    <3> QED
      BY <3>2, <3>3, <3>5
  <2>9. SameRest(m, m3)
    <3>1. \A i \in Slot : m3.tab[WindowTable][i] \in {None} \cup Page
      BY <2>1, <2>3, <2>8 DEF SameRest, SameBelow
    <3> QED
      BY <2>1, <2>8, <3>1 DEF SameRest, SameBelow
  <2>10. WindowLacks(m, m3, n)
    <3> SUFFICES ASSUME NEW i \in Slot
                 PROVE  m3.tab[WindowTable][i] = IF i < n THEN None ELSE m.tab[WindowTable][i]
      BY DEF WindowLacks
    <3>1. m1.tab[WindowTable][i] = IF i < n - 1 THEN None ELSE m.tab[WindowTable][i]
      BY <2>1 DEF WindowLacks
    <3>2. i \in Nat
      BY DEF Slot
    <3>3. CASE i = j
      BY <3>3, <2>2, <2>3, <2>8
    <3>4. CASE i # j
      BY <3>1, <3>2, <3>4, <2>2, <2>8
    <3> QED
      BY <3>3, <3>4
  <2> QED
    BY <2>7, <2>9, <2>10
<1> HIDE DEF Inv
<1>5. Inv(amount)
  <2> DEFINE T == {n \in Nat : n <= amount /\ ~Inv(n)}
  <2>1. ASSUME T # {} PROVE FALSE
    <3>1. PICK n \in T : \A y \in T : n <= y
      BY <2>1, LeastNat
    <3>2. n # 0 /\ n \in 1 .. amount /\ n - 1 \in Nat /\ n - 1 <= amount
      BY <1>0, <1>3, <3>1
    <3>3. n - 1 \notin T
      BY <3>1, <3>2
    <3> QED
      BY <1>4, <3>1, <3>2, <3>3
  <2> QED
    BY <1>0, <2>1
<1> QED
  BY <1>1, <1>5 DEF Inv

\* A new address space.
LEMMA BlankIs ==
  ASSUME NEW m, NEW S, IsForest(m, S), Room(m) > 0, NEW N, N = NewStruct(m),
         NEW m2, m2 = BlankSpace(m)
  PROVE  /\ IsForest(m2, S \cup {N}) /\ N \notin S /\ N \in PageHeap
         /\ m2.bitmap = m.bitmap /\ m2.data = m.data
         /\ m2.tab[WindowTable] = m.tab[WindowTable]
         /\ SameEntries(m, m2, S)
         /\ \A v \in UserPage : get_page_entry(m2, N, v) = None
         /\ Room(m2) = Room(m) - 1
<1>1. PICK pos : Forest(pos, m, S)
  BY DEF IsForest
<1>2. /\ m \in Memory /\ m.heap \subseteq PageHeap /\ pos \in [PageHeap -> Position]
      /\ N \in PageHeap /\ N \notin m.heap /\ S \subseteq m.heap /\ N \in Struct
  BY <1>1, FreeStructsIs, NewStructIs, StructIs DEF Forest, Memory, Placed
<1>5. PICK m1 : m1 = alloc_page_struct(m)
  OBVIOUS
<1>6. /\ m1 \in Memory
      /\ m1.bitmap = m.bitmap /\ m1.data = m.data /\ m1.heap = m.heap \cup {N}
      /\ m1.tab = [m.tab EXCEPT ![N] = EmptyTable]
  <2>1. EmptyTable \in [Slot -> {None} \cup Struct \cup Page]
    BY DEF EmptyTable, Slot
  <2> QED
    BY <1>2, <1>5, <2>1 DEF alloc_page_struct, Memory
<1>7. /\ m2 \in Memory
      /\ m2.bitmap = m.bitmap /\ m2.data = m.data /\ m2.heap = m.heap \cup {N}
      /\ m2.tab[N][Width - 1] = KPDPT /\ \A j \in Slot \ {Width - 1} : m2.tab[N][j] = None
      /\ \A u \in Struct \ {N} : m2.tab[u] = m.tab[u]
  <2>1. PICK i \in Slot : i = Width - 1
    BY WidthIs DEF Slot
  <2>2. PICK k \in {None} \cup Struct \cup Page : k = KPDPT
    BY StructIs
  <2>3. m2 = WithEntry(m1, N, i, k)
    BY <1>5, <2>1, <2>2 DEF BlankSpace, WithEntry
  <2>4. /\ m2 \in Memory
        /\ m2.bitmap = m1.bitmap /\ m2.data = m1.data /\ m2.heap = m1.heap
        /\ m2.tab[N][i] = k /\ \A j \in Slot \ {i} : m2.tab[N][j] = m1.tab[N][j]
        /\ \A u \in Struct \ {N} : m2.tab[u] = m1.tab[u]
    <3>1. m1 \in Memory /\ N \in Struct
      BY <1>2, <1>6
    <3> QED
      BY <2>3, <3>1, SetIs
  <2>5. m1.tab[N] = EmptyTable /\ \A u \in Struct \ {N} : m1.tab[u] = m.tab[u]
    BY <1>2, <1>6 DEF Memory
  <2>6. \A j \in Slot : m1.tab[N][j] = None
    BY <2>5 DEF EmptyTable, Slot
  <2> QED
    BY <1>6, <2>1, <2>2, <2>4, <2>5, <2>6
<1>9. PICK pos2 : pos2 = WithPosition(pos, N, RootAt(N))
  OBVIOUS
<1>10. /\ pos2 \in [PageHeap -> Position] /\ pos2[N] = RootAt(N)
       /\ \A u \in m.heap : pos2[u] = pos[u]
       /\ RootAt(N).lev = 3 /\ RootAt(N) \in Position
  BY <1>2, <1>9, RootIs DEF WithPosition
<1>11. \A u \in m.heap : m2.tab[u] = m.tab[u]
  BY <1>2, <1>7, StructIs
<1>12. Placed(pos2, m2, S \cup {N})
  <2>1. \A u \in m2.heap : pos2[u].lev = 3 <=> u \in S \cup {N}
    <3>1. \A u \in m.heap : pos2[u].lev = 3 <=> u \in S
      BY <1>1, <1>10 DEF Forest, Placed
    <3> QED
      BY <1>2, <1>7, <1>10, <3>1
  <2>2. \A s \in S \cup {N} : pos2[s] = RootAt(s) /\ m2.tab[s][Width - 1] = KPDPT
    <3>1. \A s \in S : pos2[s] = RootAt(s) /\ m2.tab[s][Width - 1] = KPDPT
      BY <1>1, <1>2, <1>10, <1>11 DEF Forest, Placed
    <3> QED
      BY <1>7, <1>10, <3>1
  <2>3. \A u \in m.heap : pos2[u] # pos2[N]
    <3> SUFFICES ASSUME NEW u \in m.heap, pos2[u] = pos2[N] PROVE FALSE
      OBVIOUS
    <3>1. pos[u] = RootAt(N) /\ u \in S /\ pos[u] = RootAt(u)
      BY <1>1, <1>10 DEF Forest, Placed
    <3>2. u = N
      BY <3>1 DEF RootAt
    <3> QED
      BY <1>2, <3>2
  <2>4. \A u, w \in m2.heap : pos2[u] = pos2[w] => u = w
    <3>1. \A u, w \in m.heap : pos2[u] = pos2[w] => u = w
      BY <1>1, <1>10 DEF Forest, Placed
    <3> QED
      BY <1>7, <2>3, <3>1
  <2> QED
    BY <1>2, <1>7, <1>10, <2>1, <2>2, <2>4 DEF Placed
<1>13. EntriesOK(pos2, m2)
  <2> SUFFICES ASSUME NEW u \in m2.heap, NEW j \in Slot
               PROVE  /\ HasChild(pos2[u], j) =>
                           \/ m2.tab[u][j] = None
                           \/ m2.tab[u][j] \in m2.heap /\ pos2[m2.tab[u][j]] = Child(pos2[u], j)
                      /\ pos2[u].lev = 0 => m2.tab[u][j] \in {None} \cup Page
    BY DEF EntriesOK
  <2>1. CASE u = N
    BY <2>1, <1>7, <1>10 DEF HasChild
  <2>2. CASE u # N
    <3>1. u \in m.heap /\ m2.tab[u] = m.tab[u] /\ pos2[u] = pos[u]
      BY <2>2, <1>7, <1>10, <1>11
    <3>2. /\ HasChild(pos[u], j) => \/ m.tab[u][j] = None
                                    \/ m.tab[u][j] \in m.heap /\ pos[m.tab[u][j]] = Child(pos[u], j)
          /\ pos[u].lev = 0 => m.tab[u][j] \in {None} \cup Page
      BY <1>1, <3>1 DEF Forest, EntriesOK
    <3> QED
      BY <1>7, <1>10, <3>1, <3>2
  <2> QED
    BY <2>1, <2>2
<1>14. Linked(pos2, m2, S \cup {N})
  <2> SUFFICES ASSUME NEW c \in m2.heap \ (S \cup {N})
               PROVE  \E u \in m2.heap : \E j \in Slot : HasChild(pos2[u], j) /\ m2.tab[u][j] = c
    BY DEF Linked
  <2>1. c \in m.heap \ S
    BY <1>7
  <2>2. PICK u \in m.heap, j \in Slot : HasChild(pos[u], j) /\ m.tab[u][j] = c
    BY <1>1, <2>1 DEF Forest, Linked
  <2> QED
    BY <1>7, <1>10, <1>11, <2>2
<1>15. m2.tab[KPDPT] = m.tab[KPDPT] /\ m2.tab[KPD] = m.tab[KPD]
       /\ m2.tab[WindowTable] = m.tab[WindowTable]
  BY <1>2, <1>7, StructIs
<1>16. KernelTables(m2)
  BY <1>1, <1>15 DEF Forest, KernelTables
<1>17. Forest(pos2, m2, S \cup {N})
  BY <1>7, <1>12, <1>13, <1>14, <1>16 DEF Forest
<1>18. ASSUME NEW s \in S, NEW v \in UserPage
       PROVE  get_page_entry(m2, s, v) = get_page_entry(m, s, v)
  <2>1. PICK a, b : a = TableOf(m, s, v) /\ b = TableOf(m2, s, v)
    OBVIOUS
  <2>2. \/ a = None /\ \A c \in m.heap : pos[c] # PtAt(s, v)
        \/ a \in m.heap /\ pos[a] = PtAt(s, v)
    BY <1>1, <2>1, TableOfIs
  <2>3. \/ b = None /\ \A c \in m2.heap : pos2[c] # PtAt(s, v)
        \/ b \in m2.heap /\ pos2[b] = PtAt(s, v)
    BY <1>17, <2>1, TableOfIs
  <2>4. PtAt(s, v).lev = 0
    BY <1>2, WayIs
  <2>5. b = None \/ b \in m.heap
    BY <1>7, <1>10, <2>3, <2>4
  <2>6. a = b
    <3>1. \A t, u \in m.heap : pos[t] = pos[u] => t = u
      BY <1>1 DEF Forest, Placed
    <3>2. b # None => b \in m.heap /\ pos[b] = PtAt(s, v)
      BY <1>10, <2>3, <2>5
    <3>3. a # None => a \in m2.heap /\ pos2[a] = PtAt(s, v)
      BY <1>7, <1>10, <2>2
    <3>4. a = None => b = None
      BY <2>2, <3>2, StructIs, <1>2
    <3>5. a # None => b # None
      BY <2>3, <3>3, StructIs, <1>2, <1>7
    <3> QED
      BY <2>2, <3>1, <3>2, <3>4, <3>5
  <2> QED
    BY <1>11, <2>1, <2>2, <2>6 DEF get_page_entry
<1>19. ASSUME NEW v \in UserPage PROVE get_page_entry(m2, N, v) = None
  <2>1. m2.tab[N][Index(v, 3)] = None
    <3>1. HasChild(RootAt(N), Index(v, 3))
      BY <1>2, WayIs
    <3> QED
      BY <1>7, <1>10, <3>1 DEF HasChild
  <2>2. TableOf(m2, N, v) = None
    BY <1>2, <2>1, StructIs DEF TableOf
  <2> QED
    BY <2>2 DEF get_page_entry
<1>20. Room(m2) = Room(m) - 1
  BY <1>2, <1>7, RoomAfter
<1> QED
  BY <1>2, <1>7, <1>15, <1>17, <1>18, <1>19, <1>20 DEF IsForest, SameEntries

-----------------------------------------------------------------------------
\* Every table belongs to one of the spaces.
LEMMA RootInSpaces ==
  ASSUME NEW pos, NEW m, NEW S, Forest(pos, m, S), NEW t \in m.heap
  PROVE  pos[t].root \in S
<1>1. m.heap \subseteq PageHeap /\ pos \in [PageHeap -> Position]
  BY DEF Forest, Memory, Placed
<1>2. \A u \in m.heap : pos[u].lev \in 0 .. 3
  BY <1>1 DEF Position
<1>3. ASSUME NEW u \in m.heap, pos[u].lev # 3
      PROVE  \E w \in m.heap : pos[w].root = pos[u].root /\ pos[w].lev = pos[u].lev + 1
  <2>1. PICK w \in m.heap, i \in Slot : HasChild(pos[w], i) /\ m.tab[w][i] = u
    BY <1>3 DEF Forest, Placed, Linked
  <2>2. pos[u] = Child(pos[w], i)
    BY <1>1, <2>1, StructIs DEF Forest, EntriesOK
  <2> QED
    BY <1>1, <1>2, <2>1, <2>2, ChildIs
<1>4. ASSUME NEW u \in m.heap, pos[u].lev = 3 PROVE pos[u].root \in S
  BY <1>1, <1>4, RootIs DEF Forest, Placed
<1>5. ASSUME NEW u \in m.heap, pos[u].lev = 2 PROVE pos[u].root \in S
  BY <1>3, <1>4, <1>5
<1>6. ASSUME NEW u \in m.heap, pos[u].lev = 1 PROVE pos[u].root \in S
  BY <1>3, <1>5, <1>6
<1>7. ASSUME NEW u \in m.heap, pos[u].lev = 0 PROVE pos[u].root \in S
  BY <1>3, <1>6, <1>7
<1> QED
  BY <1>2, <1>4, <1>5, <1>6, <1>7

\* The tables at a set of positions, and those below them.
TablesAt(pos, m, Q) == {t \in m.heap : pos[t] \in Q}

ChildrenOf(Q) == {Child(q, j) : q \in Q, j \in Slot}

\* The tables below those at some positions are at the positions below.
LEMMA BelowIs ==
  ASSUME NEW pos, NEW m, NEW S, Forest(pos, m, S), NEW Q,
         \A q \in Q : q \in Position /\ q.lev \in {1, 2}
  PROVE  Below(m, TablesAt(pos, m, Q)) = TablesAt(pos, m, ChildrenOf(Q))
<1>1. m.heap \subseteq PageHeap
  BY DEF Forest, Memory
<1>2. ASSUME NEW q \in Q, NEW j \in Slot PROVE HasChild(q, j)
  BY DEF HasChild
<1>3. ASSUME NEW c \in Below(m, TablesAt(pos, m, Q))
      PROVE  c \in TablesAt(pos, m, ChildrenOf(Q))
  <2>1. PICK t \in m.heap, j \in Slot : pos[t] \in Q /\ c = m.tab[t][j] /\ c # None
    BY DEF Below, TablesAt, Slot
  <2>2. c \in m.heap /\ pos[c] = Child(pos[t], j)
    BY <1>2, <2>1, EntryIs
  <2> QED
    BY <2>1, <2>2 DEF TablesAt, ChildrenOf
<1>4. ASSUME NEW c \in TablesAt(pos, m, ChildrenOf(Q))
      PROVE  c \in Below(m, TablesAt(pos, m, Q))
  <2>1. PICK q \in Q, j \in Slot : c \in m.heap /\ pos[c] = Child(q, j)
    BY DEF TablesAt, ChildrenOf
  <2>2. PICK t \in m.heap : pos[t] = q /\ m.tab[t][j] = c
    BY <1>2, <2>1, ParentIs
  <2>3. c # None
    BY <1>1, <2>1, StructIs
  <2> QED
    BY <2>2, <2>3 DEF Below, TablesAt, Slot
<1>5. PICK A, B : /\ A = Below(m, TablesAt(pos, m, Q))
                  /\ B = TablesAt(pos, m, ChildrenOf(Q))
  OBVIOUS
<1>6. \A c : c \in A <=> c \in B
  BY <1>3, <1>4, <1>5
<1>7. A = B
  BY <1>6
<1> QED
  BY <1>5, <1>7

\* The positions below some entries of the highest table, on each level.
UserSlot == 0 .. Width - 2

PdptsOf(s, J) == {Child(RootAt(s), i) : i \in J}

PdsOf(s, J) == ChildrenOf(PdptsOf(s, J))

PtsOf(s, J) == ChildrenOf(PdsOf(s, J))

\* What is below an entry of the highest table belongs to the space.
LEMMA LevelsAre ==
  ASSUME NEW s \in PageHeap, NEW J, J \subseteq UserSlot
  PROVE  /\ \A i \in J : HasChild(RootAt(s), i)
         /\ \A q \in PdptsOf(s, J) : q \in Position /\ q.lev = 2 /\ q.root = s
         /\ \A q \in PdsOf(s, J) : q \in Position /\ q.lev = 1 /\ q.root = s
         /\ \A q \in PtsOf(s, J) : q \in Position /\ q.lev = 0 /\ q.root = s
<1>1. \A i \in J : HasChild(RootAt(s), i)
  BY RootIs, WidthIs DEF HasChild, UserSlot, Slot
<1>2. \A q \in PdptsOf(s, J) : q \in Position /\ q.lev = 2 /\ q.root = s
  BY <1>1, RootIs, ChildIs DEF PdptsOf
<1>3. \A q \in PdsOf(s, J) : q \in Position /\ q.lev = 1 /\ q.root = s
  <2> SUFFICES ASSUME NEW c \in PdsOf(s, J) PROVE c \in Position /\ c.lev = 1 /\ c.root = s
    OBVIOUS
  <2>1. PICK q \in PdptsOf(s, J), j \in Slot : c = Child(q, j)
    BY DEF PdsOf, ChildrenOf
  <2>2. HasChild(q, j) /\ q \in Position /\ q.lev = 2 /\ q.root = s
    BY <1>2, <2>1 DEF HasChild
  <2> QED
    BY <2>1, <2>2, ChildIs
<1>4. \A q \in PtsOf(s, J) : q \in Position /\ q.lev = 0 /\ q.root = s
  <2> SUFFICES ASSUME NEW c \in PtsOf(s, J) PROVE c \in Position /\ c.lev = 0 /\ c.root = s
    OBVIOUS
  <2>1. PICK q \in PdsOf(s, J), j \in Slot : c = Child(q, j)
    BY DEF PtsOf, ChildrenOf
  <2>2. HasChild(q, j) /\ q \in Position /\ q.lev = 1 /\ q.root = s
    BY <1>3, <2>1 DEF HasChild
  <2> QED
    BY <2>1, <2>2, ChildIs
<1> QED
  BY <1>1, <1>2, <1>3, <1>4

\* The tables on each level are reached from some of the entries.
LEMMA TopIs ==
  ASSUME NEW pos, NEW m, NEW S, Forest(pos, m, S), NEW s \in S, NEW J, J \subseteq UserSlot
  PROVE  /\ {m.tab[s][i] : i \in J} \ {None} = TablesAt(pos, m, PdptsOf(s, J))
         /\ Below(m, TablesAt(pos, m, PdptsOf(s, J))) = TablesAt(pos, m, PdsOf(s, J))
         /\ Below(m, TablesAt(pos, m, PdsOf(s, J))) = TablesAt(pos, m, PtsOf(s, J))
<1>1. s \in m.heap /\ s \in PageHeap /\ pos[s] = RootAt(s) /\ m.heap \subseteq PageHeap
  BY DEF Forest, Memory, Placed
<1>2. ASSUME NEW c
      PROVE  c \in {m.tab[s][i] : i \in J} \ {None} <=> c \in TablesAt(pos, m, PdptsOf(s, J))
  <2>1. ASSUME c \in {m.tab[s][i] : i \in J} \ {None} PROVE c \in TablesAt(pos, m, PdptsOf(s, J))
    <3>1. PICK i \in J : c = m.tab[s][i] /\ c # None
      BY <2>1
    <3>2. HasChild(pos[s], i)
      BY <1>1, LevelsAre
    <3>3. c \in m.heap /\ pos[c] = Child(RootAt(s), i)
      BY <1>1, <3>1, <3>2, EntryIs
    <3> QED
      BY <3>3 DEF TablesAt, PdptsOf
  <2>2. ASSUME c \in TablesAt(pos, m, PdptsOf(s, J)) PROVE c \in {m.tab[s][i] : i \in J} \ {None}
    <3>1. PICK i \in J : c \in m.heap /\ pos[c] = Child(RootAt(s), i)
      BY <2>2 DEF TablesAt, PdptsOf
    <3>2. HasChild(RootAt(s), i) /\ RootAt(s) \in Position
      BY <1>1, LevelsAre, RootIs
    <3>3. PICK u \in m.heap : pos[u] = RootAt(s) /\ m.tab[u][i] = c
      BY <3>1, <3>2, ParentIs
    <3>4. u = s
      BY <1>1, <3>3 DEF Forest, Placed
    <3>5. c # None
      BY <1>1, <3>1, StructIs
    <3> QED
      BY <3>3, <3>4, <3>5
  <2> QED
    BY <2>1, <2>2
<1>3. {m.tab[s][i] : i \in J} \ {None} = TablesAt(pos, m, PdptsOf(s, J))
  <2>1. PICK A : A = {m.tab[s][i] : i \in J} \ {None}
    OBVIOUS
  <2>2. PICK B : B = TablesAt(pos, m, PdptsOf(s, J))
    OBVIOUS
  <2>3. \A c : c \in A <=> c \in B
    BY <1>2, <2>1, <2>2
  <2>4. A = B
    BY <2>3
  <2> QED
    BY <2>1, <2>2, <2>4
<1>4. \A q \in PdptsOf(s, J) : q \in Position /\ q.lev \in {1, 2}
  BY <1>1, LevelsAre
<1>5. \A q \in PdsOf(s, J) : q \in Position /\ q.lev \in {1, 2}
  BY <1>1, LevelsAre
<1>6. Below(m, TablesAt(pos, m, PdptsOf(s, J))) = TablesAt(pos, m, PdsOf(s, J))
  BY <1>4, BelowIs DEF PdsOf
<1>7. Below(m, TablesAt(pos, m, PdsOf(s, J))) = TablesAt(pos, m, PtsOf(s, J))
  BY <1>5, BelowIs DEF PtsOf
<1> QED
  BY <1>3, <1>6, <1>7

\* The tables of a space are those of its levels.
TablesOf(pos, m, s) == {t \in m.heap : pos[t].root = s}

OnALevel(pos, m, s, i, t) ==
  \/ t \in TablesAt(pos, m, PdptsOf(s, {i}))
  \/ t \in TablesAt(pos, m, PdsOf(s, {i}))
  \/ t \in TablesAt(pos, m, PtsOf(s, {i}))

\* A table of a space is its highest one or on one of the levels below.
LEMMA TablesOfLevels ==
  ASSUME NEW pos, NEW m, NEW S, Forest(pos, m, S), NEW s \in S, NEW t
  PROVE  t \in TablesOf(pos, m, s) <=> (t = s \/ \E i \in UserSlot : OnALevel(pos, m, s, i, t))
<1>1. /\ s \in m.heap /\ s \in PageHeap /\ pos[s] = RootAt(s) /\ m.heap \subseteq PageHeap
      /\ pos \in [PageHeap -> Position]
  BY DEF Forest, Memory, Placed
<1>2. ASSUME NEW u \in m.heap, pos[u].lev # 3
      PROVE  \E w \in m.heap, i \in Slot :
               /\ HasChild(pos[w], i) /\ pos[u] = Child(pos[w], i)
               /\ pos[w].root = pos[u].root /\ pos[w].lev = pos[u].lev + 1
  <2>1. PICK w \in m.heap, i \in Slot : HasChild(pos[w], i) /\ m.tab[w][i] = u
    BY <1>2 DEF Forest, Placed, Linked
  <2>2. pos[u] = Child(pos[w], i)
    BY <1>1, <2>1, StructIs DEF Forest, EntriesOK
  <2>3. pos[w] \in Position
    BY <1>1
  <2>4. pos[u].lev = pos[w].lev - 1 /\ pos[u].root = pos[w].root /\ pos[w].lev \in 0 .. 3
    BY <2>1, <2>2, <2>3, ChildIs
  <2> QED
    BY <2>1, <2>2, <2>4
<1>3. ASSUME NEW u \in m.heap, pos[u].lev = 3, pos[u].root = s PROVE u = s
  <2>1. u \in S /\ pos[u] = RootAt(u) /\ u \in PageHeap
    BY <1>1, <1>3 DEF Forest, Placed
  <2> QED
    BY <1>3, <2>1, RootIs
<1>4. ASSUME NEW u \in m.heap, pos[u].lev = 2, pos[u].root = s
      PROVE  \E i \in UserSlot : pos[u] \in PdptsOf(s, {i})
  <2>1. PICK w \in m.heap, i \in Slot :
          /\ HasChild(pos[w], i) /\ pos[u] = Child(pos[w], i)
          /\ pos[w].root = pos[u].root /\ pos[w].lev = pos[u].lev + 1
    BY <1>2, <1>4
  <2>2. w = s /\ pos[w].lev = 3
    BY <1>3, <1>4, <2>1
  <2>3. i \in UserSlot
    BY <2>1, <2>2, WidthIs DEF HasChild, UserSlot, Slot
  <2> QED
    BY <1>1, <2>1, <2>2, <2>3 DEF PdptsOf
<1>5. ASSUME NEW u \in m.heap, pos[u].lev = 1, pos[u].root = s
      PROVE  \E i \in UserSlot : pos[u] \in PdsOf(s, {i})
  <2>1. PICK w \in m.heap, j \in Slot :
          /\ HasChild(pos[w], j) /\ pos[u] = Child(pos[w], j)
          /\ pos[w].root = pos[u].root /\ pos[w].lev = pos[u].lev + 1
    BY <1>2, <1>5
  <2>2. PICK i \in UserSlot : pos[w] \in PdptsOf(s, {i})
    BY <1>4, <1>5, <2>1
  <2> QED
    BY <2>1, <2>2 DEF PdsOf, ChildrenOf
<1>6. ASSUME NEW u \in m.heap, pos[u].lev = 0, pos[u].root = s
      PROVE  \E i \in UserSlot : pos[u] \in PtsOf(s, {i})
  <2>1. PICK w \in m.heap, j \in Slot :
          /\ HasChild(pos[w], j) /\ pos[u] = Child(pos[w], j)
          /\ pos[w].root = pos[u].root /\ pos[w].lev = pos[u].lev + 1
    BY <1>2, <1>6
  <2>2. pos[w].lev = 1 /\ pos[w].root = s
    BY <1>6, <2>1
  <2>3. PICK i \in UserSlot : pos[w] \in PdsOf(s, {i})
    BY <1>5, <2>2
  <2> QED
    BY <2>1, <2>3 DEF PtsOf, ChildrenOf
<1>7. ASSUME t \in TablesOf(pos, m, s)
      PROVE  t = s \/ \E i \in UserSlot : OnALevel(pos, m, s, i, t)
  <2>1. t \in m.heap /\ pos[t].root = s
    BY <1>7 DEF TablesOf
  <2>2. pos[t].lev \in 0 .. 3
    BY <1>1, <2>1 DEF Position
  <2>3. pos[t].lev = 0 \/ pos[t].lev = 1 \/ pos[t].lev = 2 \/ pos[t].lev = 3
    BY <2>2
  <2> QED
    BY <1>3, <1>4, <1>5, <1>6, <2>1, <2>3 DEF TablesAt, OnALevel
<1>8. ASSUME NEW i \in UserSlot, OnALevel(pos, m, s, i, t)
      PROVE  t \in TablesOf(pos, m, s)
  <2>1. {i} \subseteq UserSlot
    OBVIOUS
  <2>2. t \in m.heap /\ pos[t].root = s
    BY <1>1, <1>8, <2>1, LevelsAre DEF TablesAt, OnALevel
  <2> QED
    BY <2>2 DEF TablesOf
<1>9. s \in TablesOf(pos, m, s)
  BY <1>1, RootIs DEF TablesOf
<1> QED
  BY <1>7, <1>8, <1>9

\* The levels below some entries are those below each of them.
LEMMA LevelsSplit ==
  ASSUME NEW s, NEW J, NEW q
  PROVE  /\ q \in PdptsOf(s, J) <=> \E i \in J : q \in PdptsOf(s, {i})
         /\ q \in PdsOf(s, J) <=> \E i \in J : q \in PdsOf(s, {i})
         /\ q \in PtsOf(s, J) <=> \E i \in J : q \in PtsOf(s, {i})
<1>1. \A r : r \in PdptsOf(s, J) <=> \E i \in J : r \in PdptsOf(s, {i})
  BY DEF PdptsOf
<1>2. \A Q, r : r \in ChildrenOf(Q) <=> \E x \in Q, j \in Slot : r = Child(x, j)
  BY DEF ChildrenOf
<1>3. \A r : r \in PdsOf(s, J) <=> \E i \in J : r \in PdsOf(s, {i})
  <2> SUFFICES ASSUME NEW r PROVE r \in PdsOf(s, J) <=> \E i \in J : r \in PdsOf(s, {i})
    OBVIOUS
  <2>1. r \in PdsOf(s, J) <=> \E x \in PdptsOf(s, J), j \in Slot : r = Child(x, j)
    BY <1>2 DEF PdsOf
  <2>2. \A i : r \in PdsOf(s, {i}) <=> \E x \in PdptsOf(s, {i}), j \in Slot : r = Child(x, j)
    BY <1>2 DEF PdsOf
  <2> QED
    BY <1>1, <2>1, <2>2
<1>4. \A r : r \in PtsOf(s, J) <=> \E i \in J : r \in PtsOf(s, {i})
  <2> SUFFICES ASSUME NEW r PROVE r \in PtsOf(s, J) <=> \E i \in J : r \in PtsOf(s, {i})
    OBVIOUS
  <2>1. r \in PtsOf(s, J) <=> \E x \in PdsOf(s, J), j \in Slot : r = Child(x, j)
    BY <1>2 DEF PtsOf
  <2>2. \A i : r \in PtsOf(s, {i}) <=> \E x \in PdsOf(s, {i}), j \in Slot : r = Child(x, j)
    BY <1>2 DEF PtsOf
  <2> QED
    BY <1>3, <2>1, <2>2
<1> QED
  BY <1>1, <1>3, <1>4

\* What a space owns is what is placed below it.
LEMMA OwnIs ==
  ASSUME NEW pos, NEW S, Forest(pos, mem, S), NEW s \in S
  PROVE  Own(s) = TablesOf(pos, mem, s)
<1>1. PICK A : A = TablesAt(pos, mem, PdptsOf(s, UserSlot))
  OBVIOUS
<1>2. PICK B : B = TablesAt(pos, mem, PdsOf(s, UserSlot))
  OBVIOUS
<1>3. PICK C : C = TablesAt(pos, mem, PtsOf(s, UserSlot))
  OBVIOUS
<1>4. /\ {mem.tab[s][i] : i \in UserSlot} \ {None} = A
      /\ Below(mem, A) = B /\ Below(mem, B) = C
  BY <1>1, <1>2, <1>3, TopIs
<1>5. Own(s) = {s} \cup A \cup B \cup C
  BY <1>4, Zenon DEF Own, UserSlot
<1>6. ASSUME NEW t
      PROVE  t \in A \cup B \cup C <=>
               \E i \in UserSlot : OnALevel(pos, mem, s, i, t)
  <2>1. PICK q : q = pos[t]
    OBVIOUS
  <2>2. t \in A <=> \E i \in UserSlot : t \in TablesAt(pos, mem, PdptsOf(s, {i}))
    BY <1>1, <2>1, LevelsSplit DEF TablesAt
  <2>3. t \in B <=> \E i \in UserSlot : t \in TablesAt(pos, mem, PdsOf(s, {i}))
    BY <1>2, <2>1, LevelsSplit DEF TablesAt
  <2>4. t \in C <=> \E i \in UserSlot : t \in TablesAt(pos, mem, PtsOf(s, {i}))
    BY <1>3, <2>1, LevelsSplit DEF TablesAt
  <2> QED
    BY <2>2, <2>3, <2>4 DEF OnALevel
<1>7. PICK T : T = TablesOf(pos, mem, s)
  OBVIOUS
<1>8. PICK O : O = Own(s)
  OBVIOUS
<1>9. ASSUME NEW t PROVE t \in O <=> t \in T
  <2>1. t \in T <=> t = s \/ \E i \in UserSlot : OnALevel(pos, mem, s, i, t)
    BY <1>7, TablesOfLevels
  <2>2. t \in T <=> t = s \/ t \in A \cup B \cup C
    BY <1>6, <2>1
  <2> QED
    BY <1>5, <1>8, <2>2
<1>10. O = T
  BY <1>9
<1> QED
  BY <1>7, <1>8, <1>10

\* The tables in use are owned by one space each.
LEMMA ForestOwned ==
  ASSUME IsForest(mem, Spaces)
  PROVE  StructsOwned
<1>1. PICK pos : Forest(pos, mem, Spaces)
  BY DEF IsForest
<1>2. \A s \in Spaces : Own(s) = TablesOf(pos, mem, s)
  BY <1>1, OwnIs
<1>3. \A t \in mem.heap : pos[t].root \in Spaces
  BY <1>1, RootInSpaces
<1>4. PICK H : H = UNION {Own(s) : s \in Spaces}
  OBVIOUS
<1>5. \A t : t \in H <=> \E s \in Spaces : t \in Own(s)
  BY <1>4
<1>6. \A t : t \in H <=> t \in mem.heap
  BY <1>2, <1>3, <1>5 DEF TablesOf
<1>7. mem.heap = H
  BY <1>6
<1>8. \A s, r \in Spaces : s # r => Own(s) \cap Own(r) = {}
  BY <1>2 DEF TablesOf
<1> QED
  BY <1>4, <1>7, <1>8 DEF StructsOwned

\* The entries of the page tables of a space are its pages.
LEMMA PtsArePages ==
  ASSUME NEW s \in PageHeap, NEW i \in UserSlot, NEW q \in PtsOf(s, {i}), NEW l \in Slot
  PROVE  \E v \in UserPage : PtAt(s, v) = q /\ v % Width = l /\ Index(v, 3) = i
<1>1. PICK j \in Slot, k \in Slot : q = Child(Child(Child(RootAt(s), i), j), k)
  BY DEF PtsOf, PdsOf, PdptsOf, ChildrenOf
<1>2. PICK v : v = PageNumber(i, j, k, l)
  OBVIOUS
<1>3. i \in Slot /\ i < Width - 1
  BY WidthIs DEF UserSlot, Slot
<1>4. /\ v \in Nat /\ v % Width = l /\ Shifted(v, 3) = i
      /\ Index(v, 1) = k /\ Index(v, 2) = j /\ Index(v, 3) = i
  BY <1>1, <1>2, <1>3, PageNumberIs
<1>5. v \in UserPage
  BY <1>3, <1>4, UserPageIs
<1>6. PtAt(s, v) = q
  BY <1>1, <1>4 DEF PtAt, PdAt, PdptAt
<1> QED
  BY <1>4, <1>5, <1>6

\* The page table of a page is below its entry in the highest table.
LEMMA PagesHavePts ==
  ASSUME NEW s \in PageHeap, NEW v \in UserPage
  PROVE  Index(v, 3) \in UserSlot /\ PtAt(s, v) \in PtsOf(s, {Index(v, 3)})
<1>1. v \in Nat /\ HasChild(RootAt(s), Index(v, 3))
  BY WayIs
<1>2. Index(v, 1) \in Slot /\ Index(v, 2) \in Slot /\ Index(v, 3) \in Slot
  BY <1>1, IndexIs
<1>3. Index(v, 3) \in UserSlot
  BY <1>1, <1>2, RootIs, WidthIs DEF HasChild, Slot, UserSlot
<1>4. PdptAt(s, v) \in PdptsOf(s, {Index(v, 3)})
  BY DEF PdptsOf, PdptAt
<1>5. PdAt(s, v) \in PdsOf(s, {Index(v, 3)})
  BY <1>2, <1>4 DEF PdsOf, PdAt, ChildrenOf
<1>6. PtAt(s, v) \in PtsOf(s, {Index(v, 3)})
  BY <1>2, <1>5 DEF PtsOf, PtAt, ChildrenOf
<1> QED
  BY <1>3, <1>6

\* Pages that differ in the last index only have the same page table, and are in
\* the order of their indexes.
LEMMA SamePtIs ==
  ASSUME NEW s \in PageHeap, NEW v \in UserPage, NEW w \in UserPage, Shifted(w, 1) = Shifted(v, 1)
  PROVE  PtAt(s, w) = PtAt(s, v) /\ (w < v <=> w % Width < v % Width)
<1>1. v \in Nat /\ w \in Nat
  BY WayIs
<1>2. Shifted(w, 2) = Shifted(v, 2) /\ Shifted(w, 3) = Shifted(v, 3)
  BY <1>1, ShiftedIs
<1>3. Index(w, 1) = Index(v, 1) /\ Index(w, 2) = Index(v, 2) /\ Index(w, 3) = Index(v, 3)
  BY <1>2 DEF Index
<1>4. PtAt(s, w) = PtAt(s, v)
  BY <1>3 DEF PtAt, PdAt, PdptAt
<1>5. PICK x \in Nat : x = Shifted(v, 1)
  BY <1>1, IndexIs
<1>6. /\ v = x * Width + (v % Width) /\ w = x * Width + (w % Width)
      /\ v % Width \in Slot /\ w % Width \in Slot
  BY <1>1, <1>5, IndexIs DEF Sub
<1>7. w < v <=> w % Width < v % Width
  <2>1. PICK y \in Nat : y = x * Width
    BY WidthIs
  <2>2. PICK j \in Nat, k \in Nat : j = v % Width /\ k = w % Width
    BY <1>6, WidthIs DEF Slot
  <2>3. v = y + j /\ w = y + k
    BY <1>6, <2>1, <2>2
  <2>4. w < v <=> k < j
    BY <2>3
  <2> QED
    BY <2>2, <2>4
<1> QED
  BY <1>4, <1>7

\* The two stacks are in different page tables.
LEMMA StacksAre ==
  /\ UserStack \in UserPage /\ KernelStack \in UserPage /\ UserStack # KernelStack
  /\ Index(UserStack, 3) = Width - 2 /\ Index(KernelStack, 3) = Width - 2
  /\ Index(UserStack, 2) = Width - 2 /\ Index(KernelStack, 2) = Width - 1
<1>1. /\ 0 \in Slot /\ 1 \in Slot /\ Width - 1 \in Slot /\ Width - 2 \in Slot /\ Width - 2 < Width - 1
  BY WidthIs DEF Slot
<1>2. /\ UserStack \in Nat /\ Shifted(UserStack, 3) = Width - 2
      /\ Index(UserStack, 3) = Width - 2 /\ Index(UserStack, 2) = Width - 2
  BY <1>1, PageNumberIs DEF UserStack
<1>3. /\ KernelStack \in Nat /\ Shifted(KernelStack, 3) = Width - 2
      /\ Index(KernelStack, 3) = Width - 2 /\ Index(KernelStack, 2) = Width - 1
  BY <1>1, PageNumberIs DEF KernelStack
<1>4. UserStack \in UserPage /\ KernelStack \in UserPage
  BY <1>1, <1>2, <1>3, UserPageIs
<1>5. Width - 2 # Width - 1
  BY WidthIs
<1> QED
  BY <1>2, <1>3, <1>4, <1>5

-----------------------------------------------------------------------------
\* The page at v is one that the terminator forgets.
MissedAt(m, s, v) ==
  /\ v % Width = Index(v, 3)
  /\ \E w \in Mapped(m, s) : Shifted(w, 1) = Shifted(v, 1) /\ w < v

\* The page p is at v, and the terminator frees it.
FreedAt(m, s, v, p) == get_page_entry(m, s, v) = p /\ p # None /\ ~MissedAt(m, s, v)

SweptAt(m, s, i) == UNION {Freed(m, pt, i) : pt \in Below(m, Below(m, {m.tab[s][i]} \ {None}))}

Swept(m, s) == UNION {SweptAt(m, s, i) : i \in UserSlot}

\* The page tables below one entry of the highest table.
PtsBelow(m, s, i) == Below(m, Below(m, {m.tab[s][i]} \ {None}))

PtsUnder(pos, m, s, i) == TablesAt(pos, m, PtsOf(s, {i}))

\* The tables below one entry of the highest table, level by level.
LEMMA LevelIs ==
  ASSUME NEW pos, NEW m, NEW S, Forest(pos, m, S), NEW s \in S, NEW i \in UserSlot
  PROVE  /\ {m.tab[s][i]} \ {None} = TablesAt(pos, m, PdptsOf(s, {i}))
         /\ Below(m, {m.tab[s][i]} \ {None}) = TablesAt(pos, m, PdsOf(s, {i}))
         /\ Below(m, Below(m, {m.tab[s][i]} \ {None})) = TablesAt(pos, m, PtsOf(s, {i}))
         /\ PtsBelow(m, s, i) = PtsUnder(pos, m, s, i)
<1>1. PICK J : J = {i}
  OBVIOUS
<1>2. J \subseteq UserSlot /\ {m.tab[s][j] : j \in J} = {m.tab[s][i]}
  BY <1>1
<1>3. /\ {m.tab[s][j] : j \in J} \ {None} = TablesAt(pos, m, PdptsOf(s, J))
      /\ Below(m, TablesAt(pos, m, PdptsOf(s, J))) = TablesAt(pos, m, PdsOf(s, J))
      /\ Below(m, TablesAt(pos, m, PdsOf(s, J))) = TablesAt(pos, m, PtsOf(s, J))
  BY <1>2, TopIs
<1>4. Below(m, Below(m, {m.tab[s][i]} \ {None})) = TablesAt(pos, m, PtsOf(s, J))
  BY <1>1, <1>2, <1>3
<1> QED
  BY <1>1, <1>2, <1>3, <1>4 DEF PtsBelow, PtsUnder

\* The page tables.
LEMMA PtsBelowAre ==
  ASSUME NEW pos, NEW m, NEW S, Forest(pos, m, S), NEW s \in S, NEW i \in UserSlot
  PROVE  PtsBelow(m, s, i) = PtsUnder(pos, m, s, i)
BY LevelIs

\* The terminator frees every page of the space that it does not forget.
LEMMA SweptIs ==
  ASSUME NEW pos, NEW m, NEW S, Forest(pos, m, S), NEW s \in S
  PROVE  \A p : p \in Swept(m, s) <=> \E v \in UserPage : FreedAt(m, s, v, p)
<1>1. s \in PageHeap
  BY DEF Forest, Placed, Memory
<1>2. ASSUME NEW p
      PROVE  p \in Swept(m, s) <=>
               \E i \in UserSlot : \E pt \in TablesAt(pos, m, PtsOf(s, {i})) : p \in Freed(m, pt, i)
  <2>1. p \in Swept(m, s) <=>
          \E i \in UserSlot : \E pt \in Below(m, Below(m, {m.tab[s][i]} \ {None})) : p \in Freed(m, pt, i)
    <3>1. ASSUME NEW i
          PROVE  p \in SweptAt(m, s, i) <=>
                   \E pt \in Below(m, Below(m, {m.tab[s][i]} \ {None})) : p \in Freed(m, pt, i)
      <4>1. PICK P : P = Below(m, Below(m, {m.tab[s][i]} \ {None}))
        OBVIOUS
      <4>2. SweptAt(m, s, i) = UNION {Freed(m, pt, i) : pt \in P}
        BY <4>1 DEF SweptAt
      <4>3. p \in SweptAt(m, s, i) <=> \E pt \in P : p \in Freed(m, pt, i)
        BY <4>2
      <4> QED
        BY <4>1, <4>3
    <3>2. p \in Swept(m, s) <=> \E i \in UserSlot : p \in SweptAt(m, s, i)
      BY DEF Swept
    <3> QED
      BY <3>1, <3>2
  <2>2. ASSUME NEW i \in UserSlot, NEW pt
        PROVE  pt \in Below(m, Below(m, {m.tab[s][i]} \ {None})) <=> pt \in TablesAt(pos, m, PtsOf(s, {i}))
    <3>1. PtsBelow(m, s, i) = PtsUnder(pos, m, s, i)
      BY PtsBelowAre
    <3> QED
      BY <3>1 DEF PtsBelow, PtsUnder
  <2> QED
    BY <2>1, <2>2
<1>3. ASSUME NEW p, NEW i \in UserSlot, NEW pt \in TablesAt(pos, m, PtsOf(s, {i})), p \in Freed(m, pt, i)
      PROVE  \E v \in UserPage : FreedAt(m, s, v, p)
  <2>1. PICK l \in Slot : /\ p = m.tab[pt][l] /\ m.tab[pt][l] # None
                          /\ l # i \/ \A k \in Slot : m.tab[pt][k] # None => k >= l
    BY <1>3 DEF Freed, Slot
  <2>2. pt \in m.heap /\ pos[pt] \in PtsOf(s, {i})
    BY DEF TablesAt
  <2>3. PICK v \in UserPage : PtAt(s, v) = pos[pt] /\ v % Width = l /\ Index(v, 3) = i
    BY <1>1, <2>2, PtsArePages
  <2>4. TableOf(m, s, v) = pt /\ pt # None
    BY <2>2, <2>3, TableOfIs, StructIs DEF Forest, Placed
  <2>5. get_page_entry(m, s, v) = p /\ p # None
    BY <2>1, <2>3, <2>4 DEF get_page_entry
  <2>6. ASSUME MissedAt(m, s, v) PROVE FALSE
    <3>1. l = i
      BY <2>3, <2>6 DEF MissedAt
    <3>2. PICK w \in Mapped(m, s) : Shifted(w, 1) = Shifted(v, 1) /\ w < v
      BY <2>6 DEF MissedAt
    <3>3. w \in UserPage /\ get_page_entry(m, s, w) # None
      BY DEF Mapped
    <3>4. PtAt(s, w) = PtAt(s, v) /\ w % Width < l
      BY <1>1, <2>3, <3>2, <3>3, SamePtIs
    <3>5. TableOf(m, s, w) = pt
      BY <2>2, <2>3, <3>3, <3>4, TableOfIs DEF Forest, Placed
    <3>6. m.tab[pt][w % Width] # None
      BY <3>3, <3>5 DEF get_page_entry
    <3>7. PICK k \in Slot : k = w % Width
      BY <1>1, <3>3, WayIs, IndexIs
    <3>8. ~(k >= l)
      BY <3>4, <3>7, WidthIs DEF Slot
    <3> QED
      BY <2>1, <3>1, <3>6, <3>7, <3>8
  <2> QED
    BY <2>5, <2>6 DEF FreedAt
<1>4. ASSUME NEW p, NEW v \in UserPage, FreedAt(m, s, v, p)
      PROVE  \E i \in UserSlot : \E pt \in TablesAt(pos, m, PtsOf(s, {i})) : p \in Freed(m, pt, i)
  <2>1. p = get_page_entry(m, s, v) /\ p # None /\ ~MissedAt(m, s, v)
    BY <1>4 DEF FreedAt
  <2>2. PICK pt : pt = TableOf(m, s, v)
    OBVIOUS
  <2>3. PICK i : i = Index(v, 3)
    OBVIOUS
  <2>4. PICK l : l = v % Width
    OBVIOUS
  <2>5. pt # None /\ p = m.tab[pt][l]
    BY <2>1, <2>2, <2>4 DEF get_page_entry
  <2>6. pt \in m.heap /\ pos[pt] = PtAt(s, v)
    BY <2>2, <2>5, TableOfIs
  <2>7. i \in UserSlot /\ PtAt(s, v) \in PtsOf(s, {i})
    BY <1>1, <2>3, PagesHavePts
  <2>8. pt \in TablesAt(pos, m, PtsOf(s, {i}))
    BY <2>6, <2>7 DEF TablesAt
  <2>9. l \in Slot
    BY <1>1, <2>4, WayIs, IndexIs
  <2>10. ASSUME l = i, NEW k \in Slot, m.tab[pt][k] # None PROVE k >= l
    <3>1. PICK w \in UserPage : PtAt(s, w) = PtAt(s, v) /\ w % Width = k
      BY <1>1, <2>7, PtsArePages
    <3>2. TableOf(m, s, w) = pt
      BY <2>6, <3>1, TableOfIs DEF Forest, Placed
    <3>3. w \in Mapped(m, s)
      BY <2>5, <2>10, <3>1, <3>2 DEF Mapped, get_page_entry
    <3>4. Shifted(w, 1) = Shifted(v, 1)
      BY <1>1, <3>1, PtInjective
    <3>5. ~(w < v)
      BY <2>1, <2>3, <2>4, <2>10, <3>3, <3>4 DEF MissedAt
    <3>6. ~(k < l)
      BY <1>1, <2>4, <3>1, <3>4, <3>5, SamePtIs
    <3> QED
      BY <2>9, <3>6, WidthIs DEF Slot
  <2>11. p \in Freed(m, pt, i)
    BY <2>1, <2>5, <2>9, <2>10 DEF Freed, Slot
  <2> QED
    BY <2>7, <2>8, <2>11
<1> QED
  BY <1>2, <1>3, <1>4

SweptTablesAt(m, s, i) ==
  ({m.tab[s][i]} \ {None}) \cup Below(m, {m.tab[s][i]} \ {None})
    \cup Below(m, Below(m, {m.tab[s][i]} \ {None}))

SweptTables(m, s) == {s} \cup UNION {SweptTablesAt(m, s, i) : i \in UserSlot}

\* The terminator frees every table of the space.
LEMMA SweptTablesAre ==
  ASSUME NEW pos, NEW m, NEW S, Forest(pos, m, S), NEW s \in S
  PROVE  SweptTables(m, s) = TablesOf(pos, m, s)
<1>1. ASSUME NEW t
      PROVE  t \in SweptTables(m, s) <=> (t = s \/ \E i \in UserSlot : OnALevel(pos, m, s, i, t))
  <2>1. t \in SweptTables(m, s) <=> t = s \/ \E i \in UserSlot : t \in SweptTablesAt(m, s, i)
    BY DEF SweptTables
  <2>2. ASSUME NEW i \in UserSlot
        PROVE  OnALevel(pos, m, s, i, t) <=> t \in SweptTablesAt(m, s, i)
    BY LevelIs DEF OnALevel, SweptTablesAt
  <2> QED
    BY <2>1, <2>2
<1>2. PICK A : A = SweptTables(m, s)
  OBVIOUS
<1>3. PICK B : B = TablesOf(pos, m, s)
  OBVIOUS
<1>4. ASSUME NEW t PROVE t \in A <=> t \in B
  BY <1>1, <1>2, <1>3, TablesOfLevels
<1>5. A = B
  BY <1>4
<1> QED
  BY <1>2, <1>3, <1>5

\* What FreeSpace() changes.
LEMMA FreeSpaceShape ==
  ASSUME NEW m \in Memory, NEW s, NEW m2, m2 = FreeSpace(m, s)
  PROVE  /\ m2 \in Memory
         /\ m2.bitmap = m.bitmap \ (Valid \cap Swept(m, s))
         /\ m2.heap = m.heap \ SweptTables(m, s)
         /\ m2.tab = m.tab /\ m2.data = m.data
<1>1. PICK A : A = Swept(m, s)
  OBVIOUS
<1>2. PICK B : B = SweptTables(m, s)
  OBVIOUS
<1>3. m2 = [m EXCEPT !.bitmap = @ \ (Valid \cap A), !.heap = @ \ B]
  BY <1>1, <1>2, Zenon DEF FreeSpace, Swept, SweptAt, SweptTables, SweptTablesAt, UserSlot
<1>4. /\ m2 \in Memory /\ m2.bitmap = m.bitmap \ (Valid \cap A) /\ m2.heap = m.heap \ B
      /\ m2.tab = m.tab /\ m2.data = m.data
  BY <1>3 DEF Memory
<1> QED
  BY <1>1, <1>2, <1>4

\* The end of a space: its tables are free, and its pages except for those that
\* are forgotten, and the others are as they were.
LEMMA FreeSpaceIs ==
  ASSUME NEW m, NEW S, IsForest(m, S), NEW s \in S, NEW m2, m2 = FreeSpace(m, s)
  PROVE  /\ IsForest(m2, S \ {s}) /\ SameEntries(m, m2, S \ {s})
         /\ \A p \in Valid : p \in m2.bitmap <=>
              p \in m.bitmap /\ ~\E v \in UserPage : FreedAt(m, s, v, p)
         /\ m2.data = m.data /\ m2.tab[WindowTable] = m.tab[WindowTable]
<1>1. PICK pos : Forest(pos, m, S)
  BY DEF IsForest
<1>2. /\ m \in Memory /\ Placed(pos, m, S) /\ EntriesOK(pos, m) /\ Linked(pos, m, S) /\ KernelTables(m)
      /\ m.heap \subseteq PageHeap /\ pos \in [PageHeap -> Position]
  BY <1>1 DEF Forest, Memory, Placed
<1>3. /\ m2 \in Memory
      /\ m2.bitmap = m.bitmap \ (Valid \cap Swept(m, s))
      /\ m2.heap = m.heap \ TablesOf(pos, m, s)
      /\ m2.tab = m.tab /\ m2.data = m.data
  BY <1>1, <1>2, FreeSpaceShape, SweptTablesAre
<1>4. \A t : t \in m2.heap <=> t \in m.heap /\ pos[t].root # s
  BY <1>3 DEF TablesOf
<1>5. Placed(pos, m2, S \ {s})
  <2>1. \A r \in S : pos[r].root = r /\ r \in m.heap
    BY <1>2, RootIs DEF Placed
  <2>2. S \ {s} \subseteq m2.heap /\ s \notin m2.heap
    BY <1>4, <2>1
  <2>3. \A t \in m2.heap : pos[t].lev = 3 <=> t \in S \ {s}
    BY <1>2, <1>4, <2>2 DEF Placed
  <2>4. \A r \in S \ {s} : pos[r] = RootAt(r) /\ m2.tab[r][Width - 1] = KPDPT
    BY <1>2, <1>3 DEF Placed
  <2>5. \A t, u \in m2.heap : pos[t] = pos[u] => t = u
    BY <1>2, <1>4 DEF Placed
  <2> QED
    BY <1>2, <2>2, <2>3, <2>4, <2>5 DEF Placed
<1>6. ASSUME NEW t \in m.heap, NEW i, HasChild(pos[t], i), m.tab[t][i] \in m.heap,
             pos[m.tab[t][i]] = Child(pos[t], i)
      PROVE  pos[m.tab[t][i]].root = pos[t].root
  BY <1>2, <1>6, ChildIs
<1>7. EntriesOK(pos, m2)
  <2> SUFFICES ASSUME NEW t \in m2.heap, NEW i \in Slot
               PROVE  /\ HasChild(pos[t], i) =>
                           \/ m2.tab[t][i] = None
                           \/ m2.tab[t][i] \in m2.heap /\ pos[m2.tab[t][i]] = Child(pos[t], i)
                      /\ pos[t].lev = 0 => m2.tab[t][i] \in {None} \cup Page
    BY DEF EntriesOK
  <2>1. t \in m.heap /\ pos[t].root # s
    BY <1>4
  <2>2. /\ HasChild(pos[t], i) => \/ m.tab[t][i] = None
                                  \/ m.tab[t][i] \in m.heap /\ pos[m.tab[t][i]] = Child(pos[t], i)
        /\ pos[t].lev = 0 => m.tab[t][i] \in {None} \cup Page
    BY <1>2, <2>1 DEF EntriesOK
  <2> QED
    BY <1>3, <1>4, <1>6, <2>1, <2>2
<1>8. Linked(pos, m2, S \ {s})
  <2> SUFFICES ASSUME NEW t \in m2.heap \ (S \ {s})
               PROVE  \E u \in m2.heap : \E i \in Slot : HasChild(pos[u], i) /\ m2.tab[u][i] = t
    BY DEF Linked
  <2>1. t \in m.heap \ S /\ pos[t].root # s
    BY <1>2, <1>4, RootIs DEF Placed
  <2>2. PICK u \in m.heap, i \in Slot : HasChild(pos[u], i) /\ m.tab[u][i] = t
    BY <1>2, <2>1 DEF Linked
  <2>3. pos[t] = Child(pos[u], i)
    BY <1>2, <2>1, <2>2, StructIs DEF EntriesOK
  <2>4. pos[t].root = pos[u].root
    BY <1>6, <2>1, <2>2, <2>3
  <2> QED
    BY <1>3, <1>4, <2>1, <2>2, <2>4
<1>9. KernelTables(m2)
  BY <1>2, <1>3 DEF KernelTables
<1>10. IsForest(m2, S \ {s})
  BY <1>3, <1>5, <1>7, <1>8, <1>9 DEF IsForest, Forest
<1>11. SameEntries(m, m2, S \ {s})
  BY <1>3 DEF SameEntries, get_page_entry, TableOf
<1>12. \A p \in Valid : p \in m2.bitmap <=> p \in m.bitmap /\ p \notin Swept(m, s)
  BY <1>3
<1>13. \A p \in Valid : p \in m2.bitmap <=>
         p \in m.bitmap /\ ~\E v \in UserPage : FreedAt(m, s, v, p)
  BY <1>1, <1>12, SweptIs
<1> QED
  BY <1>3, <1>10, <1>11, <1>13

\* The pages that are not reserved.
Common == Valid \ (0 .. Reserved - 1)

\* A page that is not reserved is marked if and only if some space maps it or it
\* was forgotten, and no two places map it; any other page that is mapped is
\* reserved.
Owned(m, S, L) ==
  /\ \A p \in Common : p \in m.bitmap /\ p \notin L <=> \E s \in S, v \in UserPage : get_page_entry(m, s, v) = p
  /\ \A p \in Common : p \in L => p \in m.bitmap
  /\ \A s, r \in S : \A v, w \in UserPage :
       /\ get_page_entry(m, s, v) \in Common
       /\ get_page_entry(m, s, v) = get_page_entry(m, r, w)
       => s = r /\ v = w
  /\ \A s \in S, v \in UserPage :
       get_page_entry(m, s, v) \in {None} \cup Common \cup (0 .. Reserved - 1)

Good(m, S, L) == IsForest(m, S) /\ Owned(m, S, L)

\* The pages are numbers, and each is reserved or not.
LEMMA PagesAre ==
  /\ NumPages \in Nat /\ Reserved \in Nat /\ Reserved > 0 /\ Reserved <= NumPages
  /\ Valid \subseteq Page /\ Page \subseteq Nat /\ None \notin Nat
  /\ Common \subseteq Page /\ (0 .. Reserved - 1) \subseteq Page /\ 0 \in Page
  /\ \A p \in Common : p >= Reserved
  /\ \A p \in Valid : p \in Common \/ p \in 0 .. Reserved - 1
BY PageFramesAssumption DEF Page, Common, None

\* The pages of a run become used: they were free or are reserved.
Takes(m, b, pp, n) ==
  /\ b \subseteq Page /\ pp \in Nat
  /\ \A q \in pp .. pp + n - 1 : q \in Common \cup (0 .. Reserved - 1)
  /\ \A q \in Common : /\ q \in b <=> (q \in m.bitmap \/ q \in pp .. pp + n - 1)
                       /\ q \in pp .. pp + n - 1 => q \notin m.bitmap

\* allocpp() takes a free page, or page 0 if there is none.
LEMMA AllocppTakes ==
  ASSUME NEW m \in Memory, NEW pp, pp = allocpp(m.bitmap)
  PROVE  pp \in Page /\ Takes(m, setppUsed(m.bitmap, pp, TRUE), pp, 1)
<1> DEFINE free == {p \in Page : ~isppUsed(m.bitmap, p)}
<1>1. (pp = 0 /\ free = {}) \/ pp \in free
  <2>1. pp = IF free = {} THEN 0 ELSE CHOOSE p \in free : \A q \in free : p <= q
    BY Zenon DEF allocpp
  <2>2. free # {} => \E p \in free : \A q \in free : p <= q
    BY LeastNat, PagesAre
  <2> HIDE DEF free
  <2> QED
    BY <2>1, <2>2
<1>2. pp \in Page /\ pp \in Nat
  BY <1>1, PagesAre
<1>3. m.bitmap \subseteq Page
  BY DEF Memory
<1>4. PICK b : b = setppUsed(m.bitmap, pp, TRUE)
  OBVIOUS
<1>5. b = IF pp \in Valid THEN m.bitmap \cup {pp} ELSE m.bitmap
  BY <1>4 DEF setppUsed
<1>6. pp \in 0 .. Reserved - 1 \/ (pp \in Common /\ pp \notin m.bitmap)
  <2>1. pp = 0 => pp \in 0 .. Reserved - 1
    BY PagesAre
  <2>2. pp \in free => pp \in Valid /\ pp \notin m.bitmap
    BY DEF isppUsed
  <2> QED
    BY <1>1, <2>1, <2>2, PagesAre
<1>7. pp .. pp + 1 - 1 = {pp}
  BY <1>2
<1>8. \A q \in Common : q \in Valid /\ q \notin 0 .. Reserved - 1
  BY DEF Common
<1>9. Takes(m, b, pp, 1)
  BY <1>2, <1>3, <1>5, <1>6, <1>7, <1>8 DEF Takes
<1> QED
  BY <1>2, <1>4, <1>9

\* allocpps() takes free pages, or those from 0 on, which are reserved.
LEMMA AllocppsTakes ==
  ASSUME NEW m \in Memory, NEW n \in Nat, n <= Reserved, NEW pp, pp = allocpps(m.bitmap, n)
  PROVE  Takes(m, Marked(m.bitmap, pp, n), pp, n)
<1> DEFINE fits == {p \in Page : \A q \in p .. p + n - 1 : ~isppUsed(m.bitmap, q)}
<1>1. \/ pp \in fits
      \/ pp = 0 /\ fits = {}
  <2>1. pp = FirstFit(m.bitmap, n)
    BY AllocppsIsFirstFit
  <2>2. pp = IF fits = {} THEN 0 ELSE CHOOSE p \in fits : \A q \in fits : p <= q
    BY <2>1, Zenon DEF FirstFit
  <2>3. fits # {} => \E p \in fits : \A q \in fits : p <= q
    BY LeastNat, PagesAre
  <2> HIDE DEF fits
  <2> QED
    BY <2>2, <2>3
<1>2. pp \in Page /\ pp \in Nat /\ m.bitmap \subseteq Page
  BY <1>1, PagesAre DEF Memory
<1>3. PICK run : run = pp .. pp + n - 1
  OBVIOUS
<1>4. PICK b : b = Marked(m.bitmap, pp, n)
  OBVIOUS
<1>5. b = IF \A q \in run : ~isppUsed(m.bitmap, q) THEN m.bitmap \cup run ELSE m.bitmap
  BY <1>3, <1>4 DEF Marked
<1>6. CASE pp \in fits
  <2>1. \A q \in run : q \in Valid /\ q \notin m.bitmap
    BY <1>3, <1>6 DEF isppUsed
  <2>2. b = m.bitmap \cup run
    BY <1>5, <2>1 DEF isppUsed
  <2>3. run \subseteq Page /\ \A q \in run : q \in Common \cup (0 .. Reserved - 1)
    BY <2>1, PagesAre
  <2> HIDE DEF fits
  <2>4. Takes(m, b, pp, n)
    BY <1>2, <1>3, <2>1, <2>2, <2>3 DEF Takes
  <2> QED
    BY <1>4, <2>4
<1>7. CASE pp = 0 /\ fits = {}
  <2>1. ~\A q \in run : ~isppUsed(m.bitmap, q)
    BY <1>2, <1>3, <1>7
  <2>2. b = m.bitmap
    BY <1>5, <2>1
  <2>3. \A q \in run : q \in 0 .. Reserved - 1
    BY <1>3, <1>7, PagesAre
  <2>4. \A q \in Common : q \notin run
    BY <2>3, PagesAre DEF Common
  <2> HIDE DEF fits
  <2>5. Takes(m, b, pp, n)
    BY <1>2, <1>3, <2>2, <2>3, <2>4 DEF Takes
  <2> QED
    BY <1>4, <2>5
<1> QED
  BY <1>1, <1>6, <1>7

WithBitmap(m, b) == [m EXCEPT !.bitmap = b]

WithData(m, d) == [m EXCEPT !.data = d]

NewEntries(m, m2, S, s, vp, n, pp) ==
  \A r \in S, w \in UserPage :
    get_page_entry(m2, r, w) =
      IF r = s /\ w \in vp .. vp + n - 1 THEN pp + (w - vp) ELSE get_page_entry(m, r, w)

\* Changes of the bitmap and of the contents leave the tables alone.
LEMMA WithIs ==
  ASSUME NEW m, NEW S, IsForest(m, S), NEW b, b \subseteq Page, NEW d \in [Page -> Value]
  PROVE  /\ SameBelow(m, WithBitmap(m, b)) /\ WithBitmap(m, b).bitmap = b
         /\ WithBitmap(m, b).data = m.data
         /\ WithBitmap(m, b).tab[WindowTable] = m.tab[WindowTable]
         /\ SameBelow(m, WithData(m, d)) /\ WithData(m, d).bitmap = m.bitmap
         /\ WithData(m, d).data = d /\ WithData(m, d).tab[WindowTable] = m.tab[WindowTable]
<1>1. m \in Memory /\ KernelTables(m)
  BY ForestIs
<1>2. /\ WithBitmap(m, b) \in Memory /\ WithBitmap(m, b).bitmap = b /\ WithBitmap(m, b).heap = m.heap
      /\ WithBitmap(m, b).tab = m.tab /\ WithBitmap(m, b).data = m.data
  BY <1>1 DEF WithBitmap, Memory
<1>3. /\ WithData(m, d) \in Memory /\ WithData(m, d).bitmap = m.bitmap /\ WithData(m, d).heap = m.heap
      /\ WithData(m, d).tab = m.tab /\ WithData(m, d).data = d
  BY <1>1 DEF WithData, Memory
<1>4. \A i \in Slot : m.tab[WindowTable][i] \in {None} \cup Page
  BY <1>1 DEF KernelTables
<1> QED
  BY <1>2, <1>3, <1>4 DEF SameBelow

\* Steps that leave bitmap and tables of the spaces alone.
LEMMA SameGood ==
  ASSUME NEW m, NEW S, NEW L, Good(m, S, L), NEW m2, SameBelow(m, m2), m2.bitmap = m.bitmap
  PROVE  Good(m2, S, L) /\ SameEntries(m, m2, S) /\ Room(m2) = Room(m)
<1>1. IsForest(m2, S) /\ SameEntries(m, m2, S) /\ Room(m2) = Room(m)
  BY SameBelowForest DEF Good
<1>2. Owned(m2, S, L)
  BY <1>1 DEF Good, Owned, SameEntries
<1> QED
  BY <1>1, <1>2 DEF Good

\* A run of pages is taken and mapped.
LEMMA TakeAndMap ==
  ASSUME NEW m, NEW S, NEW L, Good(m, S, L), NEW s \in S, NEW n \in Nat, NEW b, NEW pp, Takes(m, b, pp, n),
         NEW vp \in UserPage,
         \A w \in vp .. vp + n - 1 :
           w \in UserPage /\ get_page_entry(m, s, w) = None,
         Room(m) >= 3 * (n + 1),
         NEW m2, m2 = map_memory(WithBitmap(m, b), pp, vp, n, s)
  PROVE  /\ Good(m2, S, L) /\ NewEntries(m, m2, S, s, vp, n, pp)
         /\ m2.bitmap = b /\ m2.data = m.data
         /\ m2.tab[WindowTable] = m.tab[WindowTable]
         /\ Room(m2) >= Room(m) - 3 * (n + 1)
<1>1. IsForest(m, S) /\ m \in Memory
  BY ForestIs DEF Good
<1>2. PICK m1 : m1 = WithBitmap(m, b)
  OBVIOUS
<1>3. /\ SameBelow(m, m1) /\ m1.bitmap = b /\ m1.data = m.data
      /\ m1.tab[WindowTable] = m.tab[WindowTable]
  <2>1. b \subseteq Page /\ m.data \in [Page -> Value]
    BY <1>1 DEF Takes, Memory
  <2> QED
    BY <1>1, <1>2, <2>1, WithIs
<1>4. IsForest(m1, S) /\ SameEntries(m, m1, S) /\ Room(m1) = Room(m)
  BY <1>1, <1>3, SameBelowForest
<1>5. pp \in Nat /\ vp \in Nat
  BY WayIs, UserPageIs DEF Takes, UserPage
<1>6. \A k \in 1 .. n : vp + k - 1 \in UserPage /\ pp + k - 1 \in Page
  <2> SUFFICES ASSUME NEW k \in 1 .. n PROVE vp + k - 1 \in UserPage /\ pp + k - 1 \in Page
    OBVIOUS
  <2>1. vp + k - 1 \in vp .. vp + n - 1 /\ pp + k - 1 \in pp .. pp + n - 1
    BY <1>5
  <2> QED
    BY <2>1, PagesAre DEF Takes
<1>7. IsForest(m2, S) /\ Maps(m1, m2, S, s, vp, n, pp) /\ Room(m2) >= Room(m1) - 3 * (n + 1)
  BY <1>2, <1>4, <1>5, <1>6, MapUser
<1>8. NewEntries(m, m2, S, s, vp, n, pp)
  BY <1>4, <1>7 DEF Maps, NewEntries, SameEntries
<1>9. m2.bitmap = b /\ m2.data = m.data /\ m2.tab[WindowTable] = m.tab[WindowTable]
  BY <1>3, <1>7 DEF Maps
<1>10. ASSUME NEW w \in vp .. vp + n - 1
       PROVE  w \in UserPage /\ get_page_entry(m2, s, w) = pp + (w - vp)
              /\ pp + (w - vp) \in pp .. pp + n - 1
  <2>1. w \in UserPage
    OBVIOUS
  <2>2. pp + (w - vp) \in pp .. pp + n - 1
    BY <1>5
  <2> QED
    BY <1>8, <2>1, <2>2 DEF NewEntries
<1>11. ASSUME NEW q \in pp .. pp + n - 1
       PROVE  \E w \in vp .. vp + n - 1 : get_page_entry(m2, s, w) = q
  <2>1. PICK w : w = vp + (q - pp)
    OBVIOUS
  <2>2. w \in vp .. vp + n - 1 /\ pp + (w - vp) = q
    BY <1>5, <2>1
  <2> QED
    BY <1>10, <2>2
\* Whatever is not new was there before, and is none of the new pages.
<1>12. ASSUME NEW r \in S, NEW w \in UserPage, ~(r = s /\ w \in vp .. vp + n - 1)
       PROVE  /\ get_page_entry(m2, r, w) = get_page_entry(m, r, w)
              /\ get_page_entry(m2, r, w) \in Common => get_page_entry(m2, r, w) \notin pp .. pp + n - 1
  <2>1. get_page_entry(m2, r, w) = get_page_entry(m, r, w)
    BY <1>8, <1>12 DEF NewEntries
  <2>2. get_page_entry(m, r, w) \in Common => get_page_entry(m, r, w) \in m.bitmap
    BY DEF Good, Owned
  <2> QED
    BY <2>1, <2>2 DEF Takes
<1>13. ASSUME NEW r \in S, NEW w \in UserPage
       PROVE  get_page_entry(m2, r, w) \in {None} \cup Common \cup (0 .. Reserved - 1)
  <2>1. CASE r = s /\ w \in vp .. vp + n - 1
    BY <1>10, <2>1 DEF Takes
  <2>2. CASE ~(r = s /\ w \in vp .. vp + n - 1)
    BY <1>12, <2>2 DEF Good, Owned
  <2> QED
    BY <2>1, <2>2
<1>14. ASSUME NEW p \in Common
       PROVE  /\ p \in b /\ p \notin L <=> \E r \in S, w \in UserPage : get_page_entry(m2, r, w) = p
              /\ p \in L => p \in b
  <2>1. /\ p \in b <=> (p \in m.bitmap \/ p \in pp .. pp + n - 1)
        /\ p \in pp .. pp + n - 1 => p \notin m.bitmap
        /\ p \in L => p \in m.bitmap
    BY DEF Takes, Good, Owned
  <2>2. ASSUME p \in m.bitmap, p \notin L PROVE \E r \in S, w \in UserPage : get_page_entry(m2, r, w) = p
    <3>1. PICK r \in S, w \in UserPage : get_page_entry(m, r, w) = p
      BY <2>2 DEF Good, Owned
    <3>2. p # None
      BY PagesAre
    <3>3. ~(r = s /\ w \in vp .. vp + n - 1)
      BY <3>1, <3>2
    <3> QED
      BY <1>12, <3>1, <3>3
  <2>3. ASSUME p \in pp .. pp + n - 1 PROVE \E r \in S, w \in UserPage : get_page_entry(m2, r, w) = p
    BY <1>10, <1>11, <2>3
  <2>4. ASSUME NEW r \in S, NEW w \in UserPage, get_page_entry(m2, r, w) = p
        PROVE  (p \in m.bitmap /\ p \notin L) \/ p \in pp .. pp + n - 1
    <3>1. CASE r = s /\ w \in vp .. vp + n - 1
      BY <1>10, <2>4, <3>1
    <3>2. CASE ~(r = s /\ w \in vp .. vp + n - 1)
      BY <1>12, <2>4, <3>2 DEF Good, Owned
    <3> QED
      BY <3>1, <3>2
  <2> QED
    BY <2>1, <2>2, <2>3, <2>4
<1>15. ASSUME NEW q \in S, NEW r \in S, NEW v \in UserPage, NEW w \in UserPage,
              get_page_entry(m2, q, v) \in Common, get_page_entry(m2, q, v) = get_page_entry(m2, r, w)
       PROVE  q = r /\ v = w
  <2>1. CASE (q = s /\ v \in vp .. vp + n - 1) /\ (r = s /\ w \in vp .. vp + n - 1)
    <3>1. pp + (v - vp) = pp + (w - vp)
      BY <1>10, <1>15, <2>1
    <3>2. v = w
      BY <1>5, <2>1, <3>1
    <3> QED
      BY <2>1, <3>2
  <2>2. CASE (q = s /\ v \in vp .. vp + n - 1) /\ ~(r = s /\ w \in vp .. vp + n - 1)
    BY <1>10, <1>12, <1>15, <2>2
  <2>3. CASE ~(q = s /\ v \in vp .. vp + n - 1) /\ (r = s /\ w \in vp .. vp + n - 1)
    BY <1>10, <1>12, <1>15, <2>3
  <2>4. CASE ~(q = s /\ v \in vp .. vp + n - 1) /\ ~(r = s /\ w \in vp .. vp + n - 1)
    BY <1>12, <1>15, <2>4 DEF Good, Owned
  <2> QED
    BY <2>1, <2>2, <2>3, <2>4
<1>16. Owned(m2, S, L)
  BY <1>9, <1>13, <1>14, <1>15 DEF Owned
<1> QED
  BY <1>4, <1>7, <1>8, <1>9, <1>16 DEF Good

\* A page that is not reserved is mapped in one place.
LEMMA OwnedOnce ==
  ASSUME NEW m, NEW S, NEW L, Good(m, S, L), NEW s \in S, NEW r \in S, NEW v \in UserPage, NEW w \in UserPage,
         NEW p \in Common, get_page_entry(m, s, v) = p, get_page_entry(m, r, w) = p
  PROVE  s = r /\ v = w
BY DEF Good, Owned

\* A blank space maps nothing.
LEMMA BlankGood ==
  ASSUME NEW m, NEW S, NEW L, Good(m, S, L), Room(m) > 0, NEW N, N = NewStruct(m), NEW m2, m2 = BlankSpace(m)
  PROVE  /\ Good(m2, S \cup {N}, L) /\ N \notin S /\ N \in PageHeap
         /\ m2.data = m.data /\ m2.tab[WindowTable] = m.tab[WindowTable]
         /\ SameEntries(m, m2, S)
         /\ \A v \in UserPage : get_page_entry(m2, N, v) = None
         /\ Room(m2) = Room(m) - 1
<1>1. /\ IsForest(m2, S \cup {N}) /\ N \notin S /\ N \in PageHeap
      /\ m2.bitmap = m.bitmap /\ m2.data = m.data
      /\ m2.tab[WindowTable] = m.tab[WindowTable]
      /\ SameEntries(m, m2, S)
      /\ \A v \in UserPage : get_page_entry(m2, N, v) = None
      /\ Room(m2) = Room(m) - 1
  <2>1. IsForest(m, S)
    BY DEF Good
  <2> QED
    BY <2>1, BlankIs
<1>2. None \notin Common
  BY PagesAre
<1>3. ASSUME NEW p \in Common
      PROVE  /\ p \in m2.bitmap /\ p \notin L <=>
                  \E s \in S \cup {N}, v \in UserPage : get_page_entry(m2, s, v) = p
             /\ p \in L => p \in m2.bitmap
  <2>1. /\ p \in m.bitmap /\ p \notin L <=> \E s \in S, v \in UserPage : get_page_entry(m, s, v) = p
        /\ p \in L => p \in m.bitmap
    BY DEF Good, Owned
  <2> QED
    BY <1>1, <1>2, <2>1 DEF SameEntries
<1>4. ASSUME NEW s \in S \cup {N}, NEW r \in S \cup {N}, NEW v \in UserPage, NEW w \in UserPage,
             get_page_entry(m2, s, v) \in Common, get_page_entry(m2, s, v) = get_page_entry(m2, r, w)
      PROVE  s = r /\ v = w
  <2>1. s \in S /\ r \in S
    BY <1>1, <1>2, <1>4
  <2>2. /\ get_page_entry(m2, s, v) = get_page_entry(m, s, v)
        /\ get_page_entry(m2, r, w) = get_page_entry(m, r, w)
    BY <1>1, <2>1 DEF SameEntries
  <2>3. PICK p \in Common : p = get_page_entry(m2, s, v)
    BY <1>4
  <2>4. get_page_entry(m, s, v) = p /\ get_page_entry(m, r, w) = p
    BY <1>4, <2>2, <2>3
  <2> QED
    BY <2>1, <2>4, OwnedOnce
<1>5. ASSUME NEW s \in S \cup {N}, NEW v \in UserPage
      PROVE  get_page_entry(m2, s, v) \in {None} \cup Common \cup (0 .. Reserved - 1)
  BY <1>1 DEF Good, Owned, SameEntries
<1>6. Owned(m2, S \cup {N}, L)
  BY <1>3, <1>4, <1>5 DEF Owned
<1> QED
  BY <1>1, <1>6 DEF Good

\* The end of a space leaves the other spaces and their pages alone, and what is
\* not freed is forgotten.
LEMMA FreeGood ==
  ASSUME NEW m, NEW S, NEW L, Good(m, S, L), NEW s \in S, NEW m2, m2 = FreeSpace(m, s),
         NEW M, M = L \cup Missed(m, s)
  PROVE  /\ Good(m2, S \ {s}, M) /\ SameEntries(m, m2, S \ {s}) /\ Missed(m, s) \subseteq Page
         /\ m2.data = m.data /\ m2.tab[WindowTable] = m.tab[WindowTable]
<1>1. /\ IsForest(m2, S \ {s}) /\ SameEntries(m, m2, S \ {s})
      /\ \A p \in Valid : p \in m2.bitmap <=>
           p \in m.bitmap /\ ~\E v \in UserPage : FreedAt(m, s, v, p)
      /\ m2.data = m.data /\ m2.tab[WindowTable] = m.tab[WindowTable]
  <2>1. IsForest(m, S)
    BY DEF Good
  <2> QED
    BY <2>1, FreeSpaceIs
<1>2. \A p \in Common : p \in Valid /\ p # None
  BY PagesAre DEF Common
<1>3. ASSUME NEW p
      PROVE  p \in Missed(m, s) <=>
               \E v \in UserPage : get_page_entry(m, s, v) = p /\ p # None /\ MissedAt(m, s, v)
  <2>1. PICK A : A = Mapped(m, s)
    OBVIOUS
  <2>2. Missed(m, s) = {get_page_entry(m, s, v) : v \in {v \in A : MissedAt(m, s, v)}}
    BY <2>1 DEF Missed, MissedAt
  <2>3. p \in Missed(m, s) <=> \E v \in A : MissedAt(m, s, v) /\ p = get_page_entry(m, s, v)
    BY <2>2
  <2>4. \A v : v \in A <=> v \in UserPage /\ get_page_entry(m, s, v) # None
    BY <2>1 DEF Mapped
  <2> QED
    BY <2>3, <2>4
<1>4. ASSUME NEW p \in Common
      PROVE  /\ p \in m2.bitmap /\ p \notin M <=> \E r \in S \ {s}, v \in UserPage : get_page_entry(m2, r, v) = p
             /\ p \in M => p \in m2.bitmap
  <2>1. /\ p \in m.bitmap /\ p \notin L <=> \E r \in S, v \in UserPage : get_page_entry(m, r, v) = p
        /\ p \in L => p \in m.bitmap
    BY DEF Good, Owned
  <2>2. p \in m2.bitmap <=> p \in m.bitmap /\ ~\E v \in UserPage : FreedAt(m, s, v, p)
    BY <1>1, <1>2
  <2>3. (\E v \in UserPage : get_page_entry(m, s, v) = p)
          <=> p \in Missed(m, s) \/ \E v \in UserPage : FreedAt(m, s, v, p)
    BY <1>2, <1>3 DEF FreedAt
  <2>4. ~(p \in Missed(m, s) /\ \E v \in UserPage : FreedAt(m, s, v, p))
    <3> SUFFICES ASSUME p \in Missed(m, s), NEW v \in UserPage, FreedAt(m, s, v, p) PROVE FALSE
      OBVIOUS
    <3>1. PICK w \in UserPage : get_page_entry(m, s, w) = p /\ MissedAt(m, s, w)
      BY <1>3
    <3>2. get_page_entry(m, s, v) = p /\ ~MissedAt(m, s, v)
      BY DEF FreedAt
    <3> QED
      BY <3>1, <3>2, OwnedOnce
  <2>5. ASSUME p \in m2.bitmap, p \notin M
        PROVE  \E r \in S \ {s}, v \in UserPage : get_page_entry(m2, r, v) = p
    <3>1. PICK r \in S, v \in UserPage : get_page_entry(m, r, v) = p
      BY <2>1, <2>2, <2>5
    <3>2. r # s
      BY <2>2, <2>3, <2>5, <3>1
    <3> QED
      BY <1>1, <3>1, <3>2 DEF SameEntries
  <2>6. ASSUME NEW r \in S \ {s}, NEW v \in UserPage, get_page_entry(m2, r, v) = p
        PROVE  p \in m2.bitmap /\ p \notin M
    <3>1. get_page_entry(m, r, v) = p
      BY <1>1, <2>6 DEF SameEntries
    <3>2. p \in m.bitmap /\ p \notin L
      BY <2>1, <3>1
    <3>3. ~\E w \in UserPage : get_page_entry(m, s, w) = p
      BY <3>1, OwnedOnce
    <3> QED
      BY <2>2, <2>3, <3>2, <3>3
  <2>7. ASSUME p \in M PROVE p \in m2.bitmap
    <3>1. CASE p \in L
      BY <2>1, <2>2, <2>3, <3>1
    <3>2. CASE p \in Missed(m, s)
      BY <2>1, <2>2, <2>3, <2>4, <3>2
    <3> QED
      BY <2>7, <3>1, <3>2
  <2> QED
    BY <2>5, <2>6, <2>7
<1>5. ASSUME NEW q \in S \ {s}, NEW r \in S \ {s}, NEW v \in UserPage, NEW w \in UserPage,
             get_page_entry(m2, q, v) \in Common, get_page_entry(m2, q, v) = get_page_entry(m2, r, w)
      PROVE  q = r /\ v = w
  <2>1. /\ get_page_entry(m2, q, v) = get_page_entry(m, q, v)
        /\ get_page_entry(m2, r, w) = get_page_entry(m, r, w)
    BY <1>1 DEF SameEntries
  <2>2. PICK p \in Common : p = get_page_entry(m2, q, v)
    BY <1>5
  <2>3. get_page_entry(m, q, v) = p /\ get_page_entry(m, r, w) = p
    BY <1>5, <2>1, <2>2
  <2> QED
    BY <2>3, OwnedOnce
<1>6. ASSUME NEW r \in S \ {s}, NEW v \in UserPage
      PROVE  get_page_entry(m2, r, v) \in {None} \cup Common \cup (0 .. Reserved - 1)
  BY <1>1 DEF Good, Owned, SameEntries
<1>7. Owned(m2, S \ {s}, M)
  BY <1>5, <1>6, <1>4 DEF Owned
<1>8. ASSUME NEW p \in Missed(m, s) PROVE p \in Page
  <2>1. PICK v \in UserPage : get_page_entry(m, s, v) = p /\ p # None
    BY <1>3
  <2>2. get_page_entry(m, s, v) \in {None} \cup Common \cup (0 .. Reserved - 1)
    BY DEF Good, Owned
  <2> QED
    BY <2>1, <2>2, PagesAre
<1> QED
  BY <1>1, <1>7, <1>8 DEF Good

-----------------------------------------------------------------------------
\* A new page for an address.
LEMMA MapNewIs ==
  ASSUME NEW m, NEW S, NEW L, Good(m, S, L), NEW s \in S, NEW vp \in UserPage,
         get_page_entry(m, s, vp) = None,
         Room(m) >= 6,
         NEW m2, m2 = MapNew(m, vp, s)
  PROVE  \E pp \in Page :
           /\ pp = allocpp(m.bitmap)
           /\ Good(m2, S, L) /\ NewEntries(m, m2, S, s, vp, 1, pp)
           /\ m2.data = m.data /\ m2.tab[WindowTable] = m.tab[WindowTable]
           /\ Room(m2) >= Room(m) - 6
<1>1. m \in Memory
  BY ForestIs DEF Good
<1>2. PICK pp : pp = allocpp(m.bitmap)
  OBVIOUS
<1>3. PICK b : b = setppUsed(m.bitmap, pp, TRUE)
  OBVIOUS
<1>4. pp \in Page /\ Takes(m, b, pp, 1)
  BY <1>1, <1>2, <1>3, AllocppTakes
<1>5. m2 = map_memory(WithBitmap(m, b), pp, vp, 1, s)
  BY <1>2, <1>3 DEF MapNew, WithBitmap
<1>6. vp \in Nat /\ vp .. vp + 1 - 1 = {vp}
  <2>1. vp \in Nat
    BY DEF UserPage
  <2> QED
    BY <2>1
<1>7. /\ Good(m2, S, L) /\ NewEntries(m, m2, S, s, vp, 1, pp)
      /\ m2.data = m.data /\ m2.tab[WindowTable] = m.tab[WindowTable]
      /\ Room(m2) >= Room(m) - 3 * (1 + 1)
  <2>1. 1 \in Nat /\ Room(m) >= 3 * (1 + 1)
    OBVIOUS
  <2>2. \A w \in vp .. vp + 1 - 1 : w \in UserPage /\ get_page_entry(m, s, w) = None
    BY <1>6
  <2> QED
    BY <1>4, <1>5, <2>1, <2>2, TakeAndMap
<1> QED
  BY <1>2, <1>4, <1>7

\* What is new is one entry.
LEMMA OneEntry ==
  ASSUME NEW m, NEW m2, NEW S, NEW s, NEW vp \in UserPage, NEW pp \in Page,
         NewEntries(m, m2, S, s, vp, 1, pp)
  PROVE  \A r \in S, w \in UserPage :
           get_page_entry(m2, r, w) = IF r = s /\ w = vp THEN pp ELSE get_page_entry(m, r, w)
<1>1. vp \in Nat /\ pp \in Nat
  BY PagesAre DEF UserPage
<1>2. vp .. vp + 1 - 1 = {vp} /\ pp + (vp - vp) = pp
  BY <1>1
<1> QED
  BY <1>2 DEF NewEntries

\* create_address_space(): the two stacks are mapped.
LEMMA CreateIs ==
  ASSUME NEW m, NEW S, NEW L, Good(m, S, L), Room(m) >= SpaceStructs, NEW N, N = NewStruct(m),
         NEW m2, m2 = create_address_space(m)
  PROVE  /\ Good(m2, S \cup {N}, L) /\ N \notin S /\ N \in PageHeap
         /\ m2.data = m.data /\ m2.tab[WindowTable] = m.tab[WindowTable]
         /\ SameEntries(m, m2, S)
         /\ \A v \in UserPage : get_page_entry(m2, N, v) # None <=> v \in {UserStack, KernelStack}
<1>1. PICK a : a = BlankSpace(m)
  OBVIOUS
<1>2. Room(m) \in Nat /\ Room(m) >= 13
  BY FreeStructsIs DEF SpaceStructs
<1>3. /\ Good(a, S \cup {N}, L) /\ N \notin S /\ N \in PageHeap
      /\ a.data = m.data /\ a.tab[WindowTable] = m.tab[WindowTable]
      /\ SameEntries(m, a, S)
      /\ \A v \in UserPage : get_page_entry(a, N, v) = None
      /\ Room(a) = Room(m) - 1
  <2>1. Room(m) > 0
    BY <1>2
  <2> QED
    BY <1>1, <2>1, BlankGood
<1>4. PICK T : T = S \cup {N}
  OBVIOUS
<1>5. PICK c : c = MapNew(a, UserStack, N)
  OBVIOUS
<1>6. PICK p \in Page :
        /\ Good(c, T, L) /\ NewEntries(a, c, T, N, UserStack, 1, p)
        /\ c.data = a.data /\ c.tab[WindowTable] = a.tab[WindowTable]
        /\ Room(c) >= Room(a) - 6
  <2>1. Room(a) >= 6
    BY <1>2, <1>3
  <2> QED
    BY <1>3, <1>4, <1>5, <2>1, MapNewIs, StacksAre
<1>7. \A r \in T, w \in UserPage :
        get_page_entry(c, r, w) = IF r = N /\ w = UserStack THEN p ELSE get_page_entry(a, r, w)
  BY <1>6, OneEntry, StacksAre
<1>8. m2 = MapNew(c, KernelStack, N)
  BY <1>1, <1>5 DEF create_address_space
<1>9. PICK q \in Page :
        /\ Good(m2, T, L) /\ NewEntries(c, m2, T, N, KernelStack, 1, q)
        /\ m2.data = c.data /\ m2.tab[WindowTable] = c.tab[WindowTable]
  <2>1. Room(c) >= 6
    <3>1. Room(c) \in Nat
      BY FreeStructsIs
    <3> QED
      BY <1>2, <1>3, <1>6, <3>1
  <2>2. get_page_entry(c, N, KernelStack) = None
    BY <1>3, <1>4, <1>7, StacksAre
  <2> QED
    BY <1>4, <1>6, <1>8, <2>1, <2>2, MapNewIs, StacksAre
<1>10. \A r \in T, w \in UserPage :
        get_page_entry(m2, r, w) = IF r = N /\ w = KernelStack THEN q ELSE get_page_entry(c, r, w)
  BY <1>9, OneEntry, StacksAre
<1>11. SameEntries(m, m2, S)
  BY <1>3, <1>4, <1>7, <1>10 DEF SameEntries
<1>12. ASSUME NEW v \in UserPage
       PROVE  get_page_entry(m2, N, v) # None <=> v \in {UserStack, KernelStack}
  <2>1. p # None /\ q # None
    BY PagesAre
  <2> QED
    BY <1>3, <1>4, <1>7, <1>10, <2>1
<1> QED
  BY <1>3, <1>4, <1>6, <1>9, <1>11, <1>12

\* Nothing is mapped at the window but the first n pages.
WindowOnly(m, n) == \A j \in Slot : j >= n => m.tab[WindowTable][j] = None

\* Below the limit of a program are pages of an address space, and no stack.
LEMMA LimitIs ==
  /\ UserLimit \in Nat
  /\ \A w \in Nat : w < UserLimit => w \in UserPage /\ w # UserStack /\ w # KernelStack
<1>1. PICK E : E = Width - 2
  OBVIOUS
<1>2. 0 \in Slot /\ 1 \in Slot /\ E \in Slot /\ E + 1 \in Slot /\ E \in Nat /\ E + 1 = Width - 1 /\ Width = E + 2
  BY <1>1, WidthIs DEF Slot
<1>3. PICK B \in Nat : B = Sub(E, E)
  BY <1>2, SubNat
<1>4. /\ UserLimit \in Nat /\ UserLimit = Sub(Sub(B, 0), 0) /\ Sub(B, 0) \in Nat
      /\ UserStack \in Nat /\ Shifted(UserStack, 2) = B
      /\ KernelStack \in Nat /\ Shifted(KernelStack, 2) = Sub(E, E + 1)
  <2>1. Sub(B, 0) \in Nat
    BY <1>2, SubNat
  <2> QED
    BY <1>1, <1>2, <1>3, <2>1, PageNumberIs DEF UserLimit, UserStack, KernelStack
<1>5. Sub(E, E + 1) = B + 1
  BY <1>2, <1>3 DEF Sub
<1>6. ASSUME NEW w \in Nat, w < UserLimit
      PROVE  w \in UserPage /\ w # UserStack /\ w # KernelStack
  <2>1. Shifted(w, 1) < Sub(B, 0)
    BY <1>4, <1>6, IndexIs, SubLess
  <2>2. Shifted(w, 2) < B
    <3>0. /\ Shifted(w, 1) \in Nat /\ Shifted(w, 2) \in Nat /\ Index(w, 1) \in Slot
          /\ Shifted(w, 1) = Sub(Shifted(w, 2), Index(w, 1))
      BY IndexIs
    <3>1. PICK x \in Nat, y \in Nat, i \in Slot : x = Shifted(w, 1) /\ y = Shifted(w, 2) /\ x = Sub(y, i)
      BY <3>0
    <3> QED
      BY <2>1, <3>1, SubLess
  <2>3. w # UserStack /\ w # KernelStack
    <3>1. PICK y \in Nat : y = Shifted(w, 2)
      BY IndexIs
    <3>2. y # B /\ y # B + 1
      BY <2>2, <3>1
    <3> QED
      BY <1>4, <1>5, <3>1, <3>2
  <2>4. Shifted(w, 3) < E + 1
    <3>0. /\ Shifted(w, 2) \in Nat /\ Shifted(w, 3) \in Nat /\ Index(w, 2) \in Slot
          /\ Shifted(w, 2) = Sub(Shifted(w, 3), Index(w, 2))
      BY IndexIs
    <3>1. PICK y \in Nat, z \in Nat, i \in Slot : y = Shifted(w, 2) /\ z = Shifted(w, 3) /\ y = Sub(z, i)
      BY <3>0
    <3>2. B < Sub(E + 1, 0)
      BY <1>2, <1>3 DEF Sub
    <3>3. Sub(E + 1, 0) \in Nat /\ E + 1 \in Nat
      BY <1>2, SubNat
    <3>4. y < Sub(E + 1, 0)
      BY <2>2, <3>1, <3>2, <3>3
    <3> QED
      BY <3>1, <3>3, <3>4, SubLess
  <2>5. w \in UserPage
    BY <1>2, <2>4, UserPageIs
  <2> QED
    BY <2>3, <2>5
<1> QED
  BY <1>4, <1>6

\* What is mapped at the first page of the window.
LEMMA WindowEntry ==
  ASSUME NEW m, NEW S, IsForest(m, S), NEW s \in S
  PROVE  get_page_entry(m, s, Window) = m.tab[WindowTable][0]
<1>1. KernelTables(m) /\ m.tab[s][Width - 1] = KPDPT /\ s # None
  BY ForestIs
<1>2. 0 \in Slot
  BY WidthIs DEF Slot
<1>3. TableOf(m, s, Window + 0) = WindowTable /\ (Window + 0) % Width = 0 /\ Window + 0 \in Nat
  BY <1>1, <1>2, WindowWay, WindowIs
<1>4. Window = Window + 0
  <2>1. Window \in Int
    BY WidthIs DEF Window, PageNumber
  <2> QED
    BY <2>1
<1> QED
  BY <1>3, <1>4, StructIs DEF get_page_entry

\* The first n pages of the window: mapped, then taken out.
LEMMA MapWindowGood ==
  ASSUME NEW m, NEW S, NEW L, Good(m, S, L), NEW s \in S, NEW n \in 0 .. Width, NEW pp \in Nat,
         \A k \in 1 .. n : pp + k - 1 \in Page, WindowOnly(m, n),
         NEW m2, m2 = map_memory(m, pp, Window, n, s)
  PROVE  /\ Good(m2, S, L) /\ SameEntries(m, m2, S) /\ Room(m2) = Room(m)
         /\ m2.bitmap = m.bitmap /\ m2.data = m.data /\ WindowOnly(m2, n)
         /\ n > 0 => m2.tab[WindowTable][0] = pp
<1>1. IsForest(m, S)
  BY DEF Good
<1>2. SameRest(m, m2) /\ WindowHas(m, m2, n, pp)
  BY <1>1, MapWindow
<1>3. SameBelow(m, m2) /\ m2.bitmap = m.bitmap /\ m2.data = m.data
  BY <1>2 DEF SameRest
<1>4. Good(m2, S, L) /\ SameEntries(m, m2, S) /\ Room(m2) = Room(m)
  BY <1>3, SameGood
<1>5. WindowOnly(m2, n)
  <2> SUFFICES ASSUME NEW j \in Slot, j >= n PROVE m2.tab[WindowTable][j] = None
    BY DEF WindowOnly
  <2>1. ~(j < n) /\ m.tab[WindowTable][j] = None
    BY WidthIs DEF Slot, WindowOnly
  <2> QED
    BY <1>2, <2>1 DEF WindowHas
<1>6. n > 0 => m2.tab[WindowTable][0] = pp
  <2>1. 0 \in Slot /\ pp + 0 = pp
    BY WidthIs DEF Slot
  <2> QED
    BY <1>2, <2>1 DEF WindowHas
<1> QED
  BY <1>3, <1>4, <1>5, <1>6

\* The pages are taken out of the window again.
LEMMA UnmapWindowGood ==
  ASSUME NEW m, NEW S, NEW L, Good(m, S, L), NEW s \in S, NEW n \in 0 .. Width, WindowOnly(m, n),
         NEW m2, m2 = unmap_memory(m, Window, n, s)
  PROVE  /\ Good(m2, S, L) /\ SameEntries(m, m2, S)
         /\ m2.bitmap = m.bitmap /\ m2.data = m.data /\ WindowOnly(m2, 0)
<1>1. IsForest(m, S)
  BY DEF Good
<1>2. SameRest(m, m2) /\ WindowLacks(m, m2, n)
  BY <1>1, UnmapWindow
<1>3. SameBelow(m, m2) /\ m2.bitmap = m.bitmap /\ m2.data = m.data
  BY <1>2 DEF SameRest
<1>4. Good(m2, S, L) /\ SameEntries(m, m2, S)
  BY <1>3, SameGood
<1>5. WindowOnly(m2, 0)
  <2> SUFFICES ASSUME NEW j \in Slot PROVE m2.tab[WindowTable][j] = None
    BY DEF WindowOnly
  <2>1. j < n \/ j >= n
    BY WidthIs DEF Slot
  <2> QED
    BY <1>2, <2>1 DEF WindowLacks, WindowOnly
<1> QED
  BY <1>3, <1>4, <1>5

\* Writing to the contents of pages.
LEMMA WriteGood ==
  ASSUME NEW m, NEW S, NEW L, Good(m, S, L), NEW d \in [Page -> Value], NEW m2, m2 = WithData(m, d)
  PROVE  /\ Good(m2, S, L) /\ SameEntries(m, m2, S) /\ Room(m2) = Room(m)
         /\ m2.bitmap = m.bitmap /\ m2.data = d /\ m2.tab[WindowTable] = m.tab[WindowTable]
<1>1. IsForest(m, S) /\ m.bitmap \subseteq Page
  BY ForestIs DEF Good, Memory
<1>2. /\ SameBelow(m, m2) /\ m2.bitmap = m.bitmap /\ m2.data = d
      /\ m2.tab[WindowTable] = m.tab[WindowTable]
  BY <1>1, WithIs
<1> QED
  BY <1>2, SameGood

SegPages(seg) == seg.vp .. seg.vp + seg.pages - 1

Filled(d, pp, n, got, val) ==
  [p \in Page |-> IF p \in pp .. pp + n - 1 THEN IF p < pp + got THEN val ELSE 0 ELSE d[p]]

\* The window is one table.
LEMMA SameWindow ==
  ASSUME NEW m, NEW m2, NEW n, m2.tab[WindowTable] = m.tab[WindowTable], WindowOnly(m, n)
  PROVE  WindowOnly(m2, n)
BY DEF WindowOnly

\* A turn of the loop of load_elf().
LEMMA LoadIs ==
  ASSUME NEW m, NEW S, NEW L, Good(m, S, L), NEW s \in S, NEW seg \in Segment,
         seg.pages <= Reserved, seg.pages <= Width, seg.vp + seg.pages <= UserLimit,
         \A w \in SegPages(seg) : get_page_entry(m, s, w) = None,
         Room(m) >= 3 * (seg.pages + 1), WindowOnly(m, 0), NEW got,
         NEW m2, m2 = LoadSegment(m, seg, got, s)
  PROVE  \E pp :
           /\ pp \in Nat /\ \A q \in pp .. pp + seg.pages - 1 : q \in Page
           /\ Good(m2, S, L) /\ NewEntries(m, m2, S, s, seg.vp, seg.pages, pp)
           /\ WindowOnly(m2, 0) /\ m2.data = Filled(m.data, pp, seg.pages, got, seg.val)
<1>1. m \in Memory
  BY ForestIs DEF Good
<1>2. PICK n : n = seg.pages
  OBVIOUS
<1>3. PICK vp : vp = seg.vp
  OBVIOUS
<1>4. n \in Nat /\ vp \in UserPage /\ vp \in Nat /\ seg.val \in Value /\ n \in 0 .. Width /\ n <= Reserved
  BY <1>2, <1>3, WidthIs DEF Segment, UserPage
<1>5. PICK pp : pp = allocpps(m.bitmap, n)
  OBVIOUS
<1>6. PICK b : b = Marked(m.bitmap, pp, n)
  OBVIOUS
<1>7. Takes(m, b, pp, n)
  BY <1>1, <1>4, <1>5, <1>6, AllocppsTakes
<1>8. pp \in Nat /\ \A q \in pp .. pp + n - 1 : q \in Page
  BY <1>7, PagesAre DEF Takes
<1>9. ASSUME NEW w \in vp .. vp + n - 1
      PROVE  w \in UserPage /\ get_page_entry(m, s, w) = None
  <2>1. w \in Nat /\ w < UserLimit
    BY <1>2, <1>3, <1>4, LimitIs
  <2> QED
    BY <1>2, <1>3, <2>1, LimitIs DEF SegPages
<1>10. PICK a : a = map_memory(WithBitmap(m, b), pp, vp, n, s)
  OBVIOUS
<1>11. /\ Good(a, S, L) /\ NewEntries(m, a, S, s, vp, n, pp)
       /\ a.data = m.data /\ a.tab[WindowTable] = m.tab[WindowTable]
  BY <1>2, <1>4, <1>7, <1>9, <1>10, TakeAndMap
<1>12. PICK c : c = map_memory(a, pp, Window, n, s)
  OBVIOUS
<1>13. \A k \in 1 .. n : pp + k - 1 \in Page
  <2> SUFFICES ASSUME NEW k \in 1 .. n PROVE pp + k - 1 \in Page
    OBVIOUS
  <2>1. pp + k - 1 \in pp .. pp + n - 1
    BY <1>4, <1>8
  <2> QED
    BY <1>8, <2>1
<1>14. WindowOnly(a, n)
  <2>1. WindowOnly(a, 0)
    BY <1>11, SameWindow
  <2> QED
    BY <1>4, <2>1, WidthIs DEF WindowOnly, Slot
<1>15. Good(c, S, L) /\ SameEntries(a, c, S) /\ c.data = a.data /\ WindowOnly(c, n)
  BY <1>4, <1>8, <1>11, <1>12, <1>13, <1>14, MapWindowGood
<1>16. PICK d : d = Filled(c.data, pp, n, got, seg.val)
  OBVIOUS
<1>17. d \in [Page -> Value]
  <2>1. c.data \in [Page -> Value]
    BY <1>15, ForestIs DEF Good, Memory
  <2> QED
    BY <1>4, <1>16, <2>1, AddressSpacesAssumption DEF Filled
<1>18. PICK e : e = WithData(c, d)
  OBVIOUS
<1>19. Good(e, S, L) /\ SameEntries(c, e, S) /\ e.data = d /\ e.tab[WindowTable] = c.tab[WindowTable]
  BY <1>15, <1>17, <1>18, WriteGood
<1>20. m2 = unmap_memory(e, Window, n, s)
  BY <1>2, <1>3, <1>5, <1>6, <1>10, <1>12, <1>16, <1>18, Zenon
  DEF LoadSegment, WithBitmap, WithData, Filled
<1>21. WindowOnly(e, n)
  BY <1>15, <1>19, SameWindow
<1>22. Good(m2, S, L) /\ SameEntries(e, m2, S) /\ m2.data = e.data /\ WindowOnly(m2, 0)
  BY <1>4, <1>19, <1>20, <1>21, UnmapWindowGood
<1>23. NewEntries(m, m2, S, s, vp, n, pp)
  <2>1. SameEntries(a, m2, S)
    BY <1>15, <1>19, <1>22 DEF SameEntries
  <2> QED
    BY <1>11, <2>1 DEF NewEntries, SameEntries
<1>24. m2.data = Filled(m.data, pp, n, got, seg.val)
  BY <1>11, <1>15, <1>16, <1>19, <1>22
<1> QED
  BY <1>2, <1>3, <1>8, <1>22, <1>23, <1>24

\* The first page of the window.
LEMMA OnePage ==
  ASSUME NEW p \in Page
  PROVE  p \in Nat /\ 1 \in 0 .. Width /\ \A k \in 1 .. 1 : p + k - 1 \in Page
<1>1. p \in Nat
  BY PagesAre
<1> QED
  BY <1>1, WidthIs

\* An empty window has at most one page in it.
LEMMA WindowOneMore ==
  ASSUME NEW m, WindowOnly(m, 0)
  PROVE  WindowOnly(m, 1)
BY WidthIs DEF WindowOnly, Slot

\* initialise_task() writes to the user stack only.
LEMMA InitialiseIs ==
  ASSUME NEW m, NEW S, NEW L, Good(m, S, L), NEW s \in S, WindowOnly(m, 0),
         NEW U \in Page, U = get_page_entry(m, s, UserStack),
         NEW m2, m2 = initialise_task(m, s)
  PROVE  /\ Good(m2, S, L) /\ SameEntries(m, m2, S) /\ WindowOnly(m2, 0)
         /\ m2.data = [m.data EXCEPT ![U] = EntryPoint]
<1>1. PICK a : a = map_memory(m, U, Window, 1, s)
  OBVIOUS
<1>2. /\ Good(a, S, L) /\ SameEntries(m, a, S) /\ a.data = m.data /\ WindowOnly(a, 1)
      /\ a.tab[WindowTable][0] = U
  BY <1>1, OnePage, WindowOneMore, MapWindowGood
<1>3. get_page_entry(a, s, Window) = U
  BY <1>2, WindowEntry DEF Good
<1>4. PICK d : d = [a.data EXCEPT ![U] = EntryPoint]
  OBVIOUS
<1>5. d \in [Page -> Value]
  <2>1. a.data \in [Page -> Value]
    BY <1>2, ForestIs DEF Good, Memory
  <2> QED
    BY <1>4, <2>1, AddressSpacesAssumption
<1>6. PICK c : c = WithData(a, d)
  OBVIOUS
<1>7. Good(c, S, L) /\ SameEntries(a, c, S) /\ c.data = d /\ c.tab[WindowTable] = a.tab[WindowTable]
  BY <1>2, <1>5, <1>6, WriteGood
<1>8. c = [a EXCEPT !.data[U] = EntryPoint]
  BY <1>4, <1>6 DEF WithData
<1>9. m2 = unmap_memory(c, Window, 1, s)
  BY <1>1, <1>3, <1>8 DEF initialise_task
<1>10. WindowOnly(c, 1)
  BY <1>2, <1>7, SameWindow
<1>11. Good(m2, S, L) /\ SameEntries(c, m2, S) /\ m2.data = c.data /\ WindowOnly(m2, 0)
  BY <1>7, <1>9, <1>10, OnePage, UnmapWindowGood
<1>12. SameEntries(m, m2, S)
  BY <1>2, <1>7, <1>11 DEF SameEntries
<1> QED
  BY <1>2, <1>4, <1>7, <1>11, <1>12

\* A turn of the loops of copy_addr_space().
LEMMA CopyIs ==
  ASSUME NEW m, NEW S, NEW L, Good(m, S, L), NEW from \in S, NEW to \in S, NEW vp \in UserPage,
         NEW F \in Page, F = get_page_entry(m, from, vp), get_page_entry(m, to, vp) = None,
         WindowOnly(m, 1), Room(m) >= 6, NEW m2, m2 = CopyPage(m, from, to, vp)
  PROVE  \E pp \in Page :
           /\ Good(m2, S, L) /\ NewEntries(m, m2, S, to, vp, 1, pp)
           /\ WindowOnly(m2, 1) /\ m2.data = [m.data EXCEPT ![pp] = m.data[F]]
<1>1. PICK a : a = map_memory(m, F, Window, 1, to)
  OBVIOUS
<1>2. /\ Good(a, S, L) /\ SameEntries(m, a, S) /\ Room(a) = Room(m) /\ a.data = m.data
      /\ WindowOnly(a, 1) /\ a.tab[WindowTable][0] = F
  BY <1>1, OnePage, MapWindowGood
<1>3. get_page_entry(a, to, Window) = F
  BY <1>2, WindowEntry DEF Good
<1>4. PICK c : c = MapNew(a, vp, to)
  OBVIOUS
<1>5. PICK pp : pp = allocpp(a.bitmap)
  OBVIOUS
<1>6. /\ Good(c, S, L) /\ NewEntries(a, c, S, to, vp, 1, pp)
      /\ c.data = a.data /\ c.tab[WindowTable] = a.tab[WindowTable] /\ pp \in Page
  <2>1. get_page_entry(a, to, vp) = None
    BY <1>2 DEF SameEntries
  <2> QED
    BY <1>2, <1>4, <1>5, <2>1, MapNewIs
<1>7. PICK e : e = map_memory(c, pp, Window, 1, to)
  OBVIOUS
<1>8. /\ Good(e, S, L) /\ SameEntries(c, e, S) /\ e.data = c.data
      /\ WindowOnly(e, 1) /\ e.tab[WindowTable][0] = pp
  <2>1. WindowOnly(c, 1)
    BY <1>2, <1>6, SameWindow
  <2>2. pp \in Nat /\ 1 \in 0 .. Width /\ \A k \in 1 .. 1 : pp + k - 1 \in Page
    BY <1>6, OnePage
  <2>3. Good(c, S, L)
    BY <1>6
  <2> QED
    BY <1>7, <2>1, <2>2, <2>3, MapWindowGood
<1>9. get_page_entry(e, to, Window) = pp
  BY <1>8, WindowEntry DEF Good
<1>10. PICK d : d = [e.data EXCEPT ![pp] = m.data[F]]
  OBVIOUS
<1>11. d \in [Page -> Value]
  <2>1. e.data \in [Page -> Value] /\ m.data \in [Page -> Value]
    BY <1>8, ForestIs DEF Good, Memory
  <2> QED
    BY <1>10, <2>1
<1>12. c = map_memory([a EXCEPT !.bitmap = setppUsed(@, pp, TRUE)], pp, vp, 1, to)
  BY <1>4, <1>5 DEF MapNew
<1>13. m2 = [e EXCEPT !.data[pp] = m.data[F]]
  <2>1. m2 = [e EXCEPT !.data[get_page_entry(e, to, Window)] = a.data[get_page_entry(a, to, Window)]]
    BY <1>1, <1>5, <1>7, <1>12, Zenon DEF CopyPage
  <2> QED
    BY <1>2, <1>3, <1>9, <2>1
<1>14. m2 = WithData(e, d)
  BY <1>10, <1>13 DEF WithData
<1>15. Good(m2, S, L) /\ SameEntries(e, m2, S) /\ m2.data = d /\ m2.tab[WindowTable] = e.tab[WindowTable]
  BY <1>8, <1>11, <1>14, WriteGood
<1>16. WindowOnly(m2, 1)
  BY <1>8, <1>15, SameWindow
<1>17. NewEntries(m, m2, S, to, vp, 1, pp)
  BY <1>2, <1>6, <1>8, <1>15 DEF NewEntries, SameEntries
<1>18. m2.data = [m.data EXCEPT ![pp] = m.data[F]]
  BY <1>2, <1>6, <1>8, <1>10, <1>15
<1> QED
  BY <1>6, <1>15, <1>16, <1>17, <1>18

\* The end of a fork: the window is emptied.
LEMMA ForkRetIs ==
  ASSUME NEW m, NEW S, NEW L, Good(m, S, L), NEW s \in S, NEW t \in S, WindowOnly(m, 1),
         get_page_entry(m, s, KernelStack) \in Page,
         NEW a, a = unmap_memory(m, Window, 1, s),
         NEW c, c = map_memory(a, get_page_entry(a, s, KernelStack), Window, 1, t),
         NEW m2, m2 = unmap_memory(c, Window, 1, t)
  PROVE  Good(m2, S, L) /\ SameEntries(m, m2, S) /\ WindowOnly(m2, 0) /\ m2.data = m.data
<1>1. Good(a, S, L) /\ SameEntries(m, a, S) /\ a.data = m.data /\ WindowOnly(a, 0)
  <2>1. 1 \in 0 .. Width
    BY WidthIs
  <2> QED
    BY <2>1, UnmapWindowGood
<1>2. PICK p \in Page : p = get_page_entry(a, s, KernelStack)
  BY <1>1, StacksAre DEF SameEntries
<1>3. Good(c, S, L) /\ SameEntries(a, c, S) /\ c.data = a.data /\ WindowOnly(c, 1)
  BY <1>1, <1>2, OnePage, WindowOneMore, MapWindowGood
<1>4. Good(m2, S, L) /\ SameEntries(c, m2, S) /\ m2.data = c.data /\ WindowOnly(m2, 0)
  BY <1>2, <1>3, OnePage, UnmapWindowGood
<1> QED
  BY <1>1, <1>3, <1>4 DEF SameEntries

\* The tasks that have an address space.
Alive == {t \in Task : state[t] \in {"live", "exited"}}

HasStacks(m, s) ==
  get_page_entry(m, s, UserStack) # None /\ get_page_entry(m, s, KernelStack) # None

StateOK ==
  /\ state \in [Task -> {"none", "live", "exited", "freed"}]
  /\ pml4t \in [Task -> {None} \cup PageHeap]
  /\ leaked \subseteq PageHeap /\ forgotten \subseteq Page

\* No two tasks have the same space.
Distinct ==
  /\ \A t, u \in Alive : pml4t[t] = pml4t[u] => t = u
  /\ \A t \in Alive : pml4t[t] \notin leaked
  /\ call # Idle => call.space \notin leaked /\ \A t \in Alive : pml4t[t] # call.space

\* What the page v of a segment contains when got pages of it were read.
Content(seg, got, v) == IF v < seg.vp + got THEN seg.val ELSE 0

\* The first n segments of a program are loaded, the others are not mapped.
Loaded(m, s, prog, got, n) ==
  \A x \in 1 .. Len(prog) : \A v \in SegPages(prog[x]) :
    /\ x > n => get_page_entry(m, s, v) = None
    /\ x <= n => /\ get_page_entry(m, s, v) # None
                 /\ m.data[get_page_entry(m, s, v)] = Content(prog[x], got[x], v) \/ RanOut(m, s)

Rest(todo, prog, n) ==
  /\ n \in Nat /\ todo \in Seq(Segment) /\ Len(todo) = Len(prog) - n
  /\ \A i \in 1 .. Len(todo) : todo[i] = prog[n + i]

ExecOK ==
  /\ call.op = "exec" /\ WindowOnly(mem, 0)
  /\ call = [op |-> "exec", by |-> call.by, child |-> call.child, space |-> call.space,
             prog |-> call.prog, todo |-> call.todo, got |-> call.got]
  /\ call.child \in Task /\ state[call.child] = "none"
  /\ call.by \in Task \cup {None} /\ (call.by \in Task => state[call.by] = "live")
  /\ call.prog \in Program /\ HasStacks(mem, call.space)
  /\ \E n : /\ Rest(call.todo, call.prog, n) /\ Loaded(mem, call.space, call.prog, call.got, n)
            /\ call.got \in Seq(Nat) /\ Len(call.got) = n

\* The pages that are still to be copied are not mapped in the new space; the
\* others are, and have the contents of the parent's.
Copied(m, from, to, todo) ==
  /\ todo \subseteq Mapped(m, from)
  /\ \A v \in UserPage : get_page_entry(m, to, v) # None <=> v \in Mapped(m, from) \ todo
  /\ \A v \in Mapped(m, from) \ todo :
       \/ m.data[get_page_entry(m, to, v)] = m.data[get_page_entry(m, from, v)]
       \/ RanOut(m, from) \/ RanOut(m, to)

ForkOK ==
  /\ call.op = "fork" /\ WindowOnly(mem, 1)
  /\ call = [op |-> "fork", by |-> call.by, child |-> call.child, space |-> call.space,
             todo |-> call.todo]
  /\ call.child \in Task /\ state[call.child] = "none"
  /\ call.by \in Task /\ state[call.by] = "live"
  /\ Copied(mem, pml4t[call.by], call.space, call.todo)

CallOK == (call = Idle /\ WindowOnly(mem, 0)) \/ ExecOK \/ ForkOK

\* The inductive invariant.
MemInv ==
  /\ StateOK /\ Distinct /\ CallOK
  /\ Good(mem, Spaces, forgotten)
  /\ \A t \in Alive : HasStacks(mem, pml4t[t])

-----------------------------------------------------------------------------
\* An idle system is in no call.
LEMMA IdleIs == Idle.op = "idle"
BY DEF Idle

\* Where the spaces come from.
LEMMA SpacesAre ==
  /\ \A t \in Alive : pml4t[t] \in Spaces
  /\ leaked \subseteq Spaces
  /\ call # Idle => call.space \in Spaces
  /\ \A s \in Spaces : \/ \E t \in Alive : s = pml4t[t]
                       \/ s \in leaked
                       \/ call # Idle /\ s = call.space
BY DEF Spaces, Alive

\* A space keeps its stacks as long as its entries are the same.
LEMMA SameStacks ==
  ASSUME NEW m, NEW m2, NEW S, SameEntries(m, m2, S), NEW s \in S
  PROVE  HasStacks(m, s) <=> HasStacks(m2, s)
BY StacksAre DEF SameEntries, HasStacks

\* Initially.
LEMMA MemInit == ASSUME Init PROVE MemInv
<1>1. /\ mem = init_vmm /\ state = [t \in Task |-> "none"] /\ pml4t = [t \in Task |-> None]
      /\ leaked = {} /\ forgotten = {} /\ call = Idle
  BY DEF Init
<1>2. Alive = {} /\ Spaces = {}
  BY <1>1 DEF Alive, Spaces
<1>3. PICK T : T = [s \in Struct |->
                 CASE s = KPDPT -> [EmptyTable EXCEPT ![Width - 2] = KPD]
                   [] s = KPD   -> [EmptyTable EXCEPT ![1] = WindowTable]
                   [] OTHER     -> EmptyTable]
  OBVIOUS
<1>4. PICK D : D = [p \in Page |-> 0]
  OBVIOUS
<1>5. mem = [bitmap |-> init_pmm, heap |-> {}, tab |-> T, data |-> D]
  BY <1>1, <1>3, <1>4 DEF init_vmm
<1>6. mem.bitmap = 0 .. Reserved - 1 /\ mem.heap = {} /\ mem.tab = T /\ mem.data = D
  BY <1>5 DEF init_pmm
<1>7. /\ T[KPDPT] = [EmptyTable EXCEPT ![Width - 2] = KPD]
      /\ T[KPD] = [EmptyTable EXCEPT ![1] = WindowTable]
      /\ T[WindowTable] = EmptyTable
      /\ \A s \in Struct \ {KPDPT, KPD} : T[s] = EmptyTable
  BY <1>3, StructIs
<1>8. T \in [Struct -> [Slot -> {None} \cup Struct \cup Page]]
  <2>1. EmptyTable \in [Slot -> {None} \cup Struct \cup Page]
    BY DEF EmptyTable, Slot
  <2>2. /\ [EmptyTable EXCEPT ![Width - 2] = KPD] \in [Slot -> {None} \cup Struct \cup Page]
        /\ [EmptyTable EXCEPT ![1] = WindowTable] \in [Slot -> {None} \cup Struct \cup Page]
    BY <2>1, StructIs
  <2>3. \A s \in Struct : T[s] \in [Slot -> {None} \cup Struct \cup Page]
    BY <1>7, <2>1, <2>2
  <2>4. T = [s \in Struct |-> T[s]]
    BY <1>3
  <2> QED
    BY <2>3, <2>4
<1>9. D \in [Page -> Value]
  BY <1>4, AddressSpacesAssumption
<1>10. mem \in Memory
  <2>1. init_pmm \subseteq Page
    BY PagesAre DEF init_pmm
  <2> QED
    BY <1>5, <1>8, <1>9, <2>1 DEF Memory
<1>11. KernelTables(mem)
  BY <1>6, <1>7 DEF KernelTables, EmptyTable, Slot
<1>12. PICK pos : pos = [s \in PageHeap |-> RootAt(s)]
  OBVIOUS
<1>13. pos \in [PageHeap -> Position]
  BY <1>12, RootIs
<1>14. Forest(pos, mem, Spaces)
  BY <1>2, <1>6, <1>10, <1>11, <1>13 DEF Forest, Placed, EntriesOK, Linked
<1>15. Owned(mem, Spaces, forgotten)
  BY <1>1, <1>2, <1>6 DEF Owned, Common
<1>16. Good(mem, Spaces, forgotten)
  BY <1>2, <1>14, <1>15 DEF Good, IsForest
<1>17. WindowOnly(mem, 0)
  BY <1>6, <1>7 DEF WindowOnly, EmptyTable, Slot
<1> QED
  BY <1>1, <1>2, <1>16, <1>17 DEF MemInv, StateOK, Distinct, CallOK

\* What is assumed of a program.
LEMMA ProgramIs ==
  ASSUME NEW prog \in Program
  PROVE  /\ prog \in Seq(Segment) /\ Len(prog) \in Nat
         /\ \A x \in 1 .. Len(prog) :
              /\ prog[x] \in Segment
              /\ prog[x].pages <= Reserved /\ prog[x].pages <= Width
              /\ prog[x].vp + prog[x].pages <= UserLimit
         /\ \A x, y \in 1 .. Len(prog) : x # y => SegPages(prog[x]) \cap SegPages(prog[y]) = {}
<1>1. prog \in Seq(Segment) /\ DOMAIN prog = 1 .. Len(prog) /\ Len(prog) \in Nat
  BY AddressSpacesAssumption
<1>2. \A x \in 1 .. Len(prog) :
              /\ prog[x] \in Segment
              /\ prog[x].pages <= Reserved /\ prog[x].pages <= Width
              /\ prog[x].vp + prog[x].pages <= UserLimit
  BY <1>1, AddressSpacesAssumption
<1>3. \A x, y \in 1 .. Len(prog) : x < y => SegPages(prog[x]) \cap SegPages(prog[y]) = {}
  BY <1>1, AddressSpacesAssumption DEF SegPages
<1>4. ASSUME NEW x \in 1 .. Len(prog), NEW y \in 1 .. Len(prog), x # y
      PROVE  SegPages(prog[x]) \cap SegPages(prog[y]) = {}
  <2>1. x < y \/ y < x
    BY <1>1, <1>4
  <2> QED
    BY <1>3, <2>1
<1> QED
  BY <1>1, <1>2, <1>4

\* The pages of a segment are below the limit, and so none is a stack.
LEMMA SegPagesLow ==
  ASSUME NEW prog \in Program, NEW x \in 1 .. Len(prog), NEW v \in SegPages(prog[x])
  PROVE  v \in UserPage /\ v # UserStack /\ v # KernelStack
<1>1. /\ prog[x] \in Segment /\ prog[x].vp + prog[x].pages <= UserLimit
  BY ProgramIs
<1>2. prog[x].vp \in Nat /\ prog[x].pages \in Nat
  BY <1>1 DEF Segment, UserPage
<1>3. v \in Nat /\ v < UserLimit
  BY <1>1, <1>2, LimitIs DEF SegPages
<1> QED
  BY <1>3, LimitIs

\* The bound on the tables.
LEMMA EnoughIs ==
  ASSUME NEW n \in Nat, EnoughStructs(n)
  PROVE  Room(mem) >= n /\ Room(mem) \in Nat
BY FreeStructsIs DEF EnoughStructs, Room

-----------------------------------------------------------------------------
\* A new space for a program: nothing of the program is mapped yet.
LEMMA ExecStep ==
  ASSUME MemInv, NEW by \in Task \cup {None}, NEW c \in Task, NEW p \in Program, exec(by, c, p)
  PROVE  MemInv'
<1>1. /\ call = Idle /\ state[c] = "none" /\ EnoughStructs(SpaceStructs)
      /\ IF by = None THEN \A t \in Task : state[t] = "none" ELSE state[by] = "live"
      /\ mem' = create_address_space(mem)
      /\ call' = [op |-> "exec", by |-> by, child |-> c, space |-> NewStruct(mem),
                  prog |-> p, todo |-> p, got |-> <<>>]
      /\ state' = state /\ pml4t' = pml4t /\ leaked' = leaked /\ forgotten' = forgotten
  BY DEF exec
<1>2. PICK N : N = NewStruct(mem)
  OBVIOUS
<1>3. PICK S : S = Spaces
  OBVIOUS
<1>4. Good(mem, S, forgotten) /\ StateOK /\ Distinct /\ CallOK /\ \A t \in Alive : HasStacks(mem, pml4t[t])
  BY <1>3 DEF MemInv
<1>5. Room(mem) >= SpaceStructs
  BY <1>1, EnoughIs DEF SpaceStructs
<1>6. /\ Good(mem', S \cup {N}, forgotten) /\ N \notin S /\ N \in PageHeap
      /\ mem'.data = mem.data /\ mem'.tab[WindowTable] = mem.tab[WindowTable]
      /\ SameEntries(mem, mem', S)
      /\ \A v \in UserPage : get_page_entry(mem', N, v) # None <=> v \in {UserStack, KernelStack}
  BY <1>1, <1>2, <1>4, <1>5, CreateIs
<1>7. call'.op = "exec" /\ call'.by = by /\ call'.child = c /\ call'.space = N /\ call'.prog = p /\ call'.todo = p
      /\ call'.got = <<>> /\ call' # Idle
  BY <1>1, <1>2, IdleIs
<1>8. Alive' = Alive
  BY <1>1 DEF Alive
<1>9. Spaces' = S \cup {N}
  BY <1>1, <1>3, <1>7 DEF Spaces
<1>10. /\ \A t \in Alive : pml4t[t] \in S
       /\ leaked \subseteq S
  BY <1>3, SpacesAre
<1>11. Distinct'
  BY <1>1, <1>4, <1>6, <1>7, <1>8, <1>10 DEF Distinct
<1>12. \A t \in Alive' : HasStacks(mem', pml4t'[t])
  BY <1>1, <1>4, <1>6, <1>8, <1>10, SameStacks
<1>13. StateOK'
  BY <1>1, <1>4 DEF StateOK
<1>14. WindowOnly(mem', 0)
  <2>1. WindowOnly(mem, 0)
    BY <1>1, <1>4, IdleIs DEF CallOK, ExecOK, ForkOK
  <2> QED
    BY <1>6, <2>1, SameWindow
<1>15. HasStacks(mem', N)
  BY <1>6, StacksAre DEF HasStacks
<1>16. Rest(p, p, 0)
  BY ProgramIs DEF Rest
<1>17. Loaded(mem', N, p, <<>>, 0)
  <2> SUFFICES ASSUME NEW x \in 1 .. Len(p), NEW v \in SegPages(p[x])
               PROVE  /\ get_page_entry(mem', N, v) = None
                      /\ ~(x <= 0)
    BY DEF Loaded
  <2>1. v \in UserPage /\ v # UserStack /\ v # KernelStack
    BY SegPagesLow
  <2>2. ~(x <= 0)
    OBVIOUS
  <2> QED
    BY <1>6, <2>1, <2>2
<1>18. ExecOK'
  <2>1. by \in Task => state[by] = "live"
    BY <1>1, AddressSpacesAssumption
  <2> QED
    BY <1>1, <1>2, <1>7, <1>14, <1>15, <1>16, <1>17, <2>1 DEF ExecOK
<1> QED
  BY <1>1, <1>6, <1>9, <1>11, <1>12, <1>13, <1>18 DEF MemInv, CallOK

\* A segment is loaded into pages that no other segment has.
LEMMA LoadStep ==
  ASSUME MemInv, NEW got \in 0 .. Width, load_elf(got)
  PROVE  MemInv'
<1>1. /\ call.op = "exec" /\ call.todo # <<>>
      /\ EnoughStructs(3 * (Head(call.todo).pages + 1))
      /\ mem' = LoadSegment(mem, Head(call.todo), got, call.space)
      /\ call' = [call EXCEPT !.todo = Tail(@), !.got = Append(@, got)]
      /\ state' = state /\ pml4t' = pml4t /\ leaked' = leaked /\ forgotten' = forgotten
  BY DEF load_elf
<1>2. PICK S : S = Spaces
  OBVIOUS
<1>3. Good(mem, S, forgotten) /\ StateOK /\ Distinct /\ CallOK /\ \A t \in Alive : HasStacks(mem, pml4t[t])
  BY <1>2 DEF MemInv
<1>4. ExecOK /\ call # Idle
  BY <1>1, <1>3, IdleIs DEF CallOK, ForkOK
<1>5. PICK s : s = call.space
  OBVIOUS
<1>6. s \in S /\ \A t \in Alive : pml4t[t] \in S
  BY <1>2, <1>4, <1>5, SpacesAre
<1>7. PICK prog \in Program : prog = call.prog
  BY <1>4 DEF ExecOK
<1>8. PICK n : /\ Rest(call.todo, prog, n) /\ Loaded(mem, s, prog, call.got, n)
               /\ call.got \in Seq(Nat) /\ Len(call.got) = n
  BY <1>4, <1>5, <1>7 DEF ExecOK
<1>9. PICK todo : todo = call.todo
  OBVIOUS
<1>10. /\ n \in Nat /\ todo \in Seq(Segment) /\ Len(todo) = Len(prog) - n
       /\ todo # <<>> /\ \A i \in 1 .. Len(todo) : todo[i] = prog[n + i]
  BY <1>1, <1>8, <1>9 DEF Rest
<1>11. Len(todo) \in Nat /\ Len(todo) > 0 /\ Head(todo) = todo[1]
  BY <1>10
<1>12. Len(prog) \in Nat
  BY ProgramIs
<1>13. n + 1 \in 1 .. Len(prog) /\ Head(todo) = prog[n + 1]
  BY <1>10, <1>11, <1>12
<1>14. PICK seg : seg = prog[n + 1]
  OBVIOUS
<1>15. /\ seg \in Segment /\ seg.pages <= Reserved /\ seg.pages <= Width
       /\ seg.vp + seg.pages <= UserLimit /\ seg.pages \in Nat /\ seg.vp \in Nat
  BY <1>13, <1>14, ProgramIs DEF Segment, UserPage
<1>16. \A w \in SegPages(seg) : get_page_entry(mem, s, w) = None
  BY <1>8, <1>10, <1>12, <1>13, <1>14 DEF Loaded
<1>17. WindowOnly(mem, 0)
  BY <1>4 DEF ExecOK
<1>18. Room(mem) >= 3 * (seg.pages + 1)
  <2>1. 3 * (seg.pages + 1) \in Nat
    BY <1>15
  <2> QED
    BY <1>1, <1>9, <1>13, <1>14, <2>1, EnoughIs
<1>19. mem' = LoadSegment(mem, seg, got, s)
  BY <1>1, <1>5, <1>9, <1>13, <1>14
<1>20. PICK gots : gots = Append(call.got, got)
  OBVIOUS
<1>21. /\ gots \in Seq(Nat) /\ Len(gots) = n + 1 /\ gots[n + 1] = got
       /\ \A x \in 1 .. n : gots[x] = call.got[x]
  BY <1>8, <1>20
<1>22. PICK pp :
           /\ pp \in Nat /\ \A q \in pp .. pp + seg.pages - 1 : q \in Page
           /\ Good(mem', S, forgotten) /\ NewEntries(mem, mem', S, s, seg.vp, seg.pages, pp)
           /\ WindowOnly(mem', 0) /\ mem'.data = Filled(mem.data, pp, seg.pages, got, seg.val)
  BY <1>3, <1>6, <1>15, <1>16, <1>17, <1>18, <1>19, LoadIs
<1>23. /\ call' = [op |-> "exec", by |-> call.by, child |-> call.child, space |-> s, prog |-> prog,
                   todo |-> Tail(todo), got |-> gots]
       /\ call'.op = "exec" /\ call'.by = call.by /\ call'.child = call.child /\ call'.space = s
       /\ call'.prog = prog /\ call'.todo = Tail(todo) /\ call'.got = gots /\ call' # Idle
  <2>1. call' = [op |-> "exec", by |-> call.by, child |-> call.child, space |-> s, prog |-> prog,
                 todo |-> Tail(todo), got |-> gots]
    BY <1>1, <1>4, <1>5, <1>7, <1>9, <1>20 DEF ExecOK
  <2> QED
    BY <2>1, IdleIs
<1>24. Alive' = Alive
  BY <1>1 DEF Alive
<1>25. Spaces' = S
  BY <1>1, <1>2, <1>4, <1>5, <1>23 DEF Spaces
<1>26. Distinct'
  BY <1>1, <1>3, <1>4, <1>5, <1>23, <1>24 DEF Distinct
<1>27. \A v \in UserPage : v \in SegPages(seg) =>
         get_page_entry(mem', s, v) = pp + (v - seg.vp) /\ pp + (v - seg.vp) \in pp .. pp + seg.pages - 1
  BY <1>6, <1>15, <1>22 DEF NewEntries, SegPages
<1>28. \A r \in S, v \in UserPage : ~(r = s /\ v \in SegPages(seg)) =>
         get_page_entry(mem', r, v) = get_page_entry(mem, r, v)
  BY <1>22 DEF NewEntries, SegPages
<1>29. ASSUME NEW r \in S, HasStacks(mem, r) PROVE HasStacks(mem', r)
  <2>1. UserStack \notin SegPages(seg) /\ KernelStack \notin SegPages(seg)
    BY <1>13, <1>14, SegPagesLow
  <2> QED
    BY <1>28, <1>29, <2>1, StacksAre DEF HasStacks
<1>30. \A t \in Alive' : HasStacks(mem', pml4t'[t])
  BY <1>1, <1>3, <1>6, <1>24, <1>29
<1>31. StateOK'
  BY <1>1, <1>3 DEF StateOK
<1>32. Rest(Tail(todo), prog, n + 1)
  <2>1. Tail(todo) \in Seq(Segment) /\ Len(Tail(todo)) = Len(todo) - 1
        /\ \A i \in 1 .. Len(Tail(todo)) : Tail(todo)[i] = todo[i + 1]
    BY <1>10, <1>11
  <2>2. Len(Tail(todo)) = Len(prog) - (n + 1) /\ n + 1 \in Nat
    BY <1>10, <1>11, <1>12, <2>1
  <2>3. ASSUME NEW i \in 1 .. Len(Tail(todo)) PROVE Tail(todo)[i] = prog[n + 1 + i]
    <3>1. i + 1 \in 1 .. Len(todo) /\ n + (i + 1) = n + 1 + i
      BY <1>10, <1>11, <2>1
    <3> QED
      BY <1>10, <2>1, <3>1
  <2> QED
    BY <2>1, <2>2, <2>3 DEF Rest
\* If no reserved page is mapped, the new pages are none of those that were
\* loaded before.
<1>33. Loaded(mem', s, prog, gots, n + 1)
  <2> SUFFICES ASSUME NEW x \in 1 .. Len(prog), NEW v \in SegPages(prog[x])
               PROVE  /\ x > n + 1 => get_page_entry(mem', s, v) = None
                      /\ x <= n + 1 =>
                           /\ get_page_entry(mem', s, v) # None
                           /\ \/ mem'.data[get_page_entry(mem', s, v)] = Content(prog[x], gots[x], v)
                              \/ RanOut(mem', s)
    BY DEF Loaded
  <2>1. v \in UserPage
    BY SegPagesLow
  <2>2. CASE x = n + 1
    <3>1. v \in SegPages(seg) /\ ~(x > n + 1)
      BY <1>10, <1>14, <2>2
    <3>2. PICK q : q = get_page_entry(mem', s, v)
      OBVIOUS
    <3>3. q \in pp .. pp + seg.pages - 1 /\ q \in Page /\ q # None
      BY <1>22, <1>27, <2>1, <3>1, <3>2, PagesAre
    <3>4. mem'.data[q] = IF q < pp + got THEN seg.val ELSE 0
      BY <1>22, <3>3 DEF Filled
    <3>5. q = pp + (v - seg.vp) /\ v \in Nat
      BY <1>27, <2>1, <3>1, <3>2 DEF UserPage
    <3>6. q < pp + got <=> v < seg.vp + got
      BY <1>15, <1>22, <3>5
    <3>7. mem'.data[q] = Content(prog[x], gots[x], v)
      BY <1>14, <1>21, <2>2, <3>4, <3>6 DEF Content
    <3> QED
      BY <2>2, <3>1, <3>2, <3>3, <3>7
  <2>3. CASE x # n + 1
    <3>1. v \notin SegPages(seg)
      BY <1>13, <1>14, <2>3, ProgramIs
    <3>2. PICK q : q = get_page_entry(mem, s, v)
      OBVIOUS
    <3>3. get_page_entry(mem', s, v) = q
      BY <1>6, <1>28, <2>1, <3>1, <3>2
    <3>4. CASE x > n + 1
      <4>1. x > n /\ ~(x <= n + 1)
        BY <1>10, <1>12, <3>4
      <4> QED
        BY <1>8, <3>2, <3>3, <3>4, <4>1 DEF Loaded
    <3>5. CASE ~(x > n + 1) /\ ~RanOut(mem', s)
      <4>1. x <= n
        BY <1>10, <1>12, <2>3, <3>5
      <4>2. ~RanOut(mem, s)
        <5> SUFFICES ASSUME NEW w \in UserPage, get_page_entry(mem, s, w) \in 0 .. Reserved - 1
                     PROVE  FALSE
          BY DEF RanOut
        <5>1. w \notin SegPages(seg)
          BY <1>16, PagesAre
        <5>2. get_page_entry(mem', s, w) \in 0 .. Reserved - 1
          BY <1>6, <1>28, <5>1
        <5> QED
          BY <3>5, <5>2 DEF RanOut
      <4>3. q # None /\ mem.data[q] = Content(prog[x], gots[x], v)
        <5>1. x \in 1 .. n
          BY <1>10, <4>1
        <5>2. gots[x] = call.got[x]
          BY <1>21, <5>1
        <5> QED
          BY <1>8, <3>2, <4>1, <4>2, <5>2 DEF Loaded
      <4>4. q \in Common
        BY <1>6, <1>22, <2>1, <3>3, <3>5, <4>3 DEF Good, Owned, RanOut
      <4>5. q \notin pp .. pp + seg.pages - 1
        <5> SUFFICES ASSUME q \in pp .. pp + seg.pages - 1 PROVE FALSE
          OBVIOUS
        <5>1. PICK w : w = seg.vp + (q - pp)
          OBVIOUS
        <5>2. q \in Nat /\ w \in SegPages(seg) /\ pp + (w - seg.vp) = q
          <6>1. PICK a, k, y : a = pp /\ k = seg.pages /\ y = seg.vp
            OBVIOUS
          <6>2. a \in Nat /\ k \in Nat /\ y \in Nat
            BY <1>15, <1>22, <6>1
          <6>3. q \in a .. a + k - 1 /\ w = y + (q - a)
            BY <5>1, <6>1
          <6>4. q \in Nat /\ w \in y .. y + k - 1 /\ a + (w - y) = q
            BY <6>2, <6>3
          <6> QED
            BY <6>1, <6>4 DEF SegPages
        <5>3. w \in UserPage
          BY <1>13, <1>14, <5>2, SegPagesLow
        <5>4. get_page_entry(mem', s, w) = q
          BY <1>27, <5>2, <5>3
        <5>5. w = v
          BY <1>6, <1>22, <2>1, <3>3, <4>4, <5>3, <5>4, OwnedOnce
        <5> QED
          BY <3>1, <5>2, <5>5
      <4>6. q \in Page
        BY <4>4, PagesAre
      <4>7. mem'.data[q] = mem.data[q]
        BY <1>22, <4>5, <4>6 DEF Filled
      <4> QED
        BY <3>3, <3>5, <4>3, <4>7
    <3>6. CASE ~(x > n + 1) /\ RanOut(mem', s)
      <4>1. x <= n
        BY <1>10, <1>12, <2>3, <3>6
      <4>2. q # None
        BY <1>8, <3>2, <4>1 DEF Loaded
      <4> QED
        BY <3>3, <3>6, <4>2
    <3> QED
      BY <3>4, <3>5, <3>6
  <2> QED
    BY <2>2, <2>3
<1>34. ExecOK'
  BY <1>1, <1>4, <1>5, <1>6, <1>22, <1>23, <1>29, <1>32, <1>33, <1>21 DEF ExecOK
<1> QED
  BY <1>1, <1>22, <1>25, <1>26, <1>30, <1>31, <1>34 DEF MemInv, CallOK

\* load_elf() gives the space up: it is still there.
LEMMA FailStep ==
  ASSUME MemInv, load_elf_fails
  PROVE  MemInv'
<1>1. /\ call.op = "exec" /\ leaked' = leaked \cup {call.space} /\ call' = Idle
      /\ mem' = mem /\ state' = state /\ pml4t' = pml4t /\ forgotten' = forgotten
  BY DEF load_elf_fails
<1>2. /\ Good(mem, Spaces, forgotten) /\ StateOK /\ Distinct /\ CallOK
      /\ \A t \in Alive : HasStacks(mem, pml4t[t])
  BY DEF MemInv
<1>3. ExecOK /\ call # Idle
  BY <1>1, <1>2, IdleIs DEF CallOK, ForkOK
<1>4. Alive' = Alive
  BY <1>1 DEF Alive
<1>5. Spaces' = Spaces
  BY <1>1, <1>3 DEF Spaces
<1>6. call.space \in PageHeap
  BY <1>2, <1>3, SpacesAre, ForestIs DEF Good
<1>7. StateOK'
  BY <1>1, <1>2, <1>6 DEF StateOK
<1>8. Distinct'
  BY <1>1, <1>2, <1>3, <1>4 DEF Distinct
<1>9. WindowOnly(mem', 0)
  BY <1>1, <1>3 DEF ExecOK
<1> QED
  BY <1>1, <1>2, <1>4, <1>5, <1>7, <1>8, <1>9 DEF MemInv, CallOK

\* A call that ends by making a task: it gets the space.
LEMMA BecomesTask ==
  ASSUME StateOK, Distinct, call # Idle, call.child \in Task, state[call.child] = "none",
         call.space \in PageHeap,
         pml4t' = [pml4t EXCEPT ![call.child] = call.space],
         leaked' = leaked, forgotten' = forgotten, call' = Idle,
         state' \in [Task -> {"none", "live", "exited", "freed"}],
         Alive' = Alive \cup {call.child}
  PROVE  /\ Spaces' = Spaces /\ StateOK' /\ Distinct'
         /\ pml4t'[call.child] = call.space /\ \A t \in Alive : pml4t'[t] = pml4t[t]
<1>1. PICK c \in Task : c = call.child
  OBVIOUS
<1>2. c \notin Alive /\ Alive \subseteq Task
  BY <1>1 DEF Alive
<1>3. pml4t \in [Task -> {None} \cup PageHeap]
  BY DEF StateOK
<1>4. pml4t'[c] = call.space /\ \A t \in Alive : pml4t'[t] = pml4t[t]
  BY <1>1, <1>2, <1>3
<1>5. StateOK'
  BY <1>3 DEF StateOK
<1>6. Distinct'
  BY <1>1, <1>2, <1>4 DEF Distinct
<1>7. ASSUME NEW s PROVE s \in Spaces' <=> s \in Spaces
  <2>1. s \in Spaces <=> (\E t \in Alive : s = pml4t[t]) \/ s \in leaked \/ s = call.space
    BY DEF Spaces, Alive
  <2>2. s \in Spaces' <=> (\E t \in Alive' : s = pml4t'[t]) \/ s \in leaked'
    BY DEF Spaces, Alive
  <2> QED
    BY <1>1, <1>2, <1>4, <2>1, <2>2
<1>8. Spaces' = Spaces
  <2>1. PICK A : A = Spaces'
    OBVIOUS
  <2>2. PICK B : B = Spaces
    OBVIOUS
  <2>3. \A s : s \in A <=> s \in B
    BY <1>7, <2>1, <2>2
  <2> QED
    BY <2>1, <2>2, <2>3
<1> QED
  BY <1>1, <1>4, <1>5, <1>6, <1>8

\* The program becomes a task.
LEMMA CreateStep ==
  ASSUME MemInv, create_task
  PROVE  MemInv'
<1>1. /\ call.op = "exec" /\ call.todo = <<>>
      /\ mem' = initialise_task(mem, call.space)
      /\ state' = [t \in Task |-> CASE t = call.child -> "live"
                                   [] t = call.by    -> "exited"
                                   [] OTHER          -> state[t]]
      /\ pml4t' = [pml4t EXCEPT ![call.child] = call.space]
      /\ call' = Idle /\ leaked' = leaked /\ forgotten' = forgotten
  BY DEF create_task
<1>2. PICK S : S = Spaces
  OBVIOUS
<1>3. Good(mem, S, forgotten) /\ StateOK /\ Distinct /\ CallOK /\ \A t \in Alive : HasStacks(mem, pml4t[t])
  BY <1>2 DEF MemInv
<1>4. ExecOK /\ call # Idle
  BY <1>1, <1>3, IdleIs DEF CallOK, ForkOK
<1>5. PICK s : s = call.space
  OBVIOUS
<1>6. s \in S /\ s \in PageHeap /\ \A t \in Alive : pml4t[t] \in S
  BY <1>2, <1>3, <1>4, <1>5, SpacesAre, ForestIs DEF Good
<1>7. HasStacks(mem, s) /\ WindowOnly(mem, 0)
  BY <1>4, <1>5 DEF ExecOK
<1>8. PICK U \in Page : U = get_page_entry(mem, s, UserStack)
  BY <1>3, <1>6, <1>7, StacksAre, PagesAre DEF Good, Owned, HasStacks
<1>9. Good(mem', S, forgotten) /\ SameEntries(mem, mem', S) /\ WindowOnly(mem', 0)
  BY <1>1, <1>3, <1>5, <1>6, <1>7, <1>8, InitialiseIs
<1>10. /\ call.child \in Task /\ state[call.child] = "none"
       /\ call.by \in Task => state[call.by] = "live"
  BY <1>4 DEF ExecOK
<1>11. ASSUME NEW t \in Task
       PROVE  state'[t] = IF t = call.child THEN "live" ELSE IF t = call.by THEN "exited" ELSE state[t]
  <2>1. ~(t = call.child /\ t = call.by)
    BY <1>10
  <2>2. state'[t] = CASE t = call.child -> "live" [] t = call.by -> "exited" [] OTHER -> state[t]
    BY <1>1
  <2> QED
    BY <2>1, <2>2
<1>12. state' \in [Task -> {"none", "live", "exited", "freed"}]
  <2>1. state \in [Task -> {"none", "live", "exited", "freed"}]
    BY <1>3 DEF StateOK
  <2>2. \A t \in Task : state'[t] \in {"none", "live", "exited", "freed"}
    BY <1>11, <2>1
  <2>3. state' = [t \in Task |-> state'[t]]
    BY <1>1
  <2> QED
    BY <2>2, <2>3
<1>13. Alive' = Alive \cup {call.child}
  <2>1. PICK A : A = Alive'
    OBVIOUS
  <2>2. \A t \in Task : state'[t] \in {"live", "exited"} <=> (state[t] \in {"live", "exited"} \/ t = call.child)
    BY <1>10, <1>11
  <2>3. \A t : t \in A <=> t \in Alive \/ t = call.child
    BY <1>10, <2>1, <2>2 DEF Alive
  <2> QED
    BY <2>1, <2>3
<1>14. /\ Spaces' = Spaces /\ StateOK' /\ Distinct'
       /\ pml4t'[call.child] = call.space /\ \A t \in Alive : pml4t'[t] = pml4t[t]
  BY <1>1, <1>3, <1>4, <1>5, <1>6, <1>10, <1>12, <1>13, BecomesTask
<1>15. \A r \in S : HasStacks(mem, r) => HasStacks(mem', r)
  BY <1>9, SameStacks
<1>16. \A t \in Alive' : HasStacks(mem', pml4t'[t])
  BY <1>3, <1>5, <1>6, <1>7, <1>13, <1>14, <1>15
<1> QED
  BY <1>1, <1>2, <1>9, <1>14, <1>16 DEF MemInv, CallOK

\* A new space for a child: nothing is copied yet.
LEMMA ForkStep ==
  ASSUME MemInv, NEW t \in Task, NEW c \in Task, kfork(t, c)
  PROVE  MemInv'
<1>1. /\ call = Idle /\ state[t] = "live" /\ state[c] = "none" /\ EnoughStructs(SpaceStructs)
      /\ mem' = BlankSpace(mem)
      /\ call' = [op |-> "fork", by |-> t, child |-> c, space |-> NewStruct(mem),
                  todo |-> Mapped(mem, pml4t[t])]
      /\ state' = state /\ pml4t' = pml4t /\ leaked' = leaked /\ forgotten' = forgotten
  BY DEF kfork
<1>2. PICK N : N = NewStruct(mem)
  OBVIOUS
<1>3. PICK S : S = Spaces
  OBVIOUS
<1>4. Good(mem, S, forgotten) /\ StateOK /\ Distinct /\ CallOK /\ \A u \in Alive : HasStacks(mem, pml4t[u])
  BY <1>3 DEF MemInv
<1>5. Room(mem) > 0
  BY <1>1, EnoughIs DEF SpaceStructs
<1>6. /\ Good(mem', S \cup {N}, forgotten) /\ N \notin S /\ N \in PageHeap
      /\ mem'.data = mem.data /\ mem'.tab[WindowTable] = mem.tab[WindowTable]
      /\ SameEntries(mem, mem', S)
      /\ \A v \in UserPage : get_page_entry(mem', N, v) = None
  BY <1>1, <1>2, <1>4, <1>5, BlankGood
<1>7. /\ call'.op = "fork" /\ call'.by = t /\ call'.child = c /\ call'.space = N
      /\ call'.todo = Mapped(mem, pml4t[t]) /\ call' # Idle
  BY <1>1, <1>2, IdleIs
<1>8. Alive' = Alive /\ t \in Alive
  BY <1>1 DEF Alive
<1>9. Spaces' = S \cup {N}
  BY <1>1, <1>3, <1>7 DEF Spaces
<1>10. /\ \A u \in Alive : pml4t[u] \in S
       /\ leaked \subseteq S
  BY <1>3, SpacesAre
<1>11. Distinct'
  BY <1>1, <1>4, <1>6, <1>7, <1>8, <1>10 DEF Distinct
<1>12. \A u \in Alive' : HasStacks(mem', pml4t'[u])
  BY <1>1, <1>4, <1>6, <1>8, <1>10, SameStacks
<1>13. StateOK'
  BY <1>1, <1>4 DEF StateOK
<1>14. WindowOnly(mem', 1)
  <2>1. WindowOnly(mem, 0)
    BY <1>1, <1>4, IdleIs DEF CallOK, ExecOK, ForkOK
  <2> QED
    BY <1>6, <2>1, SameWindow, WindowOneMore
<1>15. PICK T : T = Mapped(mem, pml4t[t])
  OBVIOUS
<1>16. Mapped(mem', pml4t[t]) = T
  BY <1>6, <1>8, <1>10, <1>15 DEF Mapped, SameEntries
<1>17. Copied(mem', pml4t[t], N, T)
  BY <1>6, <1>16 DEF Copied
<1>18. ForkOK'
  BY <1>1, <1>2, <1>7, <1>14, <1>15, <1>17 DEF ForkOK
<1> QED
  BY <1>1, <1>6, <1>9, <1>11, <1>12, <1>13, <1>18 DEF MemInv, CallOK

\* The child becomes a task.
LEMMA RetStep ==
  ASSUME MemInv, fork_ret
  PROVE  /\ MemInv'
         /\ SameEntries(mem, mem', Spaces) /\ mem'.data = mem.data
         /\ pml4t'[call.child] = call.space
<1>1. PICK a : a = unmap_memory(mem, Window, 1, call.space)
  OBVIOUS
<1>2. PICK e : e = map_memory(a, get_page_entry(a, call.space, KernelStack), Window, 1, pml4t[call.by])
  OBVIOUS
<1>3. /\ call.op = "fork" /\ call.todo = {}
      /\ mem' = unmap_memory(e, Window, 1, pml4t[call.by])
      /\ state' = [state EXCEPT ![call.child] = "live"]
      /\ pml4t' = [pml4t EXCEPT ![call.child] = call.space]
      /\ call' = Idle /\ leaked' = leaked /\ forgotten' = forgotten
  BY <1>1, <1>2 DEF fork_ret
<1>4. PICK S : S = Spaces
  OBVIOUS
<1>5. Good(mem, S, forgotten) /\ StateOK /\ Distinct /\ CallOK /\ \A u \in Alive : HasStacks(mem, pml4t[u])
  BY <1>4 DEF MemInv
<1>6. ForkOK /\ call # Idle
  BY <1>3, <1>5, IdleIs DEF CallOK, ExecOK
<1>7. PICK s : s = call.space
  OBVIOUS
<1>8. PICK f : f = pml4t[call.by]
  OBVIOUS
<1>9. /\ call.child \in Task /\ state[call.child] = "none" /\ call.by \in Task /\ state[call.by] = "live"
      /\ WindowOnly(mem, 1) /\ Copied(mem, f, s, {})
  BY <1>3, <1>6, <1>7, <1>8 DEF ForkOK
<1>10. call.by \in Alive
  BY <1>9 DEF Alive
<1>11. s \in S /\ s \in PageHeap /\ f \in S /\ \A t \in Alive : pml4t[t] \in S
  BY <1>4, <1>5, <1>6, <1>7, <1>8, <1>10, SpacesAre, ForestIs DEF Good
<1>12. HasStacks(mem, f)
  BY <1>5, <1>8, <1>10
<1>13. HasStacks(mem, s)
  BY <1>9, <1>12, StacksAre DEF Copied, HasStacks, Mapped
<1>14. get_page_entry(mem, s, KernelStack) \in Page
  BY <1>5, <1>11, <1>13, StacksAre, PagesAre DEF Good, Owned, HasStacks
<1>15. Good(mem', S, forgotten) /\ SameEntries(mem, mem', S) /\ WindowOnly(mem', 0) /\ mem'.data = mem.data
  <2>1. /\ a = unmap_memory(mem, Window, 1, s)
        /\ e = map_memory(a, get_page_entry(a, s, KernelStack), Window, 1, f)
        /\ mem' = unmap_memory(e, Window, 1, f)
    BY <1>1, <1>2, <1>3, <1>7, <1>8
  <2> QED
    BY <1>5, <1>9, <1>11, <1>14, <2>1, ForkRetIs
<1>16. state' \in [Task -> {"none", "live", "exited", "freed"}] /\ Alive' = Alive \cup {call.child}
  <2>1. state \in [Task -> {"none", "live", "exited", "freed"}]
    BY <1>5 DEF StateOK
  <2>2. PICK A : A = Alive'
    OBVIOUS
  <2>3. \A t \in Task : state'[t] = IF t = call.child THEN "live" ELSE state[t]
    BY <1>3, <1>9, <2>1
  <2>4. \A t : t \in A <=> t \in Alive \/ t = call.child
    BY <1>9, <2>2, <2>3 DEF Alive
  <2> QED
    BY <1>3, <2>1, <2>2, <2>4
<1>17. /\ Spaces' = Spaces /\ StateOK' /\ Distinct'
       /\ pml4t'[call.child] = call.space /\ \A t \in Alive : pml4t'[t] = pml4t[t]
  BY <1>3, <1>5, <1>6, <1>7, <1>9, <1>11, <1>16, BecomesTask
<1>18. \A r \in S : HasStacks(mem, r) => HasStacks(mem', r)
  BY <1>15, SameStacks
<1>19. \A t \in Alive' : HasStacks(mem', pml4t'[t])
  BY <1>5, <1>7, <1>11, <1>13, <1>16, <1>17, <1>18
<1> QED
  BY <1>3, <1>4, <1>15, <1>17, <1>19 DEF MemInv, CallOK

\* A page is copied into one that neither task has.
LEMMA CopyStep ==
  ASSUME MemInv, copy_addr_space
  PROVE  MemInv'
<1>1. /\ call.op = "fork" /\ call.todo # {} /\ EnoughStructs(6)
      /\ mem' = CopyPage(mem, pml4t[call.by], call.space, Min(call.todo))
      /\ call' = [call EXCEPT !.todo = @ \ {Min(@)}]
      /\ state' = state /\ pml4t' = pml4t /\ leaked' = leaked /\ forgotten' = forgotten
  BY DEF copy_addr_space
<1>2. PICK S : S = Spaces
  OBVIOUS
<1>3. Good(mem, S, forgotten) /\ StateOK /\ Distinct /\ CallOK /\ \A t \in Alive : HasStacks(mem, pml4t[t])
  BY <1>2 DEF MemInv
<1>4. ForkOK /\ call # Idle
  BY <1>1, <1>3, IdleIs DEF CallOK, ExecOK
<1>5. PICK to : to = call.space
  OBVIOUS
<1>6. PICK from : from = pml4t[call.by]
  OBVIOUS
<1>7. PICK todo : todo = call.todo
  OBVIOUS
<1>8. /\ call.child \in Task /\ state[call.child] = "none" /\ call.by \in Task /\ state[call.by] = "live"
      /\ WindowOnly(mem, 1) /\ Copied(mem, from, to, todo)
  BY <1>4, <1>5, <1>6, <1>7 DEF ForkOK
<1>9. call.by \in Alive
  BY <1>8 DEF Alive
<1>10. to \in S /\ from \in S /\ from # to /\ \A t \in Alive : pml4t[t] \in S /\ pml4t[t] # to
  BY <1>2, <1>3, <1>4, <1>5, <1>6, <1>9, SpacesAre DEF Distinct
<1>11. PICK vp : vp = Min(todo)
  OBVIOUS
<1>12. vp \in todo
  <2>1. todo \subseteq Nat /\ todo # {}
    BY <1>1, <1>7, <1>8 DEF Copied, Mapped, UserPage
  <2>2. \E x \in todo : \A y \in todo : x <= y
    BY <2>1, LeastNat
  <2> QED
    BY <1>11, <2>2 DEF Min
<1>13. vp \in UserPage /\ get_page_entry(mem, from, vp) # None /\ get_page_entry(mem, to, vp) = None
  BY <1>8, <1>12 DEF Copied, Mapped
<1>14. PICK F \in Page : F = get_page_entry(mem, from, vp)
  BY <1>3, <1>10, <1>13, PagesAre DEF Good, Owned
<1>15. Room(mem) >= 6
  BY <1>1, EnoughIs
<1>16. mem' = CopyPage(mem, from, to, vp)
  BY <1>1, <1>5, <1>6, <1>7, <1>11
<1>17. PICK pp \in Page :
         /\ Good(mem', S, forgotten) /\ NewEntries(mem, mem', S, to, vp, 1, pp)
         /\ WindowOnly(mem', 1) /\ mem'.data = [mem.data EXCEPT ![pp] = mem.data[F]]
  BY <1>3, <1>8, <1>10, <1>13, <1>14, <1>15, <1>16, CopyIs
<1>18. \A r \in S, w \in UserPage :
         get_page_entry(mem', r, w) = IF r = to /\ w = vp THEN pp ELSE get_page_entry(mem, r, w)
  BY <1>13, <1>17, OneEntry
<1>19. /\ call' = [op |-> "fork", by |-> call.by, child |-> call.child, space |-> to,
                   todo |-> todo \ {vp}]
       /\ call'.op = "fork" /\ call'.by = call.by /\ call'.child = call.child /\ call'.space = to
       /\ call'.todo = todo \ {vp} /\ call' # Idle
  <2>1. call' = [op |-> "fork", by |-> call.by, child |-> call.child, space |-> to,
                 todo |-> todo \ {vp}]
    BY <1>1, <1>4, <1>5, <1>7, <1>11 DEF ForkOK
  <2> QED
    BY <2>1, IdleIs
<1>20. Alive' = Alive
  BY <1>1 DEF Alive
<1>21. Spaces' = S
  BY <1>1, <1>2, <1>4, <1>5, <1>19 DEF Spaces
<1>22. Distinct'
  BY <1>1, <1>3, <1>4, <1>5, <1>19, <1>20 DEF Distinct
<1>23. ASSUME NEW r \in S, r # to, HasStacks(mem, r) PROVE HasStacks(mem', r)
  BY <1>18, <1>23, StacksAre DEF HasStacks
<1>24. \A t \in Alive' : HasStacks(mem', pml4t'[t])
  BY <1>1, <1>3, <1>10, <1>20, <1>23
<1>25. StateOK'
  BY <1>1, <1>3 DEF StateOK
<1>26. Mapped(mem', from) = Mapped(mem, from)
  BY <1>10, <1>18 DEF Mapped
<1>27. pp # None /\ pp \in Nat
  BY PagesAre
<1>28. ASSUME NEW v \in UserPage
       PROVE  get_page_entry(mem', to, v) # None <=> v \in Mapped(mem', from) \ (todo \ {vp})
  <2>1. get_page_entry(mem, to, v) # None <=> v \in Mapped(mem, from) \ todo
    BY <1>8 DEF Copied
  <2>2. vp \in Mapped(mem, from)
    BY <1>13 DEF Mapped
  <2> QED
    BY <1>10, <1>12, <1>18, <1>26, <1>27, <2>1, <2>2
\* If no reserved page is mapped, the new page is none of those of the parent,
\* and none of those that were copied before.
<1>29. ASSUME NEW v \in Mapped(mem', from) \ (todo \ {vp}), ~RanOut(mem', from), ~RanOut(mem', to)
       PROVE  mem'.data[get_page_entry(mem', to, v)] = mem'.data[get_page_entry(mem', from, v)]
  <2>1. v \in UserPage /\ vp \in UserPage /\ get_page_entry(mem', from, v) # None
    BY <1>13 DEF Mapped
  <2>2. PICK g : g = get_page_entry(mem', from, v)
    OBVIOUS
  <2>3. PICK h : h = get_page_entry(mem', to, v)
    OBVIOUS
  <2>4. h # None
    BY <1>28, <2>1, <2>3
  <2>5. g \in Common /\ h \in Common /\ pp \in Common
    <3>1. get_page_entry(mem', to, vp) = pp
      BY <1>10, <1>18, <2>1
    <3>2. \A r \in S, w \in UserPage :
             get_page_entry(mem', r, w) \in {None} \cup Common \cup (0 .. Reserved - 1)
      BY <1>17 DEF Good, Owned
    <3>3. \A w \in UserPage : /\ get_page_entry(mem', from, w) \notin 0 .. Reserved - 1
                              /\ get_page_entry(mem', to, w) \notin 0 .. Reserved - 1
      BY <1>29 DEF RanOut
    <3> QED
      BY <1>10, <1>27, <2>1, <2>2, <2>3, <2>4, <3>1, <3>2, <3>3
  <2>6. get_page_entry(mem', to, vp) = pp
    BY <1>10, <1>18, <2>1
  <2>7. g # pp
    <3> SUFFICES ASSUME g = pp PROVE FALSE
      OBVIOUS
    <3>1. get_page_entry(mem', from, v) = pp
      BY <2>2
    <3> QED
      BY <1>10, <1>17, <2>1, <2>5, <2>6, <3>1, OwnedOnce
  <2>8. mem.data \in [Page -> Value]
    BY <1>3, ForestIs DEF Good, Memory
  <2>9. /\ mem'.data[pp] = mem.data[F] /\ \A q \in Page : q # pp => mem'.data[q] = mem.data[q]
    BY <1>17, <2>8
  <2>10. g \in Page /\ h \in Page /\ g = get_page_entry(mem, from, v)
    BY <1>10, <1>18, <2>1, <2>2, <2>5, PagesAre
  <2>11. CASE v = vp
    BY <1>14, <2>2, <2>3, <2>6, <2>7, <2>9, <2>10, <2>11
  <2>12. CASE v # vp
    <3>1. v \in Mapped(mem, from) \ todo
      BY <1>26, <2>12
    <3>2. h = get_page_entry(mem, to, v)
      BY <1>10, <1>18, <2>1, <2>3, <2>12
    <3>3. h # pp
      <4> SUFFICES ASSUME h = pp PROVE FALSE
        OBVIOUS
      <4>1. get_page_entry(mem', to, v) = pp
        BY <2>3
      <4> QED
        BY <1>10, <1>17, <2>1, <2>5, <2>6, <2>12, <4>1, OwnedOnce
    <3>4. ~RanOut(mem, from)
      BY <1>10, <1>18, <1>29 DEF RanOut
    <3>5. ~RanOut(mem, to)
      <4> SUFFICES ASSUME NEW w \in UserPage, get_page_entry(mem, to, w) \in 0 .. Reserved - 1
                   PROVE  FALSE
        BY DEF RanOut
      <4>1. w # vp
        BY <1>13, PagesAre
      <4> QED
        BY <1>10, <1>18, <1>29, <4>1 DEF RanOut
    <3>6. mem.data[h] = mem.data[g]
      BY <1>8, <2>10, <3>1, <3>2, <3>4, <3>5 DEF Copied
    <3> QED
      BY <2>2, <2>3, <2>7, <2>9, <2>10, <3>3, <3>6
  <2> QED
    BY <2>11, <2>12
<1>30. Copied(mem', from, to, todo \ {vp})
  <2>1. todo \ {vp} \subseteq Mapped(mem', from)
    BY <1>8, <1>26 DEF Copied
  <2> QED
    BY <1>28, <1>29, <2>1 DEF Copied
<1>31. ForkOK'
  BY <1>1, <1>6, <1>8, <1>17, <1>19, <1>30 DEF ForkOK
<1> QED
  BY <1>1, <1>17, <1>21, <1>22, <1>24, <1>25, <1>31 DEF MemInv, CallOK

\* A task that exits keeps its space.
LEMMA ExitStep ==
  ASSUME MemInv, NEW t \in Task, exit(t)
  PROVE  MemInv'
<1>1. /\ call = Idle /\ state[t] = "live" /\ state' = [state EXCEPT ![t] = "exited"]
      /\ mem' = mem /\ pml4t' = pml4t /\ leaked' = leaked /\ forgotten' = forgotten /\ call' = call
  BY DEF exit
<1>2. /\ Good(mem, Spaces, forgotten) /\ StateOK /\ Distinct /\ CallOK
      /\ \A u \in Alive : HasStacks(mem, pml4t[u])
  BY DEF MemInv
<1>3. Alive' = Alive
  <2>1. state \in [Task -> {"none", "live", "exited", "freed"}]
    BY <1>2 DEF StateOK
  <2>2. PICK A : A = Alive'
    OBVIOUS
  <2>3. \A u : u \in A <=> u \in Alive
    BY <1>1, <2>1, <2>2 DEF Alive
  <2> QED
    BY <2>2, <2>3
<1>4. Spaces' = Spaces
  BY <1>1, <1>3 DEF Spaces, Alive
<1>5. StateOK' /\ Distinct'
  BY <1>1, <1>2, <1>3 DEF StateOK, Distinct
<1>6. CallOK'
  BY <1>1, <1>2, IdleIs DEF CallOK, ExecOK, ForkOK
<1> QED
  BY <1>1, <1>2, <1>3, <1>4, <1>5, <1>6 DEF MemInv

\* The space of a task that has exited is freed, and no other.
LEMMA ReclaimStep ==
  ASSUME MemInv, NEW t \in Task, reclaim(t)
  PROVE  MemInv'
<1>1. /\ call = Idle /\ state[t] = "exited" /\ mem' = FreeSpace(mem, pml4t[t])
      /\ state' = [state EXCEPT ![t] = "freed"] /\ pml4t' = [pml4t EXCEPT ![t] = None]
      /\ leaked' = leaked /\ forgotten' = forgotten \cup Missed(mem, pml4t[t]) /\ call' = call
  BY DEF reclaim
<1>2. PICK S : S = Spaces
  OBVIOUS
<1>3. Good(mem, S, forgotten) /\ StateOK /\ Distinct /\ CallOK /\ \A u \in Alive : HasStacks(mem, pml4t[u])
  BY <1>2 DEF MemInv
<1>4. t \in Alive /\ \A u \in Alive : pml4t[u] \in S
  BY <1>1, <1>2, SpacesAre DEF Alive
<1>5. PICK s : s = pml4t[t]
  OBVIOUS
<1>6. /\ Good(mem', S \ {s}, forgotten') /\ SameEntries(mem, mem', S \ {s})
      /\ Missed(mem, s) \subseteq Page /\ mem'.tab[WindowTable] = mem.tab[WindowTable]
  BY <1>1, <1>3, <1>4, <1>5, FreeGood
<1>7. /\ state \in [Task -> {"none", "live", "exited", "freed"}] /\ pml4t \in [Task -> {None} \cup PageHeap]
  BY <1>3 DEF StateOK
<1>8. Alive' = Alive \ {t} /\ \A u \in Alive' : pml4t'[u] = pml4t[u] /\ u \in Alive /\ u # t
  <2>1. PICK A : A = Alive'
    OBVIOUS
  <2>2. \A u : u \in A <=> u \in Alive /\ u # t
    BY <1>1, <1>7, <2>1 DEF Alive
  <2>3. A = Alive \ {t} /\ A \subseteq Task
    BY <2>2 DEF Alive
  <2>4. \A u \in A : pml4t'[u] = pml4t[u] /\ u \in Alive /\ u # t
    BY <1>1, <1>7, <2>2, <2>3
  <2> QED
    BY <2>1, <2>3, <2>4
<1>9. \A u \in Alive' : pml4t[u] # s
  BY <1>3, <1>4, <1>5, <1>8 DEF Distinct
<1>10. Spaces' = S \ {s}
  <2>1. PICK A : A = Spaces'
    OBVIOUS
  <2>2. ASSUME NEW r PROVE r \in A <=> r \in S /\ r # s
    <3>1. r \in S <=> (\E u \in Alive : r = pml4t[u]) \/ r \in leaked
      BY <1>1, <1>2 DEF Spaces, Alive
    <3>2. r \in A <=> (\E u \in Alive' : r = pml4t'[u]) \/ r \in leaked
      BY <1>1, <2>1 DEF Spaces, Alive
    <3>3. s \notin leaked
      BY <1>3, <1>4, <1>5 DEF Distinct
    <3>4. (\E u \in Alive : r = pml4t[u]) /\ r # s => \E u \in Alive' : r = pml4t'[u]
      BY <1>5, <1>8
    <3> QED
      BY <1>8, <1>9, <3>1, <3>2, <3>3, <3>4
  <2> QED
    BY <2>1, <2>2
<1>11. StateOK'
  BY <1>1, <1>3, <1>5, <1>6 DEF StateOK
<1>12. Distinct'
  BY <1>1, <1>3, <1>8 DEF Distinct
<1>13. \A u \in Alive' : HasStacks(mem', pml4t'[u])
  BY <1>3, <1>4, <1>6, <1>8, <1>9, SameStacks
<1>14. CallOK'
  <2>1. WindowOnly(mem, 0)
    BY <1>1, <1>3, IdleIs DEF CallOK, ExecOK, ForkOK
  <2> QED
    BY <1>1, <1>6, <2>1, SameWindow DEF CallOK
<1> QED
  BY <1>6, <1>10, <1>11, <1>12, <1>13, <1>14 DEF MemInv

-----------------------------------------------------------------------------
\* Every step preserves the invariant.
LEMMA MemNext == ASSUME MemInv, [Next]_vars PROVE MemInv'
<1>1. CASE UNCHANGED vars
  <2>1. mem' = mem /\ state' = state /\ pml4t' = pml4t /\ leaked' = leaked /\ forgotten' = forgotten /\ call' = call
    BY <1>1 DEF vars
  <2> QED
    BY <2>1 DEF MemInv, StateOK, Distinct, CallOK, ExecOK, ForkOK, Spaces, Alive
<1>2. CASE Next
  BY <1>2, ExecStep, LoadStep, FailStep, CreateStep, ForkStep, CopyStep, RetStep, ExitStep,
     ReclaimStep DEF Next
<1> QED
  BY <1>1, <1>2

\* The invariant holds always.
LEMMA MemInvariant == Spec => []MemInv
<1>1. Init => MemInv
  BY MemInit
<1>2. MemInv /\ [Next]_vars => MemInv'
  BY MemNext
<1> QED
  BY <1>1, <1>2, PTL DEF Spec

(***************************************************************************)
(* The page structures in use are those of the spaces that exist, none is  *)
(* shared, and the window is empty between calls, for any number of tasks, *)
(* any programs and any size of the tables: through fork, exec, exit, the  *)
(* failures of load_elf() and the terminator, none leaks and none is freed *)
(* while it is in use (vmm.c, task.c).                                     *)
(***************************************************************************)
THEOREM TablesAreOK == Spec => []TablesOK
<1>1. MemInv => TablesOK
  <2> SUFFICES ASSUME MemInv PROVE TablesOK
    OBVIOUS
  <2>1. IsForest(mem, Spaces) /\ StateOK /\ CallOK
    BY DEF MemInv, Good
  <2>2. mem \in Memory
    BY <2>1, ForestIs
  <2>3. StructsOwned
    BY <2>1, ForestOwned
  <2>4. TypeOK
    <3>1. /\ mem.bitmap \subseteq Page /\ mem.heap \subseteq PageHeap /\ mem.data \in [Page -> Value]
          /\ mem.tab \in [Struct -> [0 .. Width - 1 -> {None} \cup Struct \cup Page]]
      BY <2>2 DEF Memory, Slot
    <3>2. call.op \in {"idle", "exec", "fork"}
      BY <2>1, IdleIs DEF CallOK, ExecOK, ForkOK
    <3> QED
      BY <2>1, <3>1, <3>2 DEF TypeOK, StateOK
  <2>5. ASSUME call = Idle PROVE mem.tab[WindowTable] = EmptyTable
    <3>1. WindowOnly(mem, 0)
      BY <2>1, <2>5, IdleIs DEF CallOK, ExecOK, ForkOK
    <3>2. mem.tab[WindowTable] \in [Slot -> {None} \cup Struct \cup Page]
      BY <2>2, StructIs DEF Memory
    <3>3. \A j \in Slot : mem.tab[WindowTable][j] = None
      BY <3>1 DEF WindowOnly, Slot
    <3> QED
      BY <3>2, <3>3 DEF EmptyTable, Slot
  <2> QED
    BY <2>3, <2>4, <2>5 DEF TablesOK, WindowEmpty
<1> QED
  BY <1>1, MemInvariant, PTL

(***************************************************************************)
(* A page that is not reserved is marked as used exactly while one space   *)
(* maps it, at one address, or because the terminator forgot it, which     *)
(* happens to no page but those at the index that task.c:544 clears; none  *)
(* is freed twice and no two tasks share one, for any memory map, segments *)
(* anywhere below the stacks, and even when memory runs out.               *)
(***************************************************************************)
THEOREM PagesAreOwned == Spec => []PagesOwned
<1>1. MemInv => PagesOwned
  <2> SUFFICES ASSUME MemInv, NEW p \in Valid \ (0 .. Reserved - 1)
               PROVE  /\ Cardinality({x \in Mappings : get_page_entry(mem, x[1], x[2]) = p})
                           = IF p \in mem.bitmap \ forgotten THEN 1 ELSE 0
                      /\ p \in forgotten => p \in mem.bitmap
    BY DEF PagesOwned
  <2>1. p \in Common /\ p # None
    BY PagesAre DEF Common
  <2>2. Good(mem, Spaces, forgotten)
    BY DEF MemInv
  <2>3. PICK T : T = {x \in Mappings : get_page_entry(mem, x[1], x[2]) = p}
    OBVIOUS
  <2>4. \A x : x \in T <=> x \in Spaces \X UserPage /\ get_page_entry(mem, x[1], x[2]) = p
    BY <2>1, <2>3 DEF Mappings
  <2>5. p \in forgotten => p \in mem.bitmap
    BY <2>1, <2>2 DEF Good, Owned
  <2>6. CASE p \in mem.bitmap \ forgotten
    <3>1. PICK s \in Spaces, v \in UserPage : get_page_entry(mem, s, v) = p
      BY <2>1, <2>2, <2>6 DEF Good, Owned
    <3>2. <<s, v>> \in T
      BY <2>4, <3>1
    <3>3. ASSUME NEW x \in T PROVE x = <<s, v>>
      <4>1. PICK r \in Spaces, w \in UserPage : x = <<r, w>> /\ get_page_entry(mem, r, w) = p
        BY <2>4
      <4>2. r = s /\ w = v
        BY <2>1, <2>2, <3>1, <4>1, OwnedOnce
      <4> QED
        BY <4>1, <4>2
    <3>4. T = {<<s, v>>}
      BY <3>2, <3>3
    <3>5. Cardinality(T) = 1
      BY <3>4, FS_Singleton
    <3> QED
      BY <2>3, <2>6, <2>5, <3>5
  <2>7. CASE p \notin mem.bitmap \ forgotten
    <3>1. ~\E s \in Spaces, v \in UserPage : get_page_entry(mem, s, v) = p
      BY <2>1, <2>2, <2>7 DEF Good, Owned
    <3>2. T = {}
      BY <2>4, <3>1
    <3>3. Cardinality(T) = 0
      BY <3>2, FS_EmptySet
    <3> QED
      BY <2>3, <2>7, <2>5, <3>3
  <2> QED
    BY <2>6, <2>7
<1> QED
  BY <1>1, MemInvariant, PTL

\* When a program starts, its segments are in its pages.
LEMMA ProgramRuns ==
  ASSUME MemInv, create_task, ~RanOut(mem', call.space),
         NEW x \in DOMAIN call.prog, NEW v \in call.prog[x].vp .. call.prog[x].vp + call.prog[x].pages - 1,
         NEW q, q = get_page_entry(mem', call.space, v)
  PROVE  q # None /\ mem'.data[q] = Content(call.prog[x], call.got[x], v)
<1>1. /\ call.op = "exec" /\ call.todo = <<>>
      /\ mem' = initialise_task(mem, call.space)
  BY DEF create_task
<1>2. PICK S : S = Spaces
  OBVIOUS
<1>3. Good(mem, S, forgotten) /\ CallOK
  BY <1>2 DEF MemInv
<1>4. ExecOK /\ call # Idle
  BY <1>1, <1>3, IdleIs DEF CallOK, ForkOK
<1>5. PICK s : s = call.space
  OBVIOUS
<1>6. s \in S
  BY <1>2, <1>4, <1>5, SpacesAre
<1>7. HasStacks(mem, s) /\ WindowOnly(mem, 0)
  BY <1>4, <1>5 DEF ExecOK
<1>8. PICK U \in Page : U = get_page_entry(mem, s, UserStack)
  BY <1>3, <1>6, <1>7, StacksAre, PagesAre DEF Good, Owned, HasStacks
<1>9. SameEntries(mem, mem', S) /\ mem'.data = [mem.data EXCEPT ![U] = EntryPoint]
  BY <1>1, <1>3, <1>5, <1>6, <1>7, <1>8, InitialiseIs
<1>10. PICK prog \in Program : prog = call.prog
  BY <1>4 DEF ExecOK
<1>11. PICK n : Rest(call.todo, prog, n) /\ Loaded(mem, s, prog, call.got, n)
  BY <1>4, <1>5, <1>10 DEF ExecOK
<1>12. Len(prog) \in Nat /\ DOMAIN prog = 1 .. Len(prog)
  BY ProgramIs
<1>13. n = Len(prog)
  <2>1. n \in Nat /\ Len(call.todo) = Len(prog) - n /\ Len(call.todo) = 0
    BY <1>1, <1>11 DEF Rest
  <2>2. PICK k : k = Len(prog)
    OBVIOUS
  <2>3. n \in Nat /\ k \in Nat /\ 0 = k - n
    BY <1>12, <2>1, <2>2
  <2>4. n = k
    BY <2>3
  <2> QED
    BY <2>2, <2>4
<1>14. x \in 1 .. Len(prog) /\ v \in SegPages(prog[x]) /\ x <= n
  BY <1>10, <1>12, <1>13 DEF SegPages
<1>15. v \in UserPage /\ v # UserStack
  BY <1>14, SegPagesLow
<1>16. q = get_page_entry(mem, s, v)
  BY <1>5, <1>6, <1>9, <1>15 DEF SameEntries
<1>17. ~RanOut(mem, s)
  BY <1>5, <1>6, <1>9 DEF RanOut, SameEntries
<1>18. q # None /\ mem.data[q] = Content(prog[x], call.got[x], v)
  BY <1>11, <1>14, <1>16, <1>17 DEF Loaded
<1>19. q \in Common
  BY <1>3, <1>6, <1>15, <1>16, <1>17, <1>18 DEF Good, Owned, RanOut
<1>20. q # U
  <2> SUFFICES ASSUME q = U PROVE FALSE
    OBVIOUS
  <2>1. get_page_entry(mem, s, UserStack) = q /\ get_page_entry(mem, s, v) = q
    BY <1>8, <1>16
  <2> QED
    BY <1>3, <1>6, <1>15, <1>19, <2>1, OwnedOnce, StacksAre
<1>21. mem.data \in [Page -> Value] /\ q \in Page
  BY <1>3, <1>19, ForestIs, PagesAre DEF Good, Memory
<1>22. mem'.data[q] = mem.data[q]
  BY <1>9, <1>20, <1>21
<1> QED
  BY <1>10, <1>18, <1>22

(***************************************************************************)
(* When create_task() starts a program, each page of each segment has the  *)
(* contents of the file as far as it was read and is clear behind that,    *)
(* for any program and any reads that end early (elf.c:107-121): a segment *)
(* that crosses tables is mapped whole, and none is overwritten by the     *)
(* next one or by the entry point on the stack.                            *)
(***************************************************************************)
THEOREM ProgramsAreLoaded == Spec => ProgramLoaded
<1> DEFINE P == \/ \A x \in DOMAIN call.prog :
                     \A vp \in call.prog[x].vp .. call.prog[x].vp + call.prog[x].pages - 1 :
                       LET pp == get_page_entry(mem', call.space, vp)
                       IN  /\ pp # None
                           /\ mem'.data[pp] =
                                IF vp < call.prog[x].vp + call.got[x] THEN call.prog[x].val ELSE 0
                \/ RanOut(mem', call.space)
<1>1. MemInv /\ [Next]_vars => [create_task => P]_vars
  BY ProgramRuns DEF Content
<1>2. ProgramLoaded <=> [][create_task => P]_vars
  BY DEF ProgramLoaded
<1> HIDE DEF P
<1> QED
  BY <1>1, <1>2, MemInvariant, PTL DEF Spec

\* When a child starts, it sees what its parent sees.
LEMMA ChildSees ==
  ASSUME MemInv, fork_ret, ~RanOut(mem', call.space), ~RanOut(mem, pml4t[call.by])
  PROVE  View(mem', pml4t'[call.child]) = View(mem, pml4t[call.by])
<1>1. call.op = "fork" /\ call.todo = {}
  BY DEF fork_ret
<1>2. Good(mem, Spaces, forgotten) /\ CallOK
  BY DEF MemInv
<1>3. ForkOK /\ call # Idle
  BY <1>1, <1>2, IdleIs DEF CallOK, ExecOK
<1>4. PICK s : s = call.space
  OBVIOUS
<1>5. PICK f : f = pml4t[call.by]
  OBVIOUS
<1>6. SameEntries(mem, mem', Spaces) /\ mem'.data = mem.data /\ pml4t'[call.child] = s
  BY <1>4, RetStep
<1>7. s \in Spaces
  BY <1>3, <1>4, SpacesAre
<1>8. Copied(mem, f, s, {})
  BY <1>1, <1>3, <1>4, <1>5 DEF ForkOK
<1>9. \A v \in UserPage : get_page_entry(mem', s, v) = get_page_entry(mem, s, v)
  BY <1>6, <1>7 DEF SameEntries
<1>10. ~RanOut(mem, s) /\ ~RanOut(mem, f)
  BY <1>4, <1>5, <1>9 DEF RanOut
<1>11. Mapped(mem', s) = Mapped(mem, f)
  BY <1>8, <1>9 DEF Copied, Mapped
<1>12. \A v \in Mapped(mem, f) : /\ v \in UserPage
                                 /\ mem.data[get_page_entry(mem, s, v)] = mem.data[get_page_entry(mem, f, v)]
  BY <1>8, <1>10 DEF Copied, Mapped
<1>13. PICK D : D = Mapped(mem, f) \ {KernelStack}
  OBVIOUS
<1>14. \A v \in D : mem'.data[get_page_entry(mem', s, v)] = mem.data[get_page_entry(mem, f, v)]
  BY <1>6, <1>9, <1>12, <1>13
<1>15. View(mem', s) = [v \in D |-> mem'.data[get_page_entry(mem', s, v)]]
  BY <1>11, <1>13 DEF View
<1>16. View(mem, f) = [v \in D |-> mem.data[get_page_entry(mem, f, v)]]
  BY <1>13 DEF View
<1> QED
  BY <1>5, <1>6, <1>14, <1>15, <1>16

(***************************************************************************)
(* When a fork ends, the child sees what its parent sees, for any parent:  *)
(* no copy overwrites a page of the parent or one copied before, although  *)
(* all go through one window and one buffer (vmm.c, copy_addr_space).      *)
(***************************************************************************)
THEOREM ForksCopy == Spec => ForkCopies
<1> DEFINE P == \/ View(mem', pml4t'[call.child]) = View(mem, pml4t[call.by])
                \/ RanOut(mem', call.space) \/ RanOut(mem, pml4t[call.by])
<1>1. MemInv /\ [Next]_vars => [fork_ret => P]_vars
  BY ChildSees
<1>2. ForkCopies <=> [][fork_ret => P]_vars
  BY DEF ForkCopies
<1> HIDE DEF P
<1> QED
  BY <1>1, <1>2, MemInvariant, PTL DEF Spec

=============================================================================
