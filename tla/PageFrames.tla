----------------------------- MODULE PageFrames -----------------------------
(***************************************************************************)
(* The physical memory manager (pmm.c): a bitmap with one bit per page.    *)
(* A bitmap is the set of the pages whose bit is set.                      *)
(***************************************************************************)
EXTENDS Integers, FiniteSets

CONSTANTS
  NumPages,   \* the number of bits of the bitmap
  Valid,      \* the pages inside a usable block of the memory map
  Reserved    \* the pages from 0 on that are marked as used at boot

ASSUME PageFramesAssumption ==
  /\ NumPages \in Nat /\ Reserved \in 1 .. NumPages
  /\ Valid \subseteq 0 .. NumPages - 1

Page == 0 .. NumPages - 1

init_pmm == 0 .. Reserved - 1

isppUsed(bitmap, p) == p \notin Valid \/ p \in bitmap

setppUsed(bitmap, p, value) ==
  IF p \notin Valid THEN bitmap
  ELSE IF value THEN bitmap \cup {p} ELSE bitmap \ {p}

\* The page allocpp() returns, 0 if there is none.
allocpp(bitmap) ==
  LET free == {p \in Page : ~isppUsed(bitmap, p)}
  IN  IF free = {} THEN 0 ELSE CHOOSE p \in free : \A q \in free : p <= q

\* How many pages from i on are free: the inner loop of allocpps().
RunLength(bitmap, i, amount) ==
  LET ia[j \in 0 .. amount] ==
        IF j = amount \/ isppUsed(bitmap, i + j) THEN j ELSE ia[j + 1]
  IN  ia[0]

AllocppsSkipsOneMore_Mutant(bitmap, amount) ==
  LET at[i \in 0 .. NumPages + 2] ==
        LET ia == RunLength(bitmap, i, amount)
        IN  IF i >= NumPages THEN 0
            ELSE IF ia = amount THEN i ELSE at[i + ia + 2]
  IN  at[0]

\* The first page of the run allocpps() returns, 0 if there is none: the search
\* goes on behind the used page that ended a run.
allocpps(bitmap, amount) ==
  LET at[i \in 0 .. NumPages + 1] ==
        LET ia == RunLength(bitmap, i, amount)
        IN  IF i >= NumPages THEN 0
            ELSE IF ia = amount THEN i ELSE at[i + ia + 1]
  IN  at[0]

\* The bitmap once the pages of the run are marked.  If there was no run, 0 was
\* returned and nothing is marked.
Marked(bitmap, p, amount) ==
  LET run == p .. p + amount - 1
  IN  IF \A q \in run : ~isppUsed(bitmap, q) THEN bitmap \cup run ELSE bitmap

\* What allocpps() is for: the first run of free pages that is long enough.
FirstFit(bitmap, amount) ==
  LET fits == {p \in Page : \A q \in p .. p + amount - 1 : ~isppUsed(bitmap, q)}
  IN  IF fits = {} THEN 0 ELSE CHOOSE p \in fits : \A q \in fits : p <= q

=============================================================================
