----------------------------- MODULE PageTables -----------------------------
(***************************************************************************)
(* The virtual memory manager (vmm.c): four levels of tables, allocated    *)
(* from a heap of page structures.  The memory is a record:                *)
(*                                                                         *)
(*   bitmap  the used pages (PageFrames)                                   *)
(*   heap    the used page structures                                      *)
(*   tab     the entries of each structure: the structures below it, or in *)
(*           a page table the pages that are mapped                        *)
(*   data    the contents of each page                                     *)
(*                                                                         *)
(* Addresses are page numbers.  The flags of an entry are left out, except *)
(* that an empty entry (0 in the code) is None, which is not page 0.       *)
(***************************************************************************)
EXTENDS PageFrames, FiniteSetsExt

CONSTANTS
  Width,       \* entries of a table (512)
  NumStructs   \* bound on the page structures of the page heap

\* The lowest table, the table of the stacks and the kernel's are different.
ASSUME PageTablesAssumption == Width \in Nat \ {0, 1, 2} /\ NumStructs \in Nat

None == -1

\* The page heap, and the structures of the kernel that are not in it: its
\* directory pointer table and what lies on the way to the window.
PageHeap == 1 .. NumStructs

KPDPT == NumStructs + 1

KPD == NumStructs + 2

WindowTable == NumStructs + 3

Struct == 1 .. NumStructs + 3

\* A page number without the bits of the levels below, and with them its index
\* in the tables of a level.
Shifted(vp, level) ==
  CASE level = 1 -> vp \div Width
    [] level = 2 -> (vp \div Width) \div Width
    [] level = 3 -> ((vp \div Width) \div Width) \div Width

Index(vp, level) == Shifted(vp, level) % Width

PageNumber(i, j, k, l) == ((i * Width + j) * Width + k) * Width + l

\* 0xFFFFFFFF98000000, where the kernel maps a page to get at its contents;
\* the two stacks of a task; the limit of its program, 0xFFFFFF7000000000; and
\* the pages outside the kernel's part.
Window == PageNumber(Width - 1, Width - 2, 1, 0)

UserStack == PageNumber(Width - 2, Width - 2, 0, 1)

KernelStack == PageNumber(Width - 2, Width - 1, Width - 1, Width - 1)

UserLimit == PageNumber(Width - 2, Width - 2, 0, 0)

UserPage == 0 .. PageNumber(Width - 1, 0, 0, 0) - 1

EmptyTable == [i \in 0 .. Width - 1 |-> None]

init_vmm ==
  [bitmap |-> init_pmm,
   heap   |-> {},
   tab    |-> [s \in Struct |->
                 CASE s = KPDPT -> [EmptyTable EXCEPT ![Width - 2] = KPD]
                   [] s = KPD   -> [EmptyTable EXCEPT ![1] = WindowTable]
                   [] OTHER     -> EmptyTable],
   data   |-> [p \in Page |-> 0]]

-----------------------------------------------------------------------------
FreeStructs(m) == PageHeap \ m.heap

\* The structure alloc_page_struct() returns, and the memory then.
NewStruct(m) == CHOOSE s \in FreeStructs(m) : \A r \in FreeStructs(m) : s <= r

alloc_page_struct(m) ==
  [m EXCEPT !.heap = @ \cup {NewStruct(m)}, !.tab[NewStruct(m)] = EmptyTable]

free_page_struct(m, s) == [m EXCEPT !.heap = @ \ {s}]

(***************************************************************************)
(* From a table to the one below it, which is allocated if it is missing.  *)
(* A place is the memory together with the table that was reached.         *)
(***************************************************************************)
Down(place, i) ==
  LET m == place.mem
      child == m.tab[place.at][i]
  IN  IF child # None THEN [place EXCEPT !.at = child]
      ELSE [mem |-> [alloc_page_struct(m) EXCEPT !.tab[place.at][i] = NewStruct(m)],
            at  |-> NewStruct(m)]

Walk(m, pml4t, vp) ==
  Down(Down(Down([mem |-> m, at |-> pml4t], Index(vp, 3)), Index(vp, 2)), Index(vp, 1))

MapStaysInTable_Mutant(m, pp, vp, amount, pml4t) ==
  LET f[n \in 0 .. amount] ==
        IF n = 0 THEN Walk(m, pml4t, vp)
        ELSE [f[n - 1] EXCEPT !.mem.tab[f[n - 1].at][(vp + n - 1) % Width] = pp + n - 1]
  IN  f[amount].mem

\* The table is looked up anew only where the address enters the next one.
map_memory(m, pp, vp, amount, pml4t) ==
  LET f[n \in 0 .. amount] ==
        IF n = 0 THEN Walk(m, pml4t, vp)
        ELSE LET v == vp + n - 1
                 place == IF v % Width = 0 THEN Walk(f[n - 1].mem, pml4t, v) ELSE f[n - 1]
             IN  [place EXCEPT !.mem.tab[place.at][v % Width] = pp + n - 1]
  IN  f[amount].mem

\* The page table for a page, None if there is no such table.
TableOf(m, pml4t, vp) ==
  LET below(s, level) == IF s = None THEN None ELSE m.tab[s][Index(vp, level)]
  IN  below(below(below(pml4t, 3), 2), 1)

get_page_entry(m, pml4t, vp) ==
  LET pt == TableOf(m, pml4t, vp)
  IN  IF pt = None THEN None ELSE m.tab[pt][vp % Width]

\* At a missing table the loop goes on without advancing the address.
unmap_memory(m, vp, amount, pml4t) ==
  LET f[n \in 0 .. amount] ==
        IF n = 0 THEN [mem |-> m, at |-> vp]
        ELSE LET v == f[n - 1].at
                 pt == TableOf(m, pml4t, v)
             IN  IF pt = None THEN f[n - 1]
                 ELSE [mem |-> [f[n - 1].mem EXCEPT !.tab[pt][v % Width] = None], at |-> v + 1]
  IN  f[amount].mem

\* The pages of an address space below the kernel's.
Mapped(m, pml4t) == {vp \in UserPage : get_page_entry(m, pml4t, vp) # None}

\* An address space that only has the kernel's part.
BlankSpace(m) == [alloc_page_struct(m) EXCEPT !.tab[NewStruct(m)][Width - 1] = KPDPT]

CopySharesPage_Mutant(m, from, to, vp) ==
  map_memory(m, get_page_entry(m, from, vp), vp, 1, to)

CopyWithoutBuffer_Mutant(m, from, to, vp) ==
  LET pp == allocpp(m.bitmap)
      m1 == [m EXCEPT !.bitmap = setppUsed(@, pp, TRUE)]
  IN  map_memory(map_memory(m1, pp, vp, 1, to), pp, Window, 1, to)

(***************************************************************************)
(* The body of the loops of copy_addr_space(): the page is copied through  *)
(* a buffer, both pages being mapped in turn at the window.  What          *)
(* allocpp() returns is not checked: without memory, page 0 is mapped.     *)
(***************************************************************************)
CopyPage(m, from, to, vp) ==
  LET m1 == map_memory(m, get_page_entry(m, from, vp), Window, 1, to)
      buf == m1.data[get_page_entry(m1, to, Window)]
      pp == allocpp(m1.bitmap)
      m2 == [m1 EXCEPT !.bitmap = setppUsed(@, pp, TRUE)]
      m3 == map_memory(map_memory(m2, pp, vp, 1, to), pp, Window, 1, to)
  IN  [m3 EXCEPT !.data[get_page_entry(m3, to, Window)] = buf]

(***************************************************************************)
(* The end of an address space, in the terminator.  After each page it     *)
(* clears entry i of the table, i being the index in the highest table: if *)
(* that page has not been visited yet, it is not freed.                    *)
(***************************************************************************)
Below(m, S) == {m.tab[s][i] : s \in S, i \in 0 .. Width - 1} \ {None}

Freed(m, pt, i) ==
  LET mapped == {l \in 0 .. Width - 1 : m.tab[pt][l] # None}
  IN  {m.tab[pt][l] : l \in {l \in mapped : l # i \/ \A k \in mapped : k >= l}}

FreeForgetsTables_Mutant(m, pml4t) ==
  LET pdpt(i) == {m.tab[pml4t][i]} \ {None}
      pts(i) == Below(m, Below(m, pdpt(i)))
      I == 0 .. Width - 2
  IN  [m EXCEPT !.bitmap = @ \ (Valid \cap UNION {UNION {Freed(m, pt, i) : pt \in pts(i)} : i \in I}),
                !.heap = @ \ ({pml4t} \cup UNION {pdpt(i) \cup pts(i) : i \in I})]

FreeSpace(m, pml4t) ==
  LET pdpt(i) == {m.tab[pml4t][i]} \ {None}
      pds(i) == Below(m, pdpt(i))
      pts(i) == Below(m, pds(i))
      I == 0 .. Width - 2
  IN  [m EXCEPT !.bitmap = @ \ (Valid \cap UNION {UNION {Freed(m, pt, i) : pt \in pts(i)} : i \in I}),
                !.heap = @ \ ({pml4t} \cup UNION {pdpt(i) \cup pds(i) \cup pts(i) : i \in I})]

=============================================================================
