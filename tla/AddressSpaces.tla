--------------------------- MODULE AddressSpaces ---------------------------
(***************************************************************************)
(* The address spaces of the tasks: how load_elf(), create_task(), fork,   *)
(* exec, exit and the terminator allocate, map, copy and free memory.  The *)
(* loops over segments and over pages have a step per turn.  System calls  *)
(* run with interrupts disabled and the terminator holds the task switch   *)
(* lock, so that there is one call at a time.                              *)
(*                                                                         *)
(*   mem     the memory (PageTables)                                       *)
(*   state   whether a task does not exist yet, lives, has exited and waits *)
(*           for the terminator, or is freed                               *)
(*   pml4t   the highest table of each task                                *)
(*   leaked  the address spaces that load_elf() gave up                    *)
(*   forgotten  the pages that the terminator left marked as used          *)
(*   call    the exec or fork in progress: whose it is, the new task and   *)
(*           its space, and the segments or pages that are still to do;    *)
(*           of an exec also the program and how many pages of each        *)
(*           segment were read from the file                               *)
(***************************************************************************)
EXTENDS PageTables, Sequences

CONSTANTS
  Task,       \* the tasks that may ever be created
  Program,    \* the programs: sequences of segments
  Value,      \* what a page may contain
  EntryPoint, \* a stack page with the entry point of a program on it
  MaxLeaks    \* bound on the number of failures of load_elf()

\* A LOAD segment: its first page, its number of pages and what it contains.
Segment == [vp : UserPage, pages : Nat, val : Value]

\* The segments of a program are page-aligned, do not overlap, and are below
\* 0xFFFFFF7000000000; none has more pages than are reserved, or than the
\* window has room for ("TODO check page_count", elf.c).
ASSUME AddressSpacesAssumption ==
  /\ {0, EntryPoint} \subseteq Value /\ MaxLeaks \in Nat /\ None \notin Task
  /\ \A p \in Program :
       /\ p \in Seq(Segment)
       /\ \A x \in DOMAIN p : /\ p[x].pages <= Reserved /\ p[x].pages <= Width
                              /\ p[x].vp + p[x].pages <= UserLimit
       /\ \A x, y \in DOMAIN p :
            x < y => (p[x].vp .. p[x].vp + p[x].pages - 1)
                       \cap (p[y].vp .. p[y].vp + p[y].pages - 1) = {}

VARIABLES mem, state, pml4t, leaked, forgotten, call

vars == <<mem, state, pml4t, leaked, forgotten, call>>

Idle == [op |-> "idle"]

\* The type of the state.
TypeOK ==
  /\ mem.bitmap \subseteq Page
  /\ mem.heap \subseteq PageHeap
  /\ mem.tab \in [Struct -> [0 .. Width - 1 -> {None} \cup Struct \cup Page]]
  /\ mem.data \in [Page -> Value]
  /\ state \in [Task -> {"none", "live", "exited", "freed"}]
  /\ pml4t \in [Task -> {None} \cup PageHeap]
  /\ leaked \subseteq PageHeap
  /\ forgotten \subseteq Page
  /\ call.op \in {"idle", "exec", "fork"}

Init ==
  /\ mem = init_vmm
  /\ state = [t \in Task |-> "none"]
  /\ pml4t = [t \in Task |-> None]
  /\ leaked = {}
  /\ forgotten = {}
  /\ call = Idle

-----------------------------------------------------------------------------
\* A page from allocpp(), mapped at vp.
MapNew(m, vp, s) ==
  LET pp == allocpp(m.bitmap)
  IN  map_memory([m EXCEPT !.bitmap = setppUsed(@, pp, TRUE)], pp, vp, 1, s)

create_address_space(m) ==
  MapNew(MapNew(BlankSpace(m), UserStack, NewStruct(m)), KernelStack, NewStruct(m))

(***************************************************************************)
(* One segment: its pages are mapped twice, cleared and read through the   *)
(* window, and taken out of the window.  The read may end early, after got *)
(* pages: that is logged and ignored.  A page that is read in part counts  *)
(* as one that is not read.                                                *)
(***************************************************************************)
LoadSegment(m, seg, got, s) ==
  LET pp == allocpps(m.bitmap, seg.pages)
      m1 == [m EXCEPT !.bitmap = Marked(@, pp, seg.pages)]
      m2 == map_memory(map_memory(m1, pp, seg.vp, seg.pages, s), pp, Window, seg.pages, s)
      fill(p) == IF p < pp + got THEN seg.val ELSE 0
      m3 == [m2 EXCEPT !.data = [p \in Page |-> IF p \in pp .. pp + seg.pages - 1 THEN fill(p) ELSE @[p]]]
  IN  unmap_memory(m3, Window, seg.pages, s)

\* initialise_task() puts the entry point on the user stack.
initialise_task(m, s) ==
  LET m1 == map_memory(m, get_page_entry(m, s, UserStack), Window, 1, s)
  IN  unmap_memory([m1 EXCEPT !.data[get_page_entry(m1, s, Window)] = EntryPoint], Window, 1, s)

\* The bound on the tables: what happens when the page heap is full is not
\* modelled.  A call begins if there is room for a space, and a turn of a loop
\* if there is room for a table on each level for each page.
EnoughStructs(n) == Cardinality(FreeStructs(mem)) >= n

SpaceStructs == 13

-----------------------------------------------------------------------------
(***************************************************************************)
(* exec(t), or kernel_main() starting the first program: load_elf() first  *)
(* checks the file, and fails without an effect, then makes the space.     *)
(***************************************************************************)
exec(by, c, prog) ==
  /\ call = Idle
  /\ IF by = None THEN \A t \in Task : state[t] = "none" ELSE state[by] = "live"
  /\ state[c] = "none" /\ EnoughStructs(SpaceStructs)
  /\ mem' = create_address_space(mem)
  /\ call' = [op |-> "exec", by |-> by, child |-> c, space |-> NewStruct(mem),
              prog |-> prog, todo |-> prog, got |-> <<>>]
  /\ UNCHANGED <<state, pml4t, leaked, forgotten>>

load_elf(got) ==
  /\ call.op = "exec" /\ call.todo # <<>>
  /\ EnoughStructs(3 * (Head(call.todo).pages + 1))
  /\ got <= Head(call.todo).pages
  /\ mem' = LoadSegment(mem, Head(call.todo), got, call.space)
  /\ call' = [call EXCEPT !.todo = Tail(@), !.got = Append(@, got)]
  /\ UNCHANGED <<state, pml4t, leaked, forgotten>>

\* A program header cannot be read the second time: the address space is
\* neither used nor freed.
load_elf_fails ==
  /\ call.op = "exec" /\ call.todo # <<>>
  /\ Cardinality(leaked) < MaxLeaks
  /\ leaked' = leaked \cup {call.space}
  /\ call' = Idle
  /\ UNCHANGED <<mem, state, pml4t, forgotten>>

\* The new task replaces the one that called exec().
create_task ==
  /\ call.op = "exec" /\ call.todo = <<>>
  /\ mem' = initialise_task(mem, call.space)
  /\ state' = [t \in Task |-> CASE t = call.child -> "live"
                               [] t = call.by    -> "exited"
                               [] OTHER          -> state[t]]
  /\ pml4t' = [pml4t EXCEPT ![call.child] = call.space]
  /\ call' = Idle
  /\ UNCHANGED <<leaked, forgotten>>

kfork(t, c) ==
  /\ call = Idle
  /\ state[t] = "live" /\ state[c] = "none" /\ EnoughStructs(SpaceStructs)
  /\ mem' = BlankSpace(mem)
  /\ call' = [op |-> "fork", by |-> t, child |-> c, space |-> NewStruct(mem),
              todo |-> Mapped(mem, pml4t[t])]
  /\ UNCHANGED <<state, pml4t, leaked, forgotten>>

copy_addr_space ==
  /\ call.op = "fork" /\ call.todo # {} /\ EnoughStructs(6)
  /\ mem' = CopyPage(mem, pml4t[call.by], call.space, Min(call.todo))
  /\ call' = [call EXCEPT !.todo = @ \ {Min(@)}]
  /\ UNCHANGED <<state, pml4t, leaked, forgotten>>

\* The child's kernel stack is mapped at the window once more, for the copy of
\* the registers.
fork_ret ==
  /\ call.op = "fork" /\ call.todo = {}
  /\ LET m1 == unmap_memory(mem, Window, 1, call.space)
         stack == get_page_entry(m1, call.space, KernelStack)
         m2 == map_memory(m1, stack, Window, 1, pml4t[call.by])
     IN  mem' = unmap_memory(m2, Window, 1, pml4t[call.by])
  /\ state' = [state EXCEPT ![call.child] = "live"]
  /\ pml4t' = [pml4t EXCEPT ![call.child] = call.space]
  /\ call' = Idle
  /\ UNCHANGED <<leaked, forgotten>>

exit(t) ==
  /\ call = Idle /\ state[t] = "live"
  /\ state' = [state EXCEPT ![t] = "exited"]
  /\ UNCHANGED <<mem, pml4t, leaked, forgotten, call>>

\* The pages of a space that FreeSpace() forgets: their index in the page table
\* is that of the table in the highest one, and a page before them is mapped.
Missed(m, s) ==
  {get_page_entry(m, s, vp) : vp \in
     {v \in Mapped(m, s) : /\ v % Width = Index(v, 3)
                           /\ \E w \in Mapped(m, s) : Shifted(w, 1) = Shifted(v, 1) /\ w < v}}

\* The terminator reclaims the memory of a task that has exited.
reclaim(t) ==
  /\ call = Idle /\ state[t] = "exited"
  /\ mem' = FreeSpace(mem, pml4t[t])
  /\ state' = [state EXCEPT ![t] = "freed"]
  /\ pml4t' = [pml4t EXCEPT ![t] = None]
  /\ forgotten' = forgotten \cup Missed(mem, pml4t[t])
  /\ UNCHANGED <<leaked, call>>

Next ==
  \/ \E by \in Task \cup {None}, c \in Task, p \in Program : exec(by, c, p)
  \/ \E got \in 0 .. Width : load_elf(got)
  \/ load_elf_fails \/ create_task
  \/ \E t, c \in Task : kfork(t, c)
  \/ copy_addr_space \/ fork_ret
  \/ \E t \in Task : exit(t) \/ reclaim(t)

Spec == Init /\ [][Next]_vars

-----------------------------------------------------------------------------
Spaces ==
  {pml4t[t] : t \in {t \in Task : state[t] \in {"live", "exited"}}} \cup leaked
    \cup (IF call = Idle THEN {} ELSE {call.space})

\* The structures below a space, and how often a page is mapped by the spaces.
Own(s) ==
  LET pdpts == {mem.tab[s][i] : i \in 0 .. Width - 2} \ {None}
      pds == Below(mem, pdpts)
  IN  {s} \cup pdpts \cup pds \cup Below(mem, pds)

Mappings == {x \in Spaces \X UserPage : get_page_entry(mem, x[1], x[2]) # None}

(***************************************************************************)
(* The page structures in use are those of the spaces that exist, and no   *)
(* two spaces share one, through any sequence of fork, exec and exit: the  *)
(* terminator frees what was allocated on the way down, all of it and only *)
(* that (vmm.c, alloc_page_struct; task.c, terminator_task_main).          *)
(***************************************************************************)
StructsOwned ==
  /\ mem.heap = UNION {Own(s) : s \in Spaces}
  /\ \A s, r \in Spaces : s # r => Own(s) \cap Own(r) = {}

(***************************************************************************)
(* A page above the reserved ones is marked as used if and only if some    *)
(* space maps it, in one place only, except for those that the terminator  *)
(* forgot (task.c:544): they stay marked for ever, and nothing maps them.  *)
(* This also holds when memory runs out and allocpp(), whose result nobody *)
(* checks, returns 0.                                                      *)
(***************************************************************************)
PagesOwned ==
  LET all == Mappings
      to(p) == {x \in all : get_page_entry(mem, x[1], x[2]) = p}
  IN  \A p \in Valid \ (0 .. Reserved - 1) :
        /\ Cardinality(to(p)) = IF p \in mem.bitmap \ forgotten THEN 1 ELSE 0
        /\ p \in forgotten => p \in mem.bitmap

\* Between calls nothing is mapped at the window, which all spaces share
\* (elf.c, fork.c, task.c and vmm.c map pages there).
WindowEmpty == call = Idle => mem.tab[WindowTable] = EmptyTable

\* The tables are sound: each is owned by one space or free, and the one that
\* all spaces share is empty between calls.
TablesOK == TypeOK /\ StructsOwned /\ WindowEmpty

\* The search of allocpps(), which jumps over runs that are too short, finds
\* the first run of free pages that is long enough.
AllocIsFirstFit ==
  \A n \in 0 .. NumPages : allocpps(mem.bitmap, n) = FirstFit(mem.bitmap, n)

\* What a program sees of its memory.
View(m, s) == [vp \in Mapped(m, s) \ {KernelStack} |-> m.data[get_page_entry(m, s, vp)]]

\* Where memory has run out, page 0 and those behind it are mapped as if they
\* were free, and the terminator frees them: a space may then have a page below
\* the limit that it shares with another one, or uses twice.
RanOut(m, s) == \E vp \in UserPage : get_page_entry(m, s, vp) \in 0 .. Reserved - 1

(***************************************************************************)
(* When a program starts, each page of each of its segments is mapped, and *)
(* has the contents of the file as far as the segment could be read, and   *)
(* nothing behind that, across the boundaries of tables too (elf.c,        *)
(* load_elf; vmm.c, map_memory).  Unless memory has run out.               *)
(***************************************************************************)
ProgramLoaded ==
  [][create_task =>
       \/ \A x \in DOMAIN call.prog :
            \A vp \in call.prog[x].vp .. call.prog[x].vp + call.prog[x].pages - 1 :
              LET pp == get_page_entry(mem', call.space, vp)
              IN  /\ pp # None
                  /\ mem'.data[pp] = IF vp < call.prog[x].vp + call.got[x] THEN call.prog[x].val ELSE 0
       \/ RanOut(mem', call.space)]_vars

(***************************************************************************)
(* After a fork the child sees what its parent sees: each page was copied  *)
(* through the window and the buffer, which all copies share (vmm.c,       *)
(* copy_addr_space).  Unless memory has run out.                           *)
(***************************************************************************)
ForkCopies ==
  [][fork_ret => \/ View(mem', pml4t'[call.child]) = View(mem, pml4t[call.by])
                 \/ RanOut(mem', call.space) \/ RanOut(mem, pml4t[call.by])]_vars

=============================================================================
