-------------------------------- MODULE Heap --------------------------------
(***************************************************************************)
(* The kernel heap (heap.c): kmalloc() and kfree() on a doubly linked list *)
(* of free chunks, sorted by address.  Only one call is in progress at a   *)
(* time: after boot the heap is used in system calls, with interrupts      *)
(* disabled, and by the terminator, which holds the task switch lock.      *)
(*                                                                         *)
(* Addresses and sizes are those of the code, in bytes; only the heap is   *)
(* smaller.  The loops are one step a turn.                                *)
(*                                                                         *)
(*   hdr         the chunk headers, by the address of the chunk            *)
(*   first_free  the head of the free list                                 *)
(*   live        the chunks in use: the bytes that were asked for          *)
(*   pc          "idle", or the loop the call in progress is in            *)
(*   want        the argument of the kmalloc() in progress                 *)
(*   chunk, i, j the local variables of kmalloc() and kfree()              *)
(***************************************************************************)
EXTENDS Integers, FiniteSets

CONSTANTS
  Start, End,  \* the heap is Start .. End - 1
  Request      \* the amounts kmalloc() is called with

NULL == 0

Header == 24  \* sizeof(chunk_header_t)

ASSUME HeapAssumption ==
  /\ Start \in Nat \ {0} /\ End \in Nat /\ Start % 16 = 0 /\ End % 16 = 0
  /\ Start + Header < End
  /\ Request \subseteq Nat \ {0}

VARIABLES hdr, first_free, live, pc, want, chunk, i, j

vars == <<hdr, first_free, live, pc, want, chunk, i, j>>

Chunks == DOMAIN hdr

Free == Chunks \ (DOMAIN live \cup (IF pc = "free" THEN {chunk} ELSE {}))

\* init_heap(): one free chunk, "the wilderness".
Init ==
  /\ hdr = [c \in {Start} |->
              [size |-> End - Start - Header, prev |-> NULL, next |-> NULL]]
  /\ first_free = Start
  /\ live = [c \in {} |-> 0]
  /\ pc = "idle"
  /\ want = 0
  /\ chunk = NULL
  /\ i = NULL
  /\ j = NULL

-----------------------------------------------------------------------------
(***************************************************************************)
(* The helpers, on the headers h.                                          *)
(***************************************************************************)
RoundUp(n, m) == IF n % m = 0 THEN n ELSE n + (m - (n % m))

Put(h, c, r) == [x \in DOMAIN h \cup {c} |-> IF x = c THEN r ELSE h[x]]

Without(f, c) == [x \in DOMAIN f \ {c} |-> f[x]]

SetNext(h, c, n) == IF c = NULL THEN h ELSE [h EXCEPT ![c].next = n]

SetPrev(h, c, p) == IF c = NULL THEN h ELSE [h EXCEPT ![c].prev = p]

unlink(h, c) ==
  [SetNext(SetPrev(h, h[c].next, h[c].prev), h[c].prev, h[c].next)
     EXCEPT ![c].prev = NULL, ![c].next = NULL]

\* The size of the first part when a chunk is divided.
SplitSize(bytes) == RoundUp(IF bytes < 16 THEN 16 ELSE bytes, 2)

CanDivide(h, c, bytes) == h[c].size > SplitSize(bytes) + Header + 15

SplitOverlaps_Mutant(c, bytes) == RoundUp(c + SplitSize(bytes), 16)

\* Where the second part starts.
SplitAt(c, bytes) == RoundUp(c + SplitSize(bytes) + Header, 16)

\* The bytes skipped to align the second part belong to neither chunk.
divideChunk(h, c, bytes) ==
  LET c2 == SplitAt(c, bytes)
  IN  Put(SetPrev([h EXCEPT ![c].size = SplitSize(bytes), ![c].next = c2],
                  h[c].next, c2),
          c2, [size |-> h[c].size - (c2 - c), prev |-> c, next |-> h[c].next])

\* h2 is directly after h1.
Adjacent(h, h1, h2) == h1 + Header + h[h1].size = h2

mergeChunk(h, h1, h2) ==
  Without(SetPrev([h EXCEPT ![h1].next = h[h2].next,
                            ![h1].size = @ + h[h2].size + Header],
                  h[h2].next, h1),
          h2)

-----------------------------------------------------------------------------
(***************************************************************************)
(* kmalloc(): the first chunk that is large enough.                        *)
(***************************************************************************)
kmalloc(n) ==
  /\ pc = "idle"
  /\ pc' = "malloc"
  /\ want' = n
  /\ chunk' = first_free
  /\ UNCHANGED <<hdr, first_free, live, i, j>>

Bytes == RoundUp(want, 4)

SkipStays_Mutant ==
  /\ pc = "malloc"
  /\ chunk # NULL
  /\ hdr[chunk].size < Bytes
  /\ UNCHANGED vars

MallocSkip ==
  /\ pc = "malloc"
  /\ chunk # NULL
  /\ hdr[chunk].size < Bytes
  /\ chunk' = hdr[chunk].next
  /\ UNCHANGED <<hdr, first_free, live, pc, want, i, j>>

\* What a call leaves in its local variables is not used again.
EndCall == pc' = "idle" /\ want' = 0 /\ chunk' = NULL /\ i' = NULL /\ j' = NULL

\* No chunks left: NULL is returned.
MallocFail ==
  /\ pc = "malloc"
  /\ chunk = NULL
  /\ EndCall
  /\ UNCHANGED <<hdr, first_free, live>>

Take == live' = [x \in DOMAIN live \cup {chunk} |-> IF x = chunk THEN want ELSE live[x]]

\* The chunk fits exactly, or the rest is too small to be worth a chunk.
MallocWhole ==
  /\ pc = "malloc"
  /\ chunk # NULL
  /\ hdr[chunk].size - Bytes \in 0 .. 48
  /\ first_free' = IF chunk = first_free THEN hdr[chunk].next ELSE first_free
  /\ hdr' = unlink(hdr, chunk)
  /\ Take
  /\ EndCall

SplitTight_Mutant ==
  LET divides == CanDivide(hdr, chunk, Bytes)
      newchunk == IF divides THEN SplitAt(chunk, Bytes) ELSE NULL
  IN  /\ pc = "malloc"
      /\ chunk # NULL
      /\ hdr[chunk].size - Bytes > 36
      /\ hdr' = unlink(IF divides THEN divideChunk(hdr, chunk, Bytes) ELSE hdr, chunk)
      /\ first_free' = IF chunk = first_free THEN newchunk ELSE first_free
      /\ Take
      /\ EndCall

MallocSplit ==
  LET divides == CanDivide(hdr, chunk, Bytes)
      newchunk == IF divides THEN SplitAt(chunk, Bytes) ELSE NULL
  IN  /\ pc = "malloc"
      /\ chunk # NULL
      /\ hdr[chunk].size - Bytes > 48
      /\ hdr' = unlink(IF divides THEN divideChunk(hdr, chunk, Bytes) ELSE hdr, chunk)
      /\ first_free' = IF chunk = first_free THEN newchunk ELSE first_free
      /\ Take
      /\ EndCall

-----------------------------------------------------------------------------
(***************************************************************************)
(* kfree(): of a block in use, once.  The list is empty, or the chunk goes *)
(* to its head, or its place is searched; on the way adjacent free chunks  *)
(* are merged.                                                             *)
(***************************************************************************)
kfree(c) ==
  /\ pc = "idle"
  /\ live' = Without(live, c)
  /\ \/ /\ first_free = NULL
        /\ first_free' = c
        /\ UNCHANGED <<hdr, pc, want, chunk, i, j>>
     \/ /\ first_free # NULL /\ c < first_free
        /\ hdr' = [hdr EXCEPT ![c].prev = NULL, ![c].next = first_free,
                              ![first_free].prev = c]
        /\ first_free' = c
        /\ UNCHANGED <<pc, want, chunk, i, j>>
     \/ /\ first_free # NULL /\ c >= first_free
        /\ pc' = "free"
        /\ chunk' = c
        /\ i' = first_free
        /\ j' = hdr[first_free].next
        /\ UNCHANGED <<hdr, first_free, want>>

FreeAppend ==
  /\ pc = "free"
  /\ j = NULL
  /\ hdr' = [hdr EXCEPT ![i].next = chunk, ![chunk].prev = i, ![chunk].next = NULL]
  /\ EndCall
  /\ UNCHANGED <<first_free, live>>

FreeMerge ==
  /\ pc = "free"
  /\ j # NULL
  /\ Adjacent(hdr, i, j)
  /\ hdr' = mergeChunk(hdr, i, j)
  /\ j' = hdr[j].next
  /\ UNCHANGED <<first_free, live, pc, want, chunk, i>>

FreeInsert ==
  /\ pc = "free"
  /\ j # NULL
  /\ ~Adjacent(hdr, i, j)
  /\ chunk > i /\ chunk < j
  /\ hdr' = [hdr EXCEPT ![i].next = chunk, ![chunk].prev = i,
                        ![chunk].next = j, ![j].prev = chunk]
  /\ EndCall
  /\ UNCHANGED <<first_free, live>>

FreeAdvance ==
  /\ pc = "free"
  /\ j # NULL
  /\ ~Adjacent(hdr, i, j)
  /\ ~(chunk > i /\ chunk < j)
  /\ i' = j
  /\ j' = hdr[j].next
  /\ UNCHANGED <<hdr, first_free, live, pc, want, chunk>>

Loop == \/ MallocSkip \/ MallocFail \/ MallocWhole \/ MallocSplit
        \/ FreeAppend \/ FreeMerge \/ FreeInsert \/ FreeAdvance

Next == \/ \E n \in Request : kmalloc(n)
        \/ \E c \in DOMAIN live : kfree(c)
        \/ Loop

Spec == Init /\ [][Next]_vars

\* The caller of kmalloc() or kfree() keeps running until it returns.
FairSpec == Spec /\ WF_vars(Loop)

-----------------------------------------------------------------------------
\* The type of the state; in kfree(), i never is NULL ("This should be
\* impossible, but never hurts to check").
TypeOK ==
  /\ Chunks \subseteq Start .. End - 1
  /\ \A c \in Chunks :
       hdr[c] \in [size : Nat, prev : Chunks \cup {NULL}, next : Chunks \cup {NULL}]
  /\ first_free \in Free \cup {NULL}
  /\ DOMAIN live \subseteq Chunks
  /\ \A c \in DOMAIN live : live[c] \in Request
  /\ pc \in {"idle", "malloc", "free"}
  /\ pc = "malloc" => want \in Request /\ chunk \in Free \cup {NULL}
  /\ pc = "free" => chunk \in Chunks /\ i \in Free /\ j \in Free \cup {NULL}

(***************************************************************************)
(* The heap is cut into chunks, free or in use, that do not overlap; no    *)
(* memory is lost between them but the few bytes that divideChunk() skips  *)
(* to have the next chunk "16-bytes aligned", and the last ends with the   *)
(* heap.                                                                   *)
(***************************************************************************)
ChunkEnd(c) == c + Header + hdr[c].size

Tiled ==
  /\ Start \in Chunks
  /\ \A c \in Chunks :
       /\ c % 16 = 0
       /\ IF \A d \in Chunks : d <= c
          THEN ChunkEnd(c) = End
          ELSE \E d \in Chunks : /\ d - ChunkEnd(c) \in 0 .. 15
                                 /\ \A e \in Chunks : e <= c \/ e >= d

(***************************************************************************)
(* The free list holds exactly the free chunks, in the order of their      *)
(* addresses, linked the same way in both directions: no chunk is lost,    *)
(* not when divideChunk() refuses either, whose NULL kmalloc() would make  *)
(* the head of the list.                                                   *)
(***************************************************************************)
FreeListOK ==
  /\ first_free = NULL <=> Free = {}
  /\ \A c \in Free :
       /\ first_free <= c
       /\ hdr[c].prev = NULL <=> c = first_free
       /\ hdr[c].prev # NULL => hdr[c].prev \in Free /\ hdr[hdr[c].prev].next = c
       /\ IF hdr[c].next = NULL THEN \A d \in Free : d <= c
          ELSE /\ hdr[c].next \in Free
               /\ hdr[c].next > c
               /\ hdr[hdr[c].next].prev = c
               /\ \A d \in Free : d <= c \/ d >= hdr[c].next

\* A block in use is as large as what was asked for.
BlockFits == \A c \in DOMAIN live : hdr[c].size >= live[c]

\* What these need to be inductive: a chunk that is not on the list has no links,
\* sizes are multiples of four, so that divideChunk() never refuses what
\* kmalloc() asks of it, and kfree() is before the place of its chunk.
LinksOK == \A c \in Chunks \ Free : hdr[c].prev = NULL /\ hdr[c].next = NULL

SizesOK == \A c \in Chunks : hdr[c].size % 4 = 0

CallOK == pc = "free" => chunk \notin DOMAIN live /\ i < chunk /\ hdr[i].next = j

(***************************************************************************)
(* At every turn of the loops of kmalloc() and kfree() the chunks tile the *)
(* heap, the free list holds the free ones in order, and every block fits  *)
(* its request, through any sequence of divisions and merges (heap.c).     *)
(***************************************************************************)
HeapOK ==
  TypeOK /\ Tiled /\ FreeListOK /\ BlockFits /\ LinksOK /\ SizesOK /\ CallOK

\* Every kmalloc() and kfree() returns: the walks along the list end, also
\* when the list is merged under them.
CallReturns == pc # "idle" ~> pc = "idle"

Blocks == [a \in {c + Header : c \in DOMAIN live} |-> live[a - Header]]

Abstract == INSTANCE Allocator
              WITH Memory <- Start .. End - 1, Length <- Request, blocks <- Blocks

\* The heap is an allocator: a new block overlaps no block in use, and none
\* moves or goes away but by its own kfree().
HeapIsAllocator == Abstract!Spec

=============================================================================
