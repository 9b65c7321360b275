----------------------------- MODULE Allocator -----------------------------
(***************************************************************************)
(* What a heap promises: it hands out blocks of memory that do not         *)
(* overlap, and a block stays where it is until it is given back.          *)
(***************************************************************************)
EXTENDS Integers

CONSTANTS
  Memory,  \* the addresses of the heap
  Length   \* the lengths that are asked for

VARIABLE blocks  \* for each block that is in use its length, by its address

Cells(b, a) == a .. a + b[a] - 1

Alloc ==
  \E a \in Memory \ DOMAIN blocks, n \in Length :
    /\ blocks' = [x \in DOMAIN blocks \cup {a} |-> IF x = a THEN n ELSE blocks[x]]
    /\ Cells(blocks', a) \subseteq Memory
    /\ \A x \in DOMAIN blocks : Cells(blocks', a) \cap Cells(blocks, x) = {}

Free ==
  \E a \in DOMAIN blocks : blocks' = [x \in DOMAIN blocks \ {a} |-> blocks[x]]

Spec == DOMAIN blocks = {} /\ [][Alloc \/ Free]_blocks

=============================================================================
