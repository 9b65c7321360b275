-------------------------- MODULE MCAddressSpaces --------------------------
(***************************************************************************)
(* Small programs: one outside the lowest part of the address space, with  *)
(* a page that the terminator forgets, and one with two segments, of which *)
(* the second crosses a table boundary.                                    *)
(***************************************************************************)
EXTENDS AddressSpaces, TLC

MCProgram ==
  { << [vp |-> PageNumber(1, 0, 0, 0), pages |-> 2, val |-> 1] >>,
    << [vp |-> 1, pages |-> 1, val |-> 1], [vp |-> Width - 1, pages |-> 2, val |-> 2] >> }

\* There is a hole in the memory map.
MCValid == (0 .. NumPages - 1) \ {NumPages - 3}

Symmetric == Permutations(Task)

=============================================================================
