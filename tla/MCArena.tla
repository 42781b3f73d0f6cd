------------------------------- MODULE MCArena -------------------------------
(***************************************************************************)
(* Arena for TLC: bytes of each alignment class, and 12-bit sizes.         *)
(***************************************************************************)
EXTENDS Arena, TLC

\* Too small for a header, just a header, and room for a few objects.
MCArenaBytes == {8, 16, 48}

\* One size of each class of DatablockAllocator::allocate.
MCTypeSizes == {1, 2, 8, 12}

\* 512 objects of 8 bytes are no bytes, and of 12 bytes less than none.
MCCounts == {1, 512}

Symmetric == Permutations(Tasks)

=============================================================================
