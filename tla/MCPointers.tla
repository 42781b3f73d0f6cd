----------------------------- MODULE MCPointers -----------------------------
(***************************************************************************)
(* Pointers for TLC: two datablocks of four bytes.  At 4 and 8 they lie    *)
(* side by side, in either order; a block at 6 overlaps both places, so    *)
(* that a block may come to lie over the base of one released before.      *)
(***************************************************************************)
EXTENDS Pointers, TLC

MCDbs == 1 .. 2

MCBases == {4, 6, 8}

\* Pointers at the start and in the middle of a block.
MCBasedCells == {<<1, 2>>, <<2, 0>>}

\* A pointer in the one to offset 2 is at distance 1, in the other at distance 0.
MCRelCells == {<<2, 1>>, <<2, 2>>}

NoCells == {}

MCOffsets == {0, 2}

Symmetry == Permutations(Tasks)

=============================================================================
