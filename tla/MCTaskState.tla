----------------------------- MODULE MCTaskState -----------------------------
(***************************************************************************)
(* TaskState for TLC: two or three datablocks at addresses 4, 6 and 8.     *)
(* With blocks of four bytes two fit side by side, and a block at 6 lies   *)
(* over what blocks at 4 and 8 have left; of two bytes, three fit.         *)
(***************************************************************************)
EXTENDS TaskState, TLC

TwoDbs == 1 .. 2

ThreeDbs == 1 .. 3

MCBases == {4, 6, 8}

Symmetry == Permutations(Workers) \cup Permutations(Tasks)

=============================================================================
