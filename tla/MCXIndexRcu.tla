----------------------------- MODULE MCXIndexRcu ----------------------------
(***************************************************************************)
(* Instances of XIndexRcu for TLC.                                         *)
(***************************************************************************)
EXTENDS XIndexRcu, TLC

Symmetry == Permutations(Worker)

=============================================================================
