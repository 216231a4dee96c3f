------------------------- MODULE MCEpochReclamation -------------------------
(***************************************************************************)
(* Instances of EpochReclamation for TLC: two threads that retire nodes,   *)
(* one that only reads, and a batch of one, so that a thread wants to      *)
(* advance after every node it retires.                                    *)
(***************************************************************************)
EXTENDS EpochReclamation, TLC

\* Writers are interchangeable, and so are the other threads.
Symmetry == Permutations(Writer) \cup Permutations(Thread \ Writer)

=============================================================================
