--------------------------- MODULE MCXIndexRecord ---------------------------
(***************************************************************************)
(* Instances of XIndexRecord for TLC.                                      *)
(***************************************************************************)
EXTENDS XIndexRecord

\* get, remove, and update to one payload; at first the record may have any.
Updates == {o \in Ops : o.val = CHOOSE v \in Val : TRUE}

=============================================================================
