--------------------------- MODULE MCXIndexBuffer ---------------------------
(***************************************************************************)
(* Instances of XIndexBuffer for TLC.                                      *)
(***************************************************************************)
EXTENDS XIndexBuffer

\* A full leaf, and a full root above full leaves, with gaps at the front, in
\* the middle and at the end.
FullTrees == {<<2, 4, 6>>, <<2, 4, 6, 8, 10, 12, 14, 16, 18, 20, 22, 24>>}

Old == CHOOSE v \in Val : TRUE
New == CHOOSE v \in Val : Cardinality(Val) = 1 \/ v # Old
Calls(F, K) == [fn : F, key : K, val : {New}]

\* One worker gets, scans and puts a key in the middle; the others write it
\* too, and put a key at the end.
Reader == CHOOSE t \in Worker : TRUE
Around == [t \in Worker |-> IF t = Reader
                            THEN Calls({"get", "put"}, {5}) \cup Calls({"scan"}, {4})
                            ELSE Calls({"put", "update", "remove"}, {5}) \cup Calls({"put"}, {25})]

=============================================================================
