----------------------------- MODULE MCBTreeOLC -----------------------------
(***************************************************************************)
(* Instances of BTreeOLC for TLC: trees loaded by bulk_load to the point   *)
(* where the next operations split, and the operations workers then run.   *)
(***************************************************************************)
EXTENDS BTreeOLC, TLC

\* Operations fn on the keys of S with the payloads of V.
Calls(fn, S, V) == [fn : {fn}, key : S, val : V]

\* The root is a full leaf.
FullLeaf == <<6, 8>>

\* The root has room for one child more, and the last leaf is full: the insert
\* that splits the leaf finds the root full when it starts again.
FullRoot == <<3, 4, 5>> \o FullLeaf

\* The same one level further down, below the right child of the root.
FullInner == <<1, 2>> \o FullRoot

\* In each of them the next inserts go into, and beside, the full last leaf.
OneLeaf == {FullLeaf}
FullTrees == {FullLeaf, FullRoot, FullInner}
AtTheEnd == Calls("insert", {7, 9}, Val \ {BulkVal}) \cup Calls("lookup", {6, 7, 8}, {BulkVal})
            \cup Calls("scan", {5}, {BulkVal})

\* One worker: inserts into the first of two leaves, then a scan.
TwoLeaves == {<<1, 4, 6>>}
TwoLeavesWork == Calls("insert", {2, 3}, {BulkVal}) \cup Calls("scan", {1}, {BulkVal})

\* Workers are interchangeable.
Symmetry == Permutations(Worker)

=============================================================================
