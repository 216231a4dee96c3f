---------------------------- MODULE OrderedIndex ----------------------------
(***************************************************************************)
(* What a concurrent competitor of the benchmark promises its callers      *)
(* through indexInterface: put, get and scan act on one map from keys to   *)
(* payloads, each put and get takes effect at one instant between its call *)
(* and its return, and a scan returns pairs of the map in range.           *)
(*                                                                         *)
(* The module is the abstract specification BTreeOLC is checked against.   *)
(* It promises what the B+-tree is built to deliver: a put of a key that   *)
(* is present returns false and leaves the payload alone, a scan may stop  *)
(* early, and the Boolean a missed get returns is unspecified.             *)
(***************************************************************************)
EXTENDS Integers, FiniteSets

CONSTANTS
    Thread,     \* the threads that call the index
    Key,        \* keys, a set of integers
    Val,        \* payloads
    ScanNum     \* the number of keys one scan asks for (scan_num)

VARIABLES
    map,        \* the contents: a function from a set of keys to Val
    op,         \* op[t]: the operation t called last
    res         \* res[t]: its result, or Pending while it has none

vars == <<map, op, res>>

-----------------------------------------------------------------------------
Ops == [fn : {"insert", "lookup", "scan"}, key : Key, val : Val]

Empty == [k \in {} |-> 0]

\* The operation has been called and has not taken effect.
Pending == [done |-> FALSE, ok |-> FALSE, out |-> Empty]

Result(ok, out) == [done |-> TRUE, ok |-> ok, out |-> out]

\* The map f limited to the keys of S.
Only(f, S) == [k \in DOMAIN f \cap S |-> f[k]]

\* The map f with key k added.
Plus(f, k, v) == [x \in DOMAIN f \cup {k} |-> IF x = k THEN v ELSE f[x]]

Awaits(t, fn) == ~res[t].done /\ op[t].fn = fn

-----------------------------------------------------------------------------
Init == /\ map = Empty
        /\ op \in [Thread -> Ops]
        /\ res = [t \in Thread |-> Result(FALSE, Empty)]

\* t calls an operation of the index.
Invoke(t) == /\ res[t].done
             /\ \E o \in Ops : op' = [op EXCEPT ![t] = o]
             /\ res' = [res EXCEPT ![t] = Pending]
             /\ UNCHANGED map

\* put: adds an absent key and returns true, returns false otherwise.
Insert(t) ==
    LET k == op[t].key IN
    /\ Awaits(t, "insert")
    /\ res' = [res EXCEPT ![t] = Result(k \notin DOMAIN map, Empty)]
    /\ map' = IF k \in DOMAIN map THEN map ELSE Plus(map, k, op[t].val)
    /\ UNCHANGED op

\* get: writes the payload of a present key and returns true; what it
\* returns for an absent key is left open, the payload is not written.
Lookup(t) ==
    LET k == op[t].key IN
    /\ Awaits(t, "lookup")
    /\ \E ok \in BOOLEAN :
         /\ k \in DOMAIN map => ok
         /\ res' = [res EXCEPT ![t] = Result(ok, Only(map, {k}))]
    /\ UNCHANGED <<map, op>>

\* scan: at most ScanNum pairs of the map with keys from the bound up.
Scan(t) ==
    /\ Awaits(t, "scan")
    /\ \E S \in SUBSET {k \in DOMAIN map : k >= op[t].key} :
         /\ Cardinality(S) <= ScanNum
         /\ res' = [res EXCEPT ![t] = Result(TRUE, Only(map, S))]
    /\ UNCHANGED <<map, op>>

Next == \E t \in Thread : Invoke(t) \/ Insert(t) \/ Lookup(t) \/ Scan(t)

Spec == Init /\ [][Next]_vars

=============================================================================
