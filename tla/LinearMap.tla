----------------------------- MODULE LinearMap ------------------------------
(***************************************************************************)
(* What the parts of XIndex promise their callers: put, update, remove and *)
(* get act on one map from keys to payloads, and each takes effect at one  *)
(* instant between its call and its return.  The modules of the record,    *)
(* the delta buffer and the groups are checked to implement this one.      *)
(*                                                                         *)
(* seen[t] collects what the key of t's operation was bound to since the   *)
(* call.  A get, and an operation that fails, may return what was true at  *)
(* any of these instants.                                                  *)
(***************************************************************************)
EXTENDS Integers

CONSTANTS
    Thread,     \* the callers
    Key, Val,
    Absent      \* what a key without a payload is bound to

VARIABLES
    map,        \* map[k]: the payload of k, or Absent
    op,         \* op[t]: the operation t has called, or NoOp
    seen,       \* seen[t]: what map[op[t].key] has been since the call
    ret         \* what the last step has returned to its caller, or NoReturn

vars == <<map, op, seen, ret>>

Ops == [fn : {"get", "put", "update", "remove"}, key : Key, val : Val]
NoOp == [fn |-> "none"]

Return(t, ok, x) == [thread |-> t, ok |-> ok, out |-> x]
NoReturn == [ok |-> FALSE]

Awaits(t, F) == op[t].fn \in F
Bound(t) == map[op[t].key]

\* Every pending operation notes what its key is bound to after the step.
Observe == seen' = [t \in Thread |-> IF op'[t] = NoOp THEN {}
                                     ELSE seen[t] \cup {map'[op'[t].key]}]

-----------------------------------------------------------------------------
Init == /\ map \in [Key -> Val \cup {Absent}]
        /\ op = [t \in Thread |-> NoOp]
        /\ seen = [t \in Thread |-> {}]
        /\ ret = NoReturn

Call(t) == /\ op[t] = NoOp
           /\ \E o \in Ops : op' = [op EXCEPT ![t] = o]
           /\ ret' = NoReturn
           /\ UNCHANGED map

\* The pending operations write the map: put in any case, update and remove
\* when the key is bound.
Write(t) == /\ \/ /\ Awaits(t, {"put"})
                  /\ map' = [map EXCEPT ![op[t].key] = op[t].val]
               \/ /\ Awaits(t, {"update"}) /\ Bound(t) # Absent
                  /\ map' = [map EXCEPT ![op[t].key] = op[t].val]
               \/ /\ Awaits(t, {"remove"}) /\ Bound(t) # Absent
                  /\ map' = [map EXCEPT ![op[t].key] = Absent]
            /\ ret' = Return(t, TRUE, Absent)
            /\ op' = [op EXCEPT ![t] = NoOp]

\* The operation reads, or fails.
Answer(t) == /\ \/ /\ Awaits(t, {"get"})
                   /\ \E x \in seen[t] : ret' = Return(t, x # Absent, x)
                \/ /\ Awaits(t, {"update", "remove"}) /\ Absent \in seen[t]
                   /\ ret' = Return(t, FALSE, Absent)
             /\ op' = [op EXCEPT ![t] = NoOp]
             /\ UNCHANGED map

\* The caller has taken what was returned.
Taken == ret' = NoReturn /\ UNCHANGED <<map, op>>

Next == /\ \/ \E t \in Thread : Call(t) \/ Write(t) \/ Answer(t)
           \/ Taken
        /\ Observe

Spec == Init /\ [][Next]_vars

=============================================================================
