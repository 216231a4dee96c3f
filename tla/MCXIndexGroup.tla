---------------------------- MODULE MCXIndexGroup ---------------------------
(***************************************************************************)
(* Instances of XIndexGroup for TLC.                                       *)
(***************************************************************************)
EXTENDS XIndexGroup, TLC

Symmetry == Permutations(Worker) \cup Permutations(Val)

\* The operations on K with functions F; get and remove do not look at val.
OpsOn(F, K) == {o \in Ops : o.fn \in F /\ o.key \in K
                            /\ (o.fn = "put" \/ o.val = CHOOSE v \in Val : TRUE)}

\* only the largest key is worked on, the others are in the way
LastKey == [t \in Worker |-> OpsOn({"get", "put", "remove"}, {Max(Key)})]

\* one worker puts and removes, the others get
Writer == CHOOSE t \in Worker : TRUE
OneWriter == [t \in Worker |-> OpsOn(IF t = Writer THEN {"put", "remove"} ELSE {"get"}, {2})]

\* The key that is worked on alone in its group, without and with a neighbour.
Single == {<<{2}>>, <<{1}, {2}>>}
\* The key in, or to be put into, a group large enough to be split.
Uneven == {<<{1}, {2, 3}>>}
PairFirst == {<<{1, 2}, {3}>>}

=============================================================================
