---------------------------- MODULE XIndexBuffer ----------------------------
(***************************************************************************)
(* The delta buffer of a group of XIndex, AltBtreeBuffer of                *)
(* xindex/src/xindex_buffer_impl.h: a B+-tree of leaves in a chain.        *)
(* Readers take no locks: they look at the lock byte and the version of a  *)
(* node after they have read it.  Writers lock the leaf and, when it is    *)
(* full, its ancestors from below.                                         *)
(*                                                                         *)
(* A step is one access to a shared word, or the changes a thread makes to *)
(* nodes it has locked.  While such a change is going on the node is torn, *)
(* and what others read of it is not fit for use.  One access to a record  *)
(* is atomic: see XIndexRecord.                                            *)
(***************************************************************************)
EXTENDS Integers, Sequences, FiniteSets, FiniteSetsExt, SequencesExt, Functions

CONSTANTS
    Worker, Key, Val, Absent, Removed,
    Cap,        \* node_capacity
    Loads,      \* what may be inserted first: sequences of ascending keys
    Workload,   \* Workload[t]: the operations t may call
    MaxCalls    \* bound: operations the workers start

Ops == [fn : {"get", "put", "update", "remove", "scan"}, key : Key, val : Val]
NoOp == [fn |-> "none"]
NoReturn == [ok |-> FALSE]
Null == 0
Torn == 0

ASSUME BufferAssumption ==
    /\ Key \subseteq Nat \ {0} /\ Absent \notin Val /\ Removed \notin Val
    /\ Cap % 2 = 1 /\ Cap > 1
    /\ \A t \in Worker : Workload[t] \subseteq Ops

VARIABLES
    node,       \* the nodes allocated so far
    root,       \* the root; begin is node 1
    pc,         \* pc[t]: where t is
    l,          \* l[t]: its local variables
    map, op, seen, ret, \* history, as in LinearMap
    must,       \* history: the keys a scan may not leave out
    calls

client == <<op, calls>>
vars == <<node, root, pc, l, client, map, seen, ret, must>>

-----------------------------------------------------------------------------
Blank == [leaf |-> TRUE, locked |-> FALSE, torn |-> FALSE, version |-> 0, parent |-> Null,
          vals |-> <<>>, next |-> Null, keys |-> <<>>, kids |-> <<>>]

\* The keys of a leaf, and what it says of a key.
Keys(n) == DOMAIN node[n].vals
Bound(n, k) == IF k \notin Keys(n) \/ node[n].vals[k] = Removed THEN Absent ELSE node[n].vals[k]

\* find_child: the first key larger than k
FirstLarger(n, k) == 1 + Cardinality({i \in DOMAIN node[n].keys : node[n].keys[i] <= k})
Child(n, k) == node[n].kids[FirstLarger(n, k)]

Count(n) == IF node[n].leaf THEN Cardinality(Keys(n)) ELSE Len(node[n].keys)
\* Mutated: one key too many.
FullLate(n) == Count(n) > Cap
Full(n) == Count(n) = Cap

Local == [n |-> Null, ver |-> 0, c |-> Null, cver |-> 0, sib |-> Null, key |-> 0, out |-> <<>>,
          got |-> Absent, todo |-> <<>>, rest |-> <<>>, up |-> FALSE]

\* A buffer of full leaves, and one root above them, as some order of inserts
\* leaves it; versions are counted from there.
LoadedWith(keys) ==
        LET leaves == (Len(keys) + Cap - 1) \div Cap
            v == CHOOSE v \in Val : TRUE
            part(i) == {keys[j] : j \in {j \in DOMAIN keys : (j - 1) \div Cap = i - 1}}
            leaf(i) == [Blank EXCEPT !.vals = [k \in part(i) |-> v],
                                     !.next = IF i < leaves THEN i + 1 ELSE Null,
                                     !.parent = IF leaves > 1 THEN leaves + 1 ELSE Null]
            top == [Blank EXCEPT !.leaf = FALSE, !.kids = [i \in 1 .. leaves |-> i],
                                 !.keys = [i \in 1 .. leaves - 1 |-> Min(part(i + 1))]]
        IN /\ leaves \in 1 .. Cap + 1
           /\ node = [i \in 1 .. leaves |-> leaf(i)] \o (IF leaves > 1 THEN <<top>> ELSE <<>>)
           /\ root = Len(node)
           /\ pc = [t \in Worker |-> "idle"]
           /\ l = [t \in Worker |-> Local]
           /\ map = [k \in Key |-> IF k \in Range(keys) THEN v ELSE Absent]
           /\ op = [t \in Worker |-> NoOp]
           /\ seen = [t \in Worker |-> {}]
           /\ ret = NoReturn
           /\ must = [t \in Worker |-> {}]
           /\ calls = 0

Init == \E keys \in Loads : LoadedWith(keys)

-----------------------------------------------------------------------------
At(t, lab) == pc[t] = lab
Goto(t, lab) == pc' = [pc EXCEPT ![t] = lab]
Me(t) == node[l[t].n]
Fn(t) == op[t].fn
Reads(t) == Fn(t) \in {"get", "scan"}

\* a step that decides nothing
Quiet == ret' = NoReturn /\ UNCHANGED <<client, map>>
Look == Quiet /\ UNCHANGED <<node, root>>
\* what t's operation returns is decided
Result(t, ok, x) == /\ ret' = [thread |-> t, ok |-> ok, out |-> x]
                    /\ op' = [op EXCEPT ![t] = NoOp]
                    /\ UNCHANGED calls
Bind(t, x) == map' = [map EXCEPT ![op[t].key] = x]

Call(t) == /\ At(t, "idle") /\ calls < MaxCalls
           /\ \E o \in Workload[t] : op' = [op EXCEPT ![t] = o]
           /\ calls' = calls + 1
           /\ ret' = NoReturn
           /\ l' = [l EXCEPT ![t] = Local]
           /\ Goto(t, "root")
           /\ UNCHANGED <<node, root, map>>

-----------------------------------------------------------------------------
(* locate_leaf                                                             *)

LoadRoot(t) == /\ At(t, "root")
               /\ l' = [l EXCEPT ![t].n = root]
               /\ Goto(t, "version") /\ Look

LoadVersion(t) == /\ At(t, "version")
                  /\ l' = [l EXCEPT ![t].ver = Me(t).version]
                  /\ Goto(t, "isroot") /\ Look

\* where the search goes on at node n: is_leaf never changes
Onward(t, n) == IF ~node[n].leaf THEN "child" ELSE IF Reads(t) THEN "read" ELSE "lock"

\* "first make sure we start with correct root"
CheckRoot(t) == /\ At(t, "isroot")
                /\ Goto(t, IF Me(t).parent # Null THEN "root" ELSE Onward(t, l[t].n))
                /\ UNCHANGED l /\ Look

FindChild(t) == /\ At(t, "child")
                /\ \E c \in IF Me(t).torn THEN Range(Me(t).kids) ELSE {Child(l[t].n, op[t].key)} :
                       l' = [l EXCEPT ![t].c = c]
                /\ Goto(t, "cversion") /\ Look

LoadChildVersion(t) == /\ At(t, "cversion")
                       /\ l' = [l EXCEPT ![t].cver = node[l[t].c].version]
                       /\ Goto(t, "clocked") /\ Look

CheckLocked(t) == /\ At(t, "clocked")
                  /\ Goto(t, IF Me(t).locked THEN "root" ELSE "changed")
                  /\ UNCHANGED l /\ Look

\* Mutated: the version is not looked at.
SameAlways(t) == TRUE
Same(t) == l[t].ver = Me(t).version

CheckVersion(t) == /\ At(t, "changed")
                   /\ \/ /\ Same(t)
                         /\ l' = [l EXCEPT ![t].n = l[t].c, ![t].ver = l[t].cver]
                         /\ Goto(t, Onward(t, l[t].c))
                      \/ ~Same(t) /\ Goto(t, "root") /\ UNCHANGED l
                   /\ Look

-----------------------------------------------------------------------------
(* get, and the leaves a scan reads; both go along the chain when the leaf *)
(* has changed.                                                            *)

\* The part of a leaf a scan takes: from its begin on in the first leaf.
Live(n, k) == {x \in Keys(n) : Bound(n, x) # Absent /\ x >= k}
From(t) == IF l[t].up THEN 1 ELSE op[t].key

ReadLeaf(t) ==
    /\ At(t, "read")
    /\ \/ /\ Fn(t) = "get"
          /\ l' = [l EXCEPT ![t].got = IF Me(t).torn THEN Torn ELSE Bound(l[t].n, op[t].key)]
       \/ /\ Fn(t) = "scan"
          /\ l' = [l EXCEPT ![t].todo = IF Me(t).torn THEN <<Torn>>
                                        ELSE SetToSortSeq(Live(l[t].n, From(t)), <),
                            ![t].c = Me(t).next]
    /\ Goto(t, "rlocked") /\ Look

CheckLeafLocked(t) == /\ At(t, "rlocked")
                      /\ Goto(t, IF Me(t).locked THEN "chain" ELSE "rversion")
                      /\ UNCHANGED l /\ Look

\* Mutated: the version of the leaf is not looked at.
SameLeafAlways(t) == TRUE
SameLeaf(t) == l[t].ver = Me(t).version

\* DataSource: the leaf is taken; up tells that it is not the first any more
Taken(t) == [l[t] EXCEPT !.out = @ \o l[t].todo, !.todo = <<>>, !.up = TRUE, !.n = l[t].c]

CheckLeafVersion(t) ==
    /\ At(t, "rversion")
    /\ \/ /\ ~SameLeaf(t)
          /\ Goto(t, "chain") /\ UNCHANGED l /\ Quiet
       \/ /\ SameLeaf(t) /\ Fn(t) = "get"
          /\ Result(t, l[t].got # Absent, l[t].got)
          /\ l' = [l EXCEPT ![t] = Local]
          /\ Goto(t, "idle") /\ UNCHANGED map
       \/ /\ SameLeaf(t) /\ Fn(t) = "scan"
          /\ l' = [l EXCEPT ![t] = Taken(t)]
          /\ Goto(t, IF l[t].c = Null THEN "scanned" ELSE "chain") /\ Quiet
    /\ UNCHANGED <<node, root>>

\* the version, "before reading next"; a scan past its first leaf reads again
Chain(t) == /\ At(t, "chain")
            /\ l' = [l EXCEPT ![t].ver = Me(t).version]
            /\ Goto(t, IF Fn(t) = "scan" /\ l[t].up THEN "read" ELSE "next") /\ Look

\* next, and its first key, which never changes
LoadNext(t) == LET n == Me(t).next IN
    /\ At(t, "next")
    /\ \/ /\ n # Null /\ Min(Keys(n)) <= op[t].key
          /\ l' = [l EXCEPT ![t].n = n]
          /\ Goto(t, "chain")
       \/ /\ ~(n # Null /\ Min(Keys(n)) <= op[t].key)
          /\ Goto(t, Onward(t, l[t].n))
          /\ UNCHANGED l
    /\ Look

\* the scan returns
Scanned(t) == /\ At(t, "scanned")
              /\ op' = [op EXCEPT ![t] = NoOp]
              /\ ret' = NoReturn
              /\ l' = [l EXCEPT ![t] = Local]
              /\ Goto(t, "idle")
              /\ UNCHANGED <<node, root, map, calls>>

-----------------------------------------------------------------------------
(* update, insert and remove: locate_leaf_locked                           *)

Lock(t) == /\ At(t, "lock") /\ ~Me(t).locked
           /\ node' = [node EXCEPT ![l[t].n].locked = TRUE]
           /\ Goto(t, "locked")
           /\ Quiet /\ UNCHANGED <<root, l>>

\* Mutated: the leaf is used although its version has moved.
SameLockedAlways(t) == TRUE
SameLocked(t) == l[t].ver = Me(t).version

CheckLockedVersion(t) ==
    /\ At(t, "locked")
    /\ \/ ~SameLocked(t) /\ node' = [node EXCEPT ![l[t].n].locked = FALSE] /\ Goto(t, "chain")
       \/ SameLocked(t) /\ UNCHANGED node /\ Goto(t, "apply")
    /\ Quiet /\ UNCHANGED <<root, l>>

\* the nodes whose versions are counted up and which are unlocked, in order
Finish(t, nodes) == /\ l' = [l EXCEPT ![t].rest = nodes, ![t].todo = nodes, ![t].up = FALSE]
                    /\ Goto(t, "bump")

\* t unlocks its leaf: "no version changed"
Done(t) == /\ l' = [l EXCEPT ![t].todo = <<l[t].n>>]
           /\ Goto(t, "unlock")

\* The record of the key is written in place, or the operation fails, or the
\* leaf has to be changed.
Apply(t) ==
    LET n == l[t].n
        k == op[t].key
        bound == Bound(n, k) # Absent
    IN /\ At(t, "apply")
       /\ \/ /\ bound /\ Fn(t) \in {"put", "update"}
             /\ node' = [node EXCEPT ![n].vals[k] = op[t].val]
             /\ Bind(t, op[t].val) /\ Result(t, TRUE, Absent) /\ Done(t)
          \/ /\ bound /\ Fn(t) = "remove"
             /\ node' = [node EXCEPT ![n].vals[k] = Removed]
             /\ Bind(t, Absent) /\ Result(t, TRUE, Absent) /\ Done(t)
          \/ /\ ~bound /\ Fn(t) \in {"update", "remove"}
             /\ Result(t, FALSE, Absent) /\ Done(t) /\ UNCHANGED <<node, map>>
          \/ /\ ~bound /\ Fn(t) = "put"
             /\ node' = [node EXCEPT ![n].torn = TRUE]
             /\ Goto(t, IF k \in Keys(n) \/ ~Full(n) THEN "write" ELSE "split")
             /\ Quiet /\ UNCHANGED l
       /\ UNCHANGED root

\* The leaf with the key in it.
With(n, k, v) == (k :> v) @@ node[n].vals

\* insert_leaf: over a removed record, or into a free slot
WriteLeaf(t) ==
    /\ At(t, "write")
    /\ node' = [node EXCEPT ![l[t].n].vals = With(l[t].n, op[t].key, op[t].val),
                            ![l[t].n].torn = FALSE]
    /\ Bind(t, op[t].val) /\ Result(t, TRUE, Absent) /\ Finish(t, <<l[t].n>>)
    /\ UNCHANGED root

-----------------------------------------------------------------------------
(* split_n_insert_leaf                                                     *)

\* how many keys stay in the leaf: the new key has slot keys before it
LeafMid(slot) == IF slot = Cap THEN Cap
                 ELSE IF slot >= Cap \div 2 /\ Cap \div 2 < Cap - Cap \div 2 THEN Cap \div 2 + 1
                 ELSE Cap \div 2

\* Mutated: the new leaf has no successor.
SuccessorLost(n) == Null
Successor(n) == node[n].next

\* the upper keys go to a new leaf, which is locked
SplitLeaf(t) ==
    LET n == l[t].n
        k == op[t].key
        slot == Cardinality({x \in Keys(n) : x < k})
        all == With(n, k, op[t].val)
        order == SetToSortSeq(DOMAIN all, <)
        left == LeafMid(slot) + (IF slot < LeafMid(slot) THEN 1 ELSE 0)
        lower == {order[i] : i \in 1 .. left}
        sib == [Blank EXCEPT !.locked = TRUE, !.vals = Restrict(all, DOMAIN all \ lower),
                             !.next = Successor(n)]
    IN /\ At(t, "split")
       /\ node' = Append([node EXCEPT ![n].vals = Restrict(all, lower), ![n].torn = FALSE,
                                      ![n].next = Len(node) + 1], sib)
       /\ l' = [l EXCEPT ![t].sib = Len(node) + 1, ![t].key = order[left + 1]]
       /\ Bind(t, op[t].val) /\ Result(t, TRUE, Absent)
       /\ Goto(t, "parent")
       /\ UNCHANGED root

LoadParent(t) == /\ At(t, "parent")
                 /\ l' = [l EXCEPT ![t].c = Me(t).parent]
                 /\ Goto(t, IF Me(t).parent = Null THEN "newroot" ELSE "plock") /\ Look

LockParent(t) == /\ At(t, "plock") /\ ~node[l[t].c].locked
                 /\ node' = [node EXCEPT ![l[t].c].locked = TRUE]
                 /\ Goto(t, "pcheck")
                 /\ Quiet /\ UNCHANGED <<root, l>>

IsParent(t) == Me(t).parent = l[t].c

\* "when parent is split by others"
CheckParent(t) ==
    /\ At(t, "pcheck")
    /\ \/ /\ ~IsParent(t)
          /\ node' = [node EXCEPT ![l[t].c].locked = FALSE]
          /\ Goto(t, "parent")
       \/ /\ IsParent(t)
          /\ node' = [node EXCEPT ![l[t].c].torn = TRUE]
          /\ Goto(t, IF Full(l[t].c) THEN "psplit" ELSE "pinsert")
    /\ Quiet /\ UNCHANGED <<root, l>>

\* a new root, still locked
NewRoot(t) == LET p == Len(node) + 1 IN
    /\ At(t, "newroot")
    /\ node' = Append([node EXCEPT ![l[t].n].parent = p, ![l[t].sib].parent = p],
                      [Blank EXCEPT !.leaf = FALSE, !.locked = TRUE, !.keys = <<l[t].key>>,
                                    !.kids = <<l[t].n, l[t].sib>>])
    /\ l' = [l EXCEPT ![t].c = p]
    /\ Goto(t, "setroot")
    /\ Quiet /\ UNCHANGED root

SetRoot(t) == /\ At(t, "setroot")
              /\ root' = l[t].c
              /\ Finish(t, <<l[t].c, l[t].n, l[t].sib>>)
              /\ Quiet /\ UNCHANGED node

\* the parent has room
InsertChild(t) == LET p == l[t].c
                      i == FirstLarger(p, l[t].key)
                  IN
    /\ At(t, "pinsert")
    /\ node' = [node EXCEPT ![p].keys = InsertAt(@, i, l[t].key),
                            ![p].kids = InsertAt(@, i + 1, l[t].sib),
                            ![p].torn = FALSE, ![l[t].sib].parent = p]
    /\ Finish(t, <<p, l[t].n, l[t].sib>>)
    /\ Quiet /\ UNCHANGED root

\* the key that goes up, counting from 0 among the keys with the new one
InnerMid(slot) == IF slot = Cap THEN Cap - 1
                  ELSE IF slot < Cap \div 2 /\ Cap \div 2 > Cap - (Cap \div 2 + 1)
                       THEN Cap \div 2 - 1 ELSE Cap \div 2

Moved(ks) == Range(ks)

\* the parent is full: it is split, and the leaves below are let go
SplitInner(t) ==
    LET p == l[t].c
        q == Len(node) + 1
        i == FirstLarger(p, l[t].key)
        keys == InsertAt(node[p].keys, i, l[t].key)
        kids == InsertAt(node[p].kids, i + 1, l[t].sib)
        m == InnerMid(i - 1) + (IF i - 1 < InnerMid(i - 1) THEN 2 ELSE 1)
        right == SubSeq(kids, m + 1, Len(kids))
        parent(c) == IF c \in Moved(right) THEN q
                     ELSE IF c = l[t].sib THEN p ELSE node[c].parent
    IN /\ At(t, "psplit")
       /\ node' = Append([c \in DOMAIN node |->
                             IF c = p THEN [node[p] EXCEPT !.keys = SubSeq(keys, 1, m - 1),
                                                           !.kids = SubSeq(kids, 1, m),
                                                           !.torn = FALSE]
                             ELSE [node[c] EXCEPT !.parent = parent(c)]],
                         [Blank EXCEPT !.leaf = FALSE, !.locked = TRUE, !.kids = right,
                                       !.keys = SubSeq(keys, m + 1, Len(keys))])
       /\ l' = [l EXCEPT ![t].rest = <<l[t].n, l[t].sib>>, ![t].todo = <<l[t].n, l[t].sib>>,
                         ![t].up = TRUE,
                         ![t].n = p, ![t].sib = q, ![t].key = keys[m]]
       /\ Goto(t, "bump")
       /\ Quiet /\ UNCHANGED root

\* version++ of all, then unlock of all
Bump(t) == /\ At(t, "bump")
           /\ node' = [node EXCEPT ![Head(l[t].rest)].version = @ + 1]
           /\ l' = [l EXCEPT ![t].rest = Tail(@)]
           /\ Goto(t, IF Len(l[t].rest) = 1 THEN "unlock" ELSE "bump")
           /\ Quiet /\ UNCHANGED root

\* Mutated: the last node stays locked.
LastUnlockEarly(t) == Len(l[t].todo) <= 2
LastUnlock(t) == Len(l[t].todo) = 1

Unlock(t) ==
    /\ At(t, "unlock")
    /\ node' = [node EXCEPT ![Head(l[t].todo)].locked = FALSE]
    /\ \/ /\ ~LastUnlock(t)
          /\ l' = [l EXCEPT ![t].todo = Tail(@)] /\ UNCHANGED pc
       \/ /\ LastUnlock(t) /\ l[t].up
          /\ l' = [l EXCEPT ![t].todo = <<>>] /\ Goto(t, "parent")
       \/ /\ LastUnlock(t) /\ ~l[t].up
          /\ l' = [l EXCEPT ![t] = Local] /\ Goto(t, "idle")
    /\ Quiet /\ UNCHANGED root

-----------------------------------------------------------------------------
Locate(t) == \/ LoadRoot(t) \/ LoadVersion(t) \/ CheckRoot(t) \/ FindChild(t)
             \/ LoadChildVersion(t) \/ CheckLocked(t) \/ CheckVersion(t) \/ Chain(t) \/ LoadNext(t)
Read(t) == ReadLeaf(t) \/ CheckLeafLocked(t) \/ CheckLeafVersion(t) \/ Scanned(t)
Change(t) == \/ Lock(t) \/ CheckLockedVersion(t) \/ Apply(t) \/ WriteLeaf(t) \/ SplitLeaf(t)
             \/ LoadParent(t) \/ LockParent(t) \/ CheckParent(t) \/ NewRoot(t) \/ SetRoot(t)
             \/ InsertChild(t) \/ SplitInner(t) \/ Bump(t) \/ Unlock(t)
Step(t) == Locate(t) \/ Read(t) \/ Change(t)

\* the operations of LinearMap; a scan is none of them
Single(o) == IF o.fn = "scan" THEN NoOp ELSE o

\* seen notes what the key of each pending operation is bound to after the
\* step, must the keys that have been bound since the scan began
Observe ==
    /\ seen' = [t \in Worker |-> IF Single(op'[t]) = NoOp THEN {} ELSE seen[t] \cup {map'[op'[t].key]}]
    /\ must' = [t \in Worker |-> IF op'[t].fn # "scan" THEN {}
                    ELSE {k \in IF op[t] = NoOp THEN Key ELSE must[t] :
                              k >= op'[t].key /\ map'[k] # Absent}]

Next == /\ \E t \in Worker : Call(t) \/ Step(t)
        /\ Observe

Spec == Init /\ [][Next]_vars

\* Every thread inside an operation is scheduled; no lock is fair.
FairSpec == Spec /\ \A t \in Worker : WF_vars(Step(t) /\ Observe)

-----------------------------------------------------------------------------
(* Properties.                                                             *)

\* The types of the variables: nodes point to allocated nodes, no leaf has
\* more than Cap keys, and an inner node has one child more than keys.
TypeOK == /\ root \in DOMAIN node
          /\ \A n \in DOMAIN node :
                /\ {node[n].parent, node[n].next} \cup Range(node[n].kids)
                       \subseteq DOMAIN node \cup {Null}
                /\ node[n].leaf => /\ Keys(n) \subseteq Key /\ Cardinality(Keys(n)) <= Cap
                                   /\ Range(node[n].vals) \subseteq Val \cup {Removed}
                /\ ~node[n].leaf => Len(node[n].keys) \in 1 .. Cap
                                    /\ Len(node[n].kids) = Len(node[n].keys) + 1
          /\ \A t \in Worker : {l[t].n, l[t].c, l[t].sib} \subseteq DOMAIN node \cup {Null}

\* The assertions of split_n_insert_leaf on an inner node: its children have it
\* as their parent, and the keys of a child lie between the separators.  They
\* hold of every inner node that is not locked, whoever has changed it.
ChildrenFit == \A p \in DOMAIN node : LET ks == node[p].keys IN
    ~node[p].leaf /\ ~node[p].locked =>
        \A i \in DOMAIN node[p].kids : LET c == node[p].kids[i] IN
            /\ node[c].parent = p
            /\ \A k \in IF node[c].leaf THEN Keys(c) ELSE Range(node[c].keys) :
                   (i > 1 => ks[i - 1] <= k) /\ (i <= Len(ks) => k < ks[i])

LM == INSTANCE LinearMap WITH Thread <- Worker, op <- [t \in Worker |-> Single(op[t])]

\* insert, update, remove and get are atomic although readers take no lock and
\* a leaf may be split after it was located: no key is missed because it has
\* moved, and nothing that was read from a leaf in change is returned.
Linearizable == LM!Spec

\* A scan returns its keys in ascending order, each once, and nothing it read
\* from a leaf in change, also when the leaves split under it.
ScanAscends == \A t \in Worker : LET o == l[t].out IN
    Range(o) \subseteq Key /\ \A i \in 1 .. Len(o) - 1 : o[i] < o[i + 1]

\* A scan leaves out no key that was there all the time: "the node is changed,
\* possibly split, so need to check its next", and "but we don't care the
\* splits" behind the first leaf.
ScanComplete == \A t \in Worker : At(t, "scanned") => must[t] \subseteq Range(l[t].out)

\* Locks are taken from the leaf up and readers retry only when somebody has
\* changed a node: when finitely many operations are called, all return.
AllReturn == <>[](\A t \in Worker : At(t, "idle"))

=============================================================================
