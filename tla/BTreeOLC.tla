------------------------------ MODULE BTreeOLC ------------------------------
(***************************************************************************)
(* The B+-tree with optimistic lock coupling of                            *)
(* src/competitor/btreeolc/src/BTreeOLC_child_layout.h: threads run        *)
(* insert, lookup and scan on one tree.  Readers take no lock; they note a *)
(* node's version, read, and restart when the version has moved.           *)
(*                                                                         *)
(* One step is one access to shared memory that another thread can tell    *)
(* apart: a load of root, a load, compare-and-swap or add on a version     *)
(* word, or a group of plain accesses to a node.  A plain read that races  *)
(* with a writer (the version is no longer the one noted) has an           *)
(* unspecified outcome, see SeesFull, SeesChild, SeesData and SeesNext.    *)
(*                                                                         *)
(* A leaf's sorted array is a function from keys to payloads, an inner     *)
(* node's two arrays are a function from separators to children in which   *)
(* Inf stands for the child past the last separator.                       *)
(***************************************************************************)
EXTENDS Integers, FiniteSets, Sequences

CONSTANTS
    Worker,      \* threads that run operations
    Loader,      \* the thread that runs bulk_load before they start
    Key,         \* keys, integers
    Inf,         \* an integer above every key
    Val,         \* payloads
    Junk,        \* a payload made of bytes no put ever wrote
    Loads,       \* what bulk_load may be given: sequences of keys
    BulkVal,     \* the payload it gives them
    Workload,    \* the operations workers may call
    ScanNum,     \* the number of keys a scan asks for
    LeafMax,     \* BTreeLeaf::maxEntries
    InnerMax,    \* BTreeInner::maxEntries
    MaxNodes,    \* bound: nodes ever allocated
    MaxVersion,  \* bound: largest version word
    MaxCalls     \* bound: operations each worker starts

Thread == Worker \cup {Loader}
Node == 1 .. MaxNodes
Null == 0
Upto == Key \cup {Inf}

Ops == [fn : {"insert", "lookup", "scan"}, key : Key, val : Val]

ASSUME KeyAssumption == /\ Key # {} /\ Key \subseteq Int
                        /\ Inf \in Int /\ \A k \in Key : k < Inf
ASSUME ValAssumption == Junk \notin Val /\ BulkVal \in Val
ASSUME ThreadAssumption == Loader \notin Worker
ASSUME LoadAssumption == Loads \subseteq Seq(Key) /\ Loads # {} /\ Workload \subseteq Ops
\* Smaller nodes would be split into nodes without a key: maxEntries is 31.
ASSUME SizeAssumption == /\ LeafMax \in Nat /\ LeafMax >= 2
                         /\ InnerMax \in Nat /\ InnerMax >= 5
ASSUME BoundAssumption == /\ ScanNum \in Nat \ {0}
                          /\ MaxNodes \in Nat \ {0}
                          /\ MaxVersion \in Nat
                          /\ MaxCalls \in Nat

VARIABLES
    root,        \* the root pointer
    version,     \* version[n]: typeVersionLockObsolete of node n
    type,        \* type[n]: "leaf" or "inner"
    data,        \* data[n]: the pairs of leaf n
    kid,         \* kid[n]: the children of inner node n
    next,        \* next[n]: next_leaf of leaf n
    used,        \* nodes 1 .. used have been allocated
    pc,          \* pc[t]: where thread t is
    op,          \* op[t]: the operation it runs
    ret,         \* ret[t]: what it returns: the Boolean and the pairs written
    node,        \* its local variables node, versionNode,
    vnode,
    parent,      \* parent, versionParent
    vparent,
    succ,        \* and next_node
    load,        \* keys bulk_load has still to insert
    calls        \* calls[t]: operations started

tree == <<root, version, type, data, kid, next, used>>
contents == <<root, type, data, kid, next, used>>
cursor == <<node, vnode, parent, vparent, succ>>
client == <<op, ret, load, calls>>
vars == <<tree, pc, cursor, client>>

-----------------------------------------------------------------------------
(* OptLock: bit 0 obsolete, bit 1 locked, the version above.               *)

InitVersion == 4
Locked(v) == (v \div 2) % 2 = 1
Obsolete(v) == v % 2 = 1
Readable(v) == ~Locked(v) /\ ~Obsolete(v)

\* Mutated: locks whatever state the node is in; locks the node as it is now;
\* stores the version it compared with.
CanUpgradeAlways(n, v) == TRUE
CanUpgradeAnew(n, v) == Readable(version[n])
UpgradeUnmarked(n) == version' = version

\* upgradeToWriteLockOrRestart succeeds exactly when the version is v.
CanUpgrade(n, v) == version[n] = v
Upgrade(n) == version' = [version EXCEPT ![n] = @ + 2]
WriteUnlock(n) == version' = [version EXCEPT ![n] = @ + 2]

\* The bound on versions stops a thread before it takes its first lock.
MayLock(n) == version[n] + 2 <= MaxVersion

-----------------------------------------------------------------------------
(* Node contents.                                                          *)

Empty == [k \in {} |-> 0]
Only(f, S) == [k \in DOMAIN f \cap S |-> f[k]]
Plus(f, k, v) == [x \in DOMAIN f \cup {k} |-> IF x = k THEN v ELSE f[x]]

\* lowerBound: d is the least member of S that is not below k.
LowerBound(S, k, d) == d \in S /\ d >= k /\ \A e \in S : e >= k => d <= e

\* L holds the n smallest members of S.
Smallest(L, S, n) == Cardinality(L) = n /\ \A x \in L, y \in S \ L : x < y

Greatest(d, S) == d \in S /\ \A e \in S : e <= d

Separators(n) == DOMAIN kid[n] \ {Inf}


\* isFull
Full(n) == IF type[n] = "leaf" THEN Cardinality(DOMAIN data[n]) = LeafMax
                               ELSE Cardinality(Separators(n)) = InnerMax - 1

InsertChildShort(f, d, sep, new) ==
    [x \in DOMAIN f \cup {sep} |->
        IF x = (IF d = Inf THEN sep ELSE Inf) THEN Null
        ELSE IF x = sep THEN f[d] ELSE IF x = d THEN new ELSE f[x]]

\* BTreeInner::insert, d being the lower bound of sep: the child that was
\* split keeps the keys up to sep, the new one takes the rest of its range.
InsertChild(f, d, sep, new) ==
    [x \in DOMAIN f \cup {sep} |->
        IF x = sep THEN f[d] ELSE IF x = d THEN new ELSE f[x]]

-----------------------------------------------------------------------------
(* What thread t sees when it reads the node it stands on.                 *)

Unmoved(t) == version[node[t]] = vnode[t]
SeesFull(t) == IF Unmoved(t) THEN {Full(node[t])} ELSE BOOLEAN
SeesChild(t) ==
    LET n == node[t]
        D == {d \in DOMAIN kid[n] : LowerBound(DOMAIN kid[n], op[t].key, d)}
    IN  IF Unmoved(t) THEN {kid[n][d] : d \in D} ELSE 1 .. used
\* A racing copy finds the keys before or after the writer's moves, or keys
\* that moved to another leaf, with payloads that belong to other keys.
TreeKeys == UNION {DOMAIN data[n] : n \in 1 .. used}
SeesData(t) == IF Unmoved(t) THEN {data[node[t]]}
               ELSE {data[node[t]], Empty, [k \in TreeKeys |-> Junk]}
SeesNext(t) == IF Unmoved(t) THEN {next[node[t]]} ELSE {Null} \cup 1 .. used

-----------------------------------------------------------------------------
At(t, l) == pc[t] = l
Goto(t, l) == pc' = [pc EXCEPT ![t] = l]

NoResult == [ok |-> FALSE, out |-> Empty]
NoOp == [fn |-> "insert", key |-> CHOOSE k \in Key : TRUE, val |-> BulkVal]

ForgetCursor(t) == /\ node' = [node EXCEPT ![t] = Null]
                   /\ vnode' = [vnode EXCEPT ![t] = 0]
                   /\ parent' = [parent EXCEPT ![t] = Null]
                   /\ vparent' = [vparent EXCEPT ![t] = 0]
                   /\ succ' = [succ EXCEPT ![t] = Null]


\* goto restart: a scan counts from 0 again; a payload that lookup has written
\* through its reference argument stays there.
Restart(t) == /\ Goto(t, "start")
              /\ ForgetCursor(t)
              /\ ret' = [ret EXCEPT ![t] = IF op[t].fn = "lookup" THEN @ ELSE NoResult]
              /\ UNCHANGED <<op, load, calls>>

\* return
Return(t) == Goto(t, "idle") /\ ForgetCursor(t)


\* parent->readUnlockOrRestart(versionParent) asks for a restart
ParentMoved(t) == parent[t] # Null /\ version[parent[t]] # vparent[t]

-----------------------------------------------------------------------------
Init == /\ root = 1
        /\ version = [n \in Node |-> InitVersion]
        /\ type = [n \in Node |-> "leaf"]
        /\ data = [n \in Node |-> Empty]
        /\ kid = [n \in Node |-> Empty]
        /\ next = [n \in Node |-> Null]
        /\ used = 1
        /\ pc = [t \in Thread |-> "idle"]
        /\ op = [t \in Thread |-> NoOp]
        /\ ret = [t \in Thread |-> NoResult]
        /\ node = [t \in Thread |-> Null]
        /\ vnode = [t \in Thread |-> 0]
        /\ parent = [t \in Thread |-> Null]
        /\ vparent = [t \in Thread |-> 0]
        /\ succ = [t \in Thread |-> Null]
        /\ load \in Loads
        /\ calls = [t \in Thread |-> 0]

Begin(t, o) == /\ At(t, "idle")
               /\ op' = [op EXCEPT ![t] = o]
               /\ ret' = [ret EXCEPT ![t] = NoResult]
               /\ Goto(t, "start")
               /\ UNCHANGED <<tree, cursor>>

\* bulk_load: one insert after the other, before any worker starts.
BulkInsert(t) ==
    /\ t = Loader
    /\ load # <<>>
    /\ Begin(t, [fn |-> "insert", key |-> Head(load), val |-> BulkVal])
    /\ load' = Tail(load)
    /\ UNCHANGED calls

\* A worker calls put, get or scan.
Call(t) ==
    /\ t \in Worker
    /\ load = <<>> /\ At(Loader, "idle")
    /\ calls[t] < MaxCalls
    /\ \E o \in Workload : Begin(t, o)
    /\ calls' = [calls EXCEPT ![t] = @ + 1]
    /\ UNCHANGED load

-----------------------------------------------------------------------------
(* The descent, shared by insert, lookup and scan.                         *)

\* NodeBase *node = root
LoadRoot(t) == /\ At(t, "start")
               /\ node' = [node EXCEPT ![t] = root]
               /\ Goto(t, "rootRead")
               /\ UNCHANGED <<tree, vnode, parent, vparent, succ, client>>

\* readLockOrRestart on it
ReadRoot(t) ==
    /\ At(t, "rootRead")
    /\ \/ /\ ~Readable(version[node[t]])
          /\ Restart(t)
       \/ /\ Readable(version[node[t]])
          /\ vnode' = [vnode EXCEPT ![t] = version[node[t]]]
          /\ Goto(t, "rootCheck")
          /\ UNCHANGED <<node, parent, vparent, succ, client>>
    /\ UNCHANGED tree

\* Mutated: root is not loaded again.
CheckRootNot(t) == /\ At(t, "rootCheck") /\ Goto(t, "visit")
                   /\ UNCHANGED <<tree, cursor, client>>

\* the second load of root: a concurrent makeRoot may have put a node above
CheckRoot(t) ==
    /\ At(t, "rootCheck")
    /\ \/ node[t] # root /\ Restart(t)
       \/ node[t] = root /\ Goto(t, "visit") /\ UNCHANGED <<cursor, client>>
    /\ UNCHANGED tree

\* insert splits a full node on its way down, parent first
ToSplit(t) == Goto(t, IF parent[t] = Null THEN "splitNode" ELSE "splitParent")

VisitInner(t) ==
    /\ At(t, "visit") /\ type[node[t]] = "inner"
    /\ \/ op[t].fn = "insert" /\ TRUE \in SeesFull(t) /\ ToSplit(t)
       \/ op[t].fn = "insert" /\ FALSE \in SeesFull(t) /\ Goto(t, "step")
       \/ op[t].fn # "insert" /\ Goto(t, "step")
    /\ UNCHANGED <<tree, cursor, client>>

VisitLeaf(t) ==
    /\ At(t, "visit") /\ type[node[t]] = "leaf"
    /\ \/ op[t].fn = "insert" /\ TRUE \in SeesFull(t) /\ ToSplit(t)
       \/ op[t].fn = "insert" /\ FALSE \in SeesFull(t) /\ Goto(t, "leafLock")
       \/ op[t].fn = "lookup" /\ Goto(t, "lookRead")
       \/ op[t].fn = "scan" /\ Goto(t, "scanParent")
    /\ UNCHANGED <<tree, cursor, client>>

\* validate the parent, then read the child pointer of the inner node; a
\* writer between the two moves the inner node's version, CheckInner sees it
Step(t) ==
    /\ At(t, "step")
    /\ \/ ParentMoved(t) /\ Restart(t)
       \/ /\ ~ParentMoved(t)
          /\ parent' = [parent EXCEPT ![t] = node[t]]
          /\ vparent' = [vparent EXCEPT ![t] = vnode[t]]
          /\ \E c \in SeesChild(t) : node' = [node EXCEPT ![t] = c]
          /\ Goto(t, "checkInner")
          /\ UNCHANGED <<vnode, succ, client>>
    /\ UNCHANGED tree

\* inner->checkOrRestart before the child pointer is followed
CheckInner(t) ==
    /\ At(t, "checkInner")
    /\ \/ ParentMoved(t) /\ Restart(t)
       \/ ~ParentMoved(t) /\ Goto(t, "childRead") /\ UNCHANGED <<cursor, client>>
    /\ UNCHANGED tree

\* readLockOrRestart on the child
ReadChild(t) ==
    /\ At(t, "childRead")
    /\ \/ /\ ~Readable(version[node[t]])
          /\ Restart(t)
       \/ /\ Readable(version[node[t]])
          /\ vnode' = [vnode EXCEPT ![t] = version[node[t]]]
          /\ Goto(t, "visit")
          /\ UNCHANGED <<node, parent, vparent, succ, client>>
    /\ UNCHANGED tree

-----------------------------------------------------------------------------
(* insert: the split of a full node.                                       *)

SplitLockParent(t) ==
    /\ At(t, "splitParent") /\ MayLock(parent[t])
    /\ \/ /\ CanUpgrade(parent[t], vparent[t])
          /\ Upgrade(parent[t])
          /\ vparent' = [vparent EXCEPT ![t] = @ + 2]
          /\ Goto(t, "splitNode")
          /\ UNCHANGED <<node, vnode, parent, succ, client>>
       \/ /\ ~CanUpgrade(parent[t], vparent[t])
          /\ Restart(t)
          /\ UNCHANGED version
    /\ UNCHANGED contents

\* Mutated: the parent stays locked.
GiveUpLocked(t) == Restart(t)

\* the node's version has moved: the parent is unlocked before the restart
GiveUp(t) == \/ parent[t] = Null /\ Restart(t)
             \/ parent[t] # Null /\ Goto(t, "dropParent") /\ UNCHANGED <<cursor, client>>

\* Mutated: asked of every node.
NewParentAnyway(t) == node[t] # root

\* there's a new parent: the node was the root and is no longer
NewParent(t) == parent[t] = Null /\ node[t] # root

\* lock the node and load root once more; while the lock is held root cannot
\* move away from the node, so the load is part of the step that locks
SplitLockNode(t) ==
    /\ At(t, "splitNode") /\ (parent[t] = Null => MayLock(node[t]))
    /\ \/ /\ CanUpgrade(node[t], vnode[t])
          /\ Upgrade(node[t])
          /\ vnode' = [vnode EXCEPT ![t] = @ + 2]
          /\ Goto(t, IF NewParent(t) THEN "dropNode" ELSE "split")
          /\ UNCHANGED <<node, parent, vparent, succ, client>>
       \/ /\ ~CanUpgrade(node[t], vnode[t])
          /\ GiveUp(t)
          /\ UNCHANGED version
    /\ UNCHANGED contents

\* parent->insert or makeRoot: new is the right half of the node, kids the
\* children of all nodes after the split itself.
Link(t, sep, new, kids) ==
    \/ /\ parent[t] # Null
       /\ \E d \in DOMAIN kids[parent[t]] :
            /\ LowerBound(DOMAIN kids[parent[t]], sep, d)
            /\ kid' = [kids EXCEPT ![parent[t]] = InsertChild(@, d, sep, new)]
       /\ used' = new
       /\ type' = [type EXCEPT ![new] = type[node[t]]]
       /\ UNCHANGED root
    \/ /\ parent[t] = Null
       /\ new < MaxNodes
       /\ root' = new + 1
       /\ kid' = [kids EXCEPT ![new + 1] =
                     [d \in {sep, Inf} |-> IF d = sep THEN node[t] ELSE new]]
       /\ used' = new + 1
       /\ type' = [type EXCEPT ![new] = type[node[t]], ![new + 1] = "inner"]

\* Mutated: the new leaf points back.
ChainedBack(n, new) == [next EXCEPT ![n] = new, ![new] = n]

\* this->next_leaf = newLeaf; the new leaf's next_leaf stays null.
Chained(n, new) == [next EXCEPT ![n] = new]

\* BTreeLeaf::split: the new leaf gets the upper half; sep is the greatest
\* key left behind; the old leaf's next_leaf becomes the new leaf.
SplitLeaf(t) ==
    LET n == node[t]
        D == DOMAIN data[n]
        c == Cardinality(D)
        new == used + 1
    IN
    /\ At(t, "split") /\ type[n] = "leaf"
    /\ used < MaxNodes
    /\ \E L \in SUBSET D : \E sep \in L :
         /\ Smallest(L, D, c - (c - (c \div 2)))
         /\ Greatest(sep, L)
         /\ data' = [data EXCEPT ![n] = Only(data[n], L),
                                 ![new] = Only(data[n], D \ L)]
         /\ Link(t, sep, new, kid)
    /\ next' = Chained(n, new)
    /\ Goto(t, "splitDone")
    /\ UNCHANGED <<version, cursor, client>>

\* Mutated: the last child stays the last one.
LeftKidsUnmoved(f, L, sep) == [d \in L \cup {Inf} |-> f[d]]

\* The left half of inner node f: the separators L; the child of sep is last.
LeftKids(f, L, sep) == [d \in L \cup {Inf} |-> f[IF d = Inf THEN sep ELSE d]]

\* BTreeInner::split: sep moves up.
SplitInner(t) ==
    LET n == node[t]
        S == Separators(n)
        c == Cardinality(S)
        new == used + 1
    IN
    /\ At(t, "split") /\ type[n] = "inner"
    /\ used < MaxNodes
    /\ \E L \in SUBSET S : \E sep \in S \ L :
         /\ Smallest(L, S, c - (c - (c \div 2)) - 1)
         /\ \A e \in S \ L : sep <= e
         /\ Link(t, sep, new,
                 [kid EXCEPT ![n] = LeftKids(kid[n], L, sep),
                             ![new] = Only(kid[n], Upto \ (L \cup {sep}))])
    /\ Goto(t, "splitDone")
    /\ UNCHANGED <<version, data, next, cursor, client>>

\* node->writeUnlock after the split; the parent is next
SplitUnlock(t) ==
    /\ At(t, "splitDone")
    /\ WriteUnlock(node[t])
    /\ \/ parent[t] = Null /\ Restart(t)
       \/ parent[t] # Null /\ Goto(t, "dropParent") /\ UNCHANGED <<cursor, client>>
    /\ UNCHANGED contents

\* writeUnlock of the parent, or of the node, and restart
DropParent(t) == /\ At(t, "dropParent")
                 /\ WriteUnlock(parent[t])
                 /\ Restart(t)
                 /\ UNCHANGED contents
DropNode(t) == /\ At(t, "dropNode")
               /\ WriteUnlock(node[t])
               /\ Restart(t)
               /\ UNCHANGED contents

-----------------------------------------------------------------------------
(* insert: the leaf has room.                                              *)

LeafLock(t) ==
    /\ At(t, "leafLock") /\ MayLock(node[t])
    /\ \/ /\ CanUpgrade(node[t], vnode[t])
          /\ Upgrade(node[t])
          /\ vnode' = [vnode EXCEPT ![t] = @ + 2]
          /\ Goto(t, "leafValidate")
          /\ UNCHANGED <<node, parent, vparent, succ, client>>
       \/ /\ ~CanUpgrade(node[t], vnode[t])
          /\ Restart(t)
          /\ UNCHANGED version
    /\ UNCHANGED contents

LeafValidate(t) ==
    /\ At(t, "leafValidate")
    /\ Goto(t, IF ParentMoved(t) THEN "dropNode" ELSE "leafInsert")
    /\ UNCHANGED <<tree, cursor, client>>

\* BTreeLeaf::insert
LeafInsert(t) ==
    LET n == node[t]
        k == op[t].key
    IN
    /\ At(t, "leafInsert")
    /\ \/ /\ k \in DOMAIN data[n]
          /\ ret' = [ret EXCEPT ![t] = [ok |-> FALSE, out |-> Empty]]
          /\ UNCHANGED data
       \/ /\ k \notin DOMAIN data[n]
          /\ data' = [data EXCEPT ![n] = Plus(@, k, op[t].val)]
          /\ ret' = [ret EXCEPT ![t] = [ok |-> TRUE, out |-> Empty]]
    /\ Goto(t, "leafUnlock")
    /\ UNCHANGED <<root, version, type, kid, next, used, cursor, op, load, calls>>

LeafUnlock(t) == /\ At(t, "leafUnlock")
                 /\ WriteUnlock(node[t])
                 /\ Return(t)
                 /\ UNCHANGED <<contents, client>>

-----------------------------------------------------------------------------
(* lookup                                                                  *)

\* success is not initialised: a miss leaves it unspecified.
LookupRead(t) ==
    /\ At(t, "lookRead")
    /\ \E d \in SeesData(t), success \in BOOLEAN :
         /\ op[t].key \in DOMAIN d => success
         /\ ret' = [ret EXCEPT ![t] =
                       [ok |-> success,
                        out |-> IF op[t].key \in DOMAIN d THEN Only(d, {op[t].key})
                                                          ELSE ret[t].out]]
    /\ Goto(t, "lookParent")
    /\ UNCHANGED <<tree, cursor, op, load, calls>>

LookupParent(t) ==
    /\ At(t, "lookParent")
    /\ \/ ParentMoved(t) /\ Restart(t)
       \/ ~ParentMoved(t) /\ Goto(t, "lookNode") /\ UNCHANGED <<cursor, client>>
    /\ UNCHANGED tree


LookupNode(t) ==
    /\ At(t, "lookNode")
    /\ \/ ~Unmoved(t) /\ Restart(t)
       \/ Unmoved(t) /\ Return(t) /\ UNCHANGED client
    /\ UNCHANGED tree

-----------------------------------------------------------------------------
(* scan                                                                    *)

Joined(f, g) == [k \in DOMAIN f \cup DOMAIN g |->
                    IF k \in DOMAIN g THEN g[k] ELSE f[k]]
Count(t) == Cardinality(DOMAIN ret[t].out)

ScanParent(t) ==
    /\ At(t, "scanParent")
    /\ \/ ParentMoved(t) /\ Restart(t)
       \/ ~ParentMoved(t) /\ Goto(t, "scanLock") /\ UNCHANGED <<cursor, client>>
    /\ UNCHANGED tree

\* every leaf is read under a version of its own
ScanLock(t) ==
    /\ At(t, "scanLock")
    /\ \/ /\ ~Readable(version[node[t]])
          /\ Restart(t)
       \/ /\ Readable(version[node[t]])
          /\ vnode' = [vnode EXCEPT ![t] = version[node[t]]]
          /\ Goto(t, "scanRead")
          /\ UNCHANGED <<node, parent, vparent, succ, client>>
    /\ UNCHANGED tree

\* copy pairs until the leaf or the range is exhausted, note next_leaf
ScanRead(t) ==
    /\ At(t, "scanRead")
    /\ \E d \in SeesData(t) :
       LET from == {k \in DOMAIN d : Count(t) = 0 => k >= op[t].key}
           room == ScanNum - Count(t)
           n == IF Cardinality(from) <= room THEN Cardinality(from) ELSE room
       IN  \E T \in SUBSET from :
             /\ Smallest(T, from, n)
             /\ ret' = [ret EXCEPT ![t] =
                          [ok |-> FALSE, out |-> Joined(ret[t].out, Only(d, T))]]
    /\ \E s \in SeesNext(t) : succ' = [succ EXCEPT ![t] = s]
    /\ Goto(t, "scanCheck")
    /\ UNCHANGED <<tree, node, vnode, parent, vparent, op, load, calls>>

ScanCheck(t) ==
    /\ At(t, "scanCheck")
    /\ \/ ~Unmoved(t) /\ Restart(t)
       \/ /\ Unmoved(t) /\ (succ[t] = Null \/ Count(t) >= ScanNum)
          /\ Return(t)
          /\ ret' = [ret EXCEPT ![t] = [ok |-> TRUE, out |-> ret[t].out]]
          /\ UNCHANGED <<op, load, calls>>
       \/ /\ Unmoved(t) /\ succ[t] # Null /\ Count(t) < ScanNum
          /\ node' = [node EXCEPT ![t] = succ[t]]
          /\ Goto(t, "scanLock")
          /\ UNCHANGED <<vnode, parent, vparent, succ, client>>
    /\ UNCHANGED tree

-----------------------------------------------------------------------------
Descend(t) == \/ LoadRoot(t) \/ ReadRoot(t) \/ CheckRoot(t)
              \/ VisitInner(t) \/ VisitLeaf(t)
              \/ Step(t) \/ CheckInner(t) \/ ReadChild(t)
SplitPath(t) == \/ SplitLockParent(t) \/ SplitLockNode(t)
                \/ SplitLeaf(t) \/ SplitInner(t) \/ SplitUnlock(t)
                \/ DropParent(t) \/ DropNode(t)
LeafPath(t) == LeafLock(t) \/ LeafValidate(t) \/ LeafInsert(t) \/ LeafUnlock(t)
ReadPath(t) == \/ LookupRead(t) \/ LookupParent(t) \/ LookupNode(t)
               \/ ScanParent(t) \/ ScanLock(t) \/ ScanRead(t) \/ ScanCheck(t)

Run(t) == Descend(t) \/ SplitPath(t) \/ LeafPath(t) \/ ReadPath(t)

Next == \E t \in Thread : BulkInsert(t) \/ Call(t) \/ Run(t)

Spec == Init /\ [][Next]_vars

\* A thread inside an operation is scheduled again and again; a call of an
\* operation is up to the client.
FairSpec == Spec /\ \A t \in Thread : WF_vars(Run(t)) /\ WF_vars(BulkInsert(t))

-----------------------------------------------------------------------------
(* Properties.                                                             *)

Labels == {"idle", "start", "rootRead", "rootCheck", "visit", "step",
           "checkInner", "childRead", "splitParent", "splitNode", "split",
           "splitDone", "dropParent", "dropNode", "leafLock", "leafValidate",
           "leafInsert", "leafUnlock", "lookRead", "lookParent", "lookNode",
           "scanParent", "scanLock", "scanRead", "scanCheck"}

IsMap(f, D, R) == DOMAIN f \subseteq D /\ f \in [DOMAIN f -> R]

TreeOK ==
    /\ used \in Node
    /\ root \in 1 .. used
    /\ version \in [Node -> Nat]
    /\ type \in [Node -> {"leaf", "inner"}]
    /\ DOMAIN data = Node /\ \A n \in Node : IsMap(data[n], Key, Val)
    /\ DOMAIN kid = Node /\ \A n \in Node : IsMap(kid[n], Upto, 1 .. used)
    /\ next \in [Node -> {Null} \cup 1 .. used]
CursorOK ==
    /\ pc \in [Thread -> Labels]
    /\ node \in [Thread -> {Null} \cup 1 .. used]
    /\ vnode \in [Thread -> Nat]
    /\ parent \in [Thread -> {Null} \cup 1 .. used]
    /\ vparent \in [Thread -> Nat]
    /\ succ \in [Thread -> {Null} \cup 1 .. used]
ClientOK ==
    /\ op \in [Thread -> Ops]
    /\ DOMAIN ret = Thread
    /\ \A t \in Thread : /\ ret[t].ok \in BOOLEAN
                         /\ IsMap(ret[t].out, Key, Val \cup {Junk})
    /\ load \in Seq(Key)
    /\ calls \in [Thread -> Nat]

\* Every variable has its type: the tree consists of allocated nodes, and a
\* thread's local pointers are null or point to them.
TypeOK == TreeOK /\ CursorOK /\ ClientOK

HoldsNode(t) == pc[t] \in {"split", "splitDone", "dropNode", "leafValidate",
                           "leafInsert", "leafUnlock"}
HoldsParent(t) == /\ pc[t] \in {"splitNode", "split", "splitDone", "dropParent"}
                  /\ parent[t] # Null
Holds(t, n) == (HoldsNode(t) /\ node[t] = n) \/ (HoldsParent(t) /\ parent[t] = n)

\* The lock bit of a node is set exactly while some thread is between a
\* successful upgradeToWriteLockOrRestart and its writeUnlock, no two threads
\* are there for the same node, and no node ever becomes obsolete.
WriteLockExclusive ==
    \A n \in Node :
        /\ Locked(version[n]) <=> \E t \in Thread : Holds(t, n)
        /\ \A t, u \in Thread : Holds(t, n) /\ Holds(u, n) => t = u
        /\ ~Obsolete(version[n])

\* What optimistic readers rely on: in a step that leaves a node's version
\* alone while nobody holds its lock, its contents do not change either.
UnlockedNodesStable ==
    [][\A n \in 1 .. used :
          version'[n] = version[n] /\ ~Locked(version[n]) =>
             /\ data'[n] = data[n] /\ kid'[n] = kid[n]
             /\ next'[n] = next[n] /\ type'[n] = type[n]]_vars

\* The assertions of BTreeLeaf::insert and BTreeInner::insert, lines 130 and
\* 217: there is room for one more entry.  Nothing checks it again after the
\* optimistic test of isFull, so it rests on the versions.
RoomToInsert ==
    \A t \in Thread :
        /\ At(t, "leafInsert") => Cardinality(DOMAIN data[node[t]]) < LeafMax
        /\ At(t, "split") /\ parent[t] # Null =>
              Cardinality(Separators(parent[t])) < InnerMax - 1

\* Where the node a thread stands on is the one it has found at root.
AtRoot(t) == /\ parent[t] = Null
             /\ pc[t] \in {"visit", "step", "splitNode", "split", "leafLock",
                           "leafValidate", "leafInsert", "lookRead",
                           "lookParent", "lookNode", "scanParent"}

\* A thread that has compared node with root after it noted the version stands
\* on the root for as long as the version does not move: no makeRoot goes by
\* unnoticed, and "there's a new parent" of insert is never the case.
RootStands == \A t \in Thread : AtRoot(t) /\ Unmoved(t) => node[t] = root

\* The leaf a search for k reaches from the root when nobody moves.
Search(k) ==
    LET Down[i \in 0 .. MaxNodes] ==
            IF i = 0 THEN root
            ELSE LET n == Down[i - 1] IN
                 IF type[n] = "leaf" THEN n
                 ELSE kid[n][CHOOSE d \in DOMAIN kid[n] : LowerBound(DOMAIN kid[n], k, d)]
    IN  Down[MaxNodes]

Leaves == {n \in 1 .. used : type[n] = "leaf"}

\* Whatever splits are under way, each key of the tree sits in the one leaf
\* that a search for it from the root reaches.
KeysFindable ==
    \A k \in Key : \A n \in Leaves : k \in DOMAIN data[n] => Search(k) = n

\* The pairs of all leaves.
Contents == [k \in UNION {DOMAIN data[n] : n \in Leaves} |->
                data[CHOOSE n \in Leaves : k \in DOMAIN data[n]][k]]

\* insert takes effect when it changes the leaf, lookup at its last
\* validation, scan when it returns.
Index == INSTANCE OrderedIndex WITH
            map <- Contents,
            res <- [t \in Thread |->
                       [done |-> pc[t] \in {"idle", "leafUnlock"},
                        ok |-> pc[t] \in {"idle", "leafUnlock"} /\ ret[t].ok,
                        out |-> IF pc[t] \in {"idle", "leafUnlock"}
                                THEN ret[t].out ELSE Empty]]

\* Every insert and lookup is atomic and a scan returns pairs of the tree:
\* the tree implements the map of OrderedIndex.
Linearizable == Index!Spec

\* scan appends to its output: when it moves on to the next leaf, all pairs
\* of that leaf lie above the pairs it has already copied.
ScanAscends ==
    [][\A t \in Thread :
          At(t, "scanCheck") /\ pc'[t] = "scanLock" =>
             \A k \in DOMAIN ret[t].out, j \in DOMAIN data'[node'[t]] : k < j]_vars

\* A write lock is released again, whichever way the insert that took it
\* leaves: no restart path forgets a writeUnlock.
LocksReleased == \A n \in Node : Locked(version[n]) ~> ~Locked(version[n])

\* A thread that is left alone finishes its operation: nothing it restarts on
\* stays the way it is.  (The bound on versions excuses it from locking.)
Alone(t) == /\ ~At(t, "idle")
            /\ \A u \in Thread \ {t} : At(u, "idle")
            /\ \A n \in 1 .. used : MayLock(n)
LoneThreadFinishes == \A t \in Thread : ~<>[]Alone(t)

-----------------------------------------------------------------------------
(* An expectation stated in the repository that the code does not meet.    *)
(* It speaks of one worker, so nothing moves between call and return.      *)

Returned(t, fn) == t \in Worker /\ calls[t] > 0 /\ At(t, "idle") /\ op[t].fn = fn

\* btreeolc/test.c: scan returns the next keys of the tree, as many as asked
\* for while there are any.
ScanComplete == \A t \in Thread :
    Returned(t, "scan") =>
        LET above == {k \in DOMAIN Contents : k >= op[t].key}
        IN  Cardinality(DOMAIN ret[t].out) < ScanNum => DOMAIN ret[t].out = above

=============================================================================
