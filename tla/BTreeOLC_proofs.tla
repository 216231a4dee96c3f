--------------------------- MODULE BTreeOLC_proofs ---------------------------
(***************************************************************************)
(* Proofs about BTreeOLC, for every set of threads and keys and every node *)
(* size.                                                                   *)
(***************************************************************************)
EXTENDS BTreeOLC, FiniteSetTheorems, TLAPS

\* A thread past the load of root stands on a node; one past the first inner
\* node has a parent.
Placed ==
    \A t \in Thread :
        /\ pc[t] \notin {"idle", "start"} => node[t] # Null
        /\ pc[t] \in {"checkInner", "childRead", "splitParent", "dropParent"}
              => parent[t] # Null

TInv == TypeOK /\ Placed

USE DEF Null, Upto, Thread

-----------------------------------------------------------------------------
(* Maps.                                                                   *)

\* Taking the part of a node's pairs or children keeps their type.
LEMMA OnlyIsMap ==
    ASSUME NEW f, NEW D, NEW R, NEW S, IsMap(f, D, R)
    PROVE  IsMap(Only(f, S), D, R)
  BY DEF IsMap, Only

\* Adding a pair of the right type to a leaf keeps its type.
LEMMA PlusIsMap ==
    ASSUME NEW f, NEW D, NEW R, NEW k \in D, NEW v \in R, IsMap(f, D, R)
    PROVE  IsMap(Plus(f, k, v), D, R)
  BY DEF IsMap, Plus

\* Appending the pairs of a leaf to a scan's output keeps its type.
LEMMA JoinedIsMap ==
    ASSUME NEW f, NEW g, NEW D, NEW R, IsMap(f, D, R), IsMap(g, D, R)
    PROVE  IsMap(Joined(f, g), D, R)
  BY DEF IsMap, Joined

\* BTreeInner::insert of a node keeps the type of the children.
LEMMA InsertChildIsMap ==
    ASSUME NEW f, NEW D, NEW R, IsMap(f, D, R),
           NEW d \in DOMAIN f, NEW sep \in D, NEW new \in R
    PROVE  IsMap(InsertChild(f, d, sep, new), D, R)
  BY DEF IsMap, InsertChild

\* The left half of a split inner node keeps the type of the children.
LEMMA LeftKidsIsMap ==
    ASSUME NEW f, NEW R, IsMap(f, Upto, R),
           NEW L, L \subseteq DOMAIN f, NEW sep \in DOMAIN f
    PROVE  IsMap(LeftKids(f, L, sep), Upto, R)
  BY DEF IsMap, LeftKids

\* A map into a set is a map into every larger set.
LEMMA IsMapWider ==
    ASSUME NEW f, NEW D, NEW R, NEW Q, R \subseteq Q, IsMap(f, D, R)
    PROVE  IsMap(f, D, Q)
  BY DEF IsMap

\* The empty map has every type.
LEMMA EmptyIsMap ==
    ASSUME NEW D, NEW R
    PROVE  IsMap(Empty, D, R)
  BY DEF IsMap, Empty

-----------------------------------------------------------------------------
(* Type correctness.                                                       *)

\* At least the node of the constructor is allocated.
LEMMA UsedNat ==
    ASSUME TreeOK
    PROVE  used \in Nat /\ used >= 1
<1>1. used \in 1 .. MaxNodes /\ MaxNodes \in Nat
  BY BoundAssumption DEF TreeOK, Node
<1> QED
  BY <1>1

\* The type invariant and Placed hold in the initial state.
LEMMA InitTInv == Init => TInv
<1> SUFFICES ASSUME Init PROVE TInv
  OBVIOUS
<1>1. TreeOK
  <2>1. 1 \in Node
    BY BoundAssumption DEF Node
  <2>2. /\ \A n \in Node : IsMap(data[n], Key, Val)
        /\ \A n \in Node : IsMap(kid[n], Upto, 1 .. used)
    BY EmptyIsMap DEF Init
  <2> QED
    BY <2>1, <2>2 DEF Init, InitVersion, TreeOK
<1>2. CursorOK
  BY DEF Init, CursorOK, Labels
<1>3. ClientOK
  <2>1. NoOp \in Ops
    BY KeyAssumption, ValAssumption DEF NoOp, Ops
  <2>2. \A t \in Thread : IsMap(ret[t].out, Key, Val \cup {Junk})
    BY EmptyIsMap DEF Init, NoResult
  <2>3. DOMAIN ret = Thread /\ \A t \in Thread : ret[t].ok \in BOOLEAN
    BY DEF Init, NoResult
  <2>4. op \in [Thread -> Ops] /\ load \in Seq(Key) /\ calls \in [Thread -> Nat]
    BY <2>1, LoadAssumption DEF Init
  <2> QED
    BY <2>2, <2>3, <2>4 DEF ClientOK
<1>4. Placed
  BY DEF Init, Placed
<1> QED
  BY <1>1, <1>2, <1>3, <1>4 DEF TInv, TypeOK

\* A restart leaves the locals well typed.
LEMMA RestartTyped ==
    ASSUME NEW t \in Thread, CursorOK, ClientOK, Placed, Restart(t), used' = used
    PROVE  CursorOK' /\ ClientOK' /\ Placed'
<1>1. CursorOK'
  BY DEF CursorOK, Restart, ForgetCursor, Goto, Labels
<1>2. ClientOK'
  <2>1. PICK r \in {ret[t], NoResult} : ret' = [ret EXCEPT ![t] = r]
    BY DEF Restart
  <2>2. r.ok \in BOOLEAN /\ IsMap(r.out, Key, Val \cup {Junk})
    <3>1. CASE r = ret[t]
      BY <3>1 DEF ClientOK
    <3>2. CASE r = NoResult
      <4>1. r.ok = FALSE /\ r.out = Empty
        BY <3>2 DEF NoResult
      <4> QED
        BY <4>1, EmptyIsMap
    <3> QED
      BY <3>1, <3>2
  <2> QED
    BY <2>1, <2>2 DEF ClientOK, Restart
<1>3. Placed'
  BY DEF CursorOK, Placed, Restart, ForgetCursor, Goto
<1> QED
  BY <1>1, <1>2, <1>3

\* So does a jump to a label that asks no more of the pointers.
LEMMA GotoTyped ==
    ASSUME NEW t \in Thread, CursorOK, ClientOK, Placed,
           NEW l \in Labels, Goto(t, l), UNCHANGED <<cursor, client>>, used' = used,
           l \notin {"idle", "start"} => node[t] # Null,
           l \in {"checkInner", "childRead", "splitParent", "dropParent"} => parent[t] # Null
    PROVE  CursorOK' /\ ClientOK' /\ Placed'
  BY DEF CursorOK, ClientOK, Placed, Goto, cursor, client

\* Steps that leave the tree alone, and those that move one version.
LEMMA TreeKept == TreeOK /\ UNCHANGED tree => TreeOK'
  BY DEF TreeOK, tree, IsMap

LEMMA VersionMoved ==
    ASSUME TreeOK, NEW n \in Node, version' = [version EXCEPT ![n] = @ + 2],
           UNCHANGED contents
    PROVE  TreeOK'
  BY DEF TreeOK, contents, IsMap

\* The node a thread stands on, and its parent if it has one, are nodes.
LEMMA Standing ==
    ASSUME TInv, NEW t \in Thread
    PROVE  /\ node[t] # Null => node[t] \in Node
           /\ parent[t] # Null => parent[t] \in Node
<1>1. 1 .. used \subseteq Node
  BY BoundAssumption DEF TInv, TypeOK, TreeOK, Node
<1> QED
  BY <1>1 DEF TInv, TypeOK, CursorOK

\* parent->insert and makeRoot keep the shape of the tree, given children of
\* the right type.
LEMMA LinkTyped ==
    ASSUME TInv, NEW t \in Thread, node[t] # Null, used < MaxNodes,
           NEW sep \in Key, NEW kids,
           DOMAIN kids = Node, \A n \in Node : IsMap(kids[n], Upto, 1 .. (used + 1)),
           Link(t, sep, used + 1, kids)
    PROVE  /\ used' \in Node /\ 1 .. used \subseteq 1 .. used' /\ used + 1 \in 1 .. used'
           /\ root' \in 1 .. used'
           /\ type' \in [Node -> {"leaf", "inner"}]
           /\ DOMAIN kid' = Node /\ \A n \in Node : IsMap(kid'[n], Upto, 1 .. used')
<1> DEFINE new == used + 1
<1>0. /\ used \in Nat /\ new \in Node /\ MaxNodes \in Nat
      /\ node[t] \in 1 .. used /\ node[t] \in Node
  BY Standing, BoundAssumption DEF TInv, TypeOK, TreeOK, CursorOK, Node
<1>1. CASE parent[t] # Null
  <2>1. used' = new /\ root' = root
    BY <1>1 DEF Link
  <2>2. type' \in [Node -> {"leaf", "inner"}]
    BY <1>0, <1>1 DEF Link, TInv, TypeOK, TreeOK
  <2>3. parent[t] \in Node
    BY <1>1, Standing
  <2>4. PICK d \in DOMAIN kids[parent[t]] :
           kid' = [kids EXCEPT ![parent[t]] = InsertChild(@, d, sep, new)]
    BY <1>1 DEF Link
  <2>5. IsMap(InsertChild(kids[parent[t]], d, sep, new), Upto, 1 .. new)
    <3>1. new \in 1 .. new /\ sep \in Upto
      BY <1>0
    <3> QED
      BY <2>3, <3>1, InsertChildIsMap
  <2>6. DOMAIN kid' = Node /\ \A n \in Node : IsMap(kid'[n], Upto, 1 .. new)
    BY <2>3, <2>4, <2>5
  <2>7. 1 .. used \subseteq 1 .. new /\ root \in 1 .. new /\ new \in 1 .. new
    BY <1>0 DEF TInv, TypeOK, TreeOK
  <2> QED
    BY <1>0, <2>1, <2>2, <2>6, <2>7
<1>2. CASE parent[t] = Null
  <2>1. used' = new + 1 /\ root' = new + 1 /\ new < MaxNodes
    BY <1>2 DEF Link
  <2>2. new + 1 \in Node /\ 1 .. new \subseteq 1 .. (new + 1) /\ new + 1 \in 1 .. (new + 1)
    BY <1>0, <2>1 DEF Node
  <2>3. type' \in [Node -> {"leaf", "inner"}]
    BY <1>0, <1>2, <2>2 DEF Link, TInv, TypeOK, TreeOK
  <2> DEFINE top == [d \in {sep, Inf} |-> IF d = sep THEN node[t] ELSE new]
  <2>4. kid' = [kids EXCEPT ![new + 1] = top]
    BY <1>2 DEF Link
  <2>5. IsMap(top, Upto, 1 .. (new + 1))
    BY <1>0 DEF IsMap
  <2>6. \A n \in Node : IsMap(kids[n], Upto, 1 .. (new + 1))
    <3> SUFFICES ASSUME NEW n \in Node PROVE IsMap(kids[n], Upto, 1 .. (new + 1))
      OBVIOUS
    <3>1. IsMap(kids[n], Upto, 1 .. new)
      OBVIOUS
    <3> QED
      BY <2>2, <3>1, IsMapWider
  <2>7. DOMAIN kid' = Node /\ \A n \in Node : IsMap(kid'[n], Upto, 1 .. (new + 1))
    <3> HIDE DEF top
    <3> QED
      BY <2>2, <2>4, <2>5, <2>6
  <2>8. 1 .. used \subseteq 1 .. (new + 1) /\ new \in 1 .. (new + 1)
    BY <1>0
  <2> QED
    BY <2>1, <2>2, <2>3, <2>7, <2>8
<1> QED
  BY <1>1, <1>2

\* Every step preserves the type invariant and Placed.
LEMMA NextTInv == TInv /\ [Next]_vars => TInv'
<1> SUFFICES ASSUME TInv, [Next]_vars PROVE TInv'
  OBVIOUS
<1> USE DEF TInv, TypeOK
<1>0. CASE UNCHANGED vars
  <2> UNCHANGED <<tree, pc, cursor, client>>
    BY <1>0 DEF vars
  <2>1. TreeOK'
    BY TreeKept
  <2>2. CursorOK' /\ ClientOK' /\ Placed'
    BY DEF CursorOK, ClientOK, Placed, tree, cursor, client
  <2> QED
    BY <2>1, <2>2
<1> SUFFICES ASSUME NEW t \in Thread, BulkInsert(t) \/ Call(t) \/ Run(t) PROVE TInv'
  BY <1>0 DEF Next
<1>a. used' = used /\ Restart(t) => CursorOK' /\ ClientOK' /\ Placed'
  BY RestartTyped
<1>b. UNCHANGED tree => TreeOK' /\ used' = used
  BY TreeKept DEF tree
<1>c. UNCHANGED contents => used' = used
  BY DEF contents
<1>d. node[t] \in {Null} \cup Node /\ parent[t] \in {Null} \cup Node
  BY Standing
<1>e. /\ (WriteUnlock(node[t]) \/ Upgrade(node[t])) /\ node[t] # Null /\ UNCHANGED contents => TreeOK'
      /\ (WriteUnlock(parent[t]) \/ Upgrade(parent[t])) /\ parent[t] # Null /\ UNCHANGED contents => TreeOK'
  BY <1>d, VersionMoved DEF WriteUnlock, Upgrade
<1>f. ASSUME NEW l \in Labels, Goto(t, l), UNCHANGED <<cursor, client>>, used' = used,
             pc[t] \notin {"idle", "start"},
             l \in {"checkInner", "childRead", "splitParent", "dropParent"} => parent[t] # Null
      PROVE  CursorOK' /\ ClientOK' /\ Placed'
  <2>1. node[t] # Null
    BY <1>f DEF Placed
  <2> QED
    BY <1>f, <2>1, GotoTyped
<1>g. ASSUME NEW l, l \in {"rootCheck", "visit", "scanRead"}, Goto(t, l),
             vnode' = [vnode EXCEPT ![t] = version[node[t]]],
             UNCHANGED <<node, parent, vparent, succ, client>>, UNCHANGED tree,
             pc[t] \notin {"idle", "start"}
      PROVE  CursorOK' /\ ClientOK' /\ Placed'
  <2>1. node[t] # Null /\ version[node[t]] \in Nat
    BY <1>g, <1>d DEF Placed, TreeOK
  <2> QED
    BY <1>g, <2>1 DEF CursorOK, ClientOK, Placed, Goto, client, tree, Labels
<1> USE DEF At
<1>1. CASE LoadRoot(t)
  <2>1. TreeOK' /\ used' = used /\ root \in 1 .. used
    BY <1>1, <1>b DEF LoadRoot, TreeOK
  <2>2. CursorOK'
    BY <1>1, <2>1 DEF LoadRoot, CursorOK, Goto, Labels
  <2>3. ClientOK'
    BY <1>1 DEF LoadRoot, ClientOK, client
  <2>4. Placed'
    BY <1>1, <2>1 DEF LoadRoot, CursorOK, Placed, Goto
  <2> QED
    BY <2>1, <2>2, <2>3, <2>4
<1>2. CASE ReadRoot(t)
  BY <1>2, <1>a, <1>b, <1>g DEF ReadRoot
<1>3. CASE CheckRoot(t)
  BY <1>3, <1>a, <1>b, <1>f DEF CheckRoot, Labels
<1>4. CASE VisitInner(t)
  BY <1>4, <1>b, <1>f DEF VisitInner, ToSplit, Labels
<1>5. CASE VisitLeaf(t)
  BY <1>5, <1>b, <1>f DEF VisitLeaf, ToSplit, Labels
<1>7. CASE CheckInner(t)
  BY <1>7, <1>a, <1>b, <1>f DEF CheckInner, Labels, Placed
<1>8. CASE ReadChild(t)
  BY <1>8, <1>a, <1>b, <1>g DEF ReadChild
<1>14. CASE SplitUnlock(t)
  BY <1>14, <1>a, <1>c, <1>e, <1>f DEF SplitUnlock, Labels, Placed
<1>15. CASE DropParent(t)
  BY <1>15, <1>a, <1>c, <1>e DEF DropParent, Placed
<1>16. CASE DropNode(t)
  BY <1>16, <1>a, <1>c, <1>e DEF DropNode, Placed
<1>18. CASE LeafValidate(t)
  BY <1>18, <1>b, <1>f DEF LeafValidate, Labels
<1>22. CASE LookupParent(t)
  BY <1>22, <1>a, <1>b, <1>f DEF LookupParent, Labels
<1>24. CASE ScanParent(t)
  BY <1>24, <1>a, <1>b, <1>f DEF ScanParent, Labels
<1>25. CASE ScanLock(t)
  BY <1>25, <1>a, <1>b, <1>g DEF ScanLock
<1>6. CASE Step(t)
  <2>1. CASE Restart(t)
    BY <1>6, <2>1, <1>a, <1>b DEF Step
  <2>2. CASE ~Restart(t)
    <3>1. PICK c \in SeesChild(t) : node' = [node EXCEPT ![t] = c]
      BY <1>6, <2>2 DEF Step
    <3>2. c \in 1 .. used
      <4>1. node[t] \in Node
        BY <1>6, <1>d DEF Step, Placed
      <4> QED
        <5>1. \A d \in DOMAIN kid[node[t]] : kid[node[t]][d] \in 1 .. used
          BY <4>1 DEF TreeOK, IsMap
        <5>2. c \in 1 .. used \/ \E d \in DOMAIN kid[node[t]] : c = kid[node[t]][d]
          BY <3>1 DEF SeesChild
        <5> QED
          BY <5>1, <5>2
    <3>3. TreeOK' /\ used' = used
      BY <1>6, <1>b DEF Step
    <3>4. CursorOK'
      BY <1>6, <2>2, <3>1, <3>2, <3>3 DEF Step, CursorOK, Goto, Labels
    <3>5. ClientOK'
      BY <1>6, <2>2 DEF Step, ClientOK, client
    <3>6. Placed'
      BY <1>6, <2>2, <3>1, <3>2 DEF Step, CursorOK, Placed, Goto
    <3> QED
      BY <3>3, <3>4, <3>5, <3>6
  <2> QED
    BY <2>1, <2>2
<1>h. ASSUME NEW l, l \in {"split", "dropNode", "leafValidate"}, Goto(t, l),
             vnode' = [vnode EXCEPT ![t] = @ + 2],
             UNCHANGED <<node, parent, vparent, succ, client>>, used' = used,
             pc[t] \notin {"idle", "start"}
      PROVE  CursorOK' /\ ClientOK' /\ Placed'
  <2>1. CursorOK'
    BY <1>h DEF CursorOK, Goto, Labels
  <2>2. ClientOK' /\ Placed'
    BY <1>h DEF CursorOK, ClientOK, Placed, Goto, client
  <2> QED
    BY <2>1, <2>2
<1>9. CASE SplitLockParent(t)
  <2>1. used' = used
    BY <1>9, <1>c DEF SplitLockParent
  <2>2. parent[t] # Null /\ node[t] # Null
    BY <1>9 DEF SplitLockParent, Placed
  <2>3. CASE CanUpgrade(parent[t], vparent[t])
    <3>1. TreeOK'
      BY <1>9, <2>3, <2>2, <1>e DEF SplitLockParent
    <3>2. CursorOK'
      BY <1>9, <2>3, <2>1 DEF SplitLockParent, CursorOK, Goto, Labels
    <3>3. ClientOK' /\ Placed'
      BY <1>9, <2>3, <2>2 DEF SplitLockParent, CursorOK, ClientOK, Placed, Goto, client
    <3> QED
      BY <3>1, <3>2, <3>3
  <2>4. CASE ~CanUpgrade(parent[t], vparent[t])
    BY <1>9, <2>4, <1>a, <1>b DEF SplitLockParent, contents, tree
  <2> QED
    BY <2>3, <2>4
<1>10. CASE SplitLockNode(t)
  <2>1. used' = used
    BY <1>10, <1>c DEF SplitLockNode
  <2>2. node[t] # Null
    BY <1>10 DEF SplitLockNode, Placed
  <2>3. CASE CanUpgrade(node[t], vnode[t])
    BY <1>10, <2>1, <2>2, <2>3, <1>e, <1>h DEF SplitLockNode
  <2>4. CASE ~CanUpgrade(node[t], vnode[t])
    <3>1. TreeOK'
      BY <1>10, <2>4, <1>b DEF SplitLockNode, contents, tree
    <3>2. CursorOK' /\ ClientOK' /\ Placed'
      BY <1>10, <2>1, <2>4, <1>a, <1>f DEF SplitLockNode, GiveUp, Labels
    <3> QED
      BY <3>1, <3>2
  <2> QED
    BY <2>3, <2>4
<1>17. CASE LeafLock(t)
  <2>1. used' = used
    BY <1>17, <1>c DEF LeafLock
  <2>2. node[t] # Null
    BY <1>17 DEF LeafLock, Placed
  <2>3. CASE CanUpgrade(node[t], vnode[t])
    BY <1>17, <2>1, <2>2, <2>3, <1>e, <1>h DEF LeafLock
  <2>4. CASE ~CanUpgrade(node[t], vnode[t])
    BY <1>17, <2>4, <1>a, <1>b DEF LeafLock, contents, tree
  <2> QED
    BY <2>3, <2>4
<1>i. ASSUME NEW l \in Labels, Goto(t, l), UNCHANGED cursor,
             pc[t] \notin {"idle", "start"}, 1 .. used \subseteq 1 .. used',
             l \notin {"checkInner", "childRead", "splitParent", "dropParent"}
      PROVE  CursorOK' /\ Placed'
  <2>1. CursorOK'
    BY <1>i DEF CursorOK, Goto, cursor
  <2>2. Placed'
    BY <1>i DEF CursorOK, Placed, Goto, cursor
  <2> QED
    BY <2>1, <2>2
<1>12. CASE SplitLeaf(t)
  <2> DEFINE n == node[t]
             D == DOMAIN data[n]
             new == used + 1
  <2>a. PICK L \in SUBSET D : \E sep \in L :
          /\ data' = [data EXCEPT ![n] = Only(data[n], L), ![new] = Only(data[n], D \ L)]
          /\ Link(t, sep, new, kid)
    BY <1>12 DEF SplitLeaf
  <2>1. PICK sep \in L :
          /\ data' = [data EXCEPT ![n] = Only(data[n], L), ![new] = Only(data[n], D \ L)]
          /\ Link(t, sep, new, kid)
    BY <2>a
  <2>2. /\ n # Null /\ n \in Node /\ used < MaxNodes
        /\ used \in Nat /\ new \in Node /\ 1 .. used \subseteq 1 .. new
    <3>1. n # Null /\ n \in Node /\ used < MaxNodes
      BY <1>12, <1>d DEF SplitLeaf, Placed
    <3>2. used \in Nat /\ used >= 1
      BY UsedNat
    <3>3. new \in Node
      BY <3>1, <3>2, BoundAssumption DEF Node
    <3>4. 1 .. used \subseteq 1 .. new
      BY <3>2
    <3> QED
      BY <3>1, <3>2, <3>3, <3>4
  <2>3. sep \in Key
    BY <2>2 DEF TreeOK, IsMap
  <2>4. \A m \in Node : IsMap(kid[m], Upto, 1 .. new)
    BY <2>2, IsMapWider DEF TreeOK
  <2>5. /\ used' \in Node /\ 1 .. used \subseteq 1 .. used' /\ new \in 1 .. used'
        /\ root' \in 1 .. used'
        /\ type' \in [Node -> {"leaf", "inner"}]
        /\ DOMAIN kid' = Node /\ \A m \in Node : IsMap(kid'[m], Upto, 1 .. used')
    BY <2>1, <2>2, <2>3, <2>4, LinkTyped DEF TreeOK
  <2>6. IsMap(Only(data[n], L), Key, Val) /\ IsMap(Only(data[n], D \ L), Key, Val)
    BY <2>2, OnlyIsMap DEF TreeOK
  <2>7. DOMAIN data' = Node /\ \A m \in Node : IsMap(data'[m], Key, Val)
    BY <2>1, <2>2, <2>6 DEF TreeOK
  <2>8. next' \in [Node -> {Null} \cup 1 .. used']
    BY <1>12, <2>2, <2>5 DEF SplitLeaf, Chained, TreeOK
  <2>9. TreeOK'
    BY <1>12, <2>5, <2>7, <2>8 DEF SplitLeaf, TreeOK
  <2>10. CursorOK' /\ Placed'
    BY <1>12, <2>5, <1>i DEF SplitLeaf, Labels
  <2>11. ClientOK'
    BY <1>12 DEF SplitLeaf, ClientOK, client
  <2> QED
    BY <2>9, <2>10, <2>11
<1>13. CASE SplitInner(t)
  <2> DEFINE n == node[t]
             S == Separators(n)
             new == used + 1
             kids(L, sep) == [kid EXCEPT ![n] = LeftKids(kid[n], L, sep),
                                         ![new] = Only(kid[n], Upto \ (L \cup {sep}))]
  <2>a. PICK L \in SUBSET S : \E sep \in S \ L : Link(t, sep, new, kids(L, sep))
    BY <1>13 DEF SplitInner
  <2>1. PICK sep \in S \ L : Link(t, sep, new, kids(L, sep))
    BY <2>a
  <2>2. /\ n # Null /\ n \in Node /\ used < MaxNodes
        /\ used \in Nat /\ new \in Node /\ 1 .. used \subseteq 1 .. new
    <3>1. n # Null /\ n \in Node /\ used < MaxNodes
      BY <1>13, <1>d DEF SplitInner, Placed
    <3>2. used \in Nat /\ used >= 1
      BY UsedNat
    <3>3. new \in Node
      BY <3>1, <3>2, BoundAssumption DEF Node
    <3>4. 1 .. used \subseteq 1 .. new
      BY <3>2
    <3> QED
      BY <3>1, <3>2, <3>3, <3>4
  <2>3. sep \in Key /\ L \subseteq DOMAIN kid[n] /\ sep \in DOMAIN kid[n]
    BY <2>2 DEF TreeOK, IsMap, Separators
  <2>4. \A m \in Node : IsMap(kid[m], Upto, 1 .. new)
    BY <2>2, IsMapWider DEF TreeOK
  <2>5. /\ IsMap(LeftKids(kid[n], L, sep), Upto, 1 .. new)
        /\ IsMap(Only(kid[n], Upto \ (L \cup {sep})), Upto, 1 .. new)
    BY <2>2, <2>3, <2>4, LeftKidsIsMap, OnlyIsMap
  <2>6. DOMAIN kids(L, sep) = Node /\ \A m \in Node : IsMap(kids(L, sep)[m], Upto, 1 .. new)
    BY <2>2, <2>4, <2>5 DEF TreeOK
  <2>7. /\ used' \in Node /\ 1 .. used \subseteq 1 .. used' /\ new \in 1 .. used'
        /\ root' \in 1 .. used'
        /\ type' \in [Node -> {"leaf", "inner"}]
        /\ DOMAIN kid' = Node /\ \A m \in Node : IsMap(kid'[m], Upto, 1 .. used')
    <3> HIDE DEF kids
    <3> QED
      BY <2>1, <2>2, <2>3, <2>6, LinkTyped
  <2>8. next' \in [Node -> {Null} \cup 1 .. used']
    BY <1>13, <2>7 DEF SplitInner, TreeOK
  <2>9. TreeOK'
    BY <1>13, <2>7, <2>8 DEF SplitInner, TreeOK
  <2>10. CursorOK' /\ Placed'
    BY <1>13, <2>7, <1>i DEF SplitInner, Labels
  <2>11. ClientOK'
    BY <1>13 DEF SplitInner, ClientOK, client
  <2> QED
    BY <2>9, <2>10, <2>11
<1>19. CASE LeafInsert(t)
  <2> DEFINE n == node[t]
             k == op[t].key
  <2>1. n \in Node /\ k \in Key /\ op[t].val \in Val
    BY <1>19, <1>d DEF LeafInsert, Placed, ClientOK, Ops
  <2>2. IsMap(Plus(data[n], k, op[t].val), Key, Val)
    BY <2>1, PlusIsMap DEF TreeOK
  <2>3. DOMAIN data' = Node /\ \A m \in Node : IsMap(data'[m], Key, Val)
    BY <1>19, <2>1, <2>2 DEF LeafInsert, TreeOK
  <2>4. TreeOK'
    BY <1>19, <2>3 DEF LeafInsert, TreeOK
  <2>5. CursorOK' /\ Placed'
    BY <1>19, <1>i DEF LeafInsert, Labels
  <2>6. PICK b \in BOOLEAN : ret' = [ret EXCEPT ![t] = [ok |-> b, out |-> Empty]]
    BY <1>19 DEF LeafInsert
  <2>7. ClientOK'
    BY <1>19, <2>6, EmptyIsMap DEF LeafInsert, ClientOK
  <2> QED
    BY <2>4, <2>5, <2>7
<1>j. Return(t) /\ used' = used => CursorOK' /\ Placed'
  BY DEF Return, CursorOK, ForgetCursor, Goto, Placed, Labels
<1>20. CASE LeafUnlock(t)
  <2>1. TreeOK' /\ used' = used
    BY <1>20, <1>c, <1>e DEF LeafUnlock, Placed
  <2>2. ClientOK'
    BY <1>20 DEF LeafUnlock, ClientOK, client
  <2> QED
    BY <1>20, <1>j, <2>1, <2>2 DEF LeafUnlock
<1>k. pc[t] \notin {"idle", "start"} => \A d \in SeesData(t) : IsMap(d, Key, Val \cup {Junk})
  <2> SUFFICES ASSUME pc[t] \notin {"idle", "start"}, NEW d \in SeesData(t)
               PROVE  IsMap(d, Key, Val \cup {Junk})
    OBVIOUS
  <2>1. CASE d = data[node[t]]
    <3>1. IsMap(data[node[t]], Key, Val)
      BY <1>d DEF Placed, TreeOK
    <3> QED
      BY <2>1, <3>1, IsMapWider
  <2>2. CASE d = Empty
    BY <2>2, EmptyIsMap
  <2>3. CASE d = [k \in TreeKeys |-> Junk]
    <3>1. 1 .. used \subseteq Node
      BY BoundAssumption DEF TreeOK, Node
    <3>2. TreeKeys \subseteq Key
      BY <3>1 DEF TreeKeys, TreeOK, IsMap
    <3> QED
      BY <2>3, <3>2 DEF IsMap
  <2> QED
    BY <2>1, <2>2, <2>3 DEF SeesData
<1>21. CASE LookupRead(t)
  <2> DEFINE found(d) == IF op[t].key \in DOMAIN d THEN Only(d, {op[t].key})
                                                   ELSE ret[t].out
  <2>1. PICK d \in SeesData(t), success \in BOOLEAN :
           ret' = [ret EXCEPT ![t] = [ok |-> success, out |-> found(d)]]
    BY <1>21 DEF LookupRead
  <2>2. IsMap(found(d), Key, Val \cup {Junk})
    <3>1. IsMap(Only(d, {op[t].key}), Key, Val \cup {Junk})
      BY <1>21, <1>k, OnlyIsMap DEF LookupRead
    <3>2. IsMap(ret[t].out, Key, Val \cup {Junk})
      BY DEF ClientOK
    <3> QED
      BY <3>1, <3>2
  <2>3. TreeOK'
    BY <1>21, <1>b DEF LookupRead
  <2>4. ClientOK'
    <3> HIDE DEF found
    <3> QED
      BY <1>21, <2>1, <2>2 DEF LookupRead, ClientOK
  <2>5. CursorOK' /\ Placed'
    BY <1>21, <1>b, <1>i DEF LookupRead, Labels
  <2> QED
    BY <2>3, <2>4, <2>5
<1>23. CASE LookupNode(t)
  <2>1. TreeOK' /\ used' = used
    BY <1>23, <1>b DEF LookupNode
  <2>2. UNCHANGED client => ClientOK'
    BY DEF ClientOK, client
  <2> QED
    BY <1>23, <1>a, <1>j, <2>1, <2>2 DEF LookupNode
<1>26. CASE ScanRead(t)
  <2>1. PICK d \in SeesData(t) : \E T :
           ret' = [ret EXCEPT ![t] = [ok |-> FALSE, out |-> Joined(ret[t].out, Only(d, T))]]
    BY <1>26 DEF ScanRead
  <2>2. PICK T :
           ret' = [ret EXCEPT ![t] = [ok |-> FALSE, out |-> Joined(ret[t].out, Only(d, T))]]
    BY <2>1
  <2>3. IsMap(Joined(ret[t].out, Only(d, T)), Key, Val \cup {Junk})
    <3>1. IsMap(Only(d, T), Key, Val \cup {Junk})
      BY <1>26, <1>k, OnlyIsMap DEF ScanRead
    <3>2. IsMap(ret[t].out, Key, Val \cup {Junk})
      BY DEF ClientOK
    <3> QED
      BY <3>1, <3>2, JoinedIsMap
  <2>4. TreeOK' /\ used' = used
    BY <1>26, <1>b DEF ScanRead
  <2>5. ClientOK'
    BY <1>26, <2>2, <2>3 DEF ScanRead, ClientOK
  <2>6. PICK s \in SeesNext(t) : succ' = [succ EXCEPT ![t] = s]
    BY <1>26 DEF ScanRead
  <2>7. s \in {Null} \cup 1 .. used
    <3>1. node[t] \in Node
      BY <1>26, <1>d DEF ScanRead, Placed
    <3>2. next[node[t]] \in {Null} \cup 1 .. used
      BY <3>1 DEF TreeOK
    <3> QED
      BY <2>6, <3>2 DEF SeesNext
  <2>8. CursorOK'
    BY <1>26, <2>4, <2>6, <2>7 DEF ScanRead, CursorOK, Goto, Labels
  <2>9. Placed'
    BY <1>26 DEF ScanRead, CursorOK, Placed, Goto
  <2> QED
    BY <2>4, <2>5, <2>8, <2>9
<1>27. CASE ScanCheck(t)
  <2>1. TreeOK' /\ used' = used
    BY <1>27, <1>b DEF ScanCheck
  <2>2. CASE Restart(t)
    BY <2>1, <2>2, <1>a
  <2>3. CASE /\ Return(t) /\ UNCHANGED <<op, load, calls>>
             /\ ret' = [ret EXCEPT ![t] = [ok |-> TRUE, out |-> ret[t].out]]
    <3>2. CursorOK' /\ Placed'
      BY <2>3, <2>1, <1>j
    <3>3. ClientOK'
      BY <2>3 DEF ClientOK
    <3> QED
      BY <2>1, <3>2, <3>3
  <2>4. CASE /\ node' = [node EXCEPT ![t] = succ[t]] /\ Goto(t, "scanLock")
             /\ succ[t] # Null
             /\ UNCHANGED <<vnode, parent, vparent, succ>> /\ UNCHANGED client
    <3>2. CursorOK'
      BY <2>4, <2>1 DEF CursorOK, Goto, Labels
    <3>3. Placed'
      BY <2>4 DEF CursorOK, Placed, Goto
    <3>4. ClientOK'
      BY <2>4 DEF ClientOK, client
    <3> QED
      BY <2>1, <3>2, <3>3, <3>4
  <2> QED
    BY <1>27, <2>2, <2>3, <2>4 DEF ScanCheck
<1>l. ASSUME NEW o \in Ops, Begin(t, o), load' \in Seq(Key), calls' \in [Thread -> Nat]
      PROVE  TInv'
  <2>1. TreeOK' /\ used' = used
    BY <1>l, <1>b DEF Begin
  <2>2. CursorOK'
    BY <1>l, <2>1 DEF Begin, CursorOK, Goto, cursor, Labels
  <2>3. Placed'
    BY <1>l DEF Begin, CursorOK, Placed, Goto, cursor
  <2>4. ClientOK'
    BY <1>l, EmptyIsMap DEF Begin, NoResult, ClientOK
  <2> QED
    BY <2>1, <2>2, <2>3, <2>4
<1>28. CASE BulkInsert(t)
  <2>1. Head(load) \in Key /\ Tail(load) \in Seq(Key)
    <3>1. load \in Seq(Key) /\ load # <<>>
      BY <1>28 DEF BulkInsert, ClientOK
    <3> QED
      BY <3>1
  <2>2. [fn |-> "insert", key |-> Head(load), val |-> BulkVal] \in Ops
    BY <2>1, ValAssumption DEF Ops
  <2>3. load' \in Seq(Key) /\ calls' \in [Thread -> Nat]
    BY <1>28, <2>1 DEF BulkInsert, ClientOK
  <2> QED
    BY <1>28, <1>l, <2>2, <2>3 DEF BulkInsert
<1>29. CASE Call(t)
  <2>1. PICK o \in Workload : Begin(t, o)
    BY <1>29 DEF Call
  <2>2. o \in Ops
    BY LoadAssumption
  <2>3. load' \in Seq(Key) /\ calls' \in [Thread -> Nat]
    <3>1. load' = load /\ calls' = [calls EXCEPT ![t] = @ + 1]
      BY <1>29 DEF Call
    <3>2. load \in Seq(Key) /\ calls \in [Thread -> Nat]
      BY DEF ClientOK
    <3> QED
      BY <3>1, <3>2
  <2> QED
    BY <1>l, <2>1, <2>2, <2>3
<1> QED
  BY <1>1, <1>2, <1>3, <1>4, <1>5, <1>6, <1>7, <1>8, <1>9, <1>10, <1>12,
     <1>13, <1>14, <1>15, <1>16, <1>17, <1>18, <1>19, <1>20, <1>21, <1>22, <1>23,
     <1>24, <1>25, <1>26, <1>27, <1>28, <1>29
     DEF Run, Descend, SplitPath, LeafPath, ReadPath

\* In every behaviour of the tree every variable has its type: no thread ever
\* follows a pointer to a node that was not allocated.
THEOREM TypeCorrect == Spec => []TypeOK
<1>1. TInv => TypeOK
  BY DEF TInv
<1> QED
  BY <1>1, InitTInv, NextTInv, PTL DEF Spec

=============================================================================
