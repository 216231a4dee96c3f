----------------------------- MODULE BTreeOLC_room -----------------------------
(***************************************************************************)
(* Proof that BTreeLeaf::insert and BTreeInner::insert always find room:   *)
(* what an insert learned of isFull without a lock is still true when it   *)
(* has the lock.                                                           *)
(***************************************************************************)
EXTENDS BTreeOLC_locks

-----------------------------------------------------------------------------
(* The inductive invariant.                                                *)

\* Node n has room for one more entry.
Room(n) == /\ type[n] = "leaf" => Cardinality(DOMAIN data[n]) < LeafMax
           /\ type[n] = "inner" => Cardinality(Separators(n)) < InnerMax - 1

\* No node holds more than its arrays can.
SizedNode(n) == /\ IsFiniteSet(DOMAIN data[n])
                /\ Cardinality(DOMAIN data[n]) <= LeafMax
                /\ IsFiniteSet(Separators(n))
                /\ Cardinality(Separators(n)) <= InnerMax - 1

RoomyLeaf(n) == type[n] = "leaf" /\ Room(n)
RoomyInner(n) == type[n] = "inner" /\ Room(n)

\* The versions a thread noted are not ahead of the nodes', and as long as
\* they are current, or locked by the thread, the nodes it passed have room.
Noted(t) ==
    /\ pc[t] \in {"idle", "start", "rootRead", "rootCheck"} => parent[t] = Null
    /\ pc[t] \in {"rootCheck", "visit", "step", "splitParent", "splitNode", "leafLock"}
          => vnode[t] <= version[node[t]]
    /\ pc[t] \in {"checkInner", "childRead", "visit", "splitParent"} =>
          (parent[t] # Null => vparent[t] <= version[parent[t]])
    /\ pc[t] \in {"splitParent", "splitNode", "leafLock"} => op[t].fn = "insert"
    /\ pc[t] = "step" /\ op[t].fn = "insert" /\ version[node[t]] = vnode[t]
          => RoomyInner(node[t])
    /\ pc[t] = "leafLock" /\ version[node[t]] = vnode[t] => RoomyLeaf(node[t])
    /\ pc[t] \in {"leafValidate", "leafInsert"} => RoomyLeaf(node[t])
    /\ pc[t] \in {"checkInner", "childRead", "visit", "splitParent"}
          /\ op[t].fn = "insert" /\ parent[t] # Null /\ version[parent[t]] = vparent[t]
          => RoomyInner(parent[t])
    /\ pc[t] \in {"splitNode", "split"} /\ parent[t] # Null => RoomyInner(parent[t])

RInv == /\ \A n \in Node : SizedNode(n)
        /\ \A t \in Thread : Noted(t)

-----------------------------------------------------------------------------
(* The other threads.                                                      *)

\* A node that a step leaves alone keeps its room and its size.
LEMMA SameRoom ==
    ASSUME NEW n, Same(n)
    PROVE  /\ RoomyLeaf(n)' <=> RoomyLeaf(n)
           /\ RoomyInner(n)' <=> RoomyInner(n)
           /\ SizedNode(n)' <=> SizedNode(n)
<1>1. data'[n] = data[n] /\ Separators(n)' = Separators(n) /\ type'[n] = type[n]
  BY DEF Same, Separators
<1> QED
  BY <1>1 DEF RoomyLeaf, RoomyInner, Room, SizedNode

\* The step of one thread leaves the operation of the others alone.
LEMMA OthersOp ==
    ASSUME TInv, NEW t \in Thread, BulkInsert(t) \/ Call(t) \/ Run(t), NEW u \in Thread \ {t}
    PROVE  op'[u] = op[u]
<1>1. op' = op \/ \E o : op' = [op EXCEPT ![t] = o]
  BY DEF BulkInsert, Call, Begin, Run, Descend, SplitPath, LeafPath, ReadPath, client, Restart,
         LoadRoot, ReadRoot, CheckRoot, VisitInner, VisitLeaf, Step, CheckInner, GiveUp,
         ReadChild, SplitLockParent, SplitLockNode, SplitUnlock, SplitLeaf,
         SplitInner, DropParent, DropNode, LeafLock, LeafValidate, LeafUnlock, LookupRead,
         LeafInsert, LookupParent, LookupNode, ScanParent, ScanLock, ScanRead, ScanCheck
<1> QED
  BY <1>1 DEF TInv, TypeOK, ClientOK

\* Versions only grow.
LEMMA VersionsGrow ==
    ASSUME TInv, NEW t \in Thread, Effect(t), NEW n \in Node
    PROVE  version[n] \in Nat /\ version'[n] \in Nat /\ version[n] <= version'[n]
  BY DEF TInv, TypeOK, TreeOK, Effect, Quiet, Locks, Unlocks

\* What a thread noted stays true when another one moves.
LEMMA OthersNoted ==
    ASSUME TInv, LInv, RInv, NEW t \in Thread, BulkInsert(t) \/ Call(t) \/ Run(t),
           NEW u \in Thread \ {t}
    PROVE  Noted(u)'
<1>1. Keeps(t) /\ Noted(u) /\ KnowsVersions(u)
  BY StepEffect DEF RInv, LInv
<1>2. /\ pc'[u] = pc[u] /\ node'[u] = node[u] /\ vnode'[u] = vnode[u]
      /\ parent'[u] = parent[u] /\ vparent'[u] = vparent[u] /\ op'[u] = op[u]
  BY <1>1, OthersOp DEF Keeps, Others
<1>3. /\ node[u] # Null => node[u] \in Node /\ node[u] \in 1 .. used
      /\ parent[u] # Null => parent[u] \in Node /\ parent[u] \in 1 .. used
      /\ pc[u] \notin {"idle", "start"} => node[u] # Null
      /\ vnode[u] \in Nat /\ vparent[u] \in Nat
  BY Standing DEF TInv, TypeOK, CursorOK, Placed
<1>4. ASSUME NEW n \in Node, n \in 1 .. used, NEW v \in Nat, ~Locked(v), v <= version[n],
             version'[n] = v
      PROVE  version[n] = v /\ Same(n)
  <2>1. version[n] = v
    BY <1>1, <1>4, VersionsGrow DEF Keeps
  <2>2. ~Holds(t, n)
    BY <1>4, <2>1 DEF LInv, WriteLockExclusive
  <2> QED
    BY <1>4, <2>1, <2>2, StepWrites
<1>5. ASSUME NEW n \in Node, n \in 1 .. used, Holds(u, n)
      PROVE  Same(n)
  <2>1. ~Holds(t, n)
    BY <1>5 DEF LInv, WriteLockExclusive
  <2> QED
    BY <1>5, <2>1, StepWrites
<1>6. /\ pc[u] \in {"rootCheck", "visit", "step", "splitParent", "splitNode", "leafLock"}
            => vnode[u] <= version'[node[u]]
      /\ pc[u] \in {"checkInner", "childRead", "visit", "splitParent"} =>
            (parent[u] # Null => vparent[u] <= version'[parent[u]])
  BY <1>1, <1>3, VersionsGrow DEF Keeps, Noted
<1>7. /\ pc[u] = "step" /\ op[u].fn = "insert" /\ version'[node[u]] = vnode[u]
            => RoomyInner(node[u])'
      /\ pc[u] = "leafLock" /\ version'[node[u]] = vnode[u] => RoomyLeaf(node[u])'
  <2> SUFFICES ASSUME pc[u] \in {"step", "leafLock"}, version'[node[u]] = vnode[u]
               PROVE  /\ pc[u] = "step" /\ op[u].fn = "insert" => RoomyInner(node[u])'
                      /\ pc[u] = "leafLock" => RoomyLeaf(node[u])'
    OBVIOUS
  <2>1. ~Locked(vnode[u]) /\ vnode[u] <= version[node[u]]
    BY <1>1 DEF KnowsVersions, Noted
  <2>2. version[node[u]] = vnode[u] /\ Same(node[u])
    BY <1>3, <1>4, <2>1
  <2>3. /\ pc[u] = "step" /\ op[u].fn = "insert" => RoomyInner(node[u])
        /\ pc[u] = "leafLock" => RoomyLeaf(node[u])
    BY <1>1, <2>2 DEF Noted
  <2> QED
    BY <1>2, <2>2, <2>3, SameRoom
<1>8. pc[u] \in {"leafValidate", "leafInsert"} => RoomyLeaf(node[u])'
  <2> SUFFICES ASSUME pc[u] \in {"leafValidate", "leafInsert"} PROVE RoomyLeaf(node[u])'
    OBVIOUS
  <2>1. Same(node[u])
    BY <1>3, <1>5, HoldsBy
  <2>2. RoomyLeaf(node[u])
    BY <1>1 DEF Noted
  <2> QED
    BY <1>2, <2>1, <2>2, SameRoom
<1>9. pc[u] \in {"checkInner", "childRead", "visit", "splitParent"}
         /\ op[u].fn = "insert" /\ parent[u] # Null /\ version'[parent[u]] = vparent[u]
         => RoomyInner(parent[u])'
  <2> SUFFICES ASSUME pc[u] \in {"checkInner", "childRead", "visit", "splitParent"},
                      op[u].fn = "insert", parent[u] # Null,
                      version'[parent[u]] = vparent[u]
               PROVE  RoomyInner(parent[u])'
    OBVIOUS
  <2>1. ~Locked(vparent[u]) /\ vparent[u] <= version[parent[u]]
    BY <1>1 DEF KnowsVersions, Noted
  <2>2. version[parent[u]] = vparent[u] /\ Same(parent[u])
    BY <1>3, <1>4, <2>1
  <2>3. RoomyInner(parent[u])
    BY <1>1, <2>2 DEF Noted
  <2> QED
    BY <1>2, <2>2, <2>3, SameRoom
<1>10. pc[u] \in {"splitNode", "split"} /\ parent[u] # Null => RoomyInner(parent[u])'
  <2> SUFFICES ASSUME pc[u] \in {"splitNode", "split"}, parent[u] # Null
               PROVE  RoomyInner(parent[u])'
    OBVIOUS
  <2>1. Same(parent[u])
    BY <1>3, <1>5, HoldsBy
  <2>2. RoomyInner(parent[u])
    BY <1>1 DEF Noted
  <2> QED
    BY <1>2, <2>1, <2>2, SameRoom
<1>11. /\ pc[u] \in {"idle", "start", "rootRead", "rootCheck"} => parent[u] = Null
       /\ pc[u] \in {"splitParent", "splitNode", "leafLock"} => op[u].fn = "insert"
  BY <1>1 DEF Noted
<1> QED
  BY <1>2, <1>6, <1>7, <1>8, <1>9, <1>10, <1>11 DEF Noted

-----------------------------------------------------------------------------
(* The thread that moves.                                                  *)

\* A node that is not full has room, given the sizes.
LEMMA NotFullHasRoom ==
    ASSUME NEW n \in Node, SizedNode(n), ~Full(n)
    PROVE  Room(n)
<1>1. Cardinality(DOMAIN data[n]) \in Nat /\ Cardinality(Separators(n)) \in Nat
  BY FS_CardinalityType DEF SizedNode
<1> QED
  BY <1>1, SizeAssumption DEF SizedNode, Full, Room

\* Steps that leave the contents of all nodes alone leave their room alone.
LEMMA ContentsRoom ==
    ASSUME UNCHANGED contents
    PROVE  \A n : Same(n)
  BY DEF contents, Same

\* A thread that has restarted or returned noted nothing.
LEMMA ForgetNoted ==
    ASSUME TInv, NEW t \in Thread, Restart(t) \/ Return(t)
    PROVE  Noted(t)'
<1>1. pc'[t] \in {"start", "idle"} /\ parent'[t] = Null
  BY DEF Restart, Return, Goto, ForgetCursor, TInv, TypeOK, CursorOK
<1> QED
  BY <1>1 DEF Noted

\* What a thread notes on its way is true.
LEMMA OwnNoted ==
    ASSUME TInv, LInv, RInv, NEW t \in Thread, BulkInsert(t) \/ Call(t) \/ Run(t)
    PROVE  Noted(t)'
<1>0. /\ node[t] # Null => node[t] \in Node
      /\ parent[t] # Null => parent[t] \in Node
      /\ pc[t] \notin {"idle", "start"} => node[t] # Null
      /\ pc[t] \in {"checkInner", "childRead", "splitParent", "dropParent"} => parent[t] # Null
      /\ vnode[t] \in Nat /\ vparent[t] \in Nat
      /\ version \in [Node -> Nat]
  BY Standing DEF TInv, TypeOK, TreeOK, CursorOK, Placed
<1>1. Noted(t) /\ \A n \in Node : SizedNode(n)
  BY DEF RInv
<1>2. ASSUME UNCHANGED contents
      PROVE  \A n : (RoomyLeaf(n)' <=> RoomyLeaf(n)) /\ (RoomyInner(n)' <=> RoomyInner(n))
  BY <1>2, ContentsRoom, SameRoom
<1>3. CASE Restart(t) \/ Return(t)
  BY <1>3, ForgetNoted
<1>4. CASE BulkInsert(t) \/ Call(t) \/ LoadRoot(t)
  <2>1. pc'[t] \in {"start", "rootRead"} /\ parent'[t] = Null
    BY <1>1, <1>4 DEF BulkInsert, Call, Begin, LoadRoot, At, Goto, cursor, Noted,
                      TInv, TypeOK, CursorOK
  <2> QED
    BY <2>1 DEF Noted
<1>5. CASE ReadRoot(t) \/ ReadChild(t)
  <2>1. CASE ~Restart(t)
    <3>1. /\ \/ pc[t] = "rootRead" /\ pc'[t] = "rootCheck"
             \/ pc[t] = "childRead" /\ pc'[t] = "visit"
          /\ node'[t] = node[t] /\ vnode'[t] = version[node[t]] /\ version' = version
          /\ parent'[t] = parent[t] /\ vparent'[t] = vparent[t] /\ op'[t] = op[t]
          /\ UNCHANGED contents
      BY <1>5, <2>1 DEF ReadRoot, ReadChild, At, Goto, tree, contents, client,
                        TInv, TypeOK, CursorOK
    <3>2. version[node[t]] \in Nat
      BY <1>0, <3>1
    <3>3. CASE pc[t] = "rootRead" /\ pc'[t] = "rootCheck"
      <4>1. parent[t] = Null
        BY <1>1, <3>3 DEF Noted
      <4>2. vnode'[t] <= version'[node'[t]]
        BY <3>1, <3>2
      <4> QED
        BY <3>1, <3>3, <4>1, <4>2 DEF Noted
    <3>4. CASE pc[t] = "childRead" /\ pc'[t] = "visit"
      <4>1. vnode'[t] <= version'[node'[t]]
        BY <3>1, <3>2
      <4>2. /\ parent'[t] # Null => vparent'[t] <= version'[parent'[t]]
            /\ op'[t].fn = "insert" /\ parent'[t] # Null /\ version'[parent'[t]] = vparent'[t]
                  => RoomyInner(parent[t])
        BY <1>1, <3>1, <3>4 DEF Noted
      <4>3. RoomyInner(parent[t])' <=> RoomyInner(parent[t])
        BY <1>2, <3>1
      <4> QED
        BY <3>1, <3>4, <4>1, <4>2, <4>3 DEF Noted
    <3> QED
      BY <3>1, <3>3, <3>4
  <2> QED
    BY <1>3, <2>1
<1>6. ASSUME NEW l, Goto(t, l), UNCHANGED cursor, op' = op, version' = version,
             UNCHANGED contents,
             \/ pc[t] = "rootCheck" /\ l = "visit"
             \/ pc[t] = "checkInner" /\ l = "childRead"
             \/ pc[t] = "visit" /\ l = "splitParent" /\ op[t].fn = "insert"
             \/ pc[t] = "visit" /\ l = "splitNode" /\ op[t].fn = "insert" /\ parent[t] = Null
             \/ pc[t] = "visit" /\ l = "step" /\ (op[t].fn = "insert" /\ Unmoved(t)
                                                     => RoomyInner(node[t]))
             \/ pc[t] = "visit" /\ l = "leafLock" /\ op[t].fn = "insert"
                   /\ (Unmoved(t) => RoomyLeaf(node[t]))
             \/ pc[t] = "leafValidate" /\ l = "leafInsert"
             \/ l \in {"lookRead", "scanParent", "dropNode", "dropParent", "splitDone",
                       "leafUnlock", "lookParent", "lookNode", "scanLock"}
      PROVE  Noted(t)'
  <2>1. /\ pc'[t] = l
        /\ node'[t] = node[t] /\ vnode'[t] = vnode[t]
        /\ parent'[t] = parent[t] /\ vparent'[t] = vparent[t]
    BY <1>6, JumpStep
  <2>2. \A n : (RoomyLeaf(n)' <=> RoomyLeaf(n)) /\ (RoomyInner(n)' <=> RoomyInner(n))
    BY <1>2, <1>6
  <2> QED
    BY <1>1, <1>6, <2>1, <2>2 DEF Noted, Unmoved
<1>7. CASE CheckRoot(t) \/ CheckInner(t) \/ LeafValidate(t)
           \/ LookupParent(t) \/ ScanParent(t)
  BY <1>3, <1>6, <1>7 DEF CheckRoot, CheckInner, LeafValidate, LookupParent,
                          ScanParent, At, tree, contents, client
<1>8. ASSUME FALSE \in SeesFull(t), Unmoved(t), node[t] \in Node PROVE Room(node[t])
  BY <1>1, <1>8, NotFullHasRoom DEF SeesFull
<1>9. CASE VisitInner(t)
  <2>1. /\ UNCHANGED cursor /\ op' = op /\ version' = version /\ UNCHANGED contents
        /\ pc[t] = "visit" /\ node[t] \in Node /\ type[node[t]] = "inner"
    BY <1>0, <1>9 DEF VisitInner, At, tree, contents, client
  <2>2. \/ Goto(t, "splitParent") /\ op[t].fn = "insert"
        \/ Goto(t, "splitNode") /\ op[t].fn = "insert" /\ parent[t] = Null
        \/ Goto(t, "step") /\ (op[t].fn = "insert" => FALSE \in SeesFull(t))
    BY <1>9 DEF VisitInner, ToSplit
  <2> QED
    BY <1>6, <1>8, <2>1, <2>2 DEF RoomyInner
<1>10. CASE VisitLeaf(t)
  <2>1. /\ UNCHANGED cursor /\ op' = op /\ version' = version /\ UNCHANGED contents
        /\ pc[t] = "visit" /\ node[t] \in Node /\ type[node[t]] = "leaf"
    BY <1>0, <1>10 DEF VisitLeaf, At, tree, contents, client
  <2>2. \/ Goto(t, "splitParent") /\ op[t].fn = "insert"
        \/ Goto(t, "splitNode") /\ op[t].fn = "insert" /\ parent[t] = Null
        \/ Goto(t, "leafLock") /\ op[t].fn = "insert" /\ FALSE \in SeesFull(t)
        \/ Goto(t, "lookRead")
        \/ Goto(t, "scanParent")
    BY <1>10 DEF VisitLeaf, ToSplit
  <2> QED
    BY <1>6, <1>8, <2>1, <2>2 DEF RoomyLeaf
<1>11. CASE Step(t)
  <2>1. CASE ~Restart(t)
    <3>1. /\ pc[t] = "step" /\ pc'[t] = "checkInner"
          /\ parent'[t] = node[t] /\ vparent'[t] = vnode[t] /\ op'[t] = op[t]
          /\ version' = version /\ UNCHANGED contents
      BY <1>11, <2>1 DEF Step, At, Goto, tree, contents, client, TInv, TypeOK, CursorOK
    <3>2. \A n : RoomyInner(n)' <=> RoomyInner(n)
      BY <1>2, <3>1
    <3> QED
      BY <1>1, <3>1, <3>2 DEF Noted
  <2> QED
    BY <1>3, <2>1
<1>12. CASE SplitLockParent(t)
  <2>1. CASE ~Restart(t)
    <3>1. /\ pc[t] = "splitParent" /\ pc'[t] = "splitNode" /\ parent[t] # Null
          /\ node'[t] = node[t] /\ vnode'[t] = vnode[t]
          /\ parent'[t] = parent[t] /\ op'[t] = op[t]
          /\ version[parent[t]] = vparent[t]
          /\ UNCHANGED contents
      BY <1>0, <1>12, <2>1 DEF SplitLockParent, CanUpgrade, At, Goto, client,
                               TInv, TypeOK, CursorOK
    <3>2. \A n : RoomyInner(n)' <=> RoomyInner(n)
      BY <1>2, <3>1
    <3>3. vnode[t] <= version'[node[t]]
      <4>1. Effect(t)
        BY StepEffect DEF Keeps
      <4>2. vnode[t] <= version[node[t]] /\ node[t] \in Node
        BY <1>0, <1>1, <3>1 DEF Noted
      <4> QED
        BY <1>0, <4>1, <4>2, VersionsGrow
    <3>4. RoomyInner(parent[t]) /\ op[t].fn = "insert"
      BY <1>1, <3>1 DEF Noted
    <3> QED
      BY <3>1, <3>2, <3>3, <3>4 DEF Noted
  <2> QED
    BY <1>3, <2>1
<1>13. CASE SplitLockNode(t)
  <2>1. CASE CanUpgrade(node[t], vnode[t])
    <3>1. /\ pc[t] = "splitNode" /\ pc'[t] \in {"split", "dropNode"}
          /\ parent'[t] = parent[t] /\ UNCHANGED contents
      BY <1>13, <2>1 DEF SplitLockNode, At, Goto, TInv, TypeOK, CursorOK
    <3>2. \A n : RoomyInner(n)' <=> RoomyInner(n)
      BY <1>2, <3>1
    <3> QED
      BY <1>1, <3>1, <3>2 DEF Noted
  <2>2. CASE ~CanUpgrade(node[t], vnode[t])
    BY <1>3, <1>6, <1>13, <2>2 DEF SplitLockNode, GiveUp, client
  <2> QED
    BY <2>1, <2>2
<1>14. CASE LeafLock(t)
  <2>1. CASE ~Restart(t)
    <3>1. /\ pc[t] = "leafLock" /\ pc'[t] = "leafValidate" /\ node'[t] = node[t]
          /\ version[node[t]] = vnode[t] /\ UNCHANGED contents
      BY <1>14, <2>1 DEF LeafLock, CanUpgrade, At, Goto, TInv, TypeOK, CursorOK
    <3>2. \A n : RoomyLeaf(n)' <=> RoomyLeaf(n)
      BY <1>2, <3>1
    <3> QED
      BY <1>1, <3>1, <3>2 DEF Noted
  <2> QED
    BY <1>3, <2>1
<1>15. ASSUME pc'[t] \in {"dropParent", "splitDone", "leafUnlock", "lookParent", "scanRead",
                          "scanCheck", "scanLock"}
       PROVE  Noted(t)'
  BY <1>15 DEF Noted
<1>16. CASE SplitUnlock(t) \/ DropParent(t) \/ DropNode(t) \/ LeafUnlock(t) \/ SplitLeaf(t)
            \/ SplitInner(t) \/ LeafInsert(t) \/ LookupRead(t) \/ LookupNode(t) \/ ScanLock(t)
            \/ ScanRead(t) \/ ScanCheck(t)
  <2>1. DOMAIN pc = Thread
    BY DEF TInv, TypeOK, CursorOK
  <2> QED
    BY <1>3, <1>15, <1>16, <2>1
       DEF SplitUnlock, DropParent, DropNode, LeafUnlock, SplitLeaf, SplitInner, LeafInsert,
           LookupRead, LookupNode, ScanLock, ScanRead, ScanCheck, Goto
<1> QED
  BY <1>4, <1>5, <1>7, <1>9, <1>10, <1>11, <1>12, <1>13, <1>14, <1>16
     DEF Run, Descend, SplitPath, LeafPath, ReadPath

-----------------------------------------------------------------------------
(* The sizes.                                                              *)

\* Taking a part of the pairs of a leaf.
LEMMA OnlySmaller ==
    ASSUME NEW f, IsFiniteSet(DOMAIN f), NEW S, NEW b \in Int, Cardinality(DOMAIN f) <= b
    PROVE  /\ IsFiniteSet(DOMAIN Only(f, S))
           /\ Cardinality(DOMAIN Only(f, S)) <= b
<1>1. DOMAIN Only(f, S) \in SUBSET (DOMAIN f)
  BY DEF Only
<1>2. /\ IsFiniteSet(DOMAIN Only(f, S))
      /\ Cardinality(DOMAIN Only(f, S)) <= Cardinality(DOMAIN f)
  BY <1>1, FS_Subset
<1>3. Cardinality(DOMAIN Only(f, S)) \in Nat /\ Cardinality(DOMAIN f) \in Nat
  BY <1>2, FS_CardinalityType
<1>4. \A x, y \in Nat : x <= y /\ y <= b => x <= b
  OBVIOUS
<1> QED
  BY <1>2, <1>3, <1>4

\* One more entry where there is room for one.
LEMMA AddOne ==
    ASSUME NEW S, IsFiniteSet(S), NEW x, NEW b \in Int, Cardinality(S) < b
    PROVE  IsFiniteSet(S \cup {x}) /\ Cardinality(S \cup {x}) <= b
<1>1. Cardinality(S) \in Nat
  BY FS_CardinalityType
<1>2. IsFiniteSet(S \cup {x})
  BY FS_AddElement
<1>3. Cardinality(S \cup {x}) \in {Cardinality(S), Cardinality(S) + 1}
  BY FS_AddElement
<1> QED
  BY <1>1, <1>2, <1>3

\* parent->insert adds one separator to a parent with room, makeRoot makes a
\* node with one.
LEMMA LinkSizes ==
    ASSUME TInv, RInv, NEW t \in Thread, pc[t] = "split", used < MaxNodes,
           NEW sep \in Key, NEW kids, DOMAIN kids = Node, Link(t, sep, used + 1, kids),
           \A n \in Node : /\ IsFiniteSet(DOMAIN kids[n] \ {Inf})
                           /\ Cardinality(DOMAIN kids[n] \ {Inf}) <= InnerMax - 1,
           parent[t] # Null => DOMAIN kids[parent[t]] = DOMAIN kid[parent[t]]
    PROVE  \A n \in Node : /\ IsFiniteSet(DOMAIN kid'[n] \ {Inf})
                           /\ Cardinality(DOMAIN kid'[n] \ {Inf}) <= InnerMax - 1
<1>1. CASE parent[t] # Null
  <2> DEFINE p == parent[t]
  <2>1. p \in Node /\ type[p] = "inner" /\ Cardinality(Separators(p)) < InnerMax - 1
    BY <1>1, Standing DEF RInv, Noted, RoomyInner, Room
  <2>2. PICK d : kid' = [kids EXCEPT ![p] = InsertChild(@, d, sep, used + 1)]
    BY <1>1 DEF Link
  <2>3. DOMAIN kid'[p] \ {Inf} = Separators(p) \cup {sep}
    BY <1>1, <2>1, <2>2, KeyAssumption DEF InsertChild, Separators
  <2>4. /\ IsFiniteSet(Separators(p) \cup {sep})
        /\ Cardinality(Separators(p) \cup {sep}) <= InnerMax - 1
    <3>1. IsFiniteSet(Separators(p)) /\ InnerMax - 1 \in Int
      BY <2>1, SizeAssumption DEF RInv, SizedNode
    <3> HIDE DEF p
    <3> QED
      BY <2>1, <3>1, AddOne
  <2>5. \A n \in Node \ {p} : kid'[n] = kids[n]
    BY <2>2
  <2> QED
    BY <2>3, <2>4, <2>5
<1>2. CASE parent[t] = Null
  <2>1. PICK f : /\ kid' = [kids EXCEPT ![used + 1 + 1] = f]
                 /\ DOMAIN f = {sep, Inf}
    BY <1>2 DEF Link
  <2>2. DOMAIN f \ {Inf} = {sep}
    BY <2>1, KeyAssumption
  <2>3. IsFiniteSet(DOMAIN f \ {Inf}) /\ Cardinality(DOMAIN f \ {Inf}) <= InnerMax - 1
    <3>1. IsFiniteSet({sep}) /\ Cardinality({sep}) = 1
      BY FS_Singleton
    <3>2. 1 <= InnerMax - 1
      BY SizeAssumption
    <3> QED
      BY <2>2, <3>1, <3>2
  <2>4. \A n \in Node : kid'[n] = f \/ kid'[n] = kids[n]
    BY <2>1
  <2> QED
    BY <2>3, <2>4
<1> QED
  BY <1>1, <1>2

\* Every step keeps the nodes within their arrays.
LEMMA StepSizes ==
    ASSUME TInv, LInv, RInv, NEW t \in Thread, BulkInsert(t) \/ Call(t) \/ Run(t)
    PROVE  \A n \in Node : SizedNode(n)'
<1>0. /\ DOMAIN kid = Node /\ DOMAIN data = Node
      /\ pc[t] \in {"split", "leafInsert"} => node[t] \in Node
  BY Standing DEF TInv, Placed, TypeOK, TreeOK
<1>1. \A n \in Node : SizedNode(n)
  BY DEF RInv
<1>2. CASE UNCHANGED contents
  BY <1>1, <1>2, ContentsRoom, SameRoom
<1>3. CASE LeafInsert(t)
  <2> DEFINE m == node[t]
             k == op[t].key
  <2>1. /\ m \in Node /\ type[m] = "leaf" /\ Cardinality(DOMAIN data[m]) < LeafMax
        /\ IsFiniteSet(DOMAIN data[m]) /\ Cardinality(DOMAIN data[m]) \in Nat
    BY <1>0, <1>1, <1>3, FS_CardinalityType
       DEF LeafInsert, At, RInv, Noted, RoomyLeaf, Room, SizedNode
  <2>2. \A n \in Node : \/ DOMAIN data'[n] = DOMAIN data[n]
                        \/ n = m /\ DOMAIN data'[n] = DOMAIN data[m] \cup {k}
    BY <1>0, <1>3 DEF LeafInsert, Plus
  <2>3. /\ IsFiniteSet(DOMAIN data[m] \cup {k})
        /\ Cardinality(DOMAIN data[m] \cup {k}) <= LeafMax
    <3>1. LeafMax \in Int
      BY SizeAssumption
    <3> HIDE DEF k, m
    <3> QED
      BY <2>1, <3>1, AddOne
  <2>4. \A n \in Node : IsFiniteSet(DOMAIN data'[n]) /\ Cardinality(DOMAIN data'[n]) <= LeafMax
    BY <1>1, <2>2, <2>3 DEF SizedNode
  <2>5. \A n \in Node : Separators(n)' = Separators(n)
    BY <1>3 DEF LeafInsert, Separators
  <2> QED
    BY <1>1, <2>4, <2>5 DEF SizedNode
<1>4. CASE SplitLeaf(t)
  <2> DEFINE m == node[t]
             D == DOMAIN data[m]
             new == used + 1
  <2>1. /\ pc[t] = "split" /\ used < MaxNodes /\ m \in Node
        /\ \E L \in SUBSET D : \E sep \in L :
             /\ data' = [data EXCEPT ![m] = Only(data[m], L), ![new] = Only(data[m], D \ L)]
             /\ Link(t, sep, new, kid)
    BY <1>0, <1>4 DEF SplitLeaf, At
  <2>2. PICK L \in SUBSET D : \E sep \in L :
             /\ data' = [data EXCEPT ![m] = Only(data[m], L), ![new] = Only(data[m], D \ L)]
             /\ Link(t, sep, new, kid)
    BY <2>1
  <2>3. PICK sep \in L :
             /\ data' = [data EXCEPT ![m] = Only(data[m], L), ![new] = Only(data[m], D \ L)]
             /\ Link(t, sep, new, kid)
    BY <2>2
  <2>4. sep \in Key
    BY <2>1 DEF TInv, TypeOK, TreeOK, IsMap
  <2>5. \A n \in Node : /\ IsFiniteSet(DOMAIN kid'[n] \ {Inf})
                        /\ Cardinality(DOMAIN kid'[n] \ {Inf}) <= InnerMax - 1
    BY <1>0, <1>1, <2>1, <2>3, <2>4, LinkSizes DEF SizedNode, Separators
  <2>6. \A S : /\ IsFiniteSet(DOMAIN Only(data[m], S))
               /\ Cardinality(DOMAIN Only(data[m], S)) <= LeafMax
    <3> SUFFICES ASSUME NEW S
                 PROVE  /\ IsFiniteSet(DOMAIN Only(data[m], S))
                        /\ Cardinality(DOMAIN Only(data[m], S)) <= LeafMax
      OBVIOUS
    <3>1. IsFiniteSet(DOMAIN data[m]) /\ Cardinality(DOMAIN data[m]) <= LeafMax
      BY <1>1, <2>1 DEF SizedNode
    <3>2. LeafMax \in Int
      BY SizeAssumption
    <3> QED
      BY <3>1, <3>2, OnlySmaller
  <2>7. \A n \in Node : data'[n] = data[n] \/ \E S : data'[n] = Only(data[m], S)
    BY <1>0, <2>3
  <2>8. \A n \in Node : IsFiniteSet(DOMAIN data'[n]) /\ Cardinality(DOMAIN data'[n]) <= LeafMax
    BY <1>1, <2>6, <2>7 DEF SizedNode
  <2> QED
    BY <2>5, <2>8 DEF SizedNode, Separators
<1>5. CASE SplitInner(t)
  <2> DEFINE m == node[t]
             S == Separators(m)
             new == used + 1
             kids(L, sep) == [kid EXCEPT ![m] = LeftKids(kid[m], L, sep),
                                         ![new] = Only(kid[m], Upto \ (L \cup {sep}))]
  <2>1. PICK L \in SUBSET S : \E sep \in S \ L : Link(t, sep, new, kids(L, sep))
    BY <1>5 DEF SplitInner
  <2>2. PICK sep \in S \ L : Link(t, sep, new, kids(L, sep))
    BY <2>1
  <2>3. /\ pc[t] = "split" /\ used < MaxNodes /\ m \in Node
        /\ data' = data
    BY <1>0, <1>5 DEF SplitInner, At
  <2>4. sep \in Key
    BY <2>3 DEF TInv, TypeOK, TreeOK, IsMap, Separators, Upto
  <2>5. DOMAIN kids(L, sep) = Node
    BY <1>0
  <2>6. \A n \in Node : \/ kids(L, sep)[n] = kid[n]
                        \/ (DOMAIN kids(L, sep)[n]) \ {Inf} \in SUBSET S
    BY <1>0, <2>3 DEF LeftKids, Only, Separators
  <2>7. /\ IsFiniteSet(S) /\ Cardinality(S) <= InnerMax - 1
        /\ \A T \in SUBSET S : IsFiniteSet(T) /\ Cardinality(T) <= InnerMax - 1
    <3>1. IsFiniteSet(S) /\ Cardinality(S) <= InnerMax - 1 /\ Cardinality(S) \in Nat
      BY <1>1, <2>3, FS_CardinalityType DEF SizedNode
    <3>2. ASSUME NEW T \in SUBSET S
          PROVE  IsFiniteSet(T) /\ Cardinality(T) <= InnerMax - 1
      <4>1. IsFiniteSet(T) /\ Cardinality(T) <= Cardinality(S)
        BY <3>1, FS_Subset
      <4>2. Cardinality(T) \in Nat
        BY <4>1, FS_CardinalityType
      <4> QED
        BY <3>1, <4>1, <4>2, SizeAssumption
    <3> QED
      BY <3>1, <3>2
  <2>8. \A n \in Node : /\ IsFiniteSet((DOMAIN kids(L, sep)[n]) \ {Inf})
                        /\ Cardinality((DOMAIN kids(L, sep)[n]) \ {Inf}) <= InnerMax - 1
    <3> HIDE DEF kids, S
    <3> QED
      BY <1>1, <2>6, <2>7 DEF SizedNode, Separators
  <2>9. parent[t] # Null => DOMAIN kids(L, sep)[parent[t]] = DOMAIN kid[parent[t]]
    <3> SUFFICES ASSUME parent[t] # Null
                 PROVE  kids(L, sep)[parent[t]] = kid[parent[t]]
      OBVIOUS
    <3>1. parent[t] \in Node /\ parent[t] # m
      BY <2>3, Standing DEF LInv, KnowsVersions, HoldsNode, HoldsParent
    <3>2. parent[t] # new
      BY BoundAssumption DEF TInv, TypeOK, TreeOK, CursorOK, Node
    <3> QED
      BY <1>0, <3>1, <3>2
  <2>10. \A n \in Node : /\ IsFiniteSet(DOMAIN kid'[n] \ {Inf})
                         /\ Cardinality(DOMAIN kid'[n] \ {Inf}) <= InnerMax - 1
    <3> HIDE DEF kids
    <3> QED
      BY <2>2, <2>3, <2>4, <2>5, <2>8, <2>9, LinkSizes
  <2> QED
    BY <1>1, <2>3, <2>10 DEF SizedNode, Separators
<1> QED
  BY <1>2, <1>3, <1>4, <1>5
     DEF Run, Descend, SplitPath, LeafPath, ReadPath, contents, tree, BulkInsert, Call,
         Begin, LoadRoot, ReadRoot, CheckRoot, VisitInner, VisitLeaf, Step, CheckInner,
         ReadChild, SplitLockParent, SplitLockNode, SplitUnlock,
         DropParent, DropNode, LeafLock, LeafValidate, LeafUnlock, LookupRead,
         LookupParent, LookupNode, ScanParent, ScanLock, ScanRead, ScanCheck

-----------------------------------------------------------------------------
(* The theorem.                                                            *)

\* The empty tree.
LEMMA InitRInv == Init => RInv
<1> SUFFICES ASSUME Init PROVE RInv
  OBVIOUS
<1>1. \A t \in Thread : Noted(t)
  BY DEF Init, Noted
<1>2. DOMAIN Empty = {}
  BY DEF Empty
<1>3. \A n \in Node : DOMAIN data[n] = {} /\ Separators(n) = {}
  BY <1>2 DEF Init, Separators
<1>4. \A n \in Node : SizedNode(n)
  <2>1. IsFiniteSet({}) /\ Cardinality({}) = 0
    BY FS_EmptySet
  <2>2. 0 <= LeafMax /\ 0 <= InnerMax - 1
    BY SizeAssumption
  <2> QED
    BY <1>3, <2>1, <2>2 DEF SizedNode
<1> QED
  BY <1>1, <1>4 DEF RInv

\* Every step preserves the invariant.
LEMMA NextRInv == TInv /\ LInv /\ RInv /\ [Next]_vars => RInv'
<1> SUFFICES ASSUME TInv, LInv, RInv, [Next]_vars PROVE RInv'
  OBVIOUS
<1>1. CASE UNCHANGED vars
  <2>1. /\ UNCHANGED <<version, type, data, kid>> /\ pc' = pc /\ op' = op
        /\ node' = node /\ vnode' = vnode /\ parent' = parent /\ vparent' = vparent
    BY <1>1 DEF vars, tree, cursor, client
  <2>2. \A n \in Node : SizedNode(n)'
    BY <2>1 DEF RInv, SizedNode, Separators
  <2>3. \A n : RoomyLeaf(n)' <=> RoomyLeaf(n)
    BY <2>1 DEF RoomyLeaf, Room, Separators
  <2>4. \A n : RoomyInner(n)' <=> RoomyInner(n)
    BY <2>1 DEF RoomyInner, Room, Separators
  <2>5. \A t \in Thread : Noted(t)'
    BY <2>1, <2>3, <2>4 DEF RInv, Noted
  <2> QED
    BY <2>2, <2>5 DEF RInv
<1>2. ASSUME NEW t \in Thread, BulkInsert(t) \/ Call(t) \/ Run(t) PROVE RInv'
  BY <1>2, StepSizes, OwnNoted, OthersNoted DEF RInv
<1> QED
  BY <1>1, <1>2 DEF Next

\* The asserted preconditions of BTreeLeaf::insert and BTreeInner::insert hold
\* in every behaviour, for all node sizes and any number of threads: isFull,
\* tested without a lock, is still false once the version has let the insert
\* take the lock.
THEOREM InsertsFindRoom == Spec => []RoomToInsert
<1>1. TInv /\ RInv => RoomToInsert
  BY DEF RInv, Noted, RoomyLeaf, RoomyInner, Room, RoomToInsert, At
<1> QED
  BY <1>1, InitTInv, NextTInv, InitLInv, NextLInv, InitRInv, NextRInv, PTL DEF Spec

=============================================================================
