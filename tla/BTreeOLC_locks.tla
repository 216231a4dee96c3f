---------------------------- MODULE BTreeOLC_locks ----------------------------
(***************************************************************************)
(* Proofs about the version locks of BTreeOLC: exclusion, and the          *)
(* stability of unlocked nodes.                                            *)
(***************************************************************************)
EXTENDS BTreeOLC_proofs

USE DEF Null

-----------------------------------------------------------------------------
(* The inductive invariant of the locks.                                   *)

\* What thread t knows of the versions it noted.
KnowsVersions(t) ==
    /\ HoldsNode(t) => version[node[t]] = vnode[t] /\ Locked(vnode[t])
    /\ HoldsParent(t) => version[parent[t]] = vparent[t] /\ Locked(vparent[t])
    /\ HoldsNode(t) /\ HoldsParent(t) => node[t] # parent[t]
    /\ pc[t] \in {"rootCheck", "visit", "step", "splitParent", "splitNode", "leafLock"}
          => ~Locked(vnode[t])
    /\ parent[t] # Null =>
          (pc[t] \in {"idle", "start", "rootRead", "rootCheck", "visit", "step",
                      "checkInner", "childRead", "splitParent", "leafLock"}
              => ~Locked(vparent[t]))

\* WriteLockExclusive and what makes it inductive.
LInv == WriteLockExclusive /\ \A t \in Thread : KnowsVersions(t)

-----------------------------------------------------------------------------
(* What a step of thread t does to the locks.                              *)

\* The local variables of the other threads stay the same.
Others(t) == \A u \in Thread \ {t} :
                /\ pc'[u] = pc[u]
                /\ node'[u] = node[u] /\ vnode'[u] = vnode[u]
                /\ parent'[u] = parent[u] /\ vparent'[u] = vparent[u]

\* t takes and releases nothing; it takes n; it releases n.
Quiet(t) == version' = version /\ \A m \in Node : Holds(t, m)' <=> Holds(t, m)
Locks(t, n) == /\ ~Locked(version[n])
               /\ version' = [version EXCEPT ![n] = @ + 2]
               /\ \A m \in Node : Holds(t, m)' <=> (Holds(t, m) \/ m = n)
Unlocks(t, n) == /\ Holds(t, n)
                 /\ version' = [version EXCEPT ![n] = @ + 2]
                 /\ \A m \in Node : Holds(t, m)' <=> (Holds(t, m) /\ m # n)
Effect(t) == Quiet(t) \/ \E n \in Node : Locks(t, n) \/ Unlocks(t, n)

\* Adding 2 to a version flips its lock bit and keeps it even.
LEMMA LockFlips ==
    ASSUME NEW v \in Nat
    PROVE  /\ Locked(v + 2) <=> ~Locked(v)
           /\ Obsolete(v + 2) <=> Obsolete(v)
  BY DEF Locked, Obsolete

\* A step with one of these effects keeps the lock invariant.
LEMMA EffectKeeps ==
    ASSUME TInv, LInv, NEW t \in Thread, Others(t), Effect(t), KnowsVersions(t)'
    PROVE  LInv'
<1>1. version \in [Node -> Nat]
  BY DEF TInv, TypeOK, TreeOK
<1>2. \A u \in Thread \ {t}, m \in Node : Holds(u, m)' <=> Holds(u, m)
  BY DEF Others, Holds, HoldsNode, HoldsParent
<1>3. \A n \in Node : Locks(t, n) \/ Unlocks(t, n) =>
         /\ Locked(version'[n]) <=> ~Locked(version[n])
         /\ Obsolete(version'[n]) <=> Obsolete(version[n])
         /\ \A m \in Node \ {n} : version'[m] = version[m]
  BY <1>1, LockFlips DEF Locks, Unlocks
<1>4. WriteLockExclusive'
  <2>1. CASE Quiet(t)
    BY <1>2, <2>1 DEF LInv, WriteLockExclusive, Quiet
  <2>2. ASSUME NEW n \in Node, Locks(t, n), NEW m \in Node
        PROVE  /\ Locked(version'[m]) <=> \E u \in Thread : Holds(u, m)'
               /\ \A u, w \in Thread : Holds(u, m)' /\ Holds(w, m)' => u = w
               /\ ~Obsolete(version'[m])
    <3>1. /\ Locked(version[m]) <=> \E u \in Thread : Holds(u, m)
          /\ \A u, w \in Thread : Holds(u, m) /\ Holds(w, m) => u = w
          /\ ~Obsolete(version[m])
      BY DEF LInv, WriteLockExclusive
    <3>2. CASE m = n
      <4>1. Locked(version'[m]) /\ ~Obsolete(version'[m]) /\ Holds(t, m)'
        BY <1>3, <2>2, <3>1, <3>2 DEF Locks
      <4>2. \A u \in Thread \ {t} : ~Holds(u, m)'
        BY <1>2, <2>2, <3>1, <3>2 DEF Locks
      <4> QED
        BY <4>1, <4>2
    <3>3. CASE m # n
      <4>1. version'[m] = version[m]
        BY <1>3, <2>2, <3>3
      <4>2. \A u \in Thread : Holds(u, m)' <=> Holds(u, m)
        BY <1>2, <2>2, <3>3 DEF Locks
      <4> QED
        BY <3>1, <4>1, <4>2
    <3> QED
      BY <3>2, <3>3
  <2>3. ASSUME NEW n \in Node, Unlocks(t, n), NEW m \in Node
        PROVE  /\ Locked(version'[m]) <=> \E u \in Thread : Holds(u, m)'
               /\ \A u, w \in Thread : Holds(u, m)' /\ Holds(w, m)' => u = w
               /\ ~Obsolete(version'[m])
    <3>1. /\ Locked(version[m]) <=> \E u \in Thread : Holds(u, m)
          /\ \A u, w \in Thread : Holds(u, m) /\ Holds(w, m) => u = w
          /\ ~Obsolete(version[m])
      BY DEF LInv, WriteLockExclusive
    <3>2. CASE m = n
      <4>1. ~Locked(version'[m]) /\ ~Obsolete(version'[m]) /\ ~Holds(t, m)'
        BY <1>3, <2>3, <3>1, <3>2 DEF Unlocks
      <4>2. \A u \in Thread \ {t} : ~Holds(u, m)'
        BY <1>2, <2>3, <3>1, <3>2 DEF Unlocks
      <4> QED
        BY <4>1, <4>2
    <3>3. CASE m # n
      <4>1. version'[m] = version[m]
        BY <1>3, <2>3, <3>3
      <4>2. \A u \in Thread : Holds(u, m)' <=> Holds(u, m)
        BY <1>2, <2>3, <3>3 DEF Unlocks
      <4> QED
        BY <3>1, <4>1, <4>2
    <3> QED
      BY <3>2, <3>3
  <2> QED
    BY <2>1, <2>2, <2>3 DEF Effect, WriteLockExclusive
<1>5. ASSUME NEW u \in Thread \ {t} PROVE KnowsVersions(u)'
  <2>1. \A m \in Node : Holds(u, m) => version'[m] = version[m]
    <3>1. CASE Quiet(t)
      BY <3>1 DEF Quiet
    <3>2. ASSUME NEW n \in Node, Locks(t, n), NEW m \in Node, Holds(u, m)
          PROVE version'[m] = version[m]
      <4>1. Locked(version[m]) /\ ~Locked(version[n])
        BY <3>2 DEF LInv, WriteLockExclusive, Locks
      <4> QED
        BY <1>3, <3>2, <4>1
    <3>3. ASSUME NEW n \in Node, Unlocks(t, n), NEW m \in Node, Holds(u, m)
          PROVE version'[m] = version[m]
      <4>1. m # n
        BY <3>3 DEF LInv, WriteLockExclusive, Unlocks
      <4> QED
        BY <1>3, <3>3, <4>1
    <3> QED
      BY <3>1, <3>2, <3>3 DEF Effect
  <2>2. /\ HoldsNode(u)' <=> HoldsNode(u)
        /\ HoldsParent(u)' <=> HoldsParent(u)
        /\ HoldsNode(u) => node[u] \in Node /\ Holds(u, node[u])
        /\ HoldsParent(u) => parent[u] \in Node /\ Holds(u, parent[u])
    BY Standing DEF Others, Holds, HoldsNode, HoldsParent, TInv, Placed
  <2>3. pc'[u] = pc[u] /\ node'[u] = node[u] /\ vnode'[u] = vnode[u]
        /\ parent'[u] = parent[u] /\ vparent'[u] = vparent[u]
    BY DEF Others
  <2> QED
    BY <2>1, <2>2, <2>3 DEF KnowsVersions, LInv
<1> QED
  BY <1>4, <1>5 DEF LInv

\* Assignments to the locals of t leave the other threads alone.
LEMMA LocalStep ==
    ASSUME TInv, NEW t \in Thread, NEW l, Goto(t, l),
           NEW n, NEW vn, NEW p, NEW vp,
           node' = [node EXCEPT ![t] = n], vnode' = [vnode EXCEPT ![t] = vn],
           parent' = [parent EXCEPT ![t] = p], vparent' = [vparent EXCEPT ![t] = vp]
    PROVE  /\ Others(t)
           /\ pc'[t] = l /\ node'[t] = n /\ vnode'[t] = vn
           /\ parent'[t] = p /\ vparent'[t] = vp
  BY DEF Others, Goto, TInv, TypeOK, CursorOK

\* A restart or a return forgets the locals; t holds nothing after it.
LEMMA ForgetStep ==
    ASSUME TInv, NEW t \in Thread, NEW l, l \in {"start", "idle"}, Goto(t, l), ForgetCursor(t)
    PROVE  /\ Others(t) /\ KnowsVersions(t)'
           /\ \A m \in Node : ~Holds(t, m)'
<1>1. Others(t) /\ pc'[t] = l /\ parent'[t] = Null
  BY LocalStep DEF ForgetCursor
<1> QED
  BY <1>1 DEF KnowsVersions, Holds, HoldsNode, HoldsParent

\* A jump changes nothing but the label.
LEMMA JumpStep ==
    ASSUME TInv, NEW t \in Thread, NEW l, Goto(t, l), UNCHANGED cursor
    PROVE  /\ Others(t) /\ pc'[t] = l
           /\ node'[t] = node[t] /\ vnode'[t] = vnode[t]
           /\ parent'[t] = parent[t] /\ vparent'[t] = vparent[t]
  BY DEF Others, Goto, cursor, TInv, TypeOK, CursorOK

\* Noting the version of a node that is neither locked nor obsolete.
LEMMA NoteStep ==
    ASSUME TInv, NEW t \in Thread, NEW l, Goto(t, l), NEW v \in Nat,
           vnode' = [vnode EXCEPT ![t] = v], UNCHANGED <<node, parent, vparent>>
    PROVE  /\ Others(t) /\ pc'[t] = l
           /\ node'[t] = node[t] /\ vnode'[t] = v
           /\ parent'[t] = parent[t] /\ vparent'[t] = vparent[t]
  BY DEF Others, Goto, TInv, TypeOK, CursorOK

Keeps(t) == Others(t) /\ Effect(t) /\ KnowsVersions(t)'

\* The locals decide who holds what.
LEMMA HoldsBy ==
    ASSUME NEW t \in Thread, NEW m \in Node
    PROVE  /\ pc[t] \notin {"splitNode", "split", "splitDone", "dropParent", "dropNode",
                            "leafValidate", "leafInsert", "leafUnlock"} => ~Holds(t, m)
           /\ pc[t] \in {"split", "splitDone"} =>
                 (Holds(t, m) <=> m = node[t] \/ m = parent[t])
           /\ pc[t] \in {"splitNode", "dropParent"} => (Holds(t, m) <=> m = parent[t])
           /\ pc[t] \in {"dropNode", "leafValidate", "leafInsert", "leafUnlock"} =>
                 (Holds(t, m) <=> m = node[t])
<1>1. m # Null
  BY BoundAssumption DEF Node
<1> QED
  BY <1>1 DEF Holds, HoldsNode, HoldsParent

\* What is left of KnowsVersions for a thread that holds nothing.
LEMMA FreeKnows ==
    ASSUME NEW t \in Thread, ~HoldsNode(t)', ~HoldsParent(t)',
           pc'[t] \in {"rootCheck", "visit", "step", "splitParent", "splitNode", "leafLock"}
              => ~Locked(vnode'[t]),
           parent'[t] # Null =>
              (pc'[t] \in {"idle", "start", "rootRead", "rootCheck", "visit", "step",
                           "checkInner", "childRead", "splitParent", "leafLock"}
                  => ~Locked(vparent'[t]))
    PROVE  KnowsVersions(t)' /\ \A m \in Node : ~Holds(t, m)'
<1>1. KnowsVersions(t)'
  BY DEF KnowsVersions
<1>2. \A m \in Node : ~Holds(t, m)'
  BY DEF Holds
<1> QED
  BY <1>1, <1>2

\* Steps before the first lock and after the last one.
LEMMA FreeEffect ==
    ASSUME TInv, LInv, NEW t \in Thread,
           \/ LoadRoot(t) \/ ReadRoot(t) \/ CheckRoot(t) \/ VisitInner(t) \/ VisitLeaf(t)
           \/ Step(t) \/ CheckInner(t) \/ ReadChild(t) \/ ReadPath(t)
    PROVE  Keeps(t)
<1> DEFINE Free == {"idle", "start", "rootRead", "rootCheck", "visit", "step",
                    "checkInner", "childRead", "splitParent", "leafLock",
                    "lookRead", "lookParent", "lookNode",
                    "scanParent", "scanLock", "scanRead", "scanCheck"}
<1>1. pc[t] \in Free
  BY DEF LoadRoot, ReadRoot, CheckRoot, VisitInner, VisitLeaf, Step, CheckInner, ReadChild,
         ReadPath, LookupRead, LookupParent, LookupNode, ScanParent, ScanLock, ScanRead,
         ScanCheck, At
<1>2. version' = version
  BY DEF LoadRoot, ReadRoot, CheckRoot, VisitInner, VisitLeaf, Step, CheckInner, ReadChild,
         ReadPath, LookupRead, LookupParent, LookupNode, ScanParent, ScanLock, ScanRead,
         ScanCheck, tree
<1>3. SUFFICES Others(t) /\ KnowsVersions(t)' /\ \A m \in Node : ~Holds(t, m)'
  BY <1>1, <1>2, HoldsBy DEF Keeps, Effect, Quiet
<1>4. /\ pc[t] \in {"rootCheck", "visit", "step"} => ~Locked(vnode[t])
      /\ parent[t] # Null =>
            (pc[t] \in Free \ {"lookRead", "lookParent", "lookNode",
                               "scanParent", "scanLock", "scanRead", "scanCheck"}
                => ~Locked(vparent[t]))
  BY DEF LInv, KnowsVersions
<1>5. CASE Restart(t) \/ Return(t)
  BY <1>5, ForgetStep DEF Restart, Return
<1>6. ASSUME NEW l \in Free \cup {"splitNode"}, Goto(t, l), UNCHANGED cursor,
             l = "splitNode" => parent[t] = Null,
             l \in {"rootCheck", "visit", "step", "splitParent", "splitNode", "leafLock"} =>
                pc[t] \in {"rootCheck", "visit", "step"},
             l \in {"idle", "start", "rootRead", "rootCheck", "visit", "step",
                    "checkInner", "childRead", "splitParent", "leafLock"} =>
                pc[t] \in {"rootCheck", "visit", "checkInner"}
      PROVE  Others(t) /\ KnowsVersions(t)' /\ \A m \in Node : ~Holds(t, m)'
  <2>1. /\ Others(t) /\ pc'[t] = l
        /\ node'[t] = node[t] /\ vnode'[t] = vnode[t]
        /\ parent'[t] = parent[t] /\ vparent'[t] = vparent[t]
    BY <1>6, JumpStep
  <2>2. ~HoldsNode(t)' /\ ~HoldsParent(t)'
    BY <1>6, <2>1 DEF HoldsNode, HoldsParent
  <2> QED
    BY <1>4, <1>6, <2>1, <2>2, FreeKnows
<1>7. CASE CheckRoot(t)
  BY <1>5, <1>6, <1>7 DEF CheckRoot, At
<1>8. CASE VisitInner(t)
  <2>1. pc[t] = "visit" /\ UNCHANGED cursor
        /\ (Goto(t, "step") \/ (parent[t] = Null /\ Goto(t, "splitNode"))
             \/ Goto(t, "splitParent"))
    BY <1>8 DEF VisitInner, At, ToSplit
  <2> QED
    BY <1>6, <2>1
<1>9. CASE VisitLeaf(t)
  <2>1. pc[t] = "visit" /\ UNCHANGED cursor
        /\ (Goto(t, "leafLock") \/ (parent[t] = Null /\ Goto(t, "splitNode"))
             \/ Goto(t, "splitParent") \/ Goto(t, "lookRead") \/ Goto(t, "scanParent"))
    BY <1>9 DEF VisitLeaf, At, ToSplit
  <2> QED
    BY <1>6, <2>1
<1>10. CASE CheckInner(t)
  BY <1>5, <1>6, <1>10 DEF CheckInner, At
<1>11. CASE LookupRead(t) \/ LookupParent(t) \/ LookupNode(t) \/ ScanParent(t)
  BY <1>5, <1>6, <1>11 DEF LookupRead, LookupParent, LookupNode, ScanParent, At
<1>12. ASSUME NEW l, l \in {"rootCheck", "visit", "scanRead"}, Goto(t, l),
              vnode' = [vnode EXCEPT ![t] = version[node[t]]],
              Readable(version[node[t]]), UNCHANGED <<node, parent, vparent>>,
              l # "scanRead" => pc[t] \in {"rootRead", "childRead"},
              pc[t] \notin {"idle", "start"}
       PROVE  Others(t) /\ KnowsVersions(t)' /\ \A m \in Node : ~Holds(t, m)'
  <2>1. version[node[t]] \in Nat
    BY <1>12, Standing DEF TInv, Placed, TypeOK, TreeOK
  <2>2. /\ Others(t) /\ pc'[t] = l
        /\ node'[t] = node[t] /\ vnode'[t] = version[node[t]]
        /\ parent'[t] = parent[t] /\ vparent'[t] = vparent[t]
    BY <1>12, <2>1, NoteStep
  <2>3. ~HoldsNode(t)' /\ ~HoldsParent(t)'
    BY <1>12, <2>2 DEF HoldsNode, HoldsParent
  <2> QED
    BY <1>4, <1>12, <2>2, <2>3, FreeKnows DEF Readable
<1>13. CASE ReadRoot(t) \/ ReadChild(t) \/ ScanLock(t)
  BY <1>5, <1>12, <1>13 DEF ReadRoot, ReadChild, ScanLock, At
<1>14. CASE LoadRoot(t)
  <2>1. Others(t) /\ pc'[t] = "rootRead" /\ parent'[t] = parent[t] /\ vparent'[t] = vparent[t]
    BY <1>14 DEF LoadRoot, Others, Goto, TInv, TypeOK, CursorOK
  <2>2. ~HoldsNode(t)' /\ ~HoldsParent(t)'
    BY <2>1 DEF HoldsNode, HoldsParent
  <2> QED
    BY <1>4, <1>14, <2>1, <2>2, FreeKnows DEF LoadRoot, At
<1>15. CASE Step(t)
  <2>1. CASE ~Restart(t)
    <3>1. Others(t) /\ pc'[t] = "checkInner" /\ vparent'[t] = vnode[t]
      BY <1>15, <2>1 DEF Step, Others, Goto, TInv, TypeOK, CursorOK
    <3>2. ~HoldsNode(t)' /\ ~HoldsParent(t)'
      BY <3>1 DEF HoldsNode, HoldsParent
    <3> QED
      BY <1>4, <1>15, <3>1, <3>2, FreeKnows DEF Step, At
  <2> QED
    BY <1>5, <2>1
<1>16. CASE ScanRead(t)
  <2>1. Others(t) /\ pc'[t] = "scanCheck"
    BY <1>16 DEF ScanRead, Others, Goto, TInv, TypeOK, CursorOK
  <2>2. ~HoldsNode(t)' /\ ~HoldsParent(t)'
    BY <2>1 DEF HoldsNode, HoldsParent
  <2> QED
    BY <2>1, <2>2, FreeKnows
<1>17. CASE ScanCheck(t)
  <2>1. CASE ~Restart(t) /\ ~Return(t)
    <3>1. Others(t) /\ pc'[t] = "scanLock"
      BY <1>17, <2>1 DEF ScanCheck, Others, Goto, TInv, TypeOK, CursorOK
    <3>2. ~HoldsNode(t)' /\ ~HoldsParent(t)'
      BY <3>1 DEF HoldsNode, HoldsParent
    <3> QED
      BY <3>1, <3>2, FreeKnows
  <2> QED
    BY <1>5, <2>1
<1> QED
  BY <1>7, <1>8, <1>9, <1>10, <1>11, <1>13, <1>14, <1>15, <1>16, <1>17 DEF ReadPath

\* Calls start without a lock.
LEMMA CallEffect ==
    ASSUME TInv, LInv, NEW t \in Thread, BulkInsert(t) \/ Call(t)
    PROVE  Keeps(t)
<1>1. PICK o : Begin(t, o)
  BY DEF BulkInsert, Call
<1>2. pc[t] = "idle" /\ Goto(t, "start") /\ UNCHANGED cursor /\ version' = version
  BY <1>1 DEF Begin, At, tree
<1>3. /\ Others(t) /\ pc'[t] = "start"
      /\ node'[t] = node[t] /\ vnode'[t] = vnode[t]
      /\ parent'[t] = parent[t] /\ vparent'[t] = vparent[t]
  BY <1>2, JumpStep
<1>4. parent[t] # Null => ~Locked(vparent[t])
  BY <1>2 DEF LInv, KnowsVersions
<1>5. ~HoldsNode(t)' /\ ~HoldsParent(t)'
  BY <1>3 DEF HoldsNode, HoldsParent
<1>6. KnowsVersions(t)' /\ \A m \in Node : ~Holds(t, m)'
  BY <1>3, <1>4, <1>5, FreeKnows
<1>7. Effect(t)
  BY <1>2, <1>6, HoldsBy DEF Effect, Quiet
<1> QED
  BY <1>3, <1>6, <1>7 DEF Keeps

\* The primed form of HoldsBy.
LEMMA HoldsByNext ==
    ASSUME NEW t \in Thread, NEW m \in Node
    PROVE  /\ pc'[t] \notin {"splitNode", "split", "splitDone", "dropParent", "dropNode",
                            "leafValidate", "leafInsert", "leafUnlock"} => ~Holds(t, m)'
           /\ pc'[t] \in {"split", "splitDone"} =>
                 (Holds(t, m)' <=> m = node'[t] \/ m = parent'[t])
           /\ pc'[t] \in {"splitNode", "dropParent"} => (Holds(t, m)' <=> m = parent'[t])
           /\ pc'[t] \in {"dropNode", "leafValidate", "leafInsert", "leafUnlock"} =>
                 (Holds(t, m)' <=> m = node'[t])
<1>1. m # Null
  BY BoundAssumption DEF Node
<1> QED
  BY <1>1 DEF Holds, HoldsNode, HoldsParent

\* The steps that take a lock.
LEMMA LockEffect ==
    ASSUME TInv, LInv, NEW t \in Thread,
           SplitLockParent(t) \/ SplitLockNode(t) \/ LeafLock(t)
    PROVE  Keeps(t)
<1>0. /\ node[t] # Null /\ node[t] \in Node
      /\ parent[t] # Null => parent[t] \in Node
      /\ version \in [Node -> Nat] /\ vnode[t] \in Nat /\ vparent[t] \in Nat
  BY Standing DEF SplitLockParent, SplitLockNode, LeafLock, At, TInv, Placed,
                  TypeOK, TreeOK, CursorOK
<1>1. CASE SplitLockParent(t)
  <2>1. pc[t] = "splitParent" /\ parent[t] \in Node /\ ~Locked(vparent[t]) /\ ~Locked(vnode[t])
    BY <1>0, <1>1 DEF SplitLockParent, At, TInv, Placed, LInv, KnowsVersions
  <2>2. CASE CanUpgrade(parent[t], vparent[t])
    <3>1. version' = [version EXCEPT ![parent[t]] = @ + 2] /\ version[parent[t]] = vparent[t]
      BY <1>1, <2>2 DEF SplitLockParent, CanUpgrade, Upgrade
    <3>2. /\ Others(t) /\ pc'[t] = "splitNode"
          /\ node'[t] = node[t] /\ vnode'[t] = vnode[t]
          /\ parent'[t] = parent[t] /\ vparent'[t] = vparent[t] + 2
      BY <1>1, <2>2 DEF SplitLockParent, Others, Goto, TInv, TypeOK, CursorOK
    <3>3. Locks(t, parent[t])
      BY <2>1, <3>1, <3>2, HoldsBy, HoldsByNext DEF Locks
    <3>4. version'[parent[t]] = vparent[t] + 2 /\ Locked(vparent[t] + 2)
      BY <1>0, <2>1, <3>1, LockFlips
    <3>5. KnowsVersions(t)'
      BY <2>1, <3>2, <3>4 DEF KnowsVersions, HoldsNode, HoldsParent
    <3> QED
      BY <2>1, <3>2, <3>3, <3>5 DEF Keeps, Effect
  <2>3. CASE ~CanUpgrade(parent[t], vparent[t])
    <3>1. Restart(t) /\ version' = version
      BY <1>1, <2>3 DEF SplitLockParent
    <3> QED
      BY <2>1, <3>1, ForgetStep, HoldsBy DEF Restart, Keeps, Effect, Quiet
  <2> QED
    BY <2>2, <2>3
<1>2. CASE SplitLockNode(t)
  <2>1. /\ pc[t] = "splitNode" /\ ~Locked(vnode[t])
        /\ parent[t] # Null => version[parent[t]] = vparent[t] /\ Locked(vparent[t])
    BY <1>2 DEF SplitLockNode, At, LInv, KnowsVersions, HoldsParent
  <2>2. CASE CanUpgrade(node[t], vnode[t])
    <3>1. version' = [version EXCEPT ![node[t]] = @ + 2] /\ version[node[t]] = vnode[t]
      BY <1>2, <2>2 DEF SplitLockNode, CanUpgrade, Upgrade
    <3>2. /\ Others(t)
          /\ pc'[t] = "split" \/ (pc'[t] = "dropNode" /\ parent[t] = Null)
          /\ node'[t] = node[t] /\ vnode'[t] = vnode[t] + 2
          /\ parent'[t] = parent[t] /\ vparent'[t] = vparent[t]
      BY <1>2, <2>2 DEF SplitLockNode, NewParent, Others, Goto, TInv, TypeOK, CursorOK
    <3>3. Locks(t, node[t])
      <4>1. \A m \in Node : m # Null
        BY BoundAssumption DEF Node
      <4>2. \A m \in Node : Holds(t, m) <=> m = parent[t]
        BY <2>1, HoldsBy
      <4>3. CASE pc'[t] = "split"
        <5>1. \A m \in Node : Holds(t, m)' <=> m = node[t] \/ m = parent[t]
          BY <3>2, <4>3, HoldsByNext
        <5> QED
          BY <2>1, <3>1, <4>2, <5>1 DEF Locks
      <4>4. CASE pc'[t] = "dropNode" /\ parent[t] = Null
        <5>1. \A m \in Node : Holds(t, m)' <=> m = node[t]
          BY <3>2, <4>4, HoldsByNext
        <5> QED
          BY <2>1, <3>1, <4>1, <4>2, <4>4, <5>1 DEF Locks
      <4> QED
        BY <3>2, <4>3, <4>4
    <3>4. version'[node[t]] = vnode[t] + 2 /\ Locked(vnode[t] + 2)
      BY <1>0, <2>1, <3>1, LockFlips
    <3>5. parent[t] # Null => node[t] # parent[t] /\ version'[parent[t]] = version[parent[t]]
      BY <1>0, <2>1, <3>1
    <3>6. KnowsVersions(t)'
      BY <2>1, <3>2, <3>4, <3>5 DEF KnowsVersions, HoldsNode, HoldsParent
    <3> QED
      BY <1>0, <3>2, <3>3, <3>6 DEF Keeps, Effect
  <2>3. CASE ~CanUpgrade(node[t], vnode[t]) /\ parent[t] = Null
    <3>1. Restart(t) /\ version' = version
      BY <1>2, <2>3 DEF SplitLockNode, GiveUp
    <3>2. \A m \in Node : ~Holds(t, m)
      <4>1. \A m \in Node : m # Null
        BY BoundAssumption DEF Node
      <4>2. \A m \in Node : Holds(t, m) <=> m = parent[t]
        BY <2>1, HoldsBy
      <4> QED
        BY <2>3, <4>1, <4>2
    <3> QED
      BY <2>1, <3>1, <3>2, ForgetStep DEF Restart, Keeps, Effect, Quiet
  <2>4. CASE ~CanUpgrade(node[t], vnode[t]) /\ parent[t] # Null
    <3>1. Goto(t, "dropParent") /\ UNCHANGED cursor /\ version' = version
      BY <1>2, <2>4 DEF SplitLockNode, GiveUp
    <3>2. /\ Others(t) /\ pc'[t] = "dropParent"
          /\ node'[t] = node[t] /\ vnode'[t] = vnode[t]
          /\ parent'[t] = parent[t] /\ vparent'[t] = vparent[t]
      BY <3>1, JumpStep
    <3>3. KnowsVersions(t)'
      BY <2>1, <2>4, <3>1, <3>2 DEF KnowsVersions, HoldsNode, HoldsParent
    <3>4. Quiet(t)
      BY <2>1, <3>1, <3>2, HoldsBy, HoldsByNext DEF Quiet
    <3> QED
      BY <3>2, <3>3, <3>4 DEF Keeps, Effect
  <2> QED
    BY <2>2, <2>3, <2>4
<1>3. CASE LeafLock(t)
  <2>1. /\ pc[t] = "leafLock" /\ ~Locked(vnode[t])
    BY <1>3 DEF LeafLock, At, LInv, KnowsVersions
  <2>2. CASE CanUpgrade(node[t], vnode[t])
    <3>1. version' = [version EXCEPT ![node[t]] = @ + 2] /\ version[node[t]] = vnode[t]
      BY <1>3, <2>2 DEF LeafLock, CanUpgrade, Upgrade
    <3>2. /\ Others(t) /\ pc'[t] = "leafValidate"
          /\ node'[t] = node[t] /\ vnode'[t] = vnode[t] + 2
          /\ parent'[t] = parent[t] /\ vparent'[t] = vparent[t]
      BY <1>3, <2>2 DEF LeafLock, Others, Goto, TInv, TypeOK, CursorOK
    <3>3. Locks(t, node[t])
      BY <1>0, <2>1, <3>1, <3>2, HoldsBy, HoldsByNext DEF Locks
    <3>4. version'[node[t]] = vnode[t] + 2 /\ Locked(vnode[t] + 2)
      BY <1>0, <2>1, <3>1, LockFlips
    <3>5. KnowsVersions(t)'
      BY <3>2, <3>4 DEF KnowsVersions, HoldsNode, HoldsParent
    <3> QED
      BY <1>0, <3>2, <3>3, <3>5 DEF Keeps, Effect
  <2>3. CASE ~CanUpgrade(node[t], vnode[t])
    <3>1. Restart(t) /\ version' = version
      BY <1>3, <2>3 DEF LeafLock
    <3> QED
      BY <2>1, <3>1, ForgetStep, HoldsBy DEF Restart, Keeps, Effect, Quiet
  <2> QED
    BY <2>2, <2>3
<1> QED
  BY <1>1, <1>2, <1>3

\* The steps taken under locks: none is taken or released.
LEMMA InsideEffect ==
    ASSUME TInv, LInv, NEW t \in Thread,
           \/ SplitLeaf(t) \/ SplitInner(t)
           \/ LeafValidate(t) \/ LeafInsert(t)
    PROVE  Keeps(t)
<1>1. version' = version /\ UNCHANGED cursor
  BY DEF SplitLeaf, SplitInner, LeafValidate, LeafInsert, tree
<1>2. PICK l : /\ Goto(t, l)
               /\ \/ pc[t] = "split" /\ l = "dropNode" /\ parent[t] = Null
                  \/ pc[t] = "split" /\ l = "splitDone"
                  \/ pc[t] = "leafValidate" /\ l \in {"dropNode", "leafInsert"}
                  \/ pc[t] = "leafInsert" /\ l = "leafUnlock"
  BY DEF SplitLeaf, SplitInner, LeafValidate, LeafInsert, At
<1>3. /\ Others(t) /\ pc'[t] = l
      /\ node'[t] = node[t] /\ vnode'[t] = vnode[t]
      /\ parent'[t] = parent[t] /\ vparent'[t] = vparent[t]
  BY <1>1, <1>2, JumpStep
<1>4. /\ version[node[t]] = vnode[t] /\ Locked(vnode[t])
      /\ pc[t] = "split" /\ parent[t] # Null =>
            /\ version[parent[t]] = vparent[t] /\ Locked(vparent[t])
            /\ node[t] # parent[t]
  BY <1>2 DEF LInv, KnowsVersions, HoldsNode, HoldsParent
<1>5. KnowsVersions(t)'
  BY <1>1, <1>2, <1>3, <1>4 DEF KnowsVersions, HoldsNode, HoldsParent
<1>6. Quiet(t)
  <2> SUFFICES ASSUME NEW m \in Node PROVE Holds(t, m)' <=> Holds(t, m)
    BY <1>1 DEF Quiet
  <2>1. m # Null
    BY BoundAssumption DEF Node
  <2> QED
    BY <1>2, <1>3, <2>1, HoldsBy, HoldsByNext
<1> QED
  BY <1>3, <1>5, <1>6 DEF Keeps, Effect

\* The steps that release a lock.
LEMMA UnlockEffect ==
    ASSUME TInv, LInv, NEW t \in Thread,
           SplitUnlock(t) \/ DropParent(t) \/ DropNode(t) \/ LeafUnlock(t)
    PROVE  Keeps(t)
<1>0. node[t] # Null /\ node[t] \in Node /\ (parent[t] # Null => parent[t] \in Node)
  BY Standing DEF SplitUnlock, DropParent, DropNode, LeafUnlock, At, TInv, Placed
<1>1. CASE SplitUnlock(t)
  <2>1. pc[t] = "splitDone" /\ version' = [version EXCEPT ![node[t]] = @ + 2]
    BY <1>1 DEF SplitUnlock, WriteUnlock, At
  <2>2. CASE parent[t] = Null
    <3>1. Restart(t)
      BY <1>1, <2>2 DEF SplitUnlock
    <3>2. Others(t) /\ KnowsVersions(t)' /\ \A m \in Node : ~Holds(t, m)'
      BY <3>1, ForgetStep DEF Restart
    <3>3. \A m \in Node : Holds(t, m) <=> m = node[t]
      BY <2>1, <2>2, HoldsBy, BoundAssumption DEF Node
    <3> QED
      BY <1>0, <2>1, <3>2, <3>3 DEF Keeps, Effect, Unlocks
  <2>3. CASE parent[t] # Null
    <3>1. Goto(t, "dropParent") /\ UNCHANGED cursor
      BY <1>1, <2>3 DEF SplitUnlock
    <3>2. /\ Others(t) /\ pc'[t] = "dropParent"
          /\ node'[t] = node[t] /\ vnode'[t] = vnode[t]
          /\ parent'[t] = parent[t] /\ vparent'[t] = vparent[t]
      BY <3>1, JumpStep
    <3>3. /\ version[parent[t]] = vparent[t] /\ Locked(vparent[t])
          /\ node[t] # parent[t]
      BY <2>1, <2>3 DEF LInv, KnowsVersions, HoldsNode, HoldsParent
    <3>4. version'[parent[t]] = version[parent[t]]
      BY <1>0, <2>1, <2>3, <3>3 DEF TInv, TypeOK, TreeOK
    <3>5. KnowsVersions(t)'
      BY <3>2, <3>3, <3>4 DEF KnowsVersions, HoldsNode, HoldsParent
    <3>6. Unlocks(t, node[t])
      BY <1>0, <2>1, <3>2, <3>3, HoldsBy, HoldsByNext DEF Unlocks
    <3> QED
      BY <1>0, <3>2, <3>5, <3>6 DEF Keeps, Effect
  <2> QED
    BY <2>2, <2>3
<1>2. CASE DropParent(t)
  <2>1. /\ pc[t] = "dropParent" /\ version' = [version EXCEPT ![parent[t]] = @ + 2]
        /\ Restart(t) /\ parent[t] \in Node
    BY <1>0, <1>2 DEF DropParent, WriteUnlock, At, TInv, Placed
  <2>2. Others(t) /\ KnowsVersions(t)' /\ \A m \in Node : ~Holds(t, m)'
    BY <2>1, ForgetStep DEF Restart
  <2>3. Unlocks(t, parent[t])
    BY <2>1, <2>2, HoldsBy DEF Unlocks
  <2> QED
    BY <2>1, <2>2, <2>3 DEF Keeps, Effect
<1>3. CASE DropNode(t) \/ LeafUnlock(t)
  <2>1. /\ pc[t] \in {"dropNode", "leafUnlock"}
        /\ version' = [version EXCEPT ![node[t]] = @ + 2]
        /\ Restart(t) \/ Return(t)
    BY <1>3 DEF DropNode, LeafUnlock, WriteUnlock, At
  <2>2. Others(t) /\ KnowsVersions(t)' /\ \A m \in Node : ~Holds(t, m)'
    BY <2>1, ForgetStep DEF Restart, Return
  <2>3. Unlocks(t, node[t])
    BY <1>0, <2>1, <2>2, HoldsBy DEF Unlocks
  <2> QED
    BY <1>0, <2>2, <2>3 DEF Keeps, Effect
<1> QED
  BY <1>1, <1>2, <1>3

-----------------------------------------------------------------------------
(* Exclusion.                                                              *)

\* Before the first call nothing is locked.
LEMMA InitLInv == Init => LInv
<1> SUFFICES ASSUME Init PROVE LInv
  OBVIOUS
<1>1. ~Locked(4) /\ ~Obsolete(4)
  BY DEF Locked, Obsolete
<1>2. \A t \in Thread : ~HoldsNode(t) /\ ~HoldsParent(t) /\ parent[t] = Null /\ pc[t] = "idle"
  BY DEF Init, HoldsNode, HoldsParent
<1>3. \A t \in Thread : KnowsVersions(t)
  BY <1>2 DEF KnowsVersions
<1>4. WriteLockExclusive
  BY <1>1, <1>2 DEF Init, InitVersion, WriteLockExclusive, Holds
<1> QED
  BY <1>3, <1>4 DEF LInv

\* Every step of the tree has one of the effects.
LEMMA StepEffect ==
    ASSUME TInv, LInv, NEW t \in Thread, BulkInsert(t) \/ Call(t) \/ Run(t)
    PROVE  Keeps(t)
  BY FreeEffect, CallEffect, LockEffect, InsideEffect, UnlockEffect
     DEF Run, Descend, SplitPath, LeafPath, ReadPath

\* Every step preserves the lock invariant.
LEMMA NextLInv == TInv /\ LInv /\ [Next]_vars => LInv'
<1> SUFFICES ASSUME TInv, LInv, [Next]_vars PROVE LInv'
  OBVIOUS
<1>1. CASE UNCHANGED vars
  <2>1. /\ version' = version /\ pc' = pc /\ node' = node /\ vnode' = vnode
        /\ parent' = parent /\ vparent' = vparent
    BY <1>1 DEF vars, tree, cursor
  <2>2. WriteLockExclusive'
    <3>1. \A t \in Thread, n \in Node : Holds(t, n)' <=> Holds(t, n)
      BY <2>1 DEF Holds, HoldsNode, HoldsParent
    <3> QED
      BY <2>1, <3>1 DEF LInv, WriteLockExclusive
  <2>3. \A t \in Thread : KnowsVersions(t)'
    BY <2>1 DEF LInv, KnowsVersions, HoldsNode, HoldsParent
  <2> QED
    BY <2>2, <2>3 DEF LInv
<1>2. ASSUME NEW t \in Thread, BulkInsert(t) \/ Call(t) \/ Run(t) PROVE LInv'
  BY <1>2, StepEffect, EffectKeeps DEF Keeps
<1> QED
  BY <1>1, <1>2 DEF Next

\* Write locks exclude: for any number of threads and any node sizes, the
\* lock bit of a node's version is set exactly while one thread is between
\* upgradeToWriteLockOrRestart and writeUnlock on that node.
THEOREM LocksExclude == Spec => []WriteLockExclusive
<1>1. LInv => WriteLockExclusive
  BY DEF LInv
<1> QED
  BY <1>1, InitTInv, NextTInv, InitLInv, NextLInv, PTL DEF Spec

-----------------------------------------------------------------------------
(* Stability of unlocked nodes.                                            *)

\* Node n is as it was before the step.
Same(n) == /\ data'[n] = data[n] /\ kid'[n] = kid[n]
           /\ next'[n] = next[n] /\ type'[n] = type[n]

\* parent->insert and makeRoot write the parent, which t holds, and nodes
\* that have just been allocated.
LEMMA LinkWrites ==
    ASSUME TInv, NEW t \in Thread, pc[t] = "split", used < MaxNodes,
           NEW sep, NEW kids, DOMAIN kids = Node, Link(t, sep, used + 1, kids),
           NEW n \in 1 .. used, ~Holds(t, n)
    PROVE  kid'[n] = kids[n] /\ type'[n] = type[n]
<1>1. /\ used \in Nat /\ MaxNodes \in Nat /\ n \in Node
      /\ n # used + 1 /\ n # used + 1 + 1 /\ DOMAIN type = Node
  <2>1. used \in 1 .. MaxNodes /\ MaxNodes \in Nat /\ DOMAIN type = Node
    BY BoundAssumption DEF TInv, TypeOK, TreeOK, Node
  <2>2. used \in Nat /\ n \in Node /\ n # used + 1 /\ n # used + 1 + 1
    BY <2>1 DEF Node
  <2> QED
    BY <2>1, <2>2
<1>2. CASE parent[t] # Null
  <2>1. n # parent[t]
    BY <1>1, HoldsBy
  <2> QED
    BY <1>1, <1>2, <2>1 DEF Link
<1>3. CASE parent[t] = Null
  BY <1>1, <1>3 DEF Link
<1> QED
  BY <1>2, <1>3

\* A step of t changes no allocated node but those t holds, and the type of
\* none.
LEMMA StepWrites ==
    ASSUME TInv, NEW t \in Thread, BulkInsert(t) \/ Call(t) \/ Run(t),
           NEW n \in 1 .. used, ~Holds(t, n)
    PROVE  Same(n)
<1>0. /\ used \in Nat /\ MaxNodes \in Nat /\ n \in Node /\ n # used + 1
      /\ DOMAIN kid = Node /\ DOMAIN data = Node /\ DOMAIN next = Node
  <2>1. /\ used \in 1 .. MaxNodes /\ MaxNodes \in Nat
        /\ DOMAIN kid = Node /\ DOMAIN data = Node /\ DOMAIN next = Node
    BY BoundAssumption DEF TInv, TypeOK, TreeOK, Node
  <2>2. used \in Nat /\ n \in Node /\ n # used + 1
    BY <2>1 DEF Node
  <2> QED
    BY <2>1, <2>2
<1>1. CASE UNCHANGED contents
  BY <1>1 DEF contents, Same
<1>2. CASE LeafInsert(t)
  <2>1. n # node[t]
    BY <1>0, <1>2, HoldsBy DEF LeafInsert, At
  <2> QED
    BY <1>0, <1>2, <2>1 DEF LeafInsert, Same
<1>3. CASE SplitLeaf(t)
  <2>1. /\ pc[t] = "split" /\ used < MaxNodes
        /\ data'[n] = data[n] /\ next'[n] = next[n]
        /\ \E sep : Link(t, sep, used + 1, kid)
    <3>1. n # node[t]
      BY <1>0, <1>3, HoldsBy DEF SplitLeaf, At
    <3> QED
      BY <1>0, <1>3, <3>1 DEF SplitLeaf, At, Chained
  <2> QED
    BY <1>0, <2>1, LinkWrites DEF Same
<1>4. CASE SplitInner(t)
  <2>0. n # node[t] /\ pc[t] = "split" /\ used < MaxNodes
    BY <1>0, <1>4, HoldsBy DEF SplitInner, At
  <2>1. PICK f, g, sep :
          Link(t, sep, used + 1, [kid EXCEPT ![node[t]] = f, ![used + 1] = g])
    BY <1>4 DEF SplitInner
  <2> DEFINE kids == [kid EXCEPT ![node[t]] = f, ![used + 1] = g]
  <2>2. DOMAIN kids = Node /\ kids[n] = kid[n]
    BY <1>0, <2>0
  <2>3. kid'[n] = kids[n] /\ type'[n] = type[n]
    <3> HIDE DEF kids
    <3>1. Link(t, sep, used + 1, kids)
      BY <2>1 DEF kids
    <3> QED
      BY <2>0, <2>2, <3>1, LinkWrites
  <2> QED
    BY <1>4, <2>2, <2>3 DEF SplitInner, Same
<1> QED
  BY <1>1, <1>2, <1>3, <1>4
     DEF Run, Descend, SplitPath, LeafPath, ReadPath, contents, tree, BulkInsert, Call,
         Begin, LoadRoot, ReadRoot, CheckRoot, VisitInner, VisitLeaf, Step, CheckInner,
         ReadChild, SplitLockParent, SplitLockNode, SplitUnlock,
         DropParent, DropNode, LeafLock, LeafValidate, LeafUnlock, LookupRead,
         LookupParent, LookupNode, ScanParent, ScanLock, ScanRead, ScanCheck

\* What a reader noted stays what it noted: no step changes an allocated node
\* whose lock is free.
THEOREM ReadersSeeStableNodes == Spec => UnlockedNodesStable
<1> DEFINE Stable == \A n \in 1 .. used :
                        version'[n] = version[n] /\ ~Locked(version[n]) =>
                           /\ data'[n] = data[n] /\ kid'[n] = kid[n]
                           /\ next'[n] = next[n] /\ type'[n] = type[n]
<1>1. TInv /\ LInv /\ [Next]_vars => [Stable]_vars
  <2> SUFFICES ASSUME TInv, LInv, NEW t \in Thread, BulkInsert(t) \/ Call(t) \/ Run(t),
                      NEW n \in 1 .. used, ~Locked(version[n])
               PROVE  Same(n)
    BY DEF Next, Same
  <2>1. n \in Node
    BY BoundAssumption DEF TInv, TypeOK, TreeOK, Node
  <2>2. ~Holds(t, n)
    BY <2>1 DEF LInv, WriteLockExclusive
  <2> QED
    BY <2>2, StepWrites
<1> QED
  BY <1>1, InitTInv, NextTInv, InitLInv, NextLInv, PTL DEF Spec, UnlockedNodesStable

=============================================================================
