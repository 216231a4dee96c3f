----------------------- MODULE EpochReclamation_proofs -----------------------
(***************************************************************************)
(* Proof that the epochs of ALEX+ protect every pointer of an operation as *)
(* long as threads publish their epochs in time, for any number of threads *)
(* and nodes and any batch size.                                           *)
(***************************************************************************)
EXTENDS EpochReclamation, TLAPS

-----------------------------------------------------------------------------
(* The inductive invariant.                                                *)

\* The thread's variables agree with where it is: inside the guard it has
\* published the epoch it loaded, outside it has no pointer.
Placed(t) ==
    /\ pc[t] \in {"out", "enter", "publish"} => local[t] = Outside /\ held[t] = Null
    /\ pc[t] \in {"ask", "advance", "in"} => local[t] = seen[t]
    /\ pc[t] \in {"publish", "ask", "advance", "in"} => accessed[t] = seen[t]
    /\ \A e \in Epoch : list[t][e] \subseteq 1 .. used

\* While the epoch is the one t wants to leave, the threads t has asked are
\* not in the epoch before it.
Asked(t) ==
    pc[t] \in {"ask", "advance"} /\ epoch = seen[t] =>
        \A u \in Thread : pc[t] = "advance" \/ u \notin unasked[t]
                             => local[u] # PreviousEpoch(seen[t])

\* u has a pointer to a node in t's list of epoch e: the epoch cannot come
\* round to e before u leaves, unless it still is e and t has not left it.
Guarded(t, u, e) ==
    held[u] \in list[t][e] =>
        /\ \/ epoch = e /\ local[u] \in {e, PreviousEpoch(e)} /\ accessed[t] = e
           \/ epoch = NextEpoch(e) /\ local[u] \in {e, NextEpoch(e)}
           \/ epoch = PreviousEpoch(e) /\ local[u] = NextEpoch(e)
        /\ pc[t] = "enter" => (seen[t] = e => accessed[t] = e)
        /\ pc[t] = "enter" => (seen[t] # e => epoch # e)

InTime == /\ \A t \in Thread : local[t] \in {Outside, epoch, PreviousEpoch(epoch)}
          /\ \A t \in Thread : Asked(t)
          /\ \A t, u \in Thread, e \in Epoch : Guarded(t, u, e)
          /\ NoUseAfterFree

EInv == /\ TypeOK /\ FreedOnce
        /\ \A t \in Thread : Placed(t)
        /\ ~late => InTime

-----------------------------------------------------------------------------
(* Arithmetic of epochs.                                                   *)

\* The three epochs form a cycle, and Outside is none of them.
LEMMA Cycle ==
    \A e \in Epoch :
        /\ NextEpoch(e) \in Epoch /\ PreviousEpoch(e) \in Epoch
        /\ NextEpoch(e) # e /\ PreviousEpoch(e) # e /\ NextEpoch(e) # PreviousEpoch(e)
        /\ PreviousEpoch(NextEpoch(e)) = e /\ NextEpoch(PreviousEpoch(e)) = e
        /\ NextEpoch(NextEpoch(e)) = PreviousEpoch(e)
        /\ PreviousEpoch(PreviousEpoch(e)) = NextEpoch(e)
        /\ e # Outside
<1>1. \A e \in Epoch : e = 0 \/ e = 1 \/ e = 2
  BY DEF Epoch
<1> QED
  BY <1>1 DEF Epoch, NextEpoch, PreviousEpoch, Outside

-----------------------------------------------------------------------------
(* The parts that do not depend on time.                                   *)

\* At the start the tree is linked and the lists are empty.
LEMMA InitEInv == Init => EInv
<1> SUFFICES ASSUME Init PROVE EInv
  OBVIOUS
<1>1. TypeOK
  <2>1. 0 \in Epoch /\ 0 \in Nat
    BY DEF Epoch
  <2>2. list \in [Thread -> [Epoch -> SUBSET Node]]
    BY DEF Init
  <2>3. used \in Nat /\ used <= MaxNodes /\ linked \subseteq 1 .. used
    BY EpochAssumption DEF Init
  <2> QED
    BY <2>1, <2>2, <2>3 DEF Init, TypeOK
<1>2. FreedOnce
  BY DEF Init, FreedOnce, Retired
<1>3. \A t \in Thread : Placed(t)
  BY DEF Init, Placed
<1>4. InTime
  BY DEF Init, InTime, Asked, Guarded, NoUseAfterFree
<1> QED
  BY <1>1, <1>2, <1>3, <1>4 DEF EInv

\* Replacing one of the lists by another set of nodes.
LEMMA ListTyped ==
    ASSUME NEW f \in [Thread -> [Epoch -> SUBSET Node]], NEW t \in Thread,
           NEW e \in Epoch, NEW S, S \subseteq Node
    PROVE  /\ [f EXCEPT ![t][e] = S] \in [Thread -> [Epoch -> SUBSET Node]]
           /\ \A u \in Thread, d \in Epoch :
                 [f EXCEPT ![t][e] = S][u][d] = IF u = t /\ d = e THEN S ELSE f[u][d]
<1> DEFINE g == [f EXCEPT ![t][e] = S]
<1>1. \A u \in Thread, d \in Epoch : g[u][d] = IF u = t /\ d = e THEN S ELSE f[u][d]
  OBVIOUS
<1>2. \A u \in Thread : g[u] \in [Epoch -> SUBSET Node]
  OBVIOUS
<1>3. g \in [Thread -> [Epoch -> SUBSET Node]]
  BY <1>2
<1> QED
  BY <1>1, <1>3

\* Every step keeps the types.
LEMMA NextTypeOK ==
    ASSUME TypeOK, \A v \in Thread : Placed(v), Next
    PROVE  TypeOK'
<1> PICK t \in Thread : \/ LoadEpoch(t) \/ FreeForEpoch(t) \/ Publish(t) \/ Ask(t)
                        \/ Advance(t) \/ Read(t) \/ Replace(t) \/ Leave(t)
  BY DEF Next
<1> USE DEF TypeOK, Goto
<1>1. CASE LoadEpoch(t)
  BY <1>1 DEF LoadEpoch, tree
<1>2. CASE FreeForEpoch(t)
  <2>1. freed' \subseteq 1 .. used
    BY <1>2 DEF FreeForEpoch, Placed
  <2>2. list' \in [Thread -> [Epoch -> SUBSET Node]]
    <3>1. list' = list \/ list' = [list EXCEPT ![t][seen[t]] = {}]
      BY <1>2 DEF FreeForEpoch
    <3>2. seen[t] \in Epoch /\ {} \subseteq Node
      OBVIOUS
    <3>3. list \in [Thread -> [Epoch -> SUBSET Node]]
      OBVIOUS
    <3>4. [list EXCEPT ![t][seen[t]] = {}] \in [Thread -> [Epoch -> SUBSET Node]]
      BY <3>2, <3>3, ListTyped
    <3> QED
      BY <3>1, <3>3, <3>4
  <2>3. /\ accessed' \in [Thread -> Epoch \cup {3}]
        /\ wants' \in [Thread -> BOOLEAN]
    <3>1. accessed' = accessed \/ accessed' = [accessed EXCEPT ![t] = seen[t]]
      BY <1>2 DEF FreeForEpoch
    <3>2. wants' = wants \/ wants' = [wants EXCEPT ![t] = FALSE]
      BY <1>2 DEF FreeForEpoch
    <3>3. accessed' \in [Thread -> Epoch \cup {3}]
      BY <3>1
    <3>4. wants' \in [Thread -> BOOLEAN]
      BY <3>2
    <3> QED
      BY <3>3, <3>4
  <2>4. pc' \in [Thread -> {"out", "enter", "publish", "ask", "advance", "in"}]
    BY <1>2 DEF FreeForEpoch
  <2> QED
    BY <1>2, <2>1, <2>2, <2>3, <2>4 DEF FreeForEpoch, tree
<1>3. CASE Publish(t)
  <2>1. /\ local' \in [Thread -> Epoch \cup {Outside}] /\ late' \in BOOLEAN
    BY <1>3 DEF Publish
  <2>2. /\ unasked' \in [Thread -> SUBSET Thread]
        /\ pc' \in [Thread -> {"out", "enter", "publish", "ask", "advance", "in"}]
    <3>1. unasked' = unasked \/ unasked' = [unasked EXCEPT ![t] = Thread]
      BY <1>3 DEF Publish
    <3>2. pc' = [pc EXCEPT ![t] = "ask"] \/ pc' = [pc EXCEPT ![t] = "in"]
      BY <1>3 DEF Publish
    <3>3. unasked' \in [Thread -> SUBSET Thread]
      BY <3>1
    <3>4. pc' \in [Thread -> {"out", "enter", "publish", "ask", "advance", "in"}]
      BY <3>2
    <3> QED
      BY <3>3, <3>4
  <2> QED
    BY <1>3, <2>1, <2>2 DEF Publish, tree
<1>4. CASE Ask(t)
  <2>1. unasked' \in [Thread -> SUBSET Thread]
    BY <1>4 DEF Ask
  <2>2. pc' \in [Thread -> {"out", "enter", "publish", "ask", "advance", "in"}]
    BY <1>4 DEF Ask
  <2> QED
    BY <1>4, <2>1, <2>2 DEF Ask, tree
<1>5. CASE Advance(t)
  BY <1>5, Cycle DEF Advance, tree
<1>6. CASE Read(t)
  BY <1>6, EpochAssumption DEF Read, threads, Node
<1>7. CASE Replace(t)
  <2>1. PICK n \in linked \cap {held[t]} :
          /\ linked' = Unlinked(n, used + 1)
          /\ list' = [list EXCEPT ![t][local[t]] = @ \cup {n}]
          /\ wants' = [wants EXCEPT ![t] = (Cardinality(list[t][local[t]]) + 1) % Batch = 0]
    BY <1>7 DEF Replace
  <2>2. used' \in Nat /\ used' <= MaxNodes /\ used' = used + 1
    BY <1>7, EpochAssumption DEF Replace
  <2>3. linked' \subseteq 1 .. used'
    BY <2>1, <2>2 DEF Unlinked
  <2>4. freed' \subseteq 1 .. used'
    BY <1>7, <2>2 DEF Replace
  <2>5. n \in Node
    BY <2>1, EpochAssumption DEF Node
  <2>6. list' \in [Thread -> [Epoch -> SUBSET Node]]
    <3>1. local[t] \in Epoch
      BY <1>7, Placed(t) DEF Replace, Placed, At
    <3>2. list[t][local[t]] \cup {n} \subseteq Node
      BY <2>5, <3>1
    <3> QED
      BY <2>1, <3>1, <3>2, ListTyped
  <2>7. wants' \in [Thread -> BOOLEAN]
    BY <2>1
  <2> QED
    BY <1>7, <2>2, <2>3, <2>4, <2>6, <2>7 DEF Replace
<1>8. CASE Leave(t)
  BY <1>8 DEF Leave
<1> QED
  BY <1>1, <1>2, <1>3, <1>4, <1>5, <1>6, <1>7, <1>8

\* Every step keeps a thread's variables in agreement with where it is.
LEMMA NextPlaced ==
    ASSUME TypeOK, \A v \in Thread : Placed(v), Next, NEW u \in Thread
    PROVE  Placed(u)'
<1> PICK t \in Thread : \/ LoadEpoch(t) \/ FreeForEpoch(t) \/ Publish(t) \/ Ask(t)
                        \/ Advance(t) \/ Read(t) \/ Replace(t) \/ Leave(t)
  BY DEF Next
<1>0. Placed(u) /\ Placed(t)
  OBVIOUS
<1> USE DEF TypeOK, Placed, Goto, At
<1>1. CASE LoadEpoch(t)
  BY <1>0, <1>1 DEF LoadEpoch, tree
<1>2. CASE FreeForEpoch(t)
  <2>1. \A e \in Epoch : list'[u][e] \subseteq list[u][e]
    <3>1. CASE StaysIn(t)
      BY <1>2, <3>1 DEF FreeForEpoch
    <3>2. CASE ~StaysIn(t)
      <4>1. list' = [list EXCEPT ![t][seen[t]] = {}]
        BY <1>2, <3>2 DEF FreeForEpoch
      <4>2. seen[t] \in Epoch /\ {} \subseteq Node
        OBVIOUS
      <4> QED
        BY <4>1, <4>2, ListTyped
    <3> QED
      BY <3>1, <3>2
  <2>2. /\ UNCHANGED <<local, seen, held, used>>
        /\ pc' = [pc EXCEPT ![t] = "publish"] /\ pc[t] = "enter"
        /\ accessed'[t] = seen[t] /\ (u # t => accessed'[u] = accessed[u])
    BY <1>2 DEF FreeForEpoch, StaysIn, tree
  <2> QED
    BY <1>0, <2>1, <2>2
<1>3. CASE Publish(t)
  BY <1>0, <1>3 DEF Publish, tree
<1>4. CASE Ask(t)
  BY <1>0, <1>4 DEF Ask, tree
<1>5. CASE Advance(t)
  BY <1>0, <1>5 DEF Advance, tree
<1>6. CASE Read(t)
  BY <1>0, <1>6 DEF Read, threads
<1>7. CASE Replace(t)
  <2>1. /\ UNCHANGED <<local, accessed, pc, seen, held>> /\ used' = used + 1
        /\ \A e \in Epoch : list'[u][e] \subseteq list[u][e] \cup linked
    BY <1>7 DEF Replace
  <2>2. 1 .. used \subseteq 1 .. used'
    BY <2>1
  <2> QED
    BY <1>0, <2>1, <2>2
<1>8. CASE Leave(t)
  BY <1>0, <1>8 DEF Leave
<1> QED
  BY <1>1, <1>2, <1>3, <1>4, <1>5, <1>6, <1>7, <1>8

\* A node changes its place only from the tree to a list and from a list to
\* the freed nodes.
LEMMA NextFreedOnce ==
    ASSUME TypeOK, FreedOnce, \A v \in Thread : Placed(v), Next
    PROVE  FreedOnce'
<1> PICK t \in Thread : \/ LoadEpoch(t) \/ FreeForEpoch(t) \/ Publish(t) \/ Ask(t)
                        \/ Advance(t) \/ Read(t) \/ Replace(t) \/ Leave(t)
  BY DEF Next
<1>0. list \in [Thread -> [Epoch -> SUBSET Node]] /\ seen[t] \in Epoch
  BY DEF TypeOK
<1>1. CASE UNCHANGED <<list, linked, freed>>
  BY <1>1 DEF FreedOnce, Retired
<1>2. CASE FreeForEpoch(t) /\ ~StaysIn(t)
  <2>1. /\ freed' = freed \cup list[t][seen[t]] /\ linked' = linked
        /\ list' = [list EXCEPT ![t][seen[t]] = {}]
    BY <1>2 DEF FreeForEpoch, tree
  <2>2. \A u \in Thread, e \in Epoch :
          list'[u][e] = IF u = t /\ e = seen[t] THEN {} ELSE list[u][e]
    <3>1. {} \subseteq Node
      OBVIOUS
    <3> QED
      BY <1>0, <2>1, <3>1, ListTyped
  <2> QED
    BY <1>0, <2>1, <2>2 DEF FreedOnce, Retired
<1>3. CASE Replace(t)
  <2>1. PICK n \in linked \cap {held[t]} :
          /\ linked' = (linked \ {n}) \cup {used + 1}
          /\ list' = [list EXCEPT ![t][local[t]] = @ \cup {n}]
    BY <1>3 DEF Replace, Unlinked
  <2>2. freed' = freed /\ local[t] \in Epoch
    BY <1>0, <1>3, Placed(t) DEF Replace, Placed, At
  <2>3. \A u \in Thread, e \in Epoch :
          list'[u][e] = IF u = t /\ e = local[t] THEN list[u][e] \cup {n} ELSE list[u][e]
    <3>1. list[t][local[t]] \cup {n} \subseteq Node
      BY <1>0, <2>1, <2>2, EpochAssumption DEF TypeOK, Node
    <3>2. PICK S : S = list[t][local[t]] \cup {n}
      OBVIOUS
    <3>3. list' = [list EXCEPT ![t][local[t]] = S] /\ S \subseteq Node
      BY <2>1, <3>1, <3>2
    <3>4. list \in [Thread -> [Epoch -> SUBSET Node]]
      BY <1>0 DEF TypeOK
    <3>5. \A u \in Thread, e \in Epoch :
            list'[u][e] = IF u = t /\ e = local[t] THEN S ELSE list[u][e]
      BY <2>2, <3>3, <3>4, ListTyped
    <3> QED
      BY <3>2, <3>5
  <2>4. /\ used + 1 \notin freed
        /\ \A u \in Thread, e \in Epoch : used + 1 \notin list[u][e]
        /\ n # used + 1
    BY <2>1 DEF TypeOK, Placed
  <2>5. n \notin freed /\ \A u \in Thread, e \in Epoch : n \notin list[u][e]
    BY <2>1 DEF FreedOnce, Retired
  <2> QED
    BY <2>1, <2>2, <2>3, <2>4, <2>5 DEF FreedOnce, Retired
<1> QED
  BY <1>1, <1>2, <1>3 DEF LoadEpoch, FreeForEpoch, Publish, Ask, Advance, Read, Leave,
                          threads, tree

-----------------------------------------------------------------------------
(* The parts that hold while epochs are published in time.                 *)

\* enterCriticalSection up to its store, and the operation's own steps.
LEMMA OwnInTime ==
    ASSUME EInv, ~late, NEW t \in Thread, LoadEpoch(t) \/ Read(t) \/ Leave(t)
    PROVE  InTime'
<1>0. /\ TypeOK /\ FreedOnce /\ InTime
      /\ UNCHANGED <<epoch, accessed, list, unasked, linked, freed>>
  BY DEF EInv, LoadEpoch, Read, Leave, threads, tree
<1>t. /\ local \in [Thread -> Epoch \cup {Outside}] /\ held \in [Thread -> Node \cup {Null}]
      /\ DOMAIN pc = Thread /\ seen \in [Thread -> Epoch]
  BY <1>0 DEF TypeOK
<1>1. \A v \in Thread : local'[v] \in {local[v], Outside}
  BY <1>t DEF LoadEpoch, Read, Leave, threads
<1>2. \A v \in Thread : local'[v] \in {Outside, epoch', PreviousEpoch(epoch')}
  BY <1>0, <1>1 DEF InTime
<1>h. \A v \in Thread : held'[v] \in {held[v], Null} \cup linked
  <2>1. \/ held' = held \/ held' = [held EXCEPT ![t] = Null]
        \/ \E n \in linked : held' = [held EXCEPT ![t] = n]
    BY DEF LoadEpoch, Read, Leave, tree
  <2> QED
    BY <1>t, <2>1
<1>n. Null \notin freed /\ \A n \in linked : n \notin freed
  <2>1. Null \notin freed
    BY <1>0 DEF TypeOK, Null
  <2> QED
    BY <1>0, <2>1 DEF FreedOnce
<1>3. NoUseAfterFree'
  BY <1>0, <1>h, <1>n DEF InTime, NoUseAfterFree
<1>4. ASSUME NEW v \in Thread PROVE Asked(v)'
  <2>1. pc'[v] \in {"ask", "advance"} => pc'[v] = pc[v] /\ seen'[v] = seen[v]
    BY <1>t DEF LoadEpoch, Read, Leave, threads, Goto
  <2>2. seen[v] \in Epoch /\ PreviousEpoch(seen[v]) # Outside
    BY <1>t, Cycle
  <2>3. Asked(v)
    BY <1>0 DEF InTime
  <2> QED
    BY <1>0, <1>1, <2>1, <2>2, <2>3 DEF Asked
<1>5. ASSUME NEW v \in Thread, NEW u \in Thread, NEW e \in Epoch PROVE Guarded(v, u, e)'
  <2> SUFFICES ASSUME held'[u] \in list[v][e] PROVE Guarded(v, u, e)'
    BY <1>0 DEF Guarded
  <2>1. held'[u] \notin linked
    BY <1>0 DEF FreedOnce, Retired
  <2>2. held'[u] # Null
    <3>1. list[v][e] \subseteq Node
      BY <1>0 DEF TypeOK
    <3> QED
      BY <3>1 DEF Node, Null
  <2>3. held'[u] = held[u]
    BY <1>h, <2>1, <2>2
  <2>4. local'[u] = local[u]
    BY <1>t, <2>2 DEF LoadEpoch, Read, Leave, threads
  <2>5. pc'[v] = "enter" => (pc[v] = "enter" /\ seen'[v] = seen[v]) \/ seen'[v] = epoch
    BY <1>t DEF LoadEpoch, Read, Leave, threads, Goto
  <2>6. Guarded(v, u, e) /\ epoch' = epoch /\ accessed' = accessed /\ list' = list
    BY <1>0 DEF InTime
  <2>7. epoch = e => accessed[v] = e
    BY <2>3, <2>6, Cycle DEF Guarded
  <2> QED
    BY <2>3, <2>4, <2>5, <2>6, <2>7 DEF Guarded
<1> QED
  BY <1>2, <1>3, <1>4, <1>5 DEF InTime

\* freeForEpoch: the list that is freed has no node somebody has a pointer to.
LEMMA FreeInTime ==
    ASSUME EInv, ~late, NEW t \in Thread, FreeForEpoch(t)
    PROVE  InTime'
<1>0. /\ TypeOK /\ InTime /\ Placed(t)
      /\ UNCHANGED <<epoch, local, seen, unasked, held>>
      /\ pc[t] = "enter" /\ pc' = [pc EXCEPT ![t] = "publish"]
  BY DEF EInv, FreeForEpoch, tree, At, Goto
<1>1. \A v \in Thread : pc'[v] = IF v = t THEN "publish" ELSE pc[v]
  BY <1>0 DEF TypeOK
<1>2. \A v \in Thread : local'[v] \in {Outside, epoch', PreviousEpoch(epoch')}
  BY <1>0 DEF InTime
<1>3. \A v \in Thread : Asked(v)'
  BY <1>0, <1>1 DEF InTime, Asked
<1>4. CASE StaysIn(t)
  <2>1. UNCHANGED <<accessed, list, freed>>
    BY <1>4 DEF FreeForEpoch
  <2>2. NoUseAfterFree'
    BY <1>0, <2>1 DEF InTime, NoUseAfterFree
  <2>3. ASSUME NEW v \in Thread, NEW u \in Thread, NEW e \in Epoch PROVE Guarded(v, u, e)'
    <3>1. Guarded(v, u, e) /\ (pc'[v] = "enter" => pc[v] = "enter")
      BY <1>0, <1>1 DEF InTime
    <3> QED
      BY <1>0, <2>1, <3>1 DEF Guarded
  <2> QED
    BY <1>2, <1>3, <2>2, <2>3 DEF InTime
<1>5. CASE ~StaysIn(t)
  <2>1. /\ freed' = freed \cup list[t][seen[t]] /\ accessed[t] # seen[t]
        /\ list' = [list EXCEPT ![t][seen[t]] = {}]
        /\ accessed' = [accessed EXCEPT ![t] = seen[t]]
    BY <1>5 DEF FreeForEpoch, StaysIn
  <2>2. seen[t] \in Epoch /\ list \in [Thread -> [Epoch -> SUBSET Node]] /\ {} \subseteq Node
    BY <1>0 DEF TypeOK
  <2>3. \A v \in Thread, e \in Epoch :
          list'[v][e] = IF v = t /\ e = seen[t] THEN {} ELSE list[v][e]
    BY <2>1, <2>2, ListTyped
  <2>4. \A v \in Thread : accessed'[v] = IF v = t THEN seen[t] ELSE accessed[v]
    BY <1>0, <2>1 DEF TypeOK
  <2>5. \A u \in Thread : held[u] \notin list[t][seen[t]]
    BY <1>0, <2>1, <2>2 DEF InTime, Guarded
  <2>6. NoUseAfterFree'
    BY <1>0, <2>1, <2>5 DEF InTime, NoUseAfterFree
  <2>7. ASSUME NEW v \in Thread, NEW u \in Thread, NEW e \in Epoch PROVE Guarded(v, u, e)'
    <3> SUFFICES ASSUME held[u] \in list'[v][e] PROVE Guarded(v, u, e)'
      BY <1>0 DEF Guarded
    <3>1. Guarded(v, u, e) /\ held[u] \in list[v][e] /\ ~(v = t /\ e = seen[t])
      BY <1>0, <2>3 DEF InTime
    <3>2. CASE v = t
      <4>1. epoch # e
        BY <1>0, <3>1, <3>2 DEF Guarded
      <4> QED
        BY <1>0, <1>1, <3>1, <3>2, <4>1 DEF Guarded
    <3>3. CASE v # t
      BY <1>0, <1>1, <2>4, <3>1, <3>3 DEF Guarded
    <3> QED
      BY <3>2, <3>3
  <2> QED
    BY <1>2, <1>3, <2>6, <2>7 DEF InTime
<1> QED
  BY <1>4, <1>5

\* The store of mLocalEpoch, in time.
LEMMA PublishInTime ==
    ASSUME EInv, ~late', NEW t \in Thread, Publish(t)
    PROVE  InTime'
<1>0. /\ TypeOK /\ InTime /\ Placed(t) /\ seen[t] = epoch /\ pc[t] = "publish"
      /\ UNCHANGED <<epoch, accessed, list, seen, held, freed>>
      /\ local' = [local EXCEPT ![t] = seen[t]]
  BY DEF EInv, Publish, tree, At
<1>1. /\ \A v \in Thread : v # t => pc'[v] = pc[v] /\ unasked'[v] = unasked[v]
      /\ pc'[t] \in {"ask", "in"} /\ (pc'[t] = "ask" => unasked'[t] = Thread)
  BY <1>0 DEF Publish, Goto, TypeOK
<1>2. \A v \in Thread : local'[v] = IF v = t THEN epoch ELSE local[v]
  BY <1>0 DEF TypeOK
<1>3. \A v \in Thread : local'[v] \in {Outside, epoch', PreviousEpoch(epoch')}
  BY <1>0, <1>2 DEF InTime
<1>4. ASSUME NEW v \in Thread PROVE Asked(v)'
  <2>1. CASE v = t
    BY <1>0, <1>1, <2>1 DEF Asked
  <2>2. CASE v # t
    <3>1. epoch # PreviousEpoch(epoch)
      BY <1>0, Cycle DEF TypeOK
    <3> QED
      BY <1>0, <1>1, <1>2, <2>2, <3>1 DEF InTime, Asked
  <2> QED
    BY <2>1, <2>2
<1>5. NoUseAfterFree'
  BY <1>0 DEF InTime, NoUseAfterFree
<1>6. ASSUME NEW v \in Thread, NEW u \in Thread, NEW e \in Epoch PROVE Guarded(v, u, e)'
  <2> SUFFICES ASSUME held[u] \in list[v][e] PROVE Guarded(v, u, e)'
    BY <1>0 DEF Guarded
  <2>1. u # t
    BY <1>0 DEF Placed, TypeOK, Node, Null
  <2>2. Guarded(v, u, e) /\ (v = t => pc'[v] # "enter")
    BY <1>0, <1>1 DEF InTime
  <2> QED
    BY <1>0, <1>1, <1>2, <2>1, <2>2 DEF Guarded
<1> QED
  BY <1>3, <1>4, <1>5, <1>6 DEF InTime

\* canAdvance finds that a thread is not in its way.
LEMMA AskInTime ==
    ASSUME EInv, ~late, NEW t \in Thread, Ask(t)
    PROVE  InTime'
<1>0. /\ TypeOK /\ InTime /\ Placed(t) /\ pc[t] = "ask"
      /\ UNCHANGED <<epoch, local, accessed, list, seen, held, freed>>
  BY DEF EInv, Ask, tree, At
<1>1. \A v \in Thread : v # t => pc'[v] = pc[v] /\ unasked'[v] = unasked[v]
  BY <1>0 DEF Ask, Goto, TypeOK
<1>2. /\ pc'[t] \in {"in", "ask", "advance"}
      /\ pc'[t] \in {"ask", "advance"} =>
            \E u \in unasked[t] : /\ local[u] # PreviousEpoch(seen[t])
                                  /\ unasked'[t] = unasked[t] \ {u}
                                  /\ pc'[t] = "advance" => unasked[t] = {u}
  BY <1>0 DEF Ask, Goto, Blocks, TypeOK
<1>3. ASSUME NEW v \in Thread PROVE Asked(v)'
  <2>0. Asked(v)
    BY <1>0 DEF InTime
  <2>1. CASE v = t
    BY <1>0, <1>2, <2>0, <2>1 DEF Asked
  <2>2. CASE v # t
    BY <1>0, <1>1, <2>0, <2>2 DEF Asked
  <2> QED
    BY <2>1, <2>2
<1>4. ASSUME NEW v \in Thread, NEW u \in Thread, NEW e \in Epoch PROVE Guarded(v, u, e)'
  <2>1. pc'[v] = "enter" => pc[v] = "enter"
    BY <1>1, <1>2
  <2>2. Guarded(v, u, e)
    BY <1>0 DEF InTime
  <2> QED
    BY <1>0, <2>1, <2>2 DEF Guarded
<1> QED
  BY <1>0, <1>3, <1>4 DEF InTime, NoUseAfterFree

\* The epoch advances only when no thread is in the epoch before it.
LEMMA AdvanceInTime ==
    ASSUME EInv, ~late, NEW t \in Thread, Advance(t)
    PROVE  InTime'
<1>0. /\ TypeOK /\ InTime /\ \A v \in Thread : Placed(v)
      /\ pc[t] = "advance"
      /\ UNCHANGED <<local, accessed, list, seen, unasked, held, freed>>
  BY DEF EInv, Advance, tree, At
<1>1. \A v \in Thread : pc'[v] = IF v = t THEN "in" ELSE pc[v]
  BY <1>0 DEF Advance, Goto, TypeOK
<1>2. NoUseAfterFree'
  BY <1>0 DEF InTime, NoUseAfterFree
<1>3. CASE epoch # seen[t]
  <2>1. epoch' = epoch
    BY <1>3 DEF Advance
  <2>2. ASSUME NEW v \in Thread PROVE Asked(v)'
    <3>1. Asked(v)
      BY <1>0 DEF InTime
    <3> QED
      BY <1>0, <1>1, <2>1, <3>1 DEF Asked
  <2>3. ASSUME NEW v \in Thread, NEW u \in Thread, NEW e \in Epoch PROVE Guarded(v, u, e)'
    <3>1. Guarded(v, u, e)
      BY <1>0 DEF InTime
    <3> QED
      BY <1>0, <1>1, <2>1, <3>1 DEF Guarded
  <2> QED
    BY <1>0, <1>2, <2>1, <2>2, <2>3 DEF InTime
<1>4. CASE epoch = seen[t]
  <2>1. epoch \in Epoch /\ epoch' = NextEpoch(epoch) /\ PreviousEpoch(epoch') = epoch
    BY <1>0, <1>4, Cycle DEF Advance, TypeOK
  <2>2. \A v \in Thread : local[v] \in {Outside, epoch}
    BY <1>0, <1>4 DEF InTime, Asked
  <2>3. \A v \in Thread : local'[v] \in {Outside, epoch', PreviousEpoch(epoch')}
    BY <1>0, <2>1, <2>2
  <2>4. ASSUME NEW v \in Thread PROVE Asked(v)'
    <3> SUFFICES ASSUME pc'[v] \in {"ask", "advance"}, epoch' = seen[v] PROVE FALSE
      BY <1>0 DEF Asked
    <3>1. local[v] = seen[v] /\ seen[v] \in Epoch
      BY <1>0, <1>1 DEF Placed, TypeOK
    <3>2. seen[v] = epoch
      BY <2>2, <3>1, Cycle
    <3> QED
      BY <2>1, <3>2, Cycle
  <2>5. ASSUME NEW v \in Thread, NEW u \in Thread, NEW e \in Epoch PROVE Guarded(v, u, e)'
    <3> SUFFICES ASSUME held[u] \in list[v][e] PROVE Guarded(v, u, e)'
      BY <1>0 DEF Guarded
    <3>1. Guarded(v, u, e)
      BY <1>0 DEF InTime
    <3>2. \/ epoch = e /\ local[u] = e
          \/ epoch = NextEpoch(e) /\ local[u] = NextEpoch(e)
      BY <2>1, <2>2, <3>1, Cycle DEF Guarded
    <3>3. \/ epoch' = NextEpoch(e) /\ local[u] = e
          \/ epoch' = PreviousEpoch(e) /\ local[u] = NextEpoch(e)
      BY <2>1, <3>2, Cycle
    <3>4. epoch' # e
      BY <3>3, Cycle
    <3>5. pc'[v] = "enter" => (seen[v] = e => accessed[v] = e)
      BY <1>1, <3>1 DEF Guarded
    <3> QED
      BY <1>0, <3>3, <3>4, <3>5 DEF Guarded
  <2> QED
    BY <1>2, <2>3, <2>4, <2>5 DEF InTime
<1> QED
  BY <1>3, <1>4

\* A node is retired into the list of the thread's epoch: whoever has a
\* pointer to it is in this epoch or in the one before.
LEMMA ReplaceInTime ==
    ASSUME EInv, ~late, NEW t \in Thread, Replace(t)
    PROVE  InTime'
<1>0. /\ TypeOK /\ InTime /\ \A v \in Thread : Placed(v)
      /\ pc[t] = "in"
      /\ UNCHANGED <<epoch, local, accessed, pc, seen, unasked, held, freed>>
  BY DEF EInv, Replace, At
<1>1. PICK n \in linked : list' = [list EXCEPT ![t][local[t]] = @ \cup {n}]
  BY DEF Replace
<1>2. /\ local[t] = seen[t] /\ accessed[t] = local[t] /\ local[t] \in Epoch
      /\ local[t] \in {epoch, PreviousEpoch(epoch)}
  <2>1. local[t] = seen[t] /\ accessed[t] = local[t] /\ local[t] \in Epoch
    BY <1>0 DEF Placed, TypeOK
  <2> QED
    BY <1>0, <2>1, Cycle DEF InTime
<1>3. \A v \in Thread, e \in Epoch :
        list'[v][e] = IF v = t /\ e = local[t] THEN list[t][e] \cup {n} ELSE list[v][e]
  <2>1. PICK S : S = list[t][local[t]] \cup {n}
    OBVIOUS
  <2>2. list' = [list EXCEPT ![t][local[t]] = S]
    BY <1>1, <2>1
  <2>3. list \in [Thread -> [Epoch -> SUBSET Node]] /\ n \in Node
    BY <1>0, EpochAssumption DEF TypeOK, Node
  <2>4. S \subseteq Node
    BY <1>2, <2>1, <2>3
  <2>5. \A v \in Thread, e \in Epoch :
          list'[v][e] = IF v = t /\ e = local[t] THEN S ELSE list[v][e]
    BY <1>2, <2>2, <2>3, <2>4, ListTyped
  <2> QED
    BY <2>1, <2>5
<1>4. \A v \in Thread : Asked(v)'
  BY <1>0 DEF InTime, Asked
<1>5. ASSUME NEW v \in Thread, NEW u \in Thread, NEW e \in Epoch PROVE Guarded(v, u, e)'
  <2> SUFFICES ASSUME held[u] \in list'[v][e] PROVE Guarded(v, u, e)'
    BY <1>0 DEF Guarded
  <2>1. CASE held[u] \in list[v][e]
    <3>1. Guarded(v, u, e)
      BY <1>0 DEF InTime
    <3> QED
      BY <1>0, <2>1, <3>1 DEF Guarded
  <2>2. CASE held[u] \notin list[v][e]
    <3>1. v = t /\ e = local[t] /\ held[u] = n
      BY <1>3, <2>2
    <3>2. held[u] # Null
      BY <1>0, <3>1 DEF TypeOK, Null
    <3>3. local[u] \in Epoch
      BY <1>0, <3>2 DEF Placed, TypeOK
    <3>4. local[u] \in {epoch, PreviousEpoch(epoch)}
      BY <1>0, <3>3, Cycle DEF InTime
    <3>5. epoch \in Epoch
      BY <1>0 DEF TypeOK
    <3>6. CASE e = epoch
      BY <1>0, <1>2, <3>1, <3>4, <3>6 DEF Guarded
    <3>7. CASE e = PreviousEpoch(epoch)
      <4>1. epoch = NextEpoch(e)
        BY <3>5, <3>7, Cycle
      <4> QED
        BY <1>0, <3>1, <3>4, <3>7, <4>1 DEF Guarded
    <3> QED
      BY <1>2, <3>1, <3>6, <3>7
  <2> QED
    BY <2>1, <2>2
<1> QED
  BY <1>0, <1>4, <1>5 DEF InTime, NoUseAfterFree

-----------------------------------------------------------------------------
(* Theorems.                                                               *)

\* Every step keeps the inductive invariant.
LEMMA NextEInv == EInv /\ [Next]_vars => EInv'
<1> SUFFICES ASSUME EInv, [Next]_vars PROVE EInv'
  OBVIOUS
<1>1. CASE Next
  <2>1. TypeOK'
    BY <1>1, NextTypeOK DEF EInv
  <2>2. \A v \in Thread : Placed(v)'
    BY <1>1, NextPlaced DEF EInv
  <2>3. FreedOnce'
    BY <1>1, NextFreedOnce DEF EInv
  <2>4. ASSUME ~late' PROVE InTime'
    <3> PICK t \in Thread : \/ LoadEpoch(t) \/ FreeForEpoch(t) \/ Publish(t) \/ Ask(t)
                            \/ Advance(t) \/ Read(t) \/ Replace(t) \/ Leave(t)
      BY <1>1 DEF Next
    <3>1. CASE Publish(t)
      BY <2>4, <3>1, PublishInTime
    <3>2. CASE ~Publish(t)
      <4>1. ~late
        BY <2>4, <3>2 DEF LoadEpoch, FreeForEpoch, Ask, Advance, Read, Replace, Leave
      <4> QED
        BY <3>2, <4>1, OwnInTime, FreeInTime, AskInTime, AdvanceInTime, ReplaceInTime
    <3> QED
      BY <3>1, <3>2
  <2> QED
    BY <2>1, <2>2, <2>3, <2>4 DEF EInv
<1>2. CASE UNCHANGED vars
  <2>1. TypeOK' /\ FreedOnce'
    BY <1>2 DEF vars, threads, tree, EInv, TypeOK, FreedOnce, Retired
  <2>2. \A v \in Thread : Placed(v)'
    BY <1>2 DEF vars, threads, tree, EInv, Placed
  <2>3. (\A v \in Thread : Asked(v)) => \A v \in Thread : Asked(v)'
    BY <1>2 DEF vars, threads, Asked
  <2>4. ASSUME \A v, u \in Thread, e \in Epoch : Guarded(v, u, e),
               NEW v \in Thread, NEW u \in Thread, NEW e \in Epoch
        PROVE  Guarded(v, u, e)'
    <3>1. Guarded(v, u, e)
      BY <2>4
    <3> QED
      BY <1>2, <3>1 DEF vars, threads, tree, Guarded
  <2>5. late' = late /\ (InTime => InTime')
    BY <1>2, <2>3, <2>4 DEF vars, threads, tree, InTime, NoUseAfterFree
  <2> QED
    BY <2>1, <2>2, <2>5 DEF EInv
<1> QED
  BY <1>1, <1>2

\* The inductive invariant holds throughout.
LEMMA AlwaysEInv == Spec => []EInv
<1> QED
  BY InitEInv, NextEInv, PTL DEF Spec

\* Every variable has its type: the epochs stay within 0 to 2, and the nodes
\* that are linked or freed have been allocated.
THEOREM EpochTypes == Spec => []TypeOK
<1>1. EInv => TypeOK
  BY DEF EInv
<1> QED
  BY <1>1, AlwaysEInv, PTL

\* safe_delete_node and freeForEpoch: no node of the tree is freed and no node
\* is freed twice, late threads or not.
THEOREM NodesFreedOnce == Spec => []FreedOnce
<1>1. EInv => FreedOnce
  BY DEF EInv
<1> QED
  BY <1>1, AlwaysEInv, PTL

\* canAdvance and the compare-exchange keep every thread that is inside a
\* guard within one epoch of the current one, while threads publish in time.
THEOREM EpochsStayClose == Spec => []EpochsClose
<1>1. EInv => EpochsClose
  BY DEF EInv, EpochsClose, InTime
<1> QED
  BY <1>1, AlwaysEInv, PTL

\* While threads publish their epochs in time, an operation inside an
\* EpochGuard never has a pointer to a node freeForEpoch has freed.
THEOREM GuardsProtect == Spec => []SafeUnlessLate
<1>1. EInv => SafeUnlessLate
  BY DEF EInv, SafeUnlessLate, InTime
<1> QED
  BY <1>1, AlwaysEInv, PTL

=============================================================================
