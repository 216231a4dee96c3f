-------------------------- MODULE EpochReclamation --------------------------
(***************************************************************************)
(* Epoch based reclamation of tree nodes in ALEX+, alexol/src/alex.h: an   *)
(* operation runs inside an EpochGuard; a node that it has replaced goes   *)
(* to the thread's free list of its epoch, and the list is freed when the  *)
(* thread enters that epoch again.                                         *)
(*                                                                         *)
(* The tree is a set of linked nodes.  An operation picks up pointers to   *)
(* linked nodes and may replace one of them by a new node, as the resizing *)
(* of a leaf does.  A step is one access to mCurrentEpoch or mLocalEpoch,  *)
(* or work on data of the thread's own, in sequentially consistent order.  *)
(***************************************************************************)
EXTENDS Integers, FiniteSets

CONSTANTS
    Thread,
    Writer,     \* threads whose operations may replace nodes
    Linked0,    \* the number of nodes of the tree at the start
    Batch,      \* retired nodes after which a thread wants to advance: 64
    MaxNodes    \* bound: nodes ever allocated

ASSUME EpochAssumption == /\ Writer \subseteq Thread
                          /\ Batch \in Nat \ {0}
                          /\ Linked0 \in Nat \ {0} /\ MaxNodes \in Nat
                          /\ Linked0 <= MaxNodes

VARIABLES
    epoch,      \* mCurrentEpoch
    local,      \* local[t]: mLocalEpoch, Outside between two operations
    accessed,   \* accessed[t]: mPreviouslyAccessedEpoch
    wants,      \* wants[t]: mThreadWantsToAdvance
    list,       \* list[t][e]: mFreeLists, as sets of nodes
    pc,         \* pc[t]: where t is in enterCriticalSection
    seen,       \* seen[t]: its local variable currentEpoch
    unasked,    \* unasked[t]: threads canAdvance has still to look at
    linked,     \* nodes reachable from the root
    used,       \* nodes 1 .. used have been allocated
    held,       \* held[t]: the node t has a pointer to, or Null
    freed,      \* deallocated nodes
    late        \* history: some thread published an epoch that had passed

threads == <<local, accessed, wants, list, pc, seen, unasked>>
tree == <<linked, used, held>>
vars == <<epoch, threads, tree, freed, late>>

Epoch == 0 .. 2
Outside == 3
\* Mutated: does not wrap.
NextEpochUnwrapped(e) == e + 1
\* NEXT_EPOCH and PREVIOUS_EPOCH
NextEpoch(e) == (e + 1) % 3
PreviousEpoch(e) == (e + 2) % 3
Node == 1 .. MaxNodes
Null == 0

At(t, l) == pc[t] = l
Goto(t, l) == pc' = [pc EXCEPT ![t] = l]

-----------------------------------------------------------------------------
Init == /\ epoch = 0
        /\ local = [t \in Thread |-> Outside]
        /\ accessed = [t \in Thread |-> 3]
        /\ wants = [t \in Thread |-> FALSE]
        /\ list = [t \in Thread |-> [e \in Epoch |-> {}]]
        /\ pc = [t \in Thread |-> "out"]
        /\ seen = [t \in Thread |-> 0]
        /\ unasked = [t \in Thread |-> {}]
        /\ linked = 1 .. Linked0
        /\ used = Linked0
        /\ held = [t \in Thread |-> Null]
        /\ freed = {}
        /\ late = FALSE

\* EpochGuard: enterCriticalSection loads mCurrentEpoch.
LoadEpoch(t) == /\ At(t, "out")
                /\ seen' = [seen EXCEPT ![t] = epoch]
                /\ Goto(t, "enter")
                /\ UNCHANGED <<epoch, local, accessed, wants, list, unasked, tree, freed, late>>

\* Mutated: the list is freed whenever the epoch is entered.
StaysInNever(t) == FALSE

\* The thread was in this epoch the last time, its list is kept.
StaysIn(t) == accessed[t] = seen[t]

\* enter, up to the store of mLocalEpoch
FreeForEpoch(t) ==
    /\ At(t, "enter")
    /\ \/ /\ StaysIn(t)
          /\ UNCHANGED <<accessed, wants, list, freed>>
       \/ /\ ~StaysIn(t)
          /\ freed' = freed \cup list[t][seen[t]]
          /\ list' = [list EXCEPT ![t][seen[t]] = {}]
          /\ wants' = [wants EXCEPT ![t] = FALSE]
          /\ accessed' = [accessed EXCEPT ![t] = seen[t]]
    /\ Goto(t, "publish")
    /\ UNCHANGED <<epoch, local, seen, unasked, tree, late>>

\* the store of mLocalEpoch; a thread that wants to advance goes on to look
Publish(t) ==
    /\ At(t, "publish")
    /\ local' = [local EXCEPT ![t] = seen[t]]
    /\ late' = (late \/ seen[t] # epoch)
    /\ \/ wants[t] /\ unasked' = [unasked EXCEPT ![t] = Thread] /\ Goto(t, "ask")
       \/ ~wants[t] /\ UNCHANGED unasked /\ Goto(t, "in")
    /\ UNCHANGED <<epoch, accessed, wants, list, seen, tree, freed>>

\* Mutated: nobody is in the way.
BlocksNever(t, u) == FALSE

\* u is in the epoch before the one t wants to leave.
Blocks(t, u) == local[u] = PreviousEpoch(seen[t])

\* canAdvance looks at one thread after the other
Ask(t) ==
    /\ At(t, "ask")
    /\ \E u \in unasked[t] :
         \/ /\ Blocks(t, u)
            /\ unasked' = [unasked EXCEPT ![t] = {}]
            /\ Goto(t, "in")
         \/ /\ ~Blocks(t, u)
            /\ unasked' = [unasked EXCEPT ![t] = @ \ {u}]
            /\ Goto(t, IF unasked[t] = {u} THEN "advance" ELSE "ask")
    /\ UNCHANGED <<epoch, local, accessed, wants, list, seen, tree, freed, late>>

\* compare_exchange_strong on mCurrentEpoch
Advance(t) == /\ At(t, "advance")
              /\ epoch' = IF epoch = seen[t] THEN NextEpoch(seen[t]) ELSE epoch
              /\ Goto(t, "in")
              /\ UNCHANGED <<local, accessed, wants, list, seen, unasked, tree, freed, late>>

-----------------------------------------------------------------------------
(* The operation inside the guard.                                         *)

\* get_leaf: follow the pointers of the tree, again after a conflict
Read(t) == /\ At(t, "in")
           /\ \E n \in linked \ {held[t]} : held' = [held EXCEPT ![t] = n]
           /\ UNCHANGED <<epoch, threads, linked, used, freed, late>>

\* Mutated: the node is still in the tree.
UnlinkedNot(n, new) == linked \cup {new}

\* The parent's pointer to n now points to the new node.
Unlinked(n, new) == (linked \ {n}) \cup {new}

\* insert replaces a node by a larger one, and safe_delete_node: the node goes
\* to the list of the thread's epoch
Replace(t) ==
    /\ At(t, "in") /\ t \in Writer /\ used < MaxNodes
    /\ \E n \in linked \cap {held[t]} :
         /\ linked' = Unlinked(n, used + 1)
         /\ list' = [list EXCEPT ![t][local[t]] = @ \cup {n}]
         /\ wants' = [wants EXCEPT ![t] =
                         (Cardinality(list[t][local[t]]) + 1) % Batch = 0]
    /\ used' = used + 1
    /\ UNCHANGED <<epoch, local, accessed, pc, seen, unasked, held, freed, late>>

\* ~EpochGuard
Leave(t) == /\ At(t, "in")
            /\ local' = [local EXCEPT ![t] = Outside]
            /\ held' = [held EXCEPT ![t] = Null]
            /\ Goto(t, "out")
            /\ UNCHANGED <<epoch, accessed, wants, list, seen, unasked, linked, used, freed, late>>

Next == \E t \in Thread : \/ LoadEpoch(t) \/ FreeForEpoch(t) \/ Publish(t) \/ Ask(t)
                          \/ Advance(t) \/ Read(t) \/ Replace(t) \/ Leave(t)

Spec == Init /\ [][Next]_vars

-----------------------------------------------------------------------------
(* Properties.                                                             *)

\* Every variable has its type: mCurrentEpoch stays an index of mFreeLists, and
\* nodes that are linked or freed have been allocated.
TypeOK ==
    /\ epoch \in Epoch /\ late \in BOOLEAN
    /\ local \in [Thread -> Epoch \cup {Outside}]
    /\ accessed \in [Thread -> Epoch \cup {3}]
    /\ wants \in [Thread -> BOOLEAN]
    /\ list \in [Thread -> [Epoch -> SUBSET Node]]
    /\ pc \in [Thread -> {"out", "enter", "publish", "ask", "advance", "in"}]
    /\ seen \in [Thread -> Epoch]
    /\ unasked \in [Thread -> SUBSET Thread]
    /\ used \in Nat /\ used <= MaxNodes
    /\ linked \subseteq 1 .. used
    /\ held \in [Thread -> Node \cup {Null}]
    /\ freed \subseteq 1 .. used

Retired(n) == \E t \in Thread, e \in Epoch : n \in list[t][e]

\* A node is in the tree, in one free list, or freed, and never in two of
\* these places: nothing reachable is freed and nothing is freed twice.
FreedOnce ==
    /\ \A n \in linked : n \notin freed /\ ~Retired(n)
    /\ \A n \in freed : ~Retired(n)
    /\ \A t, u \in Thread, d, e \in Epoch :
          <<t, d>> # <<u, e>> => list[t][d] \cap list[u][e] = {}

\* As long as every thread published its epoch before the epoch moved on, no
\* thread inside a guard is more than one epoch behind.
EpochsClose == ~late => \A t \in Thread : local[t] \in {Outside, epoch, PreviousEpoch(epoch)}

\* What the reclamation is for: a thread inside an EpochGuard never has a
\* pointer to a node that safe_delete_node has made free.
NoUseAfterFree == \A t \in Thread : held[t] \notin freed

\* As long as every thread published its epoch in time, no node is freed that
\* an operation inside a guard has a pointer to.
SafeUnlessLate == ~late => NoUseAfterFree

=============================================================================
