---------------------------- MODULE XIndexGroup -----------------------------
(***************************************************************************)
(* The groups of XIndex: get, put and remove of xindex_impl.h,             *)
(* xindex_root_impl.h and xindex_group_impl.h, run by the workers, against *)
(* the adjustments of Root::do_adjustment and the root update of           *)
(* XIndex::background, run by the background thread.                       *)
(*                                                                         *)
(* A group has a pivot, a sorted array of records, a delta buffer, and,    *)
(* while it is being replaced, a second buffer buffer_temp.  Arrays and    *)
(* buffers are both stores: a store maps a key to a payload, to Removed,   *)
(* to the store of the record it points to, or to Absent.  One access to a *)
(* record or to a buffer is one step: XIndexRecord and XIndexBuffer show   *)
(* that they are atomic.  rcu_barrier is the set owe of workers that have  *)
(* not begun a new round since it was called: see XIndexRcu.  The models   *)
(* of a group only say where a search starts and are left out.             *)
(***************************************************************************)
EXTENDS Integers, Sequences, FiniteSets, FiniteSetsExt, SequencesExt

CONSTANTS
    Worker, Key, Val, Absent, Removed,
    Loads,      \* bulk loads: the keys of each group, a sequence of sets
    Workload,   \* Workload[t]: the operations t may call
    Adjust,     \* the adjustments the background thread may make
    CompactThreshold, MergeBound, \* config.buffer_*, in keys
    MinSplit,   \* bound: array records of a group that is split
    MaxAdjust   \* bound: adjustments

Ops == [fn : {"get", "put", "remove"}, key : Key, val : Val]
NoOp == [fn |-> "none"]
NoReturn == [ok |-> FALSE]
Null == 0
Nothing == [k \in Key |-> Absent]

ASSUME GroupAssumption ==
    /\ Key \subseteq Nat \ {0} /\ Removed \notin Val /\ Absent \notin Val
    /\ Adjust \subseteq {"model", "split", "merge", "compact"}
    /\ \A t \in Worker : Workload[t] \subseteq Ops

VARIABLES
    store,      \* the arrays and buffers allocated so far
    group,      \* the groups allocated so far
    roots,      \* the roots allocated so far, each a sequence of slots
    root,       \* XIndex::root
    freed,      \* stores, groups and roots that were freed
    owe,        \* the workers a barrier waits for
    bg,         \* the background thread
    adjusts,    \* adjustments made
    pc,         \* pc[t]: where worker t is
    at,         \* at[t]: the root, slot and group it has
    map, op, seen, ret  \* history, as in LinearMap: map is what the writes have made

memory == <<store, group, roots, root, freed>>
back == <<bg, adjusts>>
vars == <<memory, owe, back, pc, at, op, map, seen, ret>>

-----------------------------------------------------------------------------
\* The record a reader gets to, and whether it is live.
Target(s, k) == IF store[s][k] \in DOMAIN store THEN store[s][k] ELSE s
Read(s, k) == store[Target(s, k)][k]
Live(s, k) == Read(s, k) \in Val
Keys(s) == {k \in Key : store[s][k] # Absent}
Size(s) == Cardinality(Keys(s))

Set(s, k, x) == [store EXCEPT ![Target(s, k)][k] = x]

\* locate_group_pt1: the last slot whose pivot is not above the key, or the first
Pt1(slots, k) == Max({1} \cup {i \in DOMAIN slots : slots[i].first <= k})

\* The group a worker that starts now would find for k.
RECURSIVE Chain(_, _)
Chain(g, k) == LET n == group[g].next IN
               IF n # Null /\ group[n].pivot <= k THEN Chain(n, k) ELSE g
Head1(k) == LET s == roots[root]
                i == Max({1} \cup {j \in 1 .. Pt1(s, k) : s[j].group # Null})
            IN s[i].group

-----------------------------------------------------------------------------
NewGroup(pivot, data, buffer, next) ==
    [pivot |-> pivot, data |-> data, buffer |-> buffer, temp |-> Null,
     frozen |-> FALSE, next |-> next]
Gone == NewGroup(0, Null, Null, Null)

Nowhere == [root |-> Null, slot |-> 0, g |-> Null]
AtRest == [pc |-> "rest", kind |-> "none", slot |-> 0, loc |-> Null, old |-> Null, mid |-> Null,
           next |-> Null, new |-> Null, new2 |-> Null, todo |-> {}, dirty |-> FALSE]

\* Root::init: one group for each part of the bulk-loaded keys
LoadedWith(keys) ==
        LET n == Len(keys)
            v == CHOOSE v \in Val : TRUE
        IN /\ store = [i \in 1 .. 2 * n |-> IF i > n THEN Nothing
                         ELSE [k \in Key |-> IF k \in keys[i] THEN v ELSE Absent]]
           /\ group = [i \in 1 .. n |-> NewGroup(Min(keys[i]), i, n + i, Null)]
           /\ roots = <<[i \in 1 .. n |-> [first |-> Min(keys[i]), group |-> i]]>>
           /\ root = 1
           /\ freed = [s |-> {}, g |-> {}, r |-> {}]
           /\ owe = {}
           /\ bg = AtRest /\ adjusts = 0
           /\ pc = [t \in Worker |-> "idle"]
           /\ at = [t \in Worker |-> Nowhere]
           /\ map = [k \in Key |-> IF \E i \in 1 .. n : k \in keys[i] THEN v ELSE Absent]
           /\ op = [t \in Worker |-> NoOp]
           /\ seen = [t \in Worker |-> {}]
           /\ ret = NoReturn

Init == \E keys \in Loads : LoadedWith(keys)

-----------------------------------------------------------------------------
(* The workers.                                                            *)

At(t, l) == pc[t] = l
Goto(t, l) == pc' = [pc EXCEPT ![t] = l]
MyGroup(t) == group[at[t].g]

\* rcu_progress
Progress(t) == owe' = owe \ {t}

Call(t) == /\ At(t, "idle")
           /\ \E o \in Workload[t] : op' = [op EXCEPT ![t] = o]
           /\ ret' = NoReturn
           /\ Progress(t)
           /\ Goto(t, "root")
           /\ UNCHANGED <<memory, back, at, map>>

Return(t, ok, x) == /\ ret' = [thread |-> t, ok |-> ok, out |-> x]
                    /\ op' = [op EXCEPT ![t] = NoOp]
                    /\ at' = [at EXCEPT ![t] = Nowhere]
                    /\ Goto(t, "idle")
\* a step inside an operation
Inside == ret' = NoReturn /\ UNCHANGED <<op, map>>

\* the load of root, and the search for the slot, whose pivots do not change
LoadRoot(t) == /\ At(t, "root")
               /\ at' = [at EXCEPT ![t] = [root |-> root, slot |-> Pt1(roots[root], op[t].key),
                                           g |-> Null]]
               /\ Goto(t, "slot")
               /\ UNCHANGED <<memory, owe, back>> /\ Inside

\* groups[group_i].second, going down past slots that a merge has nullified
LoadSlot(t) ==
    LET g == roots[at[t].root][at[t].slot].group IN
    /\ At(t, "slot")
    /\ \/ /\ g = Null /\ at[t].slot > 1
          /\ at' = [at EXCEPT ![t].slot = @ - 1]
          /\ UNCHANGED pc
       \/ /\ ~(g = Null /\ at[t].slot > 1)
          /\ at' = [at EXCEPT ![t] = [Nowhere EXCEPT !.g = g]]
          /\ Goto(t, "chain")
    /\ UNCHANGED <<memory, owe, back>> /\ Inside

\* one round of locate_group_pt2
LoadNext(t) ==
    LET n == MyGroup(t).next
        further == n # Null /\ group[n].pivot <= op[t].key
    IN
    /\ At(t, "chain")
    /\ \/ /\ further
          /\ at' = [at EXCEPT ![t].g = n]
          /\ UNCHANGED pc
       \/ /\ ~further
          /\ Goto(t, "array")
          /\ UNCHANGED at
    /\ UNCHANGED <<memory, owe, back>> /\ Inside

\* The operation on the record of store s: read, update or remove of AtomicVal.
Access(t, s) ==
    LET k == op[t].key IN
    \/ op[t].fn = "get" /\ Return(t, TRUE, Read(s, k)) /\ UNCHANGED <<store, map>>
    \/ op[t].fn = "put" /\ Return(t, TRUE, Absent) /\ store' = Set(s, k, op[t].val)
                        /\ map' = [map EXCEPT ![k] = op[t].val]
    \/ op[t].fn = "remove" /\ Return(t, TRUE, Absent) /\ store' = Set(s, k, Removed)
                           /\ map' = [map EXCEPT ![k] = Absent]

\* it finds a live record in s, or goes on to l
Try(t, s, l) ==
    /\ \/ Live(s, op[t].key) /\ Access(t, s)
       \/ ~Live(s, op[t].key) /\ Goto(t, l) /\ UNCHANGED <<store, at>> /\ Inside
    /\ UNCHANGED <<group, roots, root, freed, owe, back>>

\* get_from_array, update_to_array, remove_from_array
Array(t) == /\ At(t, "array")
            /\ Try(t, MyGroup(t).data, IF op[t].fn = "put" THEN "room" ELSE "buffer")

\* get_from_buffer and remove_from_buffer
Buffer(t) == At(t, "buffer") /\ Try(t, MyGroup(t).buffer, "temp")

Fail(t) == /\ Return(t, FALSE, Absent)
           /\ UNCHANGED <<memory, owe, back, map>>

Temp(t) == /\ At(t, "temp")
           /\ \/ MyGroup(t).temp # Null /\ Try(t, MyGroup(t).temp, "fail")
              \/ MyGroup(t).temp = Null /\ Fail(t)
Failed(t) == At(t, "fail") /\ Fail(t)

\* put: is there a buffer_temp?
Room(t) == /\ At(t, "room")
           /\ Goto(t, IF MyGroup(t).temp = Null THEN "frozen" ELSE "update")
           /\ UNCHANGED <<memory, owe, back, at>> /\ Inside

Frozen(g) == group[g].frozen

\* Mutated: a put that retries does not count up its status.
AgainSilent(t) == owe' = owe /\ Goto(t, "root")
\* XIndex::put starts over
Again(t) == Progress(t) /\ Goto(t, "root")

\* put: a frozen buffer makes it retry
CheckFrozen(t) ==
    /\ At(t, "frozen")
    /\ \/ /\ Frozen(at[t].g)
          /\ Again(t)
          /\ at' = [at EXCEPT ![t] = Nowhere]
       \/ /\ ~Frozen(at[t].g)
          /\ Goto(t, "insert")
          /\ UNCHANGED <<owe, at>>
    /\ UNCHANGED <<memory, back>> /\ Inside

Into(t, s) == /\ store' = [store EXCEPT ![s][op[t].key] = op[t].val]
              /\ map' = [map EXCEPT ![op[t].key] = op[t].val]
              /\ Return(t, TRUE, Absent)
              /\ UNCHANGED <<group, roots, root, freed, owe, back>>

\* insert_to_buffer(key, val, buffer)
Insert(t) == At(t, "insert") /\ Into(t, MyGroup(t).buffer)

\* Mutated: put does not try the frozen buffer before buffer_temp.
UpdateSkip(t) == At(t, "update") /\ Into(t, MyGroup(t).temp)
\* update_to_buffer(key, val, buffer), else insert_to_buffer(key, val, buffer_temp)
Update(t) == At(t, "update") /\ Try(t, MyGroup(t).buffer, "append")
InsertTemp(t) == At(t, "append") /\ Into(t, MyGroup(t).temp)

Step(t) == \/ LoadRoot(t) \/ LoadSlot(t) \/ LoadNext(t) \/ Array(t) \/ Buffer(t) \/ Temp(t)
           \/ Failed(t) \/ Room(t) \/ CheckFrozen(t) \/ Insert(t) \/ Update(t) \/ InsertTemp(t)

-----------------------------------------------------------------------------
(* The background thread: adjustments of do_adjustment.                    *)

BgAt(l) == bg.pc = l
Slots == roots[root]
Waited == owe = {}

\* *group, the group the thread is at: in a slot, or next of group bg.loc
Cur == IF bg.loc = Null THEN Slots[bg.slot].group ELSE group[bg.loc].next

\* the store of g to a location; the groups are gs before it
Assign(loc, slot, g, gs) ==
    /\ group' = IF loc = Null THEN gs ELSE [gs EXCEPT ![loc].next = g]
    /\ roots' = IF loc = Null THEN [roots EXCEPT ![root][slot].group = g] ELSE roots

Worked == UNCHANGED <<pc, at>> /\ Inside

\* a round begins
Begin == /\ BgAt("rest") /\ adjusts < MaxAdjust
         /\ bg' = [bg EXCEPT !.pc = "visit", !.slot = 1]
         /\ UNCHANGED <<memory, owe, adjusts>> /\ Worked

\* the chain of the slot is done
NextSlot == /\ BgAt("visit") /\ Cur = Null
            /\ \/ /\ bg.slot < Len(Slots)
                  /\ bg' = [bg EXCEPT !.slot = @ + 1, !.loc = Null]
                  /\ UNCHANGED owe
               \/ /\ bg.slot = Len(Slots) /\ bg.dirty
                  /\ bg' = [bg EXCEPT !.pc = "root", !.loc = Null]
                  /\ UNCHANGED owe
               \/ /\ bg.slot = Len(Slots) /\ ~bg.dirty
                  /\ bg' = [bg EXCEPT !.pc = "end", !.loc = Null]
                  /\ owe' = Worker
            /\ UNCHANGED <<memory, adjusts>> /\ Worked

May(kind) == BgAt("visit") /\ Cur # Null /\ kind \in Adjust /\ adjusts < MaxAdjust
Doing(kind, l) == [bg EXCEPT !.pc = l, !.kind = kind, !.old = Cur]
Compactable == Size(group[Cur].buffer) > CompactThreshold

\* nothing to adjust, the thread goes down the chain
Keep == /\ BgAt("visit") /\ Cur # Null
        /\ ~(May("compact") /\ Compactable)
        /\ bg' = [bg EXCEPT !.loc = Cur]
        /\ UNCHANGED <<memory, owe, adjusts>> /\ Worked

\* split_model and merge_model: a group with other models, the rest is shared
ChangeModel == /\ May("model")
               /\ Assign(bg.loc, bg.slot, Len(group) + 1,
                         Append(group, [group[Cur] EXCEPT !.frozen = FALSE]))
               /\ bg' = Doing("model", "model")
               /\ adjusts' = adjusts + 1
               /\ owe' = Worker
               /\ UNCHANGED <<store, root, freed>> /\ Worked

ModelWaited == Waited

DeleteOld == /\ BgAt("model") /\ ModelWaited
             /\ group' = [group EXCEPT ![bg.old] = Gone]
             /\ freed' = [freed EXCEPT !.g = @ \cup {bg.old}]
             /\ bg' = [bg EXCEPT !.pc = "visit"]
             /\ UNCHANGED <<store, roots, root, owe, adjusts>> /\ Worked

\* compact_phase_1 freezes the buffer
Compact == /\ May("compact") /\ Compactable
           /\ group' = [group EXCEPT ![Cur].frozen = TRUE]
           /\ bg' = Doing("compact", "temp")
           /\ adjusts' = adjusts + 1
           /\ owe' = Worker
           /\ UNCHANGED <<store, roots, root, freed>> /\ Worked

\* next_group, and where the pointer to it is
NextOf(g) == IF group[g].next # Null THEN group[g].next
             ELSE IF bg.slot < Len(Slots) THEN Slots[bg.slot + 1].group ELSE Null
NextLoc == IF group[bg.old].next # Null THEN bg.old ELSE Null

\* merge_group freezes both buffers
Merge == /\ May("merge") /\ NextOf(Cur) # Null
         /\ Size(group[Cur].buffer) < MergeBound
         /\ group' = [group EXCEPT ![Cur].frozen = TRUE, ![NextOf(Cur)].frozen = TRUE]
         /\ bg' = [Doing("merge", "temp") EXCEPT !.next = NextOf(Cur)]
         /\ adjusts' = adjusts + 1
         /\ owe' = Worker
         /\ UNCHANGED <<store, roots, root, freed>> /\ Worked

\* Mutated: the buffer is taken over without the barrier.
FrozenWaitedNot == TRUE
FrozenWaited == Waited

\* Mutated: buffer_temp is used before it is allocated.
TempStoreUnset == Len(store) + 3
TempStore == Len(store) + 1

\* after the barrier: a new buffer_temp, and the array to merge into
MakeTemp == /\ BgAt("temp") /\ FrozenWaited
            /\ store' = store \o <<Nothing, Nothing>>
            /\ group' = [group EXCEPT ![bg.old].temp = TempStore]
            /\ bg' = [bg EXCEPT !.pc = IF bg.kind = "merge" THEN "share" ELSE "merge",
                                !.new = Len(store) + 2, !.todo = Key]
            /\ UNCHANGED <<roots, root, freed, owe, adjusts>> /\ Worked

\* next_group.buffer_temp = buffer_temp
ShareTemp == /\ BgAt("share")
             /\ group' = [group EXCEPT ![bg.next].temp = group[bg.old].temp]
             /\ bg' = [bg EXCEPT !.pc = "merge"]
             /\ UNCHANGED <<store, roots, root, freed, owe, adjusts>> /\ Worked

\* data[array_size / 2].first; an empty array has zeroed records
Median(s) == LET a == SetToSortSeq(Keys(s), <)
             IN IF a = <<>> THEN 0 ELSE a[Len(a) \div 2 + 1]

\* split_group_pt1: two groups that share the array and the buffer
Split == LET o == group[Cur]
             i == Len(group) + 1
             part(p, s, n) == [NewGroup(p, o.data, o.buffer, n)
                               EXCEPT !.frozen = TRUE, !.temp = Len(store) + s]
         IN /\ May("split") /\ Size(o.data) >= MinSplit
            /\ store' = store \o <<Nothing, Nothing>>
            /\ Assign(bg.loc, bg.slot, i,
                      group \o <<part(o.pivot, 1, i + 1), part(Median(o.data), 2, o.next)>>)
            /\ bg' = [Doing("split", "split") EXCEPT !.mid = i]
            /\ adjusts' = adjusts + 1
            /\ owe' = Worker
            /\ UNCHANGED <<root, freed>> /\ Worked

\* split_group_pt2 begins: the two arrays to merge into
SplitArrays == /\ BgAt("split") /\ Waited
               /\ store' = store \o <<Nothing, Nothing>>
               /\ bg' = [bg EXCEPT !.pc = "merge", !.todo = Key,
                                   !.new = Len(store) + 1, !.new2 = Len(store) + 2]
               /\ UNCHANGED <<group, roots, root, freed, owe, adjusts>> /\ Worked

\* Mutated: the records of the buffer are left out.
SourcesArray == {group[g].data : g \in {bg.old, bg.next} \ {Null}}
\* the stores merge_refs_internal reads
Sources == {group[g].data : g \in {bg.old, bg.next} \ {Null}} \cup
           {group[g].buffer : g \in {bg.old, bg.next} \ {Null}}

\* the new array a key goes to
Half(k) == IF bg.kind = "split" /\ k >= group[group[bg.mid].next].pivot THEN bg.new2 ELSE bg.new

\* merge_refs_internal: a pointer to the record if it is live
MergeKey == LET k == Min(bg.todo)
                live == {s \in Sources : Live(s, k)}
            IN /\ BgAt("merge") /\ bg.todo # {}
               /\ store' = [store EXCEPT ![Half(k)][k] = IF live = {} THEN @ ELSE Min(live)]
               /\ bg' = [bg EXCEPT !.todo = @ \ {k}]
               /\ UNCHANGED <<group, roots, root, freed, owe, adjusts>> /\ Worked

\* the new group, or the two halves, and *group = new_group
Publish ==
    LET o == group[bg.old]
        n == Len(group) + 1
        mid1 == group[bg.mid]
        mid2 == group[mid1.next]
        made == CASE bg.kind = "compact" -> <<NewGroup(o.pivot, bg.new, o.temp, o.next)>>
                  [] bg.kind = "merge" -> <<NewGroup(o.pivot, bg.new, o.temp, group[bg.next].next)>>
                  [] bg.kind = "split" -> <<NewGroup(o.pivot, bg.new, mid1.temp, n + 1),
                                            NewGroup(mid2.pivot, bg.new2, mid2.temp, mid2.next)>>
    IN /\ BgAt("merge") /\ bg.todo = {}
       /\ Assign(bg.loc, bg.slot, n, group \o made)
       /\ bg' = [bg EXCEPT !.pc = IF bg.kind = "merge" THEN "second" ELSE "published"]
       /\ owe' = IF bg.kind = "merge" THEN owe ELSE Worker
       /\ UNCHANGED <<store, root, freed, adjusts>> /\ Worked

\* a merge: *next_group = new_group, a barrier, and *next_group = nullptr
PublishSecond == /\ BgAt("second")
                 /\ Assign(NextLoc, bg.slot + 1, Cur, group)
                 /\ bg' = [bg EXCEPT !.pc = "nullify"]
                 /\ owe' = Worker
                 /\ UNCHANGED <<store, root, freed, adjusts>> /\ Worked

Replacing == bg' = [bg EXCEPT !.pc = "replace",
                              !.todo = UNION {Keys(s) : s \in {bg.new, bg.new2} \ {Null}}]

Nullify == /\ BgAt("nullify") /\ Waited
           /\ Assign(NextLoc, bg.slot + 1, Null, group)
           /\ Replacing
           /\ UNCHANGED <<store, root, freed, owe, adjusts>> /\ Worked

\* compact_phase_2 begins
Published == /\ BgAt("published") /\ Waited
             /\ Replacing
             /\ UNCHANGED <<memory, owe, adjusts>> /\ Worked

\* replace_pointer of one record
ReplaceKey == LET k == Min(bg.todo)
              IN /\ BgAt("replace") /\ bg.todo # {}
                 /\ store' = [store EXCEPT ![Half(k)][k] = Read(Half(k), k)]
                 /\ bg' = [bg EXCEPT !.todo = @ \ {k}]
                 /\ UNCHANGED <<group, roots, root, freed, owe, adjusts>> /\ Worked

Replaced == /\ BgAt("replace") /\ bg.todo = {}
            /\ bg' = [bg EXCEPT !.pc = "free"]
            /\ owe' = Worker
            /\ UNCHANGED <<memory, adjusts>> /\ Worked

\* free_data and free_buffer of the old groups, and delete of their metadata
Free == LET olds == {bg.old, bg.next} \ {Null}
            mids == IF bg.mid = Null THEN {} ELSE {bg.mid, group[bg.mid].next}
            last == IF bg.kind = "split" THEN group[Cur].next ELSE Cur
        IN /\ BgAt("free") /\ Waited
           /\ freed' = [freed EXCEPT !.s = @ \cup Sources, !.g = @ \cup olds \cup mids]
           /\ store' = [s \in DOMAIN store |-> IF s \in Sources THEN Nothing ELSE store[s]]
           /\ group' = [g \in DOMAIN group |-> IF g \in olds \cup mids THEN Gone ELSE group[g]]
           /\ bg' = [AtRest EXCEPT !.pc = "visit", !.slot = bg.slot, !.loc = last,
                                   !.dirty = bg.dirty \/ bg.kind # "compact"]
           /\ UNCHANGED <<roots, root, owe, adjusts>> /\ Worked

-----------------------------------------------------------------------------
(* The background thread: the root update of XIndex::background.           *)

RECURSIVE ChainOf(_)
ChainOf(g) == IF g = Null THEN <<>> ELSE <<g>> \o ChainOf(group[g].next)
\* Mutated: only the first group of each chain.
FlatHeads == FlattenSeq([i \in DOMAIN Slots |-> IF Slots[i].group = Null THEN <<>>
                                                ELSE <<Slots[i].group>>])
\* the groups of all slots and their chains
Flat == FlattenSeq([i \in DOMAIN Slots |-> ChainOf(Slots[i].group)])

\* create_new_root, and index.root = new_root
NewRoot == /\ BgAt("root")
           /\ roots' = Append(roots, [i \in DOMAIN Flat |-> [first |-> group[Flat[i]].pivot,
                                                             group |-> Flat[i]]])
           /\ root' = Len(roots) + 1
           /\ bg' = [bg EXCEPT !.pc = "trim", !.slot = 1]
           /\ owe' = Worker
           /\ UNCHANGED <<store, group, freed, adjusts>> /\ Worked

RootWaited == Waited

\* trim_root, slot by slot, after the barrier
Trim == /\ BgAt("trim") /\ RootWaited /\ bg.slot <= Len(Slots)
        /\ group' = [group EXCEPT ![Slots[bg.slot].group].next = Null]
        /\ bg' = [bg EXCEPT !.slot = @ + 1]
        /\ UNCHANGED <<store, roots, root, freed, owe, adjusts>> /\ Worked

\* delete old_root, and the barrier at the end of the round
DeleteRoot == /\ BgAt("trim") /\ bg.slot > Len(Slots)
              /\ roots' = [roots EXCEPT ![root - 1] = <<>>]
              /\ freed' = [freed EXCEPT !.r = @ \cup {root - 1}]
              /\ bg' = [bg EXCEPT !.pc = "end"]
              /\ owe' = Worker
              /\ UNCHANGED <<store, group, root, adjusts>> /\ Worked

End == /\ BgAt("end") /\ Waited
       /\ bg' = AtRest
       /\ UNCHANGED <<memory, owe, adjusts>> /\ Worked

Background == \/ Begin \/ NextSlot \/ Keep \/ ChangeModel \/ DeleteOld \/ Compact \/ Merge
              \/ MakeTemp \/ ShareTemp \/ Split \/ SplitArrays \/ MergeKey \/ Publish
              \/ PublishSecond \/ Nullify \/ Published \/ ReplaceKey \/ Replaced \/ Free
              \/ NewRoot \/ Trim \/ DeleteRoot \/ End

-----------------------------------------------------------------------------
\* seen notes what the key of each pending operation is bound to after the step
Observe == seen' = [t \in Worker |-> IF op'[t] = NoOp THEN {}
                                     ELSE seen[t] \cup {map'[op'[t].key]}]

Next == /\ \/ \E t \in Worker : Call(t) \/ Step(t)
           \/ Background
        /\ Observe

Spec == Init /\ [][Next]_vars

\* The workers and the background thread are threads of the system; a worker
\* calls as long as its part of the workload lasts.
FairSpec == /\ Spec
            /\ \A t \in Worker : WF_vars((Call(t) \/ Step(t)) /\ Observe)
            /\ WF_vars(Background /\ Observe)

-----------------------------------------------------------------------------
(* Properties.                                                             *)

\* The types of the variables.
TypeOK == /\ \A s \in DOMAIN store : store[s] \in [Key -> Val \cup {Absent, Removed} \cup DOMAIN store]
          /\ \A g \in DOMAIN group :
                 /\ group[g].pivot \in Key \cup {0}
                 /\ {group[g].data, group[g].buffer, group[g].temp} \subseteq DOMAIN store \cup {Null}
                 /\ group[g].next \in DOMAIN group \cup {Null}
          /\ root \in DOMAIN roots /\ owe \subseteq Worker
          /\ \A t \in Worker : /\ at[t].g \in DOMAIN group \cup {Null}
                               /\ at[t].root \in DOMAIN roots \cup {Null}

\* "make sure no one is accessing the old data": what a worker is about to
\* touch, its root, its group, the stores of the group and the record a
\* pointer of the array leads to, has not been freed.
OldDataUnaccessed == \A t \in Worker :
    LET g == MyGroup(t) IN
    /\ At(t, "slot") => at[t].root \notin freed.r
    /\ pc[t] \notin {"idle", "root", "slot", "fail"} =>
          /\ at[t].g # Null /\ at[t].g \notin freed.g
          /\ g.next = Null \/ g.next \notin freed.g
    /\ At(t, "array") => {g.data, Target(g.data, op[t].key)} \cap freed.s = {}
    /\ pc[t] \in {"buffer", "insert", "update"} => g.buffer \notin freed.s
    /\ pc[t] \in {"temp", "append"} => g.temp \notin freed.s

\* The groups the index is made of now.
Current == {Chain(Head1(k), k) : k \in Key}

\* "since update are inplaced": no key is live in two stores of a group at a
\* time, so merge_refs_internal and the scans never meet it twice.
UpdatesInPlace == \A g \in Current, k \in Key :
    Cardinality({s \in {group[g].data, group[g].buffer, group[g].temp} \ {Null} : Live(s, k)}) <= 1

LM == INSTANCE LinearMap WITH Thread <- Worker

\* get, put and remove of XIndex are atomic, whatever the background thread
\* does to the groups meanwhile: no put is lost, no removed key comes back.
Linearizable == LM!Spec


\* trim_root: "assert(group->next ? group->next == groups[group_i + 1].second :
\* true)": the chains it cuts hold nothing that the new array does not have.
TrimKeepsAll == BgAt("trim") => \A i \in bg.slot .. Len(Slots) - 1 :
    group[Slots[i].group].next \in {Null, Slots[i + 1].group}

\* While all workers go on calling, every call returns and every barrier ends.
CallsReturn == \A t \in Worker : pc[t] # "idle" ~> pc[t] = "idle"
AdjustmentsEnd == ~BgAt("rest") ~> BgAt("rest")

=============================================================================
