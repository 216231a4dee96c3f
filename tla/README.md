# A TLA+ verification of the concurrent parts of the GRE benchmark suite

The repository benchmarks ordered in-memory indexes. A driver
(`src/benchmark/benchmark.h`) generates operations and runs them from many
threads against one *competitor*, an implementation of
`src/competitor/indexInterface.h`. Most competitors are copies of published
indexes. The code that is hard to get right, and hard to test, is the
synchronisation of the concurrent ones: optimistic lock coupling in `btreeolc`,
epochs and leaf locks in `alexol`, RCU and two-phase compaction in `xindex`.

Paths below are relative to the repository's root. `BTree.h` abbreviates
`src/competitor/btreeolc/src/BTreeOLC_child_layout.h`.

## 1. Inventory

| Part | State it owns | Operations | Behaviours that are hard |
|---|---|---|---|
| `btreeolc` | root pointer; per node a version word, sorted arrays, `next_leaf` | `insert` (splits full nodes on the way down), `lookup`, `scan`, `bulk_load` | unlocked reads validated by versions; restarts; lock order parent, node; a root that grows while it is read; a leaf chain that splits |
| `indexInterface` | none | `bulk_load`, `get`, `put`, `remove`, `scan` | what the callers may rely on |
| benchmark driver | `operations`, `init_keys`, per-thread counters | `load_keys`, `generate_operations`, `run`, `run_benchmark` | static schedule of operations on threads, counters summed after the loop |
| `alexol`, epochs | `mCurrentEpoch`; per thread `mLocalEpoch`, `mPreviouslyAccessedEpoch`, three free lists | `EpochGuard`, `enterCriticalSection`, `canAdvance`, `safe_delete_node`, `freeForEpoch` | an epoch published after it has passed; a scan of the threads that is not atomic |
| `alexol`, tree | model and data nodes; node locks; key-slot locks | `insert`, `get_payload`, `update`, scan, expand, split | leaf replaced while readers and writers are in it |
| `xindex` | root with groups; record = value, version and flags in one word; delta buffers | `get`, `put`, `remove`, `scan`; background compaction, group split and merge | two-phase compaction, RCU barriers, a pointer record resolved later |
| the rest | | | sequential, vendored (also `epoch_reclaimer`, which no competitor includes), or code outside the repository |

Properties each part needs:

* `btreeolc`: locks exclude; an unmoved version means unmoved contents; the
  arrays never overflow; each key stays where a search finds it during splits;
  the operations are atomic; scans ascend; every lock is released; restarts end.
* `xindex`: the operations are atomic through every adjustment; a barrier is a
  grace period; nothing in use is freed; calls and barriers end.
* epochs: nothing is freed while an operation inside a guard has a pointer to
  it, nothing that is linked is freed, nothing is freed twice.
* `alexol`, tree: no update is lost when a leaf is replaced (not modelled).

## 2. Modules and how they correspond to the code

| Module | Contents |
|---|---|
| `OrderedIndex` | the abstract index: a map, with atomic `Insert`, `Lookup` and `Scan` |
| `BTreeOLC` | the B+-tree of `btreeolc`, its properties, and the refinement of `OrderedIndex` |
| `MCBTreeOLC` | instances of it for TLC, one `.cfg` for each run |
| `BTreeOLC_proofs` | type correctness |
| `BTreeOLC_locks` | mutual exclusion of the locks, stability of unlocked nodes |
| `BTreeOLC_room` | the arrays never overflow |
| `EpochReclamation` | the epochs and free lists of `alexol` |
| `MCEpochReclamation` | its instances for TLC |
| `EpochReclamation_proofs` | nodes are freed once; epochs stay close; guards protect |
| `LinearMap` | the abstract map of `xindex`: a call, an atomic write or an answer, a return |
| `XIndexRecord` | a record (`AtomicVal`) through a compaction; refines `LinearMap` |
| `XIndexRcu` | `rcu_progress` and `rcu_barrier` for the indexes of one process |
| `XIndexGroup` | root, groups and background thread; refines `LinearMap` |
| `XIndexBuffer` | the delta buffer (`AltBtreeBuffer`); refines `LinearMap` |
| `MCXIndex...` | their instances for TLC |
| `XIndexRcuProofs` | the barrier is a grace period; nothing in use is freed |
| `XIndexRecordInvariant` | the inductive invariant of `XIndexRecord`, frame lemmas, the steps of `read` |
| `XIndexRecordProofs` | the other steps; locks exclude, pointers are live, freed records are unused |
| `XIndexRecordLinear` | `XIndexRecord` implements `LinearMap` |

### BTreeOLC

A node is a number; `version`, `type`, `data`, `kid` and `next` are the fields
of all nodes. A leaf's two arrays are one function from keys to payloads. An
inner node's arrays are a function from separators to children, in which `Inf`
is the child past the last separator. `root` is the atomic root pointer.
A thread has `pc` and the locals of the C++ functions: `node`, `versionNode`
(`vnode`), `parent`, `versionParent` (`vparent`) and `next_node` (`succ`).

The version word is kept as the code has it: bit 0 obsolete, bit 1 locked, and
both `upgradeToWriteLockOrRestart` and `writeUnlock` add 2.

One step is one access to shared memory that another thread can tell apart: a
load of `root`; a load, compare-exchange or add on a version word; or a group
of plain accesses to one node.

| Actions | Code in `BTree.h` |
|---|---|
| `LoadRoot`, `ReadRoot`, `CheckRoot` | the loop heads of `insert`, `lookup`, `scan` |
| `VisitInner`, `Step`, `CheckInner`, `ReadChild` | the descent; the three functions share it, and only `insert` tests `isFull` |
| `SplitLockParent`, `SplitLockNode`, `SplitInner`, `SplitLeaf`, `SplitUnlock` | the eager split, with `makeRoot` where there is no parent |
| `DropParent`, `DropNode`, `GiveUp` | the unlocks on the paths that restart |
| `VisitLeaf`, `LeafLock`, `LeafValidate`, `LeafInsert`, `LeafUnlock` | the end of `insert` |
| `LookupRead`, `LookupParent`, `LookupNode` | the end of `lookup` |
| `ScanParent`, `ScanLock`, `ScanRead`, `ScanCheck` | the loop of `scan` over the leaf chain |
| `BulkInsert`, `Call` | `bulk_load` of `btreeolc.h`, and the calls of workers |

*Data races.* Readers read plain fields while a writer may change them. A read
from a node whose version is no longer the one the thread noted has an
unspecified outcome: `SeesFull` is then either Boolean, `SeesChild` any
allocated node, `SeesData` may contain `Junk` (a payload nobody put), `SeesNext` any
allocated node or null. The reader must find out by the version that follows, as it does in the
code.

*Uninitialised value.* `lookup` returns `success`, which a miss does not
assign. A miss therefore returns either Boolean.

*Composition.* The workers of `BTreeOLC` are clients of the interface: they
call what `Workload` offers after `bulk_load` is done. `Index` instantiates
`OrderedIndex` with the refinement mapping: the map is the union of all leaves,
an insert has its result from `LeafInsert` on, the other operations from their
return on.

### EpochReclamation

`epoch` is `mCurrentEpoch`. `local`, `accessed`, `wants` and `list` are the
members of `ThreadSpecificEpochBasedReclamationInformation`; `seen` is the
local variable `currentEpoch`. `LoadEpoch`, `FreeForEpoch`, `Publish`, `Ask`
and `Advance` are the accesses of `enterCriticalSection` in their order, with
one `Ask` per thread `canAdvance` looks at. Inside the guard a thread follows
pointers (`Read`), replaces a node and retires the old one (`Replace`), and
returns (`Leave`). The parent's pointer and the thread's own free list change
in one step, because no other thread can see the list.

The tree is abstracted to the set of linked nodes, and a thread holds one
pointer at a time: the properties speak of single nodes.

`late` is a history variable: some thread has stored an epoch that was no
longer the current one.

### xindex: four modules, each one's steps justified by the one below

`XIndexRecord` has the steps of `xindex_util.h`: loads of status, value and
status; the lock; the write; the version; and `replace_pointer`. `XIndexBuffer`
has those of `xindex_buffer_impl.h`: the descent validated by lock byte and
version, the leaf lock, the splits that take locks from below, the leaf chain a
scan follows. A node a writer is changing is `torn`: what others read of it is
not fit for use. Both refine `LinearMap`, so `XIndexGroup` treats an access to a
record or a buffer as one step.

`XIndexRcu` has the loop of `rcu_barrier` status by status. Its grace period is
the set `owe` of `XIndexGroup` and `XIndexRecord`: the workers that have not
begun a new operation since the barrier began.

In `XIndexGroup` arrays and buffers are stores, from keys to payloads, to
`Removed`, to the store a record points to, or to `Absent`.

| Actions | Code |
|---|---|
| `Call`, `LoadRoot`, `LoadSlot`, `LoadNext` | `XIndex::get`, `put`, `remove`; `locate_group_pt1`, `locate_group_pt2` |
| `Array`, `Buffer`, `Temp`, `CheckFrozen`, `Insert`, `InsertTemp` | `Group::get`, `put`, `remove`, with the retry of `XIndex::put` (`Again`) |
| `ChangeModel`, `Compact`, `Merge`, `Split`, `MakeTemp`, `ShareTemp`, `SplitArrays` | the adjustments of `Root::do_adjustment` |
| `MergeKey`, `Publish`, `ReplaceKey`, `Free` | `merge_refs_internal`, the switch of the slot, `compact_phase_2`, and the frees |
| `NewRoot`, `Trim`, `DeleteRoot`, `End` | the root update of `XIndex::background` |

When an adjustment is made is up to the background thread: the code decides by
the errors of its models, in floating point, so the model lets it choose.

`LinearMap` keeps, for every pending operation, the bindings of its key since the
call (`seen`). A read or a failure must return one of them; a write takes effect
in one step. `map` is a history variable of the detailed modules, changed by the
step that makes a write visible.

## 3. Runs

| Run | Shows |
|---|---|
| `btree_trees` | two workers insert, look up and scan at the end of three trees: a full leaf as root; a root with one place left; three levels. Types, exclusion, stability, room, `KeysFindable`, `RootStands`, `ScanAscends`, refinement |
| `btree_live` | every lock is released; a thread left alone finishes |
| `btree_scan_complete` | *violated*: a scan misses the leaves behind a split leaf |
| `epoch_guard` | two threads that retire and one that reads: freed once, epochs close, nobody loses a node as long as epochs are published in time |
| `epoch_late` | *violated*: with a late thread, a node is freed while an operation has a pointer to it |
| `xindex_record` | two workers on one record while it is compacted: locks exclude, the pointer is never followed to a freed record, refinement, all return |
| `xindex_rcu` | three workers: while `exited` is not set the barrier is a grace period and nothing in use is freed |
| `xindex_rcu_second` | *violated*: the second index of a process frees what a worker uses |
| `xindex_compact` | two workers get, put and remove a key during two adjustments out of compaction and merge |
| `xindex_split` | one worker writes and one reads a key while its group is split, merged, compacted or gets other models; calls return and adjustments end |
| `xindex_split_stale` | *violated*: two puts of a key during a split; a removed key is read again |
| `xindex_buffer` | two workers on a full leaf, and on a full root above full leaves: children fit their bounds, scans ascend and are complete, refinement, all return |

What the violated properties say:

* `BTreeLeaf::split` links the new leaf behind the old one and does not pass on
  the old successor. What followed the leaf is not reached by scans any more,
  though lookups still find it.
* `enterCriticalSection` stores the epoch it loaded without looking again. The
  thread may then be two epochs behind, where `canAdvance` does not see it. The
  epoch comes round to the thread's number and frees what it reads.
* `terminate_bg` sets the global `config.exited`, and nothing resets it.
  `run_benchmark` builds one index after the other in one process, and from the
  second on `rcu_barrier` waits for nobody.
* `split_group_pt1` freezes the buffers of the new groups only. A worker with the
  old group and one with a new group can insert the same key into two buffers.

Two deviations of `btreeolc` are part of its abstract specification rather than
runs of their own: `put` of a present key changes nothing, against the upsert of
`indexInterface.h:29`; and `get` of an absent key may return either Boolean.

### Bounds

* `MaxNodes` leaves room for every split the workload can cause.
* `MaxVersion` is needed because two inserts can restart each other for ever,
  each time with a lock and an unlock: the versions have no bound of their own.
  The bound stops a thread only in front of its first lock, so no thread stops
  while it holds one. Its value leaves several restarts beyond the locks the
  operations need.
* `LeafMax` is 2 and `InnerMax` 5, the smallest sizes whose halves are not
  empty. Every path of the code (root leaf, root inner, inner below the root) is
  taken by one of the runs, and the interleavings of two workers cover every
  pair of one writer and one reader or writer. `MaxCalls` is 1 for two workers:
  the tree is loaded to the point where one operation of each suffices.
* `Batch` is 1 instead of 64, so that each retired node makes its thread want to
  advance. `MaxNodes` of 4 or 5 lets the epoch go round once.
* `CHECK_DEADLOCK FALSE` where workers stop after `MaxCalls`: in the runs of the
  B+-tree, the record, the buffer and RCU. In the group runs they never stop.
* `xindex_record` and `xindex_buffer` allow 3 calls in all: two that meet, and one
  that sees what they left. `Cap` is 3, the smallest odd node above one key.
* `MaxAdjust` is 2 in `xindex_compact` (a group that has been replaced is replaced
  again) and 1 in `xindex_split`.
* `xindex_split` has one writer: with two, `xindex_split_stale` shows the operations
  are not atomic. `MinSplit` is 2: the code has no such test, and a group with one
  array record would be split into two with the same pivot.

### Fairness

`FairSpec` assumes weak fairness of `Run(t)` for each thread: the operating
system schedules every thread that is inside an operation. Nothing is assumed of
`Call`, since a client may stop calling, and nothing beyond weak fairness, since
the code spins and yields and no lock is fair. For that reason no property says
that an operation finishes while others contend.

For `xindex` the same is assumed of each worker inside an operation and of the
background thread. `xindex_split` also assumes that workers go on calling. This
is the condition under which the barrier ends: `rcu_barrier` waits for every
worker to count up, and one that has finished its share of the work never does.
A put into a frozen buffer then retries until `exited` is set.

## 4. Theorems

All hold for any set of threads, keys and payloads and any node size the
assumptions admit (`SizeAssumption`: a leaf holds at least 2 entries, an inner
node at least 5; with keys and payloads of 8 bytes the code has 31 of both).

| Theorem | Statement |
|---|---|
| `TypeCorrect` | `Spec => []TypeOK` |
| `LocksExclude` | `Spec => []WriteLockExclusive` |
| `ReadersSeeStableNodes` | `Spec => UnlockedNodesStable` |
| `InsertsFindRoom` | `Spec => []RoomToInsert` |
| `EpochTypes` | `Spec => []TypeOK` |
| `NodesFreedOnce` | `Spec => []FreedOnce` |
| `EpochsStayClose` | `Spec => []EpochsClose` |
| `GuardsProtect` | `Spec => []SafeUnlessLate` |
| `RcuTypes` | `Spec => []TypeOK` |
| `BarrierIsGracePeriod` | `Spec => []GracePeriod` |
| `NothingFreedInUse` | `Spec => []FirstIndexSafe` |
| `RecordTypes` | `Spec => []TypeOK` |
| `RecordLocksExclude` | `Spec => []LockExclusive` |
| `PointersFollowedAreLive` | `Spec => []PointerLive` |
| `RecordsFreedUntouched` | `Spec => []FreedUntouched` |
| `RecordLinearizable` | `Spec => Linearizable` |

* `TInv` adds to the types that a thread past the load of `root` has a node, and
  one past its first inner node a parent: without it a step could dereference
  null.
* `LInv` adds to exclusion what a thread knows of the versions it noted: the
  version of a node it holds is the noted one with the lock bit, and versions
  noted for reading are unlocked. A compare-exchange that succeeds therefore
  takes a free lock. Each action is shown to be quiet, to take one lock or to
  release one (`Effect`), and `EffectKeeps` does the rest.
* `RInv` says that noted versions are not ahead of the nodes, and that a node
  which an insert found not full has room for as long as its version is the
  noted one. With `ReadersSeeStableNodes` a lock taken at that version finds
  the room still there.
* `EInv` says where the threads asked by `canAdvance` cannot be (`Asked`), and
  for every retired node with a reader how far the epoch is from coming round
  to its list (`Guarded`). These need `~late`; that nodes are freed once does
  not.
* `RcuInv` relates the status the barrier has read of a worker to the one it has
  now, and the version the worker uses to the versions published since.
* `RecInv` is the argument for the version word of a record. A record is settled
  when whoever holds its lock has counted the version up and is about to
  unlock (`Settled`). What a reader has noted is what the record has, as long as
  the version is the noted one and the record is settled (`Match`). A reader
  that finds the lock free therefore follows the pointer it has read, and not a
  payload taken for one. `Grace` says who can still get to the old record once
  the pointer is replaced: the workers the second barrier waits for.
* `LinInv` is the argument for linearizability. A removed record keeps its
  payload, so a payload read after a status without the removed flag was the
  record's at that time or at the time of the removal (`Noted`); this holds for
  the readers that ignore the lock too. Past the first barrier only operations
  that came through the new record, and have it locked, write the old one
  (`Drained`). So `replace_pointer`, which has the same lock, copies a record
  that nobody changes (`BgCopy`), and clearing the pointer flag changes nothing
  a caller can see. `NextLin` shows that every step is one of `LinearMap` or
  leaves its variables alone.

`MaxCalls` bounds only the runs: the theorems about the record hold for every
value of it. `RecInv` and `LinInv` hold on the instance of `xindex_record`.

Only model-checked: of the B+-tree `KeysFindable`, `RootStands`, `Linearizable`
and `ScanAscends`; the properties of `XIndexGroup` and `XIndexBuffer`; and all
liveness properties. `KeysFindable` and the refinement by the B+-tree rest on the
recursive search through the tree, and need induction over its height, which is
beyond the installed provers; liveness is beyond them too.

## 5. What is not modelled

* *Weak memory.* All steps are sequentially consistent. The version words of the
  B+-tree are sequentially consistent atomics in the code. `mLocalEpoch` is
  stored with release order, so hardware may delay the store past later loads;
  the model does not show that.
* *Obsolete nodes.* `writeUnlockObsolete` is never called; no node is freed in
  the B+-tree.
* *Retired threads.* The destructor that frees a thread's lists is left out.
* `remove` and `memory_consumption` of `btreeolc` are stubs that return a constant.
* *xindex.* Scans across groups; the search inside an array and the RMI, which
  give the right place in one step; `sequential_insert`, which the benchmark
  switches off; several background threads; a number of workers that differs
  between the indexes of a process.
* *alexol, tree.* Leaf locks, version words and the replacement of a leaf.
* The driver, whose parallel loop is the `Workload` of each model.
* Linear models, cost models and fanout trees compute with floating point.
* Adapters that forward to other projects, flags, key files and CSV output.

## 6. Plan

1. Scans of `xindex` across groups (`scan_2_way`, `scan_3_way`, `Root::scan`),
   as a reader of `XIndexGroup`.
2. The leaf locks of `alexol`, composed with `EpochReclamation`.
3. Proofs: `RootStands`; that `XIndexBuffer` implements `LinearMap`, along the lines
   of `XIndexRecordLinear`.
