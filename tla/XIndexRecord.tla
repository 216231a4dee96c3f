---------------------------- MODULE XIndexRecord ----------------------------
(***************************************************************************)
(* A record of XIndex, AtomicVal of xindex/src/xindex_util.h: a payload or *)
(* a pointer to another record, and a status word with a lock bit, a       *)
(* removed bit, a pointer bit and a version.  Readers take no lock: they   *)
(* read the status, the value and the status again.                        *)
(*                                                                         *)
(* The module follows one record through a compaction.  At first workers   *)
(* use the old record.  The background thread publishes a new array whose  *)
(* record points to the old one, waits for the workers that may still have *)
(* the old array, replaces the pointer by the value, waits again, and      *)
(* frees the old record.  A step is one access to a status word or a value *)
(* (a payload is one machine word).  The lock spins in its compare-and-    *)
(* swap, so taking it is a step that waits until the bit is clear.         *)
(***************************************************************************)
EXTENDS Integers, FiniteSets

CONSTANTS
    Worker, Bg,     \* the workers and the background thread
    Val,
    Absent,         \* the outcome of reading a removed record
    Workload,       \* the operations workers may call
    MaxCalls        \* bound: operations the workers start

Thread == Worker \cup {Bg}
Record == {"old", "new"}
Null == "null"

\* A call names the function; plain tells the variants that ignore pointers,
\* which the delta buffer uses on its own records.
Ops == [fn : {"get", "update", "remove"}, key : {"k"}, val : Val]

ASSUME RecordAssumption == /\ Bg \notin Worker /\ Absent \notin Val /\ Val # {}
                           /\ Val \cap Record = {}
                           /\ Workload \subseteq Ops /\ MaxCalls \in Nat

VARIABLES
    val,        \* val[r]: the union, a payload or the name of a record
    status,     \* status[r]: the status word
    pc,         \* pc[t]: where t is
    op,         \* op[t]: the function it runs
    plain,      \* plain[t]: it runs the variant that ignores pointers
    rec,        \* rec[t]: the record it works on
    nested,     \* nested[t]: it came there from the new record, which it has locked
    s,          \* s[t], w[t]: its local variables status and val_union
    w,
    seen, ret,  \* history, as in LinearMap
    calls,      \* operations started
    stage,      \* how far the compaction is
    owe         \* workers the background thread waits for in rcu_barrier

words == <<val, status>>
local == <<rec, nested, s, w>>
client == <<op, plain, calls>>
vars == <<words, local, client, pc, seen, ret, stage, owe>>

-----------------------------------------------------------------------------
At(t, l) == pc[t] = l
Goto(t, l) == pc' = [pc EXCEPT ![t] = l]

NoOp == [fn |-> "none"]
NoReturn == [ok |-> FALSE]

\* what t's operation returns is decided
Result(t, ok, x) == /\ ret' = [thread |-> t, ok |-> ok, out |-> x]
                    /\ op' = [op EXCEPT ![t] = NoOp]
\* a step that decides nothing
Quiet == ret' = NoReturn /\ UNCHANGED client

Set(r, f, b) == status' = [status EXCEPT ![r][f] = b]

\* What the record holds, through the pointer while there is one.
Holder == IF status["new"].ptr THEN "old" ELSE "new"
Contents == IF status[Holder].removed THEN Absent ELSE val[Holder]

Clear == [locked |-> FALSE, removed |-> FALSE, ptr |-> FALSE, version |-> 0]

Init == /\ \E v \in Val : val = [r \in Record |-> IF r = "old" THEN v ELSE "old"]
        /\ status = [r \in Record |-> [Clear EXCEPT !.ptr = (r = "new")]]
        /\ pc = [t \in Thread |-> "idle"]
        /\ op = [t \in Thread |-> NoOp]
        /\ plain = [t \in Thread |-> FALSE]
        /\ rec = [t \in Thread |-> Null]
        /\ nested = [t \in Thread |-> FALSE]
        /\ s = [t \in Thread |-> Clear]
        /\ w = [t \in Thread |-> Null]
        /\ ret = NoReturn
        /\ seen = [t \in Thread |-> {}]
        /\ calls = 0
        /\ stage = "old"
        /\ owe = {}

\* A worker finds the record in the array, or the buffer, of the group it has
\* located: before the new group is published that is the old record.
Call(t) ==
    /\ t \in Worker /\ At(t, "idle") /\ calls < MaxCalls
    /\ \E o \in Workload : op' = [op EXCEPT ![t] = o]
    /\ rec' = [rec EXCEPT ![t] = IF stage = "old" THEN "old" ELSE "new"]
    /\ \E b \in (IF stage = "old" THEN BOOLEAN ELSE {FALSE}) :
           plain' = [plain EXCEPT ![t] = b]
    /\ ret' = NoReturn
    /\ Goto(t, IF op'[t].fn = "get" THEN "status" ELSE "lock")
    /\ calls' = calls + 1
    /\ UNCHANGED <<words, nested, s, w, stage, owe>>

\* The operation is over, its thread has left the record.
Return(t) == Goto(t, "idle") /\ owe' = owe \ {t}
Forget(t) == /\ s' = [s EXCEPT ![t] = Clear]
             /\ w' = [w EXCEPT ![t] = Null]
             /\ rec' = [rec EXCEPT ![t] = Null]

-----------------------------------------------------------------------------
(* read and read_ignoring_ptr                                              *)

LoadStatus(t) == /\ At(t, "status")
                 /\ s' = [s EXCEPT ![t] = status[rec[t]]]
                 /\ Goto(t, "val")
                 /\ UNCHANGED <<words, rec, nested, w, stage, owe>> /\ Quiet

\* the load of val; read_ignoring_ptr looks at the lock of the first status
LoadVal(t) == /\ At(t, "val")
              /\ w' = [w EXCEPT ![t] = val[rec[t]]]
              /\ Goto(t, IF plain[t] /\ s[t].locked THEN "status" ELSE "again")
              /\ UNCHANGED <<words, rec, nested, s, stage, owe>> /\ Quiet

\* Mutated: the second status is not looked at.
StableAlways(t) == TRUE

\* read looks at the lock of the second status, both at the version
Stable(t) == /\ s[t].version = status[rec[t]].version
             /\ ~plain[t] => ~status[rec[t]].locked

\* the second load of status; a pointer is followed, also by replace_pointer
LoadAgain(t) ==
    /\ At(t, "again")
    /\ \/ /\ ~Stable(t)
          /\ Goto(t, "status")
          /\ Quiet /\ UNCHANGED <<rec, s, w, owe>>
       \/ /\ Stable(t) /\ s[t].ptr /\ ~plain[t]
          /\ rec' = [rec EXCEPT ![t] = w[t]]
          /\ Goto(t, "status")
          /\ Quiet /\ UNCHANGED <<s, w, owe>>
       \/ /\ Stable(t) /\ ~(s[t].ptr /\ ~plain[t]) /\ t \in Worker
          /\ Result(t, ~s[t].removed, IF s[t].removed THEN Absent ELSE w[t])
          /\ Return(t) /\ Forget(t) /\ UNCHANGED <<plain, calls>>
       \/ /\ Stable(t) /\ ~(s[t].ptr /\ ~plain[t]) /\ t = Bg
          /\ Goto(t, "store")
          /\ Quiet /\ UNCHANGED <<rec, s, w, owe>>
    /\ UNCHANGED <<words, nested, stage>>

-----------------------------------------------------------------------------
(* update, remove, their variants, and the frame of replace_pointer        *)

\* Mutated: taken whether it is free or not.
FreeAlways(r) == TRUE
\* cmpxchg expects the status without the lock bit
Free(r) == ~status[r].locked

Lock(t) == /\ At(t, "lock") /\ Free(rec[t])
           /\ Set(rec[t], "locked", TRUE)
           /\ Goto(t, IF t = Bg THEN "status" ELSE "write")
           /\ rec' = [rec EXCEPT ![t] = IF t = Bg THEN val["new"] ELSE @]
           /\ UNCHANGED <<val, nested, s, w, stage, owe>> /\ Quiet

\* Mutated: a removed record can be updated.
WritableRemoved(r) == TRUE
Writable(r) == ~status[r].removed

\* under the lock: follow the pointer, or write unless removed
Write(t) ==
    LET r == rec[t] IN
    /\ At(t, "write")
    /\ \/ /\ status[r].ptr /\ ~plain[t]
          /\ rec' = [rec EXCEPT ![t] = val[r]]
          /\ nested' = [nested EXCEPT ![t] = TRUE]
          /\ Goto(t, "lock")
          /\ Quiet /\ UNCHANGED words
       \/ /\ ~(status[r].ptr /\ ~plain[t]) /\ Writable(r)
          /\ \/ op[t].fn = "update" /\ val' = [val EXCEPT ![r] = op[t].val]
                                    /\ UNCHANGED status
             \/ op[t].fn = "remove" /\ Set(r, "removed", TRUE) /\ UNCHANGED val
          /\ Result(t, TRUE, Absent)
          /\ Goto(t, "bump")
          /\ UNCHANGED <<rec, nested, plain, calls>>
       \/ /\ ~(status[r].ptr /\ ~plain[t]) /\ ~Writable(r)
          /\ Result(t, FALSE, Absent)
          /\ Goto(t, "bump")
          /\ UNCHANGED <<words, rec, nested, plain, calls>>
    /\ UNCHANGED <<s, w, stage, owe>>

\* incr_version
Bump(t) == /\ At(t, "bump")
           /\ Set(rec[t], "version", status[rec[t]].version + 1)
           /\ Goto(t, "unlock")
           /\ UNCHANGED <<val, local, stage, owe>> /\ Quiet


\* unlock; from the old record back to the new one that was locked first
Unlock(t) == /\ At(t, "unlock")
             /\ Set(rec[t], "locked", FALSE)
             /\ \/ /\ nested[t]
                   /\ nested' = [nested EXCEPT ![t] = FALSE]
                   /\ rec' = [rec EXCEPT ![t] = "new"]
                   /\ Goto(t, "bump")
                   /\ UNCHANGED <<s, w, stage, owe>>
                \/ /\ ~nested[t]
                   /\ Return(t) /\ Forget(t)
                   /\ stage' = IF t = Bg THEN "replaced" ELSE stage
                   /\ UNCHANGED nested
             /\ UNCHANGED <<val>> /\ Quiet

-----------------------------------------------------------------------------
(* The background thread: publication, barriers and replace_pointer.       *)

Busy == {t \in Worker : ~At(t, "idle")}

\* *group = new_group, and the barrier begins
Publish == /\ stage = "old"
           /\ stage' = "published" /\ owe' = Busy
           /\ UNCHANGED <<words, local, pc>> /\ Quiet

\* Mutated: without the barrier.
BarrierDoneAtOnce == TRUE
BarrierDone == owe = {}

\* compact_phase_2 calls replace_pointer
StartReplace == /\ stage = "published" /\ At(Bg, "idle") /\ BarrierDone
                /\ rec' = [rec EXCEPT ![Bg] = "new"]
                /\ Goto(Bg, "lock")
                /\ UNCHANGED <<words, nested, s, w, stage, owe>> /\ Quiet

\* val.ptr->read has written val.val
Store == /\ At(Bg, "store")
         /\ val' = [val EXCEPT !["new"] = w[Bg]]
         /\ rec' = [rec EXCEPT ![Bg] = "new"]
         /\ Goto(Bg, IF s[Bg].removed THEN "mark" ELSE "unptr")
         /\ UNCHANGED <<status, nested, s, w, stage, owe>> /\ Quiet

\* Mutated: a removed record stays a pointer.
MarkOnly == /\ At(Bg, "mark")
            /\ Set("new", "removed", TRUE)
            /\ Goto(Bg, "bump")
            /\ UNCHANGED <<val, local, stage, owe>> /\ Quiet

\* set_removed
Mark == /\ At(Bg, "mark")
        /\ Set("new", "removed", TRUE)
        /\ Goto(Bg, "unptr")
        /\ UNCHANGED <<val, local, stage, owe>> /\ Quiet

\* unset_is_ptr
Unptr == /\ At(Bg, "unptr")
         /\ Set("new", "ptr", FALSE)
         /\ Goto(Bg, "bump")
         /\ UNCHANGED <<val, local, stage, owe>> /\ Quiet

\* the second barrier, then free_data
SecondBarrier == /\ stage = "replaced"
                 /\ stage' = "waiting" /\ owe' = Busy
                 /\ UNCHANGED <<words, local, pc>> /\ Quiet
FreeData == /\ stage = "waiting" /\ BarrierDone
             /\ stage' = "freed"
             /\ UNCHANGED <<words, local, pc, owe>> /\ Quiet

-----------------------------------------------------------------------------
Step(t) == \/ LoadStatus(t) \/ LoadVal(t) \/ LoadAgain(t)
           \/ Lock(t) \/ Write(t) \/ Bump(t) \/ Unlock(t)
Compact == StartReplace \/ Store \/ Mark \/ Unptr \/ Publish \/ SecondBarrier \/ FreeData

\* seen notes the contents after each step for the operations that are pending
Observe == seen' = [t \in Thread |-> IF op'[t] = NoOp THEN {} ELSE seen[t] \cup {Contents'}]

Next == /\ \/ \E t \in Thread : Call(t) \/ Step(t)
           \/ Compact
        /\ Observe

Spec == Init /\ [][Next]_vars

\* Every thread inside an operation is scheduled; no lock is fair.
FairSpec == Spec /\ WF_vars(Compact /\ Observe)
                 /\ \A t \in Thread : WF_vars(Step(t) /\ Observe)

-----------------------------------------------------------------------------
(* Properties.                                                             *)

\* The types of the variables.
TypeOK == /\ val \in [Record -> Val \cup {"old"}]
          /\ status \in [Record -> [locked : BOOLEAN, removed : BOOLEAN,
                                    ptr : BOOLEAN, version : Nat]]
          /\ pc \in [Thread -> {"idle", "status", "val", "again", "lock", "write", "bump",
                                "unlock", "store", "mark", "unptr"}]
          /\ op \in [Thread -> Ops \cup {NoOp}] /\ plain \in [Thread -> BOOLEAN]
          /\ rec \in [Thread -> Record \cup {Null}] /\ nested \in [Thread -> BOOLEAN]
          /\ w \in [Thread -> Val \cup {"old", Null}]
          /\ stage \in {"old", "published", "replaced", "waiting", "freed"}
          /\ owe \subseteq Worker

\* t has taken the lock of r and not given it back.
Holds(t, r) == \/ At(t, "write") /\ rec[t] = r
               \/ pc[t] \in {"bump", "unlock"} /\ rec[t] = r
               \/ nested[t] /\ r = "new"
               \/ t = Bg /\ pc[t] \in {"status", "val", "again", "store", "mark", "unptr"}
                         /\ r = "new"

\* The lock bit excludes: a record has at most one holder, and the bit is set
\* exactly while it has one, also when an operation on the new record goes on
\* to lock the old one.
LockExclusive == \A r \in Record :
    /\ \A t, u \in Thread : Holds(t, r) /\ Holds(u, r) => t = u
    /\ status[r].locked <=> \E t \in Thread : Holds(t, r)

\* assert(!removed(status)) in read: a reader that is about to follow a pointer
\* has not seen the two flags of a replace_pointer that is under way.
PointerLive == \A t \in Thread : At(t, "again") /\ Stable(t) /\ s[t].ptr => ~s[t].removed

\* "make sure no one is accessing the old data": once free_data has run, no
\* thread works on the old record, not even a reader that found the pointer
\* before it was replaced.
FreedUntouched == stage = "freed" =>
    \A t \in Thread : rec[t] # "old" /\ (At(t, "again") /\ Stable(t) => w[t] # "old")

LM == INSTANCE LinearMap WITH Key <- {"k"}, map <- [k \in {"k"} |-> Contents]

\* "semantics: atomically read the value and the `removed` flag": read, update
\* and remove each take effect at one instant, across the replacement of the
\* pointer by the value, and a removed record never comes back.
Linearizable == LM!Spec

\* Operations nest locks only from the new to the old record and readers wait
\* only for writers: when finitely many are called, all return, and the
\* compaction gets to the end.
AllReturn == <>[](stage = "freed" /\ \A t \in Thread : At(t, "idle"))

=============================================================================
