----------------------------- MODULE XIndexRcu ------------------------------
(***************************************************************************)
(* The RCU of XIndex, xindex/src/xindex_util.h: a worker counts up its     *)
(* status at the start of every operation and at every retry of a put, and *)
(* rcu_barrier waits until each status has passed the value it read.       *)
(*                                                                         *)
(* The background thread uses it in one pattern: it publishes a new        *)
(* version of an object (a group, a root), runs the barrier, and frees the *)
(* old version.  The driver creates one index after the other in the same  *)
(* process; config, with the statuses and the flag exited, is global.      *)
(***************************************************************************)
EXTENDS Integers, FiniteSets

CONSTANTS
    Worker,
    Indexes,    \* the number of indexes the driver creates, one by one
    MaxCalls,   \* bound: statuses a worker counts up to for each index
    MaxVersions \* bound: versions of the object

ASSUME RcuAssumption == /\ Indexes \in Nat \ {0}
                        /\ MaxCalls \in Nat /\ MaxVersions \in Nat \ {0}

VARIABLES
    status,     \* config.rcu_status[w].status
    exited,     \* config.exited
    prev,       \* prev_status of the barrier
    todo,       \* workers the loop the barrier is in has not done yet
    bg,         \* where the background thread is
    current,    \* versions 1 .. current have been made, the last is published
    freed,      \* versions that were freed
    pc,         \* pc[w]: where worker w is
    held,       \* held[w]: the version it works on, or 0
    early,      \* history: workers in an operation from before the barrier
    index       \* the index the driver is at

shared == <<status, exited>>
barrier == <<prev, todo, bg>>
object == <<current, freed>>
vars == <<shared, barrier, object, pc, held, early, index>>

Version == 1 .. MaxVersions

-----------------------------------------------------------------------------
Init == /\ status = [w \in Worker |-> 0]
        /\ exited = FALSE
        /\ prev = [w \in Worker |-> 0]
        /\ todo = {}
        /\ bg = "publish"
        /\ current = 1
        /\ freed = {}
        /\ pc = [w \in Worker |-> "idle"]
        /\ held = [w \in Worker |-> 0]
        /\ early = {}
        /\ index = 1

\* rcu_progress
Progress(w) == status' = [status EXCEPT ![w] = @ + 1]

MayCall(w) == status[w] < index * MaxCalls

\* get, put, remove and scan of XIndex begin
Begin(w) == /\ pc[w] = "idle" /\ MayCall(w)
            /\ Progress(w)
            /\ pc' = [pc EXCEPT ![w] = "load"]
            /\ UNCHANGED <<exited, barrier, object, held, early, index>>

\* the worker follows the published pointer
Load(w) == /\ pc[w] = "load"
           /\ held' = [held EXCEPT ![w] = current]
           /\ pc' = [pc EXCEPT ![w] = "use"]
           /\ UNCHANGED <<shared, barrier, object, early, index>>

\* put is told to retry
Retry(w) == /\ pc[w] = "use" /\ MayCall(w)
            /\ Progress(w)
            /\ pc' = [pc EXCEPT ![w] = "load"]
            /\ held' = [held EXCEPT ![w] = 0]
            /\ early' = early \ {w}
            /\ UNCHANGED <<exited, barrier, object, index>>

End(w) == /\ pc[w] = "use"
          /\ pc' = [pc EXCEPT ![w] = "idle"]
          /\ held' = [held EXCEPT ![w] = 0]
          /\ early' = early \ {w}
          /\ UNCHANGED <<shared, barrier, object, index>>

-----------------------------------------------------------------------------
(* The background thread.                                                  *)

\* a new version is published, and rcu_barrier is called
Publish == /\ bg = "publish" /\ current < MaxVersions
           /\ current' = current + 1
           /\ bg' = "read"
           /\ todo' = Worker
           /\ early' = {w \in Worker : pc[w] # "idle"}
           /\ UNCHANGED <<shared, prev, freed, pc, held, index>>

\* the first loop: prev_status[w_i] = status
ReadStatus(w) == /\ bg = "read" /\ w \in todo
                 /\ prev' = [prev EXCEPT ![w] = status[w]]
                 /\ \/ todo = {w} /\ todo' = Worker /\ bg' = "wait"
                    \/ todo # {w} /\ todo' = todo \ {w} /\ UNCHANGED bg
                 /\ UNCHANGED <<shared, object, pc, held, early, index>>

\* Mutated: the barrier waits while status < prev_status, not <=.
PassedEqual(w) == status[w] >= prev[w] \/ exited

\* the second loop has nothing more to wait for at w
Passed(w) == status[w] > prev[w] \/ exited

WaitFor(w) == /\ bg = "wait" /\ w \in todo /\ Passed(w)
              /\ todo' = todo \ {w}
              /\ bg' = IF todo = {w} THEN "free" ELSE bg
              /\ UNCHANGED <<shared, prev, object, pc, held, early, index>>

\* Mutated: the new version is freed.
FreeNew == /\ bg = "free"
           /\ freed' = freed \cup {current}
           /\ bg' = "publish"
           /\ UNCHANGED <<shared, prev, todo, current, pc, held, early, index>>

\* delete of the version that was replaced
Free == /\ bg = "free"
        /\ freed' = freed \cup {current - 1}
        /\ bg' = "publish"
        /\ UNCHANGED <<shared, prev, todo, current, pc, held, early, index>>

-----------------------------------------------------------------------------
\* the parallel loop is over
Joined == \A w \in Worker : pc[w] = "idle" /\ ~MayCall(w)

\* ~XIndex: terminate_bg sets exited; then the constructor of the next index.
\* rcu_init keeps the statuses it finds, and nothing resets exited.
NextIndex == /\ Joined /\ index < Indexes /\ current < MaxVersions
             /\ exited' = TRUE
             /\ index' = index + 1
             /\ current' = current + 1
             /\ bg' = "publish" /\ todo' = {} /\ early' = {}
             /\ UNCHANGED <<status, prev, freed, pc, held>>

Next == \/ \E w \in Worker : \/ Begin(w) \/ Load(w) \/ Retry(w) \/ End(w)
                             \/ ReadStatus(w) \/ WaitFor(w)
        \/ Publish \/ Free \/ NextIndex

Spec == Init /\ [][Next]_vars

-----------------------------------------------------------------------------
(* Properties.                                                             *)

\* The types of the variables: the versions that were freed are older than the
\* one that is published.
TypeOK == /\ status \in [Worker -> Nat] /\ prev \in [Worker -> Nat]
          /\ exited \in BOOLEAN
          /\ todo \subseteq Worker /\ early \subseteq Worker
          /\ bg \in {"publish", "read", "wait", "free"}
          /\ current \in Version /\ freed \subseteq 1 .. (current - 1)
          /\ pc \in [Worker -> {"idle", "load", "use"}]
          /\ held \in [Worker -> 0 .. current]
          /\ index \in 1 .. Indexes

\* rcu_barrier is a grace period: when it returns, no worker is still in an
\* operation, or a round of a put, that began before it, as long as exited has
\* not been set.
GracePeriod == bg = "free" /\ ~exited => early = {}

\* "make sure no one is accessing the old data": no worker works on a version
\* that was freed.
OldDataUnaccessed == \A w \in Worker : held[w] \notin freed

\* It holds for the first index of the process.
FirstIndexSafe == ~exited => OldDataUnaccessed

=============================================================================
