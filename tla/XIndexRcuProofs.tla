-------------------------- MODULE XIndexRcuProofs ---------------------------
(***************************************************************************)
(* The barrier of XIndex is a grace period, and nothing is freed under a   *)
(* worker, for any number of workers, operations and versions, until       *)
(* exited is set.                                                          *)
(***************************************************************************)
EXTENDS XIndexRcu, TLAPS

\* The inductive invariant.  A worker that is still in an operation from before
\* the barrier has not counted up its status since, so its status is the one
\* the barrier has read (or will read) and the barrier still waits for it.
\* What a worker holds is the published version, or the one just replaced, and
\* then its operation is an early one.
RcuInv ==
    /\ TypeOK
    /\ bg = "publish" => freed \subseteq 1 .. (current - 1)
    /\ bg # "publish" => current > 1 /\ freed \subseteq 1 .. (current - 2)
    /\ \A w \in Worker : pc[w] # "use" => held[w] = 0
    /\ ~exited =>
         /\ \A w \in Worker : pc[w] = "use" =>
              \/ held[w] = current
              \/ bg # "publish" /\ held[w] = current - 1 /\ w \in early
         /\ bg \in {"read", "wait", "free"} =>
              \A w \in early : pc[w] # "idle"
         /\ bg = "read" => \A w \in early : w \notin todo => prev[w] = status[w]
         /\ bg = "wait" => \A w \in early : w \in todo /\ prev[w] = status[w]
         /\ bg = "free" => early = {}

\* Init of the model establishes the inductive invariant.
LEMMA RcuInit == Init => RcuInv
<1>1. 1 \in Version /\ 1 \in 1 .. Indexes
  BY RcuAssumption DEF Version
<1>2. ASSUME Init PROVE TypeOK
  <2>1. /\ status \in [Worker -> Nat] /\ prev \in [Worker -> Nat]
        /\ held \in [Worker -> 0 .. current]
    BY <1>2 DEF Init
  <2>2. pc \in [Worker -> {"idle", "load", "use"}]
    BY <1>2 DEF Init
  <2> QED BY <1>1, <1>2, <2>1, <2>2 DEF Init, TypeOK
<1> QED BY <1>2 DEF Init, RcuInv

\* Every step of a worker or of the background thread keeps the inductive
\* invariant: the actions of rcu_progress, rcu_barrier and their callers.
LEMMA RcuStep == RcuInv /\ [Next]_vars => RcuInv'
<1> SUFFICES ASSUME RcuInv, [Next]_vars PROVE RcuInv'
    OBVIOUS
<1>1. ASSUME NEW w \in Worker, Begin(w) PROVE RcuInv'
  <2>1. w \notin early \/ exited \/ bg = "publish"
    BY <1>1 DEF Begin, RcuInv, TypeOK
  <2>2. TypeOK'
    BY <1>1 DEF Begin, Progress, RcuInv, TypeOK, barrier, object
  <2> QED BY <1>1, <2>1, <2>2 DEF Begin, Progress, RcuInv, TypeOK, barrier, object
<1>2. ASSUME NEW w \in Worker, Load(w) PROVE RcuInv'
  <2>1. TypeOK'
    BY <1>2 DEF Load, RcuInv, TypeOK, barrier, object, shared, Version
  <2> QED BY <1>2, <2>1 DEF Load, RcuInv, TypeOK, barrier, object, shared
<1>3. ASSUME NEW w \in Worker, Retry(w) PROVE RcuInv'
  <2>1. TypeOK'
    BY <1>3, RcuAssumption DEF Retry, Progress, RcuInv, TypeOK, barrier, object, Version
  <2> QED BY <1>3, <2>1 DEF Retry, Progress, RcuInv, TypeOK, barrier, object
<1>4. ASSUME NEW w \in Worker, End(w) PROVE RcuInv'
  <2>1. TypeOK'
    BY <1>4, RcuAssumption DEF End, RcuInv, TypeOK, barrier, object, shared, Version
  <2> QED BY <1>4, <2>1 DEF End, RcuInv, TypeOK, barrier, object, shared
<1>5. ASSUME NEW w \in Worker, ReadStatus(w) PROVE RcuInv'
  <2>1. TypeOK'
    BY <1>5 DEF ReadStatus, RcuInv, TypeOK, object, shared
  <2> QED BY <1>5, <2>1 DEF ReadStatus, RcuInv, TypeOK, object, shared
<1>6. ASSUME NEW w \in Worker, WaitFor(w) PROVE RcuInv'
  <2>1. TypeOK'
    BY <1>6 DEF WaitFor, RcuInv, TypeOK, object, shared
  <2>2. w \notin early \/ exited
    BY <1>6 DEF WaitFor, Passed, RcuInv, TypeOK
  <2> QED BY <1>6, <2>1, <2>2 DEF WaitFor, RcuInv, TypeOK, object, shared
<1>7. CASE Publish
  <2>0. held' \in [Worker -> 0 .. current']
    BY <1>7, RcuAssumption DEF Publish, RcuInv, TypeOK, shared, Version
  <2>1. TypeOK'
    BY <1>7, <2>0, RcuAssumption DEF Publish, RcuInv, TypeOK, shared, Version
  <2> QED BY <1>7, <2>1 DEF Publish, RcuInv, TypeOK, shared, Version
<1>8. CASE Free
  <2>1. TypeOK'
    BY <1>8 DEF Free, RcuInv, TypeOK, shared, Version
  <2> QED BY <1>8, <2>1 DEF Free, RcuInv, TypeOK, shared, Version
<1>9. CASE NextIndex
  <2>0. held' \in [Worker -> 0 .. current']
    BY <1>9, RcuAssumption DEF NextIndex, RcuInv, TypeOK, Version
  <2>1. TypeOK'
    BY <1>9, <2>0, RcuAssumption DEF NextIndex, RcuInv, TypeOK, Version
  <2> QED BY <1>9, <2>1 DEF NextIndex, RcuInv, TypeOK, Version
<1>10. CASE UNCHANGED vars
  BY <1>10 DEF vars, RcuInv, TypeOK, barrier, object, shared
<1> QED BY <1>1, <1>2, <1>3, <1>4, <1>5, <1>6, <1>7, <1>8, <1>9, <1>10 DEF Next

\* The inductive invariant holds of every reachable state of the model of
\* rcu_barrier and its users.
LEMMA RcuInvariant == Spec => []RcuInv
BY RcuInit, RcuStep, PTL DEF Spec

\* The types of the model of the RCU.
THEOREM RcuTypes == Spec => []TypeOK
<1>1. RcuInv => TypeOK
  BY DEF RcuInv
<1> QED BY <1>1, RcuInvariant, PTL

\* rcu_barrier is a grace period, for any number of workers and operations, as
\* long as exited has not been set.
THEOREM BarrierIsGracePeriod == Spec => []GracePeriod
<1>1. RcuInv => GracePeriod
  BY DEF RcuInv, GracePeriod
<1> QED BY <1>1, RcuInvariant, PTL

\* No worker is on a version the background thread has freed after the barrier,
\* for any number of workers, operations and versions of the first index.
THEOREM NothingFreedInUse == Spec => []FirstIndexSafe
<1>1. RcuInv => FirstIndexSafe
  BY DEF RcuInv, TypeOK, FirstIndexSafe, OldDataUnaccessed, Version
<1> QED BY <1>1, RcuInvariant, PTL
=============================================================================
