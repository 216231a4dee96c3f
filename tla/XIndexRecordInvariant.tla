------------------------ MODULE XIndexRecordInvariant -----------------------
(***************************************************************************)
(* The inductive invariant RecInv of XIndexRecord, for any number of       *)
(* workers and payloads: what it says, how a step of one thread leaves the *)
(* others alone, and that calls and the steps of read keep it.             *)
(***************************************************************************)
EXTENDS XIndexRecord, TLAPS

Reading == {"status", "val", "again"}
Writing == {"lock", "write", "bump", "unlock"}

\* Where a worker is, and which record it has there.
WorkerShape(t) ==
    /\ pc[t] \in {"idle"} \cup Reading \cup Writing
    /\ pc[t] = "idle" => rec[t] = Null
    /\ pc[t] # "idle" => rec[t] \in Record
    /\ nested[t] => pc[t] \in Writing /\ rec[t] = "old" /\ ~plain[t]
    /\ plain[t] /\ pc[t] # "idle" => rec[t] = "old"

\* The background thread reads the old record while it has locked the new one.
BgShape ==
    /\ pc[Bg] # "write" /\ ~nested[Bg] /\ ~plain[Bg]
    /\ pc[Bg] = "idle" => rec[Bg] = Null
    /\ pc[Bg] \in Reading \cup {"store"} => rec[Bg] = "old"
    /\ pc[Bg] \in {"lock", "mark", "unptr", "bump", "unlock"} => rec[Bg] = "new"
    /\ pc[Bg] # "idle" => stage = "published"
    /\ pc[Bg] = "store" => w[Bg] \in Val

\* The old record is never a pointer; the new one is until replace_pointer has
\* cleared the flag, and then it has a payload.
WordsShape ==
    /\ val["old"] \in Val /\ ~status["old"].ptr
    /\ status["new"].ptr <=> stage \in {"old", "published"} /\ pc[Bg] \notin {"bump", "unlock"}
    /\ val["new"] = "old" <=> status["new"].ptr /\ pc[Bg] \notin {"mark", "unptr"}
    /\ status["new"].ptr /\ status["new"].removed => pc[Bg] = "unptr"

\* Nobody is about to change r before the version is counted up.
Settled(r) == \A u \in Thread : Holds(u, r) => pc[u] = "unlock" /\ rec[u] = r

\* What a reader has noted is what the record has, if the version is the noted
\* one and the record is settled.
Match(t) == pc[t] \in {"val", "again"} =>
    /\ s[t].ptr => rec[t] = "new"
    /\ pc[t] = "again" /\ rec[t] = "old" => w[t] \in Val
    /\ s[t].version <= status[rec[t]].version
    /\ s[t].version = status[rec[t]].version /\ Settled(rec[t]) =>
          /\ s[t].ptr = status[rec[t]].ptr
          /\ s[t].removed = status[rec[t]].removed
          /\ pc[t] = "again" => w[t] = val[rec[t]]

\* After the pointer was replaced, only the workers the second barrier waits
\* for can get to the old record.
Grace(t) == stage \in {"waiting", "freed"} =>
    \/ stage = "waiting" /\ t \in owe
    \/ /\ rec[t] # "old"
       /\ pc[t] \in {"val", "again"} => ~s[t].ptr
       /\ pc[t] = "again" => w[t] # "old"

StatusWord == [locked : BOOLEAN, removed : BOOLEAN, ptr : BOOLEAN, version : Nat]

\* The inductive invariant.
RecInv == /\ TypeOK /\ s \in [Thread -> StatusWord]
          /\ \A t \in Worker : WorkerShape(t) /\ Grace(t)
          /\ BgShape /\ WordsShape
          /\ LockExclusive
          /\ \A t \in Thread : Match(t)

-----------------------------------------------------------------------------
(* What a step of t does to the others.                                    *)

\* The step leaves u alone.
Same(u) == /\ pc'[u] = pc[u] /\ rec'[u] = rec[u] /\ nested'[u] = nested[u]
           /\ plain'[u] = plain[u] /\ s'[u] = s[u] /\ w'[u] = w[u]

\* The version of r has been counted up, or r is as it was or not settled.
Kept(r) ==
    \/ status'[r].version > status[r].version
    \/ /\ status'[r].version = status[r].version
       /\ Settled(r)' => /\ Settled(r) /\ val'[r] = val[r]
                         /\ status'[r].ptr = status[r].ptr
                         /\ status'[r].removed = status[r].removed

\* A record is settled after a step of t only if it was before, or t had its
\* lock and gives it back.
LEMMA SettledBefore ==
    ASSUME NEW t \in Thread, \A u \in Thread \ {t} : Same(u), NEW r \in Record,
           Holds(t, r) => \/ pc[t] = "unlock" /\ rec[t] = r
                          \/ Holds(t, r)' /\ ~(pc'[t] = "unlock" /\ rec'[t] = r)
    PROVE  Settled(r)' => Settled(r)
<1> SUFFICES ASSUME Settled(r)', NEW u \in Thread, Holds(u, r)
             PROVE  pc[u] = "unlock" /\ rec[u] = r
  BY DEF Settled
<1>1. CASE u = t
  BY <1>1 DEF Settled
<1>2. CASE u # t
  BY <1>2 DEF Settled, Same, Holds, At
<1> QED
  BY <1>1, <1>2

\* What a reader has noted stays right when another thread takes a step.
LEMMA MatchKept ==
    ASSUME RecInv, status' \in [Record -> StatusWord], \A r \in Record : Kept(r),
           NEW u \in Thread, Same(u)
    PROVE  Match(u)'
<1> SUFFICES ASSUME pc[u] \in {"val", "again"} PROVE Match(u)'
  BY DEF Match, Same
<1>1. rec[u] \in Record
  BY DEF RecInv, WorkerShape, BgShape, Reading, Thread, Record
<1>2. /\ s[u].version \in Nat /\ status[rec[u]].version \in Nat
      /\ status'[rec[u]].version \in Nat
  BY <1>1 DEF RecInv, TypeOK, StatusWord
<1>3. Match(u) /\ Kept(rec[u])
  BY <1>1 DEF RecInv
<1> QED
  BY <1>2, <1>3 DEF Match, Same, Kept

\* No lock changes hands.
LEMMA LocksKept ==
    ASSUME LockExclusive, NEW t \in Thread, \A u \in Thread \ {t} : Same(u),
           \A r \in Record : status'[r].locked = status[r].locked,
           \A r \in Record : Holds(t, r)' <=> Holds(t, r)
    PROVE  LockExclusive'
<1>1. \A u \in Thread, r \in Record : Holds(u, r)' <=> Holds(u, r)
  BY DEF Same, Holds, At
<1> QED
  BY <1>1 DEF LockExclusive

\* t takes the lock of r, which was free.
LEMMA LockTaken ==
    ASSUME LockExclusive, NEW t \in Thread, \A u \in Thread \ {t} : Same(u), NEW r \in Record,
           ~status[r].locked, status'[r].locked, Holds(t, r)',
           \A q \in Record \ {r} : /\ status'[q].locked = status[q].locked
                                   /\ Holds(t, q)' <=> Holds(t, q)
    PROVE  LockExclusive'
<1>1. \A u \in Thread \ {t}, q \in Record : Holds(u, q)' <=> Holds(u, q)
  BY DEF Same, Holds, At
<1>2. \A u \in Thread : ~Holds(u, r)
  BY DEF LockExclusive
<1> QED
  BY <1>1, <1>2 DEF LockExclusive

\* t gives back the lock of r.
LEMMA LockGivenBack ==
    ASSUME LockExclusive, NEW t \in Thread, \A u \in Thread \ {t} : Same(u), NEW r \in Record,
           ~status'[r].locked, Holds(t, r), ~Holds(t, r)',
           \A q \in Record \ {r} : /\ status'[q].locked = status[q].locked
                                   /\ Holds(t, q)' <=> Holds(t, q)
    PROVE  LockExclusive'
<1>1. \A u \in Thread \ {t}, q \in Record : Holds(u, q)' <=> Holds(u, q)
  BY DEF Same, Holds, At
<1>2. \A u \in Thread \ {t} : ~Holds(u, r)
  BY DEF LockExclusive
<1> QED
  BY <1>1, <1>2 DEF LockExclusive

\* A step of a worker that keeps its own part of the invariant, and the words,
\* keeps the invariant.
LEMMA WorkerStep ==
    ASSUME RecInv, TypeOK', s' \in [Thread -> StatusWord],
           NEW t \in Worker, \A u \in Thread \ {t} : Same(u),
           stage' = stage, owe \ {t} \subseteq owe',
           WorkerShape(t)', Grace(t)', Match(t)',
           WordsShape', LockExclusive', \A r \in Record : Kept(r)
    PROVE  RecInv'
<1>1. ASSUME NEW u \in Worker, u # t PROVE WorkerShape(u)' /\ Grace(u)'
  <2>1. Same(u) /\ WorkerShape(u) /\ Grace(u) /\ (u \in owe => u \in owe')
    BY <1>1 DEF RecInv, Thread
  <2> QED
    BY <2>1 DEF Same, WorkerShape, Grace
<1>2. BgShape'
  <2>1. Same(Bg) /\ BgShape
    BY RecordAssumption DEF RecInv, Thread
  <2> QED
    BY <2>1 DEF Same, BgShape
<1>3. status' \in [Record -> StatusWord]
  BY DEF TypeOK, StatusWord
<1>4. \A u \in Thread \ {t} : Match(u)'
  BY <1>3, MatchKept
<1> QED
  BY <1>1, <1>2, <1>4 DEF RecInv

\* The same for a step of the background thread inside replace_pointer.
LEMMA BgStep ==
    ASSUME RecInv, TypeOK', s' \in [Thread -> StatusWord],
           \A u \in Worker : Same(u), stage \notin {"waiting", "freed"},
           stage' \notin {"waiting", "freed"},
           BgShape', Match(Bg)', WordsShape', LockExclusive', \A r \in Record : Kept(r)
    PROVE  RecInv'
<1>1. \A u \in Worker : WorkerShape(u)' /\ Grace(u)'
  BY DEF RecInv, Same, WorkerShape, Grace
<1>2. status' \in [Record -> StatusWord]
  BY DEF TypeOK, StatusWord
<1>3. \A u \in Worker : Match(u)'
  BY <1>2, MatchKept DEF Thread
<1> QED
  BY <1>1, <1>3 DEF RecInv, Thread

\* The field locked of one status word is set: the rest stays.
LEMMA SetLocked ==
    ASSUME status \in [Record -> StatusWord], NEW r \in Record, NEW b \in BOOLEAN,
           Set(r, "locked", b)
    PROVE  /\ status' \in [Record -> StatusWord]
           /\ \A q \in Record : q # r => status'[q] = status[q]
           /\ status'[r].locked = b
           /\ status'[r].removed = status[r].removed
           /\ status'[r].ptr = status[r].ptr
           /\ status'[r].version = status[r].version
  BY DEF Set, StatusWord

\* The field removed of one status word is set: the rest stays.
LEMMA SetRemoved ==
    ASSUME status \in [Record -> StatusWord], NEW r \in Record, NEW b \in BOOLEAN,
           Set(r, "removed", b)
    PROVE  /\ status' \in [Record -> StatusWord]
           /\ \A q \in Record : q # r => status'[q] = status[q]
           /\ status'[r].removed = b
           /\ status'[r].locked = status[r].locked
           /\ status'[r].ptr = status[r].ptr
           /\ status'[r].version = status[r].version
  BY DEF Set, StatusWord

\* The field ptr of one status word is set: the rest stays.
LEMMA SetPtr ==
    ASSUME status \in [Record -> StatusWord], NEW r \in Record, NEW b \in BOOLEAN,
           Set(r, "ptr", b)
    PROVE  /\ status' \in [Record -> StatusWord]
           /\ \A q \in Record : q # r => status'[q] = status[q]
           /\ status'[r].ptr = b
           /\ status'[r].locked = status[r].locked
           /\ status'[r].removed = status[r].removed
           /\ status'[r].version = status[r].version
  BY DEF Set, StatusWord

\* The field version of one status word is set: the rest stays.
LEMMA SetVersion ==
    ASSUME status \in [Record -> StatusWord], NEW r \in Record, NEW b \in Nat,
           Set(r, "version", b)
    PROVE  /\ status' \in [Record -> StatusWord]
           /\ \A q \in Record : q # r => status'[q] = status[q]
           /\ status'[r].version = b
           /\ status'[r].locked = status[r].locked
           /\ status'[r].removed = status[r].removed
           /\ status'[r].ptr = status[r].ptr
  BY DEF Set, StatusWord

\* The pointer a reader follows is that of the old record.
LEMMA FollowsOld ==
    ASSUME RecInv, NEW t \in Worker, At(t, "again"), Stable(t), s[t].ptr, ~plain[t]
    PROVE  w[t] = "old" /\ ~s[t].removed /\ status["new"].ptr
<1> USE RecordAssumption DEF Thread
<1>1. rec[t] = "new" /\ "new" \in Record /\ Match(t)
  BY DEF RecInv, Match, At, Record
<1>2. ~status["new"].locked /\ s[t].version = status["new"].version
  BY <1>1 DEF Stable
<1>3. \A u \in Thread : ~Holds(u, "new")
  BY <1>1, <1>2 DEF RecInv, LockExclusive
<1>4. pc[Bg] \notin {"mark", "unptr"}
  BY <1>3 DEF Holds
<1>5. s[t].ptr = status["new"].ptr /\ s[t].removed = status["new"].removed /\ w[t] = val["new"]
  BY <1>1, <1>2, <1>3 DEF Match, Settled, At
<1> QED
  BY <1>1, <1>4, <1>5 DEF RecInv, WordsShape

\* A step that touches neither the records nor a thread keeps what is said of them.
LEMMA NothingMoves ==
    ASSUME RecInv, UNCHANGED <<words, local, plain, pc>>
    PROVE  /\ LockExclusive' /\ s' \in [Thread -> StatusWord]
           /\ \A u \in Thread : Match(u)'
           /\ \A u \in Worker : WorkerShape(u)'
<1>1. \A u \in Thread, r \in Record : Holds(u, r)' <=> Holds(u, r)
  BY DEF Holds, At, local
<1>2. LockExclusive'
  BY <1>1 DEF RecInv, LockExclusive, words
<1>k. \A r \in Record : Kept(r)
  BY <1>1 DEF Kept, Settled, words, local
<1>3. \A u \in Thread : Same(u)
  BY DEF Same, local
<1>4. status' \in [Record -> StatusWord] /\ s' \in [Thread -> StatusWord]
  BY DEF RecInv, TypeOK, StatusWord, words, local
<1>5. \A u \in Thread : Match(u)'
  BY <1>k, <1>3, <1>4, MatchKept
<1>6. \A u \in Worker : WorkerShape(u)'
  BY DEF RecInv, WorkerShape, local
<1> QED
  BY <1>2, <1>4, <1>5, <1>6

\* A worker that finds the record keeps the invariant: it has no lock and has noted nothing.
LEMMA StepCall ==
    ASSUME RecInv, NEW t \in Thread, Call(t)
    PROVE  RecInv'
<1> USE RecordAssumption DEF Thread
<1>1. TypeOK' /\ s' \in [Thread -> StatusWord]
  <2>1. val' \in [Record -> Val \cup {"old"}]
    BY DEF RecInv, TypeOK, words, Call
  <2>2. status' \in [Record -> StatusWord]
    BY DEF RecInv, TypeOK, StatusWord, words, Call, local
  <2>3. pc' \in [Thread -> {"idle", "status", "val", "again", "lock", "write", "bump",
                           "unlock", "store", "mark", "unptr"}]
    BY DEF RecInv, TypeOK, Call, Goto
  <2>4. op' \in [Thread -> Ops \cup {NoOp}] /\ plain' \in [Thread -> BOOLEAN]
    <3>1. PICK o \in Workload : op' = [op EXCEPT ![t] = o]
      BY DEF Call
    <3>2. o \in Ops
      OBVIOUS
    <3>3. op' \in [Thread -> Ops \cup {NoOp}]
      BY <3>1, <3>2 DEF RecInv, TypeOK
    <3>4. PICK b \in BOOLEAN : plain' = [plain EXCEPT ![t] = b]
      BY DEF Call
    <3> QED
      BY <3>3, <3>4 DEF RecInv, TypeOK
  <2>5. rec' \in [Thread -> Record \cup {Null}]
    BY DEF RecInv, TypeOK, Call, Record
  <2>6. nested' \in [Thread -> BOOLEAN] /\ w' \in [Thread -> Val \cup {"old", Null}]
    BY DEF RecInv, TypeOK, Call
  <2>7. /\ stage' \in {"old", "published", "replaced", "waiting", "freed"}
        /\ owe' \subseteq Worker /\ s' \in [Thread -> StatusWord]
    BY DEF RecInv, TypeOK, Call
  <2> QED
    BY <2>1, <2>2, <2>3, <2>4, <2>5, <2>6, <2>7 DEF TypeOK, StatusWord
<1>2. \A u \in Thread \ {t} : Same(u)
  BY DEF RecInv, TypeOK, Same, Call, Quiet, client, Goto
<1>3. /\ pc[t] = "idle" /\ pc'[t] \in {"status", "lock"} /\ nested'[t] = nested[t]
      /\ rec'[t] = IF stage = "old" THEN "old" ELSE "new"
      /\ plain'[t] => stage = "old"
      /\ words' = words /\ stage' = stage /\ owe' = owe /\ t \in Worker
  BY DEF RecInv, TypeOK, Call, At, Goto
<1>4. ~nested[t] /\ t # Bg
  BY <1>3 DEF RecInv, WorkerShape, Writing
<1>5. \A r \in Record : ~Holds(t, r) /\ ~Holds(t, r)'
  BY <1>3, <1>4 DEF Holds, At
<1>6. LockExclusive'
  BY <1>2, <1>3, <1>5, LocksKept DEF RecInv, words
<1>7. \A r \in Record : Kept(r)
  BY <1>2, <1>3, <1>5, SettledBefore DEF Kept, words
<1>8. WordsShape'
  <2>1. pc'[Bg] = pc[Bg]
    BY <1>2, <1>4 DEF Same
  <2> QED
    BY <1>3, <2>1 DEF RecInv, WordsShape, words
<1>9. WorkerShape(t)' /\ Grace(t)' /\ Match(t)'
  BY <1>3, <1>4 DEF WorkerShape, Grace, Match, Reading, Writing, Record
<1> QED
  BY <1>1, <1>2, <1>3, <1>6, <1>7, <1>8, <1>9, WorkerStep

\* The first load of read: what is noted is what the record has.
LEMMA StepLoadStatus ==
    ASSUME RecInv, NEW t \in Thread, LoadStatus(t)
    PROVE  RecInv'
<1> USE RecordAssumption DEF Thread
<1>1. TypeOK' /\ s' \in [Thread -> StatusWord]
  <2>1. val' \in [Record -> Val \cup {"old"}]
    BY DEF RecInv, TypeOK, words, LoadStatus
  <2>2. status' \in [Record -> StatusWord]
    BY DEF RecInv, TypeOK, StatusWord, words, LoadStatus, local
  <2>3. pc' \in [Thread -> {"idle", "status", "val", "again", "lock", "write", "bump",
                           "unlock", "store", "mark", "unptr"}]
    BY DEF RecInv, TypeOK, LoadStatus, Goto
  <2>4. op' \in [Thread -> Ops \cup {NoOp}] /\ plain' \in [Thread -> BOOLEAN]
    BY DEF RecInv, TypeOK, LoadStatus, Quiet, client
  <2>5. rec' \in [Thread -> Record \cup {Null}]
    BY DEF RecInv, TypeOK, LoadStatus
  <2>6. nested' \in [Thread -> BOOLEAN] /\ w' \in [Thread -> Val \cup {"old", Null}]
    BY DEF RecInv, TypeOK, LoadStatus
  <2>7. /\ stage' \in {"old", "published", "replaced", "waiting", "freed"}
        /\ owe' \subseteq Worker /\ s' \in [Thread -> StatusWord]
    <3>0. rec[t] \in Record
      BY DEF RecInv, WorkerShape, BgShape, Reading, Record, At, LoadStatus
    <3>1. s' = [s EXCEPT ![t] = status[rec[t]]] /\ stage' = stage /\ owe' = owe
      BY DEF LoadStatus
    <3>2. status[rec[t]] \in StatusWord
      BY <3>0 DEF RecInv, TypeOK, StatusWord
    <3> QED
      BY <3>1, <3>2 DEF RecInv, TypeOK
  <2> QED
    BY <2>1, <2>2, <2>3, <2>4, <2>5, <2>6, <2>7 DEF TypeOK, StatusWord
<1>2. \A u \in Thread \ {t} : Same(u)
  BY DEF RecInv, TypeOK, Same, LoadStatus, Quiet, client, Goto
<1>3. /\ pc[t] = "status" /\ pc'[t] = "val" /\ nested'[t] = nested[t] /\ rec'[t] = rec[t]
      /\ plain'[t] = plain[t] /\ s'[t] = status[rec[t]]
      /\ words' = words /\ stage' = stage /\ owe' = owe
  BY DEF RecInv, TypeOK, LoadStatus, At, Goto, Quiet, client
<1>4. \A r \in Record : Holds(t, r)' <=> Holds(t, r)
  BY <1>3 DEF Holds, At
<1>5. LockExclusive'
  BY <1>2, <1>3, <1>4, LocksKept DEF RecInv, words
<1>6. \A r \in Record : Kept(r)
  <2>1. \A r \in Record : Settled(r)' => Settled(r)
    BY <1>2, <1>3, <1>4, SettledBefore
  <2> QED
    BY <1>3, <2>1 DEF Kept, words
<1>7. WordsShape'
  <2>1. pc'[Bg] \in {"bump", "unlock"} <=> pc[Bg] \in {"bump", "unlock"}
    BY <1>2, <1>3 DEF Same
  <2>2. pc'[Bg] \in {"mark", "unptr"} <=> pc[Bg] \in {"mark", "unptr"}
    BY <1>2, <1>3 DEF Same
  <2>3. pc[Bg] = "unptr" => pc'[Bg] = "unptr"
    BY <1>2, <1>3 DEF Same
  <2> QED
    BY <1>3, <2>1, <2>2, <2>3 DEF RecInv, WordsShape, words
<1>8. Match(t)'
  <2>1. rec[t] \in Record /\ status[rec[t]] \in StatusWord
    BY <1>3 DEF RecInv, TypeOK, WorkerShape, BgShape, Reading, Record, StatusWord
  <2>2. status[rec[t]].ptr => rec[t] = "new"
    BY <2>1 DEF RecInv, WordsShape, Record
  <2> QED
    BY <1>3, <2>1, <2>2 DEF Match, words, StatusWord
<1>9. CASE t \in Worker
  <2>1. WorkerShape(t)'
    BY <1>3, <1>9 DEF RecInv, WorkerShape, Reading, Writing
  <2>2. Grace(t)'
    <3>1. stage \in {"waiting", "freed"} => ~status["new"].ptr /\ ~status["old"].ptr
      BY DEF RecInv, WordsShape
    <3>2. WorkerShape(t) /\ Grace(t)
      BY <1>9 DEF RecInv
    <3> QED
      BY <1>3, <3>1, <3>2 DEF WorkerShape, Grace, Record
  <2> QED
    BY <1>1, <1>2, <1>3, <1>5, <1>6, <1>7, <1>8, <1>9, <2>1, <2>2, WorkerStep
<1>10. CASE t = Bg
  <2>1. BgShape' /\ stage = "published"
    BY <1>3, <1>10 DEF RecInv, BgShape, Reading
  <2> QED
    BY <1>1, <1>2, <1>3, <1>5, <1>6, <1>7, <1>8, <1>10, <2>1, BgStep
<1> QED
  BY <1>9, <1>10

\* The load of the value: it goes with the noted status while the version stays.
LEMMA StepLoadVal ==
    ASSUME RecInv, NEW t \in Thread, LoadVal(t)
    PROVE  RecInv'
<1> USE RecordAssumption DEF Thread
<1>1. TypeOK' /\ s' \in [Thread -> StatusWord]
  <2>1. val' \in [Record -> Val \cup {"old"}]
    BY DEF RecInv, TypeOK, words, LoadVal
  <2>2. status' \in [Record -> StatusWord]
    BY DEF RecInv, TypeOK, StatusWord, words, LoadVal, local
  <2>3. pc' \in [Thread -> {"idle", "status", "val", "again", "lock", "write", "bump",
                           "unlock", "store", "mark", "unptr"}]
    BY DEF RecInv, TypeOK, LoadVal, Goto
  <2>4. op' \in [Thread -> Ops \cup {NoOp}] /\ plain' \in [Thread -> BOOLEAN]
    BY DEF RecInv, TypeOK, LoadVal, Quiet, client
  <2>5. rec' \in [Thread -> Record \cup {Null}]
    BY DEF RecInv, TypeOK, LoadVal
  <2>6. nested' \in [Thread -> BOOLEAN] /\ w' \in [Thread -> Val \cup {"old", Null}]
    <3>0. rec[t] \in Record
      BY DEF RecInv, WorkerShape, BgShape, Reading, Record, At, LoadVal
    <3>1. w' = [w EXCEPT ![t] = val[rec[t]]] /\ nested' = nested
      BY DEF LoadVal
    <3> QED
      BY <3>0, <3>1 DEF RecInv, TypeOK
  <2>7. /\ stage' \in {"old", "published", "replaced", "waiting", "freed"}
        /\ owe' \subseteq Worker /\ s' \in [Thread -> StatusWord]
    BY DEF RecInv, TypeOK, LoadVal
  <2> QED
    BY <2>1, <2>2, <2>3, <2>4, <2>5, <2>6, <2>7 DEF TypeOK, StatusWord
<1>2. \A u \in Thread \ {t} : Same(u)
  BY DEF RecInv, TypeOK, Same, LoadVal, Quiet, client, Goto
<1>3. /\ pc[t] = "val" /\ pc'[t] \in {"status", "again"} /\ nested'[t] = nested[t]
      /\ rec'[t] = rec[t] /\ plain'[t] = plain[t] /\ s'[t] = s[t] /\ w'[t] = val[rec[t]]
      /\ words' = words /\ stage' = stage /\ owe' = owe
  BY DEF RecInv, TypeOK, LoadVal, At, Goto, Quiet, client
<1>4. \A r \in Record : Holds(t, r)' <=> Holds(t, r)
  BY <1>3 DEF Holds, At
<1>5. LockExclusive'
  BY <1>2, <1>3, <1>4, LocksKept DEF RecInv, words
<1>6. \A r \in Record : Kept(r)
  <2>1. \A r \in Record : Settled(r)' => Settled(r)
    BY <1>2, <1>3, <1>4, SettledBefore
  <2> QED
    BY <1>3, <2>1 DEF Kept, words
<1>7. WordsShape'
  <2>1. pc'[Bg] \in {"bump", "unlock"} <=> pc[Bg] \in {"bump", "unlock"}
    BY <1>2, <1>3 DEF Same
  <2>2. pc'[Bg] \in {"mark", "unptr"} <=> pc[Bg] \in {"mark", "unptr"}
    BY <1>2, <1>3 DEF Same
  <2>3. pc[Bg] = "unptr" => pc'[Bg] = "unptr"
    BY <1>2, <1>3 DEF Same
  <2> QED
    BY <1>3, <2>1, <2>2, <2>3 DEF RecInv, WordsShape, words
<1>8. Match(t)'
  <2>1. rec[t] \in Record /\ Match(t) /\ val["old"] \in Val
    BY <1>3 DEF RecInv, WorkerShape, BgShape, WordsShape, Reading, Record
  <2>2. Settled(rec[t])' => Settled(rec[t])
    BY <1>2, <1>3, <1>4, <2>1, SettledBefore
  <2> QED
    BY <1>3, <2>1, <2>2 DEF Match, words
<1>9. CASE t \in Worker
  <2>1. WorkerShape(t)'
    BY <1>3, <1>9 DEF RecInv, WorkerShape, Reading, Writing
  <2>2. Grace(t)'
    <3>1. stage \in {"waiting", "freed"} => val["new"] # "old"
      BY DEF RecInv, WordsShape
    <3>2. WorkerShape(t) /\ Grace(t)
      BY <1>9 DEF RecInv
    <3> QED
      BY <1>3, <3>1, <3>2 DEF WorkerShape, Grace, Record
  <2> QED
    BY <1>1, <1>2, <1>3, <1>5, <1>6, <1>7, <1>8, <1>9, <2>1, <2>2, WorkerStep
<1>10. CASE t = Bg
  <2>1. BgShape' /\ stage = "published"
    BY <1>3, <1>10 DEF RecInv, BgShape, Reading
  <2> QED
    BY <1>1, <1>2, <1>3, <1>5, <1>6, <1>7, <1>8, <1>10, <2>1, BgStep
<1> QED
  BY <1>9, <1>10

\* The second load of read: the pointer that is followed leads to the old record.
LEMMA StepLoadAgain ==
    ASSUME RecInv, NEW t \in Thread, LoadAgain(t)
    PROVE  RecInv'
<1> USE RecordAssumption DEF Thread
<1>1. TypeOK' /\ s' \in [Thread -> StatusWord]
  <2>1. val' \in [Record -> Val \cup {"old"}]
    BY DEF RecInv, TypeOK, words, LoadAgain
  <2>2. status' \in [Record -> StatusWord]
    BY DEF RecInv, TypeOK, StatusWord, words, LoadAgain, local
  <2>3. pc' \in [Thread -> {"idle", "status", "val", "again", "lock", "write", "bump",
                           "unlock", "store", "mark", "unptr"}]
    <3>1. pc' = [pc EXCEPT ![t] = "status"] \/ pc' = [pc EXCEPT ![t] = "idle"]
          \/ pc' = [pc EXCEPT ![t] = "store"]
      BY DEF LoadAgain, Goto, Return
    <3> QED
      BY <3>1 DEF RecInv, TypeOK
  <2>4. op' \in [Thread -> Ops \cup {NoOp}] /\ plain' \in [Thread -> BOOLEAN]
    <3>1. plain' = plain /\ (op' = op \/ op' = [op EXCEPT ![t] = NoOp])
      BY DEF LoadAgain, Result, Quiet, client
    <3> QED
      BY <3>1 DEF RecInv, TypeOK
  <2>5. rec' \in [Thread -> Record \cup {Null}]
    <3>1. \/ rec' = rec \/ rec' = [rec EXCEPT ![t] = Null]
          \/ At(t, "again") /\ Stable(t) /\ s[t].ptr /\ ~plain[t] /\ rec' = [rec EXCEPT ![t] = w[t]]
      BY DEF LoadAgain, Forget
    <3>2. ASSUME At(t, "again"), Stable(t), s[t].ptr, ~plain[t] PROVE w[t] = "old"
      <4>1. t \in Worker
        BY <3>2 DEF RecInv, Match, BgShape, Reading, At
      <4> QED
        BY <3>2, <4>1, FollowsOld
    <3> QED
      BY <3>1, <3>2 DEF RecInv, TypeOK, Record
  <2>6. nested' \in [Thread -> BOOLEAN] /\ w' \in [Thread -> Val \cup {"old", Null}]
    BY DEF RecInv, TypeOK, LoadAgain, Forget
  <2>7. /\ stage' \in {"old", "published", "replaced", "waiting", "freed"}
        /\ owe' \subseteq Worker /\ s' \in [Thread -> StatusWord]
    <3>1. s' = s \/ s' = [s EXCEPT ![t] = Clear]
      BY DEF LoadAgain, Forget
    <3>2. Clear \in StatusWord
      BY DEF Clear, StatusWord
    <3>3. stage' = stage /\ (owe' = owe \/ owe' = owe \ {t})
      BY DEF LoadAgain, Return
    <3>4. s' \in [Thread -> StatusWord]
      BY <3>1, <3>2 DEF RecInv
    <3> QED
      BY <3>3, <3>4 DEF RecInv, TypeOK
  <2> QED
    BY <2>1, <2>2, <2>3, <2>4, <2>5, <2>6, <2>7 DEF TypeOK, StatusWord
<1>2. \A u \in Thread \ {t} : Same(u)
  BY DEF RecInv, TypeOK, Same, LoadAgain, Quiet, client, Goto, Result, Return, Forget
<1>3. /\ pc[t] = "again" /\ nested'[t] = nested[t] /\ plain'[t] = plain[t]
      /\ IF t = Bg THEN pc'[t] \in {"status", "store"} ELSE pc'[t] \in {"status", "idle"}
      /\ words' = words /\ stage' = stage /\ owe \ {t} \subseteq owe'
  BY DEF RecInv, TypeOK, LoadAgain, At, Goto, Quiet, client, Result, Return
<1>4. \A r \in Record : Holds(t, r)' <=> Holds(t, r)
  <2>1. t # Bg => ~nested[t]
    BY <1>3 DEF RecInv, WorkerShape, Writing
  <2> QED
    BY <1>3, <2>1 DEF Holds, At
<1>5. LockExclusive'
  BY <1>2, <1>3, <1>4, LocksKept DEF RecInv, words
<1>6. \A r \in Record : Kept(r)
  <2>1. \A r \in Record : Settled(r)' => Settled(r)
    BY <1>2, <1>3, <1>4, SettledBefore
  <2> QED
    BY <1>3, <2>1 DEF Kept, words
<1>7. WordsShape'
  <2>1. pc'[Bg] \in {"bump", "unlock"} <=> pc[Bg] \in {"bump", "unlock"}
    BY <1>2, <1>3 DEF Same
  <2>2. pc'[Bg] \in {"mark", "unptr"} <=> pc[Bg] \in {"mark", "unptr"}
    BY <1>2, <1>3 DEF Same
  <2>3. pc[Bg] = "unptr" => pc'[Bg] = "unptr"
    BY <1>2, <1>3 DEF Same
  <2> QED
    BY <1>3, <2>1, <2>2, <2>3 DEF RecInv, WordsShape, words
<1>8. /\ Match(t)'
      /\ \/ pc'[t] = "status" /\ rec'[t] = rec[t] /\ owe' = owe
         \/ /\ Stable(t) /\ s[t].ptr /\ ~plain[t]
            /\ pc'[t] = "status" /\ rec'[t] = w[t] /\ owe' = owe
         \/ t \in Worker /\ pc'[t] = "idle" /\ rec'[t] = Null
         \/ t = Bg /\ pc'[t] = "store" /\ rec'[t] = rec[t] /\ w'[t] = w[t]
  <2>1. Match(t)'
    BY <1>3 DEF Match
  <2> QED
    BY <2>1 DEF RecInv, TypeOK, LoadAgain, Goto, Return, Forget
<1>9. CASE t \in Worker
  <2>0. ASSUME Stable(t), s[t].ptr, ~plain[t] PROVE w[t] = "old"
    BY <1>3, <1>9, <2>0, FollowsOld DEF At
  <2>1. WorkerShape(t)'
    <3>1. WorkerShape(t) /\ t # Bg
      BY <1>9 DEF RecInv
    <3> QED
      BY <1>3, <1>8, <2>0, <3>1 DEF WorkerShape, Reading, Writing, Record, Null
  <2>2. Grace(t)'
    <3>1. Grace(t) /\ t # Bg
      BY <1>9 DEF RecInv
    <3> QED
      BY <1>3, <1>8, <3>1 DEF Grace, Null
  <2> QED
    BY <1>1, <1>2, <1>3, <1>5, <1>6, <1>7, <1>8, <1>9, <2>1, <2>2, WorkerStep
<1>10. CASE t = Bg
  <2>1. BgShape' /\ stage = "published"
    <3>1. BgShape /\ Match(t) /\ stage = "published" /\ rec[t] = "old"
      BY <1>3, <1>10 DEF RecInv, BgShape, Reading
    <3>2. ~s[t].ptr /\ w[t] \in Val
      BY <1>3, <3>1 DEF Match
    <3> QED
      BY <1>3, <1>8, <1>10, <3>1, <3>2 DEF BgShape, Reading
  <2> QED
    BY <1>1, <1>2, <1>3, <1>5, <1>6, <1>7, <1>8, <1>10, <2>1, BgStep
<1> QED
  BY <1>9, <1>10

=============================================================================
