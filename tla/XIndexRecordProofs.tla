------------------------- MODULE XIndexRecordProofs -------------------------
(***************************************************************************)
(* The steps of writers and of the background thread keep RecInv, the      *)
(* invariant of XIndexRecordInvariant, and the theorems that follow.       *)
(***************************************************************************)
EXTENDS XIndexRecordInvariant

\* The compare-and-swap takes a free lock; the record is not settled from here on.
LEMMA StepLock ==
    ASSUME RecInv, NEW t \in Thread, Lock(t)
    PROVE  RecInv'
<1> USE RecordAssumption DEF Thread
<1>1. TypeOK' /\ s' \in [Thread -> StatusWord]
  <2>1. val' \in [Record -> Val \cup {"old"}]
    BY DEF RecInv, TypeOK, Lock
  <2>2. status' \in [Record -> StatusWord]
    <3>1. status \in [Record -> StatusWord] /\ rec[t] \in Record
      BY DEF RecInv, TypeOK, WorkerShape, BgShape, StatusWord, Record, At, Reading, Lock
    <3> QED
      BY <3>1, SetLocked DEF Lock
  <2>3. pc' \in [Thread -> {"idle", "status", "val", "again", "lock", "write", "bump",
                           "unlock", "store", "mark", "unptr"}]
    BY DEF RecInv, TypeOK, Lock, Goto
  <2>4. op' \in [Thread -> Ops \cup {NoOp}] /\ plain' \in [Thread -> BOOLEAN]
    BY DEF RecInv, TypeOK, Lock, Quiet, client
  <2>5. rec' \in [Thread -> Record \cup {Null}]
    BY DEF RecInv, TypeOK, BgShape, WordsShape, Lock, At, Record
  <2>6. nested' \in [Thread -> BOOLEAN] /\ w' \in [Thread -> Val \cup {"old", Null}]
    BY DEF RecInv, TypeOK, Lock
  <2>7. /\ stage' \in {"old", "published", "replaced", "waiting", "freed"}
        /\ owe' \subseteq Worker /\ s' \in [Thread -> StatusWord]
    BY DEF RecInv, TypeOK, Lock
  <2> QED
    BY <2>1, <2>2, <2>3, <2>4, <2>5, <2>6, <2>7 DEF TypeOK, StatusWord
<1>2. \A u \in Thread \ {t} : Same(u)
  BY DEF RecInv, TypeOK, Same, Lock, Quiet, client, Goto
<1>r. PICK r \in Record : rec[t] = r /\ status \in [Record -> StatusWord]
  BY DEF RecInv, TypeOK, WorkerShape, BgShape, StatusWord, Record, At, Lock
<1>3. /\ pc[t] = "lock" /\ ~status[r].locked
      /\ pc'[t] = (IF t = Bg THEN "status" ELSE "write")
      /\ rec'[t] = (IF t = Bg THEN val["new"] ELSE r)
      /\ nested'[t] = nested[t] /\ plain'[t] = plain[t]
      /\ val' = val /\ stage' = stage /\ owe' = owe
  BY <1>r DEF RecInv, TypeOK, Lock, At, Free, Goto, Quiet, client
<1>4. /\ \A q \in Record \ {r} : status'[q] = status[q]
      /\ status'[r].locked
      /\ \A q \in Record : /\ status'[q].removed = status[q].removed
                           /\ status'[q].ptr = status[q].ptr
                           /\ status'[q].version = status[q].version
  BY <1>r, SetLocked DEF Lock
<1>b. t = Bg => r = "new" /\ val["new"] = "old" /\ stage = "published"
  BY <1>r, <1>3 DEF RecInv, BgShape, WordsShape
<1>h. Holds(t, r)' /\ \A q \in Record \ {r} : Holds(t, q)' <=> Holds(t, q)
  BY <1>r, <1>3, <1>b DEF Holds, At
<1>5. LockExclusive'
  BY <1>r, <1>2, <1>3, <1>4, <1>h, LockTaken DEF RecInv
<1>6. \A q \in Record : Kept(q)
  <2>1. ~Settled(r)'
    BY <1>3, <1>h DEF Settled
  <2>2. \A q \in Record \ {r} : Settled(q)' => Settled(q)
    BY <1>r, <1>2, <1>3, <1>h, SettledBefore
  <2> QED
    BY <1>3, <1>4, <2>1, <2>2 DEF Kept
<1>7. WordsShape'
  <2>1. pc'[Bg] \in {"bump", "unlock"} <=> pc[Bg] \in {"bump", "unlock"}
    BY <1>2, <1>3 DEF Same
  <2>2. pc'[Bg] \in {"mark", "unptr"} <=> pc[Bg] \in {"mark", "unptr"}
    BY <1>2, <1>3 DEF Same
  <2>3. pc[Bg] = "unptr" => pc'[Bg] = "unptr"
    BY <1>2, <1>3 DEF Same
  <2> QED
    BY <1>3, <1>4, <2>1, <2>2, <2>3 DEF RecInv, WordsShape, Record
<1>8. Match(t)'
  BY <1>3 DEF Match
<1>9. CASE t \in Worker
  <2>1. WorkerShape(t)'
    BY <1>r, <1>3, <1>9 DEF RecInv, WorkerShape, Reading, Writing
  <2>2. Grace(t)'
    BY <1>r, <1>3, <1>9 DEF RecInv, Grace
  <2> QED
    BY <1>1, <1>2, <1>3, <1>5, <1>6, <1>7, <1>8, <1>9, <2>1, <2>2, WorkerStep
<1>10. CASE t = Bg
  <2>1. BgShape' /\ stage = "published"
    BY <1>r, <1>3, <1>b, <1>10 DEF RecInv, BgShape, Reading
  <2> QED
    BY <1>1, <1>2, <1>3, <1>5, <1>6, <1>7, <1>8, <1>10, <2>1, BgStep
<1> QED
  BY <1>9, <1>10

\* The change under the lock: readers with the noted version see it is not settled.
LEMMA StepWrite ==
    ASSUME RecInv, NEW t \in Thread, Write(t)
    PROVE  RecInv'
<1> USE RecordAssumption DEF Thread
<1>1. TypeOK' /\ s' \in [Thread -> StatusWord]
  <2>1. val' \in [Record -> Val \cup {"old"}]
    <3>1. val' = val \/ (op[t].fn = "update" /\ val' = [val EXCEPT ![rec[t]] = op[t].val])
      BY DEF Write, words
    <3>2. op[t].fn = "update" => op[t].val \in Val
      BY DEF RecInv, TypeOK, Ops, NoOp
    <3> QED
      BY <3>1, <3>2 DEF RecInv, TypeOK
  <2>2. status' \in [Record -> StatusWord]
    <3>1. status \in [Record -> StatusWord] /\ rec[t] \in Record
      BY DEF RecInv, TypeOK, WorkerShape, BgShape, StatusWord, Record, At, Reading, Write
    <3>2. status' = status \/ Set(rec[t], "removed", TRUE)
      BY DEF Write, words
    <3> QED
      BY <3>1, <3>2, SetRemoved
  <2>3. pc' \in [Thread -> {"idle", "status", "val", "again", "lock", "write", "bump",
                           "unlock", "store", "mark", "unptr"}]
    <3>1. pc' = [pc EXCEPT ![t] = "lock"] \/ pc' = [pc EXCEPT ![t] = "bump"]
      BY DEF Write, Goto
    <3> QED
      BY <3>1 DEF RecInv, TypeOK
  <2>4. op' \in [Thread -> Ops \cup {NoOp}] /\ plain' \in [Thread -> BOOLEAN]
    BY DEF RecInv, TypeOK, Write, Quiet, client, Result
  <2>5. rec' \in [Thread -> Record \cup {Null}]
    <3>1. rec' = rec \/ (status[rec[t]].ptr /\ rec' = [rec EXCEPT ![t] = val[rec[t]]])
      BY DEF Write
    <3>2. rec[t] \in Record /\ ~Holds(Bg, rec[t])
      BY DEF RecInv, WorkerShape, BgShape, LockExclusive, Holds, At, Write, Record
    <3>3. status[rec[t]].ptr => val[rec[t]] = "old"
      BY <3>2 DEF RecInv, BgShape, WordsShape, Holds, Record
    <3> QED
      BY <3>1, <3>3 DEF RecInv, TypeOK, Record
  <2>6. nested' \in [Thread -> BOOLEAN] /\ w' \in [Thread -> Val \cup {"old", Null}]
    BY DEF RecInv, TypeOK, Write
  <2>7. /\ stage' \in {"old", "published", "replaced", "waiting", "freed"}
        /\ owe' \subseteq Worker /\ s' \in [Thread -> StatusWord]
    BY DEF RecInv, TypeOK, Write
  <2> QED
    BY <2>1, <2>2, <2>3, <2>4, <2>5, <2>6, <2>7 DEF TypeOK, StatusWord
<1>2. \A u \in Thread \ {t} : Same(u)
  BY DEF RecInv, TypeOK, Same, Write, Quiet, client, Goto, Result, words
<1>r. PICK r \in Record : rec[t] = r /\ status \in [Record -> StatusWord]
  BY DEF RecInv, TypeOK, WorkerShape, BgShape, StatusWord, Record, At, Write
<1>w. t \in Worker /\ t # Bg /\ WorkerShape(t)
  BY DEF RecInv, BgShape, Write, At
<1>3. /\ pc[t] = "write" /\ plain'[t] = plain[t] /\ stage' = stage /\ owe' = owe
      /\ \/ /\ status[r].ptr /\ ~plain[t] /\ words' = words
            /\ pc'[t] = "lock" /\ rec'[t] = val[r] /\ nested'[t]
         \/ pc'[t] = "bump" /\ rec'[t] = r /\ nested'[t] = nested[t]
  BY <1>r DEF RecInv, TypeOK, Write, At, Goto, Quiet, client, Result
<1>4. /\ \A q \in Record : /\ status'[q].locked = status[q].locked
                           /\ status'[q].version = status[q].version
                           /\ status'[q].ptr = status[q].ptr
      /\ \A q \in Record \ {r} : status'[q] = status[q] /\ val'[q] = val[q]
  <2>1. status' = status \/ Set(r, "removed", TRUE)
    BY <1>r DEF Write, words
  <2>2. val' = val \/ val' = [val EXCEPT ![r] = op[t].val]
    BY <1>r DEF Write, words
  <2>3. \A q \in Record \ {r} : val'[q] = val[q]
    BY <2>2 DEF RecInv, TypeOK
  <2> QED
    BY <1>r, <2>1, <2>3, SetRemoved
<1>p. status[r].ptr => r = "new" /\ val["new"] = "old" /\ status["new"].ptr
  <2>1. Holds(t, r)
    BY <1>r, <1>3 DEF Holds, At
  <2>2. ~Holds(Bg, r)
    BY <1>w, <2>1 DEF RecInv, LockExclusive
  <2> QED
    BY <2>2 DEF RecInv, WordsShape, Holds, Record
<1>h. /\ \A q \in Record : Holds(t, q)' <=> Holds(t, q)
      /\ Holds(t, r)' /\ pc'[t] # "unlock"
  BY <1>r, <1>w, <1>3, <1>p DEF Holds, At, WorkerShape
<1>5. LockExclusive'
  BY <1>2, <1>4, <1>h, LocksKept DEF RecInv
<1>6. \A q \in Record : Kept(q)
  <2>1. ~Settled(r)'
    BY <1>h DEF Settled
  <2>2. \A q \in Record : Settled(q)' => Settled(q)
    BY <1>r, <1>2, <1>h, SettledBefore
  <2> QED
    BY <1>4, <2>1, <2>2 DEF Kept
<1>7. WordsShape'
  <2>1. status \in [Record -> StatusWord] /\ rec[t] \in Record /\ t # Bg /\ t \in Worker
    BY DEF RecInv, TypeOK, WorkerShape, BgShape, StatusWord, Record, At, Reading, Write
  <2>2. stage' = stage /\ pc'[Bg] = pc[Bg]
    BY <2>1 DEF RecInv, TypeOK, Write, Goto
  <2>3. CASE UNCHANGED words
    BY <2>2, <2>3 DEF RecInv, WordsShape, words
  <2>4. CASE ~(status[rec[t]].ptr /\ ~plain[t]) /\ op[t].fn = "update"
              /\ val' = [val EXCEPT ![rec[t]] = op[t].val] /\ status' = status
    <3>1. op[t].val \in Val
      <4>1. op[t] \in Ops \/ op[t] = NoOp
        BY DEF RecInv, TypeOK
      <4>n. NoOp.fn = "none"
        BY DEF NoOp
      <4>2. op[t] # NoOp
        BY <2>4, <4>n
      <4> QED
        BY <4>1, <4>2 DEF Ops
    <3>2. rec[t] = "new" => ~status["new"].ptr
      BY <2>1, <2>4 DEF RecInv, TypeOK, WorkerShape, BgShape, WordsShape, At, Write
    <3>3. "old" \notin Val
      BY DEF Record
    <3> QED
      BY <2>1, <2>2, <2>4, <3>1, <3>2, <3>3 DEF RecInv, TypeOK, WordsShape, Record
  <2>5. CASE ~(status[rec[t]].ptr /\ ~plain[t]) /\ Set(rec[t], "removed", TRUE) /\ val' = val
    <3>1. rec[t] = "new" => ~status["new"].ptr
      BY <2>1, <2>5 DEF RecInv, TypeOK, WorkerShape, BgShape, WordsShape, At, Write
    <3> QED
      BY <2>1, <2>2, <2>5, <3>1, SetRemoved DEF RecInv, WordsShape, Record
  <2> QED
    BY <2>3, <2>4, <2>5 DEF Write, words
<1>8. Match(t)' /\ WorkerShape(t)'
  BY <1>r, <1>w, <1>3, <1>p DEF Match, WorkerShape, Reading, Writing, Record
<1>9. Grace(t)'
  <2>1. Grace(t) /\ (stage \in {"waiting", "freed"} => ~status["new"].ptr)
    BY <1>w DEF RecInv, WordsShape
  <2> QED
    BY <1>r, <1>3, <1>p, <2>1 DEF Grace
<1> QED
  BY <1>w, <1>1, <1>2, <1>3, <1>5, <1>6, <1>7, <1>8, <1>9, WorkerStep

\* incr_version: no reader has noted the new version yet.
LEMMA StepBump ==
    ASSUME RecInv, NEW t \in Thread, Bump(t)
    PROVE  RecInv'
<1> USE RecordAssumption DEF Thread
<1>1. TypeOK' /\ s' \in [Thread -> StatusWord]
  <2>1. val' \in [Record -> Val \cup {"old"}]
    BY DEF RecInv, TypeOK, Bump
  <2>2. status' \in [Record -> StatusWord]
    <3>1. status \in [Record -> StatusWord] /\ rec[t] \in Record
      BY DEF RecInv, TypeOK, WorkerShape, BgShape, StatusWord, Record, At, Reading, Bump
    <3> QED
      <4>1. status[rec[t]].version + 1 \in Nat
        BY <3>1 DEF StatusWord
      <4> QED
        BY <3>1, <4>1, SetVersion DEF Bump
  <2>3. pc' \in [Thread -> {"idle", "status", "val", "again", "lock", "write", "bump",
                           "unlock", "store", "mark", "unptr"}]
    BY DEF RecInv, TypeOK, Bump, Goto
  <2>4. op' \in [Thread -> Ops \cup {NoOp}] /\ plain' \in [Thread -> BOOLEAN]
    BY DEF RecInv, TypeOK, Bump, Quiet, client
  <2>5. rec' \in [Thread -> Record \cup {Null}]
    BY DEF RecInv, TypeOK, local, Bump
  <2>6. nested' \in [Thread -> BOOLEAN] /\ w' \in [Thread -> Val \cup {"old", Null}]
    BY DEF RecInv, TypeOK, Bump, local
  <2>7. /\ stage' \in {"old", "published", "replaced", "waiting", "freed"}
        /\ owe' \subseteq Worker /\ s' \in [Thread -> StatusWord]
    BY DEF RecInv, TypeOK, Bump, local
  <2> QED
    BY <2>1, <2>2, <2>3, <2>4, <2>5, <2>6, <2>7 DEF TypeOK, StatusWord
<1>2. \A u \in Thread \ {t} : Same(u)
  BY DEF RecInv, TypeOK, Same, Bump, Quiet, client, Goto, local
<1>r. PICK r \in Record : rec[t] = r /\ status \in [Record -> StatusWord]
  BY DEF RecInv, TypeOK, WorkerShape, BgShape, StatusWord, Record, At, Bump
<1>3. /\ pc[t] = "bump" /\ pc'[t] = "unlock" /\ rec'[t] = r /\ nested'[t] = nested[t]
      /\ plain'[t] = plain[t] /\ w'[t] = w[t] /\ val' = val /\ stage' = stage /\ owe' = owe
  BY <1>r DEF RecInv, TypeOK, Bump, At, Goto, Quiet, client, local
<1>4. /\ status[r].version \in Nat
      /\ status'[r].version = status[r].version + 1
      /\ \A q \in Record \ {r} : status'[q] = status[q]
      /\ \A q \in Record : /\ status'[q].removed = status[q].removed
                           /\ status'[q].ptr = status[q].ptr
                           /\ status'[q].locked = status[q].locked
  <2>1. status[r].version \in Nat
    BY <1>r DEF StatusWord
  <2>2. status[r].version + 1 \in Nat
    BY <2>1
  <2> QED
    BY <1>r, <2>1, <2>2, SetVersion DEF Bump
<1>h. \A q \in Record : Holds(t, q)' <=> Holds(t, q)
  BY <1>r, <1>3 DEF Holds, At
<1>5. LockExclusive'
  BY <1>2, <1>4, <1>h, LocksKept DEF RecInv
<1>6. \A q \in Record : Kept(q)
  <2>1. \A q \in Record \ {r} : Settled(q)' => Settled(q)
    BY <1>r, <1>2, <1>3, <1>h, SettledBefore
  <2> QED
    BY <1>3, <1>4, <2>1 DEF Kept
<1>7. WordsShape'
  <2>1. pc'[Bg] \in {"bump", "unlock"} <=> pc[Bg] \in {"bump", "unlock"}
    BY <1>2, <1>3 DEF Same
  <2>2. pc'[Bg] \in {"mark", "unptr"} <=> pc[Bg] \in {"mark", "unptr"}
    BY <1>2, <1>3 DEF Same
  <2>3. pc[Bg] = "unptr" => pc'[Bg] = "unptr"
    BY <1>2, <1>3 DEF Same
  <2> QED
    BY <1>3, <1>4, <2>1, <2>2, <2>3 DEF RecInv, WordsShape, Record
<1>8. Match(t)'
  BY <1>3 DEF Match
<1>9. CASE t \in Worker
  <2>1. WorkerShape(t)'
    BY <1>r, <1>3, <1>9 DEF RecInv, WorkerShape, Reading, Writing
  <2>2. Grace(t)'
    BY <1>r, <1>3, <1>9 DEF RecInv, Grace
  <2> QED
    BY <1>1, <1>2, <1>3, <1>5, <1>6, <1>7, <1>8, <1>9, <2>1, <2>2, WorkerStep
<1>10. CASE t = Bg
  <2>1. BgShape' /\ stage = "published"
    BY <1>r, <1>3, <1>10 DEF RecInv, BgShape, Reading
  <2> QED
    BY <1>1, <1>2, <1>3, <1>5, <1>6, <1>7, <1>8, <1>10, <2>1, BgStep
<1> QED
  BY <1>9, <1>10

\* unlock settles a record whose version has been counted up.
LEMMA StepUnlock ==
    ASSUME RecInv, NEW t \in Thread, Unlock(t)
    PROVE  RecInv'
<1> USE RecordAssumption DEF Thread
<1>1. TypeOK' /\ s' \in [Thread -> StatusWord]
  <2>1. val' \in [Record -> Val \cup {"old"}]
    BY DEF RecInv, TypeOK, Unlock
  <2>2. status' \in [Record -> StatusWord]
    <3>1. status \in [Record -> StatusWord] /\ rec[t] \in Record
      BY DEF RecInv, TypeOK, WorkerShape, BgShape, StatusWord, Record, At, Reading, Unlock
    <3> QED
      BY <3>1, SetLocked DEF Unlock
  <2>3. pc' \in [Thread -> {"idle", "status", "val", "again", "lock", "write", "bump",
                           "unlock", "store", "mark", "unptr"}]
    <3>1. pc' = [pc EXCEPT ![t] = "bump"] \/ pc' = [pc EXCEPT ![t] = "idle"]
      BY DEF Unlock, Goto, Return
    <3> QED
      BY <3>1 DEF RecInv, TypeOK
  <2>4. op' \in [Thread -> Ops \cup {NoOp}] /\ plain' \in [Thread -> BOOLEAN]
    BY DEF RecInv, TypeOK, Unlock, Quiet, client
  <2>5. rec' \in [Thread -> Record \cup {Null}]
    <3>1. rec' = [rec EXCEPT ![t] = "new"] \/ rec' = [rec EXCEPT ![t] = Null]
      BY DEF Unlock, Forget
    <3> QED
      BY <3>1 DEF RecInv, TypeOK, Record
  <2>6. nested' \in [Thread -> BOOLEAN] /\ w' \in [Thread -> Val \cup {"old", Null}]
    BY DEF RecInv, TypeOK, Unlock, Forget
  <2>7. /\ stage' \in {"old", "published", "replaced", "waiting", "freed"}
        /\ owe' \subseteq Worker /\ s' \in [Thread -> StatusWord]
    <3>1. s' = s \/ s' = [s EXCEPT ![t] = Clear]
      BY DEF Unlock, Forget
    <3>2. Clear \in StatusWord
      BY DEF Clear, StatusWord
    <3>3. stage' \in {stage, "replaced"} /\ (owe' = owe \/ owe' = owe \ {t})
      BY DEF Unlock, Return
    <3>4. s' \in [Thread -> StatusWord]
      BY <3>1, <3>2 DEF RecInv
    <3> QED
      BY <3>3, <3>4 DEF RecInv, TypeOK
  <2> QED
    BY <2>1, <2>2, <2>3, <2>4, <2>5, <2>6, <2>7 DEF TypeOK, StatusWord
<1>2. \A u \in Thread \ {t} : Same(u)
  BY DEF RecInv, TypeOK, Same, Unlock, Quiet, client, Goto, Return, Forget
<1>r. PICK r \in Record : rec[t] = r /\ status \in [Record -> StatusWord]
  BY DEF RecInv, TypeOK, WorkerShape, BgShape, StatusWord, Record, At, Unlock
<1>3. /\ pc[t] = "unlock" /\ plain'[t] = plain[t] /\ val' = val /\ owe \ {t} \subseteq owe'
      /\ \/ /\ nested[t] /\ ~nested'[t] /\ pc'[t] = "bump" /\ rec'[t] = "new"
            /\ stage' = stage /\ owe' = owe
         \/ /\ ~nested[t] /\ ~nested'[t] /\ pc'[t] = "idle" /\ rec'[t] = Null
            /\ stage' = IF t = Bg THEN "replaced" ELSE stage
  BY <1>r DEF RecInv, TypeOK, Unlock, At, Goto, Return, Forget, Quiet, client
<1>4. /\ \A q \in Record \ {r} : status'[q] = status[q]
      /\ ~status'[r].locked
      /\ \A q \in Record : /\ status'[q].removed = status[q].removed
                           /\ status'[q].ptr = status[q].ptr
                           /\ status'[q].version = status[q].version
  BY <1>r, SetLocked DEF Unlock
<1>n. nested[t] => t \in Worker /\ r = "old" /\ ~plain[t]
  BY <1>r DEF RecInv, WorkerShape, BgShape
<1>h. /\ Holds(t, r) /\ ~Holds(t, r)'
      /\ \A q \in Record \ {r} : Holds(t, q)' <=> Holds(t, q)
  BY <1>r, <1>3, <1>n DEF Holds, At, Record, Null
<1>5. LockExclusive'
  BY <1>r, <1>2, <1>4, <1>h, LockGivenBack DEF RecInv
<1>6. \A q \in Record : Kept(q)
  <2>1. \A q \in Record : Settled(q)' => Settled(q)
    BY <1>r, <1>2, <1>3, <1>h, SettledBefore
  <2> QED
    BY <1>3, <1>4, <2>1 DEF Kept
<1>7. WordsShape'
  <2>1. CASE t = Bg
    <3>1. pc[Bg] = "unlock" /\ stage = "published" /\ stage' = "replaced" /\ pc'[Bg] = "idle"
      BY <1>r, <1>3, <1>n, <2>1 DEF RecInv, BgShape
    <3> QED
      BY <1>3, <1>4, <3>1 DEF RecInv, WordsShape, Record
  <2>2. CASE t # Bg
    <3>1. pc'[Bg] = pc[Bg] /\ stage' = stage
      BY <1>2, <1>3, <2>2 DEF Same
    <3> QED
      BY <1>3, <1>4, <3>1 DEF RecInv, WordsShape, Record
  <2> QED
    BY <2>1, <2>2
<1>8. Match(t)'
  BY <1>3 DEF Match
<1>9. CASE t \in Worker
  <2>1. WorkerShape(t)' /\ stage' = stage
    BY <1>r, <1>3, <1>n, <1>9 DEF RecInv, WorkerShape, Reading, Writing, Record
  <2>2. Grace(t)'
    BY <1>r, <1>3, <1>9 DEF RecInv, Grace, Null
  <2> QED
    BY <1>1, <1>2, <1>3, <1>5, <1>6, <1>7, <1>8, <1>9, <2>1, <2>2, WorkerStep
<1>10. CASE t = Bg
  <2>1. BgShape' /\ stage = "published" /\ stage' = "replaced"
    BY <1>r, <1>3, <1>n, <1>10 DEF RecInv, BgShape, Reading
  <2> QED
    BY <1>1, <1>2, <1>3, <1>5, <1>6, <1>7, <1>8, <1>10, <2>1, BgStep
<1> QED
  BY <1>9, <1>10

\* The new group is published; the workers in an operation are waited for.
LEMMA StepPublish ==
    ASSUME RecInv, Publish
    PROVE  RecInv'
<1> USE RecordAssumption DEF Thread
<1>1. UNCHANGED <<words, local, plain, pc>> /\ stage = "old" /\ stage' = "published"
  BY DEF Publish, Quiet, client
<1>2. TypeOK'
  BY DEF RecInv, TypeOK, Publish, Quiet, client, words, local, Busy
<1>3. BgShape' /\ WordsShape'
  BY <1>1 DEF RecInv, BgShape, WordsShape, words, local
<1>4. \A u \in Worker : Grace(u)'
  BY <1>1 DEF Grace
<1> QED
  BY <1>1, <1>2, <1>3, <1>4, NothingMoves DEF RecInv

\* replace_pointer begins after the barrier.
LEMMA StepStartReplace ==
    ASSUME RecInv, StartReplace
    PROVE  RecInv'
<1> USE RecordAssumption DEF Thread
<1>1. TypeOK' /\ s' \in [Thread -> StatusWord]
  <2>1. val' \in [Record -> Val \cup {"old"}]
    BY DEF RecInv, TypeOK, words, StartReplace
  <2>2. status' \in [Record -> StatusWord]
    BY DEF RecInv, TypeOK, StatusWord, words, StartReplace, local
  <2>3. pc' \in [Thread -> {"idle", "status", "val", "again", "lock", "write", "bump",
                           "unlock", "store", "mark", "unptr"}]
    BY DEF RecInv, TypeOK, StartReplace, Goto
  <2>4. op' \in [Thread -> Ops \cup {NoOp}] /\ plain' \in [Thread -> BOOLEAN]
    BY DEF RecInv, TypeOK, StartReplace, Quiet, client
  <2>5. rec' \in [Thread -> Record \cup {Null}]
    BY DEF RecInv, TypeOK, StartReplace, Record
  <2>6. nested' \in [Thread -> BOOLEAN] /\ w' \in [Thread -> Val \cup {"old", Null}]
    BY DEF RecInv, TypeOK, StartReplace
  <2>7. /\ stage' \in {"old", "published", "replaced", "waiting", "freed"}
        /\ owe' \subseteq Worker /\ s' \in [Thread -> StatusWord]
    BY DEF RecInv, TypeOK, StartReplace
  <2> QED
    BY <2>1, <2>2, <2>3, <2>4, <2>5, <2>6, <2>7 DEF TypeOK, StatusWord
<1>2. \A u \in Thread \ {Bg} : Same(u)
  BY DEF RecInv, TypeOK, Same, StartReplace, Quiet, client, Goto
<1>3. /\ pc[Bg] = "idle" /\ pc'[Bg] = "lock" /\ rec'[Bg] = "new" /\ nested'[Bg] = nested[Bg]
      /\ plain'[Bg] = plain[Bg] /\ words' = words /\ stage = "published" /\ stage' = stage
  BY DEF RecInv, TypeOK, StartReplace, At, Goto, Quiet, client
<1>4. \A q \in Record : ~Holds(Bg, q) /\ ~Holds(Bg, q)'
  BY <1>3 DEF RecInv, BgShape, Holds, At
<1>5. LockExclusive'
  BY <1>2, <1>3, <1>4, LocksKept DEF RecInv, words
<1>6. \A q \in Record : Kept(q)
  <2>1. \A q \in Record : Settled(q)' => Settled(q)
    BY <1>2, <1>4, SettledBefore
  <2> QED
    BY <1>3, <2>1 DEF Kept, words
<1>7. WordsShape' /\ Match(Bg)' /\ BgShape'
  BY <1>3 DEF RecInv, WordsShape, Match, BgShape, Reading, words
<1> QED
  BY <1>1, <1>2, <1>3, <1>5, <1>6, <1>7, BgStep

\* replace_pointer puts the value in the place of the pointer, under the lock.
LEMMA StepStore ==
    ASSUME RecInv, Store
    PROVE  RecInv'
<1> USE RecordAssumption DEF Thread
<1>1. TypeOK' /\ s' \in [Thread -> StatusWord]
  <2>1. val' \in [Record -> Val \cup {"old"}]
    BY DEF RecInv, TypeOK, BgShape, Store, At
  <2>2. status' \in [Record -> StatusWord]
    BY DEF RecInv, TypeOK, StatusWord, words, Store, local
  <2>3. pc' \in [Thread -> {"idle", "status", "val", "again", "lock", "write", "bump",
                           "unlock", "store", "mark", "unptr"}]
    BY DEF RecInv, TypeOK, Store, Goto
  <2>4. op' \in [Thread -> Ops \cup {NoOp}] /\ plain' \in [Thread -> BOOLEAN]
    BY DEF RecInv, TypeOK, Store, Quiet, client
  <2>5. rec' \in [Thread -> Record \cup {Null}]
    BY DEF RecInv, TypeOK, Store, Record
  <2>6. nested' \in [Thread -> BOOLEAN] /\ w' \in [Thread -> Val \cup {"old", Null}]
    BY DEF RecInv, TypeOK, Store
  <2>7. /\ stage' \in {"old", "published", "replaced", "waiting", "freed"}
        /\ owe' \subseteq Worker /\ s' \in [Thread -> StatusWord]
    BY DEF RecInv, TypeOK, Store
  <2> QED
    BY <2>1, <2>2, <2>3, <2>4, <2>5, <2>6, <2>7 DEF TypeOK, StatusWord
<1>2. \A u \in Thread \ {Bg} : Same(u)
  BY DEF RecInv, TypeOK, Same, Store, Quiet, client, Goto
<1>b. stage = "published" /\ ~nested[Bg] /\ ~plain[Bg] /\ BgShape /\ WordsShape
  BY DEF RecInv, BgShape, Store, At
<1>3. /\ pc[Bg] = "store" /\ pc'[Bg] \in {"mark", "unptr"} /\ rec'[Bg] = "new"
      /\ nested'[Bg] = nested[Bg] /\ plain'[Bg] = plain[Bg] /\ w'[Bg] = w[Bg]
      /\ status' = status /\ stage' = stage
  BY DEF RecInv, TypeOK, Store, At, Goto, Quiet, client
<1>4. val'["old"] = val["old"] /\ val'["new"] = w[Bg] /\ status' = status
  BY DEF RecInv, TypeOK, Store, Record
<1>h. \A q \in Record : (Holds(Bg, q) <=> q = "new") /\ (Holds(Bg, q)' <=> q = "new")
  BY <1>b, <1>3 DEF RecInv, BgShape, Holds, At
<1>5. LockExclusive'
  BY <1>2, <1>4, <1>h, LocksKept DEF RecInv, Record
<1>6. \A q \in Record : Kept(q)
  <2>1. \A q \in Record : Settled(q)' => Settled(q)
    BY <1>2, <1>3, <1>h, SettledBefore
  <2> QED
    BY <1>3, <1>4, <1>h, <2>1 DEF Kept, Settled, Record
<1>7. WordsShape'
  <2>1. w[Bg] \in Val /\ w[Bg] # "old"
    BY <1>b, <1>3 DEF BgShape, Record
  <2> QED
    BY <1>b, <1>3, <1>4, <2>1 DEF WordsShape
<1>8. Match(Bg)' /\ BgShape'
  BY <1>b, <1>3 DEF RecInv, Match, BgShape, Reading
<1> QED
  BY <1>b, <1>1, <1>2, <1>3, <1>5, <1>6, <1>7, <1>8, BgStep

\* replace_pointer hands on the removed flag.
LEMMA StepMark ==
    ASSUME RecInv, Mark
    PROVE  RecInv'
<1> USE RecordAssumption DEF Thread
<1>1. TypeOK' /\ s' \in [Thread -> StatusWord]
  <2>1. val' \in [Record -> Val \cup {"old"}]
    BY DEF RecInv, TypeOK, Mark
  <2>2. status' \in [Record -> StatusWord]
    <3>1. status \in [Record -> StatusWord] /\ "new" \in Record
      BY DEF RecInv, TypeOK, WorkerShape, BgShape, StatusWord, Record, At, Reading, Mark
    <3> QED
      BY <3>1, SetRemoved DEF Mark
  <2>3. pc' \in [Thread -> {"idle", "status", "val", "again", "lock", "write", "bump",
                           "unlock", "store", "mark", "unptr"}]
    BY DEF RecInv, TypeOK, Mark, Goto
  <2>4. op' \in [Thread -> Ops \cup {NoOp}] /\ plain' \in [Thread -> BOOLEAN]
    BY DEF RecInv, TypeOK, Mark, Quiet, client
  <2>5. rec' \in [Thread -> Record \cup {Null}]
    BY DEF RecInv, TypeOK, local, Mark
  <2>6. nested' \in [Thread -> BOOLEAN] /\ w' \in [Thread -> Val \cup {"old", Null}]
    BY DEF RecInv, TypeOK, Mark, local
  <2>7. /\ stage' \in {"old", "published", "replaced", "waiting", "freed"}
        /\ owe' \subseteq Worker /\ s' \in [Thread -> StatusWord]
    BY DEF RecInv, TypeOK, Mark, local
  <2> QED
    BY <2>1, <2>2, <2>3, <2>4, <2>5, <2>6, <2>7 DEF TypeOK, StatusWord
<1>2. \A u \in Thread \ {Bg} : Same(u)
  BY DEF RecInv, TypeOK, Same, Mark, Quiet, client, Goto, local
<1>b. stage = "published" /\ ~nested[Bg] /\ ~plain[Bg] /\ BgShape /\ WordsShape
  BY DEF RecInv, BgShape, Mark, At
<1>3. /\ pc[Bg] = "mark" /\ pc'[Bg] = "unptr" /\ rec'[Bg] = rec[Bg]
      /\ nested'[Bg] = nested[Bg] /\ plain'[Bg] = plain[Bg] /\ w'[Bg] = w[Bg]
      /\ val' = val /\ stage' = stage
  BY DEF RecInv, TypeOK, Mark, At, Goto, Quiet, client, local
<1>4. /\ status'["old"] = status["old"]
      /\ status'["new"].removed = TRUE
      /\ status'["new"].locked = status["new"].locked
      /\ status'["new"].ptr = status["new"].ptr
      /\ status'["new"].version = status["new"].version
  <2>1. status \in [Record -> StatusWord] /\ "new" \in Record
    BY DEF RecInv, TypeOK, StatusWord, Record
  <2> QED
    BY <2>1, SetRemoved DEF Mark, Record
<1>h. \A q \in Record : (Holds(Bg, q) <=> q = "new") /\ (Holds(Bg, q)' <=> q = "new")
  BY <1>b, <1>3 DEF RecInv, BgShape, Holds, At
<1>5. LockExclusive'
  BY <1>2, <1>4, <1>h, LocksKept DEF RecInv, Record
<1>6. \A q \in Record : Kept(q)
  <2>1. \A q \in Record : Settled(q)' => Settled(q)
    BY <1>2, <1>3, <1>h, SettledBefore
  <2> QED
    BY <1>3, <1>4, <1>h, <2>1 DEF Kept, Settled, Record
<1>7. WordsShape'
  BY <1>b, <1>3, <1>4 DEF WordsShape
<1>8. Match(Bg)' /\ BgShape'
  BY <1>b, <1>3 DEF RecInv, Match, BgShape, Reading
<1> QED
  BY <1>b, <1>1, <1>2, <1>3, <1>5, <1>6, <1>7, <1>8, BgStep

\* replace_pointer clears the pointer flag.
LEMMA StepUnptr ==
    ASSUME RecInv, Unptr
    PROVE  RecInv'
<1> USE RecordAssumption DEF Thread
<1>1. TypeOK' /\ s' \in [Thread -> StatusWord]
  <2>1. val' \in [Record -> Val \cup {"old"}]
    BY DEF RecInv, TypeOK, Unptr
  <2>2. status' \in [Record -> StatusWord]
    <3>1. status \in [Record -> StatusWord] /\ "new" \in Record
      BY DEF RecInv, TypeOK, WorkerShape, BgShape, StatusWord, Record, At, Reading, Unptr
    <3> QED
      BY <3>1, SetPtr DEF Unptr
  <2>3. pc' \in [Thread -> {"idle", "status", "val", "again", "lock", "write", "bump",
                           "unlock", "store", "mark", "unptr"}]
    BY DEF RecInv, TypeOK, Unptr, Goto
  <2>4. op' \in [Thread -> Ops \cup {NoOp}] /\ plain' \in [Thread -> BOOLEAN]
    BY DEF RecInv, TypeOK, Unptr, Quiet, client
  <2>5. rec' \in [Thread -> Record \cup {Null}]
    BY DEF RecInv, TypeOK, local, Unptr
  <2>6. nested' \in [Thread -> BOOLEAN] /\ w' \in [Thread -> Val \cup {"old", Null}]
    BY DEF RecInv, TypeOK, Unptr, local
  <2>7. /\ stage' \in {"old", "published", "replaced", "waiting", "freed"}
        /\ owe' \subseteq Worker /\ s' \in [Thread -> StatusWord]
    BY DEF RecInv, TypeOK, Unptr, local
  <2> QED
    BY <2>1, <2>2, <2>3, <2>4, <2>5, <2>6, <2>7 DEF TypeOK, StatusWord
<1>2. \A u \in Thread \ {Bg} : Same(u)
  BY DEF RecInv, TypeOK, Same, Unptr, Quiet, client, Goto, local
<1>b. stage = "published" /\ ~nested[Bg] /\ ~plain[Bg] /\ BgShape /\ WordsShape
  BY DEF RecInv, BgShape, Unptr, At
<1>3. /\ pc[Bg] = "unptr" /\ pc'[Bg] = "bump" /\ rec'[Bg] = rec[Bg]
      /\ nested'[Bg] = nested[Bg] /\ plain'[Bg] = plain[Bg] /\ w'[Bg] = w[Bg]
      /\ val' = val /\ stage' = stage
  BY DEF RecInv, TypeOK, Unptr, At, Goto, Quiet, client, local
<1>4. /\ status'["old"] = status["old"]
      /\ status'["new"].ptr = FALSE
      /\ status'["new"].locked = status["new"].locked
      /\ status'["new"].removed = status["new"].removed
      /\ status'["new"].version = status["new"].version
  <2>1. status \in [Record -> StatusWord] /\ "new" \in Record
    BY DEF RecInv, TypeOK, StatusWord, Record
  <2> QED
    BY <2>1, SetPtr DEF Unptr, Record
<1>h. \A q \in Record : (Holds(Bg, q) <=> q = "new") /\ (Holds(Bg, q)' <=> q = "new")
  BY <1>b, <1>3 DEF RecInv, BgShape, Holds, At
<1>5. LockExclusive'
  BY <1>2, <1>4, <1>h, LocksKept DEF RecInv, Record
<1>6. \A q \in Record : Kept(q)
  <2>1. \A q \in Record : Settled(q)' => Settled(q)
    BY <1>2, <1>3, <1>h, SettledBefore
  <2> QED
    BY <1>3, <1>4, <1>h, <2>1 DEF Kept, Settled, Record
<1>7. WordsShape'
  BY <1>b, <1>3, <1>4 DEF WordsShape
<1>8. Match(Bg)' /\ BgShape'
  BY <1>b, <1>3 DEF RecInv, Match, BgShape, Reading
<1> QED
  BY <1>b, <1>1, <1>2, <1>3, <1>5, <1>6, <1>7, <1>8, BgStep

\* The second barrier waits for all who may have found the pointer.
LEMMA StepSecondBarrier ==
    ASSUME RecInv, SecondBarrier
    PROVE  RecInv'
<1> USE RecordAssumption DEF Thread
<1>1. UNCHANGED <<words, local, plain, pc>> /\ stage = "replaced" /\ stage' = "waiting"
  BY DEF SecondBarrier, Quiet, client
<1>2. TypeOK'
  BY DEF RecInv, TypeOK, SecondBarrier, Quiet, client, words, local, Busy
<1>3. BgShape' /\ WordsShape'
  BY <1>1 DEF RecInv, BgShape, WordsShape, words, local
<1>4. \A u \in Worker : Grace(u)'
  <2>1. ASSUME NEW u \in Worker, u \notin owe' PROVE pc'[u] = "idle" /\ rec'[u] = Null
    BY <1>1, <2>1 DEF RecInv, WorkerShape, SecondBarrier, Busy, At, local
  <2> QED
    BY <1>1, <2>1 DEF Grace, Null
<1> QED
  BY <1>1, <1>2, <1>3, <1>4, NothingMoves DEF RecInv

\* The old record is freed when the barrier waits for nobody.
LEMMA StepFreeData ==
    ASSUME RecInv, FreeData
    PROVE  RecInv'
<1> USE RecordAssumption DEF Thread
<1>1. UNCHANGED <<words, local, plain, pc>> /\ stage = "waiting" /\ stage' = "freed"
  BY DEF FreeData, Quiet, client
<1>2. TypeOK'
  BY DEF RecInv, TypeOK, FreeData, Quiet, client, words, local
<1>3. BgShape' /\ WordsShape'
  BY <1>1 DEF RecInv, BgShape, WordsShape, words, local
<1>4. \A u \in Worker : Grace(u)'
  <2>1. owe = {}
    BY DEF FreeData, BarrierDone
  <2> QED
    BY <1>1, <2>1 DEF RecInv, Grace, local
<1> QED
  BY <1>1, <1>2, <1>3, <1>4, NothingMoves DEF RecInv

-----------------------------------------------------------------------------
\* No step breaks the invariant.
LEMMA NextRecInv == RecInv /\ [Next]_vars => RecInv'
<1> SUFFICES ASSUME RecInv, [Next]_vars PROVE RecInv'
  OBVIOUS
<1>1. CASE UNCHANGED vars
  <2>1. UNCHANGED <<words, local, plain, pc, op, stage, owe>>
    BY <1>1 DEF vars, client
  <2>2. TypeOK' /\ BgShape' /\ WordsShape' /\ \A u \in Worker : Grace(u)'
    BY <2>1 DEF RecInv, TypeOK, BgShape, WordsShape, Grace, words, local
  <2> QED
    BY <2>1, <2>2, NothingMoves DEF RecInv
<1>2. ASSUME NEW t \in Thread, Call(t) \/ Step(t) PROVE RecInv'
  BY <1>2, StepCall, StepLoadStatus, StepLoadVal, StepLoadAgain, StepLock, StepWrite, StepBump,
     StepUnlock DEF Step
<1>3. CASE Compact
  BY <1>3, StepPublish, StepStartReplace, StepStore, StepMark, StepUnptr, StepSecondBarrier,
     StepFreeData DEF Compact
<1> QED
  BY <1>1, <1>2, <1>3 DEF Next

\* The invariant holds of a record that nobody uses yet.
LEMMA InitRecInv == Init => RecInv
<1> SUFFICES ASSUME Init PROVE RecInv
  OBVIOUS
<1> USE RecordAssumption DEF Init, Thread, Record, Null, Clear, NoOp
<1>1. TypeOK /\ s \in [Thread -> StatusWord]
  BY DEF TypeOK, StatusWord
<1>2. (\A t \in Worker : WorkerShape(t)) /\ BgShape /\ WordsShape
  BY DEF WorkerShape, BgShape, WordsShape, Reading, Writing
<1>3. LockExclusive
  BY DEF LockExclusive, Holds, At
<1>4. (\A t \in Thread : Match(t)) /\ \A t \in Worker : Grace(t)
  BY DEF Match, Grace
<1> QED
  BY <1>1, <1>2, <1>3, <1>4 DEF RecInv

\* The inductive invariant holds throughout.
LEMMA AlwaysRecInv == Spec => []RecInv
<1> QED
  BY InitRecInv, NextRecInv, PTL DEF Spec

\* Every variable has its type: a pointer a reader follows is that of a record,
\* never a payload taken for one.
THEOREM RecordTypes == Spec => []TypeOK
<1>1. RecInv => TypeOK
  BY DEF RecInv
<1> QED
  BY <1>1, AlwaysRecInv, PTL

\* AtomicVal::lock and unlock: the lock bit of a record is set exactly while one
\* thread has it, also when an operation goes on from the new record to the old.
THEOREM RecordLocksExclude == Spec => []LockExclusive
<1>1. RecInv => LockExclusive
  BY DEF RecInv
<1> QED
  BY <1>1, AlwaysRecInv, PTL

\* The assertion of AtomicVal::read: a pointer that is followed is not removed.
THEOREM PointersFollowedAreLive == Spec => []PointerLive
<1>1. ASSUME RecInv PROVE PointerLive
  <2> SUFFICES ASSUME NEW t \in Thread, At(t, "again"), Stable(t), s[t].ptr
               PROVE  ~s[t].removed
    BY DEF PointerLive
  <2> USE <1>1, RecordAssumption DEF Thread
  <2>1. ~plain[t] /\ t # Bg
    BY DEF RecInv, Match, WorkerShape, BgShape, At, Reading
  <2> QED
    BY <2>1, FollowsOld
<1> QED
  BY <1>1, AlwaysRecInv, PTL

\* free_data of the old group comes after every use of its records, those of
\* readers included that found the pointer before it was replaced.
THEOREM RecordsFreedUntouched == Spec => []FreedUntouched
<1>1. ASSUME RecInv PROVE FreedUntouched
  BY <1>1, RecordAssumption DEF RecInv, Grace, BgShape, FreedUntouched, At, Thread, Null
<1> QED
  BY <1>1, AlwaysRecInv, PTL

=============================================================================
