------------------------- MODULE XIndexRecordLinear -------------------------
(***************************************************************************)
(* The record is linearizable: XIndexRecord implements LinearMap, for any  *)
(* number of workers, calls and payloads.                                  *)
(*                                                                         *)
(* A read needs no lock to be right about one instant: a removed record    *)
(* stays removed and keeps its payload, so a payload read after a status   *)
(* without the removed flag was the record's at that time or at the time   *)
(* of the removal.  The rest is about the two records: who writes the old  *)
(* one finds it behind the pointer, and replace_pointer copies an old      *)
(* record that nobody changes any more.                                    *)
(***************************************************************************)
EXTENDS XIndexRecordProofs

\* What a reader of r that takes flag and payload at once would find.
Value(r) == IF status[r].removed THEN Absent ELSE val[r]

\* A worker's operation is pending until it has its result.
OpShape(t) ==
    /\ pc[t] \in Reading => op[t] \in Ops /\ op[t].fn = "get"
    /\ pc[t] \in {"lock", "write"} => op[t] \in Ops /\ op[t].fn \in {"update", "remove"}
    /\ pc[t] \in {"idle", "bump", "unlock"} => op[t] = NoOp

\* Past the first barrier no worker writes the old record, or ignores pointers,
\* but those that came through the new record, which they have locked.
Drained(t) ==
    stage # "old" /\ pc[t] # "idle" /\ (plain[t] \/ (pc[t] \in Writing /\ rec[t] = "old")) =>
        /\ stage = "published"
        /\ nested[t] \/ (pc[Bg] = "idle" /\ t \in owe)

\* A pending operation has seen what the record has now.
SeenNow(t) == op[t] # NoOp => Contents \in seen[t]

\* One that reads the old record has seen what that has, replaced or not.
SeenOld(t) == pc[t] \in Reading /\ rec[t] = "old" => Value("old") \in seen[t]

\* A reader that does not follow a pointer has seen what it would return.
Noted(t) == pc[t] \in {"val", "again"} /\ ~s[t].ptr =>
    /\ rec[t] = "new" => ~status["new"].ptr
    /\ s[t].removed => Absent \in seen[t]
    /\ ~s[t].removed /\ pc[t] = "val" => val[rec[t]] \in seen[t]
    /\ ~s[t].removed /\ pc[t] = "again" => w[t] \in seen[t]
    /\ pc[t] = "again" => w[t] \in Val

\* The background thread has the flag and the payload of the old record.
BgCopy ==
    /\ pc[Bg] = "store" => w[Bg] = val["old"] /\ s[Bg].removed = status["old"].removed
    /\ pc[Bg] \in {"mark", "unptr"} => val["new"] = val["old"]
    /\ pc[Bg] = "mark" => status["old"].removed
    /\ pc[Bg] = "unptr" => status["new"].removed = status["old"].removed

\* The inductive invariant.
LinInv == /\ \A t \in Worker : /\ OpShape(t) /\ Drained(t)
                               /\ SeenNow(t) /\ SeenOld(t) /\ Noted(t)
          /\ op[Bg] = NoOp /\ BgCopy
          /\ pc[Bg] # "idle" => owe = {}

-----------------------------------------------------------------------------
(* What a step shows to the operations of others.                          *)

\* The pointer flag is never set again; a payload changes to what the contents
\* are then, or behind a pointer; and so does what the old record has.
Shown == /\ status'["new"].ptr => status["new"].ptr
         /\ \A r \in Record : \/ val'[r] = val[r] \/ val'[r] = Contents'
                              \/ r = "new" /\ status["new"].ptr
         /\ Value("old")' \in {Value("old"), Contents'}

\* A pending operation collects what the contents are after each step.
LEMMA SeenGrows ==
    ASSUME Observe, NEW u \in Thread, op'[u] # NoOp
    PROVE  seen'[u] = seen[u] \cup {Contents'}
  BY DEF Observe

\* Flags and payloads stay: at most locks and versions change.
Still == \A r \in Record : /\ val'[r] = val[r]
                           /\ status'[r].ptr = status[r].ptr
                           /\ status'[r].removed = status[r].removed

\* Then the contents stay.
LEMMA Calm ==
    ASSUME Still
    PROVE  Shown /\ Contents' = Contents /\ Value("old")' = Value("old")
<1>1. Holder' = Holder /\ Holder \in Record
  BY DEF Still, Holder, Record
<1>2. Contents' = Contents
  BY <1>1 DEF Still, Contents
<1>3. Value("old")' = Value("old")
  BY DEF Still, Value, Record
<1> QED
  BY <1>2, <1>3 DEF Still, Shown, Record

\* And what the background thread has copied stays right.
LEMMA CalmCopy ==
    ASSUME BgCopy, Still, Same(Bg)
    PROVE  BgCopy'
  BY DEF BgCopy, Still, Same, Record

\* What the operation of another worker has seen and noted stays right.
LEMMA Watched ==
    ASSUME RecInv, LinInv, Observe, Shown,
           NEW u \in Worker, Same(u), op'[u] = op[u]
    PROVE  OpShape(u)' /\ SeenNow(u)' /\ SeenOld(u)' /\ Noted(u)'
<1> USE DEF Thread
<1>1. OpShape(u) /\ SeenNow(u) /\ SeenOld(u) /\ Noted(u) /\ WorkerShape(u)
  BY DEF LinInv, RecInv
<1>2. OpShape(u)'
  BY <1>1 DEF OpShape, Same
<1>3. op'[u] # NoOp => seen'[u] = seen[u] \cup {Contents'}
  BY SeenGrows
<1>4. SeenNow(u)'
  BY <1>3 DEF SeenNow
<1>5. pc[u] \in Reading => op'[u] # NoOp
  <2>1. \A o \in Ops : o.fn # NoOp.fn
    BY DEF Ops, NoOp
  <2> QED
    BY <1>1, <2>1 DEF OpShape
<1>6. SeenOld(u)'
  BY <1>1, <1>3, <1>5 DEF SeenOld, Same, Shown
<1>7. Noted(u)'
  <2> SUFFICES ASSUME pc[u] \in {"val", "again"}, ~s[u].ptr PROVE Noted(u)'
    BY DEF Noted, Same
  <2>1. rec[u] \in Record /\ seen'[u] = seen[u] \cup {Contents'}
    BY <1>1, <1>3, <1>5 DEF WorkerShape, Reading
  <2>2. \/ val'[rec[u]] = val[rec[u]] \/ val'[rec[u]] = Contents'
        \/ rec[u] = "new" /\ status["new"].ptr
    BY <2>1 DEF Shown
  <2> QED
    BY <1>1, <2>1, <2>2 DEF Noted, Same, Shown
<1> QED
  BY <1>2, <1>4, <1>6, <1>7

\* A worker's step keeps the invariant if it keeps the worker's part.
LEMMA WorkerSees ==
    ASSUME RecInv, LinInv, Observe, Shown,
           NEW t \in Worker, \A u \in Thread \ {t} : Same(u) /\ op'[u] = op[u],
           stage' = stage, owe \ {t} \subseteq owe', owe' \subseteq owe,
           OpShape(t)', Drained(t)', SeenOld(t)', Noted(t)', BgCopy'
    PROVE  LinInv'
<1> USE RecordAssumption DEF Thread
<1>1. Same(Bg) /\ op'[Bg] = op[Bg]
  OBVIOUS
<1>2. SeenNow(t)'
  BY SeenGrows DEF SeenNow
<1>3. ASSUME NEW u \in Worker, u # t
      PROVE  OpShape(u)' /\ Drained(u)' /\ SeenNow(u)' /\ SeenOld(u)' /\ Noted(u)'
  <2>1. Same(u) /\ op'[u] = op[u] /\ Drained(u) /\ (u \in owe => u \in owe')
    BY <1>3 DEF LinInv
  <2>2. Drained(u)'
    BY <1>1, <2>1 DEF Drained, Same
  <2> QED
    BY <2>1, <2>2, Watched
<1>4. op'[Bg] = NoOp /\ (pc'[Bg] # "idle" => owe' = {})
  BY <1>1 DEF LinInv, Same
<1> QED
  BY <1>2, <1>3, <1>4 DEF LinInv

\* A step of the background thread inside replace_pointer.
LEMMA BgSees ==
    ASSUME RecInv, LinInv, Observe, Shown,
           \A u \in Worker : Same(u) /\ op'[u] = op[u], op'[Bg] = op[Bg],
           owe = {}, owe' = {}, stage = "published", stage' = stage, BgCopy'
    PROVE  LinInv'
<1>1. ASSUME NEW u \in Worker
      PROVE  OpShape(u)' /\ Drained(u)' /\ SeenNow(u)' /\ SeenOld(u)' /\ Noted(u)'
  <2>1. Same(u) /\ op'[u] = op[u] /\ Drained(u)
    BY DEF LinInv
  <2>2. Drained(u)'
    BY <2>1 DEF Drained, Same
  <2> QED
    BY <2>1, <2>2, Watched
<1> QED
  BY <1>1 DEF LinInv

\* LinearMap collects the same as the record does.
LEMMA ObserveRefined ==
    ASSUME TypeOK', Observe
    PROVE  LM!Observe
<1>1. \A u \in Thread : op'[u] \in Ops \cup {NoOp}
  BY DEF TypeOK
<1>2. \A u \in Thread : op'[u] # NoOp => op'[u].key = "k"
  BY <1>1 DEF Ops
<1> QED
  BY <1>2 DEF Observe, LM!Observe, LM!NoOp, NoOp

\* A step that returns nothing and leaves the contents alone is no step of the map.
LEMMA Unseen ==
    ASSUME TypeOK', Observe, Quiet, Contents' = Contents
    PROVE  LM!Next
  BY ObserveRefined DEF LM!Next, LM!Taken, LM!NoReturn, NoReturn, Quiet, client

-----------------------------------------------------------------------------
(* The steps.                                                              *)

\* The call: a worker that starts on the old record finds it behind the pointer.
LEMMA SeeCall ==
    ASSUME RecInv, RecInv', LinInv, Observe, NEW t \in Thread, Call(t)
    PROVE  LinInv' /\ LM!Next
<1> USE RecordAssumption DEF Thread
<1>1. /\ \A u \in Thread \ {t} : Same(u) /\ op'[u] = op[u]
      /\ t \in Worker /\ pc[t] = "idle" /\ words' = words /\ stage' = stage /\ owe' = owe
  BY DEF RecInv, TypeOK, Same, Call, At, Goto
<1>2. PICK o \in Workload : op' = [op EXCEPT ![t] = o]
  BY DEF Call
<1>3. o \in Ops /\ op'[t] = o /\ o.fn \in {"get", "update", "remove"}
  BY <1>2 DEF RecInv, TypeOK, Ops
<1>4. /\ pc'[t] = (IF op'[t].fn = "get" THEN "status" ELSE "lock")
      /\ rec'[t] = (IF stage = "old" THEN "old" ELSE "new")
  BY DEF RecInv, TypeOK, Call, Goto
<1>p. stage # "old" => ~plain'[t]
  BY DEF RecInv, TypeOK, Call
<1>5. Still
  BY <1>1 DEF Still, words
<1>6. OpShape(t)' /\ Drained(t)' /\ Noted(t)'
  BY <1>1, <1>3, <1>4, <1>p DEF OpShape, Drained, Noted, Reading
<1>7. SeenOld(t)'
  <2>1. CASE stage = "old"
    <3>1. pc[Bg] = "idle" /\ status["new"].ptr
      BY <2>1 DEF RecInv, BgShape, WordsShape
    <3>2. Contents' = Value("old")'
      BY <1>1, <3>1 DEF Contents, Holder, Value, words
    <3>3. op'[t] # NoOp
      <4>1. NoOp.fn = "none"
        BY DEF NoOp
      <4> QED
        BY <1>3, <4>1
    <3> QED
      BY <3>2, <3>3, SeenGrows DEF SeenOld
  <2>2. CASE stage # "old"
    BY <1>4, <2>2 DEF SeenOld
  <2> QED
    BY <2>1, <2>2
<1>8. BgCopy'
  BY <1>1, <1>5, CalmCopy DEF LinInv
<1>9. LinInv'
  BY <1>1, <1>5, <1>6, <1>7, <1>8, Calm, WorkerSees
<1>10. LM!Call(t)
  <2>1. op[t] = NoOp /\ ret' = NoReturn
    BY <1>1 DEF LinInv, OpShape, Call
  <2>2. o \in LM!Ops
    BY <1>3 DEF Ops, LM!Ops
  <2>3. Contents' = Contents
    BY <1>5, Calm
  <2> QED
    BY <1>2, <2>1, <2>2, <2>3 DEF LM!Call, LM!NoOp, LM!NoReturn, NoOp, NoReturn
<1> QED
  BY <1>1, <1>9, <1>10, ObserveRefined DEF RecInv, LM!Next

\* The first load of read: the reader has seen what goes with the status it notes.
LEMMA SeeLoadStatus ==
    ASSUME RecInv, RecInv', LinInv, Observe, NEW t \in Thread, LoadStatus(t)
    PROVE  LinInv' /\ LM!Next
<1> USE RecordAssumption DEF Thread
<1>1. /\ \A u \in Thread \ {t} : Same(u)
      /\ pc[t] = "status" /\ pc'[t] = "val" /\ rec'[t] = rec[t] /\ s'[t] = status[rec[t]]
      /\ plain'[t] = plain[t] /\ nested'[t] = nested[t] /\ op' = op
      /\ words' = words /\ stage' = stage /\ owe' = owe
  BY DEF RecInv, TypeOK, Same, LoadStatus, At, Goto, Quiet, client
<1>2. Still
  BY <1>1 DEF Still, words
<1>3. Quiet /\ TypeOK'
  BY DEF RecInv, LoadStatus
<1>4. LM!Next
  BY <1>2, <1>3, Calm, Unseen
<1>5. CASE t \in Worker
  <2>1. OpShape(t) /\ Drained(t) /\ SeenNow(t) /\ SeenOld(t) /\ WorkerShape(t) /\ BgCopy /\ Same(Bg)
    BY <1>1, <1>5 DEF LinInv, RecInv
  <2>n. op'[t] # NoOp /\ seen'[t] = seen[t] \cup {Contents'}
    <3>1. op[t] \in Ops /\ op'[t] = op[t]
      BY <1>1, <1>5 DEF LinInv, OpShape, Reading
    <3>2. \A o \in Ops : o.fn # NoOp.fn
      BY DEF Ops, NoOp
    <3> QED
      BY <3>1, <3>2, SeenGrows
  <2>2. OpShape(t)' /\ Drained(t)' /\ BgCopy'
    BY <1>1, <1>2, <2>1, CalmCopy DEF OpShape, Drained, Same, Reading, Writing
  <2>3. SeenOld(t)'
    BY <1>1, <1>2, <2>1, <2>n, Calm DEF SeenOld, Reading
  <2>4. ~status[rec[t]].ptr => Value(rec[t]) \in seen[t]
    BY <1>1, <2>1, <2>n DEF WorkerShape, SeenOld, SeenNow, Value, Contents, Holder, Reading, Record
  <2>5. Noted(t)'
    BY <1>1, <2>1, <2>n, <2>4 DEF Noted, Value, words
  <2> QED
    BY <1>1, <1>2, <1>4, <1>5, <2>2, <2>3, <2>5, Calm, WorkerSees
<1>6. CASE t = Bg
  <2>1. BgCopy' /\ owe = {} /\ stage = "published"
    BY <1>1, <1>6 DEF RecInv, LinInv, BgShape, BgCopy
  <2> QED
    BY <1>1, <1>2, <1>4, <1>6, <2>1, Calm, BgSees
<1> QED
  BY <1>5, <1>6

\* The load of the value: the reader has seen it, or has noted that it is removed.
LEMMA SeeLoadVal ==
    ASSUME RecInv, RecInv', LinInv, Observe, NEW t \in Thread, LoadVal(t)
    PROVE  LinInv' /\ LM!Next
<1> USE RecordAssumption DEF Thread
<1>1. /\ \A u \in Thread \ {t} : Same(u)
      /\ pc[t] = "val" /\ pc'[t] \in {"status", "again"} /\ rec'[t] = rec[t]
      /\ s'[t] = s[t] /\ w'[t] = val[rec[t]]
      /\ plain'[t] = plain[t] /\ nested'[t] = nested[t] /\ op' = op
      /\ words' = words /\ stage' = stage /\ owe' = owe
  BY DEF RecInv, TypeOK, Same, LoadVal, At, Goto, Quiet, client
<1>2. Still
  BY <1>1 DEF Still, words
<1>3. Quiet /\ TypeOK'
  BY DEF RecInv, LoadVal
<1>4. LM!Next
  BY <1>2, <1>3, Calm, Unseen
<1>5. CASE t \in Worker
  <2>1. OpShape(t) /\ Drained(t) /\ SeenOld(t) /\ Noted(t) /\ WorkerShape(t) /\ BgCopy /\ Same(Bg)
    BY <1>1, <1>5 DEF LinInv, RecInv
  <2>n. op'[t] # NoOp /\ seen'[t] = seen[t] \cup {Contents'}
    <3>1. op[t] \in Ops /\ op'[t] = op[t]
      BY <1>1, <1>5 DEF LinInv, OpShape, Reading
    <3>2. \A o \in Ops : o.fn # NoOp.fn
      BY DEF Ops, NoOp
    <3> QED
      BY <3>1, <3>2, SeenGrows
  <2>2. OpShape(t)' /\ Drained(t)' /\ BgCopy'
    BY <1>1, <1>2, <2>1, CalmCopy DEF OpShape, Drained, Same, Reading, Writing
  <2>3. SeenOld(t)'
    BY <1>1, <1>2, <2>1, <2>n, Calm DEF SeenOld, Reading
  <2>4. ~s[t].ptr => val[rec[t]] \in Val
    <3>1. rec[t] \in Record /\ val["old"] \in Val /\ val["new"] \in Val \cup {"old"}
      BY <1>1, <2>1 DEF RecInv, TypeOK, WordsShape, WorkerShape, Record
    <3>2. ~status["new"].ptr => val["new"] # "old"
      BY DEF RecInv, WordsShape
    <3> QED
      BY <1>1, <2>1, <3>1, <3>2 DEF Noted, Record
  <2>5. Noted(t)'
    BY <1>1, <2>1, <2>n, <2>4 DEF Noted, words
  <2> QED
    BY <1>1, <1>2, <1>4, <1>5, <2>2, <2>3, <2>5, Calm, WorkerSees
<1>6. CASE t = Bg
  <2>1. BgCopy' /\ owe = {} /\ stage = "published"
    BY <1>1, <1>6 DEF RecInv, LinInv, BgShape, BgCopy
  <2> QED
    BY <1>1, <1>2, <1>4, <1>6, <2>1, Calm, BgSees
<1> QED
  BY <1>5, <1>6

\* The second load of read: a reader that follows the pointer has seen what the old
\* record has, and one that returns has seen what it returns.
LEMMA SeeLoadAgain ==
    ASSUME RecInv, RecInv', LinInv, Observe, NEW t \in Thread, LoadAgain(t)
    PROVE  LinInv' /\ LM!Next
<1> USE RecordAssumption DEF Thread
<1>1. /\ \A u \in Thread \ {t} : Same(u) /\ op'[u] = op[u]
      /\ pc[t] = "again" /\ plain'[t] = plain[t] /\ nested'[t] = nested[t]
      /\ words' = words /\ stage' = stage /\ owe \ {t} \subseteq owe' /\ owe' \subseteq owe
  BY DEF RecInv, TypeOK, Same, LoadAgain, At, Goto, Quiet, client, Result, Return, Forget
<1>2. Still
  BY <1>1 DEF Still, words
<1>3. \/ pc'[t] = "status" /\ rec'[t] = rec[t] /\ owe' = owe /\ Quiet
      \/ Stable(t) /\ s[t].ptr /\ ~plain[t] /\ pc'[t] = "status" /\ owe' = owe /\ Quiet
      \/ /\ t \in Worker /\ ~(s[t].ptr /\ ~plain[t]) /\ pc'[t] = "idle"
         /\ Result(t, ~s[t].removed, IF s[t].removed THEN Absent ELSE w[t])
      \/ t = Bg /\ Stable(t) /\ pc'[t] = "store" /\ s'[t] = s[t] /\ w'[t] = w[t] /\ Quiet
  BY DEF RecInv, TypeOK, LoadAgain, Goto, Return
<1>4. Quiet => LM!Next
  BY <1>2, Calm, Unseen DEF RecInv
<1>5. CASE t \in Worker
  <2>1. OpShape(t) /\ Drained(t) /\ SeenNow(t) /\ SeenOld(t) /\ Noted(t) /\ WorkerShape(t)
        /\ Match(t) /\ BgCopy /\ Same(Bg)
    BY <1>1, <1>5 DEF LinInv, RecInv
  <2>2. op[t] \in Ops /\ op[t] # NoOp /\ op[t].fn = "get"
    <3>1. \A o \in Ops : o.fn # NoOp.fn
      BY DEF Ops, NoOp
    <3> QED
      BY <1>1, <2>1, <3>1 DEF OpShape, Reading
  <2>3. Noted(t)' /\ BgCopy'
    BY <1>2, <1>3, <1>5, <2>1, CalmCopy DEF Noted
  <2>4. CASE pc'[t] = "status" /\ owe' = owe /\ Quiet
    <3>1. op' = op /\ seen'[t] = seen[t] \cup {Contents'}
      BY <2>2, <2>4, SeenGrows DEF Quiet, client
    <3>2. OpShape(t)' /\ Drained(t)'
      BY <1>1, <2>1, <2>4, <3>1 DEF OpShape, Drained, Same, Reading, Writing
    <3>3. SeenOld(t)'
      <4>1. CASE rec'[t] = rec[t]
        BY <1>1, <1>2, <2>1, <3>1, <4>1, Calm DEF SeenOld, Reading
      <4>2. CASE Stable(t) /\ s[t].ptr /\ ~plain[t]
        <5>1. status["new"].ptr
          BY <1>1, <1>5, <4>2, FollowsOld DEF At
        <5>2. Value("old") \in seen[t]
          BY <2>1, <2>2, <5>1 DEF SeenNow, Contents, Holder, Value
        <5> QED
          BY <1>2, <3>1, <5>2, Calm DEF SeenOld
      <4> QED
        BY <1>3, <2>4, <4>1, <4>2
    <3> QED
      BY <1>1, <1>2, <1>4, <1>5, <2>3, <2>4, <3>2, <3>3, Calm, WorkerSees
  <2>5. CASE /\ pc'[t] = "idle" /\ ~(s[t].ptr /\ ~plain[t])
             /\ Result(t, ~s[t].removed, IF s[t].removed THEN Absent ELSE w[t])
    <3>1. op' = [op EXCEPT ![t] = NoOp] /\ op'[t] = NoOp
      BY <2>5 DEF RecInv, TypeOK, Result
    <3>2. OpShape(t)' /\ Drained(t)' /\ SeenOld(t)'
      BY <2>5, <3>1 DEF OpShape, Drained, SeenOld, Reading
    <3>3. LinInv'
      BY <1>1, <1>2, <1>5, <2>3, <3>2, Calm, WorkerSees
    <3>4. ~s[t].ptr
      BY <1>1, <2>1, <2>5 DEF Match, WorkerShape
    <3>5. \E x \in seen[t] : ret' = [thread |-> t, ok |-> x # Absent, out |-> x]
      <4>1. CASE s[t].removed
        BY <1>1, <2>1, <2>5, <3>4, <4>1 DEF Noted, Result
      <4>2. CASE ~s[t].removed
        <5>1. w[t] \in seen[t] /\ w[t] # Absent
          BY <1>1, <2>1, <3>4, <4>2 DEF Noted
        <5> QED
          BY <2>5, <4>2, <5>1 DEF Result
      <4> QED
        BY <4>1, <4>2
    <3>6. LM!Answer(t)
      <4>1. Contents' = Contents
        BY <1>2, Calm
      <4> QED
        BY <2>2, <3>1, <3>5, <4>1 DEF LM!Answer, LM!Awaits, LM!Return, LM!NoOp, NoOp
    <3> QED
      BY <1>5, <3>3, <3>6, ObserveRefined DEF RecInv, LM!Next
  <2> QED
    BY <1>3, <1>5, <2>4, <2>5
<1>6. CASE t = Bg
  <2>1. /\ owe = {} /\ stage = "published" /\ ~plain[Bg] /\ rec[Bg] = "old" /\ Match(Bg)
    BY <1>1, <1>6 DEF RecInv, LinInv, BgShape, Reading
  <2>2. Quiet /\ op' = op /\ owe' = {}
    BY <1>1, <1>3, <1>6, <2>1 DEF Quiet, client
  <2>3. BgCopy'
    <3>1. ASSUME Stable(Bg) PROVE w[Bg] = val["old"] /\ s[Bg].removed = status["old"].removed
      <4>1. ~status["old"].locked /\ s[Bg].version = status["old"].version /\ "old" \in Record
        BY <2>1, <3>1 DEF Stable, Record
      <4>2. Settled("old")
        BY <4>1 DEF RecInv, LockExclusive, Settled
      <4> QED
        BY <1>1, <1>6, <2>1, <4>1, <4>2 DEF Match
    <3> QED
      BY <1>1, <1>3, <1>6, <2>2, <3>1 DEF BgCopy, words
  <2> QED
    BY <1>1, <1>2, <1>4, <1>6, <2>1, <2>2, <2>3, Calm, BgSees
<1> QED
  BY <1>5, <1>6

\* Locking changes nothing an operation can see.
LEMMA SeeLock ==
    ASSUME RecInv, RecInv', LinInv, Observe, NEW t \in Thread, Lock(t)
    PROVE  LinInv' /\ LM!Next
<1> USE RecordAssumption DEF Thread
<1>1. /\ \A u \in Thread \ {t} : Same(u)
      /\ pc[t] = "lock" /\ pc'[t] = (IF t = Bg THEN "status" ELSE "write")
      /\ t # Bg => rec'[t] = rec[t]
      /\ plain'[t] = plain[t] /\ nested'[t] = nested[t] /\ op' = op
      /\ val' = val /\ stage' = stage /\ owe' = owe
  BY DEF RecInv, TypeOK, Same, Lock, At, Goto, Quiet, client
<1>2. Still
  <2>1. PICK r \in Record : rec[t] = r /\ status \in [Record -> StatusWord]
    BY DEF RecInv, TypeOK, WorkerShape, BgShape, StatusWord, Record, At, Lock
  <2> QED
    BY <1>1, <2>1, SetLocked DEF Lock, Still
<1>3. Quiet /\ TypeOK'
  BY DEF RecInv, Lock
<1>4. LM!Next
  BY <1>2, <1>3, Calm, Unseen
<1>5. CASE t \in Worker
  <2>1. OpShape(t) /\ Drained(t) /\ WorkerShape(t) /\ BgCopy /\ Same(Bg)
    BY <1>1, <1>5 DEF LinInv, RecInv
  <2>2. OpShape(t)' /\ Drained(t)' /\ SeenOld(t)' /\ Noted(t)' /\ BgCopy'
    BY <1>1, <1>2, <1>5, <2>1, CalmCopy
       DEF OpShape, Drained, SeenOld, Noted, WorkerShape, Same, Reading, Writing
  <2> QED
    BY <1>1, <1>2, <1>4, <1>5, <2>2, Calm, WorkerSees
<1>6. CASE t = Bg
  <2>1. BgCopy' /\ owe = {} /\ stage = "published"
    BY <1>1, <1>6 DEF RecInv, LinInv, BgShape, BgCopy
  <2> QED
    BY <1>1, <1>2, <1>4, <1>6, <2>1, Calm, BgSees
<1> QED
  BY <1>5, <1>6

\* The change under the lock is that of the map, or fails because the map has nothing.
LEMMA SeeWrite ==
    ASSUME RecInv, RecInv', LinInv, Observe, NEW t \in Thread, Write(t)
    PROVE  LinInv' /\ LM!Next
<1> USE RecordAssumption DEF Thread
<1>1. /\ \A u \in Thread \ {t} : Same(u) /\ op'[u] = op[u]
      /\ pc[t] = "write" /\ plain'[t] = plain[t] /\ stage' = stage /\ owe' = owe
      /\ pc'[t] \in {"lock", "bump"}
  <2>1. /\ pc[t] = "write" /\ plain' = plain /\ s' = s /\ w' = w /\ stage' = stage /\ owe' = owe
        /\ pc' = [pc EXCEPT ![t] = "lock"] \/ pc' = [pc EXCEPT ![t] = "bump"]
    BY DEF Write, At, Goto, Quiet, client
  <2>2. /\ rec' = rec \/ rec' = [rec EXCEPT ![t] = val[rec[t]]]
        /\ nested' = nested \/ nested' = [nested EXCEPT ![t] = TRUE]
        /\ op' = op \/ op' = [op EXCEPT ![t] = NoOp]
    BY DEF Write, Quiet, client, Result
  <2> QED
    BY <2>1, <2>2 DEF RecInv, TypeOK, Same
<1>2. t \in Worker /\ t # Bg
  BY <1>1 DEF RecInv, BgShape
<1>3. OpShape(t) /\ Drained(t) /\ WorkerShape(t) /\ SeenNow(t) /\ Same(Bg)
  BY <1>1, <1>2 DEF LinInv, RecInv
<1>r. PICK r \in Record : rec[t] = r /\ status \in [Record -> StatusWord]
  BY <1>1, <1>3 DEF RecInv, TypeOK, StatusWord, WorkerShape
<1>4. Holds(t, r) /\ (nested[t] => Holds(t, "new"))
  BY <1>1, <1>r DEF Holds, At
<1>5. pc[Bg] \notin {"store", "mark", "unptr", "bump", "unlock"}
      \/ (r = "old" /\ ~nested[t])
  <2>1. ASSUME pc[Bg] \in {"store", "mark", "unptr", "bump", "unlock"}
        PROVE  r = "old" /\ ~nested[t]
    <3>1. Holds(Bg, "new") /\ "new" \in Record
      BY <2>1 DEF RecInv, BgShape, Holds, Record
    <3>2. ~Holds(t, "new")
      BY <1>2, <3>1 DEF RecInv, LockExclusive
    <3> QED
      BY <1>4, <3>2 DEF Record
  <2> QED
    BY <2>1
<1>6. pc[Bg] \notin {"store", "mark", "unptr", "bump", "unlock"}
  <2>1. ASSUME r = "old", ~nested[t], pc[Bg] # "idle" PROVE FALSE
    <3>1. stage = "published"
      BY <2>1 DEF RecInv, BgShape
    <3> QED
      BY <1>1, <1>3, <1>r, <2>1, <3>1 DEF Drained, Writing
  <2> QED
    BY <1>5, <2>1
<1>7. BgCopy'
  BY <1>3, <1>6 DEF BgCopy, Same
<1>8. Noted(t)' /\ SeenOld(t)'
  BY <1>1 DEF Noted, SeenOld, Reading
<1>9. CASE /\ status[r].ptr /\ ~plain[t] /\ words' = words /\ Quiet
           /\ pc'[t] = "lock" /\ nested'[t]
  <2>1. Still
    BY <1>9 DEF Still, words
  <2>2. op' = op
    BY <1>9 DEF Quiet, client
  <2>3. OpShape(t)'
    BY <1>1, <1>3, <1>9, <2>2 DEF OpShape, Reading
  <2>4. Drained(t)'
    <3>1. stage \in {"old", "published"}
      BY <1>9, <1>r DEF RecInv, WordsShape, Record
    <3> QED
      BY <1>1, <1>9, <3>1 DEF Drained
  <2>5. LinInv'
    BY <1>1, <1>2, <1>7, <1>8, <2>1, <2>3, <2>4, Calm, WorkerSees
  <2>6. LM!Next
    BY <1>9, <2>1, Calm, Unseen DEF RecInv
  <2> QED
    BY <2>5, <2>6
<1>10. CASE /\ ~(status[r].ptr /\ ~plain[t]) /\ pc'[t] = "bump" /\ op' = [op EXCEPT ![t] = NoOp]
            /\ rec'[t] = rec[t] /\ nested'[t] = nested[t]
            /\ \/ /\ ~status[r].removed /\ ret' = LM!Return(t, TRUE, Absent)
                  /\ \/ /\ op[t].fn = "update" /\ status' = status
                        /\ val' = [val EXCEPT ![r] = op[t].val]
                     \/ op[t].fn = "remove" /\ Set(r, "removed", TRUE) /\ val' = val
               \/ status[r].removed /\ ret' = LM!Return(t, FALSE, Absent) /\ words' = words
  <2>1. op'[t] = NoOp /\ op[t] \in Ops /\ op[t] # NoOp /\ op[t].fn \in {"update", "remove"}
        /\ op[t].val \in Val /\ op[t].key = "k"
    <3>1. \A o \in Ops : o.fn # NoOp.fn /\ o.val \in Val /\ o.key = "k"
      BY DEF Ops, NoOp
    <3>2. op'[t] = NoOp
      BY <1>10 DEF RecInv, TypeOK
    <3> QED
      BY <1>1, <1>3, <3>1, <3>2 DEF OpShape
  <2>2. Holder = r
    <3>1. CASE r = "new"
      BY <1>3, <1>r, <1>1, <1>10, <3>1 DEF Holder, WorkerShape
    <3>2. CASE r = "old"
      <4>1. stage \in {"old", "published"}
        BY <1>1, <1>3, <1>r, <3>2 DEF Drained, Writing
      <4>2. status["new"].ptr
        BY <1>6, <4>1 DEF RecInv, WordsShape
      <4> QED
        BY <3>2, <4>2 DEF Holder
    <3> QED
      BY <3>1, <3>2 DEF Record
  <2>3. OpShape(t)' /\ Drained(t)'
    BY <1>1, <1>3, <1>10, <2>1 DEF OpShape, Drained, Same, Reading, Writing
  <2>4. CASE op[t].fn = "update" /\ status' = status /\ ~status[r].removed
             /\ val' = [val EXCEPT ![r] = op[t].val] /\ ret' = LM!Return(t, TRUE, Absent)
    <3>1. Contents' = op[t].val /\ Contents = val[r]
      BY <2>2, <2>4 DEF RecInv, TypeOK, Contents, Holder
    <3>2. Shown
      BY <2>1, <2>2, <2>4, <3>1 DEF RecInv, TypeOK, Shown, Value, Record
    <3>3. val[r] \in Val
      BY <2>2 DEF RecInv, TypeOK, WordsShape, Holder, Record
    <3>4. LM!Write(t)
      BY <1>10, <2>1, <2>4, <3>1, <3>3 DEF LM!Write, LM!Awaits, LM!Bound, LM!NoOp, NoOp
    <3>5. LinInv'
      BY <1>1, <1>2, <1>7, <1>8, <2>3, <3>2, WorkerSees
    <3> QED
      BY <1>2, <3>4, <3>5, ObserveRefined DEF RecInv, LM!Next
  <2>5. CASE op[t].fn = "remove" /\ Set(r, "removed", TRUE) /\ val' = val /\ ~status[r].removed
             /\ ret' = LM!Return(t, TRUE, Absent)
    <3>1. /\ \A q \in Record \ {r} : status'[q] = status[q]
          /\ status'[r].removed /\ \A q \in Record : status'[q].ptr = status[q].ptr
      BY <1>r, <2>5, SetRemoved
    <3>2. Holder' = r
      BY <2>2, <3>1 DEF Holder, Record
    <3>3. Contents' = Absent /\ Contents = val[r]
      BY <2>2, <2>5, <3>1, <3>2 DEF Contents
    <3>4. Shown
      BY <2>5, <3>1, <3>3 DEF Shown, Value, Record
    <3>5. val[r] \in Val
      BY <2>2 DEF RecInv, TypeOK, WordsShape, Holder, Record
    <3>6. LM!Write(t)
      BY <1>10, <2>1, <2>5, <3>3, <3>5 DEF LM!Write, LM!Awaits, LM!Bound, LM!NoOp, NoOp
    <3>7. LinInv'
      BY <1>1, <1>2, <1>7, <1>8, <2>3, <3>4, WorkerSees
    <3> QED
      BY <1>2, <3>6, <3>7, ObserveRefined DEF RecInv, LM!Next
  <2>6. CASE status[r].removed /\ words' = words /\ ret' = LM!Return(t, FALSE, Absent)
    <3>1. Still
      BY <2>6 DEF Still, words
    <3>2. Contents = Absent
      BY <2>2, <2>6 DEF Contents
    <3>3. LM!Answer(t)
      BY <1>3, <1>10, <2>1, <2>6, <3>1, <3>2, Calm
         DEF SeenNow, LM!Answer, LM!Awaits, LM!NoOp, NoOp
    <3>4. LinInv'
      BY <1>1, <1>2, <1>7, <1>8, <2>3, <3>1, Calm, WorkerSees
    <3> QED
      BY <1>2, <3>3, <3>4, ObserveRefined DEF RecInv, LM!Next
  <2> QED
    BY <1>10, <2>4, <2>5, <2>6
<1> QED
  BY <1>r, <1>9, <1>10 DEF RecInv, TypeOK, Write, Goto, Result, Writable, words, LM!Return

\* Counting up the version changes nothing an operation can see.
LEMMA SeeBump ==
    ASSUME RecInv, RecInv', LinInv, Observe, NEW t \in Thread, Bump(t)
    PROVE  LinInv' /\ LM!Next
<1> USE RecordAssumption DEF Thread
<1>1. /\ \A u \in Thread \ {t} : Same(u)
      /\ pc[t] = "bump" /\ pc'[t] = "unlock" /\ rec'[t] = rec[t]
      /\ plain'[t] = plain[t] /\ nested'[t] = nested[t] /\ op' = op
      /\ val' = val /\ stage' = stage /\ owe' = owe
  BY DEF RecInv, TypeOK, Same, Bump, At, Goto, Quiet, client, local
<1>2. Still
  <2>1. PICK r \in Record : rec[t] = r /\ status \in [Record -> StatusWord]
    BY DEF RecInv, TypeOK, WorkerShape, BgShape, StatusWord, Record, At, Bump
  <2>2. status[r].version + 1 \in Nat
    BY <2>1 DEF StatusWord
  <2> QED
    BY <1>1, <2>1, <2>2, SetVersion DEF Bump, Still
<1>3. Quiet /\ TypeOK'
  BY DEF RecInv, Bump
<1>4. LM!Next
  BY <1>2, <1>3, Calm, Unseen
<1>5. CASE t \in Worker
  <2>1. OpShape(t) /\ Drained(t) /\ WorkerShape(t) /\ BgCopy /\ Same(Bg)
    BY <1>1, <1>5 DEF LinInv, RecInv
  <2>2. OpShape(t)' /\ Drained(t)' /\ SeenOld(t)' /\ Noted(t)' /\ BgCopy'
    BY <1>1, <1>2, <1>5, <2>1, CalmCopy
       DEF OpShape, Drained, SeenOld, Noted, WorkerShape, Same, Reading, Writing
  <2> QED
    BY <1>1, <1>2, <1>4, <1>5, <2>2, Calm, WorkerSees
<1>6. CASE t = Bg
  <2>1. BgCopy' /\ owe = {} /\ stage = "published"
    BY <1>1, <1>6 DEF RecInv, LinInv, BgShape, BgCopy
  <2> QED
    BY <1>1, <1>2, <1>4, <1>6, <2>1, Calm, BgSees
<1> QED
  BY <1>5, <1>6

\* Unlocking changes nothing an operation can see; when replace_pointer unlocks, no
\* worker is left that writes the old record.
LEMMA SeeUnlock ==
    ASSUME RecInv, RecInv', LinInv, Observe, NEW t \in Thread, Unlock(t)
    PROVE  LinInv' /\ LM!Next
<1> USE RecordAssumption DEF Thread
<1>1. /\ \A u \in Thread \ {t} : Same(u)
      /\ pc[t] = "unlock" /\ val' = val /\ op' = op /\ plain'[t] = plain[t]
      /\ owe \ {t} \subseteq owe' /\ owe' \subseteq owe
      /\ \/ nested[t] /\ pc'[t] = "bump" /\ rec'[t] = "new" /\ stage' = stage
         \/ ~nested[t] /\ pc'[t] = "idle" /\ stage' = IF t = Bg THEN "replaced" ELSE stage
  BY DEF RecInv, TypeOK, Same, Unlock, At, Goto, Return, Forget, Quiet, client
<1>2. Still
  <2>1. PICK r \in Record : rec[t] = r /\ status \in [Record -> StatusWord]
    BY DEF RecInv, TypeOK, WorkerShape, BgShape, StatusWord, Record, At, Unlock
  <2> QED
    BY <1>1, <2>1, SetLocked DEF Unlock, Still
<1>3. Quiet /\ TypeOK'
  BY DEF RecInv, Unlock
<1>4. LM!Next
  BY <1>2, <1>3, Calm, Unseen
<1>5. CASE t \in Worker
  <2>1. OpShape(t) /\ Drained(t) /\ WorkerShape(t) /\ BgCopy /\ Same(Bg) /\ stage' = stage
    BY <1>1, <1>5 DEF LinInv, RecInv
  <2>2. OpShape(t)' /\ Drained(t)' /\ SeenOld(t)' /\ Noted(t)' /\ BgCopy'
    BY <1>1, <1>2, <1>5, <2>1, CalmCopy
       DEF OpShape, Drained, SeenOld, Noted, WorkerShape, Reading, Writing
  <2> QED
    BY <1>1, <1>2, <1>4, <1>5, <2>1, <2>2, Calm, WorkerSees
<1>6. CASE t = Bg
  <2>1. /\ pc[Bg] = "unlock" /\ pc'[Bg] = "idle" /\ stage = "published" /\ stage' = "replaced"
        /\ rec[Bg] = "new" /\ "new" \in Record
    BY <1>1, <1>6 DEF RecInv, BgShape, Record
  <2>2. ASSUME NEW u \in Worker
        PROVE  OpShape(u)' /\ Drained(u)' /\ SeenNow(u)' /\ SeenOld(u)' /\ Noted(u)'
    <3>1. Same(u) /\ Drained(u) /\ op'[u] = op[u]
      BY <1>1, <1>6 DEF LinInv
    <3>2. ~nested[u]
      <4>1. Holds(Bg, "new")
        BY <2>1 DEF Holds
      <4>2. ~Holds(u, "new")
        BY <2>1, <4>1 DEF RecInv, LockExclusive
      <4> QED
        BY <4>2 DEF Holds
    <3>3. Drained(u)'
      BY <2>1, <3>1, <3>2 DEF Drained, Same
    <3> QED
      BY <1>2, <3>1, <3>3, Calm, Watched
  <2>3. op'[Bg] = NoOp /\ BgCopy'
    BY <1>1, <2>1 DEF LinInv, BgCopy
  <2> QED
    BY <1>4, <2>1, <2>2, <2>3 DEF LinInv
<1> QED
  BY <1>5, <1>6

\* replace_pointer starts when no worker writes the old record but through the new one.
LEMMA SeeStartReplace ==
    ASSUME RecInv, RecInv', LinInv, Observe, StartReplace
    PROVE  LinInv' /\ LM!Next
<1> USE RecordAssumption DEF Thread
<1>1. /\ \A u \in Worker : Same(u)
      /\ pc[Bg] = "idle" /\ pc'[Bg] = "lock" /\ words' = words
      /\ op' = op /\ owe' = owe /\ stage' = stage
  BY DEF RecInv, TypeOK, Same, StartReplace, At, Goto, Quiet, client
<1>2. stage = "published" /\ owe = {} /\ BgCopy
  BY <1>1 DEF RecInv, LinInv, BgShape, StartReplace, BarrierDone
<1>3. Still
  BY <1>1 DEF Still, words
<1>4. BgCopy'
  BY <1>1 DEF BgCopy
<1>5. LM!Next
  BY <1>3, Calm, Unseen DEF RecInv, StartReplace
<1> QED
  BY <1>1, <1>2, <1>3, <1>4, <1>5, Calm, BgSees

\* Behind the pointer the value of the new record is not seen.
LEMMA SeeStore ==
    ASSUME RecInv, RecInv', LinInv, Observe, Store
    PROVE  LinInv' /\ LM!Next
<1> USE RecordAssumption DEF Thread
<1>1. /\ \A u \in Worker : Same(u)
      /\ pc[Bg] = "store" /\ pc'[Bg] = (IF s[Bg].removed THEN "mark" ELSE "unptr")
      /\ s'[Bg] = s[Bg] /\ status' = status
      /\ op' = op /\ owe' = owe /\ stage' = stage
  BY DEF RecInv, TypeOK, Same, Store, At, Goto, Quiet, client
<1>2. stage = "published" /\ owe = {} /\ BgCopy
  BY <1>1 DEF RecInv, LinInv, BgShape
<1>3. val'["old"] = val["old"] /\ val'["new"] = w[Bg]
  BY DEF RecInv, TypeOK, Store, Record
<1>4. /\ status["new"].ptr /\ ~status["new"].removed /\ status'["new"].ptr
      /\ status'["old"].removed = status["old"].removed
  BY <1>1, <1>2 DEF RecInv, WordsShape
<1>5. Contents' = Contents /\ Value("old")' = Value("old")
  BY <1>3, <1>4 DEF Contents, Holder, Value
<1>6. Shown
  BY <1>3, <1>4, <1>5 DEF Shown, Record
<1>7. LM!Next
  BY <1>5, Unseen DEF RecInv, Store
<1>8. BgCopy'
  <2>1. status["new"].removed \in BOOLEAN /\ status["old"].removed \in BOOLEAN
    BY DEF RecInv, TypeOK, Record
  <2> QED
    BY <1>1, <1>2, <1>3, <1>4, <2>1 DEF BgCopy
<1> QED
  BY <1>1, <1>2, <1>6, <1>7, <1>8, BgSees

\* Nor is its removed flag.
LEMMA SeeMark ==
    ASSUME RecInv, RecInv', LinInv, Observe, Mark
    PROVE  LinInv' /\ LM!Next
<1> USE RecordAssumption DEF Thread
<1>1. /\ \A u \in Worker : Same(u)
      /\ pc[Bg] = "mark" /\ pc'[Bg] = "unptr" /\ val' = val
      /\ op' = op /\ owe' = owe /\ stage' = stage
  BY DEF RecInv, TypeOK, Same, Mark, At, Goto, Quiet, client, local
<1>2. stage = "published" /\ owe = {} /\ BgCopy
  BY <1>1 DEF RecInv, LinInv, BgShape
<1>s. /\ status'["old"] = status["old"]
      /\ status'["new"].removed /\ status'["new"].ptr = status["new"].ptr
  <2>1. status \in [Record -> StatusWord] /\ "new" \in Record
    BY DEF RecInv, TypeOK, StatusWord, Record
  <2> QED
    BY <2>1, SetRemoved DEF Mark, Record
<1>3. val'["old"] = val["old"] /\ val'["new"] = val["new"]
  BY <1>1
<1>4. /\ status["new"].ptr /\ status'["new"].ptr
      /\ status'["old"].removed = status["old"].removed
  BY <1>1, <1>2, <1>s DEF RecInv, WordsShape
<1>5. Contents' = Contents /\ Value("old")' = Value("old")
  BY <1>3, <1>4 DEF Contents, Holder, Value
<1>6. Shown
  BY <1>3, <1>4, <1>5 DEF Shown, Record
<1>7. LM!Next
  BY <1>5, Unseen DEF RecInv, Mark
<1>8. BgCopy'
  BY <1>1, <1>2, <1>s DEF BgCopy
<1> QED
  BY <1>1, <1>2, <1>6, <1>7, <1>8, BgSees

\* The pointer flag is cleared when both records have the same contents.
LEMMA SeeUnptr ==
    ASSUME RecInv, RecInv', LinInv, Observe, Unptr
    PROVE  LinInv' /\ LM!Next
<1> USE RecordAssumption DEF Thread
<1>1. /\ \A u \in Worker : Same(u)
      /\ pc[Bg] = "unptr" /\ pc'[Bg] = "bump" /\ val' = val
      /\ op' = op /\ owe' = owe /\ stage' = stage
  BY DEF RecInv, TypeOK, Same, Unptr, At, Goto, Quiet, client, local
<1>2. stage = "published" /\ owe = {} /\ BgCopy
  BY <1>1 DEF RecInv, LinInv, BgShape
<1>s. /\ status'["old"] = status["old"]
      /\ ~status'["new"].ptr /\ status'["new"].removed = status["new"].removed
  <2>1. status \in [Record -> StatusWord] /\ "new" \in Record
    BY DEF RecInv, TypeOK, StatusWord, Record
  <2> QED
    BY <2>1, SetPtr DEF Unptr, Record
<1>3. status["new"].ptr /\ val["new"] = val["old"] /\ status["new"].removed = status["old"].removed
  BY <1>1, <1>2 DEF RecInv, WordsShape, BgCopy
<1>4. Contents' = Contents /\ Value("old")' = Value("old")
  BY <1>1, <1>s, <1>3 DEF Contents, Holder, Value
<1>5. Shown
  BY <1>1, <1>s, <1>4 DEF Shown
<1>6. LM!Next
  BY <1>4, Unseen DEF RecInv, Unptr
<1>7. BgCopy'
  BY <1>1 DEF BgCopy
<1> QED
  BY <1>1, <1>2, <1>5, <1>6, <1>7, BgSees

\* The barrier waits for all workers that have the old record.
LEMMA SeePublish ==
    ASSUME RecInv, RecInv', LinInv, Observe, Publish
    PROVE  LinInv' /\ LM!Next
<1> USE RecordAssumption DEF Thread
<1>1. /\ \A u \in Thread : Same(u)
      /\ words' = words /\ op' = op /\ stage = "old" /\ stage' = "published"
  BY DEF Same, Publish, Quiet, client, local
<1>2. pc[Bg] = "idle" /\ pc'[Bg] = "idle"
  BY <1>1 DEF RecInv, BgShape, Same
<1>3. Still
  BY <1>1 DEF Still, words
<1>4. LM!Next
  BY <1>3, Calm, Unseen DEF RecInv, Publish
<1>5. ASSUME NEW u \in Worker PROVE Drained(u)'
  BY <1>1, <1>2, <1>5 DEF Drained, Same, Publish, Busy, At
<1>6. \A u \in Worker : OpShape(u)' /\ SeenNow(u)' /\ SeenOld(u)' /\ Noted(u)'
  BY <1>1, <1>3, Calm, Watched
<1>7. op'[Bg] = NoOp /\ BgCopy'
  BY <1>1, <1>2 DEF LinInv, BgCopy
<1> QED
  BY <1>2, <1>4, <1>5, <1>6, <1>7 DEF LinInv

\* The second barrier begins when no worker writes the old record.
LEMMA SeeSecondBarrier ==
    ASSUME RecInv, RecInv', LinInv, Observe, SecondBarrier
    PROVE  LinInv' /\ LM!Next
<1> USE RecordAssumption DEF Thread
<1>1. /\ \A u \in Thread : Same(u)
      /\ words' = words /\ op' = op /\ stage = "replaced" /\ stage' = "waiting"
  BY DEF Same, SecondBarrier, Quiet, client, local
<1>2. pc[Bg] = "idle" /\ pc'[Bg] = "idle"
  BY <1>1 DEF RecInv, BgShape, Same
<1>3. Still
  BY <1>1 DEF Still, words
<1>4. LM!Next
  BY <1>3, Calm, Unseen DEF RecInv, SecondBarrier
<1>5. ASSUME NEW u \in Worker PROVE Drained(u)'
  <2>1. Same(u) /\ Drained(u)
    BY <1>1, <1>5 DEF LinInv
  <2> QED
    BY <1>1, <2>1 DEF Drained, Same
<1>6. \A u \in Worker : OpShape(u)' /\ SeenNow(u)' /\ SeenOld(u)' /\ Noted(u)'
  BY <1>1, <1>3, Calm, Watched
<1>7. op'[Bg] = NoOp /\ BgCopy'
  BY <1>1, <1>2 DEF LinInv, BgCopy
<1> QED
  BY <1>2, <1>4, <1>5, <1>6, <1>7 DEF LinInv

\* Freeing the old record changes nothing an operation can see.
LEMMA SeeFreeData ==
    ASSUME RecInv, RecInv', LinInv, Observe, FreeData
    PROVE  LinInv' /\ LM!Next
<1> USE RecordAssumption DEF Thread
<1>1. /\ \A u \in Thread : Same(u)
      /\ words' = words /\ op' = op /\ stage = "waiting" /\ stage' = "freed"
  BY DEF Same, FreeData, Quiet, client, local
<1>2. pc[Bg] = "idle" /\ pc'[Bg] = "idle"
  BY <1>1 DEF RecInv, BgShape, Same
<1>3. Still
  BY <1>1 DEF Still, words
<1>4. LM!Next
  BY <1>3, Calm, Unseen DEF RecInv, FreeData
<1>5. ASSUME NEW u \in Worker PROVE Drained(u)'
  <2>1. Same(u) /\ Drained(u)
    BY <1>1, <1>5 DEF LinInv
  <2> QED
    BY <1>1, <2>1 DEF Drained, Same
<1>6. \A u \in Worker : OpShape(u)' /\ SeenNow(u)' /\ SeenOld(u)' /\ Noted(u)'
  BY <1>1, <1>3, Calm, Watched
<1>7. op'[Bg] = NoOp /\ BgCopy'
  BY <1>1, <1>2 DEF LinInv, BgCopy
<1> QED
  BY <1>2, <1>4, <1>5, <1>6, <1>7 DEF LinInv

-----------------------------------------------------------------------------
\* Every step keeps the invariant and is a step of LinearMap, or none.
LEMMA NextLin ==
    RecInv /\ RecInv' /\ LinInv /\ [Next]_vars => LinInv' /\ [LM!Next]_(LM!vars)
<1> SUFFICES ASSUME RecInv, RecInv', LinInv, [Next]_vars
             PROVE  LinInv' /\ [LM!Next]_(LM!vars)
  OBVIOUS
<1>1. CASE UNCHANGED vars
  <2>1. UNCHANGED <<val, status, pc, op, plain, rec, nested, s, w, seen, ret, stage, owe>>
    BY <1>1 DEF vars, words, local, client
  <2>2. Contents' = Contents /\ Value("old")' = Value("old")
    BY <2>1 DEF Contents, Holder, Value
  <2>3. ASSUME NEW u \in Worker
        PROVE  OpShape(u)' /\ Drained(u)' /\ SeenNow(u)' /\ SeenOld(u)' /\ Noted(u)'
    <3>1. OpShape(u) /\ Drained(u) /\ SeenNow(u) /\ SeenOld(u) /\ Noted(u)
      BY DEF LinInv
    <3> QED
      BY <2>1, <2>2, <3>1 DEF OpShape, Drained, SeenNow, SeenOld, Noted
  <2>4. op'[Bg] = NoOp /\ BgCopy' /\ (pc'[Bg] # "idle" => owe' = {})
    BY <2>1 DEF LinInv, BgCopy
  <2>5. UNCHANGED LM!vars
    BY <2>1, <2>2 DEF LM!vars
  <2> QED
    BY <2>3, <2>4, <2>5 DEF LinInv
<1>2. ASSUME NEW t \in Thread, Call(t) \/ Step(t), Observe PROVE LinInv' /\ LM!Next
  BY <1>2, SeeCall, SeeLoadStatus, SeeLoadVal, SeeLoadAgain, SeeLock, SeeWrite, SeeBump,
     SeeUnlock DEF Step
<1>3. ASSUME Compact, Observe PROVE LinInv' /\ LM!Next
  BY <1>3, SeePublish, SeeStartReplace, SeeStore, SeeMark, SeeUnptr, SeeSecondBarrier,
     SeeFreeData DEF Compact
<1> QED
  BY <1>1, <1>2, <1>3 DEF Next

\* The first state is one of LinearMap: a payload behind the pointer.
LEMMA InitLin == Init => LinInv /\ LM!Init
<1> SUFFICES ASSUME Init PROVE LinInv /\ LM!Init
  OBVIOUS
<1> USE RecordAssumption DEF Thread
<1>1. LinInv
  BY DEF Init, LinInv, OpShape, Drained, SeenNow, SeenOld, Noted, BgCopy, Reading
<1>2. Contents \in Val
  BY DEF Init, Contents, Holder, Record, Clear
<1> QED
  BY <1>1, <1>2 DEF Init, LM!Init, LM!NoOp, LM!NoReturn, NoOp, NoReturn

\* read, update and remove are atomic: every behaviour of the record is one of a
\* map in which each operation takes effect at one instant, before, during and
\* after the replacement of the pointer.
THEOREM RecordLinearizable == Spec => Linearizable
<1>1. Init /\ [][Next]_vars /\ []RecInv => LM!Init /\ [][LM!Next]_(LM!vars)
  BY InitLin, NextLin, PTL
<1> QED
  BY <1>1, AlwaysRecInv, PTL DEF Spec, Linearizable, LM!Spec

=============================================================================
