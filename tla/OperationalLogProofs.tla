------------------------ MODULE OperationalLogProofs ------------------------
(***************************************************************************)
(* Proofs about OperationalLog.  What holds in spite of an editor rests on *)
(* exclusion: a writer that nobody disturbs has checked the tail it writes *)
(* after.  What holds of a log that nobody edits is said run by run: which *)
(* events a run can have logged at each point of its life.                 *)
(***************************************************************************)
EXTENDS OperationalLog, TLAPS

Texts == Records \cup {Empty, Torn}

Exclusive == \A q, r \in Runs : pc[q] \in Inside /\ pc[r] \in Inside => q = r

\* The tail that a writer writes after is the one it checked.
Checked ==
  ~disturbed => \A r \in Runs : pc[r] = "writing" => tail # Torn /\ (sep[r] <=> tail # Empty)

LinesInv ==
  /\ TypeOK
  /\ Exclusive
  /\ Checked
  /\ LinesSound
  /\ edits = 0 => ~disturbed

\* What a run has logged, and what it has made known, at each point of its life.
Life(r) ==
  /\ pc[r] = "idle" => \A e \in Events : ~Logged(r, e)
  /\ pc[r] = "body" => \A e \in Events : Logged(r, e) => e = "start" \/ (e = "note" /\ noted[r])
  /\ pc[r] \in {"waiting"} \cup Inside =>
       /\ job[r] = "start" => \A e \in Events : ~Logged(r, e)
       /\ job[r] = "note" => noted[r] /\ \A e \in Events : Logged(r, e) => e = "start"
       /\ job[r] \in {"complete", "result"} =>
            completed[r] /\ \A e \in Events : Logged(r, e) => e \in {"start", "note"}
  /\ Logged(r, "complete") => completed[r]
  /\ job[r] = "error" /\ Logged(r, "complete") => notice[r]
  /\ notice[r] => completed[r]
  /\ code[r] # NoCode => pc[r] = "done"
  /\ code[r] = 0 => Logged(r, "complete") /\ ~Logged(r, "failed")
  /\ code[r] = 1 /\ Logged(r, "complete") => notice[r]

LifeInv == edits = 0 => LifeInOrder /\ \A r \in Runs : Life(r)

IInv == LinesInv /\ LifeInv

-----------------------------------------------------------------------------
(* Lemmas about sequences and records *)

LEMMA TextsDiffer == Empty \notin Records /\ Torn \notin Records /\ Empty # Torn
  <1>1. Empty.text = "empty" /\ Torn.text = "torn"
    BY DEF Empty, Torn
  <1>2. \A x \in Records : DOMAIN x = {"run", "event"}
    BY DEF Records
  <1>3. DOMAIN Empty = {"text"} /\ DOMAIN Torn = {"text"}
    BY DEF Empty, Torn
  <1> QED BY <1>1, <1>2, <1>3

LEMMA AppendPrefixes ==
  ASSUME NEW S, NEW s \in Seq(S), NEW a \in S, NEW b \in S
  PROVE  /\ IsPrefix(s, s)
         /\ IsPrefix(s, Append(s, a))
         /\ IsPrefix(s, Append(Append(s, a), b))
         /\ IsPrefix(Append(s, a), Append(s, a))
         /\ IsPrefix(Append(s, a), Append(Append(s, a), b))
  BY DEF IsPrefix

LEMMA RecordOfRun ==
  ASSUME TypeOK, NEW r \in Runs
  PROVE  Record(r) \in Records /\ Record(r).run = r
         /\ Record(r).event = (IF job[r] \in {"result", "error"} THEN "failed" ELSE job[r])
  BY DEF TypeOK, Jobs, Record, Records, Events

\* A write that nobody disturbs adds whole records, after those that were there.
LEMMA PutSound ==
  ASSUME LinesInv, ~disturbed, NEW r \in Runs, pc[r] = "writing", NEW cut \in Cut, Put(r, cut)
  PROVE  /\ lines' \in Seq(Records) /\ tail' \in Texts
         /\ IsPrefix(lines, lines')
         /\ tail \in Records => tail' = tail \/ IsPrefix(Append(lines, tail), lines')
         /\ All \in Seq(Records)
         /\ All' = All \/ All' = Append(All, Record(r))
         /\ cut = "all" => tail' = Empty /\ All' = Append(All, Record(r))
  <1>1. lines \in Seq(Records) /\ tail \in Texts /\ tail # Torn /\ (sep[r] <=> tail # Empty)
        /\ Record(r) \in Records
    <2>1. lines \in Seq(Records)
      BY DEF LinesInv, LinesSound, TypeOK
    <2> QED BY <2>1, RecordOfRun DEF LinesInv, Checked, TypeOK, Texts
  <1>2. CASE tail = Empty
    <2>1. /\ lines' = IF cut = "all" THEN Append(lines, Record(r)) ELSE lines
          /\ tail' = CASE cut \in {"none", "separator"} -> Empty
                       [] cut = "part" -> Torn
                       [] cut = "record" -> Record(r)
                       [] cut = "all" -> Empty
      BY <1>1, <1>2 DEF Put, Joined
    <2> QED BY <1>1, <1>2, <2>1, TextsDiffer, AppendPrefixes DEF Cut, All, Texts
  <1>3. CASE tail # Empty /\ cut = "none"
    <2>1. lines' = lines /\ tail' = tail
      BY <1>3 DEF Put
    <2> QED BY <1>1, <1>3, <2>1, TextsDiffer, AppendPrefixes DEF All, Texts
  <1>4. CASE tail # Empty /\ cut # "none"
    <2>1. /\ lines' = IF cut = "all" THEN Append(Append(lines, tail), Record(r)) ELSE Append(lines, tail)
          /\ tail' = CASE cut \in {"none", "separator"} -> Empty
                       [] cut = "part" -> Torn
                       [] cut = "record" -> Record(r)
                       [] cut = "all" -> Empty
      BY <1>1, <1>4 DEF Put, Joined
    <2>2. tail \in Records
      BY <1>1, <1>4 DEF Texts
    <2> QED BY <1>1, <1>4, <2>1, <2>2, TextsDiffer, AppendPrefixes DEF Cut, All, Texts
  <1> QED BY <1>2, <1>3, <1>4

\* Appending a record to the log logs its event, and no other.
LEMMA LoggedAppend ==
  ASSUME TypeOK, All \in Seq(Records), NEW r \in Runs, All' = Append(All, Record(r)),
         NEW q \in Runs, NEW e \in Events
  PROVE  Logged(q, e)' <=> Logged(q, e) \/ (q = r /\ e = Record(r).event)
  <1>1. Record(r) = [run |-> r, event |-> Record(r).event] /\ Record(r) \in Records
    BY RecordOfRun DEF Record
  <1>2. Len(All') = Len(All) + 1 /\ All'[Len(All) + 1] = Record(r)
        /\ \A k \in 1 .. Len(All) : All'[k] = All[k]
    BY <1>1
  <1>3. Len(All) \in Nat
    OBVIOUS
  <1>4. Record(r) = [run |-> q, event |-> e] <=> (q = r /\ e = Record(r).event)
    BY <1>1
  <1> QED BY <1>2, <1>3, <1>4 DEF Logged

\* The except clause touches its own run only.
LEMMA FailMeans ==
  ASSUME TypeOK, NEW r \in Runs, Fail(r)
  PROVE  /\ pc' \in [Runs -> Stages] /\ job' \in [Runs -> Jobs]
         /\ notice' \in [Runs -> BOOLEAN] /\ code' \in [Runs -> {0, 1, NoCode}]
         /\ \A q \in Runs \ {r} : /\ pc'[q] = pc[q] /\ job'[q] = job[q]
                                  /\ notice'[q] = notice[q] /\ code'[q] = code[q]
         /\ job[r] = "error" => /\ pc'[r] = "done" /\ code'[r] = 1
                                /\ job'[r] = "error" /\ notice'[r] = notice[r]
         /\ job[r] # "error" => /\ pc'[r] = "waiting" /\ job'[r] = "error"
                                /\ notice'[r] = completed[r] /\ code'[r] = code[r]
  <1>1. CASE job[r] = "error"
    BY <1>1 DEF Fail, To, TypeOK, Stages
  <1>2. CASE job[r] # "error"
    BY <1>2 DEF Fail, To, Append1, TypeOK, Stages, Jobs
  <1> QED BY <1>1, <1>2

LEMMA AppendedMeans ==
  ASSUME TypeOK, NEW r \in Runs, Appended(r)
  PROVE  /\ pc' \in [Runs -> Stages] /\ code' \in [Runs -> {0, 1, NoCode}]
         /\ UNCHANGED <<job, notice>>
         /\ \A q \in Runs \ {r} : pc'[q] = pc[q] /\ code'[q] = code[q]
         /\ job[r] \in {"start", "note"} => pc'[r] = "body" /\ code'[r] = code[r]
         /\ job[r] = "complete" => pc'[r] = "done" /\ code'[r] = 0
         /\ job[r] \in {"result", "error"} => pc'[r] = "done" /\ code'[r] = 1
  <1>1. pc' = [pc EXCEPT ![r] = IF job[r] \in {"start", "note"} THEN "body" ELSE "done"]
    BY DEF Appended, To
  <1>2. code' = [code EXCEPT ![r] = CASE job[r] = "complete" -> 0
                                       [] job[r] \in {"result", "error"} -> 1
                                       [] OTHER -> code[r]]
    BY DEF Appended
  <1> QED BY <1>1, <1>2 DEF Appended, TypeOK, Stages, Jobs

LEMMA PutTypes ==
  ASSUME TypeOK, NEW r \in Runs, NEW cut \in Cut, Put(r, cut)
  PROVE  lines' \in Seq(Texts) /\ tail' \in Texts
  <1> DEFINE parted == sep[r] /\ cut # "none"
             base == IF parted THEN Append(lines, tail) ELSE lines
             open == IF parted THEN Empty ELSE tail
  <1>1. base \in Seq(Texts) /\ open \in Texts /\ Record(r) \in Texts
    BY RecordOfRun DEF TypeOK, Texts
  <1>2. Joined(open, Record(r)) \in Texts
    BY <1>1 DEF Joined, Texts
  <1>3. /\ lines' = IF cut = "all" THEN Append(base, Joined(open, Record(r))) ELSE base
        /\ tail' = CASE cut \in {"none", "separator"} -> open
                     [] cut = "part" -> Torn
                     [] cut = "record" -> Joined(open, Record(r))
                     [] cut = "all" -> Empty
    BY DEF Put
  <1> HIDE DEF base, open
  <1> QED BY <1>1, <1>2, <1>3 DEF Cut, Texts

-----------------------------------------------------------------------------
(* Exclusion, and the lines *)

\* A step that leaves the log alone, and does not go for it.
LEMMA Aside ==
  ASSUME LinesInv, TypeOK', NEW r \in Runs, pc'[r] \notin Inside,
         \A q \in Runs \ {r} : pc'[q] = pc[q] /\ sep'[q] = sep[q], UNCHANGED <<log, editor>>
  PROVE  LinesInv'
  <1>1. \A q \in Runs : pc'[q] \in Inside => q # r /\ pc'[q] = pc[q] /\ sep'[q] = sep[q]
    OBVIOUS
  <1>2. Exclusive'
    BY <1>1 DEF LinesInv, Exclusive
  <1>3. Checked'
    BY <1>1 DEF LinesInv, Checked, Inside, log, editor
  <1> QED BY <1>2, <1>3 DEF LinesInv, LinesSound, log, editor

\* A write, as far as it gets, which ends it.
LEMMA Written ==
  ASSUME LinesInv, TypeOK', NEW r \in Runs, pc[r] = "writing", pc'[r] \notin Inside,
         \A q \in Runs \ {r} : pc'[q] = pc[q],
         NEW cut \in Cut, Put(r, cut), UNCHANGED editor
  PROVE  LinesInv'
  <1>1. \A q \in Runs : pc'[q] \notin Inside
    BY DEF LinesInv, Exclusive, Inside
  <1>2. Exclusive' /\ Checked'
    BY <1>1 DEF Exclusive, Checked, Inside
  <1>3. LinesSound'
    BY PutSound DEF LinesInv, LinesSound, editor
  <1> QED BY <1>2, <1>3 DEF LinesInv, editor

LEMMA LinesKept == LinesInv /\ [Next]_vars => LinesInv'
  <1> SUFFICES ASSUME LinesInv, [Next]_vars PROVE LinesInv'
    OBVIOUS
  <1>0. TypeOK
    BY DEF LinesInv
  <1> USE DEF log, editor, Texts
  <1>1. ASSUME NEW r \in Runs, Start(r) \/ Note(r) \/ Return(r) PROVE LinesInv'
    <2>1. PICK what \in Jobs : Append1(r, what)
      BY <1>1 DEF Start, Note, Return, Jobs
    <2>2. pc' = [pc EXCEPT ![r] = "waiting"] /\ job' = [job EXCEPT ![r] = what]
      BY <2>1 DEF Append1, To
    <2>3. noted' \in [Runs -> BOOLEAN] /\ completed' \in [Runs -> BOOLEAN]
          /\ UNCHANGED <<sep, notice, code, lines, tail, edits, disturbed>>
      BY <1>0, <1>1 DEF Start, Note, Return, TypeOK
    <2>4. TypeOK'
      BY <1>0, <2>2, <2>3 DEF TypeOK, Stages
    <2> QED BY <1>0, <2>2, <2>3, <2>4, Aside DEF TypeOK, Inside
  <1>2. ASSUME NEW r \in Runs, Raise(r) \/ TimeOut(r) PROVE LinesInv'
    <2>1. Fail(r) /\ UNCHANGED <<sep, noted, completed, lines, tail, edits, disturbed>>
      BY <1>2 DEF Raise, TimeOut
    <2>2. TypeOK' /\ pc'[r] \notin Inside /\ \A q \in Runs \ {r} : pc'[q] = pc[q]
      BY <1>0, <2>1, FailMeans DEF TypeOK, Inside
    <2> QED BY <2>1, <2>2, Aside
  <1>3. ASSUME NEW r \in Runs, Lock(r) PROVE LinesInv'
    <2>1. pc' = [pc EXCEPT ![r] = "locked"] /\ \A q \in Runs : pc[q] \notin Inside
      BY <1>3 DEF Lock, To, Busy
    <2>2. UNCHANGED <<job, sep, noted, completed, notice, code, lines, tail, edits, disturbed>>
      BY <1>3 DEF Lock
    <2>3. TypeOK'
      BY <1>0, <2>1, <2>2 DEF TypeOK, Stages, Inside
    <2>4. Exclusive' /\ Checked'
      BY <1>0, <2>1 DEF TypeOK, Exclusive, Checked, Inside
    <2> QED BY <2>2, <2>3, <2>4 DEF LinesInv, LinesSound
  <1>4. ASSUME NEW r \in Runs, CheckTail(r) PROVE LinesInv'
    <2>1. pc[r] = "locked" /\ UNCHANGED <<noted, completed, lines, tail, edits, disturbed>>
      BY <1>4 DEF CheckTail
    <2>2. CASE tail = Torn
      <3>1. Fail(r) /\ UNCHANGED sep
        BY <1>4, <2>2 DEF CheckTail
      <3>2. TypeOK' /\ pc'[r] \notin Inside /\ \A q \in Runs \ {r} : pc'[q] = pc[q]
        BY <1>0, <2>1, <3>1, FailMeans DEF TypeOK, Inside
      <3> QED BY <2>1, <3>1, <3>2, Aside
    <2>3. CASE tail # Torn
      <3>1. /\ pc' = [pc EXCEPT ![r] = "writing"] /\ sep' = [sep EXCEPT ![r] = tail # Empty]
            /\ UNCHANGED <<job, notice, code>>
        BY <1>4, <2>3 DEF CheckTail, To
      <3>2. TypeOK'
        BY <1>0, <2>1, <3>1 DEF TypeOK, Stages, Inside
      <3>3. \A q \in Runs : pc'[q] \in Inside => pc[q] \in Inside
        BY <1>0, <2>1, <3>1 DEF TypeOK, Inside
      <3>4. Exclusive'
        BY <3>3 DEF LinesInv, Exclusive
      <3>5. \A q \in Runs : pc'[q] = "writing" => q = r
        BY <1>0, <2>1, <3>1 DEF TypeOK, LinesInv, Exclusive, Inside
      <3>6. sep'[r] = (tail # Empty)
        BY <1>0, <3>1 DEF TypeOK
      <3>7. Checked'
        BY <2>1, <2>3, <3>5, <3>6 DEF Checked
      <3> QED BY <2>1, <3>2, <3>4, <3>7 DEF LinesInv, LinesSound
    <2> QED BY <2>2, <2>3
  <1>5. ASSUME NEW r \in Runs, Write(r) PROVE LinesInv'
    <2>1. /\ pc[r] = "writing" /\ Put(r, "all") /\ Appended(r) /\ "all" \in Cut
          /\ sep' = [sep EXCEPT ![r] = FALSE] /\ UNCHANGED <<noted, completed, edits, disturbed>>
      BY <1>5 DEF Write, Cut
    <2>2. pc'[r] \notin Inside /\ \A q \in Runs \ {r} : pc'[q] = pc[q]
      BY <1>0, <2>1, AppendedMeans DEF TypeOK, Jobs, Inside
    <2>3. TypeOK'
      BY <1>0, <2>1, AppendedMeans, PutTypes DEF TypeOK
    <2> QED BY <2>1, <2>2, <2>3, Written
  <1>6. ASSUME NEW r \in Runs, AppendFails(r) PROVE LinesInv'
    <2>1. /\ Fail(r) /\ sep' = [sep EXCEPT ![r] = FALSE]
          /\ UNCHANGED <<noted, completed, edits, disturbed>>
      BY <1>6 DEF AppendFails
    <2>2. pc'[r] \notin Inside /\ \A q \in Runs \ {r} : pc'[q] = pc[q] /\ sep'[q] = sep[q]
      BY <1>0, <2>1, FailMeans DEF TypeOK, Inside
    <2>3. CASE UNCHANGED log
      <3>1. TypeOK'
        BY <1>0, <2>1, <2>3, FailMeans DEF TypeOK
      <3> QED BY <2>1, <2>2, <2>3, <3>1, Aside
    <2>4. ASSUME NEW cut \in Cut, pc[r] = "writing", Put(r, cut) PROVE LinesInv'
      <3>1. TypeOK'
        BY <1>0, <2>1, <2>4, FailMeans, PutTypes DEF TypeOK
      <3> QED BY <2>1, <2>2, <2>4, <3>1, Written
    <2> QED BY <1>6, <2>3, <2>4 DEF AppendFails
  <1>7. ASSUME NEW r \in Runs, Crash(r) PROVE LinesInv'
    <2>1. /\ pc' = [pc EXCEPT ![r] = "died"] /\ sep' = [sep EXCEPT ![r] = FALSE]
          /\ UNCHANGED <<job, noted, completed, notice, code, edits, disturbed>>
      BY <1>7 DEF Crash, To
    <2>2. pc'[r] \notin Inside /\ \A q \in Runs \ {r} : pc'[q] = pc[q] /\ sep'[q] = sep[q]
      BY <1>0, <2>1 DEF TypeOK, Inside
    <2>3. CASE UNCHANGED log
      <3>1. TypeOK'
        BY <1>0, <2>1, <2>3 DEF TypeOK, Stages
      <3> QED BY <2>1, <2>2, <2>3, <3>1, Aside
    <2>4. ASSUME NEW cut \in Cut, pc[r] = "writing", Put(r, cut) PROVE LinesInv'
      <3>1. TypeOK'
        BY <1>0, <2>1, <2>4, PutTypes DEF TypeOK, Stages
      <3> QED BY <2>1, <2>2, <2>4, <3>1, Written
    <2> QED BY <1>7, <2>3, <2>4 DEF Crash
  <1>8. CASE Edit
    <2>1. /\ edits' = edits + 1 /\ edits < MaxEdits
          /\ disturbed' = (disturbed \/ \E r \in Runs : pc[r] = "writing")
          /\ UNCHANGED <<pc, job, sep, noted, completed, notice, code>>
      BY <1>8 DEF Edit
    <2>2. \A S : lines \in Seq(S) /\ lines # <<>> => Front(lines) \in Seq(S) /\ Last(lines) \in S
      BY <1>0 DEF TypeOK, Front, Last
    <2>3. ASSUME NEW S, lines \in Seq(S) PROVE lines' \in Seq(S)
      <3>1. lines' = lines \/ lines' = <<>> \/ (lines # <<>> /\ lines' = Front(lines))
        BY <1>8 DEF Edit
      <3>2. <<>> \in Seq(S)
        OBVIOUS
      <3> QED BY <2>2, <2>3, <3>1, <3>2
    <2>a. tail' \in Texts
      <3>1. lines # <<>> => Last(lines) \in Texts
        BY <1>0, <2>2 DEF TypeOK
      <3> QED BY <1>8, <3>1 DEF Edit
    <2>4. edits' \in 0 .. MaxEdits /\ edits' # 0 /\ disturbed' \in BOOLEAN
      BY <1>0, <2>1, LogAssumption DEF TypeOK
    <2>5. TypeOK'
      BY <1>0, <2>1, <2>3, <2>4, <2>a DEF TypeOK
    <2>6. Exclusive' /\ Checked'
      BY <2>1 DEF LinesInv, Exclusive, Checked
    <2>7. LinesSound'
      <3>1. ~disturbed => lines \in Seq(Records)
        BY DEF LinesInv, LinesSound, TypeOK
      <3>2. ~disturbed => lines' \in Seq(Records)
        BY <2>3, <3>1
      <3>3. ~disturbed' => ~disturbed
        BY <2>1
      <3>4. ASSUME lines' \in Seq(Records), NEW k \in 1 .. Len(lines') PROVE lines'[k] \in Records
        BY <3>4
      <3> QED BY <3>2, <3>3, <3>4 DEF LinesSound
    <2> QED BY <2>4, <2>5, <2>6, <2>7 DEF LinesInv
  <1>9. CASE UNCHANGED vars
    BY <1>9 DEF vars, LinesInv, TypeOK, Exclusive, Checked, LinesSound
  <1> QED BY <1>1, <1>2, <1>3, <1>4, <1>5, <1>6, <1>7, <1>8, <1>9 DEF Next, Step

-----------------------------------------------------------------------------
(* The life of a run in a log that nobody edits *)

\* A step of r leaves what is said of the others alone.
LEMMA OthersLive ==
  ASSUME NEW r \in Runs, NEW q \in Runs, q # r, Life(q),
         pc'[q] = pc[q], job'[q] = job[q], noted'[q] = noted[q], completed'[q] = completed[q],
         notice'[q] = notice[q], code'[q] = code[q],
         \A e \in Events : Logged(q, e)' <=> Logged(q, e)
  PROVE  Life(q)'
  <1>1. "complete" \in Events /\ "failed" \in Events
    BY DEF Events
  <1> QED BY <1>1 DEF Life

\* What a step of r must give, all of it about r, to keep the lives of all runs.
LEMMA LivesKept ==
  ASSUME TypeOK, LifeInv, edits = 0, edits' = 0, NEW r \in Runs, Life(r)',
         UNCHANGED log \/ (All \in Seq(Records) /\ All' = All)
           \/ (/\ All \in Seq(Records) /\ All' = Append(All, Record(r))
               /\ \A e \in Events : Logged(r, e) =>
                    Order(e) < Order(Record(r).event) \/ (e = "failed" /\ Record(r).event = "failed")),
         \A q \in Runs \ {r} : /\ pc'[q] = pc[q] /\ job'[q] = job[q] /\ noted'[q] = noted[q]
                               /\ completed'[q] = completed[q] /\ notice'[q] = notice[q]
                               /\ code'[q] = code[q]
  PROVE  LifeInv'
  <1>1. CASE All' = All
    <2>1. \A q \in Runs, e \in Events : Logged(q, e)' <=> Logged(q, e)
      BY <1>1 DEF Logged
    <2>2. LifeInOrder'
      BY <1>1 DEF LifeInv, LifeInOrder
    <2> QED BY <2>1, <2>2, OthersLive DEF LifeInv
  <1>2. CASE All \in Seq(Records) /\ All' = Append(All, Record(r))
             /\ \A e \in Events : Logged(r, e) =>
                  Order(e) < Order(Record(r).event) \/ (e = "failed" /\ Record(r).event = "failed")
    <2>1. \A q \in Runs \ {r}, e \in Events : Logged(q, e)' <=> Logged(q, e)
      BY <1>2, LoggedAppend
    <2>2. \A q \in Runs \ {r} : Life(q)'
      BY <2>1, OthersLive DEF LifeInv
    <2>3. ASSUME NEW j \in 1 .. Len(All'), NEW k \in 1 .. Len(All'), j < k, All'[j].run = All'[k].run
          PROVE  \/ Order(All'[j].event) < Order(All'[k].event)
                 \/ All'[j].event = "failed" /\ All'[k].event = "failed"
      <3>1. j \in 1 .. Len(All) /\ All'[j] = All[j] /\ All[j] \in Records
        BY <1>2, <2>3
      <3>2. CASE k \in 1 .. Len(All)
        <4>1. All'[k] = All[k]
          BY <1>2, <3>2
        <4> QED BY <2>3, <3>1, <3>2, <4>1 DEF LifeInv, LifeInOrder
      <3>3. CASE k = Len(All) + 1
        <4>1. All'[k] = Record(r) /\ All[j].run = r
          BY <1>2, <2>3, <3>1, <3>3, RecordOfRun
        <4>2. All[j] = [run |-> r, event |-> All[j].event] /\ All[j].event \in Events
          BY <3>1, <4>1 DEF Records
        <4>3. Logged(r, All[j].event)
          BY <3>1, <4>2 DEF Logged
        <4> QED BY <1>2, <3>1, <4>1, <4>2, <4>3
      <3> QED BY <1>2, <3>2, <3>3
    <2>4. LifeInOrder'
      BY <2>3 DEF LifeInOrder
    <2> QED BY <2>2, <2>4 DEF LifeInv
  <1>3. UNCHANGED log => All' = All
    BY DEF log, All
  <1> QED BY <1>1, <1>2, <1>3

\* The record a run is appending comes after all it has logged.
LEMMA NextInOrder ==
  ASSUME TypeOK, NEW r \in Runs, Life(r), pc[r] = "writing", NEW e \in Events, Logged(r, e)
  PROVE  Order(e) < Order(Record(r).event) \/ (e = "failed" /\ Record(r).event = "failed")
  <1>1. job[r] \in Jobs /\ Record(r).event = (IF job[r] \in {"result", "error"} THEN "failed" ELSE job[r])
    BY RecordOfRun DEF TypeOK
  <1>2. job[r] # "start" /\ (job[r] = "note" => e = "start")
        /\ (job[r] \in {"complete", "result"} => e \in {"start", "note"})
    BY DEF Life, Inside
  <1> QED BY <1>1, <1>2 DEF Order, Jobs, Events

\* The except clause, after an append that got as far as All' or before any.
LEMMA FailLives ==
  ASSUME TypeOK, NEW r \in Runs, Life(r), Fail(r), pc[r] # "done", pc[r] # "idle",
         completed'[r] = completed[r], noted'[r] = noted[r],
         \A e \in Events : Logged(r, e)' =>
           Logged(r, e) \/ (pc[r] \in Inside /\ e = Record(r).event)
  PROVE  Life(r)'
  <1>1. code[r] = NoCode /\ 0 # NoCode /\ 1 # NoCode
    BY DEF Life, NoCode
  <1>2. "complete" \in Events
    BY DEF Events
  <1>3. Logged(r, "complete")' => completed[r] /\ (job[r] = "error" => notice[r])
    <2>1. Logged(r, "complete") => completed[r] /\ (job[r] = "error" => notice[r])
      BY DEF Life
    <2>2. pc[r] \in Inside /\ "complete" = Record(r).event => job[r] = "complete"
      BY RecordOfRun
    <2>3. pc[r] \in Inside /\ job[r] = "complete" => completed[r]
      BY DEF Life
    <2> QED BY <1>2, <2>1, <2>2, <2>3
  <1>4. CASE job[r] = "error"
    <2>1. pc'[r] = "done" /\ code'[r] = 1 /\ job'[r] = "error" /\ notice'[r] = notice[r]
      BY <1>4, FailMeans
    <2> QED BY <1>1, <1>3, <1>4, <2>1 DEF Life, Inside
  <1>5. CASE job[r] # "error"
    <2>1. pc'[r] = "waiting" /\ code'[r] = code[r] /\ job'[r] = "error" /\ notice'[r] = completed[r]
      BY <1>5, FailMeans
    <2> QED BY <1>1, <1>3, <1>5, <2>1 DEF Life, Inside
  <1> QED BY <1>4, <1>5

\* A write that succeeds.
LEMMA WriteLives ==
  ASSUME TypeOK, NEW r \in Runs, Life(r), pc[r] = "writing", Appended(r),
         completed'[r] = completed[r], noted'[r] = noted[r],
         \A e \in Events : Logged(r, e)' <=> Logged(r, e) \/ e = Record(r).event
  PROVE  Life(r)'
  <1>1. code[r] = NoCode /\ 0 # NoCode /\ 1 # NoCode
    BY DEF Life, NoCode
  <1>2. "complete" \in Events /\ "failed" \in Events
    BY DEF Events
  <1>3. Record(r).event = (IF job[r] \in {"result", "error"} THEN "failed" ELSE job[r])
        /\ job'[r] = job[r] /\ notice'[r] = notice[r] /\ job[r] \in Jobs
    BY RecordOfRun, AppendedMeans DEF TypeOK
  <1>4. (Logged(r, "complete") => completed[r]) /\ (notice[r] => completed[r])
    BY DEF Life
  <1>5. CASE job[r] \in {"start", "note"}
    <2>1. pc'[r] = "body" /\ code'[r] = NoCode
      BY <1>1, <1>5, AppendedMeans
    <2>2. \A e \in Events : Logged(r, e)' => e = "start" \/ (e = "note" /\ noted'[r])
      BY <1>3, <1>5 DEF Life, Inside
    <2> QED BY <1>2, <1>3, <1>4, <1>5, <2>1, <2>2 DEF Life, Inside
  <1>6. CASE job[r] \in {"complete", "result"}
    <2>1. completed[r] /\ ~Logged(r, "failed") /\ ~Logged(r, "complete")
      BY <1>2, <1>6 DEF Life, Inside
    <2>2. CASE job[r] = "complete"
      <3>1. pc'[r] = "done" /\ code'[r] = 0
        BY <2>2, AppendedMeans
      <3>2. Logged(r, "complete")' /\ ~Logged(r, "failed")'
        BY <1>2, <1>3, <2>1, <2>2
      <3> QED BY <1>3, <1>4, <2>1, <2>2, <3>1, <3>2 DEF Life, Inside
    <2>3. CASE job[r] = "result"
      <3>1. pc'[r] = "done" /\ code'[r] = 1
        BY <2>3, AppendedMeans
      <3>2. ~Logged(r, "complete")'
        BY <1>2, <1>3, <2>1, <2>3
      <3> QED BY <1>3, <1>4, <2>1, <2>3, <3>1, <3>2 DEF Life, Inside
    <2> QED BY <1>6, <2>2, <2>3
  <1>7. CASE job[r] = "error"
    <2>1. pc'[r] = "done" /\ code'[r] = 1
      BY <1>7, AppendedMeans
    <2>2. Logged(r, "complete")' => Logged(r, "complete")
      BY <1>2, <1>3, <1>7
    <2>3. Logged(r, "complete") => notice[r]
      BY <1>7 DEF Life
    <2> QED BY <1>3, <1>4, <1>7, <2>1, <2>2, <2>3 DEF Life, Inside
  <1> QED BY <1>3, <1>5, <1>6, <1>7 DEF Jobs

\* What a write that fails or is cut short has logged.
LEMMA CutLogs ==
  ASSUME LinesInv, ~disturbed, NEW r \in Runs, pc[r] = "writing", NEW cut \in Cut, Put(r, cut)
  PROVE  /\ All \in Seq(Records)
         /\ All' = All \/ All' = Append(All, Record(r))
         /\ \A e \in Events : Logged(r, e)' => Logged(r, e) \/ e = Record(r).event
         /\ \A e \in Events : Logged(r, e) => Logged(r, e)'
  <1>1. TypeOK /\ All \in Seq(Records) /\ (All' = All \/ All' = Append(All, Record(r)))
    BY PutSound DEF LinesInv
  <1>2. CASE All' = All
    BY <1>1, <1>2 DEF Logged
  <1>3. CASE All' = Append(All, Record(r))
    BY <1>1, <1>3, LoggedAppend
  <1> QED BY <1>1, <1>2, <1>3

LEMMA LifeKept == IInv /\ [Next]_vars => LifeInv'
  <1> SUFFICES ASSUME IInv, [Next]_vars, edits' = 0 PROVE LifeInv'
    BY DEF LifeInv
  <1>0. TypeOK /\ LinesInv /\ LifeInv
    BY DEF IInv, LinesInv
  <1>a. ~Edit /\ edits = 0 /\ UNCHANGED edits
    <2>1. edits \in Nat
      BY <1>0, LogAssumption DEF TypeOK
    <2>2. ~Edit
      BY <2>1 DEF Edit
    <2> QED BY <2>2 DEF Next, Step, Start, Note, Return, Lock, TimeOut, CheckTail, Write, Raise,
                        AppendFails, Crash, editor, vars
  <1>b. ~disturbed /\ \A r \in Runs : Life(r)
    BY <1>0, <1>a DEF LinesInv, LifeInv
  <1>c. UNCHANGED log => \A r \in Runs, e \in Events : Logged(r, e)' <=> Logged(r, e)
    BY DEF log, Logged, All
  <1>d. "complete" \in Events /\ "failed" \in Events
    BY DEF Events
  <1>1. ASSUME NEW r \in Runs, Start(r) PROVE LifeInv'
    <2>1. /\ pc[r] = "idle" /\ pc' = [pc EXCEPT ![r] = "waiting"] /\ job' = [job EXCEPT ![r] = "start"]
          /\ UNCHANGED <<sep, noted, completed, notice, code, log, editor>>
      BY <1>1 DEF Start, Append1, To
    <2>2. pc'[r] = "waiting" /\ job'[r] = "start"
      BY <1>0, <2>1 DEF TypeOK
    <2>3. Life(r)'
      BY <1>b, <1>c, <1>d, <2>1, <2>2 DEF Life, Inside
    <2> QED BY <1>0, <1>a, <2>1, <2>3, LivesKept DEF TypeOK
  <1>2. ASSUME NEW r \in Runs, Note(r) PROVE LifeInv'
    <2>1. /\ pc[r] = "body" /\ ~noted[r] /\ pc' = [pc EXCEPT ![r] = "waiting"]
          /\ job' = [job EXCEPT ![r] = "note"] /\ noted' = [noted EXCEPT ![r] = TRUE]
          /\ UNCHANGED <<sep, completed, notice, code, log, editor>>
      BY <1>2 DEF Note, Append1, To
    <2>2. pc'[r] = "waiting" /\ job'[r] = "note" /\ noted'[r]
      BY <1>0, <2>1 DEF TypeOK
    <2>3. Life(r)'
      BY <1>b, <1>c, <1>d, <2>1, <2>2 DEF Life, Inside
    <2> QED BY <1>0, <1>a, <2>1, <2>3, LivesKept DEF TypeOK
  <1>3. ASSUME NEW r \in Runs, Return(r) PROVE LifeInv'
    <2>1. PICK what \in {"complete", "result"} :
          /\ pc[r] = "body" /\ pc' = [pc EXCEPT ![r] = "waiting"]
          /\ job' = [job EXCEPT ![r] = what] /\ completed' = [completed EXCEPT ![r] = TRUE]
          /\ UNCHANGED <<sep, noted, notice, code, log, editor>>
      BY <1>3 DEF Return, Append1, To
    <2>2. pc'[r] = "waiting" /\ job'[r] \in {"complete", "result"} /\ completed'[r]
      BY <1>0, <2>1 DEF TypeOK
    <2>3. Life(r)'
      BY <1>b, <1>c, <1>d, <2>1, <2>2 DEF Life, Inside
    <2> QED BY <1>0, <1>a, <2>1, <2>3, LivesKept DEF TypeOK
  <1>4. ASSUME NEW r \in Runs, UNCHANGED log, Fail(r), pc[r] # "done", pc[r] # "idle",
               UNCHANGED <<noted, completed>>
        PROVE  LifeInv'
    <2>1. Life(r)'
      BY <1>0, <1>b, <1>c, <1>4, FailLives
    <2> QED BY <1>0, <1>a, <1>4, <2>1, FailMeans, LivesKept
  <1>5. ASSUME NEW r \in Runs, Raise(r) \/ TimeOut(r) PROVE LifeInv'
    BY <1>4, <1>5 DEF Raise, TimeOut
  <1>6. ASSUME NEW r \in Runs, Lock(r) PROVE LifeInv'
    <2>1. /\ pc[r] = "waiting" /\ pc' = [pc EXCEPT ![r] = "locked"]
          /\ UNCHANGED <<job, sep, noted, completed, notice, code, log, editor>>
      BY <1>6 DEF Lock, To
    <2>2. pc'[r] = "locked"
      BY <1>0, <2>1 DEF TypeOK
    <2>3. Life(r)'
      BY <1>b, <1>c, <1>d, <2>1, <2>2 DEF Life, Inside
    <2> QED BY <1>0, <1>a, <2>1, <2>3, LivesKept DEF TypeOK
  <1>7. ASSUME NEW r \in Runs, CheckTail(r) PROVE LifeInv'
    <2>1. CASE tail = Torn
      BY <1>4, <1>7, <2>1 DEF CheckTail
    <2>2. CASE tail # Torn
      <3>1. /\ pc[r] = "locked" /\ pc' = [pc EXCEPT ![r] = "writing"]
            /\ UNCHANGED <<job, noted, completed, notice, code, log, editor>>
        BY <1>7, <2>2 DEF CheckTail, To
      <3>2. pc'[r] = "writing"
        BY <1>0, <3>1 DEF TypeOK
      <3>3. Life(r)'
        BY <1>b, <1>c, <1>d, <3>1, <3>2 DEF Life, Inside
      <3> QED BY <1>0, <1>a, <3>1, <3>3, LivesKept DEF TypeOK
    <2> QED BY <2>1, <2>2
  <1>8. ASSUME NEW r \in Runs, Write(r) PROVE LifeInv'
    <2>1. /\ pc[r] = "writing" /\ Put(r, "all") /\ "all" \in Cut /\ Appended(r)
          /\ UNCHANGED <<noted, completed>>
      BY <1>8 DEF Write, Cut
    <2>2. All \in Seq(Records) /\ All' = Append(All, Record(r))
      BY <1>0, <1>b, <2>1, PutSound
    <2>3. \A e \in Events : Logged(r, e)' <=> Logged(r, e) \/ e = Record(r).event
      BY <1>0, <2>2, LoggedAppend
    <2>4. Life(r)'
      BY <1>0, <1>b, <2>1, <2>3, WriteLives
    <2>5. \A e \in Events : Logged(r, e) =>
            Order(e) < Order(Record(r).event) \/ (e = "failed" /\ Record(r).event = "failed")
      BY <1>0, <1>b, <2>1, NextInOrder
    <2> QED BY <1>0, <1>a, <2>1, <2>2, <2>4, <2>5, AppendedMeans, LivesKept
  <1>9. ASSUME NEW r \in Runs, AppendFails(r) PROVE LifeInv'
    <2>1. Fail(r) /\ UNCHANGED <<noted, completed>> /\ pc[r] # "done" /\ pc[r] # "idle"
      BY <1>9 DEF AppendFails
    <2>2. CASE UNCHANGED log
      BY <1>4, <2>1, <2>2
    <2>3. ASSUME NEW cut \in Cut, pc[r] = "writing", Put(r, cut) PROVE LifeInv'
      <3>1. /\ All \in Seq(Records) /\ (All' = All \/ All' = Append(All, Record(r)))
            /\ \A e \in Events : Logged(r, e)' => Logged(r, e) \/ e = Record(r).event
        BY <1>0, <1>b, <2>3, CutLogs
      <3>2. Life(r)'
        BY <1>0, <1>b, <2>1, <2>3, <3>1, FailLives DEF Inside
      <3>3. \A e \in Events : Logged(r, e) =>
              Order(e) < Order(Record(r).event) \/ (e = "failed" /\ Record(r).event = "failed")
        BY <1>0, <1>b, <2>3, NextInOrder
      <3> QED BY <1>0, <1>a, <2>1, <3>1, <3>2, <3>3, FailMeans, LivesKept
    <2> QED BY <1>9, <2>2, <2>3 DEF AppendFails
  <1>10. ASSUME NEW r \in Runs, Crash(r) PROVE LifeInv'
    <2>1. /\ pc[r] \notin {"idle", "done", "died"} /\ pc' = [pc EXCEPT ![r] = "died"]
          /\ UNCHANGED <<job, noted, completed, notice, code>>
      BY <1>10 DEF Crash, To
    <2>2. pc'[r] = "died" /\ code[r] = NoCode /\ 0 # NoCode /\ 1 # NoCode
      BY <1>0, <1>b, <2>1 DEF TypeOK, Life, NoCode
    <2>3. ASSUME Logged(r, "complete")' =>
                   Logged(r, "complete") \/ (pc[r] = "writing" /\ "complete" = Record(r).event)
          PROVE  Life(r)'
      <3>1. pc[r] = "writing" /\ "complete" = Record(r).event => job[r] = "complete" /\ completed[r]
        <4>1. "complete" = Record(r).event => job[r] = "complete"
          BY <1>0, RecordOfRun
        <4> QED BY <1>b, <4>1 DEF Life, Inside
      <3>2. Logged(r, "complete")' => completed[r] /\ (job[r] = "error" => notice[r])
        BY <1>b, <2>3, <3>1 DEF Life
      <3> QED BY <1>b, <2>1, <2>2, <3>2 DEF Life, Inside
    <2>4. CASE UNCHANGED log
      <3>1. Life(r)'
        BY <1>c, <1>d, <2>3, <2>4
      <3> QED BY <1>0, <1>a, <2>1, <2>4, <3>1, LivesKept DEF TypeOK
    <2>5. ASSUME NEW cut \in Cut, pc[r] = "writing", Put(r, cut) PROVE LifeInv'
      <3>1. /\ All \in Seq(Records) /\ (All' = All \/ All' = Append(All, Record(r)))
            /\ \A e \in Events : Logged(r, e)' => Logged(r, e) \/ e = Record(r).event
        BY <1>0, <1>b, <2>5, CutLogs
      <3>2. Life(r)'
        BY <1>d, <2>3, <2>5, <3>1
      <3>3. \A e \in Events : Logged(r, e) =>
              Order(e) < Order(Record(r).event) \/ (e = "failed" /\ Record(r).event = "failed")
        BY <1>0, <1>b, <2>5, NextInOrder
      <3>4. \A q \in Runs \ {r} : pc'[q] = pc[q]
        BY <1>0, <2>1 DEF TypeOK
      <3> QED BY <1>0, <1>a, <2>1, <3>1, <3>2, <3>3, <3>4, LivesKept
    <2> QED BY <1>10, <2>4, <2>5 DEF Crash
  <1>11. CASE UNCHANGED vars
    <2>1. \A r \in Runs, e \in Events : Logged(r, e)' <=> Logged(r, e)
      BY <1>11, <1>c DEF vars, log
    <2>2. \A r \in Runs : Life(r)'
      BY <1>11, <1>b, <1>d, <2>1 DEF vars, Life
    <2>3. LifeInOrder'
      BY <1>0, <1>11, <1>a DEF vars, LifeInv, LifeInOrder, All
    <2> QED BY <2>2, <2>3 DEF LifeInv
  <1> QED BY <1>a, <1>1, <1>2, <1>3, <1>5, <1>6, <1>7, <1>8, <1>9, <1>10, <1>11 DEF Next, Step

-----------------------------------------------------------------------------
(* Theorems *)

LEMMA Beginning == Init => IInv
  <1> SUFFICES ASSUME Init PROVE IInv
    OBVIOUS
  <1>1. TypeOK
    <2>1. lines \in Seq(Records \cup {Empty, Torn}) /\ 0 \in 0 .. MaxEdits
      BY LogAssumption DEF Init
    <2> QED BY <2>1 DEF Init, TypeOK, Stages, Jobs, NoCode
  <1>2. Exclusive /\ Checked /\ LinesSound
    BY DEF Init, Exclusive, Checked, LinesSound, Inside
  <1>3. All = <<>>
    BY TextsDiffer DEF Init, All
  <1>4. \A r \in Runs, e \in Events : ~Logged(r, e)
    BY <1>3 DEF Logged
  <1>5. "complete" \in Events /\ "failed" \in Events
    BY DEF Events
  <1>6. \A r \in Runs : Life(r)
    BY <1>4, <1>5 DEF Init, Life, Inside, NoCode
  <1>7. LifeInOrder
    BY <1>3 DEF LifeInOrder
  <1> QED BY <1>1, <1>2, <1>6, <1>7 DEF Init, IInv, LinesInv, LifeInv

LEMMA Invariance == Spec => []IInv
  <1>1. IInv /\ [Next]_vars => IInv'
    BY LinesKept, LifeKept DEF IInv
  <1> QED BY Beginning, <1>1, PTL DEF Spec

\* The invocations, their locks and the log keep to their types: every step of
\* _run, of FsLogger._write and of the editor.
THEOREM TypeCorrect == Spec => []TypeOK
  <1>1. IInv => TypeOK
    BY DEF IInv, LinesInv
  <1> QED BY <1>1, Invariance, PTL

\* FsLogger._write, with _append_separator under its lock: as long as nobody
\* edits the file between a check and its write, every complete line is one
\* whole record, whatever writes failed or were cut short by a kill.
THEOREM WholeLines == Spec => []LinesSound
  <1>1. IInv => LinesSound
    BY DEF IInv, LinesInv
  <1> QED BY <1>1, Invariance, PTL

\* _run: in a log that nobody edits, start, the handler's record and the outcome
\* of an invocation follow each other, and only a failure is ever logged twice.
THEOREM Lifecycle == Spec => []LifeInOrder
  <1>1. IInv => LifeInOrder
    BY DEF IInv, LifeInv, LifeInOrder
  <1> QED BY <1>1, Invariance, PTL

\* _run and _failed_log: exit code, stderr and a log that nobody edits agree.
THEOREM Agreement == Spec => []LogAgrees
  <1>1. IInv => LogAgrees
    BY DEF IInv, LifeInv, Life, LogAgrees
  <1> QED BY <1>1, Invariance, PTL

\* FsLogger._write opens the file to append, after _append_separator: no step of
\* an invocation changes or removes what the log holds.
THEOREM Preservation == Spec => AppendOnly
  <1>1. IInv /\ [Next]_vars =>
          [edits' = edits /\ ~disturbed =>
             /\ IsPrefix(lines, lines')
             /\ tail \in Records => tail' = tail \/ (IsPrefix(Append(lines, tail), lines'))
             /\ tail = Torn => UNCHANGED log]_vars
    <2> SUFFICES ASSUME IInv, [Next]_vars, edits' = edits, ~disturbed
                 PROVE  /\ IsPrefix(lines, lines')
                        /\ tail \in Records => tail' = tail \/ (IsPrefix(Append(lines, tail), lines'))
                        /\ tail = Torn => UNCHANGED log
      OBVIOUS
    <2>1. LinesInv /\ TypeOK /\ edits \in Nat
      BY LogAssumption DEF IInv, LinesInv, TypeOK
    <2>2. CASE UNCHANGED log
      <3>1. IsPrefix(lines, lines)
        BY <2>1 DEF TypeOK, IsPrefix
      <3> QED BY <2>2, <3>1 DEF log
    <2>3. ASSUME NEW r \in Runs, pc[r] = "writing", NEW cut \in Cut, Put(r, cut)
          PROVE  /\ IsPrefix(lines, lines')
                 /\ tail \in Records => tail' = tail \/ (IsPrefix(Append(lines, tail), lines'))
                 /\ tail = Torn => UNCHANGED log
      BY <2>1, <2>3, PutSound DEF LinesInv, Checked
    <2>4. ~Edit
      BY <2>1 DEF Edit
    <2>5. UNCHANGED log \/ \E r \in Runs, cut \in Cut : pc[r] = "writing" /\ Put(r, cut)
      BY <2>4 DEF Next, Step, Start, Note, Return, Lock, TimeOut, CheckTail, Write, Raise,
                  AppendFails, Crash, vars, log, Cut
    <2> QED BY <2>2, <2>3, <2>5
  <1> QED BY <1>1, Invariance, PTL DEF Spec, AppendOnly
=============================================================================
