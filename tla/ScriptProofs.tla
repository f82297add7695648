---------------------------- MODULE ScriptProofs ----------------------------
(***************************************************************************)
(* What the receipts of the checking scripts say: of the sessions of       *)
(* check_installed_artifact.py and check_conformance.py (Harness), and of  *)
(* check_documented_examples.py (DocumentedExamples).                      *)
(***************************************************************************)
EXTENDS Harness, DocumentedExamples, FiniteSetTheorems, SequenceTheorems, WellFoundedInduction, TLAPS

\* Where a session stands in its plan.
Working == {"step", "copying", "running", "judge", "hung"}
Closing == {"finish", "write", "ended", "killed"}
Steps == {"start", "open", "recheck", "refused"} \cup Working \cup Closing
Runs == [id : Sessions \X Nat, life : {"good", "bad"}]
Taken == [fixtures : Nat, artifact : Nat]

Shape ==
    /\ kind \in [Sessions -> Kinds] /\ fixtures \in Nat /\ artifact \in Nat
    /\ copies \in [Kinds -> SUBSET Nat]
    /\ log \in Seq(Runs) /\ tampered \in BOOLEAN
    /\ files \in [Kinds -> [by : Sessions \cup {"nobody"}, status : {"absent", "torn", "passed", "failed"}]]
    /\ pc \in [Sessions -> Steps] /\ at \in [Sessions -> Nat \ {0}]
    /\ taken \in [Sessions -> Taken] /\ rechecked \in [Sessions -> Taken]
    /\ used \in [Sessions -> SUBSET {0, 1, Mixed}]
    /\ previous \in [Sessions -> Seq(Runs)]
    /\ DOMAIN result = Sessions
    /\ ids \in [Sessions -> SUBSET (Sessions \X Nat)]
    /\ status \in [Sessions -> {"passed", "failed"}]
    /\ faults \in [Sessions -> BOOLEAN]

PlaceInv(s) ==
    /\ pc[s] \in {"start", "open", "refused"} => at[s] = 1
    /\ pc[s] \in Working => at[s] \in DOMAIN Plan[kind[s]]
    /\ pc[s] = "recheck" => at[s] = Len(Plan[kind[s]]) + 1
    /\ pc[s] \in Closing => at[s] \in {1, Len(Plan[kind[s]]) + 1}
    /\ pc[s] = "copying" => Step(s).call = "copy"
    /\ pc[s] \in {"running", "judge", "hung"} => Step(s).call \in Calls

\* A session that made its first copy and has not failed since; no two sessions of one
\* script can be.
Inside(s) == at[s] # 1 \/ pc[s] = "copying"

AloneInv ==
    /\ \A s \in Sessions : Inside(s) => 1 \in copies[kind[s]]
    /\ \A s, t \in Sessions : Inside(s) /\ Inside(t) /\ kind[s] = kind[t] => s = t

\* A session goes on, or closes at the end of its plan, only without a fault; what it
\* judges has a fault exactly if it is not what it must be.
FaultInv(s) ==
    /\ pc[s] \notin {"judge", "hung"} \cup Closing \/ (pc[s] \in Closing /\ at[s] # 1) => ~faults[s]
    /\ pc[s] = "judge" =>
         /\ result[s] \in Behaviours(Step(s).call)
         /\ result[s].output # "absent" => at[s] \in copies[kind[s]]
         /\ faults[s] <=> \/ result[s] # Right(Step(s).call)
                          \/ Step(s).logged /\ ~tampered /\ log # Append(previous[s], Run(<<s, at[s]>>))

\* A log that holds one complete run for each logged call before place n, in order.
Holding(l, s, n) ==
    /\ Len(l) = Cardinality({i \in Logged(kind[s]) : i < n})
    /\ \A i \in DOMAIN l : l[i].life = "good" /\ l[i].id[1] = s /\ l[i].id[2] < n
    /\ \A i, j \in DOMAIN l : i < j => l[i].id[2] < l[j].id[2]

IdsOf(l) == {l[i].id : i \in DOMAIN l}

\* What a call that is to log may leave of the log l (Logs, of any log).
Added(l, id) == [id : {id} \cup IdsOf(l), life : {"good", "bad"}]
After(l, id) ==
    {l, <<Run(id)>>} \cup {Append(l, r) : r \in Added(l, id)}
      \cup {Append(Append(l, Run(id)), r) : r \in Added(l, id)}

LogInv(s) ==
    kind[s] = "acceptance" /\ Inside(s) /\ ~tampered =>
      /\ pc[s] \in {"step", "copying", "running", "recheck"} \cup Closing => Holding(log, s, at[s])
      /\ pc[s] \in {"step", "copying", "running", "recheck"} => ids[s] = IdsOf(log)
      /\ pc[s] = "running" /\ Step(s).logged => previous[s] = log
      /\ pc[s] = "judge" =>
           IF Step(s).logged
           THEN /\ Holding(previous[s], s, at[s]) /\ ids[s] = IdsOf(previous[s])
                /\ log \in After(previous[s], <<s, at[s]>>)
           ELSE Holding(log, s, at[s]) /\ ids[s] = IdsOf(log)

EmptyInv ==
    /\ 1 \notin copies["acceptance"] => log = <<>>
    /\ \A s \in Sessions :
         pc[s] \in {"start", "open"} \/ (pc[s] = "step" /\ at[s] = 1) => ids[s] = {} /\ used[s] = {}

\* The copies were made of the fingerprinted fixtures, unless these have been changed.
UsedInv(s) ==
    /\ pc[s] \in Working \cup {"recheck"} =>
         /\ taken[s].fixtures <= fixtures
         /\ used[s] \subseteq {Content(taken[s].fixtures)} \/ fixtures > taken[s].fixtures
         /\ at[s] # 1 => used[s] # {}
    /\ pc[s] = "copying" => result[s].from \in taken[s].fixtures .. fixtures

PassInv(s) ==
    status[s] = "passed" =>
      /\ pc[s] \in Closing /\ at[s] # 1
      /\ Content(rechecked[s].artifact) = Content(taken[s].artifact)
      /\ used[s] = {Content(taken[s].fixtures)} \/ rechecked[s].fixtures >= taken[s].fixtures + 2

ReceiptInv ==
    \A k \in Kinds : files[k].status = "passed" =>
      files[k].by \in Sessions /\ kind[files[k].by] = k /\ status[files[k].by] = "passed"

HInv ==
    /\ Shape /\ AloneInv /\ EmptyInv /\ ReceiptInv
    /\ \A s \in Sessions : PlaceInv(s) /\ FaultInv(s) /\ LogInv(s) /\ UsedInv(s) /\ PassInv(s)

----------------------------------------------------------------------------
(* Facts about plans and logs.                                             *)

\* What the assumption says of a plan, place by place.
LEMMA PlanFacts ==
  ASSUME NEW k \in Kinds
  PROVE  /\ Len(Plan[k]) \in Nat \ {0} /\ DOMAIN Plan[k] = 1 .. Len(Plan[k])
         /\ Plan[k][1].call = "copy"
         /\ \A i \in DOMAIN Plan[k] :
              /\ Plan[k][i].call \in Calls \cup {"copy", "compare"}
              /\ Plan[k][i].logged \in BOOLEAN
              /\ Plan[k][i].logged => k = "acceptance" /\ Plan[k][i].call \in Calls
<1> DEFINE T == [call : Calls \cup {"copy", "compare"}, logged : BOOLEAN]
<1>1. Plan[k] \in Seq(T) /\ Plan[k] # <<>>
  BY SessionAssumption
<1>2. Len(Plan[k]) \in Nat /\ DOMAIN Plan[k] = 1 .. Len(Plan[k])
  BY <1>1
<1>3. Len(Plan[k]) # 0
  BY <1>1, EmptySeq
<1>4. \A i \in DOMAIN Plan[k] : Plan[k][i] \in T
  BY <1>1, <1>2, ElementOfSeq
<1>5. QED
  BY <1>2, <1>3, <1>4, SessionAssumption

\* Places of logged calls are places of the plan.
LEMMA LoggedFinite ==
  ASSUME NEW k \in Kinds, NEW n \in Nat
  PROVE  /\ IsFiniteSet({i \in Logged(k) : i < n})
         /\ Cardinality({i \in Logged(k) : i < n}) \in Nat
<1>1. Logged(k) \subseteq 1 .. Len(Plan[k])
  BY PlanFacts DEF Logged
<1>2. IsFiniteSet(1 .. Len(Plan[k]))
  BY PlanFacts, FS_Interval
<1>3. IsFiniteSet({i \in Logged(k) : i < n})
  BY <1>1, <1>2, FS_Subset
<1>4. QED
  BY <1>3, FS_CardinalityType

\* The end of the plan counts every logged call.
LEMMA AllLogged ==
  ASSUME NEW k \in Kinds
  PROVE  {i \in Logged(k) : i < Len(Plan[k]) + 1} = Logged(k)
  BY PlanFacts DEF Logged

\* A place that does not log adds nothing to the calls that did.
LEMMA NextUnlogged ==
  ASSUME NEW k \in Kinds, NEW n \in DOMAIN Plan[k], ~Plan[k][n].logged
  PROVE  {i \in Logged(k) : i < n + 1} = {i \in Logged(k) : i < n}
  BY PlanFacts DEF Logged

\* A place that logs adds one.
LEMMA NextLogged ==
  ASSUME NEW k \in Kinds, NEW n \in DOMAIN Plan[k], Plan[k][n].logged
  PROVE  Cardinality({i \in Logged(k) : i < n + 1}) = Cardinality({i \in Logged(k) : i < n}) + 1
<1>1. {i \in Logged(k) : i < n + 1} = {i \in Logged(k) : i < n} \cup {n}
  BY PlanFacts DEF Logged
<1>2. n \notin {i \in Logged(k) : i < n}
  BY PlanFacts
<1> DEFINE A == {i \in Logged(k) : i < n}
<1>3. n \in Nat
  BY PlanFacts
<1>4. IsFiniteSet(A) /\ Cardinality(A) \in Nat
  BY <1>3, LoggedFinite
<1>5. Cardinality(A \cup {n}) = Cardinality(A) + 1
  <2> HIDE DEF A
  <2> QED BY <1>2, <1>4, FS_AddElement DEF A
<1>6. QED
  BY <1>1, <1>5

\* An unlogged step keeps the log as it must be.
LEMMA HoldingStays ==
  ASSUME NEW s \in Sessions, kind[s] \in Kinds, NEW l \in Seq(Runs),
         NEW n \in DOMAIN Plan[kind[s]], ~Plan[kind[s]][n].logged, Holding(l, s, n)
  PROVE  Holding(l, s, n + 1)
<1>1. n \in Nat
  BY PlanFacts
<1>2. \A i \in DOMAIN l : l[i] \in Runs
  BY ElementOfSeq
<1>3. \A i \in DOMAIN l : l[i].id[2] \in Nat
  BY <1>2 DEF Runs
<1>4. \A i \in DOMAIN l : l[i].id[2] < n => l[i].id[2] < n + 1
  BY <1>1, <1>3
<1>5. Len(l) = Cardinality({i \in Logged(kind[s]) : i < n + 1})
  BY NextUnlogged DEF Holding
<1>6. QED
  BY <1>4, <1>5 DEF Holding

\* A complete run of the logged call at place n brings it to the next place.
LEMMA HoldingGrows ==
  ASSUME NEW s \in Sessions, kind[s] \in Kinds, NEW l \in Seq(Runs),
         NEW n \in DOMAIN Plan[kind[s]], Plan[kind[s]][n].logged, Holding(l, s, n),
         NEW m \in Seq(Runs), m = Append(l, [id |-> <<s, n>>, life |-> "good"])
  PROVE  Holding(m, s, n + 1) /\ IdsOf(m) = IdsOf(l) \cup {<<s, n>>}
<1> DEFINE r == [id |-> <<s, n>>, life |-> "good"]
<1>1. n \in Nat /\ r \in Runs
  BY PlanFacts DEF Runs
<1>2. /\ Len(m) = Len(l) + 1
      /\ \A i \in DOMAIN l : m[i] = l[i]
      /\ m[Len(l) + 1] = r
      /\ DOMAIN m = DOMAIN l \cup {Len(l) + 1}
      /\ DOMAIN l = 1 .. Len(l) /\ Len(l) \in Nat
  BY <1>1, AppendProperties, LenProperties
<1>3. \A i \in DOMAIN l : l[i] \in Runs
  BY ElementOfSeq, <1>2
<1>4. \A i \in DOMAIN l : l[i].id[2] \in Nat /\ l[i].id[2] < n
  BY <1>3 DEF Runs, Holding
<1>5. r.life = "good" /\ r.id[1] = s /\ r.id[2] = n /\ r.id = <<s, n>>
  OBVIOUS
<1> HIDE DEF r
<1>6. Len(m) = Cardinality({i \in Logged(kind[s]) : i < n + 1})
  BY <1>2, NextLogged DEF Holding
<1>7. \A i \in DOMAIN m : m[i].life = "good" /\ m[i].id[1] = s /\ m[i].id[2] < n + 1
  BY <1>1, <1>2, <1>4, <1>5 DEF Holding
<1>8. ASSUME NEW i \in DOMAIN m, NEW j \in DOMAIN m, i < j
      PROVE  m[i].id[2] < m[j].id[2]
  <2>1. i \in DOMAIN l
    BY <1>2, <1>8
  <2>2. CASE j \in DOMAIN l
    BY <1>2, <1>8, <2>1, <2>2 DEF Holding
  <2>3. CASE j = Len(l) + 1
    BY <1>2, <1>4, <1>5, <2>1, <2>3
  <2>4. QED
    BY <1>2, <2>2, <2>3
<1>9. IdsOf(m) = IdsOf(l) \cup {<<s, n>>}
  BY <1>2, <1>5 DEF IdsOf
<1>10. QED
  BY <1>6, <1>7, <1>8, <1>9 DEF Holding

----------------------------------------------------------------------------
(* One session's step and the others.                                      *)

Own(s) == PlaceInv(s) /\ FaultInv(s) /\ LogInv(s) /\ UsedInv(s) /\ PassInv(s)

Frame(s) ==
    /\ UNCHANGED <<kind, fixtures, artifact>>
    /\ \A t \in Sessions \ {s} :
         /\ pc'[t] = pc[t] /\ at'[t] = at[t] /\ taken'[t] = taken[t] /\ used'[t] = used[t]
         /\ previous'[t] = previous[t] /\ result'[t] = result[t] /\ ids'[t] = ids[t]
         /\ status'[t] = status[t] /\ rechecked'[t] = rechecked[t] /\ faults'[t] = faults[t]
    /\ \A k \in Kinds : copies[k] \subseteq copies'[k]
    /\ (log' = log /\ tampered' = tampered) \/ (kind[s] = "acceptance" /\ at[s] # 1)

\* A logged call is the acceptance's, and not its first step.
LEMMA LoggedInside ==
  ASSUME HInv, NEW t \in Sessions, pc[t] \in Working, Step(t).logged
  PROVE  kind[t] = "acceptance" /\ at[t] # 1 /\ Inside(t)
<1>1. kind[t] \in Kinds /\ at[t] \in DOMAIN Plan[kind[t]]
  BY DEF HInv, Shape, PlaceInv
<1>2. kind[t] = "acceptance" /\ Plan[kind[t]][at[t]].call \in Calls
  BY <1>1, PlanFacts DEF Step
<1>3. "copy" \notin Calls
  BY DEF Calls
<1>4. at[t] # 1
  BY <1>1, <1>2, <1>3, PlanFacts
<1>5. QED
  BY <1>2, <1>4 DEF Inside

\* The invariant of a session survives the step of another: only the log and the copies are
\* shared, and the session that writes the log is alone.
LEMMA OthersKeep ==
  ASSUME HInv, NEW s \in Sessions, Frame(s), NEW t \in Sessions \ {s}
  PROVE  Own(t)'
<1>1. Own(t) /\ kind[t] \in Kinds /\ kind[s] \in Kinds
  BY DEF HInv, Own, Shape
<1>2. /\ pc'[t] = pc[t] /\ at'[t] = at[t] /\ taken'[t] = taken[t] /\ used'[t] = used[t]
      /\ previous'[t] = previous[t] /\ result'[t] = result[t] /\ ids'[t] = ids[t]
      /\ status'[t] = status[t] /\ rechecked'[t] = rechecked[t] /\ faults'[t] = faults[t]
      /\ kind' = kind /\ fixtures' = fixtures /\ artifact' = artifact
  BY DEF Frame
<1>3. copies[kind[t]] \subseteq copies'[kind[t]]
  BY <1>1 DEF Frame
<1>4. kind[t] = "acceptance" /\ Inside(t) => log' = log /\ tampered' = tampered
  <2> SUFFICES ASSUME kind[t] = "acceptance", Inside(t), ~(log' = log /\ tampered' = tampered)
               PROVE  FALSE
    OBVIOUS
  <2>1. kind[s] = "acceptance" /\ Inside(s)
    BY DEF Frame, Inside
  <2>2. s = t
    BY <2>1 DEF HInv, AloneInv
  <2>3. QED
    BY <2>2
<1>5. PlaceInv(t)'
  BY <1>1, <1>2 DEF Own, PlaceInv, Step
<1>6. FaultInv(t)'
  <2>1. pc[t] = "judge" /\ Step(t).logged => log' = log /\ tampered' = tampered
    BY <1>4, LoggedInside DEF Working
  <2>2. Step(t)' = Step(t)
    BY <1>2 DEF Step
  <2>3. QED
    BY <1>1, <1>2, <1>3, <2>1, <2>2 DEF Own, FaultInv
<1>7. LogInv(t)'
  <2>1. Inside(t)' = Inside(t)
    BY <1>2 DEF Inside
  <2>2. Step(t)' = Step(t)
    BY <1>2 DEF Step
  <2> SUFFICES ASSUME kind[t] = "acceptance", Inside(t) PROVE LogInv(t)'
    BY <1>2, <2>1 DEF LogInv
  <2>3. log' = log /\ tampered' = tampered
    BY <1>4
  <2>4. /\ Holding(log, t, at[t])' <=> Holding(log, t, at[t])
        /\ Holding(previous[t], t, at[t])' <=> Holding(previous[t], t, at[t])
    BY <1>2, <2>3 DEF Holding
  <2>5. LogInv(t)
    BY <1>1 DEF Own
  <2>6. QED
    BY <1>2, <2>1, <2>2, <2>3, <2>4, <2>5 DEF LogInv
<1>8. UsedInv(t)'
  BY <1>1, <1>2 DEF Own, UsedInv
<1>9. PassInv(t)'
  BY <1>1, <1>2 DEF Own, PassInv
<1>10. QED
  BY <1>5, <1>6, <1>7, <1>8, <1>9 DEF Own

\* What is left to show of a step of s.
LEMMA Assemble ==
  ASSUME HInv, NEW s \in Sessions, Frame(s), Shape', Own(s)',
         Inside(s)' => 1 \in copies'[kind[s]] /\ (Inside(s) \/ 1 \notin copies[kind[s]]),
         pc'[s] \in {"start", "open"} \/ (pc'[s] = "step" /\ at'[s] = 1)
           => ids'[s] = {} /\ used'[s] = {},
         ReceiptInv'
  PROVE  HInv'
<1>1. \A t \in Sessions : Own(t)'
  BY OthersKeep
<1>2. kind' = kind /\ \A t \in Sessions : kind[t] \in Kinds
  BY DEF Frame, HInv, Shape
<1>3. \A t \in Sessions \ {s} : Inside(t)' = Inside(t)
  BY DEF Frame, Inside
<1>4. \A t \in Sessions : Inside(t) => 1 \in copies[kind[t]]
  BY DEF HInv, AloneInv
<1>5. \A t \in Sessions : Inside(t)' => 1 \in copies'[kind'[t]]
  BY <1>2, <1>3, <1>4 DEF Frame
<1>6. ASSUME NEW t \in Sessions, NEW u \in Sessions, Inside(t)', Inside(u)', kind'[t] = kind'[u]
      PROVE  t = u
  BY <1>2, <1>3, <1>4, <1>6 DEF HInv, AloneInv
<1>7. AloneInv'
  BY <1>5, <1>6 DEF AloneInv
<1>8. EmptyInv'
  <2>1. 1 \notin copies'["acceptance"] => 1 \notin copies["acceptance"]
    BY DEF Frame, Kinds
  <2>2. log' # log => 1 \in copies["acceptance"]
    BY <1>4 DEF Frame, Inside
  <2>3. 1 \notin copies'["acceptance"] => log' = <<>>
    BY <2>1, <2>2 DEF HInv, EmptyInv
  <2>4. ASSUME NEW t \in Sessions \ {s},
               pc'[t] \in {"start", "open"} \/ (pc'[t] = "step" /\ at'[t] = 1)
        PROVE  ids'[t] = {} /\ used'[t] = {}
    BY <2>4 DEF Frame, HInv, EmptyInv
  <2>5. QED
    BY <2>3, <2>4 DEF EmptyInv
<1>9. QED
  BY <1>1, <1>7, <1>8 DEF HInv, Own

\* A step that leaves the receipts alone, and takes no verdict back.
LEMMA ReceiptsKeep ==
  ASSUME HInv, NEW s \in Sessions, Frame(s), files' = files,
         status[s] = "passed" => status'[s] = "passed"
  PROVE  ReceiptInv'
  BY DEF HInv, ReceiptInv, Frame

\* A failing step leaves nothing to show but types.
LEMMA FailKeeps ==
  ASSUME HInv, NEW s \in Sessions, pc[s] \in Working, Fail(s), kind' = kind, status' = status
  PROVE  Own(s)'
<1>1. pc'[s] = "finish" /\ at'[s] = 1
  BY DEF Fail, Goto, HInv, Shape
<1>2. status'[s] # "passed"
  BY DEF HInv, PassInv, Working, Closing
<1>3. PlaceInv(s)'
  BY <1>1 DEF PlaceInv, Working, Closing
<1>4. FaultInv(s)'
  BY <1>1 DEF FaultInv, Closing
<1>5. LogInv(s)'
  BY <1>1 DEF LogInv, Inside
<1>6. UsedInv(s)'
  BY <1>1 DEF UsedInv, Working
<1>7. QED
  BY <1>2, <1>3, <1>4, <1>5, <1>6 DEF Own, PassInv

----------------------------------------------------------------------------
(* The start of a session, and its copies.                                 *)

\* The look at the directory (prepare_workdir).
LEMMA CheckWorkdirKeeps ==
  ASSUME HInv, NEW s \in Sessions, CheckWorkdir(s)
  PROVE  HInv'
<1> USE DEF CheckWorkdir, Goto, inputs, directory, memory
<1>1. Frame(s)
  BY DEF Frame, HInv, Shape
<1>2. Shape'
  BY DEF HInv, Shape, Steps
<1>3. pc[s] = "start" /\ pc'[s] \in {"refused", "open"} /\ at'[s] = 1 /\ at[s] = 1
  BY DEF HInv, Shape, PlaceInv
<1>4. Own(s)'
  <2>1. PlaceInv(s)'
    BY <1>3 DEF PlaceInv, Working, Closing
  <2>2. FaultInv(s)'
    BY <1>3 DEF HInv, FaultInv, Closing
  <2>3. LogInv(s)' /\ ~Inside(s)'
    BY <1>3 DEF LogInv, Inside
  <2>4. UsedInv(s)'
    BY <1>3 DEF UsedInv, Working
  <2>5. PassInv(s)'
    BY <1>3 DEF HInv, PassInv, Closing
  <2>6. QED
    BY <2>1, <2>2, <2>3, <2>4, <2>5 DEF Own
<1>5. ~Inside(s)' /\ ids'[s] = {} /\ used'[s] = {}
  BY <1>3 DEF Inside, HInv, EmptyInv
<1>6. ReceiptInv'
  BY <1>1, ReceiptsKeep
<1>7. QED
  BY <1>1, <1>2, <1>4, <1>5, <1>6, Assemble

\* The directory is made and the inputs are fingerprinted.
LEMMA OpenKeeps ==
  ASSUME HInv, NEW s \in Sessions, Open(s)
  PROVE  HInv'
<1> USE DEF Open, Goto, inputs
<1>1. Frame(s)
  BY DEF Frame, HInv, Shape
<1>2. Shape'
  BY DEF HInv, Shape, Steps, Working, Taken, Fingerprints
<1>3. pc[s] = "open" /\ pc'[s] = "step" /\ at'[s] = 1 /\ at[s] = 1 /\ kind[s] \in Kinds
  BY DEF HInv, Shape, PlaceInv
<1>4. ids'[s] = {} /\ used'[s] = {}
  BY <1>3 DEF HInv, EmptyInv
<1>5. Own(s)'
  <2>1. PlaceInv(s)'
    BY <1>3, PlanFacts DEF PlaceInv, Working, Closing
  <2>2. FaultInv(s)'
    BY <1>3 DEF HInv, FaultInv, Closing
  <2>3. LogInv(s)'
    BY <1>3 DEF LogInv, Inside
  <2>4. UsedInv(s)'
    BY <1>3, <1>4 DEF UsedInv, Fingerprints, HInv, Shape
  <2>5. PassInv(s)'
    BY <1>3 DEF HInv, PassInv, Closing
  <2>6. QED
    BY <2>1, <2>2, <2>3, <2>4, <2>5 DEF Own
<1>6. ~Inside(s)'
  BY <1>3 DEF Inside
<1>7. ReceiptInv'
  BY <1>1, ReceiptsKeep
<1>8. QED
  BY <1>1, <1>2, <1>4, <1>5, <1>6, <1>7, Assemble

\* The next place of the plan, or its end.
LEMMA Advances ==
  ASSUME HInv, NEW s \in Sessions, pc[s] \in Working, Advance(s), kind' = kind
  PROVE  /\ at'[s] = at[s] + 1 /\ at'[s] \in Nat /\ at'[s] # 1 /\ kind[s] \in Kinds
         /\ at[s] \in DOMAIN Plan[kind[s]] /\ Inside(s)'
         /\ pc'[s] \in {"step", "recheck"}
         /\ PlaceInv(s)'
         /\ at' \in [Sessions -> Nat \ {0}] /\ pc' \in [Sessions -> Steps]
<1>1. kind[s] \in Kinds /\ at[s] \in DOMAIN Plan[kind[s]]
  BY DEF HInv, Shape, PlaceInv
<1>2. at[s] \in Nat \ {0} /\ at[s] <= Len(Plan[kind[s]]) /\ Len(Plan[kind[s]]) \in Nat
      /\ DOMAIN Plan[kind[s]] = 1 .. Len(Plan[kind[s]])
  BY <1>1, PlanFacts
<1>3. at'[s] = at[s] + 1 /\ pc'[s] = IF at[s] = Len(Plan[kind[s]]) THEN "recheck" ELSE "step"
  BY DEF Advance, Goto, HInv, Shape
<1>4. at'[s] \in Nat \ {0} /\ at'[s] # 1
  BY <1>2, <1>3
<1>5. PlaceInv(s)'
  <2>1. CASE at[s] = Len(Plan[kind[s]])
    BY <1>2, <1>3, <2>1 DEF PlaceInv, Working, Closing
  <2>2. CASE at[s] # Len(Plan[kind[s]])
    <3>1. at'[s] \in DOMAIN Plan[kind[s]]
      BY <1>2, <1>3, <2>2
    <3>2. QED
      BY <1>3, <2>2, <3>1 DEF PlaceInv, Working, Closing
  <2>3. QED
    BY <2>1, <2>2
<1>6. at' \in [Sessions -> Nat \ {0}] /\ pc' \in [Sessions -> Steps]
  BY <1>2 DEF Advance, Goto, HInv, Shape, Steps, Working
<1>7. QED
  BY <1>1, <1>3, <1>4, <1>5, <1>6 DEF Inside

\* The types of what a failing session forgets.
LEMMA FailShape ==
  ASSUME Shape, NEW s \in Sessions, Fail(s)
  PROVE  /\ at' \in [Sessions -> Nat \ {0}] /\ pc' \in [Sessions -> Steps]
         /\ used' \in [Sessions -> SUBSET {0, 1, Mixed}] /\ previous' \in [Sessions -> Seq(Runs)]
         /\ ids' \in [Sessions -> SUBSET (Sessions \X Nat)] /\ DOMAIN result' = Sessions
         /\ pc'[s] = "finish" /\ at'[s] = 1
         /\ \A t \in Sessions \ {s} :
              /\ pc'[t] = pc[t] /\ at'[t] = at[t] /\ used'[t] = used[t]
              /\ previous'[t] = previous[t] /\ result'[t] = result[t] /\ ids'[t] = ids[t]
  BY EmptySeq DEF Fail, Goto, Shape, Steps, Closing

\* copytree: the first session of a script to make its first copy is alone from then on.
LEMMA CopyKeeps ==
  ASSUME HInv, NEW s \in Sessions, Copy(s)
  PROVE  HInv'
<1> USE DEF Copy, inputs
<1>1. pc[s] = "step" /\ kind[s] \in Kinds /\ at[s] \in DOMAIN Plan[kind[s]] /\ at[s] \in Nat
      /\ kind' = kind /\ status' = status
  BY PlanFacts DEF HInv, Shape, PlaceInv, Working
<1>2. CASE at[s] \in copies[kind[s]]
  <2>1. Fail(s) /\ copies' = copies
    BY <1>2
  <2>2. Own(s)'
    BY <1>1, <2>1, FailKeeps DEF Working
  <2>3. Frame(s)
    BY <2>1, FailShape DEF Frame, HInv
  <2>4. Shape'
    BY <2>1, FailShape DEF HInv, Shape
  <2>5. pc'[s] = "finish" /\ at'[s] = 1
    BY <2>1, FailShape DEF HInv
  <2>6. ReceiptInv'
    BY <1>1, <2>3, ReceiptsKeep
  <2>7. QED
    BY <2>2, <2>3, <2>4, <2>5, <2>6, Assemble DEF Inside
<1>3. CASE at[s] \notin copies[kind[s]]
  <2> DEFINE r == [exit |-> "copying", from |-> fixtures]
  <2>1. /\ copies' = [copies EXCEPT ![kind[s]] = @ \cup {at[s]}]
        /\ result' = [result EXCEPT ![s] = r]
        /\ Goto(s, "copying")
        /\ at' = at /\ used' = used /\ ids' = ids /\ previous' = previous
    BY <1>3
  <2>2. Frame(s)
    BY <2>1 DEF Frame, HInv, Shape, Goto
  <2>3. Shape'
    BY <1>1, <2>1 DEF HInv, Shape, Goto, Steps, Working
  <2>4. pc'[s] = "copying" /\ at'[s] = at[s] /\ result'[s] = r /\ at[s] \in copies'[kind[s]]
    BY <1>1, <2>1 DEF HInv, Shape, Goto
  <2>5. r.from = fixtures
    OBVIOUS
  <2> HIDE DEF r
  <2>6. Step(s)' = Step(s)
    BY <1>1, <2>1 DEF Step
  <2>7. PlaceInv(s)'
    BY <1>1, <2>4, <2>6 DEF PlaceInv, Working, Closing
  <2>8. FaultInv(s)'
    BY <1>1, <2>4 DEF HInv, FaultInv, Closing
  <2>9. LogInv(s)'
    <3> SUFFICES ASSUME kind[s] = "acceptance", ~tampered
                 PROVE  Holding(log, s, at[s])' /\ ids'[s] = IdsOf(log')
      BY <1>1, <2>4 DEF LogInv, Closing
    <3>1. CASE at[s] = 1
      <4>1. log = <<>> /\ ids[s] = {}
        BY <1>1, <1>3, <3>1 DEF HInv, EmptyInv
      <4>2. DOMAIN log = {} /\ Len(log) = 0
        BY <4>1
      <4>3. {i \in Logged(kind[s]) : i < 1} = {}
        BY <1>1, PlanFacts DEF Logged
      <4>4. Holding(log, s, 1)
        BY <4>2, <4>3, FS_EmptySet DEF Holding
      <4>5. QED
        BY <1>1, <2>1, <3>1, <4>1, <4>2, <4>4 DEF Holding, IdsOf
    <3>2. CASE at[s] # 1
      <4>1. Holding(log, s, at[s]) /\ ids[s] = IdsOf(log)
        BY <1>1, <3>2 DEF HInv, LogInv, Inside
      <4>2. QED
        BY <1>1, <2>1, <4>1 DEF Holding
    <3>3. QED
      BY <3>1, <3>2
  <2>10. UsedInv(s)'
    BY <1>1, <2>1, <2>4, <2>5 DEF HInv, UsedInv, Working, Shape, Taken
  <2>11. PassInv(s)'
    BY <1>1 DEF HInv, PassInv, Closing
  <2>12. Own(s)'
    BY <2>7, <2>8, <2>9, <2>10, <2>11 DEF Own
  <2>13. 1 \in copies'[kind[s]] /\ (Inside(s) \/ 1 \notin copies[kind[s]])
    BY <1>1, <1>3, <2>2, <2>4 DEF Inside, HInv, AloneInv, Frame
  <2>14. ReceiptInv'
    BY <1>1, <2>2, ReceiptsKeep
  <2>15. QED
    BY <2>2, <2>3, <2>4, <2>12, <2>13, <2>14, Assemble
<1>4. QED
  BY <1>2, <1>3

\* The content of a number of changes.
LEMMA Parity ==
  ASSUME NEW n \in Nat
  PROVE  Content(n) \in {0, 1}
  BY DEF Content

\* One more member in one of a family of sets.
LEMMA OneMore ==
  ASSUME NEW T, NEW u \in [Sessions -> SUBSET T], NEW s \in Sessions, NEW x \in T
  PROVE  [u EXCEPT ![s] = @ \cup {x}] \in [Sessions -> SUBSET T]
  OBVIOUS

\* The end of a copy: it is of the fingerprinted fixtures, unless these were changed.
LEMMA EndCopyKeeps ==
  ASSUME HInv, NEW s \in Sessions, EndCopy(s)
  PROVE  HInv'
<1> USE DEF EndCopy, inputs, directory
<1>1. pc[s] = "copying" /\ pc[s] \in Working /\ kind' = kind /\ Advance(s) /\ Inside(s)
  BY DEF Working, Inside
<1>2. /\ at'[s] = at[s] + 1 /\ at'[s] \in Nat /\ at'[s] # 1 /\ kind[s] \in Kinds
      /\ at[s] \in DOMAIN Plan[kind[s]] /\ Inside(s)'
      /\ pc'[s] \in {"step", "recheck"} /\ PlaceInv(s)'
      /\ at' \in [Sessions -> Nat \ {0}] /\ pc' \in [Sessions -> Steps]
  BY <1>1, Advances
<1> DEFINE c == IF result[s].from = fixtures THEN Content(fixtures) ELSE Mixed
<1>3. c \in {0, 1, Mixed} /\ used' = [used EXCEPT ![s] = @ \cup {c}]
  BY Parity DEF HInv, Shape
<1>4. Frame(s)
  BY <1>2 DEF Frame, HInv, Shape, Advance, Goto
<1>5. Shape'
  <2>1. used' \in [Sessions -> SUBSET {0, 1, Mixed}]
    <3> DEFINE T == {0, 1, Mixed}
    <3>1. used \in [Sessions -> SUBSET T] /\ c \in T
      BY <1>3 DEF HInv, Shape
    <3> HIDE DEF T, c
    <3>2. [used EXCEPT ![s] = @ \cup {c}] \in [Sessions -> SUBSET T]
      BY <3>1, OneMore
    <3>3. QED
      BY <1>3, <3>2 DEF T
  <2> HIDE DEF c
  <2>2. QED
    BY <1>2, <2>1 DEF HInv, Shape
<1>6. FaultInv(s)'
  BY <1>1, <1>2 DEF HInv, FaultInv, Closing
<1>7. LogInv(s)'
  <2> SUFFICES ASSUME kind[s] = "acceptance", ~tampered
               PROVE  Holding(log, s, at[s])' /\ ids'[s] = IdsOf(log')
    BY <1>1, <1>2 DEF LogInv, Closing
  <2>1. Holding(log, s, at[s]) /\ ids[s] = IdsOf(log)
    BY <1>1 DEF HInv, LogInv
  <2>2. ~Plan[kind[s]][at[s]].logged
    BY <1>1, <1>2, PlanFacts DEF HInv, PlaceInv, Step, Calls
  <2>3. Holding(log, s, at[s] + 1)
    BY <1>2, <2>1, <2>2, HoldingStays DEF HInv, Shape
  <2>4. QED
    BY <1>1, <1>2, <2>1, <2>3 DEF Holding
<1>8. UsedInv(s)'
  <2>1. /\ taken[s].fixtures <= fixtures /\ taken[s].fixtures \in Nat /\ fixtures \in Nat
        /\ used[s] \subseteq {Content(taken[s].fixtures)} \/ fixtures > taken[s].fixtures
        /\ result[s].from \in taken[s].fixtures .. fixtures
    BY <1>1 DEF HInv, UsedInv, Shape, Taken
  <2>2. used'[s] = used[s] \cup {c}
    BY <1>3 DEF HInv, Shape
  <2>3. c = Content(taken[s].fixtures) \/ fixtures > taken[s].fixtures
    <3>1. CASE fixtures = taken[s].fixtures
      BY <2>1, <3>1
    <3>2. CASE fixtures # taken[s].fixtures
      BY <2>1, <3>2
    <3>3. QED
      BY <3>1, <3>2
  <2> HIDE DEF c
  <2>4. QED
    BY <1>2, <2>1, <2>2, <2>3 DEF UsedInv
<1>9. PassInv(s)'
  BY <1>1 DEF HInv, PassInv, Closing
<1>10. Own(s)'
  BY <1>2, <1>6, <1>7, <1>8, <1>9 DEF Own
<1>11. ReceiptInv'
  BY <1>4, ReceiptsKeep
<1>12. 1 \in copies'[kind[s]]
  BY <1>1 DEF HInv, AloneInv
<1>13. QED
  BY <1>1, <1>2, <1>4, <1>5, <1>10, <1>11, <1>12, Assemble

----------------------------------------------------------------------------
(* The calls.                                                              *)

\* A comparison of the copied pack.
LEMMA CompareKeeps ==
  ASSUME HInv, NEW s \in Sessions, Compare(s)
  PROVE  HInv'
<1> USE DEF inputs, directory
<1>1. /\ pc[s] = "step" /\ pc[s] \in Working /\ Step(s).call = "compare" /\ kind' = kind
      /\ fixtures' = fixtures /\ artifact' = artifact /\ copies' = copies /\ log' = log /\ tampered' = tampered
      /\ files' = files /\ status' = status /\ taken' = taken /\ rechecked' = rechecked
  BY DEF Compare, Working, memory
<1>2. PICK kept \in BOOLEAN :
        /\ IF kept THEN Advance(s) /\ UNCHANGED memory
           ELSE Fail(s) /\ UNCHANGED <<taken, status, rechecked>>
        /\ faults' = [faults EXCEPT ![s] = @ \/ ~kept]
  BY DEF Compare
<1>3. ReceiptInv' \/ ~Frame(s)
  BY <1>1, ReceiptsKeep
<1>4. faults' \in [Sessions -> BOOLEAN] /\ \A t \in Sessions \ {s} : faults'[t] = faults[t]
  BY <1>2 DEF HInv, Shape
<1>5. CASE ~kept
  <2>1. Fail(s)
    BY <1>2, <1>5
  <2>2. Own(s)'
    BY <1>1, <2>1, FailKeeps
  <2>3. Frame(s)
    BY <1>1, <1>4, <2>1, FailShape DEF Frame, HInv
  <2>4. Shape'
    BY <1>1, <1>4, <2>1, FailShape DEF HInv, Shape
  <2>5. pc'[s] = "finish" /\ at'[s] = 1
    BY <2>1, FailShape DEF HInv
  <2>6. QED
    BY <1>3, <2>2, <2>3, <2>4, <2>5, Assemble DEF Inside
<1>6. CASE kept
  <2>1. Advance(s) /\ UNCHANGED memory /\ faults' = faults
    <3>1. faults'[s] = faults[s]
      BY <1>2, <1>6 DEF HInv, Shape
    <3>2. QED
      BY <1>2, <1>4, <1>6, <3>1 DEF HInv, Shape
  <2>2. /\ at'[s] = at[s] + 1 /\ at'[s] \in Nat /\ at'[s] # 1 /\ kind[s] \in Kinds
        /\ at[s] \in DOMAIN Plan[kind[s]] /\ Inside(s)'
        /\ pc'[s] \in {"step", "recheck"} /\ PlaceInv(s)'
        /\ at' \in [Sessions -> Nat \ {0}] /\ pc' \in [Sessions -> Steps]
    BY <1>1, <2>1, Advances
  <2>3. Inside(s) /\ at[s] # 1
    BY <1>1, <2>2, PlanFacts DEF Inside, Step
  <2>4. Frame(s)
    BY <1>1, <2>1, <2>2 DEF Frame, HInv, Shape, Advance, Goto, memory
  <2>5. Shape'
    BY <1>1, <2>1, <2>2 DEF HInv, Shape, memory
  <2>6. FaultInv(s)'
    BY <1>1, <2>1, <2>2 DEF HInv, FaultInv, Closing
  <2>7. LogInv(s)'
    <3> SUFFICES ASSUME kind[s] = "acceptance", ~tampered
                 PROVE  Holding(log, s, at[s])' /\ ids'[s] = IdsOf(log')
      BY <1>1, <2>2 DEF LogInv, Closing
    <3>1. Holding(log, s, at[s]) /\ ids[s] = IdsOf(log)
      BY <1>1, <2>3 DEF HInv, LogInv
    <3>2. ~Plan[kind[s]][at[s]].logged
      BY <1>1, <2>2, PlanFacts DEF Step, Calls
    <3>3. Holding(log, s, at[s] + 1)
      BY <2>2, <3>1, <3>2, HoldingStays DEF HInv, Shape
    <3>4. QED
      BY <1>1, <2>1, <2>2, <3>1, <3>3 DEF Holding, memory
  <2>8. UsedInv(s)'
    BY <1>1, <2>1, <2>2, <2>3 DEF HInv, UsedInv, memory
  <2>9. PassInv(s)'
    BY <1>1 DEF HInv, PassInv, Closing
  <2>10. Own(s)'
    BY <2>2, <2>6, <2>7, <2>8, <2>9 DEF Own
  <2>11. 1 \in copies'[kind[s]]
    BY <1>1, <2>3 DEF HInv, AloneInv
  <2>12. QED
    BY <1>3, <2>2, <2>3, <2>4, <2>5, <2>10, <2>11, Assemble
<1>7. QED
  BY <1>5, <1>6

\* A call reads the log first.
LEMMA CallKeeps ==
  ASSUME HInv, NEW s \in Sessions, Call(s)
  PROVE  HInv'
<1> USE DEF Call, Goto, inputs, directory
<1>1. pc[s] = "step" /\ pc[s] \in Working /\ Step(s).call \in Calls /\ kind' = kind
  BY DEF Working
<1>2. kind[s] \in Kinds /\ at[s] \in DOMAIN Plan[kind[s]] /\ at'[s] = at[s]
  BY <1>1 DEF HInv, Shape, PlaceInv
<1>3. at[s] # 1 /\ Inside(s)
  BY <1>1, <1>2, PlanFacts DEF Step, Calls, Inside
<1>4. pc'[s] = "running" /\ previous'[s] = IF Step(s).logged THEN log ELSE <<>>
  BY DEF HInv, Shape
<1>5. Frame(s)
  BY DEF Frame, HInv, Shape
<1>6. Shape'
  <2>1. previous' \in [Sessions -> Seq(Runs)] /\ pc' \in [Sessions -> Steps]
    BY EmptySeq DEF HInv, Shape, Steps, Working
  <2>2. QED
    BY <2>1 DEF HInv, Shape
<1>7. Step(s)' = Step(s)
  BY DEF Step
<1>8. PlaceInv(s)'
  BY <1>1, <1>2, <1>4, <1>7 DEF PlaceInv, Working, Closing
<1>9. FaultInv(s)'
  BY <1>1, <1>4 DEF HInv, FaultInv, Closing
<1>10. LogInv(s)'
  <2> SUFFICES ASSUME kind[s] = "acceptance", ~tampered
               PROVE  /\ Holding(log, s, at[s])' /\ ids'[s] = IdsOf(log')
                      /\ Step(s).logged => previous'[s] = log'
    BY <1>1, <1>4, <1>7 DEF LogInv, Closing
  <2>1. Holding(log, s, at[s]) /\ ids[s] = IdsOf(log)
    BY <1>1, <1>3 DEF HInv, LogInv
  <2>2. QED
    BY <1>4, <2>1 DEF Holding
<1>11. UsedInv(s)'
  BY <1>1, <1>4 DEF HInv, UsedInv, Working
<1>12. PassInv(s)'
  BY <1>1 DEF HInv, PassInv, Closing
<1>13. Own(s)'
  BY <1>8, <1>9, <1>10, <1>11, <1>12 DEF Own
<1>14. ReceiptInv'
  BY <1>5, ReceiptsKeep
<1>15. 1 \in copies'[kind[s]]
  BY <1>3 DEF HInv, AloneInv
<1>16. QED
  BY <1>3, <1>4, <1>5, <1>6, <1>13, <1>14, <1>15, Assemble

\* A run under an identifier of its own.
LEMMA RunType ==
  ASSUME NEW id \in Sessions \X Nat
  PROVE  Run(id) \in Runs
  BY DEF Run, Runs

\* Logs of a call that is to log, of the log as it is.
LEMMA LogsAreAfter ==
  ASSUME NEW s, kind[s] = "acceptance", Step(s).logged
  PROVE  Logs(s) = After(log, <<s, at[s]>>)
  BY DEF Logs, After, Added, IdsOf, RightLog

\* What a call may leave is a log.
LEMMA AfterIsLog ==
  ASSUME NEW l \in Seq(Runs), NEW id \in Sessions \X Nat, NEW m \in After(l, id)
  PROVE  m \in Seq(Runs)
<1>1. <<Run(id)>> \in Seq(Runs) /\ Append(l, Run(id)) \in Seq(Runs)
  BY RunType, AppendProperties
<1>2. ASSUME NEW r \in Added(l, id)
      PROVE  r \in Runs
  <2>1. \A j \in DOMAIN l : l[j].id \in Sessions \X Nat
    <3>1. \A j \in DOMAIN l : l[j] \in Runs
      BY ElementOfSeq, LenProperties
    <3>2. QED
      BY <3>1 DEF Runs
  <2>2. QED
    BY <2>1 DEF Runs, Added, IdsOf
<1>3. \A r \in Added(l, id) : Append(l, r) \in Seq(Runs) /\ Append(Append(l, Run(id)), r) \in Seq(Runs)
  BY <1>1, <1>2, AppendProperties
<1>4. QED
  BY <1>1, <1>3 DEF After

\* The executable does anything: whether that is a fault is recorded as it is done.
LEMMA BehaveKeeps ==
  ASSUME HInv, NEW s \in Sessions, Behave(s)
  PROVE  HInv'
<1> USE DEF Goto, inputs, directory
<1>1. /\ pc[s] = "running" /\ pc[s] \in Working /\ kind' = kind /\ Goto(s, "judge")
      /\ UNCHANGED <<inputs, workdir, files, at, taken, used, previous, ids, status, rechecked>>
  BY DEF Behave, Working
<1>2. PICK b \in Behaviours(Step(s).call), l \in Logs(s) :
          /\ result' = [result EXCEPT ![s] = b]
          /\ copies' = IF b.output = "absent" THEN copies
                       ELSE [copies EXCEPT ![kind[s]] = @ \cup {at[s]}]
          /\ log' = l
          /\ tampered' = (tampered \/ (~Step(s).logged /\ l # log))
          /\ faults' = [faults EXCEPT ![s] =
                           \/ @ \/ b # Right(Step(s).call)
                           \/ Step(s).logged /\ ~tampered /\ l # RightLog(<<s, at[s]>>)]
  BY DEF Behave
<1>3. /\ kind[s] \in Kinds /\ at[s] \in DOMAIN Plan[kind[s]] /\ at[s] \in Nat
      /\ Step(s).call \in Calls /\ ~faults[s] /\ Step(s).logged \in BOOLEAN
  BY <1>1, PlanFacts DEF HInv, Shape, PlaceInv, FaultInv, Closing, Step
<1>4. at[s] # 1 /\ Inside(s) /\ at'[s] = at[s]
  BY <1>1, <1>3, PlanFacts DEF Step, Calls, Inside
<1>5. Step(s).logged => kind[s] = "acceptance"
  BY <1>1, LoggedInside
<1>6. pc'[s] = "judge" /\ pc' \in [Sessions -> Steps] /\ result'[s] = b /\ Step(s)' = Step(s)
  BY <1>1, <1>2 DEF HInv, Shape, Steps, Working, Step
<1>7. /\ copies' \in [Kinds -> SUBSET Nat]
      /\ \A k \in Kinds : copies[k] \subseteq copies'[k]
      /\ b.output # "absent" => at[s] \in copies'[kind[s]]
  BY <1>2, <1>3 DEF HInv, Shape
<1>8. /\ log' \in Seq(Runs) /\ tampered' \in BOOLEAN
      /\ kind[s] # "acceptance" => log' = log /\ tampered' = tampered
      /\ Step(s).logged => log' \in After(log, <<s, at[s]>>) /\ tampered' = tampered
      /\ ~Step(s).logged /\ ~tampered' => log' = log
      /\ ~tampered' => ~tampered
      /\ faults' \in [Sessions -> BOOLEAN]
      /\ \A t \in Sessions \ {s} : faults'[t] = faults[t]
      /\ faults'[s] <=> \/ b # Right(Step(s).call)
                        \/ Step(s).logged /\ ~tampered /\ log' # Append(log, Run(<<s, at[s]>>))
  <2> DEFINE id == <<s, at[s]>>
             wrong == b # Right(Step(s).call)
             astray == Step(s).logged /\ ~tampered /\ l # RightLog(id)
  <2>1. /\ id \in Sessions \X Nat /\ log \in Seq(Runs) /\ faults \in [Sessions -> BOOLEAN]
        /\ tampered \in BOOLEAN
    BY <1>3 DEF HInv, Shape
  <2>2. faults' = [faults EXCEPT ![s] = faults[s] \/ wrong \/ astray]
    BY <1>2
  <2>3. l \in Seq(Runs) /\ (Step(s).logged => l \in After(log, id))
        /\ (kind[s] # "acceptance" => l = log)
    <3>1. CASE Step(s).logged
      BY <1>5, <2>1, <3>1, LogsAreAfter, AfterIsLog
    <3>2. CASE ~Step(s).logged
      <4>1. l \in {log, <<>>, RightLog(id)} /\ (kind[s] # "acceptance" => l = log)
        BY <1>3, <3>2 DEF Logs, Kinds
      <4>2. RightLog(id) \in Seq(Runs)
        BY <2>1, RunType, AppendProperties DEF RightLog
      <4>3. QED
        BY <2>1, <3>2, <4>1, <4>2, EmptySeq
    <3>3. QED
      BY <3>1, <3>2
  <2>4. /\ faults' \in [Sessions -> BOOLEAN] /\ (faults'[s] <=> wrong \/ astray)
        /\ \A t \in Sessions \ {s} : faults'[t] = faults[t]
    <3> HIDE DEF wrong, astray
    <3>1. (faults[s] \/ wrong \/ astray) \in BOOLEAN
      BY Zenon
    <3>2. QED
      BY <1>3, <2>1, <2>2, <3>1
  <2>5. tampered' = (tampered \/ (~Step(s).logged /\ l # log)) /\ log' = l
    BY <1>2
  <2>6. QED
    BY <1>5, <2>1, <2>3, <2>4, <2>5 DEF RightLog
<1>9. Frame(s)
  BY <1>1, <1>2, <1>4, <1>5, <1>7, <1>8 DEF Frame, HInv, Shape
<1>10. Shape'
  BY <1>1, <1>2, <1>6, <1>7, <1>8 DEF HInv, Shape
<1>11. PlaceInv(s)'
  BY <1>1, <1>3, <1>4, <1>6 DEF PlaceInv, Working, Closing
<1>12. previous'[s] = previous[s] /\ (Step(s).logged /\ ~tampered => previous[s] = log)
  BY <1>1, <1>4, <1>5 DEF HInv, LogInv
<1>13. FaultInv(s)'
  BY <1>1, <1>4, <1>6, <1>7, <1>8, <1>12 DEF FaultInv, Closing
<1>14. LogInv(s)'
  <2> SUFFICES ASSUME kind[s] = "acceptance", ~tampered'
               PROVE  IF Step(s).logged
                      THEN /\ Holding(previous[s], s, at[s])' /\ ids'[s] = IdsOf(previous'[s])
                           /\ log' \in After(previous'[s], <<s, at'[s]>>)
                      ELSE Holding(log, s, at[s])' /\ ids'[s] = IdsOf(log')
    BY <1>1, <1>6 DEF LogInv, Closing
  <2>1. Holding(log, s, at[s]) /\ ids[s] = IdsOf(log) /\ ~tampered
    BY <1>1, <1>4, <1>8 DEF HInv, LogInv
  <2>2. QED
    BY <1>1, <1>8, <1>12, <2>1 DEF Holding
<1>15. UsedInv(s)'
  BY <1>1, <1>6 DEF HInv, UsedInv, Working
<1>16. PassInv(s)'
  BY <1>1 DEF HInv, PassInv, Closing
<1>17. Own(s)'
  BY <1>11, <1>13, <1>14, <1>15, <1>16 DEF Own
<1>18. ReceiptInv'
  BY <1>1, <1>9, ReceiptsKeep
<1>19. 1 \in copies'[kind[s]]
  BY <1>3, <1>4, <1>7 DEF HInv, AloneInv
<1>20. QED
  BY <1>4, <1>6, <1>9, <1>10, <1>17, <1>18, <1>19, Assemble

\* The executable hangs.
LEMMA HangKeeps ==
  ASSUME HInv, NEW s \in Sessions, Hang(s)
  PROVE  HInv'
<1> USE DEF Hang, Goto, inputs, directory, memory
<1>1. pc[s] = "running" /\ pc'[s] = "hung" /\ kind[s] \in Kinds
  BY DEF HInv, Shape
<1>2. Inside(s) /\ at[s] # 1
  <2>1. at[s] # 1
    BY <1>1, PlanFacts DEF HInv, PlaceInv, Step, Calls, Working
  <2>2. QED
    BY <2>1 DEF Inside
<1>3. Frame(s)
  BY DEF Frame, HInv, Shape
<1>4. Shape'
  BY DEF HInv, Shape, Steps, Working
<1>5. Step(s)' = Step(s)
  BY DEF Step
<1>6. Own(s)'
  <2>1. PlaceInv(s)'
    BY <1>1, <1>5 DEF HInv, PlaceInv, Working, Closing
  <2>2. FaultInv(s)'
    BY <1>1 DEF FaultInv, Closing
  <2>3. LogInv(s)'
    BY <1>1 DEF LogInv, Closing
  <2>4. UsedInv(s)'
    BY <1>1 DEF HInv, UsedInv, Working
  <2>5. PassInv(s)'
    BY <1>1 DEF HInv, PassInv, Closing
  <2>6. QED
    BY <2>1, <2>2, <2>3, <2>4, <2>5 DEF Own
<1>7. ReceiptInv'
  BY <1>3, ReceiptsKeep
<1>8. QED
  BY <1>1, <1>2, <1>3, <1>4, <1>6, <1>7, Assemble DEF HInv, AloneInv

\* It is killed, and the session closes.
LEMMA TimeOutKeeps ==
  ASSUME HInv, NEW s \in Sessions, TimeOut(s)
  PROVE  HInv'
<1> USE DEF inputs, directory
<1>1. /\ pc[s] \in Working /\ Fail(s) /\ UNCHANGED <<inputs, directory, taken, status, rechecked, faults>>
  BY DEF TimeOut, Working
<1>2. Own(s)'
  BY <1>1, FailKeeps
<1>3. Frame(s)
  BY <1>1, FailShape DEF Frame, HInv
<1>4. Shape'
  BY <1>1, FailShape DEF HInv, Shape
<1>5. ~Inside(s)' /\ pc'[s] = "finish"
  BY <1>1, FailShape DEF HInv, Inside
<1>6. ReceiptInv'
  BY <1>1, <1>3, ReceiptsKeep
<1>7. QED
  BY <1>2, <1>3, <1>4, <1>5, <1>6, Assemble

\* What check_log and the other looks let pass has no fault.
LEMMA HoldsExactly ==
  ASSUME HInv, NEW s \in Sessions, pc[s] = "judge", Holds(s)
  PROVE  /\ ~faults[s]
         /\ Step(s).logged /\ ~tampered => log = Append(previous[s], Run(<<s, at[s]>>))
<1> DEFINE call == Step(s).call
           b == result[s]
           id == <<s, at[s]>>
           l == previous[s]
<1>1. /\ b \in Behaviours(call) /\ (b.output # "absent" => at[s] \in copies[kind[s]])
      /\ faults[s] <=> \/ b # Right(call)
                       \/ Step(s).logged /\ ~tampered /\ log # Append(l, Run(id))
  BY DEF HInv, FaultInv
<1>2. call \in Calls
  BY DEF HInv, PlaceInv
<1>3. b = Right(call)
  <2>1. b.exit = IF Succeeds(call) THEN "ok" ELSE "failed"
    BY <1>1 DEF Holds, Behaviours
  <2>2. b.answer = "right" /\ b.subject = "kept"
    BY DEF Holds
  <2>3. b.output = IF call \in {"publish", "seal"} THEN "complete" ELSE "absent"
    BY <1>1, <1>2 DEF Holds, Behaviours, Calls
  <2>4. b = [exit |-> b.exit, answer |-> b.answer, output |-> b.output, subject |-> b.subject]
    BY <1>1 DEF Behaviours
  <2>5. QED
    BY <2>1, <2>2, <2>3, <2>4 DEF Right
<1>4. ASSUME Step(s).logged, ~tampered
      PROVE  log = Append(l, Run(id))
  <2>1. LogHolds(s)
    BY <1>4 DEF Holds
  <2>2. kind[s] = "acceptance" /\ Inside(s)
    BY <1>4, LoggedInside DEF Working
  <2>3. ids[s] = IdsOf(l) /\ log \in After(l, id)
    BY <1>4, <2>2 DEF HInv, LogInv
  <2>4. l \in Seq(Runs) /\ Len(l) \in Nat
    BY DEF HInv, Shape
  <2>5. log # l
    BY <2>1, <2>4 DEF LogHolds
  <2>6. ASSUME log = <<Run(id)>>
        PROVE  log = Append(l, Run(id))
    <3>1. Len(log) = 1
      BY <2>6
    <3>2. Len(log) = Len(l) + 1
      BY <2>1 DEF LogHolds
    <3>3. Len(l) = 0
      <4>1. Len(l) \in Nat
        BY <2>4
      <4>2. 1 = Len(l) + 1
        BY <3>1, <3>2
      <4> HIDE DEF l, id
      <4>3. QED
        BY <4>1, <4>2
    <3>4. l = <<>>
      BY <2>4, <3>3, EmptySeq
    <3>5. QED
      BY <2>6, <3>4
  <2>7. ASSUME NEW r \in Added(l, id),
               log = Append(l, r)
        PROVE  log = Append(l, Run(id))
    <3>1. Len(log) = Len(l) + 1 /\ log[Len(l) + 1] = r
      BY <2>4, <2>7
    <3>2. r.life = "good" /\ r.id \notin IdsOf(l)
      BY <2>1, <2>3, <3>1 DEF LogHolds
    <3>3. r = Run(id)
      BY <3>2 DEF Added, Run
    <3>4. QED
      BY <2>7, <3>3
  <2>8. ASSUME NEW r \in Added(l, id), log = Append(Append(l, Run(id)), r)
        PROVE  FALSE
    <3>1. Len(log) = Len(l) + 2
      BY <2>4, <2>8
    <3>2. Len(log) = Len(l) + 1
      BY <2>1 DEF LogHolds
    <3>3. QED
      BY <2>4, <3>1, <3>2
  <2>9. \/ log = l \/ log = <<Run(id)>>
        \/ \E r \in Added(l, id) : log = Append(l, r)
        \/ \E r \in Added(l, id) : log = Append(Append(l, Run(id)), r)
    BY <2>3 DEF After
  <2>10. QED
    BY <2>5, <2>6, <2>7, <2>8, <2>9
<1>5. QED
  BY <1>1, <1>3, <1>4

\* A judged call: the session goes on only if there was no fault.
LEMMA JudgeKeeps ==
  ASSUME HInv, NEW s \in Sessions, Judge(s)
  PROVE  HInv'
<1> USE DEF inputs, directory
<1>1. /\ pc[s] = "judge" /\ pc[s] \in Working
      /\ UNCHANGED <<inputs, directory, taken, status, rechecked, faults>>
  BY DEF Judge, Working
<1>2. CASE ~Holds(s)
  <2>1. Fail(s)
    BY <1>2 DEF Judge
  <2>2. Own(s)'
    BY <1>1, <2>1, FailKeeps
  <2>3. Frame(s)
    BY <1>1, <2>1, FailShape DEF Frame, HInv
  <2>4. Shape'
    BY <1>1, <2>1, FailShape DEF HInv, Shape
  <2>5. ~Inside(s)' /\ pc'[s] = "finish"
    BY <2>1, FailShape DEF HInv, Inside
  <2>6. ReceiptInv'
    BY <1>1, <2>3, ReceiptsKeep
  <2>7. QED
    BY <2>2, <2>3, <2>4, <2>5, <2>6, Assemble
<1>3. CASE Holds(s)
  <2>1. /\ Advance(s)
        /\ ids' = [ids EXCEPT ![s] = IF Step(s).logged THEN @ \cup {log[Len(log)].id} ELSE @]
        /\ result' = [result EXCEPT ![s] = Nothing]
        /\ previous' = [previous EXCEPT ![s] = <<>>]
        /\ used' = used
    BY <1>3 DEF Judge
  <2>2. /\ at'[s] = at[s] + 1 /\ at'[s] \in Nat /\ at'[s] # 1 /\ kind[s] \in Kinds
        /\ at[s] \in DOMAIN Plan[kind[s]] /\ Inside(s)'
        /\ pc'[s] \in {"step", "recheck"} /\ PlaceInv(s)'
        /\ at' \in [Sessions -> Nat \ {0}] /\ pc' \in [Sessions -> Steps]
    BY <1>1, <2>1, Advances
  <2>3. at[s] # 1 /\ Inside(s)
    BY <1>1, <2>2, PlanFacts DEF HInv, PlaceInv, Step, Calls, Inside
  <2>4. /\ ~faults[s]
        /\ Step(s).logged /\ ~tampered => log = Append(previous[s], Run(<<s, at[s]>>))
    BY <1>1, <1>3, HoldsExactly
  <2>5. Frame(s)
    BY <1>1, <2>1, <2>2 DEF Frame, HInv, Shape, Advance, Goto
  <2>6. previous[s] \in Seq(Runs) /\ log \in Seq(Runs)
    BY DEF HInv, Shape
  <2>7. ids' \in [Sessions -> SUBSET (Sessions \X Nat)]
        /\ (Step(s).logged /\ ~tampered => ids'[s] = ids[s] \cup {<<s, at[s]>>})
        /\ (~Step(s).logged => ids'[s] = ids[s])
    <3>1. CASE Step(s).logged
      <4> DEFINE x == log[Len(log)].id
      <4>1. x \in Sessions \X Nat /\ (~tampered => x = <<s, at[s]>>)
        <5>1. Len(log) = Len(previous[s]) + 1
          BY <1>3, <3>1 DEF Holds, LogHolds
        <5>2. Len(log) \in 1 .. Len(log)
          BY <2>6, <5>1
        <5>3. log[Len(log)] \in Runs
          BY <2>6, <5>2, ElementOfSeq
        <5>4. ~tampered => x = <<s, at[s]>>
          BY <2>4, <2>6, <3>1 DEF Run
        <5>5. QED
          BY <5>3, <5>4 DEF Runs
      <4>2. ids \in [Sessions -> SUBSET (Sessions \X Nat)]
        BY DEF HInv, Shape
      <4>3. ids' = [ids EXCEPT ![s] = @ \cup {x}]
        BY <2>1, <3>1
      <4> HIDE DEF x
      <4>4. ids' \in [Sessions -> SUBSET (Sessions \X Nat)]
        BY <4>1, <4>2, <4>3, OneMore
      <4>5. QED
        BY <3>1, <4>1, <4>2, <4>3, <4>4
    <3>2. CASE ~Step(s).logged
      BY <2>1, <3>2 DEF HInv, Shape
    <3>3. QED
      BY <3>1, <3>2
  <2>8. Shape'
    BY <1>1, <2>1, <2>2, <2>7, EmptySeq DEF HInv, Shape
  <2>9. FaultInv(s)'
    BY <1>1, <2>2, <2>4 DEF FaultInv, Closing
  <2>10. LogInv(s)'
    <3> SUFFICES ASSUME kind[s] = "acceptance", ~tampered
                 PROVE  Holding(log, s, at[s])' /\ ids'[s] = IdsOf(log')
      BY <1>1, <2>2 DEF LogInv, Closing
    <3>1. Holding(log, s, at[s] + 1) /\ ids'[s] = IdsOf(log)
      <4>1. CASE Step(s).logged
        <5>1. Holding(previous[s], s, at[s]) /\ ids[s] = IdsOf(previous[s])
          BY <1>1, <2>3, <4>1 DEF HInv, LogInv
        <5>2. Holding(log, s, at[s] + 1) /\ IdsOf(log) = IdsOf(previous[s]) \cup {<<s, at[s]>>}
          <6> DEFINE p == previous[s]
                     n == at[s]
          <6>1. /\ p \in Seq(Runs) /\ log \in Seq(Runs) /\ n \in DOMAIN Plan[kind[s]]
                /\ Plan[kind[s]][n].logged /\ Holding(p, s, n) /\ kind[s] \in Kinds
                /\ log = Append(p, [id |-> <<s, n>>, life |-> "good"])
            BY <2>2, <2>4, <2>6, <4>1, <5>1 DEF Step, Run
          <6> HIDE DEF p, n
          <6>2. Holding(log, s, n + 1) /\ IdsOf(log) = IdsOf(p) \cup {<<s, n>>}
            BY <6>1, HoldingGrows
          <6>3. QED
            BY <6>2 DEF p, n
        <5>3. QED
          BY <2>7, <4>1, <5>1, <5>2
      <4>2. CASE ~Step(s).logged
        <5>1. Holding(log, s, at[s]) /\ ids[s] = IdsOf(log)
          BY <1>1, <2>3, <4>2 DEF HInv, LogInv
        <5>2. QED
          BY <2>2, <2>6, <2>7, <4>2, <5>1, HoldingStays DEF Step
      <4>3. QED
        BY <4>1, <4>2
    <3>2. QED
      BY <1>1, <2>2, <3>1 DEF Holding
  <2>11. UsedInv(s)'
    BY <1>1, <2>1, <2>2, <2>3 DEF HInv, UsedInv
  <2>12. PassInv(s)'
    BY <1>1 DEF HInv, PassInv, Closing
  <2>13. Own(s)'
    BY <2>2, <2>9, <2>10, <2>11, <2>12 DEF Own
  <2>14. ReceiptInv'
    BY <1>1, <2>5, ReceiptsKeep
  <2>15. QED
    BY <1>1, <2>2, <2>3, <2>5, <2>8, <2>13, <2>14, Assemble DEF HInv, AloneInv
<1>4. QED
  BY <1>2, <1>3

----------------------------------------------------------------------------
(* The end of a session, and what happens around it.                       *)

\* The fingerprints agree again only if nothing was changed, or changed back: of the
\* fixtures, at least twice.
LEMMA Reverted ==
  ASSUME NEW m \in Nat, NEW n \in Nat, m <= n, Content(n) = Content(m), n # m
  PROVE  n >= m + 2
<1>1. m % 2 \in {0, 1} /\ (m + 1) % 2 # m % 2
  OBVIOUS
<1>2. n # m + 1
  BY <1>1 DEF Content
<1>3. QED
  BY <1>2

\* The fingerprints are taken again and the verdict is given.
LEMMA RecheckKeeps ==
  ASSUME HInv, NEW s \in Sessions, Recheck(s)
  PROVE  HInv'
<1> USE DEF Recheck, Goto, inputs, directory
<1>1. /\ pc[s] = "recheck" /\ pc'[s] = "finish" /\ at'[s] = at[s] /\ kind[s] \in Kinds
      /\ at[s] = Len(Plan[kind[s]]) + 1 /\ at[s] # 1
  <2>1. pc[s] = "recheck" /\ pc'[s] = "finish" /\ at'[s] = at[s] /\ kind[s] \in Kinds
        /\ at[s] = Len(Plan[kind[s]]) + 1
    BY DEF HInv, Shape, PlaceInv
  <2>2. QED
    BY <2>1, PlanFacts
<1>2. Inside(s) /\ Inside(s)'
  BY <1>1 DEF Inside
<1>3. Frame(s)
  BY DEF Frame, HInv, Shape
<1>4. Shape'
  BY DEF HInv, Shape, Steps, Closing, Taken, Fingerprints
<1>5. Own(s)'
  <2>1. PlaceInv(s)'
    BY <1>1 DEF PlaceInv, Working, Closing
  <2>2. FaultInv(s)'
    BY <1>1 DEF HInv, FaultInv, Closing
  <2>3. LogInv(s)'
    <3>1. kind[s] = "acceptance" /\ ~tampered => Holding(log, s, at[s])
      BY <1>1, <1>2 DEF HInv, LogInv
    <3>2. kind[s] = "acceptance" /\ ~tampered => Holding(log, s, at[s])'
      BY <1>1, <3>1 DEF Holding
    <3>3. QED
      BY <1>1, <3>2 DEF LogInv, Closing
  <2>4. UsedInv(s)'
    BY <1>1 DEF UsedInv, Working
  <2>5. PassInv(s)'
    <3> SUFFICES ASSUME status'[s] = "passed" PROVE PassInv(s)'
      BY DEF PassInv
    <3>1. /\ Content(fixtures) = Content(taken[s].fixtures)
          /\ Content(artifact) = Content(taken[s].artifact)
          /\ rechecked'[s] = Fingerprints /\ taken'[s] = taken[s] /\ used'[s] = used[s]
      BY DEF HInv, Shape
    <3>2. rechecked'[s].fixtures = fixtures /\ rechecked'[s].artifact = artifact
      BY <3>1 DEF Fingerprints
    <3>3. /\ taken[s].fixtures \in Nat /\ fixtures \in Nat /\ taken[s].fixtures <= fixtures
          /\ used[s] \subseteq {Content(taken[s].fixtures)} \/ fixtures > taken[s].fixtures
          /\ used[s] # {}
      BY <1>1 DEF HInv, Shape, Taken, UsedInv
    <3>4. used[s] = {Content(taken[s].fixtures)} \/ fixtures >= taken[s].fixtures + 2
      <4>1. CASE fixtures = taken[s].fixtures
        BY <3>3, <4>1
      <4>2. CASE fixtures # taken[s].fixtures
        BY <3>1, <3>3, <4>2, Reverted
      <4>3. QED
        BY <4>1, <4>2
    <3>5. QED
      BY <1>1, <3>1, <3>2, <3>4 DEF PassInv, Closing
  <2>6. QED
    BY <2>1, <2>2, <2>3, <2>4, <2>5 DEF Own
<1>6. 1 \in copies'[kind[s]]
  BY <1>2 DEF HInv, AloneInv
<1>7. ReceiptInv'
  <2>1. status[s] # "passed"
    BY <1>1 DEF HInv, PassInv, Closing
  <2>2. QED
    BY <1>3, <2>1, ReceiptsKeep
<1>8. QED
  BY <1>1, <1>2, <1>3, <1>4, <1>5, <1>6, <1>7, Assemble

\* Of the steps after the verdict: the place, the log and the verdict stay.
LEMMA ClosingKeeps ==
  ASSUME HInv, NEW s \in Sessions, pc[s] \in Closing, NEW step \in Closing,
         Goto(s, step), UNCHANGED <<inputs, copies, log, tampered, at, memory, faults>>
  PROVE  /\ Frame(s) /\ Own(s)' /\ pc' \in [Sessions -> Steps]
         /\ Inside(s)' => 1 \in copies'[kind[s]] /\ Inside(s)
         /\ pc'[s] \notin {"start", "open", "step"}
<1> USE DEF Goto, inputs, memory
<1>1. pc'[s] = step /\ kind[s] \in Kinds /\ pc' \in [Sessions -> Steps]
  BY DEF HInv, Shape, Steps
<1>2. Frame(s)
  BY DEF Frame, HInv, Shape
<1>3. Inside(s)' => at[s] # 1 /\ Inside(s)
  BY <1>1 DEF Inside, Closing
<1>4. PlaceInv(s)'
  BY <1>1 DEF HInv, PlaceInv, Working, Closing
<1>5. FaultInv(s)'
  BY <1>1 DEF HInv, FaultInv, Closing
<1>6. LogInv(s)'
  <2>1. kind[s] = "acceptance" /\ Inside(s) /\ ~tampered => Holding(log, s, at[s])
    BY DEF HInv, LogInv
  <2>2. Holding(log, s, at[s])' <=> Holding(log, s, at[s])
    BY DEF Holding
  <2>3. QED
    BY <1>1, <1>3, <2>1, <2>2 DEF LogInv, Closing
<1>7. UsedInv(s)'
  BY <1>1 DEF UsedInv, Working, Closing
<1>8. PassInv(s)'
  BY <1>1 DEF HInv, PassInv
<1>9. QED
  BY <1>1, <1>2, <1>3, <1>4, <1>5, <1>6, <1>7, <1>8 DEF Own, Closing, HInv, AloneInv

\* The receipt is truncated.
LEMMA TruncateKeeps ==
  ASSUME HInv, NEW s \in Sessions, Truncate(s)
  PROVE  HInv'
<1> USE DEF Truncate
<1>1. pc[s] \in Closing /\ "write" \in Closing
  BY DEF Closing
<1>2. /\ Frame(s) /\ Own(s)' /\ pc' \in [Sessions -> Steps]
      /\ Inside(s)' => 1 \in copies'[kind[s]] /\ Inside(s)
      /\ pc'[s] \notin {"start", "open", "step"}
  BY <1>1, ClosingKeeps
<1>3. Shape'
  BY <1>2 DEF HInv, Shape, Torn, inputs, memory
<1>4. ReceiptInv'
  BY <1>2 DEF HInv, ReceiptInv, Torn, inputs, memory, Shape
<1>5. QED
  BY <1>2, <1>3, <1>4, Assemble

\* The receipt is written with the verdict of its session.
LEMMA WriteKeeps ==
  ASSUME HInv, NEW s \in Sessions, Write(s)
  PROVE  HInv'
<1> USE DEF Write
<1>1. pc[s] \in Closing /\ "ended" \in Closing
  BY DEF Closing
<1>2. /\ Frame(s) /\ Own(s)' /\ pc' \in [Sessions -> Steps]
      /\ Inside(s)' => 1 \in copies'[kind[s]] /\ Inside(s)
      /\ pc'[s] \notin {"start", "open", "step"}
  BY <1>1, ClosingKeeps
<1>3. Shape'
  BY <1>2 DEF HInv, Shape, inputs, memory
<1>4. ReceiptInv'
  <2>1. status' = status /\ kind' = kind /\ files \in [Kinds -> [by : Sessions \cup {"nobody"}, status : {"absent", "torn", "passed", "failed"}]]
    BY DEF inputs, memory, HInv, Shape
  <2>2. ASSUME NEW k \in Kinds, files'[k].status = "passed"
        PROVE  files'[k].by \in Sessions /\ kind[files'[k].by] = k /\ status[files'[k].by] = "passed"
    <3>1. CASE k = kind[s]
      BY <2>1, <2>2, <3>1
    <3>2. CASE k # kind[s]
      BY <2>1, <2>2, <3>2 DEF HInv, ReceiptInv
    <3>3. QED
      BY <3>1, <3>2
  <2>3. QED
    BY <2>1, <2>2 DEF ReceiptInv
<1>5. QED
  BY <1>2, <1>3, <1>4, Assemble

\* A session killed while it writes leaves a torn receipt.
LEMMA KillKeeps ==
  ASSUME HInv, NEW s \in Sessions, Kill(s)
  PROVE  HInv'
<1> USE DEF Kill
<1>1. pc[s] \in Closing /\ "killed" \in Closing
  BY DEF Closing
<1>2. /\ Frame(s) /\ Own(s)' /\ pc' \in [Sessions -> Steps]
      /\ Inside(s)' => 1 \in copies'[kind[s]] /\ Inside(s)
      /\ pc'[s] \notin {"start", "open", "step"}
  BY <1>1, ClosingKeeps DEF directory
<1>3. Shape'
  BY <1>2 DEF HInv, Shape, inputs, memory, directory
<1>4. ReceiptInv'
  BY <1>2, ReceiptsKeep DEF directory, memory
<1>5. QED
  BY <1>2, <1>3, <1>4, Assemble

\* Somebody changes the fixtures or the artifact.
LEMMA ChangeKeeps ==
  ASSUME HInv, Change
  PROVE  HInv'
<1> USE DEF Change, directory, memory
<1>1. fixtures' \in Nat /\ artifact' \in Nat /\ fixtures <= fixtures' /\ fixtures \in Nat
  BY DEF HInv, Shape
<1>2. Shape'
  BY <1>1 DEF HInv, Shape
<1>3. AloneInv' /\ EmptyInv' /\ ReceiptInv'
  BY DEF HInv, AloneInv, EmptyInv, ReceiptInv, Inside
<1>4. ASSUME NEW s \in Sessions
      PROVE  Own(s)'
  <2>1. PlaceInv(s)' /\ FaultInv(s)' /\ PassInv(s)'
    BY DEF HInv, PlaceInv, FaultInv, PassInv, Step
  <2>2. LogInv(s)'
    <3>1. /\ Holding(log, s, at[s])' <=> Holding(log, s, at[s])
          /\ Holding(previous[s], s, at[s])' <=> Holding(previous[s], s, at[s])
      BY DEF Holding
    <3>2. Step(s)' = Step(s) /\ Inside(s)' = Inside(s)
      BY DEF Step, Inside
    <3>3. QED
      BY <3>1, <3>2 DEF HInv, LogInv
  <2>3. UsedInv(s)'
    <3>1. UsedInv(s) /\ taken[s].fixtures \in Nat
      BY DEF HInv, Shape, Taken
    <3>2. QED
      BY <1>1, <3>1 DEF UsedInv
  <2>4. QED
    BY <2>1, <2>2, <2>3 DEF Own
<1>5. QED
  BY <1>2, <1>3, <1>4 DEF HInv, Own

----------------------------------------------------------------------------
(* The theorems.                                                           *)

\* The invariant holds at first.
LEMMA HarnessStarts == Init => HInv
<1> SUFFICES ASSUME Init PROVE HInv
  OBVIOUS
<1>1. kind \in [Sessions -> Kinds] /\ <<>> \in Seq(Runs)
  BY SessionAssumption, EmptySeq DEF Init
<1>2. Shape
  <2>1. tampered \in BOOLEAN
    BY DEF Init
  <2>2. QED
    BY <1>1, <2>1 DEF Init, Shape, Steps, Taken, Fingerprints, Absent
<1>3. \A s \in Sessions : pc[s] = "start" /\ at[s] = 1 /\ ~Inside(s) /\ status[s] = "failed"
        /\ ~faults[s] /\ ids[s] = {} /\ used[s] = {}
  BY DEF Init, Inside
<1>4. AloneInv /\ EmptyInv
  BY <1>3 DEF Init, AloneInv, EmptyInv
<1>5. ReceiptInv
  BY DEF Init, ReceiptInv, Absent
<1>6. ASSUME NEW s \in Sessions
      PROVE  PlaceInv(s) /\ FaultInv(s) /\ LogInv(s) /\ UsedInv(s) /\ PassInv(s)
  BY <1>3 DEF PlaceInv, FaultInv, LogInv, UsedInv, PassInv, Working, Closing
<1>7. QED
  BY <1>2, <1>4, <1>5, <1>6 DEF HInv

\* Nothing changes if nothing happens.
LEMMA HarnessStutters == HInv /\ UNCHANGED vars => HInv'
<1> SUFFICES ASSUME HInv, UNCHANGED vars PROVE HInv'
  OBVIOUS
<1> USE DEF vars, inputs, directory, memory
<1>1. Shape' /\ AloneInv' /\ EmptyInv' /\ ReceiptInv'
  BY DEF HInv, Shape, AloneInv, EmptyInv, ReceiptInv, Inside
<1>2. ASSUME NEW s \in Sessions
      PROVE  PlaceInv(s)' /\ FaultInv(s)' /\ LogInv(s)' /\ UsedInv(s)' /\ PassInv(s)'
  <2>1. PlaceInv(s)' /\ FaultInv(s)' /\ UsedInv(s)' /\ PassInv(s)'
    BY DEF HInv, PlaceInv, FaultInv, UsedInv, PassInv, Step
  <2>2. /\ Holding(log, s, at[s])' <=> Holding(log, s, at[s])
        /\ Holding(previous[s], s, at[s])' <=> Holding(previous[s], s, at[s])
    BY DEF Holding
  <2>3. Step(s)' = Step(s) /\ Inside(s)' = Inside(s)
    BY DEF Step, Inside
  <2>4. LogInv(s)'
    BY <2>2, <2>3 DEF HInv, LogInv
  <2>5. QED
    BY <2>1, <2>4
<1>3. QED
  BY <1>1, <1>2 DEF HInv

\* Every step keeps it.
LEMMA HarnessStep == HInv /\ [Next]_vars => HInv'
<1> SUFFICES ASSUME HInv, Next PROVE HInv'
  BY HarnessStutters
<1>1. CASE Change
  BY <1>1, ChangeKeeps
<1>2. ASSUME NEW s \in Sessions, Kill(s)
      PROVE  HInv'
  BY <1>2, KillKeeps
<1>3. ASSUME NEW s \in Sessions, Proceed(s)
      PROVE  HInv'
  BY <1>3, CheckWorkdirKeeps, OpenKeeps, CopyKeeps, EndCopyKeeps, CompareKeeps, CallKeeps,
     BehaveKeeps, HangKeeps, TimeOutKeeps, JudgeKeeps, RecheckKeeps, TruncateKeeps, WriteKeeps
     DEF Proceed
<1>4. QED
  BY <1>1, <1>2, <1>3 DEF Next

\* The inductive invariant of the two scripts: at every moment each session of
\* check_installed_artifact.py and check_conformance.py is where its plan says, alone in
\* the directory once it made its first copy, with the log and the copies as they must be.
THEOREM SessionsInvariance == Spec => []HInv
<1>1. Init => HInv
  BY HarnessStarts
<1>2. HInv /\ [Next]_vars => HInv'
  BY HarnessStep
<1>3. QED
  BY <1>1, <1>2, PTL DEF Spec

\* At the end of its plan the log holds every logged call.
LEMMA EarnedFromInvariant == HInv => PassedIsEarned
<1> SUFFICES ASSUME HInv, NEW k \in Kinds, files[k].status = "passed"
             PROVE  LET s == files[k].by
                        reverted == rechecked[s].fixtures >= taken[s].fixtures + 2
                    IN  /\ at[s] = Len(Plan[k]) + 1 /\ ~faults[s]
                        /\ k = "acceptance" /\ ~tampered =>
                             /\ Len(log) = Cardinality(Logged(k))
                             /\ \A i \in DOMAIN log : log[i].life = "good" /\ log[i].id[1] = s
                             /\ \A i, j \in DOMAIN log : i < j => log[i].id[2] < log[j].id[2]
                        /\ Content(rechecked[s].artifact) = Content(taken[s].artifact)
                        /\ used[s] = {Content(taken[s].fixtures)} \/ reverted
  BY DEF PassedIsEarned
<1> DEFINE s == files[k].by
<1>1. s \in Sessions /\ kind[s] = k /\ status[s] = "passed"
  BY DEF HInv, ReceiptInv
<1> HIDE DEF s
<1>2. /\ pc[s] \in Closing /\ at[s] # 1
      /\ Content(rechecked[s].artifact) = Content(taken[s].artifact)
      /\ used[s] = {Content(taken[s].fixtures)} \/ rechecked[s].fixtures >= taken[s].fixtures + 2
  BY <1>1 DEF HInv, PassInv
<1>3. at[s] = Len(Plan[k]) + 1 /\ ~faults[s]
  BY <1>1, <1>2 DEF HInv, PlaceInv, FaultInv
<1>4. k = "acceptance" /\ ~tampered =>
        /\ Len(log) = Cardinality(Logged(k))
        /\ \A i \in DOMAIN log : log[i].life = "good" /\ log[i].id[1] = s
        /\ \A i, j \in DOMAIN log : i < j => log[i].id[2] < log[j].id[2]
  <2>1. k = "acceptance" /\ ~tampered => Holding(log, s, Len(Plan[k]) + 1)
    BY <1>1, <1>2, <1>3 DEF HInv, LogInv, Inside
  <2>2. QED
    BY <1>1, <2>1, AllLogged DEF Holding
<1>5. QED
  BY <1>2, <1>3, <1>4 DEF s

\* A receipt that says "passed" is earned, whatever the executable under test does, however
\* the fixtures and the artifact change and however sessions interleave, for every plan of
\* the scripts and any number of sessions.
THEOREM PassedReceiptsAreEarned == Spec => []PassedIsEarned
BY SessionsInvariance, EarnedFromInvariant, PTL
----------------------------------------------------------------------------
(* Sequences put end to end.                                               *)

\* Every nonempty set of naturals has a least member: induction, as the provers can use it.
LEMMA Least ==
  ASSUME NEW T, T \subseteq Nat, T # {}
  PROVE  \E m \in T : \A k \in T : m <= k
<1> DEFINE R == OpToRel(<, Nat)
<1>1. IsWellFoundedOn(R, Nat)
  BY NatLessThanWellFounded
<1>2. \E x \in T : \A y \in T : ~ (<<y, x>> \in R)
  BY <1>1, WFMin
<1>3. \A x, y \in Nat : <<y, x>> \in R <=> y < x
  BY DEF OpToRel
<1> HIDE DEF R
<1>4. PICK x \in T : \A y \in T : ~ (<<y, x>> \in R)
  BY <1>2
<1>5. \A y \in T : ~ (y < x)
  BY <1>3, <1>4
<1>6. QED
  BY <1>5

\* The function that FlattenSeq computes for the first n of the sequences ss.
Flattens(f, ss, n) == f = [i \in 1 .. n |-> IF i = 1 THEN ss[i] ELSE f[i - 1] \o ss[i]]

\* FlattenSeq is the last value of that function.
LEMMA FlattenUnfolds ==
  ASSUME NEW ss, Len(ss) # 0
  PROVE  FlattenSeq(ss) = (CHOOSE f : Flattens(f, ss, Len(ss)))[Len(ss)]
  BY DEF FlattenSeq, Flattens

\* Its values, one by one.
LEMMA FlattensAt ==
  ASSUME NEW f, NEW ss, NEW n \in Nat, Flattens(f, ss, n)
  PROVE  /\ DOMAIN f = 1 .. n
         /\ \A i \in 1 .. n : f[i] = IF i = 1 THEN ss[i] ELSE f[i - 1] \o ss[i]
<1> DEFINE e(i) == IF i = 1 THEN ss[i] ELSE f[i - 1] \o ss[i]
<1>1. f = [i \in 1 .. n |-> e(i)]
  BY DEF Flattens
<1> HIDE DEF e
<1>2. DOMAIN f = 1 .. n /\ \A i \in 1 .. n : f[i] = e(i)
  BY <1>1
<1>3. QED
  BY <1>2 DEF e

\* There is such a function, and its values are sequences: the least number of sequences
\* without one would have one, one longer than that of its predecessor.
LEMMA FlattensExists ==
  ASSUME NEW T, NEW n \in Nat \ {0}, NEW ss \in [1 .. n -> Seq(T)]
  PROVE  \E f : Flattens(f, ss, n) /\ f \in [1 .. n -> Seq(T)]
<1> DEFINE P(m) == \E f : Flattens(f, ss, m) /\ f \in [1 .. m -> Seq(T)]
           Bad == {m \in 1 .. n : ~P(m)}
<1>1. P(1)
  <2> DEFINE f == [i \in 1 .. 1 |-> ss[i]]
  <2>1. f \in [1 .. 1 -> Seq(T)]
    OBVIOUS
  <2>2. f = [i \in 1 .. 1 |-> IF i = 1 THEN ss[i] ELSE f[i - 1] \o ss[i]]
    OBVIOUS
  <2>3. QED
    BY <2>1, <2>2 DEF Flattens
<1>2. ASSUME NEW m \in 1 .. n, m # 1, P(m - 1)
      PROVE  P(m)
  <2>1. PICK g : Flattens(g, ss, m - 1) /\ g \in [1 .. (m - 1) -> Seq(T)]
    BY <1>2
  <2>2. m - 1 \in Nat \ {0} /\ m \in Nat /\ m - 1 \in 1 .. (m - 1)
    BY <1>2
  <2>3. \A i \in 1 .. (m - 1) : g[i] = IF i = 1 THEN ss[i] ELSE g[i - 1] \o ss[i]
    <3> DEFINE k == m - 1
    <3>1. k \in Nat /\ Flattens(g, ss, k)
      BY <2>1, <2>2
    <3> HIDE DEF k
    <3>2. \A i \in 1 .. k : g[i] = IF i = 1 THEN ss[i] ELSE g[i - 1] \o ss[i]
      BY <3>1, FlattensAt
    <3>3. QED
      BY <3>2 DEF k
  <2> DEFINE f == [i \in 1 .. m |-> IF i = m THEN g[m - 1] \o ss[m] ELSE g[i]]
  <2>4. g[m - 1] \in Seq(T) /\ ss[m] \in Seq(T)
    BY <2>1, <2>2
  <2>5. g[m - 1] \o ss[m] \in Seq(T)
    BY <2>4, ConcatProperties
  <2>6. \A i \in 1 .. m : i # m => g[i] \in Seq(T) /\ i \in 1 .. (m - 1)
    BY <2>1, <2>2
  <2>7. f \in [1 .. m -> Seq(T)]
    BY <2>5, <2>6
  <2>8. DOMAIN f = 1 .. m /\ \A i \in 1 .. m : f[i] = IF i = m THEN g[m - 1] \o ss[m] ELSE g[i]
    OBVIOUS
  <2> HIDE DEF f
  <2>9. ASSUME NEW i \in 1 .. m
        PROVE  f[i] = IF i = 1 THEN ss[i] ELSE f[i - 1] \o ss[i]
    <3>1. CASE i = m
      <4>1. m - 1 \in 1 .. m /\ m - 1 # m
        BY <2>2
      <4>2. f[m - 1] = g[m - 1] /\ f[m] = g[m - 1] \o ss[m]
        BY <2>8, <2>9, <3>1, <4>1
      <4>3. QED
        BY <1>2, <3>1, <4>2
    <3>2. CASE i # m /\ i = 1
      BY <2>3, <2>6, <2>8, <3>2
    <3>3. CASE i # m /\ i # 1
      <4>1. i - 1 \in 1 .. m /\ i - 1 # m
        BY <2>2, <3>3
      <4>2. f[i - 1] = g[i - 1] /\ f[i] = g[i]
        BY <2>8, <2>9, <3>3, <4>1
      <4>3. g[i] = g[i - 1] \o ss[i]
        BY <2>3, <2>6, <3>3
      <4>4. QED
        BY <3>3, <4>2, <4>3
    <3>4. QED
      BY <3>1, <3>2, <3>3
  <2>10. Flattens(f, ss, m)
    <3>1. f = [i \in 1 .. m |-> f[i]]
      BY <2>7
    <3>2. [i \in 1 .. m |-> f[i]] = [i \in 1 .. m |-> IF i = 1 THEN ss[i] ELSE f[i - 1] \o ss[i]]
      BY <2>9
    <3>3. QED
      BY <3>1, <3>2 DEF Flattens
  <2>11. QED
    BY <2>7, <2>10
<1> HIDE DEF P
<1>3. Bad = {}
  <2> SUFFICES ASSUME Bad # {} PROVE FALSE
    OBVIOUS
  <2>1. Bad \subseteq Nat
    OBVIOUS
  <2>2. PICK m \in Bad : \A k \in Bad : m <= k
    BY <2>1, Least
  <2>3. m \in 1 .. n /\ ~P(m) /\ m # 1
    BY <1>1
  <2>4. m - 1 \in 1 .. n /\ ~(m <= m - 1)
    BY <2>3
  <2>5. P(m - 1)
    BY <2>2, <2>4
  <2>6. QED
    BY <1>2, <2>3, <2>5
<1>4. P(n)
  BY <1>3
<1>5. QED
  BY <1>4 DEF P

\* Two such functions agree as far as their sequences do.
LEMMA FlattensAgree ==
  ASSUME NEW n \in Nat, NEW m \in Nat, n <= m, NEW f, NEW g, NEW ss, NEW tt,
         \A i \in 1 .. n : ss[i] = tt[i],
         Flattens(f, ss, n), Flattens(g, tt, m)
  PROVE  \A i \in 1 .. n : f[i] = g[i]
<1> DEFINE Bad == {i \in 1 .. n : f[i] # g[i]}
<1> SUFFICES ASSUME Bad # {} PROVE FALSE
  OBVIOUS
<1>1. Bad \subseteq Nat
  OBVIOUS
<1>2. PICK i \in Bad : \A k \in Bad : i <= k
  BY <1>1, Least
<1>3. i \in 1 .. n /\ f[i] # g[i] /\ i \in 1 .. m
  OBVIOUS
<1>4. f[i] = IF i = 1 THEN ss[i] ELSE f[i - 1] \o ss[i]
  BY <1>3, FlattensAt
<1>5. g[i] = IF i = 1 THEN tt[i] ELSE g[i - 1] \o tt[i]
  BY <1>3, FlattensAt
<1>6. i # 1
  BY <1>3, <1>4, <1>5
<1>7. i - 1 \in 1 .. n /\ ~(i <= i - 1)
  BY <1>3, <1>6
<1>8. f[i - 1] = g[i - 1]
  BY <1>2, <1>7
<1>9. QED
  BY <1>3, <1>4, <1>5, <1>6, <1>8

\* What FlattenSeq returns: nothing for no sequence, and for one more, that one at the end.
LEMMA FlattenNone ==
  ASSUME NEW ss, Len(ss) = 0, ss = <<>>
  PROVE  FlattenSeq(ss) = <<>>
  BY DEF FlattenSeq

\* One sequence more is put at the end.
LEMMA FlattenStep ==
  ASSUME NEW T, NEW n \in Nat, NEW ss \in [1 .. (n + 1) -> Seq(T)]
  PROVE  FlattenSeq(ss) = FlattenSeq([i \in 1 .. n |-> ss[i]]) \o ss[n + 1]
<1> DEFINE tt == [i \in 1 .. n |-> ss[i]]
           F == CHOOSE f : Flattens(f, ss, n + 1)
           G == CHOOSE f : Flattens(f, tt, n)
<1>1. ss \in Seq(Seq(T)) /\ Len(ss) = n + 1 /\ tt \in Seq(Seq(T)) /\ Len(tt) = n
  OBVIOUS
<1>2. \E f : Flattens(f, ss, n + 1)
  <2>1. n + 1 \in Nat \ {0}
    OBVIOUS
  <2>2. QED
    BY <2>1, FlattensExists
<1>3. Flattens(F, ss, n + 1)
  BY <1>2
<1>4. FlattenSeq(ss) = F[n + 1]
  <2> HIDE DEF tt
  <2>1. Len(ss) # 0
    BY <1>1
  <2>2. QED
    BY <1>1, <2>1, FlattenUnfolds
<1> HIDE DEF F
<1>5. \A i \in 1 .. (n + 1) : F[i] = IF i = 1 THEN ss[i] ELSE F[i - 1] \o ss[i]
  BY <1>3, FlattensAt
<1>6. CASE n = 0
  <2>1. F[1] = ss[1] /\ ss[1] \in Seq(T)
    BY <1>5, <1>6
  <2>2. tt = <<>>
    BY <1>1, <1>6, EmptySeq
  <2>3. FlattenSeq(tt) = <<>>
    <3> HIDE DEF tt
    <3>1. QED
      BY <1>1, <1>6, <2>2, FlattenNone
  <2>4. QED
    BY <1>4, <1>6, <2>1, <2>3, ConcatEmptySeq
<1>7. CASE n # 0
  <2>1. tt \in [1 .. n -> Seq(T)]
    OBVIOUS
  <2>2. \A i \in 1 .. n : tt[i] = ss[i]
    OBVIOUS
  <2> HIDE DEF tt
  <2>3. \E f : Flattens(f, tt, n)
    BY <1>7, <2>1, FlattensExists
  <2>4. Flattens(G, tt, n)
    BY <2>3
  <2>5. FlattenSeq(tt) = G[n]
    BY <1>1, <1>7, FlattenUnfolds
  <2> HIDE DEF G
  <2>6. G[n] = F[n]
    <3>1. n + 1 \in Nat /\ n <= n + 1 /\ n \in 1 .. n
      BY <1>7
    <3>2. QED
      BY <1>3, <2>2, <2>4, <3>1, FlattensAgree
  <2>7. F[n + 1] = F[n] \o ss[n + 1]
    <3>1. n + 1 \in 1 .. (n + 1) /\ n + 1 # 1 /\ (n + 1) - 1 = n
      BY <1>7
    <3>2. F[n + 1] = F[(n + 1) - 1] \o ss[n + 1]
      BY <1>5, <3>1
    <3>3. QED
      BY <3>1, <3>2
  <2>8. QED
    BY <1>4, <2>5, <2>6, <2>7 DEF tt
<1>8. QED
  BY <1>6, <1>7

\* A sequence of sequences over T becomes one over T.
LEMMA FlattenType ==
  ASSUME NEW T, NEW ss \in Seq(Seq(T))
  PROVE  FlattenSeq(ss) \in Seq(T)
<1>1. CASE Len(ss) = 0
  BY <1>1, EmptySeq, FlattenNone
<1>2. CASE Len(ss) # 0
  <2>1. Len(ss) \in Nat \ {0} /\ ss \in [1 .. Len(ss) -> Seq(T)]
    BY <1>2
  <2> DEFINE n == Len(ss)
             F == CHOOSE f : Flattens(f, ss, n)
  <2>2. PICK g : Flattens(g, ss, n) /\ g \in [1 .. n -> Seq(T)]
    BY <2>1, FlattensExists
  <2>3. Flattens(F, ss, n)
    BY <2>2
  <2>4. FlattenSeq(ss) = F[n]
    BY <1>2, FlattenUnfolds
  <2> HIDE DEF F
  <2>5. F[n] = g[n]
    <3>1. n \in Nat /\ n <= n /\ n \in 1 .. n
      BY <2>1
    <3> HIDE DEF n
    <3>2. QED
      BY <2>2, <2>3, <3>1, FlattensAgree
  <2>6. QED
    BY <2>1, <2>2, <2>4, <2>5
<1>3. QED
  BY <1>1, <1>2

----------------------------------------------------------------------------
(* The inductive invariant                                                 *)

Executing == {"running", "passed", "failed", "timed_out"}
Finalizing == {"cleanup", "confirm-fixtures", "confirm-copy", "confirm-sources",
               "confirm-copied-sources", "confirm-harness", "truncate", "write"}

\* The stages behind each closing look.
AfterHarness == {"truncate", "write", "ended", "killed"}
AfterCopied == {"confirm-harness"} \cup AfterHarness
AfterSources == {"confirm-copied-sources"} \cup AfterCopied
AfterCopy == {"confirm-sources"} \cup AfterSources
AfterFixtures == {"confirm-copy"} \cup AfterCopy

\* The blocks of the groups before group g.
Done(g) == FlattenSeq([h \in 1 .. (g - 1) |-> Groups[h].ids])

ExamplesShape ==
    /\ root \in [Parts -> Nat] /\ copy \in [Parts -> Nat] /\ full \in BOOLEAN
    /\ stage \in Preparing \cup {"execute"} \cup Executing \cup Finalizing \cup Over
    /\ before \in {0, 1, None} /\ visible \in [Parts -> Nat]
    /\ group \in Nat \ {0} /\ progress \in Seq(Expected)
    /\ completed \in Seq(Expected) /\ ran \in Seq(Expected) /\ foreign \in BOOLEAN
    /\ closing \in [fixtures : Nat, copy : Nat, sources : [Parts -> Nat], copied : [Parts -> Nat],
                   harness : Nat]
    /\ verdict \in {"passed", "failed"} /\ receipt \in {"none", "torn", "passed", "failed"}

\* Which blocks have run, and which are named, at each stage.
GroupInv ==
    /\ stage \in Preparing => group = 1 /\ completed = <<>> /\ ran = <<>>
    /\ stage = "execute" => group \in 1 .. Len(Groups) + 1 /\ completed = Done(group) /\ ran = Done(group)
    /\ stage \in Executing =>
         group \in DOMAIN Groups /\ completed = Done(group) /\ ran = Done(group) \o progress

\* If documents or fixtures are found as they were fingerprinted, they were changed and
\* changed back since.
Reverting == root["fixtures"] >= 2 \/ (root["fixtures"] = 1 /\ before = 0)

\* The fingerprint, and the documents that the blocks came from.
BlocksInv ==
    /\ stage \in {"register", "visible", "copy", "copied", "syntax", "execute"} \cup Executing =>
         before # None /\ (root["fixtures"] = 0 => before = 0)
    /\ stage \in {"visible", "copy", "copied", "syntax", "execute"} \cup Executing \/ verdict = "passed" =>
         before # None /\ (blocks = before \/ Reverting)

\* A block that ran in a checkout other than the fingerprinted one.
ForeignInv ==
    /\ stage \in Preparing => ~foreign
    /\ ~full /\ foreign /\ (stage \in {"execute"} \cup Executing \/ verdict = "passed") => Reverting

\* The full scope works on a copy of what was listed; a block that ran on another was
\* preceded by a change of the copy.
CopyInv ==
    full /\ (stage \in {"syntax", "execute"} \cup Executing \/ verdict = "passed") =>
      /\ visible # Unseen /\ copied = visible["fixtures"]
      /\ \A p \in Parts : visible[p] \in {0, 1} /\ visible[p] <= copy[p]
      /\ foreign => \E p \in Parts : visible[p] < copy[p]

\* What the closing looks of a passed run have found.
ClosingInv ==
    verdict = "passed" =>
      /\ stage \in AfterFixtures =>
           /\ Digest(closing.fixtures) = before
           /\ blocks = before \/ closing.fixtures >= 2
           /\ ~full /\ foreign => closing.fixtures >= 2
      /\ full /\ stage \in AfterCopy => Digest(closing.copy) = copied
      /\ full /\ stage \in AfterSources => SourceFiles(closing.sources) = visible
      /\ full /\ stage \in AfterCopied =>
           /\ SourceFiles(closing.copied) = visible
           /\ foreign => \E p \in Parts : closing.copied[p] >= visible[p] + 2
      /\ stage \in AfterHarness => Digest(closing.harness) = script

VerdictInv ==
    /\ verdict = "passed" =>
         /\ stage \in Finalizing \cup Over
         /\ ran = Selected /\ completed = Selected
         /\ full => ToSet(completed) = Expected
    /\ receipt = "passed" => verdict = "passed" /\ stage = "ended"

ExamplesInv ==
    /\ ExamplesShape /\ GroupInv /\ BlocksInv /\ ForeignInv /\ CopyInv /\ ClosingInv /\ VerdictInv

----------------------------------------------------------------------------
(* The groups.                                                             *)

Group == [language : {"bash", "python"}, ids : Seq(Expected)]

\* Blocks by their names (registered_blocks).
LEMMA NamedType ==
  ASSUME NEW places
  PROVE  Named(places) \in Seq(Expected)
<1> DEFINE part == [i \in DOMAIN Blocks |-> IF i \in places THEN <<Blocks[i].id>> ELSE <<>>]
<1>1. DOMAIN Blocks = 1 .. Len(Blocks) /\ Len(Blocks) \in Nat
  BY DocumentsAssumption
<1>2. ASSUME NEW i \in DOMAIN Blocks
      PROVE  part[i] \in Seq(Expected)
  <2>1. Blocks[i].id \in Expected
    BY DEF Expected
  <2>2. <<Blocks[i].id>> \in Seq(Expected) /\ <<>> \in Seq(Expected)
    BY <2>1
  <2>3. QED
    BY <2>2
<1>3. part \in [1 .. Len(Blocks) -> Seq(Expected)]
  BY <1>1, <1>2
<1> HIDE DEF part
<1>4. part \in Seq(Seq(Expected))
  BY <1>1, <1>3
<1>5. FlattenSeq(part) \in Seq(Expected)
  BY <1>4, FlattenType
<1>6. QED
  BY <1>5 DEF Named, part

\* The commands of one document.
LEMMA GroupsOfType ==
  ASSUME NEW d, NEW delegated \in BOOLEAN
  PROVE  GroupsOf(d, delegated) \in Seq(Group)
<1> DEFINE shell == Shell(d, delegated)
           scripts == Scripts(d)
           first == IF shell = <<>> THEN <<>> ELSE <<[language |-> "bash", ids |-> shell]>>
           rest == [i \in DOMAIN scripts |-> [language |-> "python", ids |-> <<scripts[i]>>]]
<1>1. shell \in Seq(Expected) /\ scripts \in Seq(Expected)
  BY NamedType DEF Shell, Scripts
<1>2. first \o rest = GroupsOf(d, delegated)
  BY DEF GroupsOf
<1> HIDE DEF shell, scripts
<1>3. first \in Seq(Group)
  <2>1. [language |-> "bash", ids |-> shell] \in Group
    BY <1>1 DEF Group
  <2>2. <<[language |-> "bash", ids |-> shell]>> \in Seq(Group) /\ <<>> \in Seq(Group)
    BY <2>1
  <2>3. QED
    BY <2>2
<1>4. rest \in Seq(Group)
  <2>1. DOMAIN scripts = 1 .. Len(scripts) /\ Len(scripts) \in Nat
    BY <1>1
  <2>2. \A i \in DOMAIN scripts : <<scripts[i]>> \in Seq(Expected)
    <3>1. \A i \in DOMAIN scripts : scripts[i] \in Expected
      BY <1>1, <2>1, ElementOfSeq
    <3>2. QED
      BY <3>1
  <2>3. rest \in [1 .. Len(scripts) -> Group]
    BY <2>1, <2>2 DEF Group
  <2>4. QED
    BY <2>1, <2>3
<1> HIDE DEF first, rest
<1>5. QED
  BY <1>2, <1>3, <1>4, ConcatProperties

\* The commands of a scope.
LEMMA CommandsType ==
  ASSUME NEW delegated \in BOOLEAN
  PROVE  Commands[delegated] \in Seq(Group)
<1> DEFINE all == [i \in DOMAIN Documents |-> GroupsOf(Documents[i], delegated)]
<1>1. DOMAIN Documents = 1 .. Len(Documents) /\ Len(Documents) \in Nat
  BY DocumentsAssumption
<1>2. all \in [1 .. Len(Documents) -> Seq(Group)]
  BY <1>1, GroupsOfType
<1>3. Commands[delegated] = FlattenSeq(all)
  BY DEF Commands
<1> HIDE DEF all
<1>4. all \in Seq(Seq(Group))
  BY <1>1, <1>2
<1>5. QED
  BY <1>3, <1>4, FlattenType

\* The commands of this run.
LEMMA GroupsType ==
  ASSUME full \in BOOLEAN
  PROVE  /\ Groups \in Seq(Group) /\ DOMAIN Groups = 1 .. Len(Groups) /\ Len(Groups) \in Nat
         /\ \A g \in DOMAIN Groups : Groups[g].ids \in Seq(Expected)
<1>1. Groups \in Seq(Group)
  BY CommandsType DEF Groups
<1>2. DOMAIN Groups = 1 .. Len(Groups) /\ Len(Groups) \in Nat
  BY <1>1
<1>3. \A g \in DOMAIN Groups : Groups[g] \in Group
  BY <1>1, <1>2, ElementOfSeq
<1>4. QED
  BY <1>1, <1>2, <1>3 DEF Group

\* Before the first command nothing is done.
LEMMA DoneFirst == Done(1) = <<>>
<1> DEFINE none == [h \in 1 .. (1 - 1) |-> Groups[h].ids]
<1>1. none \in Seq(Nat) /\ Len(none) = 0
  OBVIOUS
<1>2. none = <<>>
  BY <1>1, EmptySeq
<1> HIDE DEF none
<1>3. FlattenSeq(none) = <<>>
  BY <1>1, <1>2, FlattenNone
<1>4. QED
  BY <1>3 DEF Done, none

\* A command adds its blocks.
LEMMA DoneNext ==
  ASSUME full \in BOOLEAN, NEW g \in DOMAIN Groups
  PROVE  Done(g + 1) = Done(g) \o Groups[g].ids
<1> DEFINE n == g - 1
           ss == [h \in 1 .. (n + 1) |-> Groups[h].ids]
<1>1. n \in Nat /\ n + 1 = g /\ (g + 1) - 1 = n + 1 /\ g \in 1 .. (n + 1)
  BY GroupsType
<1>2. ss \in [1 .. (n + 1) -> Seq(Expected)]
  BY <1>1, GroupsType
<1>3. [i \in 1 .. n |-> ss[i]] = [h \in 1 .. (g - 1) |-> Groups[h].ids]
  BY <1>1
<1>4. ss[n + 1] = Groups[g].ids /\ ss = [h \in 1 .. ((g + 1) - 1) |-> Groups[h].ids]
  BY <1>1
<1> HIDE DEF n, ss
<1>5. FlattenSeq(ss) = FlattenSeq([i \in 1 .. n |-> ss[i]]) \o ss[n + 1]
  BY <1>1, <1>2, FlattenStep
<1>6. QED
  BY <1>3, <1>4, <1>5 DEF Done

\* After the last, all that the scope selects is done.
LEMMA DoneAll ==
  ASSUME full \in BOOLEAN
  PROVE  Done(Len(Groups) + 1) = Selected
<1>1. DOMAIN Groups = 1 .. ((Len(Groups) + 1) - 1)
  BY GroupsType
<1>2. QED
  BY <1>1 DEF Done, Selected

\* The commands depend on the scope alone.
LEMMA DoneStays ==
  ASSUME full' = full, NEW g, group' = g
  PROVE  Groups' = Groups /\ Selected' = Selected /\ Done(group)' = Done(g)
  BY DEF Groups, Selected, Done

----------------------------------------------------------------------------
(* The steps.                                                              *)

\* A run that has not passed shows nothing but its types and its fingerprints.
LEMMA Unpassed ==
  ASSUME ExamplesInv, stage \in Preparing \cup {"execute"} \cup Executing
  PROVE  verdict = "failed" /\ receipt # "passed"
  BY DEF ExamplesInv, ExamplesShape, VerdictInv, Preparing, Executing, Finalizing, Over

\* A step that gives up keeps the invariant if it keeps the blocks, the verdict and the receipt.
LEMMA GiveUpKeeps ==
  ASSUME ExamplesInv, stage \in Preparing \cup {"execute"} \cup Executing, ExamplesShape',
         GiveUp, verdict' = verdict, receipt' = receipt
  PROVE  ExamplesInv'
<1>1. stage' = "cleanup" /\ verdict' = "failed" /\ receipt' # "passed"
  BY Unpassed DEF GiveUp, Enter
<1>2. GroupInv' /\ BlocksInv' /\ ForeignInv' /\ CopyInv' /\ ClosingInv' /\ VerdictInv'
  BY <1>1 DEF GroupInv, BlocksInv, ForeignInv, CopyInv, ClosingInv, VerdictInv, Preparing, Executing,
     Finalizing, Over
<1>3. QED
  BY <1>2 DEF ExamplesInv

\* Steps before the first block is executed.
LEMMA PrepareKeeps ==
  ASSUME ExamplesInv, stage \in Preparing, UNCHANGED execution, UNCHANGED outcome,
         full' = full, root' = root, copy' \in [Parts -> Nat],
         stage' \in Preparing \cup {"execute", "refused"}, before' \in {0, 1, None},
         visible' \in [Parts -> Nat], BlocksInv', CopyInv'
  PROVE  ExamplesInv'
<1> USE DEF execution, outcome
<1>1. verdict' = "failed" /\ receipt' # "passed" /\ ~foreign'
  BY Unpassed DEF ExamplesInv, ForeignInv
<1>2. ExamplesShape'
  BY DEF ExamplesInv, ExamplesShape, Expected, Over
<1>3. group' = 1 /\ completed' = <<>> /\ ran' = <<>>
  BY DEF ExamplesInv, GroupInv
<1>4. GroupInv'
  <2>1. CASE stage' = "execute"
    <3>1. Done(group)' = <<>>
      BY <1>3, DoneStays, DoneFirst
    <3>2. group' \in (1 .. Len(Groups) + 1)'
      <4>1. Len(Groups) \in Nat /\ Groups' = Groups
        BY <1>3, GroupsType, DoneStays DEF ExamplesInv, ExamplesShape
      <4>2. QED
        BY <1>3, <4>1
    <3>3. QED
      BY <1>3, <2>1, <3>1, <3>2 DEF GroupInv, Preparing, Executing
  <2>2. CASE stage' # "execute"
    BY <1>3, <2>2 DEF GroupInv, Preparing, Executing
  <2>3. QED
    BY <2>1, <2>2
<1>5. ForeignInv' /\ ClosingInv' /\ VerdictInv'
  BY <1>1 DEF ForeignInv, ClosingInv, VerdictInv
<1>6. QED
  BY <1>2, <1>4, <1>5 DEF ExamplesInv

\* The result directory is looked at.
LEMMA CheckResultsKeeps == ExamplesInv /\ CheckResults => ExamplesInv'
<1> SUFFICES ASSUME ExamplesInv, CheckResults PROVE ExamplesInv'
  OBVIOUS
<1> USE DEF CheckResults, Enter, sources, reads
<1>1. stage \in Preparing /\ stage' \in {"refused", "mkdir"} /\ verdict = "failed"
  BY Unpassed DEF Preparing
<1>2. BlocksInv' /\ CopyInv'
  BY <1>1 DEF BlocksInv, CopyInv, Executing, outcome
<1>3. QED
  BY <1>1, <1>2, PrepareKeeps DEF Preparing, ExamplesInv, ExamplesShape

\* It is made exclusively.
LEMMA MakeResultsKeeps == ExamplesInv /\ MakeResults => ExamplesInv'
<1> SUFFICES ASSUME ExamplesInv, MakeResults PROVE ExamplesInv'
  OBVIOUS
<1> USE DEF MakeResults, Enter, sources
<1>1. stage \in Preparing /\ stage' \in {"refused", "fingerprint"} /\ verdict = "failed"
  BY Unpassed DEF Preparing
<1>2. BlocksInv' /\ CopyInv'
  BY <1>1 DEF BlocksInv, CopyInv, Executing, outcome
<1>3. QED
  BY <1>1, <1>2, PrepareKeeps DEF Preparing, ExamplesInv, ExamplesShape

\* The content of a number of changes, which is never None.
LEMMA DigestParity ==
  ASSUME NEW n \in Nat
  PROVE  Digest(n) \in {0, 1} /\ Digest(n) # None /\ (n = 0 => Digest(n) = 0) /\ (n = 1 => Digest(n) = 1)
  BY DEF Digest, None

\* The first fingerprint of documents and fixtures.
LEMMA TakeFingerprintKeeps == ExamplesInv /\ TakeFingerprint => ExamplesInv'
<1> SUFFICES ASSUME ExamplesInv, TakeFingerprint PROVE ExamplesInv'
  OBVIOUS
<1> USE DEF TakeFingerprint, Enter, sources
<1>1. stage \in Preparing /\ stage = "fingerprint" /\ verdict = "failed"
  BY Unpassed DEF Preparing
<1>2. root["fixtures"] \in Nat
  BY DEF ExamplesInv, ExamplesShape, Parts
<1>3. CASE before' = Fingerprint(root) /\ Enter("register")
  <2>1. before' \in {0, 1} /\ before' # None /\ (root'["fixtures"] = 0 => before' = 0)
    BY <1>2, <1>3, DigestParity DEF Fingerprint
  <2>2. BlocksInv' /\ CopyInv'
    BY <1>1, <1>3, <2>1 DEF BlocksInv, CopyInv, Executing, outcome
  <2>3. QED
    BY <1>1, <1>3, <2>1, <2>2, PrepareKeeps DEF Preparing, ExamplesInv, ExamplesShape
<1>4. CASE GiveUp /\ UNCHANGED before
  <2>1. ExamplesShape'
    BY <1>4 DEF ExamplesInv, ExamplesShape, GiveUp, Finalizing, execution, outcome, Expected
  <2>2. QED
    BY <1>1, <1>4, <2>1, GiveUpKeeps DEF outcome
<1>5. QED
  BY <1>3, <1>4

\* The documents were fingerprinted at an earlier number of changes.
LEMMA RegisterBlocksKeeps == ExamplesInv /\ RegisterBlocks => ExamplesInv'
<1> SUFFICES ASSUME ExamplesInv, RegisterBlocks PROVE ExamplesInv'
  OBVIOUS
<1> USE DEF RegisterBlocks, Enter, sources
<1>1. stage \in Preparing /\ verdict = "failed" /\ stage = "register" /\ before' = before /\ root' = root
  BY Unpassed DEF Preparing
<1>2. CASE blocks' = Fingerprint(root) /\ Enter(IF full THEN "visible" ELSE "syntax")
  <2>1. root["fixtures"] \in Nat
    BY DEF ExamplesInv, ExamplesShape, Parts
  <2>2. before # None /\ (root["fixtures"] = 0 => before = 0)
    BY <1>1 DEF ExamplesInv, BlocksInv
  <2>3. before \in {0, 1}
    BY <2>2 DEF ExamplesInv, ExamplesShape
  <2>4. blocks' = before \/ Reverting
    <3> USE DEF Reverting
    <3>1. CASE root["fixtures"] = 0
      BY <1>2, <2>1, <2>2, <3>1, DigestParity DEF Fingerprint
    <3>2. CASE root["fixtures"] = 1
      <4>1. blocks' = 1
        BY <1>2, <2>1, <3>2, DigestParity DEF Fingerprint
      <4>2. QED
        BY <2>3, <3>2, <4>1
    <3>3. CASE root["fixtures"] # 0 /\ root["fixtures"] # 1
      <4>1. root["fixtures"] >= 2
        BY <2>1, <3>3
      <4>2. QED
        BY <4>1
    <3>4. QED
      BY <3>1, <3>2, <3>3
  <2>5. stage' \in {"visible", "syntax"} /\ (full => stage' = "visible") /\ full' = full
    BY <1>2
  <2>6. BlocksInv' /\ CopyInv'
    BY <1>1, <2>2, <2>4, <2>5 DEF BlocksInv, Reverting, CopyInv, Executing, Over, outcome
  <2>7. QED
    BY <1>1, <2>5, <2>6, PrepareKeeps DEF Preparing, ExamplesInv, ExamplesShape
<1>3. CASE GiveUp /\ UNCHANGED blocks
  <2>1. ExamplesShape'
    BY <1>3 DEF ExamplesInv, ExamplesShape, GiveUp, Finalizing, execution, outcome, Expected
  <2>2. QED
    BY <1>1, <1>3, <2>1, GiveUpKeeps DEF outcome
<1>4. QED
  BY <1>2, <1>3

\* A tree shows a content for each part.
LEMMA SourceFilesType ==
  ASSUME NEW tree \in [Parts -> Nat]
  PROVE  /\ SourceFiles(tree) \in [Parts -> Nat]
         /\ SourceFiles(tree)["fixtures"] = Fingerprint(tree)
         /\ \A p \in Parts : SourceFiles(tree)[p] \in {0, 1} /\ SourceFiles(tree)[p] <= tree[p]
         /\ SourceFiles(tree) # Unseen
<1>1. \A p \in Parts : tree[p] \in Nat /\ Digest(tree[p]) \in Nat
  BY DEF Digest
<1>2. "fixtures" \in Parts
  BY DEF Parts
<1>3. SourceFiles(tree)["fixtures"] = Digest(tree["fixtures"])
  BY <1>2 DEF SourceFiles
<1>4. Unseen["fixtures"] = None
  BY <1>2 DEF Unseen
<1>5. SourceFiles(tree)["fixtures"] # Unseen["fixtures"]
  BY <1>1, <1>2, <1>3, <1>4, DigestParity
<1>6. SourceFiles(tree) \in [Parts -> Nat]
  BY <1>1 DEF SourceFiles
<1>7. ASSUME NEW p \in Parts
      PROVE  SourceFiles(tree)[p] \in {0, 1} /\ SourceFiles(tree)[p] <= tree[p]
  <2>1. SourceFiles(tree)[p] = tree[p] % 2 /\ tree[p] \in Nat
    BY <1>1 DEF SourceFiles, Digest
  <2>2. QED
    BY <2>1
<1>8. QED
  BY <1>3, <1>5, <1>6, <1>7 DEF Fingerprint

\* The files that the full scope copies.
LEMMA ListSourcesKeeps == ExamplesInv /\ ListSources => ExamplesInv'
<1> SUFFICES ASSUME ExamplesInv, ListSources PROVE ExamplesInv'
  OBVIOUS
<1> USE DEF ListSources, Enter, sources
<1>1. stage \in Preparing /\ stage = "visible" /\ stage' = "copy" /\ verdict = "failed"
  BY Unpassed DEF Preparing
<1>2. BlocksInv' /\ CopyInv'
  BY <1>1 DEF ExamplesInv, BlocksInv, Reverting, CopyInv, Executing, Over, outcome
<1>3. visible' \in [Parts -> Nat]
  BY SourceFilesType DEF ExamplesInv, ExamplesShape
<1>4. QED
  BY <1>1, <1>2, <1>3, PrepareKeeps DEF Preparing, ExamplesInv, ExamplesShape

\* Nothing is listed at first, or after an error.
LEMMA UnseenType == Unseen \in [Parts -> Nat]
  BY DEF Unseen, None

\* The copy is made of what was listed, or not at all.
LEMMA PrepareCheckoutKeeps == ExamplesInv /\ PrepareCheckout => ExamplesInv'
<1> SUFFICES ASSUME ExamplesInv, PrepareCheckout PROVE ExamplesInv'
  OBVIOUS
<1> USE DEF PrepareCheckout, Enter
<1>1. stage \in Preparing /\ stage = "copy" /\ verdict = "failed"
  BY Unpassed DEF Preparing
<1>2. CASE SourceFiles(root) = visible
  <2>1. copy' \in [Parts -> Nat] /\ visible' \in [Parts -> Nat] /\ stage' = "copied"
    BY <1>2, SourceFilesType DEF ExamplesInv, ExamplesShape
  <2>2. BlocksInv' /\ CopyInv'
    BY <1>1, <2>1 DEF ExamplesInv, BlocksInv, Reverting, CopyInv, Executing, Over, outcome
  <2>3. QED
    BY <1>1, <2>1, <2>2, PrepareKeeps DEF Preparing, ExamplesInv, ExamplesShape
<1>3. CASE SourceFiles(root) # visible
  <2>1. GiveUp /\ copy' = copy
    BY <1>3 DEF FailCopy
  <2>2. ExamplesShape'
    BY <2>1, UnseenType DEF ExamplesInv, ExamplesShape, GiveUp, FailCopy, Finalizing, execution, outcome, Expected
  <2>3. QED
    BY <1>1, <2>1, <2>2, GiveUpKeeps DEF outcome
<1>4. QED
  BY <1>2, <1>3

\* The copy shows what was listed, and its fingerprint is that of the listed fixtures.
LEMMA FingerprintCopyKeeps == ExamplesInv /\ FingerprintCopy => ExamplesInv'
<1> SUFFICES ASSUME ExamplesInv, FingerprintCopy PROVE ExamplesInv'
  OBVIOUS
<1> USE DEF FingerprintCopy, Enter, sources
<1>1. stage \in Preparing /\ stage = "copied" /\ verdict = "failed"
  BY Unpassed DEF Preparing
<1>2. CASE SourceFiles(copy) = visible /\ copied' = Fingerprint(copy) /\ Enter("syntax") /\ UNCHANGED visible
  <2>1. /\ visible' # Unseen /\ copied' = visible'["fixtures"]
        /\ \A p \in Parts : visible'[p] \in {0, 1} /\ visible'[p] <= copy'[p]
    BY <1>2, SourceFilesType DEF ExamplesInv, ExamplesShape
  <2>2. ~foreign'
    BY <1>1 DEF ExamplesInv, ForeignInv, execution
  <2>3. BlocksInv'
    BY <1>1, <1>2 DEF ExamplesInv, BlocksInv, Reverting, Executing, Over
  <2>4. CopyInv'
    BY <2>1, <2>2 DEF CopyInv
  <2>5. QED
    BY <1>1, <1>2, <2>3, <2>4, PrepareKeeps DEF Preparing, ExamplesInv, ExamplesShape
<1>3. CASE FailCopy
  <2>1. GiveUp
    BY <1>3 DEF FailCopy
  <2>2. ExamplesShape'
    BY <2>1, UnseenType DEF ExamplesInv, ExamplesShape, GiveUp, FailCopy, Finalizing, execution, outcome, Expected
  <2>3. QED
    BY <1>1, <2>1, <2>2, GiveUpKeeps DEF outcome
<1>4. QED
  BY <1>2, <1>3

\* bash -n and ast.parse.
LEMMA CheckSyntaxKeeps == ExamplesInv /\ CheckSyntax => ExamplesInv'
<1> SUFFICES ASSUME ExamplesInv, CheckSyntax PROVE ExamplesInv'
  OBVIOUS
<1> USE DEF CheckSyntax, Enter, sources, reads
<1>1. stage \in Preparing /\ stage = "syntax" /\ verdict = "failed" /\ stage' \in {"execute", "cleanup"}
  BY Unpassed DEF Preparing
<1>2. CASE stage' = "execute"
  <2>1. BlocksInv' /\ CopyInv'
    BY <1>1, <1>2 DEF ExamplesInv, BlocksInv, Reverting, CopyInv, Executing, Over, execution
  <2>2. QED
    BY <1>1, <1>2, <2>1, PrepareKeeps DEF Preparing, ExamplesInv, ExamplesShape
<1>3. CASE stage' = "cleanup"
  <2>1. ExamplesShape' /\ GiveUp
    BY <1>3 DEF ExamplesInv, ExamplesShape, GiveUp, Finalizing, execution, outcome, Expected
  <2>2. QED
    BY <1>1, <2>1, GiveUpKeeps DEF outcome
<1>4. QED
  BY <1>1, <1>2, <1>3

\* Steps while the groups are executed: the sources stay as they were read.
LEMMA ExecuteKeeps ==
  ASSUME ExamplesInv, stage \in {"execute"} \cup Executing, stage' \in {"execute"} \cup Executing,
         UNCHANGED reads, UNCHANGED outcome, full' = full, root' = root, copy' = copy,
         group' \in Nat \ {0}, progress' \in Seq(Expected), completed' \in Seq(Expected),
         ran' \in Seq(Expected), foreign' \in BOOLEAN,
         foreign' => foreign \/ (IF full THEN \E p \in Parts : visible[p] < copy[p] ELSE Reverting),
         GroupInv'
  PROVE  ExamplesInv'
<1> USE DEF reads, outcome
<1>1. verdict' = "failed" /\ receipt' # "passed" /\ verdict = "failed"
  BY Unpassed
<1>2. ExamplesShape'
  BY DEF ExamplesInv, ExamplesShape, Expected
<1>3. BlocksInv'
  BY <1>1 DEF ExamplesInv, BlocksInv, Reverting, Executing, Over
<1>4. CopyInv'
  <2> SUFFICES ASSUME full PROVE CopyInv'
    BY DEF CopyInv
  <2>1. /\ visible # Unseen /\ copied = visible["fixtures"]
        /\ \A p \in Parts : visible[p] \in {0, 1} /\ visible[p] <= copy[p]
        /\ foreign => \E p \in Parts : visible[p] < copy[p]
    BY DEF ExamplesInv, CopyInv
  <2>2. QED
    BY <2>1 DEF CopyInv
<1>5. ForeignInv'
  <2>1. ~full /\ foreign' => Reverting
    BY DEF ExamplesInv, ForeignInv
  <2>2. Reverting' <=> Reverting
    BY DEF Reverting
  <2>3. stage' \notin Preparing
    BY DEF Preparing, Executing
  <2>4. QED
    BY <2>1, <2>2, <2>3 DEF ForeignInv
<1>6. ClosingInv' /\ VerdictInv'
  BY <1>1 DEF ClosingInv, VerdictInv
<1>7. QED
  BY <1>2, <1>3, <1>4, <1>5, <1>6 DEF ExamplesInv

\* A command starts without a marker.
LEMMA StartKeeps == ExamplesInv /\ Start => ExamplesInv'
<1> SUFFICES ASSUME ExamplesInv, Start PROVE ExamplesInv'
  OBVIOUS
<1> USE DEF Start, Enter, sources
<1>1. /\ stage = "execute" /\ stage' = "running" /\ group' = group /\ progress' = <<>>
      /\ completed' = completed /\ ran' = ran /\ full' = full /\ full \in BOOLEAN
      /\ group \in DOMAIN Groups /\ completed = Done(group) /\ ran = Done(group)
      /\ ran \in Seq(Expected) /\ completed \in Seq(Expected) /\ group \in Nat \ {0}
  BY DEF ExamplesInv, ExamplesShape, GroupInv
<1>2. Done(group)' = Done(group) /\ Groups' = Groups
  BY <1>1, DoneStays
<1>3. ran = ran \o <<>> /\ <<>> \in Seq(Expected)
  BY <1>1, ConcatEmptySeq
<1>4. GroupInv'
  BY <1>1, <1>2, <1>3 DEF GroupInv, Preparing, Executing
<1>5. QED
  BY <1>1, <1>3, <1>4, ExecuteKeeps DEF Executing, ExamplesInv, ExamplesShape

\* Sources that differ from the recorded ones were changed since they were recorded.
LEMMA ElsewhereChanged ==
  ASSUME ExamplesInv, stage \in Executing, ~OnRecorded
  PROVE  IF full THEN \E p \in Parts : visible[p] < copy[p] ELSE Reverting
<1>1. CASE full
  <2>1. \A p \in Parts : visible[p] \in {0, 1} /\ visible[p] <= copy[p] /\ copy[p] \in Nat
    BY <1>1 DEF ExamplesInv, CopyInv, ExamplesShape
  <2>2. visible \in [Parts -> Nat]
    BY <1>1 DEF ExamplesInv, ExamplesShape, CopyInv
  <2>3. PICK p \in Parts : Digest(copy[p]) # visible[p]
    BY <1>1, <2>2 DEF OnRecorded, SourceFiles
  <2>4. visible[p] # copy[p]
    BY <2>1, <2>3, DigestParity
  <2>5. visible[p] < copy[p]
    BY <2>1, <2>4
  <2>6. QED
    BY <1>1, <2>5
<1>2. CASE ~full
  <2>1. root["fixtures"] \in Nat /\ before \in {0, 1} /\ (root["fixtures"] = 0 => before = 0)
    BY DEF ExamplesInv, ExamplesShape, BlocksInv, Parts
  <2>2. Digest(root["fixtures"]) # before
    BY <1>2 DEF OnRecorded, Fingerprint
  <2>3. root["fixtures"] # 0
    BY <2>1, <2>2, DigestParity
  <2>4. root["fixtures"] = 1 => before = 0
    BY <2>1, <2>2, DigestParity
  <2>5. Reverting
    BY <2>1, <2>3, <2>4 DEF Reverting
  <2>6. QED
    BY <1>2, <2>5
<1>3. QED
  BY <1>1, <1>2

\* A block runs to its end.
LEMMA RunBlockKeeps == ExamplesInv /\ RunBlock => ExamplesInv'
<1> SUFFICES ASSUME ExamplesInv, RunBlock PROVE ExamplesInv'
  OBVIOUS
<1>1. /\ stage = "running" /\ stage' = "running" /\ group' = group
      /\ completed' = completed /\ full' = full /\ full \in BOOLEAN
      /\ group \in DOMAIN Groups /\ completed = Done(group) /\ ran = Done(group) \o progress
      /\ ran \in Seq(Expected) /\ completed \in Seq(Expected) /\ progress \in Seq(Expected)
      /\ group \in Nat \ {0} /\ Len(progress) < Len(Current)
      /\ progress' = Append(progress, Current[Len(progress) + 1])
      /\ ran' = Append(ran, Current[Len(progress) + 1])
      /\ UNCHANGED <<root, copy, reads, outcome>>
      /\ foreign' = (foreign \/ ~OnRecorded) /\ foreign \in BOOLEAN
  BY DEF RunBlock, sources, ExamplesInv, ExamplesShape, GroupInv, Executing
<1>2. PICK x \in Expected : progress' = Append(progress, x) /\ ran' = Append(ran, x)
  <2>1. Current \in Seq(Expected)
    BY <1>1, GroupsType DEF Current
  <2>2. Len(progress) + 1 \in 1 .. Len(Current)
    BY <1>1, <2>1
  <2>3. Current[Len(progress) + 1] \in Expected
    BY <2>1, <2>2, ElementOfSeq
  <2>4. QED
    BY <1>1, <2>3
<1>3. progress' \in Seq(Expected) /\ ran' \in Seq(Expected)
  BY <1>1, <1>2
<1>4. ran' = Done(group) \o progress'
  <2>1. Done(group) \in Seq(Expected)
    BY <1>1
  <2>2. Append(Done(group) \o progress, x) = Done(group) \o Append(progress, x)
    <3> DEFINE d == Done(group)
    <3>1. d \in Seq(Expected) /\ progress \in Seq(Expected) /\ x \in Expected
      BY <1>1, <2>1
    <3> HIDE DEF d
    <3>2. Append(d \o progress, x) = d \o Append(progress, x)
      BY <3>1
    <3>3. QED
      BY <3>2 DEF d
  <2>3. QED
    BY <1>1, <1>2, <2>2
<1>5. Done(group)' = Done(group) /\ Groups' = Groups
  BY <1>1, DoneStays
<1>6. GroupInv'
  BY <1>1, <1>4, <1>5 DEF GroupInv, Preparing, Executing
<1>7. ~OnRecorded => IF full THEN \E p \in Parts : visible[p] < copy[p] ELSE Reverting
  BY <1>1, ElsewhereChanged DEF Executing
<1>8. foreign' \in BOOLEAN
  BY <1>1
<1>9. QED
  BY <1>1, <1>3, <1>6, <1>7, <1>8, ExecuteKeeps DEF Executing, ExamplesInv, ExamplesShape

\* Steps of processes, exits and timeouts leave what has run alone.
LEMMA RunningKeeps ==
  ASSUME ExamplesInv, stage \in Executing, stage' \in Executing,
         UNCHANGED <<sources, full, reads, group, progress, completed, ran, foreign, outcome>>
  PROVE  ExamplesInv'
<1> USE DEF sources
<1>1. /\ group' = group /\ completed' = completed /\ full' = full /\ full \in BOOLEAN
      /\ group \in DOMAIN Groups /\ completed = Done(group) /\ ran = Done(group) \o progress
      /\ progress' = progress /\ ran' = ran
  BY DEF ExamplesInv, ExamplesShape, GroupInv
<1>2. Done(group)' = Done(group) /\ Groups' = Groups
  BY <1>1, DoneStays
<1>3. GroupInv'
  BY <1>1, <1>2 DEF GroupInv, Preparing, Executing
<1>4. QED
  BY <1>3, ExecuteKeeps DEF Executing, ExamplesInv, ExamplesShape, Expected

\* A command ends by itself or is killed.
LEMMA ExitKeeps == ExamplesInv /\ (CommandTimesOut \/ \E code \in {"passed", "failed"} : Exit(code)) => ExamplesInv'
<1> SUFFICES ASSUME ExamplesInv, CommandTimesOut \/ \E code \in {"passed", "failed"} : Exit(code)
             PROVE  ExamplesInv'
  OBVIOUS
<1>1. stage \in Executing /\ stage' \in Executing
  BY DEF CommandTimesOut, Exit, Enter, Executing
<1>2. UNCHANGED <<sources, full, reads, group, progress, completed, ran, foreign, outcome>>
  BY DEF CommandTimesOut, Exit, execution
<1>3. QED
  BY <1>1, <1>2, RunningKeeps

\* The command is collected: its markers are kept, and the next group is up only after
\* all blocks of this one.
LEMMA CollectKeeps == ExamplesInv /\ Collect => ExamplesInv'
<1> SUFFICES ASSUME ExamplesInv, Collect PROVE ExamplesInv'
  OBVIOUS
<1> USE DEF Collect, Enter, sources
<1>1. /\ stage \in Executing /\ full' = full /\ full \in BOOLEAN /\ ran' = ran /\ progress' = progress
      /\ group \in DOMAIN Groups /\ completed = Done(group) /\ ran = Done(group) \o progress
      /\ ran \in Seq(Expected) /\ completed \in Seq(Expected) /\ progress \in Seq(Expected)
      /\ group \in Nat \ {0} /\ verdict' = verdict /\ receipt' = receipt
  BY DEF ExamplesInv, ExamplesShape, GroupInv, Executing, outcome
<1>2. Groups[group].language \in {"bash", "python"}
  <2>1. Groups[group] \in Group
    BY <1>1, GroupsType, ElementOfSeq
  <2>2. QED
    BY <2>1 DEF Group
<1>3. completed' \in Seq(Expected)
  <2>1. completed \o progress \in Seq(Expected)
    BY <1>1, ConcatProperties
  <2>2. QED
    BY <1>1, <2>1
<1>4. CASE stage = "passed" /\ progress = Current
  <2>1. stage' = "execute" /\ group' = group + 1 /\ completed' = completed \o progress
    BY <1>2, <1>4
  <2>2. completed' = Done(group + 1) /\ ran' = Done(group + 1)
    <3>1. Done(group + 1) = Done(group) \o progress
      BY <1>1, <1>4, DoneNext DEF Current
    <3>2. QED
      BY <1>1, <2>1, <3>1
  <2>3. Done(group)' = Done(group + 1) /\ Groups' = Groups
    BY <1>1, <2>1, DoneStays
  <2>4. group + 1 \in 1 .. Len(Groups) + 1 /\ group + 1 \in Nat \ {0}
    BY <1>1, GroupsType
  <2>5. GroupInv'
    BY <2>1, <2>2, <2>3, <2>4 DEF GroupInv, Preparing, Executing
  <2>6. QED
    BY <1>1, <1>3, <2>1, <2>4, <2>5, ExecuteKeeps DEF ExamplesInv, ExamplesShape
<1>5. CASE ~(stage = "passed" /\ progress = Current)
  <2>1. GiveUp /\ group' = group
    BY <1>5
  <2>2. ExamplesShape'
    BY <1>1, <1>3, <2>1 DEF ExamplesInv, ExamplesShape, GiveUp, Finalizing, reads, outcome, Expected
  <2>3. QED
    BY <1>1, <2>1, <2>2, GiveUpKeeps DEF outcome
<1>6. QED
  BY <1>4, <1>5

\* After the last group, what was completed is what the scope selects.
LEMMA ConcludeKeeps == ExamplesInv /\ Conclude => ExamplesInv'
<1> SUFFICES ASSUME ExamplesInv, Conclude PROVE ExamplesInv'
  OBVIOUS
<1> USE DEF Conclude, Enter, sources, reads, execution
<1>1. /\ stage = "execute" /\ stage' = "cleanup" /\ full' = full /\ full \in BOOLEAN
      /\ group \notin DOMAIN Groups /\ group \in 1 .. Len(Groups) + 1
      /\ completed = Done(group) /\ ran = Done(group) /\ group' = group
      /\ completed' = completed /\ ran' = ran /\ receipt' = receipt
      /\ UNCHANGED <<root, copy, before, blocks, visible, copied, foreign, closing>>
  BY DEF ExamplesInv, ExamplesShape, GroupInv
<1>2. group = Len(Groups) + 1
  BY <1>1, GroupsType
<1>3. completed' = Selected' /\ ran' = Selected'
  BY <1>1, <1>2, DoneAll, DoneStays
<1>4. receipt # "passed"
  BY <1>1, Unpassed
<1>5. ExamplesShape'
  BY <1>1 DEF ExamplesInv, ExamplesShape, Finalizing, Expected
<1>6. GroupInv'
  BY <1>1 DEF GroupInv, Preparing, Executing
<1>7. BlocksInv'
  BY <1>1 DEF ExamplesInv, BlocksInv, Reverting, Executing, Over
<1>8. CopyInv' /\ ForeignInv'
  BY <1>1 DEF ExamplesInv, CopyInv, ForeignInv, Reverting, Preparing
<1>9. ClosingInv'
  BY <1>1 DEF ClosingInv, AfterFixtures, AfterCopy, AfterSources, AfterCopied, AfterHarness
<1>10. VerdictInv'
  BY <1>1, <1>3, <1>4 DEF VerdictInv, Finalizing, Expected
<1>11. QED
  BY <1>5, <1>6, <1>7, <1>8, <1>9, <1>10 DEF ExamplesInv

----------------------------------------------------------------------------
(* finalize_execution.                                                     *)

\* A step of the finalization, which may turn the verdict.
LEMMA FinalizeKeeps ==
  ASSUME ExamplesInv, stage \in Finalizing, stage' \in Finalizing \cup Over,
         UNCHANGED <<sources, full, reads, execution>>,
         verdict' = verdict \/ verdict' = "failed",
         closing' \in [fixtures : Nat, copy : Nat, sources : [Parts -> Nat], copied : [Parts -> Nat],
                       harness : Nat],
         receipt' \in {"none", "torn", "passed", "failed"},
         receipt' = "passed" => verdict' = "passed" /\ stage' = "ended",
         ClosingInv'
  PROVE  ExamplesInv'
<1> USE DEF sources, reads, execution
<1>1. ExamplesShape'
  BY DEF ExamplesInv, ExamplesShape, Expected
<1>2. GroupInv'
  BY DEF GroupInv, Preparing, Executing, Finalizing, Over
<1>3. /\ verdict' = "passed" => verdict = "passed"
      /\ stage' \notin Preparing \cup {"execute"} \cup Executing
  BY DEF Preparing, Executing, Finalizing, Over
<1>4. BlocksInv' /\ ForeignInv'
  BY <1>3 DEF ExamplesInv, BlocksInv, ForeignInv, Reverting, Preparing
<1>5. CopyInv'
  BY <1>3 DEF ExamplesInv, CopyInv, Preparing
<1>6. VerdictInv'
  <2>1. Selected' = Selected
    BY DoneStays
  <2>2. QED
    BY <1>3, <2>1 DEF ExamplesInv, VerdictInv, Expected
<1>7. QED
  BY <1>1, <1>2, <1>4, <1>5, <1>6 DEF ExamplesInv

\* gpg agents are stopped, or not.
LEMMA CleanUpKeeps == ExamplesInv /\ CleanUp => ExamplesInv'
<1> SUFFICES ASSUME ExamplesInv, CleanUp PROVE ExamplesInv'
  OBVIOUS
<1>1. /\ stage \in Finalizing /\ stage' = "confirm-fixtures"
      /\ UNCHANGED <<sources, full, reads, execution, closing, receipt>>
      /\ verdict' = verdict \/ verdict' = "failed"
      /\ receipt # "passed" /\ receipt \in {"none", "torn", "passed", "failed"}
  BY DEF CleanUp, Enter, Finalizing, ExamplesInv, ExamplesShape, VerdictInv
<1>2. ClosingInv'
  BY <1>1 DEF ClosingInv, AfterFixtures, AfterCopy, AfterSources, AfterCopied, AfterHarness
<1>3. stage' \in Finalizing
  BY <1>1 DEF Finalizing
<1>4. QED
  BY <1>1, <1>2, <1>3, FinalizeKeeps DEF ExamplesInv, ExamplesShape

\* A look is noted, and what the earlier looks found stays.
LEMMA ConfirmKeeps ==
  ASSUME ExamplesInv, stage \in Finalizing, NEW look \in {"fixtures", "copy", "sources", "copied", "harness"},
         NEW seen, seen \in IF look \in {"sources", "copied"} THEN [Parts -> Nat] ELSE Nat,
         NEW held \in BOOLEAN, NEW next \in Finalizing, Confirm(look, seen, held, next),
         verdict' = "passed" => ClosingInv'
  PROVE  ExamplesInv'
<1>1. /\ stage' \in Finalizing /\ receipt' = receipt /\ (verdict' = verdict \/ verdict' = "failed")
      /\ UNCHANGED <<sources, full, reads, execution>>
  BY DEF Confirm, Enter
<1>2. receipt # "passed" /\ receipt \in {"none", "torn", "passed", "failed"}
  BY DEF ExamplesInv, ExamplesShape, VerdictInv, Finalizing
<1>3. closing' \in [fixtures : Nat, copy : Nat, sources : [Parts -> Nat], copied : [Parts -> Nat],
                    harness : Nat]
  BY DEF Confirm, ExamplesInv, ExamplesShape
<1>4. ClosingInv'
  BY DEF ClosingInv
<1>5. QED
  BY <1>1, <1>2, <1>3, <1>4, FinalizeKeeps

\* What a passing look finds, and what it leaves as it was.
LEMMA LookPasses ==
  ASSUME ExamplesInv, NEW look, NEW seen, NEW held \in BOOLEAN, NEW next, Confirm(look, seen, held, next),
         verdict' = "passed"
  PROVE  /\ held /\ verdict = "passed" /\ stage' = next /\ closing' = [closing EXCEPT ![look] = seen]
         /\ UNCHANGED <<root, copy, script, before, blocks, visible, copied, full, foreign>>
  BY DEF Confirm, Enter, sources, reads, execution, ExamplesInv, ExamplesShape

\* Documents and fixtures are fingerprinted again: changed once, they would differ.
LEMMA ConfirmFixturesKeeps == ExamplesInv /\ ConfirmFixtures => ExamplesInv'
<1> SUFFICES ASSUME ExamplesInv, ConfirmFixtures PROVE ExamplesInv'
  OBVIOUS
<1> DEFINE held == before # None => Fingerprint(root) = before
<1>1. stage = "confirm-fixtures" /\ Confirm("fixtures", root["fixtures"], held, "confirm-copy")
  BY DEF ConfirmFixtures
<1>2. held \in BOOLEAN /\ stage \in Finalizing /\ "confirm-copy" \in Finalizing
  BY <1>1 DEF Finalizing
<1>3. root["fixtures"] \in Nat
  BY DEF ExamplesInv, ExamplesShape, Parts
<1> HIDE DEF held
<1>4. ASSUME verdict' = "passed" PROVE ClosingInv'
  <2>1. /\ held /\ verdict = "passed" /\ stage' = "confirm-copy"
        /\ closing' = [closing EXCEPT !["fixtures"] = root["fixtures"]]
        /\ UNCHANGED <<root, copy, script, before, blocks, visible, copied, full, foreign>>
    BY <1>1, <1>2, <1>4, LookPasses
  <2>2. closing'.fixtures = root["fixtures"]
    BY <2>1 DEF ExamplesInv, ExamplesShape
  <2>3. Digest(root["fixtures"]) = before
    BY <2>1 DEF ExamplesInv, BlocksInv, Fingerprint, AfterFixtures, held
  <2>4. Reverting => root["fixtures"] >= 2
    BY <1>3, <2>3, DigestParity DEF Reverting
  <2>5. (blocks = before \/ Reverting) /\ (~full /\ foreign => Reverting)
    BY <2>1 DEF ExamplesInv, BlocksInv, ForeignInv
  <2>6. QED
    BY <2>1, <2>2, <2>3, <2>4, <2>5
       DEF ClosingInv, AfterFixtures, AfterCopy, AfterSources, AfterCopied, AfterHarness
<1>5. QED
  BY <1>1, <1>2, <1>3, <1>4, ConfirmKeeps

\* The copy is fingerprinted again.
LEMMA ConfirmCopyKeeps == ExamplesInv /\ ConfirmCopy => ExamplesInv'
<1> SUFFICES ASSUME ExamplesInv, ConfirmCopy PROVE ExamplesInv'
  OBVIOUS
<1> DEFINE held == copied # None => Fingerprint(copy) = copied
<1>1. stage = "confirm-copy" /\ Confirm("copy", copy["fixtures"], held, "confirm-sources")
  BY DEF ConfirmCopy
<1>2. held \in BOOLEAN /\ stage \in Finalizing /\ "confirm-sources" \in Finalizing
  BY <1>1 DEF Finalizing
<1>3. copy["fixtures"] \in Nat
  BY DEF ExamplesInv, ExamplesShape, Parts
<1>4. ASSUME verdict' = "passed" PROVE ClosingInv'
  <2>1. /\ held /\ verdict = "passed" /\ stage' = "confirm-sources"
        /\ closing' = [closing EXCEPT !["copy"] = copy["fixtures"]]
        /\ UNCHANGED <<root, copy, script, before, blocks, visible, copied, full, foreign>>
    BY <1>1, <1>2, <1>4, LookPasses
  <2>2. closing'.copy = copy["fixtures"] /\ closing'.fixtures = closing.fixtures
    BY <2>1 DEF ExamplesInv, ExamplesShape
  <2>3. full => Digest(copy["fixtures"]) = copied
    <3>1. full => copied \in {0, 1}
      BY <2>1 DEF ExamplesInv, CopyInv, Parts
    <3>2. QED
      BY <2>1, <3>1 DEF None, Fingerprint
  <2>4. QED
    BY <1>1, <2>1, <2>2, <2>3
       DEF ExamplesInv, ClosingInv, AfterFixtures, AfterCopy, AfterSources, AfterCopied, AfterHarness
<1> HIDE DEF held
<1>5. QED
  BY <1>1, <1>2, <1>3, <1>4, ConfirmKeeps

\* The files of the checkout are listed and hashed again.
LEMMA ConfirmSourcesKeeps == ExamplesInv /\ ConfirmSources => ExamplesInv'
<1> SUFFICES ASSUME ExamplesInv, ConfirmSources PROVE ExamplesInv'
  OBVIOUS
<1> DEFINE held == visible # Unseen => SourceFiles(root) = visible
<1>1. stage = "confirm-sources" /\ Confirm("sources", root, held, "confirm-copied-sources")
  BY DEF ConfirmSources
<1>2. held \in BOOLEAN /\ stage \in Finalizing /\ "confirm-copied-sources" \in Finalizing
  BY <1>1 DEF Finalizing
<1>3. root \in [Parts -> Nat]
  BY DEF ExamplesInv, ExamplesShape
<1>4. ASSUME verdict' = "passed" PROVE ClosingInv'
  <2>1. /\ held /\ verdict = "passed" /\ stage' = "confirm-copied-sources"
        /\ closing' = [closing EXCEPT !["sources"] = root]
        /\ UNCHANGED <<root, copy, script, before, blocks, visible, copied, full, foreign>>
    BY <1>1, <1>2, <1>4, LookPasses
  <2>2. /\ closing'.sources = root /\ closing'.fixtures = closing.fixtures
        /\ closing'.copy = closing.copy
    BY <2>1 DEF ExamplesInv, ExamplesShape
  <2>3. full => SourceFiles(root) = visible
    BY <2>1 DEF ExamplesInv, CopyInv
  <2>4. SourceFiles(closing.sources)' = SourceFiles(root)
    BY <2>2 DEF SourceFiles
  <2>5. QED
    BY <1>1, <2>1, <2>2, <2>3, <2>4
       DEF ExamplesInv, ClosingInv, AfterFixtures, AfterCopy, AfterSources, AfterCopied, AfterHarness
<1> HIDE DEF held
<1>5. QED
  BY <1>1, <1>2, <1>3, <1>4, ConfirmKeeps

\* So are those of the copy: changed once, it would differ.
LEMMA ConfirmCopiedSourcesKeeps == ExamplesInv /\ ConfirmCopiedSources => ExamplesInv'
<1> SUFFICES ASSUME ExamplesInv, ConfirmCopiedSources PROVE ExamplesInv'
  OBVIOUS
<1> DEFINE held == visible # Unseen => SourceFiles(copy) = visible
<1>1. stage = "confirm-copied-sources" /\ Confirm("copied", copy, held, "confirm-harness")
  BY DEF ConfirmCopiedSources
<1>2. held \in BOOLEAN /\ stage \in Finalizing /\ "confirm-harness" \in Finalizing
  BY <1>1 DEF Finalizing
<1>3. copy \in [Parts -> Nat]
  BY DEF ExamplesInv, ExamplesShape
<1>4. ASSUME verdict' = "passed" PROVE ClosingInv'
  <2>1. /\ held /\ verdict = "passed" /\ stage' = "confirm-harness"
        /\ closing' = [closing EXCEPT !["copied"] = copy]
        /\ UNCHANGED <<root, copy, script, before, blocks, visible, copied, full, foreign>>
    BY <1>1, <1>2, <1>4, LookPasses
  <2>2. /\ closing'.copied = copy /\ closing'.fixtures = closing.fixtures
        /\ closing'.copy = closing.copy /\ closing'.sources = closing.sources
    BY <2>1 DEF ExamplesInv, ExamplesShape
  <2>3. full => SourceFiles(copy) = visible
    BY <2>1 DEF ExamplesInv, CopyInv
  <2>4. full /\ foreign => \E p \in Parts : copy[p] >= visible[p] + 2
    <3> SUFFICES ASSUME full, foreign PROVE \E p \in Parts : copy[p] >= visible[p] + 2
      OBVIOUS
    <3>1. PICK p \in Parts : visible[p] < copy[p] /\ visible[p] \in {0, 1}
      BY <2>1 DEF ExamplesInv, CopyInv
    <3>2. copy[p] \in Nat /\ visible[p] = copy[p] % 2
      BY <1>3, <2>3 DEF SourceFiles, Digest
    <3>3. copy[p] >= visible[p] + 2
      BY <3>1, <3>2
    <3>4. QED
      BY <3>3
  <2>5. SourceFiles(closing.copied)' = SourceFiles(copy) /\ SourceFiles(closing.sources)' = SourceFiles(closing.sources)
    BY <2>2 DEF SourceFiles
  <2>6. QED
    BY <1>1, <2>1, <2>2, <2>3, <2>4, <2>5
       DEF ExamplesInv, ClosingInv, AfterFixtures, AfterCopy, AfterSources, AfterCopied, AfterHarness
<1> HIDE DEF held
<1>5. QED
  BY <1>1, <1>2, <1>3, <1>4, ConfirmKeeps

\* At last the script itself is hashed again.
LEMMA ConfirmHarnessKeeps == ExamplesInv /\ ConfirmHarness => ExamplesInv'
<1> SUFFICES ASSUME ExamplesInv, ConfirmHarness PROVE ExamplesInv'
  OBVIOUS
<1> DEFINE held == Digest(root["harness"]) = script
<1>1. stage = "confirm-harness" /\ Confirm("harness", root["harness"], held, "truncate")
  BY DEF ConfirmHarness
<1>2. held \in BOOLEAN /\ stage \in Finalizing /\ "truncate" \in Finalizing
  BY <1>1 DEF Finalizing
<1>3. root["harness"] \in Nat
  BY DEF ExamplesInv, ExamplesShape, Parts
<1> HIDE DEF held
<1>4. ASSUME verdict' = "passed" PROVE ClosingInv'
  <2>1. /\ held /\ verdict = "passed" /\ stage' = "truncate"
        /\ closing' = [closing EXCEPT !["harness"] = root["harness"]]
        /\ UNCHANGED <<root, copy, script, before, blocks, visible, copied, full, foreign>>
    BY <1>1, <1>2, <1>4, LookPasses
  <2>2. /\ closing'.harness = root["harness"] /\ closing'.fixtures = closing.fixtures
        /\ closing'.copy = closing.copy /\ closing'.sources = closing.sources
        /\ closing'.copied = closing.copied
    BY <2>1 DEF ExamplesInv, ExamplesShape
  <2>3. SourceFiles(closing.copied)' = SourceFiles(closing.copied) /\ SourceFiles(closing.sources)' = SourceFiles(closing.sources)
    BY <2>2 DEF SourceFiles
  <2>4. QED
    BY <1>1, <2>1, <2>2, <2>3
       DEF ExamplesInv, ClosingInv, AfterFixtures, AfterCopy, AfterSources, AfterCopied, AfterHarness, held
<1>5. QED
  BY <1>1, <1>2, <1>3, <1>4, ConfirmKeeps

\* git runs out of time, before the first block or in the finalization.
LEMMA GitTimeOutKeeps == ExamplesInv /\ GitTimeOut => ExamplesInv'
<1> SUFFICES ASSUME ExamplesInv, GitTimeOut PROVE ExamplesInv'
  OBVIOUS
<1> USE DEF GitTimeOut, Enter, sources
<1>1. CASE stage \in {"visible", "copied"} /\ FailCopy
  <2>1. GiveUp /\ stage \in Preparing
    BY <1>1 DEF FailCopy, Preparing
  <2>2. ExamplesShape'
    BY <2>1, UnseenType DEF ExamplesInv, ExamplesShape, GiveUp, FailCopy, Finalizing, execution, outcome, Expected
  <2>3. QED
    BY <2>1, <2>2, GiveUpKeeps DEF outcome
<1>2. CASE stage \in {"confirm-sources", "confirm-copied-sources"} /\ Enter("raised") /\ UNCHANGED <<visible, copied>>
  <2>1. stage \in Finalizing /\ stage' = "raised" /\ stage' \in Over /\ receipt # "passed"
    BY <1>2 DEF Finalizing, Over, ExamplesInv, VerdictInv
  <2>2. ClosingInv'
    BY <2>1 DEF ClosingInv, AfterFixtures, AfterCopy, AfterSources, AfterCopied, AfterHarness
  <2>3. UNCHANGED <<sources, full, reads, execution, outcome>>
    BY <1>2 DEF reads
  <2>4. QED
    BY <2>1, <2>2, <2>3, FinalizeKeeps DEF outcome, ExamplesInv, ExamplesShape
<1>3. QED
  BY <1>1, <1>2 DEF GitTimeOut

\* The receipt is truncated and written with the verdict.
LEMMA ReceiptSteps == ExamplesInv /\ (TruncateReceipt \/ WriteReceipt \/ KillRun) => ExamplesInv'
<1> SUFFICES ASSUME ExamplesInv, TruncateReceipt \/ WriteReceipt \/ KillRun PROVE ExamplesInv'
  OBVIOUS
<1>1. /\ stage \in {"truncate", "write"} /\ stage \in Finalizing /\ stage' \in Finalizing \cup Over
      /\ stage' \in AfterHarness
      /\ UNCHANGED <<sources, full, reads, execution, closing>> /\ verdict' = verdict
  BY DEF TruncateReceipt, WriteReceipt, KillRun, Enter, Finalizing, Over, outcome, AfterHarness
<1>2. receipt # "passed" /\ receipt \in {"none", "torn", "passed", "failed"} /\ verdict \in {"passed", "failed"}
  BY <1>1 DEF ExamplesInv, ExamplesShape, VerdictInv
<1>3. /\ receipt' \in {"none", "torn", "passed", "failed"}
      /\ receipt' = "passed" => verdict' = "passed" /\ stage' = "ended"
  BY <1>1, <1>2 DEF TruncateReceipt, WriteReceipt, KillRun, Enter, outcome
<1>4. ClosingInv'
  <2>1. SourceFiles(closing.copied)' = SourceFiles(closing.copied) /\ SourceFiles(closing.sources)' = SourceFiles(closing.sources)
    BY <1>1 DEF SourceFiles
  <2>2. QED
    BY <1>1, <2>1 DEF ExamplesInv, ClosingInv, AfterFixtures, AfterCopy, AfterSources, AfterCopied,
       AfterHarness, sources, reads, execution
<1>5. QED
  BY <1>1, <1>3, <1>4, FinalizeKeeps DEF ExamplesInv, ExamplesShape

----------------------------------------------------------------------------
(* What happens around the run, and the theorem.                           *)

\* Nothing that a run reads is undone by editors, stray processes or other runs.
LEMMA AroundKeeps ==
  ASSUME ExamplesInv,
         UNCHANGED <<full, stage, reads, group, progress, completed, ran, foreign, outcome>>,
         root' \in [Parts -> Nat], copy' \in [Parts -> Nat],
         root'["fixtures"] \in {root["fixtures"], root["fixtures"] + 1},
         \A p \in Parts : copy[p] <= copy'[p]
  PROVE  ExamplesInv'
<1> USE DEF reads, outcome
<1>1. ExamplesShape'
  BY DEF ExamplesInv, ExamplesShape, Expected
<1>2. Groups' = Groups /\ Selected' = Selected /\ Done(group)' = Done(group)
  BY DoneStays
<1>3. GroupInv'
  BY <1>2 DEF ExamplesInv, GroupInv
<1>4. BlocksInv' /\ ForeignInv'
  <2>1. root["fixtures"] \in Nat
    BY DEF ExamplesInv, ExamplesShape, Parts
  <2>2. (root'["fixtures"] = 0 => root["fixtures"] = 0) /\ (Reverting => Reverting')
    BY <2>1 DEF Reverting
  <2>3. QED
    BY <2>2 DEF ExamplesInv, BlocksInv, ForeignInv
<1>5. CopyInv'
  <2> SUFFICES ASSUME full, stage \in {"syntax", "execute"} \cup Executing \/ verdict = "passed"
               PROVE  /\ visible # Unseen /\ copied = visible["fixtures"]
                      /\ \A p \in Parts : visible[p] \in {0, 1} /\ visible[p] <= copy'[p]
                      /\ foreign => \E p \in Parts : visible[p] < copy'[p]
    BY DEF CopyInv
  <2>1. /\ visible # Unseen /\ copied = visible["fixtures"]
        /\ \A p \in Parts : visible[p] \in {0, 1} /\ visible[p] <= copy[p]
        /\ foreign => \E p \in Parts : visible[p] < copy[p]
    BY DEF ExamplesInv, CopyInv
  <2>2. \A p \in Parts : copy[p] \in Nat /\ copy'[p] \in Nat
    BY DEF ExamplesInv, ExamplesShape
  <2>3. \A p \in Parts : visible[p] <= copy'[p] /\ (visible[p] < copy[p] => visible[p] < copy'[p])
    BY <2>1, <2>2
  <2>4. QED
    BY <2>1, <2>3
<1>6. ClosingInv'
  <2>1. SourceFiles(closing.copied)' = SourceFiles(closing.copied) /\ SourceFiles(closing.sources)' = SourceFiles(closing.sources)
    BY DEF SourceFiles
  <2>2. QED
    BY <2>1 DEF ExamplesInv, ClosingInv
<1>7. VerdictInv'
  BY <1>2 DEF ExamplesInv, VerdictInv, Expected
<1>8. QED
  BY <1>1, <1>3, <1>4, <1>5, <1>6, <1>7 DEF ExamplesInv

\* What happens around the run.
LEMMA EnvironmentKeeps ==
  ExamplesInv /\ (Detach \/ StrayEnds \/ OtherRun \/ UNCHANGED examplesVars
                  \/ \E p \in Parts : Edit(p) \/ EditCopy(p)) => ExamplesInv'
<1> SUFFICES ASSUME ExamplesInv,
                    Detach \/ StrayEnds \/ OtherRun \/ UNCHANGED examplesVars
                      \/ \E p \in Parts : Edit(p) \/ EditCopy(p)
             PROVE  ExamplesInv'
  OBVIOUS
<1>1. root \in [Parts -> Nat] /\ copy \in [Parts -> Nat] /\ "fixtures" \in Parts
  BY DEF ExamplesInv, ExamplesShape, Parts
<1>2. CASE Detach \/ StrayEnds \/ OtherRun \/ UNCHANGED examplesVars
  <2>1. UNCHANGED <<sources, full, stage, reads, group, progress, completed, ran, foreign, outcome>>
    BY <1>2 DEF Detach, StrayEnds, OtherRun, examplesVars, execution
  <2>2. root["fixtures"] \in Nat /\ \A p \in Parts : copy[p] <= copy[p]
    BY <1>1
  <2>3. QED
    BY <1>1, <2>1, <2>2, AroundKeeps DEF sources
<1>3. ASSUME NEW p \in Parts, Edit(p) \/ EditCopy(p)
      PROVE  ExamplesInv'
  <2>1. UNCHANGED <<full, stage, reads, group, progress, completed, ran, foreign, outcome>>
    BY <1>3 DEF Edit, EditCopy, execution
  <2>2. root' \in [Parts -> Nat] /\ copy' \in [Parts -> Nat]
    BY <1>1, <1>3 DEF Edit, EditCopy
  <2>3. root'["fixtures"] \in {root["fixtures"], root["fixtures"] + 1}
    BY <1>1, <1>3 DEF Edit, EditCopy
  <2>4. \A q \in Parts : copy[q] <= copy'[q]
    BY <1>1, <1>3 DEF Edit, EditCopy
  <2>5. QED
    BY <2>1, <2>2, <2>3, <2>4, AroundKeeps
<1>4. QED
  BY <1>2, <1>3

\* The invariant holds at first.
LEMMA ExamplesStart == ExamplesInit => ExamplesInv
<1> SUFFICES ASSUME ExamplesInit PROVE ExamplesInv
  OBVIOUS
<1>1. ExamplesShape
  <2>1. <<>> \in Seq(Expected)
    BY EmptySeq
  <2>2. visible \in [Parts -> Nat] /\ root \in [Parts -> Nat] /\ copy \in [Parts -> Nat]
    BY UnseenType DEF ExamplesInit
  <2>3. closing \in [fixtures : Nat, copy : Nat, sources : [Parts -> Nat], copied : [Parts -> Nat],
                     harness : Nat]
    BY <2>2 DEF ExamplesInit
  <2>4. /\ full \in BOOLEAN /\ stage = "start" /\ before = None /\ group = 1 /\ progress = <<>>
        /\ completed = <<>> /\ ran = <<>> /\ foreign = FALSE /\ verdict = "failed" /\ receipt = "none"
    BY DEF ExamplesInit
  <2>5. /\ group \in Nat \ {0} /\ progress \in Seq(Expected) /\ completed \in Seq(Expected)
        /\ ran \in Seq(Expected) /\ verdict \in {"passed", "failed"}
        /\ receipt \in {"none", "torn", "passed", "failed"} /\ before \in {0, 1, None}
    BY <2>1, <2>4
  <2>6. foreign \in BOOLEAN
    BY <2>4, Zenon
  <2>7. stage \in Preparing \cup {"execute"} \cup Executing \cup Finalizing \cup Over
    BY <2>4 DEF Preparing
  <2>8. QED
    BY <2>2, <2>3, <2>4, <2>5, <2>6, <2>7, Zenon DEF ExamplesShape
<1>2. GroupInv /\ BlocksInv /\ ForeignInv /\ CopyInv /\ ClosingInv /\ VerdictInv
  BY DEF ExamplesInit, GroupInv, BlocksInv, ForeignInv, CopyInv, ClosingInv, VerdictInv, Preparing, Executing
<1>3. QED
  BY <1>1, <1>2 DEF ExamplesInv

\* Every step keeps it.
LEMMA ExamplesStep == ExamplesInv /\ [ExamplesNext]_examplesVars => ExamplesInv'
<1> SUFFICES ASSUME ExamplesInv, ExamplesNext PROVE ExamplesInv'
  BY EnvironmentKeeps
<1>1. CASE Work
  BY <1>1, CheckResultsKeeps, MakeResultsKeeps, TakeFingerprintKeeps, RegisterBlocksKeeps,
     ListSourcesKeeps, PrepareCheckoutKeeps, FingerprintCopyKeeps, CheckSyntaxKeeps, StartKeeps,
     ExitKeeps, CollectKeeps, ConcludeKeeps, CleanUpKeeps, ConfirmFixturesKeeps, ConfirmCopyKeeps,
     ConfirmSourcesKeeps, ConfirmCopiedSourcesKeeps, ConfirmHarnessKeeps, ReceiptSteps
     DEF Work
<1>2. CASE GitTimeOut \/ KillRun
  BY <1>2, GitTimeOutKeeps, ReceiptSteps
<1>3. CASE RunBlock \/ \E code \in {"passed", "failed"} : Exit(code)
  BY <1>3, RunBlockKeeps, ExitKeeps
<1>4. CASE Detach \/ StrayEnds \/ OtherRun \/ \E p \in Parts : Edit(p) \/ EditCopy(p)
  BY <1>4, EnvironmentKeeps
<1>5. QED
  BY <1>1, <1>2, <1>3, <1>4 DEF ExamplesNext

\* The inductive invariant of check_documented_examples.py: at every stage the blocks that
\* ran, and those the receipt will name, are the groups before the current one.
THEOREM ExamplesInvariance == ExamplesSpec => []ExamplesInv
<1>1. ExamplesInit => ExamplesInv
  BY ExamplesStart
<1>2. ExamplesInv /\ [ExamplesNext]_examplesVars => ExamplesInv'
  BY ExamplesStep
<1>3. QED
  BY <1>1, <1>2, PTL DEF ExamplesSpec

\* A receipt that says "passed" is complete, for every list of documents and blocks and
\* however often the sources are changed.
THEOREM PassedReceiptsAreComplete == ExamplesSpec => []PassedIsComplete
<1>1. ExamplesInv => PassedIsComplete
  <2> SUFFICES ASSUME ExamplesInv, receipt = "passed"
               PROVE  /\ ran = Selected /\ completed = Selected
                      /\ full => ToSet(completed) = Expected /\ visible # Unseen /\ copied = visible["fixtures"]
                      /\ blocks = before \/ closing.fixtures >= 2
    BY DEF PassedIsComplete
  <2>1. verdict = "passed" /\ stage = "ended"
    BY DEF ExamplesInv, VerdictInv
  <2>2. QED
    BY <2>1 DEF ExamplesInv, VerdictInv, CopyInv, ClosingInv, AfterFixtures, AfterCopy, AfterSources,
       AfterCopied, AfterHarness
<1>2. QED
  BY <1>1, ExamplesInvariance, PTL

\* Behind a receipt that says "passed" the closing looks found what it records, and every
\* block ran on it unless the sources were changed and changed back.
THEOREM PassedReceiptsNameTheirSources == ExamplesSpec => []PassedOnRecordedSources
<1>1. ExamplesInv => PassedOnRecordedSources
  <2> SUFFICES ASSUME ExamplesInv, receipt = "passed"
               PROVE  /\ Digest(closing.fixtures) = before /\ Digest(closing.harness) = script
                      /\ full => /\ Digest(closing.copy) = copied
                                 /\ SourceFiles(closing.sources) = visible
                                 /\ SourceFiles(closing.copied) = visible
                      /\ foreign => IF full THEN \E p \in Parts : closing.copied[p] >= visible[p] + 2
                                    ELSE closing.fixtures >= 2
    BY DEF PassedOnRecordedSources
  <2>1. verdict = "passed" /\ stage = "ended" /\ full \in BOOLEAN
    BY DEF ExamplesInv, ExamplesShape, VerdictInv
  <2>2. QED
    BY <2>1 DEF ExamplesInv, ClosingInv, AfterFixtures, AfterCopy, AfterSources, AfterCopied, AfterHarness
<1>2. QED
  BY <1>1, ExamplesInvariance, PTL
============================================================================
