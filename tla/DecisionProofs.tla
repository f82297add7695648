--------------------------- MODULE DecisionProofs ---------------------------
(***************************************************************************)
(* Theorems about what an assessment computes: the closure of Derivation,  *)
(* the trees of Conditions, the dates of Calendar and the questions, dates *)
(* and deadlines of Intake, for any pack and any input.                    *)
(*                                                                         *)
(* Derivation and Intake rest on an inductive invariant each, ClosureInv   *)
(* and IntakeInv.  Conditions and Calendar are recursive functions over    *)
(* data: that such a function exists, and what it computes, is proved by   *)
(* taking a least counterexample.                                          *)
(***************************************************************************)
EXTENDS Derivation, Intake, FiniteSetTheorems, SequenceTheorems, WellFoundedInduction, TLAPS

-----------------------------------------------------------------------------
(* Derivation: the invariant.                                              *)

Fired == {applied[k] : k \in 1 .. Len(applied)}

\* Every rule is pending, set aside in this pass, or fired, and never two of them.
PartitionInv ==
  /\ todo \cap remaining = {} /\ todo \cap Fired = {} /\ remaining \cap Fired = {}
  /\ Rules = todo \cup remaining \cup Fired

\* The flags found so far are the given ones and what the fired rules set; a
\* rule set aside is false on the flags of the start of the pass.
FlagsInv ==
  /\ given \subseteq result
  /\ \A r \in Fired : derivations[r].sets \subseteq result \cup additions
  /\ \A r \in remaining : result \notin derivations[r].when
  /\ result \cup additions = given \cup SetBy(Len(applied))
  /\ phase = "done" => todo = {} /\ additions = {}

\* Nothing is found that some closed set does without.
SoundInv == \A C \in Models : result \cup additions \subseteq C

\* The first half of TraceReplays.
ReplayInv ==
  \A k \in 1 .. Len(applied) : (given \cup SetBy(k - 1)) \in derivations[applied[k]].when

\* The inductive invariant.
ClosureInv == TypeOK /\ PartitionInv /\ FlagsInv /\ SoundInv /\ ReplayInv /\ FiresOnce

-----------------------------------------------------------------------------
(* Facts about the trace. *)

\* A rule's condition is upward closed and its flags are of the registry.
LEMMA RuleFacts ==
  ASSUME TypeOK, NEW r \in Rules
  PROVE  /\ derivations[r].sets \subseteq Flags
         /\ \A F \in derivations[r].when, G \in SUBSET Flags : F \subseteq G => G \in derivations[r].when
<1>1. derivations[r] \in RuleSpace
  BY DEF TypeOK
<1> QED
  BY <1>1, DerivationAssumption DEF PositiveOnly

\* What one more entry does to the trace.
LEMMA OneMore ==
  ASSUME TypeOK, NEW r \in Rules, applied' = Append(applied, r), derivations' = derivations,
         NEW n, n = Len(applied)
  PROVE  /\ Len(applied') = Len(applied) + 1
         /\ Len(applied) \in Nat
         /\ applied'[Len(applied) + 1] = r
         /\ \A k \in 1 .. Len(applied) : applied'[k] = applied[k] /\ applied[k] \in Rules
         /\ Fired' = Fired \cup {r}
         /\ \A k \in 0 .. Len(applied) : SetBy(k)' = SetBy(k)
         /\ SetBy(n + 1)' = SetBy(n) \cup derivations[r].sets
<1>1. /\ applied \in Seq(Rules)
      /\ Len(applied) \in Nat
      /\ Len(applied') = Len(applied) + 1
      /\ applied'[Len(applied) + 1] = r
      /\ \A k \in 1 .. Len(applied) : applied'[k] = applied[k] /\ applied[k] \in Rules
  BY DEF TypeOK
<1>2. 1 .. Len(applied') = (1 .. Len(applied)) \cup {Len(applied) + 1}
  BY <1>1
<1>3. Fired' = Fired \cup {r}
  BY <1>1, <1>2 DEF Fired
<1>4. ASSUME NEW k \in 0 .. Len(applied)
      PROVE  SetBy(k)' = SetBy(k)
  <2>1. \A j \in 1 .. k : applied'[j] = applied[j]
    BY <1>1
  <2> QED
    BY <2>1 DEF SetBy
<1>5. SetBy(n + 1)' = SetBy(n) \cup derivations[r].sets
  <2>1. 1 .. (n + 1) = (1 .. n) \cup {n + 1}
    BY <1>1
  <2>2. \A j \in 1 .. n : applied'[j] = applied[j]
    BY <1>1
  <2>3. applied'[n + 1] = r
    BY <1>1
  <2>4. UNION {derivations'[applied'[j]].sets : j \in 1 .. (n + 1)} =
          (UNION {derivations[applied[j]].sets : j \in 1 .. n}) \cup derivations[r].sets
    BY <2>1, <2>2, <2>3
  <2> QED
    BY <2>4 DEF SetBy
<1> QED
  BY <1>1, <1>3, <1>4, <1>5

-----------------------------------------------------------------------------
(* The invariant. *)

LEMMA InitInv == DerivationInit => ClosureInv
<1> SUFFICES ASSUME DerivationInit
             PROVE  ClosureInv
  OBVIOUS
<1>1. TypeOK
  BY DEF DerivationInit, TypeOK
<1>2. Fired = {} /\ Len(applied) = 0
  BY DEF DerivationInit, Fired
<1>3. SetBy(0) = {}
  BY DEF SetBy
<1>4. PartitionInv
  BY <1>2 DEF DerivationInit, PartitionInv
<1>5. FlagsInv
  BY <1>2, <1>3 DEF DerivationInit, FlagsInv
<1>6. SoundInv
  BY DEF DerivationInit, SoundInv, Models
<1>7. ReplayInv /\ FiresOnce
  BY <1>2 DEF ReplayInv, FiresOnce
<1> QED
  BY <1>1, <1>4, <1>5, <1>6, <1>7 DEF ClosureInv

\* A rule whose condition is false moves to the remaining ones.
LEMMA SetAsideInv ==
  ASSUME ClosureInv, NEW r \in Rules, EvaluateRule(r), result \notin derivations[r].when
  PROVE  ClosureInv'
<1> USE DEF ClosureInv
<1>1. /\ UNCHANGED <<derivations, given, result, phase, additions, applied>>
      /\ todo' = todo \ {r} /\ remaining' = remaining \cup {r}
      /\ evaluated' = evaluated + 1 /\ r \in todo
  BY DEF EvaluateRule
<1>2. Fired' = Fired /\ Models' = Models
  BY <1>1 DEF Fired, Models, Closed
<1>3. \A k : SetBy(k)' = SetBy(k)
  BY <1>1 DEF SetBy
<1>4. TypeOK'
  BY <1>1 DEF TypeOK
<1>5. PartitionInv'
  BY <1>1, <1>2 DEF PartitionInv
<1>6. FlagsInv'
  BY <1>1, <1>2, <1>3 DEF FlagsInv, EvaluateRule
<1>7. SoundInv'
  BY <1>1, <1>2 DEF SoundInv
<1>8. ReplayInv' /\ FiresOnce'
  BY <1>1, <1>3 DEF ReplayInv, FiresOnce
<1> QED
  BY <1>4, <1>5, <1>6, <1>7, <1>8

\* A rule whose condition is true fires.
LEMMA FireInv ==
  ASSUME ClosureInv, NEW r \in Rules, EvaluateRule(r), result \in derivations[r].when
  PROVE  ClosureInv'
<1> USE DEF ClosureInv
<1>1. /\ UNCHANGED <<derivations, given, result, phase, remaining>>
      /\ todo' = todo \ {r} /\ additions' = additions \cup (derivations[r].sets \ result)
      /\ applied' = Append(applied, r)
      /\ evaluated' = evaluated + 1 /\ r \in todo /\ phase = "pass"
  BY DEF EvaluateRule, Found, Record
<1>n. PICK n : n = Len(applied)
  OBVIOUS
<1>2. /\ Len(applied') = Len(applied) + 1
      /\ Len(applied) \in Nat
      /\ applied'[Len(applied) + 1] = r
      /\ \A k \in 1 .. Len(applied) : applied'[k] = applied[k] /\ applied[k] \in Rules
      /\ Fired' = Fired \cup {r}
      /\ \A k \in 0 .. Len(applied) : SetBy(k)' = SetBy(k)
      /\ SetBy(n + 1)' = SetBy(n) \cup derivations[r].sets
  BY <1>1, <1>n, OneMore
<1>3. /\ derivations[r].sets \subseteq Flags
      /\ \A F \in derivations[r].when, G \in SUBSET Flags : F \subseteq G => G \in derivations[r].when
  BY RuleFacts
<1>4. r \notin Fired /\ r \notin remaining
  BY <1>1 DEF PartitionInv
<1>5. TypeOK'
  BY <1>1, <1>3 DEF TypeOK
<1>6. PartitionInv'
  BY <1>1, <1>2, <1>4 DEF PartitionInv
<1>7. FlagsInv'
  <2>1. result' \cup additions' = result \cup additions \cup derivations[r].sets
    BY <1>1
  <2>2. \A q \in Fired' : derivations'[q].sets \subseteq result' \cup additions'
    BY <1>1, <1>2, <2>1 DEF FlagsInv
  <2>3. result' \cup additions' = given' \cup SetBy(n + 1)'
    BY <1>1, <1>n, <1>2, <2>1 DEF FlagsInv
  <2>4. SetBy(n + 1)' = SetBy(Len(applied))'
    BY <1>n, <1>2
  <2>5. /\ given' \subseteq result'
        /\ \A q \in remaining' : result' \notin derivations'[q].when
        /\ phase' # "done"
    BY <1>1 DEF FlagsInv
  <2> QED
    BY <2>2, <2>3, <2>4, <2>5 DEF FlagsInv
<1>8. SoundInv'
  <2> SUFFICES ASSUME NEW C \in Models'
               PROVE  result' \cup additions' \subseteq C
    BY DEF SoundInv
  <2>1. C \in Models /\ C \in SUBSET Flags
    BY <1>1 DEF Models, Closed
  <2>2. result \cup additions \subseteq C
    BY <2>1 DEF SoundInv
  <2>3. C \in derivations[r].when
    BY <1>3, <2>1, <2>2
  <2>4. derivations[r].sets \subseteq C
    BY <2>1, <2>3 DEF Models, Closed
  <2> QED
    BY <1>1, <2>2, <2>4
<1>9. ReplayInv'
  <2> SUFFICES ASSUME NEW k \in 1 .. Len(applied')
               PROVE  (given' \cup SetBy(k - 1)') \in derivations'[applied'[k]].when
    BY DEF ReplayInv
  <2>1. CASE k \in 1 .. Len(applied)
    <3>1. k - 1 \in 0 .. Len(applied)
      BY <1>2, <2>1
    <3>2. SetBy(k - 1)' = SetBy(k - 1)
      BY <1>2, <3>1
    <3> QED
      BY <1>1, <1>2, <2>1, <3>2 DEF ReplayInv
  <2>2. CASE k = Len(applied) + 1
    <3>1. k - 1 = n /\ n \in 0 .. Len(applied)
      BY <1>n, <1>2, <2>2
    <3>2. SetBy(k - 1)' = SetBy(n)
      BY <1>2, <3>1
    <3>3. given \cup SetBy(n) = result \cup additions
      BY <1>n DEF FlagsInv
    <3>4. (result \cup additions) \in derivations[r].when
      BY <1>1, <1>3 DEF TypeOK
    <3> QED
      BY <1>1, <1>2, <2>2, <3>2, <3>3, <3>4
  <2> QED
    BY <1>2, <2>1, <2>2
<1>10. FiresOnce'
  <2>1. \A k \in 1 .. Len(applied) : applied[k] # r
    BY <1>4 DEF Fired
  <2> QED
    BY <1>2, <2>1 DEF FiresOnce
<1> QED
  BY <1>5, <1>6, <1>7, <1>8, <1>9, <1>10

\* The end of a pass merges what it found.
LEMMA EndPassInv ==
  ASSUME ClosureInv, EndPass
  PROVE  ClosureInv'
<1> USE DEF ClosureInv
<1>1. /\ UNCHANGED <<derivations, given, applied, evaluated>>
      /\ result' = result \cup additions /\ additions' = {}
      /\ todo = {} /\ phase = "pass"
  BY DEF EndPass
<1>2. Fired' = Fired /\ Models' = Models
  BY <1>1 DEF Fired, Models, Closed
<1>3. \A k : SetBy(k)' = SetBy(k)
  BY <1>1 DEF SetBy
<1>4. \/ todo' = {} /\ remaining' = remaining /\ additions = {}
      \/ todo' = remaining /\ remaining' = {}
  BY <1>1 DEF EndPass, Pending
<1>5. TypeOK'
  BY <1>1, <1>4 DEF TypeOK, EndPass
<1>6. PartitionInv'
  BY <1>1, <1>2, <1>4 DEF PartitionInv
<1>7. FlagsInv'
  <2>1. result' \cup additions' = result \cup additions
    BY <1>1
  <2>2. \A q \in remaining' : result' \notin derivations'[q].when
    BY <1>1, <1>4 DEF FlagsInv
  <2>3. phase' = "done" => todo' = {}
    BY <1>1, <1>4 DEF EndPass, Finished, Pending
  <2> QED
    BY <1>1, <1>2, <1>3, <2>1, <2>2, <2>3 DEF FlagsInv
<1>8. SoundInv'
  BY <1>1, <1>2 DEF SoundInv
<1>9. ReplayInv' /\ FiresOnce'
  BY <1>1, <1>3 DEF ReplayInv, FiresOnce
<1> QED
  BY <1>5, <1>6, <1>7, <1>8, <1>9

LEMMA ClosureInvariance == DerivationSpec => []ClosureInv
<1>1. ASSUME ClosureInv, [DerivationNext]_derivationVars
      PROVE  ClosureInv'
  <2>1. ASSUME NEW r \in Rules, EvaluateRule(r)
        PROVE  ClosureInv'
    BY <1>1, <2>1, SetAsideInv, FireInv
  <2>2. CASE EndPass
    BY <1>1, <2>2, EndPassInv
  <2>3. CASE UNCHANGED derivationVars
    <3>1. UNCHANGED <<derivations, given, result, todo, remaining, additions, applied, evaluated, phase>>
      BY <2>3 DEF derivationVars
    <3>2. Fired' = Fired /\ Models' = Models /\ \A k : SetBy(k)' = SetBy(k)
      BY <3>1 DEF Fired, Models, Closed, SetBy
    <3> QED
      BY <1>1, <3>1, <3>2 DEF ClosureInv, TypeOK, PartitionInv, FlagsInv, SoundInv, ReplayInv,
        FiresOnce
  <2> QED
    BY <1>1, <2>1, <2>2, <2>3 DEF DerivationNext
<1> QED
  BY <1>1, InitInv, PTL DEF DerivationSpec

-----------------------------------------------------------------------------
(* The theorems. *)

\* derive_with_trace keeps its variables in their types.
THEOREM ClosureTypeCorrect == DerivationSpec => []TypeOK
<1>1. ClosureInv => TypeOK
  BY DEF ClosureInv
<1> QED
  BY <1>1, ClosureInvariance, PTL

\* What derive_with_trace returns is the least closed set of flags that
\* contains the given ones, whatever the rules and their order.
THEOREM LeastClosure == DerivationSpec => []LeastFixedPoint
<1>1. ClosureInv => LeastFixedPoint
  <2> SUFFICES ASSUME ClosureInv, phase = "done"
               PROVE  result \in Models /\ \A C \in Models : result \subseteq C
    BY DEF LeastFixedPoint
  <2> USE DEF ClosureInv
  <2>1. todo = {} /\ additions = {}
    BY DEF FlagsInv
  <2>2. Closed(result)
    <3> SUFFICES ASSUME NEW r \in Rules, result \in derivations[r].when
                 PROVE  derivations[r].sets \subseteq result
      BY DEF Closed
    <3>1. r \in Fired
      BY <2>1 DEF PartitionInv, FlagsInv
    <3> QED
      BY <2>1, <3>1 DEF FlagsInv
  <2>3. result \in Models
    BY <2>2 DEF Models, FlagsInv, TypeOK
  <2> QED
    BY <2>3 DEF SoundInv
<1> QED
  BY <1>1, ClosureInvariance, PTL

\* derivations_applied explains every derived flag, without a repetition and in an
\* order in which each entry's condition already held.
THEOREM TraceExplains == DerivationSpec => []TraceReplays
<1>1. ClosureInv => TraceReplays
  BY DEF ClosureInv, TraceReplays, ReplayInv, FlagsInv
<1> QED
  BY <1>1, ClosureInvariance, PTL

-----------------------------------------------------------------------------
(* The bound on the work.  A pass over S rules costs S evaluations and the *)
(* next one, if there is one, has a rule less: S * (S - 1) is twice what   *)
(* the passes after this one can cost if this one fires nothing new, and   *)
(* S * (S + 1) once it has.                                                *)

Todo == Cardinality(todo)
Left == Cardinality(todo) + Cardinality(remaining)

WorkInv ==
  /\ additions = {} => 2 * evaluated + 2 * Todo + Left * (Left - 1) <= N * (N + 1)
  /\ additions # {} => 2 * evaluated + 2 * Todo + Left * (Left + 1) <= N * (N + 1)

LEMMA Sizes ==
  ASSUME TypeOK
  PROVE  /\ IsFiniteSet(todo) /\ IsFiniteSet(remaining)
         /\ Cardinality(todo) \in Nat /\ Cardinality(remaining) \in Nat
<1>1. IsFiniteSet(Rules)
  BY DerivationAssumption, FS_Interval DEF Rules
<1>2. IsFiniteSet(todo) /\ IsFiniteSet(remaining)
  BY <1>1, FS_Subset DEF TypeOK
<1> QED
  BY <1>2, FS_CardinalityType

LEMMA InitWork == DerivationInit => WorkInv
<1> SUFFICES ASSUME DerivationInit
             PROVE  WorkInv
  OBVIOUS
<1>1. N \in Nat
  BY DerivationAssumption
<1>2. Cardinality(1 .. N) = N
  BY <1>1, FS_Interval
<1>3. Todo = N /\ Left = N
  BY <1>1, <1>2, FS_EmptySet DEF DerivationInit, Rules, Todo, Left
<1>4. 2 * 0 + 2 * N + N * (N - 1) <= N * (N + 1)
  BY <1>1
<1> QED
  BY <1>3, <1>4 DEF DerivationInit, WorkInv

LEMMA EvaluateWork ==
  ASSUME ClosureInv, WorkInv, NEW r \in Rules, EvaluateRule(r)
  PROVE  WorkInv'
<1> DEFINE t == Cardinality(todo)
           m == Cardinality(remaining)
<1>1. TypeOK /\ r \in todo /\ r \notin remaining
  BY DEF ClosureInv, PartitionInv, EvaluateRule
<1>2. t \in Nat /\ m \in Nat /\ evaluated \in Nat /\ N \in Nat
  BY <1>1, Sizes, DerivationAssumption DEF TypeOK
<1>3. Cardinality(todo \ {r}) = t - 1 /\ Cardinality(remaining \cup {r}) = m + 1
  BY <1>1, Sizes, FS_RemoveElement, FS_AddElement
<1>4. t >= 1
  BY <1>1, <1>2, Sizes, FS_EmptySet
<1>5. Todo = t /\ Left = t + m
  BY DEF Todo, Left
<1>6. todo' = todo \ {r} /\ evaluated' = evaluated + 1
  BY DEF EvaluateRule
<1>7. CASE result \notin derivations[r].when
  <2>1. additions' = additions /\ remaining' = remaining \cup {r}
    BY <1>7 DEF EvaluateRule
  <2>2. Todo' = t - 1 /\ Left' = t + m
    BY <1>2, <1>3, <1>6, <2>1 DEF Todo, Left
  <2>3. 2 * evaluated' + 2 * Todo' = 2 * evaluated + 2 * Todo /\ Left' = Left
    BY <1>2, <1>5, <1>6, <2>2
  <2> QED
    BY <2>1, <2>3 DEF WorkInv
<1>8. CASE result \in derivations[r].when
  <2>1. remaining' = remaining /\ additions \subseteq additions'
    BY <1>8 DEF EvaluateRule
  <2>2. Todo' = t - 1 /\ Left' = t + m - 1
    BY <1>2, <1>3, <1>6, <2>1 DEF Todo, Left
  <2>3. 2 * evaluated' + 2 * Todo' = 2 * evaluated + 2 * Todo
    BY <1>2, <1>5, <1>6, <2>2
  <2>4. PICK s \in Nat : s = t + m - 1
    BY <1>2, <1>4
  <2>5. Left = s + 1 /\ Left' = s
    BY <1>2, <1>5, <2>2, <2>4
  <2>6. PICK e \in Nat : e = 2 * evaluated + 2 * Todo
    BY <1>2, <1>5
  <2>7. PICK b \in Nat : b = N * (N + 1)
    BY <1>2
  <2>8. CASE additions = {}
    <3>1. e + (s + 1) * s <= b
      BY <2>5, <2>6, <2>7, <2>8 DEF WorkInv
    <3>2. e + s * (s + 1) <= b /\ e + s * (s - 1) <= b
      BY <3>1
    <3> QED
      BY <2>3, <2>5, <2>6, <2>7, <3>2 DEF WorkInv
  <2>9. CASE additions # {}
    <3>1. additions' # {}
      BY <2>1, <2>9
    <3>2. e + (s + 1) * (s + 2) <= b
      BY <2>5, <2>6, <2>7, <2>9 DEF WorkInv
    <3>3. e + s * (s + 1) <= b
      BY <3>2
    <3> QED
      BY <2>3, <2>5, <2>6, <2>7, <3>1, <3>3 DEF WorkInv
  <2> QED
    BY <2>8, <2>9
<1> QED
  BY <1>7, <1>8

LEMMA EndPassWork ==
  ASSUME ClosureInv, WorkInv, EndPass
  PROVE  WorkInv'
<1>1. TypeOK /\ todo = {} /\ additions' = {} /\ evaluated' = evaluated
  BY DEF ClosureInv, EndPass
<1>2. PICK m \in Nat : m = Cardinality(remaining)
  BY <1>1, Sizes
<1>3. Todo = 0 /\ Left = m
  BY <1>1, <1>2, FS_EmptySet DEF Todo, Left
<1>4. evaluated \in Nat /\ N \in Nat
  BY <1>1, DerivationAssumption DEF TypeOK
<1>5. CASE additions = {}
  <2>1. todo' = todo /\ remaining' = remaining
    BY <1>5 DEF EndPass
  <2> QED
    BY <1>1, <1>5, <2>1 DEF WorkInv, Todo, Left
<1>6. CASE additions # {}
  <2>1. todo' = remaining /\ remaining' = {}
    BY <1>6 DEF EndPass, Pending
  <2>2. Todo' = m /\ Left' = m
    BY <1>2, <2>1, FS_EmptySet DEF Todo, Left
  <2>3. 2 * evaluated + 2 * 0 + m * (m + 1) <= N * (N + 1)
    BY <1>3, <1>6 DEF WorkInv
  <2>4. 2 * evaluated + 2 * m + m * (m - 1) <= N * (N + 1)
    BY <1>4, <2>3
  <2> QED
    BY <1>1, <2>2, <2>4 DEF WorkInv
<1> QED
  BY <1>5, <1>6

\* derive_with_trace evaluates at most N + (N - 1) + ... + 1 conditions.
THEOREM Work == DerivationSpec => []WorkBounded
<1>1. ASSUME ClosureInv, WorkInv, [DerivationNext]_derivationVars
      PROVE  WorkInv'
  <2>1. ASSUME NEW r \in Rules, EvaluateRule(r)
        PROVE  WorkInv'
    BY <1>1, <2>1, EvaluateWork
  <2>2. CASE EndPass
    BY <1>1, <2>2, EndPassWork
  <2>3. CASE UNCHANGED derivationVars
    BY <1>1, <2>3 DEF derivationVars, WorkInv, Todo, Left
  <2> QED
    BY <1>1, <2>1, <2>2, <2>3 DEF DerivationNext
<1>2. ClosureInv /\ WorkInv => WorkBounded
  <2> SUFFICES ASSUME ClosureInv, WorkInv
               PROVE  WorkBounded
    OBVIOUS
  <2>1. PICK t \in Nat : t = Todo
    BY Sizes DEF ClosureInv, Todo
  <2>2. PICK s \in Nat : s = Left
    BY Sizes DEF ClosureInv, Left
  <2>3. evaluated \in Nat /\ N \in Nat
    BY DerivationAssumption DEF ClosureInv, TypeOK
  <2>4. PICK b \in Nat : b = N * (N + 1)
    BY <2>3
  <2>5. s * (s - 1) >= 0 /\ s * (s + 1) >= 0
    BY <2>2
  <2>6. \/ 2 * evaluated + 2 * t + s * (s - 1) <= b
        \/ 2 * evaluated + 2 * t + s * (s + 1) <= b
    BY <2>1, <2>2, <2>4 DEF WorkInv
  <2>7. 2 * evaluated <= b
    BY <2>1, <2>2, <2>3, <2>5, <2>6
  <2> QED
    BY <2>4, <2>7 DEF WorkBounded
<1> QED
  BY <1>1, <1>2, ClosureInvariance, InitWork, PTL DEF DerivationSpec

-----------------------------------------------------------------------------
(* Conditions: what a recursive definition over their parts computes.      *)

\* The places of the parts of a tree.
Parts(t) == DOMAIN Children(t)

\* Trees with all their parts.
ClosedUnderParts(D) == D \subseteq Trees /\ \A t \in D : \A i \in Parts(t) : Children(t)[i] \in D

\* The parts f holds of.
TrueParts(f, t) == {i \in Parts(t) : f[Children(t)[i]]}

\* The functions that a rule R determines from the parts of each tree of D.
Determined(R, D) == {f \in [D -> BOOLEAN] : \A t \in D : f[t] = (TrueParts(f, t) \in R[t])}

\* A part of a tree is a tree.
LEMMA PartsAreTrees ==
  ASSUME NEW t \in Trees, NEW i \in Parts(t)
  PROVE  Children(t)[i] \in Trees
BY TreesAssumption DEF Parts

\* Every nonempty set of trees has one none of whose parts is in it.
LEMMA LeastTree ==
  ASSUME NEW S \in SUBSET Trees, S # {}
  PROVE  \E t \in S : \A i \in Parts(t) : Children(t)[i] \notin S
BY TreesAssumption DEF Parts

\* There is one such function at most: two agree wherever both are defined.
LEMMA DeterminedOnce ==
  ASSUME NEW R, NEW D, NEW E, ClosedUnderParts(D), ClosedUnderParts(E),
         NEW f \in Determined(R, D), NEW g \in Determined(R, E), NEW u \in D \cap E
  PROVE  f[u] = g[u]
<1> DEFINE Bad == {t \in D \cap E : f[t] # g[t]}
<1>1. SUFFICES Bad = {}
  OBVIOUS
<1>2. Bad \subseteq Trees
  BY DEF ClosedUnderParts
<1>3. SUFFICES ASSUME Bad # {} PROVE FALSE
  OBVIOUS
<1>4. PICK t \in Bad : \A i \in Parts(t) : Children(t)[i] \notin Bad
  BY <1>2, <1>3, LeastTree
<1>5. \A i \in Parts(t) : f[Children(t)[i]] = g[Children(t)[i]]
  BY <1>4 DEF ClosedUnderParts
<1>6. TrueParts(f, t) = TrueParts(g, t)
  BY <1>5 DEF TrueParts
<1>7. f[t] = (TrueParts(f, t) \in R[t]) /\ g[t] = (TrueParts(g, t) \in R[t])
  BY DEF Determined
<1> QED
  BY <1>6, <1>7

\* There is one on all trees: the partial ones together, which no tree can be outside of.
LEMMA DeterminedEverywhere ==
  ASSUME NEW R
  PROVE  Determined(R, Trees) # {}
<1> DEFINE Solved == {D \in SUBSET Trees : ClosedUnderParts(D) /\ Determined(R, D) # {}}
           All_ == UNION Solved
           F == [t \in All_ |-> \E D \in Solved : \E f \in Determined(R, D) : t \in D /\ f[t]]
<1>1. ASSUME NEW D \in Solved, NEW f \in Determined(R, D), NEW t \in D
      PROVE  F[t] = f[t]
  <2>1. t \in All_
    OBVIOUS
  <2>2. F[t] = \E E \in Solved : \E g \in Determined(R, E) : t \in E /\ g[t]
    BY <2>1
  <2>3. f[t] \in BOOLEAN
    BY DEF Determined
  <2>4. ASSUME NEW E \in Solved, NEW g \in Determined(R, E), t \in E
        PROVE  g[t] = f[t]
    BY <2>4, DeterminedOnce, D \in Solved
  <2> HIDE DEF F
  <2> QED
    BY <2>2, <2>3, <2>4
<1>2. All_ \subseteq Trees /\ ClosedUnderParts(All_)
  BY DEF ClosedUnderParts
<1>3. F \in Determined(R, All_)
  <2>1. F \in [All_ -> BOOLEAN]
    OBVIOUS
  <2>2. ASSUME NEW t \in All_
        PROVE  F[t] = (TrueParts(F, t) \in R[t])
    <3>1. PICK D \in Solved : t \in D
      OBVIOUS
    <3>2. PICK f \in Determined(R, D) : TRUE
      OBVIOUS
    <3>3. \A i \in Parts(t) : F[Children(t)[i]] = f[Children(t)[i]]
      <4>1. \A i \in Parts(t) : Children(t)[i] \in D
        BY <3>1 DEF ClosedUnderParts
      <4> HIDE DEF F
      <4> QED
        BY <4>1, <1>1
    <3>4. TrueParts(F, t) = TrueParts(f, t)
      <4> HIDE DEF F
      <4> QED
        BY <3>3 DEF TrueParts
    <3>5. F[t] = f[t]
      BY <1>1, <3>1
    <3>6. f[t] = (TrueParts(f, t) \in R[t])
      BY <3>1 DEF Determined
    <3> HIDE DEF F
    <3> QED
      BY <3>4, <3>5, <3>6
  <2> HIDE DEF F
  <2> QED
    BY <2>1, <2>2 DEF Determined
<1>4. All_ = Trees
  <2>1. SUFFICES ASSUME Trees \ All_ # {} PROVE FALSE
    BY <1>2
  <2>2. PICK t \in Trees \ All_ : \A i \in Parts(t) : Children(t)[i] \notin Trees \ All_
    <3>1. Trees \ All_ \in SUBSET Trees
      OBVIOUS
    <3> HIDE DEF All_
    <3> QED
      BY <2>1, <3>1, LeastTree
  <2>3. \A i \in Parts(t) : Children(t)[i] \in All_
    BY <2>2, PartsAreTrees
  <2> DEFINE D == All_ \cup {t}
             G == [u \in D |-> IF u = t THEN TrueParts(F, t) \in R[t] ELSE F[u]]
  <2>4. ClosedUnderParts(D)
    <3> HIDE DEF All_
    <3> QED
      BY <1>2, <2>2, <2>3 DEF ClosedUnderParts
  <2>5. \A u \in All_ : G[u] = F[u]
    BY <2>2
  <2>6. \A u \in D : TrueParts(G, u) = TrueParts(F, u)
    <3>1. \A u \in D : \A i \in Parts(u) : Children(u)[i] \in All_
      BY <1>2, <2>3 DEF ClosedUnderParts
    <3> HIDE DEF G, F, All_, D
    <3> QED
      BY <3>1, <2>5 DEF TrueParts
  <2>7. G \in Determined(R, D)
    <3>1. G \in [D -> BOOLEAN]
      <4>1. (TrueParts(F, t) \in R[t]) \in BOOLEAN
        OBVIOUS
      <4>2. \A u \in All_ : F[u] \in BOOLEAN
        BY <1>3 DEF Determined
      <4> HIDE DEF F, All_
      <4> QED
        BY <4>1, <4>2
    <3>2. ASSUME NEW u \in D
          PROVE  G[u] = (TrueParts(G, u) \in R[u])
      <4>1. CASE u = t
        <5>1. G[u] = (TrueParts(F, t) \in R[t])
          BY <4>1
        <5> HIDE DEF G, F, All_, D
        <5> QED
          BY <5>1, <4>1, <2>6
      <4>2. CASE u \in All_
        <5>1. F[u] = (TrueParts(F, u) \in R[u])
          BY <1>3, <4>2 DEF Determined
        <5> HIDE DEF G, F, All_, D
        <5> QED
          BY <5>1, <4>2, <2>5, <2>6
      <4> QED
        BY <4>1, <4>2
    <3> HIDE DEF G
    <3> QED
      BY <3>1, <3>2 DEF Determined
  <2>8. D \in Solved
    <3>1. D \in SUBSET Trees
      BY <1>2
    <3> HIDE DEF G, D
    <3> QED
      BY <3>1, <2>4, <2>7
  <2> QED
    BY <2>8, <2>2
<1> HIDE DEF F, All_
<1> QED
  BY <1>3, <1>4

\* The sets of true parts a tree holds for.
Table(t, held) ==
  {s \in SUBSET Nat :
     \/ t.op = "has" /\ t.name \in held
     \/ t.op = "any_prefix" /\ \E f \in held : NamespaceMatches(f, t.name)
     \/ t.op = "all" /\ Parts(t) \subseteq s
     \/ t.op = "any" /\ s # {}
     \/ t.op = "not" /\ 1 \notin s}

\* What the assumption says of a tree.
LEMMA TreeFacts ==
  ASSUME NEW t \in Trees
  PROVE  /\ t.op \in {"has", "any_prefix", "all", "any", "not"}
         /\ t.op \in {"all", "any", "not"} => Children(t) = t.children /\ Parts(t) = DOMAIN t.children
         /\ t.op = "not" => 1 \in Parts(t)
         /\ Parts(t) \subseteq Nat
BY TreesAssumption DEF Parts, Children

\* Each operator is computed from the values of the parts.
LEMMA EvaluationOfParts ==
  ASSUME NEW t \in Trees, NEW f \in [Trees -> BOOLEAN], NEW held
  PROVE  ( \/ t.op = "has" /\ t.name \in held
           \/ t.op = "any_prefix" /\ \E p \in held : NamespaceMatches(p, t.name)
           \/ t.op = "all" /\ \A i \in DOMAIN t.children : f[t.children[i]]
           \/ t.op = "any" /\ \E i \in DOMAIN t.children : f[t.children[i]]
           \/ t.op = "not" /\ ~f[t.children[1]] )
         <=> (TrueParts(f, t) \in Table(t, held))
<1>1. TrueParts(f, t) \subseteq Parts(t) /\ TrueParts(f, t) \in SUBSET Nat
  BY TreeFacts DEF TrueParts
<1>2. CASE t.op = "has"
  BY <1>1, <1>2 DEF Table
<1>3. CASE t.op = "any_prefix"
  BY <1>1, <1>3 DEF Table
<1>4. CASE t.op = "all"
  BY <1>1, <1>4, TreeFacts DEF Table, TrueParts
<1>5. CASE t.op = "any"
  BY <1>1, <1>5, TreeFacts DEF Table, TrueParts
<1>6. CASE t.op = "not"
  BY <1>1, <1>6, TreeFacts DEF Table, TrueParts
<1> QED
  BY <1>2, <1>3, <1>4, <1>5, <1>6, TreeFacts

\* EvaluateCondition is the function its recursion determines.
LEMMA EvaluationExists ==
  ASSUME NEW held
  PROVE  \E f \in [Trees -> BOOLEAN] : \A t \in Trees :
           EvaluateCondition(t, held) = f[t] /\ f[t] = (TrueParts(f, t) \in Table(t, held))
<1> DEFINE Holds(f) == [c \in Trees |->
             \/ c.op = "has" /\ c.name \in held
             \/ c.op = "any_prefix" /\ \E p \in held : NamespaceMatches(p, c.name)
             \/ c.op = "all" /\ \A i \in DOMAIN c.children : f[c.children[i]]
             \/ c.op = "any" /\ \E i \in DOMAIN c.children : f[c.children[i]]
             \/ c.op = "not" /\ ~f[c.children[1]]]
           R == [t \in Trees |-> Table(t, held)]
           chosen == CHOOSE f : f = Holds(f)
<1>1. PICK g \in Determined(R, Trees) : TRUE
  BY DeterminedEverywhere
<1>2. \A f \in [Trees -> BOOLEAN] : \A t \in Trees : Holds(f)[t] = (TrueParts(f, t) \in Table(t, held))
  <2> SUFFICES ASSUME NEW f \in [Trees -> BOOLEAN], NEW t \in Trees
               PROVE  Holds(f)[t] = (TrueParts(f, t) \in Table(t, held))
    OBVIOUS
  <2> DEFINE D == \/ t.op = "has" /\ t.name \in held
                  \/ t.op = "any_prefix" /\ \E p \in held : NamespaceMatches(p, t.name)
                  \/ t.op = "all" /\ \A i \in DOMAIN t.children : f[t.children[i]]
                  \/ t.op = "any" /\ \E i \in DOMAIN t.children : f[t.children[i]]
                  \/ t.op = "not" /\ ~f[t.children[1]]
  <2>1. Holds(f)[t] = D
    OBVIOUS
  <2>2. D <=> (TrueParts(f, t) \in Table(t, held))
    BY EvaluationOfParts
  <2>3. D \in BOOLEAN
    OBVIOUS
  <2> HIDE DEF D, Holds
  <2> QED
    BY <2>1, <2>2, <2>3
<1>3. \A f : DOMAIN Holds(f) = Trees /\ Holds(f) = [t \in Trees |-> Holds(f)[t]]
  OBVIOUS
<1>4. g = Holds(g)
  <2>1. g \in [Trees -> BOOLEAN] /\ \A t \in Trees : g[t] = (TrueParts(g, t) \in Table(t, held))
    BY DEF Determined
  <2> HIDE DEF Holds
  <2> QED
    BY <2>1, <1>2, <1>3
<1>5. chosen = Holds(chosen)
  <2> HIDE DEF Holds
  <2> QED
    BY <1>4
<1>6. \A t \in Trees : EvaluateCondition(t, held) = chosen[t]
  BY DEF EvaluateCondition
<1>7. chosen \in [Trees -> BOOLEAN]
  <2>1. \A f : \A t \in Trees : Holds(f)[t] \in BOOLEAN
    OBVIOUS
  <2> HIDE DEF Holds, chosen
  <2> QED
    BY <2>1, <1>3, <1>5
<1> HIDE DEF Holds, chosen
<1>8. \A t \in Trees : chosen[t] = (TrueParts(chosen, t) \in Table(t, held))
  BY <1>2, <1>5, <1>7
<1> QED
  BY <1>6, <1>7, <1>8

\* Positivity, likewise.
LEMMA PositivityExists ==
  \E f \in [Trees -> BOOLEAN] : \A t \in Trees :
    Positive(t) = f[t] /\ f[t] = (t.op # "not" /\ \A i \in Parts(t) : f[Children(t)[i]])
<1> DEFINE Pos(f) == [c \in Trees |-> c.op # "not" /\ \A i \in DOMAIN Children(c) : f[Children(c)[i]]]
           R == [t \in Trees |-> {s \in SUBSET Nat : t.op # "not" /\ Parts(t) \subseteq s}]
           chosen == CHOOSE f : f = Pos(f)
<1>1. PICK g \in Determined(R, Trees) : TRUE
  BY DeterminedEverywhere
<1>2. \A f \in [Trees -> BOOLEAN] : \A t \in Trees : Pos(f)[t] = (TrueParts(f, t) \in R[t])
  <2> SUFFICES ASSUME NEW f \in [Trees -> BOOLEAN], NEW t \in Trees
               PROVE  Pos(f)[t] = (TrueParts(f, t) \in R[t])
    OBVIOUS
  <2> DEFINE D == t.op # "not" /\ \A i \in Parts(t) : f[Children(t)[i]]
  <2>1. Pos(f)[t] = D
    BY DEF Parts
  <2>2. D <=> (TrueParts(f, t) \in R[t])
    <3>1. TrueParts(f, t) \in SUBSET Nat /\ TrueParts(f, t) \subseteq Parts(t)
      BY TreeFacts DEF TrueParts
    <3> QED
      BY <3>1 DEF TrueParts
  <2>3. D \in BOOLEAN
    OBVIOUS
  <2> HIDE DEF D, Pos, R
  <2> QED
    BY <2>1, <2>2, <2>3
<1>3. \A f : DOMAIN Pos(f) = Trees /\ Pos(f) = [t \in Trees |-> Pos(f)[t]]
  OBVIOUS
<1>4. g = Pos(g)
  <2>1. g \in [Trees -> BOOLEAN] /\ \A t \in Trees : g[t] = (TrueParts(g, t) \in R[t])
    BY DEF Determined
  <2> HIDE DEF Pos, R
  <2> QED
    BY <2>1, <1>2, <1>3
<1>5. chosen = Pos(chosen)
  <2> HIDE DEF Pos
  <2> QED
    BY <1>4
<1>6. \A t \in Trees : Positive(t) = chosen[t]
  BY DEF Positive
<1>7. chosen \in [Trees -> BOOLEAN]
  <2>1. \A f : \A t \in Trees : Pos(f)[t] \in BOOLEAN
    OBVIOUS
  <2> HIDE DEF Pos, chosen
  <2> QED
    BY <2>1, <1>3, <1>5
<1>8. \A t \in Trees : chosen[t] = (t.op # "not" /\ \A i \in Parts(t) : chosen[Children(t)[i]])
  <2>1. ASSUME NEW t \in Trees
        PROVE  chosen[t] = (t.op # "not" /\ \A i \in Parts(t) : chosen[Children(t)[i]])
    <3>1. Pos(chosen)[t] = (t.op # "not" /\ \A i \in Parts(t) : chosen[Children(t)[i]])
      BY DEF Parts
    <3>2. chosen[t] = Pos(chosen)[t]
      <4> HIDE DEF Pos, chosen
      <4> QED
        BY <1>5
    <3> HIDE DEF Pos, chosen
    <3> QED
      BY <3>1, <3>2
  <2> HIDE DEF chosen
  <2> QED
    BY <2>1
<1> HIDE DEF Pos, chosen
<1> QED
  BY <1>6, <1>7, <1>8

\* More flags never make a condition without negation false.
THEOREM PositiveIsMonotone ==
  ASSUME NEW t \in Trees, NEW held, NEW more, held \subseteq more,
         Positive(t), EvaluateCondition(t, held)
  PROVE  EvaluateCondition(t, more)
<1>1. PICK p \in [Trees -> BOOLEAN] : \A c \in Trees :
        Positive(c) = p[c] /\ p[c] = (c.op # "not" /\ \A i \in Parts(c) : p[Children(c)[i]])
  BY PositivityExists
<1>2. PICK f \in [Trees -> BOOLEAN] : \A c \in Trees :
        EvaluateCondition(c, held) = f[c] /\ f[c] = (TrueParts(f, c) \in Table(c, held))
  BY EvaluationExists
<1>3. PICK g \in [Trees -> BOOLEAN] : \A c \in Trees :
        EvaluateCondition(c, more) = g[c] /\ g[c] = (TrueParts(g, c) \in Table(c, more))
  BY EvaluationExists
<1> DEFINE Bad == {c \in Trees : p[c] /\ f[c] /\ ~g[c]}
<1>4. SUFFICES ASSUME Bad # {} PROVE FALSE
  BY <1>1, <1>2, <1>3
<1>5. PICK c \in Bad : \A i \in Parts(c) : Children(c)[i] \notin Bad
  BY <1>4, LeastTree
<1>6. TrueParts(f, c) \subseteq TrueParts(g, c)
  BY <1>1, <1>5, PartsAreTrees DEF TrueParts
<1>7. c.op # "not"
  BY <1>1
<1>8. TrueParts(f, c) \in Table(c, held) /\ TrueParts(g, c) \notin Table(c, more)
  BY <1>2, <1>3
<1>9. TrueParts(g, c) \in SUBSET Nat
  BY TreeFacts DEF TrueParts
<1> QED
  BY <1>6, <1>7, <1>8, <1>9 DEF Table

\* A condition without negation is what Derivation takes a rule's condition for:
\* a set of flag sets that is closed upwards.
THEOREM PositiveConditionsArePositive ==
  ASSUME NEW t \in Trees, Positive(t)
  PROVE  PositiveOnly({F \in SUBSET Flags : EvaluateCondition(t, F)})
BY PositiveIsMonotone DEF PositiveOnly

-----------------------------------------------------------------------------
(* Calendar: natural numbers.                                              *)

\* Every nonempty set of natural numbers has a least member.
LEMMA LeastNatural ==
  ASSUME NEW T \in SUBSET Nat, T # {}
  PROVE  \E x \in T : \A y \in T : x <= y
<1> DEFINE R == OpToRel(<, Nat)
<1>1. IsWellFoundedOn(R, Nat)
  BY NatLessThanWellFounded
<1>2. \E x \in T : \A y \in T : ~ (<<y, x>> \in R)
  BY <1>1, WFMin
<1>3. \A x, y \in Nat : <<y, x>> \in R <=> y < x
  BY DEF OpToRel
<1> HIDE DEF R
<1>4. PICK x \in T : \A y \in T : ~ (<<y, x>> \in R)
  BY <1>2
<1>5. \A y \in T : ~ (y < x)
  BY <1>3, <1>4
<1>6. QED
  BY <1>5

-----------------------------------------------------------------------------
(* Years and months.                                                       *)

\* How long a year is.
YearLength(y) == IF Leap(y) THEN 366 ELSE 365

\* How many days a year begins after, roughly and exactly.
LEMMA YearFacts ==
  ASSUME NEW y, y \in Nat \ {0}
  PROVE  /\ DaysBeforeYear(y) \in Nat /\ YearLength(y) \in {365, 366}
         /\ DaysBeforeYear(y) >= 365 * (y - 1) /\ DaysBeforeYear(y + 1) <= 366 * y
         /\ DaysBeforeYear(y + 1) = DaysBeforeYear(y) + YearLength(y)
  BY SMT DEF DaysBeforeYear, Leap, YearLength

\* Years follow each other.
LEMMA YearsInOrder ==
  ASSUME NEW y, y \in Nat \ {0}, NEW z, z \in Nat \ {0}, y <= z
  PROVE  DaysBeforeYear(y) <= DaysBeforeYear(z)
  BY SMT DEF DaysBeforeYear

\* Months have about thirty days and lie within the year.
LEMMA MonthFacts ==
  ASSUME NEW y, y \in Nat, NEW m, m \in 1 .. 12
  PROVE  /\ MonthLength(y, m) \in Nat \ {0} /\ DaysBeforeMonth(y, m) \in Nat
         /\ DaysBeforeMonth(y, m) + MonthLength(y, m) <= YearLength(y)
<1>1. m = 1 \/ m = 2 \/ m = 3 \/ m = 4 \/ m = 5 \/ m = 6 \/ m = 7 \/ m = 8 \/ m = 9 \/ m = 10 \/ m = 11 \/ m = 12
  BY SMT
<1>2. Leap(y) \in BOOLEAN
  BY DEF Leap
<1>3. QED
  BY <1>1, <1>2, SMT DEF MonthLength, DaysBeforeMonth, YearLength

\* Months follow each other.
LEMMA MonthsInOrder ==
  ASSUME NEW y, y \in Nat, NEW m, m \in 1 .. 12, m < 12
  PROVE  DaysBeforeMonth(y, m + 1) = DaysBeforeMonth(y, m) + MonthLength(y, m)
<1>1. m = 1 \/ m = 2 \/ m = 3 \/ m = 4 \/ m = 5 \/ m = 6 \/ m = 7 \/ m = 8 \/ m = 9 \/ m = 10 \/ m = 11
  BY SMT
<1>2. Leap(y) \in BOOLEAN
  BY DEF Leap
<1>3. QED
  BY <1>1, <1>2, SMT DEF MonthLength, DaysBeforeMonth

\* The first and the last month.
LEMMA MonthsFillYear ==
  ASSUME NEW y, y \in Nat
  PROVE  DaysBeforeMonth(y, 1) = 0 /\ DaysBeforeMonth(y, 12) + MonthLength(y, 12) = YearLength(y)
<1>1. Leap(y) \in BOOLEAN
  BY DEF Leap
<1>2. QED
  BY <1>1, SMT DEF MonthLength, DaysBeforeMonth, YearLength

\* The last day there is, which ends the year 9999.
LEMMA LastDay ==
  /\ Ordinal(MaxDate) \in Nat /\ DaysBeforeYear(10000) = Ordinal(MaxDate)
  /\ MaxDate.y = 9999 /\ MaxDate.m = 12 /\ MaxDate.d = 31
<1>1. /\ MaxDate.y = 9999 /\ MaxDate.m = 12 /\ MaxDate.d = 31
  BY DEF MaxDate, Date
<1>2. ~Leap(9999)
  BY SMT DEF Leap
<1>3. DaysBeforeMonth(9999, 12) = 334
  BY <1>2, SMT DEF DaysBeforeMonth
<1>4. QED
  BY <1>1, <1>3, SMT DEF Ordinal, DaysBeforeYear

\* The number of a date, by its parts.
LEMMA OrdinalOfParts ==
  ASSUME NEW y, y \in Years, NEW m, m \in 1 .. 12, NEW d, d \in 1 .. MonthLength(y, m), NEW n,
         n = DaysBeforeYear(y) + DaysBeforeMonth(y, m) + d
  PROVE  /\ n \in Nat \ {0} /\ n <= Ordinal(MaxDate)
         /\ DaysBeforeYear(y) < n /\ n <= DaysBeforeYear(y + 1)
<1>1. y \in Nat \ {0} /\ y + 1 \in Nat \ {0} /\ y + 1 <= 10000
  BY SMTT(30) DEF Years
<1>2. /\ DaysBeforeYear(y) \in Nat /\ DaysBeforeYear(y + 1) \in Nat /\ YearLength(y) \in Nat
      /\ DaysBeforeYear(y + 1) = DaysBeforeYear(y) + YearLength(y)
  BY <1>1, YearFacts
<1>3. /\ MonthLength(y, m) \in Nat \ {0} /\ DaysBeforeMonth(y, m) \in Nat
      /\ DaysBeforeMonth(y, m) + MonthLength(y, m) <= YearLength(y)
  BY <1>1, MonthFacts, SMTT(30)
<1>4. d \in Nat \ {0} /\ d <= MonthLength(y, m)
  BY <1>3
<1>5. /\ n \in Nat \ {0} /\ DaysBeforeYear(y) < n /\ n <= DaysBeforeYear(y + 1)
  BY <1>2, <1>3, <1>4, SMT
<1>6. DaysBeforeYear(y + 1) <= DaysBeforeYear(10000)
  BY <1>1, YearsInOrder, SMT
<1>7. QED
  BY <1>2, <1>5, <1>6, LastDay

\* A date has a number of its own year.
LEMMA OrdinalFacts ==
  ASSUME NEW date, IsDate(date)
  PROVE  /\ Ordinal(date) \in Nat \ {0} /\ Ordinal(date) <= Ordinal(MaxDate)
         /\ DaysBeforeYear(date.y) < Ordinal(date) /\ Ordinal(date) <= DaysBeforeYear(date.y + 1)
<1>1. date.y \in Years /\ date.m \in 1 .. 12 /\ date.d \in 1 .. MonthLength(date.y, date.m)
  BY DEF IsDate
<1>2. Ordinal(date) = DaysBeforeYear(date.y) + DaysBeforeMonth(date.y, date.m) + date.d
  BY DEF Ordinal
<1>3. PICK y, m, d : y = date.y /\ m = date.m /\ d = date.d
  OBVIOUS
<1>4. /\ y \in Years /\ m \in 1 .. 12 /\ d \in 1 .. MonthLength(y, m)
      /\ Ordinal(date) = DaysBeforeYear(y) + DaysBeforeMonth(y, m) + d
  BY <1>1, <1>2, <1>3
<1>5. /\ Ordinal(date) \in Nat \ {0} /\ Ordinal(date) <= Ordinal(MaxDate)
      /\ DaysBeforeYear(y) < Ordinal(date) /\ Ordinal(date) <= DaysBeforeYear(y + 1)
  BY <1>4, OrdinalOfParts
<1>6. QED
  BY <1>3, <1>5

-----------------------------------------------------------------------------
(* date.fromordinal and date.toordinal.                                    *)

\* Every day up to the last is in a year, which fromordinal looks for in the right place.
LEMMA YearOfDay ==
  ASSUME NEW n, n \in Nat \ {0}, n <= Ordinal(MaxDate)
  PROVE  \E y \in (n \div 366) .. (n \div 365 + 1) :
           y > 0 /\ DaysBeforeYear(y) < n /\ n <= DaysBeforeYear(y + 1)
<1> DEFINE T == {y \in Nat \ {0} : n <= DaysBeforeYear(y + 1)}
<1>1. 9999 \in T
  BY LastDay, SMT
<1> HIDE DEF T
<1>2. PICK y \in T : \A z \in T : y <= z
  <2>1. T \in SUBSET Nat
    BY DEF T
  <2>2. QED
    BY <1>1, <2>1, LeastNatural
<1>3. y \in Nat \ {0} /\ n <= DaysBeforeYear(y + 1)
  BY <1>2 DEF T
<1>4. DaysBeforeYear(y) < n
  <2>1. CASE y = 1
    BY <2>1, SMT DEF DaysBeforeYear
  <2>2. CASE y # 1
    <3>1. y - 1 \in Nat \ {0} /\ ~(y <= y - 1) /\ (y - 1) + 1 = y
      BY <1>3, <2>2
    <3>2. y - 1 \notin T
      BY <1>2, <3>1
    <3>3. DaysBeforeYear(y) \in Nat
      BY <1>3, YearFacts
    <3>4. QED
      BY <3>1, <3>2, <3>3 DEF T
  <2>3. QED
    BY <2>1, <2>2
<1>5. /\ DaysBeforeYear(y) \in Nat /\ DaysBeforeYear(y + 1) \in Nat
      /\ DaysBeforeYear(y) >= 365 * (y - 1) /\ DaysBeforeYear(y + 1) <= 366 * y
  <2>1. y \in Nat \ {0} /\ y + 1 \in Nat \ {0}
    BY <1>3
  <2>2. QED
    BY <2>1, YearFacts
<1>6. 365 * (y - 1) < n /\ n <= 366 * y
  BY <1>3, <1>4, <1>5, SMT
<1>7. y \in (n \div 366) .. (n \div 365 + 1)
  BY <1>3, <1>6, SMT
<1>8. QED
  BY <1>3, <1>4, <1>7

\* Every day of a year is in a month.
LEMMA MonthOfDay ==
  ASSUME NEW y, y \in Nat, NEW r, r \in Nat \ {0}, r <= YearLength(y)
  PROVE  \E m \in 1 .. 12 : DaysBeforeMonth(y, m) < r /\ r <= DaysBeforeMonth(y, m) + MonthLength(y, m)
<1> DEFINE T == {m \in 1 .. 12 : r <= DaysBeforeMonth(y, m) + MonthLength(y, m)}
<1>1. 12 \in T
  BY MonthsFillYear
<1>2. T \in SUBSET Nat
  OBVIOUS
<1>3. PICK m \in T : \A k \in T : m <= k
  BY <1>1, <1>2, LeastNatural
<1>4. m \in 1 .. 12
  BY <1>3
<1>5. DaysBeforeMonth(y, m) < r
  <2>1. CASE m = 1
    BY <2>1, MonthsFillYear, SMT
  <2>2. CASE m # 1
    <3>1. m - 1 \in 1 .. 12 /\ ~(m <= m - 1) /\ (m - 1) + 1 = m /\ m - 1 < 12
      BY <1>4, <2>2
    <3>2. m - 1 \notin T
      BY <1>3, <3>1
    <3>3. PICK k \in 1 .. 12 : k = m - 1 /\ k + 1 = m /\ k < 12
      BY <3>1
    <3>4. DaysBeforeMonth(y, m) = DaysBeforeMonth(y, k) + MonthLength(y, k)
      BY <3>3, MonthsInOrder
    <3>5. DaysBeforeMonth(y, m) \in Nat
      BY <1>4, MonthFacts, SMTT(30)
    <3>6. QED
      BY <3>1, <3>2, <3>3, <3>4, <3>5
  <2>3. QED
    BY <2>1, <2>2
<1>6. QED
  BY <1>3, <1>5

\* date.fromordinal returns the date with the given number.
THEOREM FromOrdinalCorrect ==
  ASSUME NEW n, n \in Nat \ {0}, n <= Ordinal(MaxDate)
  PROVE  IsDate(FromOrdinal(n)) /\ Ordinal(FromOrdinal(n)) = n
<1> DEFINE Y(k) == k > 0 /\ DaysBeforeYear(k) < n /\ n <= DaysBeforeYear(k + 1)
           y == CHOOSE k \in (n \div 366) .. (n \div 365 + 1) : Y(k)
           r == n - DaysBeforeYear(y)
           M(k) == DaysBeforeMonth(y, k) < r /\ r <= DaysBeforeMonth(y, k) + MonthLength(y, k)
           m == CHOOSE k \in 1 .. 12 : M(k)
<1>1. FromOrdinal(n) = Date(y, m, r - DaysBeforeMonth(y, m))
  BY DEF FromOrdinal
<1>2. \E k \in (n \div 366) .. (n \div 365 + 1) : Y(k)
  BY YearOfDay
<1>3. y \in (n \div 366) .. (n \div 365 + 1) /\ Y(y)
  <2> HIDE DEF Y
  <2>1. QED
    BY <1>2
<1>4. /\ y \in Nat \ {0} /\ DaysBeforeYear(y) < n /\ n <= DaysBeforeYear(y + 1)
  BY <1>3, SMT
<1> HIDE DEF y, Y
<1>5. /\ DaysBeforeYear(y) \in Nat /\ YearLength(y) \in Nat
      /\ DaysBeforeYear(y + 1) = DaysBeforeYear(y) + YearLength(y)
  BY <1>4, YearFacts
<1>6. y <= 9999
  <2> SUFFICES ASSUME ~(y <= 9999) PROVE FALSE
    OBVIOUS
  <2>1. 10000 \in Nat \ {0} /\ 10000 <= y
    BY <1>4, SMT
  <2>2. DaysBeforeYear(10000) <= DaysBeforeYear(y)
    BY <1>4, <2>1, YearsInOrder
  <2>3. QED
    BY <1>4, <1>5, <2>2, LastDay, SMT
<1>7. r \in Nat \ {0} /\ r <= YearLength(y)
  BY <1>4, <1>5, SMT
<1>8. n = DaysBeforeYear(y) + r
  BY <1>4, <1>5, SMT
<1> HIDE DEF r
<1>9. \E k \in 1 .. 12 : M(k)
  BY <1>4, <1>7, MonthOfDay
<1>10. m \in 1 .. 12 /\ M(m)
  <2> HIDE DEF M
  <2>1. QED
    BY <1>9
<1>11. m \in 1 .. 12 /\ DaysBeforeMonth(y, m) < r /\ r <= DaysBeforeMonth(y, m) + MonthLength(y, m)
  BY <1>10
<1> HIDE DEF m, M
<1> DEFINE d == r - DaysBeforeMonth(y, m)
<1>12. /\ MonthLength(y, m) \in Nat \ {0} /\ DaysBeforeMonth(y, m) \in Nat
  BY <1>4, <1>11, MonthFacts, SMTT(30)
<1>13. d \in 1 .. MonthLength(y, m) /\ DaysBeforeMonth(y, m) + d = r
  BY <1>7, <1>11, <1>12, SMT
<1> HIDE DEF d
<1>14. Date(y, m, d).y = y /\ Date(y, m, d).m = m /\ Date(y, m, d).d = d
  BY DEF Date
<1>15. IsDate(Date(y, m, d))
  <2>1. y \in Years
    BY <1>4, <1>6, SMTT(30) DEF Years
  <2>2. QED
    BY <1>11, <1>13, <1>14, <2>1 DEF IsDate
<1>16. Ordinal(Date(y, m, d)) = n
  BY <1>5, <1>7, <1>8, <1>12, <1>13, <1>14, SMT DEF Ordinal
<1>17. QED
  BY <1>1, <1>15, <1>16 DEF d

\* Months later is a date, that many months later, on the same day or a shorter month's last.
THEOREM MonthsLaterCorrect ==
  ASSUME NEW base, IsDate(base), NEW n, n \in Nat, n <= RemainingMonths(base), NEW r, r = MonthsLater(base, n)
  PROVE  /\ IsDate(r) /\ 12 * r.y + r.m = 12 * base.y + base.m + n
         /\ r.d = base.d \/ (r.d < base.d /\ r.d = MonthLength(r.y, r.m))
<1>1. PICK u, v, w : u = base.y /\ v = base.m /\ w = base.d
  OBVIOUS
<1>2. u \in Years /\ v \in 1 .. 12 /\ w \in 1 .. MonthLength(u, v)
  BY <1>1 DEF IsDate
<1>3. n <= (9999 - u) * 12 + 12 - v
  BY <1>1 DEF RemainingMonths
<1> DEFINE offset == u * 12 + v - 1 + n
           y == offset \div 12
           m == (offset % 12) + 1
           d == IF w < MonthLength(y, m) THEN w ELSE MonthLength(y, m)
<1>4. r = Date(y, m, d)
  BY <1>1 DEF MonthsLater
<1>5. offset \in Nat /\ offset >= 12 /\ offset < 10000 * 12
  BY <1>2, <1>3, SMTT(30) DEF Years
<1>6. 12 * y + m = offset + 1 /\ m \in 1 .. 12 /\ y \in Nat \ {0} /\ y < 10000
  <2> HIDE DEF offset
  <2>1. QED
    BY <1>5, SMT
<1>7. offset + 1 = 12 * u + v + n
  BY <1>2, SMTT(30) DEF Years
<1> HIDE DEF y, m, offset
<1>8. y \in Years
  BY <1>6, SMTT(30) DEF Years
<1>9. MonthLength(y, m) \in Nat \ {0} /\ MonthLength(u, v) \in Nat \ {0}
  <2>1. y \in Nat /\ u \in Nat
    BY <1>6, <1>2 DEF Years
  <2>2. MonthLength(y, m) \in Nat \ {0}
    BY <2>1, <1>6, MonthFacts, SMTT(30)
  <2>3. MonthLength(u, v) \in Nat \ {0}
    BY <2>1, <1>2, MonthFacts, SMTT(30)
  <2>4. QED
    BY <2>2, <2>3
<1>10. w \in Nat \ {0}
  BY <1>2, <1>9
<1>11. d \in 1 .. MonthLength(y, m) /\ (d = w \/ (d < w /\ d = MonthLength(y, m)))
  BY <1>9, <1>10
<1> HIDE DEF d
<1>12. r.y = y /\ r.m = m /\ r.d = d
  BY <1>4 DEF Date
<1>13. IsDate(r)
  BY <1>6, <1>8, <1>11, <1>12, SMTT(30) DEF IsDate
<1>14. 12 * y + m = 12 * u + v + n
  BY <1>6, <1>7
<1>15. QED
  BY <1>1, <1>11, <1>12, <1>13, <1>14

-----------------------------------------------------------------------------
(* Numbers in decimal.                                                     *)

\* A decimal digit.
Digit == 0 .. 9

\* The values of the first k digits for every k up to n.
Values(s, n) == {f \in [0 .. n -> Nat] : f[0] = 0 /\ \A i \in 1 .. n : f[i] = 10 * f[i - 1] + s[i]}

\* The recursion of Amount has a solution.
LEMMA ValuesExist ==
  ASSUME NEW s \in Seq(Digit), NEW n, n \in 0 .. Len(s)
  PROVE  Values(s, n) # {}
<1> DEFINE T == {k \in 0 .. Len(s) : Values(s, k) = {}}
<1>1. SUFFICES ASSUME T # {} PROVE FALSE
  OBVIOUS
<1>2. PICK k \in T : \A j \in T : k <= j
  <2>1. T \in SUBSET Nat
    OBVIOUS
  <2>2. QED
    BY <1>1, <2>1, LeastNatural
<1>3. CASE k = 0
  <2> DEFINE f == [i \in 0 .. 0 |-> 0]
  <2>1. f \in Values(s, 0)
    BY DEF Values
  <2>2. QED
    BY <1>3, <2>1
<1>4. CASE k # 0
  <2>1. k - 1 \in 0 .. Len(s) /\ k \in 1 .. Len(s) /\ ~(k <= k - 1)
    BY <1>4
  <2>2. PICK g \in Values(s, k - 1) : TRUE
    BY <1>2, <2>1
  <2>3. s[k] \in Nat /\ g \in [0 .. (k - 1) -> Nat]
    <3>1. s[k] \in Digit
      BY <2>1
    <3>2. QED
      BY <3>1 DEF Values, Digit
  <2> DEFINE f == [i \in 0 .. k |-> IF i = k THEN 10 * g[k - 1] + s[k] ELSE g[i]]
  <2>4. f \in [0 .. k -> Nat]
    BY <2>1, <2>3
  <2>5. f[0] = 0
    BY <2>1 DEF Values
  <2>6. ASSUME NEW i \in 1 .. k
        PROVE  f[i] = 10 * f[i - 1] + s[i]
    BY <2>1 DEF Values
  <2> HIDE DEF f
  <2>7. f \in Values(s, k)
    BY <2>4, <2>5, <2>6 DEF Values
  <2>8. QED
    BY <2>7
<1>5. QED
  BY <1>3, <1>4

\* Amount is the value of all the digits.
LEMMA AmountOfValues ==
  ASSUME NEW s \in Seq(Digit)
  PROVE  \E f \in Values(s, Len(s)) : Amount(s) = f[Len(s)]
<1> DEFINE n == Len(s)
           V(f) == [i \in 0 .. n |-> IF i = 0 THEN 0 ELSE 10 * f[i - 1] + s[i]]
           value == CHOOSE f : f = V(f)
<1>1. n \in Nat /\ n \in 0 .. Len(s) /\ \A i \in 1 .. n : s[i] \in Nat
  BY DEF Digit
<1>2. PICK g \in Values(s, n) : TRUE
  BY <1>1, ValuesExist
<1>3. g = V(g)
  <2>1. g \in [0 .. n -> Nat] /\ g[0] = 0 /\ \A i \in 1 .. n : g[i] = 10 * g[i - 1] + s[i]
    BY DEF Values
  <2> HIDE DEF n
  <2>2. QED
    BY <2>1, <1>1
<1>4. value = V(value)
  <2> HIDE DEF V
  <2>1. QED
    BY <1>3
<1>5. Amount(s) = value[n]
  BY DEF Amount
<1> HIDE DEF value, n
<1>6. value = [i \in 0 .. n |-> value[i]] /\ value[0] = 0 /\ \A i \in 1 .. n : value[i] = 10 * value[i - 1] + s[i]
  <2>1. value = [i \in 0 .. n |-> IF i = 0 THEN 0 ELSE 10 * value[i - 1] + s[i]]
    BY <1>4
  <2>2. 0 \in 0 .. n /\ \A i \in 1 .. n : i \in 0 .. n /\ i # 0
    BY <1>1
  <2>3. QED
    BY <2>1, <2>2
<1>7. \A i \in 0 .. n : value[i] \in Nat
  <2> DEFINE T == {k \in 0 .. n : value[k] \notin Nat}
  <2>1. SUFFICES ASSUME T # {} PROVE FALSE
    OBVIOUS
  <2>2. PICK k \in T : \A j \in T : k <= j
    <3>1. T \in SUBSET Nat
      BY <1>1
    <3>2. QED
      BY <2>1, <3>1, LeastNatural
  <2>3. k \in 0 .. n /\ value[k] \notin Nat
    OBVIOUS
  <2>4. k # 0 /\ k - 1 \in 0 .. n /\ k \in 1 .. n /\ ~(k <= k - 1)
    BY <1>1, <1>6, <2>3
  <2>5. value[k - 1] \in Nat
    BY <2>2, <2>4
  <2>6. value[k] = 10 * value[k - 1] + s[k] /\ s[k] \in Nat
    BY <1>1, <1>6, <2>4
  <2>7. QED
    BY <2>3, <2>5, <2>6
<1>8. value \in Values(s, n)
  BY <1>6, <1>7 DEF Values
<1>9. QED
  BY <1>5, <1>8 DEF n

\* An amount is a natural number.
LEMMA AmountIsNatural ==
  ASSUME NEW s \in Seq(Digit)
  PROVE  Amount(s) \in Nat
<1>1. Len(s) \in Nat
  OBVIOUS
<1>2. QED
  BY <1>1, AmountOfValues DEF Values

\* One digit more.
LEMMA ValuesGrow ==
  ASSUME NEW s \in Seq(Digit), NEW f \in Values(s, Len(s)), NEW i \in 1 .. Len(s)
  PROVE  /\ i - 1 \in 0 .. Len(s) /\ f[i - 1] \in Nat /\ f[i] \in Nat /\ s[i] \in Digit
         /\ f[i] = 10 * f[i - 1] + s[i]
<1>1. s[i] \in Digit
  OBVIOUS
<1>2. QED
  BY <1>1 DEF Values

\* The next digit keeps what is ahead ahead.
LEMMA NextDigit ==
  ASSUME NEW p, p \in Nat, NEW q, q \in Nat, NEW x, x \in Digit, NEW y, y \in Digit,
         p > q \/ (p = q /\ x > y)
  PROVE  10 * p + x > 10 * q + y
BY SMT DEF Digit

\* Whatever is ahead k digits before the end stays ahead: aligned at the right,
\* a's value beats b's from there on.
LEMMA StaysAbove ==
  ASSUME NEW a \in Seq(Digit), NEW f \in Values(a, Len(a)), NEW b \in Seq(Digit), NEW g \in Values(b, Len(b)),
         NEW c \in Nat, Len(a) = Len(b) + c, NEW k \in 0 .. Len(b), f[k + c] > g[k]
  PROVE  f[Len(a)] > g[Len(b)]
<1> DEFINE T == {j \in k .. Len(b) : ~(f[j + c] > g[j])}
<1>1. T = {}
  <2>1. SUFFICES ASSUME T # {} PROVE FALSE
    OBVIOUS
  <2>2. PICK j \in T : \A x \in T : j <= x
    <3>1. T \in SUBSET Nat
      OBVIOUS
    <3>2. QED
      BY <2>1, <3>1, LeastNatural
  <2>3. j \in k .. Len(b) /\ j # k /\ ~(f[j + c] > g[j]) /\ Len(b) \in Nat /\ Len(a) \in Nat
    OBVIOUS
  <2>4. PICK i, h : i = j /\ h = j + c
    OBVIOUS
  <2>5. i \in 1 .. Len(b) /\ h \in 1 .. Len(a) /\ i - 1 \in k .. Len(b) /\ h - 1 = (i - 1) + c /\ ~(i <= i - 1)
    BY <2>3, <2>4
  <2>6. f[h - 1] > g[i - 1]
    BY <2>2, <2>4, <2>5
  <2>7. f[h] = 10 * f[h - 1] + a[h] /\ f[h - 1] \in Nat /\ a[h] \in Digit
    BY <2>5, ValuesGrow
  <2>8. g[i] = 10 * g[i - 1] + b[i] /\ g[i - 1] \in Nat /\ b[i] \in Digit
    BY <2>5, ValuesGrow
  <2>9. f[h] > g[i]
    BY <2>6, <2>7, <2>8, NextDigit
  <2>10. QED
    BY <2>3, <2>4, <2>9
<1>2. Len(b) \in Nat /\ Len(b) \in k .. Len(b)
  OBVIOUS
<1>3. QED
  BY <1>1, <1>2

\* Equal digits have equal values.
LEMMA SameValues ==
  ASSUME NEW a \in Seq(Digit), NEW f \in Values(a, Len(a)), NEW b \in Seq(Digit), NEW g \in Values(b, Len(b)),
         NEW k \in 0 .. Len(a), k <= Len(b), \A i \in 1 .. k : a[i] = b[i]
  PROVE  f[k] = g[k]
<1> DEFINE T == {j \in 0 .. k : f[j] # g[j]}
<1>1. SUFFICES ASSUME T # {} PROVE FALSE
  OBVIOUS
<1>2. PICK j \in T : \A x \in T : j <= x
  <2>1. T \in SUBSET Nat
    OBVIOUS
  <2>2. QED
    BY <1>1, <2>1, LeastNatural
<1>3. j \in 0 .. k /\ f[j] # g[j] /\ Len(a) \in Nat /\ Len(b) \in Nat
  OBVIOUS
<1>4. f[0] = 0 /\ g[0] = 0
  BY DEF Values
<1>5. j \in 1 .. k /\ j \in 1 .. Len(a) /\ j \in 1 .. Len(b) /\ j - 1 \in 0 .. k /\ ~(j <= j - 1)
  BY <1>3, <1>4
<1>6. f[j - 1] = g[j - 1]
  BY <1>2, <1>5
<1>7. f[j] = 10 * f[j - 1] + a[j]
  BY <1>5, ValuesGrow
<1>8. g[j] = 10 * g[j - 1] + b[j]
  BY <1>5, ValuesGrow
<1>9. QED
  BY <1>3, <1>5, <1>6, <1>7, <1>8

\* Numbers with as many digits compare as their digits do.
LEMMA AboveIsGreater ==
  ASSUME NEW a \in Seq(Digit), NEW b \in Seq(Digit), Len(a) = Len(b), Above(a, b)
  PROVE  Amount(a) > Amount(b)
<1>1. PICK f \in Values(a, Len(a)) : Amount(a) = f[Len(a)]
  BY AmountOfValues
<1>2. PICK g \in Values(b, Len(b)) : Amount(b) = g[Len(b)]
  BY AmountOfValues
<1>3. PICK i \in DOMAIN a \cap DOMAIN b : a[i] > b[i] /\ \A j \in 1 .. (i - 1) : a[j] = b[j]
  BY DEF Above
<1>4. i \in 1 .. Len(a) /\ i \in 1 .. Len(b) /\ i - 1 \in 0 .. Len(a) /\ i \in 0 .. Len(b) /\ Len(a) = Len(b) + 0 /\ i + 0 = i
  OBVIOUS
<1>5. f[i - 1] = g[i - 1]
  <2>1. i - 1 <= Len(b)
    BY <1>4
  <2>2. QED
    BY <1>3, <1>4, <2>1, SameValues
<1>6. f[i] = 10 * f[i - 1] + a[i] /\ f[i - 1] \in Nat /\ a[i] \in Digit
  BY <1>4, ValuesGrow
<1>7. g[i] = 10 * g[i - 1] + b[i] /\ g[i - 1] \in Nat /\ b[i] \in Digit
  BY <1>4, ValuesGrow
<1>8. f[i + 0] > g[i]
  <2>1. f[i] > g[i]
    BY <1>3, <1>5, <1>6, <1>7, NextDigit
  <2>2. QED
    BY <1>4, <2>1
<1>9. f[Len(a)] > g[Len(b)]
  BY <1>4, <1>8, StaysAbove, 0 \in Nat
<1>10. QED
  BY <1>1, <1>2, <1>9

\* So they compare exactly as their digits do: where they first differ decides.
LEMMA SameLengthCompare ==
  ASSUME NEW a \in Seq(Digit), NEW b \in Seq(Digit), Len(a) = Len(b)
  PROVE  Above(a, b) <=> Amount(a) > Amount(b)
<1>1. Amount(a) \in Nat /\ Amount(b) \in Nat
  BY AmountIsNatural
<1>2. SUFFICES ASSUME ~Above(a, b), Amount(a) > Amount(b) PROVE FALSE
  BY AboveIsGreater
<1> DEFINE T == {i \in 1 .. Len(a) : a[i] # b[i]}
<1>3. CASE T = {}
  <2>1. a = b
    <3>1. \A i \in 1 .. Len(a) : a[i] = b[i]
      BY <1>3
    <3>2. QED
      BY <3>1, SeqEqual
  <2>2. QED
    BY <1>1, <1>2, <2>1
<1>4. CASE T # {}
  <2>1. PICK i \in T : \A x \in T : i <= x
    <3>1. T \in SUBSET Nat
      OBVIOUS
    <3>2. QED
      BY <1>4, <3>1, LeastNatural
  <2>2. i \in 1 .. Len(a) /\ i \in 1 .. Len(b) /\ a[i] # b[i] /\ Len(a) \in Nat
    OBVIOUS
  <2>3. \A j \in 1 .. (i - 1) : j \in 1 .. Len(a) /\ ~(i <= j)
    BY <2>2
  <2>4. \A j \in 1 .. (i - 1) : a[j] = b[j]
    BY <2>1, <2>3
  <2>5. a[i] \in Digit /\ b[i] \in Digit
    BY <2>2
  <2>6. a[i] > b[i] \/ b[i] > a[i]
    BY <2>2, <2>5, SMT DEF Digit
  <2>7. i \in DOMAIN a \cap DOMAIN b /\ i \in DOMAIN b \cap DOMAIN a
    BY <2>2
  <2>8. Above(b, a)
    <3>1. ~(a[i] > b[i])
      BY <1>2, <2>4, <2>7 DEF Above
    <3>2. b[i] > a[i]
      BY <2>6, <3>1
    <3>3. \A j \in 1 .. (i - 1) : b[j] = a[j]
      BY <2>4
    <3>4. QED
      BY <2>7, <3>2, <3>3 DEF Above
  <2>9. Amount(b) > Amount(a)
    BY <2>8, AboveIsGreater
  <2>10. QED
    BY <1>1, <1>2, <2>9
<1>5. QED
  BY <1>3, <1>4

\* The digits of a number without leading zeros.
Plain(s) == s \in Seq(Digit) /\ Len(s) > 0 /\ (s[1] # 0 \/ Len(s) = 1)

\* More digits are a greater number.
LEMMA LongerIsGreater ==
  ASSUME NEW a, NEW b, Plain(a), Plain(b), Len(a) > Len(b)
  PROVE  Amount(a) > Amount(b)
<1>1. a \in Seq(Digit) /\ b \in Seq(Digit) /\ Len(a) \in Nat /\ Len(b) \in Nat /\ a[1] # 0 /\ 1 \in 1 .. Len(a)
  BY DEF Plain
<1>2. PICK f \in Values(a, Len(a)) : Amount(a) = f[Len(a)]
  BY <1>1, AmountOfValues
<1>3. PICK g \in Values(b, Len(b)) : Amount(b) = g[Len(b)]
  BY <1>1, AmountOfValues
<1>4. f[0] = 0 /\ g[0] = 0
  BY DEF Values
<1> DEFINE T == {j \in 1 .. Len(a) : ~(f[j] > 0)}
<1>5. T = {}
  <2>1. SUFFICES ASSUME T # {} PROVE FALSE
    OBVIOUS
  <2>2. PICK j \in T : \A x \in T : j <= x
    <3>1. T \in SUBSET Nat
      OBVIOUS
    <3>2. QED
      BY <2>1, <3>1, LeastNatural
  <2>3. j \in 1 .. Len(a) /\ ~(f[j] > 0)
    OBVIOUS
  <2>4. f[j] = 10 * f[j - 1] + a[j] /\ f[j - 1] \in Nat /\ a[j] \in Digit
    BY <1>1, <2>3, ValuesGrow
  <2>5. CASE j = 1
    <3>1. f[j] = a[1] /\ a[1] \in Digit
      BY <1>4, <2>4, <2>5 DEF Digit
    <3>2. QED
      BY <1>1, <2>3, <3>1, SMT DEF Digit
  <2>6. CASE j # 1
    <3>1. j - 1 \in 1 .. Len(a) /\ ~(j <= j - 1)
      BY <1>1, <2>3, <2>6
    <3>2. f[j - 1] > 0
      BY <2>2, <3>1
    <3>3. QED
      BY <2>3, <2>4, <3>2, SMT DEF Digit
  <2>7. QED
    BY <2>5, <2>6
<1>6. PICK c \in Nat \ {0} : Len(a) = Len(b) + c
  BY <1>1
<1>7. c \in 1 .. Len(a) /\ 0 \in 0 .. Len(b) /\ 0 + c = c /\ c \in Nat
  BY <1>1, <1>6
<1>8. f[0 + c] > g[0]
  BY <1>4, <1>5, <1>7
<1>9. QED
  BY <1>1, <1>2, <1>3, <1>6, <1>7, <1>8, StaysAbove

\* Numbers without leading zeros compare by length, then by digits.
LEMMA PlainCompare ==
  ASSUME NEW a, NEW b, Plain(a), Plain(b)
  PROVE  (Len(a) > Len(b) \/ (Len(a) = Len(b) /\ Above(a, b))) <=> Amount(a) > Amount(b)
<1>1. a \in Seq(Digit) /\ b \in Seq(Digit) /\ Len(a) \in Nat /\ Len(b) \in Nat
  BY DEF Plain
<1>2. Amount(a) \in Nat /\ Amount(b) \in Nat
  BY <1>1, AmountIsNatural
<1>3. CASE Len(a) > Len(b)
  BY <1>3, LongerIsGreater
<1>4. CASE Len(a) = Len(b)
  BY <1>1, <1>4, SameLengthCompare
<1>5. CASE Len(b) > Len(a)
  <2>1. Amount(b) > Amount(a)
    BY <1>5, LongerIsGreater
  <2>2. QED
    BY <1>1, <1>2, <1>5, <2>1
<1>6. QED
  BY <1>1, <1>3, <1>4, <1>5

\* A digit alone.
LEMMA AmountOfOne ==
  ASSUME NEW d, d \in Digit
  PROVE  Plain(<<d>>) /\ Amount(<<d>>) = d
<1>1. PICK s : s = <<d>>
  OBVIOUS
<1>2. s \in Seq(Digit) /\ Len(s) = 1 /\ s[1] = d /\ 1 \in 1 .. Len(s) /\ 1 - 1 = 0
  BY <1>1
<1>3. PICK f \in Values(s, Len(s)) : Amount(s) = f[Len(s)]
  BY <1>2, AmountOfValues
<1>4. f[0] = 0
  BY DEF Values
<1>5. f[1] = 10 * f[0] + s[1]
  BY <1>2, ValuesGrow
<1>6. f[1] = d
  BY <1>2, <1>4, <1>5 DEF Digit
<1>7. QED
  BY <1>1, <1>2, <1>3, <1>6 DEF Plain

\* A number with a digit more.
LEMMA AmountOfAppend ==
  ASSUME NEW s \in Seq(Digit), NEW d, d \in Digit
  PROVE  Amount(Append(s, d)) = 10 * Amount(s) + d
<1>1. PICK a : a = Append(s, d)
  OBVIOUS
<1>2. PICK n : n = Len(s)
  OBVIOUS
<1>3. a \in Seq(Digit) /\ n \in Nat /\ Len(a) = n + 1 /\ a[n + 1] = d /\ \A i \in 1 .. n : a[i] = s[i]
  BY <1>1, <1>2
<1>4. PICK f \in Values(a, Len(a)) : Amount(a) = f[Len(a)]
  BY <1>3, AmountOfValues
<1>5. PICK g \in Values(s, Len(s)) : Amount(s) = g[Len(s)]
  BY AmountOfValues
<1>6. f[n] = g[n]
  <2>1. n \in 0 .. Len(a) /\ n <= Len(s)
    BY <1>2, <1>3
  <2>2. QED
    BY <1>3, <2>1, SameValues
<1>7. n + 1 \in 1 .. Len(a) /\ (n + 1) - 1 = n
  BY <1>3
<1>8. f[n + 1] = 10 * f[n] + a[n + 1]
  BY <1>3, <1>7, ValuesGrow
<1>9. QED
  BY <1>1, <1>2, <1>3, <1>4, <1>5, <1>6, <1>8

\* Leading zeros count for nothing.
LEMMA ZerosCountForNothing ==
  ASSUME NEW s \in Seq(Digit), NEW f \in Values(s, Len(s)), NEW k \in 0 .. Len(s), \A i \in 1 .. k : s[i] = 0
  PROVE  f[k] = 0
<1> DEFINE T == {j \in 0 .. k : f[j] # 0}
<1>1. SUFFICES ASSUME T # {} PROVE FALSE
  OBVIOUS
<1>2. PICK j \in T : \A x \in T : j <= x
  <2>1. T \in SUBSET Nat
    OBVIOUS
  <2>2. QED
    BY <1>1, <2>1, LeastNatural
<1>3. j \in 0 .. k /\ f[j] # 0 /\ Len(s) \in Nat
  OBVIOUS
<1>4. j \in 1 .. k /\ j \in 1 .. Len(s) /\ j - 1 \in 0 .. k /\ ~(j <= j - 1)
  BY <1>3 DEF Values
<1>5. f[j - 1] = 0
  BY <1>2, <1>4
<1>6. f[j] = 10 * f[j - 1] + s[j]
  BY <1>4, ValuesGrow
<1>7. QED
  BY <1>3, <1>4, <1>5, <1>6

\* lstrip("0") leaves a number without leading zeros that is the same number.
LEMMA StrippedIsSame ==
  ASSUME NEW s \in Seq(Digit)
  PROVE  Plain(Stripped(s)) /\ Amount(Stripped(s)) = Amount(s)
<1>1. PICK f \in Values(s, Len(s)) : Amount(s) = f[Len(s)]
  BY AmountOfValues
<1>2. PICK n : n = Len(s) /\ n \in Nat /\ DOMAIN s = 1 .. n
  OBVIOUS
<1>3. CASE \A i \in DOMAIN s : s[i] = 0
  <2>1. Stripped(s) = <<0>>
    BY <1>3 DEF Stripped
  <2>2. f[Len(s)] = 0
    <3>1. Len(s) \in 0 .. Len(s) /\ \A i \in 1 .. Len(s) : s[i] = 0
      BY <1>2, <1>3
    <3>2. QED
      BY <3>1, ZerosCountForNothing
  <2>3. QED
    BY <1>1, <2>1, <2>2, AmountOfOne DEF Digit
<1>4. CASE ~ \A i \in DOMAIN s : s[i] = 0
  <2> DEFINE First(i) == s[i] # 0 /\ \A j \in 1 .. (i - 1) : s[j] = 0
             first == CHOOSE i \in DOMAIN s : First(i)
             T == {i \in DOMAIN s : s[i] # 0}
  <2>1. \E i \in DOMAIN s : First(i)
    <3>1. PICK i \in T : \A x \in T : i <= x
      <4>1. T \in SUBSET Nat /\ T # {}
        BY <1>2, <1>4
      <4>2. QED
        BY <4>1, LeastNatural
    <3>2. i \in 1 .. n /\ s[i] # 0
      BY <1>2
    <3>3. \A j \in 1 .. (i - 1) : j \in DOMAIN s /\ ~(i <= j)
      BY <1>2, <3>2
    <3>4. \A j \in 1 .. (i - 1) : s[j] = 0
      BY <3>1, <3>3
    <3>5. QED
      BY <1>2, <3>2, <3>4
  <2>2. first \in DOMAIN s /\ First(first)
    <3> HIDE DEF First
    <3>1. QED
      BY <2>1
  <2>3. Stripped(s) = SubSeq(s, first, Len(s))
    BY <1>4 DEF Stripped
  <2>4. first \in 1 .. n /\ s[first] # 0 /\ \A j \in 1 .. (first - 1) : s[j] = 0
    BY <1>2, <2>2
  <2> HIDE DEF first, First
  <2>5. PICK t, p : t = SubSeq(s, first, n) /\ p = first - 1
    OBVIOUS
  <2>6. /\ p \in Nat /\ p + 1 = first /\ p < n
        /\ t \in Seq(Digit) /\ Len(t) = n - p
        /\ \A i \in 1 .. (n - p) : t[i] = s[p + i]
    <3>1. p \in Nat /\ p + 1 = first /\ p < n
      BY <1>2, <2>4, <2>5
    <3>2. t \in Seq(Digit) /\ Len(t) = n - p
      BY <1>2, <2>4, <2>5
    <3>3. \A i \in 1 .. (n - p) : t[i] = s[p + i]
      BY <1>2, <2>4, <2>5
    <3>4. QED
      BY <3>1, <3>2, <3>3
  <2>7. PICK g \in Values(t, Len(t)) : Amount(t) = g[Len(t)]
    BY <2>6, AmountOfValues
  <2>8. f[p] = 0 /\ g[0] = 0
    <3>1. p \in 0 .. Len(s) /\ \A j \in 1 .. p : s[j] = 0
      BY <1>2, <2>4, <2>6
    <3>2. QED
      BY <3>1, ZerosCountForNothing DEF Values
  <2> DEFINE U == {i \in 0 .. (n - p) : g[i] # f[p + i]}
  <2>9. U = {}
    <3>1. SUFFICES ASSUME U # {} PROVE FALSE
      OBVIOUS
    <3>2. PICK i \in U : \A x \in U : i <= x
      <4>1. U \in SUBSET Nat
        OBVIOUS
      <4>2. QED
        BY <3>1, <4>1, LeastNatural
    <3>3. i \in 0 .. (n - p) /\ g[i] # f[p + i]
      OBVIOUS
    <3>4. i # 0
      BY <2>6, <2>8, <3>3
    <3>5. PICK h : h = p + i
      OBVIOUS
    <3>6. /\ i \in 1 .. Len(t) /\ h \in 1 .. Len(s) /\ i - 1 \in 0 .. (n - p) /\ ~(i <= i - 1)
          /\ h - 1 = p + (i - 1) /\ i \in 1 .. (n - p)
      BY <1>2, <2>6, <3>3, <3>4, <3>5
    <3>7. g[i - 1] = f[h - 1]
      BY <3>2, <3>6
    <3>8. g[i] = 10 * g[i - 1] + t[i]
      BY <2>6, <3>6, ValuesGrow
    <3>9. f[h] = 10 * f[h - 1] + s[h]
      BY <3>6, ValuesGrow
    <3>10. t[i] = s[h]
      BY <2>6, <3>5, <3>6
    <3>11. QED
      BY <3>3, <3>5, <3>7, <3>8, <3>9, <3>10
  <2>10. Amount(t) = Amount(s)
    <3>1. n - p \in 0 .. (n - p) /\ p + (n - p) = n
      BY <1>2, <2>6
    <3>2. g[n - p] = f[n]
      BY <2>9, <3>1
    <3>3. QED
      BY <1>1, <1>2, <2>6, <2>7, <3>2
  <2>11. Plain(t)
    <3>1. t[1] = s[first] /\ Len(t) > 0
      BY <1>2, <2>6
    <3>2. QED
      BY <2>4, <2>6, <3>1 DEF Plain
  <2>12. QED
    BY <1>2, <2>3, <2>5, <2>10, <2>11
<1>5. QED
  BY <1>3, <1>4

\* What the numbers up to n are written as.
Written(n) ==
  {f \in [0 .. n -> Seq(Digit)] : \A k \in 0 .. n : f[k] = IF k < 10 THEN <<k>> ELSE Append(f[k \div 10], k % 10)}

\* The number before the last digit is smaller.
LEMMA LastDigit ==
  ASSUME NEW k, k \in Nat
  PROVE  /\ k \div 10 \in Nat /\ k % 10 \in Digit /\ k = 10 * (k \div 10) + (k % 10)
         /\ k >= 10 => k \div 10 < k /\ k \div 10 > 0
         /\ k < 10 => k \in Digit
<1>1. k \div 10 \in Nat /\ k = 10 * (k \div 10) + (k % 10) /\ k % 10 \in 0 .. 9
  BY SMT
<1>2. PICK q, r : q = k \div 10 /\ r = k % 10
  OBVIOUS
<1>3. q \in Nat /\ k = 10 * q + r /\ r \in 0 .. 9
  BY <1>1, <1>2
<1>4. (k >= 10 => q < k /\ q > 0) /\ (k < 10 => k \in 0 .. 9)
  BY <1>3, SMT
<1>5. QED
  BY <1>1, <1>2, <1>4 DEF Digit

\* The recursion of Digits has a solution.
LEMMA WrittenExist ==
  ASSUME NEW n \in Nat
  PROVE  Written(n) # {}
<1> DEFINE T == {k \in Nat : Written(k) = {}}
<1>1. SUFFICES ASSUME T # {} PROVE FALSE
  OBVIOUS
<1>2. PICK k \in T : \A j \in T : k <= j
  <2>1. T \in SUBSET Nat
    OBVIOUS
  <2>2. QED
    BY <1>1, <2>1, LeastNatural
<1>3. k \in Nat /\ Written(k) = {}
  OBVIOUS
<1>4. \E g : /\ \A j \in 0 .. k : j # k => g[j] \in Seq(Digit) /\ g[j] = IF j < 10 THEN <<j>> ELSE Append(g[j \div 10], j % 10)
  <2>1. CASE k = 0
    BY <2>1
  <2>2. CASE k # 0
    <3>1. k - 1 \in Nat /\ ~(k <= k - 1)
      BY <1>3, <2>2
    <3>2. PICK g \in Written(k - 1) : TRUE
      BY <1>2, <3>1
    <3>3. \A j \in 0 .. k : j # k => j \in 0 .. (k - 1)
      BY <1>3
    <3>4. \A j \in 0 .. (k - 1) : g[j] \in Seq(Digit) /\ g[j] = IF j < 10 THEN <<j>> ELSE Append(g[j \div 10], j % 10)
      BY DEF Written
    <3>5. QED
      BY <3>3, <3>4
  <2>3. QED
    BY <2>1, <2>2
<1>5. PICK g : \A j \in 0 .. k : j # k => g[j] \in Seq(Digit) /\ g[j] = IF j < 10 THEN <<j>> ELSE Append(g[j \div 10], j % 10)
  BY <1>4
<1> DEFINE last == IF k < 10 THEN <<k>> ELSE Append(g[k \div 10], k % 10)
           f == [j \in 0 .. k |-> IF j = k THEN last ELSE g[j]]
<1>6. k \div 10 \in Nat /\ k % 10 \in Digit /\ (k >= 10 => k \div 10 < k) /\ (k < 10 => k \in Digit)
  BY <1>3, LastDigit
<1>7. last \in Seq(Digit)
  <2>1. CASE k < 10
    BY <1>6, <2>1
  <2>2. CASE ~(k < 10)
    <3>1. k \div 10 \in 0 .. k /\ k \div 10 # k
      BY <1>3, <1>6, <2>2
    <3>2. PICK s, d : s = g[k \div 10] /\ d = k % 10
      OBVIOUS
    <3>3. s \in Seq(Digit) /\ d \in Digit
      BY <1>5, <1>6, <3>1, <3>2
    <3>4. last = Append(s, d)
      BY <2>2, <3>2
    <3> HIDE DEF last
    <3>5. QED
      BY <3>3, <3>4
  <2>3. QED
    BY <2>1, <2>2
<1> HIDE DEF last
<1>8. f \in [0 .. k -> Seq(Digit)]
  BY <1>5, <1>7
<1>9. ASSUME NEW j \in 0 .. k
      PROVE  f[j] = IF j < 10 THEN <<j>> ELSE Append(f[j \div 10], j % 10)
  <2>1. j \in Nat /\ j \div 10 \in Nat /\ (j >= 10 => j \div 10 < j)
    BY <1>3, LastDigit
  <2>2. ~(j < 10) => j \div 10 \in 0 .. k /\ j \div 10 # k
    BY <1>3, <2>1
  <2>3. ~(j < 10) => f[j \div 10] = g[j \div 10]
    BY <2>2
  <2>4. CASE j = k
    BY <2>3, <2>4 DEF last
  <2>5. CASE j # k
    BY <1>5, <2>3, <2>5
  <2>6. QED
    BY <2>4, <2>5
<1> HIDE DEF f
<1>10. f \in Written(k)
  BY <1>8, <1>9 DEF Written
<1>11. QED
  BY <1>3, <1>10

\* Digits is that solution.
LEMMA DigitsAreWritten ==
  ASSUME NEW n \in Nat
  PROVE  \E f \in Written(n) : Digits(n) = f[n]
<1> DEFINE W(f) == [k \in 0 .. n |-> IF k < 10 THEN <<k>> ELSE Append(f[k \div 10], k % 10)]
           written == CHOOSE f : f = W(f)
<1>1. PICK g \in Written(n) : TRUE
  BY WrittenExist
<1>2. g = W(g)
  BY DEF Written
<1>3. written = W(written)
  <2> HIDE DEF W
  <2>1. QED
    BY <1>2
<1>4. Digits(n) = written[n]
  BY DEF Digits
<1> HIDE DEF written
<1>5. /\ written = [k \in 0 .. n |-> written[k]]
      /\ \A k \in 0 .. n : written[k] = IF k < 10 THEN <<k>> ELSE Append(written[k \div 10], k % 10)
  BY <1>3
<1>6. /\ g = [k \in 0 .. n |-> g[k]]
      /\ \A k \in 0 .. n : g[k] = IF k < 10 THEN <<k>> ELSE Append(g[k \div 10], k % 10)
  BY DEF Written
<1>7. \A k \in 0 .. n : written[k] = g[k]
  <2> DEFINE T == {k \in 0 .. n : written[k] # g[k]}
  <2>1. SUFFICES ASSUME T # {} PROVE FALSE
    OBVIOUS
  <2>2. PICK k \in T : \A j \in T : k <= j
    <3>1. T \in SUBSET Nat
      OBVIOUS
    <3>2. QED
      BY <2>1, <3>1, LeastNatural
  <2>3. k \in 0 .. n /\ written[k] # g[k] /\ k \in Nat
    OBVIOUS
  <2>4. ~(k < 10)
    BY <1>5, <1>6, <2>3
  <2>5. k \div 10 \in 0 .. n /\ ~(k <= k \div 10)
    <3>1. k \div 10 \in Nat /\ k \div 10 < k
      BY <2>3, <2>4, LastDigit
    <3>2. QED
      BY <2>3, <3>1
  <2>6. written[k \div 10] = g[k \div 10]
    BY <2>2, <2>5
  <2>7. QED
    BY <1>5, <1>6, <2>3, <2>4, <2>6
<1>8. written = g
  BY <1>5, <1>6, <1>7
<1>9. QED
  BY <1>1, <1>4, <1>8

\* Writing a number and reading it again gives the number.
LEMMA DigitsOfNumber ==
  ASSUME NEW n \in Nat
  PROVE  Plain(Digits(n)) /\ Amount(Digits(n)) = n
<1>1. PICK f \in Written(n) : Digits(n) = f[n]
  BY DigitsAreWritten
<1> DEFINE Right(k) == Plain(f[k]) /\ Amount(f[k]) = k /\ (k > 0 => f[k][1] # 0)
           T == {k \in 0 .. n : ~Right(k)}
<1>2. SUFFICES T = {}
  BY <1>1
<1>3. SUFFICES ASSUME T # {} PROVE FALSE
  OBVIOUS
<1>4. PICK k \in T : \A j \in T : k <= j
  <2>1. T \in SUBSET Nat
    OBVIOUS
  <2>2. QED
    BY <1>3, <2>1, LeastNatural
<1>5. k \in 0 .. n /\ ~Right(k) /\ k \in Nat
  OBVIOUS
<1>6. f[k] = IF k < 10 THEN <<k>> ELSE Append(f[k \div 10], k % 10)
  BY <1>5 DEF Written
<1>7. CASE k < 10
  <2>1. k \in Digit /\ f[k] = <<k>>
    BY <1>5, <1>6, <1>7, LastDigit
  <2>2. Plain(<<k>>) /\ Amount(<<k>>) = k /\ <<k>>[1] = k
    BY <2>1, AmountOfOne
  <2>3. QED
    BY <1>5, <2>1, <2>2
<1>8. CASE ~(k < 10)
  <2>1. PICK j, d, s : j = k \div 10 /\ d = k % 10 /\ s = f[j]
    OBVIOUS
  <2>2. j \in 0 .. n /\ j > 0 /\ ~(k <= j) /\ d \in Digit /\ k = 10 * j + d
    <3>1. k \div 10 \in Nat /\ k \div 10 < k /\ k \div 10 > 0 /\ k % 10 \in Digit /\ k = 10 * (k \div 10) + (k % 10)
      <4>1. k \in Nat /\ k >= 10
        BY <1>5, <1>8
      <4>2. QED
        BY <4>1, LastDigit
    <3>2. QED
      BY <1>5, <2>1, <3>1
  <2>3. Right(j)
    BY <1>4, <2>2
  <2>4. s \in Seq(Digit) /\ Len(s) > 0 /\ Amount(s) = j /\ s[1] # 0
    BY <2>1, <2>2, <2>3 DEF Plain
  <2>5. f[k] = Append(s, d)
    BY <1>6, <1>8, <2>1
  <2>6. Amount(f[k]) = k
    BY <2>2, <2>4, <2>5, AmountOfAppend
  <2>7. f[k] \in Seq(Digit) /\ Len(f[k]) > 0 /\ f[k][1] = s[1]
    BY <2>2, <2>4, <2>5
  <2>8. QED
    BY <1>5, <2>4, <2>6, <2>7 DEF Plain
<1>9. QED
  BY <1>7, <1>8

\* canonical_date compares decimal strings, which is comparing the numbers:
\* leading zeros do not matter, and a longer number is a greater one.
THEOREM AmountsCompareAsNumbers ==
  ASSUME NEW digits \in Seq(Digit), NEW unit
  PROVE  ExceedsLimit(digits, unit) <=> Amount(digits) > Limit(unit)
<1>1. PICK n : n = Limit(unit)
  OBVIOUS
<1>2. n \in Nat
  <2>1. IsDate(MinDate) /\ Ordinal(MinDate) = 1
    BY SMT DEF IsDate, Years, MinDate, Date, Ordinal, DaysBeforeYear, DaysBeforeMonth, MonthLength
  <2>2. Ordinal(MinDate) <= Ordinal(MaxDate)
    BY <2>1, OrdinalFacts
  <2>3. QED
    BY <1>1, <2>1, <2>2, LastDay, SMT DEF Limit
<1>3. PICK a, b : a = Stripped(digits) /\ b = Digits(n)
  OBVIOUS
<1>4. Plain(a) /\ Amount(a) = Amount(digits)
  BY <1>3, StrippedIsSame
<1>5. Plain(b) /\ Amount(b) = n
  BY <1>2, <1>3, DigitsOfNumber
<1>6. ExceedsLimit(digits, unit) <=> Len(a) > Len(b) \/ (Len(a) = Len(b) /\ Above(a, b))
  BY <1>1, <1>3 DEF ExceedsLimit
<1>7. QED
  BY <1>1, <1>4, <1>5, <1>6, PlainCompare

\* A value of the contract: a date, or days or months in decimal.
IsValue(value) == value.unit = "date" \/ (value.unit \in {"d", "m"} /\ value.digits \in Seq(Digit))

\* What canonical_date accepts is what some base date can resolve: it refuses
\* no amount that a date can be, and none that it accepts is beyond every base.
THEOREM CanonicalValuesResolve ==
  ASSUME NEW value, IsValue(value)
  PROVE  Canonical(value) <=> \E b : IsDate(b) /\ ~Raises(value, {b})
<1>1. IsDate(MinDate) /\ Ordinal(MinDate) = 1 /\ RemainingMonths(MinDate) = Limit("m")
  BY SMT DEF IsDate, Years, MinDate, Date, Ordinal, DaysBeforeYear, DaysBeforeMonth, MonthLength, RemainingMonths, Limit
<1>2. Ordinal(MaxDate) - Ordinal(MinDate) = Limit("d")
  BY DEF Limit
<1>3. ASSUME Canonical(value)
      PROVE  ~Raises(value, {MinDate})
  <2>1. CASE value.unit = "date"
    BY <1>3, <2>1 DEF Raises
  <2>2. CASE value.unit \in {"d", "m"} /\ value.unit # "date"
    <3>1. value.digits \in Seq(Digit)
      BY <2>2 DEF IsValue
    <3>2. ~(Amount(value.digits) > Limit(value.unit))
      BY <1>3, <2>2, <3>1, AmountsCompareAsNumbers DEF Canonical
    <3>3. QED
      BY <1>1, <1>2, <1>3, <2>2, <3>2 DEF Raises
  <2>3. QED
    BY <2>1, <2>2 DEF IsValue
<1>4. QED
  BY <1>1, <1>3 DEF Raises

-----------------------------------------------------------------------------
(* Questions.                                                              *)

\* What the options of the questions before i can emit.
Targets(i) == UNION {Emits(questions[j], DOMAIN questions[j].emits) : j \in 1 .. (i - 1)}

\* Lint is over and has found no error.
Linted == pc \notin {"lint", "invalid"}

\* Lint has seen what the earlier questions emit, has declared flags only, and
\* has warned of nothing but unreachable questions.
LintInv ==
  /\ pack \in Packs /\ input \in Inputs(pack) /\ at \in 1 .. (Len(questions) + 1)
  /\ warned \subseteq DOMAIN questions
  /\ \A i \in warned : Unreachable(questions[i], Targets(i))
  /\ pc = "lint" => /\ earlier = Targets(at) /\ flags = {}
                    /\ ~errors => Targets(at) \subseteq Registry
  /\ pc = "input" => at = 1 /\ flags = {}
  /\ Linted => Targets(Len(questions) + 1) \subseteq Registry /\ CalendarSound /\ DueRulesSound

\* The answers to the questions before i are proper and their questions active.
AcceptedBefore(i) ==
  \A j \in 1 .. (i - 1) : Answered(questions[j]) =>
    ProperAnswer(questions[j], AnswerTo(questions[j])) /\ EvaluateCondition(questions[j].when, Before(j))

\* The loop has accepted what it went by, and what it stopped at is no accepted answer.
AskInv ==
  /\ pc \in {"ask"} \cup Evaluated => (answers # {} => flags = Before(at) /\ AcceptedBefore(at))
  /\ pc \in Evaluated => at = Len(questions) + 1
  /\ pc = "unanswered" => \E i \in DOMAIN questions :
       /\ Answered(questions[i])
       /\ ProperAnswer(questions[i], AnswerTo(questions[i])) => ~EvaluateCondition(questions[i].when, Before(i))

\* What the assumption says of the pack.
LEMMA QuestionFacts ==
  ASSUME pack \in Packs
  PROVE  /\ Len(questions) \in Nat /\ DOMAIN questions = 1 .. Len(questions)
         /\ \A i \in DOMAIN questions : questions[i].when \in Trees /\ questions[i].type \in {"one_of", "multi", "text"}
<1>1. PICK qs, S : qs = questions /\ qs \in Seq(S)
  BY IntakeAssumption DEF questions
<1>2. Len(qs) \in Nat /\ DOMAIN qs = 1 .. Len(qs)
  BY <1>1
<1>3. \A i \in DOMAIN questions : questions[i].when \in Trees /\ questions[i].type \in {"one_of", "multi", "text"}
  BY IntakeAssumption DEF questions
<1>4. QED
  BY <1>1, <1>2, <1>3

\* An answer emits no more than its question can.
LEMMA AnswersEmitTargets ==
  ASSUME pack \in Packs, NEW i \in 1 .. (Len(questions) + 1)
  PROVE  Before(i) \subseteq Targets(i)
<1>1. \A j \in 1 .. (i - 1) : j \in DOMAIN questions
  BY QuestionFacts
<1>2. ASSUME NEW q, q.type \in {"one_of", "multi", "text"}, NEW a
      PROVE  Emission(q, a) \subseteq Emits(q, DOMAIN q.emits)
  BY <1>2 DEF Emission, Emits
<1>3. \A j \in 1 .. (i - 1) : Emission(questions[j], AnswerTo(questions[j])) \subseteq Emits(questions[j], DOMAIN questions[j].emits)
  BY <1>1, <1>2, QuestionFacts
<1>4. QED
  BY <1>3 DEF Before, Targets

\* One question more.
LEMMA TargetsStep ==
  ASSUME NEW i \in Nat \ {0}
  PROVE  /\ Targets(1) = {} /\ Before(1) = {}
         /\ Targets(i + 1) = Targets(i) \cup Emits(questions[i], DOMAIN questions[i].emits)
         /\ Answered(questions[i]) => Before(i + 1) = Before(i) \cup Emission(questions[i], AnswerTo(questions[i]))
         /\ ~Answered(questions[i]) => Before(i + 1) = Before(i)
<1>1. 1 .. ((i + 1) - 1) = (1 .. (i - 1)) \cup {i} /\ 1 .. (1 - 1) = {}
  OBVIOUS
<1>2. Targets(1) = {} /\ Before(1) = {}
  BY <1>1 DEF Targets, Before
<1>3. Targets(i + 1) = Targets(i) \cup Emits(questions[i], DOMAIN questions[i].emits)
  BY <1>1 DEF Targets
<1> DEFINE G(n) == {k \in 1 .. (n - 1) : Answered(questions[k])}
<1>4. Answered(questions[i]) => G(i + 1) = G(i) \cup {i}
  BY <1>1
<1>5. ~Answered(questions[i]) => G(i + 1) = G(i)
  BY <1>1
<1>6. \A n : Before(n) = UNION {Emission(questions[j], AnswerTo(questions[j])) : j \in G(n)}
  BY DEF Before
<1> HIDE DEF G
<1>7. Answered(questions[i]) => Before(i + 1) = Before(i) \cup Emission(questions[i], AnswerTo(questions[i]))
  BY <1>4, <1>6
<1>8. ~Answered(questions[i]) => Before(i + 1) = Before(i)
  BY <1>5, <1>6
<1>9. QED
  BY <1>2, <1>3, <1>7, <1>8

\* What is computed from the pack and the input alone does not change.
LEMMA PackFunctions ==
  ASSUME UNCHANGED <<pack, input>>
  PROVE  /\ UNCHANGED <<questions, answers, calendar, rules, Base, CalendarSound, DueRulesSound>>
         /\ \A i : Targets(i)' = Targets(i) /\ Before(i)' = Before(i)
         /\ \A q : Answered(q)' = Answered(q) /\ AnswerTo(q)' = AnswerTo(q)
<1>1. UNCHANGED <<questions, answers, calendar, rules, Base>>
  BY DEF questions, answers, calendar, rules, Base
<1>2. CalendarSound' = CalendarSound /\ DueRulesSound' = DueRulesSound
  BY <1>1 DEF CalendarSound, DueRulesSound
<1>3. \A q : Answered(q)' = Answered(q) /\ AnswerTo(q)' = AnswerTo(q)
  BY <1>1 DEF Answered, AnswerTo
<1>4. \A i : Targets(i)' = Targets(i) /\ Before(i)' = Before(i)
  BY <1>1, <1>3 DEF Targets, Before
<1>5. QED
  BY <1>1, <1>2, <1>3, <1>4

-----------------------------------------------------------------------------
(* Dates and deadlines.                                                    *)

\* A date that lies where the pack says.
DatedRight(k) ==
  /\ IsDate(resolved[k])
  /\ IF calendar[k].unit = "date" THEN resolved[k] = calendar[k].date
     ELSE \E b \in Base : LiesAfter(resolved[k], b, calendar[k])

\* There is no base date, or a value past the last date from it.
Undatable ==
  /\ input.base = {} => pack.base = {}
  /\ \E k \in DOMAIN calendar : \A b \in Base :
       CASE calendar[k].unit = "date" -> FALSE
         [] calendar[k].unit = "d" -> Ordinal(b) + Amount(calendar[k].digits) > Ordinal(MaxDate)
         [] OTHER -> 12 * b.y + b.m + Amount(calendar[k].digits) > 12 * MaxDate.y + MaxDate.m

\* The base date is a date, the keys not left are resolved, and rightly, and
\* where it cannot go on no date can be.
DateInv ==
  /\ pc \in {"ask"} \cup Evaluated => \A b \in input.base : IsDate(b)
  /\ pc \notin Evaluated => resolved = <<>>
  /\ pc = "dates" => left \subseteq DOMAIN calendar /\ DOMAIN resolved = DOMAIN calendar \ left
  /\ pc \in {"due", "done"} => DOMAIN resolved = DOMAIN calendar
  /\ pc \in Evaluated => \A k \in DOMAIN resolved : k \in DOMAIN calendar /\ DatedRight(k)
  /\ pc = "undated" => Undatable

\* The due rules already applied.
Applied == DOMAIN rules \ left

\* Rule i comes before rule j in the order of application.
Precedes(i, j) ==
  rules[j].priority < rules[i].priority \/ (rules[j].priority = rules[i].priority /\ i <= j)

\* The dates rule i looks up.
KeyDates(i) == {resolved[k] : k \in rules[i].keys}

\* i is the first of the applied rules that name a.
Decides(i, a) == /\ i \in Applied /\ Matches(rules[i], a)
                 /\ \A j \in Applied : Matches(rules[j], a) => Precedes(i, j)

\* Rules apply in their order, and what has a deadline has that of its first rule.
DueInv ==
  /\ pc \in {"lint", "input", "ask", "dates"} => hints = <<>>
  /\ pc \in {"due", "done"} =>
       /\ left \subseteq DOMAIN rules
       /\ \A i \in Applied, j \in left : Precedes(i, j)
       /\ \A a \in DOMAIN hints : a \in Selected /\ \E i \in DOMAIN rules : Decides(i, a) /\ hints[a] = Earliest(KeyDates(i))
       /\ \A a \in Selected, i \in Applied : Matches(rules[i], a) => a \in DOMAIN hints
  /\ pc = "done" => left = {}

\* The inductive invariant.
IntakeInv == LintInv /\ AskInv /\ DateInv /\ DueInv

USE DEF Evaluated, Linted


\* It holds at first.
LEMMA IntakeInitially == Init => IntakeInv
<1> SUFFICES ASSUME Init PROVE IntakeInv
  OBVIOUS
<1>1. /\ pack \in Packs /\ input \in Inputs(pack) /\ pc = "lint" /\ at = 1
      /\ earlier = {} /\ warned = {} /\ flags = {} /\ resolved = <<>> /\ hints = <<>>
  BY DEF Init
<1>2. Targets(1) = {} /\ Before(1) = {}
  <2>1. 1 \in Nat \ {0}
    OBVIOUS
  <2>2. QED
    BY <2>1, TargetsStep
<1>3. Len(questions) \in Nat
  BY <1>1, QuestionFacts
<1>4. LintInv
  BY <1>1, <1>2, <1>3 DEF LintInv
<1>5. AskInv
  BY <1>1 DEF AskInv
<1>6. DateInv
  BY <1>1 DEF DateInv
<1>7. DueInv
  BY <1>1 DEF DueInv
<1>8. QED
  BY <1>4, <1>5, <1>6, <1>7 DEF IntakeInv

\* No step changes the pack or the input.
LEMMA SamePack ==
  ASSUME [Next]_vars
  PROVE  UNCHANGED <<pack, input>>
BY DEF Next, vars, LintQuestion, EndLint, ReadInput, Ask, EndQuestions, EndDates, Finish, ResolveKey, ApplyRule

\* Every step keeps what is known of lint.
LEMMA LintStep ==
  ASSUME IntakeInv, [Next]_vars
  PROVE  LintInv'
<1>1. UNCHANGED <<pack, input>>
  BY SamePack
<1>2. /\ UNCHANGED <<questions, CalendarSound, DueRulesSound>>
      /\ \A i : Targets(i)' = Targets(i)
  BY <1>1, PackFunctions
<1>3. LintInv
  BY DEF IntakeInv
<1>4. pack \in Packs /\ Len(questions) \in Nat /\ DOMAIN questions = 1 .. Len(questions)
  BY <1>3, QuestionFacts DEF LintInv
<1>5. (\A i \in warned : Unreachable(questions[i], Targets(i))) /\ UNCHANGED warned
      => \A i \in warned' : Unreachable(questions'[i], Targets(i)')
  BY <1>2
<1>6. CASE LintQuestion
  <2>1. PICK i : i = at
    OBVIOUS
  <2>2. /\ pc = "lint" /\ pc' = pc /\ i \in DOMAIN questions /\ at' = i + 1 /\ flags' = flags
        /\ earlier' = earlier \cup Emits(questions[i], DOMAIN questions[i].emits)
        /\ errors' = (errors \/ ~WellFormed(questions[i]) \/ ~KnownCondition(questions[i].when)
                        \/ ~(Emits(questions[i], DOMAIN questions[i].emits) \subseteq Registry))
        /\ warned' = IF Unreachable(questions[i], earlier) THEN warned \cup {i} ELSE warned
    BY <1>6, <2>1 DEF LintQuestion
  <2>3. i \in Nat \ {0} /\ i + 1 \in 1 .. (Len(questions) + 1) /\ earlier = Targets(i) /\ flags = {}
    BY <1>3, <1>4, <2>1, <2>2 DEF LintInv
  <2>4. Targets(i + 1) = Targets(i) \cup Emits(questions[i], DOMAIN questions[i].emits)
    BY <2>3, TargetsStep
  <2>5. \A j \in warned' : Unreachable(questions[j], Targets(j)) /\ j \in DOMAIN questions
    BY <1>3, <2>2, <2>3 DEF LintInv
  <2>6. ~errors' => Targets(i + 1) \subseteq Registry
    BY <1>3, <2>1, <2>2, <2>4 DEF LintInv
  <2>7. QED
    BY <1>1, <1>2, <1>3, <2>2, <2>3, <2>4, <2>5, <2>6 DEF LintInv
<1>7. CASE EndLint
  <2>1. /\ pc = "lint" /\ at \notin DOMAIN questions /\ at' = 1 /\ flags' = flags /\ warned' = warned
        /\ pc' \in {"invalid", "refused", "input"}
        /\ pc' # "invalid" => ~errors /\ CalendarSound /\ DueRulesSound
    BY <1>7 DEF EndLint
  <2>2. at = Len(questions) + 1 /\ flags = {}
    BY <1>3, <1>4, <2>1 DEF LintInv
  <2>3. pc' # "invalid" => Targets(Len(questions) + 1) \subseteq Registry
    BY <1>3, <2>1, <2>2 DEF LintInv
  <2>4. QED
    BY <1>1, <1>2, <1>3, <1>4, <2>1, <2>2, <2>3 DEF LintInv
<1>8. ASSUME UNCHANGED <<at, warned>>, pc' \notin {"lint", "input"}, Linted
      PROVE  LintInv'
  BY <1>1, <1>2, <1>3, <1>8 DEF LintInv
<1>9. CASE ReadInput
  BY <1>8, <1>9 DEF ReadInput
<1>10. CASE Ask
  <2>1. at \in DOMAIN questions /\ at' = at + 1 /\ warned' = warned /\ pc = "ask" /\ pc' \in {"ask", "unanswered"}
    BY <1>10 DEF Ask
  <2>2. at' \in 1 .. (Len(questions) + 1)
    BY <1>4, <2>1
  <2>3. QED
    BY <1>1, <1>2, <1>3, <2>1, <2>2 DEF LintInv
<1>11. CASE EndQuestions
  BY <1>8, <1>11 DEF EndQuestions
<1>12. CASE EndDates
  BY <1>8, <1>12 DEF EndDates
<1>13. CASE Finish
  BY <1>8, <1>13 DEF Finish
<1>14. ASSUME NEW k \in DOMAIN calendar, ResolveKey(k)
       PROVE  LintInv'
  BY <1>8, <1>14 DEF ResolveKey
<1>15. ASSUME NEW i \in DOMAIN rules, ApplyRule(i)
       PROVE  LintInv'
  BY <1>8, <1>15 DEF ApplyRule
<1>16. CASE UNCHANGED vars
  BY <1>1, <1>2, <1>3, <1>16 DEF LintInv, vars
<1>17. QED
  BY <1>6, <1>7, <1>9, <1>10, <1>11, <1>12, <1>13, <1>14, <1>15, <1>16 DEF Next

\* Every step keeps what is known of the answers.
LEMMA AskStep ==
  ASSUME IntakeInv, [Next]_vars
  PROVE  AskInv'
<1>1. UNCHANGED <<pack, input>>
  BY SamePack
<1>2. /\ UNCHANGED <<questions, answers>>
      /\ \A i : Before(i)' = Before(i)
      /\ \A q : Answered(q)' = Answered(q) /\ AnswerTo(q)' = AnswerTo(q)
  BY <1>1, PackFunctions
<1>3. LintInv /\ AskInv
  BY DEF IntakeInv
<1>4. pack \in Packs /\ Len(questions) \in Nat /\ DOMAIN questions = 1 .. Len(questions) /\ at \in Nat \ {0}
  BY <1>3, QuestionFacts DEF LintInv
<1>5. \A i : AcceptedBefore(i)' = AcceptedBefore(i)
  BY <1>2 DEF AcceptedBefore
<1>6. ASSUME UNCHANGED <<at, flags>>, pc' \in {"ask"} \cup Evaluated => pc \in {"ask"} \cup Evaluated,
             pc' \in Evaluated => pc \in Evaluated, pc' # "unanswered"
      PROVE  AskInv'
  BY <1>2, <1>3, <1>5, <1>6 DEF AskInv
<1>7. CASE LintQuestion
  BY <1>7 DEF LintQuestion, AskInv
<1>8. CASE EndLint
  BY <1>8 DEF EndLint, AskInv
<1>9. CASE ReadInput
  <2>1. pc = "input" /\ pc' \in {"rejected", "unknown", "ask"} /\ at' = at
        /\ (pc' = "ask" => flags' = UNION {ToSet(f) : f \in input.flags} /\ ~((input.flags = {}) = (answers = {})))
    BY <1>9 DEF ReadInput
  <2>2. at = 1
    BY <1>3, <2>1 DEF LintInv
  <2>3. Before(1) = {} /\ AcceptedBefore(1)
    <3>1. 1 \in Nat \ {0} /\ 1 .. (1 - 1) = {}
      OBVIOUS
    <3>2. QED
      BY <3>1, TargetsStep DEF AcceptedBefore
  <2>4. pc' = "ask" => (answers # {} => flags' = Before(1))
    BY <2>1, <2>3
  <2>5. QED
    BY <1>2, <1>5, <2>1, <2>2, <2>3, <2>4 DEF AskInv
<1>10. CASE Ask
  <2>1. PICK i, q : i = at /\ q = questions[i]
    OBVIOUS
  <2>2. /\ pc = "ask" /\ i \in DOMAIN questions /\ at' = i + 1
        /\ ~Answered(q) => pc' = pc /\ flags' = flags
        /\ Answered(q) /\ ProperAnswer(q, AnswerTo(q)) /\ EvaluateCondition(q.when, flags) =>
             pc' = pc /\ flags' = flags \cup Emission(q, AnswerTo(q))
        /\ Answered(q) /\ ~(ProperAnswer(q, AnswerTo(q)) /\ EvaluateCondition(q.when, flags)) =>
             pc' = "unanswered" /\ flags' = flags
    BY <1>10, <2>1 DEF Ask
  <2>3. answers # {} => flags = Before(i) /\ AcceptedBefore(i)
    BY <1>3, <2>1, <2>2 DEF AskInv
  <2>4. i \in Nat \ {0} /\ 1 .. ((i + 1) - 1) = (1 .. (i - 1)) \cup {i}
    BY <1>4, <2>2
  <2>5. /\ Answered(q) => Before(i + 1) = Before(i) \cup Emission(q, AnswerTo(q))
        /\ ~Answered(q) => Before(i + 1) = Before(i)
    BY <2>1, <2>4, TargetsStep
  <2>6. AcceptedBefore(i) /\ (Answered(q) => ProperAnswer(q, AnswerTo(q)) /\ EvaluateCondition(q.when, Before(i)))
        => AcceptedBefore(i + 1)
    BY <2>1, <2>4 DEF AcceptedBefore
  <2>7. Answered(q) => answers # {}
    BY DEF Answered
  <2>8. CASE ~Answered(q)
    BY <1>2, <1>5, <2>2, <2>3, <2>5, <2>6, <2>8 DEF AskInv
  <2>9. CASE Answered(q) /\ ProperAnswer(q, AnswerTo(q)) /\ EvaluateCondition(q.when, flags)
    BY <1>2, <1>5, <2>2, <2>3, <2>5, <2>6, <2>7, <2>9 DEF AskInv
  <2>10. CASE Answered(q) /\ ~(ProperAnswer(q, AnswerTo(q)) /\ EvaluateCondition(q.when, flags))
    <3>1. ProperAnswer(q, AnswerTo(q)) => ~EvaluateCondition(q.when, Before(i))
      BY <2>3, <2>7, <2>10
    <3>2. \E j \in DOMAIN questions :
            /\ Answered(questions[j])
            /\ ProperAnswer(questions[j], AnswerTo(questions[j])) => ~EvaluateCondition(questions[j].when, Before(j))
      BY <2>1, <2>2, <2>10, <3>1
    <3>3. pc' = "unanswered"
      BY <2>2, <2>10
    <3>4. QED
      BY <1>2, <3>2, <3>3 DEF AskInv
  <2>11. QED
    BY <2>8, <2>9, <2>10
<1>11. CASE EndQuestions
  <2>1. pc = "ask" /\ at \notin DOMAIN questions /\ pc' = "dates" /\ UNCHANGED <<at, flags>>
    BY <1>11 DEF EndQuestions
  <2>2. at = Len(questions) + 1
    BY <1>3, <1>4, <2>1 DEF LintInv
  <2>3. QED
    BY <1>2, <1>3, <1>5, <2>1, <2>2 DEF AskInv
<1>12. CASE EndDates
  BY <1>6, <1>12 DEF EndDates
<1>13. CASE Finish
  BY <1>6, <1>13 DEF Finish
<1>14. ASSUME NEW k \in DOMAIN calendar, ResolveKey(k)
       PROVE  AskInv'
  BY <1>6, <1>14 DEF ResolveKey
<1>15. ASSUME NEW i \in DOMAIN rules, ApplyRule(i)
       PROVE  AskInv'
  BY <1>6, <1>15 DEF ApplyRule
<1>16. CASE UNCHANGED vars
  BY <1>2, <1>3, <1>5, <1>16 DEF AskInv, vars
<1>17. QED
  BY <1>7, <1>8, <1>9, <1>10, <1>11, <1>12, <1>13, <1>14, <1>15, <1>16 DEF Next

\* There is one base date at most.
LEMMA OneBase ==
  ASSUME pack \in Packs, input \in Inputs(pack), NEW b \in Base, NEW c \in Base
  PROVE  b = c
<1>1. (\A x, y \in pack.base : x = y) /\ (\A x, y \in input.base : x = y)
  BY IntakeAssumption
<1>2. QED
  BY <1>1 DEF Base

\* A value of the calendar is one that canonical_date can parse.
LEMMA CalendarValues ==
  ASSUME pack \in Packs, NEW k \in DOMAIN calendar
  PROVE  IsValue(calendar[k])
BY IntakeAssumption DEF calendar, IsValue, Digit

\* The parts of a date are numbers.
LEMMA DateParts ==
  ASSUME NEW b, IsDate(b)
  PROVE  b.y \in Int /\ b.m \in Int
<1>1. PICK y, m : y = b.y /\ m = b.m
  OBVIOUS
<1>2. y \in Years /\ m \in 1 .. 12
  BY <1>1 DEF IsDate
<1>3. y \in Int /\ m \in Int
  BY <1>2, SMTT(30) DEF Years
<1>4. QED
  BY <1>1, <1>3

\* resolve_calendar_date returns a date that lies where the value says.
LEMMA ResolvedWhereWritten ==
  ASSUME NEW value, IsValue(value), NEW bases, \A b \in bases : IsDate(b), ~Raises(value, bases)
  PROVE  LET r == ResolveDate(value, bases)
         IN  /\ IsDate(r)
             /\ IF value.unit = "date" THEN r = value.date ELSE \E b \in bases : LiesAfter(r, b, value)
<1>1. PICK r, b : r = ResolveDate(value, bases) /\ b = CHOOSE c \in bases : TRUE
  OBVIOUS
<1>2. CASE value.unit = "date"
  <2>1. r = value.date
    BY <1>1, <1>2 DEF ResolveDate
  <2>2. IsDate(value.date)
    BY <1>2 DEF Raises, Canonical
  <2>3. QED
    BY <1>1, <1>2, <2>1, <2>2
<1>3. CASE value.unit # "date"
  <2>1. b \in bases /\ IsDate(b)
    <3>1. bases # {}
      BY <1>3 DEF Raises
    <3>2. QED
      BY <1>1, <3>1
  <2>2. PICK n : n = Amount(value.digits) /\ n \in Nat
    <3>1. value.digits \in Seq(Digit)
      BY <1>3 DEF IsValue
    <3>2. QED
      BY <3>1, AmountIsNatural
  <2>3. CASE value.unit = "d"
    <3>1. r = FromOrdinal(Ordinal(b) + n)
      BY <1>1, <2>2, <2>3 DEF ResolveDate
    <3>2. ~(n > Ordinal(MaxDate) - Ordinal(b))
      BY <2>1, <2>2, <2>3 DEF Raises
    <3>3. Ordinal(b) \in Nat \ {0} /\ Ordinal(b) <= Ordinal(MaxDate) /\ Ordinal(MaxDate) \in Nat
      BY <2>1, OrdinalFacts, LastDay
    <3>4. Ordinal(b) + n \in Nat \ {0} /\ Ordinal(b) + n <= Ordinal(MaxDate)
      BY <2>2, <3>2, <3>3
    <3>5. IsDate(r) /\ Ordinal(r) = Ordinal(b) + n
      BY <3>1, <3>4, FromOrdinalCorrect
    <3>6. LiesAfter(r, b, value)
      BY <2>2, <2>3, <3>5 DEF LiesAfter
    <3>7. QED
      BY <1>1, <1>3, <2>1, <3>5, <3>6
  <2>4. CASE value.unit = "m"
    <3>1. r = MonthsLater(b, n)
      BY <1>1, <2>2, <2>4 DEF ResolveDate
    <3>2. ~(n > RemainingMonths(b))
      BY <2>1, <2>2, <2>4 DEF Raises
    <3>3. RemainingMonths(b) \in Int
      <4>1. b.y \in Int /\ b.m \in Int
        BY <2>1, DateParts
      <4>2. QED
        BY <4>1, SMT DEF RemainingMonths
    <3>4. n <= RemainingMonths(b)
      BY <2>2, <3>2, <3>3
    <3>5. /\ IsDate(r) /\ 12 * r.y + r.m = 12 * b.y + b.m + n
          /\ r.d = b.d \/ (r.d < b.d /\ r.d = MonthLength(r.y, r.m))
      BY <2>1, <2>2, <3>1, <3>4, MonthsLaterCorrect
    <3>6. LiesAfter(r, b, value)
      BY <2>2, <2>4, <3>5 DEF LiesAfter
    <3>7. QED
      BY <1>1, <1>3, <2>1, <3>5, <3>6
  <2>5. QED
    BY <1>3, <2>3, <2>4 DEF IsValue
<1>4. QED
  BY <1>2, <1>3

\* Where a value raises, it lies beyond the last date, or there is no base date.
LEMMA RaisedBeyond ==
  ASSUME NEW value, IsValue(value), Canonical(value), NEW bases, \A b \in bases : IsDate(b),
         \A b, c \in bases : b = c, Raises(value, bases)
  PROVE  \A b \in bases :
           CASE value.unit = "date" -> FALSE
             [] value.unit = "d" -> Ordinal(b) + Amount(value.digits) > Ordinal(MaxDate)
             [] OTHER -> 12 * b.y + b.m + Amount(value.digits) > 12 * MaxDate.y + MaxDate.m
<1> SUFFICES ASSUME NEW b \in bases
             PROVE  \/ value.unit = "d" /\ Ordinal(b) + Amount(value.digits) > Ordinal(MaxDate)
                    \/ value.unit = "m" /\ 12 * b.y + b.m + Amount(value.digits) > 12 * MaxDate.y + MaxDate.m
  OBVIOUS
<1>1. IsDate(b) /\ value.unit \in {"d", "m"} /\ value.digits \in Seq(Digit)
  BY DEF Raises, IsValue
<1>2. PICK n : n = Amount(value.digits) /\ n \in Nat
  BY <1>1, AmountIsNatural
<1>3. CASE value.unit = "d"
  <2>1. n > Ordinal(MaxDate) - Ordinal(b)
    BY <1>2, <1>3 DEF Raises
  <2>2. Ordinal(b) \in Nat /\ Ordinal(MaxDate) \in Nat
    BY <1>1, OrdinalFacts, LastDay
  <2>3. QED
    BY <1>2, <1>3, <2>1, <2>2
<1>4. CASE value.unit = "m"
  <2>1. n > RemainingMonths(b)
    BY <1>2, <1>4 DEF Raises
  <2>2. PICK y, m : y = b.y /\ m = b.m
    OBVIOUS
  <2>3. y \in Int /\ m \in Int
    BY <1>1, <2>2, DateParts
  <2>4. n > (9999 - y) * 12 + 12 - m
    BY <2>1, <2>2 DEF RemainingMonths
  <2>5. 12 * y + m + n > 12 * 9999 + 12
    BY <1>2, <2>3, <2>4, SMT
  <2>6. QED
    BY <1>2, <1>4, <2>2, <2>5, LastDay
<1>5. QED
  BY <1>1, <1>3, <1>4


\* Every step keeps what is known of the dates.
LEMMA DateStep ==
  ASSUME IntakeInv, [Next]_vars
  PROVE  DateInv'
<1>1. UNCHANGED <<pack, input>>
  BY SamePack
<1>2. UNCHANGED <<calendar, rules, Base>>
  BY <1>1, PackFunctions
<1>3. LintInv /\ DateInv /\ pack \in Packs /\ input \in Inputs(pack)
  BY DEF IntakeInv, LintInv
<1>4. UNCHANGED resolved => \A k : DatedRight(k)' = DatedRight(k)
  BY <1>2 DEF DatedRight
<1>5. Undatable' = Undatable
  BY <1>1, <1>2 DEF Undatable
<1>6. ASSUME UNCHANGED resolved, pc' \notin {"dates", "undated"}, pc' # "ask" \/ pc = "ask",
             pc' \in Evaluated => pc \in Evaluated,
             pc' \in {"due", "done"} => pc \in {"due", "done"} \/ DOMAIN resolved = DOMAIN calendar,
             pc' \notin Evaluated => pc \notin Evaluated
      PROVE  DateInv'
  BY <1>1, <1>2, <1>3, <1>4, <1>6 DEF DateInv
<1>7. CASE LintQuestion
  BY <1>6, <1>7 DEF LintQuestion
<1>8. CASE EndLint
  BY <1>6, <1>8 DEF EndLint
<1>9. CASE ReadInput
  <2>1. pc = "input" /\ pc' \in {"rejected", "unknown", "ask"} /\ UNCHANGED resolved
        /\ (pc' = "ask" => \A b \in input.base : IsDate(b))
    BY <1>9 DEF ReadInput
  <2>2. QED
    BY <1>1, <1>3, <2>1 DEF DateInv
<1>10. CASE Ask
  <2>1. pc = "ask" /\ pc' \in {"ask", "unanswered"} /\ UNCHANGED resolved
    BY <1>10 DEF Ask
  <2>2. QED
    BY <1>6, <2>1
<1>11. CASE EndQuestions
  <2>1. pc = "ask" /\ pc' = "dates" /\ left' = DOMAIN calendar /\ UNCHANGED resolved
    BY <1>11 DEF EndQuestions
  <2>2. resolved = <<>> /\ DOMAIN resolved = {}
    BY <1>3, <2>1 DEF DateInv
  <2>3. QED
    BY <1>1, <1>2, <1>3, <2>1, <2>2 DEF DateInv
<1>12. CASE EndDates
  <2>1. pc = "dates" /\ left = {} /\ pc' = "due" /\ UNCHANGED resolved
    BY <1>12 DEF EndDates
  <2>2. DOMAIN resolved = DOMAIN calendar
    BY <1>3, <2>1 DEF DateInv
  <2>3. QED
    BY <1>6, <2>1, <2>2
<1>13. CASE Finish
  BY <1>6, <1>13 DEF Finish
<1>14. ASSUME NEW k \in DOMAIN calendar, ResolveKey(k)
       PROVE  DateInv'
  <2>1. pc = "dates" /\ k \in left
    BY <1>14 DEF ResolveKey
  <2>2. IsValue(calendar[k]) /\ Canonical(calendar[k]) /\ (pack.base = {} \/ ~Raises(calendar[k], pack.base))
        /\ \A b \in pack.base : IsDate(b)
    BY <1>3, <2>1, CalendarValues DEF LintInv, CalendarSound
  <2>3. \A b \in input.base : IsDate(b)
    BY <1>3, <2>1 DEF DateInv
  <2>4. (\A b \in Base : IsDate(b)) /\ \A b, c \in Base : b = c
    BY <1>3, <2>2, <2>3, OneBase DEF Base
  <2>5. CASE Raises(calendar[k], Base)
    <3>1. pc' = "undated" /\ UNCHANGED resolved
      BY <1>14, <2>5 DEF ResolveKey
    <3>2. input.base = {} => pack.base = {}
      BY <2>2, <2>5 DEF Base
    <3>3. Undatable
      BY <2>2, <2>4, <2>5, <3>2, RaisedBeyond DEF Undatable
    <3>4. QED
      BY <1>1, <1>2, <1>3, <1>4, <1>5, <2>1, <3>1, <3>3 DEF DateInv
  <2>6. CASE ~Raises(calendar[k], Base)
    <3>1. PICK r : r = ResolveDate(calendar[k], Base)
      OBVIOUS
    <3>2. /\ resolved' = [j \in DOMAIN resolved \cup {k} |-> IF j = k THEN r ELSE resolved[j]]
          /\ left' = left \ {k} /\ pc' = "dates"
      BY <1>14, <2>1, <2>6, <3>1 DEF ResolveKey
    <3>3. IsDate(r) /\ IF calendar[k].unit = "date" THEN r = calendar[k].date
                       ELSE \E b \in Base : LiesAfter(r, b, calendar[k])
      BY <2>2, <2>4, <2>6, <3>1, ResolvedWhereWritten
    <3>4. left \subseteq DOMAIN calendar /\ DOMAIN resolved = DOMAIN calendar \ left
      BY <1>3, <2>1 DEF DateInv
    <3>5. left' \subseteq DOMAIN calendar /\ DOMAIN resolved' = DOMAIN calendar \ left'
      BY <2>1, <3>2, <3>4
    <3>6. \A j \in DOMAIN resolved : DatedRight(j)
      BY <1>3, <2>1 DEF DateInv
    <3>7. ASSUME NEW j \in DOMAIN resolved'
          PROVE  DatedRight(j)'
      <4>1. CASE j = k
        <5>1. resolved'[j] = r
          BY <3>2, <4>1
        <5>2. QED
          BY <1>2, <3>3, <4>1, <5>1 DEF DatedRight
      <4>2. CASE j # k
        <5>1. j \in DOMAIN resolved /\ resolved'[j] = resolved[j]
          BY <3>2, <4>2
        <5>2. QED
          BY <1>2, <3>6, <5>1 DEF DatedRight
      <4>3. QED
        BY <4>1, <4>2
    <3>8. QED
      BY <1>1, <1>2, <1>3, <2>1, <3>2, <3>5, <3>7 DEF DateInv
  <2>7. QED
    BY <2>5, <2>6
<1>15. ASSUME NEW i \in DOMAIN rules, ApplyRule(i)
       PROVE  DateInv'
  BY <1>6, <1>15 DEF ApplyRule
<1>16. CASE UNCHANGED vars
  BY <1>1, <1>2, <1>3, <1>4, <1>16, <1>5 DEF DateInv, vars
<1>17. QED
  BY <1>7, <1>8, <1>9, <1>10, <1>11, <1>12, <1>13, <1>14, <1>15, <1>16 DEF Next


\* Due rules are numbered and have integer priorities.
LEMMA RuleNumbers ==
  ASSUME pack \in Packs
  PROVE  \A i \in DOMAIN rules : i \in Nat /\ rules[i].priority \in Int
<1>1. PICK rs, S : rs = rules /\ rs \in Seq(S)
  BY IntakeAssumption DEF rules
<1>2. \A i \in DOMAIN rs : i \in Nat
  BY <1>1
<1>3. \A i \in DOMAIN rules : rules[i].priority \in Int
  BY IntakeAssumption DEF rules
<1>4. QED
  BY <1>1, <1>2, <1>3

\* Every step keeps what is known of the deadlines.
LEMMA DueStep ==
  ASSUME IntakeInv, [Next]_vars
  PROVE  DueInv'
<1>1. UNCHANGED <<pack, input>>
  BY SamePack
<1>2. UNCHANGED rules
  BY <1>1, PackFunctions
<1>3. LintInv /\ DueInv /\ pack \in Packs
  BY DEF IntakeInv, LintInv
<1>4. UNCHANGED left => \A i, a : Decides(i, a)' = Decides(i, a)
  BY <1>2 DEF Decides, Applied, Precedes
<1>5. UNCHANGED left => UNCHANGED Applied
  BY <1>2 DEF Applied
<1>6. UNCHANGED flags => UNCHANGED Selected
  BY DEF Selected
<1>7. UNCHANGED resolved => \A i : KeyDates(i)' = KeyDates(i)
  BY <1>2 DEF KeyDates
<1>8. \A i, j : Precedes(i, j)' = Precedes(i, j)
  BY <1>2 DEF Precedes
<1>9. ASSUME pc' \notin {"due", "done"}, pc' \in {"lint", "input", "ask", "dates"} => pc \in {"lint", "input", "ask", "dates"},
             UNCHANGED hints
      PROVE  DueInv'
  BY <1>3, <1>9 DEF DueInv
<1>10. CASE LintQuestion
  BY <1>9, <1>10 DEF LintQuestion
<1>11. CASE EndLint
  BY <1>9, <1>11 DEF EndLint
<1>12. CASE ReadInput
  BY <1>9, <1>12 DEF ReadInput
<1>13. CASE Ask
  BY <1>9, <1>13 DEF Ask
<1>14. CASE EndQuestions
  BY <1>9, <1>14 DEF EndQuestions
<1>15. CASE EndDates
  <2>1. pc = "dates" /\ pc' = "due" /\ left' = DOMAIN rules /\ UNCHANGED hints
    BY <1>15 DEF EndDates
  <2>2. hints = <<>> /\ DOMAIN hints = {}
    BY <1>3, <2>1 DEF DueInv
  <2>3. Applied' = {}
    BY <1>2, <2>1 DEF Applied
  <2>4. QED
    BY <1>2, <2>1, <2>2, <2>3 DEF DueInv
<1>16. CASE Finish
  <2>1. pc = "due" /\ pc' = "done" /\ left = {} /\ UNCHANGED <<left, flags, hints, resolved>>
    BY <1>16 DEF Finish
  <2>2. QED
    BY <1>2, <1>3, <1>4, <1>5, <1>6, <1>7, <1>8, <2>1 DEF DueInv
<1>17. ASSUME NEW k \in DOMAIN calendar, ResolveKey(k)
       PROVE  DueInv'
  BY <1>9, <1>17 DEF ResolveKey
<1>18. ASSUME NEW i \in DOMAIN rules, ApplyRule(i)
       PROVE  DueInv'
  <2>1. PICK new, deadline : /\ new = {a \in Selected \ DOMAIN hints : Matches(rules[i], a)}
                             /\ deadline = Earliest(KeyDates(i))
    OBVIOUS
  <2>2. /\ pc = "due" /\ pc' = pc /\ i \in left /\ left' = left \ {i} /\ UNCHANGED <<flags, resolved>>
        /\ hints' = [a \in DOMAIN hints \cup new |-> IF a \in new THEN deadline ELSE hints[a]]
        /\ \A j \in left : Precedes(i, j)
    BY <1>18, <2>1 DEF ApplyRule, ComesFirst, Precedes, KeyDates
  <2>3. /\ left \subseteq DOMAIN rules
        /\ \A j \in Applied, k \in left : Precedes(j, k)
        /\ \A a \in DOMAIN hints : a \in Selected /\ \E j \in DOMAIN rules : Decides(j, a) /\ hints[a] = Earliest(KeyDates(j))
        /\ \A a \in Selected, j \in Applied : Matches(rules[j], a) => a \in DOMAIN hints
    BY <1>3, <2>2 DEF DueInv
  <2>4. Applied' = Applied \cup {i}
    BY <1>2, <2>2, <2>3 DEF Applied
  <2>5. Selected' = Selected /\ \A j : KeyDates(j)' = KeyDates(j)
    BY <1>6, <1>7, <2>2
  <2>6. \A j \in Applied', k \in left' : Precedes(j, k)
    BY <2>2, <2>3, <2>4
  <2>7. Precedes(i, i)
    <3>1. i \in Nat
      BY <1>3, RuleNumbers
    <3>2. QED
      BY <3>1 DEF Precedes
  <2>8. ASSUME NEW a \in DOMAIN hints'
        PROVE  a \in Selected /\ \E j \in DOMAIN rules : Decides(j, a)' /\ hints'[a] = Earliest(KeyDates(j))
    <3>1. CASE a \in new
      <4>1. hints'[a] = deadline /\ a \in Selected /\ a \notin DOMAIN hints /\ Matches(rules[i], a)
        BY <2>1, <2>2, <3>1
      <4>2. \A j \in Applied : ~Matches(rules[j], a)
        BY <2>3, <4>1
      <4>3. Decides(i, a)'
        BY <1>2, <1>8, <2>4, <2>7, <4>1, <4>2 DEF Decides
      <4>4. QED
        BY <2>1, <4>1, <4>3
    <3>2. CASE a \notin new
      <4>1. a \in DOMAIN hints /\ hints'[a] = hints[a]
        BY <2>2, <3>2
      <4>2. PICK j \in DOMAIN rules : Decides(j, a) /\ hints[a] = Earliest(KeyDates(j))
        BY <2>3, <4>1
      <4>3. Precedes(j, i)
        BY <2>2, <2>3, <4>2 DEF Decides
      <4>4. Decides(j, a)'
        BY <1>2, <1>8, <2>4, <4>2, <4>3 DEF Decides
      <4>5. QED
        BY <2>3, <4>1, <4>2, <4>4
    <3>3. QED
      BY <3>1, <3>2
  <2>9. \A a \in Selected, j \in Applied' : Matches(rules[j], a) => a \in DOMAIN hints'
    <3>1. DOMAIN hints' = DOMAIN hints \cup new
      BY <2>2
    <3>2. QED
      BY <2>1, <2>3, <2>4, <3>1
  <2>10. left' \subseteq DOMAIN rules'
    BY <1>2, <2>2, <2>3
  <2>11. QED
    BY <1>2, <1>8, <2>2, <2>5, <2>6, <2>8, <2>9, <2>10 DEF DueInv
<1>19. CASE UNCHANGED vars
  <2>1. UNCHANGED <<pc, left, flags, hints, resolved>>
    BY <1>19 DEF vars
  <2>2. QED
    BY <1>2, <1>3, <1>4, <1>5, <1>6, <1>7, <1>8, <2>1 DEF DueInv
<1>20. QED
  BY <1>10, <1>11, <1>12, <1>13, <1>14, <1>15, <1>16, <1>17, <1>18, <1>19 DEF Next

\* The invariant holds of every behaviour, for every pack and input.
THEOREM IntakeInvariance == Spec => []IntakeInv
<1>1. IntakeInv /\ [Next]_vars => IntakeInv'
  <2>1. SUFFICES ASSUME IntakeInv, [Next]_vars PROVE IntakeInv'
    OBVIOUS
  <2>2. LintInv' /\ AskInv' /\ DateInv' /\ DueInv'
    BY <2>1, LintStep, AskStep, DateStep, DueStep
  <2>3. QED
    BY <2>2 DEF IntakeInv
<1>2. QED
  BY <1>1, IntakeInitially, PTL DEF Spec

\* Answers are accepted exactly when they are proper and their question is active
\* under the answers before, and never for a question that lint calls unreachable.
THEOREM AcceptedExactly == Spec => []QuestionsExact
<1>1. IntakeInv => QuestionsExact
  <2>1. SUFFICES ASSUME IntakeInv, answers # {} PROVE QuestionsExact
    BY DEF QuestionsExact
  <2>2. LintInv /\ AskInv /\ pack \in Packs /\ Len(questions) \in Nat /\ DOMAIN questions = 1 .. Len(questions)
    BY <2>1, QuestionFacts DEF IntakeInv, LintInv
  <2> DEFINE n == Len(questions) + 1
             answered == {i \in DOMAIN questions : Answered(questions[i])}
             proper(i) == ProperAnswer(questions[i], AnswerTo(questions[i]))
             active(i) == EvaluateCondition(questions[i].when, Before(i))
  <2>3. ASSUME pc \in Evaluated
        PROVE  (\A i \in answered : proper(i) /\ active(i)) /\ flags = Before(n) /\ flags \subseteq Registry /\ answered \cap warned = {}
    <3>1. flags = Before(n) /\ AcceptedBefore(n)
      BY <2>1, <2>2, <2>3 DEF AskInv
    <3>2. \A i \in answered : proper(i) /\ active(i)
      BY <2>2, <3>1 DEF AcceptedBefore
    <3>3. Before(n) \subseteq Registry
      <4>1. n \in 1 .. n /\ Targets(n) \subseteq Registry
        BY <2>2, <2>3 DEF LintInv
      <4>2. QED
        BY <2>2, <4>1, AnswersEmitTargets
    <3>4. ASSUME NEW i \in answered, i \in warned
          PROVE  FALSE
      <4>1. i \in DOMAIN questions /\ i \in 1 .. n
        BY <2>2
      <4>2. Positive(questions[i].when) /\ ~EvaluateCondition(questions[i].when, Targets(i))
        BY <2>2, <3>4 DEF LintInv, Unreachable
      <4>3. EvaluateCondition(questions[i].when, Before(i))
        BY <3>2
      <4>4. Before(i) \subseteq Targets(i) /\ questions[i].when \in Trees
        BY <2>2, <4>1, AnswersEmitTargets, QuestionFacts
      <4>5. QED
        BY <4>2, <4>3, <4>4, PositiveIsMonotone
    <3>5. QED
      BY <3>1, <3>2, <3>3, <3>4
  <2>4. pc = "unanswered" => \E i \in answered : proper(i) => ~active(i)
    BY <2>2 DEF AskInv
  <2>5. QED
    BY <2>1, <2>3, <2>4 DEF QuestionsExact
<1>2. QED
  BY <1>1, IntakeInvariance, PTL

\* Every resolved date is a date and lies where the pack says.
THEOREM DatedExactly == Spec => []DatesExact
<1>1. IntakeInv => DatesExact
  <2>1. SUFFICES ASSUME IntakeInv PROVE DatesExact
    OBVIOUS
  <2>2. DateInv
    BY <2>1 DEF IntakeInv
  <2>3. \A k \in DOMAIN resolved : DatedRight(k)
    <3>1. pc \notin Evaluated => DOMAIN resolved = {}
      BY <2>2 DEF DateInv
    <3>2. QED
      BY <2>2, <3>1 DEF DateInv
  <2>4. pc = "undated" => Undatable
    BY <2>2 DEF DateInv
  <2>5. QED
    BY <2>3, <2>4 DEF DatesExact, DatedRight, Undatable
<1>2. QED
  BY <1>1, IntakeInvariance, PTL

\* Some date of a set is the earliest.
LEMMA EarliestOfDates ==
  ASSUME NEW D, D # {}, \A d \in D : IsDate(d)
  PROVE  Earliest(D) \in D /\ \A d \in D : NotAfter(Earliest(D), d)
<1> DEFINE Numbers == {Ordinal(d) : d \in D}
<1>1. \A d \in D : Ordinal(d) \in Nat
  BY OrdinalFacts
<1>2. Numbers \in SUBSET Nat /\ Numbers # {}
  BY <1>1
<1>3. PICK n \in Numbers : \A m \in Numbers : n <= m
  BY <1>2, LeastNatural
<1>4. PICK e \in D : Ordinal(e) = n
  BY <1>3
<1>5. \E d \in D : \A f \in D : NotAfter(d, f)
  BY <1>3, <1>4 DEF NotAfter
<1>6. QED
  BY <1>5 DEF Earliest

\* Every selected action that a rule names is due at the earliest date of the
\* rule that comes first, and no other action has a deadline.
THEOREM DueExactly == Spec => []DeadlinesExact
<1>1. IntakeInv => DeadlinesExact
  <2>1. SUFFICES ASSUME IntakeInv PROVE DeadlinesExact
    OBVIOUS
  <2>2. LintInv /\ DateInv /\ DueInv /\ pack \in Packs
    BY <2>1 DEF IntakeInv, LintInv
  <2>3. ASSUME pc \in {"due", "done"}, NEW i \in DOMAIN rules
        PROVE  rules[i].keys \subseteq DOMAIN resolved /\ rules[i].keys # {}
    BY <2>2, <2>3 DEF LintInv, DateInv, DueRulesSound
  <2>4. ASSUME pc = "done", NEW a \in DOMAIN Actions
        PROVE  LET naming == {i \in DOMAIN rules : Matches(rules[i], a)}
                   top == {i \in naming : \A j \in naming : rules[j].priority <= rules[i].priority}
               IN  IF a \in Selected /\ naming # {}
                   THEN /\ a \in DOMAIN hints
                        /\ LET dates == {resolved[k] : k \in rules[Min(top)].keys}
                           IN  hints[a] \in dates /\ \A d \in dates : NotAfter(hints[a], d)
                   ELSE a \notin DOMAIN hints
    <3> DEFINE naming == {i \in DOMAIN rules : Matches(rules[i], a)}
               top == {i \in naming : \A j \in naming : rules[j].priority <= rules[i].priority}
    <3>1. /\ Applied = DOMAIN rules
          /\ \A b \in DOMAIN hints : b \in Selected /\ \E i \in DOMAIN rules : Decides(i, b) /\ hints[b] = Earliest(KeyDates(i))
          /\ \A b \in Selected, i \in Applied : Matches(rules[i], b) => b \in DOMAIN hints
      BY <2>2, <2>4 DEF DueInv, Applied
    <3>2. CASE a \in Selected /\ naming # {}
      <4>1. a \in DOMAIN hints
        BY <3>1, <3>2
      <4>2. PICK i \in DOMAIN rules : Decides(i, a) /\ hints[a] = Earliest(KeyDates(i))
        BY <3>1, <4>1
      <4>3. i \in naming /\ \A j \in naming : Precedes(i, j)
        BY <3>1, <4>2 DEF Decides
      <4>4. \A j \in naming : j \in Nat /\ rules[j].priority \in Int
        BY <2>2, RuleNumbers
      <4>5. i \in top /\ \A j \in top : i <= j
        BY <4>3, <4>4 DEF Precedes
      <4>6. Min(top) = i
        <5>1. \A j \in top : j \in Nat
          BY <4>4
        <5> HIDE DEF top
        <5>2. QED
          BY <4>5, <5>1 DEF Min
      <4>7. KeyDates(i) # {} /\ \A d \in KeyDates(i) : IsDate(d)
        <5>1. \A k \in DOMAIN resolved : IsDate(resolved[k])
          BY <2>2, <2>4 DEF DateInv, DatedRight
        <5>2. QED
          BY <2>3, <2>4, <5>1 DEF KeyDates
      <4>8. hints[a] \in KeyDates(i) /\ \A d \in KeyDates(i) : NotAfter(hints[a], d)
        BY <4>2, <4>7, EarliestOfDates
      <4>9. QED
        BY <3>2, <4>1, <4>6, <4>8 DEF KeyDates
    <3>3. CASE ~(a \in Selected /\ naming # {})
      <4>1. a \notin DOMAIN hints
        BY <3>1, <3>3 DEF Decides
      <4>2. QED
        BY <3>3, <4>1
    <3>4. QED
      BY <3>2, <3>3
  <2>5. QED
    BY <2>3, <2>4 DEF DeadlinesExact
<1>2. QED
  BY <1>1, IntakeInvariance, PTL

=============================================================================
