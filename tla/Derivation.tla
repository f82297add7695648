----------------------------- MODULE Derivation -----------------------------
(***************************************************************************)
(* derive_with_trace (domain/services/derivation_closure.py): the flags of *)
(* an assessment are closed under the derivation rules of the pack, in     *)
(* passes over the rules that have not fired yet.  A rule sees the flags   *)
(* of the start of its pass; what a pass adds is merged when it ends.      *)
(*                                                                         *)
(* A condition is the set of flag sets it is true on (evaluate_condition). *)
(* Derivation.positive_only rejects `not`, so conditions are upward closed.*)
(*                                                                         *)
(* Definitions marked "Faulty" are no part of the specification: each is a *)
(* mistake the code avoids, kept beside the step it would change to show   *)
(* that a property below rejects it.                                       *)
(***************************************************************************)
EXTENDS Naturals, Sequences

CONSTANTS
  Flags,      \* the flag registry of the pack
  N,          \* number of derivation rules
  RuleSpace   \* the rules a pack may declare

PositiveOnly(when) ==
  /\ when \subseteq SUBSET Flags
  /\ \A F \in when, G \in SUBSET Flags : F \subseteq G => G \in when

ASSUME DerivationAssumption ==
  /\ N \in Nat
  /\ \A r \in RuleSpace : PositiveOnly(r.when) /\ r.sets \subseteq Flags

VARIABLES
  derivations,  \* the derivation rules, in declaration order
  given,        \* flags the closure starts from
  result,       \* flags known at the start of the pass
  todo,         \* rules still to be evaluated in this pass
  remaining,    \* rules evaluated in this pass that did not fire
  additions,    \* flags this pass has found
  applied,      \* derivations_applied: the rules that fired, in order
  evaluated,    \* rules_evaluated
  phase         \* "pass" or "done"

derivationVars == <<derivations, given, result, todo, remaining, additions, applied, evaluated, phase>>

Rules == 1 .. N

DerivationInit ==
  /\ derivations \in [Rules -> RuleSpace]
  /\ given \in SUBSET Flags
  /\ result = given
  /\ todo = Rules
  /\ remaining = {}
  /\ additions = {}
  /\ applied = <<>>
  /\ evaluated = 0
  /\ phase = "pass"

\* What rule r adds to the flags of the start of the pass.
Found(r) == derivations[r].sets \ result

Record(r) == Append(applied, r)

\* One iteration of the inner loop: the next pending rule in order.
EvaluateRule(r) ==
  /\ phase = "pass"
  /\ r \in todo /\ \A q \in todo : r <= q
  /\ todo' = todo \ {r}
  /\ evaluated' = evaluated + 1
  /\ IF result \in derivations[r].when
       THEN /\ additions' = additions \cup Found(r)
            /\ applied' = Record(r)
            /\ UNCHANGED remaining
       ELSE /\ remaining' = remaining \cup {r}
            /\ UNCHANGED <<additions, applied>>
  /\ UNCHANGED <<derivations, given, result, phase>>

\* Faulty: every rule is evaluated again in the next pass.
PendingAgain == Rules

\* The rules of the next pass.
Pending == remaining

\* Faulty: one pass only; no stop while rules remain.
SinglePass == TRUE
UntilEmpty == remaining = {}

\* The loop stops when a pass adds nothing or fires the last rule.
Finished == additions = {} \/ remaining = {}

EndPass ==
  /\ phase = "pass" /\ todo = {}
  /\ result' = result \cup additions
  /\ IF additions = {}
       THEN UNCHANGED <<todo, remaining>>
       ELSE todo' = Pending /\ remaining' = {}
  /\ additions' = {}
  /\ phase' = IF Finished THEN "done" ELSE "pass"
  /\ UNCHANGED <<derivations, given, applied, evaluated>>

DerivationNext == (\E r \in Rules : EvaluateRule(r)) \/ EndPass

DerivationSpec == DerivationInit /\ [][DerivationNext]_derivationVars

\* The loop of a single-threaded function runs until it returns.
FairDerivation == DerivationSpec /\ WF_derivationVars(DerivationNext)

----------------------------------------------------------------------------

TypeOK ==
  /\ derivations \in [Rules -> RuleSpace]
  /\ given \subseteq Flags /\ result \subseteq Flags /\ additions \subseteq Flags
  /\ todo \subseteq Rules /\ remaining \subseteq Rules
  /\ applied \in Seq(Rules)
  /\ evaluated \in Nat
  /\ phase \in {"pass", "done"}

\* A set of flags no rule can add to.
Closed(F) == \A r \in Rules : F \in derivations[r].when => derivations[r].sets \subseteq F

Models == {C \in SUBSET Flags : given \subseteq C /\ Closed(C)}

\* The value returned is the least set of flags that contains the given ones
\* and is closed under every rule, in whatever order the rules are declared.
LeastFixedPoint ==
  phase = "done" => result \in Models /\ \A C \in Models : result \subseteq C

SetBy(k) == UNION {derivations[applied[j]].sets : j \in 1 .. k}

\* No rule fires twice.
FiresOnce == \A j, k \in 1 .. Len(applied) : applied[j] = applied[k] => j = k

\* derivations_applied replays: no rule has two entries, every entry's condition
\* holds on the given flags and what the entries before it set, and the entries
\* account for exactly the derived flags.
TraceReplays ==
  /\ FiresOnce
  /\ \A k \in 1 .. Len(applied) : (given \cup SetBy(k - 1)) \in derivations[applied[k]].when
  /\ phase = "done" => result = given \cup SetBy(Len(applied))

\* The work is bounded by one pass per rule over the rules still pending.
WorkBounded == 2 * evaluated <= N * (N + 1)

\* The closure returns.
Terminates == <>(phase = "done")

=============================================================================
