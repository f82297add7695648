------------------------------- MODULE Intake -------------------------------
(***************************************************************************)
(* What a pack asks and when its actions are due, from validate_bundle to  *)
(* the deadlines of an assessment: validate_questions, validate_calendar   *)
(* and validate_due_rules (domain/services/contract_validation.py), then   *)
(* eval_questions (questionnaire_engine.py), resolve_calendar and          *)
(* apply_due_hints (duedate_service.py) as assess_from_bundle calls them.  *)
(*                                                                         *)
(* The questions of all groups are one sequence.  Between the answers and  *)
(* the dates assess_from_bundle derives flags and selects actions, which   *)
(* Derivation and Assessment have: here an action is selected when its     *)
(* condition holds of the flags.  Identifiers of actions are sequences of  *)
(* characters.                                                             *)
(*                                                                         *)
(* Definitions marked "Faulty" are no part of the specification: each is a *)
(* mistake the code avoids, kept beside the step it would change.          *)
(***************************************************************************)
EXTENDS Integers, Calendar, Conditions, FiniteSetsExt

CONSTANTS
  Packs,        \* what may be compiled
  Inputs(_),    \* pack -> inputs and options it may be run with
  Registry,     \* the flags the pack declares
  Actions,      \* action -> its condition
  Null,         \* an answer of null
  Blank, TooLong  \* texts: of whitespace, around a flag or alone, or longer than 2000

\* What the contract models accept: sequences, the three types of question, amounts
\* that are digits, and at most one base date, map of answers and list of flags.
ASSUME IntakeAssumption ==
  /\ \A a \in DOMAIN Actions : Actions[a] \in Trees
  /\ \A p \in Packs :
       /\ p.questions \in Seq(ToSet(p.questions)) /\ p.rules \in Seq(ToSet(p.rules))
       /\ \A i \in DOMAIN p.questions :
            p.questions[i].type \in {"one_of", "multi", "text"} /\ p.questions[i].when \in Trees
       /\ \A k \in DOMAIN p.calendar :
            \/ p.calendar[k].unit = "date"
            \/ p.calendar[k].unit \in {"d", "m"} /\ p.calendar[k].digits \in Seq(0 .. 9)
       /\ \A i \in DOMAIN p.rules : p.rules[i].priority \in Int
       /\ \A b, c \in p.base : b = c
       /\ \A x \in Inputs(p) :
            /\ \A b, c \in x.base : b = c
            /\ (\A a, b \in x.answers : a = b) /\ (\A f, g \in x.flags : f = g)

VARIABLES
  pack,         \* questions, calendar, base date and due rules
  input,        \* answers, flags, base date and options
  pc,
  at,           \* the question the loop is at
  earlier,      \* lint: what the options of earlier questions emit
  warned,       \* lint: questions reported as unreachable
  errors,       \* lint: an error has been reported
  flags,        \* what the answers have emitted so far
  left,         \* calendar keys, then due rules, still to be processed
  resolved,     \* calendar key -> date
  hints         \* action -> deadline

vars == <<pack, input, pc, at, earlier, warned, errors, flags, left, resolved, hints>>

questions == pack.questions
calendar == pack.calendar
rules == pack.rules
answers == input.answers

Emits(q, values) == UNION {q.emits[v] : v \in values \cap DOMAIN q.emits}

-----------------------------------------------------------------------------
(* Lint.                                                                    *)

\* Question.mappings.
WellFormed(q) ==
  IF q.type = "text" THEN q.options = <<>> /\ DOMAIN q.emits = {}
  ELSE q.options # <<>> /\ IsInjective(q.options) /\ DOMAIN q.emits \subseteq ToSet(q.options)

KnownCondition(c) ==
  /\ References(c, "has") \subseteq Registry
  /\ \A p \in References(c, "any_prefix") : \E f \in Registry : NamespaceMatches(f, p)

\* A positive condition that fails for everything earlier questions can emit.
Unreachable(q, emitted) ==
  /\ KnownCondition(q.when)
  /\ References(q.when, "has") \cup References(q.when, "any_prefix") # {}
  /\ Positive(q.when)
  /\ ~EvaluateCondition(q.when, emitted)

\* CalendarContract and validate_calendar: a pack's own base date must do.
CalendarSound ==
  /\ \A b \in pack.base : IsDate(b)
  /\ \A k \in DOMAIN calendar :
       Canonical(calendar[k]) /\ (pack.base = {} \/ ~Raises(calendar[k], pack.base))

Matches(rule, action) == action \in rule.ids \/ \E p \in rule.prefixes : IsPrefix(p, action)

\* DueRuleEntry and validate_due_rules.
DueRulesSound ==
  \A i \in DOMAIN rules :
    /\ rules[i].ids \cup rules[i].prefixes # {} /\ rules[i].keys # {}
    /\ rules[i].ids \subseteq DOMAIN Actions /\ rules[i].keys \subseteq DOMAIN calendar
    /\ \A p \in rules[i].prefixes : \E a \in DOMAIN Actions : IsPrefix(p, a)

Init ==
  /\ pack \in Packs /\ input \in Inputs(pack)
  /\ pc = "lint" /\ at = 1
  /\ earlier = {} /\ warned = {} /\ errors = FALSE
  /\ flags = {} /\ left = {} /\ resolved = <<>> /\ hints = <<>>

\* validate_questions: one turn of the loop.
LintQuestion ==
  /\ pc = "lint" /\ at \in DOMAIN questions
  /\ LET q == questions[at]
         targets == Emits(q, DOMAIN q.emits)
     IN  /\ errors' = (errors \/ ~WellFormed(q) \/ ~KnownCondition(q.when) \/ ~(targets \subseteq Registry))
         /\ warned' = IF Unreachable(q, earlier) THEN warned \cup {at} ELSE warned
         /\ earlier' = earlier \cup targets
  /\ at' = at + 1
  /\ UNCHANGED <<pack, input, pc, flags, left, resolved, hints>>

\* The rest of the checks, the verdict, and what --strict makes of warnings.
EndLint ==
  /\ pc = "lint" /\ at \notin DOMAIN questions
  /\ errors' = (errors \/ ~CalendarSound \/ ~DueRulesSound
                  \/ ~IsInjective([i \in DOMAIN questions |-> questions[i].id]))
  /\ pc' = IF errors' THEN "invalid" ELSE IF input.strict /\ warned # {} THEN "refused" ELSE "input"
  /\ at' = 1
  /\ UNCHANGED <<pack, input, earlier, warned, flags, left, resolved, hints>>

-----------------------------------------------------------------------------
(* Assessment.                                                              *)

\* AssessmentInput and the first lines of assess_from_bundle and eval_questions:
\* the input has answers or it has flags, each flag once and trimmed, and both
\* must be known.
ReadInput ==
  /\ pc = "input"
  /\ pc' = IF \/ \E b \in input.base : ~IsDate(b)
              \/ (input.flags = {}) = (answers = {})
              \/ \E f \in input.flags : ~IsInjective(f) \/ Blank \in ToSet(f)
           THEN "rejected"
           ELSE IF \/ \E f \in input.flags : ~(ToSet(f) \subseteq Registry)
                   \/ \E a \in answers : ~(DOMAIN a \subseteq {questions[i].id : i \in DOMAIN questions})
           THEN "unknown" ELSE "ask"
  /\ flags' = IF pc' = "ask" THEN UNION {ToSet(f) : f \in input.flags} ELSE {}
  /\ UNCHANGED <<pack, input, at, earlier, warned, errors, left, resolved, hints>>

Answered(q) == \E a \in answers : q.id \in DOMAIN a /\ a[q.id] # Null

AnswerTo(q) == (CHOOSE a \in answers : TRUE)[q.id]

\* What eval_questions accepts as an answer of each type.
ProperAnswer(q, answer) ==
  CASE q.type = "text" -> answer.kind = "str" /\ answer.value \notin {Blank, TooLong}
    [] q.type = "one_of" -> answer.kind = "str" /\ answer.value \in ToSet(q.options)
    [] q.type = "multi" -> /\ answer.kind = "list" /\ ToSet(answer.value) \subseteq ToSet(q.options)
                           /\ IsInjective(answer.value)

Emission(q, answer) ==
  CASE q.type = "text" -> {}
    [] q.type = "one_of" -> Emits(q, {answer.value})
    [] q.type = "multi" -> Emits(q, ToSet(answer.value))

\* Faulty: a condition may look at what any question emits.
AskOutOfOrder ==
  /\ pc = "ask" /\ at \in DOMAIN questions
  /\ LET q == questions[at]
     IN  IF ~Answered(q) THEN UNCHANGED <<pc, flags>>
         ELSE IF EvaluateCondition(q.when, earlier) /\ ProperAnswer(q, AnswerTo(q))
         THEN flags' = flags \cup Emission(q, AnswerTo(q)) /\ UNCHANGED pc
         ELSE pc' = "unanswered" /\ UNCHANGED flags
  /\ at' = at + 1
  /\ UNCHANGED <<pack, input, earlier, warned, errors, left, resolved, hints>>

\* eval_questions: one turn of the loop.
Ask ==
  /\ pc = "ask" /\ at \in DOMAIN questions
  /\ LET q == questions[at]
     IN  IF ~Answered(q) THEN UNCHANGED <<pc, flags>>
         ELSE IF EvaluateCondition(q.when, flags) /\ ProperAnswer(q, AnswerTo(q))
         THEN flags' = flags \cup Emission(q, AnswerTo(q)) /\ UNCHANGED pc
         ELSE pc' = "unanswered" /\ UNCHANGED flags
  /\ at' = at + 1
  /\ UNCHANGED <<pack, input, earlier, warned, errors, left, resolved, hints>>

EndQuestions ==
  /\ pc = "ask" /\ at \notin DOMAIN questions
  /\ pc' = "dates" /\ left' = DOMAIN calendar
  /\ UNCHANGED <<pack, input, at, earlier, warned, errors, flags, resolved, hints>>

\* resolve_calendar: the base date given on the command line comes first.
Base == IF input.base # {} THEN input.base ELSE pack.base

ResolveKey(k) ==
  /\ pc = "dates" /\ k \in left
  /\ IF Raises(calendar[k], Base)
     THEN pc' = "undated" /\ UNCHANGED <<left, resolved>>
     ELSE /\ resolved' = [j \in DOMAIN resolved \cup {k} |->
                            IF j = k THEN ResolveDate(calendar[k], Base) ELSE resolved[j]]
          /\ left' = left \ {k}
          /\ UNCHANGED pc
  /\ UNCHANGED <<pack, input, at, earlier, warned, errors, flags, hints>>

EndDates ==
  /\ pc = "dates" /\ left = {}
  /\ pc' = "due" /\ left' = DOMAIN rules
  /\ UNCHANGED <<pack, input, at, earlier, warned, errors, flags, resolved, hints>>

Selected == {a \in DOMAIN Actions : EvaluateCondition(Actions[a], flags)}

Earliest(dates) == CHOOSE d \in dates : \A e \in dates : NotAfter(d, e)

\* Faulty: rules apply as they are written.
FirstWritten(i) == \A j \in left : i <= j

\* sorted(rules, key=-priority), which is stable.
ComesFirst(i) ==
  \A j \in left : rules[j].priority < rules[i].priority \/ (rules[j].priority = rules[i].priority /\ i <= j)

\* apply_due_hints: one turn of the loop.
ApplyRule(i) ==
  /\ pc = "due" /\ i \in left /\ ComesFirst(i)
  /\ LET deadline == Earliest({resolved[k] : k \in rules[i].keys})
         new == {a \in Selected \ DOMAIN hints : Matches(rules[i], a)}
     IN  hints' = [a \in DOMAIN hints \cup new |-> IF a \in new THEN deadline ELSE hints[a]]
  /\ left' = left \ {i}
  /\ UNCHANGED <<pack, input, pc, at, earlier, warned, errors, flags, resolved>>

Finish ==
  /\ pc = "due" /\ left = {}
  /\ pc' = "done"
  /\ UNCHANGED <<pack, input, at, earlier, warned, errors, flags, left, resolved, hints>>

Next ==
  \/ LintQuestion \/ EndLint \/ ReadInput \/ Ask \/ EndQuestions \/ EndDates \/ Finish
  \/ \E k \in DOMAIN calendar : ResolveKey(k)
  \/ \E i \in DOMAIN rules : ApplyRule(i)

Spec == Init /\ [][Next]_vars

-----------------------------------------------------------------------------
(* Properties.                                                              *)

Evaluated == {"dates", "undated", "due", "done"}

\* The flags the answers to questions before i stand for.
Before(i) ==
  UNION {Emission(questions[j], AnswerTo(questions[j])) :
           j \in {k \in 1 .. (i - 1) : Answered(questions[k])}}

\* Answers are accepted exactly when each is of its question's type and its
\* question is active under the answers before it; null is no answer.  A
\* question that lint calls unreachable has no accepted answer, and what is
\* accepted emits declared flags only.
QuestionsExact ==
  answers # {} =>
    LET given == {i \in DOMAIN questions : Answered(questions[i])}
        proper(i) == ProperAnswer(questions[i], AnswerTo(questions[i]))
        active(i) == EvaluateCondition(questions[i].when, Before(i))
    IN  /\ pc \in Evaluated => /\ \A i \in given : proper(i) /\ active(i)
                               /\ flags = Before(Len(questions) + 1) /\ flags \subseteq Registry
                               /\ given \cap warned = {}
        /\ pc = "unanswered" => \E i \in given : proper(i) => ~active(i)

\* Whether r lies the given amount after b, said without computing a date.
LiesAfter(r, b, value) ==
  IF value.unit = "d" THEN Ordinal(r) = Ordinal(b) + Amount(value.digits)
  ELSE /\ 12 * r.y + r.m = 12 * b.y + b.m + Amount(value.digits)
       /\ r.d = b.d \/ (r.d < b.d /\ r.d = MonthLength(r.y, r.m))

\* Every date of an assessment is a date of the calendar that lies where the pack
\* says, the last day of a shorter month standing for the base's day.  Dates fail
\* to resolve only past the year 9999 or without a base date, and never when the
\* pack has its own base date, passed lint and no other is given.
DatesExact ==
  /\ \A k \in DOMAIN resolved :
       /\ IsDate(resolved[k])
       /\ IF calendar[k].unit = "date" THEN resolved[k] = calendar[k].date
          ELSE \E b \in Base : LiesAfter(resolved[k], b, calendar[k])
  /\ pc = "undated" =>
       /\ input.base = {} => pack.base = {}
       /\ \E k \in DOMAIN calendar : \A b \in Base :
            CASE calendar[k].unit = "date" -> FALSE
              [] calendar[k].unit = "d" -> Ordinal(b) + Amount(calendar[k].digits) > Ordinal(MaxDate)
              [] OTHER -> 12 * b.y + b.m + Amount(calendar[k].digits) > 12 * MaxDate.y + MaxDate.m

\* A selected action is due at the earliest date of the rule that names it with
\* the highest priority, the first of them on a tie; an action no rule names, or
\* that is not selected, has no deadline.  No rule looks up a missing date.
DeadlinesExact ==
  /\ pc = "due" => \A i \in DOMAIN rules : rules[i].keys \subseteq DOMAIN resolved
  /\ pc = "done" =>
       \A a \in DOMAIN Actions :
         LET naming == {i \in DOMAIN rules : Matches(rules[i], a)}
             top == {i \in naming : \A j \in naming : rules[j].priority <= rules[i].priority}
         IN  IF a \in Selected /\ naming # {}
             THEN /\ a \in DOMAIN hints
                  /\ LET dates == {resolved[k] : k \in rules[Min(top)].keys}
                     IN  hints[a] \in dates /\ \A d \in dates : NotAfter(hints[a], d)
             ELSE a \notin DOMAIN hints
=============================================================================
