------------------------------ MODULE MCIntake ------------------------------
(* Questionnaires of three questions under all answers, and calendars of two *)
(* keys under all base dates with a choice of due rules.                      *)
EXTENDS Intake

CONSTANTS q1, q2, q3, v, w, z, long

A == <<"a">>
AB == <<"a", "b">>
C == <<"c">>
MCRegistry == {A, AB, C}

X1 == <<"x", "1">>
X2 == <<"x", "2">>
Y == <<"y">>
MCActions == (X1 :> Has(C)) @@ (X2 :> AnyPrefix(A)) @@ (Y :> All(<<>>))

Whens == {All(<<>>), Has(C), AnyPrefix(A), Not(Has(A)), AnyOf(<<Has(C), Has(AB)>>),
          All(<<Has(A), Not(Has(C))>>), Has(<<"b">>)}

MCTrees ==
  Whens \cup {Has(A), Has(AB), Not(Has(C))}

Question(id, type, when, options, emits) ==
  [id |-> id, type |-> type, when |-> when, options |-> options, emits |-> emits]

Questionnaires ==
  {<<Question(q1, "one_of", All(<<>>), <<v, w>>, (v :> {A}) @@ (w :> e)),
     Question(q2, "multi", f, <<v, w>>, (v :> {C}) @@ (w :> {AB})),
     Question(q3, t, g, IF t = "text" THEN <<>> ELSE <<v>>, <<>>)>> :
     e \in {{}, {AB, C}, {<<"gone">>}}, f \in Whens, g \in Whens, t \in {"text", "one_of"}}

Str(x) == [kind |-> "str", value |-> x]
List(s) == [kind |-> "list", value |-> s]
MCNull == [kind |-> "null"]

Given(id) ==
  CASE id = q1 -> {Str(v), Str(w), Str(z), MCNull}
    [] id = q2 -> {Str(v), List(<<>>), List(<<w>>), List(<<w, v>>), List(<<v, v>>)}
    [] id = q3 -> {Str(v), Str(Blank), Str(long)}
    [] OTHER -> {Str(v)}

MCAnswers ==
  UNION {{a \in [S -> UNION {Given(id) : id \in {q1, q2, q3, z}}] : \A id \in S : a[id] \in Given(id)} :
           S \in {{q1, z}} \cup SUBSET {q1, q2, q3}}

Rule(ids, prefixes, priority, keys) ==
  [ids |-> ids, prefixes |-> prefixes, priority |-> priority, keys |-> keys]

OneRule == <<Rule({X1}, {}, 0, {"k"})>>

Pack(questionnaire, dates, base, due) ==
  [questions |-> questionnaire, calendar |-> dates, base |-> base, rules |-> due]

On(date) == [unit |-> "date", date |-> date]
After(n, unit) == [unit |-> unit, digits |-> n]

Values ==
  {On(Date(2024, 2, 29)), On(Date(2023, 2, 29))}
    \cup {After(n, "m") : n \in {<<0>>, <<0, 0, 0, 0, 0, 0, 0, 0, 1>>, <<1, 3>>, <<1, 1, 9, 9, 8, 7>>,
                                 <<1, 1, 9, 9, 8, 8>>}}
    \cup {After(n, "d") : n \in {<<1>>, <<6, 0>>, <<3, 6, 5, 2, 0, 5, 8>>, <<0, 3, 6, 5, 2, 0, 5, 9>>}}

Bases ==
  {{}} \cup {{d} : d \in {Date(2024, 1, 31), Date(2023, 11, 30), Date(9999, 11, 30), MaxDate, MinDate,
                          Date(2000, 2, 29)}}

DueRules ==
  {OneRule, <<Rule({}, {<<"x">>}, 0, {"k"}), Rule({X1}, {}, 2, {"l"}), Rule({X1, Y}, {}, 2, {"k", "l"})>>,
   <<Rule({Y}, {<<"x">>}, 1, {"l"}), Rule({}, {<<"x">>}, 1, {"k"})>>,
   <<Rule({}, {<<"w">>}, 0, {"k"})>>, <<Rule({Y}, {}, 0, {"gone"})>>}

FirstQuestionnaire ==
  <<Question(q1, "one_of", All(<<>>), <<v, w>>, (v :> {A}) @@ (w :> {A, C}))>>

Asking == {Pack(qs, "k" :> On(Date(2024, 2, 29)), {}, OneRule) : qs \in Questionnaires}

Dating ==
  {Pack(FirstQuestionnaire, ("k" :> d) @@ ("l" :> e), b, rs) :
     d \in Values, e \in Values, b \in Bases, rs \in DueRules}

MCPacks == Asking \cup Dating

Input(answered, flagged, base, strict) ==
  [answers |-> answered, flags |-> flagged, base |-> base, strict |-> strict]

MCInputs(p) ==
  IF p \in Asking THEN {Input({a}, {}, {}, s) : a \in MCAnswers, s \in BOOLEAN}
  ELSE {Input({}, {<<A, C>>}, c, FALSE) : c \in {{}, {Date(2023, 12, 31)}, {Date(9999, 10, 31)}}}
         \cup IF p.base # {} THEN {} ELSE
           {Input(x, y, c, FALSE) : x \in {{}, {q1 :> Str(w)}}, y \in {{}, {<<C>>}, {<<C, C>>}, {<<C, Blank>>}, {<<<<"b">>>>}},
                                    c \in {{}, {Date(2023, 4, 31)}}}
=============================================================================
