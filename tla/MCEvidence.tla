----------------------------- MODULE MCEvidence -----------------------------
(***************************************************************************)
(* Evidence for TLC: two actions, an article and three evidence files, two *)
(* of them below the directory d.  The packs vary in what the checks depend*)
(* on: stops and outcomes, routing, roles, both sides of the relation      *)
(* between actions and articles, evidence that is owed, and profile nodes. *)
(***************************************************************************)
EXTENDS Evidence, TLC
CONSTANTS a, b, r, f, g, role, ok, bad, d, dx, dy, e

MCWithin == [p \in {d, dx, e} |-> IF p = d THEN {dx, dy} ELSE {p}]

Always == SUBSET Flags
Has(x) == {s \in SUBSET Flags : x \in s}
Lacks(x) == Always \ Has(x)

\* Stops and outcome rules.
MCVerdicts == {
  [stops |-> <<>>, rules |-> {[when |-> Has(g), outcome |-> bad]}],
  [stops |-> <<[when |-> Has(f), outcome |-> ok], [when |-> Has(g), outcome |-> bad]>>, rules |-> {}]}

MCFirst == {
  [when |-> Always, appliesTo |-> {AnyRole}, articles |-> s, evidence |-> {e}, required |-> TRUE] :
    s \in {{}, {r}}}

MCSecond == {
  [when |-> Lacks(g), appliesTo |-> {role}, articles |-> {}, evidence |-> s, required |-> q] :
    s \in {{}, {d}}, q \in BOOLEAN}

MCPacks == {
  [stops |-> v.stops, outcomeRules |-> v.rules, blocked |-> {bad},
   roleRules |-> {[when |-> Has(f), roles |-> {role}]},
   routes |-> <<[when |-> x, exclude |-> {a}]>>,
   actions |-> (a :> first @@ b :> second),
   related |-> (r :> s), evidenceMap |-> (a :> {} @@ b :> {} @@ r :> {dx}),
   nodes |-> {[when |-> Always, actions |-> {a}, articles |-> {r}],
              [when |-> n, actions |-> {b}, articles |-> {}]}] :
    v \in MCVerdicts, x \in {{}, Has(g)}, first \in MCFirst, second \in MCSecond,
    s \in {{}, {b}}, n \in {{}, Always}}
=============================================================================
