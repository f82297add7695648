----------------------------- MODULE Assessment -----------------------------
(***************************************************************************)
(* assess_from_bundle (domain/services/assess_service.py) and the services *)
(* it calls, from the flags after derivation to the parts of the plan that *)
(* decide what evidence is owed: stops, outcomes, roles, routing, selected *)
(* actions, and the maps between actions, articles and evidence.           *)
(*                                                                         *)
(* A pack is a record; a condition is the set of flag sets it holds on.    *)
(* Identifiers are unique and references known, as validate_bundle has it. *)
(* Lists whose order only matters for presentation are sets; the stops and *)
(* the routing rules, where the first match wins, are sequences.  Titles,  *)
(* tiers, dates, metrics and hashes are left out.                          *)
(*                                                                         *)
(* Definitions marked "Faulty" are no part of the specification: each is a *)
(* mistake the code avoids, kept beside the step it would change to show   *)
(* that a property of Evidence rejects it.                                 *)
(***************************************************************************)
EXTENDS Naturals, Sequences

CONSTANTS
  Flags, Actions, Articles, Roles, Outcomes,
  Paths,        \* what a pack can name as evidence: a file or a directory
  AnyRole       \* applies_to = "any"

ASSUME AssessmentAssumption == AnyRole \notin Roles

Conditions == SUBSET SUBSET Flags

ActionDefinitions ==
  [when : Conditions, appliesTo : SUBSET (Roles \cup {AnyRole}), articles : SUBSET Articles,
   evidence : SUBSET Paths, required : BOOLEAN]

PackSpace ==
  [stops : Seq([when : Conditions, outcome : Outcomes]),
   outcomeRules : SUBSET [when : Conditions, outcome : Outcomes],
   blocked : SUBSET Outcomes,
   roleRules : SUBSET [when : Conditions, roles : SUBSET Roles],
   routes : Seq([when : Conditions, exclude : SUBSET Actions]),
   actions : [Actions -> ActionDefinitions],
   related : [Articles -> SUBSET Actions],
   evidenceMap : [Actions \cup Articles -> SUBSET Paths],
   nodes : SUBSET [when : Conditions, actions : SUBSET Actions, articles : SUBSET Articles]]

Holds(condition, flags) == flags \in condition

\* The index of the first rule that holds, if any.
FirstMatch(rules, flags) ==
  {i \in DOMAIN rules :
    /\ Holds(rules[i].when, flags)
    /\ \A j \in DOMAIN rules : Holds(rules[j].when, flags) => i <= j}

Stopped(pack, flags) == \E i \in DOMAIN pack.stops : Holds(pack.stops[i].when, flags)

ActiveRoles(pack, flags) ==
  IF Stopped(pack, flags) THEN {}
  ELSE UNION {r.roles : r \in {q \in pack.roleRules : Holds(q.when, flags)}}

OutcomesOf(pack, flags) ==
  IF Stopped(pack, flags)
  THEN {pack.stops[i].outcome : i \in FirstMatch(pack.stops, flags)}
  ELSE {r.outcome : r \in {q \in pack.outcomeRules : Holds(q.when, flags)}}

\* Faulty: "blocked" stays what classify_outcome_axes made it.
BlockedByStop(pack, flags) ==
  \E i \in FirstMatch(pack.stops, flags) : pack.stops[i].outcome \in pack.blocked

\* classify_outcome_axes sees stops only; classify_outcome_from_axes settles it.
Blocked(pack, flags) == OutcomesOf(pack, flags) \cap pack.blocked # {}

Excluded(pack, flags) == UNION {pack.routes[i].exclude : i \in FirstMatch(pack.routes, flags)}

Applies(action, roles) == AnyRole \in action.appliesTo \/ action.appliesTo \cap roles # {}

Selected(pack, flags) ==
  IF Stopped(pack, flags) THEN {}
  ELSE {a \in Actions :
         /\ Holds(pack.actions[a].when, flags)
         /\ Applies(pack.actions[a], ActiveRoles(pack, flags))} \ Excluded(pack, flags)

\* The selected actions of an article, from either side of the relation.
ActionsOf(pack, selected, article) ==
  {a \in selected : a \in pack.related[article] \/ article \in pack.actions[a].articles}

Overlay(pack, selected) ==
  [r \in {q \in Articles : ActionsOf(pack, selected, q) # {}} |-> ActionsOf(pack, selected, r)]

ArticlesOf(overlay, action) == {r \in DOMAIN overlay : action \in overlay[r]}

\* Faulty: an action does not inherit the evidence of its articles.
DirectEvidence(pack, overlay, action) ==
  pack.actions[action].evidence \cup pack.evidenceMap[action]

ActionEvidence(pack, overlay, action) ==
  pack.actions[action].evidence \cup pack.evidenceMap[action]
    \cup UNION {pack.evidenceMap[r] : r \in ArticlesOf(overlay, action)}

Meta(pack, action) ==
  [required |-> pack.actions[action].required,
   evidence |-> pack.actions[action].evidence,
   articles |-> pack.actions[action].articles]

Assess(pack, flags) ==
  LET selected == Selected(pack, flags)
      overlay == Overlay(pack, selected)
  IN  [flags |-> flags,
       blocked |-> Blocked(pack, flags),
       meta |-> [a \in selected |-> Meta(pack, a)],
       overlay |-> overlay,
       articleEvidence |-> [r \in DOMAIN overlay |-> pack.evidenceMap[r]],
       actionEvidence |-> [a \in selected |-> ActionEvidence(pack, overlay, a)]]
=============================================================================
