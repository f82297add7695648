----------------------------- MODULE Conditions -----------------------------
(***************************************************************************)
(* Condition trees (domain/conditions.py).  A flag is the sequence of the  *)
(* parts of its dotted name, and so is a prefix.  A node is a record of an *)
(* operator and, for has and any_prefix, a name, or else its children.     *)
(***************************************************************************)
EXTENDS Naturals, Sequences, SequencesExt

CONSTANT Trees  \* the conditions of the packs and all their parts

Has(flag) == [op |-> "has", name |-> flag]
AnyPrefix(prefix) == [op |-> "any_prefix", name |-> prefix]
All(children) == [op |-> "all", children |-> children]
AnyOf(children) == [op |-> "any", children |-> children]
Not(child) == [op |-> "not", children |-> <<child>>]

Children(c) == IF c.op \in {"all", "any", "not"} THEN c.children ELSE <<>>

\* The parts of a condition are conditions, and no condition is a part of itself.
ASSUME TreesAssumption ==
  /\ \A c \in Trees : /\ c.op \in {"has", "any_prefix", "all", "any", "not"}
                      /\ Children(c) \in Seq(Trees)
                      /\ c.op = "not" => Len(c.children) = 1
  /\ \A S \in SUBSET Trees : S # {} => \E c \in S : \A i \in DOMAIN Children(c) : Children(c)[i] \notin S

\* namespace_matches: the prefix itself or a name below it.
NamespaceMatches(flag, prefix) == IsPrefix(prefix, flag)

EvaluateCondition(condition, flags) ==
  LET holds[c \in Trees] ==
        \/ c.op = "has" /\ c.name \in flags
        \/ c.op = "any_prefix" /\ \E f \in flags : NamespaceMatches(f, c.name)
        \/ c.op = "all" /\ \A i \in DOMAIN c.children : holds[c.children[i]]
        \/ c.op = "any" /\ \E i \in DOMAIN c.children : holds[c.children[i]]
        \/ c.op = "not" /\ ~holds[c.children[1]]
  IN  holds[condition]

\* condition_references: the names with the given operator.
References(condition, op) ==
  LET names[c \in Trees] ==
        (IF c.op = op THEN {c.name} ELSE {}) \cup UNION {names[Children(c)[i]] : i \in DOMAIN Children(c)}
  IN  names[condition]

\* Condition.positive: no negation anywhere.
Positive(condition) ==
  LET positive[c \in Trees] == c.op # "not" /\ \A i \in DOMAIN Children(c) : positive[Children(c)[i]]
  IN  positive[condition]
=============================================================================
