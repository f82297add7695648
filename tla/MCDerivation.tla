---------------------------- MODULE MCDerivation ----------------------------
(***************************************************************************)
(* Derivation for TLC: every sequence of N rules whose condition is true,  *)
(* asks for one flag, for f and g together or for any flag at all, and     *)
(* that sets one flag or both f and g.                                     *)
(***************************************************************************)
EXTENDS Derivation
CONSTANTS f, g, h

AllOf(F) == {G \in SUBSET Flags : F \subseteq G}
AnyOf(F) == {G \in SUBSET Flags : F \cap G # {}}
Conditions == {AllOf(F) : F \in {{}, {f}, {g}, {h}, {f, g}}} \cup {AnyOf(Flags)}
Effects == {{f}, {g}, {h}, {f, g}}

MCRuleSpace == [when : Conditions, sets : Effects]
=============================================================================
