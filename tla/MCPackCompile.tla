--------------------------- MODULE MCPackCompile ---------------------------
(* A pack of a manifest, two rules files, a profile, three templates and a   *)
(* file that the profile copies.                                             *)
EXTENDS PackCompile

CONSTANTS man, r1, r2, prof, node, part, readme, lic, x, y, none

MCFiles == {man, r1, r2, prof, node, part, readme, lic}
MCTemplates == {node, part, readme}
MCJinja == {node, readme}

MCAbsent == [kind |-> "absent"]
MCLink == [kind |-> "link"]

ManifestFile(ok, rules) ==
  [kind |-> "manifest", valid |-> ok,
   entries |-> [rules |-> rules, profiles |-> <<{prof}>>]]
Document(ok, ids, mentions, scalars, ns) ==
  [kind |-> "document", valid |-> ok, ids |-> ids, mentions |-> mentions,
   scalars |-> scalars, nodes |-> ns]
Template(ok, refs) == [kind |-> "template", valid |-> ok, refs |-> refs]
Ref(names, optional) == [names |-> names, optional |-> optional]

RenderNode == [template |-> node, source |-> none]
CopyLicence == [template |-> none, source |-> lic]
CopyRules == [template |-> none, source |-> r1]

\* x is an identifier and {x, y} the namespace of a prefix; a glob matches both
\* rules files, a plain entry one.
MCContents ==
  [f \in MCFiles |->
     CASE f = man -> {ManifestFile(TRUE, <<{r1, r2}>>), ManifestFile(TRUE, <<{r1}, {r1, r2}>>),
                      ManifestFile(FALSE, <<>>)}
       [] f = r1 -> {Document(TRUE, {x}, {}, {"regulatory_meta"}, {}),
                     Document(TRUE, {y}, {}, {}, {}), MCAbsent}
       [] f = r2 -> {Document(TRUE, {}, {{x}, {x, y}}, {}, {}),
                     Document(TRUE, {x}, {}, {}, {}),
                     Document(TRUE, {}, {}, {"regulatory_meta"}, {})}
       [] f = prof -> {Document(TRUE, {}, {{x, y}}, {}, {RenderNode, CopyLicence}),
                       Document(TRUE, {}, {}, {}, {CopyRules}),
                       Document(FALSE, {}, {}, {}, {})}
       [] f = node -> {Template(TRUE, {Ref({part, readme}, FALSE)}), Template(FALSE, {})}
       [] f = part -> {Template(TRUE, {Ref({node}, TRUE)}), Template(TRUE, {Ref({"gone"}, FALSE)}),
                       MCAbsent}
       [] f = readme -> {Template(TRUE, {Ref({part}, FALSE), Ref({"gone"}, TRUE)}), MCLink, MCAbsent}
       [] OTHER -> {[kind |-> "data", valid |-> TRUE], MCAbsent}]

\* Any of them to begin with, the licence there.
MCPacks ==
  {[f \in MCFiles |->
      CASE f = man -> m [] f = r1 -> a [] f = r2 -> b [] f = prof -> p [] f = node -> n
        [] f = part -> t [] f = readme -> d [] OTHER -> [kind |-> "data", valid |-> TRUE]] :
     m \in MCContents[man], a \in MCContents[r1], b \in MCContents[r2], p \in MCContents[prof],
     n \in MCContents[node], t \in MCContents[part], d \in MCContents[readme]}
=============================================================================
