------------------------------ MODULE Evidence ------------------------------
(***************************************************************************)
(* The way of evidence through ipe assess or ipe export to ipe seal: the   *)
(* requirements derived from the plan, the files collected from            *)
(* --evidence-dir, --check-ci, the published documents and the verdict of  *)
(* seal_export, which derives the requirements again from what it reads.   *)
(*                                                                         *)
(* --evidence-dir is edited by others at any time, so what collect_evidence*)
(* reads of a file is any contents, and a second read of it would be any   *)
(* other.  The published directory is not edited here: Seal is about that. *)
(* Contents are what QualityEngine tells apart, "ready" or less; contents  *)
(* and paths that make it raise, unreadable files and failing producers    *)
(* are Fail.  Arguments are checked before anything modelled here.         *)
(***************************************************************************)
EXTENDS Assessment

CONSTANTS
  Packs,        \* the packs considered
  Files,        \* files a requirement can name or contain
  Within        \* Within[p]: the files at p or below p

ASSUME EvidenceAssumption ==
  /\ Packs \subseteq PackSpace
  /\ Within \in [Paths -> SUBSET Files]

VARIABLES
  pack, flags,  \* the inputs: compiled pack and closed set of flags
  mode,         \* the command and its options, and how the result is sealed
  pc,           \* where the work stands
  plan,         \* the assessment
  found,        \* EvidenceSnapshot.files
  quality,      \* EvidenceSnapshot.quality
  problems,     \* EvidenceSnapshot.problems, as the actions they name
  tree          \* the published directory

vars == <<pack, flags, mode, pc, plan, found, quality, problems, tree>>
inputs == <<pack, flags, mode>>

Contents == {"draft", "ready"}
Modes == [command : {"assess", "export"}, checkCi : BOOLEAN, evidenceDir : BOOLEAN,
          filesystem : BOOLEAN, strictSeal : BOOLEAN]
Nothing == [f \in {} |-> "draft"]
NoPlan == "no plan"
NoTree == "no tree"
Stages == {"assess", "collect", "validate", "check", "write", "published",
           "rejected", "failed", "sealed", "refused"}

Init ==
  /\ pack \in Packs /\ flags \in SUBSET Flags
  \* assess has no targets; profile coverage always counts for it.
  /\ mode \in {m \in Modes : m.command = "assess" => m.filesystem}
  /\ pc = "assess" /\ plan = NoPlan
  /\ found = Nothing /\ quality = Nothing /\ problems = {} /\ tree = NoTree

----------------------------------------------------------------------------
(* The requirements, derived from a plan wherever they are needed. *)

Obliged(p) == {a \in DOMAIN p.meta : p.meta[a].required}

\* required_evidence_by_action.
Required(p, a) ==
  p.meta[a].evidence \cup p.actionEvidence[a]
    \cup UNION {p.articleEvidence[r] :
                 r \in (p.meta[a].articles \cup ArticlesOf(p.overlay, a)) \cap DOMAIN p.articleEvidence}

Matches(requirement, files) == Within[requirement] \cap files # {}

\* The actions missing_evidence_requirements names: nothing required, or not there.
Gaps(p, files) ==
  {a \in Obliged(p) : Required(p, a) = {} \/ \E r \in Required(p, a) : ~Matches(r, files)}

Expected(p) ==
  UNION {Within[r] : r \in UNION ({p.actionEvidence[a] : a \in DOMAIN p.meta}
                                   \cup {Required(p, a) : a \in Obliged(p)})}

Ready(q) == {f \in DOMAIN q : q[f] = "ready"}

\* profile_coverage: what the selected nodes trace back to.
Nodes(p) == {n \in pack.nodes : Holds(n.when, p.flags)}
Covered(p) ==
  /\ Obliged(p) \subseteq UNION {n.actions : n \in Nodes(p)}
  /\ DOMAIN p.overlay \subseteq UNION {n.articles : n \in Nodes(p)}

----------------------------------------------------------------------------
(* One command, and a seal of what it published. *)

AssessPlan ==
  /\ pc = "assess"
  /\ pc' = "collect"
  /\ plan' = Assess(pack, flags)
  /\ UNCHANGED <<inputs, found, quality, problems, tree>>

\* collect_evidence: every expected file that is there is read once and
\* classified from the bytes read; without a directory the snapshot is empty.
Collect ==
  /\ pc = "collect"
  /\ pc' = IF mode.command = "export" THEN "validate" ELSE "check"
  /\ \E names \in SUBSET Expected(plan) : \E bytes \in [names -> Contents] :
       IF mode.evidenceDir
       THEN found' = bytes /\ quality' = bytes /\ problems' = Gaps(plan, names)
       ELSE UNCHANGED <<found, quality, problems>>
  /\ UNCHANGED <<inputs, plan, tree>>

\* _validated_evidence: only the bytes of the snapshot are trusted.
Validate ==
  /\ pc = "validate"
  /\ pc' = "check"
  /\ quality' = found
  /\ problems' = problems \cup Gaps(plan, DOMAIN found)
  /\ UNCHANGED <<inputs, plan, found, tree>>

CiAccepts ==
  /\ problems = {}
  /\ mode.evidenceDir
  /\ ~plan.blocked
  /\ Gaps(plan, Ready(quality) \cap DOMAIN found) = {}
  /\ DOMAIN quality = Ready(quality)
  /\ mode.filesystem => Covered(plan)

CheckCi ==
  /\ pc = "check"
  /\ pc' = IF mode.checkCi => CiAccepts THEN "write" ELSE "rejected"
  /\ UNCHANGED <<inputs, plan, found, quality, problems, tree>>

\* The documents of an assessment.  An optional document is a set of at most one.
Assessed == [summary |-> plan, actions |-> {}, manifest |-> {}, quality |-> {}, files |-> Nothing]

\* The documents of an export; actions.json is written by the filesystem target.
Exported ==
  [summary |-> plan,
   actions |-> IF mode.filesystem THEN {plan.meta} ELSE {},
   manifest |-> {[included |-> DOMAIN found, missing |-> problems]},
   quality |-> {DOMAIN quality},
   files |-> found]

\* Faulty: the files are copied from --evidence-dir, as they are by now.
PublishCopies ==
  /\ pc = "write"
  /\ pc' = "published"
  /\ \E bytes \in [DOMAIN found -> Contents] :
       tree' = IF mode.command = "export" THEN [Exported EXCEPT !.files = bytes] ELSE Assessed
  /\ UNCHANGED <<inputs, plan, found, quality, problems>>

Publish ==
  /\ pc = "write"
  /\ pc' = "published"
  /\ tree' = IF mode.command = "export" THEN Exported ELSE Assessed
  /\ UNCHANGED <<inputs, plan, found, quality, problems>>

\* Faulty: a directory without a manifest has nothing to be consistent with.
SealAcceptsBare(strict) ==
  LET names == DOMAIN tree.files IN
  /\ \A meta \in tree.actions : meta = tree.summary.meta
  /\ \A m \in tree.manifest : m.included = names /\ m.missing = {}
  /\ \A rated \in tree.quality : rated = names
  /\ Gaps(tree.summary, names) = {}
  /\ strict => names = Ready(tree.files)

\* seal_export and _evidence_consistency on an unedited directory.
SealAccepts(strict) ==
  LET names == DOMAIN tree.files IN
  /\ \A meta \in tree.actions : meta = tree.summary.meta
  /\ tree.manifest # {}     \* every summary carries the evidence maps
  /\ \A m \in tree.manifest : m.included = names /\ m.missing = {}
  /\ \A rated \in tree.quality : rated = names
  /\ Gaps(tree.summary, names) = {}
  /\ strict => names = Ready(tree.files)

Seal ==
  /\ pc = "published"
  /\ pc' = IF SealAccepts(mode.strictSeal) THEN "sealed" ELSE "refused"
  /\ UNCHANGED <<inputs, plan, found, quality, problems, tree>>

\* Reading, classifying or writing raises; fresh_output publishes nothing.
Fail ==
  /\ pc \in {"collect", "validate", "write"}
  /\ pc' = "failed"
  /\ UNCHANGED <<inputs, plan, found, quality, problems, tree>>

Next == AssessPlan \/ Collect \/ Validate \/ CheckCi \/ Publish \/ Seal \/ Fail

Spec == Init /\ [][Next]_vars

----------------------------------------------------------------------------
(* What is owed, said of the pack and not of the plan. *)

\* The evidence a pack asks for an action: its own, that of evidence_map, and that
\* of every article related to it from either side.
Owed(a) ==
  pack.actions[a].evidence \cup pack.evidenceMap[a]
    \cup UNION {pack.evidenceMap[r] :
                 r \in {q \in Articles : q \in pack.actions[a].articles \/ a \in pack.related[q]}}

\* Files satisfy a pack on these flags: every selected action that requires
\* evidence names some, and all that is owed is there.
Satisfied(files) ==
  \A a \in Selected(pack, flags) : pack.actions[a].required =>
    /\ Owed(a) # {}
    /\ \A r \in Owed(a) : Within[r] \cap files # {}

\* The outcome the pack decides on: the first stop that holds or, without one, all
\* outcome rules that hold.
Forbidden ==
  \/ \E i \in DOMAIN pack.stops :
       /\ flags \in pack.stops[i].when /\ pack.stops[i].outcome \in pack.blocked
       /\ \A j \in 1 .. i - 1 : flags \notin pack.stops[j].when
  \/ /\ \A i \in DOMAIN pack.stops : flags \notin pack.stops[i].when
     /\ \E r \in pack.outcomeRules : flags \in r.when /\ r.outcome \in pack.blocked

\* Every action that requires evidence and every article in question is traced by a
\* selected node.
Traced ==
  LET nodes == {n \in pack.nodes : flags \in n.when}
      selected == Selected(pack, flags)
  IN  /\ \A a \in selected : pack.actions[a].required => \E n \in nodes : a \in n.actions
      /\ \A r \in Articles : ActionsOf(pack, selected, r) # {} => \E n \in nodes : r \in n.articles

----------------------------------------------------------------------------
(* Properties. *)

Functions(S, T) == UNION {[X -> T] : X \in SUBSET S}

Plans ==
  [flags : SUBSET Flags, blocked : BOOLEAN,
   meta : Functions(Actions, [required : BOOLEAN, evidence : SUBSET Paths, articles : SUBSET Articles]),
   overlay : Functions(Articles, (SUBSET Actions) \ {{}}),
   articleEvidence : Functions(Articles, SUBSET Paths),
   actionEvidence : Functions(Actions, SUBSET Paths)]

\* The variables keep their shape; an article of a plan has a selected action.
TypeOK ==
  /\ pack \in Packs /\ flags \in SUBSET Flags /\ mode \in Modes /\ pc \in Stages
  /\ pc = "assess" \/ plan \in Plans
  /\ found \in Functions(Files, Contents) /\ quality \in Functions(Files, Contents)
  /\ problems \subseteq Actions

\* The two attributions of evidence to actions, the map assess_from_bundle writes and
\* the requirements every check derives again from metadata, maps and overlay, agree
\* with each other and with the pack: no check asks for less or more than what is
\* collected and shown to the user.
AttributionsAgree ==
  pc = "collect" => \A a \in Obliged(plan) :
    plan.actionEvidence[a] = Owed(a) /\ Required(plan, a) = Owed(a)

\* --check-ci accepts exactly the assessments that are not blocked, whose profiles
\* trace what is selected, and whose evidence is ready throughout and complete.
CiExact ==
  mode.checkCi =>
    LET ideal ==
          /\ mode.evidenceDir /\ ~Forbidden
          /\ Satisfied(DOMAIN found) /\ \A f \in DOMAIN found : found[f] = "ready"
          /\ mode.filesystem => Traced
    IN  /\ pc \in {"write", "published", "sealed", "refused"} => ideal
        /\ pc = "rejected" => ~ideal

\* A seal of an unedited directory is granted exactly to exports whose evidence is
\* complete and, when it is strict, ready throughout.
SealExact ==
  LET ideal ==
        /\ mode.command = "export"
        /\ Satisfied(DOMAIN tree.files)
        /\ mode.strictSeal => \A f \in DOMAIN tree.files : tree.files[f] = "ready"
  IN  /\ pc = "sealed" => ideal
      /\ pc = "refused" => ~ideal

\* An export that passed --check-ci is sealed, strictly too: no requirement is judged
\* differently the second time, from other bytes or from another document.
CiSeals == pc = "refused" => ~(mode.command = "export" /\ mode.checkCi)
=============================================================================
