--------------------------- MODULE EvidenceProofs ---------------------------
(***************************************************************************)
(* Proofs about Evidence.  The invariant says that everything after the    *)
(* assessment works on one plan and one set of bytes; the lemmas say what  *)
(* the checks of that plan mean for the pack it was made from.             *)
(***************************************************************************)
EXTENDS Evidence, TLAPS

Collected == Stages \ {"assess", "collect"}
Passed == {"write", "published", "sealed", "refused"}
Published == {"published", "sealed", "refused"}

\* The inputs, and the plan made from them.
InputsOK ==
  /\ pack \in Packs /\ flags \in SUBSET Flags /\ mode \in Modes /\ pc \in Stages
  /\ pc # "assess" => plan = Assess(pack, flags)

\* The snapshot: quality is that of the bytes, problems are the gaps of the files.
SnapshotOK ==
  /\ found \in Functions(Files, Contents)
  /\ quality = found
  /\ problems = {} \/ problems = Gaps(plan, DOMAIN found)
  /\ pc \in {"check", "rejected"} \cup Passed =>
       (mode.evidenceDir \/ mode.command = "export" => problems = Gaps(plan, DOMAIN found))
  /\ pc = "assess" => problems = {}

\* The verdicts, and the documents the last one is about.
VerdictsOK ==
  /\ pc \in Passed => (mode.checkCi => CiAccepts)
  /\ pc = "rejected" => mode.checkCi /\ ~CiAccepts
  /\ pc \in Published => tree = IF mode.command = "export" THEN Exported ELSE Assessed
  /\ pc = "sealed" => SealAccepts(mode.strictSeal)
  /\ pc = "refused" => ~SealAccepts(mode.strictSeal)

IInv == InputsOK /\ SnapshotOK /\ VerdictsOK

-----------------------------------------------------------------------------
(* The plan and its pack. *)

\* The fields of a plan, so that the definition of Assess need not be expanded again.
LEMMA PlanFields ==
  ASSUME plan = Assess(pack, flags)
  PROVE  LET selected == Selected(pack, flags)
             overlay == Overlay(pack, selected)
         IN  /\ plan.flags = flags
             /\ plan.blocked = Blocked(pack, flags)
             /\ plan.meta = [a \in selected |-> Meta(pack, a)]
             /\ plan.overlay = overlay
             /\ plan.articleEvidence = [r \in DOMAIN overlay |-> pack.evidenceMap[r]]
             /\ plan.actionEvidence = [a \in selected |-> ActionEvidence(pack, overlay, a)]
  BY DEF Assess

\* The actions that owe evidence.
LEMMA ObligedOf ==
  ASSUME plan = Assess(pack, flags)
  PROVE  Obliged(plan) = {a \in Selected(pack, flags) : pack.actions[a].required}
  <1>1. plan.meta = [a \in Selected(pack, flags) |-> Meta(pack, a)]
    BY PlanFields
  <1>2. \A a : Meta(pack, a).required = pack.actions[a].required
    BY DEF Meta
  <1> QED BY <1>1, <1>2 DEF Obliged

\* The articles of a selected action, read off the overlay.
LEMMA ArticlesOfAction ==
  ASSUME NEW a \in Selected(pack, flags)
  PROVE  ArticlesOf(Overlay(pack, Selected(pack, flags)), a) =
           {r \in Articles : r \in pack.actions[a].articles \/ a \in pack.related[r]}
  BY DEF ArticlesOf, Overlay, ActionsOf

\* Both attributions of evidence to an action are what the pack asks for.
LEMMA Attribution ==
  ASSUME pack \in PackSpace, plan = Assess(pack, flags), NEW a \in Selected(pack, flags)
  PROVE  plan.actionEvidence[a] = Owed(a) /\ Required(plan, a) = Owed(a)
  <1> DEFINE overlay == Overlay(pack, Selected(pack, flags))
             related == {r \in Articles : r \in pack.actions[a].articles \/ a \in pack.related[r]}
  <1>1. /\ plan.meta[a] = Meta(pack, a)
        /\ plan.overlay = overlay
        /\ plan.articleEvidence = [r \in DOMAIN overlay |-> pack.evidenceMap[r]]
        /\ plan.actionEvidence[a] = ActionEvidence(pack, overlay, a)
    BY PlanFields
  <1>2. ArticlesOf(overlay, a) = related
    BY ArticlesOfAction
  <1>3. related \subseteq DOMAIN overlay
    BY <1>2 DEF ArticlesOf
  <1>4. plan.actionEvidence[a] = Owed(a)
    BY <1>1, <1>2 DEF ActionEvidence, Owed
  <1>5. a \in Actions
    BY DEF Selected
  <1>6. pack.actions[a].articles \subseteq Articles
    BY <1>5 DEF PackSpace, ActionDefinitions
  <1>7. (plan.meta[a].articles \cup ArticlesOf(plan.overlay, a)) \cap DOMAIN plan.articleEvidence
          = related
    BY <1>1, <1>2, <1>3, <1>6 DEF Meta
  <1>8. \A r \in related : plan.articleEvidence[r] = pack.evidenceMap[r]
    BY <1>1, <1>3
  <1>9. plan.meta[a].evidence = pack.actions[a].evidence
    BY <1>1 DEF Meta
  <1>10. Required(plan, a) =
           pack.actions[a].evidence \cup Owed(a) \cup UNION {pack.evidenceMap[r] : r \in related}
    BY <1>4, <1>7, <1>8, <1>9 DEF Required
  <1>11. Required(plan, a) = Owed(a)
    BY <1>10 DEF Owed
  <1> QED BY <1>4, <1>11

\* No gap means that the pack is satisfied.
LEMMA GapsMeaning ==
  ASSUME pack \in PackSpace, plan = Assess(pack, flags), NEW files
  PROVE  Gaps(plan, files) = {} <=> Satisfied(files)
  <1>1. Obliged(plan) = {a \in Selected(pack, flags) : pack.actions[a].required}
    BY ObligedOf
  <1>2. \A a \in Obliged(plan) : Required(plan, a) = Owed(a)
    BY <1>1, Attribution
  <1>3. Gaps(plan, files) = {} <=>
          \A a \in Obliged(plan) : Owed(a) # {} /\ \A r \in Owed(a) : Within[r] \cap files # {}
    BY <1>2 DEF Gaps, Matches
  <1> QED BY <1>1, <1>3 DEF Satisfied

\* A blocked plan is one whose pack decides on a blocked outcome.
LEMMA BlockedMeaning ==
  ASSUME pack \in PackSpace
  PROVE  Blocked(pack, flags) <=> Forbidden
  <1>1. \E n \in Nat : DOMAIN pack.stops = 1 .. n
    <2>1. pack.stops \in Seq([when : Conditions, outcome : Outcomes])
      BY DEF PackSpace
    <2> QED BY <2>1
  <1>2. \A i \in DOMAIN pack.stops :
          i \in FirstMatch(pack.stops, flags) <=>
            flags \in pack.stops[i].when /\ \A j \in 1 .. i - 1 : flags \notin pack.stops[j].when
    BY <1>1 DEF FirstMatch, Holds
  <1>3. CASE Stopped(pack, flags)
    <2>1. Blocked(pack, flags) <=>
            \E i \in FirstMatch(pack.stops, flags) : pack.stops[i].outcome \in pack.blocked
      BY <1>3 DEF Blocked, OutcomesOf
    <2>2. Forbidden <=>
            \E i \in DOMAIN pack.stops :
              /\ flags \in pack.stops[i].when /\ pack.stops[i].outcome \in pack.blocked
              /\ \A j \in 1 .. i - 1 : flags \notin pack.stops[j].when
      BY <1>3 DEF Forbidden, Stopped, Holds
    <2>3. FirstMatch(pack.stops, flags) \subseteq DOMAIN pack.stops
      BY DEF FirstMatch
    <2> QED BY <1>2, <2>1, <2>2, <2>3
  <1>4. CASE ~Stopped(pack, flags)
    <2>1. Blocked(pack, flags) <=>
            \E r \in pack.outcomeRules : flags \in r.when /\ r.outcome \in pack.blocked
      BY <1>4 DEF Blocked, OutcomesOf, Holds
    <2> QED BY <1>4, <2>1 DEF Forbidden, Stopped, Holds
  <1> QED BY <1>3, <1>4

\* Profile coverage of the plan is traceability of the selection.
LEMMA CoveredMeaning ==
  ASSUME plan = Assess(pack, flags)
  PROVE  Covered(plan) <=> Traced
  <1>1. plan.flags = flags /\ plan.overlay = Overlay(pack, Selected(pack, flags))
    BY PlanFields
  <1>2. Obliged(plan) = {a \in Selected(pack, flags) : pack.actions[a].required}
    BY ObligedOf
  <1>3. DOMAIN plan.overlay = {r \in Articles : ActionsOf(pack, Selected(pack, flags), r) # {}}
    BY <1>1 DEF Overlay
  <1>4. Nodes(plan) = {n \in pack.nodes : flags \in n.when}
    BY <1>1 DEF Nodes, Holds
  <1> DEFINE nodes == {n \in pack.nodes : flags \in n.when}
  <1>5. Obliged(plan) \subseteq UNION {n.actions : n \in nodes} <=>
          \A a \in Selected(pack, flags) :
            pack.actions[a].required => \E n \in nodes : a \in n.actions
    BY <1>2
  <1>6. DOMAIN plan.overlay \subseteq UNION {n.articles : n \in nodes} <=>
          \A r \in Articles :
            ActionsOf(pack, Selected(pack, flags), r) # {} => \E n \in nodes : r \in n.articles
    BY <1>3
  <1> QED BY <1>4, <1>5, <1>6 DEF Covered, Traced

\* What is owed and what is collected stays among the paths and files.
LEMMA OwedPaths ==
  ASSUME pack \in PackSpace, NEW a \in Actions
  PROVE  Owed(a) \subseteq Paths
  <1>1. pack.actions[a].evidence \subseteq Paths
    BY DEF PackSpace, ActionDefinitions
  <1>2. \A k \in Actions \cup Articles : pack.evidenceMap[k] \subseteq Paths
    BY DEF PackSpace
  <1> QED BY <1>1, <1>2 DEF Owed

\* collect_evidence reads files that a requirement names or contains.
LEMMA ExpectedFiles ==
  ASSUME pack \in PackSpace, plan = Assess(pack, flags)
  PROVE  Expected(plan) \subseteq Files
  <1>1. DOMAIN plan.meta = Selected(pack, flags) /\ Obliged(plan) \subseteq Selected(pack, flags)
    BY PlanFields, ObligedOf
  <1>2. \A a \in Selected(pack, flags) :
          plan.actionEvidence[a] \subseteq Paths /\ Required(plan, a) \subseteq Paths
    BY Attribution, OwedPaths DEF Selected
  <1>3. \A r \in Paths : Within[r] \subseteq Files
    BY EvidenceAssumption
  <1> QED BY <1>1, <1>2, <1>3 DEF Expected

\* The problems name actions.
LEMMA GapsActions ==
  ASSUME plan = Assess(pack, flags), NEW files
  PROVE  Gaps(plan, files) \subseteq Actions
  BY ObligedOf DEF Gaps, Selected

\* A plan has the shape of plans.
LEMMA PlanType ==
  ASSUME pack \in PackSpace, flags \in SUBSET Flags, plan = Assess(pack, flags)
  PROVE  plan \in Plans
  <1> DEFINE selected == Selected(pack, flags)
             overlay == Overlay(pack, selected)
             covered == {r \in Articles : ActionsOf(pack, selected, r) # {}}
  <1>1. selected \subseteq Actions
    BY DEF Selected
  <1>2. [a \in selected |-> Meta(pack, a)] \in
          Functions(Actions, [required : BOOLEAN, evidence : SUBSET Paths, articles : SUBSET Articles])
    <2>1. \A a \in selected :
            Meta(pack, a) \in [required : BOOLEAN, evidence : SUBSET Paths, articles : SUBSET Articles]
      BY <1>1 DEF Meta, PackSpace, ActionDefinitions
    <2> HIDE DEF selected
    <2> QED BY <1>1, <2>1 DEF Functions
  <1>3. overlay \in Functions(Articles, (SUBSET Actions) \ {{}})
    <2>1. \A r \in covered : ActionsOf(pack, selected, r) \in (SUBSET Actions) \ {{}}
      BY <1>1 DEF ActionsOf
    <2>2. overlay = [r \in covered |-> ActionsOf(pack, selected, r)] /\ covered \subseteq Articles
      BY DEF Overlay
    <2> HIDE DEF selected, overlay, covered
    <2> QED BY <2>1, <2>2 DEF Functions
  <1>4. DOMAIN overlay \subseteq Articles
    BY DEF Overlay
  <1>5. [r \in DOMAIN overlay |-> pack.evidenceMap[r]] \in Functions(Articles, SUBSET Paths)
    <2>1. \A r \in DOMAIN overlay : pack.evidenceMap[r] \in SUBSET Paths
      BY <1>4 DEF PackSpace
    <2> HIDE DEF selected, overlay
    <2> QED BY <1>4, <2>1 DEF Functions
  <1>6. [a \in selected |-> ActionEvidence(pack, overlay, a)] \in Functions(Actions, SUBSET Paths)
    <2>1. \A a \in selected : plan.actionEvidence[a] = Owed(a) /\ Owed(a) \subseteq Paths
      BY <1>1, Attribution, OwedPaths
    <2>2. plan.actionEvidence = [a \in selected |-> ActionEvidence(pack, overlay, a)]
      BY PlanFields
    <2>3. \A a \in selected : ActionEvidence(pack, overlay, a) \in SUBSET Paths
      BY <2>1, <2>2
    <2> HIDE DEF selected, overlay
    <2> QED BY <1>1, <2>3 DEF Functions
  <1>7. Blocked(pack, flags) \in BOOLEAN
    BY DEF Blocked
  <1> HIDE DEF selected, overlay
  <1>8. plan = [flags |-> flags, blocked |-> Blocked(pack, flags),
                meta |-> [a \in selected |-> Meta(pack, a)], overlay |-> overlay,
                articleEvidence |-> [r \in DOMAIN overlay |-> pack.evidenceMap[r]],
                actionEvidence |-> [a \in selected |-> ActionEvidence(pack, overlay, a)]]
    BY DEF Assess, selected, overlay
  <1> QED BY <1>2, <1>3, <1>5, <1>6, <1>7, <1>8 DEF Plans

-----------------------------------------------------------------------------
(* The invariant. *)

\* It holds when a command starts.
LEMMA InitInv == Init => IInv
  <1> SUFFICES ASSUME Init PROVE IInv
    OBVIOUS
  <1>1. Nothing \in Functions(Files, Contents)
    BY DEF Nothing, Functions
  <1>2. InputsOK
    BY DEF Init, InputsOK, Modes, Stages
  <1>3. SnapshotOK
    BY <1>1 DEF Init, SnapshotOK, Passed
  <1>4. VerdictsOK
    BY DEF Init, VerdictsOK, Passed, Published
  <1> QED BY <1>2, <1>3, <1>4 DEF IInv

\* Every step of a command, and the seal after it, keeps it.
LEMMA NextInv == IInv /\ [Next]_vars => IInv'
  <1> SUFFICES ASSUME IInv, [Next]_vars PROVE IInv'
    OBVIOUS
  <1> USE DEF inputs
  <1>1. CASE AssessPlan
    <2>1. InputsOK'
      BY <1>1 DEF IInv, InputsOK, AssessPlan, Stages
    <2>2. SnapshotOK'
      BY <1>1 DEF IInv, SnapshotOK, AssessPlan, Passed
    <2>3. VerdictsOK'
      BY <1>1 DEF IInv, VerdictsOK, AssessPlan, Passed, Published
    <2> QED BY <2>1, <2>2, <2>3 DEF IInv
  <1>2. CASE Collect
    <2>1. InputsOK'
      BY <1>2 DEF IInv, InputsOK, Collect, Stages
    <2>2. SnapshotOK'
      <3>1. CASE mode.evidenceDir
        <4>1. PICK names \in SUBSET Expected(plan) : \E bytes \in [names -> Contents] :
                found' = bytes /\ quality' = bytes /\ problems' = Gaps(plan, names)
          BY <1>2, <3>1 DEF Collect
        <4>2. names \subseteq Files
          BY <1>2, <4>1, ExpectedFiles, EvidenceAssumption DEF IInv, InputsOK, Collect
        <4>3. found' \in [names -> Contents] /\ quality' = found' /\ problems' = Gaps(plan, DOMAIN found')
          BY <4>1
        <4>4. found' \in Functions(Files, Contents)
          BY <4>2, <4>3 DEF Functions
        <4>5. plan' = plan /\ pc' # "assess"
          BY <1>2 DEF Collect
        <4> QED BY <4>3, <4>4, <4>5 DEF SnapshotOK
      <3>2. CASE ~mode.evidenceDir
        <4>1. UNCHANGED <<found, quality, problems, plan, mode>>
          BY <1>2, <3>2 DEF Collect
        <4>2. pc' = IF mode.command = "export" THEN "validate" ELSE "check"
          BY <1>2 DEF Collect
        <4> QED BY <3>2, <4>1, <4>2 DEF IInv, SnapshotOK, Passed
      <3> QED BY <3>1, <3>2
    <2>3. VerdictsOK'
      BY <1>2 DEF VerdictsOK, Collect, Passed, Published
    <2> QED BY <2>1, <2>2, <2>3 DEF IInv
  <1>3. CASE Validate
    <2>1. InputsOK'
      BY <1>3 DEF IInv, InputsOK, Validate, Stages
    <2>2. SnapshotOK'
      BY <1>3 DEF IInv, SnapshotOK, Validate
    <2>3. VerdictsOK'
      BY <1>3 DEF VerdictsOK, Validate, Passed, Published
    <2> QED BY <2>1, <2>2, <2>3 DEF IInv
  <1>4. CASE CheckCi
    <2>1. InputsOK'
      BY <1>4 DEF IInv, InputsOK, CheckCi, Stages
    <2>2. SnapshotOK'
      BY <1>4 DEF IInv, SnapshotOK, CheckCi, Passed
    <2>3. CiAccepts' <=> CiAccepts
      BY <1>4 DEF CheckCi, CiAccepts, Covered, Nodes
    <2>4. VerdictsOK'
      BY <1>4, <2>3 DEF VerdictsOK, CheckCi, Passed, Published
    <2> QED BY <2>1, <2>2, <2>4 DEF IInv
  <1>5. CASE Publish
    <2>1. InputsOK'
      BY <1>5 DEF IInv, InputsOK, Publish, Stages
    <2>2. SnapshotOK'
      BY <1>5 DEF IInv, SnapshotOK, Publish, Passed
    <2>3. CiAccepts' <=> CiAccepts
      BY <1>5 DEF Publish, CiAccepts, Covered, Nodes
    <2>4. Exported' = Exported /\ Assessed' = Assessed
      BY <1>5 DEF Publish, Exported, Assessed
    <2>5. VerdictsOK'
      BY <1>5, <2>3, <2>4 DEF IInv, VerdictsOK, Publish, Passed, Published
    <2> QED BY <2>1, <2>2, <2>5 DEF IInv
  <1>6. CASE Seal
    <2>1. InputsOK'
      BY <1>6 DEF IInv, InputsOK, Seal, Stages
    <2>2. SnapshotOK'
      BY <1>6 DEF IInv, SnapshotOK, Seal, Passed
    <2>3. CiAccepts' <=> CiAccepts
      BY <1>6 DEF Seal, CiAccepts, Covered, Nodes
    <2>4. Exported' = Exported /\ Assessed' = Assessed
      BY <1>6 DEF Seal, Exported, Assessed
    <2>5. SealAccepts(mode.strictSeal)' <=> SealAccepts(mode.strictSeal)
      BY <1>6 DEF Seal, SealAccepts
    <2>6. VerdictsOK'
      BY <1>6, <2>3, <2>4, <2>5 DEF IInv, VerdictsOK, Seal, Passed, Published
    <2> QED BY <2>1, <2>2, <2>6 DEF IInv
  <1>7. CASE Fail
    <2>1. InputsOK'
      BY <1>7 DEF IInv, InputsOK, Fail, Stages
    <2>2. SnapshotOK'
      BY <1>7 DEF IInv, SnapshotOK, Fail, Passed
    <2>3. VerdictsOK'
      BY <1>7 DEF VerdictsOK, Fail, Passed, Published
    <2> QED BY <2>1, <2>2, <2>3 DEF IInv
  <1>8. CASE UNCHANGED vars
    <2>1. UNCHANGED <<pack, flags, mode, pc, plan, found, quality, problems, tree>>
      BY <1>8 DEF vars
    <2>2. InputsOK'
      BY <2>1 DEF IInv, InputsOK
    <2>3. SnapshotOK'
      BY <2>1 DEF IInv, SnapshotOK
    <2>4. /\ CiAccepts' <=> CiAccepts
          /\ Exported' = Exported /\ Assessed' = Assessed
          /\ SealAccepts(mode.strictSeal)' <=> SealAccepts(mode.strictSeal)
      BY <2>1 DEF CiAccepts, Covered, Nodes, Exported, Assessed, SealAccepts
    <2>5. VerdictsOK'
      BY <2>1, <2>4 DEF IInv, VerdictsOK
    <2> QED BY <2>2, <2>3, <2>5 DEF IInv
  <1> QED BY <1>1, <1>2, <1>3, <1>4, <1>5, <1>6, <1>7, <1>8 DEF Next

\* The invariant holds of every behaviour.
THEOREM Invariance == Spec => []IInv
  BY InitInv, NextInv, PTL DEF Spec

-----------------------------------------------------------------------------
(* The properties. *)

\* The pack of a run is a pack.
LEMMA PackTyped == IInv => pack \in PackSpace
  BY EvidenceAssumption DEF IInv, InputsOK

\* The ready files of a snapshot are all its files when and only when all are ready.
LEMMA AllReady ==
  ASSUME NEW files
  PROVE  DOMAIN files = Ready(files) <=> \A f \in DOMAIN files : files[f] = "ready"
  BY DEF Ready

\* The invariant gives the types.
LEMMA TypeFromInv == IInv => TypeOK
  <1> SUFFICES ASSUME IInv PROVE TypeOK
    OBVIOUS
  <1>1. pc = "assess" \/ plan \in Plans
    BY PackTyped, PlanType DEF IInv, InputsOK
  <1>2. problems \subseteq Actions
    <2>1. CASE pc = "assess"
      BY <2>1 DEF IInv, SnapshotOK
    <2>2. CASE pc # "assess"
      BY <2>2, GapsActions DEF IInv, InputsOK, SnapshotOK
    <2> QED BY <2>1, <2>2
  <1> QED BY <1>1, <1>2 DEF IInv, InputsOK, SnapshotOK, TypeOK

\* It makes the plan that of the pack, so that the attributions agree.
LEMMA AgreementFromInv == IInv => AttributionsAgree
  <1> SUFFICES ASSUME IInv, pc = "collect"
               PROVE  \A a \in Obliged(plan) :
                        plan.actionEvidence[a] = Owed(a) /\ Required(plan, a) = Owed(a)
    BY DEF AttributionsAgree
  <1>1. plan = Assess(pack, flags) /\ pack \in PackSpace
    BY PackTyped DEF IInv, InputsOK
  <1> QED BY <1>1, ObligedOf, Attribution

\* What --check-ci accepts, said of the pack.
LEMMA CiMeaning ==
  ASSUME IInv, pc \in {"rejected"} \cup Passed
  PROVE  CiAccepts <=>
           /\ mode.evidenceDir /\ ~Forbidden
           /\ Satisfied(DOMAIN found) /\ \A f \in DOMAIN found : found[f] = "ready"
           /\ mode.filesystem => Traced
  <1>1. plan = Assess(pack, flags) /\ pack \in PackSpace
    BY PackTyped DEF IInv, InputsOK, Passed
  <1>2. quality = found
    BY DEF IInv, SnapshotOK
  <1>3. mode.evidenceDir => problems = Gaps(plan, DOMAIN found)
    BY DEF IInv, SnapshotOK
  <1>4. plan.blocked <=> Forbidden
    BY <1>1, PlanFields, BlockedMeaning
  <1>5. Covered(plan) <=> Traced
    BY <1>1, CoveredMeaning
  <1>6. Gaps(plan, DOMAIN found) = {} <=> Satisfied(DOMAIN found)
    BY <1>1, GapsMeaning
  <1>7. DOMAIN quality = Ready(quality) <=> \A f \in DOMAIN found : found[f] = "ready"
    BY <1>2, AllReady
  <1>8. DOMAIN quality = Ready(quality) => Ready(quality) \cap DOMAIN found = DOMAIN found
    BY <1>2
  <1> QED BY <1>3, <1>4, <1>5, <1>6, <1>7, <1>8 DEF CiAccepts

\* The verdict of --check-ci in terms of the pack.
LEMMA CiFromInv == IInv => CiExact
  <1> SUFFICES ASSUME IInv PROVE CiExact
    OBVIOUS
  <1>1. pc \in Passed /\ mode.checkCi => CiAccepts
    BY DEF IInv, VerdictsOK
  <1>2. pc = "rejected" => ~CiAccepts
    BY DEF IInv, VerdictsOK
  <1> QED BY <1>1, <1>2, CiMeaning DEF CiExact, Passed

\* What a seal accepts, said of the pack.
LEMMA SealMeaning ==
  ASSUME IInv, pc \in Published
  PROVE  SealAccepts(mode.strictSeal) <=>
           /\ mode.command = "export"
           /\ Satisfied(DOMAIN tree.files)
           /\ mode.strictSeal => \A f \in DOMAIN tree.files : tree.files[f] = "ready"
  <1>1. plan = Assess(pack, flags) /\ pack \in PackSpace
    BY PackTyped DEF IInv, InputsOK, Published
  <1>2. CASE mode.command = "export"
    <2>1. /\ tree.summary = plan
          /\ tree.actions = IF mode.filesystem THEN {plan.meta} ELSE {}
          /\ tree.manifest = {[included |-> DOMAIN found, missing |-> problems]}
          /\ tree.quality = {DOMAIN quality}
          /\ tree.files = found
      BY <1>2 DEF IInv, VerdictsOK, Exported
    <2>2. quality = found /\ problems = Gaps(plan, DOMAIN found)
      BY <1>2 DEF IInv, SnapshotOK, Passed, Published
    <2>3. SealAccepts(mode.strictSeal) <=>
            /\ Gaps(plan, DOMAIN found) = {}
            /\ mode.strictSeal => DOMAIN found = Ready(found)
      BY <2>1, <2>2 DEF SealAccepts
    <2>4. Gaps(plan, DOMAIN found) = {} <=> Satisfied(DOMAIN found)
      BY <1>1, GapsMeaning
    <2> QED BY <1>2, <2>1, <2>3, <2>4, AllReady
  <1>3. CASE mode.command # "export"
    <2>1. tree.manifest = {}
      BY <1>3 DEF IInv, VerdictsOK, Assessed
    <2> QED BY <1>3, <2>1 DEF SealAccepts
  <1> QED BY <1>2, <1>3

\* The verdict of a seal in terms of the pack.
LEMMA SealFromInv == IInv => SealExact
  <1> SUFFICES ASSUME IInv PROVE SealExact
    OBVIOUS
  <1>1. (pc = "sealed" => SealAccepts(mode.strictSeal)) /\ (pc = "refused" => ~SealAccepts(mode.strictSeal))
    BY DEF IInv, VerdictsOK
  <1> QED BY <1>1, SealMeaning DEF SealExact, Published

\* A refused export had gaps or unready files, and --check-ci would have met them.
LEMMA CiSealsFromInv == IInv => CiSeals
  <1> SUFFICES ASSUME IInv, pc = "refused", mode.command = "export", mode.checkCi
               PROVE  FALSE
    BY DEF CiSeals
  <1>1. CiAccepts
    BY DEF IInv, VerdictsOK, Passed
  <1>2. Satisfied(DOMAIN found) /\ \A f \in DOMAIN found : found[f] = "ready"
    BY <1>1, CiMeaning DEF Passed
  <1>3. tree.files = found
    BY DEF IInv, VerdictsOK, Published, Exported
  <1>4. SealAccepts(mode.strictSeal)
    BY <1>2, <1>3, SealMeaning DEF Published
  <1> QED BY <1>4 DEF IInv, VerdictsOK

\* The variables keep their shape for every pack and every evidence directory.
THEOREM TypeCorrect == Spec => []TypeOK
  BY Invariance, TypeFromInv, PTL

\* For every pack the map assess_from_bundle writes and the requirements derived by
\* required_evidence_by_action agree with each other and with the pack.
THEOREM Agreement == Spec => []AttributionsAgree
  BY Invariance, AgreementFromInv, PTL

\* check_ci accepts exactly the unblocked, traced, complete and ready assessments.
THEOREM CiVerdict == Spec => []CiExact
  BY Invariance, CiFromInv, PTL

\* seal_export accepts an unedited directory exactly when it is an export with complete
\* evidence, ready throughout if the seal is strict.
THEOREM SealVerdict == Spec => []SealExact
  BY Invariance, SealFromInv, PTL

\* What passes check_ci in export_plan passes seal_export later, strict or not.
THEOREM CiThenSeal == Spec => []CiSeals
  BY Invariance, CiSealsFromInv, PTL
=============================================================================
