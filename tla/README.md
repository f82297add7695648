# TLA+ models of the Intrinsical Policy Engine

`ipe` compiles a policy pack (YAML contracts and templates), assesses a set of
answers against it, exports a snapshot directory with an integrity baseline and
seals that directory into a signed archive. Scripts accept the installed
program, run the documentation and bind a release to what was tested. This
project models the parts of it
whose correctness depends on orders of events, on failures between two steps or
on all inputs of an algorithm. TLC checks the models on small instances; TLAPS
proves the main safety properties for every value of the constants.

Paths below are relative to `src/src/intrinsical_policy_engine/`, those of scripts
to `src/`.

## 1. Inventory

| Component | State it keeps | Operations | What is hard | What makes it correct |
|---|---|---|---|---|
| Atomic publication (`common/output_safety.py`, `common/io_safety.py`) | destination, sidecar lock file `.name.ipe.lock`, private staging directory | `fresh_output`, `acquire_lock`, `publish_file_no_replace` | several invocations, kills, a program that takes no lock | exclusive, complete or absent, nothing left behind, nobody waits |
| Integrity baseline (`common/package_integrity.py`) | `CHECKSUMS.sha256`, `CHECKSUMS.sha256.asc` | `scan_payload`, `write_checksums`, `load_checksums`, `verify_payload` | files change between two passes | the baseline inventories exactly the published files |
| Export orchestration (`app/export/orchestrator.py`, `app/cli/commands/core.py`) | the staging directory while it is filled | `export_plan`, `_assess` | a producer that fails or deviates from the plan | what is published is what was planned |
| Output planning (`domain/output_inventory.py`, `app/export/inventory.py`, `domain/services/contract_validation.py`) | planned files and directories with their owners | `add_file`, `add_directory`, `plan_outputs`, `validate_output_nodes` | orders of claims, core documents that give way, conditional nodes | refuses exactly what cannot coexist; a plan can be carried out |
| Sealing (`app/use_cases/seal.py`, `domain/services/seal_service.py`, `adapters/security/gpg_signer.py`) | signature, ZIP, temporary archive | `seal_and_package` | two artifacts published one by one, concurrent sealers, edits during the minutes it takes, retries | archives are self-consistent, a seal certifies what was checked, nothing is replaced, a retry recovers |
| Derivation closure (`domain/services/derivation_closure.py`) | flags, pending rules, trace | `derive_with_trace` | cycles among rules, declaration order, end of the loop | least fixed point, trace replays, bounded work |
| Operational log (`adapters/logging/fs/fs_log.py`, `app/cli/main.py`) | a JSONL file shared by invocations | `FsLogger._write`, `_run`, `_failed_log` | torn writes, a log that fails after the work is done | whole records only, append only, log, exit code and stderr agree |
| Conditions (`domain/conditions.py`) | none | `evaluate_condition`, `condition_references`, `condition_is_positive` | nesting, prefixes | positive conditions are monotone |
| Questionnaire (`domain/services/questionnaire_engine.py`, `contract_validation.py`) | flags emitted so far | `eval_questions`, `validate_questions` | what a question sees of earlier answers | accepts exactly active, well-typed answers; reachability warnings are sound |
| Assessment (`domain/services/assess_service.py` and the services it calls) | none | `assess_from_bundle` | interaction of stops, roles, routing | a stop selects nothing; the maps agree with the selection |
| Calendar (`domain/services/duedate_service.py`, `domain/contract_models.py`) | none | `canonical_date`, `resolve_calendar`, `apply_due_hints` | end of months, year 9999, amounts compared as strings, priorities and ties | dates lie where the pack says; a pack that passed lint resolves |
| Evidence (`app/evidence.py`, `domain/services/evidence_requirements.py`, `adapters/quality/engine.py`) | none | `collect_evidence`, `check_ci`, `missing_evidence_requirements` | three checks of one requirement at different times | what passes `--check-ci` passes a strict seal |
| Pack compilation (`adapters/contracts/yaml`, `adapters/frameworks`, `domain/framework_layout.py`) | the captured bytes, merged sections, problems, work list of templates | `load_framework_layout`, `compile`, `validate_bundle`, `validate_pack_templates` | the directory is edited meanwhile; files read once for parsing, hashing and rendering; includes | one snapshot of the bytes is used throughout, hashes cover it, a compiled pack renders |
| Hashes (`domain/services/integrity.py`, `common/hashing.py`), rendering (`app/rendering`, `common/jinja_env.py`) | none | `compute_framework_pack_hashes`, `ArtifactAssembler.render` | what a hash covers | covers what was used |
| API exporters, task graph, inspection | none | formatting | | |
| Release candidate (`scripts/release_candidate.py`) | `build-manifest.json`, `candidate.json` | `prepare`, `verify` | sources, distributions and receipts change between any two reads | a candidate binds things that belong together |
| Installed acceptance and conformance (`scripts/check_installed_artifact.py`, `check_conformance.py`) | a work directory, copies, a log, receipts | `run_acceptance`, `run_conformance` | the program under test may do anything | "passed" is earned, sessions end |
| Documented examples (`scripts/check_documented_examples.py`) | a disposable checkout, markers, a receipt | `run_examples` | shells that end early, hang or leave a process | "passed" names blocks that all ran |
| Release guard, schema export, benchmark (`scripts/`) | none | single passes over files | | |

The components meet as follows. `_run` wraps every command and appends to the
log. `_assess` and `export_plan` produce a staging directory inside
`fresh_output`, whose last act before the rename is `write_checksums`. The
producers inside `export_plan` write what `plan_outputs` announced.
`seal_and_package` takes the same sidecar lock and starts from the baseline
that `write_checksums` left. `derive_with_trace` feeds the flags of the plan,
which select the nodes that `plan_outputs` claims. A pack is compiled before any
of this, and its captured bytes are what the producers render. The scripts call
the installed program as a user would and know it only by its files. There are
no threads: what runs concurrently are processes, and they meet in the file
system.

`PROJECT.json` lists the hazards with their lines and the properties about them.

## 2. Modules

| Module | Models | Checked by | Proofs |
|---|---|---|---|
| `ExclusivePublication` | what an output call promises its caller | refinement target | |
| `FreshOutput` | `fresh_output`, `acquire_lock`, `write_checksums` under `_assess` and `export_plan` | `MCFreshOutput` | `OutputProofs` |
| `Seal` | `seal_and_package` and all it calls | `MCSeal` | `SealProofs` |
| `Derivation` | `derive_with_trace` | `MCDerivation` | `DecisionProofs` |
| `OutputPlan` | `OutputInventory` in compilation and export, and the producers' writes | `MCOutputPlan` | `OutputProofs` |
| `OperationalLog` | `FsLogger`, `_run`, `_failed_log` | `MCOperationalLog` | `OperationalLogProofs` |
| `Assessment` | what `assess_from_bundle` decides, as operators | through `Evidence` | |
| `Evidence` | `collect_evidence`, `check_ci`, the evidence documents, `_evidence_consistency` | `MCEvidence` | `EvidenceProofs` |
| `PackCompile` | `YamlContractsAdapter.compile` on a directory that is edited, the pack hashes, the templates an export renders | `MCPackCompile` | `PackCompileProofs` |
| `Conditions` | condition trees | through `Intake` | `DecisionProofs` |
| `Calendar` | dates, authored amounts, `resolve_calendar_date` | through `Intake` | `DecisionProofs` |
| `Intake` | validation of questions, calendar and due rules; `eval_questions`, `resolve_calendar`, `apply_due_hints` | `MCIntake` | `DecisionProofs` |
| `ReleaseCandidate` | `prepare` and `verify` of a release | `MCReleaseCandidate` | `ReleaseCandidateProofs` |
| `Harness` | a session of installed acceptance or conformance | `MCHarness` | `ScriptProofs` |
| `DocumentedExamples` | a run of the documented blocks | `MCDocumentedExamples` | `ScriptProofs` |

Every module describes its own abstraction in its header. Definitions whose
comment begins with "Faulty" are not part of a specification: each is a mistake
that the code avoids, standing beside the step it would change, and the
property it breaks is named in `PROJECT.json`.

### FreshOutput

`pc[w]` is the point an invocation has reached between two system calls that
matter. `opened`, `ino` and `unlinked` describe the lock file by inode, because
`flock` excludes per inode and not per name; `staging`, `scanned` and `temp`
are the private directory, the hashes `write_checksums` holds and its temporary
file; `dest` is what the destination names. The bytes of a file are "own",
"alien" or absent, which is all that the properties tell apart.

| Action | Code |
|---|---|
| `OpenLock`, `TakeLock`, `RefuseLock`, `Unlock` | `acquire_lock`, timeout 0 (io_safety.py:84-132) |
| `Prepare` | `require_new_output` and `mkdtemp` under the lock (output_safety.py:72-73) |
| `WriteFile`, `FinishBody` | the producers and the inventory comparison (orchestrator.py:123-156) |
| `ScanPayload`, `PrepareChecksums`, `VerifyPayload`, `LinkChecksums` | `write_checksums` (package_integrity.py:122-143) |
| `PublishDirectory` | `renameat2(RENAME_NOREPLACE)` (output_safety.py:42-57) |
| `Cleanup`, `CleanupRaises` | the `finally` clause (output_safety.py:77-79) |
| `Raise`, `Crash`, `Foreign...` | exceptions, kills, a program that takes no lock |

Two system calls of `publish_file_no_replace`, link and unlink, are one step: a
kill between them differs from a kill before the pair only in a temporary file
that remains, and a failing unlink is covered by `Raise` at the next stage.

`Refines` shows that all of this is one atomic step to the caller:
`ExclusivePublication` has no lock, no staging and no checksum file, only calls
that make an intact entry appear under a free name or give up.

### Seal

The stages of `seal_and_package` in order (`Precheck`, `Lock`, `Load`, `Scan`,
`Diagnose`, `ReadSignature`, `Sign`, `Pack`, `Verify`, `CheckSourceControls`,
`PublishSignature`, `PublishZip`, `Return`), with failures, kills and edits of
the directory between any two of them. A file is absent, sound or weak; a weak
evidence file is what `QualityEngine` reports, a weak metadata document what
`_evidence_consistency` reports. A baseline and a signature are the functions
they stand for, so "the signature is of this baseline" is an equation.

A pass over the files (scan, diagnosis, packing, verification) is one step.
This loses nothing: a pass reads every file once, reads of different files are
independent of edits of other files, so any edit inside a pass can be moved
before or after it. Edits between two passes, also pairs that undo each other,
are explored. `disturbed` and `excused` are history variables: whose lock was
ignored by an edit, and who met a failure of its own.

### Derivation

One action per iteration of the inner loop (`EvaluateRule`) and one for the end
of a pass (`EndPass`). A condition is the set of flag sets it holds on. The
assumption that these sets are upward closed is what `Derivation.positive_only`
enforces (contract_models.py:72-77); `PositiveConditionsArePositive` proves that
it does, of the trees of `Conditions`.

### OutputPlan

A claim is one `add_file` or `add_directory`. `CompileClaim` is
`validate_output_nodes` on one node: reserved paths are refused for all nodes,
collisions among the unconditional ones only. `PlanClaim` is one claim of
`plan_outputs`, which stops at the first refusal. `Write` is one producer's
`mkdir(parents=True, exist_ok=True)` or exclusive `open("x")`, in any order but
with the core documents after the nodes of the pack, as
`FilesystemExporter.export` has them. Claims are canonical paths; producers
write what they claim (one that does not is caught by the comparison, the
`FinishBody` of `FreshOutput`).

### OperationalLog

`lines` and `tail` are the file: complete lines, and what follows the last
newline. A write can stop after any prefix of separator, record and newline
(`Cut`). `job` is the record being appended; `Fail` is the `except` clause of
`_run`. Exceptions that `_run` does not catch end the process as `Crash` does.
The lock file of the log is assumed to stay: its removal is the same matter as
in `FreshOutput`.

### Assessment and Evidence

`Assessment` has no state: `Assess(pack, flags)` is the plan, `flags` being
closed under derivation. First-match rules (stops, routes) are sequences,
everything else whose order is presentation is a set. `Evidence` is one command
that uses the plan, and a seal of what it published.

| Action | Code |
|---|---|
| `AssessPlan` | `assess_from_bundle`, called by `_assessment` |
| `Collect` | `collect_evidence`: the files that `Expected` names, as far as they are there |
| `Validate` | `_validated_evidence` (export only) |
| `CheckCi` | `check_ci` with `profile_coverage` |
| `Publish` | the documents of `_assess` or `export_plan` |
| `Seal` | `_evidence_consistency` and `seal_export` on the published directory |
| `Fail` | anything that raises on the way |

What a read of a file in `--evidence-dir` returns is chosen freely, which stands
for any edits by others between any two reads. `Within[p]` is what
`_EvidenceIndex.matches` looks up: `p` itself or what is below it. The
requirements are derived by the code in two ways, and by the model in the same
two (`actionEvidence`, `Required`); the properties compare them with a third,
`Owed`, which reads the pack only. How the published directory fares until it is
sealed is the subject of `Seal`, which takes sound and weak files as given.

### PackCompile

`disk` is the pack directory and `bytes` what was captured of it; `Edit` changes
the former at any moment. A content is a record of what compilation asks of a
file, so a file can change its identifiers, mentions, scalars, nodes, references
or validity, become a link or vanish.

| Action | Code |
|---|---|
| `ReadManifest`, `Resolve`, `Capture` | `load_framework_layout`: manifest, entries, one read of every source |
| `Merge` | one file of `merged`, on its captured bytes |
| `Validate` | end of the first phase, `_BundleValidator` on the whole |
| `CheckNode` | `_node_path_problems`; a file that a node copies is captured here |
| `StartTemplates`, `CheckTemplate` | `validate_pack_templates` and its work list |
| `Conclude` | the verdict, and `compute_framework_pack_hashes` |
| `StartRendering`, `RenderTemplate`, `FinishRendering` | any selection of nodes, rendered by `ArtifactAssembler` from `SnapshotTemplateLoader` |

The code walks over ordered lists; the model takes files, nodes and templates in
any order, which is more than the code does and shows that the order does not
matter. `SoundPack` is the reference: what a pack must be, said over files and
bytes without phases or work lists.

### Conditions, Calendar and Intake

`Conditions` and `Calendar` are operators, `Intake` the command that uses them:
`LintQuestion` and `EndLint` are `validate_bundle` as far as it concerns
questions and dates, `ReadInput` and `Ask` are `eval_questions`, `ResolveKey` is
one key of `resolve_calendar`, `ApplyRule` one rule of `apply_due_hints`. Texts
are model values except where code looks into them: flags and action identifiers
are sequences (prefixes), authored amounts are sequences of digits, since
`canonical_date` strips zeros and compares strings by length and then by
character. Python's proleptic calendar is written out (`Ordinal`,
`FromOrdinal`); `DatesExact` compares the dates with a statement that computes
none. A pack's condition trees are a set `Trees`, closed under parts, over which
the evaluator recurs.

### ReleaseCandidate

Every read of `prepare` and `verify` is a step (`ReadRevision`, `ReadStatus`,
`ReadFiles`, `HashArtifact`, `OpenArtifact`, ..., `RecheckRevision`,
`RecheckStatus`, `RecheckFiles`, `CheckInstalled`, `RecordInstalled`), so that an
edit, a commit, a rebuild or a matrix job can come between any two: revision,
status and files are one look of the code (`source_state`) and three moments.
`RunCheck` is one check of a job of CI; it leaves the receipts its script
leaves, bound to what it saw.

Three history variables serve the properties, and `Witnessed` keeps them by
comparing the state before and after a step of the environment, whichever it is.
`states` is what the checkout was at some moment; `late` says that files or
receipts changed after the last look `verify` takes at the sources; `calm` that
an invocation found everything in order and that nothing it compares has changed
since. What it compares includes the names in `git status`, of all paths: the
first edit of a committed delivery record changes them, so `RejectsWithReason`
allows that refusal, although the contents of the delivery records are not
hashed. A delivery record that differs from its commit already may be edited
again.

### Harness

`Plan` is the list of calls a script makes, each of a kind with its own checks.
`Behave` lets the program under test do anything to its output and its subject,
and to the log what `Logs` lists: a call that was to log may leave the log alone,
replace it, or add one run or two, complete or not, under an identifier of its own
or an earlier one; a call that was not may empty it or add a run that looks right.
`Hang` lets it not return. `faults` records that some call did what it must not,
which the script cannot see and must infer from what is left.

The script reads the log around the calls that are to log, and only around those
(check_installed_artifact.py:56-57, 92-93). A call that was not to log can
therefore change the log unseen. `tampered` records that one did, and the clause
of `PassedIsEarned` about the log is then void; the other clauses stay.

### DocumentedExamples

`Groups` are the commands: one shell per document, one interpreter per Python
block. `RunBlock`, `Detach` and `Exit` are what happens inside a command,
`CommandTimesOut` and `Collect` what the script makes of it, `Edit` and `EditCopy`
changes of the checkout and, by the blocks themselves, of its copy. The `Confirm...`
actions are the five looks of `finalize_execution`, one after the other, with
edits in between; `closing` keeps what each of them saw and `foreign` whether a
block ran on sources other than the recorded ones, so that
`PassedOnRecordedSources` can compare both with the receipt. Without any one of
the five looks it fails. The quick scope records documents, fixtures and the
script, no other source.

## 3. Runs

| Run | Specification and bounds | Properties | What it shows |
|---|---|---|---|
| `fresh_output` | `FairSpec`, 3 invocations, one live, 3 paths, 1 foreign step; 1.4 M states | `StagingExclusive`, `PublishedIntact`, `NoLeftovers`, `Refines`, `CallsEnd` | Two exports, one of which nobody suspends, and an assess with one destination, kills and failures at every stage, one step of an unrelated program: the lock excludes, what is published is intact, nothing is left behind, every call is one atomic exclusive publication or nothing, and the live one ends. |
| `seal` | `Spec`, 2 sealers, 1 ZIP name, 2 files, 2 edits; 978 k states | `ZipFaithful`, `SealCertifies`, `NeverReplaces` | A strict signing sealer and a lenient one with the same ZIP name, and two edits of an unrelated program anywhere: archives are self-consistent, a seal certifies what it was checked for, nothing named is replaced. |
| `seal_retry` | `FairSpec`, 3 sealers, 2 ZIP names and one without, no edits; 103 k states | `SuccessComplete`, `FailuresExplained`, `SealsEnd` | Three sealers of one directory with names of their own, any of which may fail or be killed between publishing the signature and the archive: a retry succeeds, success is complete, the live sealer ends. |
| `derivation` | `FairDerivation`, 3 rules from 24, 3 flags; 672 k states | `LeastFixedPoint`, `TraceReplays`, `Terminates` | Every sequence of three positive rules over three flags, from every set of flags: the closure is the least fixed point, its trace replays without repetition and it returns. |
| `output_plan` | `Spec`, 3 claims from 27, 6 nested paths; 852 k states | `CompileExact`, `PlanExact`, `PlanFits` | Every three claims of a pack and the engine over nested paths and every selection: both verdicts are exact and a plan is carried out in any order of the producers. |
| `log` | `FairSpec`, 2 invocations, one live, 1 edit; 1.2 M states | `LinesSound`, `AppendOnly`, `LifeInOrder`, `LogAgrees`, `RunsEnd` | Two invocations appending to one log, killed or failing at any byte of a record, one of which may stop while holding the lock, and an editor that strips a newline, truncates or empties the file: lines stay whole records, records, exit code and notice of each agree, and the live one ends. |
| `evidence` | `Spec`, 128 packs with 2 actions, 1 article, 3 files and 2 flags; 198 k states | `AttributionsAgree`, `CiExact`, `SealExact`, `CiSeals` | Every assessment or export of 128 packs under every set of flags, options and contents of the evidence directory, and a strict or lenient seal of what it publishes: the derivations of the requirements agree, both verdicts are exact, and what passes --check-ci is sealed. |
| `pack` | `Spec`, 8 files, 1458 packs, 2 edits; 1.4 M states | `VerdictExact`, `HashCoversUse`, `RendersFromCapture` | Compilation of 1458 packs, each edited up to twice at any moment, and a rendering of what compiles: verdicts are exact, hashes cover what is used, and no edit reaches a rendering. |
| `intake` | `Spec`, 294 questionnaires under 248 inputs each, 4235 calendars with due rules and base dates | `QuestionsExact`, `DatesExact`, `DeadlinesExact` | 294 questionnaires under 248 inputs each, and 4235 calendars with due rules under three base dates: answers, lint warnings, dates and deadlines are what the pack says, up to the year 9999. |
| `release` | `Spec`, one prepare, one verify, 2 interpreters, 1 distribution, 2 changes; 1.9 M states | `CandidateBound`, `RejectsWithReason`, `DescribedSources` | prepare and verify of a release against a matrix of two interpreters, with two edits, commits, rebuilds or restarted jobs at any moment: a candidate binds sources, distributions and receipts that belong together, the sources it names were the checkout at one moment, and nothing but a change in what is compared, behind the first look, refuses a pair in which everything agrees. |
| `harness` | `FairSpec`, 2 sessions, one live, plans of 7 and 4 steps, 2 changes; 1.4 M states | `PassedIsEarned`, `SessionsEnd` | Two acceptance or two conformance sessions on one directory, an executable whose every call may go wrong in what it answers, writes or logs, also in a log that the call was not given, fixtures and artifact changed up to twice: a receipt says passed only if everything was as it must be, and a live session ends. |
| `examples` | `FairSpec`, 3 documents, 5 blocks, 2 edits of the checkout and of its copy; 479 k states | `PassedIsComplete`, `PassedOnRecordedSources`, `RunEnds` | The quick and the full scope over three documents, with shells that end early, fail, hang or detach a process, and two edits of the checkout and of its copy, also ones that undo each other: a receipt that passed names blocks that all ran, each closing look found what the receipt records, and a run ends. |

Deadlock checking is off in every run because invocations end, or the function
returns.

Why the bounds are enough to be interesting: with two exporters and an
assessment, one can hold the lock, one be refused or publish after a kill, and
the third come late; two steps of the unrelated program are what it takes to
undo an edit. Two sealers compete for a ZIP name, two signing ones for a signature, and three let a
retry follow a failure and a kill. Three rules give chains, cycles and joins of
derivations; three claims give a file, a path
below it and a directory in every order. Two invocations on a log and one step
of the editor produce every tail a third one could find. The packs of `evidence`
vary in each thing the checks read (stop order, outcome rules, routing, roles,
both sides of the article relation, owed evidence, tracing nodes), and the three
files make a directory requirement that one or two files can satisfy. The pack of `pack` has every kind of file once and two rules files
that a glob, a plain entry or both can name; each content is chosen so that one
check depends on it, and a second edit can restore what the first changed. The
dates of `intake` are those around the ends of months, leap days and the year
9999, the amounts those at the limit and with leading zeros, and every condition
form occurs as the condition of a question. In `release` a second distribution
or interpreter repeats steps that are there; what matters is that two changes
can come between any two reads. The plans of `harness` and `examples` hold every
kind of step once. The theorems remove these bounds where they exist.

The properties that carry most weight, and how the code could have missed them:

* `StagingExclusive` fails if the holder removes the lock file on leaving, the
  usual habit that output_safety.py:20 warns against.
* `PublishedIntact` fails if `write_checksums` trusts its first hashes.
* `ZipFaithful` fails if the archive is filled by name after the scan, in place
  of hashing the bytes it copies.
* `FailuresExplained` fails if a sealer insists on an unsigned directory: after
  a kill between signature and archive no retry could succeed.
* `LeastFixedPoint` with every order of the rules: the result cannot depend on
  the order in which a pack declares them.
* `PlanFits`: the plan decides by its inventory, and the exporter by looking at
  the directory, whether a core document gives way; they must agree.
* `CiSeals`: the evidence is judged twice, from a snapshot in memory and from
  published documents; an exporter that copied the files again would break it.
* `LogAgrees`: a failure to log a success that already happened.
* `VerdictExact` and `RendersFromCapture`: the verdict is about the captured
  bytes; a checker that looked at the directory again, or started the template
  work list from the nodes only, would accept packs that do not render.
* `HashCoversUse`: files that nodes copy are captured late, in the middle of
  validation; a second read of a captured file would separate the bytes that
  were parsed from those that were hashed.
* `QuestionsExact`: conditions may look at earlier emissions only, and the
  reachability warning, which ignores answers, must never blame a question that
  can be answered.
* `CandidateBound`: `verify` compares the manifest it read with the one it would
  write now, not merely the hashes of the sources.
* `DescribedSources`: a manifest alone may name a mixture, one moment's status with
  another's files; `verify` must let none through, and would if its second look
  asked git nothing.
* `PassedIsEarned` and `PassedIsComplete`: exit codes and last log records are
  what a program under test can get right by accident.
* `PassedOnRecordedSources`: a block may change the very copy it is tested on.

## 4. Fairness

`Derivation` is a loop in one process: weak fairness of its next step. In the
other modules only the invocations in `Live` are promised to continue; the rest
may stop for ever, holding the lock. What is then shown (`CallsEnd`,
`SealsEnd`, `RunsEnd`) is that a live invocation ends regardless, which the
code justifies by its timeouts: the output lock is tried once
(`acquire_lock(...)` with the default timeout of zero), GPG runs under a limit
of thirty seconds (gpg_signer.py:22-37), and the log's lock is waited for five
seconds at most (fs_log.py:91). Failures and kills are never fair.

`SessionsEnd` rests on the limit of thirty seconds per call
(check_installed_artifact.py:51-67). `RunEnds` rests on the limits of 180 and
500 seconds per command (check_documented_examples.py:205-210) and has a
condition: after a timeout the script kills the process group and then reads its
pipes to their end, so a process that left the group and never ends keeps the
script waiting. `Intake`, `PackCompile` and `ReleaseCandidate` are straight
passes whose loops shrink a finite set; no liveness is stated.

## 5. Proofs

Assumptions are those the modules name (`FreshOutputAssumption`,
`DerivationAssumption`, `PlanAssumption`, `SealAssumption`, `LogAssumption`,
`AssessmentAssumption`, `EvidenceAssumption`, `PackAssumption`,
`MatrixAssumption`, `SessionAssumption`, `DocumentsAssumption`, `TreesAssumption`,
`IntakeAssumption`), evaluated by TLC on every run. Each invariant below contains type correctness; most modules state it as
`TypeCorrect` too, which the runs therefore leave out, as they do `WorkBounded` of
`Derivation` (theorem `Work`) and `NoLeftovers` of `Seal` (`Tidiness`). Components share a proof
module where they share their subject: what an output directory receives
(`OutputProofs`), what a script's receipt says (`ScriptProofs`) and what an
assessment computes (`DecisionProofs`).

* `OutputProofs`, of `FreshOutput`. The invariant `IInv` adds to `TypeOK` that an invocation
  between lock and unlock has opened the inode the lock path names, as long as
  nobody unlinked it; that the staging directory exists exactly at the stages
  that own it; and what `scanned` and the baseline say at each stage from the
  scan to the rename. The four invariants and the refinement follow from it.
* `DecisionProofs`, of `Derivation`. The invariant splits the rules into evaluated, pending and
  fired ones, says that `additions` is what the rules fired in this pass found,
  and that every condition recorded as false was false on `result`. Least-ness
  needs that conditions are monotone; closedness at the end needs that a pass
  without additions leaves every remaining rule false on the final flags.
* `DecisionProofs`, of `Conditions`. The evaluator is a recursive function over
  trees, whose depth nothing bounds. `TreesAssumption` says that no tree is a part
  of itself: every nonempty set of trees has one without parts in the set. From
  it, a rule that computes the value of a tree from those of its parts has
  exactly one solution (`DeterminedEverywhere`: the partial solutions agree, and
  no tree is outside of all of them). `PositiveIsMonotone` follows by a least
  counterexample, and `PositiveConditionsArePositive` from it: the abstraction of
  `Derivation` is what `Derivation.positive_only` makes true.
* `DecisionProofs`, of `Calendar`. `FromOrdinal` looks for a year and a month; that
  they exist and are where it looks rests on the lengths of years and months
  (`YearOfDay`, `MonthOfDay`). The comparison of amounts as strings is compared
  with the numbers they stand for: a number that is ahead stays ahead whatever
  digits follow (`StaysAbove`), one with more digits is greater
  (`LongerIsGreater`), and stripping zeros or writing and reading a number
  changes nothing (`StrippedIsSame`, `DigitsOfNumber`). Hence
  `AmountsCompareAsNumbers`, and `CanonicalValuesResolve`: the bounds of
  `canonical_date` are exactly those of a calendar that ends with 9999.
* `DecisionProofs`, of `Intake`. `LintInv` says what lint knows of the options of
  earlier questions, `AskInv` that the flags are those the accepted answers stand
  for. An answer emits at most what its question can (`AnswersEmitTargets`), so a
  positive condition that fails for all earlier options fails for all earlier
  answers: the reachability warning is sound because conditions without a negation
  are monotone. `DateInv` says of each resolved key where it lies, and `DueInv`
  that the rules applied so far come before those left and that every deadline is
  the one of the first of them that names the action, which at the end is the
  rule `DeadlinesExact` describes.
* `OutputProofs`, of `OutputPlan`. During a phase, `files` and `dirs` are what the claims
  checked so far amount to, and these claims are pairwise compatible; while
  writing, the tree holds exactly what the finished claims amount to, so a
  producer that found its path taken would contradict compatibility.
* `SealProofs`. Two invariants. `IInv` holds whatever is edited: the lock
  excludes, a temporary archive that can still be published is the archive of
  its sealer's baseline, and an undisturbed sealer past the decision is
  certified. `Quiet` describes a directory that nobody edits (`edits = 0`): what
  a sealer has read is what is there, a signature never changes under a sealer
  that has looked at it (this needs the lock), and every failure has an excuse
  or a reason. `SuccessComplete` and `FailuresExplained` follow from `Quiet`,
  the rest from `IInv`; `NeverReplaces` from each action.
* `EvidenceProofs`. The invariant says that every step after the assessment works
  on one plan, one set of bytes and the quality of these bytes. Lemmas translate
  what the code asks of the plan into what it means for the pack
  (`Attribution`, `GapsMeaning`, `BlockedMeaning`, `CoveredMeaning`), so that the
  two verdicts are exact and the second follows from the first.
* `PackCompileProofs`. `IInv` follows the bytes: what the manifest names is
  captured before anything is merged (`CaptureInv`), what was merged is what was
  captured and conflicts with nothing unless a problem says so (`MergeInv`,
  `MergedInv`), checked nodes have what they need (`NodeInv`), and the work list
  of templates accounts for all its roots lead to, without leaving it
  (`TemplateInv`). That the work list leaves nothing out needs that the
  reachable templates are the least set closed under references
  (`ReachableLeast`). `Quiet` describes a directory that nobody edits
  (`edits = 0`): the captured bytes are those on disk and every problem is one
  of the pack, from which the second half of `VerdictExact`, that only unsound
  packs are refused, follows.
* `OperationalLogProofs`. What holds in spite of an editor rests on exclusion: a
  writer that nobody disturbs stands alone, and the tail it writes after is the
  one it checked (`Checked`); `PutSound` then says of every cut of a write that
  it leaves whole lines and prefixes what was there. `LinesSound` and
  `AppendOnly` follow. `LifeInOrder` and `LogAgrees` are about the records of one
  run and are not inductive: `Life(r)` adds which events a run can have logged
  at each point, and how its exit code and notice relate to them.
* `ReleaseCandidateProofs`. Contents are versions, so what a run has read is at
  most what is there, and a distribution replaced behind its hash stays different
  from it (`Grown`, `Hashes`). A manifest may therefore name a distribution that
  is already gone; `verify` hashes after it has read the manifest and cannot meet
  that one again (`Reading`), which is why `CandidateBound` holds although
  `prepare` alone does not promise it. `Matrix` counts the cells `verify` has been
  through, `Undisturbed` carries each receipt from its check to the candidate, and
  `Calm` says that a run behind which nothing changes compares equal things, from
  which `RejectsWithReason` follows. For `DescribedSources`, `Witness` says that
  the status `verify` has read was that of some checkout whose files lie between
  those of the manifest and those that are there (`StatesInv`: all of them are
  remembered); when the files are found to be the manifest's at the end, that
  checkout is the one the manifest describes. Only one invocation writes each file
  (`Writers`). The proof needs that the matrix is not empty and the two
  distributions have different names (`MatrixAssumption`).
* `ScriptProofs`, of `Harness`. `HInv` says where a session stands in its plan
  (`PlaceInv`), that it goes on only while no call has done wrong, although it
  sees no faults but what calls leave (`FaultInv`), and what the log holds: one
  good run for each logged call so far, in order (`Holding`). A log of two runs
  whose first was forged, or one that was replaced and refilled, passes no later
  call since the identifiers seen so far are those of the log before the call
  (`LogInv`). The log is one file for all sessions, so all this
  needs that at most one session of a script is past its first copy
  (`AloneInv`), which holds because the copy is made exclusively: the reason
  why `SessionAssumption` says that plans begin with one, as both scripts do. And
  it needs that no call changed the log unseen (`tampered`).
  Contents are parities, so a copy that is not of the fingerprinted fixtures
  proves a change, and fixtures that look the same at the end then prove a
  second one (`UsedInv`, lemma `Parity`).
* `ScriptProofs`, of `DocumentedExamples`. `ExamplesInv` says that what a run has
  completed, and what ran, are the blocks of the groups before the current one
  (`Done`), and follows sources, copy and fingerprints through the stages: a block
  that ran on other sources was preceded by a change of them (`ForeignInv`,
  `CopyInv`), and each closing look of a run that still passes found what was
  recorded, hence a second change (`ClosingInv`). The groups are built with `FlattenSeq`, a recursive function of the community
  modules. What it computes is proved by taking a least counterexample
  (`Least`, from the well-foundedness of `<` on the naturals): such a function
  exists (`FlattensExists`), any two agree as far as their arguments do
  (`FlattensAgree`), hence one more sequence appends to the result
  (`FlattenStep`). From this, `DoneNext` and `DoneAll` give what one more group
  adds and that all groups together are the selection. `DocumentsAssumption` says what
  `registered_blocks` checks: identifiers differ, every block belongs to a listed
  document, no Python block is delegated.

Model-checked only: liveness (`CallsEnd`, `SealsEnd`, `Terminates`, `RunsEnd`,
`SessionsEnd`, `RunEnds`), which is beyond the prover's temporal backend.

## 6. Not modelled, and why

Document parsing and shape validation, exporters' payloads, canonical JSON and
inspection keep no state and have no order of events; `PROJECT.json` lists each
with its reason. Symbolic links in pack directories are modelled; elsewhere
links, special files and path syntax are checks at the door of an operation; a
refused door is `Raise` or `AppendFails`. The Windows branches of the lock and
the rename make the same promises by other calls. A power failure (loss of
unsynced data) is not modelled; a kill is.

Left out of single modules:

* `PackCompile`: dynamic template references, which compilation skips; cycles of
  includes, which compile and fail when rendered (Jinja's recursion limit) if no
  condition in the template ends them.
* `Intake`: `Blank` stands for every text of whitespace, and for every flag with
  whitespace around it.
* `ReleaseCandidate`, `Harness`, `DocumentedExamples`: contents are version
  numbers. In `ReleaseCandidate` they never return to an earlier value, so a file
  that is changed and changed back between two looks is out of its reach; in the
  other two they are parities, so that a change and its reversal between two
  looks are visible to the properties but not to the scripts.
* `ReleaseCandidate`: the comparison of the source distribution's pyproject.toml
  and README with the checkout's (release_candidate.py:184-193), which only makes
  `prepare` refuse more.
* `Harness`: what the conformance calls do to a log, which that script never reads;
  a call whose output is looked at in part only counts as one that reads.
* `Harness`: that a virtual environment holds the artifact whose hash the receipt
  records; two sessions that write one receipt at the same moment are taken to
  leave one of the two whole.
* `DocumentedExamples`: the refusal of a full run inside a full run and of a work
  directory inside the checkout.

Limits of the code that the models made visible, and that the properties name as
conditions: `verify` does not look at sources again after it has begun to read
receipts, so `ReceiptsBound` is about candidates behind which nothing changed
(`late`); the first edit of a committed delivery record refuses a release,
since `git status` names it, and a manifest alone may describe a checkout that never
was; what a call without `--log-jsonl` does to the log is not looked at
(`tampered`); a `git` call that exceeds its limit in `finalize_execution` is not
caught, so such a run leaves no receipt (`GitTimeOut`); and the condition of
`RunEnds` above.

## 7. Plan

Done: `FreshOutput` with its abstract specification, `Seal`, `Derivation`,
`OutputPlan`, `OperationalLog`, `Assessment` with `Evidence`, `PackCompile`,
`Conditions` and `Calendar` with `Intake`, `ReleaseCandidate`, `Harness`,
`DocumentedExamples`.

Left:

1. `Lifecycle`: export, seal and log of several invocations composed over one
   directory and one lock, including what is logged after publication.
2. `TaskGraph`: edges of the task graph against the plan it is built from.
3. Theorems: the run properties are proved but for liveness; left are what
   `Assess` decides for one pack, said of `Assessment` alone, and the safety
   half of the progress arguments.
