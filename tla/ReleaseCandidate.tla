------------------------- MODULE ReleaseCandidate -------------------------
(***************************************************************************)
(* scripts/release_candidate.py: prepare binds one pair of distributions   *)
(* to the sources of a checkout, verify binds that pair to the receipts of *)
(* the acceptance matrix.  Both read files that an editor, a rebuild, a    *)
(* commit or a running job may change between any two reads, and publish   *)
(* one file that is never replaced.                                        *)
(*                                                                         *)
(* Contents are version numbers: a part of the sources that is edited, or  *)
(* a file that is rebuilt, never gets its earlier bytes back.  A hash is   *)
(* the content it identifies; an archive holds the version of the engine   *)
(* it was built from.                                                      *)
(***************************************************************************)
EXTENDS Naturals, Sequences

CONSTANTS PYTHONS,      \* interpreters of the matrix, in the order they are verified
          FullPython,   \* the one that runs every documented block ("3.12")
          Artifacts,    \* the pair, in the order it is inventoried
          Preparers, Verifiers,     \* invocations of the two operations
          MaxChanges    \* bound of the environment: edits, commits, rebuilds and job restarts

Pythons == {PYTHONS[i] : i \in DOMAIN PYTHONS}
Dists == {Artifacts[i] : i \in DOMAIN Artifacts}
Lock == "runtime-requirements"
Parts == {"engine", "fixtures", "harness", "records"}
Schemas == {"acceptance", "conformance"}
Runs == Preparers \cup Verifiers

ASSUME MatrixAssumption ==
    /\ PYTHONS \in Seq(Pythons) /\ PYTHONS # <<>>
    /\ Artifacts \in Seq(Dists) /\ Artifacts # <<>>
    /\ \A i, j \in DOMAIN Artifacts : Artifacts[i] = Artifacts[j] => i = j
    /\ FullPython \in Pythons /\ Lock \notin Dists
    /\ Preparers \cap Verifiers = {}
    /\ MaxChanges \in Nat

VARIABLES
    source,     \* Parts -> version in the working tree
    head,       \* [revision, parts]: what is committed
    changes,    \* edits, commits, rebuilds and job restarts so far
    dist,       \* Dists and Lock -> [build, engine]
    job,        \* Pythons -> [attempt, next]: the checks of one interpreter
    quality,    \* Pythons -> tests and documentation receipts
    installed,  \* Pythons x Dists x Schemas -> receipt
    manifest,   \* build-manifest.json
    candidate,  \* candidate.json
    pc,         \* Runs -> next step
    held,       \* Runs -> what the invocation holds in memory
    \* History, for the properties alone:
    states,     \* what the checkout was at some moment: revision, status and files
    late,       \* Runs -> were files or receipts changed behind its last look?
    calm        \* Runs -> was all in order at its start, and what it compares unchanged since?

world == <<source, head, dist, changes>>
receipts == <<job, quality, installed>>
memory == <<pc, held>>
history == <<states, late, calm>>
vars == <<world, receipts, manifest, candidate, memory, history>>

None == [kind |-> "none"]
Torn == [kind |-> "torn"]

-----------------------------------------------------------------------------
(* The checkout                                                            *)

\* git status names the paths that differ from the commit, not their bytes.
Status == {p \in Parts : source[p] # head.parts[p]}

\* Faulty: the mutable delivery records are hashed with the rest.
AllFiles == source
\* The delivery plan and the implementation status are not hashed.
Files == [p \in Parts \ {"records"} |-> source[p]]

Described == [revision |-> head.revision, status |-> Status]

\* What the checkout is at this moment, as source_state records it.
Checkout == [revision |-> head.revision, status |-> Status, files |-> Files]

-----------------------------------------------------------------------------
(* What the matrix leaves behind                                           *)

\* The checks of one interpreter in the order its job runs them.
Checks == <<<<"tests">>, <<"documentation">>>>
          \o [i \in 1..(2 * Len(Artifacts)) |->
                 <<IF i % 2 = 1 THEN "acceptance" ELSE "conformance", Artifacts[(i + 1) \div 2]>>]

\* A harness fingerprints its own script when it starts.
HarnessSeen == {source.harness} \cup {h \in 0..MaxChanges : h + 1 = source.harness}

DocumentationReceipts(p) ==
    [passed : {TRUE}, fixtures : {source.fixtures}, harness : {source.harness},
     files : {IF p = FullPython THEN Files ELSE <<>>}]

InstalledReceipts(p, a) ==
    [passed : {TRUE}, artifact : {dist[a]}, fixtures : {source.fixtures},
     harness : HarnessSeen, venv : {job[p].attempt}]

Failed == [passed |-> FALSE]

TestsHold(p) == quality[p].tests = "passed"

\* _quality_receipts for the interpreter p, against the live checkout.
QualityHolds(p) ==
    LET documentation == quality[p].documentation
    IN  /\ TestsHold(p)
        /\ documentation # None /\ documentation.passed
        /\ documentation.fixtures = source.fixtures
        /\ documentation.harness = source.harness
        /\ p = FullPython => documentation.files = Files

\* _require_receipt_identity, _require_artifact, _require_fixture and the harness.
ReceiptHolds(receipt, artifact) ==
    /\ receipt # None /\ receipt.passed
    /\ receipt.artifact = artifact
    /\ receipt.harness = source.harness
    /\ receipt.fixtures = source.fixtures

\* _installed_receipt: both receipts hold and come from one environment.
InstalledHolds(p, a, artifact) ==
    /\ \A s \in Schemas : ReceiptHolds(installed[<<p, a, s>>], artifact)
    /\ installed[<<p, a, "acceptance">>].venv = installed[<<p, a, "conformance">>].venv

-----------------------------------------------------------------------------
NoMemory == [at |-> 1, source |-> None, expected |-> 0, artifacts |-> <<>>, lock |-> None,
             manifest |-> None, named |-> None, quality |-> <<>>, installed |-> <<>>]

Init ==
    /\ source = [p \in Parts |-> 0]
    /\ head = [revision |-> 0, parts |-> source]
    /\ changes = 0
    /\ dist = [x \in Dists \cup {Lock} |-> [build |-> 0, engine |-> 0]]
    /\ job = [p \in Pythons |-> [attempt |-> 1, next |-> 1]]
    /\ quality = [p \in Pythons |-> [tests |-> "none", documentation |-> None]]
    /\ installed = [c \in Pythons \X Dists \X Schemas |-> None]
    /\ manifest = None /\ candidate = None
    /\ pc = [r \in Runs |-> "idle"]
    /\ held = [r \in Runs |-> NoMemory]
    /\ states = {Checkout}
    /\ late = [r \in Runs |-> FALSE]
    /\ calm = [r \in Runs |-> FALSE]

\* The steps of verify after its own look at the sources.
Binding == {"quality", "quality-record", "installed", "installed-record", "manifest",
            "create", "write"}

(* The environment                                                         *)

\* No file but the delivery records is edited in this step.
FilesStay == \A p \in Parts \ {"records"} : source'[p] = source[p]

\* Every step of the environment is recorded by what it changes, of what prepare and
\* verify compare.  git status names every path that differs, the delivery records
\* too: the first edit of a committed record changes what is compared, and only the
\* edit of one that differs already does not.
Witnessed ==
    /\ states' = states \cup {Checkout'}
    /\ late' = [r \in Runs |-> late[r] \/ (pc[r] \in Binding
                   /\ ~(FilesStay /\ <<quality, installed>>' = <<quality, installed>>))]
    /\ calm' = [r \in Runs |-> calm[r] /\ FilesStay
                   /\ <<Described, dist, quality, installed>>' = <<Described, dist, quality, installed>>]

Edit(p) ==
    /\ changes < MaxChanges /\ changes' = changes + 1
    /\ source' = [source EXCEPT ![p] = @ + 1]
    /\ UNCHANGED <<head, dist, receipts, manifest, candidate, memory>>
    /\ Witnessed

Commit ==
    /\ Status # {} /\ changes < MaxChanges /\ changes' = changes + 1
    /\ head' = [revision |-> head.revision + 1, parts |-> source]
    /\ UNCHANGED <<source, dist, receipts, manifest, candidate, memory>>
    /\ Witnessed

Rebuild(x) ==
    /\ changes < MaxChanges /\ changes' = changes + 1
    /\ dist' = [dist EXCEPT ![x] = [build |-> @.build + 1, engine |-> source.engine]]
    /\ UNCHANGED <<source, head, receipts, manifest, candidate, memory>>
    /\ Witnessed

\* The job of the interpreter p needs the build job; it runs its next check, and a
\* failure ends it.
RunCheck(p, passed) ==
    /\ manifest.kind = "manifest" /\ job[p].next \in 1..Len(Checks)
    /\ LET c == Checks[job[p].next]
       IN  CASE c[1] = "tests" ->
                  /\ quality' = [quality EXCEPT ![p].tests = IF passed THEN "passed" ELSE "failed"]
                  /\ UNCHANGED installed
             [] c[1] = "documentation" ->
                  /\ \E d \in IF passed THEN DocumentationReceipts(p) ELSE {Failed} :
                        quality' = [quality EXCEPT ![p].documentation = d]
                  /\ UNCHANGED installed
             [] OTHER ->
                  /\ \E d \in IF passed THEN InstalledReceipts(p, c[2]) ELSE {Failed} :
                        installed' = [installed EXCEPT ![<<p, c[2], c[1]>>] = d]
                  /\ UNCHANGED quality
    /\ job' = [job EXCEPT ![p].next = IF passed THEN @ + 1 ELSE Len(Checks) + 1]
    /\ UNCHANGED <<world, manifest, candidate, memory>>
    /\ Witnessed

\* The job is started again, in new environments.
Rerun(p) ==
    /\ job[p].next > Len(Checks) /\ changes < MaxChanges /\ changes' = changes + 1
    /\ job' = [job EXCEPT ![p] = [attempt |-> @.attempt + 1, next |-> 1]]
    /\ UNCHANGED <<source, head, dist, quality, installed, manifest, candidate, memory>>
    /\ Witnessed

-----------------------------------------------------------------------------
(* prepare and verify                                                      *)

Output(r) == IF r \in Preparers THEN manifest ELSE candidate

Goto(r, step) == pc' = [pc EXCEPT ![r] = step]
Forget(r) == held' = [held EXCEPT ![r] = NoMemory]
Reject(r) == Goto(r, "rejected") /\ Forget(r)

\* All that prepare compares agrees now; for verify, with the manifest and the matrix too.
InOrder(r) ==
    /\ \A a \in Dists : dist[a].engine = source.engine
    /\ r \in Verifiers =>
         /\ manifest.kind = "manifest"
         /\ manifest.source.files = Files
         /\ manifest.source.revision = head.revision /\ manifest.source.status = Status
         /\ manifest.lock = dist[Lock]
         /\ \A i \in DOMAIN Artifacts : manifest.artifacts[i] = dist[Artifacts[i]]
         /\ \A p \in Pythons : QualityHolds(p) /\ \A a \in Dists : InstalledHolds(p, a, dist[a])

Begin(r) ==
    /\ pc[r] = "idle"
    /\ IF Output(r) # None THEN Goto(r, "rejected")
       ELSE Goto(r, IF r \in Verifiers THEN "read" ELSE "revision")
    /\ calm' = [calm EXCEPT ![r] = Output(r) = None /\ InOrder(r)]
    /\ UNCHANGED <<world, receipts, manifest, candidate, held, states, late>>

\* verify reads the manifest; an absent or torn one is no JSON object.
ReadManifest(r) ==
    /\ pc[r] = "read"
    /\ IF manifest.kind = "manifest"
       THEN /\ held' = [held EXCEPT ![r].manifest = manifest]
            /\ Goto(r, "revision")
       ELSE Reject(r)

\* source_state, first call: git names the revision, in a second call the paths that
\* differ, and then the files are hashed.
ReadRevision(r) ==
    /\ pc[r] = "revision"
    /\ held' = [held EXCEPT ![r].source = [revision |-> head.revision]]
    /\ Goto(r, "status")

ReadStatus(r) ==
    /\ pc[r] = "status"
    /\ held' = [held EXCEPT ![r].source = [revision |-> @.revision, status |-> Status]]
    /\ Goto(r, "files")

ReadFiles(r) ==
    /\ pc[r] = "files"
    /\ held' = [held EXCEPT ![r].source = [revision |-> @.revision, status |-> @.status, files |-> Files]]
    /\ Goto(r, "expect")

\* distribution_inventory: the sources that both archives must hold.
ReadExpected(r) ==
    /\ pc[r] = "expect"
    /\ held' = [held EXCEPT ![r].expected = source.engine]
    /\ Goto(r, "hash")

\* One archive is hashed, and then opened: two reads of its path.
HashArtifact(r) ==
    /\ pc[r] = "hash"
    /\ held' = [held EXCEPT ![r].artifacts = Append(@, dist[Artifacts[held[r].at]])]
    /\ Goto(r, "open")

\* The source distribution must hold the checkout's pyproject.toml and README too:
\* that comparison only refuses more, and is left out.
OpenArtifact(r) ==
    /\ pc[r] = "open"
    /\ IF dist[Artifacts[held[r].at]].engine # held[r].expected THEN Reject(r)
       ELSE IF held[r].at < Len(Artifacts)
            THEN /\ held' = [held EXCEPT ![r].at = @ + 1]
                 /\ Goto(r, "hash")
            ELSE /\ held' = [held EXCEPT ![r].at = 1]
                 /\ Goto(r, "lock")

\* Faulty: the second look at the sources hashes the files and asks git nothing.
LockThenFiles(r) ==
    /\ pc[r] = "lock"
    /\ held' = [held EXCEPT ![r].lock = dist[Lock]]
    /\ Goto(r, "refiles")

HashLock(r) ==
    /\ pc[r] = "lock"
    /\ held' = [held EXCEPT ![r].lock = dist[Lock]]
    /\ Goto(r, "again")

\* source_state, second call: the sources must be as the first call found them.
RecheckRevision(r) ==
    /\ pc[r] = "again"
    /\ IF head.revision = held[r].source.revision
       THEN Goto(r, "restatus") /\ UNCHANGED held
       ELSE Reject(r)

RecheckStatus(r) ==
    /\ pc[r] = "restatus"
    /\ IF Status = held[r].source.status
       THEN Goto(r, "refiles") /\ UNCHANGED held
       ELSE Reject(r)

Prepared(r) == [kind |-> "manifest", source |-> held[r].source, artifacts |-> held[r].artifacts,
                lock |-> held[r].lock]

\* Faulty: verify takes the version of the manifest for its identity.
RecheckFilesOnly(r) ==
    /\ pc[r] = "refiles"
    /\ IF Files # held[r].source.files THEN Reject(r)
       ELSE /\ Goto(r, IF r \in Preparers THEN "create" ELSE "quality")
            /\ UNCHANGED held

\* verify goes on only if it has prepared exactly the manifest that it read.
RecheckFiles(r) ==
    /\ pc[r] = "refiles"
    /\ IF Files # held[r].source.files \/ (r \in Verifiers /\ Prepared(r) # held[r].manifest)
       THEN Reject(r)
       ELSE /\ Goto(r, IF r \in Preparers THEN "create" ELSE "quality")
            /\ UNCHANGED held

\* The receipts of one interpreter are checked, and then read again to be named.
CheckQuality(r) ==
    /\ pc[r] = "quality"
    /\ IF QualityHolds(PYTHONS[Len(held[r].quality) + 1])
       THEN Goto(r, "quality-record") /\ UNCHANGED held
       ELSE Reject(r)

RecordQuality(r) ==
    /\ pc[r] = "quality-record"
    /\ held' = [held EXCEPT ![r].quality = Append(@, quality[PYTHONS[Len(@) + 1]])]
    /\ Goto(r, "installed")

Python(r) == PYTHONS[Len(held[r].quality)]

CheckInstalled(r) ==
    /\ pc[r] = "installed"
    /\ IF InstalledHolds(Python(r), Artifacts[held[r].at], held[r].manifest.artifacts[held[r].at])
       THEN Goto(r, "installed-record") /\ UNCHANGED held
       ELSE Reject(r)

RecordInstalled(r) ==
    /\ pc[r] = "installed-record"
    /\ LET i == held[r].at
           last == i = Len(Artifacts)
       IN  /\ held' = [held EXCEPT
                         ![r].installed = Append(@, [python |-> Python(r), artifact |-> Artifacts[i],
                             receipts |-> [s \in Schemas |-> installed[<<Python(r), Artifacts[i], s>>]]]),
                         ![r].at = IF last THEN 1 ELSE @ + 1]
           /\ Goto(r, IF ~last THEN "installed"
                      ELSE IF Len(held[r].quality) < Len(PYTHONS) THEN "quality" ELSE "manifest")

\* The manifest is read again to be named in the candidate.
HashManifest(r) ==
    /\ pc[r] = "manifest"
    /\ held' = [held EXCEPT ![r].named = manifest]
    /\ Goto(r, "create")

\* write_new: the file is created exclusively, and then written.
Create(r) ==
    /\ pc[r] = "create"
    /\ IF Output(r) # None
       THEN Reject(r) /\ UNCHANGED <<manifest, candidate>>
       ELSE /\ IF r \in Preparers
               THEN manifest' = Torn /\ UNCHANGED candidate
               ELSE candidate' = Torn /\ UNCHANGED manifest
            /\ Goto(r, "write") /\ UNCHANGED held
    /\ UNCHANGED <<world, receipts, history>>

Candidate(r) ==
    [kind |-> "candidate", by |-> r, source |-> held[r].manifest.source,
     artifacts |-> held[r].manifest.artifacts, build_manifest |-> held[r].named,
     quality |-> held[r].quality, installed |-> held[r].installed]

Write(r) ==
    /\ pc[r] = "write"
    /\ IF r \in Preparers
       THEN manifest' = Prepared(r) /\ UNCHANGED candidate
       ELSE candidate' = Candidate(r) /\ UNCHANGED manifest
    /\ Goto(r, "done") /\ Forget(r)
    /\ UNCHANGED <<world, receipts, history>>

\* The invocation is killed while it writes.  Killed before, it leaves nothing, as
\* if it never took another step.
Crash(r) ==
    /\ pc[r] = "write"
    /\ Goto(r, "dead") /\ Forget(r)
    /\ UNCHANGED <<world, receipts, manifest, candidate, history>>

Look(r) ==
    /\ \/ ReadManifest(r) \/ ReadRevision(r) \/ ReadStatus(r) \/ ReadFiles(r)
       \/ ReadExpected(r) \/ HashArtifact(r) \/ OpenArtifact(r) \/ HashLock(r)
       \/ RecheckRevision(r) \/ RecheckStatus(r) \/ RecheckFiles(r)
       \/ CheckQuality(r) \/ RecordQuality(r) \/ CheckInstalled(r) \/ RecordInstalled(r)
       \/ HashManifest(r)
    /\ UNCHANGED <<world, receipts, manifest, candidate, history>>

Next ==
    \/ \E p \in Parts : Edit(p)
    \/ Commit
    \/ \E x \in Dists \cup {Lock} : Rebuild(x)
    \/ \E p \in Pythons : (\E passed \in BOOLEAN : RunCheck(p, passed)) \/ Rerun(p)
    \/ \E r \in Runs : Begin(r) \/ Look(r) \/ Create(r) \/ Write(r) \/ Crash(r)

Spec == Init /\ [][Next]_vars

-----------------------------------------------------------------------------
(* What a candidate promises                                               *)

\* Whatever changes while prepare and verify run, the certified pair holds the
\* certified sources of the engine, and every cell of the matrix was checked.
PairBound ==
    /\ \A i \in DOMAIN Artifacts : candidate.artifacts[i].engine = candidate.source.files.engine
    /\ {<<candidate.installed[i].python, candidate.installed[i].artifact>> :
            i \in DOMAIN candidate.installed} = Pythons \X Dists
    /\ candidate.build_manifest = [kind |-> "manifest", source |-> candidate.source,
            artifacts |-> candidate.artifacts, lock |-> candidate.build_manifest.lock]

\* If neither sources nor receipts changed behind the last look of verify, the
\* receipts that the candidate names passed, on the certified sources and bytes.
ReceiptsBound ==
    LET files == candidate.source.files
    IN  /\ \A i \in DOMAIN PYTHONS :
             LET d == candidate.quality[i].documentation
             IN  /\ candidate.quality[i].tests = "passed" /\ d.passed
                 /\ d.fixtures = files.fixtures /\ d.harness = files.harness
                 /\ PYTHONS[i] = FullPython => d.files = files
        /\ \A i \in DOMAIN candidate.installed, k \in DOMAIN Artifacts :
             candidate.installed[i].artifact = Artifacts[k] =>
               LET q == candidate.installed[i].receipts
               IN  /\ \A s \in Schemas :
                        /\ q[s].passed /\ q[s].artifact = candidate.artifacts[k]
                        /\ q[s].fixtures = files.fixtures /\ q[s].harness = files.harness
                   /\ q["acceptance"].venv = q["conformance"].venv

\* verify writes a candidate only for a pair that holds the described sources and
\* passed the whole matrix, on whatever schedule editors, builds and jobs ran.
CandidateBound ==
    candidate.kind = "candidate" =>
        PairBound /\ (~late[candidate.by] => ReceiptsBound)

\* An invocation that found everything in order, and behind which the commit, the
\* names of the paths that differ from it, the files, the distributions and the
\* receipts stayed as they were, is rejected only because another one wrote its output:
\* a delivery record that differs already may be edited again while it runs.
RejectsWithReason ==
    \A r \in Runs : pc[r] = "rejected" /\ calm[r] => Output(r) # None

\* Revision, status and files are read at different moments, twice.  A manifest alone
\* may therefore describe a checkout that never was: an edit behind the first status
\* and a commit before the second pass for a clean tree.  verify, which compares later
\* looks with the manifest, lets none of them pass: what a candidate names as its
\* source is what the checkout was at one moment.
DescribedSources ==
    candidate.kind = "candidate" => candidate.source \in states
=============================================================================
