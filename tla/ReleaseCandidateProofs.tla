------------------------ MODULE ReleaseCandidateProofs ------------------------
(***************************************************************************)
(* Proofs about ReleaseCandidate.  Versions only grow, so what an          *)
(* invocation has read is at most what is there, and a distribution that   *)
(* was replaced behind its hash stays different from it.  A manifest may   *)
(* therefore name a distribution that is already gone, and verify, which   *)
(* hashes after it has read the manifest, cannot meet that one again.      *)
(***************************************************************************)
EXTENDS ReleaseCandidate, SequenceTheorems, TLAPS

Hashed == Parts \ {"records"}
FileVersions == [Hashed -> Nat]
Builds == [build : Nat, engine : Nat]

Fields == {"at", "source", "expected", "artifacts", "lock", "manifest", "named", "quality", "installed"}
Looking == {"expect", "hash", "open", "lock", "again", "restatus", "refiles"}
Seen == Looking \cup Binding
OfVerify == {"read", "quality", "quality-record", "installed", "installed-record", "manifest"}
Going == {"read", "revision", "status", "files"} \cup Seen
Steps == {"idle", "rejected", "done", "dead"} \cup Going

Documentations ==
  {None, Failed} \cup [passed : {TRUE}, fixtures : Nat, harness : Nat, files : {<<>>} \cup FileVersions]
Qualities == [tests : {"none", "passed", "failed"}, documentation : Documentations]
Acceptances ==
  {None, Failed} \cup [passed : {TRUE}, artifact : Builds, fixtures : Nat, harness : Nat, venv : Nat]
Cells == [python : Pythons, artifact : Dists, receipts : [Schemas -> Acceptances]]

WorldOK ==
  /\ source \in [Parts -> Nat] /\ changes \in Nat
  /\ head = [revision |-> head.revision, parts |-> head.parts]
  /\ head.revision \in Nat /\ head.parts \in [Parts -> Nat]
  /\ \A p \in Parts : head.parts[p] <= source[p]
  /\ dist \in [Dists \cup {Lock} -> Builds]
  /\ \A x \in Dists \cup {Lock} : dist[x].engine <= source.engine

ReceiptsOK ==
  /\ job \in [Pythons -> [attempt : Nat, next : Nat]]
  /\ quality \in [Pythons -> Qualities]
  /\ installed \in [Pythons \X Dists \X Schemas -> Acceptances]

MemoryOK ==
  /\ pc \in [Runs -> Steps]
  /\ held = [r \in Runs |-> [f \in Fields |-> held[r][f]]]
  /\ late \in [Runs -> BOOLEAN] /\ calm \in [Runs -> BOOLEAN]

Typed == WorldOK /\ ReceiptsOK /\ MemoryOK

\* A described state of the sources.
State(s) == s = [revision |-> s.revision, status |-> s.status, files |-> s.files] /\ s.files \in FileVersions

\* The distribution i that was hashed is the one in the wheelhouse, or gone.
Grown(b, now) == b.build <= now.build /\ (b.build = now.build => b = now)

\* What is known of a run from its own reading.
Snapshot(r) ==
  pc[r] \in Seen =>
    /\ State(held[r].source)
    /\ \A p \in Hashed : held[r].source.files[p] <= source[p]

Expectation(r) ==
  /\ pc[r] \in Seen \ {"expect"} =>
       /\ held[r].expected \in Nat
       /\ held[r].source.files.engine <= held[r].expected /\ held[r].expected <= source.engine
  /\ pc[r] \in Binding => held[r].expected = held[r].source.files.engine

Position(r) ==
  /\ pc[r] = "idle" => held[r] = NoMemory
  /\ pc[r] \in {"read", "revision", "status", "files", "expect"} => held[r].artifacts = <<>> /\ held[r].at = 1
  /\ pc[r] = "hash" => held[r].at \in DOMAIN Artifacts /\ Len(held[r].artifacts) = held[r].at - 1
  /\ pc[r] = "open" => held[r].at \in DOMAIN Artifacts /\ Len(held[r].artifacts) = held[r].at
  /\ pc[r] \in Seen \ {"expect", "hash", "open"} => Len(held[r].artifacts) = Len(Artifacts)
  /\ pc[r] \in Looking \ {"hash", "open"} => held[r].at = 1

\* A hashed archive that was then opened holds the expected sources, or it was
\* replaced in between.
Hashes(r) ==
  pc[r] \in Going =>
    /\ held[r].artifacts \in Seq(Builds)
    /\ \A i \in DOMAIN held[r].artifacts :
         /\ i \in DOMAIN Artifacts
         /\ Grown(held[r].artifacts[i], dist[Artifacts[i]])
         /\ \/ pc[r] = "open" /\ i = held[r].at
            \/ held[r].artifacts[i].engine = held[r].expected
            \/ held[r].artifacts[i].build < dist[Artifacts[i]].build

\* verify hashes after it has read the manifest.
Reading(r) ==
  /\ r \in Preparers => pc[r] \notin OfVerify
  /\ r \in Verifiers /\ pc[r] \in Going \ {"read"} =>
       /\ manifest.kind = "manifest" /\ held[r].manifest = manifest
       /\ \A i \in DOMAIN held[r].artifacts :
            \/ manifest.artifacts[i].engine = manifest.source.files.engine
            \/ manifest.artifacts[i].build < held[r].artifacts[i].build
  /\ r \in Verifiers /\ pc[r] \in Binding => Prepared(r) = held[r].manifest
  /\ r \in Verifiers /\ pc[r] \in {"create", "write"} => held[r].named = held[r].manifest

Recorded(r, p, a) ==
  \E i \in DOMAIN held[r].installed : held[r].installed[i].python = p /\ held[r].installed[i].artifact = a

\* The cells of the matrix that verify has been through.
Matrix(r) ==
  /\ pc[r] \in Going => held[r].quality \in Seq(Qualities) /\ held[r].installed \in Seq(Cells)
  /\ pc[r] \in {"read", "revision", "status", "files"} \cup Looking => held[r].quality = <<>> /\ held[r].installed = <<>>
  /\ r \in Verifiers /\ pc[r] \in Binding =>
       /\ Len(held[r].quality) <= Len(PYTHONS)
       /\ pc[r] \in {"quality", "quality-record"} => Len(held[r].quality) < Len(PYTHONS) /\ held[r].at = 1
       /\ pc[r] \in {"installed", "installed-record"} =>
            /\ Len(held[r].quality) > 0 /\ held[r].at \in DOMAIN Artifacts
            /\ \A k \in 1 .. held[r].at - 1 : Recorded(r, Python(r), Artifacts[k])
       /\ pc[r] \in {"manifest", "create", "write"} => Len(held[r].quality) = Len(PYTHONS)
       /\ \A j \in 1 .. Len(held[r].quality) : \A a \in Dists :
            \/ pc[r] \in {"installed", "installed-record"} /\ j = Len(held[r].quality)
            \/ Recorded(r, PYTHONS[j], a)

RunInv(r) == Snapshot(r) /\ Expectation(r) /\ Position(r) /\ Hashes(r) /\ Reading(r) /\ Matrix(r)

\* Receipts that bind, whatever the checkout has become.
QualityBound(q, p, files) ==
  /\ q.tests = "passed" /\ q.documentation.passed
  /\ q.documentation.fixtures = files.fixtures /\ q.documentation.harness = files.harness
  /\ p = FullPython => q.documentation.files = files

InstalledBound(q, artifact, files) ==
  /\ \A s \in Schemas : /\ q[s].passed /\ q[s].artifact = artifact
                        /\ q[s].fixtures = files.fixtures /\ q[s].harness = files.harness
  /\ q["acceptance"].venv = q["conformance"].venv

Undisturbed(r) ==
  r \in Verifiers /\ pc[r] \in Binding /\ ~late[r] =>
    /\ Files = held[r].manifest.source.files
    /\ pc[r] = "quality-record" => QualityHolds(PYTHONS[Len(held[r].quality) + 1])
    /\ pc[r] = "installed-record" =>
         InstalledHolds(Python(r), Artifacts[held[r].at], held[r].manifest.artifacts[held[r].at])
    /\ \A i \in DOMAIN held[r].quality :
         QualityBound(held[r].quality[i], PYTHONS[i], held[r].manifest.source.files)
    /\ \A i \in DOMAIN held[r].installed, k \in DOMAIN Artifacts :
         held[r].installed[i].artifact = Artifacts[k] =>
           InstalledBound(held[r].installed[i].receipts, held[r].manifest.artifacts[k],
                          held[r].manifest.source.files)

\* In a calm run everything read is still there.
Calm(r) ==
  calm[r] /\ pc[r] \in Going =>
    /\ InOrder(r)
    /\ pc[r] = "status" => held[r].source = [revision |-> head.revision]
    /\ pc[r] = "files" => held[r].source = Described
    /\ pc[r] \in Seen => held[r].source = [revision |-> head.revision, status |-> Status, files |-> Files]
    /\ pc[r] \in Looking \ {"expect"} => held[r].expected = source.engine
    /\ pc[r] \in Looking => \A i \in DOMAIN held[r].artifacts : held[r].artifacts[i] = dist[Artifacts[i]]
    /\ pc[r] \in {"again", "restatus", "refiles"} => held[r].lock = dist[Lock]

ManifestInv ==
  \/ manifest \in {None, Torn}
  \/ /\ manifest = [kind |-> "manifest", source |-> manifest.source, artifacts |-> manifest.artifacts,
                    lock |-> manifest.lock]
     /\ State(manifest.source) /\ \A p \in Hashed : manifest.source.files[p] <= source[p]
     /\ manifest.artifacts \in Seq(Builds) /\ Len(manifest.artifacts) = Len(Artifacts)
     /\ \A i \in DOMAIN Artifacts :
          \/ manifest.artifacts[i].engine = manifest.source.files.engine
          \/ manifest.artifacts[i].build < dist[Artifacts[i]].build

\* Only one invocation of a kind gets to write.
Writers ==
  /\ \A r \in Runs : pc[r] = "write" => Output(r) = Torn
  /\ \A q, r \in Runs : pc[q] = "write" /\ pc[r] = "write" /\ (q \in Preparers <=> r \in Preparers) => q = r

CandidateInv ==
  /\ candidate.kind = "candidate" => candidate.by \in Verifiers /\ pc[candidate.by] = "done"
  /\ CandidateBound

BindingInv ==
  /\ Typed /\ ManifestInv /\ Writers
  /\ \A r \in Runs : RunInv(r) /\ Undisturbed(r)
  /\ CandidateInv

CalmInv == RejectsWithReason /\ \A r \in Runs : Calm(r)

\* When verify asked git for the status, the files were already those of the manifest,
\* if the rest of its looks finds them so, and the revision the one it named before, if
\* it names it again.
Witness(r) ==
  /\ pc[r] \in {"status", "files"} \cup Looking =>
       held[r].source.revision \in Nat /\ held[r].source.revision <= head.revision
  /\ r \in Verifiers /\ pc[r] \in {"files"} \cup Looking =>
       \E s \in states :
         /\ s.status = held[r].source.status
         /\ held[r].source.revision <= s.revision /\ s.revision <= head.revision
         /\ pc[r] \in {"restatus", "refiles"} => s.revision = held[r].source.revision
         /\ \A p \in Hashed : manifest.source.files[p] <= s.files[p] /\ s.files[p] <= source[p]
  /\ r \in Verifiers /\ pc[r] \in Binding => held[r].source \in states

\* Everything that the checkout was, and every state was the checkout.
StatesInv == Checkout \in states /\ \A s \in states : State(s) /\ s.revision \in Nat

SourceInv == StatesInv /\ (\A r \in Runs : Witness(r)) /\ DescribedSources

IInv == BindingInv /\ CalmInv /\ SourceInv

-----------------------------------------------------------------------------
(* What the steps of an invocation change *)

Others(r) == \A q \in Runs \ {r} : pc'[q] = pc[q] /\ held'[q] = held[q]
Moved(r, step) == pc'[r] = step /\ Others(r)
Keeps(r, changed) == \A f \in Fields \ changed : held'[r][f] = held[r][f]
StillHeld == pc' \in [Runs -> Steps] /\ held' = [r \in Runs |-> [f \in Fields |-> held'[r][f]]]

\* A run that is rejected keeps nothing.
Dropped(r) == StillHeld /\ Moved(r, "rejected") /\ held'[r] = NoMemory

LEMMA RejectMeans ==
  ASSUME MemoryOK, NEW r \in Runs, Reject(r)
  PROVE  Dropped(r)
  BY DEF MemoryOK, Reject, Forget, Goto, NoMemory, Dropped, Others, Moved, StillHeld, Fields, Steps

\* A step that replaces one field of what a run holds.
LEMMA Advances ==
  ASSUME MemoryOK, NEW r \in Runs, NEW step \in Steps, NEW f \in Fields, NEW v,
         pc' = [pc EXCEPT ![r] = step], held' = [held EXCEPT ![r][f] = v]
  PROVE  StillHeld /\ Moved(r, step) /\ Keeps(r, {f}) /\ held'[r][f] = v
  <1>1. pc' \in [Runs -> Steps] /\ pc'[r] = step /\ \A q \in Runs \ {r} : pc'[q] = pc[q]
    BY DEF MemoryOK
  <1>2. \A q \in Runs \ {r} : held'[q] = held[q]
    BY DEF MemoryOK
  <1>3. held'[r] = [g \in Fields |-> IF g = f THEN v ELSE held[r][g]]
    BY DEF MemoryOK
  <1>4. held' = [q \in Runs |-> [g \in Fields |-> held'[q][g]]]
    BY <1>2, <1>3 DEF MemoryOK
  <1> QED BY <1>1, <1>2, <1>3, <1>4 DEF StillHeld, Moved, Others, Keeps

LEMMA ReadRevisionMeans ==
  ASSUME MemoryOK, NEW r \in Runs, ReadRevision(r)
  PROVE  /\ StillHeld /\ Moved(r, "status") /\ pc[r] = "revision" /\ Keeps(r, {"source"})
         /\ held'[r].source = [revision |-> head.revision]
  <1> DEFINE new == [revision |-> head.revision]
  <1>1. /\ pc[r] = "revision" /\ pc' = [pc EXCEPT ![r] = "status"]
        /\ held' = [held EXCEPT ![r]["source"] = new]
    BY DEF ReadRevision, Goto
  <1>2. "status" \in Steps /\ "source" \in Fields
    BY DEF Steps, Going, Seen, Looking, Binding, Fields
  <1> HIDE DEF new
  <1>3. StillHeld /\ Moved(r, "status") /\ Keeps(r, {"source"}) /\ held'[r]["source"] = new
    BY <1>1, <1>2, Advances
  <1> QED BY <1>1, <1>3 DEF new

LEMMA ReadStatusMeans ==
  ASSUME MemoryOK, NEW r \in Runs, ReadStatus(r)
  PROVE  /\ StillHeld /\ Moved(r, "files") /\ pc[r] = "status" /\ Keeps(r, {"source"})
         /\ held'[r].source = [revision |-> held[r].source.revision, status |-> Status]
  <1> DEFINE new == [revision |-> held[r].source.revision, status |-> Status]
  <1>1. /\ pc[r] = "status" /\ pc' = [pc EXCEPT ![r] = "files"]
        /\ held' = [held EXCEPT ![r]["source"] = new]
    BY DEF ReadStatus, Goto
  <1>2. "files" \in Steps /\ "source" \in Fields
    BY DEF Steps, Going, Seen, Looking, Binding, Fields
  <1> HIDE DEF new
  <1>3. StillHeld /\ Moved(r, "files") /\ Keeps(r, {"source"}) /\ held'[r]["source"] = new
    BY <1>1, <1>2, Advances
  <1> QED BY <1>1, <1>3 DEF new

LEMMA ReadFilesMeans ==
  ASSUME MemoryOK, NEW r \in Runs, ReadFiles(r)
  PROVE  /\ StillHeld /\ Moved(r, "expect") /\ pc[r] = "files" /\ Keeps(r, {"source"})
         /\ held'[r].source = [revision |-> held[r].source.revision, status |-> held[r].source.status, files |-> Files]
  <1> DEFINE new == [revision |-> held[r].source.revision, status |-> held[r].source.status, files |-> Files]
  <1>1. /\ pc[r] = "files" /\ pc' = [pc EXCEPT ![r] = "expect"]
        /\ held' = [held EXCEPT ![r]["source"] = new]
    BY DEF ReadFiles, Goto
  <1>2. "expect" \in Steps /\ "source" \in Fields
    BY DEF Steps, Going, Seen, Looking, Binding, Fields
  <1> HIDE DEF new
  <1>3. StillHeld /\ Moved(r, "expect") /\ Keeps(r, {"source"}) /\ held'[r]["source"] = new
    BY <1>1, <1>2, Advances
  <1> QED BY <1>1, <1>3 DEF new

LEMMA ReadExpectedMeans ==
  ASSUME MemoryOK, NEW r \in Runs, ReadExpected(r)
  PROVE  /\ StillHeld /\ Moved(r, "hash") /\ pc[r] = "expect" /\ Keeps(r, {"expected"})
         /\ held'[r].expected = source.engine
  <1> DEFINE new == source.engine
  <1>1. /\ pc[r] = "expect" /\ pc' = [pc EXCEPT ![r] = "hash"]
        /\ held' = [held EXCEPT ![r]["expected"] = new]
    BY DEF ReadExpected, Goto
  <1>2. "hash" \in Steps /\ "expected" \in Fields
    BY DEF Steps, Going, Seen, Looking, Binding, Fields
  <1> HIDE DEF new
  <1>3. StillHeld /\ Moved(r, "hash") /\ Keeps(r, {"expected"}) /\ held'[r]["expected"] = new
    BY <1>1, <1>2, Advances
  <1> QED BY <1>1, <1>3 DEF new

LEMMA HashArtifactMeans ==
  ASSUME MemoryOK, NEW r \in Runs, HashArtifact(r)
  PROVE  /\ StillHeld /\ Moved(r, "open") /\ pc[r] = "hash" /\ Keeps(r, {"artifacts"})
         /\ held'[r].artifacts = Append(held[r].artifacts, dist[Artifacts[held[r].at]])
  <1> DEFINE new == Append(held[r].artifacts, dist[Artifacts[held[r].at]])
  <1>1. /\ pc[r] = "hash" /\ pc' = [pc EXCEPT ![r] = "open"]
        /\ held' = [held EXCEPT ![r]["artifacts"] = new]
    BY DEF HashArtifact, Goto
  <1>2. "open" \in Steps /\ "artifacts" \in Fields
    BY DEF Steps, Going, Seen, Looking, Binding, Fields
  <1> HIDE DEF new
  <1>3. StillHeld /\ Moved(r, "open") /\ Keeps(r, {"artifacts"}) /\ held'[r]["artifacts"] = new
    BY <1>1, <1>2, Advances
  <1> QED BY <1>1, <1>3 DEF new

LEMMA HashLockMeans ==
  ASSUME MemoryOK, NEW r \in Runs, HashLock(r)
  PROVE  /\ StillHeld /\ Moved(r, "again") /\ pc[r] = "lock" /\ Keeps(r, {"lock"})
         /\ held'[r].lock = dist[Lock]
  <1> DEFINE new == dist[Lock]
  <1>1. /\ pc[r] = "lock" /\ pc' = [pc EXCEPT ![r] = "again"]
        /\ held' = [held EXCEPT ![r]["lock"] = new]
    BY DEF HashLock, Goto
  <1>2. "again" \in Steps /\ "lock" \in Fields
    BY DEF Steps, Going, Seen, Looking, Binding, Fields
  <1> HIDE DEF new
  <1>3. StillHeld /\ Moved(r, "again") /\ Keeps(r, {"lock"}) /\ held'[r]["lock"] = new
    BY <1>1, <1>2, Advances
  <1> QED BY <1>1, <1>3 DEF new

LEMMA RecordQualityMeans ==
  ASSUME MemoryOK, NEW r \in Runs, RecordQuality(r)
  PROVE  /\ StillHeld /\ Moved(r, "installed") /\ pc[r] = "quality-record" /\ Keeps(r, {"quality"})
         /\ held'[r].quality = Append(held[r].quality, quality[PYTHONS[Len(held[r].quality) + 1]])
  <1> DEFINE new == Append(held[r].quality, quality[PYTHONS[Len(held[r].quality) + 1]])
  <1>1. /\ pc[r] = "quality-record" /\ pc' = [pc EXCEPT ![r] = "installed"]
        /\ held' = [held EXCEPT ![r]["quality"] = new]
    BY DEF RecordQuality, Goto
  <1>2. "installed" \in Steps /\ "quality" \in Fields
    BY DEF Steps, Going, Seen, Looking, Binding, Fields
  <1> HIDE DEF new
  <1>3. StillHeld /\ Moved(r, "installed") /\ Keeps(r, {"quality"}) /\ held'[r]["quality"] = new
    BY <1>1, <1>2, Advances
  <1> QED BY <1>1, <1>3 DEF new

LEMMA HashManifestMeans ==
  ASSUME MemoryOK, NEW r \in Runs, HashManifest(r)
  PROVE  /\ StillHeld /\ Moved(r, "create") /\ pc[r] = "manifest" /\ Keeps(r, {"named"})
         /\ held'[r].named = manifest
  <1> DEFINE new == manifest
  <1>1. /\ pc[r] = "manifest" /\ pc' = [pc EXCEPT ![r] = "create"]
        /\ held' = [held EXCEPT ![r]["named"] = new]
    BY DEF HashManifest, Goto
  <1>2. "create" \in Steps /\ "named" \in Fields
    BY DEF Steps, Going, Seen, Looking, Binding, Fields
  <1> HIDE DEF new
  <1>3. StillHeld /\ Moved(r, "create") /\ Keeps(r, {"named"}) /\ held'[r]["named"] = new
    BY <1>1, <1>2, Advances
  <1> QED BY <1>1, <1>3 DEF new

LEMMA ReadManifestMeans ==
  ASSUME MemoryOK, NEW r \in Runs, ReadManifest(r)
  PROVE  /\ pc[r] = "read"
         /\ \/ manifest.kind # "manifest" /\ Dropped(r)
            \/ /\ manifest.kind = "manifest" /\ StillHeld /\ Moved(r, "revision")
               /\ Keeps(r, {"manifest"}) /\ held'[r].manifest = manifest
  <1>1. CASE manifest.kind = "manifest"
    BY <1>1 DEF ReadManifest, MemoryOK, Goto, Others, Moved, Keeps, StillHeld, Fields, Steps, Going, Seen, Looking, Binding
  <1>2. CASE manifest.kind # "manifest"
    BY <1>2, RejectMeans DEF ReadManifest
  <1> QED BY <1>1, <1>2

LEMMA OpenArtifactMeans ==
  ASSUME MemoryOK, NEW r \in Runs, OpenArtifact(r)
  PROVE  /\ pc[r] = "open"
         /\ \/ dist[Artifacts[held[r].at]].engine # held[r].expected /\ Dropped(r)
            \/ /\ dist[Artifacts[held[r].at]].engine = held[r].expected
               /\ StillHeld /\ Keeps(r, {"at"})
               /\ \/ held[r].at < Len(Artifacts) /\ Moved(r, "hash") /\ held'[r].at = held[r].at + 1
                  \/ ~(held[r].at < Len(Artifacts)) /\ Moved(r, "lock") /\ held'[r].at = 1
  <1>1. CASE dist[Artifacts[held[r].at]].engine # held[r].expected
    BY <1>1, RejectMeans DEF OpenArtifact
  <1>2. CASE dist[Artifacts[held[r].at]].engine = held[r].expected /\ held[r].at < Len(Artifacts)
    BY <1>2 DEF OpenArtifact, MemoryOK, Goto, Others, Moved, Keeps, StillHeld, Fields, Steps, Going, Seen, Looking, Binding
  <1>3. CASE dist[Artifacts[held[r].at]].engine = held[r].expected /\ ~(held[r].at < Len(Artifacts))
    BY <1>3 DEF OpenArtifact, MemoryOK, Goto, Others, Moved, Keeps, StillHeld, Fields, Steps, Going, Seen, Looking, Binding
  <1> QED BY <1>1, <1>2, <1>3

LEMMA RecheckRevisionMeans ==
  ASSUME MemoryOK, NEW r \in Runs, RecheckRevision(r)
  PROVE  /\ pc[r] = "again"
         /\ \/ head.revision # held[r].source.revision /\ Dropped(r)
            \/ head.revision = held[r].source.revision /\ StillHeld /\ Moved(r, "restatus") /\ Keeps(r, {})
  <1>1. CASE head.revision = held[r].source.revision
    <2>1. pc[r] = "again" /\ pc' = [pc EXCEPT ![r] = "restatus"] /\ held' = held
      BY <1>1 DEF RecheckRevision, Goto
    <2> QED BY <1>1, <2>1 DEF MemoryOK, Others, Moved, Keeps, StillHeld, Fields, Steps, Going, Seen, Looking, Binding
  <1>2. CASE head.revision # held[r].source.revision
    BY <1>2, RejectMeans DEF RecheckRevision
  <1> QED BY <1>1, <1>2

LEMMA RecheckStatusMeans ==
  ASSUME MemoryOK, NEW r \in Runs, RecheckStatus(r)
  PROVE  /\ pc[r] = "restatus"
         /\ \/ Status # held[r].source.status /\ Dropped(r)
            \/ Status = held[r].source.status /\ StillHeld /\ Moved(r, "refiles") /\ Keeps(r, {})
  <1>1. CASE Status = held[r].source.status
    <2>1. pc[r] = "restatus" /\ pc' = [pc EXCEPT ![r] = "refiles"] /\ held' = held
      BY <1>1 DEF RecheckStatus, Goto
    <2> QED BY <1>1, <2>1 DEF MemoryOK, Others, Moved, Keeps, StillHeld, Fields, Steps, Going, Seen, Looking, Binding
  <1>2. CASE Status # held[r].source.status
    BY <1>2, RejectMeans DEF RecheckStatus
  <1> QED BY <1>1, <1>2

LEMMA RecheckFilesMeans ==
  ASSUME MemoryOK, NEW r \in Runs, RecheckFiles(r)
  PROVE  /\ pc[r] = "refiles"
         /\ \/ /\ Files # held[r].source.files \/ (r \in Verifiers /\ Prepared(r) # held[r].manifest)
               /\ Dropped(r)
            \/ /\ Files = held[r].source.files /\ (r \in Verifiers => Prepared(r) = held[r].manifest)
               /\ StillHeld /\ Moved(r, IF r \in Preparers THEN "create" ELSE "quality") /\ Keeps(r, {})
  <1>1. CASE Files # held[r].source.files \/ (r \in Verifiers /\ Prepared(r) # held[r].manifest)
    BY <1>1, RejectMeans DEF RecheckFiles
  <1>2. CASE Files = held[r].source.files /\ (r \in Verifiers => Prepared(r) = held[r].manifest)
    <2>1. pc[r] = "refiles" /\ held' = held
          /\ pc' = [pc EXCEPT ![r] = IF r \in Preparers THEN "create" ELSE "quality"]
      BY <1>2 DEF RecheckFiles, Goto
    <2> HIDE <1>2
    <2>2. StillHeld /\ Moved(r, IF r \in Preparers THEN "create" ELSE "quality") /\ Keeps(r, {})
      BY <2>1 DEF MemoryOK, Goto, Others, Moved, Keeps, StillHeld, Fields, Steps, Going, Seen, Looking, Binding
    <2> QED BY <1>2, <2>1, <2>2
  <1> QED BY <1>1, <1>2

LEMMA CheckQualityMeans ==
  ASSUME MemoryOK, NEW r \in Runs, CheckQuality(r)
  PROVE  /\ pc[r] = "quality"
         /\ \/ ~QualityHolds(PYTHONS[Len(held[r].quality) + 1]) /\ Dropped(r)
            \/ /\ QualityHolds(PYTHONS[Len(held[r].quality) + 1])
               /\ StillHeld /\ Moved(r, "quality-record") /\ Keeps(r, {})
  <1>1. CASE QualityHolds(PYTHONS[Len(held[r].quality) + 1])
    <2>1. pc[r] = "quality" /\ held' = held /\ pc' = [pc EXCEPT ![r] = "quality-record"]
      BY <1>1 DEF CheckQuality, Goto
    <2> QED BY <1>1, <2>1 DEF MemoryOK, Goto, Others, Moved, Keeps, StillHeld, Fields, Steps, Going, Seen, Looking, Binding
  <1>2. CASE ~QualityHolds(PYTHONS[Len(held[r].quality) + 1])
    BY <1>2, RejectMeans DEF CheckQuality
  <1> QED BY <1>1, <1>2

LEMMA CheckInstalledMeans ==
  ASSUME MemoryOK, NEW r \in Runs, CheckInstalled(r)
  PROVE  /\ pc[r] = "installed"
         /\ \/ /\ ~InstalledHolds(Python(r), Artifacts[held[r].at], held[r].manifest.artifacts[held[r].at])
               /\ Dropped(r)
            \/ /\ InstalledHolds(Python(r), Artifacts[held[r].at], held[r].manifest.artifacts[held[r].at])
               /\ StillHeld /\ Moved(r, "installed-record") /\ Keeps(r, {})
  <1>1. CASE InstalledHolds(Python(r), Artifacts[held[r].at], held[r].manifest.artifacts[held[r].at])
    <2>1. pc[r] = "installed" /\ held' = held /\ pc' = [pc EXCEPT ![r] = "installed-record"]
      BY <1>1 DEF CheckInstalled, Goto
    <2> QED BY <1>1, <2>1 DEF MemoryOK, Goto, Others, Moved, Keeps, StillHeld, Fields, Steps, Going, Seen, Looking, Binding
  <1>2. CASE ~InstalledHolds(Python(r), Artifacts[held[r].at], held[r].manifest.artifacts[held[r].at])
    BY <1>2, RejectMeans DEF CheckInstalled
  <1> QED BY <1>1, <1>2

LEMMA RecordInstalledMeans ==
  ASSUME MemoryOK, NEW r \in Runs, RecordInstalled(r)
  PROVE  /\ pc[r] = "installed-record" /\ StillHeld /\ Keeps(r, {"installed", "at"})
         /\ held'[r].installed =
              Append(held[r].installed,
                     [python |-> Python(r), artifact |-> Artifacts[held[r].at],
                      receipts |-> [s \in Schemas |-> installed[<<Python(r), Artifacts[held[r].at], s>>]]])
         /\ \/ held[r].at # Len(Artifacts) /\ Moved(r, "installed") /\ held'[r].at = held[r].at + 1
            \/ /\ held[r].at = Len(Artifacts) /\ held'[r].at = 1
               /\ Len(held[r].quality) < Len(PYTHONS) /\ Moved(r, "quality")
            \/ /\ held[r].at = Len(Artifacts) /\ held'[r].at = 1
               /\ ~(Len(held[r].quality) < Len(PYTHONS)) /\ Moved(r, "manifest")
  <1> DEFINE record == [python |-> Python(r), artifact |-> Artifacts[held[r].at],
                        receipts |-> [s \in Schemas |-> installed[<<Python(r), Artifacts[held[r].at], s>>]]]
             next == IF held[r].at # Len(Artifacts) THEN "installed"
                     ELSE IF Len(held[r].quality) < Len(PYTHONS) THEN "quality" ELSE "manifest"
             position == IF held[r].at = Len(Artifacts) THEN 1 ELSE held[r].at + 1
  <1>1. /\ pc[r] = "installed-record" /\ pc' = [pc EXCEPT ![r] = next]
        /\ held' = [held EXCEPT ![r].installed = Append(held[r].installed, record), ![r].at = position]
    BY DEF RecordInstalled, Goto
  <1>2. next \in {"installed", "quality", "manifest"}
    OBVIOUS
  <1> HIDE DEF record, next, position
  <1>3. held' = [held EXCEPT ![r] = [held[r] EXCEPT !.installed = Append(held[r].installed, record),
                                                    !.at = position]]
    BY <1>1
  <1>4. held[r] = [f \in Fields |-> held[r][f]]
    BY DEF MemoryOK
  <1>5. held'[r] = [f \in Fields |-> IF f = "installed" THEN Append(held[r].installed, record)
                                     ELSE IF f = "at" THEN position ELSE held[r][f]]
    BY <1>3, <1>4 DEF MemoryOK, Fields
  <1>6. \A q \in Runs \ {r} : held'[q] = held[q]
    BY <1>3 DEF MemoryOK
  <1>7. /\ Keeps(r, {"installed", "at"})
        /\ held'[r].installed = Append(held[r].installed, record) /\ held'[r].at = position
    BY <1>5 DEF Keeps, Fields
  <1>8. DOMAIN held' = Runs /\ held' = [q \in Runs |-> held'[q]]
    BY <1>3 DEF MemoryOK
  <1>9. held' = [q \in Runs |-> [f \in Fields |-> held'[q][f]]]
    BY <1>5, <1>6, <1>8 DEF MemoryOK
  <1>10. pc' \in [Runs -> Steps] /\ pc'[r] = next /\ \A q \in Runs \ {r} : pc'[q] = pc[q]
    BY <1>1, <1>2 DEF MemoryOK, Steps, Going, Seen, Looking, Binding
  <1> QED BY <1>1, <1>6, <1>7, <1>9, <1>10 DEF StillHeld, Others, Moved, record, next, position

LEMMA BeginMeans ==
  ASSUME MemoryOK, NEW r \in Runs, Begin(r)
  PROVE  /\ pc[r] = "idle" /\ held' = held /\ StillHeld
         /\ \/ Output(r) # None /\ Moved(r, "rejected")
            \/ Output(r) = None /\ Moved(r, IF r \in Verifiers THEN "read" ELSE "revision")
  <1>1. pc[r] = "idle" /\ held' = held
    BY DEF Begin
  <1>2. CASE Output(r) # None
    <2>1. pc' = [pc EXCEPT ![r] = "rejected"]
      BY <1>2 DEF Begin, Goto
    <2> QED BY <1>1, <1>2, <2>1 DEF MemoryOK, StillHeld, Others, Moved, Steps
  <1>3. CASE Output(r) = None
    <2>1. pc' = [pc EXCEPT ![r] = IF r \in Verifiers THEN "read" ELSE "revision"]
      BY <1>3 DEF Begin, Goto
    <2> QED BY <1>1, <1>3, <2>1 DEF MemoryOK, StillHeld, Others, Moved, Steps, Going
  <1> QED BY <1>2, <1>3

LEMMA CreateMeans ==
  ASSUME MemoryOK, NEW r \in Runs, Create(r)
  PROVE  /\ pc[r] = "create" /\ StillHeld /\ UNCHANGED <<world, receipts, states, late, calm>>
         /\ \/ Output(r) # None /\ Dropped(r) /\ UNCHANGED <<manifest, candidate>>
            \/ /\ Output(r) = None /\ held' = held /\ Moved(r, "write")
               /\ IF r \in Preparers THEN manifest' = Torn /\ UNCHANGED candidate
                                     ELSE candidate' = Torn /\ UNCHANGED manifest
  <1>1. CASE Output(r) # None
    BY <1>1, RejectMeans DEF Create, Dropped, history
  <1>2. CASE Output(r) = None
    <2>1. pc[r] = "create" /\ held' = held /\ pc' = [pc EXCEPT ![r] = "write"]
      BY <1>2 DEF Create, Goto
    <2>2. StillHeld /\ Moved(r, "write")
      BY <2>1 DEF MemoryOK, StillHeld, Others, Moved, Steps, Going, Seen, Binding
    <2> QED BY <1>2, <2>1, <2>2 DEF Create, history
  <1> QED BY <1>1, <1>2

LEMMA WriteMeans ==
  ASSUME MemoryOK, NEW r \in Runs, Write(r)
  PROVE  /\ pc[r] = "write" /\ StillHeld /\ Moved(r, "done") /\ held'[r] = NoMemory
         /\ UNCHANGED <<world, receipts, states, late, calm>>
         /\ IF r \in Preparers THEN manifest' = Prepared(r) /\ UNCHANGED candidate
                               ELSE candidate' = Candidate(r) /\ UNCHANGED manifest
  <1>1. pc[r] = "write" /\ pc' = [pc EXCEPT ![r] = "done"] /\ held' = [held EXCEPT ![r] = NoMemory]
    BY DEF Write, Goto, Forget
  <1>2. StillHeld /\ Moved(r, "done") /\ held'[r] = NoMemory
    BY <1>1 DEF MemoryOK, StillHeld, Others, Moved, Steps, NoMemory, Fields
  <1> QED BY <1>1, <1>2 DEF Write, history

LEMMA CrashMeans ==
  ASSUME MemoryOK, NEW r \in Runs, Crash(r)
  PROVE  /\ pc[r] = "write" /\ StillHeld /\ Moved(r, "dead") /\ held'[r] = NoMemory
         /\ UNCHANGED <<world, receipts, manifest, candidate, states, late, calm>>
  <1>1. pc[r] = "write" /\ pc' = [pc EXCEPT ![r] = "dead"] /\ held' = [held EXCEPT ![r] = NoMemory]
    BY DEF Crash, Goto, Forget
  <1>2. StillHeld /\ Moved(r, "dead") /\ held'[r] = NoMemory
    BY <1>1 DEF MemoryOK, StillHeld, Others, Moved, Steps, NoMemory, Fields
  <1> QED BY <1>1, <1>2 DEF Crash, history

-----------------------------------------------------------------------------
(* Types, and what the environment does *)

LEMMA NoneTorn == None # Torn /\ None.kind = "none" /\ Torn.kind = "torn"
  <1>1. None.kind = "none" /\ Torn.kind = "torn"
    BY DEF None, Torn
  <1> QED BY <1>1

LEMMA FilesTyped == WorldOK => Files \in FileVersions /\ \A p \in Hashed : Files[p] = source[p]
  BY DEF WorldOK, Files, FileVersions, Hashed

\* The order of the checks of one interpreter.
LEMMA ChecksMean ==
  /\ Len(Checks) \in Nat
  /\ \A i \in 1 .. Len(Checks) : \/ Checks[i][1] \in {"tests", "documentation"}
                                 \/ Checks[i][1] \in Schemas /\ Checks[i][2] \in Dists
  <1> DEFINE S == {<<"tests">>, <<"documentation">>} \cup (Schemas \X Dists)
             first == <<<<"tests">>, <<"documentation">>>>
             then == [i \in 1 .. (2 * Len(Artifacts)) |->
                        <<IF i % 2 = 1 THEN "acceptance" ELSE "conformance", Artifacts[(i + 1) \div 2]>>]
  <1>1. Len(Artifacts) \in Nat /\ Artifacts \in [1 .. Len(Artifacts) -> Dists]
    BY MatrixAssumption
  <1>2. \A i \in 1 .. (2 * Len(Artifacts)) : (i + 1) \div 2 \in 1 .. Len(Artifacts)
    BY <1>1
  <1>3. \A i \in 1 .. (2 * Len(Artifacts)) : Artifacts[(i + 1) \div 2] \in Dists
    BY <1>1, <1>2
  <1>4. then \in [1 .. (2 * Len(Artifacts)) -> Schemas \X Dists] /\ 2 * Len(Artifacts) \in Nat
    BY <1>1, <1>3 DEF Schemas
  <1>5. then \in Seq(S)
    <2>1. Schemas \X Dists \subseteq S
      OBVIOUS
    <2> HIDE DEF then, S
    <2>2. then \in [1 .. (2 * Len(Artifacts)) -> S]
      BY <1>4, <2>1
    <2> QED BY <1>4, <2>2, SeqDef
  <1>6. first \in Seq(S)
    OBVIOUS
  <1>7. Checks = first \o then
    BY DEF Checks
  <1> HIDE DEF first, then
  <1>8. Checks \in Seq(S)
    <2> HIDE DEF S
    <2> QED BY <1>5, <1>6, <1>7, ConcatProperties
  <1>9. Len(Checks) \in Nat /\ \A i \in 1 .. Len(Checks) : Checks[i] \in S
    BY <1>8, LenProperties, ElementOfSeq
  <1>10. \A c \in S : c[1] \in {"tests", "documentation"} \/ (c[1] \in Schemas /\ c[2] \in Dists)
    OBVIOUS
  <1> QED BY <1>9, <1>10

Grows ==
  /\ \A p \in Parts : source[p] <= source'[p]
  /\ head.revision <= head'.revision
  /\ \A x \in Dists \cup {Lock} : Grown(dist[x], dist'[x])

LEMMA StaysGrown == WorldOK /\ UNCHANGED <<source, head, dist>> => Grows
  BY DEF WorldOK, Grows, Grown, Builds, Parts

Environment ==
  \/ \E p \in Parts : Edit(p)
  \/ Commit
  \/ \E x \in Dists \cup {Lock} : Rebuild(x)
  \/ \E p \in Pythons : (\E passed \in BOOLEAN : RunCheck(p, passed)) \/ Rerun(p)

LEMMA RunCheckTypes ==
  ASSUME Typed, NEW p \in Pythons, NEW passed \in BOOLEAN, RunCheck(p, passed)
  PROVE  ReceiptsOK'
  <1> DEFINE c == Checks[job[p].next]
  <1>1. c[1] \in {"tests", "documentation"} \/ (c[1] \in Schemas /\ c[2] \in Dists)
    BY ChecksMean DEF RunCheck
  <1>2. Files \in FileVersions /\ source.fixtures \in Nat /\ source.harness \in Nat
    BY FilesTyped DEF Typed, WorldOK, Parts
  <1>3. job' \in [Pythons -> [attempt : Nat, next : Nat]]
    <2>1. job' = [job EXCEPT ![p].next = IF passed THEN job[p].next + 1 ELSE Len(Checks) + 1]
      BY DEF RunCheck
    <2>2. (IF passed THEN job[p].next + 1 ELSE Len(Checks) + 1) \in Nat
      BY ChecksMean DEF Typed, ReceiptsOK
    <2> QED BY <2>1, <2>2 DEF Typed, ReceiptsOK
  <1>4. CASE c[1] = "tests"
    <2>1. /\ quality' = [quality EXCEPT ![p].tests = IF passed THEN "passed" ELSE "failed"]
          /\ UNCHANGED installed
      BY <1>4 DEF RunCheck
    <2>2. quality' \in [Pythons -> Qualities]
      BY <2>1 DEF Typed, ReceiptsOK, Qualities
    <2> QED BY <1>3, <2>1, <2>2 DEF Typed, ReceiptsOK
  <1>5. CASE c[1] = "documentation"
    <2>1. PICK d \in IF passed THEN DocumentationReceipts(p) ELSE {Failed} :
            quality' = [quality EXCEPT ![p].documentation = d]
      BY <1>5 DEF RunCheck
    <2>2. d \in Documentations
      BY <1>2, <2>1 DEF DocumentationReceipts, Documentations
    <2>3. quality' \in [Pythons -> Qualities]
      BY <2>1, <2>2 DEF Typed, ReceiptsOK, Qualities
    <2>4. UNCHANGED installed
      BY <1>5 DEF RunCheck
    <2> QED BY <1>3, <2>3, <2>4 DEF Typed, ReceiptsOK
  <1>6. CASE c[1] \notin {"tests", "documentation"}
    <2>1. PICK d \in IF passed THEN InstalledReceipts(p, c[2]) ELSE {Failed} :
            installed' = [installed EXCEPT ![<<p, c[2], c[1]>>] = d]
      BY <1>6 DEF RunCheck
    <2>2. UNCHANGED quality
      BY <1>6 DEF RunCheck
    <2>3. HarnessSeen \subseteq Nat
      BY <1>2 DEF HarnessSeen
    <2>4. dist[c[2]] \in Builds /\ job[p].attempt \in Nat
      BY <1>1, <1>6 DEF Typed, WorldOK, ReceiptsOK
    <2>5. d \in Acceptances
      BY <1>2, <2>1, <2>3, <2>4 DEF InstalledReceipts, Acceptances
    <2> HIDE DEF c
    <2>6. installed' \in [Pythons \X Dists \X Schemas -> Acceptances]
      BY <1>1, <1>6, <2>1, <2>5 DEF Typed, ReceiptsOK
    <2> QED BY <1>3, <2>2, <2>6 DEF Typed, ReceiptsOK
  <1> QED BY <1>1, <1>4, <1>5, <1>6

\* What the history records of a step of the environment.
LEMMA WitnessMeans ==
  ASSUME Typed, Environment
  PROVE  /\ states' = states \cup {Checkout'}
         /\ late' \in [Runs -> BOOLEAN] /\ calm' \in [Runs -> BOOLEAN]
         /\ \A r \in Runs : late'[r] <=> late[r] \/ (pc[r] \in Binding
                               /\ ~(FilesStay /\ quality' = quality /\ installed' = installed))
         /\ \A r \in Runs : calm'[r] <=> calm[r] /\ FilesStay /\ Described' = Described
                               /\ UNCHANGED <<dist, quality, installed>>
  <1>1. Witnessed
    BY DEF Environment, Edit, Commit, Rebuild, RunCheck, Rerun
  <1>2. FilesStay \in BOOLEAN
    BY DEF FilesStay
  <1> QED BY <1>1, <1>2 DEF Witnessed, Typed, MemoryOK

LEMMA EnvironmentMeans ==
  ASSUME Typed, Environment
  PROVE  Typed' /\ Grows /\ UNCHANGED <<manifest, candidate, pc, held>>
  <1> USE DEF world, receipts, memory
  <1>0. late' \in [Runs -> BOOLEAN] /\ calm' \in [Runs -> BOOLEAN]
    BY WitnessMeans
  <1>1. ASSUME NEW p \in Parts, Edit(p) PROVE Typed' /\ Grows /\ UNCHANGED <<manifest, candidate, pc, held>>
    <2>1. /\ changes' = changes + 1 /\ source' = [source EXCEPT ![p] = source[p] + 1]
          /\ UNCHANGED <<head, dist, job, quality, installed, manifest, candidate, pc, held>>
      BY <1>1 DEF Edit
    <2>3. WorldOK'
      <3>1. source' \in [Parts -> Nat] /\ changes' \in Nat /\ \A q \in Parts : source[q] <= source'[q]
        BY <2>1 DEF Typed, WorldOK
      <3>2. "engine" \in Parts
        BY DEF Parts
      <3>3. \A x \in Dists \cup {Lock} : dist'[x].engine <= source'.engine
        BY <2>1, <3>1, <3>2 DEF Typed, WorldOK, Builds
      <3>4. \A q \in Parts : head'.parts[q] <= source'[q]
        BY <2>1, <3>1 DEF Typed, WorldOK
      <3> QED BY <2>1, <3>1, <3>3, <3>4 DEF Typed, WorldOK
    <2>4. Grows
      BY <2>1 DEF Typed, WorldOK, Grows, Grown, Builds
    <2> QED BY <1>0, <2>1, <2>3, <2>4 DEF Typed, ReceiptsOK, MemoryOK
  <1>2. CASE Commit
    <2>1. /\ changes' = changes + 1 /\ head' = [revision |-> head.revision + 1, parts |-> source]
          /\ UNCHANGED <<source, dist, job, quality, installed, manifest, candidate, pc, held>>
      BY <1>2 DEF Commit
    <2>2. WorldOK'
      BY <2>1 DEF Typed, WorldOK
    <2>3. Grows
      BY <2>1 DEF Typed, WorldOK, Grows, Grown, Builds
    <2> QED BY <1>0, <2>1, <2>2, <2>3 DEF Typed, ReceiptsOK, MemoryOK
  <1>3. ASSUME NEW x \in Dists \cup {Lock}, Rebuild(x)
        PROVE Typed' /\ Grows /\ UNCHANGED <<manifest, candidate, pc, held>>
    <2>1. /\ changes' = changes + 1
          /\ dist' = [dist EXCEPT ![x] = [build |-> dist[x].build + 1, engine |-> source.engine]]
          /\ UNCHANGED <<source, head, job, quality, installed, manifest, candidate, pc, held>>
      BY <1>3 DEF Rebuild
    <2>2. source.engine \in Nat /\ dist[x].build \in Nat
      BY DEF Typed, WorldOK, Parts, Builds
    <2>3. WorldOK'
      BY <2>1, <2>2 DEF Typed, WorldOK, Builds
    <2>4. Grows
      BY <2>1, <2>2 DEF Typed, WorldOK, Grows, Grown, Builds
    <2> QED BY <1>0, <2>1, <2>3, <2>4 DEF Typed, ReceiptsOK, MemoryOK
  <1>4. ASSUME NEW p \in Pythons, NEW passed \in BOOLEAN, RunCheck(p, passed)
        PROVE Typed' /\ Grows /\ UNCHANGED <<manifest, candidate, pc, held>>
    <2>1. UNCHANGED <<source, head, dist, changes, manifest, candidate, pc, held>>
      BY <1>4 DEF RunCheck
    <2>2. WorldOK' /\ MemoryOK'
      BY <1>0, <2>1 DEF Typed, WorldOK, MemoryOK
    <2> QED BY <1>4, <2>1, <2>2, RunCheckTypes, StaysGrown DEF Typed
  <1>5. ASSUME NEW p \in Pythons, Rerun(p) PROVE Typed' /\ Grows /\ UNCHANGED <<manifest, candidate, pc, held>>
    <2>1. /\ changes' = changes + 1
          /\ job' = [job EXCEPT ![p] = [attempt |-> job[p].attempt + 1, next |-> 1]]
          /\ UNCHANGED <<source, head, dist, quality, installed, manifest, candidate, pc, held>>
      BY <1>5 DEF Rerun
    <2>2. job' \in [Pythons -> [attempt : Nat, next : Nat]]
      BY <2>1 DEF Typed, ReceiptsOK
    <2>3. WorldOK' /\ ReceiptsOK' /\ MemoryOK'
      BY <1>0, <2>1, <2>2 DEF Typed, WorldOK, ReceiptsOK, MemoryOK
    <2> QED BY <2>1, <2>3, StaysGrown DEF Typed
  <1> QED BY <1>1, <1>2, <1>3, <1>4, <1>5 DEF Environment

\* A step of an invocation leaves the world alone.
LEMMA LookTypes ==
  ASSUME Typed, NEW r \in Runs, Look(r)
  PROVE  Typed' /\ StillHeld /\ UNCHANGED <<world, receipts, manifest, candidate, states, late, calm>>
         /\ Others(r)
  <1>0. MemoryOK
    BY DEF Typed
  <1>a. ASSUME ReadManifest(r) \/ ReadRevision(r) \/ ReadStatus(r) \/ ReadFiles(r) \/ ReadExpected(r) \/ HashLock(r)
        PROVE  StillHeld /\ Others(r)
    BY <1>0, <1>a, ReadManifestMeans, ReadRevisionMeans, ReadStatusMeans, ReadFilesMeans, ReadExpectedMeans, HashLockMeans
       DEF Moved, Dropped
  <1>b. ASSUME HashArtifact(r) \/ OpenArtifact(r) \/ RecheckRevision(r) \/ RecheckStatus(r) \/ RecheckFiles(r)
        PROVE  StillHeld /\ Others(r)
    BY <1>0, <1>b, HashArtifactMeans, OpenArtifactMeans, RecheckRevisionMeans, RecheckStatusMeans, RecheckFilesMeans
       DEF Moved, Dropped
  <1>c. ASSUME CheckQuality(r) \/ RecordQuality(r) \/ CheckInstalled(r) \/ RecordInstalled(r) \/ HashManifest(r)
        PROVE  StillHeld /\ Others(r)
    BY <1>0, <1>c, CheckQualityMeans, RecordQualityMeans, CheckInstalledMeans, RecordInstalledMeans,
       HashManifestMeans DEF Moved, Dropped
  <1>1. StillHeld /\ Others(r)
    BY <1>a, <1>b, <1>c DEF Look
  <1>2. UNCHANGED <<world, receipts, manifest, candidate, states, late, calm>>
    BY DEF Look, history
  <1> QED BY <1>1, <1>2 DEF Typed, WorldOK, ReceiptsOK, MemoryOK, StillHeld, world, receipts

LEMMA TypedKept == Typed /\ [Next]_vars => Typed'
  <1> SUFFICES ASSUME Typed, [Next]_vars PROVE Typed'
    OBVIOUS
  <1>1. ASSUME NEW r \in Runs, Begin(r) PROVE Typed'
    <2>1. StillHeld /\ UNCHANGED <<world, receipts, late>>
          /\ calm' = [calm EXCEPT ![r] = Output(r) = None /\ InOrder(r)]
      BY <1>1, BeginMeans DEF Typed, Begin
    <2>2. calm' \in [Runs -> BOOLEAN]
      BY <2>1 DEF Typed, MemoryOK, InOrder
    <2> QED BY <2>1, <2>2 DEF Typed, WorldOK, ReceiptsOK, MemoryOK, StillHeld, world, receipts
  <1>2. ASSUME NEW r \in Runs, Create(r) \/ Write(r) \/ Crash(r) PROVE Typed'
    <2>1. StillHeld /\ UNCHANGED <<world, receipts, states, late, calm>>
      BY <1>2, CreateMeans, WriteMeans, CrashMeans DEF Typed
    <2> QED BY <2>1 DEF Typed, WorldOK, ReceiptsOK, MemoryOK, StillHeld, world, receipts
  <1>3. CASE UNCHANGED vars
    BY <1>3 DEF vars, Typed, WorldOK, ReceiptsOK, MemoryOK, world, receipts, memory, history
  <1>4. Next => Environment \/ \E r \in Runs : Begin(r) \/ Look(r) \/ Create(r) \/ Write(r) \/ Crash(r)
    BY DEF Next, Environment
  <1> QED BY <1>1, <1>2, <1>3, <1>4, EnvironmentMeans, LookTypes

-----------------------------------------------------------------------------
(* What a run knows stays true while others act *)

LEMMA GrownOn ==
  ASSUME NEW a \in Builds, NEW b \in Builds, NEW c \in Builds, Grown(a, b), Grown(b, c)
  PROVE  Grown(a, c) /\ \A n \in Builds : n.build < b.build => n.build < c.build
  BY DEF Grown, Builds

LEMMA HashesStay ==
  ASSUME Typed, Typed', NEW r \in Runs, Hashes(r), pc'[r] = pc[r], held'[r] = held[r], Grows
  PROVE  Hashes(r)'
  <1> SUFFICES ASSUME pc[r] \in Going, NEW i \in DOMAIN held[r].artifacts
               PROVE  /\ Grown(held[r].artifacts[i], dist'[Artifacts[i]])
                      /\ \/ pc[r] = "open" /\ i = held[r].at
                         \/ held[r].artifacts[i].engine = held[r].expected
                         \/ held[r].artifacts[i].build < dist'[Artifacts[i]].build
    BY DEF Hashes
  <1>1. /\ held[r].artifacts[i] \in Builds /\ i \in DOMAIN Artifacts
        /\ Grown(held[r].artifacts[i], dist[Artifacts[i]])
        /\ \/ pc[r] = "open" /\ i = held[r].at
           \/ held[r].artifacts[i].engine = held[r].expected
           \/ held[r].artifacts[i].build < dist[Artifacts[i]].build
    BY DEF Hashes
  <1>2. Artifacts[i] \in Dists /\ dist[Artifacts[i]] \in Builds /\ dist'[Artifacts[i]] \in Builds
        /\ Grown(dist[Artifacts[i]], dist'[Artifacts[i]])
    BY <1>1 DEF Dists, Typed, WorldOK, Grows
  <1> QED BY <1>1, <1>2, GrownOn

LEMMA RunStays ==
  ASSUME Typed, Typed', NEW r \in Runs, RunInv(r), pc'[r] = pc[r], held'[r] = held[r], Grows,
         manifest.kind = "manifest" => manifest' = manifest
  PROVE  RunInv(r)'
  <1>1. Snapshot(r)'
    <2> SUFFICES ASSUME pc[r] \in Seen, NEW p \in Hashed PROVE held[r].source.files[p] <= source'[p]
      BY DEF RunInv, Snapshot
    <2>1. held[r].source.files[p] \in Nat /\ source[p] \in Nat /\ source'[p] \in Nat
          /\ held[r].source.files[p] <= source[p] /\ source[p] <= source'[p]
      BY DEF RunInv, Snapshot, State, FileVersions, Hashed, Typed, WorldOK, Grows
    <2> QED BY <2>1
  <1>2. Expectation(r)'
    <2>1. source.engine \in Nat /\ source'.engine \in Nat /\ source.engine <= source'.engine
      BY DEF Typed, WorldOK, Grows, Parts
    <2> QED BY <2>1 DEF RunInv, Expectation
  <1>3. Position(r)'
    BY DEF RunInv, Position
  <1>4. Hashes(r)'
    BY HashesStay DEF RunInv
  <1>5. Reading(r)'
    BY DEF RunInv, Reading, Prepared
  <1>6. Matrix(r)'
    BY DEF RunInv, Matrix, Recorded, Python
  <1> QED BY <1>1, <1>2, <1>3, <1>4, <1>5, <1>6 DEF RunInv

\* A run that is over claims nothing.
LEMMA OverClaimsNothing ==
  ASSUME NEW r \in Runs, pc'[r] \in {"rejected", "done", "dead"}
  PROVE  RunInv(r)' /\ Undisturbed(r)' /\ Calm(r)'
  <1>1. pc'[r] \notin Going /\ pc'[r] \notin Seen /\ pc'[r] \notin Binding /\ pc'[r] \notin Looking
        /\ pc'[r] \notin OfVerify
    BY DEF Going, Seen, Looking, Binding, OfVerify
  <1>2. Snapshot(r)' /\ Expectation(r)' /\ Position(r)' /\ Hashes(r)' /\ Reading(r)' /\ Matrix(r)'
    BY <1>1 DEF Snapshot, Expectation, Position, Hashes, Reading, Matrix
  <1> QED BY <1>1, <1>2 DEF RunInv, Undisturbed, Calm

-----------------------------------------------------------------------------
(* What a run reads *)

LEMMA FirstPlaces ==
  /\ Len(PYTHONS) \in Nat \ {0} /\ DOMAIN PYTHONS = 1 .. Len(PYTHONS)
  /\ Len(Artifacts) \in Nat \ {0} /\ DOMAIN Artifacts = 1 .. Len(Artifacts)
  /\ \A i \in DOMAIN Artifacts : Artifacts[i] \in Dists
  /\ \A i \in DOMAIN PYTHONS : PYTHONS[i] \in Pythons
  BY MatrixAssumption, LenProperties, EmptySeq DEF Dists, Pythons

\* The steps before the sources have been read.
LEMMA FirstPasses ==
  ASSUME MemoryOK, NEW r \in Runs, ~Dropped(r), ReadManifest(r) \/ ReadRevision(r) \/ ReadStatus(r) \/ ReadFiles(r)
  PROVE  /\ pc[r] \in {"read", "revision", "status", "files"} /\ pc'[r] \in {"revision", "status", "files", "expect"}
         /\ Keeps(r, {"manifest", "source"})
  <1>1. CASE ReadManifest(r)
    BY <1>1, ReadManifestMeans DEF Moved, Keeps
  <1>2. CASE ReadRevision(r) \/ ReadStatus(r)
    BY <1>2, ReadRevisionMeans, ReadStatusMeans DEF Moved, Keeps
  <1>3. CASE ReadFiles(r)
    BY <1>3, ReadFilesMeans DEF Moved, Keeps
  <1> QED BY <1>1, <1>2, <1>3

\* The steps in which verify binds the receipts.
LEMMA BindingPasses ==
  ASSUME MemoryOK, NEW r \in Runs, ~Dropped(r),
         \/ CheckQuality(r) \/ RecordQuality(r) \/ CheckInstalled(r) \/ RecordInstalled(r)
         \/ HashManifest(r)
  PROVE  /\ pc[r] \in OfVerify \ {"read"} /\ pc'[r] \in Binding \ {"write"}
         /\ Keeps(r, {"quality", "installed", "at", "named"})
  <1>1. CASE CheckQuality(r)
    BY <1>1, CheckQualityMeans DEF Moved, Keeps, OfVerify, Binding
  <1>2. CASE RecordQuality(r)
    BY <1>2, RecordQualityMeans DEF Moved, Keeps, OfVerify, Binding
  <1>3. CASE CheckInstalled(r)
    BY <1>3, CheckInstalledMeans DEF Moved, Keeps, OfVerify, Binding
  <1>4. CASE RecordInstalled(r)
    <2>1. pc[r] = "installed-record" /\ Keeps(r, {"installed", "at"})
          /\ pc'[r] \in {"installed", "quality", "manifest"}
      BY <1>4, RecordInstalledMeans DEF Moved
    <2> QED BY <2>1 DEF Keeps, OfVerify, Binding
  <1>5. CASE HashManifest(r)
    BY <1>5, HashManifestMeans DEF Moved, Keeps, OfVerify, Binding
  <1> QED BY <1>1, <1>2, <1>3, <1>4, <1>5

LEMMA SnapshotRead ==
  ASSUME Typed, NEW r \in Runs, RunInv(r), Look(r), ~Dropped(r)
  PROVE  Snapshot(r)'
  <1> USE DEF Typed
  <1>1. UNCHANGED source
    BY LookTypes DEF world
  <1>2. CASE ReadManifest(r) \/ ReadRevision(r) \/ ReadStatus(r)
    <2>1. pc'[r] \in {"revision", "status", "files"}
      BY <1>2, ReadManifestMeans, ReadRevisionMeans, ReadStatusMeans DEF Moved
    <2> QED BY <2>1 DEF Snapshot, Seen, Looking, Binding
  <1>3. CASE ReadFiles(r)
    <2>1. held'[r].source = [revision |-> held[r].source.revision, status |-> held[r].source.status,
                             files |-> Files]
      BY <1>3, ReadFilesMeans
    <2>2. Files \in FileVersions /\ \A p \in Hashed : Files[p] = source[p] /\ source[p] <= source[p]
      BY FilesTyped DEF WorldOK, Hashed
    <2> QED BY <1>1, <2>1, <2>2 DEF Snapshot, State
  <1>4. CASE \/ ReadExpected(r) \/ HashArtifact(r) \/ OpenArtifact(r) \/ HashLock(r)
    <2>1. pc[r] \in Looking /\ held'[r].source = held[r].source
      BY <1>4, ReadExpectedMeans, HashArtifactMeans, OpenArtifactMeans, HashLockMeans
         DEF Keeps, Fields, Looking
    <2> QED BY <1>1, <2>1 DEF RunInv, Snapshot, Seen
  <1>5. CASE RecheckRevision(r) \/ RecheckStatus(r) \/ RecheckFiles(r)
    <2>1. pc[r] \in Looking /\ held'[r].source = held[r].source
      BY <1>5, RecheckRevisionMeans, RecheckStatusMeans, RecheckFilesMeans DEF Keeps, Fields, Looking
    <2> QED BY <1>1, <2>1 DEF RunInv, Snapshot, Seen
  <1>6. CASE CheckQuality(r) \/ RecordQuality(r) \/ CheckInstalled(r) \/ RecordInstalled(r) \/ HashManifest(r)
    <2>1. pc[r] \in Seen /\ held'[r].source = held[r].source
      BY <1>6, BindingPasses DEF Keeps, Fields, Seen, OfVerify, Binding
    <2> QED BY <1>1, <2>1 DEF RunInv, Snapshot
  <1> QED BY <1>2, <1>3, <1>4, <1>5, <1>6 DEF Look

\* The second look confirms that the sources were the same when the archives were opened.
LEMMA ExpectationRead ==
  ASSUME Typed, NEW r \in Runs, RunInv(r), Look(r), ~Dropped(r)
  PROVE  Expectation(r)'
  <1> USE DEF Typed
  <1>1. UNCHANGED source /\ source.engine \in Nat
    BY LookTypes DEF world, WorldOK, Parts
  <1>2. CASE ReadManifest(r) \/ ReadRevision(r) \/ ReadStatus(r) \/ ReadFiles(r)
    <2>1. pc'[r] \in {"revision", "status", "files", "expect"}
      BY <1>2, FirstPasses
    <2> QED BY <2>1 DEF Expectation, Seen, Looking, Binding
  <1>3. CASE ReadExpected(r)
    <2>1. /\ pc[r] = "expect" /\ pc'[r] = "hash"
          /\ held'[r].expected = source.engine /\ held'[r].source = held[r].source
      BY <1>3, ReadExpectedMeans DEF Moved, Keeps, Fields
    <2>2. held[r].source.files.engine <= source.engine
      BY <2>1 DEF RunInv, Snapshot, Seen, Looking, Hashed, Parts
    <2> QED BY <1>1, <2>1, <2>2 DEF Expectation, Binding
  <1>4. CASE HashArtifact(r) \/ OpenArtifact(r) \/ HashLock(r) \/ RecheckRevision(r) \/ RecheckStatus(r)
    <2>1. /\ pc[r] \in Looking \ {"expect"} /\ pc'[r] \in Looking
          /\ held'[r].source = held[r].source /\ held'[r].expected = held[r].expected
      BY <1>4, HashArtifactMeans, OpenArtifactMeans, HashLockMeans, RecheckRevisionMeans, RecheckStatusMeans
         DEF Moved, Keeps, Fields, Looking
    <2> QED BY <1>1, <2>1 DEF RunInv, Expectation, Seen, Looking, Binding
  <1>5. CASE RecheckFiles(r)
    <2>1. /\ pc[r] = "refiles" /\ Files = held[r].source.files
          /\ held'[r].source = held[r].source /\ held'[r].expected = held[r].expected
      BY <1>5, RecheckFilesMeans DEF Keeps, Fields
    <2>2. held[r].source.files.engine = source.engine
      BY <2>1, FilesTyped DEF Hashed, Parts
    <2>3. held[r].expected \in Nat /\ source.engine <= held[r].expected /\ held[r].expected <= source.engine
      BY <2>1, <2>2 DEF RunInv, Expectation, Seen, Looking
    <2> QED BY <1>1, <2>1, <2>2, <2>3 DEF Expectation
  <1>6. CASE CheckQuality(r) \/ RecordQuality(r) \/ CheckInstalled(r) \/ RecordInstalled(r) \/ HashManifest(r)
    <2>1. /\ pc[r] \in Binding
          /\ held'[r].source = held[r].source /\ held'[r].expected = held[r].expected
      BY <1>6, BindingPasses DEF Keeps, Fields, OfVerify, Binding
    <2> QED BY <1>1, <2>1 DEF RunInv, Expectation, Seen, Looking, Binding
  <1> QED BY <1>2, <1>3, <1>4, <1>5, <1>6 DEF Look

LEMMA PositionRead ==
  ASSUME Typed, NEW r \in Runs, RunInv(r), Look(r), ~Dropped(r)
  PROVE  Position(r)'
  <1> USE DEF Typed
  <1>1. CASE ReadManifest(r) \/ ReadRevision(r) \/ ReadStatus(r) \/ ReadFiles(r)
    <2>1. /\ pc[r] \in {"read", "revision", "status", "files"} /\ pc'[r] \in {"revision", "status", "files", "expect"}
          /\ held'[r].at = held[r].at /\ held'[r].artifacts = held[r].artifacts
      BY <1>1, FirstPasses DEF Keeps, Fields
    <2> QED BY <2>1 DEF RunInv, Position, Seen, Looking, Binding
  <1>2. CASE ReadExpected(r)
    <2>1. /\ pc[r] = "expect" /\ pc'[r] = "hash"
          /\ held'[r].at = held[r].at /\ held'[r].artifacts = held[r].artifacts
      BY <1>2, ReadExpectedMeans DEF Moved, Keeps, Fields
    <2> QED BY <2>1, FirstPlaces DEF RunInv, Position, Seen, Looking, Binding
  <1>3. CASE HashArtifact(r)
    <2>1. /\ pc[r] = "hash" /\ pc'[r] = "open" /\ held'[r].at = held[r].at
          /\ held'[r].artifacts = Append(held[r].artifacts, dist[Artifacts[held[r].at]])
      BY <1>3, HashArtifactMeans DEF Moved, Keeps, Fields
    <2>2. /\ held[r].at \in DOMAIN Artifacts /\ Len(held[r].artifacts) = held[r].at - 1
          /\ held[r].artifacts \in Seq(Builds) /\ dist[Artifacts[held[r].at]] \in Builds
      BY <2>1, FirstPlaces DEF RunInv, Position, Hashes, Going, Seen, Looking, WorldOK
    <2>3. Len(held'[r].artifacts) = held'[r].at
      BY <2>1, <2>2, FirstPlaces
    <2> QED BY <2>1, <2>2, <2>3 DEF Position, Looking
  <1>4. CASE OpenArtifact(r)
    <2>1. /\ pc[r] = "open" /\ held'[r].artifacts = held[r].artifacts
          /\ \/ held[r].at < Len(Artifacts) /\ pc'[r] = "hash" /\ held'[r].at = held[r].at + 1
             \/ ~(held[r].at < Len(Artifacts)) /\ pc'[r] = "lock" /\ held'[r].at = 1
      BY <1>4, OpenArtifactMeans DEF Moved, Keeps, Fields
    <2>2. held[r].at \in DOMAIN Artifacts /\ Len(held[r].artifacts) = held[r].at
      BY <2>1 DEF RunInv, Position
    <2>3. CASE pc'[r] = "hash"
      BY <2>1, <2>2, <2>3, FirstPlaces DEF Position, Looking, Seen, Binding
    <2>4. CASE pc'[r] = "lock"
      <3>1. Len(held'[r].artifacts) = Len(Artifacts) /\ held'[r].at = 1
        BY <2>1, <2>2, <2>4, FirstPlaces
      <3> QED BY <2>4, <3>1 DEF Position
    <2> QED BY <2>1, <2>3, <2>4
  <1>5. CASE HashLock(r) \/ RecheckRevision(r) \/ RecheckStatus(r)
    <2>1. /\ pc[r] \in {"lock", "again", "restatus"} /\ pc'[r] \in {"again", "restatus", "refiles"}
          /\ held'[r].at = held[r].at /\ held'[r].artifacts = held[r].artifacts
      BY <1>5, HashLockMeans, RecheckRevisionMeans, RecheckStatusMeans DEF Moved, Keeps, Fields
    <2> QED BY <2>1 DEF RunInv, Position, Seen, Looking, Binding
  <1>6. CASE RecheckFiles(r)
    <2>1. pc[r] = "refiles" /\ pc'[r] \in Binding /\ held'[r].artifacts = held[r].artifacts
      BY <1>6, RecheckFilesMeans DEF Moved, Keeps, Fields, Binding
    <2> QED BY <2>1 DEF RunInv, Position, Seen, Looking, Binding
  <1>7. CASE CheckQuality(r) \/ RecordQuality(r) \/ CheckInstalled(r) \/ RecordInstalled(r) \/ HashManifest(r)
    <2>1. pc[r] \in Binding /\ pc'[r] \in Binding /\ held'[r].artifacts = held[r].artifacts
      BY <1>7, BindingPasses DEF Keeps, Fields, OfVerify, Binding
    <2> QED BY <2>1 DEF RunInv, Position, Seen, Looking, Binding
  <1> QED BY <1>1, <1>2, <1>3, <1>4, <1>5, <1>6, <1>7 DEF Look

LEMMA HashAppends ==
  ASSUME Typed, NEW r \in Runs, RunInv(r), HashArtifact(r)
  PROVE  /\ held[r].at \in DOMAIN Artifacts /\ held[r].at \in Nat
         /\ dist[Artifacts[held[r].at]] \in Builds
         /\ DOMAIN held[r].artifacts = 1 .. (held[r].at - 1)
         /\ held'[r].artifacts \in Seq(Builds) /\ DOMAIN held'[r].artifacts = 1 .. held[r].at
         /\ held'[r].artifacts[held[r].at] = dist[Artifacts[held[r].at]]
         /\ \A i \in 1 .. (held[r].at - 1) : held'[r].artifacts[i] = held[r].artifacts[i]
  <1> DEFINE now == dist[Artifacts[held[r].at]]
  <1>1. pc[r] = "hash" /\ held'[r].artifacts = Append(held[r].artifacts, now)
    BY HashArtifactMeans DEF Typed
  <1>2. /\ held[r].at \in DOMAIN Artifacts /\ Len(held[r].artifacts) = held[r].at - 1
        /\ held[r].artifacts \in Seq(Builds) /\ now \in Builds
    BY <1>1, FirstPlaces DEF RunInv, Position, Hashes, Going, Seen, Looking, Typed, WorldOK
  <1>3. held[r].at \in Nat /\ DOMAIN held[r].artifacts = 1 .. (held[r].at - 1)
    BY <1>2, FirstPlaces
  <1> HIDE DEF now
  <1>4. /\ held'[r].artifacts \in Seq(Builds) /\ DOMAIN held'[r].artifacts = 1 .. held[r].at
        /\ held'[r].artifacts[held[r].at] = now
        /\ \A i \in 1 .. (held[r].at - 1) : held'[r].artifacts[i] = held[r].artifacts[i]
    BY <1>1, <1>2, <1>3
  <1> QED BY <1>2, <1>3, <1>4 DEF now

\* A distribution that is replaced between its hash and its opening stays different.
LEMMA HashesRead ==
  ASSUME Typed, NEW r \in Runs, RunInv(r), Look(r), ~Dropped(r)
  PROVE  Hashes(r)'
  <1> USE DEF Typed
  <1>1. UNCHANGED dist
    BY LookTypes DEF world
  <1>2. CASE ReadManifest(r) \/ ReadRevision(r) \/ ReadStatus(r) \/ ReadFiles(r)
    <2>1. held'[r].artifacts = <<>>
      BY <1>2, FirstPasses DEF Keeps, Fields, RunInv, Position
    <2> QED BY <2>1 DEF Hashes
  <1>3. CASE ReadExpected(r)
    <2>1. held'[r].artifacts = <<>>
      BY <1>3, ReadExpectedMeans DEF Keeps, Fields, RunInv, Position
    <2> QED BY <2>1 DEF Hashes
  <1>4. CASE HashArtifact(r)
    <2> DEFINE now == dist[Artifacts[held[r].at]]
    <2>1. /\ pc[r] = "hash" /\ pc'[r] = "open" /\ held'[r].at = held[r].at
          /\ held'[r].expected = held[r].expected
      BY <1>4, HashArtifactMeans DEF Moved, Keeps, Fields
    <2>2. held[r].at \in DOMAIN Artifacts /\ now \in Builds
      BY <1>4, HashAppends
    <2>3. Grown(now, now)
      BY <2>2 DEF Grown, Builds
    <2>4. held[r].at \in Nat /\ DOMAIN held[r].artifacts = 1 .. (held[r].at - 1)
      BY <1>4, HashAppends
    <2>5. /\ held'[r].artifacts \in Seq(Builds) /\ DOMAIN held'[r].artifacts = 1 .. held[r].at
          /\ held'[r].artifacts[held[r].at] = now
          /\ \A i \in 1 .. (held[r].at - 1) : held'[r].artifacts[i] = held[r].artifacts[i]
      BY <1>4, HashAppends
    <2>6. ASSUME NEW i \in DOMAIN held'[r].artifacts
          PROVE  /\ i \in DOMAIN Artifacts
                 /\ Grown(held'[r].artifacts[i], dist[Artifacts[i]])
                 /\ \/ i = held[r].at
                    \/ held'[r].artifacts[i].engine = held[r].expected
                    \/ held'[r].artifacts[i].build < dist[Artifacts[i]].build
      <3>1. CASE i = held[r].at
        BY <2>2, <2>3, <2>5, <3>1
      <3>2. CASE i # held[r].at
        <4>1. i \in DOMAIN held[r].artifacts /\ held'[r].artifacts[i] = held[r].artifacts[i]
          BY <2>4, <2>5, <2>6, <3>2
        <4>2. /\ i \in DOMAIN Artifacts
              /\ Grown(held[r].artifacts[i], dist[Artifacts[i]])
              /\ \/ held[r].artifacts[i].engine = held[r].expected
                 \/ held[r].artifacts[i].build < dist[Artifacts[i]].build
          BY <2>1, <4>1 DEF RunInv, Hashes, Going, Seen, Looking
        <4> QED BY <4>1, <4>2
      <3> QED BY <3>1, <3>2
    <2> HIDE DEF now
    <2> QED BY <1>1, <2>1, <2>5, <2>6 DEF Hashes
  <1>5. CASE OpenArtifact(r)
    <2>1. /\ pc[r] = "open" /\ dist[Artifacts[held[r].at]].engine = held[r].expected
          /\ held'[r].artifacts = held[r].artifacts /\ held'[r].expected = held[r].expected
      BY <1>5, OpenArtifactMeans DEF Keeps, Fields
    <2>2. held[r].artifacts \in Seq(Builds)
      BY <2>1 DEF RunInv, Hashes, Going, Seen, Looking
    <2>3. ASSUME NEW i \in DOMAIN held[r].artifacts
          PROVE  /\ i \in DOMAIN Artifacts
                 /\ Grown(held[r].artifacts[i], dist[Artifacts[i]])
                 /\ \/ held[r].artifacts[i].engine = held[r].expected
                    \/ held[r].artifacts[i].build < dist[Artifacts[i]].build
      <3>1. /\ i \in DOMAIN Artifacts
            /\ Grown(held[r].artifacts[i], dist[Artifacts[i]])
            /\ \/ i = held[r].at
               \/ held[r].artifacts[i].engine = held[r].expected
               \/ held[r].artifacts[i].build < dist[Artifacts[i]].build
        BY <2>1 DEF RunInv, Hashes, Going, Seen, Looking
      <3>2. held[r].artifacts[i] \in Builds /\ dist[Artifacts[i]] \in Builds
        BY <2>2, <3>1, FirstPlaces DEF WorldOK
      <3>3. CASE i = held[r].at
        BY <2>1, <3>1, <3>2, <3>3 DEF Grown, Builds
      <3> QED BY <3>1, <3>3
    <2> QED BY <1>1, <2>1, <2>2, <2>3 DEF Hashes
  <1>6. ASSUME pc[r] \in Going \ {"open"}, held'[r].artifacts = held[r].artifacts,
               held'[r].expected = held[r].expected
        PROVE  Hashes(r)'
    BY <1>1, <1>6 DEF RunInv, Hashes
  <1>7. CASE HashLock(r) \/ RecheckRevision(r) \/ RecheckStatus(r) \/ RecheckFiles(r)
    <2>1. pc[r] \in Looking \ {"open"} /\ held'[r].artifacts = held[r].artifacts
          /\ held'[r].expected = held[r].expected
      BY <1>7, HashLockMeans, RecheckRevisionMeans, RecheckStatusMeans, RecheckFilesMeans DEF Keeps, Fields, Looking
    <2> QED BY <1>6, <2>1 DEF Going, Seen, Looking
  <1>8. CASE CheckQuality(r) \/ RecordQuality(r) \/ CheckInstalled(r) \/ RecordInstalled(r) \/ HashManifest(r)
    <2>1. pc[r] \in Binding \ {"open"} /\ held'[r].artifacts = held[r].artifacts
          /\ held'[r].expected = held[r].expected
      BY <1>8, BindingPasses DEF Keeps, Fields, OfVerify, Binding
    <2> QED BY <1>6, <2>1 DEF Going, Seen
  <1> QED BY <1>2, <1>3, <1>4, <1>5, <1>7, <1>8 DEF Look

\* A manifest that names a distribution already gone cannot be met again.
LEMMA ReadingRead ==
  ASSUME Typed, ManifestInv, NEW r \in Runs, RunInv(r), Look(r), ~Dropped(r)
  PROVE  Reading(r)'
  <1> USE DEF Typed
  <1>1. UNCHANGED <<dist, manifest>>
    BY LookTypes DEF world
  <1>2. Hashes(r)' /\ Position(r)'
    BY HashesRead, PositionRead
  <1>3. ASSUME r \in Preparers PROVE pc[r] \notin OfVerify /\ r \notin Verifiers
    BY <1>3, MatrixAssumption DEF RunInv, Reading
  <1>4. ASSUME r \in Preparers PROVE pc'[r] \notin OfVerify
    <2>1. CASE ReadManifest(r)
      BY <1>3, <1>4, <2>1, ReadManifestMeans DEF OfVerify
    <2>2. CASE ReadRevision(r) \/ ReadStatus(r) \/ ReadFiles(r) \/ ReadExpected(r) \/ HashArtifact(r) \/ HashLock(r)
      BY <2>2, ReadRevisionMeans, ReadStatusMeans, ReadFilesMeans, ReadExpectedMeans, HashArtifactMeans, HashLockMeans
         DEF Moved, OfVerify
    <2>3. CASE OpenArtifact(r) \/ RecheckRevision(r) \/ RecheckStatus(r) \/ RecheckFiles(r)
      BY <1>4, <2>3, OpenArtifactMeans, RecheckRevisionMeans, RecheckStatusMeans, RecheckFilesMeans DEF Moved, OfVerify
    <2>4. CASE CheckQuality(r) \/ RecordQuality(r) \/ CheckInstalled(r) \/ RecordInstalled(r) \/ HashManifest(r)
      BY <1>3, <1>4, <2>4, BindingPasses
    <2> QED BY <2>1, <2>2, <2>3, <2>4 DEF Look
  <1> DEFINE Gone(artifacts) ==
        \A i \in DOMAIN artifacts : \/ manifest.artifacts[i].engine = manifest.source.files.engine
                                    \/ manifest.artifacts[i].build < artifacts[i].build
  <1>5. ASSUME r \in Verifiers
        PROVE  manifest.kind = "manifest" /\ held'[r].manifest = manifest /\ Gone(held'[r].artifacts)
    <2>1. CASE ReadManifest(r)
      <3>1. /\ pc[r] = "read" /\ manifest.kind = "manifest" /\ held'[r].manifest = manifest
            /\ held'[r].artifacts = held[r].artifacts
        BY <2>1, ReadManifestMeans DEF Keeps, Fields
      <3>2. held'[r].artifacts = <<>>
        BY <3>1 DEF RunInv, Position
      <3> QED BY <3>1, <3>2
    <2>2. ASSUME pc[r] \in Going \ {"read"}, held'[r].manifest = held[r].manifest
          PROVE  manifest.kind = "manifest" /\ held'[r].manifest = manifest /\ Gone(held[r].artifacts)
      BY <1>5, <2>2 DEF RunInv, Reading
    <2>3. CASE HashArtifact(r)
      <3>1. /\ pc[r] = "hash" /\ held'[r].manifest = held[r].manifest
            /\ held'[r].artifacts = Append(held[r].artifacts, dist[Artifacts[held[r].at]])
        BY <2>3, HashArtifactMeans DEF Keeps, Fields
      <3>2. manifest.kind = "manifest" /\ held'[r].manifest = manifest /\ Gone(held[r].artifacts)
        BY <2>2, <3>1 DEF Going, Seen, Looking
      <3>3. /\ held[r].at \in DOMAIN Artifacts /\ Len(held[r].artifacts) = held[r].at - 1
            /\ held[r].artifacts \in Seq(Builds)
        BY <3>1 DEF RunInv, Position, Hashes, Going, Seen, Looking
      <3>4. \/ manifest.artifacts[held[r].at].engine = manifest.source.files.engine
            \/ manifest.artifacts[held[r].at].build < dist[Artifacts[held[r].at]].build
        BY <3>2, <3>3, NoneTorn DEF ManifestInv
      <3>5. DOMAIN held'[r].artifacts = 1 .. held[r].at /\ DOMAIN held[r].artifacts = 1 .. (held[r].at - 1)
            /\ held[r].at \in Nat
        BY <2>3, HashAppends
      <3>6. \A i \in DOMAIN held'[r].artifacts : i = held[r].at \/ i \in 1 .. (held[r].at - 1)
        BY <3>5
      <3>7. /\ held'[r].artifacts[held[r].at] = dist[Artifacts[held[r].at]]
            /\ \A i \in 1 .. (held[r].at - 1) : held'[r].artifacts[i] = held[r].artifacts[i]
        BY <2>3, HashAppends
      <3> QED BY <3>2, <3>4, <3>5, <3>6, <3>7
    <2>4. CASE ReadRevision(r) \/ ReadStatus(r) \/ ReadFiles(r) \/ ReadExpected(r)
      <3>1. /\ pc[r] \in Going \ {"read"} /\ held'[r].manifest = held[r].manifest
            /\ held'[r].artifacts = held[r].artifacts
        <4>1. CASE ReadRevision(r) \/ ReadStatus(r)
          BY <4>1, ReadRevisionMeans, ReadStatusMeans DEF Keeps, Fields, Going
        <4>2. CASE ReadFiles(r)
          BY <4>2, ReadFilesMeans DEF Keeps, Fields, Going
        <4>3. CASE ReadExpected(r)
          BY <4>3, ReadExpectedMeans DEF Keeps, Fields, Going, Seen, Looking
        <4> QED BY <2>4, <4>1, <4>2, <4>3
      <3> QED BY <2>2, <3>1
    <2>5. CASE OpenArtifact(r) \/ HashLock(r) \/ RecheckRevision(r) \/ RecheckStatus(r) \/ RecheckFiles(r)
      <3>1. /\ pc[r] \in Looking /\ held'[r].manifest = held[r].manifest
            /\ held'[r].artifacts = held[r].artifacts
        BY <2>5, OpenArtifactMeans, HashLockMeans, RecheckRevisionMeans, RecheckStatusMeans, RecheckFilesMeans
           DEF Keeps, Fields, Looking
      <3> QED BY <2>2, <3>1 DEF Going, Seen, Looking
    <2>6. CASE CheckQuality(r) \/ RecordQuality(r) \/ CheckInstalled(r) \/ RecordInstalled(r) \/ HashManifest(r)
      <3>1. /\ pc[r] \in Going \ {"read"} /\ held'[r].manifest = held[r].manifest
            /\ held'[r].artifacts = held[r].artifacts
        BY <2>6, BindingPasses DEF Keeps, Fields, OfVerify, Going, Seen, Binding
      <3> QED BY <2>2, <3>1
    <2> QED BY <2>1, <2>3, <2>4, <2>5, <2>6 DEF Look
  <1>6. ASSUME r \in Verifiers, pc'[r] \in Binding
        PROVE  /\ Prepared(r)' = held'[r].manifest
               /\ pc'[r] \in {"create", "write"} => held'[r].named = held'[r].manifest
    <2>1. CASE RecheckFiles(r)
      <3>1. /\ Prepared(r) = held[r].manifest /\ Keeps(r, {}) /\ pc'[r] = "quality"
        BY <1>6, <2>1, RecheckFilesMeans, MatrixAssumption DEF Moved
      <3> QED BY <3>1 DEF Prepared, Keeps, Fields
    <2>2. CASE CheckQuality(r) \/ RecordQuality(r) \/ CheckInstalled(r) \/ RecordInstalled(r) \/ HashManifest(r)
      <3>1. pc[r] \in Binding /\ Keeps(r, {"quality", "installed", "at", "named"})
        BY <2>2, BindingPasses DEF OfVerify, Binding
      <3>2. Prepared(r)' = held'[r].manifest
        BY <1>6, <3>1 DEF RunInv, Reading, Prepared, Keeps, Fields
      <3>3. CASE HashManifest(r)
        BY <1>5, <1>6, <3>2, <3>3, HashManifestMeans
      <3>4. CASE CheckQuality(r) \/ RecordQuality(r) \/ CheckInstalled(r)
        BY <3>2, <3>4, CheckQualityMeans, RecordQualityMeans, CheckInstalledMeans DEF Moved
      <3>5. CASE RecordInstalled(r)
        <4>1. pc'[r] \in {"installed", "quality", "manifest"}
          BY <3>5, RecordInstalledMeans DEF Moved
        <4> QED BY <3>2, <4>1
      <3> QED BY <2>2, <3>3, <3>4, <3>5
    <2>3. CASE ReadManifest(r) \/ ReadRevision(r) \/ ReadStatus(r) \/ ReadFiles(r)
      BY <1>6, <2>3, FirstPasses DEF Binding
    <2>4. CASE \/ ReadExpected(r) \/ HashArtifact(r) \/ OpenArtifact(r) \/ HashLock(r) \/ RecheckRevision(r) \/ RecheckStatus(r)
      <3>1. pc'[r] \in Looking
        BY <2>4, ReadExpectedMeans, HashArtifactMeans, OpenArtifactMeans, HashLockMeans,
           RecheckRevisionMeans, RecheckStatusMeans DEF Moved, Looking
      <3> QED BY <1>6, <3>1 DEF Looking, Binding
    <2> QED BY <2>1, <2>2, <2>3, <2>4 DEF Look
  <1>7. r \in Preparers => pc'[r] \notin OfVerify
    BY <1>4
  <1>8. r \in Verifiers => manifest'.kind = "manifest" /\ held'[r].manifest = manifest'
    BY <1>1, <1>5
  <1>9. r \in Verifiers => \A i \in DOMAIN held'[r].artifacts :
          \/ manifest'.artifacts[i].engine = manifest'.source.files.engine
          \/ manifest'.artifacts[i].build < held'[r].artifacts[i].build
    BY <1>1, <1>5
  <1>10. r \in Verifiers /\ pc'[r] \in Binding => Prepared(r)' = held'[r].manifest
    BY <1>6
  <1>11. r \in Verifiers /\ pc'[r] \in {"create", "write"} => held'[r].named = held'[r].manifest
    BY <1>6 DEF Binding
  <1> HIDE DEF Gone
  <1> QED BY <1>7, <1>8, <1>9, <1>10, <1>11 DEF Reading

LEMMA Longer ==
  ASSUME NEW S, NEW s \in Seq(S), NEW x \in S
  PROVE  /\ Append(s, x) \in Seq(S)
         /\ \A k \in DOMAIN s : k \in DOMAIN Append(s, x) /\ Append(s, x)[k] = s[k]
         /\ \E k \in DOMAIN Append(s, x) : Append(s, x)[k] = x
  <1>1. Append(s, x) \in Seq(S) /\ Len(Append(s, x)) = Len(s) + 1 /\ Len(s) \in Nat
    OBVIOUS
  <1>2. DOMAIN Append(s, x) = 1 .. Len(s) + 1 /\ DOMAIN s = 1 .. Len(s)
    BY <1>1
  <1>3. Append(s, x)[Len(s) + 1] = x /\ Len(s) + 1 \in DOMAIN Append(s, x)
    BY <1>1, <1>2
  <1>4. \A k \in DOMAIN s : k \in DOMAIN Append(s, x) /\ Append(s, x)[k] = s[k]
    BY <1>1, <1>2
  <1> QED BY <1>1, <1>3, <1>4

LEMMA Before ==
  ASSUME NEW i \in Nat
  PROVE  \A k \in 1 .. i : k = i \/ k \in 1 .. i - 1
  OBVIOUS

LEMMA NextPlace ==
  ASSUME NEW i \in DOMAIN Artifacts, i # Len(Artifacts)
  PROVE  i + 1 \in DOMAIN Artifacts /\ (i + 1) - 1 = i
  BY FirstPlaces

LEMMA LastPlace ==
  ASSUME NEW n \in 1 .. Len(PYTHONS)
  PROVE  (n < Len(PYTHONS) /\ n # Len(PYTHONS)) \/ (~(n < Len(PYTHONS)) /\ n = Len(PYTHONS))
  <1>1. Len(PYTHONS) \in Nat
    BY FirstPlaces
  <1> QED BY <1>1

LEMMA MatrixRead ==
  ASSUME Typed, NEW r \in Runs, RunInv(r), Look(r), ~Dropped(r)
  PROVE  Matrix(r)'
  <1> USE DEF Typed
  <1>0. /\ pc[r] \in Going => held[r].quality \in Seq(Qualities) /\ held[r].installed \in Seq(Cells)
        /\ Len(PYTHONS) \in Nat \ {0}
    BY FirstPlaces DEF RunInv, Matrix
  <1>1. ASSUME pc[r] \in {"read", "revision", "status", "files"} \cup Looking, held'[r].quality = held[r].quality,
               held'[r].installed = held[r].installed, pc'[r] \notin Binding
        PROVE  Matrix(r)'
    <2>1. pc[r] \in Going
      BY <1>1 DEF Going, Seen
    <2>2. held'[r].quality = <<>> /\ held'[r].installed = <<>>
      BY <1>1 DEF RunInv, Matrix
    <2>3. held'[r].quality \in Seq(Qualities) /\ held'[r].installed \in Seq(Cells)
      BY <1>0, <1>1, <2>1
    <2> QED BY <1>1, <2>2, <2>3 DEF Matrix
  <1>2. CASE ReadManifest(r) \/ ReadRevision(r) \/ ReadStatus(r) \/ ReadFiles(r)
    <2>1. /\ pc[r] \in {"read", "revision", "status", "files"} /\ pc'[r] \notin Binding
          /\ held'[r].quality = held[r].quality /\ held'[r].installed = held[r].installed
      BY <1>2, FirstPasses DEF Keeps, Fields, Binding
    <2> QED BY <1>1, <2>1
  <1>3. CASE ReadExpected(r) \/ HashArtifact(r) \/ OpenArtifact(r)
    <2>1. /\ pc[r] \in Looking /\ pc'[r] \notin Binding
          /\ held'[r].quality = held[r].quality /\ held'[r].installed = held[r].installed
      BY <1>3, ReadExpectedMeans, HashArtifactMeans, OpenArtifactMeans
         DEF Moved, Keeps, Fields, Looking, Binding
    <2> QED BY <1>1, <2>1
  <1>4. CASE HashLock(r) \/ RecheckRevision(r) \/ RecheckStatus(r)
    <2>1. /\ pc[r] \in Looking /\ pc'[r] \notin Binding
          /\ held'[r].quality = held[r].quality /\ held'[r].installed = held[r].installed
      BY <1>4, HashLockMeans, RecheckRevisionMeans, RecheckStatusMeans DEF Moved, Keeps, Fields, Looking, Binding
    <2> QED BY <1>1, <2>1
  <1>5. CASE RecheckFiles(r)
    <2>1. /\ pc[r] = "refiles" /\ pc'[r] = (IF r \in Preparers THEN "create" ELSE "quality")
          /\ held'[r].quality = held[r].quality /\ held'[r].installed = held[r].installed
          /\ held'[r].at = held[r].at
      BY <1>5, RecheckFilesMeans DEF Moved, Keeps, Fields
    <2>2. held[r].quality = <<>> /\ held[r].installed = <<>> /\ held[r].at = 1
      BY <2>1 DEF RunInv, Position, Matrix, Looking
    <2>3. pc'[r] \in {"create", "quality"} /\ (r \in Verifiers => pc'[r] = "quality")
      BY <2>1, MatrixAssumption
    <2>4. held'[r].quality = <<>> /\ held'[r].installed = <<>> /\ Len(held'[r].quality) = 0
      BY <2>1, <2>2
    <2> QED BY <1>0, <2>1, <2>2, <2>3, <2>4 DEF Matrix, Looking, Binding
  <1>6. ASSUME pc[r] \in OfVerify \ {"read"}
        PROVE  r \in Verifiers /\ pc[r] \in Binding /\ pc[r] \in Going /\ pc[r] \notin Looking
               /\ pc[r] \notin {"read", "revision", "status", "files"}
    BY <1>6 DEF RunInv, Reading, Runs, OfVerify, Binding, Going, Seen, Looking
  <1>7. CASE CheckQuality(r)
    <2>1. /\ pc[r] = "quality" /\ pc'[r] = "quality-record"
          /\ held'[r].quality = held[r].quality /\ held'[r].installed = held[r].installed
          /\ held'[r].at = held[r].at
      BY <1>7, CheckQualityMeans DEF Moved, Keeps, Fields
    <2>2. r \in Verifiers /\ pc[r] \in Binding /\ pc[r] \in Going
      BY <1>6, <2>1 DEF OfVerify
    <2> QED BY <2>1, <2>2 DEF RunInv, Matrix, Recorded, Binding, Going, Seen, Looking
  <1>8. CASE CheckInstalled(r)
    <2>1. /\ pc[r] = "installed" /\ pc'[r] = "installed-record"
          /\ held'[r].quality = held[r].quality /\ held'[r].installed = held[r].installed
          /\ held'[r].at = held[r].at
      BY <1>8, CheckInstalledMeans DEF Moved, Keeps, Fields
    <2>2. r \in Verifiers /\ pc[r] \in Binding /\ pc[r] \in Going
      BY <1>6, <2>1 DEF OfVerify
    <2> QED BY <2>1, <2>2 DEF RunInv, Matrix, Recorded, Python, Binding, Going, Seen, Looking
  <1>9. CASE HashManifest(r)
    <2>1. /\ pc[r] = "manifest" /\ pc'[r] = "create"
          /\ held'[r].quality = held[r].quality /\ held'[r].installed = held[r].installed
      BY <1>9, HashManifestMeans DEF Moved, Keeps, Fields
    <2>2. r \in Verifiers /\ pc[r] \in Binding /\ pc[r] \in Going
      BY <1>6, <2>1 DEF OfVerify
    <2> QED BY <2>1, <2>2 DEF RunInv, Matrix, Recorded, Binding, Going, Seen, Looking
  <1>10. CASE RecordQuality(r)
    <2> DEFINE n == Len(held[r].quality)
               new == quality[PYTHONS[n + 1]]
    <2>1. /\ pc[r] = "quality-record" /\ pc'[r] = "installed"
          /\ held'[r].quality = Append(held[r].quality, new)
          /\ held'[r].installed = held[r].installed /\ held'[r].at = held[r].at
      BY <1>10, RecordQualityMeans DEF Moved, Keeps, Fields
    <2>2. r \in Verifiers /\ pc[r] \in Binding /\ pc[r] \in Going
      BY <1>6, <2>1 DEF OfVerify
    <2>3. n \in Nat /\ n < Len(PYTHONS) /\ held[r].at = 1 /\ held[r].quality \in Seq(Qualities)
      BY <1>0, <2>1, <2>2 DEF RunInv, Matrix
    <2>4. new \in Qualities
      BY <1>0, <2>3, FirstPlaces DEF ReceiptsOK
    <2> HIDE DEF new
    <2>5. held'[r].quality \in Seq(Qualities) /\ Len(held'[r].quality) = n + 1
      BY <2>1, <2>3, <2>4
    <2>6. \A j \in 1 .. n : \A a \in Dists : Recorded(r, PYTHONS[j], a)
      BY <2>1, <2>2 DEF RunInv, Matrix
    <2>7. \A p, a : Recorded(r, p, a)' <=> Recorded(r, p, a)
      BY <2>1 DEF Recorded
    <2>8. \A j \in 1 .. n + 1 : j = n + 1 \/ j \in 1 .. n
      BY <2>3
    <2>9. held'[r].at \in DOMAIN Artifacts /\ 1 .. held'[r].at - 1 = {}
      BY <2>1, <2>3, FirstPlaces
    <2> HIDE DEF n
    <2> QED BY <1>0, <2>1, <2>2, <2>3, <2>5, <2>6, <2>7, <2>8, <2>9
            DEF Matrix, Binding, Going, Seen, Looking
  <1>11. CASE RecordInstalled(r)
    <2>a. PICK n : n = Len(held[r].quality)
      OBVIOUS
    <2>b. PICK i : i = held[r].at
      OBVIOUS
    <2> DEFINE new == [python |-> Python(r), artifact |-> Artifacts[i],
                       receipts |-> [s \in Schemas |-> installed[<<Python(r), Artifacts[i], s>>]]]
               Later(p, a) == \E k \in DOMAIN held'[r].installed :
                                 held'[r].installed[k].python = p /\ held'[r].installed[k].artifact = a
    <2>1. /\ pc[r] = "installed-record" /\ held'[r].quality = held[r].quality
          /\ held'[r].installed = Append(held[r].installed, new)
          /\ \/ i # Len(Artifacts) /\ pc'[r] = "installed" /\ held'[r].at = i + 1
             \/ /\ i = Len(Artifacts) /\ held'[r].at = 1
                /\ n < Len(PYTHONS) /\ pc'[r] = "quality"
             \/ /\ i = Len(Artifacts) /\ held'[r].at = 1
                /\ ~(n < Len(PYTHONS)) /\ pc'[r] = "manifest"
      BY <1>11, <2>a, <2>b, RecordInstalledMeans DEF Moved, Keeps, Fields
    <2>2. r \in Verifiers /\ pc[r] \in Binding /\ pc[r] \in Going
      BY <1>6, <2>1 DEF OfVerify
    <2>3. /\ n \in 1 .. Len(PYTHONS) /\ i \in DOMAIN Artifacts /\ i \in Nat
          /\ n \in Nat /\ (n < Len(PYTHONS) \/ n = Len(PYTHONS))
      BY <1>0, <2>a, <2>b, <2>1, <2>2, FirstPlaces DEF RunInv, Matrix
    <2>3a. held[r].installed \in Seq(Cells) /\ held[r].quality \in Seq(Qualities)
      BY <1>0, <2>2
    <2>4. Python(r) = PYTHONS[n] /\ PYTHONS[n] \in Pythons /\ Artifacts[i] \in Dists
      BY <2>a, <2>3, FirstPlaces DEF Python
    <2>5. new \in Cells
      <3>1. \A s \in Schemas : installed[<<Python(r), Artifacts[i], s>>] \in Acceptances
        BY <2>4 DEF ReceiptsOK
      <3> QED BY <2>4, <3>1 DEF Cells
    <2>6. new.python = PYTHONS[n] /\ new.artifact = Artifacts[i]
      BY <2>4
    <2> HIDE DEF new
    <2>7. /\ held'[r].installed \in Seq(Cells)
          /\ \A k \in DOMAIN held[r].installed : /\ k \in DOMAIN held'[r].installed
                                                 /\ held'[r].installed[k] = held[r].installed[k]
          /\ \E k \in DOMAIN held'[r].installed : held'[r].installed[k] = new
      <3>1. held'[r].installed = Append(held[r].installed, new)
        BY <2>1
      <3>2. /\ Append(held[r].installed, new) \in Seq(Cells)
            /\ \A k \in DOMAIN held[r].installed :
                 /\ k \in DOMAIN Append(held[r].installed, new)
                 /\ Append(held[r].installed, new)[k] = held[r].installed[k]
            /\ \E k \in DOMAIN Append(held[r].installed, new) : Append(held[r].installed, new)[k] = new
        <4> PICK s \in Seq(Cells) : s = held[r].installed
          BY <2>3a
        <4> PICK x \in Cells : x = new
          BY <2>5
        <4>1. /\ Append(s, x) \in Seq(Cells)
              /\ \A k \in DOMAIN s : k \in DOMAIN Append(s, x) /\ Append(s, x)[k] = s[k]
              /\ \E k \in DOMAIN Append(s, x) : Append(s, x)[k] = x
          BY Longer
        <4> QED BY <4>1
      <3> HIDE DEF Later
      <3> QED BY <3>1, <3>2
    <2>8. \A p, a : Recorded(r, p, a) \/ (p = PYTHONS[n] /\ a = Artifacts[i]) => Later(p, a)
      <3>1. ASSUME NEW p, NEW a, Recorded(r, p, a) PROVE Later(p, a)
        <4>1. PICK k \in DOMAIN held[r].installed :
                held[r].installed[k].python = p /\ held[r].installed[k].artifact = a
          BY <3>1 DEF Recorded
        <4>2. /\ k \in DOMAIN held'[r].installed
              /\ held'[r].installed[k].python = p /\ held'[r].installed[k].artifact = a
          BY <2>7, <4>1
        <4> QED BY <4>2
      <3>2. Later(PYTHONS[n], Artifacts[i])
        BY <2>6, <2>7
      <3> QED BY <3>1, <3>2
    <2> HIDE DEF Later
    <2>9. /\ \A k \in 1 .. i - 1 : Recorded(r, PYTHONS[n], Artifacts[k])
          /\ \A j \in 1 .. n : \A a \in Dists : j = n \/ Recorded(r, PYTHONS[j], a)
      BY <2>a, <2>b, <2>1, <2>2, <2>4 DEF RunInv, Matrix
    <2>10. \A k \in 1 .. i : Later(PYTHONS[n], Artifacts[k])
      <3>1. \A k \in 1 .. i : k = i \/ k \in 1 .. i - 1
        BY <2>3, Before
      <3> QED BY <2>8, <2>9, <3>1
    <2>11. \A j \in 1 .. n : \A a \in Dists : j = n \/ Later(PYTHONS[j], a)
      BY <2>8, <2>9
    <2>12. Python(r)' = PYTHONS[n]
      BY <2>a, <2>1 DEF Python
    <2>13. held'[r].quality \in Seq(Qualities) /\ Len(held'[r].quality) = n
      BY <2>a, <2>1, <2>3a
    <2>14. CASE i # Len(Artifacts)
      <3>1. pc'[r] = "installed" /\ held'[r].at = i + 1
        BY <2>1, <2>14
      <3>2. i + 1 \in DOMAIN Artifacts /\ (i + 1) - 1 = i
        BY <2>3, <2>14, NextPlace
      <3>3. held'[r].at \in DOMAIN Artifacts /\ held'[r].at - 1 = i
        BY <3>1, <3>2
      <3>4. \A k \in 1 .. held'[r].at - 1 : Later(Python(r)', Artifacts[k])
        BY <2>10, <2>12, <3>3
      <3> QED BY <2>2, <2>3, <2>7, <2>11, <2>13, <3>1, <3>3, <3>4
              DEF Later, Recorded, Matrix, Binding, Going, Seen, Looking
    <2>15. CASE i = Len(Artifacts)
      <3>1. held'[r].at = 1 /\ pc'[r] \in {"quality", "manifest"}
            /\ (pc'[r] = "quality" => n < Len(PYTHONS)) /\ (pc'[r] = "manifest" => n = Len(PYTHONS))
        <4>1. \/ held'[r].at = 1 /\ n < Len(PYTHONS) /\ pc'[r] = "quality"
              \/ held'[r].at = 1 /\ ~(n < Len(PYTHONS)) /\ pc'[r] = "manifest"
          BY <2>1, <2>15, Zenon
        <4>2. \/ n < Len(PYTHONS) /\ n # Len(PYTHONS)
              \/ ~(n < Len(PYTHONS)) /\ n = Len(PYTHONS)
          BY <2>3, LastPlace, Zenon
        <4>3. CASE held'[r].at = 1 /\ n < Len(PYTHONS) /\ pc'[r] = "quality"
          BY <4>3
        <4>4. CASE held'[r].at = 1 /\ ~(n < Len(PYTHONS)) /\ pc'[r] = "manifest"
          BY <4>2, <4>4, Zenon
        <4> QED BY <4>1, <4>3, <4>4, Zenon
      <3>2. \A a \in Dists : Later(PYTHONS[n], a)
        <4>1. \A a \in Dists : \E k \in 1 .. i : a = Artifacts[k]
          BY <2>15, FirstPlaces DEF Dists
        <4> QED BY <2>10, <4>1
      <3>3. \A j \in 1 .. n : \A a \in Dists : Later(PYTHONS[j], a)
        BY <2>11, <3>2
      <3> QED BY <2>2, <2>3, <2>7, <2>13, <3>1, <3>3 DEF Later, Recorded, Matrix, Binding, Going, Seen, Looking
    <2> QED BY <2>14, <2>15
  <1> QED BY <1>2, <1>3, <1>4, <1>5, <1>7, <1>8, <1>9, <1>10, <1>11 DEF Look

LEMMA RunRead ==
  ASSUME Typed, ManifestInv, NEW r \in Runs, RunInv(r), Look(r)
  PROVE  RunInv(r)'
  <1>1. CASE Dropped(r)
    BY <1>1, OverClaimsNothing DEF Dropped, Moved
  <1>2. CASE ~Dropped(r)
    BY <1>2, SnapshotRead, ExpectationRead, PositionRead, HashesRead, ReadingRead, MatrixRead DEF RunInv
  <1> QED BY <1>1, <1>2

-----------------------------------------------------------------------------
(* The two files that are published *)

\* Beginning and publishing keep what a run knows.
LEMMA BeginKeeps ==
  ASSUME Typed, NEW r \in Runs, RunInv(r), Begin(r)
  PROVE  RunInv(r)'
  <1>1. MemoryOK /\ r \in Preparers \cup Verifiers
    BY DEF Typed, Runs
  <1>2. CASE Moved(r, "rejected")
    BY <1>2, OverClaimsNothing DEF Moved
  <1>3. CASE Moved(r, IF r \in Verifiers THEN "read" ELSE "revision")
    <2>1. /\ pc'[r] \in {"read", "revision"} /\ (r \in Preparers => pc'[r] = "revision")
          /\ (r \in Verifiers => pc'[r] = "read")
      BY <1>1, <1>3, MatrixAssumption DEF Moved
    <2>2. held'[r] = NoMemory
      BY <1>1, BeginMeans DEF RunInv, Position
    <2>3. held'[r].artifacts = <<>> /\ held'[r].at = 1 /\ held'[r].quality = <<>> /\ held'[r].installed = <<>>
      BY <2>2 DEF NoMemory
    <2>4. Snapshot(r)' /\ Expectation(r)'
      BY <2>1 DEF Snapshot, Expectation, Seen, Looking, Binding
    <2>5. Position(r)'
      BY <2>1, <2>3 DEF Position, Seen, Looking, Binding
    <2>6. Hashes(r)'
      BY <2>3 DEF Hashes
    <2>7. Reading(r)'
      BY <2>1 DEF Reading, OfVerify, Binding
    <2>8. Matrix(r)'
      BY <2>1, <2>3 DEF Matrix, Binding
    <2> QED BY <2>4, <2>5, <2>6, <2>7, <2>8 DEF RunInv
  <1> QED BY <1>1, <1>2, <1>3, BeginMeans

LEMMA CreateKeeps ==
  ASSUME Typed, NEW r \in Runs, RunInv(r), Create(r)
  PROVE  RunInv(r)'
  <1>1. MemoryOK /\ r \in Preparers \cup Verifiers
    BY DEF Typed, Runs
  <1>2. CASE Dropped(r)
    BY <1>2, OverClaimsNothing DEF Dropped, Moved
  <1>3. CASE ~Dropped(r)
    <2>1. /\ pc[r] = "create" /\ pc'[r] = "write" /\ held'[r] = held[r] /\ UNCHANGED <<source, dist>>
          /\ r \in Preparers \/ manifest' = manifest
      BY <1>1, <1>3, CreateMeans DEF Moved, world
    <2>2. Snapshot(r)' /\ Expectation(r)'
      BY <2>1 DEF RunInv, Snapshot, Expectation, Seen, Looking, Binding, State
    <2>3. Position(r)'
      BY <2>1 DEF RunInv, Position, Seen, Looking, Binding
    <2>4. Hashes(r)'
      BY <2>1 DEF RunInv, Hashes, Going, Seen, Looking, Binding
    <2>5. Reading(r)'
      <3>1. CASE r \in Preparers
        BY <2>1, <3>1, MatrixAssumption DEF Reading, OfVerify
      <3>2. CASE r \in Verifiers /\ manifest' = manifest
        <4>1. Prepared(r)' = Prepared(r)
          BY <2>1 DEF Prepared
        <4> QED BY <2>1, <3>2, <4>1, MatrixAssumption DEF RunInv, Reading, OfVerify, Going, Seen, Looking, Binding
      <3> QED BY <1>1, <2>1, <3>1, <3>2
    <2>6. Matrix(r)'
      BY <2>1 DEF RunInv, Matrix, Recorded, Python, Going, Seen, Looking, Binding
    <2> QED BY <2>2, <2>3, <2>4, <2>5, <2>6 DEF RunInv
  <1> QED BY <1>2, <1>3

\* Before it writes, a run was at its create.
LEMMA LookWritesNothing ==
  ASSUME Typed, NEW r \in Runs, Look(r)
  PROVE  pc[r] \in Going /\ pc'[r] # "write" /\ pc'[r] # "done"
  <1>0. MemoryOK
    BY DEF Typed
  <1>1. CASE Dropped(r)
    <2>1. pc[r] \in Going
      BY DEF Look, ReadManifest, ReadRevision, ReadStatus, ReadFiles, ReadExpected, HashArtifact, OpenArtifact, HashLock,
             RecheckRevision, RecheckStatus, RecheckFiles, CheckQuality, RecordQuality, CheckInstalled, RecordInstalled,
             HashManifest, Going, Seen, Looking, Binding
    <2> QED BY <1>1, <2>1 DEF Dropped, Moved
  <1>2. CASE ~Dropped(r) /\ (ReadManifest(r) \/ ReadRevision(r) \/ ReadStatus(r) \/ ReadFiles(r))
    BY <1>0, <1>2, FirstPasses DEF Going
  <1>3. CASE ReadExpected(r) \/ HashArtifact(r) \/ HashLock(r)
    BY <1>0, <1>3, ReadExpectedMeans, HashArtifactMeans, HashLockMeans DEF Moved, Going, Seen, Looking
  <1>4. CASE ~Dropped(r) /\ (OpenArtifact(r) \/ RecheckRevision(r) \/ RecheckStatus(r))
    BY <1>0, <1>4, OpenArtifactMeans, RecheckRevisionMeans, RecheckStatusMeans DEF Moved, Going, Seen, Looking
  <1>5. CASE ~Dropped(r) /\ RecheckFiles(r)
    BY <1>0, <1>5, RecheckFilesMeans DEF Moved, Going, Seen, Looking
  <1>6. CASE /\ ~Dropped(r)
             /\ \/ CheckQuality(r) \/ RecordQuality(r) \/ CheckInstalled(r) \/ RecordInstalled(r)
                \/ HashManifest(r)
    <2>1. pc[r] \in OfVerify \ {"read"} /\ pc'[r] \in Binding \ {"write"}
      BY <1>0, <1>6, BindingPasses
    <2> QED BY <2>1 DEF OfVerify, Going, Seen, Binding
  <1> QED BY <1>1, <1>2, <1>3, <1>4, <1>5, <1>6 DEF Look

LEMMA WritersKept ==
  ASSUME Typed, Writers, [Next]_vars
  PROVE  Writers'
  <1> USE DEF Typed
  <1>1. ASSUME Environment \/ UNCHANGED vars PROVE Writers'
    <2>1. UNCHANGED <<manifest, candidate, pc>>
      BY <1>1, EnvironmentMeans DEF vars, memory, history
    <2> QED BY <2>1 DEF Writers, Output
  <1>2. ASSUME NEW r \in Runs, Begin(r) \/ Look(r) \/ Crash(r) PROVE Writers'
    <2>1. UNCHANGED <<manifest, candidate>> /\ pc'[r] # "write" /\ Others(r)
      <3>1. CASE Begin(r)
        BY <3>1, BeginMeans DEF Begin, Moved
      <3>2. CASE Look(r)
        BY <3>2, LookWritesNothing, LookTypes
      <3>3. CASE Crash(r)
        BY <3>3, CrashMeans DEF Moved
      <3> QED BY <1>2, <3>1, <3>2, <3>3
    <2>2. \A q \in Runs : pc'[q] = "write" => pc[q] = "write"
      BY <2>1 DEF Others
    <2> QED BY <2>1, <2>2 DEF Writers, Output
  <1>3. ASSUME NEW r \in Runs, Create(r) PROVE Writers'
    <2>1. CASE Output(r) # None /\ Dropped(r) /\ UNCHANGED <<manifest, candidate>>
      <3>1. \A q \in Runs : pc'[q] = "write" => pc[q] = "write"
        BY <2>1 DEF Dropped, Moved, Others
      <3> QED BY <2>1, <3>1 DEF Writers, Output
    <2>2. CASE /\ Output(r) = None /\ held' = held /\ Moved(r, "write")
               /\ IF r \in Preparers THEN manifest' = Torn /\ UNCHANGED candidate
                                     ELSE candidate' = Torn /\ UNCHANGED manifest
      <3>1. \A q \in Runs : pc'[q] = "write" => q = r \/ (pc[q] = "write" /\ Output(q) = Torn)
        BY <2>2 DEF Moved, Others, Writers
      <3>2. \A q \in Runs : pc'[q] = "write" /\ (q \in Preparers <=> r \in Preparers) => q = r
        BY <2>2, <3>1, NoneTorn DEF Output
      <3>3. \A q \in Runs : ~(q \in Preparers <=> r \in Preparers) => Output(q)' = Output(q)
        BY <2>2 DEF Output
      <3>4. Output(r)' = Torn
        BY <2>2 DEF Output
      <3>5. \A q \in Runs : pc'[q] = "write" => Output(q)' = Torn
        BY <3>1, <3>2, <3>3, <3>4
      <3>6. ASSUME NEW p \in Runs, NEW q \in Runs, pc'[p] = "write", pc'[q] = "write",
                   p \in Preparers <=> q \in Preparers
            PROVE  p = q
        <4>1. CASE p = r \/ q = r
          BY <3>2, <3>6, <4>1
        <4>2. CASE p # r /\ q # r
          <5>1. pc[p] = "write" /\ pc[q] = "write"
            BY <3>1, <3>6, <4>2
          <5> QED BY <3>6, <5>1 DEF Writers
        <4> QED BY <4>1, <4>2
      <3> QED BY <3>5, <3>6 DEF Writers
    <2> QED BY <1>3, <2>1, <2>2, CreateMeans
  <1>4. ASSUME NEW r \in Runs, Write(r) PROVE Writers'
    <2>1. /\ pc[r] = "write" /\ Moved(r, "done")
          /\ IF r \in Preparers THEN UNCHANGED candidate ELSE UNCHANGED manifest
      BY <1>4, WriteMeans
    <2>2. \A q \in Runs : pc'[q] = "write" => pc[q] = "write" /\ q # r
      BY <2>1 DEF Moved, Others
    <2>3. \A q \in Runs : pc'[q] = "write" => ~(q \in Preparers <=> r \in Preparers)
      BY <2>1, <2>2 DEF Writers
    <2>4. \A q \in Runs : ~(q \in Preparers <=> r \in Preparers) => Output(q)' = Output(q)
      BY <2>1 DEF Output
    <2>5. \A q \in Runs : pc'[q] = "write" => Output(q)' = Torn
      BY <2>2, <2>3, <2>4 DEF Writers
    <2> QED BY <2>2, <2>5 DEF Writers
  <1> QED BY <1>1, <1>2, <1>3, <1>4 DEF Next, Environment

\* A manifest that was published stays.
LEMMA ManifestStays ==
  ASSUME Typed, Writers, [Next]_vars, manifest.kind = "manifest"
  PROVE  manifest' = manifest
  <1> USE DEF Typed
  <1>1. CASE Environment \/ UNCHANGED vars
    BY <1>1, EnvironmentMeans DEF vars
  <1>2. ASSUME NEW r \in Runs, Begin(r) \/ Look(r) \/ Crash(r) PROVE manifest' = manifest
    BY <1>2, LookTypes, CrashMeans DEF Begin
  <1>3. ASSUME NEW r \in Runs, Create(r) PROVE manifest' = manifest
    BY <1>3, CreateMeans, NoneTorn DEF Output
  <1>4. ASSUME NEW r \in Runs, Write(r) PROVE manifest' = manifest
    <2>1. /\ pc[r] = "write"
          /\ r \notin Preparers => manifest' = manifest
      BY <1>4, WriteMeans
    <2>2. r \notin Preparers
      BY <2>1, NoneTorn DEF Writers, Output
    <2> QED BY <2>1, <2>2
  <1> QED BY <1>1, <1>2, <1>3, <1>4 DEF Next, Environment

\* Who a step belongs to.
LEMMA StepGrows ==
  ASSUME Typed, [Next]_vars
  PROVE  Grows
  <1> USE DEF Typed
  <1>1. CASE Environment
    BY <1>1, EnvironmentMeans
  <1>2. CASE UNCHANGED vars
    BY <1>2, StaysGrown DEF vars, world
  <1>3. ASSUME NEW r \in Runs, Begin(r) \/ Look(r) \/ Create(r) \/ Write(r) \/ Crash(r) PROVE Grows
    <2>1. UNCHANGED world
      BY <1>3, LookTypes, CreateMeans, WriteMeans, CrashMeans DEF Begin
    <2> QED BY <2>1, StaysGrown DEF world
  <1> QED BY <1>1, <1>2, <1>3 DEF Next, Environment

LEMMA RunKept ==
  ASSUME Typed, ManifestInv, Writers, NEW q \in Runs, RunInv(q), [Next]_vars
  PROVE  RunInv(q)'
  <1>1. Typed' /\ Grows /\ (manifest.kind = "manifest" => manifest' = manifest)
    BY TypedKept, StepGrows, ManifestStays
  <1>2. CASE pc'[q] = pc[q] /\ held'[q] = held[q]
    BY <1>1, <1>2, RunStays
  <1>3. CASE Environment \/ UNCHANGED vars
    <2>1. pc'[q] = pc[q] /\ held'[q] = held[q]
      BY <1>3, EnvironmentMeans DEF vars, memory, history
    <2> QED BY <1>2, <2>1
  <1>4. ASSUME NEW r \in Runs, Begin(r) \/ Look(r) \/ Create(r) \/ Write(r) \/ Crash(r) PROVE RunInv(q)'
    <2>1. Others(r)
      BY <1>4, BeginMeans, LookTypes, CreateMeans, WriteMeans, CrashMeans DEF Typed, Moved, Dropped
    <2>2. CASE q # r
      <3>1. pc'[q] = pc[q] /\ held'[q] = held[q]
        BY <2>1, <2>2 DEF Others
      <3> QED BY <1>2, <3>1
    <2>3. CASE q = r
      <3>1. CASE Write(r) \/ Crash(r)
        <4>1. pc'[q] \in {"rejected", "done", "dead"}
          BY <2>3, <3>1, WriteMeans, CrashMeans DEF Typed, Moved
        <4> QED BY <4>1, OverClaimsNothing
      <3> QED BY <1>4, <2>3, <3>1, BeginKeeps, CreateKeeps, RunRead
    <2> QED BY <2>2, <2>3
  <1> QED BY <1>3, <1>4 DEF Next, Environment

\* What a run at its last step knows of its inventory.
LEMMA Inventory ==
  ASSUME Typed, NEW r \in Runs, RunInv(r), pc[r] = "write"
  PROVE  /\ State(held[r].source) /\ \A p \in Hashed : held[r].source.files[p] <= source[p]
         /\ held[r].artifacts \in Seq(Builds) /\ Len(held[r].artifacts) = Len(Artifacts)
         /\ DOMAIN held[r].artifacts = DOMAIN Artifacts
         /\ \A i \in DOMAIN Artifacts :
              \/ held[r].artifacts[i].engine = held[r].source.files.engine
              \/ held[r].artifacts[i].build < dist[Artifacts[i]].build
  <1>1. /\ State(held[r].source) /\ \A p \in Hashed : held[r].source.files[p] <= source[p]
        /\ held[r].expected = held[r].source.files.engine
    BY DEF RunInv, Snapshot, Expectation, Seen, Binding
  <1>2. held[r].artifacts \in Seq(Builds) /\ Len(held[r].artifacts) = Len(Artifacts)
    BY DEF RunInv, Position, Hashes, Going, Seen, Looking, Binding
  <1>3. DOMAIN held[r].artifacts = DOMAIN Artifacts
    BY <1>2, FirstPlaces
  <1>4. \A i \in DOMAIN held[r].artifacts :
          \/ held[r].artifacts[i].engine = held[r].expected
          \/ held[r].artifacts[i].build < dist[Artifacts[i]].build
    BY DEF RunInv, Hashes, Going, Seen, Looking, Binding
  <1> QED BY <1>1, <1>2, <1>3, <1>4

LEMMA ManifestKept ==
  ASSUME Typed, ManifestInv, \A r \in Runs : RunInv(r), [Next]_vars
  PROVE  ManifestInv'
  <1>1. Typed' /\ Grows
    BY TypedKept, StepGrows
  <1>2. CASE manifest' = manifest
    <2>1. ASSUME NEW i \in DOMAIN Artifacts, manifest.artifacts \in Seq(Builds),
                 Len(manifest.artifacts) = Len(Artifacts),
                 manifest.artifacts[i].build < dist[Artifacts[i]].build
          PROVE  manifest.artifacts[i].build < dist'[Artifacts[i]].build
      <3>1. manifest.artifacts[i] \in Builds
        BY <2>1, FirstPlaces
      <3>2. dist[Artifacts[i]] \in Builds /\ dist'[Artifacts[i]] \in Builds
            /\ dist[Artifacts[i]].build <= dist'[Artifacts[i]].build
        BY <1>1, FirstPlaces DEF Typed, WorldOK, Grows, Grown
      <3> QED BY <2>1, <3>1, <3>2 DEF Builds
    <2>2. ASSUME State(manifest.source), NEW p \in Hashed, manifest.source.files[p] <= source[p]
          PROVE  manifest.source.files[p] <= source'[p]
      <3>1. manifest.source.files[p] \in Nat /\ source[p] \in Nat /\ source'[p] \in Nat /\ source[p] <= source'[p]
        BY <1>1, <2>2 DEF State, FileVersions, Hashed, Typed, WorldOK, Grows
      <3> QED BY <2>2, <3>1
    <2> QED BY <1>2, <2>1, <2>2 DEF ManifestInv, State
  <1>3. CASE Environment \/ UNCHANGED vars
    BY <1>2, <1>3, EnvironmentMeans DEF vars
  <1>4. ASSUME NEW r \in Runs, Begin(r) \/ Look(r) \/ Crash(r) PROVE ManifestInv'
    <2>1. manifest' = manifest
      BY <1>4, LookTypes, CrashMeans DEF Typed, Begin
    <2> QED BY <1>2, <2>1
  <1>5. ASSUME NEW r \in Runs, Create(r) PROVE ManifestInv'
    <2>1. manifest' = manifest \/ manifest' = Torn
      BY <1>5, CreateMeans DEF Typed
    <2>2. CASE manifest' = Torn
      BY <2>2 DEF ManifestInv, Torn, None
    <2> QED BY <1>2, <2>1, <2>2
  <1>6. ASSUME NEW r \in Runs, Write(r) PROVE ManifestInv'
    <2>1. /\ pc[r] = "write" /\ UNCHANGED <<source, dist>>
          /\ manifest' = manifest \/ manifest' = Prepared(r)
      BY <1>6, WriteMeans DEF Typed, world
    <2>2. CASE manifest' = Prepared(r)
      <3>1. /\ State(held[r].source) /\ \A p \in Hashed : held[r].source.files[p] <= source[p]
            /\ held[r].artifacts \in Seq(Builds) /\ Len(held[r].artifacts) = Len(Artifacts)
            /\ \A i \in DOMAIN Artifacts :
                 \/ held[r].artifacts[i].engine = held[r].source.files.engine
                 \/ held[r].artifacts[i].build < dist[Artifacts[i]].build
        BY <2>1, Inventory
      <3>2. manifest' = [kind |-> "manifest", source |-> held[r].source, artifacts |-> held[r].artifacts,
                         lock |-> held[r].lock]
        BY <2>2 DEF Prepared
      <3>3. /\ manifest'.source = held[r].source /\ manifest'.artifacts = held[r].artifacts
            /\ manifest'.lock = held[r].lock
        BY <3>2
      <3> QED BY <2>1, <3>1, <3>2, <3>3 DEF ManifestInv, State
    <2> QED BY <1>2, <2>1, <2>2
  <1> QED BY <1>3, <1>4, <1>5, <1>6 DEF Next, Environment

-----------------------------------------------------------------------------
(* The receipts *)

Bound(r) == pc[r] \in Binding /\ ~late[r]

\* What changes behind a bound run marks it as late, but for the records.
LEMMA EnvironmentMarks ==
  ASSUME Typed, Environment, NEW r \in Runs, Bound(r)'
  PROVE  Bound(r) /\ UNCHANGED <<quality, installed>> /\ Files' = Files
  <1>1. pc' = pc
    BY EnvironmentMeans
  <1>2. Bound(r) /\ FilesStay /\ UNCHANGED <<quality, installed>>
    BY <1>1, WitnessMeans DEF Bound
  <1> QED BY <1>2 DEF FilesStay, Files

LEMMA FilesNamed ==
  ASSUME Typed
  PROVE  Files.fixtures = source.fixtures /\ Files.harness = source.harness
  BY FilesTyped DEF Typed, Hashed, Parts

LEMMA HoldsKept ==
  ASSUME Typed, Typed', UNCHANGED <<quality, installed>>, Files' = Files
  PROVE  /\ \A p : QualityHolds(p) => QualityHolds(p)'
         /\ \A p, a, x : InstalledHolds(p, a, x) => InstalledHolds(p, a, x)'
  <1>1. source'.fixtures = source.fixtures /\ source'.harness = source.harness
    <2>1. Files'.fixtures = source'.fixtures /\ Files'.harness = source'.harness
      BY DEF Files, Parts
    <2> QED BY <2>1, FilesNamed
  <1>2. ASSUME NEW p, QualityHolds(p) PROVE QualityHolds(p)'
    <2>1. quality'[p] = quality[p]
      OBVIOUS
    <2> QED BY <1>1, <1>2, <2>1 DEF QualityHolds, TestsHold
  <1>3. ASSUME NEW p, NEW a, NEW x, InstalledHolds(p, a, x) PROVE InstalledHolds(p, a, x)'
    <2>1. installed' = installed
      OBVIOUS
    <2>2. \A c : ReceiptHolds(installed[c], x) => ReceiptHolds(installed[c], x)'
      BY <1>1, <2>1 DEF ReceiptHolds
    <2> QED BY <1>3, <2>1, <2>2 DEF InstalledHolds
  <1> QED BY <1>2, <1>3

LEMMA UndisturbedStays ==
  ASSUME Typed, Typed', NEW r \in Runs, Undisturbed(r), pc'[r] = pc[r], held'[r] = held[r],
         Bound(r)' => Bound(r) /\ UNCHANGED <<quality, installed>> /\ Files' = Files
  PROVE  Undisturbed(r)'
  <1> SUFFICES ASSUME r \in Verifiers, Bound(r)' PROVE Undisturbed(r)'
    BY DEF Undisturbed, Bound
  <1>1. Bound(r) /\ UNCHANGED <<quality, installed>> /\ Files' = Files
    OBVIOUS
  <1>2. /\ \A p : QualityHolds(p) => QualityHolds(p)'
        /\ \A p, a, x : InstalledHolds(p, a, x) => InstalledHolds(p, a, x)'
    BY <1>1, HoldsKept
  <1>3. Python(r)' = Python(r)
    BY DEF Python
  <1>4. /\ Files = held[r].manifest.source.files
        /\ pc[r] = "quality-record" => QualityHolds(PYTHONS[Len(held[r].quality) + 1])
        /\ pc[r] = "installed-record" =>
             InstalledHolds(Python(r), Artifacts[held[r].at], held[r].manifest.artifacts[held[r].at])
    BY <1>1 DEF Undisturbed, Bound
  <1>5. pc'[r] = "quality-record" => QualityHolds(PYTHONS[Len(held[r].quality) + 1])'
    BY <1>2, <1>4
  <1>6. pc'[r] = "installed-record" =>
          InstalledHolds(Python(r), Artifacts[held[r].at], held[r].manifest.artifacts[held[r].at])'
    BY <1>2, <1>3, <1>4
  <1> QED BY <1>1, <1>4, <1>5, <1>6 DEF Undisturbed, Bound, QualityBound, InstalledBound

LEMMA QualityBinds ==
  ASSUME Typed, NEW p, QualityHolds(p)
  PROVE  QualityBound(quality[p], p, Files)
  BY FilesNamed DEF QualityHolds, TestsHold, QualityBound

LEMMA InstalledBinds ==
  ASSUME Typed, NEW p, NEW a, NEW x, InstalledHolds(p, a, x)
  PROVE  InstalledBound([s \in Schemas |-> installed[<<p, a, s>>]], x, Files)
  <1>1. \A s \in Schemas : ReceiptHolds(installed[<<p, a, s>>], x)
    BY DEF InstalledHolds
  <1>2. installed[<<p, a, "acceptance">>].venv = installed[<<p, a, "conformance">>].venv
    BY DEF InstalledHolds
  <1>3. "acceptance" \in Schemas /\ "conformance" \in Schemas
    BY DEF Schemas
  <1> QED BY <1>1, <1>2, <1>3, FilesNamed DEF ReceiptHolds, InstalledBound

\* What is bound before a step of verify stays so, the appended receipts are new.
BoundSoFar(r, files) ==
  /\ \A i \in DOMAIN held[r].quality : QualityBound(held[r].quality[i], PYTHONS[i], files)
  /\ \A i \in DOMAIN held[r].installed, k \in DOMAIN Artifacts :
       held[r].installed[i].artifact = Artifacts[k] =>
         InstalledBound(held[r].installed[i].receipts, held[r].manifest.artifacts[k], files)

LEMMA UndisturbedRead ==
  ASSUME Typed, NEW r \in Runs, RunInv(r), Undisturbed(r), Look(r), ~Dropped(r)
  PROVE  Undisturbed(r)'
  <1> USE DEF Typed
  <1> SUFFICES ASSUME r \in Verifiers, Bound(r)' PROVE Undisturbed(r)'
    BY DEF Undisturbed, Bound
  <1>0. UNCHANGED <<source, late, quality, installed>> /\ Files' = Files
    BY LookTypes DEF world, receipts, Files
  <1>1. CASE ReadManifest(r) \/ ReadRevision(r) \/ ReadStatus(r) \/ ReadFiles(r)
    BY <1>1, FirstPasses DEF Bound, Binding
  <1>2. CASE ReadExpected(r) \/ HashArtifact(r) \/ OpenArtifact(r) \/ HashLock(r) \/ RecheckRevision(r) \/ RecheckStatus(r)
    BY <1>2, ReadExpectedMeans, HashArtifactMeans, OpenArtifactMeans, HashLockMeans, RecheckRevisionMeans, RecheckStatusMeans
       DEF Moved, Bound, Binding
  <1>3. CASE RecheckFiles(r)
    <2>1. /\ pc[r] = "refiles" /\ pc'[r] = (IF r \in Preparers THEN "create" ELSE "quality")
          /\ Files = held[r].source.files /\ Prepared(r) = held[r].manifest
          /\ held'[r].manifest = held[r].manifest
          /\ held'[r].quality = held[r].quality /\ held'[r].installed = held[r].installed
      BY <1>3, RecheckFilesMeans DEF Moved, Keeps, Fields
    <2>2. pc'[r] = "quality"
      BY <2>1, MatrixAssumption
    <2>3. held'[r].quality = <<>> /\ held'[r].installed = <<>>
      BY <2>1 DEF RunInv, Matrix, Looking
    <2>4. held'[r].manifest.source.files = Files
      BY <2>1 DEF Prepared
    <2> QED BY <1>0, <2>2, <2>3, <2>4 DEF Undisturbed
  <1>4. ASSUME pc[r] \in Binding, held'[r].manifest = held[r].manifest
        PROVE  /\ Files' = held'[r].manifest.source.files
               /\ BoundSoFar(r, Files)
               /\ pc[r] = "quality-record" => QualityHolds(PYTHONS[Len(held[r].quality) + 1])
               /\ pc[r] = "installed-record" =>
                    InstalledHolds(Python(r), Artifacts[held[r].at], held[r].manifest.artifacts[held[r].at])
    BY <1>0, <1>4 DEF Undisturbed, Bound, BoundSoFar
  <1>5. ASSUME Files' = held'[r].manifest.source.files, BoundSoFar(r, Files)',
               pc'[r] \notin {"quality-record", "installed-record"}
        PROVE  Undisturbed(r)'
    BY <1>0, <1>5 DEF Undisturbed, BoundSoFar
  <1>6. CASE CheckQuality(r)
    <2>1. /\ pc[r] = "quality" /\ pc'[r] = "quality-record"
          /\ QualityHolds(PYTHONS[Len(held[r].quality) + 1])
          /\ held'[r].manifest = held[r].manifest
          /\ held'[r].quality = held[r].quality /\ held'[r].installed = held[r].installed
      BY <1>6, CheckQualityMeans DEF Moved, Keeps, Fields
    <2>2. Files' = held'[r].manifest.source.files /\ BoundSoFar(r, Files)'
      BY <1>0, <1>4, <2>1 DEF Binding, BoundSoFar
    <2>3. QualityHolds(PYTHONS[Len(held[r].quality) + 1])'
      BY <1>0, <2>1 DEF QualityHolds, TestsHold
    <2> QED BY <1>0, <2>1, <2>2, <2>3 DEF Undisturbed, BoundSoFar
  <1>7. CASE CheckInstalled(r)
    <2>1. /\ pc[r] = "installed" /\ pc'[r] = "installed-record"
          /\ InstalledHolds(Python(r), Artifacts[held[r].at], held[r].manifest.artifacts[held[r].at])
          /\ held'[r].manifest = held[r].manifest /\ held'[r].at = held[r].at
          /\ held'[r].quality = held[r].quality /\ held'[r].installed = held[r].installed
      BY <1>7, CheckInstalledMeans DEF Moved, Keeps, Fields
    <2>2. Files' = held'[r].manifest.source.files /\ BoundSoFar(r, Files)'
      BY <1>0, <1>4, <2>1 DEF Binding, BoundSoFar
    <2>3. InstalledHolds(Python(r), Artifacts[held[r].at], held[r].manifest.artifacts[held[r].at])'
      BY <1>0, <2>1 DEF InstalledHolds, ReceiptHolds, Python
    <2> QED BY <1>0, <2>1, <2>2, <2>3 DEF Undisturbed, BoundSoFar
  <1>8. CASE HashManifest(r)
    <2>1. /\ pc[r] = "manifest" /\ pc'[r] = "create" /\ held'[r].manifest = held[r].manifest
          /\ held'[r].quality = held[r].quality /\ held'[r].installed = held[r].installed
      BY <1>8, HashManifestMeans DEF Moved, Keeps, Fields
    <2>2. Files' = held'[r].manifest.source.files /\ BoundSoFar(r, Files)'
      BY <1>0, <1>4, <2>1 DEF Binding, BoundSoFar
    <2> QED BY <1>5, <2>1, <2>2
  <1>9. CASE RecordQuality(r)
    <2>a. PICK n : n = Len(held[r].quality)
      OBVIOUS
    <2> DEFINE new == quality[PYTHONS[n + 1]]
    <2>1. /\ pc[r] = "quality-record" /\ pc'[r] = "installed" /\ held'[r].manifest = held[r].manifest
          /\ held'[r].quality = Append(held[r].quality, new)
          /\ held'[r].installed = held[r].installed
      BY <1>9, <2>a, RecordQualityMeans DEF Moved, Keeps, Fields
    <2>2. Files' = held'[r].manifest.source.files /\ BoundSoFar(r, Files) /\ QualityHolds(PYTHONS[n + 1])
      BY <1>4, <2>a, <2>1 DEF Binding
    <2>3. held[r].quality \in Seq(Qualities) /\ n \in Nat /\ n < Len(PYTHONS)
      BY <2>a, <2>1 DEF RunInv, Matrix, Going, Seen, Binding
    <2>4. QualityBound(new, PYTHONS[n + 1], Files)
      BY <2>2, QualityBinds
    <2> HIDE DEF new
    <2>5. \A i \in DOMAIN held'[r].quality :
            \/ i \in DOMAIN held[r].quality /\ held'[r].quality[i] = held[r].quality[i]
            \/ i = n + 1 /\ held'[r].quality[i] = new
      BY <2>a, <2>1, <2>3
    <2>6. \A i \in DOMAIN held'[r].quality : QualityBound(held'[r].quality[i], PYTHONS[i], Files)
      BY <2>2, <2>4, <2>5 DEF BoundSoFar
    <2>7. BoundSoFar(r, Files)'
      BY <1>0, <2>1, <2>2, <2>6 DEF BoundSoFar
    <2> QED BY <1>5, <2>1, <2>2, <2>7
  <1>10. CASE RecordInstalled(r)
    <2>a. PICK j : j = held[r].at
      OBVIOUS
    <2> DEFINE taken == [s \in Schemas |-> installed[<<Python(r), Artifacts[j], s>>]]
               new == [python |-> Python(r), artifact |-> Artifacts[j], receipts |-> taken]
    <2>1. /\ pc[r] = "installed-record" /\ pc'[r] \in {"quality", "installed", "manifest"}
          /\ held'[r].manifest = held[r].manifest
          /\ held'[r].installed = Append(held[r].installed, new)
          /\ held'[r].quality = held[r].quality
      BY <1>10, <2>a, RecordInstalledMeans DEF Moved, Keeps, Fields
    <2>2. /\ Files' = held'[r].manifest.source.files /\ BoundSoFar(r, Files)
          /\ InstalledHolds(Python(r), Artifacts[j], held[r].manifest.artifacts[j])
      BY <1>4, <2>a, <2>1 DEF Binding
    <2>3. held[r].installed \in Seq(Cells) /\ j \in DOMAIN Artifacts
      BY <2>a, <2>1 DEF RunInv, Matrix, Going, Seen, Binding
    <2>4. InstalledBound(taken, held[r].manifest.artifacts[j], Files)
      BY <2>2, InstalledBinds
    <2>5. new.artifact = Artifacts[j] /\ new.receipts = taken
      OBVIOUS
    <2> HIDE DEF new, taken
    <2>6. \A i \in DOMAIN held'[r].installed :
            \/ i \in DOMAIN held[r].installed /\ held'[r].installed[i] = held[r].installed[i]
            \/ held'[r].installed[i] = new
      BY <2>1, <2>3
    <2>7. \A k \in DOMAIN Artifacts : Artifacts[k] = Artifacts[j] => k = j
      BY <2>3, MatrixAssumption
    <2>8. ASSUME NEW i \in DOMAIN held'[r].installed, NEW k \in DOMAIN Artifacts,
                 held'[r].installed[i].artifact = Artifacts[k]
          PROVE  InstalledBound(held'[r].installed[i].receipts, held[r].manifest.artifacts[k], Files)
      <3>1. CASE i \in DOMAIN held[r].installed /\ held'[r].installed[i] = held[r].installed[i]
        BY <2>2, <2>8, <3>1 DEF BoundSoFar
      <3>2. CASE held'[r].installed[i] = new
        <4>1. k = j
          BY <2>5, <2>7, <2>8, <3>2
        <4> QED BY <2>4, <2>5, <3>2, <4>1
      <3> QED BY <2>6, <3>1, <3>2
    <2>9. BoundSoFar(r, Files)'
      BY <1>0, <2>1, <2>2, <2>8 DEF BoundSoFar
    <2> QED BY <1>5, <2>1, <2>2, <2>9
  <1> QED BY <1>1, <1>2, <1>3, <1>6, <1>7, <1>8, <1>9, <1>10 DEF Look

LEMMA UndisturbedKept ==
  ASSUME Typed, NEW q \in Runs, RunInv(q), Undisturbed(q), [Next]_vars
  PROVE  Undisturbed(q)'
  <1>1. Typed'
    BY TypedKept
  <1>2. ASSUME Environment PROVE Undisturbed(q)'
    <2>1. pc'[q] = pc[q] /\ held'[q] = held[q]
      BY <1>2, EnvironmentMeans
    <2>2. Bound(q)' => Bound(q) /\ UNCHANGED <<quality, installed>> /\ Files' = Files
      BY <1>2, EnvironmentMarks
    <2> QED BY <1>1, <2>1, <2>2, UndisturbedStays
  <1>3. ASSUME pc'[q] = pc[q], held'[q] = held[q], UNCHANGED <<world, receipts, late>>
        PROVE  Undisturbed(q)'
    <2>1. Bound(q)' => Bound(q) /\ UNCHANGED <<quality, installed>> /\ Files' = Files
      BY <1>3 DEF Bound, world, receipts, Files
    <2> QED BY <1>1, <1>3, <2>1, UndisturbedStays
  <1>4. ASSUME UNCHANGED vars PROVE Undisturbed(q)'
    BY <1>3, <1>4 DEF vars, memory, history
  <1>5. ASSUME NEW r \in Runs, Begin(r) \/ Look(r) \/ Create(r) \/ Write(r) \/ Crash(r)
        PROVE  Undisturbed(q)'
    <2>1. Others(r) /\ UNCHANGED <<world, receipts, late>>
      <3>1. CASE Begin(r)
        BY <3>1, BeginMeans DEF Typed, Begin, Moved
      <3>2. CASE Look(r)
        BY <3>2, LookTypes
      <3>3. CASE Create(r) \/ Write(r) \/ Crash(r)
        BY <3>3, CreateMeans, WriteMeans, CrashMeans DEF Typed, Moved, Dropped
      <3> QED BY <1>5, <3>1, <3>2, <3>3
    <2>2. CASE q # r
      <3>1. pc'[q] = pc[q] /\ held'[q] = held[q]
        BY <2>1, <2>2 DEF Others
      <3> QED BY <1>3, <2>1, <3>1
    <2>3. CASE q = r /\ pc'[q] \in {"rejected", "done", "dead"}
      BY <2>3, OverClaimsNothing
    <2>4. CASE q = r /\ Begin(r)
      <3>1. pc'[q] \in {"rejected", "read", "revision"}
        BY <2>4, BeginMeans DEF Typed, Moved
      <3> QED BY <3>1 DEF Undisturbed, Binding
    <2>5. CASE q = r /\ Look(r)
      <3>1. CASE Dropped(r)
        BY <2>3, <2>5, <3>1 DEF Dropped, Moved
      <3> QED BY <2>5, <3>1, UndisturbedRead
    <2>6. CASE q = r /\ Create(r)
      <3>1. CASE Dropped(r)
        BY <2>3, <2>6, <3>1 DEF Dropped, Moved
      <3>2. CASE ~Dropped(r)
        <4>1. pc[q] = "create" /\ pc'[q] = "write" /\ held'[q] = held[q]
          BY <2>6, <3>2, CreateMeans DEF Typed, Moved
        <4>2. Files' = Files
          BY <2>1 DEF world, Files
        <4> QED BY <2>1, <4>1, <4>2 DEF Undisturbed, Binding, QualityBound, InstalledBound
      <3> QED BY <3>1, <3>2
    <2>7. CASE q = r /\ (Write(r) \/ Crash(r))
      BY <2>3, <2>7, WriteMeans, CrashMeans DEF Typed, Moved
    <2> QED BY <1>5, <2>2, <2>4, <2>5, <2>6, <2>7
  <1> QED BY <1>2, <1>4, <1>5 DEF Next, Environment

\* A step of Next leaves a run that is done, and once late it is late.
LEMMA DoneStays ==
  ASSUME Typed, NEW q \in Runs, pc[q] = "done", [Next]_vars
  PROVE  pc'[q] = "done" /\ (late[q] => late'[q])
  <1> USE DEF Typed
  <1>1. ASSUME Environment PROVE pc'[q] = "done" /\ (late[q] => late'[q])
    <2>1. pc' = pc
      BY <1>1, EnvironmentMeans
    <2> QED BY <1>1, <2>1, WitnessMeans
  <1>2. ASSUME UNCHANGED vars PROVE pc'[q] = "done" /\ (late[q] => late'[q])
    BY <1>2 DEF vars, memory, history
  <1>3. ASSUME NEW r \in Runs, Begin(r) \/ Look(r) \/ Create(r) \/ Write(r) \/ Crash(r)
        PROVE  pc'[q] = "done" /\ (late[q] => late'[q])
    <2>1. Others(r) /\ UNCHANGED late /\ pc[r] # "done"
      <3>1. CASE Begin(r)
        BY <3>1, BeginMeans DEF Begin, Moved
      <3>2. CASE Look(r)
        BY <3>2, LookTypes, LookWritesNothing DEF Going, Seen, Looking, Binding
      <3>3. CASE Create(r) \/ Write(r) \/ Crash(r)
        BY <3>3, CreateMeans, WriteMeans, CrashMeans DEF Moved, Dropped
      <3> QED BY <1>3, <3>1, <3>2, <3>3
    <2> QED BY <2>1 DEF Others
  <1> QED BY <1>1, <1>2, <1>3 DEF Next, Environment

LEMMA PairCertified ==
  ASSUME Typed, NEW r \in Verifiers, RunInv(r), pc[r] = "write"
  PROVE  LET c == Candidate(r)
         IN  /\ \A i \in DOMAIN Artifacts : c.artifacts[i].engine = c.source.files.engine
             /\ {<<c.installed[i].python, c.installed[i].artifact>> : i \in DOMAIN c.installed}
                  = Pythons \X Dists
             /\ c.build_manifest = [kind |-> "manifest", source |-> c.source,
                    artifacts |-> c.artifacts, lock |-> c.build_manifest.lock]
  <1> DEFINE c == Candidate(r)
  <1>0. r \in Runs
    BY DEF Runs
  <1>1. /\ c.source = held[r].manifest.source /\ c.artifacts = held[r].manifest.artifacts
        /\ c.build_manifest = held[r].named /\ c.installed = held[r].installed
    BY DEF Candidate
  <1>2. /\ held[r].manifest = Prepared(r) /\ held[r].named = held[r].manifest
        /\ manifest = held[r].manifest
        /\ \A i \in DOMAIN held[r].artifacts :
             \/ manifest.artifacts[i].engine = manifest.source.files.engine
             \/ manifest.artifacts[i].build < held[r].artifacts[i].build
    BY DEF RunInv, Reading, Going, Seen, Binding
  <1>3. /\ held[r].manifest.source = held[r].source /\ held[r].manifest.artifacts = held[r].artifacts
        /\ held[r].manifest.lock = held[r].lock
        /\ held[r].manifest = [kind |-> "manifest", source |-> held[r].manifest.source,
                artifacts |-> held[r].manifest.artifacts, lock |-> held[r].manifest.lock]
    BY <1>2 DEF Prepared
  <1>4. DOMAIN held[r].artifacts = DOMAIN Artifacts /\ held[r].artifacts \in Seq(Builds)
    BY <1>0, Inventory
  <1>5. ASSUME NEW i \in DOMAIN Artifacts
        PROVE  held[r].manifest.artifacts[i].engine = held[r].manifest.source.files.engine
    <2>1. held[r].artifacts[i] \in Builds
      BY <1>4
    <2>2. ~(held[r].artifacts[i].build < held[r].artifacts[i].build)
      BY <2>1 DEF Builds
    <2> QED BY <1>2, <1>3, <1>4, <2>2
  <1>6. held[r].installed \in Seq(Cells)
    BY <1>0 DEF RunInv, Matrix, Going, Seen, Binding
  <1>7. \A j \in 1 .. Len(PYTHONS), a \in Dists : Recorded(r, PYTHONS[j], a)
    BY <1>0 DEF RunInv, Matrix, Binding
  <1>8. {<<c.installed[i].python, c.installed[i].artifact>> : i \in DOMAIN c.installed} = Pythons \X Dists
    <2>1. ASSUME NEW i \in DOMAIN held[r].installed
          PROVE  held[r].installed[i].python \in Pythons /\ held[r].installed[i].artifact \in Dists
      <3>1. held[r].installed[i] \in Cells
        BY <1>6
      <3> QED BY <3>1 DEF Cells
    <2>2. ASSUME NEW p \in Pythons, NEW a \in Dists
          PROVE  \E i \in DOMAIN held[r].installed :
                    held[r].installed[i].python = p /\ held[r].installed[i].artifact = a
      <3>1. PICK j \in 1 .. Len(PYTHONS) : p = PYTHONS[j]
        BY FirstPlaces DEF Pythons
      <3> QED BY <1>7, <3>1 DEF Recorded
    <2> HIDE DEF c
    <2> QED BY <1>1, <2>1, <2>2
  <1> HIDE DEF c
  <1>9. c.build_manifest = [kind |-> "manifest", source |-> c.source, artifacts |-> c.artifacts,
                            lock |-> c.build_manifest.lock]
    BY <1>1, <1>2, <1>3
  <1>10. \A i \in DOMAIN Artifacts : c.artifacts[i].engine = c.source.files.engine
    BY <1>1, <1>5
  <1> QED BY <1>8, <1>9, <1>10 DEF c

LEMMA ReceiptsCertified ==
  ASSUME Typed, NEW r \in Verifiers, RunInv(r), Undisturbed(r), pc[r] = "write", ~late[r],
         candidate' = Candidate(r)
  PROVE  ReceiptsBound'
  <1>0. r \in Runs
    BY DEF Runs
  <1> DEFINE files == held[r].manifest.source.files
  <1>1. /\ candidate'.source.files = files /\ candidate'.artifacts = held[r].manifest.artifacts
        /\ candidate'.quality = held[r].quality /\ candidate'.installed = held[r].installed
    BY DEF Candidate
  <1>2. /\ \A i \in DOMAIN held[r].quality : QualityBound(held[r].quality[i], PYTHONS[i], files)
        /\ \A i \in DOMAIN held[r].installed, k \in DOMAIN Artifacts :
             held[r].installed[i].artifact = Artifacts[k] =>
               InstalledBound(held[r].installed[i].receipts, held[r].manifest.artifacts[k], files)
    BY DEF Undisturbed, Binding
  <1>3. DOMAIN held[r].quality = DOMAIN PYTHONS
    <2>1. held[r].quality \in Seq(Qualities) /\ Len(held[r].quality) = Len(PYTHONS)
      BY <1>0 DEF RunInv, Matrix, Going, Seen, Binding
    <2> QED BY <2>1, FirstPlaces
  <1> HIDE DEF files
  <1>4. \A i \in DOMAIN PYTHONS : QualityBound(candidate'.quality[i], PYTHONS[i], candidate'.source.files)
    BY <1>1, <1>2, <1>3
  <1>5. \A i \in DOMAIN candidate'.installed, k \in DOMAIN Artifacts :
          candidate'.installed[i].artifact = Artifacts[k] =>
            InstalledBound(candidate'.installed[i].receipts, candidate'.artifacts[k], candidate'.source.files)
    BY <1>1, <1>2
  <1> QED BY <1>4, <1>5 DEF ReceiptsBound, QualityBound, InstalledBound

LEMMA CandidateKept ==
  ASSUME Typed, \A r \in Runs : RunInv(r) /\ Undisturbed(r), CandidateInv, [Next]_vars
  PROVE  CandidateInv'
  <1> USE DEF Typed
  <1>1. ASSUME candidate' = candidate PROVE CandidateInv'
    <2>1. ASSUME candidate.kind = "candidate"
          PROVE  /\ candidate.by \in Verifiers /\ pc'[candidate.by] = "done"
                 /\ PairBound /\ (~late'[candidate.by] => ReceiptsBound)
      <3>1. candidate.by \in Verifiers /\ candidate.by \in Runs /\ pc[candidate.by] = "done"
        BY <2>1 DEF CandidateInv, Runs
      <3>2. pc'[candidate.by] = "done" /\ (late[candidate.by] => late'[candidate.by])
        BY <3>1, DoneStays
      <3> QED BY <2>1, <3>1, <3>2 DEF CandidateInv, CandidateBound
    <2>2. PairBound' = PairBound /\ ReceiptsBound' = ReceiptsBound
      BY <1>1 DEF PairBound, ReceiptsBound
    <2> QED BY <1>1, <2>1, <2>2 DEF CandidateInv, CandidateBound
  <1>2. CASE Environment \/ UNCHANGED vars
    BY <1>1, <1>2, EnvironmentMeans DEF vars
  <1>3. ASSUME NEW r \in Runs, Begin(r) \/ Look(r) \/ Crash(r) PROVE CandidateInv'
    <2>1. candidate' = candidate
      BY <1>3, LookTypes, CrashMeans DEF Begin
    <2> QED BY <1>1, <2>1
  <1>4. ASSUME NEW r \in Runs, Create(r) PROVE CandidateInv'
    <2>1. candidate' = candidate \/ candidate' = Torn
      BY <1>4, CreateMeans
    <2>2. CASE candidate' = Torn
      <3>1. candidate'.kind # "candidate"
        BY <2>2, NoneTorn
      <3> QED BY <3>1 DEF CandidateInv, CandidateBound
    <2> QED BY <1>1, <2>1, <2>2
  <1>5. ASSUME NEW r \in Runs, Write(r) PROVE CandidateInv'
    <2>1. /\ pc[r] = "write" /\ pc'[r] = "done" /\ late' = late
          /\ candidate' = candidate \/ (r \in Verifiers /\ candidate' = Candidate(r))
      BY <1>5, WriteMeans DEF Moved, Runs
    <2>2. CASE r \in Verifiers /\ candidate' = Candidate(r)
      <3>1. candidate'.by = r
        BY <2>2 DEF Candidate
      <3>2. PairBound'
        BY <2>1, <2>2, PairCertified DEF PairBound
      <3>3. ~late'[r] => ReceiptsBound'
        BY <2>1, <2>2, ReceiptsCertified
      <3> QED BY <2>1, <2>2, <3>1, <3>2, <3>3 DEF CandidateInv, CandidateBound
    <2> QED BY <1>1, <2>1, <2>2
  <1> QED BY <1>2, <1>3, <1>4, <1>5 DEF Next, Environment

LEMMA InitTyped == Init => Typed
  <1> SUFFICES ASSUME Init PROVE Typed
    OBVIOUS
  <1>1. WorldOK
    <2>1. source \in [Parts -> Nat] /\ source.engine = 0 /\ changes = 0
      BY DEF Init, Parts
    <2>2. head = [revision |-> 0, parts |-> source]
      BY DEF Init
    <2>3. dist = [x \in Dists \cup {Lock} |-> [build |-> 0, engine |-> 0]]
      BY DEF Init
    <2>4. dist \in [Dists \cup {Lock} -> Builds] /\ \A x \in Dists \cup {Lock} : dist[x].engine <= source.engine
      BY <2>1, <2>3 DEF Builds
    <2>5. \A p \in Parts : head.parts[p] <= source[p]
      BY <2>1, <2>2
    <2> QED BY <2>1, <2>2, <2>4, <2>5 DEF WorldOK
  <1>2. ReceiptsOK
    BY DEF Init, ReceiptsOK, Qualities, Documentations, Acceptances
  <1>3. MemoryOK
    BY DEF Init, MemoryOK, NoMemory, Fields, Steps
  <1> QED BY <1>1, <1>2, <1>3 DEF Typed

LEMMA InitBinding == Init => BindingInv
  <1> SUFFICES ASSUME Init PROVE BindingInv
    OBVIOUS
  <1>1. ManifestInv /\ manifest = None /\ candidate = None /\ \A r \in Runs : pc[r] = "idle"
    BY DEF Init, ManifestInv
  <1>2. Writers
    BY <1>1 DEF Writers
  <1>3. CandidateInv
    BY <1>1, NoneTorn DEF CandidateInv, CandidateBound
  <1>4. ASSUME NEW r \in Runs PROVE RunInv(r) /\ Undisturbed(r)
    <2>1. pc[r] = "idle" /\ held[r] = NoMemory
      BY DEF Init
    <2>2. /\ pc[r] \notin Going /\ pc[r] \notin Seen /\ pc[r] \notin Binding /\ pc[r] \notin Looking
          /\ pc[r] \notin OfVerify
      BY <2>1 DEF Going, Seen, Looking, Binding, OfVerify
    <2>3. Snapshot(r) /\ Expectation(r) /\ Position(r) /\ Hashes(r) /\ Reading(r) /\ Matrix(r)
      BY <2>1, <2>2 DEF Snapshot, Expectation, Position, Hashes, Reading, Matrix
    <2> QED BY <2>2, <2>3 DEF RunInv, Undisturbed
  <1> QED BY <1>1, <1>2, <1>3, <1>4, InitTyped DEF BindingInv

LEMMA BindingKept == BindingInv /\ [Next]_vars => BindingInv'
  <1> SUFFICES ASSUME BindingInv, [Next]_vars PROVE BindingInv'
    OBVIOUS
  <1>1. Typed' /\ ManifestInv' /\ Writers' /\ CandidateInv'
    BY TypedKept, ManifestKept, WritersKept, CandidateKept DEF BindingInv
  <1>2. \A r \in Runs : RunInv(r)' /\ Undisturbed(r)'
    BY RunKept, UndisturbedKept DEF BindingInv
  <1> QED BY <1>1, <1>2 DEF BindingInv

-----------------------------------------------------------------------------
(* Invocations that find everything in order *)

\* Nothing that a calm run compares has changed.
SameCheckout ==
  /\ source'.engine = source.engine /\ Files' = Files /\ head'.revision = head.revision /\ Status' = Status
  /\ UNCHANGED <<dist, quality, installed>>

LEMMA SameKeepsOrder ==
  ASSUME Typed, Typed', NEW r \in Runs, SameCheckout, InOrder(r), manifest.kind = "manifest" => manifest' = manifest
  PROVE  InOrder(r)'
  <1>1. /\ \A p : QualityHolds(p) => QualityHolds(p)'
        /\ \A p, a, x : InstalledHolds(p, a, x) => InstalledHolds(p, a, x)'
    BY HoldsKept DEF SameCheckout
  <1>2. \A a \in Dists : dist'[a].engine = source'.engine
    BY DEF SameCheckout, InOrder
  <1>3. ASSUME r \in Verifiers
        PROVE  /\ manifest'.kind = "manifest" /\ manifest'.source.files = Files'
               /\ manifest'.source.revision = head'.revision /\ manifest'.source.status = Status'
               /\ manifest'.lock = dist'[Lock]
               /\ \A i \in DOMAIN Artifacts : manifest'.artifacts[i] = dist'[Artifacts[i]]
    BY <1>3 DEF SameCheckout, InOrder
  <1>4. ASSUME r \in Verifiers, NEW p \in Pythons PROVE QualityHolds(p)'
    BY <1>1, <1>4 DEF InOrder
  <1>5. ASSUME r \in Verifiers, NEW p \in Pythons, NEW a \in Dists PROVE InstalledHolds(p, a, dist[a])'
    <2>1. InstalledHolds(p, a, dist[a]) /\ dist' = dist
      BY <1>5 DEF InOrder, SameCheckout
    <2> QED BY <1>1, <2>1
  <1> QED BY <1>2, <1>3, <1>4, <1>5 DEF InOrder

LEMMA CalmStays ==
  ASSUME Typed, Typed', NEW r \in Runs, Calm(r), pc'[r] = pc[r], held'[r] = held[r], calm'[r] => calm[r],
         calm'[r] => SameCheckout, manifest.kind = "manifest" => manifest' = manifest
  PROVE  Calm(r)'
  <1> SUFFICES ASSUME calm'[r], pc[r] \in Going PROVE Calm(r)'
    BY DEF Calm
  <1>1. InOrder(r)'
    BY SameKeepsOrder DEF Calm
  <1>2. Described' = Described
    BY DEF Described, SameCheckout
  <1> QED BY <1>1, <1>2 DEF Calm, SameCheckout

\* A calm run stays so only if nothing that it compares changes; the delivery records
\* may, where the status of the tree stays as it was.
LEMMA EnvironmentCalms ==
  ASSUME Typed, Environment, NEW r \in Runs, calm'[r]
  PROVE  calm[r] /\ SameCheckout
  <1>1. calm[r] /\ FilesStay /\ Described' = Described /\ UNCHANGED <<dist, quality, installed>>
    BY WitnessMeans
  <1>2. Files' = Files /\ source'.engine = source.engine
    BY <1>1 DEF FilesStay, Files, Parts
  <1>3. head'.revision = head.revision /\ Status' = Status
    BY <1>1 DEF Described
  <1> QED BY <1>1, <1>2, <1>3 DEF SameCheckout

\* What a calm run compares agrees.
LEMMA CalmIsNotDropped ==
  ASSUME Typed, ManifestInv, NEW r \in Runs, RunInv(r), Calm(r), calm[r], Look(r)
  PROVE  ~Dropped(r)
  <1> SUFFICES ASSUME Dropped(r) PROVE FALSE
    OBVIOUS
  <1> USE DEF Typed
  <1>1. pc[r] \in Going /\ InOrder(r) /\ pc'[r] = "rejected"
    BY LookWritesNothing DEF Calm, Dropped, Moved
  <1>2. ASSUME pc[r] \in OfVerify PROVE r \in Verifiers
    BY <1>2 DEF RunInv, Reading, Runs
  <1>3. ASSUME r \in Verifiers
        PROVE  /\ manifest.kind = "manifest"
               /\ manifest.source.files = Files
               /\ manifest.source.revision = head.revision /\ manifest.source.status = Status
               /\ manifest.lock = dist[Lock]
               /\ \A i \in DOMAIN Artifacts : manifest.artifacts[i] = dist[Artifacts[i]]
               /\ \A p \in Pythons : QualityHolds(p) /\ \A a \in Dists : InstalledHolds(p, a, dist[a])
    BY <1>1, <1>3 DEF InOrder
  <1>4. CASE ReadManifest(r)
    <2>1. pc[r] = "read" /\ r \in Verifiers
      BY <1>2, <1>4 DEF ReadManifest, OfVerify
    <2>2. pc' = [pc EXCEPT ![r] = "revision"]
      BY <1>3, <1>4, <2>1 DEF ReadManifest, Goto
    <2> QED BY <1>1, <2>2 DEF MemoryOK
  <1>5. CASE ReadRevision(r) \/ ReadStatus(r) \/ ReadFiles(r) \/ ReadExpected(r) \/ HashArtifact(r) \/ HashLock(r)
    BY <1>1, <1>5, ReadRevisionMeans, ReadStatusMeans, ReadFilesMeans, ReadExpectedMeans, HashArtifactMeans, HashLockMeans DEF Moved
  <1>6. CASE OpenArtifact(r)
    <2>1. pc[r] = "open"
      BY <1>6, OpenArtifactMeans
    <2>2. held[r].at \in DOMAIN Artifacts /\ held[r].expected = source.engine
      BY <1>1, <2>1 DEF RunInv, Position, Calm, Looking
    <2>3. dist[Artifacts[held[r].at]].engine = source.engine
      BY <1>1, <2>2, FirstPlaces DEF InOrder
    <2> QED BY <1>1, <1>6, <2>2, <2>3, OpenArtifactMeans DEF Moved
  <1>7. CASE RecheckRevision(r) \/ RecheckStatus(r)
    <2>1. pc[r] \in {"again", "restatus"}
      BY <1>7, RecheckRevisionMeans, RecheckStatusMeans
    <2>2. held[r].source = [revision |-> head.revision, status |-> Status, files |-> Files]
      BY <1>1, <2>1 DEF Calm, Seen, Looking
    <2>3. head.revision = held[r].source.revision /\ Status = held[r].source.status
      BY <2>2
    <2> QED BY <1>1, <1>7, <2>3, RecheckRevisionMeans, RecheckStatusMeans DEF Moved
  <1>8. CASE RecheckFiles(r)
    <2>1. pc[r] = "refiles"
      BY <1>8, RecheckFilesMeans
    <2>2. /\ held[r].source = [revision |-> head.revision, status |-> Status, files |-> Files]
          /\ \A i \in DOMAIN held[r].artifacts : held[r].artifacts[i] = dist[Artifacts[i]]
          /\ held[r].lock = dist[Lock]
      BY <1>1, <2>1 DEF Calm, Seen, Looking
    <2>3. held[r].artifacts \in Seq(Builds) /\ Len(held[r].artifacts) = Len(Artifacts)
      BY <1>1, <2>1 DEF RunInv, Position, Hashes, Seen, Looking
    <2>4. ASSUME r \in Verifiers PROVE Prepared(r) = held[r].manifest
      <3>1. held[r].manifest = manifest /\ manifest.kind = "manifest"
        BY <1>1, <2>1, <2>4 DEF RunInv, Reading
      <3>2. /\ manifest = [kind |-> "manifest", source |-> manifest.source, artifacts |-> manifest.artifacts,
                           lock |-> manifest.lock]
            /\ manifest.source = [revision |-> manifest.source.revision, status |-> manifest.source.status,
                                  files |-> manifest.source.files]
            /\ manifest.artifacts \in Seq(Builds) /\ Len(manifest.artifacts) = Len(Artifacts)
        BY <3>1, NoneTorn DEF ManifestInv, State
      <3>3. manifest.source = held[r].source
        BY <1>3, <2>2, <2>4, <3>2
      <3>4. manifest.artifacts = held[r].artifacts
        <4>1. \A i \in 1 .. Len(Artifacts) : manifest.artifacts[i] = held[r].artifacts[i]
          BY <1>3, <2>2, <2>3, <2>4, FirstPlaces
        <4> QED BY <2>3, <3>2, <4>1, SeqEqual
      <3>5. manifest.lock = held[r].lock
        BY <1>3, <2>2, <2>4
      <3> QED BY <3>1, <3>2, <3>3, <3>4, <3>5 DEF Prepared
    <2>5. Files = held[r].source.files
      BY <2>2
    <2>6. Moved(r, IF r \in Preparers THEN "create" ELSE "quality")
      BY <1>8, <2>4, <2>5, RecheckFilesMeans
    <2> QED BY <1>1, <2>6 DEF Moved
  <1>9. CASE CheckQuality(r)
    <2>1. pc[r] = "quality" /\ r \in Verifiers
      BY <1>2, <1>9, CheckQualityMeans DEF OfVerify
    <2>2. held[r].quality \in Seq(Qualities) /\ Len(held[r].quality) < Len(PYTHONS)
      BY <1>1, <2>1 DEF RunInv, Matrix, Binding
    <2>3. Len(held[r].quality) + 1 \in DOMAIN PYTHONS
      BY <2>2, FirstPlaces
    <2>4. QualityHolds(PYTHONS[Len(held[r].quality) + 1])
      BY <1>3, <2>1, <2>3, FirstPlaces
    <2> QED BY <1>1, <1>9, <2>4, CheckQualityMeans DEF Moved
  <1>10. CASE CheckInstalled(r)
    <2>1. pc[r] = "installed" /\ r \in Verifiers
      BY <1>2, <1>10, CheckInstalledMeans DEF OfVerify
    <2>2. /\ held[r].quality \in Seq(Qualities) /\ Len(held[r].quality) <= Len(PYTHONS)
          /\ Len(held[r].quality) > 0 /\ held[r].at \in DOMAIN Artifacts
      BY <1>1, <2>1 DEF RunInv, Matrix, Binding
    <2>3. held[r].manifest = manifest
      BY <1>1, <2>1 DEF RunInv, Reading
    <2>4. Len(held[r].quality) \in DOMAIN PYTHONS
      BY <2>2, FirstPlaces
    <2>5. Python(r) \in Pythons /\ Artifacts[held[r].at] \in Dists
      BY <2>2, <2>4, FirstPlaces DEF Python
    <2>6. InstalledHolds(Python(r), Artifacts[held[r].at], held[r].manifest.artifacts[held[r].at])
      BY <1>3, <2>1, <2>2, <2>3, <2>5
    <2> QED BY <1>1, <1>10, <2>6, CheckInstalledMeans DEF Moved
  <1>11. CASE RecordQuality(r) \/ RecordInstalled(r) \/ HashManifest(r)
    <2>1. CASE RecordInstalled(r)
      BY <1>1, <2>1, RecordInstalledMeans DEF Moved
    <2> QED BY <1>1, <1>11, <2>1, RecordQualityMeans, HashManifestMeans DEF Moved
  <1> QED BY <1>4, <1>5, <1>6, <1>7, <1>8, <1>9, <1>10, <1>11 DEF Look

LEMMA LookStaysCalm ==
  ASSUME Typed, ManifestInv, NEW r \in Runs, RunInv(r), Calm(r), Look(r)
  PROVE  Calm(r)'
  <1> USE DEF Typed
  <1>1. /\ UNCHANGED <<source, head, dist, quality, installed, manifest, calm>> /\ Typed'
        /\ SameCheckout
    BY LookTypes DEF world, receipts, SameCheckout, Files, Status
  <1> SUFFICES ASSUME calm[r], pc'[r] \in Going PROVE Calm(r)'
    BY <1>1 DEF Calm
  <1>2. pc[r] \in Going /\ InOrder(r) /\ ~Dropped(r)
    BY LookWritesNothing, CalmIsNotDropped DEF Calm
  <1>3. InOrder(r)' /\ Described' = Described /\ Files' = Files /\ Status' = Status /\ head' = head
    BY <1>1, <1>2, SameKeepsOrder DEF Described, SameCheckout
  <1> DEFINE Snapped(x) == x = [revision |-> head.revision, status |-> Status, files |-> Files]
             Same(s) == \A i \in DOMAIN s : s[i] = dist[Artifacts[i]]
  <1>4. CASE ReadManifest(r)
    <2>1. pc'[r] = "revision"
      BY <1>2, <1>4, ReadManifestMeans DEF Moved
    <2> QED BY <1>3, <2>1 DEF Calm, Seen, Looking, Binding
  <1>5. CASE ReadRevision(r)
    <2>1. pc'[r] = "status" /\ held'[r].source = [revision |-> head.revision]
      BY <1>5, ReadRevisionMeans DEF Moved
    <2> QED BY <1>1, <1>3, <2>1 DEF Calm, Seen, Looking, Binding
  <1>16. CASE ReadStatus(r)
    <2>1. /\ pc[r] = "status" /\ pc'[r] = "files"
          /\ held'[r].source = [revision |-> held[r].source.revision, status |-> Status]
      BY <1>16, ReadStatusMeans DEF Moved
    <2>2. held'[r].source = Described
      BY <1>2, <2>1 DEF Calm, Described
    <2> QED BY <1>3, <2>1, <2>2 DEF Calm, Seen, Looking, Binding
  <1>6. CASE ReadFiles(r)
    <2>1. /\ pc[r] = "files" /\ pc'[r] = "expect" /\ held'[r].artifacts = held[r].artifacts
          /\ held'[r].source = [revision |-> held[r].source.revision, status |-> held[r].source.status,
                                files |-> Files]
      BY <1>6, ReadFilesMeans DEF Moved, Keeps, Fields
    <2>2. held[r].source = Described /\ held[r].artifacts = <<>>
      BY <1>2, <2>1 DEF Calm, RunInv, Position
    <2>3. Snapped(held'[r].source) /\ held'[r].artifacts = <<>>
      BY <2>1, <2>2 DEF Described
    <2> QED BY <1>1, <1>3, <2>1, <2>3 DEF Calm, Seen, Looking, Binding
  <1>7. ASSUME pc[r] \in Seen, pc'[r] \in Seen, held'[r].source = held[r].source,
               pc'[r] \in Looking \ {"expect"} => held'[r].expected = source.engine,
               pc'[r] \in Looking => Same(held'[r].artifacts),
               pc'[r] \in {"again", "restatus", "refiles"} => held'[r].lock = dist[Lock]
        PROVE  Calm(r)'
    <2>1. Snapped(held'[r].source)
      BY <1>2, <1>7 DEF Calm
    <2>2. pc'[r] # "files" /\ pc'[r] # "status"
      BY <1>7 DEF Seen, Looking, Binding
    <2> QED BY <1>1, <1>3, <1>7, <2>1, <2>2 DEF Calm
  <1>8. ASSUME pc[r] \in Looking \ {"expect"} PROVE held[r].expected = source.engine /\ Same(held[r].artifacts)
    BY <1>2, <1>8 DEF Calm
  <1> HIDE DEF Same
  <1>9. CASE ReadExpected(r)
    <2>1. /\ pc[r] = "expect" /\ pc'[r] = "hash" /\ held'[r].source = held[r].source
          /\ held'[r].expected = source.engine /\ held'[r].artifacts = held[r].artifacts
      BY <1>9, ReadExpectedMeans DEF Moved, Keeps, Fields
    <2>2. held[r].artifacts = <<>>
      BY <2>1 DEF RunInv, Position
    <2> QED BY <1>7, <2>1, <2>2 DEF Seen, Looking, Same
  <1>10. CASE HashArtifact(r)
    <2>1. /\ pc[r] = "hash" /\ pc'[r] = "open" /\ held'[r].source = held[r].source
          /\ held'[r].expected = held[r].expected
      BY <1>10, HashArtifactMeans DEF Moved, Keeps, Fields
    <2>2. held[r].expected = source.engine /\ Same(held[r].artifacts)
      BY <1>8, <2>1 DEF Looking
    <2>3. Same(held'[r].artifacts)
      <3>1. PICK n \in Nat : n = held[r].at
        BY <1>10, HashAppends
      <3>2. /\ DOMAIN held[r].artifacts = 1 .. (n - 1) /\ DOMAIN held'[r].artifacts = 1 .. n
            /\ held'[r].artifacts[n] = dist[Artifacts[n]]
            /\ \A i \in 1 .. (n - 1) : held'[r].artifacts[i] = held[r].artifacts[i]
        BY <1>10, <3>1, HashAppends
      <3>3. \A i \in 1 .. n : i = n \/ i \in 1 .. (n - 1)
        BY Before
      <3> QED BY <2>2, <3>2, <3>3 DEF Same
    <2> QED BY <1>7, <2>1, <2>2, <2>3 DEF Seen, Looking
  <1>11. CASE OpenArtifact(r)
    <2>1. /\ pc[r] = "open" /\ pc'[r] \in {"hash", "lock"} /\ held'[r].source = held[r].source
          /\ held'[r].expected = held[r].expected /\ held'[r].artifacts = held[r].artifacts
      BY <1>2, <1>11, OpenArtifactMeans DEF Moved, Keeps, Fields
    <2>2. held[r].expected = source.engine /\ Same(held[r].artifacts)
      BY <1>8, <2>1 DEF Looking
    <2> QED BY <1>7, <2>1, <2>2 DEF Seen, Looking
  <1>12. CASE HashLock(r)
    <2>1. /\ pc[r] = "lock" /\ pc'[r] = "again" /\ held'[r].source = held[r].source
          /\ held'[r].expected = held[r].expected /\ held'[r].artifacts = held[r].artifacts
          /\ held'[r].lock = dist[Lock]
      BY <1>12, HashLockMeans DEF Moved, Keeps, Fields
    <2>2. held[r].expected = source.engine /\ Same(held[r].artifacts)
      BY <1>8, <2>1 DEF Looking
    <2> QED BY <1>7, <2>1, <2>2 DEF Seen, Looking
  <1>13. CASE RecheckRevision(r) \/ RecheckStatus(r)
    <2>1. /\ pc[r] \in {"again", "restatus"} /\ pc'[r] \in {"restatus", "refiles"}
          /\ held'[r].source = held[r].source /\ held'[r].expected = held[r].expected
          /\ held'[r].artifacts = held[r].artifacts /\ held'[r].lock = held[r].lock
      BY <1>2, <1>13, RecheckRevisionMeans, RecheckStatusMeans DEF Moved, Keeps, Fields
    <2>2. held[r].expected = source.engine /\ Same(held[r].artifacts) /\ held[r].lock = dist[Lock]
      BY <1>2, <1>8, <2>1 DEF Looking, Calm
    <2> QED BY <1>7, <2>1, <2>2 DEF Seen, Looking
  <1>14. CASE RecheckFiles(r)
    <2>1. pc[r] = "refiles" /\ pc'[r] \in {"create", "quality"} /\ held'[r].source = held[r].source
      BY <1>2, <1>14, RecheckFilesMeans DEF Moved, Keeps, Fields
    <2> QED BY <1>7, <2>1 DEF Seen, Looking, Binding
  <1>15. CASE \/ CheckQuality(r) \/ RecordQuality(r) \/ CheckInstalled(r) \/ RecordInstalled(r)
              \/ HashManifest(r)
    <2>1. /\ pc[r] \in OfVerify \ {"read"} /\ pc'[r] \in Binding \ {"write"}
          /\ held'[r].source = held[r].source
      BY <1>2, <1>15, BindingPasses DEF Keeps, Fields
    <2>2. pc[r] \in Seen /\ pc'[r] \in Seen /\ pc'[r] \notin Looking
      BY <2>1 DEF OfVerify, Seen, Looking, Binding
    <2> QED BY <1>7, <2>1, <2>2 DEF Looking
  <1> QED BY <1>4, <1>5, <1>6, <1>9, <1>10, <1>11, <1>12, <1>13, <1>14, <1>15, <1>16 DEF Look

\* While a verifier is calm and going the manifest is published, so it stays.
LEMMA CalmKept ==
  ASSUME Typed, ManifestInv, Writers, NEW q \in Runs, RunInv(q), Calm(q), [Next]_vars
  PROVE  Calm(q)'
  <1>1. Typed' /\ (manifest.kind = "manifest" => manifest' = manifest)
    BY TypedKept, ManifestStays
  <1>2. ASSUME Environment PROVE Calm(q)'
    <2>1. pc'[q] = pc[q] /\ held'[q] = held[q] /\ (calm'[q] => calm[q] /\ SameCheckout)
      BY <1>2, EnvironmentMeans, EnvironmentCalms
    <2> QED BY <1>1, <2>1, CalmStays
  <1>3. ASSUME pc'[q] = pc[q], held'[q] = held[q], UNCHANGED <<world, receipts>>, calm'[q] = calm[q]
        PROVE  Calm(q)'
    <2>1. SameCheckout
      BY <1>3 DEF SameCheckout, world, receipts, Files, Status
    <2> QED BY <1>1, <1>3, <2>1, CalmStays
  <1>4. ASSUME UNCHANGED vars PROVE Calm(q)'
    BY <1>3, <1>4 DEF vars, memory, history
  <1>5. ASSUME NEW r \in Runs, Begin(r) PROVE Calm(q)'
    <2>1. Others(r) /\ UNCHANGED <<world, receipts, manifest>>
          /\ calm' = [calm EXCEPT ![r] = Output(r) = None /\ InOrder(r)]
      BY <1>5, BeginMeans DEF Typed, Begin, Moved
    <2>2. CASE q # r
      <3>1. pc'[q] = pc[q] /\ held'[q] = held[q] /\ calm'[q] = calm[q]
        BY <2>1, <2>2 DEF Others, Typed, MemoryOK
      <3> QED BY <1>3, <2>1, <3>1
    <2>3. CASE q = r
      <3>1. pc'[q] \in {"rejected", "read", "revision"}
        BY <1>5, <2>3, BeginMeans DEF Typed, Moved
      <3>2. calm'[q] => InOrder(q)
        BY <2>1, <2>3 DEF Typed, MemoryOK
      <3>3. SameCheckout
        BY <2>1 DEF SameCheckout, world, receipts, Files, Status
      <3>4. calm'[q] => InOrder(q)'
        BY <1>1, <3>2, <3>3, SameKeepsOrder
      <3> QED BY <3>1, <3>4 DEF Calm, Seen, Looking, Binding
    <2> QED BY <2>2, <2>3
  <1>6. ASSUME NEW r \in Runs, Look(r) \/ Create(r) \/ Write(r) \/ Crash(r) PROVE Calm(q)'
    <2>1. Others(r) /\ UNCHANGED <<world, receipts, calm>>
      BY <1>6, LookTypes, CreateMeans, WriteMeans, CrashMeans DEF Typed, Moved, Dropped
    <2>2. CASE q # r
      <3>1. pc'[q] = pc[q] /\ held'[q] = held[q]
        BY <2>1, <2>2 DEF Others
      <3> QED BY <1>3, <2>1, <3>1
    <2>3. CASE q = r /\ Look(r)
      BY <2>3, LookStaysCalm
    <2>4. CASE q = r /\ Create(r)
      <3>1. CASE Dropped(r)
        BY <2>4, <3>1, OverClaimsNothing DEF Dropped, Moved
      <3>2. CASE ~Dropped(r)
        <4>1. pc[q] = "create" /\ pc'[q] = "write" /\ held'[q] = held[q]
          BY <2>4, <3>2, CreateMeans DEF Typed, Moved
        <4>2. SameCheckout
          BY <2>1 DEF SameCheckout, world, receipts, Files, Status
        <4>3. InOrder(q) => InOrder(q)'
          BY <1>1, <4>2, SameKeepsOrder
        <4> QED BY <2>1, <4>1, <4>2, <4>3 DEF Calm, SameCheckout, Going, Seen, Looking, Binding
      <3> QED BY <3>1, <3>2
    <2>5. CASE q = r /\ (Write(r) \/ Crash(r))
      <3>1. pc'[q] \in {"rejected", "done", "dead"}
        BY <2>5, WriteMeans, CrashMeans DEF Typed, Moved
      <3> QED BY <3>1, OverClaimsNothing
    <2> QED BY <1>6, <2>2, <2>3, <2>4, <2>5
  <1> QED BY <1>2, <1>4, <1>5, <1>6 DEF Next, Environment

\* A look that rejects drops all that the run held.
LEMMA RejectedIsDropped ==
  ASSUME Typed, NEW r \in Runs, Look(r), pc'[r] = "rejected"
  PROVE  Dropped(r)
  <1>0. MemoryOK /\ (Reject(r) => Dropped(r))
    BY RejectMeans DEF Typed
  <1>1. CASE ReadManifest(r)
    <2>1. CASE manifest.kind = "manifest"
      <3>1. pc' = [pc EXCEPT ![r] = "revision"]
        BY <1>1, <2>1 DEF ReadManifest, Goto
      <3> QED BY <1>0, <3>1 DEF MemoryOK
    <2>2. CASE manifest.kind # "manifest"
      BY <1>0, <1>1, <2>2 DEF ReadManifest
    <2> QED BY <2>1, <2>2
  <1>2. CASE ReadRevision(r) \/ ReadStatus(r) \/ ReadFiles(r) \/ ReadExpected(r) \/ HashArtifact(r) \/ HashLock(r)
    BY <1>0, <1>2, ReadRevisionMeans, ReadStatusMeans, ReadFilesMeans, ReadExpectedMeans, HashArtifactMeans, HashLockMeans
       DEF Moved
  <1>3. CASE OpenArtifact(r)
    BY <1>0, <1>3, OpenArtifactMeans DEF Moved
  <1>4. CASE RecheckRevision(r) \/ RecheckStatus(r)
    BY <1>0, <1>4, RecheckRevisionMeans, RecheckStatusMeans DEF Moved
  <1>5. CASE RecheckFiles(r)
    <2>1. (IF r \in Preparers THEN "create" ELSE "quality") # "rejected"
      OBVIOUS
    <2> QED BY <1>0, <1>5, <2>1, RecheckFilesMeans DEF Moved
  <1>6. CASE CheckQuality(r)
    BY <1>0, <1>6, CheckQualityMeans DEF Moved
  <1>7. CASE CheckInstalled(r)
    BY <1>0, <1>7, CheckInstalledMeans DEF Moved
  <1>8. CASE RecordQuality(r) \/ HashManifest(r)
    BY <1>0, <1>8, RecordQualityMeans, HashManifestMeans DEF Moved
  <1>9. CASE RecordInstalled(r)
    BY <1>0, <1>9, RecordInstalledMeans DEF Moved
  <1> QED BY <1>1, <1>2, <1>3, <1>4, <1>5, <1>6, <1>7, <1>8, <1>9 DEF Look

LEMMA ReasonKept ==
  ASSUME Typed, ManifestInv, \A r \in Runs : RunInv(r) /\ Calm(r), RejectsWithReason, [Next]_vars
  PROVE  RejectsWithReason'
  <1> USE DEF Typed
  <1> SUFFICES ASSUME NEW q \in Runs, pc'[q] = "rejected", calm'[q] PROVE Output(q)' # None
    BY DEF RejectsWithReason
  <1>1. ASSUME pc[q] = "rejected", calm[q], manifest' = manifest \/ manifest' # None,
               candidate' = candidate \/ candidate' # None
        PROVE  Output(q)' # None
    <2>1. Output(q) # None
      BY <1>1 DEF RejectsWithReason
    <2> QED BY <1>1, <2>1 DEF Output
  <1>2. ASSUME Environment PROVE Output(q)' # None
    <2>1. UNCHANGED <<manifest, candidate, pc>> /\ calm[q]
      BY <1>2, EnvironmentMeans, EnvironmentCalms
    <2> QED BY <1>1, <2>1
  <1>3. ASSUME UNCHANGED vars PROVE Output(q)' # None
    BY <1>1, <1>3 DEF vars, memory, history
  <1>4. ASSUME NEW r \in Runs, Begin(r) PROVE Output(q)' # None
    <2>1. UNCHANGED <<manifest, candidate>> /\ calm' = [calm EXCEPT ![r] = Output(r) = None /\ InOrder(r)]
      BY <1>4 DEF Begin
    <2>2. CASE q = r
      <3>1. Output(r) # None
        BY <1>4, <2>2, BeginMeans DEF Moved
      <3> QED BY <2>1, <2>2, <3>1 DEF Output
    <2>3. CASE q # r
      <3>1. pc[q] = "rejected" /\ calm[q]
        BY <1>4, <2>1, <2>3, BeginMeans DEF Moved, Others, MemoryOK
      <3> QED BY <1>1, <2>1, <3>1
    <2> QED BY <2>2, <2>3
  <1>5. ASSUME NEW r \in Runs, Look(r) PROVE Output(q)' # None
    <2>1. UNCHANGED <<manifest, candidate, calm>> /\ Others(r)
      BY <1>5, LookTypes
    <2>2. CASE q = r
      <3>1. Dropped(r)
        BY <1>5, <2>2, RejectedIsDropped
      <3>2. ~Dropped(r)
        BY <1>5, <2>1, <2>2, CalmIsNotDropped
      <3> QED BY <3>1, <3>2
    <2>3. CASE q # r
      <3>1. pc[q] = "rejected" /\ calm[q]
        BY <2>1, <2>3 DEF Others
      <3> QED BY <1>1, <2>1, <3>1
    <2> QED BY <2>2, <2>3
  <1>6. ASSUME NEW r \in Runs, Create(r) \/ Write(r) \/ Crash(r) PROVE Output(q)' # None
    <2>1. Others(r) /\ UNCHANGED calm
      BY <1>6, CreateMeans, WriteMeans, CrashMeans DEF Moved, Dropped
    <2>2. /\ manifest' = manifest \/ manifest' = Torn \/ manifest' = Prepared(r)
          /\ candidate' = candidate \/ candidate' = Torn \/ candidate' = Candidate(r)
      BY <1>6, CreateMeans, WriteMeans, CrashMeans
    <2>3. Torn # None /\ Prepared(r) # None /\ Candidate(r) # None
      <3>1. Prepared(r).kind = "manifest" /\ Candidate(r).kind = "candidate"
        BY DEF Prepared, Candidate
      <3> QED BY <3>1, NoneTorn
    <2>4. CASE q = r
      <3>1. Create(r) /\ Output(r) # None /\ UNCHANGED <<manifest, candidate>>
        BY <1>6, <2>4, CreateMeans, WriteMeans, CrashMeans DEF Moved
      <3> QED BY <2>4, <3>1 DEF Output
    <2>5. CASE q # r
      <3>1. pc[q] = "rejected" /\ calm[q]
        BY <2>1, <2>5 DEF Others
      <3> QED BY <1>1, <2>2, <2>3, <3>1
    <2> QED BY <2>4, <2>5
  <1> QED BY <1>2, <1>3, <1>4, <1>5, <1>6 DEF Next, Environment

-----------------------------------------------------------------------------
(* What a candidate names was the checkout at one moment *)

LEMMA CheckoutIsState == Typed => State(Checkout) /\ Checkout.revision \in Nat
  BY FilesTyped DEF Typed, WorldOK, State, Checkout

LEMMA StatesKept ==
  ASSUME Typed, StatesInv, [Next]_vars
  PROVE  states \subseteq states' /\ StatesInv'
  <1>1. ASSUME Environment PROVE states \subseteq states' /\ StatesInv'
    <2>1. states' = states \cup {Checkout'}
      BY <1>1, WitnessMeans
    <2>2. source' \in [Parts -> Nat] /\ head'.revision \in Nat
      BY TypedKept DEF Typed, WorldOK
    <2>3. State(Checkout') /\ Checkout'.revision \in Nat
      BY <2>2 DEF State, Checkout, Files, FileVersions, Hashed
    <2> QED BY <2>1, <2>3 DEF StatesInv, State
  <1>2. ASSUME UNCHANGED <<world, states>> PROVE states \subseteq states' /\ StatesInv'
    <2>1. Checkout' = Checkout
      BY <1>2 DEF world, Checkout, Status, Files
    <2> QED BY <1>2, <2>1 DEF StatesInv, State
  <1>3. ASSUME NEW r \in Runs, Begin(r) \/ Look(r) \/ Create(r) \/ Write(r) \/ Crash(r)
        PROVE  UNCHANGED <<world, states>>
    BY <1>3, LookTypes, CreateMeans, WriteMeans, CrashMeans DEF Begin, Typed
  <1>4. UNCHANGED vars => UNCHANGED <<world, states>>
    BY DEF vars, history
  <1> QED BY <1>1, <1>2, <1>3, <1>4 DEF Next, Environment

\* The state s is one in which a verifier that read the manifest m may have asked git
\* for the status w, when it held the revision n, which has since become at most h.
Matches(s, w, n, h, m, now) ==
  /\ s.status = w /\ n <= s.revision /\ s.revision <= h
  /\ \A p \in Hashed : m.source.files[p] <= s.files[p] /\ s.files[p] <= now[p]

LEMMA MatchesOn ==
  ASSUME Typed, Typed', Grows, StatesInv, ManifestInv, manifest.kind = "manifest",
         NEW s \in states, NEW w, NEW n \in Nat, Matches(s, w, n, head.revision, manifest, source)
  PROVE  Matches(s, w, n, head'.revision, manifest, source')
  <1>1. s.revision \in Nat /\ head.revision \in Nat /\ head'.revision \in Nat
    BY DEF StatesInv, Typed, WorldOK
  <1>2. n <= s.revision /\ s.revision <= head'.revision
    BY <1>1 DEF Matches, Grows
  <1>3. ASSUME NEW p \in Hashed PROVE s.files[p] <= source'[p]
    <2>1. s.files[p] \in Nat /\ source[p] \in Nat /\ source'[p] \in Nat
      BY DEF StatesInv, State, FileVersions, Hashed, Typed, WorldOK
    <2>2. s.files[p] <= source[p] /\ source[p] <= source'[p]
      BY DEF Matches, Grows, Hashed
    <2> QED BY <2>1, <2>2
  <1> QED BY <1>2, <1>3 DEF Matches

LEMMA WitnessIs ==
  ASSUME NEW r
  PROVE  Witness(r) <=>
           /\ pc[r] \in {"status", "files"} \cup Looking =>
                held[r].source.revision \in Nat /\ held[r].source.revision <= head.revision
           /\ r \in Verifiers /\ pc[r] \in {"files"} \cup Looking =>
                \E s \in states :
                  /\ Matches(s, held[r].source.status, held[r].source.revision, head.revision, manifest, source)
                  /\ pc[r] \in {"restatus", "refiles"} => s.revision = held[r].source.revision
           /\ r \in Verifiers /\ pc[r] \in Binding => held[r].source \in states
  BY DEF Witness, Matches

LEMMA LookingGoes == {"files"} \cup Looking \subseteq Going \ {"read"}
  BY DEF Going, Seen, Looking

LEMMA WitnessStays ==
  ASSUME Typed, Typed', Grows, NEW r \in Runs, RunInv(r), Witness(r), pc'[r] = pc[r], held'[r] = held[r],
         states \subseteq states', StatesInv, ManifestInv, manifest.kind = "manifest" => manifest' = manifest
  PROVE  Witness(r)'
  <1>1. ASSUME pc[r] \in {"status", "files"} \cup Looking
        PROVE  held[r].source.revision \in Nat /\ held[r].source.revision <= head'.revision
    <2>1. held[r].source.revision \in Nat /\ held[r].source.revision <= head.revision
      BY <1>1 DEF Witness
    <2>2. head.revision \in Nat /\ head'.revision \in Nat /\ head.revision <= head'.revision
      BY DEF Typed, WorldOK, Grows
    <2> QED BY <2>1, <2>2
  <1>2. ASSUME r \in Verifiers, pc[r] \in {"files"} \cup Looking
        PROVE  \E s \in states' :
                 /\ Matches(s, held[r].source.status, held[r].source.revision, head'.revision, manifest', source')
                 /\ pc[r] \in {"restatus", "refiles"} => s.revision = held[r].source.revision
    <2>1. PICK s \in states :
            /\ Matches(s, held[r].source.status, held[r].source.revision, head.revision, manifest, source)
            /\ pc[r] \in {"restatus", "refiles"} => s.revision = held[r].source.revision
      BY <1>2, WitnessIs
    <2>2. manifest.kind = "manifest" /\ manifest' = manifest
      BY <1>2, LookingGoes DEF RunInv, Reading
    <2>3. Matches(s, held[r].source.status, held[r].source.revision, head'.revision, manifest', source')
      BY <1>1, <1>2, <2>1, <2>2, MatchesOn
    <2> QED BY <2>1, <2>3
  <1>3. ASSUME r \in Verifiers, pc[r] \in Binding PROVE held[r].source \in states'
    BY <1>3 DEF Witness
  <1> QED BY <1>1, <1>2, <1>3 DEF Witness, Matches

\* The status is the witness; the revision, asked again, and the files confirm it.
LEMMA WitnessRead ==
  ASSUME Typed, NEW r \in Runs, RunInv(r), Witness(r), Look(r), ~Dropped(r), StatesInv, ManifestInv
  PROVE  Witness(r)'
  <1> USE DEF Typed
  <1>0. UNCHANGED <<source, head, states, manifest>>
    BY LookTypes DEF world
  <1>1. ASSUME pc'[r] \notin {"status", "files"} \cup Looking \cup Binding PROVE Witness(r)'
    BY <1>1 DEF Witness
  <1>2. CASE ReadManifest(r)
    <2>1. pc'[r] = "revision"
      BY <1>2, ReadManifestMeans DEF Moved
    <2> QED BY <1>1, <2>1 DEF Looking, Binding
  <1>3. CASE ReadRevision(r)
    <2>1. pc'[r] = "status" /\ held'[r].source = [revision |-> head.revision]
      BY <1>3, ReadRevisionMeans DEF Moved
    <2>2. held'[r].source.revision = head.revision /\ head.revision \in Nat
      BY <2>1 DEF WorldOK
    <2> QED BY <1>0, <2>1, <2>2 DEF Witness, Looking, Binding
  <1>4. CASE ReadStatus(r)
    <2>1. /\ pc[r] = "status" /\ pc'[r] = "files"
          /\ held'[r].source = [revision |-> held[r].source.revision, status |-> Status]
      BY <1>4, ReadStatusMeans DEF Moved
    <2>2. /\ held'[r].source.revision = held[r].source.revision /\ held'[r].source.status = Status
          /\ held[r].source.revision \in Nat /\ held[r].source.revision <= head.revision
      BY <2>1 DEF Witness
    <2>3. ASSUME r \in Verifiers
          PROVE  Matches(Checkout, Status, held[r].source.revision, head.revision, manifest, source)
      <3>1. manifest.kind = "manifest"
        BY <2>1, <2>3 DEF RunInv, Reading, Going
      <3>2. \A p \in Hashed : manifest.source.files[p] <= source[p] /\ source[p] \in Nat
        BY <3>1, NoneTorn DEF ManifestInv, Hashed, WorldOK
      <3>3. /\ Checkout.status = Status /\ Checkout.revision = head.revision /\ head.revision \in Nat
            /\ \A p \in Hashed : Checkout.files[p] = source[p]
        BY FilesTyped DEF Checkout, WorldOK
      <3> QED BY <2>2, <3>2, <3>3 DEF Matches
    <2> QED BY <1>0, <2>1, <2>2, <2>3 DEF Witness, Matches, StatesInv, Looking, Binding
  <1>5. ASSUME pc[r] \in {"files"} \cup Looking, pc'[r] \in Looking,
               held'[r].source.revision = held[r].source.revision, held'[r].source.status = held[r].source.status,
               pc'[r] \in {"restatus", "refiles"} => pc[r] = "restatus" \/ head.revision = held[r].source.revision
        PROVE  Witness(r)'
    <2>1. held[r].source.revision \in Nat /\ held[r].source.revision <= head.revision
      BY <1>5 DEF Witness
    <2>2. ASSUME r \in Verifiers
          PROVE  \E s \in states :
                 /\ Matches(s, held[r].source.status, held[r].source.revision, head.revision, manifest, source)
                 /\ pc'[r] \in {"restatus", "refiles"} => s.revision = held[r].source.revision
      <3>1. PICK s \in states :
              /\ Matches(s, held[r].source.status, held[r].source.revision, head.revision, manifest, source)
              /\ pc[r] \in {"restatus", "refiles"} => s.revision = held[r].source.revision
        BY <1>5, <2>2, WitnessIs
      <3>2. CASE head.revision = held[r].source.revision
        <4>1. s.revision \in Nat /\ held[r].source.revision <= s.revision /\ s.revision <= head.revision
          BY <3>1 DEF Matches, StatesInv
        <4>2. s.revision = held[r].source.revision
          BY <2>1, <3>2, <4>1
        <4> QED BY <3>1, <4>2
      <3>3. CASE pc[r] = "restatus"
        BY <3>1, <3>3
      <3> QED BY <1>5, <3>1, <3>2, <3>3
    <2> QED BY <1>0, <1>5, <2>1, <2>2 DEF Witness, Matches, Looking, Binding
  <1>6. CASE ReadFiles(r)
    <2>1. /\ pc[r] = "files" /\ pc'[r] = "expect"
          /\ held'[r].source = [revision |-> held[r].source.revision, status |-> held[r].source.status,
                                files |-> Files]
      BY <1>6, ReadFilesMeans DEF Moved
    <2> QED BY <1>5, <2>1 DEF Looking
  <1>7. CASE ReadExpected(r) \/ HashArtifact(r) \/ OpenArtifact(r) \/ HashLock(r)
    <2>1. /\ pc[r] \in Looking /\ pc'[r] \in {"hash", "open", "lock", "again"}
          /\ held'[r].source = held[r].source
      BY <1>7, ReadExpectedMeans, HashArtifactMeans, OpenArtifactMeans, HashLockMeans
         DEF Moved, Keeps, Fields, Looking
    <2> QED BY <1>5, <2>1 DEF Looking
  <1>8. CASE RecheckRevision(r) \/ RecheckStatus(r)
    <2>1. /\ pc[r] \in {"again", "restatus"} /\ pc'[r] \in {"restatus", "refiles"}
          /\ held'[r].source = held[r].source
          /\ pc[r] = "restatus" \/ head.revision = held[r].source.revision
      BY <1>8, RecheckRevisionMeans, RecheckStatusMeans DEF Moved, Keeps, Fields
    <2> QED BY <1>5, <2>1 DEF Looking
  <1>9. CASE RecheckFiles(r)
    <2>1. /\ pc[r] = "refiles" /\ pc'[r] \in {"create", "quality"} /\ held'[r].source = held[r].source
          /\ Files = held[r].source.files /\ (r \in Verifiers => Prepared(r) = held[r].manifest)
      BY <1>9, RecheckFilesMeans DEF Moved, Keeps, Fields
    <2>2. ASSUME r \in Verifiers PROVE held[r].source \in states
      <3>1. PICK s \in states :
              /\ Matches(s, held[r].source.status, held[r].source.revision, head.revision, manifest, source)
              /\ s.revision = held[r].source.revision
        BY <2>1, <2>2, WitnessIs DEF Looking
      <3>2. held[r].manifest = manifest
        BY <2>1, <2>2 DEF RunInv, Reading, Going, Seen, Looking
      <3>3. manifest.source = held[r].source
        BY <2>1, <2>2, <3>2 DEF Prepared
      <3>4. State(s) /\ State(held[r].source)
        BY <2>1 DEF StatesInv, RunInv, Snapshot, Seen, Looking
      <3>5. ASSUME NEW p \in Hashed PROVE s.files[p] = held[r].source.files[p]
        <4>1. s.files[p] \in Nat /\ source[p] \in Nat /\ held[r].source.files[p] = source[p]
          BY <2>1, <3>4, FilesTyped DEF State, FileVersions, Hashed, WorldOK
        <4>2. held[r].source.files[p] <= s.files[p] /\ s.files[p] <= source[p]
          BY <3>1, <3>3 DEF Matches
        <4> QED BY <4>1, <4>2
      <3>6. s.files = held[r].source.files
        BY <3>4, <3>5 DEF State, FileVersions
      <3>7. s.status = held[r].source.status
        BY <3>1 DEF Matches
      <3>8. s = held[r].source
        BY <3>1, <3>4, <3>6, <3>7 DEF State
      <3> QED BY <3>8
    <2> QED BY <1>0, <2>1, <2>2 DEF Witness, Looking, Binding
  <1>10. CASE CheckQuality(r) \/ RecordQuality(r) \/ CheckInstalled(r) \/ RecordInstalled(r) \/ HashManifest(r)
    <2>1. /\ pc[r] \in OfVerify \ {"read"} /\ pc'[r] \in Binding \ {"write"}
          /\ held'[r].source = held[r].source
      BY <1>10, BindingPasses DEF Keeps, Fields
    <2>2. pc[r] \in Binding /\ pc'[r] \notin {"status", "files"} \cup Looking
      BY <2>1 DEF OfVerify, Binding, Looking
    <2> QED BY <1>0, <2>1, <2>2 DEF Witness
  <1> QED BY <1>2, <1>3, <1>4, <1>6, <1>7, <1>8, <1>9, <1>10 DEF Look

LEMMA WitnessKept ==
  ASSUME Typed, NEW q \in Runs, RunInv(q), Witness(q), StatesInv, ManifestInv, Writers, [Next]_vars
  PROVE  Witness(q)'
  <1>1. /\ Typed' /\ Grows /\ states \subseteq states'
        /\ manifest.kind = "manifest" => manifest' = manifest
    BY TypedKept, StepGrows, StatesKept, ManifestStays
  <1>2. ASSUME pc'[q] = pc[q], held'[q] = held[q] PROVE Witness(q)'
    BY <1>1, <1>2, WitnessStays
  <1>3. ASSUME Environment PROVE Witness(q)'
    BY <1>2, <1>3, EnvironmentMeans
  <1>4. ASSUME UNCHANGED vars PROVE Witness(q)'
    BY <1>2, <1>4 DEF vars, memory
  <1>5. ASSUME pc'[q] \in {"rejected", "read", "revision", "done", "dead"} PROVE Witness(q)'
    BY <1>5 DEF Witness, Looking, Binding
  <1>6. ASSUME NEW r \in Runs, Begin(r) \/ Look(r) \/ Create(r) \/ Write(r) \/ Crash(r)
        PROVE  Witness(q)'
    <2>1. CASE q # r
      <3>1. Others(r)
        BY <1>6, BeginMeans, LookTypes, CreateMeans, WriteMeans, CrashMeans DEF Typed, Moved, Dropped
      <3> QED BY <1>2, <2>1, <3>1 DEF Others
    <2>2. CASE q = r /\ Begin(r)
      BY <1>5, <2>2, BeginMeans DEF Typed, Moved
    <2>3. CASE q = r /\ Dropped(r)
      BY <1>5, <2>3 DEF Dropped, Moved
    <2>4. CASE q = r /\ Look(r) /\ ~Dropped(r)
      BY <2>4, WitnessRead
    <2>5. CASE q = r /\ Create(r) /\ ~Dropped(r)
      <3>1. pc[q] = "create" /\ pc'[q] = "write" /\ held'[q] = held[q] /\ UNCHANGED states
        BY <2>5, CreateMeans DEF Typed, Moved
      <3> QED BY <3>1 DEF Witness, Looking, Binding
    <2>6. CASE q = r /\ (Write(r) \/ Crash(r))
      BY <1>5, <2>6, WriteMeans, CrashMeans DEF Typed, Moved
    <2> QED BY <1>6, <2>1, <2>2, <2>3, <2>4, <2>5, <2>6
  <1> QED BY <1>3, <1>4, <1>6 DEF Next, Environment

LEMMA DescribedKept ==
  ASSUME Typed, \A r \in Runs : RunInv(r) /\ Witness(r), DescribedSources, StatesInv, [Next]_vars
  PROVE  DescribedSources'
  <1>0. states \subseteq states'
    BY StatesKept
  <1>1. ASSUME candidate' \in {candidate, Torn} \/ candidate'.source \in states PROVE DescribedSources'
    BY <1>0, <1>1, NoneTorn DEF DescribedSources
  <1>2. ASSUME Environment \/ UNCHANGED vars PROVE DescribedSources'
    BY <1>1, <1>2, EnvironmentMeans DEF vars
  <1>3. ASSUME NEW r \in Runs, Begin(r) \/ Look(r) \/ Create(r) \/ Crash(r) PROVE DescribedSources'
    BY <1>1, <1>3, LookTypes, CreateMeans, CrashMeans DEF Typed, Begin
  <1>4. ASSUME NEW r \in Runs, Write(r) PROVE DescribedSources'
    <2>1. pc[r] = "write"
      BY <1>4, WriteMeans DEF Typed
    <2>2. CASE r \in Preparers
      BY <1>1, <1>4, <2>2, WriteMeans DEF Typed
    <2>3. CASE r \notin Preparers
      <3>1. candidate' = Candidate(r) /\ r \in Verifiers
        BY <1>4, <2>3, WriteMeans DEF Typed, Runs
      <3>2. Prepared(r) = held[r].manifest /\ held[r].source \in states
        BY <2>1, <3>1 DEF RunInv, Reading, Binding, Witness
      <3>3. candidate'.source = held[r].manifest.source
        BY <3>1 DEF Candidate
      <3>4. Prepared(r).source = held[r].source
        BY DEF Prepared
      <3> QED BY <1>1, <3>2, <3>3, <3>4
    <2> QED BY <2>2, <2>3
  <1> QED BY <1>2, <1>3, <1>4 DEF Next, Environment

-----------------------------------------------------------------------------
(* The inductive invariant *)

LEMMA InitInv == Init => IInv
  <1> SUFFICES ASSUME Init PROVE IInv
    OBVIOUS
  <1>1. \A r \in Runs : pc[r] = "idle" /\ ~calm[r]
    BY DEF Init
  <1>2. CalmInv
    BY <1>1 DEF CalmInv, RejectsWithReason, Calm
  <1>3. Typed /\ states = {Checkout} /\ candidate = None
    BY InitTyped DEF Init
  <1>4. DescribedSources
    BY <1>3, NoneTorn DEF DescribedSources
  <1>5. SourceInv
    BY <1>1, <1>3, <1>4, CheckoutIsState DEF SourceInv, StatesInv, Witness, Looking, Binding
  <1> QED BY <1>2, <1>5, InitBinding DEF IInv

LEMMA InvKept == IInv /\ [Next]_vars => IInv'
  <1> SUFFICES ASSUME IInv, [Next]_vars PROVE IInv'
    OBVIOUS
  <1>1. BindingInv /\ Typed /\ ManifestInv /\ Writers /\ RejectsWithReason
        /\ \A r \in Runs : RunInv(r) /\ Calm(r)
    BY DEF IInv, BindingInv, CalmInv
  <1>0. StatesInv /\ DescribedSources /\ \A r \in Runs : Witness(r)
    BY DEF IInv, SourceInv
  <1>2. BindingInv'
    BY <1>1, BindingKept
  <1>3. \A r \in Runs : Calm(r)'
    BY <1>1, CalmKept
  <1>4. RejectsWithReason'
    BY <1>1, ReasonKept
  <1>5. SourceInv'
    BY <1>0, <1>1, StatesKept, WitnessKept, DescribedKept DEF SourceInv
  <1> QED BY <1>2, <1>3, <1>4, <1>5 DEF IInv, CalmInv

-----------------------------------------------------------------------------
(* The theorems *)

\* Every reachable state satisfies the inductive invariant: what every prepare and
\* verify holds in memory is a version of the checkout that was really there.
THEOREM Invariance == Spec => []IInv
  <1> QED BY InitInv, InvKept, PTL DEF Spec

\* Versions, receipts, positions and memory have their types in every reachable
\* state of release_candidate.py, whatever the matrix.
THEOREM TypeCorrect == Spec => []Typed
  <1>1. IInv => Typed
    BY DEF IInv, BindingInv
  <1> QED BY <1>1, Invariance, PTL

\* A candidate that verify has written names a pair that holds the described
\* sources and passed every cell of the matrix, however the reads interleave with
\* edits, commits, rebuilds and jobs; and receipts that bind, unless they or the
\* sources were replaced behind the last look.
THEOREM Certification == Spec => []CandidateBound
  <1>1. IInv => CandidateBound
    BY DEF IInv, BindingInv, CandidateInv
  <1> QED BY <1>1, Invariance, PTL

\* prepare and verify turn away a checkout in which everything agrees, while the commit,
\* the names of the paths that differ from it, the files, the distributions and the
\* receipts stay as they are, only when another invocation wrote their output.
THEOREM Acceptance == Spec => []RejectsWithReason
  <1>1. IInv => RejectsWithReason
    BY DEF IInv, CalmInv
  <1> QED BY <1>1, Invariance, PTL

\* What a candidate names as its source, the revision, the status and the files, is what
\* the checkout was at one moment, though git is asked twice for each and the files are
\* hashed in between: an edit and a commit between any two of these looks of prepare or
\* of verify are noticed by one of them.
THEOREM Description == Spec => []DescribedSources
  <1>1. IInv => DescribedSources
    BY DEF IInv, SourceInv
  <1> QED BY <1>1, Invariance, PTL
====
