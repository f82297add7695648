------------------------- MODULE PackCompileProofs -------------------------
(***************************************************************************)
(* Proofs about PackCompile.  The invariant follows the bytes: what the    *)
(* manifest names is captured before anything is merged, what was merged   *)
(* is what was captured, and the work list of templates accounts for all   *)
(* that its roots lead to.  A second invariant says, of a directory that   *)
(* nobody edits, that the captured bytes are those on disk and that every  *)
(* reported problem is one of the pack.                                    *)
(***************************************************************************)
EXTENDS PackCompile, TLAPS

Checked == {"paths", "templates"} \cup Done
Past == {"merge"} \cup Checked

\* The nodes of the profiles, and where the work list starts.
NodesHere == NodesOf(bytes, Used(files))
RootsHere == Roots(bytes, NodesHere)

Shape ==
  /\ TypeOK
  /\ disk = [f \in Files |-> disk[f]]
  /\ \A f \in Files : disk[f] \in Contents[f]
  /\ bytes = [f \in Files |-> bytes[f]]
  /\ \A f \in Files : bytes[f] # Link
  /\ parsed = [f \in Files |-> parsed[f]]
  /\ fields = [s \in Sections |-> fields[s]]
  /\ \A s \in Sections : files[s] \subseteq Documents
  /\ pc = "resolve" => bytes[Manifest] # Absent

\* What the manifest names is captured or still to be read.
CaptureInv ==
  /\ pc = "capture" => Used(files) \subseteq wanted \cup Captured(bytes)
  /\ pc \in Past => Used(files) \subseteq Captured(bytes)

\* The file f of the section s is parsed and merged.
Merged(s, f) == f \in files[s] /\ <<s, f>> \notin queue

\* What was merged is what was captured, without a conflict if none is reported.
MergeInv ==
  pc = "merge" =>
    \A s \in Sections : \A f \in Files : Merged(s, f) =>
      /\ parsed[f] = bytes[f]
      /\ ~problems =>
           /\ bytes[f].valid /\ bytes[f].scalars \subseteq fields[s]
           /\ \A g \in Files : g # f /\ Merged(s, g) => bytes[f].scalars \cap bytes[g].scalars = {}

\* Past the merge, all files agree.
MergedInv ==
  pc \in Checked =>
    /\ \A f \in Used(files) : parsed[f] = bytes[f] /\ bytes[f].valid
    /\ \A s \in Sections : \A f, g \in files[s] : f # g => bytes[f].scalars \cap bytes[g].scalars = {}

NodeCaptured(n) ==
  /\ n.template # None => n.template \in Templates \cap Captured(bytes)
  /\ n.source # None => n.source \in Captured(bytes)

\* Checked nodes have what they need.
NodeInv ==
  /\ pc = "paths" => nodes \subseteq NodesHere
  /\ pc \in Checked /\ ~problems => ReferencesKnown(bytes, Used(files))
  /\ pc \in Checked /\ ~problems => \A n \in NodesHere : (pc = "paths" /\ n \in nodes) \/ NodeCaptured(n)

\* The work list: it starts from the roots, stays within what they lead to, and
\* forgets nothing as long as no problem is reported.
TemplateInv ==
  /\ pc = "templates" =>
       /\ RootsHere \subseteq seen \cup pending
       /\ ~problems => \A t \in seen : ~BadTemplate(t, bytes) /\ Referenced(t, bytes) \subseteq seen \cup pending
  /\ pc \in {"templates", "rendering", "exported"} => seen \cup pending \subseteq Reachable(RootsHere, bytes)
  /\ pc \in {"start", "resolve", "capture", "merge", "paths"} => seen = {}

\* A compiled pack is sound, and hashed as it is used.
DoneInv ==
  /\ pc # "broken"
  /\ pc \in Done => /\ ~problems
                    /\ SoundPack(files, bytes)
                    /\ hashed = PackHashes(files, bytes)

IInv == Shape /\ CaptureInv /\ MergeInv /\ MergedInv /\ NodeInv /\ TemplateInv /\ DoneInv

(* A directory that nobody edits *)

Unsound == ~ /\ Manifest \in Regular(disk)
             /\ ManifestResolves(disk, disk[Manifest])
             /\ SoundPack(Resolved(disk, disk[Manifest]), OnDisk)

QuietRead ==
  /\ \A f \in Captured(bytes) : f \in Regular(disk) /\ bytes[f] = disk[f]
  /\ pc \notin {"start", "failed"} => Manifest \in Captured(bytes)
  /\ pc \notin {"start", "resolve", "failed"} =>
       ManifestResolves(disk, disk[Manifest]) /\ files = Resolved(disk, disk[Manifest])
  /\ pc = "capture" => /\ wanted \subseteq Regular(disk)
                       /\ Templates \cap Regular(disk) \subseteq wanted \cup Captured(bytes)
  /\ pc \in Past => Templates \cap Regular(disk) \subseteq Captured(bytes)

\* What a section holds came from a file that was merged into it.
QuietMerge ==
  /\ pc \in {"start", "resolve", "capture"} => ~problems /\ \A s \in Sections : fields[s] = {}
  /\ pc = "merge" => \A s \in Sections :
       /\ \A f \in Files : <<s, f>> \in queue => f \in files[s]
       /\ \A v \in fields[s] : \E f \in Files : Merged(s, f) /\ v \in bytes[f].scalars

QuietProblems ==
  /\ pc \in Past /\ problems => ~SoundPack(files, OnDisk)
  /\ pc = "failed" => Unsound

Quiet == edits = 0 => QuietRead /\ QuietMerge /\ QuietProblems

-----------------------------------------------------------------------------
(* Lemmas about the operators *)

\* Bytes that agree on the files in use have the same nodes and the same references.
LEMMA FilesAgree ==
  ASSUME NEW b, NEW c, NEW U, \A f \in U : b[f] = c[f]
  PROVE  /\ NodesOf(b, U) = NodesOf(c, U)
         /\ ReferencesKnown(b, U) <=> ReferencesKnown(c, U)
  <1>1. NodesOf(b, U) = NodesOf(c, U)
    BY DEF NodesOf
  <1>2. DeclaredOnce(b, U) <=> DeclaredOnce(c, U)
    BY DEF DeclaredOnce
  <1>3. UNION {b[f].ids : f \in U} = UNION {c[f].ids : f \in U}
    OBVIOUS
  <1>4. MentionsDeclared(b, U) <=> MentionsDeclared(c, U)
    BY <1>3 DEF MentionsDeclared
  <1> QED BY <1>1, <1>2, <1>4 DEF ReferencesKnown

\* A template that reachable templates refer to is reachable, and so is a root.
LEMMA ReachableClosed ==
  ASSUME NEW roots, NEW b
  PROVE  /\ roots \cap Templates \subseteq Reachable(roots, b)
         /\ \A t \in Reachable(roots, b) :
              Parses(t, b) => Referenced(t, b) \subseteq Reachable(roots, b)
  <1>1. roots \cap Templates \subseteq Reachable(roots, b)
    BY DEF Reachable
  <1>2. ASSUME NEW t \in Reachable(roots, b), Parses(t, b), NEW u \in Referenced(t, b)
        PROVE  u \in Reachable(roots, b)
    <2>1. u \in Templates
      BY <1>2 DEF Referenced, Existing
    <2>2. ASSUME NEW S \in SUBSET Templates, roots \subseteq S, Closed(S, b)
          PROVE  u \in S
      <3>1. t \in S
        BY <2>2 DEF Reachable
      <3> QED BY <3>1, <2>2, <1>2 DEF Closed
    <2> QED BY <2>1, <2>2 DEF Reachable
  <1> QED BY <1>1, <1>2

\* What is closed and holds the roots holds all that is reachable.
LEMMA ReachableLeast ==
  ASSUME NEW roots, NEW b, NEW S \in SUBSET Templates, roots \subseteq S, Closed(S, b)
  PROVE  Reachable(roots, b) \subseteq S
  BY DEF Reachable

\* Templates are judged by their bytes alone.
LEMMA TemplatesAgree ==
  ASSUME NEW b, NEW c, Templates \subseteq Files, \A t \in Templates : b[t] = c[t], NEW ns
  PROVE  /\ Templates \cap Captured(b) = Templates \cap Captured(c)
         /\ \A t \in Templates : BadTemplate(t, b) <=> BadTemplate(t, c)
         /\ Jinja \subseteq Templates => Roots(b, ns) = Roots(c, ns)
         /\ \A roots : Reachable(roots, b) = Reachable(roots, c)
  <1>1. Templates \cap Captured(b) = Templates \cap Captured(c)
    BY DEF Captured
  <1>2. \A ref : Existing(ref, b) = Existing(ref, c)
    BY <1>1 DEF Existing
  <1>3. \A t \in Templates : Dangling(t, b) = Dangling(t, c) /\ Referenced(t, b) = Referenced(t, c)
    BY <1>2 DEF Dangling, Referenced
  <1>4. \A t \in Templates : Parses(t, b) <=> Parses(t, c)
    BY <1>1 DEF Parses
  <1>5. \A t \in Templates : BadTemplate(t, b) <=> BadTemplate(t, c)
    BY <1>3, <1>4 DEF BadTemplate
  <1>6. Jinja \subseteq Templates => Roots(b, ns) = Roots(c, ns)
    BY <1>1 DEF Roots
  <1>7. \A S \in SUBSET Templates : Closed(S, b) <=> Closed(S, c)
    BY <1>3, <1>4 DEF Closed
  <1>8. \A roots : Reachable(roots, b) = Reachable(roots, c)
    BY <1>7 DEF Reachable
  <1> QED BY <1>1, <1>5, <1>6, <1>8

\* The nodes of documents name templates below templates_dir, and files.
LEMMA NodesOfDocuments ==
  ASSUME NEW b, NEW U \in SUBSET Documents,
         \A f \in U : b[f] \in Contents[f] /\ b[f] # Absent /\ b[f] # Link
  PROVE  /\ \A n \in NodesOf(b, U) : n.source # None => n.source \in Files
         /\ NodeTemplates(NodesOf(b, U)) \subseteq Templates
         /\ Roots(b, NodesOf(b, U)) \subseteq Templates
  <1>1. ASSUME NEW n \in NodesOf(b, U)
        PROVE  /\ n.template # None => n.template \in Templates
               /\ n.source # None => n.source \in Files
    <2>1. PICK f \in U : n \in b[f].nodes
      BY DEF NodesOf
    <2>2. f \in Documents /\ b[f] \in Contents[f] \ {Absent, Link}
      OBVIOUS
    <2>3. \A c \in Contents[f] \ {Absent, Link} : \A m \in c.nodes :
            /\ m.template # None => m.template \in Templates
            /\ m.source # None => m.source \in Files
      BY <2>2, PackAssumption
    <2> QED BY <2>1, <2>2, <2>3
  <1>2. NodeTemplates(NodesOf(b, U)) \subseteq Templates
    BY <1>1 DEF NodeTemplates
  <1> QED BY <1>1, <1>2, PackAssumption DEF Roots

-----------------------------------------------------------------------------
(* The invariant holds at the start and is kept, one conjunct at a time *)

LEMMA InitInv == Init => IInv
  <1> SUFFICES ASSUME Init PROVE IInv
    OBVIOUS
  <1>1. /\ disk = [f \in Files |-> disk[f]] /\ \A f \in Files : disk[f] \in Contents[f]
        /\ edits \in 0 .. MaxEdits
    BY PackAssumption DEF Init
  <1>2. Shape
    BY <1>1, PackAssumption DEF Init, Shape, TypeOK
  <1> QED BY <1>2 DEF Init, IInv, CaptureInv, MergeInv, MergedInv, NodeInv, TemplateInv, DoneInv,
            Past, Checked, Done

\* What is read is no link, and something the environment may put there.
LEMMA ReadRegular ==
  ASSUME Shape, NEW f \in Regular(disk)
  PROVE  f \in Files /\ disk[f] \in Contents[f] /\ disk[f] # Absent /\ disk[f] # Link
  BY DEF Shape, Regular

\* The entries of a manifest resolve to documents.
LEMMA ResolvedDocuments ==
  ASSUME Shape, bytes[Manifest] # Absent, ManifestResolves(disk, bytes[Manifest])
  PROVE  /\ Resolved(disk, bytes[Manifest]) \in [Sections -> SUBSET Files]
         /\ \A s \in Sections : Resolved(disk, bytes[Manifest])[s] \subseteq Documents \cap Regular(disk)
  <1>1. bytes[Manifest] \in Contents[Manifest] \ {Absent, Link}
    BY PackAssumption DEF Shape, TypeOK
  <1>2. bytes[Manifest].valid
    BY DEF ManifestResolves
  <1>3. \A s \in Sections : \A i \in DOMAIN bytes[Manifest].entries[s] :
          bytes[Manifest].entries[s][i] \subseteq Documents
    BY <1>1, <1>2, PackAssumption
  <1>4. \A s \in Sections : EntriesResolve(disk, bytes[Manifest].entries[s])
    BY DEF ManifestResolves
  <1>5. \A s \in Sections :
          ResolvedEntries(disk, bytes[Manifest].entries[s]) \subseteq Documents \cap Regular(disk)
    BY <1>3, <1>4 DEF ResolvedEntries, EntriesResolve, Matches
  <1> QED BY <1>5 DEF Resolved, Documents

\* The nodes of the profiles name templates below templates_dir, and files.
LEMMA NodesOK ==
  ASSUME IInv, pc \in Checked
  PROVE  /\ NodesHere = NodesOf(parsed, Used(files))
         /\ \A n \in NodesHere : n.source # None => n.source \in Files
         /\ NodeTemplates(NodesHere) \subseteq Templates /\ RootsHere \subseteq Templates
  <1>1. Used(files) \subseteq Documents
    BY DEF IInv, Shape, Used
  <1>2. \A f \in Used(files) : bytes[f] \in Contents[f] /\ bytes[f] # Absent /\ bytes[f] # Link
    BY DEF IInv, Shape, TypeOK, CaptureInv, Past, Captured
  <1>3. \A f \in Used(files) : bytes[f] = parsed[f]
    BY DEF IInv, MergedInv
  <1>4. NodesHere = NodesOf(parsed, Used(files))
    BY <1>3, FilesAgree DEF NodesHere
  <1> QED BY <1>1, <1>2, <1>4, NodesOfDocuments DEF NodesHere, RootsHere

LEMMA ShapeKept == IInv /\ [Next]_vars => Shape'
  <1> SUFFICES ASSUME IInv, [Next]_vars PROVE Shape'
    OBVIOUS
  <1> USE DEF Shape, TypeOK
  <1>0. Shape
    BY DEF IInv
  <1>1. CASE ReadManifest
    BY <1>0, <1>1, ReadRegular, PackAssumption DEF ReadManifest
  <1>2. CASE Resolve
    <2>1. CASE ManifestResolves(disk, bytes[Manifest])
      <3>1. /\ files' \in [Sections -> SUBSET Files]
            /\ \A s \in Sections : files'[s] \subseteq Documents
        BY <1>0, <1>2, <2>1, ResolvedDocuments DEF Resolve
      <3>2. wanted' \subseteq Files
        BY <1>2, <2>1, <3>1, PackAssumption DEF Resolve, Used
      <3> QED BY <1>0, <1>2, <2>1, <3>1, <3>2 DEF Resolve
    <2>2. CASE ~ManifestResolves(disk, bytes[Manifest])
      BY <1>0, <1>2, <2>2 DEF Resolve
    <2> QED BY <2>1, <2>2
  <1>3. ASSUME NEW f \in Files, Capture(f) PROVE Shape'
    BY <1>0, <1>3, ReadRegular DEF Capture
  <1>4. CASE StartMerging
    BY <1>0, <1>4 DEF StartMerging
  <1>5. ASSUME NEW s \in Sections, NEW f \in Files, Merge(s, f) PROVE Shape'
    <2>1. PICK part \in SUBSET bytes[f].scalars : fields' = [fields EXCEPT ![s] = fields[s] \cup part]
      BY <1>5 DEF Merge
    <2>2. /\ queue' \subseteq queue /\ parsed' = [parsed EXCEPT ![f] = bytes[f]]
          /\ UNCHANGED <<disk, edits, pc, files, wanted, bytes, nodes, pending, seen, hashed>>
      BY <1>5 DEF Merge
    <2>3. problems' \in BOOLEAN
      BY <1>0, <1>5 DEF Merge
    <2>4. fields' = [x \in Sections |-> fields'[x]]
      BY <1>0, <2>1
    <2>5. parsed' = [g \in Files |-> parsed'[g]]
          /\ \A g \in Files : parsed'[g] \in Contents[g] \cup {Absent}
      BY <1>0, <2>2
    <2> QED BY <1>0, <2>2, <2>3, <2>4, <2>5
  <1>6. CASE Validate
    BY <1>0, <1>6 DEF Validate, ReferencesKnown, DeclaredOnce, MentionsDeclared
  <1>7. ASSUME NEW n \in nodes, CheckNode(n) PROVE Shape'
    <2>1. n.source # None /\ n.source \in Regular(disk) =>
            n.source \in Files /\ disk[n.source] \in Contents[n.source] /\ disk[n.source] # Link
      BY <1>0, ReadRegular
    <2>2. /\ bytes' = [f \in Files |-> bytes'[f]] /\ \A f \in Files : bytes'[f] # Link
          /\ \A f \in Files : bytes'[f] \in Contents[f] \cup {Absent}
      BY <1>0, <1>7, <2>1 DEF CheckNode, Copied
    <2>3. problems' \in BOOLEAN
      BY <1>0, <1>7 DEF CheckNode, Missing
    <2> QED BY <1>0, <1>7, <2>2, <2>3 DEF CheckNode
  <1>8. CASE StartTemplates
    <2>1. Roots(bytes, NodesOf(parsed, Used(files))) \subseteq Templates
      BY <1>8, NodesOK DEF StartTemplates, Checked, RootsHere
    <2> QED BY <1>0, <1>8, <2>1 DEF StartTemplates
  <1>9. ASSUME NEW t \in Templates \cup pending, CheckTemplate(t) PROVE Shape'
    <2>1. Referenced(t, bytes) \subseteq Templates
      BY DEF Referenced, Existing
    <2>2. problems' \in BOOLEAN
      BY <1>0, <1>9 DEF CheckTemplate, BadTemplate, Parses
    <2> QED BY <1>0, <1>9, <2>1, <2>2 DEF CheckTemplate
  <1>10. CASE Conclude
    BY <1>0, <1>10 DEF Conclude, Done
  <1>11. CASE StartRendering
    <2>1. PICK chosen \in SUBSET NodesOf(parsed, Used(files)) :
            /\ pc' \in {"rendering", "broken"}
            /\ pending' = NodeTemplates(chosen) \cup (CoreDocs \cap Captured(bytes))
      BY <1>11 DEF StartRendering
    <2>2. NodeTemplates(chosen) \subseteq NodeTemplates(NodesOf(parsed, Used(files)))
      BY DEF NodeTemplates
    <2>3. pending' \subseteq Templates
      BY <1>11, <2>1, <2>2, NodesOK, PackAssumption DEF StartRendering, Checked, Done
    <2> QED BY <1>0, <1>11, <2>1, <2>3 DEF StartRendering, Done
  <1>12. ASSUME NEW t \in Templates \cup pending, RenderTemplate(t) PROVE Shape'
    <2>1. Referenced(t, bytes) \subseteq Templates
      BY DEF Referenced, Existing
    <2>2. pending' \subseteq Templates /\ seen' \subseteq Templates /\ pc' \in {"rendering", "broken"}
      BY <1>0, <1>12, <2>1 DEF RenderTemplate
    <2> QED BY <1>0, <1>12, <2>2 DEF RenderTemplate, Done
  <1>13. CASE FinishRendering
    BY <1>0, <1>13 DEF FinishRendering, Done
  <1>14. ASSUME NEW f \in Files, Edit(f) PROVE Shape'
    BY <1>0, <1>14, PackAssumption DEF Edit
  <1>15. CASE UNCHANGED vars
    BY <1>0, <1>15 DEF vars
  <1> QED BY <1>1, <1>2, <1>3, <1>4, <1>5, <1>6, <1>7, <1>8, <1>9, <1>10, <1>11, <1>12, <1>13,
            <1>14, <1>15 DEF Next, Step

\* Reading a source for the first time changes no captured file.
LEMMA CapturedKept ==
  ASSUME Shape, NEW f \in Files, Capture(f)
  PROVE  /\ Captured(bytes) \subseteq Captured(bytes')
         /\ f \in wanted' \cup Captured(bytes') \/ pc' = "failed"
         /\ wanted \subseteq wanted' \cup {f}
  BY ReadRegular DEF Shape, Capture, Captured

\* Neither does checking a node.
LEMMA CopiedKept ==
  ASSUME Shape, NEW n \in nodes, CheckNode(n)
  PROVE  /\ Captured(bytes) \subseteq Captured(bytes')
         /\ \A f \in Captured(bytes) : bytes'[f] = bytes[f]
         /\ n.source \in Regular(disk) /\ n.source # None => n.source \in Captured(bytes')
         /\ \A f \in Captured(bytes') \ Captured(bytes) : f \in Regular(disk) /\ bytes'[f] = disk[f]
  <1>1. CASE n.source # None /\ n.source \in Regular(disk) \ Captured(bytes)
    <2>1. bytes' = [bytes EXCEPT ![n.source] = disk[n.source]]
      BY <1>1 DEF CheckNode, Copied
    <2>2. n.source \in Files /\ disk[n.source] # Absent
      BY <1>1, ReadRegular
    <2> QED BY <1>1, <2>1, <2>2 DEF Shape, Captured
  <1>2. CASE ~(n.source # None /\ n.source \in Regular(disk) \ Captured(bytes))
    <2>1. bytes' = bytes
      BY <1>2 DEF CheckNode, Copied
    <2> QED BY <1>2, <2>1
  <1> QED BY <1>1, <1>2

LEMMA CaptureKept == IInv /\ [Next]_vars => CaptureInv'
  <1> SUFFICES ASSUME IInv, [Next]_vars PROVE CaptureInv'
    OBVIOUS
  <1> USE DEF CaptureInv, Past, Checked, Done
  <1>0. Shape /\ CaptureInv
    BY DEF IInv
  <1>1. CASE ReadManifest
    BY <1>0, <1>1 DEF ReadManifest
  <1>2. CASE Resolve
    BY <1>0, <1>2 DEF Resolve
  <1>3. ASSUME NEW f \in Files, Capture(f) PROVE CaptureInv'
    <2>1. files' = files /\ pc = "capture" /\ pc' \in {"capture", "failed"}
      BY <1>3 DEF Capture
    <2> QED BY <1>0, <1>3, <2>1, CapturedKept
  <1>4. CASE StartMerging
    BY <1>0, <1>4 DEF StartMerging
  <1>5. ASSUME NEW s \in Sections, NEW f \in Files, Merge(s, f) PROVE CaptureInv'
    BY <1>0, <1>5 DEF Merge
  <1>6. CASE Validate
    BY <1>0, <1>6 DEF Validate
  <1>7. ASSUME NEW n \in nodes, CheckNode(n) PROVE CaptureInv'
    <2>1. files' = files /\ pc = "paths" /\ pc' = "paths"
      BY <1>7 DEF CheckNode
    <2> QED BY <1>0, <1>7, <2>1, CopiedKept
  <1>8. CASE StartTemplates
    BY <1>0, <1>8 DEF StartTemplates
  <1>9. ASSUME NEW t \in Templates \cup pending, CheckTemplate(t) PROVE CaptureInv'
    BY <1>0, <1>9 DEF CheckTemplate
  <1>10. CASE Conclude
    BY <1>0, <1>10 DEF Conclude
  <1>11. CASE StartRendering
    BY <1>0, <1>11 DEF StartRendering
  <1>12. ASSUME NEW t \in Templates \cup pending, RenderTemplate(t) PROVE CaptureInv'
    BY <1>0, <1>12 DEF RenderTemplate
  <1>13. CASE FinishRendering
    BY <1>0, <1>13 DEF FinishRendering
  <1>14. ASSUME NEW f \in Files, Edit(f) PROVE CaptureInv'
    BY <1>0, <1>14 DEF Edit
  <1>15. CASE UNCHANGED vars
    BY <1>0, <1>15 DEF vars
  <1> QED BY <1>1, <1>2, <1>3, <1>4, <1>5, <1>6, <1>7, <1>8, <1>9, <1>10, <1>11, <1>12, <1>13,
            <1>14, <1>15 DEF Next, Step

LEMMA MergeKept == IInv /\ [Next]_vars => MergeInv'
  <1> SUFFICES ASSUME IInv, [Next]_vars, pc' = "merge" PROVE MergeInv'
    BY DEF MergeInv
  <1>0. Shape /\ MergeInv
    BY DEF IInv
  <1>1. CASE StartMerging
    <2>1. \A s \in Sections, f \in Files : ~Merged(s, f)'
      BY <1>1 DEF StartMerging, Merged
    <2> QED BY <2>1 DEF MergeInv
  <1>2. ASSUME NEW s \in Sections, NEW f \in Files, Merge(s, f) PROVE MergeInv'
    <2>1. \A t \in Sections, g \in Files : Merged(t, g)' => Merged(t, g) \/ (t = s /\ g = f)
      BY <1>2 DEF Merge, Merged
    <2>2. parsed' = [parsed EXCEPT ![f] = bytes[f]] /\ bytes' = bytes /\ pc = "merge"
      BY <1>2 DEF Merge
    <2>3. PICK part \in SUBSET bytes[f].scalars : fields' = [fields EXCEPT ![s] = @ \cup part]
      BY <1>2 DEF Merge
    <2>4. \A t \in Sections : fields[t] \subseteq fields'[t]
      BY <1>0, <2>3 DEF Shape
    <2>5. ~problems' => /\ ~problems /\ bytes[f].valid /\ bytes[f].scalars \subseteq fields'[s]
                        /\ bytes[f].scalars \cap fields[s] = {}
      BY <1>2 DEF Merge
    <2>6. ASSUME NEW t \in Sections, NEW g \in Files, Merged(t, g)'
          PROVE  parsed'[g] = bytes'[g]
      BY <1>0, <2>1, <2>2, <2>6 DEF MergeInv, Shape
    <2>7. ASSUME NEW t \in Sections, NEW g \in Files, Merged(t, g)', ~problems'
          PROVE  bytes'[g].valid /\ bytes'[g].scalars \subseteq fields'[t]
      BY <1>0, <2>1, <2>2, <2>4, <2>5, <2>7 DEF MergeInv
    <2>8. ASSUME NEW t \in Sections, NEW g \in Files, NEW h \in Files,
                 Merged(t, g)', Merged(t, h)', g # h, ~problems'
          PROVE  bytes'[g].scalars \cap bytes'[h].scalars = {}
      <3>1. CASE Merged(t, g) /\ Merged(t, h)
        BY <1>0, <2>2, <2>5, <2>8, <3>1 DEF MergeInv
      <3>2. CASE Merged(t, g) /\ t = s /\ h = f
        BY <1>0, <2>2, <2>5, <2>8, <3>2 DEF MergeInv
      <3>3. CASE Merged(t, h) /\ t = s /\ g = f
        BY <1>0, <2>2, <2>5, <2>8, <3>3 DEF MergeInv
      <3> QED BY <2>1, <2>8, <3>1, <3>2, <3>3
    <2> QED BY <2>6, <2>7, <2>8 DEF MergeInv
  <1>3. ASSUME NEW f \in Files, Edit(f) PROVE MergeInv'
    BY <1>0, <1>3 DEF Edit, MergeInv, Merged
  <1>4. CASE UNCHANGED vars
    BY <1>0, <1>4 DEF vars, MergeInv, Merged
  <1>5. ~ReadManifest /\ ~Resolve /\ ~Validate /\ ~StartTemplates /\ ~Conclude /\ ~StartRendering
        /\ ~FinishRendering
    BY DEF ReadManifest, Resolve, Validate, StartTemplates, Conclude, StartRendering, FinishRendering
  <1>6. (\A f \in Files : ~Capture(f)) /\ (\A n \in nodes : ~CheckNode(n))
        /\ \A t \in Templates \cup pending : ~CheckTemplate(t) /\ ~RenderTemplate(t)
    BY DEF Capture, CheckNode, CheckTemplate, RenderTemplate
  <1> QED BY <1>1, <1>2, <1>3, <1>4, <1>5, <1>6 DEF Next, Step

\* Past the merge the captured bytes of the files in use are those that were parsed.
LEMMA MergedKept == IInv /\ [Next]_vars => MergedInv'
  <1> SUFFICES ASSUME IInv, [Next]_vars, pc' \in Checked PROVE MergedInv'
    BY DEF MergedInv
  <1> USE DEF Checked, Done
  <1>0. Shape /\ CaptureInv /\ MergeInv /\ MergedInv
    BY DEF IInv
  <1>1. CASE Validate
    <2>1. /\ pc = "merge" /\ queue = {} /\ ~problems
          /\ UNCHANGED <<files, bytes, parsed, fields>>
      BY <1>1 DEF Validate
    <2>2. \A s \in Sections : \A f \in files[s] : f \in Files /\ Merged(s, f)
      BY <1>0, <2>1 DEF Merged, Shape, TypeOK
    <2>3. ASSUME NEW f \in Used(files) PROVE parsed[f] = bytes[f] /\ bytes[f].valid
      <3>1. PICK s \in Sections : f \in files[s]
        BY DEF Used
      <3> QED BY <1>0, <2>1, <2>2, <3>1 DEF MergeInv
    <2>4. \A s \in Sections : \A f, g \in files[s] : f # g => bytes[f].scalars \cap bytes[g].scalars = {}
      BY <1>0, <2>1, <2>2 DEF MergeInv
    <2> QED BY <2>1, <2>3, <2>4 DEF MergedInv, Used
  <1>2. ASSUME NEW n \in nodes, CheckNode(n) PROVE MergedInv'
    <2>1. pc = "paths" /\ UNCHANGED <<files, parsed>>
      BY <1>2 DEF CheckNode
    <2>2. \A f \in Used(files) : bytes'[f] = bytes[f]
      BY <1>0, <1>2, <2>1, CopiedKept DEF CaptureInv, Past
    <2>3. \A s \in Sections : files[s] \subseteq Used(files)
      BY DEF Used
    <2>4. Used(files') = Used(files)
      BY <2>1
    <2> QED BY <1>0, <2>1, <2>2, <2>3, <2>4 DEF MergedInv
  <1>3. CASE StartTemplates \/ Conclude \/ StartRendering \/ FinishRendering
    BY <1>0, <1>3 DEF MergedInv, StartTemplates, Conclude, StartRendering, FinishRendering
  <1>4. ASSUME NEW t \in Templates \cup pending, CheckTemplate(t) \/ RenderTemplate(t) PROVE MergedInv'
    BY <1>0, <1>4 DEF MergedInv, CheckTemplate, RenderTemplate
  <1>5. ASSUME NEW f \in Files, Edit(f) PROVE MergedInv'
    BY <1>0, <1>5 DEF MergedInv, Edit
  <1>6. CASE UNCHANGED vars
    BY <1>0, <1>6 DEF MergedInv, vars
  <1>7. /\ ~ReadManifest /\ ~Resolve /\ ~StartMerging
        /\ \A f \in Files : ~Capture(f)
        /\ \A s \in Sections, f \in Files : ~Merge(s, f)
    BY DEF ReadManifest, Resolve, StartMerging, Capture, Merge
  <1> QED BY <1>1, <1>2, <1>3, <1>4, <1>5, <1>6, <1>7 DEF Next, Step

\* As long as nothing is captured anew, what is said of the nodes stays true.
LEMMA NodeFrame ==
  ASSUME NodeInv, pc \in Checked, pc' \in Checked, UNCHANGED <<files, bytes>>, problems => problems',
         pc' = "paths" => pc = "paths" /\ nodes' = nodes, pc = "paths" /\ pc' # "paths" => nodes = {}
  PROVE  NodeInv'
  <1>1. NodesHere' = NodesHere
    BY DEF NodesHere, NodesOf
  <1>2. ReferencesKnown(bytes', Used(files')) <=> ReferencesKnown(bytes, Used(files))
    OBVIOUS
  <1>3. \A n : NodeCaptured(n)' <=> NodeCaptured(n)
    BY DEF NodeCaptured
  <1>4. pc' = "paths" => nodes' \subseteq NodesHere
    BY DEF NodeInv
  <1>5. ~problems' => ReferencesKnown(bytes', Used(files'))
    BY <1>2 DEF NodeInv
  <1>6. ASSUME ~problems', NEW n \in NodesHere
        PROVE  (pc' = "paths" /\ n \in nodes') \/ NodeCaptured(n)'
    BY <1>3, <1>6 DEF NodeInv
  <1> QED BY <1>1, <1>4, <1>5, <1>6 DEF NodeInv

LEMMA NodeKept == IInv /\ [Next]_vars => NodeInv'
  <1> SUFFICES ASSUME IInv, [Next]_vars, pc' \in Checked PROVE NodeInv'
    BY DEF NodeInv, Checked
  <1>0. Shape /\ CaptureInv /\ MergeInv /\ MergedInv /\ NodeInv
    BY DEF IInv
  <1>1. CASE Validate
    <2>1. /\ pc' = "paths" /\ UNCHANGED <<files, bytes, parsed>>
          /\ problems' = ~ReferencesKnown(parsed, Used(files))
          /\ nodes' = NodesOf(parsed, Used(files))
      BY <1>1 DEF Validate, Checked, Done
    <2>2. \A f \in Used(files) : bytes[f] = parsed[f]
      BY <2>1, MergedKept DEF MergedInv, Checked
    <2>3. NodesHere' = NodesOf(parsed, Used(files))
      BY <2>1, <2>2, FilesAgree DEF NodesHere
    <2>4. ~problems' => ReferencesKnown(bytes', Used(files'))
      BY <2>1, <2>2, FilesAgree
    <2> QED BY <2>1, <2>3, <2>4 DEF NodeInv
  <1>2. ASSUME NEW n \in nodes, CheckNode(n) PROVE NodeInv'
    <2>1. /\ pc = "paths" /\ pc' = "paths" /\ UNCHANGED files /\ nodes' = nodes \ {n}
          /\ ~problems' => /\ ~problems /\ ~Missing(n.template, bytes, disk)
                           /\ ~Missing(n.source, bytes', disk)
      BY <1>2 DEF CheckNode
    <2>2. \A f \in Used(files) : bytes[f] = bytes'[f]
      BY <1>0, <1>2, <2>1, CopiedKept DEF CaptureInv, Past, Checked
    <2>3. /\ NodesHere' = NodesHere
          /\ ReferencesKnown(bytes', Used(files')) <=> ReferencesKnown(bytes, Used(files))
      BY <2>1, <2>2, FilesAgree DEF NodesHere
    <2>4. n \in NodesHere
      BY <1>0, <2>1 DEF NodeInv
    <2>5. /\ n.template # None => n.template \in Templates
          /\ n.source # None => n.source \in Files
      BY <2>1, <2>4, NodesOK DEF NodeTemplates, Checked
    <2>6. ~problems' => NodeCaptured(n)'
      <3>1. ~problems' /\ n.template # None => n.template \in Captured(bytes)
        BY <2>1, <2>5, PackAssumption DEF Missing, Captured
      <3>2. ~problems' /\ n.source # None => n.source \in Captured(bytes')
        BY <2>1, <2>5 DEF Missing, Captured
      <3> QED BY <1>0, <1>2, <2>5, <3>1, <3>2, CopiedKept DEF NodeCaptured
    <2>7. \A m : NodeCaptured(m) => NodeCaptured(m)'
      BY <1>0, <1>2, CopiedKept DEF NodeCaptured
    <2> QED BY <1>0, <2>1, <2>3, <2>6, <2>7 DEF NodeInv, Checked
  <1>3. CASE StartTemplates
    BY <1>0, <1>3, NodeFrame DEF StartTemplates, Checked
  <1>4. CASE Conclude \/ StartRendering \/ FinishRendering
    BY <1>0, <1>4, NodeFrame DEF Conclude, StartRendering, FinishRendering, Checked, Done
  <1>5. ASSUME NEW t \in Templates \cup pending, CheckTemplate(t) \/ RenderTemplate(t) PROVE NodeInv'
    <2>1. CASE CheckTemplate(t)
      <3>1. problems => problems'
        BY <2>1 DEF CheckTemplate
      <3>2. pc = "templates" /\ UNCHANGED <<pc, files, bytes>>
        BY <2>1 DEF CheckTemplate
      <3> QED BY <1>0, <3>1, <3>2, NodeFrame DEF Checked, Done
    <2>2. CASE RenderTemplate(t)
      <3>1. pc = "rendering" /\ pc' # "paths" /\ UNCHANGED <<files, bytes, problems>>
        BY <2>2 DEF RenderTemplate
      <3> QED BY <1>0, <3>1, NodeFrame DEF Checked, Done
    <2> QED BY <1>5, <2>1, <2>2
  <1>6. ASSUME NEW f \in Files, Edit(f) PROVE NodeInv'
    <2>1. UNCHANGED <<pc, files, bytes, problems, nodes>>
      BY <1>6 DEF Edit
    <2> QED BY <1>0, <2>1, NodeFrame
  <1>7. CASE UNCHANGED vars
    BY <1>0, <1>7, NodeFrame DEF vars
  <1>8. /\ ~ReadManifest /\ ~Resolve /\ ~StartMerging
        /\ \A f \in Files : ~Capture(f)
        /\ \A s \in Sections, f \in Files : ~Merge(s, f)
    BY DEF ReadManifest, Resolve, StartMerging, Capture, Merge, Checked, Done
  <1> QED BY <1>1, <1>2, <1>3, <1>4, <1>5, <1>6, <1>7, <1>8 DEF Next, Step

LEMMA TemplateKept == IInv /\ [Next]_vars => TemplateInv'
  <1> SUFFICES ASSUME IInv, [Next]_vars PROVE TemplateInv'
    OBVIOUS
  <1>0. Shape /\ CaptureInv /\ TemplateInv
    BY DEF IInv
  <1>a. (pc \in Checked /\ UNCHANGED <<files, bytes>>) => RootsHere' = RootsHere
    BY DEF RootsHere, NodesHere, Roots, NodesOf
  <1>1. CASE ReadManifest \/ Resolve \/ StartMerging \/ Validate
    BY <1>0, <1>1 DEF TemplateInv, ReadManifest, Resolve, StartMerging, Validate
  <1>2. ASSUME NEW f \in Files, Capture(f) PROVE TemplateInv'
    BY <1>0, <1>2 DEF TemplateInv, Capture
  <1>3. ASSUME NEW s \in Sections, NEW f \in Files, Merge(s, f) PROVE TemplateInv'
    BY <1>0, <1>3 DEF TemplateInv, Merge
  <1>4. ASSUME NEW n \in nodes, CheckNode(n) PROVE TemplateInv'
    BY <1>0, <1>4 DEF TemplateInv, CheckNode
  <1>5. CASE StartTemplates
    <2>1. /\ pc = "paths" /\ pc' = "templates" /\ seen' = {} /\ UNCHANGED <<files, bytes>>
          /\ pending' = Roots(bytes, NodesOf(parsed, Used(files)))
      BY <1>0, <1>5 DEF StartTemplates, TemplateInv
    <2>2. pending' = RootsHere' /\ RootsHere' = RootsHere /\ RootsHere \subseteq Templates
      BY <1>a, <2>1, NodesOK DEF RootsHere, Checked
    <2>3. RootsHere' \subseteq Reachable(RootsHere', bytes')
      BY <2>1, <2>2, ReachableClosed
    <2> QED BY <2>1, <2>2, <2>3 DEF TemplateInv
  <1>6. ASSUME NEW t \in Templates \cup pending, CheckTemplate(t) PROVE TemplateInv'
    <2> DEFINE found == IF Parses(t, bytes) THEN Referenced(t, bytes) ELSE {}
    <2>1. /\ pc = "templates" /\ t \in pending /\ UNCHANGED <<pc, files, bytes>>
          /\ seen' = seen \cup {t} /\ pending' = (pending \cup found) \ seen'
      BY <1>6 DEF CheckTemplate
    <2>2. RootsHere' = RootsHere
      BY <1>a, <2>1 DEF Checked
    <2>3. t \in Reachable(RootsHere, bytes) /\ found \subseteq Reachable(RootsHere, bytes)
      BY <1>0, <2>1, ReachableClosed DEF TemplateInv
    <2>4. seen' \cup pending' = seen \cup pending \cup found
      BY <2>1
    <2>5. ~problems' => ~problems /\ ~BadTemplate(t, bytes)
      BY <1>6 DEF CheckTemplate
    <2>6. ~problems' => \A u \in seen' : ~BadTemplate(u, bytes) /\ Referenced(u, bytes) \subseteq seen' \cup pending'
      <3>1. ~problems' => Referenced(t, bytes) \subseteq found
        BY <2>5 DEF BadTemplate
      <3> HIDE DEF found
      <3>2. ~problems' => \A u \in seen : ~BadTemplate(u, bytes) /\ Referenced(u, bytes) \subseteq seen \cup pending
        BY <1>0, <2>1, <2>5 DEF TemplateInv
      <3> QED BY <2>1, <2>4, <2>5, <3>1, <3>2
    <2> HIDE DEF found
    <2>7. seen' \cup pending' \subseteq Reachable(RootsHere', bytes')
      BY <1>0, <2>1, <2>2, <2>3, <2>4 DEF TemplateInv
    <2>8. RootsHere' \subseteq seen' \cup pending'
      BY <1>0, <2>1, <2>2, <2>4 DEF TemplateInv
    <2>9. \A u : /\ BadTemplate(u, bytes') <=> BadTemplate(u, bytes)
                 /\ Referenced(u, bytes') = Referenced(u, bytes)
      BY <2>1
    <2> QED BY <2>1, <2>6, <2>7, <2>8, <2>9 DEF TemplateInv
  <1>7. CASE Conclude
    BY <1>7 DEF TemplateInv, Conclude
  <1>8. CASE StartRendering
    <2>1. PICK chosen \in SUBSET NodesOf(parsed, Used(files)) :
            /\ pc' \in {"rendering", "broken"}
            /\ pending' = NodeTemplates(chosen) \cup (CoreDocs \cap Captured(bytes))
      BY <1>8 DEF StartRendering
    <2>2. pc = "compiled" /\ seen' = {} /\ UNCHANGED <<files, bytes>>
      BY <1>8 DEF StartRendering
    <2>3. chosen \subseteq NodesHere /\ RootsHere \subseteq Templates
      BY <2>1, <2>2, NodesOK DEF Checked, Done
    <2>4. pending' \subseteq RootsHere
      BY <2>1, <2>3, PackAssumption DEF RootsHere, Roots, NodeTemplates
    <2>5. RootsHere' = RootsHere /\ RootsHere \subseteq Reachable(RootsHere, bytes)
      BY <1>a, <2>2, <2>3, ReachableClosed DEF Checked, Done
    <2> QED BY <2>1, <2>2, <2>4, <2>5 DEF TemplateInv
  <1>9. ASSUME NEW t \in Templates \cup pending, RenderTemplate(t) PROVE TemplateInv'
    <2>1. pc = "rendering" /\ t \in pending /\ seen' = seen \cup {t} /\ UNCHANGED <<files, bytes>>
          /\ pc' \in {"rendering", "broken"}
      BY <1>9 DEF RenderTemplate
    <2>2. pc' = "rendering" => ~BadTemplate(t, bytes) /\ pending' \subseteq pending \cup Referenced(t, bytes)
      BY <1>9, <2>1 DEF RenderTemplate
    <2>3. seen \cup pending \subseteq Reachable(RootsHere, bytes)
      BY <1>0, <2>1 DEF TemplateInv
    <2>4. pc' = "rendering" => Referenced(t, bytes) \subseteq Reachable(RootsHere, bytes)
      BY <2>1, <2>2, <2>3, ReachableClosed DEF BadTemplate
    <2>5. RootsHere' = RootsHere
      BY <1>a, <2>1 DEF Checked, Done
    <2> QED BY <2>1, <2>2, <2>3, <2>4, <2>5 DEF TemplateInv
  <1>10. CASE FinishRendering
    <2>1. pc = "rendering" /\ pc' = "exported" /\ UNCHANGED <<files, bytes, seen, pending>>
      BY <1>10 DEF FinishRendering
    <2> QED BY <1>0, <1>a, <2>1 DEF TemplateInv, Checked, Done
  <1>11. ASSUME NEW f \in Files, Edit(f) PROVE TemplateInv'
    <2>1. UNCHANGED <<pc, files, bytes, seen, pending, problems>>
      BY <1>11 DEF Edit
    <2> QED BY <1>0, <1>a, <2>1 DEF TemplateInv, Checked, Done
  <1>12. CASE UNCHANGED vars
    <2>1. UNCHANGED <<pc, files, bytes, seen, pending, problems>>
      BY <1>12 DEF vars
    <2> QED BY <1>0, <1>a, <2>1 DEF TemplateInv, Checked, Done
  <1> QED BY <1>1, <1>2, <1>3, <1>4, <1>5, <1>6, <1>7, <1>8, <1>9, <1>10, <1>11, <1>12 DEF Next, Step

\* An empty work list without a problem means that the pack is sound.
LEMMA ConcludeSound ==
  ASSUME IInv, pc = "templates", pending = {}, ~problems
  PROVE  SoundPack(files, bytes)
  <1> USE DEF Checked, Past, Done
  <1>0. Shape /\ CaptureInv /\ MergedInv /\ NodeInv /\ TemplateInv
    BY DEF IInv
  <1>1. \A f \in Used(files) : f \in Captured(bytes) /\ bytes[f].valid
    BY <1>0 DEF CaptureInv, MergedInv
  <1>2. \A s \in Sections : \A f, g \in files[s] : f # g => bytes[f].scalars \cap bytes[g].scalars = {}
    BY <1>0 DEF MergedInv
  <1>3. ReferencesKnown(bytes, Used(files)) /\ \A n \in NodesHere : NodeCaptured(n)
    BY <1>0 DEF NodeInv
  <1>4. Closed(seen, bytes) /\ RootsHere \subseteq seen /\ seen \in SUBSET Templates
    BY <1>0 DEF TemplateInv, Closed, Shape, TypeOK
  <1>5. \A t \in Reachable(RootsHere, bytes) : ~BadTemplate(t, bytes)
    BY <1>0, <1>4, ReachableLeast DEF TemplateInv
  <1> QED BY <1>1, <1>2, <1>3, <1>5 DEF SoundPack, NodesHere, RootsHere, NodeCaptured

LEMMA DoneKept == IInv /\ [Next]_vars => DoneInv'
  <1> SUFFICES ASSUME IInv, [Next]_vars PROVE DoneInv'
    OBVIOUS
  <1>0. Shape /\ TemplateInv /\ DoneInv
    BY DEF IInv
  <1>a. ASSUME pc \in Done, pc' # "broken", UNCHANGED <<files, bytes, problems, hashed>> PROVE DoneInv'
    BY <1>0, <1>a DEF DoneInv
  <1>1. CASE Conclude
    <2>1. /\ pc = "templates" /\ pending = {} /\ UNCHANGED <<files, bytes, problems>>
          /\ problems => pc' = "failed"
          /\ ~problems => pc' = "compiled" /\ hashed' = PackHashes(files, bytes)
      BY <1>1 DEF Conclude
    <2> QED BY <2>1, ConcludeSound DEF DoneInv, Done
  <1>2. CASE StartRendering
    <2>1. pc = "compiled" /\ UNCHANGED <<files, bytes, problems, hashed>>
      BY <1>2 DEF StartRendering
    <2>2. \A n \in NodesOf(parsed, Used(files)) : n.source # None => n.source \in Captured(bytes)
      BY <1>0, <2>1, NodesOK DEF DoneInv, SoundPack, NodesHere, Checked, Done
    <2>3. pc' # "broken"
      BY <1>2, <2>2 DEF StartRendering
    <2> QED BY <1>a, <2>1, <2>3 DEF Done
  <1>3. ASSUME NEW t \in Templates \cup pending, RenderTemplate(t) PROVE DoneInv'
    <2>1. pc = "rendering" /\ t \in pending /\ UNCHANGED <<files, bytes, problems, hashed>>
      BY <1>3 DEF RenderTemplate
    <2>2. ~BadTemplate(t, bytes)
      BY <1>0, <2>1 DEF TemplateInv, DoneInv, SoundPack, RootsHere, NodesHere, Done
    <2>3. pc' # "broken"
      BY <1>3, <2>1, <2>2 DEF RenderTemplate
    <2> QED BY <1>a, <2>1, <2>3 DEF Done
  <1>4. CASE FinishRendering
    BY <1>a, <1>4 DEF FinishRendering, Done
  <1>5. ASSUME NEW f \in Files, Edit(f) PROVE DoneInv'
    BY <1>0, <1>5 DEF Edit, DoneInv
  <1>6. CASE UNCHANGED vars
    BY <1>0, <1>6 DEF vars, DoneInv
  <1>7. CASE ReadManifest \/ Resolve \/ StartMerging \/ Validate \/ StartTemplates
    BY <1>0, <1>7 DEF ReadManifest, Resolve, StartMerging, Validate, StartTemplates, DoneInv, Done
  <1>8. ASSUME NEW f \in Files, Capture(f) PROVE DoneInv'
    BY <1>0, <1>8 DEF Capture, DoneInv, Done
  <1>9. ASSUME NEW s \in Sections, NEW f \in Files, Merge(s, f) PROVE DoneInv'
    BY <1>0, <1>9 DEF Merge, DoneInv, Done
  <1>10. ASSUME NEW n \in nodes, CheckNode(n) PROVE DoneInv'
    BY <1>0, <1>10 DEF CheckNode, DoneInv, Done
  <1>11. ASSUME NEW t \in Templates \cup pending, CheckTemplate(t) PROVE DoneInv'
    BY <1>0, <1>11 DEF CheckTemplate, DoneInv, Done
  <1> QED BY <1>1, <1>2, <1>3, <1>4, <1>5, <1>6, <1>7, <1>8, <1>9, <1>10, <1>11 DEF Next, Step

LEMMA Invariance == Spec => []IInv
  <1>1. IInv /\ [Next]_vars => IInv'
    BY ShapeKept, CaptureKept, MergeKept, MergedKept, NodeKept, TemplateKept, DoneKept DEF IInv
  <1> QED BY InitInv, <1>1, PTL DEF Spec

-----------------------------------------------------------------------------
(* A directory that nobody edits *)

\* Past the capture, what is judged is what is on disk.
LEMMA OnDiskAgrees ==
  ASSUME IInv, QuietRead, pc \in Past
  PROVE  /\ \A f \in Used(files) : bytes[f] = OnDisk[f]
         /\ \A t \in Templates : bytes[t] = OnDisk[t]
  <1>1. \A f \in Captured(bytes) : f \in Files /\ bytes[f] = OnDisk[f]
    BY DEF QuietRead, OnDisk, Captured
  <1>2. \A t \in Templates : t \notin Captured(bytes) => bytes[t] = Absent /\ OnDisk[t] = Absent
    BY PackAssumption DEF QuietRead, OnDisk, Captured
  <1> QED BY <1>1, <1>2 DEF IInv, CaptureInv

\* The steps of compilation leave the directory alone; an edit counts.
LEMMA QuietStep ==
  ASSUME IInv, [Next]_vars, edits' = 0
  PROVE  /\ edits = 0 /\ UNCHANGED disk
         /\ Step \/ UNCHANGED vars
  <1>1. ASSUME NEW f \in Files, Edit(f) PROVE FALSE
    BY <1>1 DEF Edit, IInv, Shape, TypeOK
  <1>2. CASE Step
    BY <1>2 DEF Step, ReadManifest, Resolve, Capture, StartMerging, Merge, Validate, CheckNode,
           StartTemplates, CheckTemplate, Conclude, StartRendering, RenderTemplate, FinishRendering
  <1>3. CASE UNCHANGED vars
    BY <1>3 DEF vars
  <1> QED BY <1>1, <1>2, <1>3 DEF Next

LEMMA QuietReadKept ==
  ASSUME IInv, QuietRead, Step \/ UNCHANGED vars, UNCHANGED disk
  PROVE  QuietRead'
  <1> USE DEF Past, Checked, Done
  <1>0. Shape
    BY DEF IInv
  <1>1. CASE ReadManifest
    <2>1. CASE Manifest \in Regular(disk)
      <3>1. bytes' = [bytes EXCEPT ![Manifest] = disk[Manifest]] /\ pc' = "resolve"
        BY <1>1, <2>1 DEF ReadManifest
      <3>2. Manifest \in Captured(bytes') /\ \A f \in Captured(bytes') : f = Manifest \/ f \in Captured(bytes)
        BY <1>0, <2>1, <3>1, ReadRegular DEF Captured, Shape
      <3>3. \A f \in Captured(bytes') : f \in Regular(disk) /\ bytes'[f] = disk[f]
        BY <1>0, <2>1, <3>1, <3>2 DEF QuietRead, Shape, Captured
      <3> QED BY <3>1, <3>2, <3>3 DEF QuietRead, Regular
    <2>2. CASE Manifest \notin Regular(disk)
      BY <1>1, <2>2 DEF ReadManifest, QuietRead, Captured, Regular
    <2> QED BY <2>1, <2>2
  <1>2. CASE Resolve
    <2>1. bytes[Manifest] = disk[Manifest] /\ UNCHANGED bytes
      BY <1>2 DEF Resolve, QuietRead
    <2>2. CASE ManifestResolves(disk, bytes[Manifest])
      <3>1. files' = Resolved(disk, bytes[Manifest]) /\ pc' = "capture"
            /\ wanted' = Used(files') \cup (Templates \cap Regular(disk))
        BY <1>2, <2>2 DEF Resolve
      <3>2. Used(files') \subseteq Regular(disk)
        BY <1>0, <1>2, <2>2, <3>1, ResolvedDocuments DEF Used, Resolve, Shape
      <3> QED BY <1>2, <2>1, <2>2, <3>1, <3>2 DEF QuietRead, Resolve, Captured, Regular
    <2>3. CASE ~ManifestResolves(disk, bytes[Manifest])
      BY <1>2, <2>1, <2>3 DEF Resolve, QuietRead, Captured, Regular
    <2> QED BY <2>2, <2>3
  <1>3. ASSUME NEW f \in Files, Capture(f) PROVE QuietRead'
    <2>1. pc = "capture" /\ f \in Regular(disk) /\ UNCHANGED files
      BY <1>3 DEF Capture, QuietRead
    <2>2. bytes' = [bytes EXCEPT ![f] = disk[f]] /\ wanted' = wanted \ {f} /\ pc' = "capture"
      BY <1>3, <2>1 DEF Capture
    <2>3. Captured(bytes') = Captured(bytes) \cup {f}
      BY <1>0, <2>1, <2>2, ReadRegular DEF Captured, Shape
    <2>4. \A g \in Captured(bytes') : g \in Regular(disk) /\ bytes'[g] = disk[g]
      BY <1>0, <2>1, <2>2, <2>3 DEF QuietRead, Shape, Captured
    <2>5. Regular(disk') = Regular(disk)
      OBVIOUS
    <2> QED BY <2>1, <2>2, <2>3, <2>4, <2>5 DEF QuietRead
  <1>4. ASSUME NEW n \in nodes, CheckNode(n) PROVE QuietRead'
    <2>1. pc = "paths" /\ pc' = "paths" /\ UNCHANGED files
      BY <1>4 DEF CheckNode
    <2>2. /\ Captured(bytes) \subseteq Captured(bytes')
          /\ \A f \in Captured(bytes') : f \in Regular(disk) /\ bytes'[f] = disk[f]
      BY <1>0, <1>4, CopiedKept DEF QuietRead
    <2>3. Regular(disk') = Regular(disk)
      OBVIOUS
    <2> QED BY <2>1, <2>2, <2>3 DEF QuietRead
  <1>a. ASSUME pc \notin {"start", "resolve", "failed"}, pc' # "capture", UNCHANGED <<files, bytes>>,
               pc = "capture" => wanted = {}
        PROVE  QuietRead'
    <2>1. Regular(disk') = Regular(disk) /\ Captured(bytes') = Captured(bytes)
      BY <1>a
    <2>2. Templates \cap Regular(disk) \subseteq Captured(bytes)
      BY <1>0, <1>a DEF QuietRead, Shape, TypeOK
    <2> QED BY <1>a, <2>1, <2>2 DEF QuietRead
  <1>5. CASE StartMerging
    BY <1>a, <1>5 DEF StartMerging
  <1>6. ASSUME NEW s \in Sections, NEW f \in Files, Merge(s, f) PROVE QuietRead'
    BY <1>a, <1>6 DEF Merge
  <1>7. CASE Validate \/ StartTemplates \/ Conclude
    BY <1>a, <1>7 DEF Validate, StartTemplates, Conclude
  <1>8. CASE StartRendering \/ FinishRendering
    BY <1>a, <1>8 DEF StartRendering, FinishRendering
  <1>9. ASSUME NEW t \in Templates \cup pending, CheckTemplate(t) \/ RenderTemplate(t) PROVE QuietRead'
    BY <1>a, <1>9 DEF CheckTemplate, RenderTemplate
  <1>10. CASE UNCHANGED vars
    BY <1>10 DEF vars, QuietRead, Captured, Regular
  <1> QED BY <1>1, <1>2, <1>3, <1>4, <1>5, <1>6, <1>7, <1>8, <1>9, <1>10 DEF Step

LEMMA QuietMergeKept ==
  ASSUME IInv, QuietMerge, Step \/ UNCHANGED vars, UNCHANGED disk
  PROVE  QuietMerge'
  <1>0. Shape
    BY DEF IInv
  <1>1. CASE ReadManifest \/ Resolve
    BY <1>1 DEF ReadManifest, Resolve, QuietMerge
  <1>2. ASSUME NEW f \in Files, Capture(f) PROVE QuietMerge'
    BY <1>2 DEF Capture, QuietMerge
  <1>3. CASE StartMerging
    <2>1. /\ pc = "capture" /\ pc' = "merge" /\ UNCHANGED <<files, fields>>
          /\ \A s \in Sections, f \in Files : <<s, f>> \in queue' => f \in files[s]
      BY <1>3 DEF StartMerging
    <2> QED BY <2>1 DEF QuietMerge
  <1>4. ASSUME NEW s \in Sections, NEW f \in Files, Merge(s, f) PROVE QuietMerge'
    <2>1. /\ pc = "merge" /\ pc' = "merge" /\ <<s, f>> \in queue /\ queue' = queue \ {<<s, f>>}
          /\ UNCHANGED <<files, bytes>>
      BY <1>4 DEF Merge
    <2>2. PICK part \in SUBSET bytes[f].scalars : fields' = [fields EXCEPT ![s] = @ \cup part]
      BY <1>4 DEF Merge
    <2>3. f \in files[s] /\ Merged(s, f)'
      BY <2>1 DEF QuietMerge, Merged
    <2>4. \A t \in Sections, g \in Files : Merged(t, g) => Merged(t, g)'
      BY <2>1 DEF Merged
    <2>5. ASSUME NEW t \in Sections, NEW v \in fields'[t]
          PROVE  \E g \in Files : Merged(t, g)' /\ v \in bytes[g].scalars
      <3>1. v \in fields[t] \/ (t = s /\ v \in bytes[f].scalars)
        BY <1>0, <2>2 DEF Shape
      <3> QED BY <2>1, <2>3, <2>4, <3>1 DEF QuietMerge
    <2> QED BY <2>1, <2>5 DEF QuietMerge
  <1>5. CASE Validate \/ StartTemplates \/ Conclude \/ StartRendering \/ FinishRendering
    BY <1>5 DEF Validate, StartTemplates, Conclude, StartRendering, FinishRendering, QuietMerge
  <1>6. ASSUME NEW n \in nodes, CheckNode(n) PROVE QuietMerge'
    BY <1>6 DEF CheckNode, QuietMerge
  <1>7. ASSUME NEW t \in Templates \cup pending, CheckTemplate(t) \/ RenderTemplate(t) PROVE QuietMerge'
    BY <1>7 DEF CheckTemplate, RenderTemplate, QuietMerge
  <1>8. CASE UNCHANGED vars
    BY <1>8 DEF vars, QuietMerge, Merged
  <1> QED BY <1>1, <1>2, <1>3, <1>4, <1>5, <1>6, <1>7, <1>8 DEF Step

\* A refusal past the resolution means that the directory is not sound.
LEMMA RefusedUnsound ==
  ASSUME QuietRead, pc \in Past, ~SoundPack(files, OnDisk)
  PROVE  Unsound
  <1>1. Manifest \in Regular(disk) /\ files = Resolved(disk, disk[Manifest])
    BY DEF QuietRead, Past, Checked, Done
  <1> QED BY <1>1 DEF Unsound

\* A node that lacks something lacks it on disk.
LEMMA MissingUnsound ==
  ASSUME IInv, QuietRead, NEW n \in nodes, CheckNode(n),
         Missing(n.template, bytes, disk) \/ Missing(n.source, bytes', disk)
  PROVE  ~SoundPack(files, OnDisk)
  <1> SUFFICES ASSUME SoundPack(files, OnDisk) PROVE FALSE
    OBVIOUS
  <1>1. pc = "paths" /\ n \in NodesHere
    BY DEF CheckNode, IInv, NodeInv
  <1>2. NodesHere = NodesOf(OnDisk, Used(files))
    BY <1>1, OnDiskAgrees, FilesAgree DEF NodesHere, Past, Checked
  <1>3. /\ n.template # None => n.template \in Templates \cap Captured(OnDisk)
        /\ n.source # None => n.source \in Captured(OnDisk)
    BY <1>1, <1>2 DEF SoundPack
  <1>4. Captured(OnDisk) = Regular(disk)
    BY DEF Captured, OnDisk, Regular
  <1>5. n.template # None => bytes[n.template] # Absent /\ disk[n.template] # Link
    BY <1>1, <1>3, <1>4 DEF QuietRead, Past, Checked, Captured, Regular
  <1>6. n.source # None => bytes'[n.source] # Absent /\ disk[n.source] # Link
    BY <1>3, <1>4, CopiedKept DEF IInv, Captured, Regular
  <1> QED BY <1>5, <1>6 DEF Missing

\* A template that is broken, and was led to, is broken on disk.
LEMMA TemplateUnsound ==
  ASSUME IInv, QuietRead, pc = "templates", NEW t \in pending, BadTemplate(t, bytes)
  PROVE  ~SoundPack(files, OnDisk)
  <1>1. /\ \A f \in Used(files) : bytes[f] = OnDisk[f]
        /\ \A u \in Templates : bytes[u] = OnDisk[u]
    BY OnDiskAgrees DEF Past, Checked
  <1>2. NodesHere = NodesOf(OnDisk, Used(files))
    BY <1>1, FilesAgree DEF NodesHere
  <1>3. t \in Templates /\ t \in Reachable(RootsHere, bytes)
    BY DEF IInv, Shape, TypeOK, TemplateInv
  <1>4. BadTemplate(t, OnDisk) /\ Roots(bytes, NodesHere) = Roots(OnDisk, NodesHere)
        /\ Reachable(RootsHere, bytes) = Reachable(RootsHere, OnDisk)
    BY <1>1, <1>3, TemplatesAgree, PackAssumption
  <1>5. t \in Reachable(Roots(OnDisk, NodesOf(OnDisk, Used(files))), OnDisk)
    BY <1>2, <1>3, <1>4 DEF RootsHere
  <1> QED BY <1>4, <1>5 DEF SoundPack

\* A file that cannot be merged cannot be merged on disk.
LEMMA MergeUnsound ==
  ASSUME IInv, QuietRead, QuietMerge, NEW s \in Sections, NEW f \in Files, Merge(s, f),
         ~bytes[f].valid \/ bytes[f].scalars \cap fields[s] # {}
  PROVE  ~SoundPack(files, OnDisk)
  <1>1. pc = "merge" /\ <<s, f>> \in queue /\ f \in files[s]
    BY DEF Merge, QuietMerge
  <1>2. \A t \in Sections : \A g \in files[t] : g \in Used(files) /\ bytes[g] = OnDisk[g]
    BY <1>1, OnDiskAgrees DEF Past, Used
  <1>3. CASE ~bytes[f].valid
    BY <1>1, <1>2, <1>3 DEF SoundPack
  <1>4. CASE bytes[f].scalars \cap fields[s] # {}
    <2>1. PICK v \in bytes[f].scalars : v \in fields[s]
      BY <1>4
    <2>2. PICK g \in Files : Merged(s, g) /\ v \in bytes[g].scalars
      BY <1>1, <2>1 DEF QuietMerge
    <2>3. g \in files[s] /\ g # f
      BY <1>1, <2>2 DEF Merged
    <2>4. v \in OnDisk[f].scalars \cap OnDisk[g].scalars
      BY <1>1, <1>2, <2>1, <2>2, <2>3
    <2> QED BY <1>1, <2>3, <2>4 DEF SoundPack
  <1> QED BY <1>3, <1>4

LEMMA QuietProblemsKept ==
  ASSUME IInv, QuietRead, QuietMerge, QuietProblems, Step \/ UNCHANGED vars, UNCHANGED disk
  PROVE  QuietProblems'
  <1> USE DEF Past, Checked, Done
  <1>0. Shape
    BY DEF IInv
  <1>a. /\ \A fs : SoundPack(fs, OnDisk)' <=> SoundPack(fs, OnDisk)
        /\ Unsound' <=> Unsound
    <2>1. OnDisk' = OnDisk
      BY DEF OnDisk, Regular
    <2>2. Regular(disk') = Regular(disk)
      OBVIOUS
    <2> QED BY <2>1, <2>2 DEF Unsound
  <1>b. ASSUME pc \in Past, pc' \in Past, UNCHANGED files, problems' => problems \/ ~SoundPack(files, OnDisk)
        PROVE  QuietProblems'
    <2>1. problems' => ~SoundPack(files, OnDisk)
      BY <1>b DEF QuietProblems
    <2>2. SoundPack(files, OnDisk)' <=> SoundPack(files, OnDisk)
      BY <1>a, <1>b
    <2> QED BY <1>b, <2>1, <2>2 DEF QuietProblems
  <1>1. CASE ReadManifest
    BY <1>a, <1>1 DEF ReadManifest, QuietProblems, Unsound
  <1>2. CASE Resolve
    <2>1. bytes[Manifest] = disk[Manifest] /\ pc = "resolve"
      BY <1>2 DEF Resolve, QuietRead
    <2>2. pc' = "failed" => Unsound
      BY <1>2, <2>1 DEF Resolve, Unsound
    <2>3. pc' \in {"capture", "failed"}
      BY <1>2 DEF Resolve
    <2> QED BY <1>a, <2>2, <2>3 DEF QuietProblems
  <1>3. ASSUME NEW f \in Files, Capture(f) PROVE QuietProblems'
    <2>1. pc = "capture" /\ pc' = "capture"
      BY <1>3 DEF Capture, QuietRead
    <2> QED BY <2>1 DEF QuietProblems
  <1>4. CASE StartMerging
    <2>1. pc' = "merge" /\ ~problems'
      BY <1>4 DEF StartMerging, QuietMerge
    <2> QED BY <2>1 DEF QuietProblems
  <1>5. ASSUME NEW s \in Sections, NEW f \in Files, Merge(s, f) PROVE QuietProblems'
    <2>1. pc = "merge" /\ UNCHANGED <<pc, files>>
      BY <1>5 DEF Merge
    <2>2. problems' /\ ~problems => ~bytes[f].valid \/ bytes[f].scalars \cap fields[s] # {}
      BY <1>5 DEF Merge
    <2>3. problems' => problems \/ ~SoundPack(files, OnDisk)
      BY <1>5, <2>2, MergeUnsound
    <2> QED BY <1>b, <2>1, <2>3
  <1>6. CASE Validate
    <2>1. CASE problems
      <3>1. pc' = "failed" /\ pc = "merge" /\ ~SoundPack(files, OnDisk)
        BY <1>6, <2>1 DEF Validate, QuietProblems
      <3> QED BY <1>a, <3>1, RefusedUnsound DEF QuietProblems
    <2>2. CASE ~problems
      <3>1. pc = "merge" /\ pc' = "paths" /\ UNCHANGED <<files, bytes, parsed>>
            /\ problems' = ~ReferencesKnown(parsed, Used(files))
        BY <1>6, <2>2 DEF Validate
      <3>2. MergedInv'
        BY <1>6, MergedKept DEF Next, Step
      <3>3. \A f \in Used(files) : parsed[f] = OnDisk[f]
        BY <3>1, <3>2, OnDiskAgrees DEF MergedInv
      <3>4. ReferencesKnown(parsed, Used(files)) <=> ReferencesKnown(OnDisk, Used(files))
        BY <3>3, FilesAgree
      <3>5. problems' => ~SoundPack(files, OnDisk)
        BY <3>1, <3>4 DEF SoundPack
      <3> QED BY <1>b, <3>1, <3>5
    <2> QED BY <2>1, <2>2
  <1>7. ASSUME NEW n \in nodes, CheckNode(n) PROVE QuietProblems'
    <2>1. pc = "paths" /\ UNCHANGED <<pc, files>>
      BY <1>7 DEF CheckNode
    <2>2. problems' => \/ problems
                       \/ Missing(n.template, bytes, disk) \/ Missing(n.source, bytes', disk)
      BY <1>7 DEF CheckNode
    <2>3. problems' => problems \/ ~SoundPack(files, OnDisk)
      BY <1>7, <2>2, MissingUnsound
    <2> QED BY <1>b, <2>1, <2>3
  <1>8. CASE StartTemplates
    BY <1>b, <1>8 DEF StartTemplates
  <1>9. ASSUME NEW t \in Templates \cup pending, CheckTemplate(t) PROVE QuietProblems'
    <2>1. pc = "templates" /\ t \in pending /\ UNCHANGED <<pc, files>>
      BY <1>9 DEF CheckTemplate
    <2>2. problems' => problems \/ BadTemplate(t, bytes)
      BY <1>9 DEF CheckTemplate
    <2>3. problems' => problems \/ ~SoundPack(files, OnDisk)
      BY <2>1, <2>2, TemplateUnsound
    <2> QED BY <1>b, <2>1, <2>3
  <1>10. CASE Conclude
    <2>1. CASE problems
      <3>1. pc' = "failed" /\ pc = "templates" /\ ~SoundPack(files, OnDisk)
        BY <1>10, <2>1 DEF Conclude, QuietProblems
      <3> QED BY <1>a, <3>1, RefusedUnsound DEF QuietProblems
    <2>2. CASE ~problems
      BY <1>10, <2>2 DEF Conclude, QuietProblems
    <2> QED BY <2>1, <2>2
  <1>11. CASE StartRendering \/ FinishRendering
    BY <1>b, <1>11 DEF StartRendering, FinishRendering
  <1>12. ASSUME NEW t \in Templates \cup pending, RenderTemplate(t) PROVE QuietProblems'
    <2>1. pc = "rendering" /\ pc' \in {"rendering", "broken"} /\ UNCHANGED <<files, problems>>
      BY <1>12 DEF RenderTemplate
    <2> QED BY <1>b, <2>1
  <1>13. CASE UNCHANGED vars
    <2>1. UNCHANGED <<pc, files, problems>>
      BY <1>13 DEF vars
    <2> QED BY <1>a, <2>1 DEF QuietProblems
  <1> QED BY <1>1, <1>2, <1>3, <1>4, <1>5, <1>6, <1>7, <1>8, <1>9, <1>10, <1>11, <1>12, <1>13 DEF Step

LEMMA QuietInvariance == Spec => []Quiet
  <1>1. Init => Quiet
    BY DEF Init, Quiet, QuietRead, QuietMerge, QuietProblems, Captured, Past, Checked, Done
  <1>2. IInv /\ Quiet /\ [Next]_vars => Quiet'
    <2> SUFFICES ASSUME IInv, Quiet, [Next]_vars, edits' = 0
                 PROVE  QuietRead' /\ QuietMerge' /\ QuietProblems'
      BY DEF Quiet
    <2>1. edits = 0 /\ UNCHANGED disk /\ (Step \/ UNCHANGED vars)
      BY QuietStep
    <2> QED BY <2>1, QuietReadKept, QuietMergeKept, QuietProblemsKept DEF Quiet
  <1> QED BY <1>1, <1>2, Invariance, PTL DEF Spec

-----------------------------------------------------------------------------
(* The properties *)

\* Every variable keeps its type, whatever is edited.
THEOREM TypeCorrect == Spec => []TypeOK
  <1>1. IInv => TypeOK
    BY DEF IInv, Shape
  <1> QED BY <1>1, Invariance, PTL

\* YamlContractsAdapter.compile: what compiles is sound over the captured bytes,
\* and what is refused while nobody edits it is not sound on disk.
THEOREM Verdict == Spec => []VerdictExact
  <1>1. IInv /\ Quiet => VerdictExact
    BY DEF IInv, DoneInv, Quiet, QuietProblems, Unsound, VerdictExact
  <1> QED BY <1>1, Invariance, QuietInvariance, PTL

\* ArtifactAssembler and SnapshotTemplateLoader: no export of a compiled pack meets
\* a template or a file that it lacks.
THEOREM Rendering == Spec => []RendersFromCapture
  <1>1. IInv => RendersFromCapture
    BY DEF IInv, DoneInv, RendersFromCapture
  <1> QED BY <1>1, Invariance, PTL

\* compute_framework_pack_hashes: the hashes of the plan cover what was parsed,
\* copied and rendered, with the content that was used.
THEOREM Hashing == Spec => []HashCoversUse
  <1>1. ASSUME IInv, pc \in Done PROVE HashCoversUse
    <2> USE DEF Checked, Past, Done
    <2>1. hashed = PackHashes(files, bytes) /\ SoundPack(files, bytes) /\ pc # "broken"
      BY <1>1 DEF IInv, DoneInv
    <2>2. \A f \in Used(files) : f \in Captured(bytes) /\ bytes[f] = parsed[f]
      BY <1>1 DEF IInv, CaptureInv, MergedInv
    <2>3. \A S \in SUBSET Used(files) : HashFiles(S, bytes) = HashFiles(S, parsed)
      BY <2>2 DEF HashFiles
    <2>4. UNION {files[s] : s \in Law} \subseteq Used(files) /\ UNION {files[s] : s \in Profiles} \subseteq Used(files)
      BY PackAssumption DEF Used
    <2>5. {n.source : n \in NodesOf(parsed, Used(files))} \ {None} \subseteq Captured(bytes)
      BY <1>1, <2>1, NodesOK DEF SoundPack, NodesHere
    <2>6. pc # "compiled" => seen \subseteq Templates \cap Captured(bytes)
      <3>1. pc # "compiled" => seen \subseteq Reachable(RootsHere, bytes)
        BY <1>1, <2>1 DEF IInv, TemplateInv
      <3>2. \A t \in Reachable(RootsHere, bytes) : t \in Templates /\ t \in Captured(bytes)
        BY <2>1 DEF SoundPack, RootsHere, NodesHere, BadTemplate, Parses, Reachable
      <3> QED BY <3>1, <3>2
    <2>7. /\ hashed.law_data_hash = HashFiles(UNION {files[s] : s \in Law}, parsed)
          /\ hashed.bundle_profiles_hash = HashFiles(UNION {files[s] : s \in Profiles}, parsed)
          /\ hashed.framework_pack_hash = HashFiles(Captured(bytes), bytes)
          /\ hashed.render_templates_hash = HashFiles(Templates \cap Captured(bytes), bytes)
      BY <2>1, <2>3, <2>4 DEF PackHashes
    <2>8. \A S, T : S \subseteq T => \A f \in DOMAIN HashFiles(S, bytes) :
            f \in DOMAIN HashFiles(T, bytes) /\ HashFiles(T, bytes)[f] = HashFiles(S, bytes)[f]
      BY DEF HashFiles
    <2>9. \A f \in DOMAIN HashFiles(Used(files), parsed) :
            f \in DOMAIN HashFiles(Captured(bytes), bytes)
            /\ HashFiles(Captured(bytes), bytes)[f] = HashFiles(Used(files), parsed)[f]
      BY <2>2 DEF HashFiles
    <2> QED BY <2>5, <2>6, <2>7, <2>8, <2>9 DEF HashCoversUse
  <1>2. pc \notin Done => HashCoversUse
    BY DEF HashCoversUse
  <1>3. IInv => HashCoversUse
    BY <1>1, <1>2
  <1> QED BY <1>3, Invariance, PTL
=============================================================================
