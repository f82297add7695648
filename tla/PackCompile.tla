---------------------------- MODULE PackCompile ----------------------------
(***************************************************************************)
(* YamlContractsAdapter.compile (adapters/contracts/yaml), from the pack   *)
(* directory to a CompiledPack, and the export that renders it.            *)
(* load_framework_layout resolves the manifest and reads every source once;*)
(* what follows works on those bytes, save for the files that profile nodes*)
(* copy, which are read while the nodes are checked.  An editor may change *)
(* the directory at any moment.                                            *)
(*                                                                         *)
(* A file's content is a record of what compilation asks of it: a manifest *)
(* lists entries per section; a section file declares identifiers, mentions*)
(* identifiers, gives scalar fields and, as a profile, has nodes; a        *)
(* template has references.  A file that declares an identifier twice is   *)
(* not valid.  An entry is the set of paths it can match: one for a plain  *)
(* path, several for a glob.  Context defaults and the backlog are sections*)
(* of one file.  The files of a section are merged in manifest order by the*)
(* code and in any order here; dynamic template references, which          *)
(* compilation skips, and the output paths of nodes, which OutputPlan has, *)
(* are left out.                                                           *)
(*                                                                         *)
(* Definitions marked "Faulty" are no part of the specification: each is a *)
(* mistake the code avoids, kept beside the step it would change.          *)
(***************************************************************************)
EXTENDS Naturals

CONSTANTS
  Files,        \* paths below the pack directory
  Manifest,     \* manifest.yml
  Templates,    \* the paths below templates_dir
  Jinja,        \* those that end in .j2
  CoreDocs,     \* README.md.j2 and LEGAL_NOTICE.md.j2, rendered when present
  Sections,     \* contract and runtime sections, profiles, context, backlog
  Required,     \* the sections that may not be empty
  Law, Profiles,\* the contract sections, and the profiles
  Contents,     \* path -> what an editor may put there
  Packs,        \* the directories a run may find
  Absent,       \* nothing at this path
  Link,         \* a symbolic link
  None,         \* a node without this field
  MaxEdits      \* bound: changes to the directory during one run

\* The files that a section can be made of.
Documents ==
  {f \in Files : \A c \in Contents[f] \ {Absent, Link} : "nodes" \in DOMAIN c}

\* A node names its template below templates_dir, and what it copies in the pack.
ASSUME PackAssumption ==
  /\ Manifest \in Files \ Templates
  /\ Templates \subseteq Files /\ Jinja \subseteq Templates /\ CoreDocs \subseteq Jinja
  /\ Required \subseteq Sections /\ Law \subseteq Sections /\ Profiles \subseteq Sections
  /\ None \notin Files /\ Link # Absent
  /\ \A d \in Packs : d = [f \in Files |-> d[f]] /\ \A f \in Files : d[f] \in Contents[f]
  /\ \A c \in Contents[Manifest] \ {Absent, Link} : c.valid =>
       \A s \in Sections : \A i \in DOMAIN c.entries[s] : c.entries[s][i] \subseteq Documents
  /\ \A f \in Documents : \A c \in Contents[f] \ {Absent, Link} :
       \A n \in c.nodes : /\ n.template # None => n.template \in Templates
                          /\ n.source # None => n.source \in Files
  /\ MaxEdits \in Nat

VARIABLES
  disk,         \* the pack directory
  edits,        \* how often it was changed
  pc,
  files,        \* section -> its files
  wanted,       \* sources still to be read
  bytes,        \* layout.source_bytes
  queue,        \* <<section, file>> still to be parsed and merged
  parsed,       \* the documents as they were parsed
  fields,       \* section -> the scalar fields merged so far
  problems,     \* an error has been reported
  nodes,        \* profile nodes still to be checked
  pending, seen,\* the work list of validate_pack_templates, then of rendering
  hashed        \* the hashes of the plan

vars == <<disk, edits, pc, files, wanted, bytes, queue, parsed, fields, problems,
          nodes, pending, seen, hashed>>

Regular(d) == {f \in Files : d[f] \notin {Absent, Link}}
Captured(b) == {f \in Files : b[f] # Absent}

-----------------------------------------------------------------------------
(* Resolution: which files a manifest names, on a given directory.          *)

Matches(d, entry) == {f \in entry : d[f] # Absent}

\* resolve_manifest_entries raises unless every entry matches, matches regular
\* files only, and no file is matched twice.
EntriesResolve(d, entries) ==
  /\ \A i \in DOMAIN entries :
       Matches(d, entries[i]) # {} /\ Matches(d, entries[i]) \subseteq Regular(d)
  /\ \A i, j \in DOMAIN entries :
       i # j => Matches(d, entries[i]) \cap Matches(d, entries[j]) = {}

ResolvedEntries(d, entries) == UNION {Matches(d, entries[i]) : i \in DOMAIN entries}

ManifestResolves(d, manifest) ==
  /\ manifest.valid
  /\ \A s \in Required : manifest.entries[s] # <<>>
  /\ \A s \in Sections : EntriesResolve(d, manifest.entries[s])
  /\ \A t \in Templates : d[t] # Link

Resolved(d, manifest) == [s \in Sections |-> ResolvedEntries(d, manifest.entries[s])]

Used(fs) == UNION {fs[s] : s \in Sections}

-----------------------------------------------------------------------------
(* Templates.  A reference offers alternative names; an include may be      *)
(* declared optional.                                                       *)

Existing(ref, b) == ref.names \cap Templates \cap Captured(b)

\* What _references yields and nothing in the pack satisfies.
Dangling(t, b) == {ref \in b[t].refs : ~ref.optional /\ Existing(ref, b) = {}}

Referenced(t, b) == UNION {Existing(ref, b) : ref \in b[t].refs}

Parses(t, b) == t \in Captured(b) /\ b[t].valid

BadTemplate(t, b) == ~Parses(t, b) \/ Dangling(t, b) # {}

Closed(S, b) == \A t \in S : Parses(t, b) => Referenced(t, b) \subseteq S

\* Every template the roots lead to.
Reachable(roots, b) ==
  {t \in Templates : \A S \in SUBSET Templates : (roots \subseteq S /\ Closed(S, b)) => t \in S}

-----------------------------------------------------------------------------
(* What makes a pack sound, said over its files and bytes.                  *)

NodesOf(b, used) == UNION {b[f].nodes : f \in used}

NodeTemplates(ns) == {n.template : n \in {m \in ns : m.template # None}}

Roots(b, ns) == NodeTemplates(ns) \cup (Jinja \cap Captured(b))

DeclaredOnce(b, used) == \A f, g \in used : f # g => b[f].ids \cap b[g].ids = {}

\* A mention is the identifiers any of which would do: one for an exact
\* reference, those of its namespace for a prefix.
MentionsDeclared(b, used) ==
  LET declared == UNION {b[f].ids : f \in used}
  IN  \A f \in used : \A m \in b[f].mentions : m \cap declared # {}

\* _BundleValidator, the checks of references between files.
ReferencesKnown(b, used) == DeclaredOnce(b, used) /\ MentionsDeclared(b, used)

SoundPack(fs, b) ==
  LET ns == NodesOf(b, Used(fs))
  IN  /\ \A f \in Used(fs) : f \in Captured(b) /\ b[f].valid
      /\ \A s \in Sections : \A f, g \in fs[s] : f # g => b[f].scalars \cap b[g].scalars = {}
      /\ ReferencesKnown(b, Used(fs))
      /\ \A n \in ns : n.template # None => n.template \in Templates \cap Captured(b)
      /\ \A n \in ns : n.source # None => n.source \in Captured(b)
      /\ \A t \in Reachable(Roots(b, ns), b) : ~BadTemplate(t, b)

-----------------------------------------------------------------------------
(* Hashes.  One stands for the files it covers and their bytes.             *)

HashFiles(S, b) == [f \in S |-> b[f]]

\* compute_framework_pack_hashes.
PackHashes(fs, b) ==
  [law_data_hash |-> HashFiles(UNION {fs[s] : s \in Law}, b),
   render_templates_hash |-> HashFiles(Templates \cap Captured(b), b),
   bundle_profiles_hash |-> HashFiles(UNION {fs[s] : s \in Profiles}, b),
   manifest_file_hash |-> b[Manifest],
   framework_pack_hash |-> HashFiles(Captured(b), b)]

-----------------------------------------------------------------------------
Init ==
  /\ disk \in Packs
  /\ edits = 0
  /\ pc = "start"
  /\ files = [s \in Sections |-> {}]
  /\ wanted = {}
  /\ bytes = [f \in Files |-> Absent]
  /\ queue = {}
  /\ parsed = [f \in Files |-> Absent]
  /\ fields = [s \in Sections |-> {}]
  /\ problems = FALSE
  /\ nodes = {}
  /\ pending = {} /\ seen = {}
  /\ hashed = PackHashes(files, bytes)

\* The environment: an editor changes, adds, removes or links a file.
Edit(f) ==
  /\ edits < MaxEdits
  /\ \E c \in Contents[f] \ {disk[f]} : disk' = [disk EXCEPT ![f] = c]
  /\ edits' = edits + 1
  /\ UNCHANGED <<pc, files, wanted, bytes, queue, parsed, fields, problems, nodes, pending, seen, hashed>>

\* load_framework_layout: the manifest.
ReadManifest ==
  /\ pc = "start"
  /\ IF Manifest \in Regular(disk)
     THEN bytes' = [bytes EXCEPT ![Manifest] = disk[Manifest]] /\ pc' = "resolve"
     ELSE pc' = "failed" /\ UNCHANGED bytes
  /\ UNCHANGED <<disk, edits, files, wanted, queue, parsed, fields, problems, nodes, pending, seen, hashed>>

\* load_framework_layout: the entries, and the list of what must be read.
Resolve ==
  /\ pc = "resolve"
  /\ IF ManifestResolves(disk, bytes[Manifest])
     THEN /\ files' = Resolved(disk, bytes[Manifest])
          /\ wanted' = Used(files') \cup (Templates \cap Regular(disk))
          /\ pc' = "capture"
     ELSE pc' = "failed" /\ UNCHANGED <<files, wanted>>
  /\ UNCHANGED <<disk, edits, bytes, queue, parsed, fields, problems, nodes, pending, seen, hashed>>

\* load_framework_layout: read_regular on each source.
Capture(f) ==
  /\ pc = "capture" /\ f \in wanted
  /\ IF f \in Regular(disk)
     THEN /\ bytes' = [bytes EXCEPT ![f] = disk[f]]
          /\ wanted' = wanted \ {f}
          /\ UNCHANGED pc
     ELSE pc' = "failed" /\ UNCHANGED <<bytes, wanted>>
  /\ UNCHANGED <<disk, edits, files, queue, parsed, fields, problems, nodes, pending, seen, hashed>>

StartMerging ==
  /\ pc = "capture" /\ wanted = {}
  /\ pc' = "merge"
  /\ queue' = {sf \in Sections \X Files : sf[2] \in files[sf[1]]}
  /\ UNCHANGED <<disk, edits, files, wanted, bytes, parsed, fields, problems, nodes, pending, seen, hashed>>

\* Faulty: a scalar field given twice keeps its first value.
MergeFirst(s, f) ==
  /\ pc = "merge" /\ <<s, f>> \in queue
  /\ queue' = queue \ {<<s, f>>}
  /\ parsed' = [parsed EXCEPT ![f] = bytes[f]]
  /\ fields' = [fields EXCEPT ![s] = @ \cup bytes[f].scalars]
  /\ problems' = (problems \/ ~bytes[f].valid)
  /\ UNCHANGED <<disk, edits, pc, files, wanted, bytes, nodes, pending, seen, hashed>>

\* merged: parse one file, validate it, and merge it into its section.  A
\* conflict leaves part of the file in the section.
Merge(s, f) ==
  /\ pc = "merge" /\ <<s, f>> \in queue
  /\ queue' = queue \ {<<s, f>>}
  /\ parsed' = [parsed EXCEPT ![f] = bytes[f]]
  /\ \E part \in SUBSET bytes[f].scalars : fields' = [fields EXCEPT ![s] = @ \cup part]
  /\ \/ ~bytes[f].valid /\ fields' = fields /\ problems' = TRUE
     \/ bytes[f].valid /\ bytes[f].scalars \cap fields[s] # {} /\ problems' = TRUE
     \/ /\ bytes[f].valid /\ bytes[f].scalars \cap fields[s] = {}
        /\ bytes[f].scalars \subseteq fields'[s]
        /\ UNCHANGED problems
  /\ UNCHANGED <<disk, edits, pc, files, wanted, bytes, nodes, pending, seen, hashed>>

\* compile: the first phase ends here when it found anything; otherwise
\* validate_bundle looks at the bundle as a whole.
Validate ==
  /\ pc = "merge" /\ queue = {}
  /\ IF problems
     THEN pc' = "failed" /\ UNCHANGED <<problems, nodes>>
     ELSE /\ pc' = "paths"
          /\ problems' = ~ReferencesKnown(parsed, Used(files))
          /\ nodes' = NodesOf(parsed, Used(files))
  /\ UNCHANGED <<disk, edits, files, wanted, bytes, queue, parsed, fields, pending, seen, hashed>>

\* Faulty: the file a node copies is read again although it was captured.
Recopied(n, b, d) ==
  IF n.source # None /\ n.source \in Regular(d) THEN [b EXCEPT ![n.source] = d[n.source]] ELSE b

\* _path_problem with capture: the file a node copies is read unless it was.
Copied(n, b, d) ==
  IF n.source # None /\ n.source \in Regular(d) \ Captured(b)
  THEN [b EXCEPT ![n.source] = d[n.source]] ELSE b

\* _path_problem: the path is linked now, or its bytes were never captured.
Missing(path, b, d) == path # None /\ (d[path] = Link \/ b[path] = Absent)

\* _node_path_problems: what a node renders and what it copies.
CheckNode(n) ==
  /\ pc = "paths" /\ n \in nodes
  /\ nodes' = nodes \ {n}
  /\ bytes' = Copied(n, bytes, disk)
  /\ problems' = (problems \/ Missing(n.template, bytes, disk) \/ Missing(n.source, bytes', disk))
  /\ UNCHANGED <<disk, edits, pc, files, wanted, queue, parsed, fields, pending, seen, hashed>>

\* Faulty: only what nodes render is checked.
StartFromNodes ==
  /\ pc = "paths" /\ nodes = {}
  /\ pc' = "templates"
  /\ pending' = NodeTemplates(NodesOf(parsed, Used(files)))
  /\ UNCHANGED <<disk, edits, files, wanted, bytes, queue, parsed, fields, problems, nodes, seen, hashed>>

StartTemplates ==
  /\ pc = "paths" /\ nodes = {}
  /\ pc' = "templates"
  /\ pending' = Roots(bytes, NodesOf(parsed, Used(files)))
  /\ UNCHANGED <<disk, edits, files, wanted, bytes, queue, parsed, fields, problems, nodes, seen, hashed>>

\* validate_pack_templates: one turn of the loop, on a template not yet seen.
CheckTemplate(t) ==
  /\ pc = "templates" /\ t \in pending
  /\ seen' = seen \cup {t}
  /\ problems' = (problems \/ BadTemplate(t, bytes))
  /\ pending' = (pending \cup (IF Parses(t, bytes) THEN Referenced(t, bytes) ELSE {})) \ seen'
  /\ UNCHANGED <<disk, edits, pc, files, wanted, bytes, queue, parsed, fields, nodes, hashed>>

\* compile: any error refuses the pack; then cmd_assess hashes it into the plan.
Conclude ==
  /\ pc = "templates" /\ pending = {}
  /\ IF problems
     THEN pc' = "failed" /\ UNCHANGED hashed
     ELSE pc' = "compiled" /\ hashed' = PackHashes(files, bytes)
  /\ UNCHANGED <<disk, edits, files, wanted, bytes, queue, parsed, fields, problems, nodes, pending, seen>>

\* FilesystemExporter.export: any selection of the nodes, and the core documents.
StartRendering ==
  /\ pc = "compiled"
  /\ \E chosen \in SUBSET NodesOf(parsed, Used(files)) :
       /\ pc' = IF \A n \in chosen : n.source # None => n.source \in Captured(bytes)
                THEN "rendering" ELSE "broken"
       /\ pending' = NodeTemplates(chosen) \cup (CoreDocs \cap Captured(bytes))
  /\ seen' = {}
  /\ UNCHANGED <<disk, edits, files, wanted, bytes, queue, parsed, fields, problems, nodes, hashed>>

\* ArtifactAssembler.render and SnapshotTemplateLoader: one template; each
\* reference it follows is to one alternative that exists.
RenderTemplate(t) ==
  /\ pc = "rendering" /\ t \in pending
  /\ seen' = seen \cup {t}
  /\ IF BadTemplate(t, bytes)
     THEN pc' = "broken" /\ pending' = pending \ {t}
     ELSE /\ UNCHANGED pc
          /\ \E chosen \in SUBSET Referenced(t, bytes) :
               /\ \A ref \in bytes[t].refs :
                    Existing(ref, bytes) = {} \/ \E u \in chosen : u \in ref.names
               /\ pending' = (pending \cup chosen) \ seen'
  /\ UNCHANGED <<disk, edits, files, wanted, bytes, queue, parsed, fields, problems, nodes, hashed>>

FinishRendering ==
  /\ pc = "rendering" /\ pending = {}
  /\ pc' = "exported"
  /\ UNCHANGED <<disk, edits, files, wanted, bytes, queue, parsed, fields, problems, nodes, pending,
                 seen, hashed>>

Step ==
  \/ ReadManifest \/ Resolve \/ StartMerging \/ Validate \/ StartTemplates \/ Conclude
  \/ StartRendering \/ FinishRendering
  \/ \E f \in Files : Capture(f)
  \/ \E s \in Sections, f \in Files : Merge(s, f)
  \/ \E n \in nodes : CheckNode(n)
  \/ \E t \in Templates \cup pending : CheckTemplate(t) \/ RenderTemplate(t)

Next == Step \/ \E f \in Files : Edit(f)

Spec == Init /\ [][Next]_vars

-----------------------------------------------------------------------------
(* Properties.                                                              *)

Done == {"compiled", "rendering", "exported", "broken"}

TypeOK ==
  /\ edits \in 0 .. MaxEdits
  /\ pc \in {"start", "resolve", "capture", "merge", "paths", "templates", "failed"} \cup Done
  /\ files \in [Sections -> SUBSET Files]
  /\ wanted \subseteq Files /\ queue \subseteq Sections \X Files
  /\ \A f \in Files : {bytes[f], parsed[f]} \subseteq Contents[f] \cup {Absent}
  /\ problems \in BOOLEAN
  /\ pending \subseteq Templates /\ seen \subseteq Templates

\* What is on disk now, as capture would read it.
OnDisk == [f \in Files |-> IF f \in Regular(disk) THEN disk[f] ELSE Absent]

\* A pack that compiles is sound over the bytes that were captured, whatever was
\* edited meanwhile: its files merge without a conflict, its references are
\* declared, what its nodes need was captured, and no template reachable from a
\* node or a .j2 file is broken.  A pack that is refused while nobody edits it is
\* not sound on disk.
VerdictExact ==
  /\ pc \in Done => SoundPack(files, bytes)
  /\ pc = "failed" /\ edits = 0 =>
       ~ /\ Manifest \in Regular(disk)
         /\ ManifestResolves(disk, disk[Manifest])
         /\ SoundPack(Resolved(disk, disk[Manifest]), OnDisk)

\* The hashes identify what the run used: the law and profile hashes cover the
\* documents that were parsed, the template hash what was rendered, and the pack
\* hash all of it and the files that nodes copy, with the very content used.
HashCoversUse ==
  LET within(h, used) == \A f \in DOMAIN used : f \in DOMAIN h /\ h[f] = used[f]
      law == UNION {files[s] : s \in Law}
      profiles == UNION {files[s] : s \in Profiles}
      copied == {n.source : n \in NodesOf(parsed, Used(files))} \ {None}
  IN  pc \in Done =>
        /\ hashed.law_data_hash = HashFiles(law, parsed)
        /\ hashed.bundle_profiles_hash = HashFiles(profiles, parsed)
        /\ within(hashed.framework_pack_hash, HashFiles(Used(files), parsed))
        /\ within(hashed.framework_pack_hash, HashFiles(copied, bytes))
        /\ pc # "compiled" => /\ within(hashed.render_templates_hash, HashFiles(seen, bytes))
                              /\ within(hashed.framework_pack_hash, HashFiles(seen, bytes))

\* Rendering a compiled pack never meets a missing or malformed template nor a
\* missing file to copy, whichever nodes are selected, whichever alternative a
\* reference takes and whatever was edited since the capture.
RendersFromCapture == pc # "broken"
=============================================================================
