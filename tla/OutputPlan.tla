----------------------------- MODULE OutputPlan -----------------------------
(***************************************************************************)
(* OutputInventory (domain/output_inventory.py) in its two uses.  Compiling*)
(* a pack checks the paths its profile nodes author (validate_output_nodes)*)
(* and collects problems; exporting plans every path of the snapshot       *)
(* (plan_outputs), stops at the first collision and, when there is none,   *)
(* lets the producers create the files in an empty staging directory.      *)
(*                                                                         *)
(* A claim is one add_file or add_directory.  Claims are numbered in the   *)
(* order plan_outputs makes them.                                          *)
(*                                                                         *)
(* Definitions marked "Faulty" are no part of the specification: each is a *)
(* mistake the code avoids, kept beside the step it would change to show   *)
(* that a property below rejects it.                                       *)
(***************************************************************************)
EXTENDS Naturals

CONSTANTS
  OutputPaths,  \* canonical relative paths
  Above,        \* Above[p]: the proper ancestors of p, the root left out
  Reserved,     \* paths in the namespaces and files the engine manages
  N,            \* number of claims
  ClaimSpace    \* what may be claimed

Kinds == {"file", "dir", "core"}

ASSUME PlanAssumption ==
  /\ Above \in [OutputPaths -> SUBSET OutputPaths]
  /\ \A p \in OutputPaths : p \notin Above[p] /\ \A q \in Above[p] : Above[q] \subseteq Above[p]
  /\ Reserved \subseteq OutputPaths
  /\ \A p \in OutputPaths : \A q \in Above[p] : p \in Reserved <=> q \in Reserved
  /\ N \in Nat
  /\ ClaimSpace \subseteq [path : OutputPaths, kind : Kinds, by : {"pack", "engine"}, always : BOOLEAN]
  /\ \A c \in ClaimSpace : c.by = "engine" => (c.kind = "core" <=> c.path \notin Reserved)
  /\ \A c \in ClaimSpace : c.by = "pack" => c.kind # "core"

VARIABLES
  claims,    \* the claims: nodes of the pack's profiles, and the engine's own
  selected,  \* those that the flags of the assessment select
  phase,     \* where the work stands
  next,      \* the claim to be checked next
  files,     \* inventory.files
  dirs,      \* inventory.directories
  problems,  \* claims refused so far
  todo,      \* claims the producers have not written yet
  made,      \* files in the staging directory
  madeDirs   \* directories in it

planVars == <<claims, selected, phase, next, files, dirs, problems, todo, made, madeDirs>>
input == <<claims, selected>>
production == <<todo, made, madeDirs>>

Claims == 1 .. N
Path(i) == claims[i].path
IsFile(i) == claims[i].kind # "dir"
Phases == {"compile", "plan", "invalid", "rejected", "write", "clash", "mismatch", "done"}

PlanInit ==
  /\ claims \in [Claims -> ClaimSpace]
  \* The core documents are claimed after the nodes of the pack.
  /\ \A i, j \in Claims : i < j /\ claims[i].kind = "core" => claims[j].by # "pack"
  /\ selected \in SUBSET Claims
  /\ \A i \in Claims : claims[i].by = "engine" => i \in selected
  /\ phase = "compile" /\ next = 1
  /\ files = {} /\ dirs = {} /\ problems = {}
  /\ todo = {} /\ made = {} /\ madeDirs = {}

----------------------------------------------------------------------------
(* The checks. *)

\* require_authored_path.
Trespasses(i) == claims[i].by = "pack" /\ Path(i) \in Reserved

\* Faulty: the ancestors of a path are not looked up.
SamePathOnly(i) == Path(i) \in files \/ (IsFile(i) /\ Path(i) \in dirs)

\* What add_file and add_directory refuse.
Collides(i) ==
  \/ Above[Path(i)] \cap files # {}
  \/ Path(i) \in files
  \/ (IsFile(i) /\ Path(i) \in dirs)

Register(i) ==
  /\ files' = IF IsFile(i) THEN files \cup {Path(i)} ELSE files
  /\ dirs' = dirs \cup Above[Path(i)] \cup (IF IsFile(i) THEN {} ELSE {Path(i)})

\* validate_output_nodes: a reserved path is a problem for every node; only the
\* nodes that are always active share the inventory of the pack.
CompileClaim(i) ==
  LET shared == claims[i].by = "pack" /\ claims[i].always /\ ~Trespasses(i) IN
  /\ phase = "compile" /\ next = i
  /\ next' = i + 1
  /\ IF Trespasses(i) \/ (shared /\ Collides(i))
       THEN problems' = problems \cup {i} /\ UNCHANGED <<files, dirs>>
       ELSE /\ IF shared THEN Register(i) ELSE UNCHANGED <<files, dirs>>
            /\ UNCHANGED problems
  /\ UNCHANGED <<input, phase, production>>

\* A pack without problems can be exported.
Compiled ==
  /\ phase = "compile" /\ next = N + 1
  /\ phase' = IF problems = {} THEN "plan" ELSE "invalid"
  /\ next' = 1 /\ files' = {} /\ dirs' = {}
  /\ UNCHANGED <<input, problems, production>>

\* Faulty: a core document is planned beside the pack's own.
NeverSkip(i) == FALSE

\* A core document gives way to the pack's own file of that name.
Skipped(i) == claims[i].kind = "core" /\ Path(i) \in files

\* plan_outputs.
PlanClaim(i) ==
  /\ phase = "plan" /\ next = i
  /\ next' = i + 1
  /\ IF i \notin selected \/ Skipped(i)
       THEN UNCHANGED <<phase, files, dirs, problems>>
       ELSE IF Trespasses(i) \/ Collides(i)
         THEN phase' = "rejected" /\ problems' = {i} /\ UNCHANGED <<files, dirs>>
         ELSE Register(i) /\ UNCHANGED <<phase, problems>>
  /\ UNCHANGED <<input, production>>

Planned ==
  /\ phase = "plan" /\ next = N + 1
  /\ phase' = "write"
  /\ todo' = selected
  /\ UNCHANGED <<input, next, files, dirs, problems, made, madeDirs>>

----------------------------------------------------------------------------
(* The producers: mkdir(parents, exist_ok) and an exclusive open for a file. *)

\* Faulty: the core documents are written first.
AnyTime(i) == TRUE

\* The order in which producers run is left open, but the core documents come
\* after the nodes of the pack.
Ready(i) == claims[i].kind = "core" => \A j \in todo : claims[j].by # "pack"

\* A core document is not written when something has its name.
Present(i) == claims[i].kind = "core" /\ Path(i) \in made \cup madeDirs

Write(i) ==
  /\ phase = "write" /\ i \in todo
  /\ Ready(i)
  /\ todo' = todo \ {i}
  /\ IF Present(i)
       THEN UNCHANGED <<phase, made, madeDirs>>
       ELSE IF \/ Above[Path(i)] \cap made # {}
               \/ Path(i) \in made
               \/ (IsFile(i) /\ Path(i) \in madeDirs)
         THEN phase' = "clash" /\ UNCHANGED <<made, madeDirs>>
         ELSE /\ made' = IF IsFile(i) THEN made \cup {Path(i)} ELSE made
              /\ madeDirs' = madeDirs \cup Above[Path(i)]
                               \cup (IF IsFile(i) THEN {} ELSE {Path(i)})
              /\ UNCHANGED phase
  /\ UNCHANGED <<input, next, files, dirs, problems>>

\* export_plan compares the files with the inventory.
Compare ==
  /\ phase = "write" /\ todo = {}
  /\ phase' = IF made = files THEN "done" ELSE "mismatch"
  /\ UNCHANGED <<input, next, files, dirs, problems, production>>

PlanNext ==
  \/ \E i \in Claims : CompileClaim(i) \/ PlanClaim(i) \/ Write(i)
  \/ Compiled \/ Planned \/ Compare

PlanSpec == PlanInit /\ [][PlanNext]_planVars

----------------------------------------------------------------------------

PlanTypeOK ==
  /\ claims \in [Claims -> ClaimSpace]
  /\ selected \subseteq Claims
  /\ phase \in Phases
  /\ next \in 1 .. N + 1
  /\ files \subseteq OutputPaths /\ dirs \subseteq OutputPaths
  /\ problems \subseteq Claims
  /\ todo \subseteq Claims
  /\ made \subseteq OutputPaths /\ madeDirs \subseteq OutputPaths

\* Two claims cannot be met together: a file where the other needs a directory
\* or a file of its own.  A core document yields to a file of its name.
Blocks(i, j) ==
  \/ IsFile(i) /\ Path(i) \in Above[Path(j)]
  \/ IsFile(j) /\ Path(j) \in Above[Path(i)]
  \/ Path(i) = Path(j) /\ (IsFile(i) \/ IsFile(j))

Yields(i, j) ==
  /\ Path(i) = Path(j) /\ IsFile(i) /\ IsFile(j)
  /\ claims[i].kind = "core" \/ claims[j].kind = "core"

Conflict(i, j) == Blocks(i, j) /\ ~Yields(i, j)

Compatible(S) == \A i, j \in S : i # j => ~Conflict(i, j)

Authored == {i \in Claims : claims[i].by = "pack"}
Unconditional == {i \in Authored : claims[i].always}
Trespassers == {i \in Authored : Path(i) \in Reserved}

\* Compilation refuses exactly the packs with a node in the engine's namespaces
\* or with unconditional nodes that cannot coexist, whatever their order.
CompileExact ==
  /\ phase = "invalid" => Trespassers # {} \/ ~Compatible(Unconditional)
  /\ phase \notin {"compile", "invalid"} => Trespassers = {} /\ Compatible(Unconditional)

\* Planning refuses exactly the selections that cannot coexist, and then the
\* conflict is no fault of the engine's: it is within the pack or within the
\* engine's own names, or with a core document.
PlanExact ==
  /\ phase = "rejected" =>
       \E i, j \in selected :
         /\ i # j /\ Conflict(i, j)
         /\ claims[i].by = claims[j].by \/ claims[i].kind = "core" \/ claims[j].kind = "core"
  /\ phase \in {"write", "clash", "mismatch", "done"} => Compatible(selected)

\* A plan can be carried out: in whatever order the producers run, none finds
\* its path taken and they leave exactly the planned files.
PlanFits == phase \notin {"clash", "mismatch"}

=============================================================================
