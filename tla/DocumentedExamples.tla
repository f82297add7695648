------------------------ MODULE DocumentedExamples ------------------------
(***************************************************************************)
(* scripts/check_documented_examples.py: every Bash and Python block of    *)
(* the documentation is executed, the Bash blocks of one document in one   *)
(* shell, and a receipt names the blocks that ran to their end and the     *)
(* sources they ran on.  The full scope runs in a copy of the checkout.    *)
(* Shells may stop early, fail, hang, or leave a process behind; sources   *)
(* may be changed, and changed back, while the run works.                  *)
(*                                                                         *)
(* A part of the sources is a number of changes; its content is the        *)
(* parity, so two changes restore what a fingerprint saw.                  *)
(***************************************************************************)
EXTENDS Naturals, Sequences, SequencesExt

CONSTANTS Documents,    \* documents, in the order of BASH_POLICIES
          Blocks,       \* Seq of [id, document, language, delegated]
          MaxEdits      \* bound: changes of the sources

Parts == {"fixtures", "harness", "rest"}

ASSUME DocumentsAssumption ==
    /\ MaxEdits \in Nat
    /\ Documents \in Seq(ToSet(Documents)) /\ Blocks \in Seq(ToSet(Blocks))
    /\ \A i, j \in DOMAIN Blocks : i # j => Blocks[i].id # Blocks[j].id
    /\ \A i \in DOMAIN Blocks :
         /\ Blocks[i].document \in {Documents[d] : d \in DOMAIN Documents}
         /\ Blocks[i].language \in {"bash", "python"}
         /\ Blocks[i].language = "python" => ~Blocks[i].delegated

VARIABLES
    root,       \* Parts -> changes of the checkout
    copy,       \* Parts -> changes of the disposable checkout
    results,    \* does the result directory exist?
    full,       \* --include-delegated
    stage,
    script,     \* the digest of the script itself
    before,     \* the fingerprint of documents and fixtures
    blocks,     \* the documents that the blocks were read from
    visible,    \* the files that were copied
    copied,     \* the fingerprint of the copy
    group,      \* next group of blocks
    progress,   \* markers of the current shell
    stray,      \* has a process left its group with the pipes of the command?
    completed,  \* blocks the receipt names
    ran,        \* blocks that ran to their end, in order
    foreign,    \* did one of them run on other sources than the recorded ones?
    closing,    \* what the closing looks saw, by the changes so far
    verdict,    \* verdict so far
    receipt     \* documented-examples.json

sources == <<root, copy>>
reads == <<script, before, blocks, visible, copied>>
execution == <<group, progress, stray, completed, ran, foreign>>
outcome == <<closing, verdict, receipt>>
examplesVars == <<sources, results, full, stage, reads, execution, outcome>>

None == 2   \* not read: no content
Digest(n) == n % 2
Fingerprint(tree) == Digest(tree["fixtures"])
Unseen == [p \in Parts |-> None]
SourceFiles(tree) == [p \in Parts |-> Digest(tree[p])]

\* The blocks run in the copy, if there is one.
OnRecorded == IF full THEN SourceFiles(copy) = visible ELSE Fingerprint(root) = before

-----------------------------------------------------------------------------
(* The groups of blocks, one command each                                  *)

\* Some of the blocks, by their names, in the order in which they are registered.
Named(places) ==
    FlattenSeq([i \in DOMAIN Blocks |-> IF i \in places THEN <<Blocks[i].id>> ELSE <<>>])

\* The Bash blocks of the document d that a scope executes, and its Python blocks.
Shell(d, delegated) ==
    Named({i \in DOMAIN Blocks : /\ Blocks[i].document = d /\ Blocks[i].language = "bash"
                                 /\ delegated \/ ~Blocks[i].delegated})
Scripts(d) == Named({i \in DOMAIN Blocks : Blocks[i].document = d /\ Blocks[i].language = "python"})

\* One shell per document, and one interpreter per Python block.
GroupsOf(d, delegated) ==
    (IF Shell(d, delegated) = <<>> THEN <<>>
     ELSE <<[language |-> "bash", ids |-> Shell(d, delegated)]>>)
    \o [i \in DOMAIN Scripts(d) |-> [language |-> "python", ids |-> <<Scripts(d)[i]>>]]
Commands == [delegated \in BOOLEAN |->
                FlattenSeq([i \in DOMAIN Documents |-> GroupsOf(Documents[i], delegated)])]
Groups == Commands[full]

Expected == {b.id : b \in {Blocks[i] : i \in DOMAIN Blocks}}
Selected == FlattenSeq([g \in DOMAIN Groups |-> Groups[g].ids])
Current == Groups[group].ids

-----------------------------------------------------------------------------
ExamplesInit ==
    /\ root = [p \in Parts |-> 0] /\ copy = root
    /\ results \in BOOLEAN /\ full \in BOOLEAN
    /\ stage = "start"
    /\ script = None /\ before = None /\ blocks = None
    /\ visible = Unseen /\ copied = None
    /\ group = 1 /\ progress = <<>> /\ stray = FALSE /\ completed = <<>>
    /\ ran = <<>> /\ foreign = FALSE
    /\ closing = [fixtures |-> 0, copy |-> 0, sources |-> root, copied |-> copy, harness |-> 0]
    /\ verdict = "failed" /\ receipt = "none"

Over == {"ended", "refused", "raised", "killed"}
Preparing == {"start", "mkdir", "fingerprint", "register", "visible", "copy", "copied", "syntax"}
Enter(step) == stage' = step
\* ExampleError and OSError end the work; finalize_execution still runs.
GiveUp == Enter("cleanup")

\* An error while the copy is made: nothing is kept to compare with.
FailCopy == GiveUp /\ visible' = Unseen /\ copied' = None

\* The directory must not exist, and is made exclusively.
CheckResults ==
    /\ stage = "start"
    /\ Enter(IF results THEN "refused" ELSE "mkdir")
    /\ UNCHANGED <<sources, results, full, reads, execution, outcome>>

MakeResults ==
    /\ stage = "mkdir"
    /\ Enter(IF results THEN "refused" ELSE "fingerprint")
    /\ results' = TRUE
    /\ script' = Digest(root["harness"])
    /\ UNCHANGED <<sources, full, before, blocks, visible, copied, execution, outcome>>

\* A document may be missing by now.
TakeFingerprint ==
    /\ stage = "fingerprint"
    /\ \/ before' = Fingerprint(root) /\ Enter("register")
       \/ root["fixtures"] > 0 /\ GiveUp /\ UNCHANGED before
    /\ UNCHANGED <<sources, results, full, script, blocks, visible, copied, execution, outcome>>

\* registered_blocks: documents whose fences changed need a new policy.
RegisterBlocks ==
    /\ stage = "register"
    /\ \/ /\ blocks' = Fingerprint(root)
          /\ Enter(IF full THEN "visible" ELSE "syntax")
       \/ root["fixtures"] > 0 /\ GiveUp /\ UNCHANGED blocks
    /\ UNCHANGED <<sources, results, full, script, before, visible, copied, execution, outcome>>

ListSources ==
    /\ stage = "visible"
    /\ visible' = SourceFiles(root)
    /\ Enter("copy")
    /\ UNCHANGED <<sources, results, full, script, before, blocks, copied, execution, outcome>>

\* prepare_checkout copies the files one by one and compares each with its digest.
PrepareCheckout ==
    /\ stage = "copy"
    /\ IF SourceFiles(root) = visible
       THEN /\ copy' = visible
            /\ Enter("copied") /\ UNCHANGED <<visible, copied>>
       ELSE FailCopy /\ UNCHANGED copy
    /\ UNCHANGED <<root, results, full, script, before, blocks, execution, outcome>>

\* The copy must show the same files; its documents and fixtures are fingerprinted.
\* Signing examples need tools that may be missing.
FingerprintCopy ==
    /\ stage = "copied"
    /\ \/ /\ SourceFiles(copy) = visible
          /\ copied' = Fingerprint(copy)
          /\ Enter("syntax") /\ UNCHANGED visible
       \/ FailCopy
    /\ UNCHANGED <<sources, results, full, script, before, blocks, execution, outcome>>

\* bash -n and ast.parse on every block, in either scope.
CheckSyntax ==
    /\ stage = "syntax"
    /\ \E valid \in BOOLEAN : Enter(IF valid THEN "execute" ELSE "cleanup")
    /\ UNCHANGED <<sources, results, full, reads, execution, outcome>>

Start ==
    /\ stage = "execute" /\ group \in DOMAIN Groups
    /\ progress' = <<>>
    /\ Enter("running")
    /\ UNCHANGED <<sources, results, full, reads, group, stray, completed, ran, foreign, outcome>>

\* The next block of the group runs to its end; a shell then leaves a marker.
RunBlock ==
    /\ stage = "running" /\ Len(progress) < Len(Current)
    /\ LET id == Current[Len(progress) + 1]
       IN  progress' = Append(progress, id) /\ ran' = Append(ran, id)
    /\ foreign' = (foreign \/ ~OnRecorded)
    /\ UNCHANGED <<sources, results, full, stage, reads, group, stray, completed, outcome>>

\* A block starts a process in a session of its own, which keeps the pipes open.
Detach ==
    /\ stage = "running" /\ ~stray
    /\ stray' = TRUE
    /\ UNCHANGED <<sources, results, full, stage, reads, group, progress, completed, ran, foreign, outcome>>

StrayEnds ==
    /\ stray /\ stray' = FALSE
    /\ UNCHANGED <<sources, results, full, stage, reads, group, progress, completed, ran, foreign, outcome>>

Complete == Len(progress) = Len(Current)

\* The command ends once nobody holds its pipes: at its end, before it, or in error.
\* An interpreter that ends well has run its one block; a shell may exit early.
Exit(code) ==
    /\ stage = "running" /\ ~stray
    /\ (Groups[group].language = "python" /\ code = "passed") => Complete
    /\ Enter(code)
    /\ UNCHANGED <<sources, results, full, reads, execution, outcome>>

\* Faulty: communicate without a timeout.
NeverTimesOut == FALSE /\ UNCHANGED examplesVars

\* After 180 or 500 seconds the process group is killed; its pipes are then read
\* to their end, for as long as some other process holds them.
CommandTimesOut ==
    /\ stage = "running"
    /\ Enter("timed_out")
    /\ UNCHANGED <<sources, results, full, reads, execution, outcome>>

\* Faulty: the exit code is taken for the completion of every block.
TrustExit ==
    /\ stage \in {"passed", "failed", "timed_out"}
    /\ stage = "timed_out" => ~stray
    /\ completed' = completed \o progress
    /\ IF stage = "passed"
       THEN Enter("execute") /\ group' = group + 1
       ELSE GiveUp /\ UNCHANGED group
    /\ UNCHANGED <<sources, results, full, reads, progress, stray, ran, foreign, outcome>>

\* A shell that exits well must have left the marker of each of its blocks.  The
\* markers are kept either way; an interpreter is named only if it passed.
Collect ==
    /\ stage \in {"passed", "failed", "timed_out"}
    /\ stage = "timed_out" => ~stray
    /\ completed' = IF Groups[group].language = "bash" \/ stage = "passed"
                    THEN completed \o progress ELSE completed
    /\ IF stage = "passed" /\ progress = Current
       THEN Enter("execute") /\ group' = group + 1
       ELSE GiveUp /\ UNCHANGED group
    /\ UNCHANGED <<sources, results, full, reads, progress, stray, ran, foreign, outcome>>

\* Every group passed; the full scope must have completed every registered block.
Conclude ==
    /\ stage = "execute" /\ group \notin DOMAIN Groups
    /\ verdict' = IF full /\ ToSet(completed) # Expected THEN "failed" ELSE "passed"
    /\ Enter("cleanup")
    /\ UNCHANGED <<sources, results, full, reads, execution, closing, receipt>>

(* finalize_execution: each look may turn a passed run into a failed one   *)

CleanUp ==
    /\ stage = "cleanup"
    /\ \E stopped \in BOOLEAN : verdict' = IF stopped THEN verdict ELSE "failed"
    /\ Enter("confirm-fixtures")
    /\ UNCHANGED <<sources, results, full, reads, execution, closing, receipt>>

Confirm(look, seen, held, next) ==
    /\ closing' = [closing EXCEPT ![look] = seen]
    /\ verdict' = IF held THEN verdict ELSE "failed"
    /\ Enter(next)
    /\ UNCHANGED <<sources, results, full, reads, execution, receipt>>

ConfirmFixtures ==
    /\ stage = "confirm-fixtures"
    /\ Confirm("fixtures", root["fixtures"], before # None => Fingerprint(root) = before, "confirm-copy")

ConfirmCopy ==
    /\ stage = "confirm-copy"
    /\ Confirm("copy", copy["fixtures"], copied # None => Fingerprint(copy) = copied, "confirm-sources")

ConfirmSources ==
    /\ stage = "confirm-sources"
    /\ Confirm("sources", root, visible # Unseen => SourceFiles(root) = visible, "confirm-copied-sources")

\* Faulty: the checkout is looked at a second time.
ConfirmCheckoutTwice ==
    /\ stage = "confirm-copied-sources"
    /\ Confirm("copied", copy, visible # Unseen => SourceFiles(root) = visible, "confirm-harness")

ConfirmCopiedSources ==
    /\ stage = "confirm-copied-sources"
    /\ Confirm("copied", copy, visible # Unseen => SourceFiles(copy) = visible, "confirm-harness")

ConfirmHarness ==
    /\ stage = "confirm-harness"
    /\ Confirm("harness", root["harness"], Digest(root["harness"]) = script, "truncate")

\* git may exceed its 30 seconds, which nothing catches: in finalize_execution no
\* receipt is written any more.
GitTimeOut ==
    /\ \/ stage \in {"visible", "copied"} /\ FailCopy
       \/ /\ stage \in {"confirm-sources", "confirm-copied-sources"} /\ visible # Unseen
          /\ Enter("raised") /\ UNCHANGED <<visible, copied>>
    /\ UNCHANGED <<sources, results, full, script, before, blocks, execution, outcome>>

TruncateReceipt ==
    /\ stage = "truncate"
    /\ receipt' = "torn"
    /\ Enter("write")
    /\ UNCHANGED <<sources, results, full, reads, execution, closing, verdict>>

WriteReceipt ==
    /\ stage = "write"
    /\ receipt' = verdict
    /\ Enter("ended")
    /\ UNCHANGED <<sources, results, full, reads, execution, closing, verdict>>

-----------------------------------------------------------------------------
(* The environment: editors, and the blocks themselves                     *)

Edit(p) ==
    /\ root["fixtures"] + root["harness"] + root["rest"] < MaxEdits
    /\ root' = [root EXCEPT ![p] = @ + 1]
    /\ UNCHANGED <<copy, results, full, stage, reads, execution, outcome>>

\* Blocks, and processes that they leave behind, may change the copy.
EditCopy(p) ==
    /\ visible # Unseen /\ stage \notin Preparing \cup Over
    /\ copy["fixtures"] + copy["harness"] + copy["rest"]
         < visible["fixtures"] + visible["harness"] + visible["rest"] + MaxEdits
    /\ copy' = [copy EXCEPT ![p] = @ + 1]
    /\ UNCHANGED <<root, results, full, stage, reads, execution, outcome>>

OtherRun ==
    /\ stage = "mkdir" /\ results' = TRUE
    /\ UNCHANGED <<sources, full, stage, reads, execution, outcome>>

KillRun ==
    /\ stage = "write"
    /\ Enter("killed")
    /\ UNCHANGED <<sources, results, full, reads, execution, outcome>>

Work ==
    \/ CheckResults \/ MakeResults \/ TakeFingerprint \/ RegisterBlocks
    \/ ListSources \/ PrepareCheckout \/ FingerprintCopy \/ CheckSyntax
    \/ Start \/ CommandTimesOut \/ Collect \/ Conclude
    \/ CleanUp \/ ConfirmFixtures \/ ConfirmCopy \/ ConfirmSources \/ ConfirmCopiedSources
    \/ ConfirmHarness \/ TruncateReceipt \/ WriteReceipt

ExamplesNext ==
    \/ Work \/ GitTimeOut \/ KillRun
    \/ RunBlock \/ Detach \/ StrayEnds \/ \E code \in {"passed", "failed"} : Exit(code)
    \/ \E p \in Parts : Edit(p) \/ EditCopy(p)
    \/ OtherRun

ExamplesSpec == ExamplesInit /\ [][ExamplesNext]_examplesVars
FairExamples == ExamplesSpec /\ WF_examplesVars(Work)

-----------------------------------------------------------------------------
\* A receipt says "passed" only if exactly the blocks of its scope ran to their end, in
\* the order of the documents, and it names them; the full scope leaves none out.  The
\* blocks came from the documents whose fingerprint it records, unless the documents
\* were changed and changed back meanwhile.
PassedIsComplete ==
    receipt = "passed" =>
        /\ ran = Selected /\ completed = Selected
        /\ full => ToSet(completed) = Expected /\ visible # Unseen /\ copied = visible["fixtures"]
        /\ blocks = before \/ closing.fixtures >= 2

\* A receipt says "passed" only if each closing look, after the last block, found what
\* the receipt records: the documents and fixtures, the script, and in the full scope
\* the files of the checkout and of the copy.  Then every block ran on the recorded
\* sources too, unless those that it ran on were changed and changed back meanwhile.
PassedOnRecordedSources ==
    receipt = "passed" =>
        /\ Digest(closing.fixtures) = before /\ Digest(closing.harness) = script
        /\ full => /\ Digest(closing.copy) = copied
                   /\ SourceFiles(closing.sources) = visible /\ SourceFiles(closing.copied) = visible
        /\ foreign => IF full THEN \E p \in Parts : closing.copied[p] >= visible[p] + 2
                      ELSE closing.fixtures >= 2

\* A run ends, whatever its shells do, if no process that left its group keeps the
\* pipes of a command open for ever.
RunEnds == <>(stage \in Over) \/ <>[]stray
=============================================================================
