---------------------------- MODULE FreshOutput ----------------------------
(***************************************************************************)
(* fresh_output (common/output_safety.py) as `ipe assess` and `ipe export` *)
(* use it: take the sidecar lock of the destination, build the snapshot in *)
(* a private sibling directory, write CHECKSUMS.sha256 into it and publish *)
(* the directory with one exclusive rename.                                *)
(*                                                                         *)
(* Each writer is one invocation with the same destination; a retry is     *)
(* another writer.  The environment kills invocations at any moment and an *)
(* unrelated program, which takes no lock, creates, edits or removes the   *)
(* destination, edits staged files and removes the lock file.              *)
(*                                                                         *)
(* Definitions marked "Faulty" are no part of the specification: each is a *)
(* mistake the code avoids, kept beside the step it would change to show   *)
(* that a property below rejects it.                                       *)
(***************************************************************************)
EXTENDS Naturals

CONSTANTS
  Writers,           \* invocations of assess or export
  Exporters,         \* those of them that run export (the others run assess)
  Live,              \* writers the scheduler keeps running unless they are killed
  Paths,             \* payload paths that can appear in a snapshot
  Inventory,         \* paths plan_outputs announces for an export
  RequiredMetadata,  \* snapshot_contract.REQUIRED_METADATA
  Foreign, Nobody,   \* the unrelated program; the owner of a free name
  MaxForeign         \* bound on the unrelated program's steps

ASSUME FreshOutputAssumption ==
  /\ Exporters \subseteq Writers
  /\ Live \subseteq Writers
  /\ RequiredMetadata \subseteq Inventory
  /\ Inventory \subseteq Paths
  /\ Foreign \notin Writers
  /\ Nobody \notin Writers \cup {Foreign}
  /\ MaxForeign \in Nat

VARIABLES
  pc,        \* stage of each invocation
  opened,    \* inode of the lock file each invocation has open
  ino,       \* inode the lock path names now
  unlinked,  \* whether the unrelated program removed the lock file
  staging,   \* the private directory of each invocation
  scanned,   \* payload hashes write_checksums holds
  temp,      \* invocations whose .checksums-* temporary file exists
  dest,      \* what the destination path names
  spoiled,   \* invocations whose staging was edited after its verification
  edits      \* steps taken by the unrelated program

vars == <<pc, opened, ino, unlinked, staging, scanned, temp, dest, spoiled, edits>>
lockVars == <<opened, ino, unlinked>>

----------------------------------------------------------------------------
(* Directories: a payload maps every path to the bytes it holds; sums is   *)
(* the payload that the CHECKSUMS.sha256 of the directory inventories.     *)

Bytes == {"none", "own", "alien"}
Payload == [Paths -> Bytes]
NoSums == [kind |-> "none"]
AlienSums == [kind |-> "alien"]
Sums(payload) == [kind |-> "baseline", of |-> payload]
SumsFiles == {NoSums, AlienSums} \cup {Sums(payload) : payload \in Payload}
Snapshots == [by : Writers \cup {Foreign}, files : Payload, sums : SumsFiles]
Absent == [by |-> Nobody]

Empty == [p \in Paths |-> "none"]
Names(files) == {p \in Paths : files[p] # "none"}

\* The stages at which the invocation owns its staging directory, the ones
\* at which it holds the flock, and the final ones.
Staged == {"body", "scan", "prepare", "verify", "link", "rename", "cleanup"}
Locked == Staged \cup {"locked", "failing", "published"}
Ended == {"done", "failed", "stuck", "died", "lost"}
Stages == {"idle", "opened"} \cup Locked \cup Ended

Holds(w) == pc[w] \in Locked

Init ==
  /\ pc = [w \in Writers |-> "idle"]
  /\ opened = [w \in Writers |-> 0]
  /\ ino = 0
  /\ unlinked = FALSE
  /\ staging = [w \in Writers |-> Absent]
  /\ scanned = [w \in Writers |-> Empty]
  /\ temp = {}
  /\ dest = Absent
  /\ spoiled = {}
  /\ edits = 0

To(w, stage) == pc' = [pc EXCEPT ![w] = stage]
Goto(w, from, to) == pc[w] = from /\ To(w, to)

----------------------------------------------------------------------------
(* acquire_lock with its default timeout of zero.                          *)

\* os.open(O_CREAT) and fstat: the descriptor keeps the inode it found.
OpenLock(w) ==
  /\ Goto(w, "idle", "opened")
  /\ opened' = [opened EXCEPT ![w] = ino]
  /\ UNCHANGED <<ino, unlinked, staging, scanned, temp, dest, spoiled, edits>>

Busy(w) == \E v \in Writers : Holds(v) /\ opened[v] = opened[w]

\* flock(LOCK_EX | LOCK_NB) succeeds.
TakeLock(w) ==
  /\ ~Busy(w)
  /\ Goto(w, "opened", "locked")
  /\ UNCHANGED <<lockVars, staging, scanned, temp, dest, spoiled, edits>>

\* Faulty: flock without LOCK_NB waits for the holder.
WaitForLock(w) == Busy(w) /\ UNCHANGED vars

\* flock finds another holder: BlockingIOError at once.
RefuseLock(w) ==
  /\ Busy(w)
  /\ Goto(w, "opened", "failed")
  /\ UNCHANGED <<lockVars, staging, scanned, temp, dest, spoiled, edits>>

\* Faulty: the holder removes the lock file when it leaves.
UnlockAndRemove(w) ==
  /\ Goto(w, "published", "done") \/ Goto(w, "failing", "failed")
  /\ ino' = ino + 1
  /\ UNCHANGED <<opened, unlinked, staging, scanned, temp, dest, spoiled, edits>>

\* Leaving the context manager: the lock goes, the lock file stays.
Unlock(w) ==
  /\ \/ Goto(w, "published", "done")
     \/ Goto(w, "failing", "failed")
  /\ UNCHANGED <<lockVars, staging, scanned, temp, dest, spoiled, edits>>

----------------------------------------------------------------------------
(* The body of fresh_output.                                               *)

\* require_new_output under the lock, then mkdtemp beside the destination.
Prepare(w) ==
  /\ pc[w] = "locked"
  /\ IF dest = Absent
       THEN /\ To(w, "body")
            /\ staging' = [staging EXCEPT ![w] = [by |-> w, files |-> Empty, sums |-> NoSums]]
       ELSE To(w, "failing") /\ UNCHANGED staging
  /\ UNCHANGED <<lockVars, scanned, temp, dest, spoiled, edits>>

\* One file of the snapshot.  assess writes the required metadata only; what
\* the exporters of an export write is compared with the inventory afterwards.
WriteFile(w, p) ==
  /\ pc[w] = "body"
  /\ w \notin Exporters => p \in RequiredMetadata
  /\ staging[w].files[p] # "own"
  /\ staging' = [staging EXCEPT ![w].files[p] = "own"]
  /\ UNCHANGED <<pc, lockVars, scanned, temp, dest, spoiled, edits>>

\* The producers have finished; export compares the files with the inventory.
FinishBody(w) ==
  /\ pc[w] = "body"
  /\ \/ /\ w \in Exporters
        /\ To(w, IF Names(staging[w].files) = Inventory THEN "scan" ELSE "cleanup")
     \/ /\ w \notin Exporters
        /\ \A p \in RequiredMetadata : staging[w].files[p] = "own"
        /\ To(w, "scan")
  /\ UNCHANGED <<lockVars, staging, scanned, temp, dest, spoiled, edits>>

\* write_checksums: no control may exist yet, every file is hashed, the
\* required metadata must be among them.
ScanPayload(w) ==
  /\ pc[w] = "scan"
  /\ IF staging[w].sums = NoSums /\ RequiredMetadata \subseteq Names(staging[w].files)
       THEN To(w, "prepare")
       ELSE To(w, "cleanup")
  /\ scanned' = [scanned EXCEPT ![w] = staging[w].files]
  /\ UNCHANGED <<lockVars, staging, temp, dest, spoiled, edits>>

\* mkstemp in the parent directory; the content is written and synced.
PrepareChecksums(w) ==
  /\ Goto(w, "prepare", "verify")
  /\ temp' = temp \cup {w}
  /\ UNCHANGED <<lockVars, staging, scanned, dest, spoiled, edits>>

\* Faulty: the hashes of the scan are trusted.
SkipVerification(w) ==
  /\ Goto(w, "verify", "link")
  /\ UNCHANGED <<lockVars, staging, scanned, temp, dest, spoiled, edits>>

\* verify_payload: the directory is hashed again.
VerifyPayload(w) ==
  /\ pc[w] = "verify"
  /\ IF staging[w].files = scanned[w]
       THEN To(w, "link") /\ UNCHANGED temp
       ELSE To(w, "cleanup") /\ temp' = temp \ {w}
  /\ UNCHANGED <<lockVars, staging, scanned, dest, spoiled, edits>>

\* publish_file_no_replace: the hard link fails if the name exists.
LinkChecksums(w) ==
  /\ pc[w] = "link"
  /\ temp' = temp \ {w}
  /\ IF staging[w].sums = NoSums
       THEN /\ To(w, "rename")
            /\ staging' = [staging EXCEPT ![w].sums = Sums(scanned[w])]
       ELSE To(w, "cleanup") /\ UNCHANGED staging
  /\ UNCHANGED <<lockVars, scanned, dest, spoiled, edits>>

\* Faulty: a rename that replaces what the destination names.
RenameOver(w) ==
  /\ Goto(w, "rename", "published")
  /\ dest' = staging[w]
  /\ staging' = [staging EXCEPT ![w] = Absent]
  /\ UNCHANGED <<lockVars, scanned, temp, spoiled, edits>>

\* renameat2(RENAME_NOREPLACE): the staged directory becomes the destination.
PublishDirectory(w) ==
  /\ pc[w] = "rename"
  /\ IF dest = Absent
       THEN /\ To(w, "published")
            /\ dest' = staging[w]
            /\ staging' = [staging EXCEPT ![w] = Absent]
       ELSE To(w, "cleanup") /\ UNCHANGED <<dest, staging>>
  /\ UNCHANGED <<lockVars, scanned, temp, spoiled, edits>>

\* Faulty: no finally clause.
ForgetCleanup(w) ==
  /\ Goto(w, "cleanup", "failing")
  /\ UNCHANGED <<lockVars, staging, scanned, temp, dest, spoiled, edits>>

\* finally: rmtree of a staging directory that was not published.
Cleanup(w) ==
  /\ Goto(w, "cleanup", "failing")
  /\ staging' = [staging EXCEPT ![w] = Absent]
  /\ UNCHANGED <<lockVars, scanned, temp, dest, spoiled, edits>>

Step(w) ==
  \/ OpenLock(w) \/ TakeLock(w) \/ RefuseLock(w) \/ Prepare(w)
  \/ \E p \in Paths : WriteFile(w, p)
  \/ FinishBody(w) \/ ScanPayload(w) \/ PrepareChecksums(w) \/ VerifyPayload(w)
  \/ LinkChecksums(w) \/ PublishDirectory(w) \/ Cleanup(w) \/ Unlock(w)

----------------------------------------------------------------------------
(* Failures and the environment.                                           *)

\* An exception: an unusable lock file, a producer that raises, a full disk.
Raise(w) ==
  /\ \/ Goto(w, "opened", "failed")
     \/ Goto(w, "locked", "failing")
     \/ \E s \in Staged \ {"cleanup"} : Goto(w, s, "cleanup")
  /\ temp' = temp \ {w}
  /\ UNCHANGED <<lockVars, staging, scanned, dest, spoiled, edits>>

\* rmtree itself raises: the call fails and the directory stays behind.
CleanupRaises(w) ==
  /\ Goto(w, "cleanup", "stuck")
  /\ UNCHANGED <<lockVars, staging, scanned, temp, dest, spoiled, edits>>

\* The process is killed; the kernel drops its flock, the files stay.
Crash(w) ==
  /\ pc[w] \notin Ended \cup {"idle"}
  /\ pc' = [pc EXCEPT ![w] = IF @ = "published" THEN "lost" ELSE "died"]
  /\ UNCHANGED <<lockVars, staging, scanned, temp, dest, spoiled, edits>>

ForeignStep == edits < MaxForeign /\ edits' = edits + 1

\* The unrelated program writes to, or removes, the destination.
ForeignDestination ==
  /\ ForeignStep
  /\ \/ dest' = [by |-> Foreign, files |-> Empty, sums |-> NoSums]
     \/ dest' = Absent
  /\ UNCHANGED <<pc, lockVars, staging, scanned, temp, spoiled>>

\* It changes, adds or removes a staged file, or plants a CHECKSUMS.sha256.
ForeignStaging(w) ==
  /\ ForeignStep
  /\ pc[w] \in Staged
  /\ \/ \E p \in Paths, b \in {"none", "alien"} :
          /\ staging' = [staging EXCEPT ![w].files[p] = b]
          /\ spoiled' = IF pc[w] \in {"link", "rename"} THEN spoiled \cup {w} ELSE spoiled
     \/ /\ staging' = [staging EXCEPT ![w].sums = AlienSums]
        /\ spoiled' = IF pc[w] = "rename" THEN spoiled \cup {w} ELSE spoiled
  /\ UNCHANGED <<pc, lockVars, scanned, temp, dest>>

\* It removes the lock file: the next open creates another inode.
ForeignUnlink ==
  /\ ForeignStep
  /\ ino' = ino + 1
  /\ unlinked' = TRUE
  /\ UNCHANGED <<pc, opened, staging, scanned, temp, dest, spoiled>>

Environment ==
  \/ \E w \in Writers : Raise(w) \/ CleanupRaises(w) \/ Crash(w) \/ ForeignStaging(w)
  \/ ForeignDestination
  \/ ForeignUnlink

Next == (\E w \in Writers : Step(w)) \/ Environment

Spec == Init /\ [][Next]_vars

\* Only the live writers are promised to run; the others may stop anywhere,
\* the lock in hand.
FairSpec == Spec /\ \A w \in Live : WF_vars(Step(w))

----------------------------------------------------------------------------

TypeOK ==
  /\ pc \in [Writers -> Stages]
  /\ opened \in [Writers -> Nat]
  /\ ino \in Nat
  /\ unlinked \in BOOLEAN
  /\ staging \in [Writers -> Snapshots \cup {Absent}]
  /\ scanned \in [Writers -> Payload]
  /\ temp \subseteq Writers
  /\ dest \in Snapshots \cup {Absent}
  /\ spoiled \subseteq Writers
  /\ edits \in 0 .. MaxForeign

\* While nobody else removes the lock file, at most one invocation is between
\* taking and releasing the lock ("Keep the cooperative lock outside the
\* output tree and never remove it", output_safety.py:20).
StagingExclusive ==
  ~unlinked => \A v, w \in Writers : Holds(v) /\ Holds(w) => v = w

\* A snapshot is intact when its baseline inventories exactly the files it
\* holds and the required metadata is among them.
Intact(s) ==
  /\ s.sums = Sums(s.files)
  /\ RequiredMetadata \subseteq Names(s.files)

\* What an invocation published (orchestrator.export_plan, core._assess) is intact, unless the unrelated program
\* edited the staging directory after verify_payload had passed.
PublishedIntact ==
  \A w \in Writers : dest # Absent /\ dest.by = w /\ w \notin spoiled => Intact(dest)

\* An invocation that returns leaves neither a staging directory nor a
\* temporary checksum file; only a kill or a failing rmtree leaves any.
NoLeftovers ==
  \A w \in Writers :
    /\ pc[w] \in {"done", "failed", "lost"} => staging[w] = Absent
    /\ pc[w] \in Ended \ {"died"} => w \notin temp

\* Nobody waits for anybody: a live invocation ends, whatever the holder of
\* the lock does (acquire_lock is called with a zero timeout).
CallsEnd == \A w \in Live : pc[w] = "opened" ~> pc[w] \in Ended

\* Status of an invocation in the terms of ExclusivePublication.
StatusOf(stage) ==
  IF stage \in {"published", "done", "lost"} THEN "published"
  ELSE IF stage \in Ended THEN "gone" ELSE "running"

status == [w \in Writers |-> StatusOf(pc[w])]

Entry ==
  IF dest = Absent THEN [by |-> Nobody] ELSE [by |-> dest.by, intact |-> Intact(dest)]

Abstract == INSTANCE ExclusivePublication WITH entry <- Entry

\* Every invocation is one atomic publication of an intact snapshot onto a
\* free name, or no change at all.
Refines == Abstract!Spec

============================================================================
