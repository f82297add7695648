-------------------------------- MODULE Seal --------------------------------
(***************************************************************************)
(* seal_and_package (app/use_cases/seal.py) with seal_export, the checksum *)
(* functions of common/package_integrity.py and GpgSigner: sealers that    *)
(* share one export directory verify it against its CHECKSUMS.sha256, sign *)
(* the baseline and package the directory.                                 *)
(*                                                                         *)
(* A pass that reads every file (a scan, a diagnosis, packing) is one step:*)
(* each file is read once in a pass, so edits of an unrelated program that *)
(* fall inside the pass can be moved before or after it.  Edits between    *)
(* two passes, also ones that undo each other, are explored.               *)
(*                                                                         *)
(* Definitions marked "Faulty" are no part of the specification: each is a *)
(* mistake the code avoids, kept beside the step it would change to show   *)
(* that a property below rejects it.                                       *)
(***************************************************************************)
EXTENDS Naturals

CONSTANTS
  Sealers,     \* invocations of `ipe seal` on the directory
  Signing,     \* those without --no-sign
  Strict,      \* those with --strict
  Live,        \* those the scheduler keeps running unless they are killed
  Zips,        \* ZIP destinations
  Target,      \* Target[s] is the --output of s, or NoZip
  NoZip,
  Metadata,    \* the metadata documents of the payload
  Evidence,    \* the evidence files of the payload
  MaxForeign   \* bound on the unrelated program's edits

ASSUME SealAssumption ==
  /\ Signing \subseteq Sealers /\ Strict \subseteq Sealers /\ Live \subseteq Sealers
  /\ NoZip \notin Zips /\ Target \in [Sealers -> Zips \cup {NoZip}]
  /\ Metadata \cap Evidence = {} /\ Metadata # {}
  /\ MaxForeign \in Nat

VARIABLES
  pc,         \* stage of each sealer
  baseline,   \* the CHECKSUMS.sha256 it loaded
  seen,       \* the hashes its scan found
  oldsig,     \* the signature it found in the directory
  newsig,     \* the signature it will leave there
  tempzip,    \* the archive it has prepared in a temporary file
  payload,    \* the files of the export directory
  sums,       \* its CHECKSUMS.sha256
  sig,        \* its CHECKSUMS.sha256.asc
  zips,       \* what each ZIP destination names
  edits,      \* edits made by the unrelated program
  disturbed,  \* sealers that held the lock during an edit of the directory
  excused     \* sealers that met an I/O or GPG failure, a busy lock or a taken ZIP name

local == <<baseline, seen, oldsig, newsig, tempzip>>
directory == <<payload, sums, sig>>
history == <<edits, disturbed, excused>>
vars == <<pc, local, directory, zips, history>>

----------------------------------------------------------------------------
(* A file is absent, sound or weak: weak evidence is a draft or placeholder*)
(* (QualityEngine), a weak metadata document reports missing evidence or   *)
(* contradicts the others.  A baseline or an archive maps paths to bytes.  *)

Paths == Metadata \cup Evidence
Bytes == {"none", "sound", "weak"}
Payload == [Paths -> Bytes]
Names(files) == {p \in Paths : files[p] # "none"}
Weak(files) == {p \in Paths : files[p] = "weak"}
Nothing == [p \in Paths |-> "none"]

Malformed == [valid |-> FALSE]
Sums(files) == [valid |-> TRUE, of |-> files]
SumsFiles == {Malformed} \cup {Sums(f) : f \in Payload}

NoSig == [kind |-> "none"]
AlienSig == [kind |-> "alien"]
SigOf(files) == [kind |-> "signature", of |-> files]
Sigs == {NoSig, AlienSig} \cup {SigOf(f) : f \in Payload}

NoFile == [kind |-> "absent"]
AlienFile == [kind |-> "alien"]
Archive(s, files, base, signature) ==
  [kind |-> "archive", by |-> s, files |-> files, sums |-> base, sig |-> signature]
Archives == [kind : {"archive"}, by : Sealers, files : Payload, sums : Payload, sig : Sigs]

\* Faulty: only drift is an error, in either mode.
RejectDrift(s, hashes, weak) == hashes # baseline[s]

\* What seal_export calls errors, on the hashes of the scan, the names and
\* weaknesses of the diagnosis: drift in either direction, missing metadata,
\* inconsistent evidence in any mode, weak evidence in strict mode only.
Rejected(s, hashes, weak) ==
  \/ hashes # baseline[s]
  \/ ~ (Metadata \subseteq Names(hashes))
  \/ ~ (Evidence \subseteq Names(hashes))
  \/ weak \cap Metadata # {}
  \/ s \in Strict /\ weak \cap Evidence # {}

Working == {"locked", "loaded", "scanned", "accepted", "sigread", "signed",
            "packed", "verified", "checked", "sigdone", "published"}
Locked == Working \cup {"failing"}
Ended == {"done", "failed", "died"}

Init ==
  /\ pc = [s \in Sealers |-> "idle"]
  /\ baseline = [s \in Sealers |-> Nothing]
  /\ seen = [s \in Sealers |-> Nothing]
  /\ oldsig = [s \in Sealers |-> NoSig]
  /\ newsig = [s \in Sealers |-> NoSig]
  /\ tempzip = [s \in Sealers |-> NoFile]
  /\ payload \in [Paths -> {"sound", "weak"}]
  /\ sums = Sums(payload)
  /\ sig \in {NoSig, SigOf(payload)}
  /\ zips = [z \in Zips |-> NoFile]
  /\ edits = 0
  /\ disturbed = {}
  /\ excused = {}

To(s, stage) == pc' = [pc EXCEPT ![s] = stage]
Goto(s, from, to) == pc[s] = from /\ To(s, to)

----------------------------------------------------------------------------
(* The stages of seal_and_package. *)

\* The ZIP name is checked before the lock is taken.
Precheck(s) ==
  /\ pc[s] = "idle"
  /\ IF Target[s] # NoZip /\ zips[Target[s]] # NoFile
       THEN To(s, "failed") /\ excused' = excused \cup {s}
       ELSE To(s, "ready") /\ UNCHANGED excused
  /\ UNCHANGED <<local, directory, zips, edits, disturbed>>

\* Faulty: flock without LOCK_NB waits for the holder.
LockWaiting(s) ==
  /\ \A t \in Sealers : pc[t] \notin Locked
  /\ Goto(s, "ready", "locked")
  /\ UNCHANGED <<local, directory, zips, history>>

\* acquire_lock with a zero timeout.
Lock(s) ==
  /\ pc[s] = "ready"
  /\ IF \E t \in Sealers : pc[t] \in Locked
       THEN To(s, "failed") /\ excused' = excused \cup {s}
       ELSE To(s, "locked") /\ UNCHANGED excused
  /\ UNCHANGED <<local, directory, zips, edits, disturbed>>

\* load_checksums refuses a malformed or empty baseline.
Load(s) ==
  /\ pc[s] = "locked"
  /\ IF sums.valid /\ sums # Sums(Nothing)
       THEN To(s, "loaded") /\ baseline' = [baseline EXCEPT ![s] = sums.of]
       ELSE To(s, "failing") /\ UNCHANGED baseline
  /\ UNCHANGED <<seen, oldsig, newsig, tempzip, directory, zips, history>>

\* scan_payload hashes every file of the directory.
Scan(s) ==
  /\ Goto(s, "loaded", "scanned")
  /\ seen' = [seen EXCEPT ![s] = payload]
  /\ UNCHANGED <<baseline, oldsig, newsig, tempzip, directory, zips, history>>

\* _snapshot reads metadata and evidence a second time, for their contents;
\* a file that has gone is an error.  seal_export then decides.
Diagnose(s) ==
  /\ pc[s] = "scanned"
  /\ IF \/ ~ (Names(seen[s]) \subseteq Names(payload))
        \/ Rejected(s, seen[s], Weak(payload) \cap Names(seen[s]))
       THEN To(s, "failing")
       ELSE To(s, "accepted")
  /\ UNCHANGED <<local, directory, zips, history>>

ReadSignature(s) ==
  /\ Goto(s, "accepted", "sigread")
  /\ oldsig' = [oldsig EXCEPT ![s] = sig]
  /\ UNCHANGED <<baseline, seen, newsig, tempzip, directory, zips, history>>

\* An existing signature must verify the staged copy of the baseline, also
\* with --no-sign; otherwise the baseline is signed in the private directory.
Sign(s) ==
  /\ pc[s] = "sigread"
  /\ IF oldsig[s] \notin {NoSig, SigOf(baseline[s])}
       THEN To(s, "failing") /\ UNCHANGED newsig
       ELSE /\ To(s, "signed")
            /\ newsig' = [newsig EXCEPT ![s] =
                 IF oldsig[s] # NoSig THEN oldsig[s]
                 ELSE IF s \in Signing THEN SigOf(baseline[s]) ELSE NoSig]
  /\ UNCHANGED <<baseline, seen, oldsig, tempzip, directory, zips, history>>

\* Faulty: the archive is filled by path, the hashes of the scan are trusted.
PackUnchecked(s) ==
  /\ Goto(s, "signed", "packed")
  /\ tempzip' = [tempzip EXCEPT ![s] = IF Target[s] = NoZip THEN NoFile
                                       ELSE Archive(s, payload, baseline[s], newsig[s])]
  /\ UNCHANGED <<baseline, seen, oldsig, newsig, directory, zips, history>>

\* _prepare_zip copies the bytes it hashes, for the paths of the baseline.
Pack(s) ==
  LET copied == [p \in Paths |-> IF baseline[s][p] = "none" THEN "none" ELSE payload[p]] IN
  /\ pc[s] = "signed"
  /\ IF Target[s] = NoZip
       THEN To(s, "packed") /\ UNCHANGED tempzip
       ELSE /\ To(s, IF copied = baseline[s] THEN "packed" ELSE "failing")
            /\ tempzip' = [tempzip EXCEPT ![s] = Archive(s, copied, baseline[s], newsig[s])]
  /\ UNCHANGED <<baseline, seen, oldsig, newsig, directory, zips, history>>

\* verify_payload once more, then _check_source_controls.
Verify(s) ==
  /\ pc[s] = "packed"
  /\ To(s, IF payload = baseline[s] THEN "verified" ELSE "failing")
  /\ UNCHANGED <<local, directory, zips, history>>

\* Faulty: any signature in the directory counts as a change.
RequireUnsigned(s) ==
  /\ pc[s] = "verified"
  /\ To(s, IF sums = Sums(baseline[s]) /\ sig = NoSig THEN "checked" ELSE "failing")
  /\ UNCHANGED <<local, directory, zips, history>>

CheckSourceControls(s) ==
  /\ pc[s] = "verified"
  /\ To(s, IF sums = Sums(baseline[s]) /\ sig = oldsig[s] THEN "checked" ELSE "failing")
  /\ UNCHANGED <<local, directory, zips, history>>

\* Faulty: with --output the signature goes into the archive only.
SignatureInArchiveOnly(s) ==
  /\ Goto(s, "checked", "sigdone")
  /\ sig' = IF Target[s] = NoZip /\ sig = NoSig THEN newsig[s] ELSE sig
  /\ UNCHANGED <<local, payload, sums, zips, history>>

\* A new signature is linked into the directory, never over another one.
PublishSignature(s) ==
  /\ pc[s] = "checked"
  /\ IF oldsig[s] # NoSig \/ newsig[s] = NoSig
       THEN To(s, "sigdone") /\ UNCHANGED sig
       ELSE IF sig = NoSig
         THEN To(s, "sigdone") /\ sig' = newsig[s]
         ELSE To(s, "failing") /\ UNCHANGED sig
  /\ UNCHANGED <<local, payload, sums, zips, history>>

\* Faulty: a rename that replaces what the ZIP destination names.
RenameZipOver(s) ==
  /\ Goto(s, "sigdone", "published")
  /\ zips' = [z \in Zips |-> IF z = Target[s] THEN tempzip[s] ELSE zips[z]]
  /\ UNCHANGED <<local, directory, history>>

\* The archive is linked to its name, never over another file.
PublishZip(s) ==
  /\ pc[s] = "sigdone"
  /\ IF Target[s] = NoZip
       THEN To(s, "published") /\ UNCHANGED <<tempzip, zips, excused>>
       ELSE IF zips[Target[s]] = NoFile
         THEN /\ To(s, "published")
              /\ zips' = [zips EXCEPT ![Target[s]] = tempzip[s]]
              /\ tempzip' = [tempzip EXCEPT ![s] = NoFile]
              /\ UNCHANGED excused
         ELSE To(s, "failing") /\ excused' = excused \cup {s} /\ UNCHANGED <<tempzip, zips>>
  /\ UNCHANGED <<baseline, seen, oldsig, newsig, directory, edits, disturbed>>

\* The private directory goes, the lock is released, and the finally clause
\* unlinks an archive that was prepared and not published.
Return(s) ==
  /\ \/ Goto(s, "published", "done")
     \/ Goto(s, "failing", "failed")
  /\ tempzip' = [tempzip EXCEPT ![s] = NoFile]
  /\ UNCHANGED <<baseline, seen, oldsig, newsig, directory, zips, history>>

Step(s) ==
  \/ Precheck(s) \/ Lock(s) \/ Load(s) \/ Scan(s) \/ Diagnose(s) \/ ReadSignature(s)
  \/ Sign(s) \/ Pack(s) \/ Verify(s) \/ CheckSourceControls(s)
  \/ PublishSignature(s) \/ PublishZip(s) \/ Return(s)

----------------------------------------------------------------------------
(* Failures and the environment. *)

\* Any system call or GPG run of a working sealer may fail.
Raise(s) ==
  /\ pc[s] \in Working
  /\ To(s, "failing")
  /\ excused' = excused \cup {s}
  /\ UNCHANGED <<local, directory, zips, edits, disturbed>>

\* The process is killed: the lock goes, a temporary archive stays.
Crash(s) ==
  /\ pc[s] \in Locked \cup {"ready"}
  /\ To(s, "died")
  /\ UNCHANGED <<local, directory, zips, history>>

\* The unrelated program edits the directory or takes a ZIP name.
ForeignDirectory ==
  /\ edits < MaxForeign
  /\ \/ \E p \in Paths, b \in Bytes : payload' = [payload EXCEPT ![p] = b] /\ UNCHANGED <<sums, sig>>
     \/ sums' \in {Malformed, Sums(payload)} /\ UNCHANGED <<payload, sig>>
     \/ sig' \in {NoSig, AlienSig} /\ UNCHANGED <<payload, sums>>
  /\ edits' = edits + 1
  /\ disturbed' = disturbed \cup {s \in Sealers : pc[s] \in Locked}
  /\ UNCHANGED <<pc, local, zips, excused>>

ForeignZip ==
  /\ edits < MaxForeign
  /\ \E z \in Zips, f \in {NoFile, AlienFile} : zips' = [zips EXCEPT ![z] = f]
  /\ edits' = edits + 1
  /\ UNCHANGED <<pc, local, directory, disturbed, excused>>

Next ==
  \/ \E s \in Sealers : Step(s) \/ Raise(s) \/ Crash(s)
  \/ ForeignDirectory
  \/ ForeignZip

Spec == Init /\ [][Next]_vars

\* Only the live sealers are promised to run; the others may stop anywhere, the
\* lock in hand.  GPG cannot hold a live one up: _run gives it thirty seconds.
FairSpec == Spec /\ \A s \in Live : WF_vars(Step(s))

----------------------------------------------------------------------------

TypeOK ==
  /\ pc \in [Sealers -> {"idle", "ready"} \cup Locked \cup Ended]
  /\ baseline \in [Sealers -> Payload] /\ seen \in [Sealers -> Payload]
  /\ oldsig \in [Sealers -> Sigs] /\ newsig \in [Sealers -> Sigs]
  /\ tempzip \in [Sealers -> {NoFile} \cup Archives]
  /\ payload \in Payload /\ sums \in SumsFiles /\ sig \in Sigs
  /\ zips \in [Zips -> {NoFile, AlienFile} \cup Archives]
  /\ edits \in 0 .. MaxForeign
  /\ disturbed \subseteq Sealers /\ excused \subseteq Sealers

\* Every archive that appears under a ZIP name holds exactly the bytes its own
\* baseline inventories, and its signature, if it has one, is of that baseline,
\* whatever an unrelated program did to the directory meanwhile.
ZipFaithful ==
  \A z \in Zips : zips[z].kind = "archive" =>
    /\ zips[z].files = zips[z].sums
    /\ zips[z].sig \in {NoSig, SigOf(zips[z].sums)}

\* A sealed package is worth its seal: unless the directory was edited while
\* the lock was held, a sealer that reports success, or an archive it left
\* behind, covers consistent metadata and all the evidence, and no draft
\* evidence in strict mode.
Certified(s) ==
  /\ baseline[s] = seen[s]
  /\ Paths \subseteq Names(baseline[s])
  /\ Weak(baseline[s]) \cap Metadata = {}
  /\ s \in Strict => Weak(baseline[s]) = {}

SealCertifies ==
  \A s \in Sealers : s \notin disturbed =>
    /\ pc[s] \in {"sigdone", "published", "done"} => Certified(s)
    /\ \A z \in Zips : zips[z].kind = "archive" /\ zips[z].by = s => Certified(s)

\* Success is complete: the requested archive was published under its own name
\* and the signature stands beside the baseline it signs, as long as nobody
\* else touched the directory or the names.
SuccessComplete ==
  \A s \in Sealers : pc[s] = "done" /\ edits = 0 =>
    /\ Target[s] # NoZip => zips[Target[s]].kind = "archive" /\ zips[Target[s]].by = s
    /\ s \in Signing => sig = SigOf(baseline[s])
    /\ sums = Sums(baseline[s])

\* The engine never repairs: on a directory that carries a valid seal and that
\* nobody edits, a sealer fails only for an excuse it met itself or for what
\* its own mode forbids.  A signature left behind by a killed or failed sealer
\* is such a seal, so a retry recovers.
FailuresExplained ==
  \A s \in Sealers : pc[s] = "failed" /\ s \notin excused /\ edits = 0 =>
    Weak(payload) \cap (IF s \in Strict THEN Paths ELSE Metadata) # {}

\* What has a name keeps it: no step of a sealer changes the payload or the
\* baseline, replaces a signature or replaces what a ZIP name names.
NeverReplaces ==
  [][edits' = edits =>
       /\ UNCHANGED <<payload, sums>>
       /\ sig # NoSig => UNCHANGED sig
       /\ \A z \in Zips : zips[z] # NoFile => zips'[z] = zips[z]]_vars

\* A sealer that returns leaves no temporary archive.
NoLeftovers == \A s \in Sealers : pc[s] \in {"done", "failed"} => tempzip[s] = NoFile

\* A live sealer that has started ends, whatever the holder of the lock does
\* (acquire_lock is called with a zero timeout).
SealsEnd == \A s \in Live : pc[s] = "ready" ~> pc[s] \in Ended

=============================================================================
