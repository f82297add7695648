---------------------------- MODULE SealProofs ----------------------------
(***************************************************************************)
(* Theorems about Seal for any number of sealers, files, ZIP destinations  *)
(* and edits of the unrelated program, with the invariants they rest on.   *)
(***************************************************************************)
EXTENDS Seal, TLAPS

Signed == {"signed", "packed", "verified", "checked", "sigdone"}
Accepted == Signed \cup {"accepted", "sigread", "published"}
Finishing == {"published", "done", "failing", "failed", "died"}

\* At most one sealer is between lock and return.
LockInv == \A s, t \in Sealers : pc[s] \in Locked /\ pc[t] \in Locked => s = t

\* A signature to be left is of the baseline that was loaded.
SigInv == \A s \in Sealers : pc[s] \in Signed => newsig[s] \in {NoSig, SigOf(baseline[s])}

\* A temporary archive that can still be published is faithful, and there is
\* none before packing and after returning.
TempInv ==
  \A s \in Sealers :
    /\ pc[s] \in Signed \ {"signed"} /\ Target[s] # NoZip =>
         tempzip[s] = Archive(s, baseline[s], baseline[s], newsig[s])
    /\ pc[s] \in {"idle", "ready", "done", "failed"} => tempzip[s] = NoFile

\* An undisturbed sealer knows the directory, and is past the decision only
\* with what the decision certifies.
KnowInv ==
  \A s \in Sealers : s \notin disturbed =>
    /\ pc[s] = "scanned" => seen[s] = payload
    /\ pc[s] \in Accepted \cup {"done"} => Certified(s)

\* An archive under a ZIP name comes from a sealer that got that far.
ZipInv ==
  \A z \in Zips, s \in Sealers : zips[z].kind = "archive" /\ zips[z].by = s =>
    /\ pc[s] \in Finishing
    /\ s \notin disturbed => Certified(s)

\* The inductive invariant.
IInv == TypeOK /\ LockInv /\ SigInv /\ TempInv /\ KnowInv /\ ZipInv /\ ZipFaithful

----------------------------------------------------------------------------
(* As long as nobody edits the directory or takes a ZIP name.              *)

Loaded == {"loaded", "scanned"} \cup Accepted
Looked == {"sigread", "signed", "packed", "verified", "checked"}
Certain == {"sigdone", "published", "done"}

\* The directory is as it was closed, and what a sealer has read is what is there.
DirectoryQuiet ==
  /\ payload \in [Paths -> {"sound", "weak"}]
  /\ sums = Sums(payload)
  /\ sig \in {NoSig, SigOf(payload)}
  /\ \A s \in Sealers :
       /\ pc[s] \in Loaded \cup {"done"} => baseline[s] = payload
       /\ pc[s] \in {"scanned"} \cup Accepted => seen[s] = payload
       /\ pc[s] \in Looked => oldsig[s] = sig

\* A sealer that was asked to sign has a signature in hand, then in the directory.
SignatureQuiet ==
  \A s \in Signing :
    /\ pc[s] \in Signed => newsig[s] = SigOf(payload)
    /\ pc[s] \in Certain => sig = SigOf(payload)

\* A published archive stays where it was published.
ZipQuiet ==
  \A s \in Sealers : pc[s] \in {"published", "done"} /\ Target[s] # NoZip =>
    zips[Target[s]].kind = "archive" /\ zips[Target[s]].by = s

\* A failure has an excuse or a reason in the files.
FailureQuiet ==
  \A s \in Sealers : pc[s] \in {"failing", "failed"} /\ s \notin excused =>
    Weak(payload) \cap (IF s \in Strict THEN Paths ELSE Metadata) # {}

Quiet == edits = 0 => DirectoryQuiet /\ SignatureQuiet /\ ZipQuiet /\ FailureQuiet

----------------------------------------------------------------------------
(* Facts about files, baselines and archives. *)

\* A baseline and a signature determine the files they are of.
LEMMA SumsExact ==
  ASSUME NEW f, NEW g
  PROVE  /\ Sums(f) = Sums(g) => f = g
         /\ SigOf(f) = SigOf(g) => f = g
         /\ Sums(f).valid /\ Sums(f).of = f
         /\ SigOf(f) # NoSig /\ SigOf(f) # AlienSig
  <1>1. Sums(f).valid /\ Sums(f).of = f /\ Sums(g).of = g
    BY DEF Sums
  <1>2. SigOf(f).of = f /\ SigOf(g).of = g
    BY DEF SigOf
  <1>3. SigOf(f).kind = "signature" /\ NoSig.kind = "none" /\ AlienSig.kind = "alien"
    BY DEF SigOf, NoSig, AlienSig
  <1> QED
    BY <1>1, <1>2, <1>3

\* What a well-formed baseline inventories is a payload.
LEMMA SumsParts ==
  ASSUME NEW c \in SumsFiles, c.valid
  PROVE  c.of \in Payload
  <1>1. c # Malformed
    BY DEF Malformed
  <1>2. PICK f \in Payload : c = Sums(f)
    BY <1>1 DEF SumsFiles
  <1> QED
    BY <1>2, SumsExact

\* An archive is its parts, and no other file.
LEMMA ArchiveParts ==
  ASSUME NEW s \in Sealers, NEW f \in Payload, NEW b \in Payload, NEW g \in Sigs
  PROVE  LET a == Archive(s, f, b, g) IN
         /\ a \in Archives /\ a.kind = "archive"
         /\ a.by = s /\ a.files = f /\ a.sums = b /\ a.sig = g
         /\ a # NoFile /\ a # AlienFile
  <1>1. Archive(s, f, b, g).kind = "archive" /\ NoFile.kind = "absent" /\ AlienFile.kind = "alien"
    BY DEF Archive, NoFile, AlienFile
  <1> QED
    BY <1>1 DEF Archive, Archives

LEMMA FileKinds == NoFile.kind # "archive" /\ AlienFile.kind # "archive" /\ NoFile # AlienFile
  <1>1. NoFile.kind = "absent" /\ AlienFile.kind = "alien"
    BY DEF NoFile, AlienFile
  <1> QED
    BY <1>1

LEMMA SigTypes ==
  ASSUME NEW f \in Payload
  PROVE  NoSig \in Sigs /\ AlienSig \in Sigs /\ SigOf(f) \in Sigs
  BY DEF Sigs

\* What seal_export accepts, if the diagnosis saw the files that were hashed.
LEMMA AcceptedCertified ==
  ASSUME NEW s \in Sealers, NEW f \in Payload, f = seen[s],
         ~Rejected(s, f, Weak(f) \cap Names(f))
  PROVE  Certified(s)
  <1>1. Weak(f) \subseteq Names(f) /\ Weak(f) \subseteq Paths
    BY DEF Weak, Names
  <1>2. f = baseline[s] /\ Metadata \subseteq Names(f) /\ Evidence \subseteq Names(f)
    BY DEF Rejected
  <1>3. Weak(f) \cap Metadata = {}
    BY <1>1 DEF Rejected
  <1>4. s \in Strict => Weak(f) \cap Evidence = {}
    BY <1>1 DEF Rejected
  <1>5. s \in Strict => Weak(f) = {}
    BY <1>1, <1>3, <1>4 DEF Paths
  <1> QED
    BY <1>2, <1>3, <1>5 DEF Certified, Paths

----------------------------------------------------------------------------
(* The safety invariant. *)

LEMMA InitInv == Init => IInv
<1> SUFFICES ASSUME Init PROVE IInv
  OBVIOUS
<1> USE SealAssumption DEF Init
<1>0. Nothing \in Payload /\ payload \in Payload
  BY DEF Nothing, Payload, Bytes
<1>1. TypeOK
  BY <1>0, SigTypes DEF TypeOK, SumsFiles
<1>2. LockInv
  BY DEF LockInv, Locked, Working
<1>3. SigInv
  BY DEF SigInv, Signed
<1>4. TempInv
  BY DEF TempInv, Signed
<1>5. KnowInv
  BY DEF KnowInv, Accepted, Signed
<1>6. ZipInv /\ ZipFaithful
  BY FileKinds DEF ZipInv, ZipFaithful
<1> QED
  BY <1>1, <1>2, <1>3, <1>4, <1>5, <1>6 DEF IInv

\* Every step preserves the safety invariant.
LEMMA StepInv == IInv /\ [Next]_vars => IInv'
<1> SUFFICES ASSUME IInv, [Next]_vars PROVE IInv'
  OBVIOUS
<1> USE SealAssumption DEF IInv, To, Goto, local, directory, history
<1>1. ASSUME NEW s \in Sealers, Precheck(s)
      PROVE  IInv'
  <2>1. TypeOK'
    BY <1>1 DEF TypeOK, Locked, Working, Ended, Precheck
  <2>2. LockInv'
    BY <1>1 DEF LockInv, TypeOK, Locked, Working, Ended, Precheck
  <2>3. SigInv'
    BY <1>1 DEF SigInv, TypeOK, Signed, Locked, Working, Ended, Precheck
  <2>4. TempInv'
    BY <1>1 DEF TempInv, TypeOK, Signed, Locked, Working, Ended, Precheck
  <2>5. KnowInv'
    BY <1>1 DEF KnowInv, Certified, TypeOK, Accepted, Signed, Locked, Working, Ended, Precheck
  <2>6. ZipInv'
    <3>1. \A t \in Sealers : pc[t] \in Finishing => pc'[t] \in Finishing
      BY <1>1 DEF TypeOK, Finishing, Precheck
    <3>2. \A t \in Sealers : pc[t] \in Finishing /\ Certified(t) => Certified(t)'
      BY <1>1 DEF TypeOK, Finishing, Certified, Precheck
    <3>3. UNCHANGED <<zips, disturbed>>
      BY <1>1 DEF Precheck
    <3> QED
      BY <3>1, <3>2, <3>3 DEF ZipInv
  <2>7. ZipFaithful'
    BY <1>1 DEF ZipFaithful, TypeOK, Locked, Working, Ended, Precheck
  <2> QED
    BY <2>1, <2>2, <2>3, <2>4, <2>5, <2>6, <2>7
<1>2. ASSUME NEW s \in Sealers, Lock(s)
      PROVE  IInv'
  <2>1. TypeOK'
    BY <1>2 DEF TypeOK, Locked, Working, Ended, Lock
  <2>2. LockInv'
    BY <1>2 DEF LockInv, TypeOK, Locked, Working, Ended, Lock
  <2>3. SigInv'
    BY <1>2 DEF SigInv, TypeOK, Signed, Locked, Working, Ended, Lock
  <2>4. TempInv'
    BY <1>2 DEF TempInv, TypeOK, Signed, Locked, Working, Ended, Lock
  <2>5. KnowInv'
    BY <1>2 DEF KnowInv, Certified, TypeOK, Accepted, Signed, Locked, Working, Ended, Lock
  <2>6. ZipInv'
    <3>1. \A t \in Sealers : pc[t] \in Finishing => pc'[t] \in Finishing
      BY <1>2 DEF TypeOK, Finishing, Lock
    <3>2. \A t \in Sealers : pc[t] \in Finishing /\ Certified(t) => Certified(t)'
      BY <1>2 DEF TypeOK, Finishing, Certified, Lock
    <3>3. UNCHANGED <<zips, disturbed>>
      BY <1>2 DEF Lock
    <3> QED
      BY <3>1, <3>2, <3>3 DEF ZipInv
  <2>7. ZipFaithful'
    BY <1>2 DEF ZipFaithful, TypeOK, Locked, Working, Ended, Lock
  <2> QED
    BY <2>1, <2>2, <2>3, <2>4, <2>5, <2>6, <2>7
<1>3. ASSUME NEW s \in Sealers, Load(s)
      PROVE  IInv'
  <2>1. TypeOK'
    <3>1. sums.valid => sums.of \in Payload
      BY SumsParts DEF TypeOK
    <3> QED
      BY <1>3, <3>1 DEF TypeOK, Locked, Working, Ended, Load
  <2>2. LockInv'
    BY <1>3 DEF LockInv, TypeOK, Locked, Working, Ended, Load
  <2>3. SigInv'
    BY <1>3 DEF SigInv, TypeOK, Signed, Locked, Working, Ended, Load
  <2>4. TempInv'
    BY <1>3 DEF TempInv, TypeOK, Signed, Locked, Working, Ended, Load
  <2>5. KnowInv'
    BY <1>3 DEF KnowInv, Certified, TypeOK, Accepted, Signed, Locked, Working, Ended, Load
  <2>6. ZipInv'
    <3>1. \A t \in Sealers : pc[t] \in Finishing => pc'[t] \in Finishing
      BY <1>3 DEF TypeOK, Finishing, Load
    <3>2. \A t \in Sealers : pc[t] \in Finishing /\ Certified(t) => Certified(t)'
      BY <1>3 DEF TypeOK, Finishing, Certified, Load
    <3>3. UNCHANGED <<zips, disturbed>>
      BY <1>3 DEF Load
    <3> QED
      BY <3>1, <3>2, <3>3 DEF ZipInv
  <2>7. ZipFaithful'
    BY <1>3 DEF ZipFaithful, TypeOK, Locked, Working, Ended, Load
  <2> QED
    BY <2>1, <2>2, <2>3, <2>4, <2>5, <2>6, <2>7
<1>4. ASSUME NEW s \in Sealers, Scan(s)
      PROVE  IInv'
  <2>1. TypeOK'
    BY <1>4 DEF TypeOK, Locked, Working, Ended, Scan
  <2>2. LockInv'
    BY <1>4 DEF LockInv, TypeOK, Locked, Working, Ended, Scan
  <2>3. SigInv'
    BY <1>4 DEF SigInv, TypeOK, Signed, Locked, Working, Ended, Scan
  <2>4. TempInv'
    BY <1>4 DEF TempInv, TypeOK, Signed, Locked, Working, Ended, Scan
  <2>5. KnowInv'
    BY <1>4 DEF KnowInv, Certified, TypeOK, Accepted, Signed, Locked, Working, Ended, Scan
  <2>6. ZipInv'
    <3>1. \A t \in Sealers : pc[t] \in Finishing => pc'[t] \in Finishing
      BY <1>4 DEF TypeOK, Finishing, Scan
    <3>2. \A t \in Sealers : pc[t] \in Finishing /\ Certified(t) => Certified(t)'
      BY <1>4 DEF TypeOK, Finishing, Certified, Scan
    <3>3. UNCHANGED <<zips, disturbed>>
      BY <1>4 DEF Scan
    <3> QED
      BY <3>1, <3>2, <3>3 DEF ZipInv
  <2>7. ZipFaithful'
    BY <1>4 DEF ZipFaithful, TypeOK, Locked, Working, Ended, Scan
  <2> QED
    BY <2>1, <2>2, <2>3, <2>4, <2>5, <2>6, <2>7
<1>5. ASSUME NEW s \in Sealers, Diagnose(s)
      PROVE  IInv'
  <2>1. TypeOK'
    BY <1>5 DEF TypeOK, Locked, Working, Ended, Diagnose
  <2>2. LockInv'
    BY <1>5 DEF LockInv, TypeOK, Locked, Working, Ended, Diagnose
  <2>3. SigInv'
    BY <1>5 DEF SigInv, TypeOK, Signed, Locked, Working, Ended, Diagnose
  <2>4. TempInv'
    BY <1>5 DEF TempInv, TypeOK, Signed, Locked, Working, Ended, Diagnose
  <2>5. KnowInv'
    <3>1. pc'[s] = "accepted" /\ s \notin disturbed => Certified(s)
      BY <1>5, AcceptedCertified DEF Diagnose, KnowInv, TypeOK
    <3> QED
      BY <1>5, <3>1 DEF KnowInv, Certified, TypeOK, Accepted, Signed, Diagnose
  <2>6. ZipInv'
    <3>1. \A t \in Sealers : pc[t] \in Finishing => pc'[t] \in Finishing
      BY <1>5 DEF TypeOK, Finishing, Diagnose
    <3>2. \A t \in Sealers : pc[t] \in Finishing /\ Certified(t) => Certified(t)'
      BY <1>5 DEF TypeOK, Finishing, Certified, Diagnose
    <3>3. UNCHANGED <<zips, disturbed>>
      BY <1>5 DEF Diagnose
    <3> QED
      BY <3>1, <3>2, <3>3 DEF ZipInv
  <2>7. ZipFaithful'
    BY <1>5 DEF ZipFaithful, TypeOK, Locked, Working, Ended, Diagnose
  <2> QED
    BY <2>1, <2>2, <2>3, <2>4, <2>5, <2>6, <2>7
<1>6. ASSUME NEW s \in Sealers, ReadSignature(s)
      PROVE  IInv'
  <2>1. TypeOK'
    BY <1>6 DEF TypeOK, Locked, Working, Ended, ReadSignature
  <2>2. LockInv'
    BY <1>6 DEF LockInv, TypeOK, Locked, Working, Ended, ReadSignature
  <2>3. SigInv'
    BY <1>6 DEF SigInv, TypeOK, Signed, Locked, Working, Ended, ReadSignature
  <2>4. TempInv'
    BY <1>6 DEF TempInv, TypeOK, Signed, Locked, Working, Ended, ReadSignature
  <2>5. KnowInv'
    BY <1>6 DEF KnowInv, Certified, TypeOK, Accepted, Signed, Locked, Working, Ended, ReadSignature
  <2>6. ZipInv'
    <3>1. \A t \in Sealers : pc[t] \in Finishing => pc'[t] \in Finishing
      BY <1>6 DEF TypeOK, Finishing, ReadSignature
    <3>2. \A t \in Sealers : pc[t] \in Finishing /\ Certified(t) => Certified(t)'
      BY <1>6 DEF TypeOK, Finishing, Certified, ReadSignature
    <3>3. UNCHANGED <<zips, disturbed>>
      BY <1>6 DEF ReadSignature
    <3> QED
      BY <3>1, <3>2, <3>3 DEF ZipInv
  <2>7. ZipFaithful'
    BY <1>6 DEF ZipFaithful, TypeOK, Locked, Working, Ended, ReadSignature
  <2> QED
    BY <2>1, <2>2, <2>3, <2>4, <2>5, <2>6, <2>7
<1>7. ASSUME NEW s \in Sealers, Sign(s)
      PROVE  IInv'
  <2>1. TypeOK'
    <3>1. SigOf(baseline[s]) \in Sigs /\ NoSig \in Sigs
      BY SigTypes DEF TypeOK
    <3> QED
      BY <1>7, <3>1 DEF TypeOK, Locked, Working, Ended, Sign
  <2>2. LockInv'
    BY <1>7 DEF LockInv, TypeOK, Locked, Working, Ended, Sign
  <2>3. SigInv'
    BY <1>7 DEF SigInv, TypeOK, Signed, Locked, Working, Ended, Sign
  <2>4. TempInv'
    BY <1>7 DEF TempInv, TypeOK, Signed, Locked, Working, Ended, Sign
  <2>5. KnowInv'
    BY <1>7 DEF KnowInv, Certified, TypeOK, Accepted, Signed, Locked, Working, Ended, Sign
  <2>6. ZipInv'
    <3>1. \A t \in Sealers : pc[t] \in Finishing => pc'[t] \in Finishing
      BY <1>7 DEF TypeOK, Finishing, Sign
    <3>2. \A t \in Sealers : pc[t] \in Finishing /\ Certified(t) => Certified(t)'
      BY <1>7 DEF TypeOK, Finishing, Certified, Sign
    <3>3. UNCHANGED <<zips, disturbed>>
      BY <1>7 DEF Sign
    <3> QED
      BY <3>1, <3>2, <3>3 DEF ZipInv
  <2>7. ZipFaithful'
    BY <1>7 DEF ZipFaithful, TypeOK, Locked, Working, Ended, Sign
  <2> QED
    BY <2>1, <2>2, <2>3, <2>4, <2>5, <2>6, <2>7
<1>8. ASSUME NEW s \in Sealers, Pack(s)
      PROVE  IInv'
  <2> DEFINE copied == [p \in Paths |-> IF baseline[s][p] = "none" THEN "none" ELSE payload[p]]
             a == Archive(s, copied, baseline[s], newsig[s])
  <2>a. copied \in Payload
    BY DEF TypeOK, Payload, Bytes
  <2>b. a \in Archives
    BY <2>a, ArchiveParts DEF TypeOK
  <2>c. /\ pc[s] = "signed" /\ UNCHANGED <<baseline, seen, oldsig, newsig, directory, zips, history>>
        /\ \/ Target[s] = NoZip /\ To(s, "packed") /\ UNCHANGED tempzip
           \/ /\ Target[s] # NoZip /\ To(s, IF copied = baseline[s] THEN "packed" ELSE "failing")
              /\ tempzip' = [tempzip EXCEPT ![s] = a]
    BY <1>8 DEF Pack
  <2> HIDE DEF copied, a
  <2>1. TypeOK'
    BY <2>b, <2>c DEF TypeOK, Locked, Working, Ended
  <2>2. LockInv'
    BY <2>c DEF LockInv, TypeOK, Locked, Working, Ended
  <2>3. SigInv'
    BY <2>c DEF SigInv, TypeOK, Signed, Locked, Working, Ended
  <2>4. TempInv'
    <3>1. copied = baseline[s] => a = Archive(s, baseline[s], baseline[s], newsig[s])
      BY DEF a
    <3> QED
      BY <2>c, <3>1 DEF TempInv, TypeOK, Signed
  <2>5. KnowInv'
    BY <2>c DEF KnowInv, Certified, TypeOK, Accepted, Signed, Locked, Working, Ended
  <2>6. ZipInv'
    <3>1. \A t \in Sealers : pc[t] \in Finishing => pc'[t] \in Finishing
      BY <2>c DEF TypeOK, Finishing
    <3>2. \A t \in Sealers : Certified(t) => Certified(t)'
      BY <2>c DEF Certified
    <3>3. UNCHANGED <<zips, disturbed>>
      BY <2>c
    <3> QED
      BY <3>1, <3>2, <3>3 DEF ZipInv
  <2>7. ZipFaithful'
    BY <2>c DEF ZipFaithful, TypeOK, Locked, Working, Ended
  <2> QED
    BY <2>1, <2>2, <2>3, <2>4, <2>5, <2>6, <2>7
<1>9. ASSUME NEW s \in Sealers, Verify(s)
      PROVE  IInv'
  <2>1. TypeOK'
    BY <1>9 DEF TypeOK, Locked, Working, Ended, Verify
  <2>2. LockInv'
    BY <1>9 DEF LockInv, TypeOK, Locked, Working, Ended, Verify
  <2>3. SigInv'
    BY <1>9 DEF SigInv, TypeOK, Signed, Locked, Working, Ended, Verify
  <2>4. TempInv'
    BY <1>9 DEF TempInv, TypeOK, Signed, Locked, Working, Ended, Verify
  <2>5. KnowInv'
    BY <1>9 DEF KnowInv, Certified, TypeOK, Accepted, Signed, Locked, Working, Ended, Verify
  <2>6. ZipInv'
    <3>1. \A t \in Sealers : pc[t] \in Finishing => pc'[t] \in Finishing
      BY <1>9 DEF TypeOK, Finishing, Verify
    <3>2. \A t \in Sealers : pc[t] \in Finishing /\ Certified(t) => Certified(t)'
      BY <1>9 DEF TypeOK, Finishing, Certified, Verify
    <3>3. UNCHANGED <<zips, disturbed>>
      BY <1>9 DEF Verify
    <3> QED
      BY <3>1, <3>2, <3>3 DEF ZipInv
  <2>7. ZipFaithful'
    BY <1>9 DEF ZipFaithful, TypeOK, Locked, Working, Ended, Verify
  <2> QED
    BY <2>1, <2>2, <2>3, <2>4, <2>5, <2>6, <2>7
<1>10. ASSUME NEW s \in Sealers, CheckSourceControls(s)
      PROVE  IInv'
  <2>1. TypeOK'
    BY <1>10 DEF TypeOK, Locked, Working, Ended, CheckSourceControls
  <2>2. LockInv'
    BY <1>10 DEF LockInv, TypeOK, Locked, Working, Ended, CheckSourceControls
  <2>3. SigInv'
    BY <1>10 DEF SigInv, TypeOK, Signed, Locked, Working, Ended, CheckSourceControls
  <2>4. TempInv'
    BY <1>10 DEF TempInv, TypeOK, Signed, Locked, Working, Ended, CheckSourceControls
  <2>5. KnowInv'
    BY <1>10 DEF KnowInv, Certified, TypeOK, Accepted, Signed, Locked, Working, Ended, CheckSourceControls
  <2>6. ZipInv'
    <3>1. \A t \in Sealers : pc[t] \in Finishing => pc'[t] \in Finishing
      BY <1>10 DEF TypeOK, Finishing, CheckSourceControls
    <3>2. \A t \in Sealers : pc[t] \in Finishing /\ Certified(t) => Certified(t)'
      BY <1>10 DEF TypeOK, Finishing, Certified, CheckSourceControls
    <3>3. UNCHANGED <<zips, disturbed>>
      BY <1>10 DEF CheckSourceControls
    <3> QED
      BY <3>1, <3>2, <3>3 DEF ZipInv
  <2>7. ZipFaithful'
    BY <1>10 DEF ZipFaithful, TypeOK, Locked, Working, Ended, CheckSourceControls
  <2> QED
    BY <2>1, <2>2, <2>3, <2>4, <2>5, <2>6, <2>7
<1>11. ASSUME NEW s \in Sealers, PublishSignature(s)
      PROVE  IInv'
  <2>1. TypeOK'
    BY <1>11 DEF TypeOK, Locked, Working, Ended, PublishSignature
  <2>2. LockInv'
    BY <1>11 DEF LockInv, TypeOK, Locked, Working, Ended, PublishSignature
  <2>3. SigInv'
    BY <1>11 DEF SigInv, TypeOK, Signed, Locked, Working, Ended, PublishSignature
  <2>4. TempInv'
    BY <1>11 DEF TempInv, TypeOK, Signed, Locked, Working, Ended, PublishSignature
  <2>5. KnowInv'
    BY <1>11 DEF KnowInv, Certified, TypeOK, Accepted, Signed, Locked, Working, Ended, PublishSignature
  <2>6. ZipInv'
    <3>1. \A t \in Sealers : pc[t] \in Finishing => pc'[t] \in Finishing
      BY <1>11 DEF TypeOK, Finishing, PublishSignature
    <3>2. \A t \in Sealers : pc[t] \in Finishing /\ Certified(t) => Certified(t)'
      BY <1>11 DEF TypeOK, Finishing, Certified, PublishSignature
    <3>3. UNCHANGED <<zips, disturbed>>
      BY <1>11 DEF PublishSignature
    <3> QED
      BY <3>1, <3>2, <3>3 DEF ZipInv
  <2>7. ZipFaithful'
    BY <1>11 DEF ZipFaithful, TypeOK, Locked, Working, Ended, PublishSignature
  <2> QED
    BY <2>1, <2>2, <2>3, <2>4, <2>5, <2>6, <2>7
<1>12. ASSUME NEW s \in Sealers, PublishZip(s)
      PROVE  IInv'
  <2>a. Target[s] # NoZip => Target[s] \in Zips
    OBVIOUS
  <2>b. Target[s] # NoZip =>
          /\ tempzip[s].kind = "archive" /\ tempzip[s].by = s
          /\ tempzip[s].files = tempzip[s].sums /\ tempzip[s].sig \in {NoSig, SigOf(tempzip[s].sums)}
          /\ tempzip[s] \in Archives
    <3>1. Target[s] # NoZip => tempzip[s] = Archive(s, baseline[s], baseline[s], newsig[s])
      BY <1>12 DEF PublishZip, TempInv, Signed
    <3>2. newsig[s] \in {NoSig, SigOf(baseline[s])}
      BY <1>12 DEF PublishZip, SigInv, Signed
    <3> QED
      BY <3>1, <3>2, ArchiveParts DEF TypeOK
  <2>1. TypeOK'
    BY <1>12, <2>a, <2>b DEF TypeOK, Locked, Working, Ended, PublishZip
  <2>2. LockInv'
    BY <1>12 DEF LockInv, TypeOK, Locked, Working, Ended, PublishZip
  <2>3. SigInv'
    BY <1>12 DEF SigInv, TypeOK, Signed, Locked, Working, Ended, PublishZip
  <2>4. TempInv'
    BY <1>12 DEF TempInv, TypeOK, Signed, Locked, Working, Ended, PublishZip
  <2>5. KnowInv'
    BY <1>12 DEF KnowInv, Certified, TypeOK, Accepted, Signed, Locked, Working, Ended, PublishZip
  <2>6. ZipInv'
    <3>1. \A t \in Sealers : pc[t] \in Finishing => pc'[t] \in Finishing
      BY <1>12 DEF TypeOK, Finishing, PublishZip
    <3>2. \A t \in Sealers : Certified(t) => Certified(t)'
      BY <1>12 DEF Certified, PublishZip
    <3>3. s \notin disturbed => Certified(s)
      BY <1>12 DEF KnowInv, Accepted, Signed, PublishZip
    <3>4. disturbed' = disturbed
      BY <1>12 DEF PublishZip
    <3>5. CASE zips' = zips
      BY <3>1, <3>2, <3>4, <3>5 DEF ZipInv
    <3>6. CASE /\ Target[s] # NoZip /\ pc' = [pc EXCEPT ![s] = "published"]
               /\ zips' = [zips EXCEPT ![Target[s]] = tempzip[s]]
      <4>1. pc'[s] \in Finishing
        BY <3>6 DEF TypeOK, Finishing
      <4> SUFFICES ASSUME NEW z \in Zips, NEW t \in Sealers, zips'[z].kind = "archive", zips'[z].by = t
                   PROVE  pc'[t] \in Finishing /\ (t \notin disturbed' => Certified(t)')
        BY DEF ZipInv
      <4>2. CASE z = Target[s]
        <5>1. t = s
          BY <2>b, <3>6, <4>2 DEF TypeOK
        <5> QED
          BY <5>1, <4>1, <3>2, <3>3, <3>4
      <4>3. CASE z # Target[s]
        <5>1. zips'[z] = zips[z]
          BY <3>6, <4>3 DEF TypeOK
        <5> QED
          BY <5>1, <3>1, <3>2, <3>4 DEF ZipInv
      <4> QED
        BY <4>2, <4>3
    <3> QED
      BY <1>12, <3>5, <3>6 DEF PublishZip
  <2>7. ZipFaithful'
    BY <1>12, <2>a, <2>b DEF ZipFaithful, TypeOK, PublishZip
  <2> QED
    BY <2>1, <2>2, <2>3, <2>4, <2>5, <2>6, <2>7
<1>13. ASSUME NEW s \in Sealers, Return(s)
      PROVE  IInv'
  <2>1. TypeOK'
    BY <1>13 DEF TypeOK, Locked, Working, Ended, Return
  <2>2. LockInv'
    BY <1>13 DEF LockInv, TypeOK, Locked, Working, Ended, Return
  <2>3. SigInv'
    BY <1>13 DEF SigInv, TypeOK, Signed, Locked, Working, Ended, Return
  <2>4. TempInv'
    BY <1>13 DEF TempInv, TypeOK, Signed, Locked, Working, Ended, Return
  <2>5. KnowInv'
    BY <1>13 DEF KnowInv, Certified, TypeOK, Accepted, Signed, Locked, Working, Ended, Return
  <2>6. ZipInv'
    <3>1. \A t \in Sealers : pc[t] \in Finishing => pc'[t] \in Finishing
      BY <1>13 DEF TypeOK, Finishing, Return
    <3>2. \A t \in Sealers : pc[t] \in Finishing /\ Certified(t) => Certified(t)'
      BY <1>13 DEF TypeOK, Finishing, Certified, Return
    <3>3. UNCHANGED <<zips, disturbed>>
      BY <1>13 DEF Return
    <3> QED
      BY <3>1, <3>2, <3>3 DEF ZipInv
  <2>7. ZipFaithful'
    BY <1>13 DEF ZipFaithful, TypeOK, Locked, Working, Ended, Return
  <2> QED
    BY <2>1, <2>2, <2>3, <2>4, <2>5, <2>6, <2>7
<1>14. ASSUME NEW s \in Sealers, Raise(s)
      PROVE  IInv'
  <2>1. TypeOK'
    BY <1>14 DEF TypeOK, Locked, Working, Ended, Raise
  <2>2. LockInv'
    BY <1>14 DEF LockInv, TypeOK, Locked, Working, Ended, Raise
  <2>3. SigInv'
    BY <1>14 DEF SigInv, TypeOK, Signed, Locked, Working, Ended, Raise
  <2>4. TempInv'
    BY <1>14 DEF TempInv, TypeOK, Signed, Locked, Working, Ended, Raise
  <2>5. KnowInv'
    BY <1>14 DEF KnowInv, Certified, TypeOK, Accepted, Signed, Locked, Working, Ended, Raise
  <2>6. ZipInv'
    <3>1. \A t \in Sealers : pc[t] \in Finishing => pc'[t] \in Finishing
      BY <1>14 DEF TypeOK, Finishing, Working, Raise
    <3>2. \A t \in Sealers : pc[t] \in Finishing /\ Certified(t) => Certified(t)'
      BY <1>14 DEF TypeOK, Finishing, Certified, Raise
    <3>3. UNCHANGED <<zips, disturbed>>
      BY <1>14 DEF Raise
    <3> QED
      BY <3>1, <3>2, <3>3 DEF ZipInv
  <2>7. ZipFaithful'
    BY <1>14 DEF ZipFaithful, TypeOK, Locked, Working, Ended, Raise
  <2> QED
    BY <2>1, <2>2, <2>3, <2>4, <2>5, <2>6, <2>7
<1>15. ASSUME NEW s \in Sealers, Crash(s)
      PROVE  IInv'
  <2>1. TypeOK'
    BY <1>15 DEF TypeOK, Locked, Working, Ended, Crash
  <2>2. LockInv'
    BY <1>15 DEF LockInv, TypeOK, Locked, Working, Ended, Crash
  <2>3. SigInv'
    BY <1>15 DEF SigInv, TypeOK, Signed, Locked, Working, Ended, Crash
  <2>4. TempInv'
    BY <1>15 DEF TempInv, TypeOK, Signed, Locked, Working, Ended, Crash
  <2>5. KnowInv'
    BY <1>15 DEF KnowInv, Certified, TypeOK, Accepted, Signed, Locked, Working, Ended, Crash
  <2>6. ZipInv'
    <3>1. \A t \in Sealers : pc[t] \in Finishing => pc'[t] \in Finishing
      BY <1>15 DEF TypeOK, Finishing, Locked, Working, Crash
    <3>2. \A t \in Sealers : pc[t] \in Finishing /\ Certified(t) => Certified(t)'
      BY <1>15 DEF TypeOK, Finishing, Certified, Crash
    <3>3. UNCHANGED <<zips, disturbed>>
      BY <1>15 DEF Crash
    <3> QED
      BY <3>1, <3>2, <3>3 DEF ZipInv
  <2>7. ZipFaithful'
    BY <1>15 DEF ZipFaithful, TypeOK, Locked, Working, Ended, Crash
  <2> QED
    BY <2>1, <2>2, <2>3, <2>4, <2>5, <2>6, <2>7
<1>16. ASSUME ForeignDirectory
      PROVE  IInv'
  <2>1. TypeOK'
    <3>1. Sums(payload) \in SumsFiles /\ Malformed \in SumsFiles /\ NoSig \in Sigs /\ AlienSig \in Sigs
      BY DEF TypeOK, SumsFiles, Sigs
    <3>2. \A p \in Paths, b \in Bytes : [payload EXCEPT ![p] = b] \in Payload
      BY DEF TypeOK, Payload
    <3>3. payload' \in Payload /\ sums' \in SumsFiles /\ sig' \in Sigs
      BY <1>16, <3>1, <3>2 DEF TypeOK, ForeignDirectory
    <3>4. edits' \in 0 .. MaxForeign /\ disturbed' \subseteq Sealers
      BY <1>16 DEF TypeOK, ForeignDirectory
    <3> QED
      BY <1>16, <3>3, <3>4 DEF TypeOK, ForeignDirectory
  <2>2. LockInv'
    BY <1>16 DEF LockInv, TypeOK, Locked, Working, Ended, ForeignDirectory
  <2>3. SigInv'
    BY <1>16 DEF SigInv, TypeOK, Signed, Locked, Working, Ended, ForeignDirectory
  <2>4. TempInv'
    BY <1>16 DEF TempInv, TypeOK, Signed, Locked, Working, Ended, ForeignDirectory
  <2>5. KnowInv'
    BY <1>16 DEF KnowInv, Certified, TypeOK, Accepted, Signed, Locked, Working, Ended, ForeignDirectory
  <2>6. ZipInv'
    BY <1>16 DEF ZipInv, Certified, TypeOK, Finishing, Locked, Working, Ended, ForeignDirectory
  <2>7. ZipFaithful'
    BY <1>16 DEF ZipFaithful, TypeOK, Locked, Working, Ended, ForeignDirectory
  <2> QED
    BY <2>1, <2>2, <2>3, <2>4, <2>5, <2>6, <2>7
<1>17. ASSUME ForeignZip
      PROVE  IInv'
  <2>1. TypeOK'
    BY <1>17 DEF TypeOK, Locked, Working, Ended, ForeignZip
  <2>2. LockInv'
    BY <1>17 DEF LockInv, TypeOK, Locked, Working, Ended, ForeignZip
  <2>3. SigInv'
    BY <1>17 DEF SigInv, TypeOK, Signed, Locked, Working, Ended, ForeignZip
  <2>4. TempInv'
    BY <1>17 DEF TempInv, TypeOK, Signed, Locked, Working, Ended, ForeignZip
  <2>5. KnowInv'
    BY <1>17 DEF KnowInv, Certified, TypeOK, Accepted, Signed, Locked, Working, Ended, ForeignZip
  <2>6. ZipInv'
    BY <1>17, FileKinds DEF ZipInv, Certified, TypeOK, ForeignZip
  <2>7. ZipFaithful'
    BY <1>17, FileKinds DEF ZipFaithful, TypeOK, ForeignZip
  <2> QED
    BY <2>1, <2>2, <2>3, <2>4, <2>5, <2>6, <2>7
<1>18. ASSUME UNCHANGED vars
      PROVE  IInv'
  <2>1. TypeOK'
    BY <1>18 DEF TypeOK, Locked, Working, Ended, vars
  <2>2. LockInv'
    BY <1>18 DEF LockInv, TypeOK, Locked, Working, Ended, vars
  <2>3. SigInv'
    BY <1>18 DEF SigInv, TypeOK, Signed, Locked, Working, Ended, vars
  <2>4. TempInv'
    BY <1>18 DEF TempInv, TypeOK, Signed, Locked, Working, Ended, vars
  <2>5. KnowInv'
    BY <1>18 DEF KnowInv, Certified, TypeOK, Accepted, Signed, Locked, Working, Ended, vars
  <2>6. ZipInv'
    BY <1>18 DEF ZipInv, Certified, TypeOK, Finishing, Locked, Working, Ended, vars
  <2>7. ZipFaithful'
    BY <1>18 DEF ZipFaithful, TypeOK, Locked, Working, Ended, vars
  <2> QED
    BY <2>1, <2>2, <2>3, <2>4, <2>5, <2>6, <2>7
<1> QED
  BY <1>1, <1>2, <1>3, <1>4, <1>5, <1>6, <1>7, <1>8, <1>9, <1>10, <1>11, <1>12, <1>13, <1>14, <1>15, <1>16, <1>17, <1>18 DEF Next, Step

LEMMA SpecInv == Spec => []IInv
  BY InitInv, StepInv, PTL DEF Spec

----------------------------------------------------------------------------
(* The theorems of the safety invariant. *)

\* The variables keep their types, with any number of sealers and any edits.
THEOREM TypeCorrect == Spec => []TypeOK
<1>1. IInv => TypeOK
  BY DEF IInv
<1> QED
  BY <1>1, SpecInv, PTL

\* An archive under a ZIP name (seal_and_package, publish_file_no_replace) holds
\* what its own baseline inventories, whoever edited the directory meanwhile.
THEOREM Faithful == Spec => []ZipFaithful
<1>1. IInv => ZipFaithful
  BY DEF IInv
<1> QED
  BY <1>1, SpecInv, PTL

\* A sealer that got past seal_export's decision on an undisturbed directory,
\* and every archive it leaves, covers what the decision asked for.
THEOREM Certification == Spec => []SealCertifies
<1>1. IInv => SealCertifies
  BY DEF IInv, KnowInv, ZipInv, SealCertifies, Accepted, Signed
<1> QED
  BY <1>1, SpecInv, PTL

\* The finally clause of seal_and_package leaves no temporary archive.
THEOREM Tidiness == Spec => []NoLeftovers
<1>1. IInv => NoLeftovers
  BY DEF IInv, TempInv, NoLeftovers
<1> QED
  BY <1>1, SpecInv, PTL

\* No step of a sealer changes the payload or the baseline, replaces a signature
\* or replaces what a ZIP name names.
THEOREM Preservation == Spec => NeverReplaces
<1> DEFINE Kept ==
      /\ UNCHANGED <<payload, sums>>
      /\ sig # NoSig => UNCHANGED sig
      /\ \A z \in Zips : zips[z] # NoFile => zips'[z] = zips[z]
<1>1. IInv /\ [Next]_vars => (edits' = edits => Kept)
  <2> SUFFICES ASSUME IInv, [Next]_vars, edits' = edits PROVE Kept
    OBVIOUS
  <2> USE SealAssumption DEF local, directory, history, To, Goto
  <2>1. ASSUME NEW s \in Sealers, PublishSignature(s) PROVE Kept
    BY <2>1 DEF PublishSignature
  <2>2. ASSUME NEW s \in Sealers, PublishZip(s) PROVE Kept
    BY <2>2 DEF PublishZip, IInv, TypeOK
  <2>3. ASSUME NEW s \in Sealers,
               \/ Precheck(s) \/ Lock(s) \/ Load(s) \/ Scan(s) \/ Diagnose(s)
               \/ ReadSignature(s) \/ Sign(s)
        PROVE Kept
    BY <2>3 DEF Precheck, Lock, Load, Scan, Diagnose, ReadSignature, Sign
  <2>4. ASSUME NEW s \in Sealers,
               \/ Pack(s) \/ Verify(s) \/ CheckSourceControls(s) \/ Return(s)
               \/ Raise(s) \/ Crash(s)
        PROVE Kept
    BY <2>4 DEF Pack, Verify, CheckSourceControls, Return, Raise, Crash
  <2>5. ~ForeignDirectory /\ ~ForeignZip
    BY DEF ForeignDirectory, ForeignZip, IInv, TypeOK
  <2>6. CASE UNCHANGED vars
    BY <2>6 DEF vars
  <2> QED
    BY <2>1, <2>2, <2>3, <2>4, <2>5, <2>6 DEF Next, Step
<1>2. (edits' = edits => Kept) => [edits' = edits => Kept]_vars
  OBVIOUS
<1> QED
  BY <1>1, SpecInv, PTL DEF Spec, NeverReplaces

----------------------------------------------------------------------------
(* The invariant of a directory that nobody edits. *)

\* In a directory that was closed complete nothing is missing.
LEMMA QuietNames ==
  ASSUME payload \in [Paths -> {"sound", "weak"}]
  PROVE  /\ Names(payload) = Paths /\ payload # Nothing
         /\ Metadata \subseteq Names(payload) /\ Evidence \subseteq Names(payload)
         /\ Weak(payload) \subseteq Paths
         /\ [p \in Paths |-> IF payload[p] = "none" THEN "none" ELSE payload[p]] = payload
  <1>1. Names(payload) = Paths
    BY DEF Names
  <1>2. PICK m \in Metadata : m \in Paths
    BY SealAssumption DEF Paths
  <1>3. payload[m] # Nothing[m]
    BY <1>2 DEF Nothing
  <1>4. payload # Nothing
    BY <1>3
  <1>5. [p \in Paths |-> IF payload[p] = "none" THEN "none" ELSE payload[p]] = payload
    OBVIOUS
  <1> QED
    BY <1>1, <1>4, <1>5 DEF Paths, Weak

\* What seal_export rejects in it is weak metadata, or weak evidence in strict mode.
LEMMA QuietRejected ==
  ASSUME NEW s \in Sealers, payload \in [Paths -> {"sound", "weak"}], baseline[s] = payload,
         Rejected(s, payload, Weak(payload) \cap Names(payload))
  PROVE  Weak(payload) \cap (IF s \in Strict THEN Paths ELSE Metadata) # {}
  <1>1. \/ Weak(payload) \cap Names(payload) \cap Metadata # {}
        \/ s \in Strict /\ Weak(payload) \cap Names(payload) \cap Evidence # {}
    BY QuietNames DEF Rejected
  <1> QED
    BY <1>1 DEF Paths

LEMMA InitQuiet == Init => Quiet
<1> SUFFICES ASSUME Init PROVE Quiet
  OBVIOUS
<1> USE SealAssumption DEF Init
<1>1. DirectoryQuiet
  BY DEF DirectoryQuiet, Loaded, Accepted, Signed, Looked
<1>2. SignatureQuiet /\ ZipQuiet /\ FailureQuiet
  BY DEF SignatureQuiet, ZipQuiet, FailureQuiet, Signed, Certain
<1> QED
  BY <1>1, <1>2 DEF Quiet

\* Every step preserves it, or is an edit.
LEMMA StepQuiet == IInv /\ Quiet /\ [Next]_vars => Quiet'
<1> SUFFICES ASSUME IInv, Quiet, [Next]_vars, edits' = 0 PROVE (DirectoryQuiet /\ SignatureQuiet /\ ZipQuiet /\ FailureQuiet)'
  BY DEF Quiet
<1> USE SealAssumption DEF IInv, To, Goto, local, directory, history
<1>a. ~ForeignDirectory /\ ~ForeignZip
  BY DEF ForeignDirectory, ForeignZip, TypeOK
<1>b. edits = 0
  <2>1. ASSUME NEW s \in Sealers, Step(s) \/ Raise(s) \/ Crash(s)
        PROVE  edits' = edits
    BY <2>1 DEF Step, Precheck, Lock, Load, Scan, Diagnose, ReadSignature, Sign, Pack, Verify,
             CheckSourceControls, PublishSignature, PublishZip, Return, Raise, Crash
  <2> QED
    BY <1>a, <2>1 DEF Next, vars
<1>c. DirectoryQuiet /\ SignatureQuiet /\ ZipQuiet /\ FailureQuiet
  BY <1>b DEF Quiet
<1> USE <1>c
<1>1. ASSUME NEW s \in Sealers, Precheck(s)
      PROVE  (DirectoryQuiet /\ SignatureQuiet /\ ZipQuiet /\ FailureQuiet)'
  <2>1. DirectoryQuiet'
    BY <1>1 DEF DirectoryQuiet, Loaded, Looked, Accepted, Signed, TypeOK, Precheck
  <2>2. SignatureQuiet'
    BY <1>1 DEF SignatureQuiet, Signed, Certain, TypeOK, Precheck
  <2>3. ZipQuiet'
    BY <1>1 DEF ZipQuiet, TypeOK, Precheck
  <2>4. FailureQuiet'
    BY <1>1 DEF FailureQuiet, TypeOK, Precheck
  <2> QED
    BY <2>1, <2>2, <2>3, <2>4
<1>2. ASSUME NEW s \in Sealers, Lock(s)
      PROVE  (DirectoryQuiet /\ SignatureQuiet /\ ZipQuiet /\ FailureQuiet)'
  <2>1. DirectoryQuiet'
    BY <1>2 DEF DirectoryQuiet, Loaded, Looked, Accepted, Signed, TypeOK, Lock
  <2>2. SignatureQuiet'
    BY <1>2 DEF SignatureQuiet, Signed, Certain, TypeOK, Lock
  <2>3. ZipQuiet'
    BY <1>2 DEF ZipQuiet, TypeOK, Lock
  <2>4. FailureQuiet'
    BY <1>2 DEF FailureQuiet, TypeOK, Lock
  <2> QED
    BY <2>1, <2>2, <2>3, <2>4
<1>3. ASSUME NEW s \in Sealers, Load(s)
      PROVE  (DirectoryQuiet /\ SignatureQuiet /\ ZipQuiet /\ FailureQuiet)'
  <2>a. sums.valid /\ sums.of = payload /\ sums # Sums(Nothing)
    BY SumsExact, QuietNames DEF DirectoryQuiet
  <2>b. pc[s] = "locked" /\ To(s, "loaded") /\ baseline' = [baseline EXCEPT ![s] = payload]
    BY <1>3, <2>a DEF Load
  <2>1. DirectoryQuiet'
    BY <1>3, <2>b DEF DirectoryQuiet, Loaded, Looked, Accepted, Signed, TypeOK, Load
  <2>2. SignatureQuiet'
    BY <1>3 DEF SignatureQuiet, Signed, Certain, TypeOK, Load
  <2>3. ZipQuiet'
    BY <1>3 DEF ZipQuiet, TypeOK, Load
  <2>4. FailureQuiet'
    BY <1>3, <2>b DEF FailureQuiet, TypeOK, Load
  <2> QED
    BY <2>1, <2>2, <2>3, <2>4
<1>4. ASSUME NEW s \in Sealers, Scan(s)
      PROVE  (DirectoryQuiet /\ SignatureQuiet /\ ZipQuiet /\ FailureQuiet)'
  <2>1. DirectoryQuiet'
    BY <1>4 DEF DirectoryQuiet, Loaded, Looked, Accepted, Signed, TypeOK, Scan
  <2>2. SignatureQuiet'
    BY <1>4 DEF SignatureQuiet, Signed, Certain, TypeOK, Scan
  <2>3. ZipQuiet'
    BY <1>4 DEF ZipQuiet, TypeOK, Scan
  <2>4. FailureQuiet'
    BY <1>4 DEF FailureQuiet, TypeOK, Scan
  <2> QED
    BY <2>1, <2>2, <2>3, <2>4
<1>5. ASSUME NEW s \in Sealers, Diagnose(s)
      PROVE  (DirectoryQuiet /\ SignatureQuiet /\ ZipQuiet /\ FailureQuiet)'
  <2>1. DirectoryQuiet'
    BY <1>5 DEF DirectoryQuiet, Loaded, Looked, Accepted, Signed, TypeOK, Diagnose
  <2>2. SignatureQuiet'
    BY <1>5 DEF SignatureQuiet, Signed, Certain, TypeOK, Diagnose
  <2>3. ZipQuiet'
    BY <1>5 DEF ZipQuiet, TypeOK, Diagnose
  <2>4. FailureQuiet'
    <3>1. seen[s] = payload
      BY <1>5 DEF DirectoryQuiet, Diagnose
    <3>2. baseline[s] = payload
      BY <1>5 DEF DirectoryQuiet, Loaded, Diagnose
    <3>3. pc'[s] = "failing" => Weak(payload) \cap (IF s \in Strict THEN Paths ELSE Metadata) # {}
      BY <1>5, <3>1, <3>2, QuietNames, QuietRejected DEF DirectoryQuiet, Diagnose, TypeOK
    <3> QED
      BY <1>5, <3>3 DEF FailureQuiet, TypeOK, Diagnose
  <2> QED
    BY <2>1, <2>2, <2>3, <2>4
<1>6. ASSUME NEW s \in Sealers, ReadSignature(s)
      PROVE  (DirectoryQuiet /\ SignatureQuiet /\ ZipQuiet /\ FailureQuiet)'
  <2>1. DirectoryQuiet'
    BY <1>6 DEF DirectoryQuiet, Loaded, Looked, Accepted, Signed, TypeOK, ReadSignature
  <2>2. SignatureQuiet'
    BY <1>6 DEF SignatureQuiet, Signed, Certain, TypeOK, ReadSignature
  <2>3. ZipQuiet'
    BY <1>6 DEF ZipQuiet, TypeOK, ReadSignature
  <2>4. FailureQuiet'
    BY <1>6 DEF FailureQuiet, TypeOK, ReadSignature
  <2> QED
    BY <2>1, <2>2, <2>3, <2>4
<1>7. ASSUME NEW s \in Sealers, Sign(s)
      PROVE  (DirectoryQuiet /\ SignatureQuiet /\ ZipQuiet /\ FailureQuiet)'
  <2>a. pc[s] = "sigread" /\ baseline[s] = payload /\ oldsig[s] \in {NoSig, SigOf(payload)}
    BY <1>7 DEF DirectoryQuiet, Loaded, Looked, Accepted, Sign
  <2>b. To(s, "signed") /\ (s \in Signing => newsig'[s] = SigOf(payload))
    BY <1>7, <2>a, SumsExact DEF Sign, TypeOK
  <2>1. DirectoryQuiet'
    BY <1>7 DEF DirectoryQuiet, Loaded, Looked, Accepted, Signed, TypeOK, Sign
  <2>2. SignatureQuiet'
    <3>1. \A t \in Sealers \ {s} : newsig'[t] = newsig[t]
      BY <1>7 DEF Sign, TypeOK
    <3> QED
      BY <1>7, <2>b, <3>1 DEF SignatureQuiet, Signed, Certain, TypeOK, Sign
  <2>3. ZipQuiet'
    BY <1>7 DEF ZipQuiet, TypeOK, Sign
  <2>4. FailureQuiet'
    BY <1>7, <2>b DEF FailureQuiet, TypeOK, Sign
  <2> QED
    BY <2>1, <2>2, <2>3, <2>4
<1>8. ASSUME NEW s \in Sealers, Pack(s)
      PROVE  (DirectoryQuiet /\ SignatureQuiet /\ ZipQuiet /\ FailureQuiet)'
  <2>1. DirectoryQuiet'
    BY <1>8 DEF DirectoryQuiet, Loaded, Looked, Accepted, Signed, TypeOK, Pack
  <2>2. SignatureQuiet'
    BY <1>8 DEF SignatureQuiet, Signed, Certain, TypeOK, Pack
  <2>3. ZipQuiet'
    BY <1>8 DEF ZipQuiet, TypeOK, Pack
  <2>4. FailureQuiet'
    <3>1. baseline[s] = payload
      BY <1>8 DEF DirectoryQuiet, Loaded, Accepted, Signed, Pack
    <3>2. To(s, "packed")
      BY <1>8, <3>1, QuietNames DEF DirectoryQuiet, Pack
    <3> QED
      BY <1>8, <3>2 DEF FailureQuiet, TypeOK, Pack
  <2> QED
    BY <2>1, <2>2, <2>3, <2>4
<1>9. ASSUME NEW s \in Sealers, Verify(s)
      PROVE  (DirectoryQuiet /\ SignatureQuiet /\ ZipQuiet /\ FailureQuiet)'
  <2>1. DirectoryQuiet'
    BY <1>9 DEF DirectoryQuiet, Loaded, Looked, Accepted, Signed, TypeOK, Verify
  <2>2. SignatureQuiet'
    BY <1>9 DEF SignatureQuiet, Signed, Certain, TypeOK, Verify
  <2>3. ZipQuiet'
    BY <1>9 DEF ZipQuiet, TypeOK, Verify
  <2>4. FailureQuiet'
    <3>1. baseline[s] = payload
      BY <1>9 DEF DirectoryQuiet, Loaded, Accepted, Signed, Verify
    <3> QED
      BY <1>9, <3>1 DEF FailureQuiet, TypeOK, Verify
  <2> QED
    BY <2>1, <2>2, <2>3, <2>4
<1>10. ASSUME NEW s \in Sealers, CheckSourceControls(s)
      PROVE  (DirectoryQuiet /\ SignatureQuiet /\ ZipQuiet /\ FailureQuiet)'
  <2>1. DirectoryQuiet'
    BY <1>10 DEF DirectoryQuiet, Loaded, Looked, Accepted, Signed, TypeOK, CheckSourceControls
  <2>2. SignatureQuiet'
    BY <1>10 DEF SignatureQuiet, Signed, Certain, TypeOK, CheckSourceControls
  <2>3. ZipQuiet'
    BY <1>10 DEF ZipQuiet, TypeOK, CheckSourceControls
  <2>4. FailureQuiet'
    <3>1. sums = Sums(baseline[s]) /\ sig = oldsig[s]
      BY <1>10 DEF DirectoryQuiet, Loaded, Looked, Accepted, Signed, CheckSourceControls
    <3> QED
      BY <1>10, <3>1 DEF FailureQuiet, TypeOK, CheckSourceControls
  <2> QED
    BY <2>1, <2>2, <2>3, <2>4
<1>11. ASSUME NEW s \in Sealers, PublishSignature(s)
      PROVE  (DirectoryQuiet /\ SignatureQuiet /\ ZipQuiet /\ FailureQuiet)'
  <2>a. pc[s] = "checked" /\ baseline[s] = payload /\ oldsig[s] = sig
    BY <1>11 DEF DirectoryQuiet, Loaded, Looked, Accepted, Signed, PublishSignature
  <2>b. newsig[s] \in {NoSig, SigOf(payload)} /\ (s \in Signing => newsig[s] = SigOf(payload))
    BY <2>a DEF SigInv, SignatureQuiet, Signed
  <2>c. /\ To(s, "sigdone")
        /\ sig' = sig \/ (sig = NoSig /\ sig' = newsig[s])
        /\ s \in Signing => sig' = SigOf(payload)
    BY <1>11, <2>a, <2>b, SumsExact DEF PublishSignature, DirectoryQuiet
  <2>d. \A t \in Sealers : t # s => pc[t] \notin Looked /\ pc'[t] \notin Looked
    BY <2>a, <2>c DEF LockInv, Locked, Working, Looked, TypeOK
  <2>e. sig' \in {NoSig, SigOf(payload)} /\ (sig = SigOf(payload) => sig' = SigOf(payload))
    BY <2>b, <2>c, SumsExact DEF DirectoryQuiet
  <2>1. DirectoryQuiet'
    BY <1>11, <2>a, <2>c, <2>d, <2>e DEF DirectoryQuiet, Loaded, Looked, Accepted, Signed, TypeOK, PublishSignature
  <2>2. SignatureQuiet'
    BY <1>11, <2>c, <2>e DEF SignatureQuiet, Signed, Certain, TypeOK, PublishSignature
  <2>3. ZipQuiet'
    BY <1>11 DEF ZipQuiet, TypeOK, PublishSignature
  <2>4. FailureQuiet'
    BY <1>11, <2>c DEF FailureQuiet, TypeOK, PublishSignature
  <2> QED
    BY <2>1, <2>2, <2>3, <2>4
<1>12. ASSUME NEW s \in Sealers, PublishZip(s)
      PROVE  (DirectoryQuiet /\ SignatureQuiet /\ ZipQuiet /\ FailureQuiet)'
  <2>1. DirectoryQuiet'
    BY <1>12 DEF DirectoryQuiet, Loaded, Looked, Accepted, Signed, TypeOK, PublishZip
  <2>2. SignatureQuiet'
    BY <1>12 DEF SignatureQuiet, Signed, Certain, TypeOK, PublishZip
  <2>3. ZipQuiet'
    <3>1. Target[s] # NoZip =>
            Target[s] \in Zips /\ tempzip[s].kind = "archive" /\ tempzip[s].by = s
      <4>1. Target[s] # NoZip => tempzip[s] = Archive(s, baseline[s], baseline[s], newsig[s])
        BY <1>12 DEF PublishZip, TempInv, Signed
      <4> QED
        BY <4>1, ArchiveParts DEF TypeOK
    <3>2. \A z \in Zips : zips[z].kind = "archive" => zips'[z] = zips[z]
      BY <1>12, <3>1, FileKinds DEF PublishZip, TypeOK
    <3>3. \A t \in Sealers : t # s => pc'[t] = pc[t]
      BY <1>12 DEF PublishZip, TypeOK
    <3>4. pc'[s] = "published" /\ Target[s] # NoZip => zips'[Target[s]] = tempzip[s]
      BY <1>12, <3>1 DEF PublishZip, TypeOK
    <3>5. pc'[s] \in {"published", "failing"}
      BY <1>12 DEF PublishZip, TypeOK
    <3> SUFFICES ASSUME NEW t \in Sealers, pc'[t] \in {"published", "done"}, Target[t] # NoZip
                 PROVE  zips'[Target[t]].kind = "archive" /\ zips'[Target[t]].by = t
      BY DEF ZipQuiet
    <3>6. CASE t = s
      BY <3>1, <3>4, <3>5, <3>6
    <3>7. CASE t # s
      BY <3>2, <3>3, <3>7 DEF ZipQuiet
    <3> QED
      BY <3>6, <3>7
  <2>4. FailureQuiet'
    BY <1>12 DEF FailureQuiet, TypeOK, PublishZip
  <2> QED
    BY <2>1, <2>2, <2>3, <2>4
<1>13. ASSUME NEW s \in Sealers, Return(s)
      PROVE  (DirectoryQuiet /\ SignatureQuiet /\ ZipQuiet /\ FailureQuiet)'
  <2>1. DirectoryQuiet'
    BY <1>13 DEF DirectoryQuiet, Loaded, Looked, Accepted, Signed, TypeOK, Return
  <2>2. SignatureQuiet'
    BY <1>13 DEF SignatureQuiet, Signed, Certain, TypeOK, Return
  <2>3. ZipQuiet'
    BY <1>13 DEF ZipQuiet, TypeOK, Return
  <2>4. FailureQuiet'
    BY <1>13 DEF FailureQuiet, TypeOK, Return
  <2> QED
    BY <2>1, <2>2, <2>3, <2>4
<1>14. ASSUME NEW s \in Sealers, Raise(s)
      PROVE  (DirectoryQuiet /\ SignatureQuiet /\ ZipQuiet /\ FailureQuiet)'
  <2>1. DirectoryQuiet'
    BY <1>14 DEF DirectoryQuiet, Loaded, Looked, Accepted, Signed, TypeOK, Raise
  <2>2. SignatureQuiet'
    BY <1>14 DEF SignatureQuiet, Signed, Certain, TypeOK, Raise
  <2>3. ZipQuiet'
    BY <1>14 DEF ZipQuiet, TypeOK, Raise
  <2>4. FailureQuiet'
    BY <1>14 DEF FailureQuiet, TypeOK, Raise
  <2> QED
    BY <2>1, <2>2, <2>3, <2>4
<1>15. ASSUME NEW s \in Sealers, Crash(s)
      PROVE  (DirectoryQuiet /\ SignatureQuiet /\ ZipQuiet /\ FailureQuiet)'
  <2>1. DirectoryQuiet'
    BY <1>15 DEF DirectoryQuiet, Loaded, Looked, Accepted, Signed, TypeOK, Crash
  <2>2. SignatureQuiet'
    BY <1>15 DEF SignatureQuiet, Signed, Certain, TypeOK, Crash
  <2>3. ZipQuiet'
    BY <1>15 DEF ZipQuiet, TypeOK, Crash
  <2>4. FailureQuiet'
    BY <1>15 DEF FailureQuiet, TypeOK, Crash
  <2> QED
    BY <2>1, <2>2, <2>3, <2>4
<1>16. CASE UNCHANGED vars
  <2>1. DirectoryQuiet'
    BY <1>16 DEF DirectoryQuiet, Loaded, Looked, Accepted, Signed, TypeOK, vars
  <2>2. SignatureQuiet'
    BY <1>16 DEF SignatureQuiet, Signed, Certain, TypeOK, vars
  <2>3. ZipQuiet'
    BY <1>16 DEF ZipQuiet, TypeOK, vars
  <2>4. FailureQuiet'
    BY <1>16 DEF FailureQuiet, TypeOK, vars
  <2> QED
    BY <2>1, <2>2, <2>3, <2>4
<1> QED
  BY <1>a, <1>1, <1>2, <1>3, <1>4, <1>5, <1>6, <1>7, <1>8, <1>9, <1>10, <1>11, <1>12, <1>13, <1>14, <1>15, <1>16 DEF Next, Step

LEMMA SpecQuiet == Spec => []Quiet
  BY InitQuiet, StepQuiet, SpecInv, PTL DEF Spec

\* On a directory that nobody edits seal_and_package succeeds completely or not
\* at all: a sealer that returns success has published its archive and signature.
THEOREM Completeness == Spec => []SuccessComplete
<1>1. IInv /\ Quiet => SuccessComplete
  BY SealAssumption DEF Quiet, DirectoryQuiet, SignatureQuiet, ZipQuiet, SuccessComplete, Loaded, Certain
<1> QED
  BY <1>1, SpecInv, SpecQuiet, PTL

\* There it fails only for an excuse of its own or for what its mode forbids,
\* so what a killed or failed sealer left is no obstacle to a retry.
THEOREM Recovery == Spec => []FailuresExplained
<1>1. Quiet => FailuresExplained
  BY DEF Quiet, FailureQuiet, FailuresExplained
<1> QED
  BY <1>1, SpecQuiet, PTL

=============================================================================
