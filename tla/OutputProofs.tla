---------------------------- MODULE OutputProofs ----------------------------
(***************************************************************************)
(* Theorems about the two halves of an export: FreshOutput, the publication*)
(* of a directory, for any number of invocations, paths and interfering    *)
(* steps; and OutputPlan, what the directory is to hold, for any tree of   *)
(* paths and any number of claims.  The two share no state.                *)
(***************************************************************************)
EXTENDS FreshOutput, OutputPlan, TLAPS

----------------------------------------------------------------------------
(* Publication (FreshOutput).                                              *)

\* Two holders of the lock have different inodes open, and without a removal
\* of the lock file there is one inode only.
LockInv ==
  /\ \A v, w \in Writers : Holds(v) /\ Holds(w) /\ opened[v] = opened[w] => v = w
  /\ ~unlinked => ino = 0 /\ \A w \in Writers : opened[w] = 0

\* A staging directory exists exactly in the stages that work on it, unless
\* its owner died or could not remove it; it is its owner's.
StagingInv ==
  \A w \in Writers :
    /\ pc[w] \in Staged => staging[w] \in Snapshots /\ staging[w].by = w
    /\ pc[w] \notin Staged \cup {"died", "stuck"} => staging[w] = Absent

TempInv == \A w \in temp : pc[w] \in {"verify", "link", "died"}

\* What verify_payload established lasts until the rename, or w is spoiled.
VerifiedInv ==
  \A w \in Writers :
    /\ pc[w] \in {"prepare", "verify", "link"} => RequiredMetadata \subseteq Names(scanned[w])
    /\ pc[w] = "link" /\ w \notin spoiled => staging[w].files = scanned[w]
    /\ pc[w] = "rename" /\ w \notin spoiled => Intact(staging[w])

\* The destination is the work of an invocation only if that invocation got
\* past the rename: no failed or killed-before-publication call shows through.
OnlyWinnersShow ==
  \A w \in Writers : dest # Absent /\ dest.by = w => pc[w] \in {"published", "done", "lost"}

\* The inductive invariant.
IInv == TypeOK /\ LockInv /\ StagingInv /\ TempInv /\ VerifiedInv /\ PublishedIntact /\ OnlyWinnersShow

----------------------------------------------------------------------------
(* Facts about snapshots. *)

\* A new staging directory, and what an unrelated program creates, are snapshots.
LEMMA FreshSnapshot ==
  ASSUME NEW o \in Writers \cup {Foreign}
  PROVE  /\ [by |-> o, files |-> Empty, sums |-> NoSums] \in Snapshots
         /\ Empty \in Payload
  BY DEF Snapshots, Empty, Payload, Bytes, SumsFiles

\* No snapshot is the absent entry: it has an owner.
LEMMA SnapshotPresent ==
  ASSUME NEW s \in Snapshots
  PROVE  s # Absent /\ s.by \in Writers \cup {Foreign} /\ s.files \in Payload
  BY FreshOutputAssumption DEF Snapshots, Absent

\* Changing one file of a snapshot changes nothing else.
LEMMA EditFile ==
  ASSUME NEW s \in Snapshots, NEW p \in Paths, NEW b \in Bytes
  PROVE  LET t == [s EXCEPT !.files[p] = b]
         IN  t \in Snapshots /\ t.by = s.by /\ t.sums = s.sums
  <1>1. s.files \in Payload
    BY DEF Snapshots
  <1>2. [s.files EXCEPT ![p] = b] \in Payload
    BY <1>1 DEF Payload
  <1>3. [s EXCEPT !.files[p] = b] = [by |-> s.by, files |-> [s.files EXCEPT ![p] = b], sums |-> s.sums]
    BY DEF Snapshots
  <1> QED
    BY <1>2, <1>3 DEF Snapshots

\* Neither does writing its checksum file.
LEMMA EditSums ==
  ASSUME NEW s \in Snapshots, NEW c \in SumsFiles
  PROVE  LET t == [s EXCEPT !.sums = c]
         IN  t \in Snapshots /\ t.by = s.by /\ t.files = s.files /\ t.sums = c
  <1>1. [s EXCEPT !.sums = c] = [by |-> s.by, files |-> s.files, sums |-> c]
    BY DEF Snapshots
  <1> QED
    BY <1>1 DEF Snapshots


\* Every step of Next preserves the invariant.
LEMMA StepInv == IInv /\ [Next]_vars => IInv'
<1> SUFFICES ASSUME IInv, [Next]_vars PROVE IInv'
  OBVIOUS
<1> USE FreshOutputAssumption DEF IInv, Holds, Goto, To, lockVars
<1>1. ASSUME NEW w \in Writers, OpenLock(w)
      PROVE  IInv'
  <2>1. TypeOK'
    BY <1>1 DEF TypeOK, Stages, Locked, Staged, Ended, OpenLock
  <2>2. LockInv'
    BY <1>1 DEF LockInv, TypeOK, Locked, Staged, OpenLock
  <2>3. StagingInv'
    BY <1>1 DEF StagingInv, TypeOK, Staged, Snapshots, OpenLock
  <2>4. TempInv'
    BY <1>1 DEF TempInv, TypeOK, OpenLock
  <2>5. VerifiedInv'
    BY <1>1 DEF VerifiedInv, TypeOK, StagingInv, Staged, OpenLock
  <2>6. PublishedIntact'
    BY <1>1 DEF PublishedIntact, TypeOK, OpenLock
  <2>7. OnlyWinnersShow'
    BY <1>1 DEF OnlyWinnersShow, TypeOK, OpenLock
  <2> QED
    BY <2>1, <2>2, <2>3, <2>4, <2>5, <2>6, <2>7
<1>2. ASSUME NEW w \in Writers, TakeLock(w)
      PROVE  IInv'
  <2>1. TypeOK'
    BY <1>2 DEF TypeOK, Stages, Locked, Staged, Ended, TakeLock, Busy
  <2>2. LockInv'
    BY <1>2 DEF LockInv, TypeOK, Locked, Staged, TakeLock, Busy
  <2>3. StagingInv'
    BY <1>2 DEF StagingInv, TypeOK, Staged, Snapshots, TakeLock, Busy
  <2>4. TempInv'
    BY <1>2 DEF TempInv, TypeOK, TakeLock, Busy
  <2>5. VerifiedInv'
    BY <1>2 DEF VerifiedInv, TypeOK, StagingInv, Staged, TakeLock, Busy
  <2>6. PublishedIntact'
    BY <1>2 DEF PublishedIntact, TypeOK, TakeLock, Busy
  <2>7. OnlyWinnersShow'
    BY <1>2 DEF OnlyWinnersShow, TypeOK, TakeLock, Busy
  <2> QED
    BY <2>1, <2>2, <2>3, <2>4, <2>5, <2>6, <2>7
<1>3. ASSUME NEW w \in Writers, RefuseLock(w)
      PROVE  IInv'
  <2>1. TypeOK'
    BY <1>3 DEF TypeOK, Stages, Locked, Staged, Ended, RefuseLock
  <2>2. LockInv'
    BY <1>3 DEF LockInv, TypeOK, Locked, Staged, RefuseLock
  <2>3. StagingInv'
    BY <1>3 DEF StagingInv, TypeOK, Staged, Snapshots, RefuseLock
  <2>4. TempInv'
    BY <1>3 DEF TempInv, TypeOK, RefuseLock
  <2>5. VerifiedInv'
    BY <1>3 DEF VerifiedInv, TypeOK, StagingInv, Staged, RefuseLock
  <2>6. PublishedIntact'
    BY <1>3 DEF PublishedIntact, TypeOK, RefuseLock
  <2>7. OnlyWinnersShow'
    BY <1>3 DEF OnlyWinnersShow, TypeOK, RefuseLock
  <2> QED
    BY <2>1, <2>2, <2>3, <2>4, <2>5, <2>6, <2>7
<1>4. ASSUME NEW w \in Writers, Unlock(w)
      PROVE  IInv'
  <2>1. TypeOK'
    BY <1>4 DEF TypeOK, Stages, Locked, Staged, Ended, Unlock
  <2>2. LockInv'
    BY <1>4 DEF LockInv, TypeOK, Locked, Staged, Unlock
  <2>3. StagingInv'
    BY <1>4 DEF StagingInv, TypeOK, Staged, Snapshots, Unlock
  <2>4. TempInv'
    BY <1>4 DEF TempInv, TypeOK, Unlock
  <2>5. VerifiedInv'
    BY <1>4 DEF VerifiedInv, TypeOK, StagingInv, Staged, Unlock
  <2>6. PublishedIntact'
    BY <1>4 DEF PublishedIntact, TypeOK, Unlock
  <2>7. OnlyWinnersShow'
    BY <1>4 DEF OnlyWinnersShow, TypeOK, Unlock
  <2> QED
    BY <2>1, <2>2, <2>3, <2>4, <2>5, <2>6, <2>7
<1>5. ASSUME NEW w \in Writers, Prepare(w)
      PROVE  IInv'
  <2>0. [by |-> w, files |-> Empty, sums |-> NoSums] \in Snapshots
    BY FreshSnapshot
  <2>1. TypeOK'
    BY <1>5, <2>0 DEF TypeOK, Stages, Locked, Staged, Ended, Prepare
  <2>2. LockInv'
    BY <1>5 DEF LockInv, TypeOK, Locked, Staged, Prepare
  <2>3. StagingInv'
    BY <1>5, <2>0 DEF StagingInv, TypeOK, Staged, Prepare
  <2>4. TempInv'
    BY <1>5 DEF TempInv, TypeOK, Prepare
  <2>5. VerifiedInv'
    BY <1>5 DEF VerifiedInv, TypeOK, StagingInv, Staged, Prepare
  <2>6. PublishedIntact'
    BY <1>5 DEF PublishedIntact, TypeOK, Prepare
  <2>7. OnlyWinnersShow'
    BY <1>5 DEF OnlyWinnersShow, TypeOK, Prepare
  <2> QED
    BY <2>1, <2>2, <2>3, <2>4, <2>5, <2>6, <2>7
<1>6. ASSUME NEW w \in Writers, NEW p \in Paths, WriteFile(w, p)
      PROVE  IInv'
  <2> DEFINE t == [staging[w] EXCEPT !.files[p] = "own"]
  <2>0. t \in Snapshots /\ t.by = w
    BY <1>6, EditFile DEF WriteFile, StagingInv, Staged, Bytes
  <2>a. staging' = [staging EXCEPT ![w] = t] /\ pc[w] = "body"
    BY <1>6 DEF WriteFile
  <2> HIDE DEF t
  <2>1. TypeOK'
    BY <1>6, <2>0, <2>a DEF TypeOK, WriteFile
  <2>2. LockInv'
    BY <1>6 DEF LockInv, TypeOK, Locked, Staged, WriteFile
  <2>3. StagingInv'
    BY <1>6, <2>0, <2>a DEF TypeOK, StagingInv, Staged, WriteFile
  <2>4. TempInv'
    BY <1>6 DEF TempInv, TypeOK, WriteFile
  <2>5. VerifiedInv'
    BY <1>6, <2>a DEF TypeOK, VerifiedInv, Staged, WriteFile
  <2>6. PublishedIntact'
    BY <1>6 DEF PublishedIntact, TypeOK, WriteFile
  <2>7. OnlyWinnersShow'
    BY <1>6 DEF OnlyWinnersShow, TypeOK, WriteFile
  <2> QED
    BY <2>1, <2>2, <2>3, <2>4, <2>5, <2>6, <2>7
<1>7. ASSUME NEW w \in Writers, FinishBody(w)
      PROVE  IInv'
  <2>1. TypeOK'
    BY <1>7 DEF TypeOK, Stages, Locked, Staged, Ended, FinishBody
  <2>2. LockInv'
    BY <1>7 DEF LockInv, TypeOK, Locked, Staged, FinishBody
  <2>3. StagingInv'
    BY <1>7 DEF StagingInv, TypeOK, Staged, Snapshots, FinishBody
  <2>4. TempInv'
    BY <1>7 DEF TempInv, TypeOK, FinishBody
  <2>5. VerifiedInv'
    BY <1>7 DEF VerifiedInv, TypeOK, StagingInv, Staged, FinishBody
  <2>6. PublishedIntact'
    BY <1>7 DEF PublishedIntact, TypeOK, FinishBody
  <2>7. OnlyWinnersShow'
    BY <1>7 DEF OnlyWinnersShow, TypeOK, FinishBody
  <2> QED
    BY <2>1, <2>2, <2>3, <2>4, <2>5, <2>6, <2>7
<1>8. ASSUME NEW w \in Writers, ScanPayload(w)
      PROVE  IInv'
  <2>0. staging[w].files \in Payload
    BY <1>8, SnapshotPresent DEF ScanPayload, StagingInv, Staged
  <2>1. TypeOK'
    BY <1>8, <2>0 DEF TypeOK, Stages, Locked, Staged, Ended, ScanPayload
  <2>2. LockInv'
    BY <1>8 DEF LockInv, TypeOK, Locked, Staged, ScanPayload
  <2>3. StagingInv'
    BY <1>8 DEF StagingInv, TypeOK, Staged, Snapshots, ScanPayload
  <2>4. TempInv'
    BY <1>8 DEF TempInv, TypeOK, ScanPayload
  <2>5. VerifiedInv'
    BY <1>8 DEF VerifiedInv, TypeOK, StagingInv, Staged, ScanPayload
  <2>6. PublishedIntact'
    BY <1>8 DEF PublishedIntact, TypeOK, ScanPayload
  <2>7. OnlyWinnersShow'
    BY <1>8 DEF OnlyWinnersShow, TypeOK, ScanPayload
  <2> QED
    BY <2>1, <2>2, <2>3, <2>4, <2>5, <2>6, <2>7
<1>9. ASSUME NEW w \in Writers, PrepareChecksums(w)
      PROVE  IInv'
  <2>1. TypeOK'
    BY <1>9 DEF TypeOK, Stages, Locked, Staged, Ended, PrepareChecksums
  <2>2. LockInv'
    BY <1>9 DEF LockInv, TypeOK, Locked, Staged, PrepareChecksums
  <2>3. StagingInv'
    BY <1>9 DEF StagingInv, TypeOK, Staged, Snapshots, PrepareChecksums
  <2>4. TempInv'
    BY <1>9 DEF TempInv, TypeOK, PrepareChecksums
  <2>5. VerifiedInv'
    BY <1>9 DEF VerifiedInv, TypeOK, StagingInv, Staged, PrepareChecksums
  <2>6. PublishedIntact'
    BY <1>9 DEF PublishedIntact, TypeOK, PrepareChecksums
  <2>7. OnlyWinnersShow'
    BY <1>9 DEF OnlyWinnersShow, TypeOK, PrepareChecksums
  <2> QED
    BY <2>1, <2>2, <2>3, <2>4, <2>5, <2>6, <2>7
<1>10. ASSUME NEW w \in Writers, VerifyPayload(w)
      PROVE  IInv'
  <2>1. TypeOK'
    BY <1>10 DEF TypeOK, Stages, Locked, Staged, Ended, VerifyPayload
  <2>2. LockInv'
    BY <1>10 DEF LockInv, TypeOK, Locked, Staged, VerifyPayload
  <2>3. StagingInv'
    BY <1>10 DEF StagingInv, TypeOK, Staged, Snapshots, VerifyPayload
  <2>4. TempInv'
    BY <1>10 DEF TempInv, TypeOK, VerifyPayload
  <2>5. VerifiedInv'
    BY <1>10 DEF VerifiedInv, TypeOK, StagingInv, Staged, VerifyPayload
  <2>6. PublishedIntact'
    BY <1>10 DEF PublishedIntact, TypeOK, VerifyPayload
  <2>7. OnlyWinnersShow'
    BY <1>10 DEF OnlyWinnersShow, TypeOK, VerifyPayload
  <2> QED
    BY <2>1, <2>2, <2>3, <2>4, <2>5, <2>6, <2>7
<1>11. ASSUME NEW w \in Writers, LinkChecksums(w)
      PROVE  IInv'
  <2> DEFINE t == [staging[w] EXCEPT !.sums = Sums(scanned[w])]
  <2>0. t \in Snapshots /\ t.by = w /\ t.files = staging[w].files /\ t.sums = Sums(scanned[w])
    <3>1. staging[w] \in Snapshots /\ staging[w].by = w
      BY <1>11 DEF LinkChecksums, StagingInv, Staged
    <3>2. Sums(scanned[w]) \in SumsFiles
      BY DEF SumsFiles, TypeOK
    <3> QED
      BY <3>1, <3>2, EditSums
  <2>a. staging' = [staging EXCEPT ![w] = t] \/ staging' = staging
    BY <1>11 DEF LinkChecksums
  <2> HIDE DEF t
  <2>1. TypeOK'
    BY <1>11, <2>0, <2>a DEF TypeOK, LinkChecksums, Stages, Locked, Staged
  <2>2. LockInv'
    BY <1>11 DEF LockInv, TypeOK, Locked, Staged, LinkChecksums
  <2>3. StagingInv'
    BY <1>11, <2>0, <2>a DEF TypeOK, StagingInv, Staged, LinkChecksums
  <2>4. TempInv'
    BY <1>11 DEF TempInv, TypeOK, LinkChecksums
  <2>5. VerifiedInv'
    <3>1. CASE staging[w].sums = NoSums
      <4>1. staging' = [staging EXCEPT ![w] = t] /\ pc' = [pc EXCEPT ![w] = "rename"]
        BY <1>11, <3>1 DEF LinkChecksums, t
      <4>2. w \notin spoiled => Intact(t)
        BY <1>11, <2>0 DEF VerifiedInv, LinkChecksums, Intact
      <4> QED
        BY <1>11, <4>1, <4>2 DEF TypeOK, VerifiedInv, LinkChecksums
    <3>2. CASE staging[w].sums # NoSums
      BY <1>11, <3>2 DEF TypeOK, VerifiedInv, LinkChecksums
    <3> QED
      BY <3>1, <3>2
  <2>6. PublishedIntact'
    BY <1>11 DEF PublishedIntact, TypeOK, LinkChecksums
  <2>7. OnlyWinnersShow'
    BY <1>11 DEF OnlyWinnersShow, TypeOK, LinkChecksums
  <2> QED
    BY <2>1, <2>2, <2>3, <2>4, <2>5, <2>6, <2>7
<1>12. ASSUME NEW w \in Writers, PublishDirectory(w)
      PROVE  IInv'
  <2>0. staging[w] \in Snapshots /\ staging[w].by = w
    BY <1>12 DEF PublishDirectory, StagingInv, Staged
  <2>1. TypeOK'
    BY <1>12 DEF TypeOK, Stages, Locked, Staged, Ended, PublishDirectory
  <2>2. LockInv'
    BY <1>12 DEF LockInv, TypeOK, Locked, Staged, PublishDirectory
  <2>3. StagingInv'
    BY <1>12 DEF StagingInv, TypeOK, Staged, Snapshots, PublishDirectory
  <2>4. TempInv'
    BY <1>12 DEF TempInv, TypeOK, PublishDirectory
  <2>5. VerifiedInv'
    BY <1>12 DEF VerifiedInv, TypeOK, StagingInv, Staged, PublishDirectory
  <2>6. PublishedIntact'
    BY <1>12, <2>0 DEF TypeOK, PublishedIntact, VerifiedInv, PublishDirectory
  <2>7. OnlyWinnersShow'
    BY <1>12, <2>0 DEF TypeOK, OnlyWinnersShow, PublishDirectory
  <2> QED
    BY <2>1, <2>2, <2>3, <2>4, <2>5, <2>6, <2>7
<1>13. ASSUME NEW w \in Writers, Cleanup(w)
      PROVE  IInv'
  <2>1. TypeOK'
    BY <1>13 DEF TypeOK, Stages, Locked, Staged, Ended, Cleanup
  <2>2. LockInv'
    BY <1>13 DEF LockInv, TypeOK, Locked, Staged, Cleanup
  <2>3. StagingInv'
    BY <1>13 DEF StagingInv, TypeOK, Staged, Snapshots, Cleanup
  <2>4. TempInv'
    BY <1>13 DEF TempInv, TypeOK, Cleanup
  <2>5. VerifiedInv'
    BY <1>13 DEF VerifiedInv, TypeOK, StagingInv, Staged, Cleanup
  <2>6. PublishedIntact'
    BY <1>13 DEF PublishedIntact, TypeOK, Cleanup
  <2>7. OnlyWinnersShow'
    BY <1>13 DEF OnlyWinnersShow, TypeOK, Cleanup
  <2> QED
    BY <2>1, <2>2, <2>3, <2>4, <2>5, <2>6, <2>7
<1>14. ASSUME NEW w \in Writers, Raise(w)
      PROVE  IInv'
  <2>1. TypeOK'
    BY <1>14 DEF TypeOK, Stages, Locked, Staged, Ended, Raise
  <2>2. LockInv'
    BY <1>14 DEF LockInv, TypeOK, Locked, Staged, Raise
  <2>3. StagingInv'
    BY <1>14 DEF StagingInv, TypeOK, Staged, Snapshots, Raise
  <2>4. TempInv'
    BY <1>14 DEF TempInv, TypeOK, Raise
  <2>5. VerifiedInv'
    BY <1>14 DEF VerifiedInv, TypeOK, StagingInv, Staged, Raise
  <2>6. PublishedIntact'
    BY <1>14 DEF PublishedIntact, TypeOK, Raise
  <2>7. OnlyWinnersShow'
    BY <1>14 DEF TypeOK, OnlyWinnersShow, Raise, Staged
  <2> QED
    BY <2>1, <2>2, <2>3, <2>4, <2>5, <2>6, <2>7
<1>15. ASSUME NEW w \in Writers, CleanupRaises(w)
      PROVE  IInv'
  <2>1. TypeOK'
    BY <1>15 DEF TypeOK, Stages, Locked, Staged, Ended, CleanupRaises
  <2>2. LockInv'
    BY <1>15 DEF LockInv, TypeOK, Locked, Staged, CleanupRaises
  <2>3. StagingInv'
    BY <1>15 DEF StagingInv, TypeOK, Staged, Snapshots, CleanupRaises
  <2>4. TempInv'
    BY <1>15 DEF TempInv, TypeOK, CleanupRaises
  <2>5. VerifiedInv'
    BY <1>15 DEF VerifiedInv, TypeOK, StagingInv, Staged, CleanupRaises
  <2>6. PublishedIntact'
    BY <1>15 DEF PublishedIntact, TypeOK, CleanupRaises
  <2>7. OnlyWinnersShow'
    BY <1>15 DEF OnlyWinnersShow, TypeOK, CleanupRaises
  <2> QED
    BY <2>1, <2>2, <2>3, <2>4, <2>5, <2>6, <2>7
<1>16. ASSUME NEW w \in Writers, Crash(w)
      PROVE  IInv'
  <2>1. TypeOK'
    BY <1>16 DEF TypeOK, Stages, Locked, Staged, Ended, Crash
  <2>2. LockInv'
    BY <1>16 DEF LockInv, TypeOK, Locked, Staged, Crash
  <2>3. StagingInv'
    BY <1>16 DEF StagingInv, TypeOK, Staged, Snapshots, Crash
  <2>4. TempInv'
    BY <1>16 DEF TempInv, TypeOK, Crash
  <2>5. VerifiedInv'
    BY <1>16 DEF VerifiedInv, TypeOK, StagingInv, Staged, Crash
  <2>6. PublishedIntact'
    BY <1>16 DEF PublishedIntact, TypeOK, Crash
  <2>7. OnlyWinnersShow'
    BY <1>16 DEF TypeOK, OnlyWinnersShow, Crash, Ended
  <2> QED
    BY <2>1, <2>2, <2>3, <2>4, <2>5, <2>6, <2>7
<1>17. ASSUME NEW w \in Writers, ForeignStaging(w)
      PROVE  IInv'
  <2>0. staging[w] \in Snapshots /\ staging[w].by = w
    BY <1>17 DEF ForeignStaging, StagingInv, Staged
  <2>a. PICK t \in Snapshots :
          /\ t.by = w
          /\ staging' = [staging EXCEPT ![w] = t]
          /\ \/ t.files = staging[w].files /\ (pc[w] = "rename" => w \in spoiled')
             \/ pc[w] \in {"link", "rename"} => w \in spoiled'
    <3>1. CASE \E p \in Paths, b \in {"none", "alien"} :
                 /\ staging' = [staging EXCEPT ![w].files[p] = b]
                 /\ spoiled' = IF pc[w] \in {"link", "rename"} THEN spoiled \cup {w} ELSE spoiled
      <4>1. PICK p \in Paths, b \in {"none", "alien"} :
                 /\ staging' = [staging EXCEPT ![w].files[p] = b]
                 /\ spoiled' = IF pc[w] \in {"link", "rename"} THEN spoiled \cup {w} ELSE spoiled
        BY <3>1
      <4> DEFINE t == [staging[w] EXCEPT !.files[p] = b]
      <4>2. t \in Snapshots /\ t.by = w
        <5>1. b \in Bytes
          BY DEF Bytes
        <5> QED
          BY <2>0, <5>1, EditFile
      <4>3. staging' = [staging EXCEPT ![w] = t]
        BY <4>1
      <4> QED
        BY <4>1, <4>2, <4>3
    <3>2. CASE /\ staging' = [staging EXCEPT ![w].sums = AlienSums]
               /\ spoiled' = IF pc[w] = "rename" THEN spoiled \cup {w} ELSE spoiled
      <4> DEFINE t == [staging[w] EXCEPT !.sums = AlienSums]
      <4>1. t \in Snapshots /\ t.by = w /\ t.files = staging[w].files
        BY <2>0, EditSums DEF SumsFiles
      <4> QED
        BY <3>2, <4>1
    <3> QED
      BY <1>17, <3>1, <3>2 DEF ForeignStaging
  <2>b. /\ spoiled \subseteq spoiled' /\ spoiled' \subseteq spoiled \cup {w}
        /\ pc[w] \in Staged /\ UNCHANGED <<pc, lockVars, scanned, temp, dest>>
        /\ edits < MaxForeign /\ edits' = edits + 1
    BY <1>17 DEF ForeignStaging, ForeignStep
  <2>1. TypeOK'
    BY <2>a, <2>b DEF lockVars, TypeOK
  <2>2. LockInv'
    BY <2>a, <2>b DEF lockVars, LockInv
  <2>3. StagingInv'
    BY <2>a, <2>b DEF lockVars, TypeOK, StagingInv
  <2>4. TempInv'
    BY <2>a, <2>b DEF lockVars, TempInv
  <2>5. VerifiedInv'
    BY <2>a, <2>b DEF lockVars, TypeOK, VerifiedInv
  <2>6. PublishedIntact'
    BY <2>a, <2>b DEF lockVars, PublishedIntact
  <2>7. OnlyWinnersShow'
    BY <2>a, <2>b DEF lockVars, OnlyWinnersShow
  <2> QED
    BY <2>1, <2>2, <2>3, <2>4, <2>5, <2>6, <2>7
<1>18. ASSUME ForeignDestination
      PROVE  IInv'
  <2>0. /\ [by |-> Foreign, files |-> Empty, sums |-> NoSums] \in Snapshots
    BY FreshSnapshot
  <2>1. TypeOK'
    BY <1>18, <2>0 DEF TypeOK, Stages, Locked, Staged, Ended, ForeignDestination, ForeignStep
  <2>2. LockInv'
    BY <1>18 DEF LockInv, TypeOK, Locked, Staged, ForeignDestination, ForeignStep
  <2>3. StagingInv'
    BY <1>18 DEF StagingInv, TypeOK, Staged, Snapshots, ForeignDestination, ForeignStep
  <2>4. TempInv'
    BY <1>18 DEF TempInv, TypeOK, ForeignDestination, ForeignStep
  <2>5. VerifiedInv'
    BY <1>18 DEF VerifiedInv, TypeOK, StagingInv, Staged, ForeignDestination, ForeignStep
  <2>6. PublishedIntact'
    BY <1>18 DEF PublishedIntact, TypeOK, ForeignDestination, ForeignStep
  <2>7. OnlyWinnersShow'
    BY <1>18 DEF OnlyWinnersShow, TypeOK, ForeignDestination, ForeignStep
  <2> QED
    BY <2>1, <2>2, <2>3, <2>4, <2>5, <2>6, <2>7
<1>19. ASSUME ForeignUnlink
      PROVE  IInv'
  <2>1. TypeOK'
    BY <1>19 DEF TypeOK, Stages, Locked, Staged, Ended, ForeignUnlink, ForeignStep
  <2>2. LockInv'
    BY <1>19 DEF LockInv, TypeOK, Locked, Staged, ForeignUnlink, ForeignStep
  <2>3. StagingInv'
    BY <1>19 DEF StagingInv, TypeOK, Staged, Snapshots, ForeignUnlink, ForeignStep
  <2>4. TempInv'
    BY <1>19 DEF TempInv, TypeOK, ForeignUnlink, ForeignStep
  <2>5. VerifiedInv'
    BY <1>19 DEF VerifiedInv, TypeOK, StagingInv, Staged, ForeignUnlink, ForeignStep
  <2>6. PublishedIntact'
    BY <1>19 DEF PublishedIntact, TypeOK, ForeignUnlink, ForeignStep
  <2>7. OnlyWinnersShow'
    BY <1>19 DEF OnlyWinnersShow, TypeOK, ForeignUnlink, ForeignStep
  <2> QED
    BY <2>1, <2>2, <2>3, <2>4, <2>5, <2>6, <2>7
<1>20. CASE UNCHANGED vars
  BY <1>20 DEF vars, TypeOK, LockInv, StagingInv, TempInv, VerifiedInv, PublishedIntact, OnlyWinnersShow, Busy
<1> QED
  BY <1>1, <1>2, <1>3, <1>4, <1>5, <1>6, <1>7, <1>8, <1>9, <1>10, <1>11, <1>12, <1>13, <1>14, <1>15, <1>16, <1>17, <1>18, <1>19, <1>20 DEF Next, Step, Environment

\* The invariant holds in every reachable state.
LEMMA Invariance == Spec => []IInv
<1>1. Init => IInv
  <2> USE FreshOutputAssumption DEF Init
  <2>1. Init => TypeOK
    <3>1. Empty \in Payload
      BY DEF Empty, Payload, Bytes
    <3> SUFFICES ASSUME Init PROVE TypeOK
      OBVIOUS
    <3>2. pc \in [Writers -> Stages]
      BY DEF Stages
    <3>3. scanned \in [Writers -> Payload]
      BY <3>1
    <3>4. staging \in [Writers -> Snapshots \cup {Absent}] /\ dest \in Snapshots \cup {Absent}
      OBVIOUS
    <3>5. opened \in [Writers -> Nat] /\ ino \in Nat /\ edits \in 0 .. MaxForeign
      OBVIOUS
    <3>6. unlinked \in BOOLEAN /\ temp \subseteq Writers /\ spoiled \subseteq Writers
      OBVIOUS
    <3> QED
      BY <3>2, <3>3, <3>4, <3>5, <3>6 DEF TypeOK
  <2>2. Init => LockInv
    BY DEF LockInv, Holds, Locked, Staged
  <2>3. Init => StagingInv /\ TempInv /\ VerifiedInv
    BY DEF StagingInv, TempInv, VerifiedInv, Staged
  <2>4. Init => PublishedIntact /\ OnlyWinnersShow
    BY DEF PublishedIntact, OnlyWinnersShow
  <2> QED
    BY <2>1, <2>2, <2>3, <2>4 DEF IInv
<1> QED
  BY <1>1, StepInv, PTL DEF Spec

\* Every variable keeps its type: stages, directories and checksum files are
\* the ones fresh_output and write_checksums can produce.
THEOREM TypeCorrect == Spec => []TypeOK
  BY Invariance, PTL DEF IInv

\* One invocation at a time builds and publishes for a destination as long as
\* the sidecar lock file is never removed (output_lock_path).
THEOREM Exclusion == Spec => []StagingExclusive
<1>1. IInv => StagingExclusive
  BY DEF IInv, LockInv, StagingExclusive
<1> QED
  BY <1>1, Invariance, PTL

\* What a call publishes has a baseline of exactly its files, for any
\* interference before write_checksums has verified it.
THEOREM Integrity == Spec => []PublishedIntact
  BY Invariance, PTL DEF IInv

\* A call that returns leaves no staging directory and no temporary file.
THEOREM Tidiness == Spec => []NoLeftovers
<1>1. IInv => NoLeftovers
  BY DEF IInv, StagingInv, TempInv, NoLeftovers, Staged, Ended
<1> QED
  BY <1>1, Invariance, PTL

----------------------------------------------------------------------------
(* Refinement of ExclusivePublication. *)

\* A change of stage that keeps the status is a stutter of the abstraction.
LEMMA Quiet ==
  ASSUME TypeOK, NEW w \in Writers, NEW s, pc' = [pc EXCEPT ![w] = s],
         StatusOf(s) = StatusOf(pc[w]), UNCHANGED <<dest, spoiled>>
  PROVE  UNCHANGED Abstract!avars
<1>1. status' = status
  BY DEF TypeOK, status
<1>2. Entry' = Entry
  BY DEF Entry, Intact, Sums, Names
<1> QED
  BY <1>1, <1>2 DEF Abstract!avars

\* Ending without having published is GiveUp.
LEMMA GivesUp ==
  ASSUME TypeOK, NEW w \in Writers, NEW s \in {"failed", "stuck", "died"},
         pc' = [pc EXCEPT ![w] = s], StatusOf(pc[w]) = "running", UNCHANGED <<dest, spoiled>>
  PROVE  Abstract!GiveUp(w)
<1>1. StatusOf(s) = "gone"
  BY DEF StatusOf, Ended
<1>2. status[w] = "running" /\ status' = [status EXCEPT ![w] = "gone"]
  BY <1>1 DEF TypeOK, status
<1>3. Entry' = Entry
  BY DEF Entry, Intact, Sums, Names
<1> QED
  BY <1>2, <1>3 DEF Abstract!GiveUp

LEMMA AbstractStep == IInv /\ [Next]_vars => [Abstract!Next]_(Abstract!avars)
<1> SUFFICES ASSUME IInv, [Next]_vars PROVE [Abstract!Next]_(Abstract!avars)
  OBVIOUS
<1> USE FreshOutputAssumption DEF Goto, To, lockVars, StatusOf, Ended
<1>t. TypeOK
  BY DEF IInv
<1>n. (\E w \in Writers : Abstract!Publish(w) \/ Abstract!GiveUp(w) \/ Abstract!Spoil(w)) => Abstract!Next
  BY DEF Abstract!Next
<1>1. ASSUME NEW w \in Writers, OpenLock(w) \/ TakeLock(w) PROVE UNCHANGED Abstract!avars
  <2>1. PICK s \in {"opened", "locked"} :
          pc' = [pc EXCEPT ![w] = s] /\ pc[w] \in {"idle", "opened"} /\ UNCHANGED <<dest, spoiled>>
    BY <1>1 DEF OpenLock, TakeLock
  <2> QED
    BY <1>t, <2>1, Quiet
<1>2. ASSUME NEW w \in Writers, RefuseLock(w) PROVE Abstract!GiveUp(w)
  BY <1>t, <1>2, GivesUp DEF RefuseLock
<1>3. ASSUME NEW w \in Writers, Unlock(w) PROVE UNCHANGED Abstract!avars \/ Abstract!GiveUp(w)
  <2>1. CASE pc[w] = "published"
    BY <1>t, <1>3, <2>1, Quiet DEF Unlock
  <2>2. CASE pc[w] # "published"
    BY <1>t, <1>3, <2>2, GivesUp DEF Unlock
  <2> QED
    BY <2>1, <2>2
<1>4. ASSUME NEW w \in Writers,
             \/ Prepare(w) \/ (\E p \in Paths : WriteFile(w, p)) \/ FinishBody(w) \/ ScanPayload(w)
             \/ PrepareChecksums(w) \/ VerifyPayload(w) \/ LinkChecksums(w) \/ Cleanup(w)
      PROVE  UNCHANGED Abstract!avars
  <2>1. PICK s \in {"failing"} \cup Staged :
          pc' = [pc EXCEPT ![w] = s] /\ pc[w] \in {"locked"} \cup Staged /\ UNCHANGED <<dest, spoiled>>
    <3>1. CASE \E p \in Paths : WriteFile(w, p)
      BY <1>t, <3>1 DEF TypeOK, WriteFile, Staged
    <3>2. CASE ~\E p \in Paths : WriteFile(w, p)
      BY <1>4, <3>2 DEF Prepare, FinishBody, ScanPayload, PrepareChecksums, VerifyPayload,
                        LinkChecksums, Cleanup, Staged
    <3> QED
      BY <3>1, <3>2
  <2>2. StatusOf(s) = StatusOf(pc[w])
    BY <2>1 DEF Staged
  <2> QED
    BY <1>t, <2>1, <2>2, Quiet
<1>5. ASSUME NEW w \in Writers, PublishDirectory(w)
      PROVE  UNCHANGED Abstract!avars \/ Abstract!Publish(w)
  <2>0. staging[w] \in Snapshots /\ staging[w].by = w /\ (w \notin spoiled => Intact(staging[w]))
    BY <1>5 DEF IInv, StagingInv, VerifiedInv, PublishDirectory, Staged
  <2>1. CASE dest = Absent
    <3>1. pc[w] = "rename" /\ pc' = [pc EXCEPT ![w] = "published"] /\ dest' = staging[w] /\ spoiled' = spoiled
      BY <1>5, <2>1 DEF PublishDirectory
    <3>2. status[w] = "running" /\ status' = [status EXCEPT ![w] = "published"]
      BY <1>t, <3>1 DEF TypeOK, status
    <3>3. Entry = [by |-> Nobody]
      BY <2>1 DEF Entry
    <3>4. staging[w] # Absent
      BY <2>0, SnapshotPresent
    <3>5. Entry' = [by |-> w, intact |-> Intact(staging[w])]
      BY <2>0, <3>1, <3>4 DEF Entry, Intact, Sums, Names
    <3>6. Intact(staging[w]) \in BOOLEAN
      BY DEF Intact
    <3> QED
      BY <2>0, <3>1, <3>2, <3>3, <3>5, <3>6 DEF Abstract!Publish, Abstract!Nothing
  <2>2. CASE dest # Absent
    BY <1>t, <1>5, <2>2, Quiet DEF PublishDirectory
  <2> QED
    BY <2>1, <2>2
<1>6. ASSUME NEW w \in Writers, Raise(w) PROVE UNCHANGED Abstract!avars \/ Abstract!GiveUp(w)
  <2>1. CASE pc[w] = "opened"
    BY <1>t, <1>6, <2>1, GivesUp DEF Raise, Staged
  <2>2. CASE pc[w] # "opened"
    <3>1. PICK s \in {"failing", "cleanup"} :
            pc' = [pc EXCEPT ![w] = s] /\ pc[w] \in {"locked"} \cup Staged /\ UNCHANGED <<dest, spoiled>>
      BY <1>6, <2>2 DEF Raise
    <3>2. StatusOf(s) = StatusOf(pc[w])
      BY <3>1 DEF Staged
    <3> QED
      BY <1>t, <3>1, <3>2, Quiet
  <2> QED
    BY <2>1, <2>2
<1>7. ASSUME NEW w \in Writers, CleanupRaises(w) PROVE Abstract!GiveUp(w)
  BY <1>t, <1>7, GivesUp DEF CleanupRaises
<1>8. ASSUME NEW w \in Writers, Crash(w) PROVE UNCHANGED Abstract!avars \/ Abstract!GiveUp(w)
  <2>1. CASE pc[w] = "published"
    BY <1>t, <1>8, <2>1, Quiet DEF Crash
  <2>2. CASE pc[w] # "published"
    BY <1>t, <1>8, <2>2, GivesUp DEF Crash
  <2> QED
    BY <2>1, <2>2
<1>9. ASSUME NEW w \in Writers, ForeignStaging(w) PROVE UNCHANGED Abstract!avars \/ Abstract!Spoil(w)
  <2>1. /\ pc[w] \in Staged /\ UNCHANGED <<pc, dest>>
        /\ spoiled' = spoiled \/ spoiled' = spoiled \cup {w}
    BY <1>9 DEF ForeignStaging
  <2>2. status' = status /\ Entry' = Entry /\ status[w] = "running"
    BY <2>1 DEF status, Entry, Intact, Sums, Names, Staged
  <2> QED
    BY <2>1, <2>2 DEF Abstract!avars, Abstract!Spoil
<1>10. ASSUME ForeignDestination PROVE Abstract!Interfere
  <2>1. status' = status /\ spoiled' = spoiled
    BY <1>10 DEF ForeignDestination, status
  <2>2. CASE dest' = Absent
    BY <2>1, <2>2 DEF Entry, Abstract!Interfere, Abstract!Nothing
  <2>3. CASE dest' = [by |-> Foreign, files |-> Empty, sums |-> NoSums]
    <3>1. dest' # Absent
      BY <2>3, FreshSnapshot, SnapshotPresent
    <3>2. Entry' = [by |-> Foreign, intact |-> Intact(dest)']
      BY <2>3, <3>1 DEF Entry
    <3>3. Intact(dest)' \in BOOLEAN
      BY DEF Intact
    <3> QED
      BY <2>1, <3>2, <3>3 DEF Abstract!Interfere
  <2> QED
    BY <1>10, <2>2, <2>3 DEF ForeignDestination
<1>11. ASSUME ForeignUnlink \/ UNCHANGED vars PROVE UNCHANGED Abstract!avars
  BY <1>11 DEF ForeignUnlink, vars, Abstract!avars, status, Entry, Intact, Sums, Names
<1>12. Abstract!Interfere => Abstract!Next
  BY DEF Abstract!Next
<1> QED
  BY <1>n, <1>1, <1>2, <1>3, <1>4, <1>5, <1>6, <1>7, <1>8, <1>9, <1>10, <1>11, <1>12
     DEF Next, Step, Environment

\* fresh_output implements exclusive publication: each call is one atomic
\* appearance of an intact snapshot on a free name, or has no effect on it.
THEOREM Implements == Spec => Refines
<1>1. Init => Abstract!Init
  BY DEF Init, Abstract!Init, Abstract!Nothing, status, StatusOf, Ended, Entry
<1> QED
  BY <1>1, AbstractStep, Invariance, PTL DEF Spec, Refines, Abstract!Spec

----------------------------------------------------------------------------
(* The plan (OutputPlan).                                                  *)

\* The files and directories that a set of claims asks for.
FilesOf(S) == {Path(i) : i \in {k \in S : IsFile(k)}}
DirsOf(S) ==
  {p \in OutputPaths : \E i \in S : p \in Above[Path(i)] \/ (~IsFile(i) /\ p = Path(i))}

\* The core documents are claimed after the nodes of the pack.
CoreLast == \A i, j \in Claims : i < j /\ claims[i].kind = "core" => claims[j].by # "pack"

\* Compilation has taken in the unconditional nodes without a problem, and every
\* problem has a reason.
Taken == {i \in Unconditional : i < next /\ i \notin problems}

CompileInv ==
  phase = "compile" =>
    /\ files = FilesOf(Taken) /\ dirs = DirsOf(Taken)
    /\ Compatible(Taken)
    /\ \A i \in Claims : i < next /\ i \in Trespassers => i \in problems
    /\ \A i \in problems : i < next /\ (i \in Trespassers \/ ~Compatible(Unconditional))

\* Planning has taken in the selected claims before the next one.
Before == {i \in selected : i < next}

PlanInv ==
  /\ phase \in {"plan", "write", "clash", "mismatch", "done"} =>
       files = FilesOf(Before) /\ dirs = DirsOf(Before) /\ Compatible(Before)
  /\ phase \in {"write", "clash", "mismatch", "done"} => next = N + 1

\* The producers have made what the claims they served ask for, and the pack's
\* files are there before the core documents.
WriteInv ==
  phase \in {"write", "done"} =>
    /\ todo \subseteq selected
    /\ made = FilesOf(selected \ todo) /\ madeDirs = DirsOf(selected \ todo)
    /\ \A i \in selected \ todo : claims[i].kind = "core" => \A j \in todo : claims[j].by # "pack"

\* The staging directory is empty before the producers run.
EmptyInv == phase \in {"compile", "plan"} => todo = {} /\ made = {} /\ madeDirs = {}

\* The inductive invariant.
ExactInv ==
  /\ PlanTypeOK /\ CoreLast
  /\ CompileInv /\ CompileExact
  /\ PlanInv /\ PlanExact
  /\ EmptyInv /\ WriteInv /\ PlanFits

----------------------------------------------------------------------------
(* Facts about claims. *)

LEMMA ClaimFacts ==
  ASSUME PlanTypeOK, NEW i \in Claims
  PROVE  /\ claims[i] \in ClaimSpace /\ Path(i) \in OutputPaths
         /\ Above[Path(i)] \subseteq OutputPaths /\ Path(i) \notin Above[Path(i)]
         /\ claims[i].kind \in Kinds /\ claims[i].by \in {"pack", "engine"}
         /\ claims[i].by = "engine" => (claims[i].kind = "core" <=> Path(i) \notin Reserved)
         /\ claims[i].by = "pack" => claims[i].kind # "core"
         /\ \A q \in Above[Path(i)] : Path(i) \in Reserved <=> q \in Reserved
<1>1. claims[i] \in ClaimSpace
  BY DEF PlanTypeOK
<1>2. claims[i] \in [path : OutputPaths, kind : Kinds, by : {"pack", "engine"}, always : BOOLEAN]
  BY <1>1, PlanAssumption
<1>3. Path(i) \in OutputPaths /\ claims[i].kind \in Kinds /\ claims[i].by \in {"pack", "engine"}
  BY <1>2 DEF Path
<1>4. Above[Path(i)] \subseteq OutputPaths /\ Path(i) \notin Above[Path(i)]
  BY <1>3, PlanAssumption
<1>5. \A q \in Above[Path(i)] : Path(i) \in Reserved <=> q \in Reserved
  BY <1>3, PlanAssumption
<1>6. /\ claims[i].by = "engine" => (claims[i].kind = "core" <=> Path(i) \notin Reserved)
      /\ claims[i].by = "pack" => claims[i].kind # "core"
  BY <1>1, PlanAssumption DEF Path
<1> QED
  BY <1>1, <1>3, <1>4, <1>5, <1>6

\* Two claims that block each other are both below a name of the engine or neither.
LEMMA SameSide ==
  ASSUME PlanTypeOK, NEW i \in Claims, NEW j \in Claims, Blocks(i, j)
  PROVE  Path(i) \in Reserved <=> Path(j) \in Reserved
  BY ClaimFacts DEF Blocks

\* A path collides with the files and directories of a set of claims exactly if
\* one of the claims blocks it.
LEMMA CollisionHasCulprit ==
  ASSUME PlanTypeOK, NEW S \in SUBSET Claims, NEW i \in Claims
  PROVE  \/ Above[Path(i)] \cap FilesOf(S) # {}
         \/ Path(i) \in FilesOf(S)
         \/ IsFile(i) /\ Path(i) \in DirsOf(S)
         <=> \E j \in S : Blocks(i, j)
<1>1. Path(i) \in OutputPaths
  BY ClaimFacts
<1>2. Above[Path(i)] \cap FilesOf(S) # {} <=> \E j \in S : IsFile(j) /\ Path(j) \in Above[Path(i)]
  BY DEF FilesOf
<1>3. Path(i) \in FilesOf(S) <=> \E j \in S : IsFile(j) /\ Path(j) = Path(i)
  BY DEF FilesOf
<1>4. Path(i) \in DirsOf(S) <=>
        \E j \in S : Path(i) \in Above[Path(j)] \/ (~IsFile(j) /\ Path(i) = Path(j))
  BY <1>1 DEF DirsOf
<1> QED
  BY <1>2, <1>3, <1>4 DEF Blocks

\* Taking in one more claim.
LEMMA OneMore ==
  ASSUME PlanTypeOK, NEW S \in SUBSET Claims, NEW i \in Claims
  PROVE  /\ FilesOf(S \cup {i}) = FilesOf(S) \cup (IF IsFile(i) THEN {Path(i)} ELSE {})
         /\ DirsOf(S \cup {i}) =
              DirsOf(S) \cup Above[Path(i)] \cup (IF IsFile(i) THEN {} ELSE {Path(i)})
         /\ Compatible(S) /\ (\A j \in S : ~Conflict(i, j)) => Compatible(S \cup {i})
<1>1. Path(i) \in OutputPaths /\ Above[Path(i)] \subseteq OutputPaths
  BY ClaimFacts
<1>2. FilesOf(S \cup {i}) = FilesOf(S) \cup (IF IsFile(i) THEN {Path(i)} ELSE {})
  BY DEF FilesOf
<1>3. DirsOf(S \cup {i}) =
        DirsOf(S) \cup Above[Path(i)] \cup (IF IsFile(i) THEN {} ELSE {Path(i)})
  BY <1>1 DEF DirsOf
<1>4. ASSUME NEW j \in S
      PROVE  Conflict(i, j) <=> Conflict(j, i)
  BY DEF Conflict, Blocks, Yields
<1> QED
  BY <1>2, <1>3, <1>4 DEF Compatible

\* A core document that gives way to a file asks for nothing new.
LEMMA SkippedAsksNothing ==
  ASSUME PlanTypeOK, NEW S \in SUBSET Claims, NEW i \in Claims,
         claims[i].kind = "core", Path(i) \in FilesOf(S)
  PROVE  /\ FilesOf(S \cup {i}) = FilesOf(S) /\ DirsOf(S \cup {i}) = DirsOf(S)
         /\ Compatible(S) => Compatible(S \cup {i})
<1>1. PICK j \in S : Path(j) = Path(i) /\ IsFile(j)
  BY DEF FilesOf
<1>2. IsFile(i) /\ j \in Claims
  BY DEF IsFile
<1>3. Above[Path(i)] \subseteq DirsOf(S)
  <2>1. Above[Path(j)] \subseteq OutputPaths
    BY <1>2, ClaimFacts
  <2> QED
    BY <1>1, <2>1 DEF DirsOf
<1>4. FilesOf(S) \cup {Path(i)} = FilesOf(S)
  OBVIOUS
<1>5. DirsOf(S) \cup Above[Path(i)] \cup {} = DirsOf(S)
  BY <1>3
<1>6. ASSUME Compatible(S), NEW k \in S
      PROVE  ~Conflict(i, k)
  <2>1. CASE k = j
    <3>1. Path(i) \notin Above[Path(i)]
      BY ClaimFacts
    <3> QED
      BY <1>1, <1>2, <2>1, <3>1 DEF Conflict, Blocks, Yields
  <2>2. CASE k # j
    <3>1. ~Conflict(j, k)
      BY <1>6, <2>2 DEF Compatible
    <3> QED
      BY <1>1, <1>2, <3>1 DEF Conflict, Blocks, Yields
  <2> QED
    BY <2>1, <2>2
<1>7. /\ FilesOf(S \cup {i}) = FilesOf(S) \cup {Path(i)}
      /\ DirsOf(S \cup {i}) = DirsOf(S) \cup Above[Path(i)] \cup {}
      /\ Compatible(S) /\ (\A k \in S : ~Conflict(i, k)) => Compatible(S \cup {i})
  BY <1>2, OneMore
<1> QED
  BY <1>4, <1>5, <1>6, <1>7

\* The claims before the next one, as planning goes on.
LEMMA BeforeFacts ==
  ASSUME PlanTypeOK
  PROVE  /\ next = N + 1 => Before = selected
         /\ \A i \in Claims : next = i /\ next' = i + 1 /\ selected' = selected =>
              Before' = IF i \in selected THEN Before \cup {i} ELSE Before
<1>1. N \in Nat /\ \A k \in selected : k \in Nat /\ k <= N
  BY PlanAssumption DEF PlanTypeOK, Claims
<1>2. next = N + 1 => Before = selected
  BY <1>1 DEF Before
<1>3. ASSUME NEW i \in Claims, next = i, next' = i + 1, selected' = selected
      PROVE  Before' = IF i \in selected THEN Before \cup {i} ELSE Before
  <2>1. i \in Nat
    BY DEF Claims
  <2>2. \A k \in selected : k < i + 1 <=> k < i \/ k = i
    BY <1>1, <2>1
  <2> QED
    BY <1>3, <2>2 DEF Before
<1> QED
  BY <1>2, <1>3

----------------------------------------------------------------------------
(* Compilation. *)

LEMMA InitInv == PlanInit => ExactInv
<1> SUFFICES ASSUME PlanInit
             PROVE  ExactInv
  OBVIOUS
<1>1. PlanTypeOK /\ CoreLast
  BY PlanAssumption DEF PlanInit, PlanTypeOK, CoreLast, Phases
<1>2. Taken = {}
  BY DEF PlanInit, Taken, Unconditional, Authored, Claims
<1>3. FilesOf({}) = {} /\ DirsOf({}) = {} /\ Compatible({})
  BY DEF FilesOf, DirsOf, Compatible
<1>4. CompileInv
  BY <1>2, <1>3 DEF PlanInit, CompileInv, Claims
<1> QED
  BY <1>1, <1>4 DEF PlanInit, ExactInv, CompileExact, PlanInv, PlanExact, EmptyInv, WriteInv, PlanFits

\* An unconditional node that is taken in.
LEMMA CompileClaimInv ==
  ASSUME ExactInv, NEW i \in Claims, CompileClaim(i)
  PROVE  ExactInv'
<1> USE DEF ExactInv
<1>1. /\ phase = "compile" /\ phase' = "compile" /\ next = i /\ next' = i + 1
      /\ UNCHANGED <<claims, selected, todo, made, madeDirs>>
  BY DEF CompileClaim, input, production
<1>2. i \in Nat /\ i <= N /\ N \in Nat
  BY PlanAssumption DEF Claims
<1>3. Path(i) \in OutputPaths /\ Above[Path(i)] \subseteq OutputPaths
  BY ClaimFacts
<1>4. /\ \A S : FilesOf(S)' = FilesOf(S) /\ DirsOf(S)' = DirsOf(S)
      /\ \A S : Compatible(S)' <=> Compatible(S)
      /\ Unconditional' = Unconditional /\ Trespassers' = Trespassers
      /\ CoreLast'
  BY <1>1 DEF FilesOf, DirsOf, Compatible, Conflict, Blocks, Yields, IsFile, Path,
    Unconditional, Authored, Trespassers, CoreLast
<1>5. PlanTypeOK'
  <2>1. next' \in 1 .. N + 1
    BY <1>1, <1>2, PlanAssumption DEF Claims
  <2>2. files' \subseteq OutputPaths /\ dirs' \subseteq OutputPaths
    <3>1. (UNCHANGED <<files, dirs>>) \/ Register(i)
      BY DEF CompileClaim
    <3> QED
      BY <1>3, <3>1 DEF Register, PlanTypeOK
  <2>3. problems' \subseteq Claims
    BY DEF CompileClaim, PlanTypeOK
  <2> QED
    BY <1>1, <2>1, <2>2, <2>3 DEF PlanTypeOK, Phases
<1>6. CompileInv'
  <2>1. CASE Trespasses(i) \/ (i \in Unconditional /\ ~Trespasses(i) /\ Collides(i))
    <3>1. problems' = problems \cup {i} /\ UNCHANGED <<files, dirs>>
      BY <2>1 DEF CompileClaim, Unconditional, Authored
    <3>2. Taken' = Taken
      BY <1>1, <1>2, <1>4, <3>1 DEF Taken, PlanTypeOK, Unconditional, Authored, Claims
    <3>3. i \in Trespassers \/ ~Compatible(Unconditional)
      <4>1. CASE Trespasses(i)
        BY <4>1 DEF Trespasses, Trespassers, Authored
      <4>2. CASE i \in Unconditional /\ Collides(i)
        <5>1. files = FilesOf(Taken) /\ dirs = DirsOf(Taken) /\ Taken \subseteq Claims
          BY <1>1 DEF CompileInv, Taken, Unconditional, Authored
        <5>2. PICK j \in Taken : Blocks(i, j)
          BY <4>2, <5>1, CollisionHasCulprit DEF Collides
        <5>3. j \in Unconditional /\ i # j
          BY <1>1, <1>2 DEF Taken, Unconditional, Authored, Claims
        <5>4. claims[i].kind # "core" /\ claims[j].kind # "core"
          BY <4>2, <5>3, ClaimFacts DEF Unconditional, Authored
        <5> QED
          BY <4>2, <5>2, <5>3, <5>4 DEF Compatible, Conflict, Yields
      <4> QED
        BY <2>1, <4>1, <4>2
    <3> QED
      BY <1>1, <1>2, <1>4, <3>1, <3>2, <3>3 DEF CompileInv, Claims, PlanTypeOK
  <2>2. CASE i \in Unconditional /\ ~Trespasses(i) /\ ~Collides(i)
    <3>1. problems' = problems /\ Register(i)
      BY <2>2 DEF CompileClaim, Unconditional, Authored
    <3>2. i \notin problems
      BY <1>1, <1>2 DEF CompileInv
    <3>3. Taken' = Taken \cup {i}
      BY <1>1, <1>2, <1>4, <2>2, <3>1, <3>2 DEF Taken, Unconditional, Authored, Claims
    <3>4. Taken \in SUBSET Claims /\ files = FilesOf(Taken) /\ dirs = DirsOf(Taken)
      BY <1>1 DEF Taken, Unconditional, Authored, CompileInv
    <3>5. \A j \in Taken : ~Blocks(i, j)
      BY <2>2, <3>4, CollisionHasCulprit DEF Collides
    <3>6. Compatible(Taken \cup {i})
      BY <1>1, <3>4, <3>5, OneMore DEF CompileInv, Conflict
    <3>7. files' = FilesOf(Taken \cup {i}) /\ dirs' = DirsOf(Taken \cup {i})
      BY <3>1, <3>4, OneMore DEF Register
    <3>8. i \notin Trespassers
      BY <2>2 DEF Trespassers, Trespasses, Authored
    <3> QED
      BY <1>1, <1>2, <1>4, <3>1, <3>3, <3>6, <3>7, <3>8 DEF CompileInv, Claims, PlanTypeOK
  <2>3. CASE i \notin Unconditional /\ ~Trespasses(i)
    <3>1. UNCHANGED <<problems, files, dirs>>
      BY <2>3 DEF CompileClaim, Unconditional, Authored
    <3>2. Taken' = Taken
      BY <1>1, <1>2, <1>4, <2>3, <3>1 DEF Taken, Unconditional, Authored, Claims
    <3>3. i \notin Trespassers
      BY <2>3 DEF Trespassers, Trespasses, Authored
    <3> QED
      BY <1>1, <1>2, <1>4, <3>1, <3>2, <3>3 DEF CompileInv, Claims, PlanTypeOK
  <2> QED
    BY <2>1, <2>2, <2>3
<1> QED
  BY <1>1, <1>4, <1>5, <1>6 DEF CompileExact, PlanInv, PlanExact, EmptyInv, WriteInv, PlanFits

\* The verdict of the compilation.
LEMMA CompiledInv ==
  ASSUME ExactInv, Compiled
  PROVE  ExactInv'
<1> USE DEF ExactInv
<1>1. /\ phase = "compile" /\ next = N + 1 /\ next' = 1 /\ files' = {} /\ dirs' = {}
      /\ phase' = IF problems = {} THEN "plan" ELSE "invalid"
      /\ UNCHANGED <<claims, selected, problems, todo, made, madeDirs>>
  BY DEF Compiled, input, production
<1>2. N \in Nat /\ \A i \in Claims : i < N + 1 /\ ~(i < 1)
  BY PlanAssumption DEF Claims
<1>3. /\ \A S : FilesOf(S)' = FilesOf(S) /\ DirsOf(S)' = DirsOf(S)
      /\ \A S : Compatible(S)' <=> Compatible(S)
      /\ Unconditional' = Unconditional /\ Trespassers' = Trespassers
      /\ CoreLast'
  BY <1>1 DEF FilesOf, DirsOf, Compatible, Conflict, Blocks, Yields, IsFile, Path,
    Unconditional, Authored, Trespassers, CoreLast
<1>4. PlanTypeOK'
  BY <1>1, <1>2 DEF PlanTypeOK, Phases
<1>5. CompileExact'
  <2>1. CASE problems = {}
    <3>1. Trespassers = {}
      BY <1>1, <1>2, <2>1 DEF CompileInv, Trespassers, Authored
    <3>2. Taken = Unconditional
      BY <1>1, <1>2, <2>1 DEF Taken, Unconditional, Authored
    <3> QED
      BY <1>1, <1>3, <2>1, <3>1, <3>2 DEF CompileInv, CompileExact
  <2>2. CASE problems # {}
    <3>1. Trespassers # {} \/ ~Compatible(Unconditional)
      BY <1>1, <2>2 DEF CompileInv
    <3> QED
      BY <1>1, <1>3, <2>2, <3>1 DEF CompileExact
  <2> QED
    BY <2>1, <2>2
<1>6. PlanInv'
  <2>1. Before' = {}
    BY <1>1, <1>2 DEF Before, PlanTypeOK
  <2>2. FilesOf({}) = {} /\ DirsOf({}) = {} /\ Compatible({})
    BY DEF FilesOf, DirsOf, Compatible
  <2> QED
    BY <1>1, <1>3, <2>1, <2>2 DEF PlanInv
<1> QED
  BY <1>1, <1>3, <1>4, <1>5, <1>6 DEF CompileInv, PlanExact, EmptyInv, WriteInv, PlanFits

----------------------------------------------------------------------------
(* Planning. *)

LEMMA PlanClaimInv ==
  ASSUME ExactInv, NEW i \in Claims, PlanClaim(i)
  PROVE  ExactInv'
<1> USE DEF ExactInv
<1>1. /\ phase = "plan" /\ next = i /\ next' = i + 1
      /\ UNCHANGED <<claims, selected, todo, made, madeDirs>>
  BY DEF PlanClaim, input, production
<1>2. i \in Nat /\ i <= N /\ N \in Nat
  BY PlanAssumption DEF Claims
<1>3. Path(i) \in OutputPaths /\ Above[Path(i)] \subseteq OutputPaths
  BY ClaimFacts
<1>4. /\ \A S : FilesOf(S)' = FilesOf(S) /\ DirsOf(S)' = DirsOf(S)
      /\ \A S : Compatible(S)' <=> Compatible(S)
      /\ Unconditional' = Unconditional /\ Trespassers' = Trespassers
      /\ CoreLast'
  BY <1>1 DEF FilesOf, DirsOf, Compatible, Conflict, Blocks, Yields, IsFile, Path,
    Unconditional, Authored, Trespassers, CoreLast
<1>5. PlanTypeOK'
  <2>1. next' \in 1 .. N + 1
    BY <1>1, <1>2, PlanAssumption DEF Claims
  <2>2. files' \subseteq OutputPaths /\ dirs' \subseteq OutputPaths
    <3>1. (UNCHANGED <<files, dirs>>) \/ Register(i)
      BY DEF PlanClaim
    <3> QED
      BY <1>3, <3>1 DEF Register, PlanTypeOK
  <2>3. problems' \subseteq Claims /\ phase' \in Phases
    BY DEF PlanClaim, PlanTypeOK, Phases
  <2> QED
    BY <1>1, <2>1, <2>2, <2>3 DEF PlanTypeOK
<1>6. /\ Trespassers = {} /\ Compatible(Unconditional)
      /\ files = FilesOf(Before) /\ dirs = DirsOf(Before) /\ Compatible(Before)
      /\ Before \in SUBSET Claims
  BY <1>1 DEF CompileExact, PlanInv, Before, PlanTypeOK
<1>7. ~Trespasses(i)
  BY <1>6 DEF Trespasses, Trespassers, Authored
<1>8. CompileExact'
  BY <1>1, <1>4, <1>6 DEF CompileExact, PlanClaim
<1>9. CASE i \notin selected
  <2>1. UNCHANGED <<phase, files, dirs, problems>>
    BY <1>9 DEF PlanClaim
  <2>2. Before' = Before
    BY <1>1, <1>9, BeforeFacts
  <2>3. PlanInv'
    BY <1>1, <1>4, <1>6, <2>1, <2>2 DEF PlanInv
  <2> QED
    BY <1>1, <1>4, <1>5, <1>8, <2>1, <2>3 DEF CompileInv, PlanExact, EmptyInv, WriteInv, PlanFits
<1>10. CASE i \in selected /\ Skipped(i)
  <2>1. UNCHANGED <<phase, files, dirs, problems>>
    BY <1>10 DEF PlanClaim
  <2>2. Before' = Before \cup {i}
    BY <1>1, <1>10, BeforeFacts
  <2>3. /\ FilesOf(Before \cup {i}) = FilesOf(Before) /\ DirsOf(Before \cup {i}) = DirsOf(Before)
        /\ Compatible(Before \cup {i})
    BY <1>6, <1>10, SkippedAsksNothing DEF Skipped
  <2>4. PlanInv'
    BY <1>1, <1>4, <1>6, <2>1, <2>2, <2>3 DEF PlanInv
  <2> QED
    BY <1>1, <1>4, <1>5, <1>8, <2>1, <2>4 DEF CompileInv, PlanExact, EmptyInv, WriteInv, PlanFits
<1>11. CASE i \in selected /\ ~Skipped(i) /\ Collides(i)
  <2>1. phase' = "rejected"
    BY <1>11 DEF PlanClaim
  <2>2. PICK j \in Before : Blocks(i, j)
    BY <1>6, <1>11, CollisionHasCulprit DEF Collides
  <2>3. j \in selected /\ j \in Claims /\ j < i /\ j # i
    BY <1>1, <1>2, <1>6, <2>2 DEF Before
  <2>4. Path(i) \in Reserved <=> Path(j) \in Reserved
    BY <2>2, <2>3, SameSide
  <2>5. claims[i].by = claims[j].by \/ claims[i].kind = "core" \/ claims[j].kind = "core"
    <3>1. \A k \in Claims : claims[k].by = "pack" => Path(k) \notin Reserved
      BY <1>6 DEF Trespassers, Authored
    <3>2. /\ claims[i].by \in {"pack", "engine"} /\ claims[j].by \in {"pack", "engine"}
          /\ claims[i].by = "engine" /\ claims[i].kind # "core" => Path(i) \in Reserved
          /\ claims[j].by = "engine" /\ claims[j].kind # "core" => Path(j) \in Reserved
      BY <2>3, ClaimFacts
    <3> QED
      BY <2>3, <2>4, <3>1, <3>2
  <2>6. ~Yields(i, j)
    <3> SUFFICES ASSUME Yields(i, j)
                 PROVE  FALSE
      OBVIOUS
    <3>1. Path(i) \in files
      BY <1>6, <2>2 DEF Yields, FilesOf
    <3>2. claims[i].kind # "core" /\ claims[j].kind = "core"
      BY <1>11, <3>1 DEF Skipped, Yields
    <3>3. claims[i].by = "engine"
      BY <2>3, <3>2, ClaimFacts DEF CoreLast
    <3>4. claims[j].by = "engine"
      BY <2>3, <3>2, ClaimFacts
    <3>5. Path(i) \in Reserved /\ Path(j) \notin Reserved
      BY <2>3, <3>2, <3>3, <3>4, ClaimFacts
    <3> QED
      BY <2>4, <3>5
  <2>7. Conflict(i, j)
    BY <2>2, <2>6 DEF Conflict
  <2>8. PlanExact'
    BY <1>1, <2>1, <2>3, <2>5, <2>7, <1>11 DEF PlanExact, Conflict, Blocks, Yields, IsFile, Path
  <2> QED
    BY <1>4, <1>5, <1>8, <2>1, <2>8 DEF CompileInv, PlanInv, EmptyInv, WriteInv, PlanFits
<1>12. CASE i \in selected /\ ~Skipped(i) /\ ~Collides(i)
  <2>1. UNCHANGED <<phase, problems>> /\ Register(i)
    BY <1>7, <1>12 DEF PlanClaim
  <2>2. Before' = Before \cup {i}
    BY <1>1, <1>12, BeforeFacts
  <2>3. \A j \in Before : ~Conflict(i, j)
    BY <1>6, <1>12, CollisionHasCulprit DEF Collides, Conflict
  <2>4. /\ files' = FilesOf(Before \cup {i}) /\ dirs' = DirsOf(Before \cup {i})
        /\ Compatible(Before \cup {i})
    BY <1>6, <2>1, <2>3, OneMore DEF Register
  <2>5. PlanInv'
    BY <1>1, <1>4, <2>1, <2>2, <2>4 DEF PlanInv
  <2> QED
    BY <1>1, <1>4, <1>5, <1>8, <2>1, <2>5 DEF CompileInv, PlanExact, EmptyInv, WriteInv, PlanFits
<1> QED
  BY <1>9, <1>10, <1>11, <1>12

LEMMA PlannedInv ==
  ASSUME ExactInv, Planned
  PROVE  ExactInv'
<1> USE DEF ExactInv
<1>1. /\ phase = "plan" /\ next = N + 1 /\ phase' = "write" /\ todo' = selected
      /\ UNCHANGED <<claims, selected, next, files, dirs, problems, made, madeDirs>>
  BY DEF Planned, input
<1>2. /\ \A S : FilesOf(S)' = FilesOf(S) /\ DirsOf(S)' = DirsOf(S)
      /\ \A S : Compatible(S)' <=> Compatible(S)
      /\ Unconditional' = Unconditional /\ Trespassers' = Trespassers
      /\ CoreLast' /\ Before' = Before
  BY <1>1 DEF FilesOf, DirsOf, Compatible, Conflict, Blocks, Yields, IsFile, Path,
    Unconditional, Authored, Trespassers, CoreLast, Before
<1>3. Before = selected
  BY <1>1, BeforeFacts
<1>4. PlanTypeOK'
  BY <1>1 DEF PlanTypeOK, Phases
<1>5. CompileExact' /\ PlanInv' /\ PlanExact'
  BY <1>1, <1>2, <1>3 DEF CompileExact, PlanInv, PlanExact
<1>6. WriteInv'
  <2>1. selected \ selected = {} /\ FilesOf({}) = {} /\ DirsOf({}) = {}
    BY DEF FilesOf, DirsOf
  <2> QED
    BY <1>1, <1>2, <2>1 DEF WriteInv, EmptyInv
<1> QED
  BY <1>1, <1>2, <1>4, <1>5, <1>6 DEF CompileInv, EmptyInv, PlanFits

----------------------------------------------------------------------------
(* The producers. *)

LEMMA WriteStepInv ==
  ASSUME ExactInv, NEW i \in Claims, Write(i)
  PROVE  ExactInv'
<1> USE DEF ExactInv
<1>1. /\ phase = "write" /\ i \in todo /\ todo' = todo \ {i} /\ Ready(i)
      /\ UNCHANGED <<claims, selected, next, files, dirs, problems>>
  BY DEF Write, input
<1> DEFINE Served == selected \ todo
<1>2. /\ \A S : FilesOf(S)' = FilesOf(S) /\ DirsOf(S)' = DirsOf(S)
      /\ \A S : Compatible(S)' <=> Compatible(S)
      /\ Unconditional' = Unconditional /\ Trespassers' = Trespassers
      /\ CoreLast' /\ Before' = Before
  BY <1>1 DEF FilesOf, DirsOf, Compatible, Conflict, Blocks, Yields, IsFile, Path,
    Unconditional, Authored, Trespassers, CoreLast, Before
<1>3. /\ made = FilesOf(Served) /\ madeDirs = DirsOf(Served) /\ Served \in SUBSET Claims
      /\ Compatible(selected) /\ Trespassers = {} /\ i \in selected /\ i \notin Served
      /\ Served \cup {i} = selected \ todo'
  <2>1. Before = selected
    BY <1>1, BeforeFacts DEF PlanInv
  <2> QED
    BY <1>1, <2>1 DEF WriteInv, PlanInv, CompileExact, PlanTypeOK
<1>4. \A j \in Served : ~Conflict(i, j)
  BY <1>3 DEF Compatible
<1>5. Compatible(Served)
  BY <1>3 DEF Compatible
<1>6. Path(i) \in OutputPaths /\ Above[Path(i)] \subseteq OutputPaths
  BY ClaimFacts
<1>7. \A j \in selected \ todo' : claims[j].kind = "core" => \A k \in todo' : claims[k].by # "pack"
  BY <1>1, <1>3 DEF WriteInv, Ready
<1>8. CASE Present(i)
  <2>1. UNCHANGED <<phase, made, madeDirs>>
    BY <1>8 DEF Write
  <2>2. claims[i].kind = "core" /\ IsFile(i)
    BY <1>8 DEF Present, IsFile
  <2>3. Path(i) \in FilesOf(Served)
    <3>1. SUFFICES ASSUME Path(i) \in DirsOf(Served)
                   PROVE  FALSE
      BY <1>3, <1>8 DEF Present
    <3>2. PICK j \in Served : Path(i) \in Above[Path(j)] \/ (~IsFile(j) /\ Path(i) = Path(j))
      BY <3>1 DEF DirsOf
    <3>3. Path(j) \notin Above[Path(j)]
      BY <1>3, ClaimFacts
    <3> QED
      BY <1>4, <2>2, <3>2, <3>3 DEF Conflict, Blocks, Yields
  <2>4. FilesOf(Served \cup {i}) = made /\ DirsOf(Served \cup {i}) = madeDirs
    BY <1>3, <2>2, <2>3, SkippedAsksNothing
  <2>5. WriteInv'
    BY <1>1, <1>2, <1>3, <1>7, <2>1, <2>4 DEF WriteInv
  <2>6. PlanTypeOK'
    BY <1>1, <2>1 DEF PlanTypeOK
  <2> QED
    BY <1>1, <1>2, <2>1, <2>5, <2>6 DEF CompileInv, CompileExact, PlanInv, PlanExact, EmptyInv,
      PlanFits
<1>9. CASE ~Present(i)
  <2>1. \A j \in Served : ~Blocks(i, j)
    <3> SUFFICES ASSUME NEW j \in Served, Blocks(i, j)
                 PROVE  FALSE
      OBVIOUS
    <3>1. Yields(i, j) /\ j \in Claims
      BY <1>3, <1>4 DEF Conflict
    <3>2. Path(i) \in made
      BY <1>3, <3>1 DEF Yields, FilesOf
    <3>3. claims[i].kind # "core" /\ claims[j].kind = "core"
      BY <1>9, <3>1, <3>2 DEF Present, Yields
    <3>4. claims[i].by = "engine"
      BY <1>1, <1>3, <3>3, ClaimFacts DEF WriteInv
    <3>5. claims[j].by = "engine"
      BY <3>1, <3>3, ClaimFacts
    <3>6. Path(i) \in Reserved /\ Path(j) \notin Reserved
      BY <3>1, <3>3, <3>4, <3>5, ClaimFacts
    <3> QED
      BY <3>1, <3>6 DEF Yields
  <2>2. ~ (\/ Above[Path(i)] \cap made # {}
           \/ Path(i) \in made
           \/ IsFile(i) /\ Path(i) \in madeDirs)
    BY <1>3, <2>1, CollisionHasCulprit
  <2>3. /\ made' = made \cup (IF IsFile(i) THEN {Path(i)} ELSE {})
        /\ madeDirs' = madeDirs \cup Above[Path(i)] \cup (IF IsFile(i) THEN {} ELSE {Path(i)})
        /\ phase' = phase
    BY <1>9, <2>2 DEF Write
  <2>4. made' = FilesOf(Served \cup {i}) /\ madeDirs' = DirsOf(Served \cup {i})
    BY <1>3, <2>3, OneMore
  <2>5. WriteInv'
    BY <1>1, <1>2, <1>3, <1>7, <2>3, <2>4 DEF WriteInv
  <2>6. PlanTypeOK'
    BY <1>1, <1>6, <2>3 DEF PlanTypeOK
  <2> QED
    BY <1>1, <1>2, <2>3, <2>5, <2>6 DEF CompileInv, CompileExact, PlanInv, PlanExact, EmptyInv,
      PlanFits
<1> QED
  BY <1>8, <1>9

LEMMA CompareInv ==
  ASSUME ExactInv, Compare
  PROVE  ExactInv'
<1> USE DEF ExactInv
<1>1. /\ phase = "write" /\ todo = {}
      /\ phase' = IF made = files THEN "done" ELSE "mismatch"
      /\ UNCHANGED <<claims, selected, next, files, dirs, problems, todo, made, madeDirs>>
  BY DEF Compare, input, production
<1>2. /\ \A S : FilesOf(S)' = FilesOf(S) /\ DirsOf(S)' = DirsOf(S)
      /\ \A S : Compatible(S)' <=> Compatible(S)
      /\ Unconditional' = Unconditional /\ Trespassers' = Trespassers
      /\ CoreLast' /\ Before' = Before
  BY <1>1 DEF FilesOf, DirsOf, Compatible, Conflict, Blocks, Yields, IsFile, Path,
    Unconditional, Authored, Trespassers, CoreLast, Before
<1>3. made = files
  <2>1. Before = selected
    BY <1>1, BeforeFacts DEF PlanInv
  <2>2. selected \ todo = selected
    BY <1>1
  <2> QED
    BY <1>1, <2>1, <2>2 DEF PlanInv, WriteInv
<1>4. phase' = "done"
  BY <1>1, <1>3
<1>5. PlanTypeOK'
  BY <1>1, <1>4 DEF PlanTypeOK, Phases
<1> QED
  BY <1>1, <1>2, <1>4, <1>5 DEF CompileInv, CompileExact, PlanInv, PlanExact, EmptyInv, WriteInv,
    PlanFits

----------------------------------------------------------------------------
(* The theorems. *)

LEMMA PlanInvariance == PlanSpec => []ExactInv
<1>1. ASSUME ExactInv, UNCHANGED planVars
      PROVE  ExactInv'
  <2>1. UNCHANGED <<claims, selected, phase, next, files, dirs, problems, todo, made, madeDirs>>
    BY <1>1 DEF planVars
  <2>2. /\ \A S : FilesOf(S)' = FilesOf(S) /\ DirsOf(S)' = DirsOf(S)
        /\ \A S : Compatible(S)' <=> Compatible(S)
        /\ Unconditional' = Unconditional /\ Trespassers' = Trespassers
        /\ Before' = Before /\ Taken' = Taken
        /\ (CoreLast' <=> CoreLast) /\ (PlanExact' <=> PlanExact)
    BY <2>1 DEF FilesOf, DirsOf, Compatible, Conflict, Blocks, Yields, IsFile, Path,
      Unconditional, Authored, Trespassers, CoreLast, Before, Taken, PlanExact
  <2>3. PlanTypeOK' <=> PlanTypeOK
    BY <2>1 DEF PlanTypeOK
  <2> QED
    BY <1>1, <2>1, <2>2, <2>3 DEF ExactInv, CompileInv, CompileExact, PlanInv, EmptyInv, WriteInv,
      PlanFits
<1>2. ASSUME ExactInv, [PlanNext]_planVars
      PROVE  ExactInv'
  <2>1. ASSUME NEW i \in Claims, CompileClaim(i)
        PROVE  ExactInv'
    BY <1>2, <2>1, CompileClaimInv
  <2>2. ASSUME NEW i \in Claims, PlanClaim(i)
        PROVE  ExactInv'
    BY <1>2, <2>2, PlanClaimInv
  <2>3. ASSUME NEW i \in Claims, Write(i)
        PROVE  ExactInv'
    BY <1>2, <2>3, WriteStepInv
  <2>4. CASE Compiled
    BY <1>2, <2>4, CompiledInv
  <2>5. CASE Planned
    BY <1>2, <2>5, PlannedInv
  <2>6. CASE Compare
    BY <1>2, <2>6, CompareInv
  <2> QED
    BY <1>1, <1>2, <2>1, <2>2, <2>3, <2>4, <2>5, <2>6 DEF PlanNext
<1> QED
  BY <1>2, InitInv, PTL DEF PlanSpec

\* The inventory, the plan and the staging directory keep their types.
THEOREM PlanTypeCorrect == PlanSpec => []PlanTypeOK
<1>1. ExactInv => PlanTypeOK
  BY DEF ExactInv
<1> QED
  BY <1>1, PlanInvariance, PTL

\* Compilation reports a problem exactly for the packs that deserve one.
THEOREM CompileVerdict == PlanSpec => []CompileExact
<1>1. ExactInv => CompileExact
  BY DEF ExactInv
<1> QED
  BY <1>1, PlanInvariance, PTL

\* Planning rejects exactly the selections that cannot coexist, never for a
\* clash of the pack with the engine's own names.
THEOREM PlanVerdict == PlanSpec => []PlanExact
<1>1. ExactInv => PlanExact
  BY DEF ExactInv
<1> QED
  BY <1>1, PlanInvariance, PTL

\* An accepted plan can be carried out by the producers in any order and
\* leaves exactly the planned files.
THEOREM PlanCarriedOut == PlanSpec => []PlanFits
<1>1. ExactInv => PlanFits
  BY DEF ExactInv
<1> QED
  BY <1>1, PlanInvariance, PTL

=============================================================================
