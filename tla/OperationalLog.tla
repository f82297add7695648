--------------------------- MODULE OperationalLog ---------------------------
(***************************************************************************)
(* The operational log: FsLogger (adapters/logging/fs/fs_log.py) appending *)
(* JSON records to a file that several invocations share, and the lifecycle*)
(* of one invocation around its handler (_run and _failed_log in           *)
(* app/cli/main.py).                                                       *)
(*                                                                         *)
(* The file is a sequence of complete lines and what follows the last      *)
(* newline: nothing, a whole record, or bytes that are no record.          *)
(*                                                                         *)
(* Definitions marked "Faulty" are no part of the specification: each is a *)
(* mistake the code avoids, kept beside the step it would change to show   *)
(* that a property below rejects it.                                       *)
(***************************************************************************)
EXTENDS Naturals, SequencesExt

CONSTANTS
  Runs,      \* invocations with the same --log-jsonl
  Live,      \* those the scheduler keeps running unless they are killed
  MaxEdits   \* bound on the steps of an unrelated editor of the log

ASSUME LogAssumption == Live \subseteq Runs /\ MaxEdits \in Nat

VARIABLES
  pc,         \* where each invocation stands
  job,        \* the record it is appending
  sep,        \* whether the write under way starts with a separator
  noted,      \* whether its handler has appended its record
  completed,  \* whether its handler has returned
  notice,     \* whether it said on stderr that output may already exist
  code,       \* its exit code, NoCode while it runs
  lines,      \* the complete lines of the log
  tail,       \* what follows the last newline
  edits,      \* steps taken by the editor
  disturbed   \* whether the editor acted between the check and the write of a run

vars == <<pc, job, sep, noted, completed, notice, code, lines, tail, edits, disturbed>>
log == <<lines, tail>>
editor == <<edits, disturbed>>

NoCode == 2
Events == {"start", "note", "complete", "failed"}
Records == [run : Runs, event : Events]
Empty == [text |-> "empty"]
Torn == [text |-> "torn"]

\* Jobs: "result" is the command.failed of a handler that returned an error
\* code, "error" the one that _failed_log appends.
Jobs == {"start", "note", "complete", "result", "error"}

Record(r) == [run |-> r, event |-> IF job[r] \in {"result", "error"} THEN "failed" ELSE job[r]]

Inside == {"locked", "writing"}
Stages == {"idle", "body", "waiting", "done", "died"} \cup Inside

Init ==
  /\ pc = [r \in Runs |-> "idle"]
  /\ job = [r \in Runs |-> "start"]
  /\ sep = [r \in Runs |-> FALSE]
  /\ noted = [r \in Runs |-> FALSE]
  /\ completed = [r \in Runs |-> FALSE]
  /\ notice = [r \in Runs |-> FALSE]
  /\ code = [r \in Runs |-> NoCode]
  /\ lines = <<>> /\ tail = Empty
  /\ edits = 0 /\ disturbed = FALSE

To(r, stage) == pc' = [pc EXCEPT ![r] = stage]
Append1(r, what) == To(r, "waiting") /\ job' = [job EXCEPT ![r] = what]

----------------------------------------------------------------------------
(* _run. *)

Start(r) ==
  /\ pc[r] = "idle"
  /\ Append1(r, "start")
  /\ UNCHANGED <<sep, noted, completed, notice, code, log, editor>>

\* The handler logs an event of its own.
Note(r) ==
  /\ pc[r] = "body" /\ ~noted[r]
  /\ Append1(r, "note")
  /\ noted' = [noted EXCEPT ![r] = TRUE]
  /\ UNCHANGED <<sep, completed, notice, code, log, editor>>

\* Faulty: the run counts as completed only once that is logged.
ReturnUnmarked(r) ==
  /\ pc[r] = "body"
  /\ \E what \in {"complete", "result"} : Append1(r, what)
  /\ UNCHANGED <<sep, noted, completed, notice, code, log, editor>>

\* The handler returns zero or an error code.
Return(r) ==
  /\ pc[r] = "body"
  /\ completed' = [completed EXCEPT ![r] = TRUE]
  /\ \E what \in {"complete", "result"} : Append1(r, what)
  /\ UNCHANGED <<sep, noted, notice, code, log, editor>>

\* Faulty: an append that fails is tried again.
Retry(r) ==
  IF job[r] = "error"
    THEN To(r, "done") /\ code' = [code EXCEPT ![r] = 1] /\ UNCHANGED <<job, notice>>
    ELSE Append1(r, job[r]) /\ UNCHANGED <<notice, code>>

\* The except clause: the error and the notice go to stderr, _failed_log tries
\* to append; a failure of that append is swallowed.
Fail(r) ==
  IF job[r] = "error"
    THEN To(r, "done") /\ code' = [code EXCEPT ![r] = 1] /\ UNCHANGED <<job, notice>>
    ELSE /\ Append1(r, "error")
         /\ notice' = [notice EXCEPT ![r] = completed[r]]
         /\ UNCHANGED code

\* The handler raises.
Raise(r) ==
  /\ pc[r] = "body"
  /\ Fail(r)
  /\ UNCHANGED <<sep, noted, completed, log, editor>>

\* What follows an append that succeeded.
Appended(r) ==
  /\ To(r, IF job[r] \in {"start", "note"} THEN "body" ELSE "done")
  /\ code' = [code EXCEPT ![r] =
       CASE job[r] = "complete" -> 0 [] job[r] \in {"result", "error"} -> 1 [] OTHER -> @]
  /\ UNCHANGED <<job, notice>>

----------------------------------------------------------------------------
(* FsLogger._write. *)

Busy == \E q \in Runs : pc[q] \in Inside

\* Faulty: appenders do not exclude each other.
LockUnchecked(r) ==
  /\ pc[r] = "waiting"
  /\ To(r, "locked")
  /\ UNCHANGED <<job, sep, noted, completed, notice, code, log, editor>>

Lock(r) ==
  /\ pc[r] = "waiting" /\ ~Busy
  /\ To(r, "locked")
  /\ UNCHANGED <<job, sep, noted, completed, notice, code, log, editor>>

\* Faulty: the lock is waited for without a timeout.
NeverTimeOut(r) == FALSE

\* The lock is busy for five seconds.
TimeOut(r) ==
  /\ pc[r] = "waiting" /\ Busy
  /\ Fail(r)
  /\ UNCHANGED <<sep, noted, completed, log, editor>>

\* Faulty: the tail is only asked for its last byte.
SeparateBlindly(r) ==
  /\ pc[r] = "locked"
  /\ To(r, "writing") /\ sep' = [sep EXCEPT ![r] = tail # Empty]
  /\ UNCHANGED <<job, noted, completed, notice, code, log, editor>>

\* _append_separator: a whole record without a newline gets one, anything else
\* after the last newline is an error.
CheckTail(r) ==
  /\ pc[r] = "locked"
  /\ IF tail = Torn
       THEN Fail(r) /\ UNCHANGED sep
       ELSE /\ To(r, "writing") /\ sep' = [sep EXCEPT ![r] = tail # Empty]
            /\ UNCHANGED <<job, notice, code>>
  /\ UNCHANGED <<noted, completed, log, editor>>

\* The file after the first bytes of the separator and the record: none, the
\* separator, part of the record, the record, the record and its newline.
Cut == {"none", "separator", "part", "record", "all"}
Joined(before, text) == IF before = Empty THEN text ELSE Torn

Put(r, cut) ==
  LET parted == sep[r] /\ cut # "none"
      base == IF parted THEN Append(lines, tail) ELSE lines
      open == IF parted THEN Empty ELSE tail
  IN /\ lines' = IF cut = "all" THEN Append(base, Joined(open, Record(r))) ELSE base
     /\ tail' = CASE cut \in {"none", "separator"} -> open
                 [] cut = "part" -> Torn
                 [] cut = "record" -> Joined(open, Record(r))
                 [] cut = "all" -> Empty

Write(r) ==
  /\ pc[r] = "writing"
  /\ Put(r, "all")
  /\ Appended(r)
  /\ sep' = [sep EXCEPT ![r] = FALSE]
  /\ UNCHANGED <<noted, completed, editor>>

\* The record cannot be serialized, the lock or the file cannot be opened
\* safely, or writing, flushing or closing the file fails.
AppendFails(r) ==
  /\ \/ pc[r] \in {"waiting", "locked"} /\ UNCHANGED log
     \/ pc[r] = "writing" /\ \E cut \in Cut : Put(r, cut)
  /\ Fail(r)
  /\ sep' = [sep EXCEPT ![r] = FALSE]
  /\ UNCHANGED <<noted, completed, editor>>

Step(r) ==
  \/ Start(r) \/ Note(r) \/ Return(r)
  \/ Lock(r) \/ TimeOut(r) \/ CheckTail(r) \/ Write(r)

----------------------------------------------------------------------------
(* The environment. *)

\* The process is killed, or ends with an exception _run does not handle,
\* perhaps in the middle of a write.
Crash(r) ==
  /\ pc[r] \notin {"idle", "done", "died"}
  /\ To(r, "died")
  /\ IF pc[r] = "writing" THEN \E cut \in Cut : Put(r, cut) ELSE UNCHANGED log
  /\ sep' = [sep EXCEPT ![r] = FALSE]
  /\ UNCHANGED <<job, noted, completed, notice, code, editor>>

\* An editor strips the last newline, truncates the last line or empties the log.
Edit ==
  /\ edits < MaxEdits
  /\ edits' = edits + 1
  /\ \/ /\ tail = Empty /\ lines # <<>>
        /\ lines' = Front(lines) /\ tail' \in {Last(lines), Torn}
     \/ tail # Empty /\ tail' = Torn /\ UNCHANGED lines
     \/ lines' = <<>> /\ tail' = Empty
  /\ disturbed' = (disturbed \/ \E r \in Runs : pc[r] = "writing")
  /\ UNCHANGED <<pc, job, sep, noted, completed, notice, code>>

Next ==
  \/ \E r \in Runs : Step(r) \/ Raise(r) \/ AppendFails(r) \/ Crash(r)
  \/ Edit

Spec == Init /\ [][Next]_vars

\* Only the live runs are promised to go on; the others may stop anywhere, the
\* lock in hand.
FairSpec == Spec /\ \A r \in Live : WF_vars(Step(r))

----------------------------------------------------------------------------

TypeOK ==
  /\ pc \in [Runs -> Stages] /\ job \in [Runs -> Jobs]
  /\ sep \in [Runs -> BOOLEAN] /\ noted \in [Runs -> BOOLEAN]
  /\ completed \in [Runs -> BOOLEAN] /\ notice \in [Runs -> BOOLEAN]
  /\ code \in [Runs -> {0, 1, NoCode}]
  /\ lines \in Seq(Records \cup {Empty, Torn})
  /\ tail \in Records \cup {Empty, Torn}
  /\ edits \in 0 .. MaxEdits /\ disturbed \in BOOLEAN

\* Every complete line is one whole record, whoever was killed while writing
\* and whatever an editor left at the end of the file.
LinesSound == ~disturbed => \A k \in 1 .. Len(lines) : lines[k] \in Records

\* Appending keeps what is there: no line changes, a record without a newline
\* stays a record, and nothing is added after a truncated one.
AppendOnly ==
  [][edits' = edits /\ ~disturbed =>
       /\ IsPrefix(lines, lines')
       /\ tail \in Records => tail' = tail \/ (IsPrefix(Append(lines, tail), lines'))
       /\ tail = Torn => UNCHANGED log]_vars

All == IF tail \in Records THEN Append(lines, tail) ELSE lines
Logged(r, event) == \E k \in 1 .. Len(All) : All[k] = [run |-> r, event |-> event]

\* The records of a run tell its life in order, and a command completes once.
Order(event) == CASE event = "start" -> 1 [] event = "note" -> 2 [] event = "complete" -> 3
                  [] event = "failed" -> 4

LifeInOrder ==
  edits = 0 => \A j, k \in 1 .. Len(All) :
    j < k /\ All[j].run = All[k].run =>
      \/ Order(All[j].event) < Order(All[k].event)
      \/ All[j].event = "failed" /\ All[k].event = "failed"

\* The log, the exit code and stderr agree: success is logged as success and
\* nothing else, and a failure after a logged success comes with the notice
\* that output may already exist.
LogAgrees ==
  edits = 0 => \A r \in Runs :
    /\ code[r] = 0 => Logged(r, "complete") /\ ~Logged(r, "failed")
    /\ code[r] = 1 /\ Logged(r, "complete") => notice[r]
    /\ notice[r] => completed[r]

\* A live run ends: no other run keeps it waiting for the lock.
RunsEnd == \A r \in Live : pc[r] = "waiting" ~> pc[r] \in {"done", "died"}

=============================================================================
