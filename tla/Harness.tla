------------------------------ MODULE Harness ------------------------------
(***************************************************************************)
(* scripts/check_installed_artifact.py and scripts/check_conformance.py:   *)
(* an installed executable is called once per check of a fixed plan, in an *)
(* empty directory, on copies of the fixtures, and a receipt says whether  *)
(* everything was as it must be.  The executable under test may do         *)
(* anything that a check looks for, and change the log also in a call that *)
(* was not to log; fixtures and artifact may be changed, and changed back, *)
(* while a session runs; sessions may be started on one directory at once, *)
(* and killed.                                                             *)
(*                                                                         *)
(* Fixtures and artifact are numbers of changes; their contents are the    *)
(* parity, so two changes restore what a fingerprint saw.                  *)
(***************************************************************************)
EXTENDS Naturals, Sequences, FiniteSets

CONSTANTS Sessions, Casts,  \* which script the sessions may run: functions Sessions -> script
          Plan,             \* script -> what it does, in order
          Live,             \* sessions that nobody kills
          MaxChanges        \* bound: changes of fixtures and artifact together

Kinds == {"acceptance", "conformance"}

\* "copy" copies fixtures, "compare" compares a copy with what it was; the
\* others call the executable:
\*   read     --version, --help, lint, inspect, on the copied pack; also assess and export
\*            where only what they print, or a file or two, is looked at
\*   publish  assess or export to a new directory, of which all is looked at
\*   refuse   an invalid call that must not create its output
\*   keep     a call that must leave an existing output as it is
\*   seal     a snapshot, which stays as it is, to an archive
\*   append   a call that logs after an unterminated line of an earlier log
Calls == {"read", "publish", "refuse", "keep", "seal", "append"}

\* Both scripts copy the fixtures before they call anything, and only the
\* acceptance calls log.
ASSUME SessionAssumption ==
    /\ Casts \subseteq [Sessions -> Kinds] /\ Live \subseteq Sessions /\ MaxChanges \in Nat
    /\ \A k \in Kinds :
         /\ Plan[k] \in Seq([call : Calls \cup {"copy", "compare"}, logged : BOOLEAN])
         /\ Plan[k] # <<>> /\ Plan[k][1].call = "copy"
         /\ \A i \in DOMAIN Plan[k] : Plan[k][i].logged => k = "acceptance" /\ Plan[k][i].call \in Calls

VARIABLES
    kind,       \* Sessions -> the script it runs
    fixtures, artifact, \* changes so far
    workdir,    \* "absent", "empty", or "used"
    copies,     \* Kinds -> places of the plan whose copy or output exists
    log,        \* runs in the operational log, each [id, life]
    tampered,   \* has a call that was not to log changed the log?
    files,      \* Kinds -> receipt on disk
    pc, at,     \* Sessions -> next step; place in the plan
    taken,      \* Sessions -> changes when the fingerprints were taken
    used,       \* Sessions -> what each copy was made of
    previous,   \* Sessions -> the log before the current call
    result,     \* Sessions -> what the current call did
    ids,        \* Sessions -> run identifiers seen
    status,     \* Sessions -> verdict
    rechecked,  \* Sessions -> changes when the fingerprints were taken again
    faults      \* Sessions -> did some call do what it must not?

inputs == <<kind, fixtures, artifact>>
directory == <<workdir, copies, log, tampered, files>>
memory == <<taken, used, previous, result, ids, status, rechecked>>
vars == <<inputs, directory, pc, at, memory, faults>>

Absent == [by |-> "nobody", status |-> "absent"]
Torn == [by |-> "nobody", status |-> "torn"]
Nothing == [exit |-> "none"]
Mixed == 2  \* neither content

Ended == {"ended", "refused", "killed"}
Content(n) == n % 2
Fingerprints == [fixtures |-> fixtures, artifact |-> artifact]
Step(s) == Plan[kind[s]][at[s]]

-----------------------------------------------------------------------------
(* What one call of the executable may do, and what it must do.  Its       *)
(* answer is right if it prints what the check looks for, and neither a    *)
(* traceback nor private input.                                            *)

Behaviours(call) ==
    [exit : {"ok", "failed"},
     answer : {"right", "wrong"},
     output : IF call \in {"publish", "refuse", "seal"}
              THEN {"absent", "complete", "broken"} ELSE {"absent"},
     subject : IF call \in {"keep", "seal", "append"} THEN {"kept", "changed"} ELSE {"kept"}]

\* success of Runner.run, and the output that the check goes on to inspect
Succeeds(call) == call \notin {"refuse", "keep"}
Right(call) ==
    [exit |-> IF Succeeds(call) THEN "ok" ELSE "failed", answer |-> "right",
     output |-> IF call \in {"publish", "seal"} THEN "complete" ELSE "absent",
     subject |-> "kept"]

\* What a call of the session s may leave of the log.  A call that is to log leaves it as
\* it was, replaces it by its run, or adds a run, or two, under its own identifier or an
\* earlier one; another call of the acceptance may empty it or add a run that looks right.
\* The conformance check reads no log.
Run(id) == [id |-> id, life |-> "good"]
RightLog(id) == Append(log, Run(id))
Logs(s) ==
    LET id == <<s, at[s]>>
        added == [id : {id} \cup {log[k].id : k \in DOMAIN log}, life : {"good", "bad"}]
    IN  IF kind[s] = "conformance" THEN {log}
        ELSE IF Step(s).logged
        THEN {log, <<Run(id)>>} \cup {Append(log, r) : r \in added}
               \cup {Append(RightLog(id), r) : r \in added}
        ELSE {log, <<>>, RightLog(id)}

-----------------------------------------------------------------------------
Init ==
    /\ kind \in Casts
    /\ fixtures = 0 /\ artifact = 0
    /\ workdir \in {"absent", "empty", "used"}
    /\ copies = [k \in Kinds |-> {}]
    /\ log = <<>> /\ tampered = FALSE
    /\ files = [k \in Kinds |-> Absent]
    /\ pc = [s \in Sessions |-> "start"] /\ at = [s \in Sessions |-> 1]
    /\ taken = [s \in Sessions |-> Fingerprints] /\ rechecked = taken
    /\ used = [s \in Sessions |-> {}]
    /\ previous = [s \in Sessions |-> <<>>]
    /\ result = [s \in Sessions |-> Nothing]
    /\ ids = [s \in Sessions |-> {}]
    /\ status = [s \in Sessions |-> "failed"]
    /\ faults = [s \in Sessions |-> FALSE]

Goto(s, step) == pc' = [pc EXCEPT ![s] = step]

\* An exception ends the plan; the session still writes its receipt.
Fail(s) ==
    /\ Goto(s, "finish")
    /\ at' = [at EXCEPT ![s] = 1]
    /\ used' = [used EXCEPT ![s] = {}]
    /\ ids' = [ids EXCEPT ![s] = {}]
    /\ result' = [result EXCEPT ![s] = Nothing]
    /\ previous' = [previous EXCEPT ![s] = <<>>]

\* The directory must be new or empty; this is looked at once.
CheckWorkdir(s) ==
    /\ pc[s] = "start"
    /\ Goto(s, IF workdir = "used" THEN "refused" ELSE "open")
    /\ UNCHANGED <<inputs, directory, at, memory, faults>>

\* The directory is made unless it exists, and the inputs are fingerprinted.
Open(s) ==
    /\ pc[s] = "open"
    /\ workdir' = IF workdir = "absent" THEN "empty" ELSE workdir
    /\ taken' = [taken EXCEPT ![s] = Fingerprints]
    /\ Goto(s, "step")
    /\ UNCHANGED <<inputs, copies, log, tampered, files, at, used, previous, result, ids, status, rechecked, faults>>

\* The next place of the plan, or the closing look at the inputs.
Advance(s) ==
    /\ at' = [at EXCEPT ![s] = @ + 1]
    /\ Goto(s, IF at[s] = Len(Plan[kind[s]]) THEN "recheck" ELSE "step")

\* shutil.copytree makes the directory exclusively, and then reads the fixtures.
Copy(s) ==
    /\ pc[s] = "step" /\ Step(s).call = "copy"
    /\ workdir' = "used"
    /\ IF at[s] \in copies[kind[s]]
       THEN Fail(s) /\ UNCHANGED copies
       ELSE /\ copies' = [copies EXCEPT ![kind[s]] = @ \cup {at[s]}]
            /\ result' = [result EXCEPT ![s] = [exit |-> "copying", from |-> fixtures]]
            /\ Goto(s, "copying")
            /\ UNCHANGED <<at, used, ids, previous>>
    /\ UNCHANGED <<inputs, log, tampered, files, taken, status, rechecked, faults>>

EndCopy(s) ==
    /\ pc[s] = "copying"
    /\ used' = [used EXCEPT ![s] = @ \cup
                   {IF result[s].from = fixtures THEN Content(fixtures) ELSE Mixed}]
    /\ result' = [result EXCEPT ![s] = Nothing]
    /\ Advance(s)
    /\ UNCHANGED <<inputs, directory, taken, previous, ids, status, rechecked, faults>>

\* The executable may have changed the copied pack during any call.
Compare(s) ==
    /\ pc[s] = "step" /\ Step(s).call = "compare"
    /\ \E kept \in BOOLEAN :
          /\ IF kept THEN Advance(s) /\ UNCHANGED memory
             ELSE Fail(s) /\ UNCHANGED <<taken, status, rechecked>>
          /\ faults' = [faults EXCEPT ![s] = @ \/ ~kept]
    /\ UNCHANGED <<inputs, directory>>

\* Runner.run reads the log and starts the executable.
Call(s) ==
    /\ pc[s] = "step" /\ Step(s).call \in Calls
    /\ previous' = [previous EXCEPT ![s] = IF Step(s).logged THEN log ELSE <<>>]
    /\ Goto(s, "running")
    /\ UNCHANGED <<inputs, directory, at, taken, used, result, ids, status, rechecked, faults>>

\* The executable does what it does.  It finds an output that another session made.  What
\* it does to the log is its fault if the call was to log; a call that was not may have
\* changed the log unseen, and after that it is unknown which records are whose.
Behave(s) ==
    /\ pc[s] = "running"
    /\ \E b \in Behaviours(Step(s).call), l \in Logs(s) :
          /\ result' = [result EXCEPT ![s] = b]
          /\ copies' = IF b.output = "absent" THEN copies
                       ELSE [copies EXCEPT ![kind[s]] = @ \cup {at[s]}]
          /\ log' = l
          /\ tampered' = (tampered \/ (~Step(s).logged /\ l # log))
          /\ faults' = [faults EXCEPT ![s] =
                           \/ @ \/ b # Right(Step(s).call)
                           \/ Step(s).logged /\ ~tampered /\ l # RightLog(<<s, at[s]>>)]
    /\ Goto(s, "judge")
    /\ UNCHANGED <<inputs, workdir, files, at, taken, used, previous, ids, status, rechecked>>

Hang(s) ==
    /\ pc[s] = "running"
    /\ Goto(s, "hung")
    /\ faults' = [faults EXCEPT ![s] = TRUE]
    /\ UNCHANGED <<inputs, directory, at, memory>>

\* Faulty: subprocess.run without a timeout.
WaitForever(s) ==
    /\ pc[s] = "hung"
    /\ UNCHANGED vars

\* subprocess.run kills the executable after 30 seconds and raises.
TimeOut(s) ==
    /\ pc[s] = "hung"
    /\ Fail(s)
    /\ UNCHANGED <<inputs, directory, taken, status, rechecked, faults>>

\* Faulty: only the last record of the log is looked at.
LastRunOnly(s) ==
    /\ log # <<>>
    /\ log[Len(log)].life = "good"
    /\ log[Len(log)].id \notin ids[s]

\* check_log: earlier records are kept, and exactly one complete run is added
\* under an identifier not seen before.
LogHolds(s) ==
    /\ Len(log) = Len(previous[s]) + 1
    /\ SubSeq(log, 1, Len(previous[s])) = previous[s]
    /\ log[Len(log)].life = "good"
    /\ log[Len(log)].id \notin ids[s]

\* run, then reject, check_inventory, check_zip and the other looks at what it left.
Holds(s) ==
    LET b == result[s]
        call == Step(s).call
    IN  /\ (b.exit = "ok") <=> Succeeds(call)
        /\ Step(s).logged => LogHolds(s)
        /\ b.answer = "right"
        /\ call \in {"publish", "seal"} => b.output = "complete"
        /\ call = "refuse" => at[s] \notin copies[kind[s]]
        /\ b.subject = "kept"

Judge(s) ==
    /\ pc[s] = "judge"
    /\ IF Holds(s)
       THEN /\ Advance(s)
            /\ ids' = [ids EXCEPT ![s] = IF Step(s).logged THEN @ \cup {log[Len(log)].id} ELSE @]
            /\ result' = [result EXCEPT ![s] = Nothing]
            /\ previous' = [previous EXCEPT ![s] = <<>>]
            /\ UNCHANGED used
       ELSE Fail(s)
    /\ UNCHANGED <<inputs, directory, taken, status, rechecked, faults>>

\* The fingerprints are taken again; the session passes if both are the same.
Recheck(s) ==
    /\ pc[s] = "recheck"
    /\ rechecked' = [rechecked EXCEPT ![s] = Fingerprints]
    /\ status' = [status EXCEPT ![s] =
                     IF /\ Content(fixtures) = Content(taken[s].fixtures)
                        /\ Content(artifact) = Content(taken[s].artifact)
                     THEN "passed" ELSE "failed"]
    /\ Goto(s, "finish")
    /\ UNCHANGED <<inputs, directory, at, taken, used, previous, result, ids, faults>>

\* The receipt is written whatever happened: the file is truncated, then filled.
Truncate(s) ==
    /\ pc[s] = "finish"
    /\ files' = [files EXCEPT ![kind[s]] = Torn]
    /\ workdir' = "used"
    /\ Goto(s, "write")
    /\ UNCHANGED <<inputs, copies, log, tampered, at, memory, faults>>

Write(s) ==
    /\ pc[s] = "write"
    /\ files' = [files EXCEPT ![kind[s]] = [by |-> s, status |-> status[s]]]
    /\ Goto(s, "ended")
    /\ UNCHANGED <<inputs, workdir, copies, log, tampered, at, memory, faults>>

\* A session is killed while it writes its receipt.  Killed before, it leaves what it
\* leaves when it takes no further step.
Kill(s) ==
    /\ s \notin Live /\ pc[s] = "write"
    /\ Goto(s, "killed")
    /\ UNCHANGED <<inputs, directory, at, memory, faults>>

Change ==
    /\ fixtures + artifact < MaxChanges
    /\ \/ fixtures' = fixtures + 1 /\ UNCHANGED artifact
       \/ artifact' = artifact + 1 /\ UNCHANGED fixtures
    /\ UNCHANGED <<kind, directory, pc, at, memory, faults>>

Proceed(s) ==
    \/ CheckWorkdir(s) \/ Open(s) \/ Copy(s) \/ EndCopy(s) \/ Compare(s)
    \/ Call(s) \/ Behave(s) \/ Hang(s) \/ TimeOut(s) \/ Judge(s)
    \/ Recheck(s) \/ Truncate(s) \/ Write(s)

Next == Change \/ \E s \in Sessions : Proceed(s) \/ Kill(s)

Spec == Init /\ [][Next]_vars
FairSpec == Spec /\ \A s \in Live : WF_vars(Proceed(s))

-----------------------------------------------------------------------------
Logged(k) == {i \in DOMAIN Plan[k] : Plan[k][i].logged}

\* A receipt says "passed" only if its session did all of its plan, every call did
\* exactly what it must, artifact and fixtures are what was fingerprinted, and every copy
\* was made of those fixtures unless they were changed and changed back meanwhile.  Unless
\* some call that was not to log changed the log, which the script does not read then,
\* the log holds one complete run for each logged call, in order, and nothing else.
PassedIsEarned ==
    \A k \in Kinds : files[k].status = "passed" =>
        LET s == files[k].by
            reverted == rechecked[s].fixtures >= taken[s].fixtures + 2
        IN  /\ at[s] = Len(Plan[k]) + 1 /\ ~faults[s]
            /\ k = "acceptance" /\ ~tampered =>
                 /\ Len(log) = Cardinality(Logged(k))
                 /\ \A i \in DOMAIN log : log[i].life = "good" /\ log[i].id[1] = s
                 /\ \A i, j \in DOMAIN log : i < j => log[i].id[2] < log[j].id[2]
            /\ Content(rechecked[s].artifact) = Content(taken[s].artifact)
            /\ used[s] = {Content(taken[s].fixtures)} \/ reverted

\* However the executable behaves, a session that nobody kills ends.
SessionsEnd == \A s \in Live : <>(pc[s] \in Ended)
=============================================================================
