----------------------------- MODULE EvalRelease -----------------------------
(***************************************************************************)
(* The release gate of the evals: the live re-baseline arm with its lock    *)
(* and its history (evals/rebaseline.py, evals/cases.py, the two suites     *)
(* validation/poison.py and evals/claim_extraction.py), the lanes that read *)
(* the recorded baselines (evals/run.py), and the release record with its   *)
(* archive (evals/release.py, cli/evals.py).  A measure is abstracted to    *)
(* whether it clears its bar; a fingerprint to the version of the file it   *)
(* covers.  The prompt stands for all that the suites share (prompts, model *)
(* pins, scoring code), read from the disk whenever a fingerprint is taken. *)
(***************************************************************************)
EXTENDS Integers, Sequences, FiniteSets, FiniteSetsExt

CONSTANTS
    Scopes,     \* the engines to look at: suites, thin, slices, edits, forged, runs, evals
    None

VARIABLES
    scope,      \* the engine's: one of them
    prompt,     \* the version of the shared prompt on disk
    cases,      \* the version of each suite's cases file
    base,       \* baseline.json of each suite
    lock,       \* baseline.lock.json beside it: the measures it fingerprints
    history,    \* the lines of the two history.jsonl
    runs,       \* how the log of each run ended
    measured,   \* what each run measured (nobody reads it: the truth)
    forged,     \* hand edits of a baseline or a lock
    arm,        \* the re-baseline process
    version,    \* the commit the engine is at
    record,     \* eval-results.json of each version
    archive,    \* the records under history/
    pending     \* the record `engine eval` is writing

\* The model-scored suites, numbered in the arm's order.
Suites == scope.suites
\* The versions of a cases file that are below its floors.
Thin == scope.thin
\* What a slice may have measured: [cost : per section, recall].
Slices == scope.slices
\* The bounds.
MaxEdits == scope.edits
MaxForged == scope.forged
MaxRuns == scope.runs
MaxEvals == scope.evals

\* Assumed of the constants wherever this module is instantiated.  People edit one of
\* the two files of a baseline: whoever edits both alike has measured nothing, and no
\* digest knows.
EvalBounds ==
    \A s \in Scopes :
        /\ s.suites \subseteq Nat /\ IsFiniteSet(s.suites) /\ s.thin \subseteq Nat
        /\ s.slices \subseteq [cost : Nat \cup {None}, recall : {0, 1, None}]
        /\ {s.edits, s.runs, s.evals} \subseteq Nat /\ s.forged \in {0, 1}

files == <<prompt, cases, base, lock, history>>
armVars == <<runs, measured, arm>>
releaseVars == <<version, record, archive, pending>>
vars == <<scope, files, armVars, forged, releaseVars>>

Idle == [pc |-> "idle", todo |-> {}, prompt |-> None, cases |-> 0, report |-> None]
Baselines == [suite : Suites, good : BOOLEAN, run : 1..MaxRuns, prompt : 0..MaxEdits, cases : 0..MaxEdits]
Records == [version : 0..MaxEvals, at : 1..MaxEvals, passed : BOOLEAN, blocking : SUBSET (Suites \cup {0}),
            cost : {s.cost : s \in Slices}, recall : {0, 1, None}]

TypeOK ==
    /\ prompt \in 0..MaxEdits /\ cases \in [Suites -> 0..MaxEdits]
    /\ base \in [Suites -> Baselines \cup {None}]
    /\ lock \in [Suites -> [good : BOOLEAN, run : 1..MaxRuns] \cup {None}]
    /\ history \subseteq Baselines /\ measured \subseteq Baselines
    /\ runs \in UNION {[1..n -> {"open", "completed", "failed"}] : n \in 0..MaxRuns}
    /\ arm.pc \in {"idle", "next", "open", "ask", "append", "write", "lock", "check"}
    /\ arm.todo \subseteq Suites /\ arm.report \in Baselines \cup {None}
    /\ record \in [0..MaxEvals -> Records \cup {None}] /\ archive \subseteq Records
    /\ pending.pc \in {"idle", "archive", "write"}

Init ==
    /\ scope \in Scopes
    /\ prompt = 0 /\ cases = [s \in Suites |-> 0] /\ forged = 0
    /\ base = [s \in Suites |-> None] /\ lock = base /\ history = {}
    /\ runs = <<>> /\ measured = {} /\ arm = Idle
    /\ version = 0 /\ record = [v \in 0..MaxEvals |-> None] /\ archive = {}
    /\ pending = [pc |-> "idle", rec |-> None]

\* Every field of a baseline that is not an environment fingerprint: the lock
\* digests the number together with the run that measured it.
MeasuresFingerprint(b) == [good |-> b.good, run |-> b.run]

\* check_baseline: the file is there, its fingerprints are those of the prompt on
\* disk and of the cases at hand, and its measures are the locked ones.
VerifyLock(s) == lock[s] # None /\ lock[s] = MeasuresFingerprint(base[s])
CheckBaseline(s, corpus) ==
    /\ base[s] # None
    /\ base[s].prompt = prompt
    /\ base[s].cases = corpus
    /\ VerifyLock(s)

------------------------------------------------------------------------------
(* The re-baseline arm.                                                       *)

Current == Min(arm.todo)
Run == Cardinality(DOMAIN runs)

\* `engine eval --rebaseline <suite or all> --live`: one process, one caller, and
\* one cache of system prompts for all its suites.
Rebaseline(targets) ==
    /\ arm.pc = "idle" /\ targets # {}
    /\ arm' = [Idle EXCEPT !.pc = "next", !.todo = targets]
    /\ UNCHANGED <<files, runs, measured, forged, releaseVars>>

Vacuous(corpus) == corpus \in Thin

\* A corpus below its floors is refused before the run is minted.
OpenRun ==
    /\ arm.pc = "next" /\ arm.todo # {} /\ Run < MaxRuns
    /\ IF Vacuous(cases[Current])
       THEN arm' = Idle /\ UNCHANGED runs
       ELSE /\ arm' = [arm EXCEPT !.pc = "open", !.cases = cases[Current]]
            /\ runs' = Append(runs, "open")
    /\ UNCHANGED <<files, measured, forged, releaseVars>>

AllDone ==
    /\ arm.pc = "next" /\ arm.todo = {}
    /\ arm' = Idle
    /\ UNCHANGED <<files, runs, measured, forged, releaseVars>>

\* The first model call reads the prompt file and keeps it for the process.
FirstCall ==
    /\ arm.pc = "open"
    /\ arm' = [arm EXCEPT !.pc = "ask", !.prompt = IF @ = None THEN prompt ELSE @]
    /\ UNCHANGED <<files, runs, measured, forged, releaseVars>>

\* The report carries the cases that ran and the fingerprint of the prompt that is
\* on disk when the suite ends.
Report(good) == [suite |-> Current, good |-> good, run |-> Run, prompt |-> prompt, cases |-> arm.cases]

Finish(good) ==
    /\ arm.pc = "ask"
    /\ runs' = [runs EXCEPT ![Run] = "completed"]
    /\ arm' = [arm EXCEPT !.pc = "append", !.report = Report(good)]
    /\ measured' = measured \cup {[Report(good) EXCEPT !.prompt = arm.prompt]}
    /\ UNCHANGED <<files, forged, releaseVars>>

\* An exception in the suite closes the run as failed and ends the invocation.
Crash ==
    /\ arm.pc \in {"open", "ask"}
    /\ runs' = [runs EXCEPT ![Run] = "failed"]
    /\ arm' = Idle
    /\ UNCHANGED <<files, measured, forged, releaseVars>>

\* The process dies at any point.
Killed ==
    /\ arm.pc # "idle"
    /\ arm' = Idle
    /\ UNCHANGED <<files, runs, measured, forged, releaseVars>>

\* The number about to be replaced goes to the history first.
Archived(s) == history \cup ({base[s]} \ {None})
AppendHistory ==
    /\ arm.pc = "append"
    /\ history' = Archived(Current)
    /\ arm' = [arm EXCEPT !.pc = "write"]
    /\ UNCHANGED <<prompt, cases, base, lock, runs, measured, forged, releaseVars>>

WriteBaseline ==
    /\ arm.pc = "write"
    /\ base' = [base EXCEPT ![Current] = arm.report]
    /\ arm' = [arm EXCEPT !.pc = "lock"]
    /\ UNCHANGED <<prompt, cases, lock, history, runs, measured, forged, releaseVars>>

WriteLock ==
    /\ arm.pc = "lock"
    /\ lock' = [lock EXCEPT ![Current] = MeasuresFingerprint(base[Current])]
    /\ arm' = [arm EXCEPT !.pc = "check"]
    /\ UNCHANGED <<prompt, cases, base, history, runs, measured, forged, releaseVars>>

\* The write closes its own loop; what fails its own guard is deleted.
CloseLoop ==
    /\ arm.pc = "check"
    /\ IF CheckBaseline(Current, arm.cases)
       THEN /\ arm' = [arm EXCEPT !.pc = "next", !.todo = @ \ {Current}, !.report = None]
            /\ UNCHANGED <<base, lock>>
       ELSE /\ base' = [base EXCEPT ![Current] = None]
            /\ lock' = [lock EXCEPT ![Current] = None]
            /\ arm' = Idle
    /\ UNCHANGED <<prompt, cases, history, runs, measured, forged, releaseVars>>

------------------------------------------------------------------------------
(* People: edits of the prompt and the cases at any time, and of one of the   *)
(* two files of a suite while no arm runs.                                    *)

EditPrompt ==
    /\ prompt < MaxEdits
    /\ prompt' = prompt + 1
    /\ UNCHANGED <<cases, base, lock, history, armVars, forged, releaseVars>>

EditCases(s) ==
    /\ cases[s] < MaxEdits
    /\ cases' = [cases EXCEPT ![s] = @ + 1]
    /\ UNCHANGED <<prompt, base, lock, history, armVars, forged, releaseVars>>

HandEdit(s) ==
    /\ forged < MaxForged /\ arm.pc = "idle" /\ base[s] # None
    /\ forged' = forged + 1
    /\ \/ base' = [base EXCEPT ![s].good = ~@] /\ UNCHANGED lock
       \/ \E l \in {None, [good |-> ~base[s].good, run |-> base[s].run]} :
            lock' = [lock EXCEPT ![s] = l] /\ UNCHANGED base
    /\ UNCHANGED <<prompt, cases, history, armVars, releaseVars>>

------------------------------------------------------------------------------
(* `engine eval`: the lanes, the clauses and the record.                      *)

BarMisses(b) == ~b.good

\* A lane that reads a baseline is stale, vacuous or graded against its bar.
Lane(s) ==
    IF ~CheckBaseline(s, cases[s]) THEN "stale"
    ELSE IF Vacuous(base[s].cases) \/ BarMisses(base[s]) THEN "fail" ELSE "pass"

\* The trajectory lane is graded on its assertions; a slice that did not complete
\* leaves it without a cost and does not fail it.
TrajectoryLane(holds) == IF holds THEN "pass" ELSE "fail"

\* The blocking lanes that did not pass; 0 is the trajectory lane.
BlockingFailures(holds) ==
    {s \in Suites : Lane(s) # "pass"} \cup {t \in {0} : TrajectoryLane(holds) # "pass"}

\* The record of another version that was generated last, passing or not.
LatestPrior ==
    LET others == {record[v] : v \in DOMAIN record \ {version}} \ {None}
    IN IF others = {} THEN None ELSE CHOOSE r \in others : \A o \in others : o.at <= r.at

\* Clause 2 allows a cost a fifth higher than the prior's, clause 3 no lower recall;
\* a number that one side lacks is not compared.
Worse(clause, prior, cost, recall) ==
    CASE clause = 2 -> None \notin {cost, prior.cost} /\ 5 * cost > 6 * prior.cost
      [] clause = 3 -> None \notin {recall, prior.recall} /\ recall < prior.recall
RegressedClauses(prior, cost, recall) ==
    {clause \in {2, 3} : prior # None /\ Worse(clause, prior, cost, recall)}

\* The stamp of a new record.  No two records share one: unless --at sets it, it is the time
\* of a command that runs several lanes, so the archive of a record never exists already
\* and `if not archive.exists()` (release.py:276) always passes.  Of three records of one
\* version that are given the same --at the second would be lost.
Clock == Cardinality(archive) + Cardinality({v \in DOMAIN record : record[v] # None}) + 1

\* The state passes when nothing blocks and every failed clause is overridden.
PassState(blocking, regressed, overrides) == blocking = {} /\ regressed \subseteq overrides

Judge(holds, cost, recall, overrides) ==
    /\ pending.pc = "idle" /\ Clock <= MaxEvals
    /\ LET blocking == BlockingFailures(holds)
           regressed == RegressedClauses(LatestPrior, cost, recall)
       IN pending' = [pc |-> "archive",
                      rec |-> [version |-> version, at |-> Clock, cost |-> cost, recall |-> recall,
                               blocking |-> blocking, passed |-> PassState(blocking, regressed, overrides)]]
    /\ UNCHANGED <<files, armVars, forged, version, record, archive>>

\* Mutant: the records of earlier versions are archived, not this version's.
ArchiveOlder(rec) == {record[v] : v \in 0..(rec.version - 1)} \ {None}
\* An existing record of this version moves to history/ under its stamp first.
ToArchive(rec) == {record[rec.version]} \ {None}
ArchiveRecord ==
    /\ pending.pc = "archive"
    /\ archive' = archive \cup ToArchive(pending.rec)
    /\ pending' = [pending EXCEPT !.pc = "write"]
    /\ UNCHANGED <<files, armVars, forged, version, record>>

WriteRecord ==
    /\ pending.pc = "write"
    /\ record' = [record EXCEPT ![pending.rec.version] = pending.rec]
    /\ pending' = [pc |-> "idle", rec |-> None]
    /\ UNCHANGED <<files, armVars, forged, version, archive>>

EvalDies ==
    /\ pending.pc # "idle"
    /\ pending' = [pc |-> "idle", rec |-> None]
    /\ UNCHANGED <<files, armVars, forged, version, record, archive>>

Commit ==
    /\ version < MaxEvals /\ record[version] # None /\ pending.pc = "idle"
    /\ version' = version + 1
    /\ UNCHANGED <<files, armVars, forged, record, archive, pending>>

Move ==
    \/ \E targets \in {Suites} \cup {{s} : s \in Suites} : Rebaseline(targets)
    \/ OpenRun \/ AllDone \/ FirstCall \/ (\E good \in BOOLEAN : Finish(good)) \/ Crash \/ Killed
    \/ AppendHistory \/ WriteBaseline \/ WriteLock \/ CloseLoop
    \/ EditPrompt \/ (\E s \in Suites : EditCases(s) \/ HandEdit(s))
    \/ \E holds \in BOOLEAN, slice \in Slices, overrides \in SUBSET {2, 3} :
          Judge(holds, slice.cost, slice.recall, overrides)
    \/ ArchiveRecord \/ WriteRecord \/ EvalDies \/ Commit

Next == Move /\ UNCHANGED scope

Spec == Init /\ [][Next]_vars

------------------------------------------------------------------------------

\* A lane passes only on a number that a completed run measured over the cases that
\* are on disk now: no half-written pair of baseline and lock, no edit of one of
\* the two files and no moved corpus gets through (cases.py:118-131, run.py:87-92).
PassNeedsMeasure ==
    \A s \in Suites : Lane(s) = "pass" =>
        \E m \in measured : /\ m.suite = s /\ m.good /\ m.cases = cases[s]
                            /\ m.run = base[s].run /\ runs[m.run] = "completed"

\* A release record that passes stands on a good live measure of every suite,
\* whatever its overrides and whatever died before (release.py:246-258).
ReleaseStandsOnMeasures ==
    \A v \in DOMAIN record : record[v] # None /\ record[v].passed =>
        \A s \in Suites : \E m \in measured : m.suite = s /\ m.good

\* A baseline that a later run's replaces is in the history by then, wherever an
\* earlier invocation was killed (rebaseline.py:191-195).
ReplacedIsArchived ==
    [][\A s \in Suites :
        base[s] # None /\ base'[s] # None /\ base'[s].run # base[s].run => base[s] \in history]_vars

\* A release record is never clobbered: the one a new record replaces is under
\* history/ by then, also after an evaluation that died between (release.py:264-278).
RecordsKept ==
    [][\A v \in DOMAIN record :
        record[v] # None /\ record'[v] # record[v] => record[v] \in archive]_vars

\* What validation/poison.py:8-10 says: the baseline's fingerprints are derived from what
\* actually ran, so a lane that is not stale was measured under the prompt on disk.
StampedIsMeasured ==
    \A s \in Suites : Lane(s) # "stale" =>
        \E m \in measured : m.suite = s /\ m.run = base[s].run /\ m.prompt = prompt

\* What evals/rebaseline.py:17-21 says: the write closes its own loop, a re-measure
\* does not leave behind a baseline that is stale as soon as it is accepted.
LoopIsClosed ==
    [][arm.pc = "check" /\ arm'.pc = "next" => Lane(Current) # "stale"]_vars

\* What evals/rebaseline.py:191-193 says: history never gains an entry for a
\* baseline that still stands once the arm has ended.
HistoryIsPast ==
    arm.pc = "idle" => \A h \in history : h # base[h.suite]
==============================================================================
