------------------------------ MODULE BriefLane ------------------------------
(***************************************************************************)
(* The first half of a pursuit: intake, Gate 0, research, win themes and   *)
(* Gate 1 (pipeline/driver.py, intake/brief.py, intake/gate.py,            *)
(* research/findings.py, strategy/themes.py, strategy/gate.py).  Everything *)
(* happens in one lane (a job or a gate decision at a time, see JobRunner), *)
(* but each durable write is a step of its own, and the process may die or *)
(* a model call may fail between any two.  What is done is derived from    *)
(* the checkpoints and from brief.json; Gate 0 decides on what intake read. *)
(***************************************************************************)
EXTENDS Naturals, FiniteSets

CONSTANTS Approvals,    \* distinct approving requests (actor, notes, edits)
          Rejection,    \* a rejecting request
          Absent,       \* no artifact, no checkpoint, no stamp
          MaxPackages, MaxReads, MaxRejections, MaxHalts   \* bounds

VARIABLES inbox,     \* version of the buyer's package
          cp,        \* checkpoints: the payload that matters, or Absent
          brief,     \* brief.json
          frozen,    \* brief.frozen.json
          job,       \* the job or the gate decision that holds the lane
          journal,   \* gate lines and external research calls of the run logs
          reads, rejections, calls, halts,
          late       \* history: an approval landed on a brief sent back

vars == <<inbox, cp, brief, frozen, job, journal, reads, rejections, calls, halts, late>>
counts == <<reads, rejections, calls, halts>>

Stages == {"intake", "bid_brief", "gate_0", "research_internal",
           "research_external", "win_themes", "gate_1"}
Requests == Approvals \cup {Rejection}
Line(what, reading, req) == [what |-> what, reading |-> reading, req |-> req]
Idle == [at |-> "idle", req |-> Absent, pkg |-> 0]
Fresh(reading, pkg) ==
    [reading |-> reading, pkg |-> pkg, gate0 |-> Absent, findings |-> 0,
     themes |-> 0, status |-> "draft", gate1 |-> Absent, clock |-> 0]
Briefs == [reading : 1..MaxReads, pkg : 1..MaxPackages, gate0 : Approvals \cup {Absent},
           findings : 0..MaxReads, themes : 0..MaxReads, gate1 : Requests \cup {Absent},
           status : {"draft", "gate1_pending", "approved", "declined"}, clock : 0..MaxHalts]

\* Assumed of the constants wherever this module is instantiated.
BriefAssumption ==
    /\ Rejection \notin Approvals /\ Absent \notin Approvals \cup {Rejection}
    /\ {MaxPackages, MaxReads, MaxRejections, MaxHalts} \subseteq Nat /\ MaxPackages > 0
    /\ Absent \notin Nat /\ Absent \notin Briefs

TypeOK ==
    /\ inbox \in 1..MaxPackages
    /\ cp \in [Stages -> {Absent} \cup 1..MaxPackages \cup 1..MaxReads \cup Requests]
    /\ brief \in Briefs \cup {Absent} /\ frozen \in Briefs \cup {Absent}
    /\ job.req \in Requests \cup {Absent} /\ job.pkg \in 0..MaxPackages
    /\ \A line \in journal : line.reading \in 1..MaxReads
    /\ reads \in 0..MaxReads /\ rejections \in 0..MaxRejections /\ halts \in 0..MaxHalts
    /\ late \in BOOLEAN

Init ==
    /\ inbox = 1 /\ cp = [s \in Stages |-> Absent]
    /\ brief = Absent /\ frozen = Absent /\ job = Idle /\ journal = {}
    /\ reads = 0 /\ rejections = 0 /\ calls = 0 /\ halts = 0 /\ late = FALSE

Done(stage) == cp[stage] # Absent
Checkpoint(stage, payload) == cp' = [cp EXCEPT ![stage] = payload]
Go(at) == job' = [job EXCEPT !.at = at]
Leave == job' = Idle
Write(fields) == brief' = fields
Gated == brief.status \in {"approved", "declined"}

---------------------------------------------------------------------------
\* advance: where the walk starts follows from the checkpoints.
Upload ==          \* the operator fixes the package between two jobs
    /\ job.at = "idle" /\ inbox < MaxPackages
    /\ inbox' = inbox + 1
    /\ UNCHANGED <<cp, brief, frozen, job, journal, counts, late>>

StartIntake ==     \* the predicate is the checkpoint, never the artifact
    /\ job.at = "idle" /\ ~Done("bid_brief") /\ reads < MaxReads
    /\ job' = [Idle EXCEPT !.pkg = inbox,
                           !.at = IF Done("intake") THEN "assembling" ELSE "reading"]
    /\ UNCHANGED <<inbox, cp, brief, frozen, journal, counts, late>>

GateZeroDecided == Done("gate_0")

ResearchMayRun == brief # Absent /\ ~Gated

StartResearch ==
    /\ job.at = "idle" /\ Done("bid_brief") /\ GateZeroDecided
    /\ frozen = Absent /\ ResearchMayRun
    /\ job' = [Idle EXCEPT !.at = "internal"]
    /\ UNCHANGED <<inbox, cp, brief, frozen, journal, counts, late>>

---------------------------------------------------------------------------
\* run_intake: every document is read again on every run, and the extraction
\* record is written once, inside the checkpoint guard.
ReadPackage ==
    /\ job.at = "reading"
    /\ Checkpoint("intake", job.pkg) /\ Go("assembling")
    /\ UNCHANGED <<inbox, brief, frozen, journal, counts, late>>

AssembleBrief ==   \* the model call and the questioner, then one write
    /\ job.at = "assembling"
    /\ reads' = reads + 1 /\ Write(Fresh(reads + 1, job.pkg)) /\ Go("assembled")
    /\ UNCHANGED <<inbox, cp, frozen, journal, rejections, calls, halts, late>>

CloseIntake ==
    /\ job.at = "assembled"
    /\ Checkpoint("bid_brief", brief.reading) /\ Leave
    /\ UNCHANGED <<inbox, brief, frozen, journal, counts, late>>

\* run_research: each of its two calls is checkpointed.
ResearchInternal ==
    /\ job.at = "internal"
    /\ cp' = IF Done("research_internal") THEN cp
             ELSE [cp EXCEPT !["research_internal"] = brief.reading]
    /\ Go("external")
    /\ UNCHANGED <<inbox, brief, frozen, journal, counts, late>>

ExternalDone == Done("research_external")

ResearchExternal ==
    /\ job.at = "external"
    /\ IF ExternalDone
       THEN Go("themes") /\ UNCHANGED <<journal, calls>>
       ELSE /\ calls' = calls + 1
            /\ journal' = journal \cup {Line("spent", brief.reading, Absent)}
            /\ Go("found")
    /\ UNCHANGED <<inbox, cp, brief, frozen, reads, rejections, halts, late>>

WriteFindings ==   \* always merged from the internal checkpoint
    /\ job.at = "found"
    /\ Write([brief EXCEPT !.findings = cp["research_internal"]]) /\ Go("cited")
    /\ UNCHANGED <<inbox, cp, frozen, journal, counts, late>>

CloseResearch ==
    /\ job.at = "cited"
    /\ Checkpoint("research_external", brief.reading) /\ Go("themes")
    /\ UNCHANGED <<inbox, brief, frozen, journal, counts, late>>

\* run_win_themes: refused without findings; written from the checkpoint.
JudgeThemes ==
    /\ job.at = "themes"
    /\ IF brief.findings = 0 \/ Gated
       THEN Leave /\ UNCHANGED cp
       ELSE /\ cp' = IF Done("win_themes") THEN cp
                     ELSE [cp EXCEPT !["win_themes"] = brief.findings]
            /\ Go("judged")
    /\ UNCHANGED <<inbox, brief, frozen, journal, counts, late>>

WriteThemes ==
    /\ job.at = "judged"
    /\ Write([brief EXCEPT !.themes = cp["win_themes"], !.status = "gate1_pending"])
    /\ Leave
    /\ UNCHANGED <<inbox, cp, frozen, journal, counts, late>>

---------------------------------------------------------------------------
\* Gate 0: keyed on the checkpoint, then on the stamp of the brief.
ZeroOpen(req) == ~Done("gate_0") /\ brief.gate0 \in {Absent, req}

DecideZero(req) ==
    /\ job.at = "idle" /\ brief # Absent /\ ZeroOpen(req)
    /\ req = Rejection => rejections < MaxRejections
    /\ job' = [Idle EXCEPT !.req = req,
                           !.at = IF req = Rejection THEN "unreading" ELSE "stamping0"]
    /\ UNCHANGED <<inbox, cp, brief, frozen, journal, counts, late>>

\* The redo door clears the two intake checkpoints, one after the other.
ClearIntake ==
    /\ job.at = "unreading"
    /\ Checkpoint("intake", Absent) /\ Go("unbriefing")
    /\ UNCHANGED <<inbox, brief, frozen, journal, counts, late>>

ClearBrief == Checkpoint("bid_brief", Absent)

Unbrief ==
    /\ job.at = "unbriefing"
    /\ ClearBrief /\ Go("sending") /\ rejections' = rejections + 1
    /\ UNCHANGED <<inbox, brief, frozen, journal, reads, calls, halts, late>>

SendBack ==        \* the log line and the note for the redo screen
    /\ job.at = "sending" /\ Leave
    /\ journal' = journal \cup {Line("sent_back", brief.reading, Rejection)}
    /\ UNCHANGED <<inbox, cp, brief, frozen, counts, late>>

StampZero ==       \* corrections, answers, skips and the org link ride along
    /\ job.at = "stamping0"
    /\ Write([brief EXCEPT !.gate0 = job.req]) /\ Go("logging0")
    /\ late' = (late \/ ~Done("bid_brief"))
    /\ UNCHANGED <<inbox, cp, frozen, journal, counts>>

LogZero ==
    /\ job.at = "logging0" /\ Go("closing0")
    /\ journal' = journal \cup {Line("gate_0", brief.reading, job.req)}
    /\ UNCHANGED <<inbox, cp, brief, frozen, counts, late>>

CloseZero ==
    /\ job.at = "closing0"
    /\ Checkpoint("gate_0", job.req) /\ Leave
    /\ UNCHANGED <<inbox, brief, frozen, journal, counts, late>>

---------------------------------------------------------------------------
\* Gate 1: stamp, freeze (an approval only), log, checkpoint.
\* Mutant: a stamped brief takes any decision.
AnyStamp(req) == TRUE
StampAgrees(req) == Gated => brief.gate1 = req

DecideOne(req) ==
    /\ job.at = "idle" /\ brief # Absent /\ brief.themes # 0
    /\ ~Done("gate_1") /\ brief.status # "draft" /\ StampAgrees(req)
    /\ job' = [Idle EXCEPT !.req = req, !.at = "stamping1"]
    /\ UNCHANGED <<inbox, cp, brief, frozen, journal, counts, late>>

StampClock == IF Gated THEN brief.clock ELSE halts

StampOne ==
    /\ job.at = "stamping1"
    /\ Write([brief EXCEPT !.gate1 = job.req, !.clock = StampClock,
                           !.status = IF job.req = Rejection THEN "declined" ELSE "approved"])
    /\ Go("freezing")
    /\ UNCHANGED <<inbox, cp, frozen, journal, counts, late>>

Freeze ==
    /\ job.at = "freezing" /\ Go("logging1")
    /\ frozen' = IF job.req = Rejection THEN frozen ELSE brief
    /\ UNCHANGED <<inbox, cp, brief, journal, counts, late>>

LogOne ==
    /\ job.at = "logging1" /\ Go("closing1")
    /\ journal' = journal \cup {Line("gate_1", brief.reading, job.req)}
    /\ UNCHANGED <<inbox, cp, brief, frozen, counts, late>>

CloseOne ==
    /\ job.at = "closing1"
    /\ Checkpoint("gate_1", job.req) /\ Leave
    /\ UNCHANGED <<inbox, brief, frozen, journal, counts, late>>

Halt ==            \* the process dies, or a model call fails
    /\ job.at # "idle" /\ halts < MaxHalts
    /\ halts' = halts + 1 /\ Leave
    /\ UNCHANGED <<inbox, cp, brief, frozen, journal, reads, rejections, calls, late>>

Intake == ReadPackage \/ AssembleBrief \/ CloseIntake
Research == ResearchInternal \/ ResearchExternal \/ WriteFindings \/ CloseResearch
Themes == JudgeThemes \/ WriteThemes
GateZero == ClearIntake \/ Unbrief \/ SendBack \/ StampZero \/ LogZero \/ CloseZero
GateOne == StampOne \/ Freeze \/ LogOne \/ CloseOne
Lane == Intake \/ Research \/ Themes \/ GateZero \/ GateOne
Start == StartIntake \/ StartResearch \/ \E req \in Requests : DecideZero(req) \/ DecideOne(req)
\* The operator whose decision was cut off submits the same request again.
Resubmit == brief # Absent /\ brief.gate1 # Absent /\ DecideOne(brief.gate1)

Next == Upload \/ Start \/ Lane \/ Halt
Spec == Init /\ [][Next]_vars /\ WF_vars(Lane) /\ WF_vars(Resubmit)

---------------------------------------------------------------------------
Approved(reading) ==
    \E line \in journal : line.what = "gate_0" /\ line.reading = reading
\* The human confirms the engine's reading of the package before research
\* spends (intake/gate.py:1-2), for every order of rejections, fixes, halts and
\* retries in which nobody approves a brief that was sent back or not closed.
ResearchIsConfirmed ==
    ~late => /\ \A line \in journal : line.what = "spent" => Approved(line.reading)
             /\ frozen # Absent => frozen.gate0 # Absent

\* The same without the condition (driver.py:315, intake/gate.py:1-2).
ConfirmedAlways == \A line \in journal : line.what = "spent" => Approved(line.reading)

\* A gate holds one decision: two different requests never both reach the log,
\* however often a halt cuts one off between its stamp and its checkpoint, and a
\* declined brief is never frozen (B22(10), strategy/gate.py:160-184).
OneDecision ==
    /\ \A a, b \in journal :
          a.what = b.what /\ a.what \in {"gate_0", "gate_1"} /\ a.reading = b.reading
             => a.req = b.req
    /\ Line("gate_1", IF brief = Absent THEN 1 ELSE brief.reading, Rejection) \in journal
          => frozen = Absent

\* The frozen brief stands: no retry, re-advance or redo changes a byte of it,
\* and brief.json stays equal to it (T7, strategy/gate.py:202-210).
FreezeStands == [][frozen # Absent => frozen' = frozen /\ brief' = frozen']_vars

\* Candidates cite the findings of the brief they stand in, and the findings
\* belong to the reading that was researched (themes.py:86-90, B21(7)).
ThemesFollowReading ==
    brief # Absent =>
        /\ brief.findings \in {0, brief.reading}
        /\ brief.themes \in {0, brief.findings}

\* The external research call is paid once, plus once for each halt that fell
\* between the call and its checkpoint (findings.py:222-229, P1-12).
ResearchPaidOnce == calls <= 1 + halts

\* A rejection is a redo: unless the stale brief is approved after all, what
\* Gate 0 approves was read after the last rejection (intake/gate.py:289-305).
RedoIsRead ==
    ~late /\ Done("gate_0") =>
        Line("sent_back", brief.reading, Rejection) \notin journal

\* A Gate 1 decision that was stamped is completed by resubmitting it: the gate
\* never stays half decided (strategy/gate.py:171-178).
GateOneCompletes == (brief # Absent /\ brief.gate1 # Absent) ~> Done("gate_1")

\* One record per document that intake read (brief.py:438-442): the extraction
\* record describes the package the brief was assembled from.
RecordCoversBrief == brief # Absent /\ Done("intake") => cp["intake"] = brief.pkg
=============================================================================
