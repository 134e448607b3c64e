------------------------------- MODULE MCIntake -------------------------------
(***************************************************************************)
(* The front half of a pursuit: its documents are read (DocumentReader),    *)
(* its brief passes Gate 0, research and Gate 1 (BriefLane), its themes are *)
(* proposed, judged and edited (ThemeSlate).  The three share no variable,  *)
(* so a behaviour of one is a behaviour of all: `part` says which one moves *)
(* and the others rest in an initial state.                                 *)
(***************************************************************************)
EXTENDS Naturals

CONSTANTS Format, MaxRuns,                                                         \* the reader's
          Approvals, Rejection, Absent, MaxPackages, MaxReads, MaxRejections, MaxHalts,  \* the brief's
          Cards, Restricted, Urls, Packed, GenerateMax, KeepMax, MaxEdits          \* the slate's

VARIABLES part,
          route, override, intact, run, cur, child, docs, record, done, behind, runs,
          inbox, cp, brief, frozen, job, journal, reads, rejections, calls, halts, late,
          phase, mode, opened, findings, slate, decided, edits

\* Checked with a pdf, a docx and a workbook; two runs, so that one resumes before or
\* behind the checkpoint of the other.
MCFormat == <<"pdf", "docx", "other">>
Reader == INSTANCE DocumentReader

\* Checked with two approving requests, one rejecting, two packages, three readings.
Brief == INSTANCE BriefLane

\* Checked with one usable and one restricted card, one URL of the pack and one outside it.
Slate == INSTANCE ThemeSlate

ASSUME IntakeConstants ==
    Reader!ReaderAssumption /\ Brief!BriefAssumption /\ Slate!SlateAssumption

readerVars == <<route, override, intact, run, cur, child, docs, record, done, behind, runs>>
briefVars == <<inbox, cp, brief, frozen, job, journal, reads, rejections, calls, halts, late>>
slateVars == <<phase, mode, opened, findings, slate, decided, edits>>
vars == <<part, readerVars, briefVars, slateVars>>

ReaderRests == route = "none" /\ override = FALSE /\ intact = TRUE
SlateRests == mode = "web"

Init ==
    /\ part \in {"reader", "brief", "slate"} /\ Brief!Init
    /\ (part = "reader" \/ ReaderRests) /\ Reader!Init
    /\ (part = "slate" \/ SlateRests) /\ Slate!Init

Read == part = "reader" /\ Reader!Next /\ UNCHANGED <<part, briefVars, slateVars>>
Advance == part = "brief" /\ Brief!Next /\ UNCHANGED <<part, readerVars, slateVars>>
Judge == part = "slate" /\ Slate!Next /\ UNCHANGED <<part, readerVars, briefVars>>
Next == Read \/ Advance \/ Judge

Spec == Init /\ [][Next]_vars
    /\ WF_readerVars(part = "reader" /\ Reader!Reader)
    /\ WF_briefVars(part = "brief" /\ Brief!Lane) /\ WF_briefVars(part = "brief" /\ Brief!Resubmit)

------------------------------------------------------------------------------
\* No reading on record claims more than it has: weak text is marked for review, and
\* the brief is paid for the very readings on record, over crashes and retries up to
\* the checkpoint of intake.  Behind it a resumed run reads all texts again with no
\* record; there only the reading itself says what it lost (brief.py:397-461, 491-499,
\* extract.py:360-414).
ReadingIsHonest == Reader!TypeOK /\ Reader!WeakTextIsReviewed /\ Reader!LossIsDegraded

\* The gates decide once, and on what was read: research follows a confirmation,
\* themes follow the reading that was researched and trace to what was opened,
\* for every order of rejections, redos, halts and retries (intake/gate.py:1-2,
\* 289-305, strategy/gate.py:160-184, findings.py:222-229, themes.py:60-90).
GatesHold ==
    /\ Brief!TypeOK /\ Brief!ResearchIsConfirmed /\ Brief!OneDecision
    /\ Brief!ThemesFollowReading /\ Brief!ResearchPaidOnce /\ Brief!RedoIsRead
    /\ Slate!TypeOK /\ Slate!ThemesTrace /\ Slate!IdsStand /\ Slate!JudgeWindow

\* What began ends and then stands: a stamped Gate 1 decision is completed by
\* sending it again and its freeze keeps every byte; a reading run ends even
\* when a parser hangs, and pays its second reading once (strategy/gate.py:171-210,
\* sandbox.py:82-91, brief.py:411-412).
IntakeSettles ==
    /\ Brief!FreezeStands /\ Brief!GateOneCompletes
    /\ Reader!SecondReadOnce /\ Reader!RunEnds
==============================================================================
