------------------------------- MODULE MCRecords -------------------------------
(***************************************************************************)
(* What is decided, written and sent by hand: the requests of Gate 0 and    *)
(* the organisations (IntakeReview), the doors a response leaves by         *)
(* (ExportDoors), and the proposals a steward merges (CurationLane).  They  *)
(* share no variable: `part` says which moves, and the others rest in one   *)
(* state.                                                                   *)
(***************************************************************************)
EXTENDS Naturals, FiniteSets, TLC

CONSTANTS None, Absent, NoCard,
          \* the decisions' of Gate 0
          Pursuits, Texts, Stated, Questions, Crisp, Wires, Elder, MaxOrgs, MaxRequests, MaxPings,
          Forms, MaxTexts, MaxPlans, MaxRuns, MaxKills,                \* the doors'
          Cards, Values, Lessons, LessonCard, Answers, Body, Held,     \* the steward's
          MaxEdits, MaxOpen, MaxFaults,
          \* pursuits, texts, a question; cards, lessons, answered gaps, field values
          p1, p2, prose, percent, q1, c1, c2, l1, l2, g1, g2, v0, v1

VARIABLES part,
          saved, orgs, minter, asking, spawned, requests, pinged, mints,
          firm, freeze, draft, pends, blocked, indexed, hand, file, facts, bundle, door,
          drafts, doors, kills, proved, download,
          field, lessons, deprecated, minted, cited, status, reads, edits, pc, staged, done,
          answer, logged, faults

\* Checked with two pursuits that share the organisations: the first has the briefs of a
\* document that shows a weight and a date, or an empty one, the second the empty one,
\* which only links and mints.  One text states a number or a date, one does not.
Empty == [weight |-> Absent, date |-> Absent, shown |-> FALSE, asked |-> {}]
MCWires == p1 :> [weight : {Absent, prose, percent}, date : {percent},
                  shown : {TRUE}, asked : {{q1}}] \cup {Empty}
           @@ p2 :> {Empty}
Review == INSTANCE IntakeReview WITH request <- asking, sent <- requests, minted <- mints

\* Checked with two forms besides the render, or the firm's template; two texts, an
\* amendment, two doors and a kill.
MCForms == <<"f00", "f01">>
Export == INSTANCE ExportDoors WITH runs <- doors, sent <- download

\* Checked with two cards under edit, one of them on hold, a lesson for a card and one
\* that is a note, and two gaps whose answers have one body.
MCLessonCard == l1 :> c1 @@ l2 :> NoCard
MCBody == g1 :> "body" @@ g2 :> "body"
MCSymmetry == Permutations({v0, v1}) \cup Permutations({g1, g2})
Curate == INSTANCE CurationLane WITH left <- staged

ASSUME RecordConstants ==
    /\ Review!ReviewAssumption /\ Export!ExportConstants /\ Curate!CurationConstants

reviewVars == <<saved, orgs, minter, asking, spawned, requests, pinged, mints>>
exportVars == <<firm, freeze, draft, pends, blocked, indexed, hand, file, facts, bundle, door,
                drafts, doors, kills, proved, download>>
curateVars == <<field, lessons, deprecated, minted, cited, status, reads, edits, pc, staged, done,
                answer, logged, faults>>
vars == <<part, reviewVars, exportVars, curateVars>>

Init ==
    /\ part \in {"review", "export", "curate"}
    /\ Review!Init /\ (part = "review" \/ \A p, q \in Pursuits : saved[p] = saved[q])
    /\ (part = "export" \/ firm = FALSE) /\ Export!Init
    /\ Curate!Init /\ (part = "curate" \/ \A c, d \in Cards : field[c] = field[d])

Decide == part = "review" /\ Review!Next /\ UNCHANGED <<part, exportVars, curateVars>>
Ship == part = "export" /\ Export!Next /\ UNCHANGED <<part, reviewVars, curateVars>>
Merge == part = "curate" /\ Curate!Next /\ UNCHANGED <<part, reviewVars, exportVars>>
Next == Decide \/ Ship \/ Merge
Spec == Init /\ [][Next]_vars

------------------------------------------------------------------------------
\* Gate 0's decisions settle a gap once, however requests interleave; a correction is
\* logged under its author with the value it corrects; a number follows the text it was
\* parsed from; two pursuits never mint one organisation (brief.py:343-371,
\* intake/gate.py:104-148, 335-340, orgs.py:71-87).
GapsSettleOnce ==
    /\ Review!GapsSettleOnce /\ Review!CorrectionsAreNamed
    /\ [](Review!TypeOK /\ Review!NumberFollowsText /\ Review!MintsAreDistinct)

\* A confirmed bundle ships the draft it was confirmed for, nothing is written that was
\* known to name another client when its lane's turn came, a produced file has the proof
\* on record, and the record of a proof is never ahead of the file (server.py:1008-1031,
\* bundle.py:116-165, egress.py:183-209, template_fill.py:550-568).
ConfirmShipsTheDraft ==
    /\ Export!ConfirmShipsTheDraft /\ Export!WrittenNamesNobody
    /\ [](Export!TypeOK /\ Export!ProducedIsProved /\ Export!FactsNeverAhead)

\* What a steward accepted is carried into the store, once, as he read it, with its log
\* line, through the kills and the raises inside a merge (curation.py:425-477, 511-616).
AcceptedIsCarried ==
    /\ Curate!TypeOK /\ Curate!AcceptedIsCarried /\ Curate!LandsOnce
    /\ Curate!StewardsAgree /\ Curate!AcceptedIsLogged
==============================================================================
