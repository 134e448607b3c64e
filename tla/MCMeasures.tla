------------------------------ MODULE MCMeasures ------------------------------
(***************************************************************************)
(* What the engine computes and measures: the proof gate of the extraction  *)
(* (ExtractionGate), the re-baseline arm and the release record             *)
(* (EvalRelease, for two engines of different scope),                       *)
(* the routing of slots into sections and lanes (DraftRouting), and the     *)
(* retrieval of a replay (ReplayLane).  They share no variable: `study` says*)
(* which moves, and the others rest in one initial state.                   *)
(***************************************************************************)
EXTENDS Naturals, Sequences, TLC

CONSTANTS Nil

VARIABLES study,
          case, at, views, rates, left, findings, report,
          scope, prompt, cases, base, lock, history, runs, measured, forged, arm,
          version, record, archive, pending,
          path, shape, title, follows, confident, sections, disposition, gap, asked, lane, outcome,
          standing, steward, stage, exclude, todo, top, opened, hits, lines, last, verdict

\* Every pair of grids of up to two rows and two columns against two answer keys,
\* with one document; and one clean pair of grids with every corpus of up to four
\* speeds, and one of ten.
CONSTANT Cases
Cells == {"", "a", "x"}
RowSet == UNION {[1..n -> Cells] : n \in 1..2}
GridSet == UNION {[1..n -> RowSet] : n \in 0..1} \cup {<<r, s>> : r \in RowSet, s \in {<<"b">>, <<"x", "a">>}}
Keys == {<<<<"a">>, <<"b">>>>, <<<<"a", "">>, <<"b", "b">>>>}
Clean == <<<<"a">>, <<"b">>>>
Speeds == {5, 10, 11}
MCCases ==
    [truth : Keys, det : GridSet, vlm : GridSet, rates : {<<5>>}, bounds : {TRUE}, form : {TRUE}]
    \cup [truth : {Clean}, det : {Clean}, vlm : {Clean}, bounds : BOOLEAN, form : BOOLEAN,
          rates : UNION {[1..n -> Speeds] : n \in 1..4} \cup {<<5, 5, 5, 5, 5, 11, 5, 5, 5, 5>>}]
Gate == INSTANCE ExtractionGate WITH Bar <- 5, Near <- 10

\* Two suites without releases; the releases over one suite, whose second cases file
\* is below its floors.
CONSTANTS Scopes
MCScopes ==
    {[suites |-> {1, 2}, thin |-> {}, slices |-> {}, edits |-> 1, forged |-> 1, runs |-> 2, evals |-> 0],
     [suites |-> {1}, thin |-> {1}, edits |-> 1, forged |-> 0, runs |-> 1, evals |-> 2,
      slices |-> {[cost |-> 5, recall |-> 1], [cost |-> 7, recall |-> 1],
                  [cost |-> 5, recall |-> 0], [cost |-> Nil, recall |-> Nil]}]}
Eval == INSTANCE EvalRelease WITH None <- Nil

\* Three slots, each a header of the sheet, a row under it (or under none), a heading
\* of a docx or a question under one; no circle of questions.
CONSTANTS Shapes
Slot(sheet, header, child, prose) == [sheet |-> sheet, header |-> header, child |-> child, prose |-> prose]
MCShapes == {Slot("A", TRUE, FALSE, FALSE), Slot("A", FALSE, TRUE, TRUE),
             Slot(Nil, TRUE, FALSE, TRUE), Slot(Nil, FALSE, TRUE, TRUE)}
Heading == Slot(Nil, TRUE, FALSE, TRUE)
Routing == INSTANCE DraftRouting WITH
    Titles <- {<<"scope">>}, Vouching <- {"answered"}, Undisposed <- {"open"},
    SlotCount <- 3, CrossFollow <- FALSE, None <- Nil

\* Card 1 is the pursuit's own, 2 derives from it and 3 from 2; 4 and 5 are the
\* firm's, 6 is a fact sheet and 7 belongs to a lane that is not joined.
CONSTANTS Tokens, MintLane, Path, Derived, Topics
MCTokens == <<{"a", "b"}, {"a"}, {"b"}, {"a", "b"}, {"c"}, {"a", "b"}, {"a"}>>
MCMintLane == [c \in 1..7 |-> IF c = 7 THEN "org" ELSE IF c = 5 THEN "pursuit" ELSE "firm"]
MCPath == <<<<>>, <<"x">>, <<"x">>, <<"x", "y">>, <<"z">>, <<"w", "v">>, <<"u", "t">>>>
MCDerived == [c \in 1..7 |-> IF c \in {2, 3} THEN {c - 1} ELSE {}]
MCTopics == <<<<{"a"}>>, <<{"b", "c"}>>>>
Replay == INSTANCE ReplayLane WITH
    Cards <- 1..7, Facts <- {6}, Sources <- {1}, Accepted <- {}, LaneOf <- MintLane, K <- 2, MaxSteward <- 1,
    Joined <- {"firm", "pursuit"}, status <- standing, pc <- stage

ASSUME MeasureConstants ==
    /\ Gate!GateConstants /\ Eval!EvalBounds /\ Routing!RoutingConstants /\ Replay!RetrievalConstants

gateVars == <<case, at, views, rates, left, findings, report>>
evalVars == <<scope, prompt, cases, base, lock, history, runs, measured, forged, arm,
              version, record, archive, pending>>
routingVars == <<path, shape, title, follows, confident, sections, disposition, gap, asked, lane, outcome>>
replayVars == <<standing, steward, stage, exclude, todo, top, opened, hits, lines, last, verdict>>
measureVars == <<study, gateVars, evalVars, routingVars, replayVars>>

MeasureInit ==
    /\ study \in {"gate", "evals", "routing", "replay"}
    /\ Gate!Init /\ (study = "gate" \/ case = CHOOSE c \in Cases : Len(c.rates) = 10)
    /\ Eval!Init /\ (study = "evals" \/ scope = CHOOSE s \in Scopes : s.evals > 0)
    /\ IF study = "routing" THEN Routing!Init
       ELSE /\ path = "B" /\ shape = [s \in 1..3 |-> Heading] /\ title = [s \in 1..3 |-> <<"scope">>]
            /\ follows = [s \in 1..3 |-> Nil] /\ confident = {} /\ Routing!Init
    /\ (study = "replay" \/ standing = [c \in 1..7 |-> "active"]) /\ Replay!Init

Convert == study = "gate" /\ Gate!Next /\ UNCHANGED <<study, evalVars, routingVars, replayVars>>
Measure == study = "evals" /\ Eval!Next /\ UNCHANGED <<study, gateVars, routingVars, replayVars>>
Draft == study = "routing" /\ Routing!Next /\ UNCHANGED <<study, gateVars, evalVars, replayVars>>
Search == study = "replay" /\ Replay!Next /\ UNCHANGED <<study, gateVars, evalVars, routingVars>>
MeasureNext == Convert \/ Measure \/ Draft \/ Search
Measures == MeasureInit /\ [][MeasureNext]_measureVars

------------------------------------------------------------------------------
\* A cell of a labelled table that one path invented, or that only one path has right,
\* shows in the diff; a path that drops its last rows or columns is no better off; the
\* slowest of at most ten documents counts; and a passing verdict stands on a converted
\* corpus.  A real text that both paths misplace alike shows in neither: it only lowers
\* the accuracy (extraction/gate.py:42-211, 387-406, twopath.py:8-28).
TripwireFires ==
    /\ Gate!TypeOK /\ Gate!TripwireFires /\ Gate!DroppingNeverHelps
    /\ Gate!SlowestCounts /\ Gate!PassMeansConverted

\* A lane passes only on what a completed run measured over the cases on disk, and a
\* release record that passes stands on a good live measure of every suite; no
\* baseline and no record is replaced before it is archived, wherever an earlier
\* invocation died (cases.py:118-131, run.py:87-92, rebaseline.py:191-195,
\* release.py:246-278).
ReplacedIsArchived ==
    /\ Eval!ReplacedIsArchived /\ Eval!RecordsKept
    /\ [](Eval!TypeOK /\ Eval!PassNeedsMeasure /\ Eval!ReleaseStandsOnMeasures)

\* Every slot is in one section, and none goes missing between the plan and the draft:
\* the sections say what became of their slots (sections.py:10-15, 138-153, route.py:129-226).
NoSilentMiss ==
    /\ Routing!TypeOK /\ Routing!SectionedOnce /\ Routing!NoSilentMiss
    /\ Routing!InventsNothingInside /\ Routing!SectionWordHolds

\* A replay that passes its bench saw nothing the pursuit contributed; no line of any
\* process surfaces a withheld card, and a filter does not reorder what is left
\* (replay.py:51-73, retrieve.py:49-63, 189-201, 325-360).
PassMeansWithheld ==
    /\ Replay!NothingWithheldSurfaces /\ Replay!FilterKeepsTheOrder
    /\ [](Replay!TypeOK /\ Replay!PassMeansWithheld)
==============================================================================
