---------------------------- MODULE DraftRouting ----------------------------
(***************************************************************************)
(* From a parsed questionnaire to what the model may draft: the gating      *)
(* links (structure/classify.py), the sections (planning/sections.py), the  *)
(* mapper's dispositions and gaps (planning/mapper.py), what humans decide  *)
(* about the gaps, and the lanes of a draft (drafting/route.py).  A slot    *)
(* is its place in the document with its sheet (none for docx), whether it  *)
(* opens a sub-section, its parent, the question it follows ("if yes to")   *)
(* and whether it wants prose.  A title is a sequence: words and numbers.   *)
(***************************************************************************)
EXTENDS Integers, Sequences, FiniteSets, SequencesExt

CONSTANTS
    Shapes,         \* slots a parser can produce: sheet, header, child, prose
    Titles,         \* titles of the headings
    SlotCount,      \* slots of the document
    Vouching,       \* answered, reframed, draft_flagged: all let a slot be drafted
    Undisposed,     \* open, pinged: nobody has answered
    CrossFollow,    \* whether questions may follow each other in a circle
    None            \* no sheet, no slot, no gap

\* Assumed of the constants wherever this module is instantiated.
RoutingConstants ==
    /\ Vouching # {} /\ Vouching \subseteq {"answered", "reframed", "draft_flagged"}
    /\ {"open"} \subseteq Undisposed /\ Undisposed \subseteq {"open", "pinged"}
    /\ SlotCount \in Nat \ {0} /\ CrossFollow \in BOOLEAN
    /\ \A s \in Shapes : DOMAIN s = {"sheet", "header", "child", "prose"}

Slots == 1..SlotCount

VARIABLES
    path,       \* A: the buyer's structure; B: an outline
    shape, title, follows,  \* the parsed slots
    confident,  \* the slots whose search has a result at the floor
    sections,   \* the plan: [title, sheet, opener, slots]
    disposition,    \* the mapper's word on each slot
    gap,        \* the status of each slot's gap
    asked,      \* the section gaps: the outline's and a reviewer's, by section
    lane, outcome   \* the routing of the last draft: slots, sections

parsed == <<path, shape, title, follows, confident>>
vars == <<parsed, sections, disposition, gap, asked, lane, outcome>>

Statuses == {"omit_approved"} \cup Vouching \cup Undisposed
TypeOK ==
    /\ path \in {"A", "B"} /\ shape \in [Slots -> Shapes] /\ confident \subseteq Slots
    /\ \A k \in DOMAIN sections : sections[k].slots # <<>> /\ Range(sections[k].slots) \subseteq Slots
    /\ disposition \in [Slots -> {"none", "shape_skipped", "gated_skipped", "grounded", "gapped"}]
    /\ gap \in [Slots -> Statuses \cup {None}]
    /\ \A s \in Slots : gap[s] # None => disposition[s] = "gapped"
    /\ DOMAIN asked = DOMAIN sections /\ \A k \in DOMAIN asked : Range(asked[k]) \subseteq Statuses
    /\ lane \in [Slots -> {"none", "model", "omitted", "gated_skipped", "shape_skipped", "awaiting_disposition"}]

------------------------------------------------------------------------------
(* Structure.                                                                 *)

Prose(s) == shape[s].prose
\* The section a slot's parent opened is the one header before it on its sheet.
Parent(s) ==
    LET heads == {h \in 1..(s - 1) : shape[h].header /\ shape[h].sheet = shape[s].sheet}
    IN IF shape[s].child /\ heads # {} THEN CHOOSE h \in heads : \A g \in heads : g <= h ELSE None

Gates(g) == {s \in Slots : follows[s] = g}
Hop(set) == UNION {Gates(g) : g \in set}
Cascade(from, within) ==
    FoldLeft(LAMBDA skipped, s : skipped \cup (Hop(from \cup skipped) \cap within), {}, [s \in Slots |-> s])

\* Each slot joins the last section or opens one: a sheet's by its header or by the
\* sheet, a docx slot's by its heading.
Joins(groups, s) ==
    /\ groups # <<>> /\ Last(groups).sheet = shape[s].sheet /\ ~shape[s].header
    /\ IF shape[s].sheet = None THEN Parent(s) # None /\ Parent(s) = Last(groups).opener
       ELSE Last(groups).opener \in {None, Parent(s)}
Place(groups, s) ==
    IF Joins(groups, s) THEN [groups EXCEPT ![Len(groups)].slots = Append(@, s)]
    ELSE Append(groups, [sheet |-> shape[s].sheet, slots |-> <<s>>,
                         title |-> title[s],
                         opener |-> IF shape[s].header \/ shape[s].sheet = None THEN s ELSE None])
Group(groups, s) == Place(groups, s)
Aggregate == FoldLeft(Group, <<>>, [s \in Slots |-> s])

\* The second section of a title gets the suffix 2, and so on.
SectionId(plan, k) ==
    LET n == Cardinality({j \in 1..k : plan[j].title = plan[k].title})
    IN IF n = 1 THEN plan[k].title ELSE Append(plan[k].title, n)

------------------------------------------------------------------------------
(* Planning.                                                                  *)

Acyclic == \A s \in Slots : s \notin Cascade(Gates(s), Slots) \cup Gates(s)
Init ==
    /\ path \in {"A", "B"} /\ shape \in [Slots -> Shapes] /\ title \in [Slots -> Titles]
    /\ follows \in [Slots -> Slots \cup {None}] /\ (CrossFollow \/ Acyclic)
    /\ confident \in SUBSET {s \in Slots : Prose(s)}
    /\ path = "B" => follows = [s \in Slots |-> None] /\ confident = {}
    /\ sections = <<>> /\ disposition = [s \in Slots |-> "none"] /\ gap = [s \in Slots |-> None]
    /\ asked = <<>> /\ lane = [s \in Slots |-> "none"] /\ outcome = <<>>

\* Mutant: the children of every gater are skipped, grounded or not.
DispositionAny(s) ==
    IF ~Prose(s) THEN "shape_skipped"
    ELSE IF s \in Cascade({q \in Slots : Prose(q)}, Slots) THEN "gated_skipped"
    ELSE IF s \in confident THEN "grounded" ELSE "gapped"
\* Children of a gapped gater anywhere in the document are skipped, not gapped.
Disposition(s) ==
    LET gapped == {q \in Slots : Prose(q)} \ confident
    IN IF ~Prose(s) THEN "shape_skipped"
       ELSE IF s \in Cascade(gapped, Slots) THEN "gated_skipped"
       ELSE IF s \in confident THEN "grounded" ELSE "gapped"

OpensGap(s) == Disposition(s) = "gapped"

Map ==
    /\ path = "A" /\ sections = <<>>
    /\ sections' = Aggregate
    /\ disposition' = [s \in Slots |-> Disposition(s)]
    /\ gap' = [s \in Slots |-> IF OpensGap(s) THEN "open" ELSE None]
    /\ asked' = [k \in DOMAIN sections' |-> <<>>]
    /\ UNCHANGED <<parsed, lane, outcome>>

\* An outline's gaps belong to its sections.
Outline(thin) ==
    /\ path = "B" /\ sections = <<>>
    /\ sections' = Aggregate
    /\ asked' = [k \in DOMAIN sections' |-> IF k \in thin THEN <<"open">> ELSE <<>>]
    /\ UNCHANGED <<parsed, disposition, gap, lane, outcome>>

Unrouted == lane' = [s \in Slots |-> "none"] /\ outcome' = <<>>

\* Gate 2, the pings and the answers settle a gap.
Settle(s, status) ==
    /\ gap[s] \in Undisposed /\ status # gap[s]
    /\ gap' = [gap EXCEPT ![s] = status]
    /\ Unrouted /\ UNCHANGED <<parsed, sections, disposition, asked>>

SettleAsked(k, i, status) ==
    /\ asked[k][i] \in Undisposed /\ status # asked[k][i]
    /\ asked' = [asked EXCEPT ![k][i] = status]
    /\ Unrouted /\ UNCHANGED <<parsed, sections, disposition, gap>>

\* A reviewer asks about a section, without a slot; only a designated structure pends
\* for what it cannot target, an outline's gap is its section's.
OpenGap(k) ==
    /\ \A j \in DOMAIN sections : asked[j] = <<>> \/ (path = "B" /\ asked[j] = <<"open">>)
    /\ asked' = [asked EXCEPT ![k] = Append(@, "open")]
    /\ Unrouted /\ UNCHANGED <<parsed, sections, disposition, gap>>

------------------------------------------------------------------------------
(* Drafting.                                                                  *)

SectionOf(s) == CHOOSE k \in DOMAIN sections : s \in Range(sections[k].slots)
Asked(k, some) == Range(asked[k]) \cap some # {}

\* The gates of a gapped gater, whatever became of its gap, in its own section.
GatedIn(k) ==
    LET own == Range(sections[k].slots) IN Cascade({s \in own : gap[s] # None}, own)

LaneOf(s) ==
    IF ~Prose(s) THEN "shape_skipped"
    ELSE IF gap[s] = "omit_approved" THEN "omitted"
    ELSE IF gap[s] \in Undisposed THEN "awaiting_disposition"
    ELSE IF s \in GatedIn(SectionOf(s)) THEN "gated_skipped" ELSE "model"

OutcomeA(k) ==
    LET own == Range(sections[k].slots)
        answerable == {s \in own : LaneOf(s) # "shape_skipped"}
    IN IF Asked(k, Undisposed \cup {"omit_approved"}) THEN "awaiting_disposition"
       ELSE IF answerable = {} THEN "shape_skipped"
       ELSE IF \E s \in own : LaneOf(s) = "model" THEN "model"
       ELSE IF \A s \in answerable : LaneOf(s) = "omitted" THEN "omitted"
       ELSE "awaiting_disposition"

\* In an outline the last gap that says something wins.
LastWord(k) ==
    LET words == SelectSeq(asked[k], LAMBDA g : g \in Undisposed \cup {"omit_approved"})
    IN IF words = <<>> THEN "model"
       ELSE IF Last(words) = "omit_approved" THEN "omitted" ELSE "awaiting_disposition"
OutcomeB(k) == LastWord(k)

Route ==
    /\ sections # <<>> /\ outcome = <<>>
    /\ outcome' = [k \in DOMAIN sections |-> IF path = "A" THEN OutcomeA(k) ELSE OutcomeB(k)]
    /\ lane' = IF path = "A" THEN [s \in Slots |-> LaneOf(s)] ELSE lane
    /\ UNCHANGED <<parsed, sections, disposition, gap, asked>>

Next ==
    \/ Map \/ Route
    \/ \E thin \in SUBSET Slots : Outline(thin)
    \/ \E s \in Slots, status \in Statuses : Settle(s, status)
    \/ \E k \in DOMAIN sections : \/ OpenGap(k)
                                  \/ \E i \in DOMAIN asked[k], status \in Statuses : SettleAsked(k, i, status)

Spec == Init /\ [][Next]_vars

------------------------------------------------------------------------------
Gaters(s) == {g \in Slots : s \in Cascade({g}, Slots)}
Drafted(s) == lane[s] = "model" /\ outcome[SectionOf(s)] = "model"
Vouched(s) == gap[s] \in Vouching

\* Every slot is in exactly one section, in document order (sections.py:138-153).
SectionedOnce ==
    sections # <<>> => FlattenSeq([k \in DOMAIN sections |-> sections[k].slots]) = [s \in Slots |-> s]

\* Zero silent misses: a question that wants prose is grounded, is a gap somebody is
\* asked about, or follows one that is (sections.py:10-15, mapper.py:71-97).
NoSilentMiss ==
    sections # <<>> /\ path = "A" => \A s \in Slots : Prose(s) =>
        disposition[s] = "grounded" \/ gap[s] # None \/ \E g \in Gaters(s) : gap[g] # None

\* What the knowledge base does not ground and no human vouched for is not drafted, in
\* a question that no question of another section gates (route.py:129-180, 182-196).
InventsNothingInside ==
    \A s \in Slots : Drafted(s) /\ Gaters(s) \subseteq Range(sections[SectionOf(s)].slots) =>
        disposition[s] = "grounded" \/ Vouched(s)

\* Nor is a section drafted while somebody was asked about the whole of it, or after
\* its omission was approved (route.py:161-169, 199-226).
SectionWordHolds ==
    outcome # <<>> => \A k \in DOMAIN sections :
        Asked(k, Undisposed \cup {"omit_approved"}) => outcome[k] # "model"

------------------------------------------------------------------------------
(* What the docs say and the code does not keep.                              *)

\* route.py:14-17: children of a gap-carrying gater stay gated, wherever they are.
InventsNothing == \A s \in Slots : Drafted(s) => disposition[s] = "grounded" \/ Vouched(s)

\* sections.py:7: section_id is a unique-suffixed slug.
SectionIdsDiffer ==
    \A j, k \in DOMAIN sections : SectionId(sections, j) = SectionId(sections, k) => j = k
==============================================================================
