------------------------------ MODULE ExportDoors ------------------------------
(***************************************************************************)
(* The doors a response leaves by (web/server.py, assembly/): the render    *)
(* and the write-back of every form the container declares, or the fill of  *)
(* the firm's template with what a human completes, each behind a scan for  *)
(* what the knowledge base has ingested, which no lock holds still; the     *)
(* bundle that records what they left on disk; the downloads, which read    *)
(* the bundle under no lock.  A response is a text of a frozen plan; a file *)
(* is the text, the hand-typed values and the run it was written from, and  *)
(* whether it was written to the end: two files are equal when their        *)
(* digests are.  A process is killed at most MaxKills times.                *)
(***************************************************************************)
EXTENDS Integers, Sequences, SequencesExt, FiniteSets

CONSTANTS
    Forms,          \* the buyer's forms, in the container's order
    MaxTexts,       \* drafts and revisions
    MaxPlans,       \* freezes of the plan
    MaxRuns,        \* doors opened
    MaxKills,
    None

Drafts == [n : 1..MaxTexts, plan : 1..MaxPlans]
Files == [text : Drafts, hand : {"owed", "clean", "naming"}, run : 1..MaxRuns, whole : BOOLEAN]

\* Assumed of the constants wherever this module is instantiated.
ExportConstants ==
    /\ {MaxTexts, MaxPlans, MaxRuns, MaxKills} \subseteq Nat /\ MaxPlans > 0 /\ None \notin Files
    /\ Forms \in Seq(Range(Forms)) /\ IsInjective(Forms)
    /\ Range(Forms) \cap {"render", "fill"} = {}

VARIABLES
    firm,           \* whether the plan is against the firm's template
    freeze, draft,  \* the live plan; the response, None when a replan archived it
    pends, blocked, \* sections awaiting a disposition; packaging is blocked
    indexed,        \* the texts with an identifier the restricted index knows
    hand,           \* the hand-typed values: owed, clean, or with an indexed identifier
    file, facts,    \* by deliverable: bytes on disk, and the record of their proof
    bundle,         \* submission-bundle.json
    door,           \* the request under the pursuit's guard; its field "known" is
                    \* history: the index when the turn of its lane came
    drafts, runs, kills,
    proved,         \* the files whose round trip was proved (history)
    sent            \* the last download (history)

response == <<firm, freeze, draft, pends, blocked>>
disk == <<file, facts, bundle, proved>>
counts == <<drafts, runs, kills>>
vars == <<response, indexed, hand, disk, door, counts, sent>>

Bound == IF firm THEN <<"fill">> ELSE Forms
Deliverables == Range(Bound) \cup (IF firm THEN {} ELSE {"render"})
Lanes == Range(Forms) \cup {"render", "fill"}
Idle == [kind |-> "none", todo |-> <<>>, step |-> "none", refused |-> {}, made |-> {},
         known |-> {}]

TypeOK ==
    /\ firm \in BOOLEAN /\ freeze \in 1..MaxPlans /\ draft \in Drafts \cup {None}
    /\ pends \in BOOLEAN /\ blocked \in BOOLEAN /\ indexed \subseteq 1..MaxTexts
    /\ hand \in {"owed", "clean", "naming"}
    /\ \A l \in Lanes : file[l] \in Files \cup {None}
    /\ \A l \in Lanes : facts[l] # None => l # "render" /\ (facts[l].sha # None => facts[l].sha.whole)
    /\ bundle # None => \A l \in Deliverables :
           bundle[l].status \in {"produced", "refused", "drifted", "absent"}
    /\ door.refused \cap door.made = {} /\ door.refused \cup door.made \subseteq Deliverables
    /\ door.kind = "none" => door = Idle
    /\ door.known \subseteq indexed
    /\ drafts \in 0..MaxTexts /\ runs \in 0..MaxRuns /\ kills \in 0..MaxKills

Init ==
    /\ firm \in BOOLEAN /\ freeze = 1 /\ draft = None /\ pends = FALSE /\ blocked = FALSE
    /\ indexed = {} /\ hand = "owed"
    /\ file = [l \in Lanes |-> None] /\ facts = [l \in Lanes |-> None] /\ bundle = None
    /\ door = Idle /\ drafts = 0 /\ runs = 0 /\ kills = 0 /\ proved = {} /\ sent = None

------------------------------------------------------------------------------
(* The rest of the pursuit, under the same guard; the knowledge base is not.  *)

Free == door = Idle

\* The next draft or revision; its text may leave sections pending, packaging blocked.
Redraft(p, b) ==
    /\ Free /\ drafts < MaxTexts
    /\ drafts' = drafts + 1
    /\ draft' = [n |-> drafts', plan |-> freeze] /\ pends' = p /\ blocked' = b
    /\ UNCHANGED <<firm, freeze, indexed, hand, disk, door, runs, kills, sent>>

Waive ==
    /\ Free /\ draft # None /\ blocked
    /\ blocked' = FALSE
    /\ UNCHANGED <<firm, freeze, draft, pends, indexed, hand, disk, door, counts, sent>>

\* An addendum: the plan freezes again and the draft is archived; the exports stay.
Replan ==
    /\ Free /\ draft # None /\ freeze < MaxPlans
    /\ freeze' = freeze + 1 /\ draft' = None /\ pends' = FALSE /\ blocked' = FALSE
    /\ UNCHANGED <<firm, indexed, hand, disk, door, counts, sent>>

HandFill(value) ==
    /\ Free /\ firm /\ value # hand
    /\ hand' = value
    /\ UNCHANGED <<response, indexed, disk, door, counts, sent>>

\* A client's identifiers reach the restricted index.
Ingest(n) ==
    /\ n \notin indexed
    /\ indexed' = indexed \cup {n}
    /\ UNCHANGED <<response, hand, disk, door, counts, sent>>

------------------------------------------------------------------------------
(* The doors.                                                                 *)

Current(lane) == draft # None /\ (lane # "review" => ~blocked) /\ (lane = "submission" => ~pends)

Enter(kind, todo) ==
    /\ Free /\ runs < MaxRuns
    /\ runs' = runs + 1
    /\ door' = [Idle EXCEPT !.kind = kind, !.todo = todo, !.step = "run", !.known = indexed]
    /\ UNCHANGED <<response, indexed, hand, disk, kills, drafts, sent>>

\* The firm's template is never rendered; the review copy is internal.
Export == ~firm /\ Current("submission") /\ Enter("export", <<"render">>)
Review == Current("review") /\ Enter("review", <<>>)
Confirm == Current("writeback") /\ Enter("confirm", Bound)

\* The template is the buyer's copy when nothing remains.
Complete == ~pends /\ hand # "owed"
Withheld(l) == l = "fill" /\ ~Complete
\* Mutant: the scan does not read the hand-typed values.
ResidueOfText(l) == draft.n \in indexed
Residue(l) == draft.n \in indexed \/ (l = "fill" /\ hand = "naming")

At(step) == door.kind # "none" /\ door.step = step /\ door.todo # <<>>
Lane == Head(door.todo)
NextLane == [door EXCEPT !.todo = Tail(@), !.step = "run", !.known = indexed]
Refuse == door' = [NextLane EXCEPT !.refused = @ \cup {Lane}]
Made == door' = [NextLane EXCEPT !.made = @ \cup {Lane}]
Unlink == file' = [file EXCEPT ![Lane] = None]

\* A source that is gone, a template that drifted, a text the library cannot write, a
\* working copy that did not come out.
LaneRefused ==
    /\ At("run") \/ At("scanned") \/ (At("write") /\ Lane # "render")
    /\ IF door.kind = "export" THEN door' = [door EXCEPT !.todo = <<>>, !.step = "run"]
       ELSE Refuse
    /\ UNCHANGED <<response, indexed, hand, disk, counts, sent>>

RefusedAndGone ==
    /\ Refuse /\ Unlink
    /\ UNCHANGED <<response, indexed, hand, facts, bundle, proved, counts, sent>>
Gate == At("run") /\ ~Withheld(Lane) /\ Residue(Lane) /\ RefusedAndGone

\* The scan reads the index once; until the file is begun (the fill renders its whole
\* working copy first) an ingest may add to it.
Scan ==
    /\ At("run") /\ ~Withheld(Lane) /\ ~Residue(Lane)
    /\ door' = [door EXCEPT !.step = "scanned"]
    /\ UNCHANGED <<response, indexed, hand, disk, counts, sent>>

Write ==
    /\ At("scanned")
    /\ file' = [file EXCEPT ![Lane] = [text |-> draft, hand |-> hand, run |-> runs, whole |-> FALSE]]
    /\ door' = [door EXCEPT !.step = "write"]
    /\ UNCHANGED <<response, indexed, hand, facts, bundle, proved, counts, sent>>

Saved(f) == [f EXCEPT !.whole = TRUE]
Save ==
    /\ At("write")
    /\ file' = [file EXCEPT ![Lane] = Saved(@)]
    /\ IF Lane = "render" THEN Made ELSE door' = [door EXCEPT !.step = "prove"]
    /\ UNCHANGED <<response, indexed, hand, facts, bundle, proved, counts, sent>>

\* The round trip: what changed is what was meant to.
Prove ==
    /\ At("prove")
    /\ proved' = proved \cup {<<Lane, file[Lane]>>}
    /\ door' = [door EXCEPT !.step = "record"]
    /\ UNCHANGED <<response, indexed, hand, file, facts, bundle, counts, sent>>
Drift == At("prove") /\ RefusedAndGone

Record ==
    /\ At("record")
    /\ facts' = [facts EXCEPT ![Lane] = [sha |-> file[Lane], made |-> TRUE, run |-> runs]]
    /\ Made
    /\ UNCHANGED <<response, indexed, hand, file, bundle, proved, counts, sent>>

\* Only the working copy: a stale buyer copy is removed, then the facts say so.
Emptied == Unlink
Withhold ==
    /\ At("run") /\ Withheld(Lane)
    /\ Emptied /\ door' = [door EXCEPT !.step = "withheld"]
    /\ UNCHANGED <<response, indexed, hand, facts, bundle, proved, counts, sent>>
RecordWithheld ==
    /\ At("withheld")
    /\ facts' = [facts EXCEPT ![Lane] = [sha |-> None, made |-> FALSE, run |-> runs]]
    /\ Made
    /\ UNCHANGED <<response, indexed, hand, file, bundle, proved, counts, sent>>

Entry(l, refused) ==
    LET kept(status) == [status |-> status, sha |-> file[l]]
    IN IF l \in refused THEN kept("refused")
       ELSE IF l = "render" THEN kept(IF file[l] # None THEN "produced" ELSE "absent")
       ELSE IF facts[l] # None /\ ~facts[l].made THEN kept("refused")
       ELSE IF facts[l] = None \/ file[l] = None THEN kept("absent")
       ELSE kept(IF file[l] = facts[l].sha THEN "produced" ELSE "drifted")
Listed(l, refused) == Entry(l, refused)

\* A confirm no lane survived leaves the last bundle, and so does a render that the
\* library refused; a render that names a client is recorded as refused.
Composes ==
    \/ door.kind = "review"
    \/ door.kind = "confirm" /\ door.made # {}
    \/ door.kind = "export" /\ door.made \cup door.refused # {}
Compose ==
    /\ ~Free /\ door.todo = <<>>
    /\ IF Composes THEN bundle' = [l \in Deliverables |-> Listed(l, door.refused)]
       ELSE UNCHANGED bundle
    /\ door' = Idle
    /\ UNCHANGED <<response, indexed, hand, file, facts, proved, counts, sent>>

Kill ==
    /\ ~Free /\ kills < MaxKills
    /\ kills' = kills + 1 /\ door' = Idle
    /\ UNCHANGED <<response, indexed, hand, disk, drafts, runs, sent>>

\* What the bundle lists is served by its path, whatever is there now.
Offered(l) == bundle # None /\ bundle[l].status = "produced"
Download(l) ==
    /\ Offered(l) /\ file[l] # None
    /\ sent' = [lane |-> l, bytes |-> file[l]]
    /\ UNCHANGED <<response, indexed, hand, disk, door, counts>>

Next ==
    \/ \E p, b \in BOOLEAN : Redraft(p, b)
    \/ Waive \/ Replan
    \/ \E value \in {"owed", "clean", "naming"} : HandFill(value)
    \/ \E n \in 1..MaxTexts : Ingest(n)
    \/ Export \/ Review \/ Confirm
    \/ LaneRefused \/ Gate \/ Scan \/ Write \/ Save \/ Prove \/ Drift \/ Record
    \/ Withhold \/ RecordWithheld \/ Compose \/ Kill
    \/ \E l \in Deliverables : Download(l)

Spec == Init /\ [][Next]_vars

------------------------------------------------------------------------------
\* Whatever was killed when, the bundle lists a form or the filled template only as
\* the bytes a round trip proved (bundle.py:139-165).
ProducedIsProved ==
    bundle # None => \A l \in Range(Bound) :
        bundle[l].status = "produced" => <<l, bundle[l].sha>> \in proved

\* A copy never outlives its facts: what is on disk was written by the run the facts
\* are of or a later one (template_fill.py:567-568, writeback.py:175-183).
FactsNeverAhead ==
    \A l \in Lanes : facts[l] # None /\ file[l] # None => file[l].run >= facts[l].run

\* What a confirm lists as produced is the live draft, written by this very confirm:
\* a lane that was refused now does not stand in with what it left before
\* (server.py:1008-1031, bundle.py:121-127).
ConfirmShipsTheDraft ==
    [][door.kind = "confirm" /\ bundle' # bundle => \A l \in Range(Bound) :
           bundle'[l].status = "produced" =>
               bundle'[l].sha.text = draft /\ bundle'[l].sha.run = runs]_vars

Begun(l) == file'[l] # None /\ (file[l] = None \/ file'[l].run # file[l].run)

\* No buyer-facing file is begun from a text that the index knew to name another client
\* when the turn of its lane came, or from a hand-typed value that does, though the lane
\* is scanned later and written later still; what an ingest adds behind the scan is not
\* seen (NamesNobodyWhenBegun, below) (docx.py:128-149, egress.py:183-209,
\* writeback.py:166-169, template_fill.py:550-565).
WrittenNamesNobody ==
    [][\A l \in Lanes : Begun(l) =>
           draft.n \notin door.known /\ (l = "fill" => hand = "clean")]_vars

------------------------------------------------------------------------------
(* What the docs say and the code does not keep.                              *)

\* bundle.py:148-154: bytes no proof stands behind never go to the buyer.
ServedIsProved ==
    sent # None /\ sent.lane # "render" => <<sent.lane, sent.bytes>> \in proved

\* bindings.py:6-9: a replanned pursuit's pre-amendment response can never ship.
OldResponseNeverShips ==
    [][bundle' # bundle => \A l \in Deliverables :
           bundle'[l].status = "produced" => bundle'[l].sha.text.plan = freeze]_vars

\* bundle.py:19-20: produced is bytes on disk, digested, with a decision record.
RenderIsWhole ==
    bundle # None /\ ~firm => (bundle["render"].status = "produced" => bundle["render"].sha.whole)

\* egress.py:1-4: every lane "refuses typed when another client's identifier is in the
\* text" it is about to hand outward, against the identifiers "ever ingested".
NamesNobodyWhenBegun == [][\A l \in Lanes : Begun(l) => draft.n \notin indexed]_vars
==============================================================================
