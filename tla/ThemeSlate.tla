------------------------------ MODULE ThemeSlate ------------------------------
(***************************************************************************)
(* From opened cards and a research pack to the approved win themes        *)
(* (research/findings.py, topics.py, pack.py, strategy/themes.py and       *)
(* strategy/gate.py).  Models propose; code keeps what it can trace.  The  *)
(* proposals are arbitrary; a theme is named by its candidate.             *)
(***************************************************************************)
EXTENDS Naturals, Sequences, SequencesExt, FiniteSetsExt

CONSTANTS Cards, Restricted,     \* KB cards; cards with a use restriction
          Urls, Packed,          \* URLs a model may return; those of the pack
          GenerateMax, KeepMax, MaxEdits

\* Assumed of the constants wherever this module is instantiated.
SlateAssumption ==
    /\ Restricted \subseteq Cards /\ Packed \subseteq Urls /\ Cards \cap Urls = {}
    /\ {GenerateMax, KeepMax, MaxEdits} \subseteq Nat

VARIABLES phase, mode,       \* airgapped or web
          opened, findings,  \* sources that were opened; sources of findings
          slate,             \* candidates in order: [id, cites, status, by]
          decided, edits

vars == <<phase, mode, opened, findings, slate, decided, edits>>
Candidate(id, cites, status, by) == [id |-> id, cites |-> cites, status |-> status, by |-> by]

TypeOK ==
    /\ phase \in {"internal", "external", "generate", "judge", "gate", "approved", "refused"}
    /\ mode \in {"airgapped", "web"} /\ edits \in 0..MaxEdits
    /\ opened \subseteq Cards /\ findings \subseteq Cards \cup Urls
    /\ \A c \in ToSet(slate) :
          /\ c.id \in 1..GenerateMax + MaxEdits /\ c.cites \subseteq Cards \cup Urls
          /\ c.status \in {"proposed", "killed", "approved"} /\ c.by \in {"model", "human"}
    /\ decided \subseteq 1..GenerateMax + MaxEdits

Init ==
    /\ phase = "internal" /\ mode \in {"airgapped", "web"}
    /\ opened = {} /\ findings = {} /\ slate = <<>> /\ decided = {} /\ edits = 0

Openable(found) == found \ Restricted     \* UseRestrictedCard: skipped, warned

Traceable(cited, known) == cited \cap known

\* The queries carry topics of the vocabulary only (derive_topics), and a
\* finding whose card was never opened is dropped.
ResearchInternal(found, cited) ==
    /\ phase = "internal" /\ phase' = "external"
    /\ opened' = Openable(found) /\ findings' = Traceable(cited, opened')
    /\ UNCHANGED <<mode, slate, decided, edits>>

PackUrls(supplied) == IF supplied THEN Packed ELSE {}
ResearchExternal(supplied, cited) ==
    /\ phase = "external"
    /\ findings' = findings \cup
          (IF mode = "airgapped" THEN Traceable(cited, PackUrls(supplied)) ELSE cited)
    /\ phase' = IF findings' = {} THEN "refused" ELSE "generate"
    /\ UNCHANGED <<mode, opened, slate, decided, edits>>

\* parse_wire_candidates: unknown cites removed, uncited candidates dropped, the
\* rest in their order, cut at GENERATE_MAX and numbered.
Kept(wire) == {i \in DOMAIN wire : Traceable(wire[i], findings) # {}}
Truncated(kept) == Min({Cardinality(kept), GenerateMax})
Nth(kept, k) == CHOOSE i \in kept : Cardinality({j \in kept : j <= i}) = k

Numbered(wire) ==
    [k \in 1..Truncated(Kept(wire)) |->
        Candidate(k, Traceable(wire[Nth(Kept(wire), k)], findings), "proposed", "model")]

Generate(wire) ==
    /\ phase = "generate" /\ phase' = "judge"
    /\ slate' = Numbered(wire)
    /\ UNCHANGED <<mode, opened, findings, decided, edits>>

Survives(verdicts, i) ==
    /\ i \in verdicts.keep
    /\ Cardinality({j \in verdicts.keep : j < i}) < KeepMax

Judge(verdicts) ==     \* the first verdict on an index counts
    /\ phase = "judge" /\ phase' = "gate"
    /\ slate' = [i \in DOMAIN slate |->
                    IF Survives(verdicts, i) THEN slate[i]
                    ELSE [slate[i] EXCEPT !.status = "killed"]]
    /\ UNCHANGED <<mode, opened, findings, decided, edits>>

---------------------------------------------------------------------------
\* Gate 1 edits; a bad one raises and leaves the brief alone.
Kill(i) ==
    /\ phase = "gate" /\ edits < MaxEdits /\ slate[i].status = "proposed"
    /\ slate' = [slate EXCEPT ![i].status = "killed"] /\ edits' = edits + 1
    /\ UNCHANGED <<phase, mode, opened, findings, decided>>

NextCandidateId == IF slate = <<>> THEN 1 ELSE 1 + Max({c.id : c \in ToSet(slate)})

Add(cites) ==      \* authored by a human: cites optional, never checked
    /\ phase = "gate" /\ edits < MaxEdits
    /\ slate' = Append(slate, Candidate(NextCandidateId, cites, "proposed", "human"))
    /\ edits' = edits + 1
    /\ UNCHANGED <<phase, mode, opened, findings, decided>>

ApproveProposed(c) == IF c.status = "proposed" THEN [c EXCEPT !.status = "approved"] ELSE c

Approve ==
    /\ phase = "gate" /\ phase' = "approved"
    /\ slate' = [i \in DOMAIN slate |-> ApproveProposed(slate[i])]
    /\ decided' = {c.id : c \in {d \in ToSet(slate') : d.status = "approved"}}
    /\ UNCHANGED <<mode, opened, findings, edits>>

Sources == Cards \cup Urls
Next ==
    \/ \E found, cited \in SUBSET Cards : ResearchInternal(found, cited)
    \/ \E supplied \in BOOLEAN, cited \in SUBSET Urls : ResearchExternal(supplied, cited)
    \/ \E wire \in BoundedSeq(SUBSET Sources, GenerateMax + 1) : Generate(wire)
    \/ \E keep, kill \in SUBSET DOMAIN slate :
          keep \cap kill = {} /\ Judge([keep |-> keep, kill |-> kill])
    \/ \E i \in DOMAIN slate : Kill(i)
    \/ \E cites \in SUBSET Packed : Add(cites)
    \/ Approve
Spec == Init /\ [][Next]_vars

---------------------------------------------------------------------------
\* Every approved theme of the model's rests on a card that was opened and may
\* be used, or, in an airgapped run, on the pack: through three lists of sources
\* that models wrote (B21, B22(3), findings.py:80-81, themes.py:60-64).
ThemesTrace ==
    \A c \in ToSet(slate) : c.by = "model" =>
        /\ c.cites # {} /\ c.cites \cap Restricted = {}
        /\ c.cites \cap Cards \subseteq opened
        /\ mode = "airgapped" => c.cites \cap Urls \subseteq Packed

\* An id names one candidate for good: killed ones keep theirs, added ones get a
\* new one (B37/E2, strategy/gate.py:62-77).
IdsStand ==
    /\ \A i, j \in DOMAIN slate : slate[i].id = slate[j].id => i = j
    /\ decided \cap {c.id : c \in {d \in ToSet(slate) : d.status = "killed"}} = {}

\* The judge keeps at most KEEP_MAX and only what it judged: beyond that, only a
\* human adds (G4, themes.py:243-270).
JudgeWindow ==
    phase \in {"gate", "approved"} =>
        Cardinality({i \in DOMAIN slate : slate[i].by = "model" /\ slate[i].status # "killed"})
            <= KeepMax
=============================================================================
