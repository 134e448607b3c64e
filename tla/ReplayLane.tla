------------------------------ MODULE ReplayLane ------------------------------
(***************************************************************************)
(* Retrieval and the replay that withholds a pursuit's own knowledge:       *)
(* card_search, descend and targeted_open over the joined lanes             *)
(* (kb/retrieve.py, kb/rank.py, kb/lanes.py), the self-exclusion set        *)
(* (kb/purge.py), the replay runner (cli/replay.py) with the walk's three   *)
(* retrieving stages, and the bench that measures it (evals/replay.py).     *)
(* Stewards restrict and deprecate cards, and the assistant searches, while *)
(* it runs.  A card is its id with its catalog tokens, its lane, its place  *)
(* in a document and the cards it derives from; idf is any weight that      *)
(* falls with document frequency.                                           *)
(***************************************************************************)
EXTENDS Integers, Sequences, FiniteSets, FiniteSetsExt, SequencesExt

CONSTANTS
    Cards,          \* kb_ids, numbered in their sort order
    Tokens,         \* the tokens of each card's catalog text
    LaneOf, Joined, \* the lane that minted each id; the lanes of the bundle
    Facts,          \* the fact-sheet cards: ground truth, never searchable
    Path,           \* the heading path of each card in its document
    Sources, Accepted, Derived,     \* lineage of the pursuit; accepted proposals; derived_from
    Topics,         \* the queries of the research stage, then those of the plan
    K, MaxSteward   \* results of a search; bound on steward decisions

\* Assumed of the constants wherever this module is instantiated.
RetrievalConstants ==
    /\ Cards \subseteq Nat /\ IsFiniteSet(Cards) /\ Facts \subseteq Cards
    /\ DOMAIN Tokens = Cards /\ DOMAIN LaneOf = Cards /\ DOMAIN Path = Cards
    /\ Sources \subseteq Cards /\ Accepted \subseteq Cards /\ Derived \in [Cards -> SUBSET Cards]
    /\ "firm" \in Joined /\ K \in Nat /\ MaxSteward \in Nat

VARIABLES
    status,     \* active, restricted or deprecated, of each card
    steward,    \* steward decisions made
    pc,         \* start, topic, open, plan, draft, cite, then measured
    exclude,    \* the replay's self-exclusion set
    todo,       \* queries (or planned cards) left in this stage
    top,        \* the card a topic's search put first
    opened,     \* the cards this stage opened
    hits,       \* the plan's selection, frozen at Gate 2
    lines,      \* the kb_retrieval lines of the replay's run logs
    last,       \* the last line any process emitted
    verdict     \* what the bench makes of the trace

stage == <<pc, exclude, todo, top, opened, hits>>
vars == <<status, steward, stage, lines, last, verdict>>

\* A kb_retrieval line: what the search ranked, what was opened and cited, and
\* what was withheld.
Line(step, returned, open, cited, excluded) ==
    [step |-> step, returned |-> returned, opened |-> open, cited |-> cited, excluded |-> excluded]
NoLine == Line("none", <<>>, {}, {}, {})

TypeOK ==
    /\ status \in [Cards -> {"active", "restricted", "deprecated"}]
    /\ pc \in {"start", "topic", "open", "plan", "draft", "cite", "measured"}
    /\ exclude \subseteq Cards /\ hits \subseteq Cards /\ opened \subseteq Cards
    /\ \A l \in lines \cup {last} :
         /\ l.step \in {"none", "card_search", "path_descend", "targeted_open", "cite"}
         /\ l.cited \subseteq l.opened /\ l.opened \subseteq Range(l.returned)
         /\ Range(l.returned) \subseteq Cards /\ l.excluded \subseteq Cards
    /\ verdict \in {"none", "vacuous", "unclean", "pass"}

------------------------------------------------------------------------------
(* Retrieval: operators over the catalog as it stands.                        *)

Withheld(c) == status[c] # "active"
Searchable == {c \in Cards : LaneOf[c] \in Joined /\ c \notin Facts}
Active == {c \in Searchable : ~Withheld(c)}

\* Mutant: the statistics are those of the filtered corpus.
FilteredCorpus(out) == Active \ out
\* The corpus of one idf: the joined lanes, before any per-query filter.
Corpus(out) == Active
Weight(corpus, t) == Cardinality(corpus) + 1 - Cardinality({c \in corpus : t \in Tokens[c]})
Score(corpus, query, c) == FoldSet(LAMBDA t, sum : sum + Weight(corpus, t), 0, query \cap Tokens[c])

Before(corpus, query, a, b) ==
    \/ Score(corpus, query, a) > Score(corpus, query, b)
    \/ Score(corpus, query, a) = Score(corpus, query, b) /\ a < b
Ranked(corpus, query, cards) ==
    SetToSortSeq({c \in cards : Score(corpus, query, c) > 0}, LAMBDA a, b : Before(corpus, query, a, b))
TopK(s) == SubSeq(s, 1, IF Len(s) < K THEN Len(s) ELSE K)

\* Withheld and excluded cards are rows of the line, never silently dropped.
SearchLine(query, out) ==
    Line("card_search", TopK(Ranked(Corpus(out), query, Active \ out)), {}, {},
         {c \in Searchable : Withheld(c)} \cup (Active \cap out))

OpenLine(c, out) ==
    IF c \in out \/ Withheld(c) THEN Line("targeted_open", <<>>, {}, {}, {c})
    ELSE Line("targeted_open", <<c>>, {c}, {}, {})

Neighbours(c, relation) ==
    {d \in Cards \ {c} :
        CASE relation = "parent"   -> Path[c] # <<>> /\ Path[d] = Front(Path[c])
          [] relation = "siblings" -> Path[c] # <<>> /\ Len(Path[d]) = Len(Path[c]) /\ Front(Path[d]) = Front(Path[c])
          [] relation = "children" -> Path[d] # <<>> /\ Front(Path[d]) = Path[c]}
DescendLine(c, relation) ==
    IF Withheld(c) THEN Line("path_descend", <<>>, {}, {}, {c})
    ELSE LET near == Neighbours(c, relation)
         IN Line("path_descend", SetToSortSeq({d \in near : ~Withheld(d)}, <), {}, {}, {d \in near : Withheld(d)})

\* What the pursuit contributed: its sources, what its accepted proposals landed
\* on, and everything derived from those, however far.
Step(set) == set \cup {c \in Cards : Derived[c] \cap set # {}}
Closure(seeds) == FoldFunction(LAMBDA n, set : Step(set), seeds, [c \in Cards |-> 0])
SelfExclusion == Closure(Sources \cup Accepted)

------------------------------------------------------------------------------
Init ==
    /\ status \in [Cards -> {"active", "restricted"}] /\ Cardinality({c \in Cards : Withheld(c)}) <= 1
    /\ steward = 0 /\ pc = "start" /\ exclude = {} /\ todo = <<>> /\ top = <<>>
    /\ opened = {} /\ hits = {} /\ lines = {} /\ last = NoLine /\ verdict = "none"

\* run_replay reads the exclusion set once and hands it to every stage.
StartReplay ==
    /\ pc = "start"
    /\ exclude' = SelfExclusion
    /\ pc' = "topic" /\ todo' = Topics[1]
    /\ UNCHANGED <<status, steward, top, opened, hits, lines, last, verdict>>

Emit(line) == last' = line /\ lines' = lines \cup {line}

\* The internal researcher searches each topic and opens the first result, unless
\* it has it open already.
SearchTopic ==
    /\ pc = "topic" /\ todo # <<>>
    /\ LET line == SearchLine(Head(todo), exclude)
       IN /\ Emit(line)
          /\ todo' = Tail(todo)
          /\ IF line.returned = <<>> \/ Head(line.returned) \in opened
             THEN UNCHANGED <<pc, top>>
             ELSE pc' = "open" /\ top' = <<Head(line.returned)>>
    /\ UNCHANGED <<status, steward, exclude, opened, hits, verdict>>

\* A card that was withheld since the search is refused, and the topic passed over.
OpenTop ==
    /\ pc = "open"
    /\ LET line == OpenLine(Head(top), exclude)
       IN /\ Emit(line)
          /\ opened' = opened \cup line.opened
    /\ pc' = "topic" /\ top' = <<>>
    /\ UNCHANGED <<status, steward, exclude, todo, hits, verdict>>

EndResearch ==
    /\ pc = "topic" /\ todo = <<>>
    /\ pc' = "plan" /\ todo' = Topics[2] /\ opened' = {}
    /\ UNCHANGED <<status, steward, exclude, top, hits, lines, last, verdict>>

\* The mapper: every result of a slot's search is a hit of the plan.
MapSlot ==
    /\ pc = "plan" /\ todo # <<>>
    /\ LET line == SearchLine(Head(todo), exclude)
       IN Emit(line) /\ hits' = hits \cup Range(line.returned)
    /\ todo' = Tail(todo)
    /\ UNCHANGED <<status, steward, pc, exclude, top, opened, verdict>>

Freeze ==
    /\ pc = "plan" /\ todo = <<>>
    /\ pc' = "draft" /\ todo' = SetToSortSeq(hits, <)
    /\ UNCHANGED <<status, steward, exclude, top, opened, hits, lines, last, verdict>>

\* The drafter opens exactly the plan's selection, and cites among what opened.
OpenPlanned ==
    /\ pc = "draft" /\ todo # <<>>
    /\ LET line == OpenLine(Head(todo), exclude)
       IN Emit(line) /\ opened' = opened \cup line.opened
    /\ todo' = Tail(todo)
    /\ UNCHANGED <<status, steward, pc, exclude, top, hits, verdict>>

Cite(cited) ==
    /\ pc = "draft" /\ todo = <<>> /\ cited \subseteq opened
    /\ Emit(Line("cite", SetToSortSeq(hits, <), opened, cited, hits \ opened))
    /\ pc' = "cite"
    /\ UNCHANGED <<status, steward, exclude, todo, top, opened, hits, verdict>>

\* The verdict is read off the trace; a bench whose exclusion is empty or never
\* fired is a vacuous measure.
SurfacedExcluded == {c \in exclude : \E l \in lines : l.step # "cite" /\ c \in Range(l.returned)}
OpenedExcluded == {c \in exclude : \E l \in lines : c \in l.opened}
ExcludedLines == {l \in lines : l.excluded \cap exclude # {}}
Vacuous == exclude = {} \/ ExcludedLines = {}
Measure ==
    /\ pc = "cite"
    /\ pc' = "measured"
    /\ verdict' = IF Vacuous THEN "vacuous"
                  ELSE IF SurfacedExcluded \cup OpenedExcluded # {} THEN "unclean" ELSE "pass"
    /\ UNCHANGED <<status, steward, exclude, todo, top, opened, hits, lines, last>>

\* Meanwhile a steward restricts, deprecates or releases a card, and the assistant
\* uses its tools, which know no exclusion.
Steward(c, s) ==
    /\ steward < MaxSteward /\ status[c] # s
    /\ steward' = steward + 1
    /\ status' = [status EXCEPT ![c] = s]
    /\ UNCHANGED <<stage, lines, last, verdict>>

Assistant(line) ==
    /\ last' = line
    /\ UNCHANGED <<status, steward, stage, lines, verdict>>

Relations == {"parent", "siblings", "children"}
Next ==
    \/ StartReplay \/ SearchTopic \/ OpenTop \/ EndResearch \/ MapSlot \/ Freeze \/ OpenPlanned
    \/ (\E cited \in SUBSET hits : Cite(cited)) \/ Measure
    \/ \E c \in Cards : \/ \E s \in {"active", "restricted", "deprecated"} : Steward(c, s)
                        \/ Assistant(OpenLine(c, {})) \/ \E r \in Relations : Assistant(DescendLine(c, r))
    \/ \E q \in Range(Topics[1]) \cup Range(Topics[2]) : Assistant(SearchLine(q, {}))

Spec == Init /\ [][Next]_vars

------------------------------------------------------------------------------

\* No line surfaces or opens a card that is withheld at that moment, and none of
\* the replay's surfaces an excluded one, also when a plan frozen before the
\* steward's decision still names the card (retrieve.py:49-63, 228-238, 325-360).
NothingWithheldSurfaces ==
    [][last' # last /\ last'.step # "cite" =>
        /\ \A c \in Range(last'.returned) \cup last'.opened : status[c] = "active"
        /\ lines' # lines => (Range(last'.returned) \cup last'.opened) \cap exclude = {}]_vars

\* A filter never shifts the statistics: a replay's search orders its results as the
\* search without the exclusion does (rank.py:3-6, retrieve.py:189-201).
FilterKeepsTheOrder ==
    [][last' # last /\ last'.step = "card_search" /\ lines' # lines =>
        \E q \in Range(Topics[1]) \cup Range(Topics[2]) :
            LET all == SelectSeq(Ranked(Active, q, Active), LAMBDA c : c \notin exclude)
            IN last'.returned = TopK(all)]_vars

\* A replay that passes its bench surfaced and opened nothing of what the pursuit
\* contributed, at any distance of derivation, and did withhold some of it
\* (replay.py:51-73, evals/replay.py:1-16, purge.py:92-121).
PassMeansWithheld ==
    verdict = "pass" =>
        LET own == {c \in Cards : \E n \in 0..Cardinality(Cards) : c \in
                      FoldLeft(LAMBDA set, i : Step(set), Sources \cup Accepted, [i \in 1..n |-> i])}
        IN /\ \A l \in lines : l.step # "cite" => (Range(l.returned) \cup l.opened) \cap own = {}
           /\ \E l \in lines : l.excluded \cap own # {}
==============================================================================
