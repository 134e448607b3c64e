------------------------------ MODULE LearnLane ------------------------------
(***************************************************************************)
(* What the engine learns at an accept (web/learn.py): feedback events are  *)
(* routed into proposals and revised (flywheel/routing.py), answered gaps   *)
(* propose cards, and every cited card gets the survival of its sections    *)
(* (flywheel/survival.py, attribution.py).  The accept is durable first;    *)
(* records and the buyer's names are read before the lock of the KB root is *)
(* taken, events after.  The process can be killed between any two writes   *)
(* and a pursuit accepted again.  A text that names the buyer is written    *)
(* under a placeholder once its alias is known; a proposal is its content.  *)
(***************************************************************************)
EXTENDS Integers, Sequences, FiniteSets, SequencesExt

CONSTANTS
    Pursuits, Cards,
    Events,     \* edits, comments and waivers, each of one pursuit
    Gaps,       \* gaps a human answers, each of one pursuit
    Of,         \* Events \cup Gaps -> Pursuits
    Kind,       \* Events -> how each event is routed
    Naming,     \* events and gaps whose text has the alias the registry learns late
    Residual,   \* those a scan still finds a party in after cleaning
    None, MaxAccepts, MaxKills

Kinds == {"factual", "note", "waiver", "nowhere"}
\* Assumed of the constants wherever this module is instantiated.
LearnConstants ==
    /\ Of \in [Events \cup Gaps -> Pursuits] /\ Kind \in [Events -> Kinds]
    /\ Events \cap Gaps = {} /\ None \notin Pursuits
    /\ IsFiniteSet(Events) /\ IsFiniteSet(Gaps) /\ IsFiniteSet(Cards)
    /\ Naming \cup Residual \subseteq Events \cup Gaps
    /\ MaxAccepts \in Nat /\ MaxKills \in Nat

\* A proposal: where it came from, the card it lands on, and whether its text was
\* cleaned of the late alias.
Proposal(source, card, clean) == [source |-> source, card |-> card, clean |-> clean]
Proposals == [source : Events \cup Gaps, card : Cards \cup {None}, clean : BOOLEAN]

VARIABLES
    cites,      \* cite lines of the run logs: pursuit and card
    alias,      \* the registry knows the late alias
    given,      \* events on the lane and gaps answered
    routing,    \* the revised line of each event: None, or what its routing did
    status,     \* of each proposal
    signal,     \* the cite lines each card's survival was computed from
    pc,         \* idle, read, wait, open, mark, gaps, signals
    seen,       \* the records a learner read, and whether it knew the alias
    todo,       \* proposals to open, then events to mark, gaps, cards
    routed,     \* the events in hand with what each opens
    lock,       \* the learner that holds the lock of the KB root
    accepts, kills,
    covered     \* the cite lines that were there when an accept was last answered

run == <<pc, seen, todo, routed, lock>>
vars == <<cites, alias, given, routing, status, signal, run, accepts, kills, covered>>

Ran == {"opened", "blocked", "nowhere"}
TypeOK ==
    /\ cites \subseteq Pursuits \X Cards /\ alias \in BOOLEAN /\ given \subseteq Events \cup Gaps
    /\ DOMAIN routing = Events
    /\ \A e \in Events : routing[e] # None => e \in given /\ routing[e].did \in Ran /\ routing[e].ids \subseteq Proposals
    /\ status \in [Proposals -> {"absent", "proposed", "accepted", "rejected", "voided"}]
    /\ signal \in [Cards -> SUBSET (Pursuits \X Cards)] /\ covered \subseteq Pursuits \X Cards
    /\ lock \in Pursuits \cup {None}
    /\ \A p \in Pursuits : pc[p] \in {"open", "mark", "gaps", "signals"} <=> lock = p

Init ==
    /\ cites = {} /\ alias = FALSE /\ given = {} /\ routing = [e \in Events |-> None]
    /\ status = [p \in Proposals |-> "absent"] /\ signal = [c \in Cards |-> {}]
    /\ pc = [p \in Pursuits |-> "idle"] /\ seen = [p \in Pursuits |-> None]
    /\ todo = <<>> /\ routed = <<>> /\ lock = None /\ accepts = 0 /\ kills = 0 /\ covered = {}

------------------------------------------------------------------------------
(* What goes on around the learner.                                           *)

Draft(p, c) ==
    /\ pc[p] = "idle" /\ <<p, c>> \notin cites
    /\ cites' = cites \cup {<<p, c>>}
    /\ UNCHANGED <<alias, given, routing, status, signal, run, accepts, kills, covered>>

\* Guests comment while an accept learns; an edit or a waiver takes the pursuit guard.
GiveFeedback(e) ==
    /\ e \notin given /\ (pc[Of[e]] = "idle" \/ Kind[e] = "note")
    /\ given' = given \cup {e}
    /\ UNCHANGED <<cites, alias, routing, status, signal, run, accepts, kills, covered>>

Open(p) == [status EXCEPT ![p] = IF @ = "absent" THEN "proposed" ELSE @]
Clean(x, knows) == x \in Naming => knows

\* An answer may propose its card at once, under the names known then.
AnswerGap(g, propose) ==
    /\ g \notin given /\ pc[Of[g]] = "idle"
    /\ propose => lock = None
    /\ given' = given \cup {g}
    /\ status' = IF propose /\ g \notin Residual THEN Open(Proposal(g, None, Clean(g, alias))) ELSE status
    /\ UNCHANGED <<cites, alias, routing, signal, run, accepts, kills, covered>>

LearnAlias ==
    /\ ~alias /\ alias' = TRUE
    /\ UNCHANGED <<cites, given, routing, status, signal, run, accepts, kills, covered>>

Decide(p, decision) ==
    /\ lock = None /\ status[p] = "proposed"
    /\ status' = [status EXCEPT ![p] = decision]
    /\ UNCHANGED <<cites, alias, given, routing, signal, run, accepts, kills, covered>>

------------------------------------------------------------------------------
(* The learner.                                                               *)

Accept(p) ==
    /\ accepts < MaxAccepts /\ pc[p] = "idle"
    /\ accepts' = accepts + 1 /\ pc' = [pc EXCEPT ![p] = "read"]
    /\ UNCHANGED <<cites, alias, given, routing, status, signal, seen, todo, routed, lock, kills, covered>>

\* The names and the records are read before the lock.
Read(p) ==
    /\ pc[p] = "read"
    /\ seen' = [seen EXCEPT ![p] = [records |-> cites, alias |-> alias]]
    /\ pc' = [pc EXCEPT ![p] = "wait"]
    /\ UNCHANGED <<cites, alias, given, routing, status, signal, todo, routed, lock, accepts, kills, covered>>

Processed(e) == routing[e] # None
CitedBy(p) == {c \in Cards : <<p, c>> \in seen[p].records}

\* Where an event's lesson goes: onto each card its section cited, to one note, or
\* nowhere; a residue blocks it.
Lands(e) == IF Kind[e] = "factual" /\ CitedBy(Of[e]) # {} THEN CitedBy(Of[e]) ELSE {None}
RouteEvent(e) ==
    IF Kind[e] = "nowhere" THEN [did |-> "nowhere", ids |-> {}]
    ELSE IF e \in Residual THEN [did |-> "blocked", ids |-> {}]
    ELSE [did |-> "opened", ids |-> {Proposal(e, c, Clean(e, seen[Of[e]].alias)) : c \in Lands(e)}]

Unprocessed(p) == {e \in Events \cap given : Of[e] = p /\ ~Processed(e)}
Take(p) ==
    /\ pc[p] = "wait" /\ lock = None
    /\ lock' = p
    /\ routed' = [e \in Unprocessed(p) |-> RouteEvent(e)]
    /\ todo' = SetToSeq(UNION {RouteEvent(e).ids : e \in Unprocessed(p)})
    /\ pc' = [pc EXCEPT ![p] = "open"]
    /\ UNCHANGED <<cites, alias, given, routing, status, signal, seen, accepts, kills, covered>>

\* Mutant: the next stage begins with things of this one in hand.
TurnEarly(p, stage, things) ==
    /\ pc' = [pc EXCEPT ![p] = stage] /\ todo' = things
    /\ UNCHANGED <<cites, alias, given, routing, status, signal, seen, routed, lock, accepts, kills, covered>>
\* When nothing is left in hand, the next stage with its own.
Turn(p, stage, things) ==
    /\ todo = <<>>
    /\ pc' = [pc EXCEPT ![p] = stage] /\ todo' = things
    /\ UNCHANGED <<cites, alias, given, routing, status, signal, seen, routed, lock, accepts, kills, covered>>

OpenNext(p) ==
    /\ pc[p] = "open"
    /\ \/ Turn(p, "mark", SetToSeq(DOMAIN routed))
       \/ /\ todo # <<>>
          /\ status' = Open(Head(todo)) /\ todo' = Tail(todo)
          /\ UNCHANGED <<cites, alias, given, routing, signal, pc, seen, routed, lock, accepts, kills, covered>>

\* Only then are the events revised, one line after the other.
MarkNext(p) ==
    /\ pc[p] = "mark"
    /\ \/ Turn(p, "gaps", SetToSeq({g \in Gaps \cap given : Of[g] = p}))
       \/ /\ todo # <<>>
          /\ routing' = [routing EXCEPT ![Head(todo)] = routed[Head(todo)]] /\ todo' = Tail(todo)
          /\ UNCHANGED <<cites, alias, given, status, signal, pc, seen, routed, lock, accepts, kills, covered>>

\* One answered gap, one proposal: a decided one stands, an open one stands when it
\* is still clean, else it is voided and proposed again.
Prior(g) == {q \in Proposals : q.source = g /\ status[q] # "absent"}
Dirty(q, p) == status[q] = "proposed" /\ q.source \in Naming /\ ~q.clean /\ seen[p].alias
Standing(g, p) == {q \in Prior(g) : status[q] # "voided" /\ ~Dirty(q, p)}
RouteGap(p) ==
    /\ pc[p] = "gaps"
    /\ \/ Turn(p, "signals", SetToSeq({c \in Cards : \E q \in Pursuits : <<q, c>> \in seen[p].records}))
       \/ /\ todo # <<>>
          /\ LET g == Head(todo)
                 fresh == Proposal(g, None, Clean(g, seen[p].alias))
                 voided == [q \in Proposals |-> IF q \in Prior(g) /\ Dirty(q, p) THEN "voided" ELSE status[q]]
             IN status' = IF Standing(g, p) # {} \/ g \in Residual \/ status[fresh] # "absent"
                          THEN voided ELSE [voided EXCEPT ![fresh] = "proposed"]
          /\ todo' = Tail(todo)
          /\ UNCHANGED <<cites, alias, given, routing, signal, pc, seen, routed, lock, accepts, kills, covered>>

\* Mutant: the accept is answered with the lock in hand.
AnsweredHolding(p) == lock' = lock /\ pc' = [pc EXCEPT ![p] = "idle"] /\ seen' = [seen EXCEPT ![p] = None]
Answered(p) == lock' = None /\ pc' = [pc EXCEPT ![p] = "idle"] /\ seen' = [seen EXCEPT ![p] = None]
\* Each card's survival is computed again from the whole record, as it was read.
WriteSignal(p) ==
    /\ pc[p] = "signals"
    /\ \/ /\ todo = <<>> /\ Answered(p)
          /\ covered' = covered \cup seen[p].records /\ routed' = <<>>
          /\ UNCHANGED <<cites, alias, given, routing, status, signal, todo, accepts, kills>>
       \/ /\ todo # <<>>
          /\ signal' = [signal EXCEPT ![Head(todo)] = {l \in seen[p].records : l[2] = Head(todo)}]
          /\ todo' = Tail(todo)
          /\ UNCHANGED <<cites, alias, given, routing, status, pc, seen, routed, lock, accepts, kills, covered>>

Kill ==
    /\ kills < MaxKills /\ \E p \in Pursuits : pc[p] # "idle"
    /\ kills' = kills + 1 /\ pc' = [p \in Pursuits |-> "idle"] /\ seen' = [p \in Pursuits |-> None]
    /\ todo' = <<>> /\ routed' = <<>> /\ lock' = None
    /\ UNCHANGED <<cites, alias, given, routing, status, signal, accepts, covered>>

Learn(p) == Read(p) \/ Take(p) \/ OpenNext(p) \/ MarkNext(p) \/ RouteGap(p) \/ WriteSignal(p)
Next ==
    \/ LearnAlias \/ Kill
    \/ \E e \in Events : GiveFeedback(e)
    \/ \E g \in Gaps, propose \in BOOLEAN : AnswerGap(g, propose)
    \/ \E q \in Proposals, decision \in {"accepted", "rejected"} : Decide(q, decision)
    \/ \E p \in Pursuits : Accept(p) \/ Learn(p) \/ \E c \in Cards : Draft(p, c)

Stage(p) == OpenNext(p) \/ MarkNext(p) \/ RouteGap(p) \/ WriteSignal(p)
Fairness == \A p \in Pursuits : WF_vars(Read(p)) /\ SF_vars(Take(p)) /\ WF_vars(Stage(p))
Spec == Init /\ [][Next]_vars /\ Fairness

------------------------------------------------------------------------------

\* No feedback is spent for nothing: an event's line says its proposals were opened
\* only when they are in the store, through kills (learn.py:214-220, proposals.py:84-112).
SpentIsProposed == \A e \in Events : Processed(e) => \A q \in routing[e].ids : status[q] # "absent"

\* One answered gap has one standing proposal, whichever door opened it and whoever
\* decided it (learn.py:107-164, curation.py:273-285).
OneGapOneProposal ==
    \A g \in Gaps : Cardinality({q \in Prior(g) : status[q] # "voided"}) <= 1

\* When an accept that knows the alias has routed the pursuit's gaps, none of its open
\* gap proposals still carries it (learn.py:133-155).
AcceptLeavesNoName ==
    \A p \in Pursuits : pc[p] = "signals" /\ seen[p].alias =>
        \A g \in Gaps \cap given : Of[g] = p => \A q \in Prior(g) : status[q] = "proposed" => Clean(g, q.clean)

\* Two accepts never wait for each other for ever (locks.py:19-20, server.py:2033-2042).
AcceptIsAnswered == \A p \in Pursuits : pc[p] = "read" ~> pc[p] = "idle"

------------------------------------------------------------------------------
(* What the docs say and the code does not keep.                              *)

\* routing.py:128-131: running the learner twice proposes nothing new.
OneLessonPerCard ==
    \A q, r \in Proposals : status[q] # "absent" /\ status[r] # "absent"
        /\ q.source \in Events /\ q.source = r.source /\ q.card = r.card => q = r

\* survival.py:6-12: the stored signal agrees with the metric over the record.
SignalsHold ==
    lock = None => \A l \in covered : l \in signal[l[2]]
==============================================================================
