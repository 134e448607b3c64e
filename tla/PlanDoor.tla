------------------------------- MODULE PlanDoor -------------------------------
(***************************************************************************)
(* The web routes that write the live plan between two jobs                *)
(* (web/server.py:1289-1880, web/pings.py).  A handler runs on its thread  *)
(* and enters the pursuit's guard unless a job is queued or running; some  *)
(* handlers read a file before they enter.  A ping or an answer is a line  *)
(* of the journal first and a write of plan.json second.                   *)
(***************************************************************************)
EXTENDS Naturals, Sequences, FiniteSets, FiniteSetsExt

CONSTANTS Threads, Nobody,
          Planned,                        \* gaps that planning found
          MaxReviewGaps, MaxPings, MaxJobs, MaxRequests, MaxCrashes   \* bounds

\* Assumed of the constants wherever this module is instantiated.
DoorAssumption ==
    /\ Nobody \notin Threads /\ Planned \cap Nat = {}    \* the ids of planned gaps are other ids
    /\ {MaxReviewGaps, MaxPings, MaxJobs, MaxRequests, MaxCrashes} \subseteq Nat

VARIABLES plan,       \* plan.json: generation, draft_status of a section, gaps
          pings,      \* pings.jsonl, folded: [gap, gen, answered]
          pending,    \* events/pending.json: comments that wait for a round
          blocked,    \* packaging.blocked of drafts/annotated-draft.json
          guard,      \* holder of the pursuit's lock
          busy,       \* a job is queued or running
          thread,     \* request of each thread: op, what it read, what it writes
          jobs, requests, crashes,
          accepts,    \* history: packaging when an accept was recorded
          clobbered   \* history: a plan was written that had been read too early

vars == <<plan, pings, pending, blocked, guard, busy, thread, jobs, requests,
          crashes, accepts, clobbered>>
counts == <<jobs, requests, crashes>>
history == <<accepts, clobbered>>

ReviewGaps == 1..MaxReviewGaps          \* gap_<pid>_review_<n>
Gaps == Planned \cup ReviewGaps
GapStates == {"none", "open", "pinged", "answered", "disposed"}
NewPlan(gen) == [gen |-> gen, status |-> "planned",
                 gaps |-> [g \in Gaps |-> IF g \in Planned THEN "open" ELSE "none"]]
Plans == [gen : 1..MaxJobs + 1, gaps : [Gaps -> GapStates],
          status : {"planned", "drafted", "in_review", "final"}]
Idle == [at |-> "idle", op |-> "none", doc |-> NewPlan(1)]

TypeOK ==
    /\ plan \in Plans /\ Len(pings) <= MaxPings
    /\ \A k \in DOMAIN pings : pings[k].gap \in Gaps /\ pings[k].answered \in BOOLEAN
    /\ pending \in 0..MaxRequests /\ blocked \in BOOLEAN /\ busy \in BOOLEAN
    /\ guard \in Threads \cup {Nobody}
    /\ \A t \in Threads :
          /\ thread[t].at \in {"idle", "waiting", "in", "writing"} /\ thread[t].doc \in Plans
          /\ thread[t].op \in {"none", "comment", "ping", "answer", "open", "dispose", "accept"}
    /\ accepts \subseteq BOOLEAN /\ clobbered \in BOOLEAN

Init ==
    /\ plan = NewPlan(1) /\ pings = <<>> /\ pending = 0 /\ blocked = FALSE
    /\ guard = Nobody /\ busy = FALSE /\ thread = [t \in Threads |-> Idle]
    /\ jobs = 0 /\ requests = 0 /\ crashes = 0 /\ accepts = {} /\ clobbered = FALSE

In(t, op) == thread[t].at = "in" /\ thread[t].op = op
Leave(t) == guard' = Nobody /\ thread' = [thread EXCEPT ![t] = Idle]
Compose(t, doc) ==     \* inside the guard: the document that will be written
    /\ thread' = [thread EXCEPT ![t].at = "writing", ![t].doc = doc]
    /\ UNCHANGED guard

---------------------------------------------------------------------------
\* A request arrives.  A comment reads the plan, and an accept the annotated
\* draft, before they ask for the guard.
Arrive(t, op) ==
    /\ thread[t].at = "idle" /\ requests < MaxRequests
    /\ op = "accept" => ~blocked /\ plan.status # "planned"
    /\ thread' = [thread EXCEPT ![t] = [at |-> "waiting", op |-> op, doc |-> IF op = "comment" THEN plan ELSE Idle.doc]]
    /\ requests' = requests + 1
    /\ UNCHANGED <<plan, pings, pending, blocked, guard, busy, jobs, crashes, history>>

Enter(t) ==        \* _mutate: busy is asked before the guard and again inside
    /\ thread[t].at = "waiting" /\ guard = Nobody /\ ~busy
    /\ guard' = t /\ thread' = [thread EXCEPT ![t].at = "in"]
    /\ UNCHANGED <<plan, pings, pending, blocked, busy, counts, history>>

TurnedAway(t) ==   \* 409: decide after the job finishes
    /\ thread[t].at = "waiting" /\ busy
    /\ thread' = [thread EXCEPT ![t] = Idle]
    /\ UNCHANGED <<plan, pings, pending, blocked, guard, busy, counts, history>>

Reviewable(doc) == doc.status = "drafted"

Comment(t) ==      \* the pending item is durable before the plan is written
    /\ In(t, "comment") /\ pending' = pending + 1
    /\ IF Reviewable(thread[t].doc)
       THEN Compose(t, [thread[t].doc EXCEPT !.status = "in_review"])
       ELSE Leave(t)
    /\ clobbered' = (clobbered \/ (Reviewable(thread[t].doc) /\ thread[t].doc # plan))
    /\ UNCHANGED <<plan, pings, blocked, busy, counts, accepts>>

\* A gap that waits for its answer, pinged or not.
AnyUnanswered == {g \in Gaps : plan.gaps[g] \in {"open", "pinged"}}
Pingable == {g \in Gaps : plan.gaps[g] = "open"}

Ping(t, g) ==
    /\ In(t, "ping") /\ g \in Pingable /\ Len(pings) < MaxPings
    /\ pings' = Append(pings, [gap |-> g, gen |-> plan.gen, answered |-> FALSE])
    /\ Compose(t, [plan EXCEPT !.gaps[g] = "pinged"])
    /\ UNCHANGED <<plan, pending, blocked, busy, counts, history>>

\* Mutant: the answer reaches the journal only.
JournalOnly(doc, g) == doc
Settled(doc, g) == [doc EXCEPT !.gaps[g] = "answered"]

Answer(t, k) ==    \* whatever the gap's status has become in the meantime
    /\ In(t, "answer") /\ ~pings[k].answered /\ plan.gaps[pings[k].gap] # "none"
    /\ pings' = [pings EXCEPT ![k].answered = TRUE]
    /\ Compose(t, Settled(plan, pings[k].gap))
    /\ UNCHANGED <<plan, pending, blocked, busy, counts, history>>

OpenGap(t) ==      \* the id counts the review gaps of the live plan
    LET n == 1 + Cardinality({g \in ReviewGaps : plan.gaps[g] # "none"})
    IN  /\ In(t, "open") /\ n \in ReviewGaps
        /\ Compose(t, [plan EXCEPT !.gaps[n] = "open"])
        /\ UNCHANGED <<plan, pings, pending, blocked, busy, counts, history>>

Dispose(t, g) ==   \* Gate 2: omit, reframe or draft flagged
    /\ In(t, "dispose") /\ g \in AnyUnanswered
    /\ Compose(t, [plan EXCEPT !.gaps[g] = "disposed"])
    /\ UNCHANGED <<plan, pings, pending, blocked, busy, counts, history>>

Accept(t) ==       \* the event is durable, then the plan is read and marked
    /\ In(t, "accept") /\ accepts' = accepts \cup {blocked}
    /\ Compose(t, [plan EXCEPT !.status = "final"])
    /\ UNCHANGED <<plan, pings, pending, blocked, busy, counts, clobbered>>

Refuse(t) ==       \* an unknown gap, ping or section: the mini-run is failed
    /\ thread[t].at = "in" /\ thread[t].op \notin {"comment", "accept"}
    /\ Leave(t)
    /\ UNCHANGED <<plan, pings, pending, blocked, busy, counts, history>>

WritePlan(t) ==
    /\ thread[t].at = "writing" /\ plan' = thread[t].doc
    /\ Leave(t)
    /\ UNCHANGED <<pings, pending, blocked, busy, counts, history>>

---------------------------------------------------------------------------
JobSubmit ==
    /\ ~busy /\ jobs < MaxJobs /\ busy' = TRUE /\ jobs' = jobs + 1
    /\ UNCHANGED <<plan, pings, pending, blocked, guard, thread, requests, crashes, history>>

JobCommit(again, verdict) ==   \* drafting or a round, or a replan, under the guard
    /\ busy /\ guard = Nobody
    /\ plan' = IF again THEN NewPlan(plan.gen + 1) ELSE [plan EXCEPT !.status = "drafted"]
    /\ plan'.gen <= MaxJobs + 1
    /\ blocked' = verdict /\ pending' = 0
    /\ UNCHANGED <<pings, guard, busy, thread, counts, history>>

JobEnd ==
    /\ busy /\ guard = Nobody /\ busy' = FALSE
    /\ UNCHANGED <<plan, pings, pending, blocked, guard, thread, counts, history>>

Crash ==
    /\ crashes < MaxCrashes /\ crashes' = crashes + 1
    /\ guard' = Nobody /\ busy' = FALSE /\ thread' = [t \in Threads |-> Idle]
    /\ UNCHANGED <<plan, pings, pending, blocked, jobs, requests, history>>

Ops == {"comment", "ping", "answer", "open", "dispose", "accept"}
Handle(t) ==
    \/ Enter(t) \/ TurnedAway(t) \/ Comment(t) \/ OpenGap(t) \/ Accept(t)
    \/ Refuse(t) \/ WritePlan(t)
    \/ \E g \in Gaps : Ping(t, g) \/ Dispose(t, g)
    \/ \E k \in DOMAIN pings : Answer(t, k)
Next ==
    \/ \E t \in Threads : Handle(t) \/ \E op \in Ops : Arrive(t, op)
    \/ JobSubmit \/ JobEnd \/ Crash
    \/ \E again, verdict \in BOOLEAN : JobCommit(again, verdict)
Spec == Init /\ [][Next]_vars /\ WF_vars(JobEnd) /\ \A t \in Threads : WF_vars(Handle(t))

---------------------------------------------------------------------------
Writing == \E t \in Threads : thread[t].at = "writing"
Reached ==
    \A k \in DOMAIN pings :
        pings[k].answered /\ pings[k].gen = plan.gen /\ ~Writing
            => plan.gaps[pings[k].gap] = "answered"

\* An answer that the journal holds stands on the live plan as well, through any
\* interleaving of pings, answers, gate decisions and jobs, as long as no comment
\* wrote a plan it had read before it held the guard and nothing crashed between
\* the line and the write (pings.py:150-160, P1-36).
AnswersReachThePlan == ~clobbered /\ crashes = 0 => Reached

\* The same for every comment: mutations of the plan "cannot interleave"
\* (server.py:1887-1889).
AnswersStand == crashes = 0 => Reached

\* One question is asked once: no gap has two open pings of one plan, unless a
\* crash or a stale write took the status from the gap (pings.py:87-94).
OneOpenPing ==
    ~clobbered /\ crashes = 0 =>
        \A g \in Gaps : Cardinality({k \in DOMAIN pings :
            pings[k].gap = g /\ pings[k].gen = plan.gen /\ ~pings[k].answered}) <= 1

\* Only a job takes the stamp of an accept from a section (D11, server.py:2023):
\* no route does, unless it wrote a plan it had read too early.
FinalStands ==
    [][plan.status = "final" /\ plan'.status # "final" => busy \/ clobbered']_vars

\* "Refuses while packaging is blocked" (server.py:2003-2004).
AcceptIsClear == TRUE \notin accepts

\* Every request ends, turned away or answered, and gives the guard back.
RequestsEnd == \A t \in Threads : (thread[t].at = "waiting") ~> (thread[t].at = "idle")
=============================================================================
