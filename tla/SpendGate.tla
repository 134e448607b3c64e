------------------------------ MODULE SpendGate ------------------------------
(***************************************************************************)
(* One walk of `slice --live`: the construction of the LiveCaller, its     *)
(* transport ladder (llm/live.py), the TracedCaller that writes the trace  *)
(* and holds the ceiling of a run, and the SpendBudget that every run of   *)
(* the walk shares (llm/caller.py).  Stages run one after another, so one  *)
(* call is in the air at a time; an exception ends the walk.               *)
(***************************************************************************)
EXTENDS Integers, Sequences

CONSTANTS Prices,     \* what one answered request may cost
          Ceiling,    \* ceiling_usd of one run
          Total,      \* total_usd of the shared budget
          MaxCalls,   \* max_calls of the shared budget
          Attempts,   \* 1 + len(_BACKOFFS)
          MaxRuns     \* bound: runs the walk opens

\* Assumed of the constants wherever this module is instantiated.
SpendAssumption ==
    /\ Prices \subseteq Nat /\ \E p \in Prices : \A q \in Prices : q <= p
    /\ {Ceiling, Total, MaxCalls, MaxRuns} \subseteq Nat
    /\ Attempts \in Nat \ {0}

VARIABLES walk,       \* "start", "walking", "refused", "failed", "aborted"
          run,        \* number of the run that is open, 0 before the first
          call,       \* the call in the air, or Idle
          spent,      \* TracedCaller.spent_usd of the open run
          budget,     \* SpendBudget of the walk
          log,        \* the lines of every run of the walk
          answered    \* history: requests that were answered, hence billed

vars == <<walk, run, call, spent, budget, log, answered>>

Models == {"primary", "fallback"}
Idle == [model |-> "none", tries |-> 0, retries |-> 0, sent |-> 0]
Calls == [model : Models, tries : 0..Attempts - 1, retries : 0..Attempts,
          sent : 0..Attempts + 1]    \* sent is history: requests of the call
Lines == [kind : {"agent_call"}, run : 1..MaxRuns, cost : Prices,
          retries : 0..Attempts, sent : 0..Attempts + 1, model : Models]
         \cup [kind : {"model_fallback", "cost_ceiling"}, run : 1..MaxRuns]

TypeOK ==
    /\ walk \in {"start", "walking", "refused", "failed", "aborted"}
    /\ run \in 0..MaxRuns
    /\ call \in Calls \cup {Idle}
    /\ spent \in Nat /\ answered \in Nat
    /\ budget \in [spent : Nat, calls : Nat]
    /\ log \in Seq(Lines)

Init ==
    /\ walk = "start" /\ run = 0 /\ call = Idle
    /\ spent = 0 /\ budget = [spent |-> 0, calls |-> 0]
    /\ log = <<>> /\ answered = 0

IsCall(line) == line.kind = "agent_call"
SumOf(weights) ==
    LET sum[i \in 0..Len(weights)] == IF i = 0 THEN 0 ELSE sum[i - 1] + weights[i]
    IN sum[Len(weights)]
\* What the traces of the runs in R say was spent, and how many calls all traces hold.
CostOf(lines, R) ==
    SumOf([i \in 1..Len(lines) |->
              IF IsCall(lines[i]) /\ lines[i].run \in R THEN lines[i].cost ELSE 0])
CallsIn(lines) == SumOf([i \in 1..Len(lines) |-> IF IsCall(lines[i]) THEN 1 ELSE 0])

---------------------------------------------------------------------------
\* model_prices: every model a tier can reach has a price row.
Priced(rows) == Models \subseteq rows

\* LiveCaller.__init__: four refusals, each before a client exists.
Construct(flag, rows, fresh, key) ==
    /\ walk = "start"
    /\ walk' = IF flag /\ Priced(rows) /\ fresh /\ key THEN "walking" ELSE "refused"
    /\ UNCHANGED <<run, call, spent, budget, log, answered>>

\* Mutant: the budget is opened with the run, not with the walk.
BudgetPerRun ==
    /\ walk = "walking" /\ call = Idle /\ run < MaxRuns
    /\ run' = run + 1 /\ spent' = 0 /\ budget' = [spent |-> 0, calls |-> 0]
    /\ UNCHANGED <<walk, call, log, answered>>

\* make_caller: a run per stage, a fresh TracedCaller, the one budget.
OpenRun ==
    /\ walk = "walking" /\ call = Idle /\ run < MaxRuns
    /\ run' = run + 1 /\ spent' = 0
    /\ UNCHANGED <<walk, call, budget, log, answered>>

Ask ==
    /\ walk = "walking" /\ call = Idle /\ run > 0
    /\ call' = [model |-> "primary", tries |-> 0, retries |-> 0, sent |-> 0]
    /\ UNCHANGED <<walk, run, spent, budget, log, answered>>

Limit(model) == IF model = "primary" THEN Attempts ELSE 1

\* A transient failure: the next attempt of the ladder, then one attempt of
\* the fallback model that starts from the retries of the primary, then the end.
AfterTransient(c) ==
    IF c.tries + 1 < Limit(c.model)
    THEN [c EXCEPT !.tries = @ + 1, !.retries = @ + 1, !.sent = @ + 1]
    ELSE [c EXCEPT !.model = "fallback", !.tries = 0, !.sent = @ + 1]

Transient ==
    /\ call # Idle
    /\ IF call.model = "fallback"
       THEN walk' = "failed" /\ call' = Idle
       ELSE call' = AfterTransient(call) /\ UNCHANGED walk
    /\ UNCHANGED <<run, spent, budget, log, answered>>

\* A 4xx other than 408 and 429, or an error without a status that is not the
\* transport's: surfaced at once, never retried, never fallen back.
Surfaced ==
    /\ call # Idle
    /\ walk' = "failed" /\ call' = Idle
    /\ UNCHANGED <<run, spent, budget, log, answered>>

\* _parse: the reply was cut at max_tokens or holds no tool_use block.
Unusable ==
    /\ call # Idle
    /\ answered' = answered + 1
    /\ walk' = "failed" /\ call' = Idle
    /\ UNCHANGED <<run, spent, budget, log>>

CallLine(cost) == [kind |-> "agent_call", run |-> run, cost |-> cost,
                   retries |-> call.retries, sent |-> call.sent + 1,
                   model |-> call.model]
Line(kind) == [kind |-> kind, run |-> run]
FallbackLine == IF call.model = "fallback" THEN <<Line("model_fallback")>> ELSE <<>>

Breach(b) == b.spent > Total \/ b.calls > MaxCalls
Charged(cost) == [spent |-> budget.spent + cost, calls |-> budget.calls + 1]
Over(cost) == spent + cost > Ceiling

Braked(cost) == Over(cost) \/ Breach(Charged(cost))

Verdict(cost) == IF Braked(cost) THEN "aborted" ELSE walk

\* TracedCaller.call after the answer: meter the run, write the line, hold the
\* ceiling of the run before the shared budget hears of the call.
Answer(cost) ==
    /\ call # Idle
    /\ answered' = answered + 1
    /\ spent' = spent + cost
    /\ budget' = IF Over(cost) THEN budget ELSE Charged(cost)
    /\ log' = log \o <<CallLine(cost)>> \o FallbackLine
                  \o (IF Braked(cost) THEN <<Line("cost_ceiling")>> ELSE <<>>)
    /\ walk' = Verdict(cost)
    /\ call' = Idle
    /\ UNCHANGED run

Done ==   \* every run of the walk is over, or the walk has ended early
    /\ walk \in {"refused", "failed", "aborted"} \/ (run = MaxRuns /\ call = Idle)
    /\ UNCHANGED vars

Progress == Transient \/ Surfaced \/ Unusable \/ \E cost \in Prices : Answer(cost)

Next ==
    \/ \E flag, fresh, key \in BOOLEAN, rows \in SUBSET Models : Construct(flag, rows, fresh, key)
    \/ OpenRun \/ Ask \/ Progress
    \/ Done

Spec == Init /\ [][Next]_vars /\ WF_vars(Progress)

---------------------------------------------------------------------------
\* However the costs fall, the trace of a walk never exceeds the shared budget
\* by more than the one call that trips it, nor a run its ceiling, nor the count
\* of calls its cap (caller.py:197-218): the check comes after the call.
OneCallOver ==
    LET dearest == CHOOSE p \in Prices : \A q \in Prices : q <= p
    IN  /\ CostOf(log, 1..MaxRuns) <= Total + dearest
        /\ CallsIn(log) <= MaxCalls + 1
        /\ \A r \in 1..run : CostOf(log, {r}) <= Ceiling + dearest

\* While a walk goes on the shared budget holds exactly what the traces of all
\* its runs say was spent; a budget per run, or one that misses calls, would
\* let the worst case grow with the number of stages (caller.py:103-110).
BudgetIsTheTrace ==
    walk = "walking" => budget = [spent |-> CostOf(log, 1..MaxRuns), calls |-> CallsIn(log)]

\* `retries` counts every retry (live.py:169-173): the requests of a traced call
\* are its retries, the first attempt, and the one attempt of the fallback,
\* which is said on the line that follows.
RetriesAreHonest ==
    \A i \in 1..Len(log) : IsCall(log[i]) =>
        /\ log[i].sent = log[i].retries + 1 + (IF log[i].model = "fallback" THEN 1 ELSE 0)
        /\ log[i].model = "fallback" => i < Len(log) /\ log[i + 1].kind = "model_fallback"

\* A fired brake is the end: once a cost_ceiling line is written nothing more is
\* asked, by this run or by a later one of the walk (caller.py:204, 217).
BrakeIsFinal ==
    [][(\E i \in 1..Len(log) : log[i].kind = "cost_ceiling") => call' = Idle /\ log' = log]_vars

\* Every call ends, whatever the transport does: the ladder is finite.
EveryCallEnds == call # Idle ~> call = Idle

\* "a call that escapes the trace is structurally impossible" (caller.py:1-3):
\* between calls every answered request has its line.
NoCallEscapes == call = Idle => answered = CallsIn(log)
=============================================================================
