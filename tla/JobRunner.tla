----------------------------- MODULE JobRunner -----------------------------
(***************************************************************************)
(* The job lane of the web server: one worker thread that takes jobs from  *)
(* a FIFO queue, the registry and its lock, the journal jobs.jsonl, the    *)
(* guard every mutating request of a pursuit takes, the cancel flag, and   *)
(* the run logs that jobs and gate decisions open under the guard.  The    *)
(* server may be killed at any moment; a start replays the journal.        *)
(*                                                                         *)
(* Job ids and run ids are numbers, as in the code: job-0001, run_0001.    *)
(* runs[p] is the directory runs/ of pursuit p in the order of its ids.    *)
(* What a stage does to the pursuit is left out (PlanLane, ReviewRound). A *)
(* run is open, ended by the logger that opened it, with whatever status,  *)
(* or closed as failed by the job lane.                                    *)
(***************************************************************************)
EXTENDS Naturals, Sequences, FiniteSets, SequencesExt

CONSTANTS
    Pursuits,
    Threads,     \* request threads that run mutating routes
    Worker,      \* the worker thread
    NoOne,       \* the holder of a free guard
    MaxJobs,     \* bound: job ids minted
    MaxRuns,     \* bound: runs of one pursuit
    MaxCrashes,  \* bound: crashes in one behaviour, one more in a start
    MaxFaults    \* bound: failed appends in one behaviour

ASSUME HolderAssumption == Worker \notin Threads /\ NoOne \notin Threads \cup {Worker}
ASSUME PursuitAssumption == Pursuits # {}
ASSUME BoundAssumption == MaxJobs \in Nat /\ MaxRuns \in Nat /\ MaxCrashes \in Nat /\ MaxFaults \in Nat

Ids == 1..MaxJobs
Route == MaxJobs + 1  \* a request thread, as the opener of a run
LiveStates == {"queued", "running"}
EndStates == {"done", "refused", "error", "cancelled", "orphaned"}
Kinds == {"advance", "revise"}
CANCELLABLE_KINDS == {"revise"}

Job == [pursuit : Pursuits, kind : Kinds, state : LiveStates \cup EndStates,
        cancel : BOOLEAN, run : 0..MaxRuns]
Run == [by : Ids \cup {Route}, status : {"open", "ended", "failed"}]

VARIABLES
    registry,   \* _jobs: id -> job, a function on the ids it holds
    journal,    \* jobs.jsonl read back: id -> its last line
    torn,       \* whether the journal ends in half a line
    adding,     \* the job whose submitter holds the registry lock, or 0
    unput,      \* jobs journaled and not yet put on the queue
    queue,      \* _queue: ids in the order they were put
    worker,     \* what the worker thread does next
    job,        \* the id the worker has taken, or 0
    outcome,    \* (state, message) of the target: a state, or "stopped"
    minted,     \* the run id minted and not yet opened, of worker and threads
    guard,      \* the holder of each pursuit's guard, or NoOne
    thread,     \* request threads: what each does next, and on which pursuit
    asking,     \* the cancel request that passed its check, or 0
    runs,       \* runs/ of each pursuit
    server,     \* "up", "down", or "booting"
    replay,     \* while booting: the journaled ids not yet rehydrated
    completed,  \* history: jobs whose target did all of its work
    crashes, faults

durable == <<journal, torn, runs>>
volatile == <<registry, adding, unput, queue, worker, job, outcome, minted, guard, thread, asking>>
vars == <<durable, volatile, server, replay, completed, crashes, faults>>

Holders == Threads \cup {Worker}
WorkerPCs == {"get", "waiting", "target", "minted", "run", "commit", "close", "finish", "dead"}
ThreadPCs == {"idle", "waiting", "inside", "minted", "run"}

TypeOK ==
    /\ DOMAIN registry \subseteq Ids /\ \A j \in DOMAIN registry : registry[j] \in Job
    /\ DOMAIN journal \subseteq Ids /\ \A j \in DOMAIN journal : journal[j] \in Job
    /\ torn \in BOOLEAN
    /\ adding \in Ids \cup {0}
    /\ unput \subseteq DOMAIN registry
    /\ Range(queue) \subseteq DOMAIN registry /\ IsInjective(queue)
    /\ worker \in WorkerPCs
    /\ job \in DOMAIN registry \cup {0}
    /\ worker \in {"waiting", "target", "minted", "run", "commit", "close", "finish"}
         => job # 0 /\ registry[job].state = "running"
    /\ outcome \in {"none", "done", "stopped", "refused", "error"}
    /\ minted \in [Holders -> 0..MaxRuns]
    /\ guard \in [Pursuits -> Holders \cup {NoOne}]
    /\ thread \in [Threads -> [pc : ThreadPCs, pursuit : Pursuits]]
    /\ asking \in DOMAIN registry \cup {0}
    /\ \A p \in Pursuits : Len(runs[p]) <= MaxRuns /\ Range(runs[p]) \subseteq Run
    /\ server \in {"up", "down", "booting"}
    /\ replay \subseteq DOMAIN journal
    /\ completed \subseteq Ids
    /\ crashes \in 0..(MaxCrashes + 1) /\ faults \in 0..MaxFaults

IdleThread == [pc |-> "idle", pursuit |-> CHOOSE p \in Pursuits : TRUE]

Init ==
    /\ registry = <<>> /\ adding = 0 /\ unput = {} /\ queue = <<>>
    /\ worker = "get" /\ job = 0 /\ outcome = "none"
    /\ minted = [h \in Holders |-> 0]
    /\ guard = [p \in Pursuits |-> NoOne]
    /\ thread = [t \in Threads |-> IdleThread]
    /\ asking = 0
    /\ journal = <<>> /\ torn = FALSE
    /\ runs = [p \in Pursuits |-> <<>>]
    /\ server = "up" /\ replay = {}
    /\ completed = {} /\ crashes = 0 /\ faults = 0

-----------------------------------------------------------------------------
(* The journal and the run logs                                            *)

With(f, j, v) == [i \in DOMAIN f \cup {j} |-> IF i = j THEN v ELSE f[i]]

\* _journal appends the line of one job; the cancel flag is not in it.
Journal(j, rec) ==
    /\ ~torn /\ journal' = With(journal, j, [rec EXCEPT !.cancel = FALSE])
    /\ UNCHANGED <<torn, faults>>

\* The append raises: the write fails, with or without half a line on disk,
\* or an earlier half line makes every append refuse.
JournalFails ==
    /\ \/ torn /\ UNCHANGED <<torn, faults>>
       \/ faults < MaxFaults /\ faults' = faults + 1 /\ torn' \in {torn, TRUE}
    /\ UNCHANGED journal

Live(j) == j \in DOMAIN registry /\ registry[j].state \in LiveStates
\* Mutant: busy asks who holds the guard, not the registry.
BusyByGuard(p) == guard[p] = Worker

Busy(p) == \E j \in DOMAIN registry : registry[j].pursuit = p /\ registry[j].state \in LiveStates

\* mint_run_id: one more than the highest run id of the directory.
NextRun(p) == Len(runs[p]) + 1

\* RunLogger on a minted id: a run that exists already is refused.
Fresh(h, p) == minted[h] > Len(runs[p])
Opened(p, by) == [runs EXCEPT ![p] = Append(@, [by |-> by, status |-> "open"])]
\* run_end of the logger that opened the newest run.
Closed(p, status) == [runs EXCEPT ![p][Len(runs[p])].status = status]
Ended(p) == Closed(p, "ended")

\* Mutant: the newest run is closed without a look at its footer.
ClosedAnyway(p) == IF runs[p] # <<>> THEN Closed(p, "failed") ELSE runs

\* _close_open_run on the newest run: a run that has its footer keeps it.
ClosedOpen(p) ==
    IF runs[p] # <<>> /\ Last(runs[p]).status = "open" THEN Closed(p, "failed") ELSE runs

-----------------------------------------------------------------------------
(* submit: check, insert and journal under the registry lock, then put     *)

\* itertools.count: one more than the highest id of this process, which
\* starts after the highest id of the journal.
NextId == IF registry = <<>> THEN 1 ELSE 1 + CHOOSE j \in DOMAIN registry : \A i \in DOMAIN registry : i <= j

Submit(p, kind) ==
    /\ server = "up" /\ adding = 0 /\ ~Busy(p)
    /\ NextId \in Ids
    /\ registry' = With(registry, NextId, [pursuit |-> p, kind |-> kind, state |-> "queued",
                                           cancel |-> FALSE, run |-> 0])
    /\ adding' = NextId
    /\ UNCHANGED <<durable, unput, queue, worker, job, outcome, minted, guard, thread, asking,
                   server, replay, completed, crashes, faults>>

\* The line lands, or the append raises and the job is never put.
SubmitJournal ==
    /\ server = "up" /\ adding # 0
    /\ \/ Journal(adding, registry[adding]) /\ unput' = unput \cup {adding}
       \/ JournalFails /\ UNCHANGED unput
    /\ adding' = 0
    /\ UNCHANGED <<registry, queue, worker, job, outcome, minted, guard, thread, asking,
                   runs, server, replay, completed, crashes>>

Put(j) ==
    /\ server = "up" /\ j \in unput
    /\ unput' = unput \ {j}
    /\ queue' = Append(queue, j)
    /\ UNCHANGED <<durable, registry, adding, worker, job, outcome, minted, guard, thread, asking,
                   server, replay, completed, crashes, faults>>

-----------------------------------------------------------------------------
(* cancel reads the job's state and sets the flag, under no lock; at most  *)
(* one request of this kind is under way                                   *)

Cancellable(j) ==
    \/ registry[j].state = "queued"
    \/ registry[j].state = "running" /\ registry[j].kind \in CANCELLABLE_KINDS

CancelCheck(j) ==
    /\ server = "up" /\ asking = 0 /\ j \in DOMAIN registry
    /\ Cancellable(j) /\ ~registry[j].cancel
    /\ asking' = j
    /\ UNCHANGED <<durable, registry, adding, unput, queue, worker, job, outcome, minted, guard,
                   thread, server, replay, completed, crashes, faults>>

\* Mutant: cancel sets the badge itself.
CancelBadge(j) ==
    /\ server = "up" /\ asking = j
    /\ asking' = 0
    /\ registry' = [registry EXCEPT ![j].state = "cancelled"]
    /\ UNCHANGED <<durable, adding, unput, queue, worker, job, outcome, minted, guard,
                   thread, server, replay, completed, crashes, faults>>

CancelSet(j) ==
    /\ server = "up" /\ asking = j
    /\ asking' = 0
    /\ registry' = [registry EXCEPT ![j].cancel = TRUE]
    /\ UNCHANGED <<durable, adding, unput, queue, worker, job, outcome, minted, guard,
                   thread, server, replay, completed, crashes, faults>>

-----------------------------------------------------------------------------
(* The worker thread                                                       *)

\* _finish sets the badge and journals it; an append that raises here is
\* outside every handler and ends the thread.
Finish(j, state) ==
    LET done == [registry[j] EXCEPT !.state = state]
    IN /\ registry' = [registry EXCEPT ![j] = done]
       /\ \/ Journal(j, done) /\ worker' = "get"
          \/ JournalFails /\ worker' = "dead"

Taken == Head(queue)

\* A job cancelled while it was queued ends without being started.
SkipCancelled ==
    /\ server = "up" /\ worker = "get" /\ queue # <<>>
    /\ registry[Taken].cancel /\ registry[Taken].state = "queued"
    /\ queue' = Tail(queue)
    /\ Finish(Taken, "cancelled")
    /\ UNCHANGED <<adding, unput, job, outcome, minted, guard, thread, asking, runs,
                   server, replay, completed, crashes>>

Start ==
    /\ server = "up" /\ worker = "get" /\ queue # <<>>
    /\ ~(registry[Taken].cancel /\ registry[Taken].state = "queued")
    /\ queue' = Tail(queue)
    /\ job' = Taken
    /\ registry' = [registry EXCEPT ![Taken].state = "running"]
    /\ \/ Journal(Taken, registry'[Taken]) /\ worker' = "waiting"
       \/ JournalFails /\ worker' = "dead"
    /\ UNCHANGED <<adding, unput, outcome, minted, guard, thread, asking, runs,
                   server, replay, completed, crashes>>

Here == registry[job].pursuit
Free(p) == guard[p] = NoOne

Acquire ==
    /\ server = "up" /\ worker = "waiting" /\ Free(Here)
    /\ guard' = [guard EXCEPT ![Here] = Worker]
    /\ worker' = "target"
    /\ UNCHANGED <<durable, registry, adding, unput, queue, job, outcome, minted, thread, asking,
                   server, replay, completed, crashes, faults>>

\* The target mints a run id: the round, or the next stage of an advance.
Mint ==
    /\ server = "up" /\ worker = "target" /\ NextRun(Here) <= MaxRuns
    /\ minted' = [minted EXCEPT ![Worker] = NextRun(Here)]
    /\ worker' = "minted"
    /\ UNCHANGED <<durable, registry, adding, unput, queue, job, outcome, guard, thread, asking,
                   server, replay, completed, crashes, faults>>

\* A colliding id raises ContractError: the job is refused.
OpenRun ==
    /\ server = "up" /\ worker = "minted"
    /\ \/ Fresh(Worker, Here) /\ runs' = Opened(Here, job) /\ worker' = "run" /\ UNCHANGED outcome
       \/ ~Fresh(Worker, Here) /\ outcome' = "refused" /\ worker' = "close" /\ UNCHANGED runs
    /\ minted' = [minted EXCEPT ![Worker] = 0]
    /\ UNCHANGED <<journal, torn, registry, adding, unput, queue, job, guard, thread, asking,
                   server, replay, completed, crashes, faults>>

\* One stage of an advance ends its run; the driver goes on to the next.
EndStage ==
    /\ server = "up" /\ worker = "run" /\ registry[job].kind = "advance"
    /\ runs' = Ended(Here)
    /\ worker' = "target"
    /\ UNCHANGED <<journal, torn, registry, adding, unput, queue, job, outcome, minted, guard, thread,
                   asking, server, replay, completed, crashes, faults>>

\* Between two sections the round polls the flag.
Poll ==
    /\ server = "up" /\ worker = "run" /\ registry[job].kind = "revise"
    /\ \/ /\ registry[job].cancel
          /\ runs' = Ended(Here)
          /\ outcome' = "stopped" /\ worker' = "finish"
          /\ guard' = [guard EXCEPT ![Here] = NoOne]
       \/ /\ ~registry[job].cancel
          /\ worker' = "commit" /\ UNCHANGED <<runs, outcome, guard>>
    /\ UNCHANGED <<journal, torn, registry, adding, unput, queue, job, minted, thread, asking,
                   server, replay, completed, crashes, faults>>

\* The target returns done: the round is committed, or no stage is left
\* that an advance may run.
Return ==
    /\ server = "up"
    /\ \/ worker = "target" /\ registry[job].kind = "advance" /\ UNCHANGED runs
       \/ worker = "commit" /\ runs' = Ended(Here)
    /\ outcome' = "done" /\ worker' = "finish"
    /\ completed' = completed \cup {job}
    /\ guard' = [guard EXCEPT ![Here] = NoOne]
    /\ UNCHANGED <<journal, torn, registry, adding, unput, queue, job, minted, thread, asking,
                   server, replay, crashes, faults>>

\* The target raises, or an advance returns a refusal: before it opened a
\* run, between two, or inside one; a refused round ends its run first.
Raise ==
    /\ server = "up" /\ worker \in {"target", "run", "commit"}
    /\ \E state \in {"refused", "error"} : outcome' = state
    /\ \/ UNCHANGED runs
       \/ worker \in {"run", "commit"} /\ registry[job].kind = "revise"
          /\ outcome' = "refused" /\ runs' = Ended(Here)
    /\ worker' = "close"
    /\ UNCHANGED <<journal, torn, registry, adding, unput, queue, job, minted, guard, thread, asking,
                   server, replay, completed, crashes, faults>>

\* Still under the guard: close the pursuit's newest run and name it on the
\* job.  An exception of the close is reported and swallowed.
CloseOpenRun ==
    /\ server = "up" /\ worker = "close"
    /\ \/ /\ runs' = ClosedOpen(Here)
          /\ registry' = [registry EXCEPT ![job].run = Len(runs[Here])]
          /\ UNCHANGED faults
       \/ /\ runs[Here] # <<>> /\ Last(runs[Here]).status = "open"
          /\ faults < MaxFaults /\ faults' = faults + 1
          /\ UNCHANGED <<runs, registry>>
    /\ worker' = "finish"
    /\ guard' = [guard EXCEPT ![Here] = NoOne]
    /\ UNCHANGED <<journal, torn, adding, unput, queue, job, outcome, minted, thread, asking,
                   server, replay, completed, crashes>>

\* Mutant: the flag alone makes the badge.
BadgeByFlag ==
    CASE outcome \in {"stopped", "done"} -> IF registry[job].cancel THEN "cancelled" ELSE "done"
      [] OTHER -> outcome

\* The badge follows the flow's report: cancelled only when the flag is set
\* and the target says that it stopped.
Badge ==
    CASE outcome = "stopped" -> IF registry[job].cancel THEN "cancelled" ELSE "done"
      [] OTHER -> outcome

End ==
    /\ server = "up" /\ worker = "finish"
    /\ Finish(job, Badge)
    /\ job' = 0 /\ outcome' = "none"
    /\ UNCHANGED <<adding, unput, queue, minted, guard, thread, asking, runs,
                   server, replay, completed, crashes>>

WorkerStep == \/ SkipCancelled \/ Start \/ Acquire \/ Mint \/ OpenRun \/ EndStage \/ Poll
              \/ Return \/ Raise \/ CloseOpenRun \/ End

-----------------------------------------------------------------------------
(* A mutating route: busy check, guard, busy check again, then the body    *)

At(t, pc) == server = "up" /\ thread[t].pc = pc
Goto(t, pc) == thread' = [thread EXCEPT ![t].pc = pc]
On(t) == thread[t].pursuit
Leave(t) ==
    /\ guard' = [guard EXCEPT ![On(t)] = NoOne]
    /\ thread' = [thread EXCEPT ![t] = IdleThread]

RouteAsk(t, p) ==
    /\ At(t, "idle") /\ ~Busy(p)
    /\ thread' = [thread EXCEPT ![t] = [pc |-> "waiting", pursuit |-> p]]
    /\ UNCHANGED <<durable, registry, adding, unput, queue, worker, job, outcome, minted, guard,
                   asking, server, replay, completed, crashes, faults>>

\* The guard is taken and the check repeated: a job that came in between is
\* a 409, which gives the guard back.
RouteEnter(t) ==
    /\ At(t, "waiting") /\ Free(On(t))
    /\ IF Busy(On(t)) THEN Leave(t)
       ELSE guard' = [guard EXCEPT ![On(t)] = t] /\ Goto(t, "inside")
    /\ UNCHANGED <<durable, registry, adding, unput, queue, worker, job, outcome, minted,
                   asking, server, replay, completed, crashes, faults>>

\* A route without a run (a comment, an event), or one refused at its door.
RouteLeave(t) ==
    /\ At(t, "inside") /\ Leave(t)
    /\ UNCHANGED <<durable, registry, adding, unput, queue, worker, job, outcome, minted,
                   asking, server, replay, completed, crashes, faults>>

\* _gate_run: the mini-run of a decision.
RouteMint(t) ==
    /\ At(t, "inside") /\ NextRun(On(t)) <= MaxRuns
    /\ minted' = [minted EXCEPT ![t] = NextRun(On(t))]
    /\ Goto(t, "minted")
    /\ UNCHANGED <<durable, registry, adding, unput, queue, worker, job, outcome, guard,
                   asking, server, replay, completed, crashes, faults>>

RouteOpen(t) ==
    /\ At(t, "minted")
    /\ IF Fresh(t, On(t)) THEN runs' = Opened(On(t), Route) /\ Goto(t, "run") /\ UNCHANGED guard
       ELSE Leave(t) /\ UNCHANGED runs
    /\ minted' = [minted EXCEPT ![t] = 0]
    /\ UNCHANGED <<journal, torn, registry, adding, unput, queue, worker, job, outcome,
                   asking, server, replay, completed, crashes, faults>>

\* The decision ends its run, or an exception the route does not map leaves
\* the run open.
RouteEnd(t) ==
    /\ At(t, "run")
    /\ runs' \in {Ended(On(t)), runs}
    /\ Leave(t)
    /\ UNCHANGED <<journal, torn, registry, adding, unput, queue, worker, job, outcome, minted,
                   asking, server, replay, completed, crashes, faults>>

RouteStep(t) == RouteEnter(t) \/ RouteLeave(t) \/ RouteMint(t) \/ RouteOpen(t) \/ RouteEnd(t)

-----------------------------------------------------------------------------
(* A killed server, and the start that replays the journal                 *)

\* What a start begins from: a process with nothing in memory.
Forget ==
    /\ registry' = <<>> /\ adding' = 0 /\ unput' = {} /\ queue' = <<>>
    /\ worker' = "get" /\ job' = 0 /\ outcome' = "none"
    /\ minted' = [h \in Holders |-> 0]
    /\ guard' = [p \in Pursuits |-> NoOne]
    /\ thread' = [t \in Threads |-> IdleThread]
    /\ asking' = 0

\* A kill in the middle of an append leaves half a line.
Crash ==
    /\ server # "down" /\ crashes < MaxCrashes
    /\ crashes' = crashes + 1
    /\ server' = "down" /\ replay' = {}
    /\ torn' \in {torn, TRUE}
    /\ Forget
    /\ UNCHANGED <<journal, runs, completed, faults>>

\* The journal is read, and a half line cut off before anything is written.
Boot ==
    /\ server = "down"
    /\ server' = "booting" /\ replay' = DOMAIN journal
    /\ torn' = FALSE
    /\ UNCHANGED <<journal, runs, volatile, completed, crashes, faults>>

NextReplay(j) == server = "booting" /\ j \in replay /\ \A i \in replay : j <= i

\* One journaled job is taken over; one that was live becomes an orphan, and
\* the newest run of its pursuit is closed and named on it.
Rehydrate(j) ==
    /\ NextReplay(j)
    /\ replay' = replay \ {j}
    /\ LET line == journal[j]
           p == line.pursuit
           orphan == [line EXCEPT !.state = "orphaned", !.run = Len(runs[p])]
       IN IF line.state \in LiveStates
          THEN /\ registry' = With(registry, j, orphan)
               /\ runs' = ClosedOpen(p)
               /\ Journal(j, orphan)
          ELSE registry' = With(registry, j, line) /\ UNCHANGED <<journal, torn, runs, faults>>
    /\ UNCHANGED <<adding, unput, queue, worker, job, outcome, minted, guard, thread, asking,
                   server, completed, crashes>>

\* The start is killed after it closed the run and before its line landed;
\* this may be one crash more than MaxCrashes.
BootCrash(j) ==
    /\ NextReplay(j) /\ journal[j].state \in LiveStates /\ crashes <= MaxCrashes
    /\ runs' = ClosedOpen(journal[j].pursuit)
    /\ crashes' = crashes + 1
    /\ server' = "down" /\ replay' = {}
    /\ torn' \in {torn, TRUE}
    /\ Forget
    /\ UNCHANGED <<journal, completed, faults>>

Serve ==
    /\ server = "booting" /\ replay = {}
    /\ server' = "up"
    /\ UNCHANGED <<durable, volatile, replay, completed, crashes, faults>>

-----------------------------------------------------------------------------

BootStep == Boot \/ Serve \/ \E j \in Ids : Rehydrate(j)

Next ==
    \/ \E p \in Pursuits, kind \in Kinds : Submit(p, kind)
    \/ SubmitJournal
    \/ \E j \in Ids : Put(j) \/ CancelCheck(j) \/ CancelSet(j) \/ BootCrash(j)
    \/ WorkerStep
    \/ \E t \in Threads : RouteStep(t) \/ \E p \in Pursuits : RouteAsk(t, p)
    \/ Crash
    \/ BootStep

Spec == Init /\ [][Next]_vars

\* Threads that are scheduled run, targets return, and a killed server is
\* started again.  No lock is assumed fair.
FairSpec ==
    /\ Spec
    /\ WF_vars(SubmitJournal)
    /\ \A j \in Ids : WF_vars(Put(j))
    /\ WF_vars(WorkerStep)
    /\ \A t \in Threads : WF_vars(RouteStep(t))
    /\ WF_vars(BootStep)

-----------------------------------------------------------------------------
(* Properties                                                              *)

\* A run id stays free from its mint to the opening of its log, whoever
\* minted it: the directory-listing mint of mint_run_id never collides
\* between the worker and the request threads (jobs.py, the guard).
MintIsSerial ==
    /\ worker = "minted" => Fresh(Worker, Here)
    /\ \A t \in Threads : thread[t].pc = "minted" => Fresh(t, On(t))

\* A run a job opened has its footer by the time the job has ended, however
\* the job ended and whatever crash came between, unless a write failed
\* (jobs.py, _close_open_run: no footerless runs).
JobRunsAreClosed ==
    server = "up" /\ faults = 0 =>
        \A p \in Pursuits : \A i \in DOMAIN runs[p] :
            runs[p][i].status = "open" /\ runs[p][i].by # Route => Live(runs[p][i].by)

\* A run never loses or changes its footer, and a run that is not the newest
\* is never written again: closing what a dead job left open touches no run
\* that has ended and none that somebody else has gone past.
FootersStand ==
    [][\A p \in Pursuits : \A i \in DOMAIN runs[p] :
         \/ runs'[p][i] = runs[p][i]
         \/ runs[p][i].status = "open" /\ i = Len(runs[p]) /\ runs'[p][i].by = runs[p][i].by]_vars

\* What the journal says of an ended job is what it says ever after: no id is
\* given out twice across restarts, and a restart orphans live jobs only.
JournalIsHistory ==
    [][\A j \in DOMAIN journal :
         /\ j \in DOMAIN journal'
         /\ journal'[j].pursuit = journal[j].pursuit /\ journal'[j].kind = journal[j].kind
         /\ journal[j].state \in EndStates => journal'[j] = journal[j]]_vars

\* A cancelled badge is never on work that ran to its end (the module's own
\* rule: such a badge would lie).
CancelledMeansStopped ==
    \A j \in DOMAIN journal : journal[j].state = "cancelled" => j \notin completed

\* Runs are sound whoever opened them: their ids are minted one at a time, the ones
\* of ended jobs have their footers, and no completed work has a cancelled badge.
RunsAreSound == MintIsSerial /\ JobRunsAreClosed /\ CancelledMeansStopped

\* What has ended stays as it ended, in the run logs and in the journal, across
\* cancels, faults and restarts (jobs.py, _close_open_run and _rehydrate).
HistoryStands == FootersStand /\ JournalIsHistory

Journaled(j, states) == j \in DOMAIN journal /\ journal[j].state \in states

\* A journaled job ends, across crashes, unless a journal append has failed:
\* routes cannot keep the guard from the worker for ever, and no start leaves
\* a badge that says running (jobs.py, the guard and _rehydrate).
EveryJobEnds ==
    \A j \in Ids :
        Journaled(j, LiveStates) ~> (Journaled(j, EndStates) \/ faults > 0)

\* The run a job's journal line names is a run that job opened: "the newest
\* run IS the job's" (jobs.py, _close_open_run).
JobNamesItsRun ==
    \A j \in DOMAIN journal :
        journal[j].run # 0 => runs[journal[j].pursuit][journal[j].run].by = j
=============================================================================
