-------------------------- MODULE JobRunnerProofs --------------------------
(***************************************************************************)
(* Proofs about JobRunner, for any pursuits, request threads and bounds.   *)
(*                                                                         *)
(* The inductive invariant is Shape (the types, with the logs, the queue   *)
(* and the registry as functions), Lane (what the queue, the registry, the *)
(* journal and the worker say of one job), Guarding (who may write the     *)
(* runs of a pursuit) and OpenRuns (where a run without its footer may be).*)
(***************************************************************************)
EXTENDS JobRunner, TLAPS

USE HolderAssumption, PursuitAssumption, BoundAssumption

-----------------------------------------------------------------------------
(* The operators                                                           *)

\* Job ids are positive, and no job has the number of a request thread.
LEMMA IdFacts == 0 \notin Ids /\ Route \notin Ids /\ Ids \subseteq Nat
BY DEF Ids, Route

\* An idle thread is well typed.
LEMMA IdleTyped == IdleThread \in [pc : ThreadPCs, pursuit : Pursuits] /\ IdleThread.pc = "idle"
BY DEF IdleThread, ThreadPCs

Logs == [Pursuits -> Seq(Run)]

\* A footer on the newest run of one pursuit changes nothing else.
LEMMA ClosedFacts ==
    ASSUME runs \in Logs, NEW p \in Pursuits, runs[p] # <<>>,
           NEW status \in {"open", "ended", "failed"}
    PROVE  /\ Closed(p, status) \in Logs
           /\ \A q \in Pursuits : Len(Closed(p, status)[q]) = Len(runs[q])
           /\ \A q \in Pursuits : \A i \in 1..Len(runs[q]) :
                q # p \/ i # Len(runs[p]) => Closed(p, status)[q][i] = runs[q][i]
           /\ Closed(p, status)[p][Len(runs[p])]
                = [by |-> runs[p][Len(runs[p])].by, status |-> status]
<1>1. Len(runs[p]) \in 1..Len(runs[p]) /\ runs[p] \in Seq(Run)
  BY DEF Logs
<1>2. runs[p][Len(runs[p])] \in Run
  BY <1>1
<1>3. [runs[p][Len(runs[p])] EXCEPT !.status = status]
        = [by |-> runs[p][Len(runs[p])].by, status |-> status]
  BY <1>2 DEF Run
<1>4. [runs[p][Len(runs[p])] EXCEPT !.status = status] \in Run
  BY <1>2 DEF Run
<1> DEFINE last == Len(runs[p])
           log == [runs[p] EXCEPT ![last] = [by |-> runs[p][last].by, status |-> status]]
<1>5. log \in Seq(Run) /\ Len(log) = last /\ log[last] = [by |-> runs[p][last].by, status |-> status]
      /\ \A i \in 1..last : i # last => log[i] = runs[p][i]
  BY <1>1, <1>2, <1>3, <1>4
<1>6. Closed(p, status) = [runs EXCEPT ![p] = log]
  BY <1>3 DEF Closed
<1> QED
  BY <1>5, <1>6 DEF Logs

\* The footer of the logger that opened the newest run.
LEMMA EndedFacts ==
    ASSUME runs \in Logs, NEW p \in Pursuits, runs[p] # <<>>
    PROVE  /\ Ended(p) \in Logs
           /\ \A q \in Pursuits : Len(Ended(p)[q]) = Len(runs[q])
           /\ \A q \in Pursuits : q # p => Ended(p)[q] = runs[q]
           /\ Ended(p)[p][Len(runs[p])].status = "ended"
           /\ \A q \in Pursuits : \A i \in 1..Len(runs[q]) :
                \/ Ended(p)[q][i] = runs[q][i]
                \/ /\ q = p /\ i = Len(runs[p])
                   /\ Ended(p)[q][i].by = runs[q][i].by /\ Ended(p)[q][i].status = "ended"
<1>1. /\ Closed(p, "ended") \in Logs
      /\ \A q \in Pursuits : Len(Closed(p, "ended")[q]) = Len(runs[q])
      /\ \A q \in Pursuits : \A i \in 1..Len(runs[q]) :
           q # p \/ i # Len(runs[p]) => Closed(p, "ended")[q][i] = runs[q][i]
      /\ Closed(p, "ended")[p][Len(runs[p])]
           = [by |-> runs[p][Len(runs[p])].by, status |-> "ended"]
  BY ClosedFacts
<1>2. \A q \in Pursuits : q # p => Ended(p)[q] = runs[q]
  BY DEF Ended, Closed, Logs
<1>3. /\ Closed(p, "ended")[p][Len(runs[p])].by = runs[p][Len(runs[p])].by
      /\ Closed(p, "ended")[p][Len(runs[p])].status = "ended"
  BY <1>1
<1> QED
  BY <1>1, <1>2, <1>3 DEF Ended

\* A new run is appended to the log of one pursuit.
LEMMA OpenedFacts ==
    ASSUME runs \in Logs, NEW p \in Pursuits, NEW by \in Ids \cup {Route}
    PROVE  /\ Opened(p, by) \in Logs
           /\ Len(Opened(p, by)[p]) = Len(runs[p]) + 1
           /\ Opened(p, by)[p][Len(runs[p]) + 1] = [by |-> by, status |-> "open"]
           /\ \A q \in Pursuits : q # p => Opened(p, by)[q] = runs[q]
           /\ \A q \in Pursuits : \A i \in 1..Len(runs[q]) : Opened(p, by)[q][i] = runs[q][i]
<1>1. [by |-> by, status |-> "open"] \in Run
  BY DEF Run
<1> QED
  BY <1>1 DEF Opened, Logs

\* The close of the newest run: nothing, or the footer of an open run.
LEMMA ClosedOpenFacts ==
    ASSUME runs \in Logs, NEW p \in Pursuits
    PROVE  /\ ClosedOpen(p) \in Logs
           /\ \A q \in Pursuits : Len(ClosedOpen(p)[q]) = Len(runs[q])
           /\ \A q \in Pursuits : \A i \in 1..Len(runs[q]) :
                \/ ClosedOpen(p)[q][i] = runs[q][i]
                \/ /\ q = p /\ i = Len(runs[p]) /\ runs[p][i].status = "open"
                   /\ ClosedOpen(p)[q][i].by = runs[q][i].by
                   /\ ClosedOpen(p)[q][i].status = "failed"
           /\ runs[p] # <<>> => ClosedOpen(p)[p][Len(runs[p])].status # "open"
<1>1. CASE runs[p] # <<>> /\ Last(runs[p]).status = "open"
  <2>1. ClosedOpen(p) = Closed(p, "failed")
    BY <1>1 DEF ClosedOpen
  <2>2. /\ Closed(p, "failed") \in Logs
        /\ \A q \in Pursuits : Len(Closed(p, "failed")[q]) = Len(runs[q])
        /\ \A q \in Pursuits : \A i \in 1..Len(runs[q]) :
             q # p \/ i # Len(runs[p]) => Closed(p, "failed")[q][i] = runs[q][i]
        /\ Closed(p, "failed")[p][Len(runs[p])]
             = [by |-> runs[p][Len(runs[p])].by, status |-> "failed"]
    BY <1>1, ClosedFacts
  <2>3. runs[p][Len(runs[p])].status = "open"
    BY <1>1 DEF Last
  <2>4. /\ Closed(p, "failed")[p][Len(runs[p])].by = runs[p][Len(runs[p])].by
        /\ Closed(p, "failed")[p][Len(runs[p])].status = "failed"
    BY <2>2
  <2> QED
    BY <2>1, <2>2, <2>3, <2>4
<1>2. CASE ~(runs[p] # <<>> /\ Last(runs[p]).status = "open")
  BY <1>2 DEF ClosedOpen, Last
<1> QED
  BY <1>1, <1>2

-----------------------------------------------------------------------------
(* The invariant                                                           *)

\* The types, with the containers as functions and sequences.
Shape ==
    /\ TypeOK
    /\ registry \in [DOMAIN registry -> Job]
    /\ journal \in [DOMAIN journal -> Job]
    /\ queue \in Seq(Ids)
    /\ runs \in Logs

\* Jobs that are journaled and not taken by the worker yet.
Waiting == unput \cup Range(queue)

\* A process that serves no request has nothing under way; a worker that
\* asks for a job has none, and one past its target has been told an outcome.
Quiet ==
    /\ server # "up" => /\ worker = "get" /\ adding = 0 /\ Waiting = {} /\ asking = 0
                        /\ \A t \in Threads : thread[t].pc = "idle"
    /\ server = "down" => registry = <<>>
    /\ worker = "get" => job = 0
    /\ worker \in {"close", "finish"} => outcome # "none"

\* The ids of the registry have a highest one.
Numbered == registry # <<>> =>
    \E m \in DOMAIN registry : \A j \in DOMAIN registry : j <= m

\* A job is at one place: being added, waiting, or with the worker; only jobs
\* with a journal line go beyond the first.
Queueing ==
    /\ adding # 0 => /\ adding \in DOMAIN registry \ DOMAIN journal
                     /\ registry[adding].state = "queued"
    /\ \A j \in Waiting : j \in DOMAIN journal /\ registry[j].state = "queued"
    /\ unput \cap Range(queue) = {}
    /\ job # 0 => job \in DOMAIN journal /\ registry[job].state = "running"
    /\ \A j \in DOMAIN registry : registry[j].state = "running" => j = job

\* The registry and the journal speak of the same jobs, and the journal never
\* ends a job that the registry still runs.
Agreement ==
    /\ server = "up" => DOMAIN journal \subseteq DOMAIN registry
    /\ server = "booting" => DOMAIN journal \subseteq DOMAIN registry \cup replay
    /\ \A j \in DOMAIN journal \cap DOMAIN registry :
          /\ journal[j].pursuit = registry[j].pursuit /\ journal[j].kind = registry[j].kind
          /\ registry[j].state \in LiveStates => journal[j].state \in LiveStates

\* A job whose target did all of its work is past the point where it can be
\* skipped or stopped.
Past == \A j \in completed :
    /\ j \in DOMAIN journal /\ journal[j].state # "cancelled"
    /\ j \in DOMAIN registry =>
         /\ registry[j].state # "queued"
         /\ registry[j].state = "running" => worker = "finish" /\ outcome = "done"

Lane == Quiet /\ Numbered /\ Queueing /\ Agreement /\ Past

\* Whoever is between the mint of a run and its end holds the guard of the
\* pursuit, and the newest run of the pursuit is the one that was opened.
HoldingPCs == {"target", "minted", "run", "commit", "close"}
WorkerGuarded ==
    /\ worker \in HoldingPCs => guard[Here] = Worker
    /\ worker = "minted" => Fresh(Worker, Here)
    /\ worker \in {"run", "commit"} =>
         runs[Here] # <<>> /\ runs[Here][Len(runs[Here])] = [by |-> job, status |-> "open"]
ThreadGuarded(t) ==
    /\ thread[t].pc \in {"inside", "minted", "run"} => guard[On(t)] = t
    /\ thread[t].pc = "minted" => Fresh(t, On(t))
    /\ thread[t].pc = "run" =>
         runs[On(t)] # <<>> /\ runs[On(t)][Len(runs[On(t)])].status = "open"
Guarding == WorkerGuarded /\ \A t \in Threads : ThreadGuarded(t)

\* Without a failed write, a run that a job left open is the newest of the
\* pursuit, and its job is live in the journal: with the worker while the
\* server is up, not yet replayed while it starts.
OpenRuns == faults = 0 =>
    \A p \in Pursuits : \A i \in DOMAIN runs[p] :
        runs[p][i].status = "open" /\ runs[p][i].by # Route =>
            /\ i = Len(runs[p])
            /\ runs[p][i].by \in DOMAIN journal
            /\ journal[runs[p][i].by].state \in LiveStates
            /\ journal[runs[p][i].by].pursuit = p
            /\ server = "up" => runs[p][i].by = job /\ worker \in {"run", "commit", "close"}
            /\ server = "booting" => runs[p][i].by \in replay

IInv == Shape /\ Lane /\ Guarding /\ OpenRuns

-----------------------------------------------------------------------------
(* Frames: what a step does not touch it does not disturb                  *)

\* The lane of jobs depends on no guard, thread, mint or log of an up server.
LEMMA LaneFrame ==
    ASSUME Lane, server = "up",
           UNCHANGED <<registry, journal, adding, unput, queue, worker, job, outcome, server,
                       completed>>
    PROVE  Lane'
BY DEF Lane, Quiet, Numbered, Queueing, Agreement, Past, Waiting

\* The route steps that touch no run.
LEMMA OpenRunsFrame ==
    ASSUME OpenRuns,
           UNCHANGED <<faults, runs, journal, server, job, worker, replay>>
    PROVE  OpenRuns'
BY DEF OpenRuns

\* A thread is not disturbed by what happens at a pursuit it does not hold.
LEMMA ThreadFrame ==
    ASSUME Shape, NEW t \in Threads, ThreadGuarded(t), NEW p \in Pursuits, guard[p] # t,
           thread'[t] = thread[t], minted'[t] = minted[t],
           \A q \in Pursuits : q # p => guard'[q] = guard[q] /\ runs'[q] = runs[q]
    PROVE  ThreadGuarded(t)'
<1>1. On(t) \in Pursuits
  BY DEF Shape, TypeOK, On
<1> QED
  BY <1>1 DEF ThreadGuarded, On, Fresh

\* Nor is the worker.
LEMMA WorkerFrame ==
    ASSUME Shape, WorkerGuarded, NEW p \in Pursuits, guard[p] # Worker,
           UNCHANGED <<worker, job>>, worker \in HoldingPCs => Here' = Here,
           minted'[Worker] = minted[Worker],
           \A q \in Pursuits : q # p => guard'[q] = guard[q] /\ runs'[q] = runs[q]
    PROVE  WorkerGuarded'
<1>1. worker \in HoldingPCs => Here \in Pursuits
  BY DEF Shape, TypeOK, Here, HoldingPCs, Job
<1> QED
  BY <1>1 DEF WorkerGuarded, Fresh, HoldingPCs

-----------------------------------------------------------------------------
(* The routes                                                              *)

\* A route that asks holds nothing yet.
LEMMA RouteAskKeeps ==
    ASSUME IInv, NEW t \in Threads, NEW p \in Pursuits, RouteAsk(t, p)
    PROVE  IInv'
<1>1. Shape'
  BY DEF IInv, Shape, TypeOK, RouteAsk, durable, ThreadPCs, At
<1>2. Lane'
  BY LaneFrame DEF IInv, RouteAsk, durable, At
<1>3. OpenRuns'
  BY OpenRunsFrame DEF IInv, RouteAsk, durable
<1>4. Guarding'
  BY DEF IInv, Shape, TypeOK, Guarding, WorkerGuarded, ThreadGuarded, RouteAsk, durable, At, On,
     Here, Fresh
<1> QED
  BY <1>1, <1>2, <1>3, <1>4 DEF IInv

\* What a step of one route leaves alone: everything but its own place, its
\* guard, its mint and the runs of its pursuit.
RouteFrame == UNCHANGED <<registry, journal, torn, adding, unput, queue, worker, job, outcome,
                          asking, server, replay, completed, crashes, faults>>

\* A step of one thread at its own pursuit disturbs no other holder.
LEMMA RouteGuarding ==
    ASSUME Shape, Guarding, NEW t \in Threads, RouteFrame, guard[On(t)] \in {NoOne, t},
           \A q \in Pursuits : q # On(t) => guard'[q] = guard[q] /\ runs'[q] = runs[q],
           \A u \in Threads : u # t => thread'[u] = thread[u] /\ minted'[u] = minted[u],
           minted'[Worker] = minted[Worker],
           ThreadGuarded(t)'
    PROVE  Guarding'
<1>1. On(t) \in Pursuits
  BY DEF Shape, TypeOK, On
<1>2. guard[On(t)] # Worker /\ \A u \in Threads : u # t => guard[On(t)] # u
  OBVIOUS
<1>3. Here' = Here /\ UNCHANGED <<worker, job>>
  BY DEF RouteFrame, Here
<1>4. WorkerGuarded'
  BY <1>1, <1>2, <1>3, WorkerFrame DEF Guarding
<1>5. ASSUME NEW u \in Threads PROVE ThreadGuarded(u)'
  BY <1>1, <1>2, ThreadFrame DEF Guarding
<1> QED
  BY <1>4, <1>5 DEF Guarding

Places == [Threads -> [pc : ThreadPCs, pursuit : Pursuits]]

\* A thread that goes on stays at its pursuit.
LEMMA GotoFacts ==
    ASSUME thread \in Places, NEW t \in Threads, NEW pc \in ThreadPCs, Goto(t, pc)
    PROVE  /\ thread' \in Places
           /\ thread'[t].pc = pc /\ thread'[t].pursuit = thread[t].pursuit
           /\ \A u \in Threads : u # t => thread'[u] = thread[u]
<1>1. thread[t] \in [pc : ThreadPCs, pursuit : Pursuits]
  BY DEF Places
<1>2. [thread[t] EXCEPT !.pc = pc] = [pc |-> pc, pursuit |-> thread[t].pursuit]
  BY <1>1
<1>3. thread' = [thread EXCEPT ![t] = [pc |-> pc, pursuit |-> thread[t].pursuit]]
  BY <1>2 DEF Goto
<1> QED
  BY <1>1, <1>3 DEF Places

\* A thread that leaves gives its guard back and is idle.
LEMMA LeaveFacts ==
    ASSUME thread \in Places, guard \in [Pursuits -> Holders \cup {NoOne}], NEW t \in Threads, Leave(t)
    PROVE  /\ thread' \in Places /\ thread'[t].pc = "idle"
           /\ \A u \in Threads : u # t => thread'[u] = thread[u]
           /\ guard' \in [Pursuits -> Holders \cup {NoOne}]
           /\ \A q \in Pursuits : q # On(t) => guard'[q] = guard[q]
BY IdleTyped DEF Leave, Places

\* A route enters when nobody holds the guard and no job is live.
LEMMA RouteEnterKeeps ==
    ASSUME IInv, NEW t \in Threads, RouteEnter(t)
    PROVE  IInv'
<1>1. thread \in Places /\ guard \in [Pursuits -> Holders \cup {NoOne}] /\ On(t) \in Pursuits
  BY DEF IInv, Shape, TypeOK, On, Places
<1>2. RouteFrame /\ UNCHANGED <<runs, minted>> /\ guard[On(t)] = NoOne /\ server = "up"
  BY DEF RouteEnter, RouteFrame, durable, Free, At
<1>3. /\ thread' \in Places /\ guard' \in [Pursuits -> Holders \cup {NoOne}]
      /\ \A u \in Threads : u # t => thread'[u] = thread[u]
      /\ \A q \in Pursuits : q # On(t) => guard'[q] = guard[q]
      /\ \/ thread'[t].pc = "idle"
         \/ thread'[t].pc = "inside" /\ thread'[t].pursuit = On(t) /\ guard'[On(t)] = t
  <2>1. CASE Leave(t)
    BY <1>1, <2>1, LeaveFacts
  <2>2. CASE guard' = [guard EXCEPT ![On(t)] = t] /\ Goto(t, "inside")
    BY <1>1, <2>2, GotoFacts DEF ThreadPCs, Holders, On
  <2> QED
    BY <2>1, <2>2 DEF RouteEnter
<1>4. Shape'
  BY <1>2, <1>3 DEF IInv, Shape, TypeOK, RouteFrame, Places
<1>5. Lane' /\ OpenRuns'
  BY <1>2, LaneFrame, OpenRunsFrame DEF IInv, RouteFrame
<1>6. ThreadGuarded(t)'
  BY <1>3 DEF ThreadGuarded, On
<1>7. Guarding'
  BY <1>2, <1>3, <1>6, RouteGuarding DEF IInv
<1> QED
  BY <1>4, <1>5, <1>7 DEF IInv

\* A route leaves, without a run.
LEMMA RouteLeaveKeeps ==
    ASSUME IInv, NEW t \in Threads, RouteLeave(t)
    PROVE  IInv'
<1>1. thread \in Places /\ guard \in [Pursuits -> Holders \cup {NoOne}] /\ On(t) \in Pursuits
  BY DEF IInv, Shape, TypeOK, On, Places
<1>2. RouteFrame /\ UNCHANGED <<runs, minted>> /\ server = "up"
  BY DEF RouteLeave, RouteFrame, durable, At
<1>3. guard[On(t)] = t
  BY DEF IInv, Guarding, ThreadGuarded, RouteLeave, At
<1>4. Leave(t)
  BY DEF RouteLeave
<1>5. Shape'
  BY <1>1, <1>2, <1>4, LeaveFacts DEF IInv, Shape, TypeOK, RouteFrame, Places
<1>6. Lane' /\ OpenRuns'
  BY <1>2, LaneFrame, OpenRunsFrame DEF IInv, RouteFrame
<1>7. ThreadGuarded(t)'
  BY <1>1, <1>4, LeaveFacts DEF ThreadGuarded
<1>8. Guarding'
  BY <1>1, <1>2, <1>3, <1>4, <1>7, LeaveFacts, RouteGuarding DEF IInv
<1> QED
  BY <1>5, <1>6, <1>8 DEF IInv

\* The run id of a decision is minted under the guard.
LEMMA RouteMintKeeps ==
    ASSUME IInv, NEW t \in Threads, RouteMint(t)
    PROVE  IInv'
<1>1. /\ thread \in Places /\ On(t) \in Pursuits /\ minted \in [Holders -> 0..MaxRuns]
      /\ Len(runs[On(t)]) \in Nat
  BY DEF IInv, Shape, TypeOK, On, Places, Logs
<1>2. RouteFrame /\ UNCHANGED <<runs, guard>> /\ server = "up"
  BY DEF RouteMint, RouteFrame, durable, At
<1>3. guard[On(t)] = t
  BY DEF IInv, Guarding, ThreadGuarded, RouteMint, At
<1>4. /\ thread' \in Places
      /\ thread'[t].pc = "minted" /\ thread'[t].pursuit = On(t)
      /\ \A u \in Threads : u # t => thread'[u] = thread[u]
  BY <1>1, GotoFacts DEF RouteMint, ThreadPCs, On
<1>5. /\ minted' \in [Holders -> 0..MaxRuns] /\ minted'[t] = Len(runs[On(t)]) + 1
      /\ \A h \in Holders : h # t => minted'[h] = minted[h]
  BY <1>1 DEF RouteMint, NextRun, Holders
<1>6. Shape'
  BY <1>2, <1>4, <1>5 DEF IInv, Shape, TypeOK, RouteFrame, Places
<1>7. Lane' /\ OpenRuns'
  BY <1>2, LaneFrame, OpenRunsFrame DEF IInv, RouteFrame
<1>8. ThreadGuarded(t)'
  BY <1>1, <1>2, <1>3, <1>4, <1>5 DEF ThreadGuarded, On, Fresh
<1>9. Guarding'
  BY <1>2, <1>3, <1>4, <1>5, <1>8, RouteGuarding DEF IInv, Holders
<1> QED
  BY <1>6, <1>7, <1>9 DEF IInv

BusyPCs == HoldingPCs \cup {"waiting", "finish"}

\* The worker is busy with a running job of the registry, at its pursuit.
LEMMA HereFacts ==
    ASSUME Shape, worker \in BusyPCs
    PROVE  /\ job \in DOMAIN registry /\ job \in Ids /\ Here \in Pursuits
           /\ registry[job] \in Job /\ registry[job].state = "running"
BY DEF Shape, TypeOK, BusyPCs, HoldingPCs, Here, Job

\* A job's open run is the newest one of the pursuit where the worker is.
LEMMA OpenRunIsHere ==
    ASSUME IInv, server = "up", faults = 0, NEW p \in Pursuits, NEW i \in DOMAIN runs[p],
           runs[p][i].status = "open", runs[p][i].by # Route
    PROVE  /\ p = Here /\ i = Len(runs[Here]) /\ runs[p][i].by = job
           /\ worker \in {"run", "commit", "close"}
<1>1. /\ i = Len(runs[p]) /\ runs[p][i].by = job /\ worker \in {"run", "commit", "close"}
      /\ job \in DOMAIN journal /\ journal[job].pursuit = p
  BY DEF IInv, OpenRuns
<1>2. job \in DOMAIN registry
  BY <1>1, HereFacts DEF IInv, BusyPCs, HoldingPCs
<1>3. Here = p
  BY <1>1, <1>2 DEF IInv, Lane, Agreement, Here
<1> QED
  BY <1>1, <1>3

\* So a pursuit whose guard the worker does not hold has no such run.
LEMMA OpenRunsAreHeld ==
    ASSUME IInv, server = "up", faults = 0, NEW p \in Pursuits, guard[p] # Worker,
           NEW i \in DOMAIN runs[p], runs[p][i].status = "open"
    PROVE  runs[p][i].by = Route
BY OpenRunIsHere DEF IInv, Guarding, WorkerGuarded, HoldingPCs

\* The run of a decision is opened on the id it minted.
LEMMA RouteOpenKeeps ==
    ASSUME IInv, NEW t \in Threads, RouteOpen(t)
    PROVE  IInv'
<1>1. /\ thread \in Places /\ On(t) \in Pursuits /\ minted \in [Holders -> 0..MaxRuns]
      /\ guard \in [Pursuits -> Holders \cup {NoOne}] /\ runs \in Logs
      /\ \A p \in Pursuits : Len(runs[p]) \in Nat /\ DOMAIN runs[p] = 1..Len(runs[p])
      /\ \A p \in Pursuits : Len(runs[p]) <= MaxRuns
  BY DEF IInv, Shape, TypeOK, On, Places, Logs
<1>2. RouteFrame /\ server = "up"
  BY DEF RouteOpen, RouteFrame, At
<1>3. guard[On(t)] = t /\ Fresh(t, On(t))
  BY DEF IInv, Guarding, ThreadGuarded, RouteOpen, At
<1>4. runs' = Opened(On(t), Route) /\ Goto(t, "run") /\ UNCHANGED guard
  BY <1>3 DEF RouteOpen
<1>5. /\ thread' \in Places
      /\ thread'[t].pc = "run" /\ thread'[t].pursuit = On(t)
      /\ \A u \in Threads : u # t => thread'[u] = thread[u]
  BY <1>1, <1>4, GotoFacts DEF ThreadPCs, On
<1>6. minted' \in [Holders -> 0..MaxRuns] /\ \A h \in Holders : h # t => minted'[h] = minted[h]
  BY <1>1 DEF RouteOpen, Holders
<1>7. /\ runs' \in Logs /\ Len(runs'[On(t)]) = Len(runs[On(t)]) + 1
      /\ runs'[On(t)][Len(runs[On(t)]) + 1] = [by |-> Route, status |-> "open"]
      /\ \A q \in Pursuits : q # On(t) => runs'[q] = runs[q]
      /\ \A q \in Pursuits : \A i \in 1..Len(runs[q]) : runs'[q][i] = runs[q][i]
  BY <1>1, <1>4, OpenedFacts
<1>8. \A p \in Pursuits : Len(runs'[p]) <= MaxRuns /\ DOMAIN runs'[p] = 1..Len(runs'[p])
  <2>1. Len(runs[On(t)]) + 1 <= MaxRuns
    BY <1>1, <1>3 DEF Fresh, Holders
  <2>2. \A p \in Pursuits : Len(runs'[p]) <= MaxRuns
    BY <1>1, <1>7, <2>1
  <2>3. \A p \in Pursuits : DOMAIN runs'[p] = 1..Len(runs'[p])
    BY <1>7 DEF Logs
  <2> QED
    BY <2>2, <2>3
<1>9. Shape'
  <2>1. \A p \in Pursuits : Range(runs'[p]) \subseteq Run
    BY <1>7 DEF Logs, Range
  <2> QED
    BY <1>2, <1>4, <1>5, <1>6, <1>7, <1>8, <2>1 DEF IInv, Shape, TypeOK, RouteFrame, Places
<1>10. Lane'
  BY <1>2, LaneFrame DEF IInv, RouteFrame
<1>11. OpenRuns'
  <2> SUFFICES ASSUME faults' = 0, NEW p \in Pursuits, NEW i \in DOMAIN runs'[p],
                      runs'[p][i].status = "open", runs'[p][i].by # Route
               PROVE  /\ i = Len(runs'[p])
                      /\ runs'[p][i].by \in DOMAIN journal'
                      /\ journal'[runs'[p][i].by].state \in LiveStates
                      /\ journal'[runs'[p][i].by].pursuit = p
                      /\ server' = "up" => /\ runs'[p][i].by = job'
                                           /\ worker' \in {"run", "commit", "close"}
                      /\ server' = "booting" => runs'[p][i].by \in replay'
    BY DEF OpenRuns
  <2>1. i \in DOMAIN runs[p] /\ runs'[p][i] = runs[p][i]
    <3>1. CASE p # On(t)
      BY <1>7, <3>1
    <3>2. CASE p = On(t)
      <4>1. i \in 1..(Len(runs[p]) + 1)
        BY <1>7, <1>8, <3>2
      <4>2. i # Len(runs[p]) + 1
        BY <1>7, <3>2
      <4>3. i \in 1..Len(runs[p])
        BY <1>1, <4>1, <4>2
      <4> QED
        BY <1>1, <1>7, <4>3
    <3> QED
      BY <3>1, <3>2
  <2>2. p # On(t)
    BY <1>2, <1>3, <2>1, OpenRunsAreHeld DEF RouteFrame
  <2> QED
    BY <1>2, <1>7, <2>1, <2>2 DEF IInv, OpenRuns, RouteFrame
<1>12. ThreadGuarded(t)'
  BY <1>1, <1>3, <1>4, <1>5, <1>7 DEF ThreadGuarded, On
<1>13. Guarding'
  BY <1>2, <1>3, <1>4, <1>5, <1>6, <1>7, <1>12, RouteGuarding DEF IInv, Holders
<1> QED
  BY <1>9, <1>10, <1>11, <1>13 DEF IInv

\* A decision ends its run, or leaves it open.
LEMMA RouteEndKeeps ==
    ASSUME IInv, NEW t \in Threads, RouteEnd(t)
    PROVE  IInv'
<1>1. /\ thread \in Places /\ On(t) \in Pursuits /\ runs \in Logs
      /\ guard \in [Pursuits -> Holders \cup {NoOne}]
      /\ \A p \in Pursuits : Len(runs[p]) \in Nat /\ DOMAIN runs[p] = 1..Len(runs[p])
  BY DEF IInv, Shape, TypeOK, On, Places, Logs
<1>2. RouteFrame /\ server = "up" /\ UNCHANGED minted /\ Leave(t)
  BY DEF RouteEnd, RouteFrame, At
<1>3. guard[On(t)] = t /\ runs[On(t)] # <<>>
  BY DEF IInv, Guarding, ThreadGuarded, RouteEnd, At
<1>4. /\ runs' \in Logs
      /\ \A q \in Pursuits : Len(runs'[q]) = Len(runs[q])
      /\ \A q \in Pursuits : q # On(t) => runs'[q] = runs[q]
      /\ \A q \in Pursuits : \A i \in 1..Len(runs[q]) :
           runs'[q][i] = runs[q][i] \/ runs'[q][i].status = "ended"
  <2>1. /\ Ended(On(t)) \in Logs
        /\ \A q \in Pursuits : Len(Ended(On(t))[q]) = Len(runs[q])
        /\ \A q \in Pursuits : q # On(t) => Ended(On(t))[q] = runs[q]
        /\ \A q \in Pursuits : \A i \in 1..Len(runs[q]) :
             \/ Ended(On(t))[q][i] = runs[q][i]
             \/ /\ q = On(t) /\ i = Len(runs[On(t)])
                /\ Ended(On(t))[q][i].by = runs[q][i].by
                /\ Ended(On(t))[q][i].status = "ended"
    BY <1>1, <1>3, EndedFacts
  <2>2. CASE runs' = Ended(On(t))
    BY <2>1, <2>2
  <2>3. CASE runs' = runs
    BY <1>1, <2>3
  <2> QED
    BY <2>2, <2>3 DEF RouteEnd
<1>6. /\ thread' \in Places /\ thread'[t].pc = "idle"
      /\ \A u \in Threads : u # t => thread'[u] = thread[u]
      /\ guard' \in [Pursuits -> Holders \cup {NoOne}]
      /\ \A q \in Pursuits : q # On(t) => guard'[q] = guard[q]
  BY <1>1, <1>2, LeaveFacts
<1>7. Shape'
  <2>1. \A p \in Pursuits : Range(runs'[p]) \subseteq Run
    BY <1>4 DEF Logs, Range
  <2> QED
    BY <1>2, <1>4, <1>6, <2>1 DEF IInv, Shape, TypeOK, RouteFrame, Places
<1>8. Lane'
  BY <1>2, LaneFrame DEF IInv, RouteFrame
<1>9. OpenRuns'
  <2>1. \A q \in Pursuits : DOMAIN runs'[q] = 1..Len(runs[q])
    BY <1>1, <1>4 DEF Logs
  <2> QED
    BY <1>1, <1>2, <1>4, <2>1 DEF IInv, OpenRuns, RouteFrame
<1>10. ThreadGuarded(t)'
  BY <1>6 DEF ThreadGuarded
<1>11. Guarding'
  BY <1>2, <1>3, <1>4, <1>6, <1>10, RouteGuarding DEF IInv
<1> QED
  BY <1>7, <1>8, <1>9, <1>11 DEF IInv

-----------------------------------------------------------------------------
(* The worker thread, between the start of a job and its end               *)

\* What these steps leave alone.
WorkerRest == UNCHANGED <<journal, torn, adding, unput, queue, job, thread, asking, server, replay,
                          crashes>>

\* The jobs of the registry stand, and only a target that returns completes
\* its job.
LEMMA WorkerLane ==
    ASSUME IInv, server = "up", worker \in HoldingPCs \cup {"waiting"}, WorkerRest,
           DOMAIN registry' = DOMAIN registry, worker' # "get",
           worker' \in {"close", "finish"} => outcome' # "none",
           \A j \in DOMAIN registry : /\ registry'[j].pursuit = registry[j].pursuit
                                     /\ registry'[j].kind = registry[j].kind
                                     /\ registry'[j].state = registry[j].state,
           \/ UNCHANGED completed
           \/ completed' = completed \cup {job} /\ worker' = "finish" /\ outcome' = "done"
    PROVE  Lane'
<1>1. /\ job \in DOMAIN registry /\ registry[job].state = "running"
      /\ \A j \in DOMAIN registry : registry[j].state = "running" => j = job
      /\ job \in DOMAIN journal /\ journal[job].state \in LiveStates
  BY HereFacts, IdFacts DEF IInv, Lane, Queueing, Agreement, BusyPCs, LiveStates
<1>2. job \notin completed
  BY <1>1 DEF IInv, Lane, Past, HoldingPCs
<1>3. Quiet' /\ Queueing' /\ Agreement'
  <2>1. /\ UNCHANGED <<journal, unput, queue, job, adding, server, replay>>
        /\ Waiting' = Waiting /\ Waiting \subseteq DOMAIN registry
    BY DEF WorkerRest, Waiting, IInv, Shape, TypeOK
  <2>2. Quiet'
    BY <2>1 DEF Quiet
  <2>3. Queueing'
    BY <1>1, <2>1 DEF IInv, Lane, Queueing
  <2>4. Agreement'
    BY <2>1 DEF IInv, Lane, Agreement
  <2> QED
    BY <2>2, <2>3, <2>4
<1>4. Numbered'
  <2>1. \E m \in DOMAIN registry : \A j \in DOMAIN registry : j <= m
    BY <1>1 DEF IInv, Lane, Numbered
  <2> QED
    BY <2>1 DEF Numbered
<1>5. Past'
  BY <1>1, <1>2 DEF IInv, Lane, WorkerRest, Past, LiveStates
<1> QED
  BY <1>3, <1>4, <1>5 DEF Lane

\* A worker step at its own pursuit disturbs no thread.
LEMMA WorkerGuarding ==
    ASSUME Shape, Guarding, WorkerRest, NEW p \in Pursuits, guard[p] \in {NoOne, Worker},
           \A q \in Pursuits : q # p => guard'[q] = guard[q] /\ runs'[q] = runs[q],
           \A t \in Threads : minted'[t] = minted[t],
           WorkerGuarded'
    PROVE  Guarding'
<1>1. ASSUME NEW t \in Threads PROVE ThreadGuarded(t)'
  BY ThreadFrame DEF Guarding, WorkerRest
<1> QED
  BY <1>1 DEF Guarding

\* The runs keep their place, and either the worker still stands where a run
\* may be open, or no run of a job is.
LEMMA WorkerOpenRuns ==
    ASSUME IInv, server = "up", WorkerRest, UNCHANGED faults,
           \A p \in Pursuits : Len(runs'[p]) = Len(runs[p]) /\ DOMAIN runs'[p] = DOMAIN runs[p],
           \A p \in Pursuits : \A i \in DOMAIN runs[p] :
             runs'[p][i] = runs[p][i] \/ runs'[p][i].status # "open",
           \/ worker' \in {"run", "commit", "close"}
           \/ worker \notin {"run", "commit", "close"}
           \/ runs'[Here][Len(runs[Here])].status # "open"
    PROVE  OpenRuns'
<1> SUFFICES ASSUME faults = 0, NEW p \in Pursuits, NEW i \in DOMAIN runs[p],
                    runs'[p][i].status = "open", runs'[p][i].by # Route
             PROVE  /\ i = Len(runs'[p])
                    /\ runs'[p][i].by \in DOMAIN journal'
                    /\ journal'[runs'[p][i].by].state \in LiveStates
                    /\ journal'[runs'[p][i].by].pursuit = p
                    /\ server' = "up" => /\ runs'[p][i].by = job'
                                         /\ worker' \in {"run", "commit", "close"}
                    /\ server' = "booting" => runs'[p][i].by \in replay'
  BY DEF OpenRuns
<1>1. runs'[p][i] = runs[p][i]
  OBVIOUS
<1>2. p = Here /\ i = Len(runs[Here]) /\ worker \in {"run", "commit", "close"}
  BY <1>1, OpenRunIsHere
<1> QED
  BY <1>1, <1>2 DEF IInv, OpenRuns, WorkerRest

\* The types of what a busy worker writes.
LEMMA WorkerShape ==
    ASSUME Shape, worker \in BusyPCs, WorkerRest, UNCHANGED registry,
           worker' \in WorkerPCs, outcome' \in {"none", "done", "stopped", "refused", "error"},
           minted' \in [Holders -> 0..MaxRuns], guard' \in [Pursuits -> Holders \cup {NoOne}],
           runs' \in Logs, \A p \in Pursuits : Len(runs'[p]) <= MaxRuns,
           completed' \subseteq Ids, faults' \in 0..MaxFaults
    PROVE  Shape'
<1>1. job # 0 /\ registry[job].state = "running"
  BY HereFacts, IdFacts
<1>2. \A p \in Pursuits : Range(runs'[p]) \subseteq Run
  BY DEF Logs, Range
<1> QED
  BY <1>1, <1>2 DEF Shape, TypeOK, WorkerRest

\* The worker takes the guard of its pursuit when it is free.
LEMMA AcquireKeeps == IInv /\ Acquire => IInv'
<1> SUFFICES ASSUME IInv, Acquire PROVE IInv'
  OBVIOUS
<1>1. /\ WorkerRest /\ UNCHANGED <<registry, runs, minted, outcome, completed, faults>>
      /\ server = "up" /\ worker = "waiting" /\ worker' = "target" /\ guard[Here] = NoOne
      /\ guard' = [guard EXCEPT ![Here] = Worker]
  BY DEF Acquire, WorkerRest, durable, Free
<1>2. Here \in Pursuits /\ Here' = Here
  BY <1>1, HereFacts DEF IInv, BusyPCs, Here, WorkerRest
<1>3. Shape'
  BY <1>1, <1>2, WorkerShape DEF IInv, Shape, TypeOK, BusyPCs, WorkerPCs, Holders
<1>4. Lane'
  BY <1>1, WorkerLane
<1>5. OpenRuns'
  BY <1>1, WorkerOpenRuns
<1>6. Guarding'
  <2>1. WorkerGuarded'
    BY <1>1, <1>2 DEF WorkerGuarded, IInv, Shape, TypeOK
  <2>2. \A q \in Pursuits : q # Here => guard'[q] = guard[q]
    BY <1>1 DEF IInv, Shape, TypeOK
  <2> QED
    BY <1>1, <1>2, <2>1, <2>2, WorkerGuarding DEF IInv
<1> QED
  BY <1>3, <1>4, <1>5, <1>6 DEF IInv

\* The worker mints a run id under the guard.
LEMMA MintKeeps == IInv /\ Mint => IInv'
<1> SUFFICES ASSUME IInv, Mint PROVE IInv'
  OBVIOUS
<1>1. /\ WorkerRest /\ UNCHANGED <<registry, runs, guard, outcome, completed, faults>>
      /\ server = "up" /\ worker = "target" /\ worker' = "minted"
      /\ minted' = [minted EXCEPT ![Worker] = Len(runs[Here]) + 1]
      /\ Len(runs[Here]) + 1 <= MaxRuns
  BY DEF Mint, WorkerRest, durable, NextRun
<1>2. Here \in Pursuits /\ Here' = Here
  BY <1>1, HereFacts DEF IInv, BusyPCs, HoldingPCs, Here, WorkerRest
<1>3. Len(runs[Here]) \in Nat /\ guard[Here] = Worker
  BY <1>1, <1>2 DEF IInv, Shape, Logs, Guarding, WorkerGuarded, HoldingPCs
<1>4. /\ minted' \in [Holders -> 0..MaxRuns] /\ minted'[Worker] = Len(runs[Here]) + 1
      /\ \A t \in Threads : minted'[t] = minted[t]
  BY <1>1, <1>3 DEF IInv, Shape, TypeOK, Holders
<1>5. Shape'
  BY <1>1, <1>2, <1>4, WorkerShape DEF IInv, Shape, TypeOK, BusyPCs, HoldingPCs, WorkerPCs
<1>6. Lane'
  BY <1>1, WorkerLane DEF HoldingPCs
<1>7. OpenRuns'
  BY <1>1, WorkerOpenRuns
<1>8. Guarding'
  <2>1. WorkerGuarded'
    BY <1>1, <1>2, <1>3, <1>4 DEF WorkerGuarded, Fresh
  <2> QED
    BY <1>1, <1>2, <1>3, <1>4, <2>1, WorkerGuarding DEF IInv
<1> QED
  BY <1>5, <1>6, <1>7, <1>8 DEF IInv

\* Nobody has taken the minted id: the worker opens its run.
LEMMA OpenRunKeeps == IInv /\ OpenRun => IInv'
<1> SUFFICES ASSUME IInv, OpenRun PROVE IInv'
  OBVIOUS
<1>1. /\ WorkerRest /\ UNCHANGED <<registry, guard, completed, faults>>
      /\ server = "up" /\ worker = "minted"
      /\ minted' = [minted EXCEPT ![Worker] = 0]
  BY DEF OpenRun, WorkerRest
<1>2. /\ Here \in Pursuits /\ Here' = Here /\ job \in Ids
      /\ job \in DOMAIN registry /\ registry[job].state = "running"
  BY <1>1, HereFacts DEF IInv, BusyPCs, HoldingPCs, Here, WorkerRest
<1>3. guard[Here] = Worker /\ Fresh(Worker, Here)
  BY <1>1 DEF IInv, Guarding, WorkerGuarded, HoldingPCs
<1>4. runs' = Opened(Here, job) /\ worker' = "run" /\ UNCHANGED outcome
  BY <1>3 DEF OpenRun
<1>5. /\ runs \in Logs /\ minted \in [Holders -> 0..MaxRuns]
      /\ \A p \in Pursuits : Len(runs[p]) \in Nat /\ DOMAIN runs[p] = 1..Len(runs[p])
      /\ \A p \in Pursuits : Len(runs[p]) <= MaxRuns
  BY DEF IInv, Shape, TypeOK, Logs
<1>6. /\ runs' \in Logs /\ Len(runs'[Here]) = Len(runs[Here]) + 1
      /\ runs'[Here][Len(runs[Here]) + 1] = [by |-> job, status |-> "open"]
      /\ \A q \in Pursuits : q # Here => runs'[q] = runs[q]
      /\ \A q \in Pursuits : \A i \in 1..Len(runs[q]) : runs'[q][i] = runs[q][i]
  BY <1>2, <1>4, <1>5, OpenedFacts
<1>7. minted' \in [Holders -> 0..MaxRuns] /\ \A t \in Threads : minted'[t] = minted[t]
  BY <1>1, <1>5 DEF Holders
<1>8. \A p \in Pursuits : Len(runs'[p]) <= MaxRuns /\ DOMAIN runs'[p] = 1..Len(runs'[p])
  <2>1. Len(runs[Here]) + 1 <= MaxRuns
    BY <1>2, <1>3, <1>5 DEF Fresh, Holders
  <2>2. \A p \in Pursuits : Len(runs'[p]) <= MaxRuns
    BY <1>5, <1>6, <2>1
  <2>3. \A p \in Pursuits : DOMAIN runs'[p] = 1..Len(runs'[p])
    BY <1>6 DEF Logs
  <2> QED
    BY <2>2, <2>3
<1>9. Shape'
  BY <1>1, <1>4, <1>6, <1>7, <1>8, WorkerShape DEF IInv, Shape, TypeOK, BusyPCs, HoldingPCs, WorkerPCs
<1>10. Lane'
  BY <1>1, <1>4, WorkerLane DEF HoldingPCs
<1>11. OpenRuns'
  <2> SUFFICES ASSUME faults = 0, NEW p \in Pursuits, NEW i \in DOMAIN runs'[p],
                      runs'[p][i].status = "open", runs'[p][i].by # Route
               PROVE  /\ i = Len(runs'[p])
                      /\ runs'[p][i].by \in DOMAIN journal'
                      /\ journal'[runs'[p][i].by].state \in LiveStates
                      /\ journal'[runs'[p][i].by].pursuit = p
                      /\ server' = "up" => /\ runs'[p][i].by = job'
                                           /\ worker' \in {"run", "commit", "close"}
                      /\ server' = "booting" => runs'[p][i].by \in replay'
    BY <1>1 DEF OpenRuns
  <2>1. ~(i \in DOMAIN runs[p])
    <3> SUFFICES ASSUME i \in DOMAIN runs[p] PROVE FALSE
      OBVIOUS
    <3>1. runs'[p][i] = runs[p][i]
      BY <1>5, <1>6
    <3> QED
      BY <1>1, <3>1, OpenRunIsHere
  <2>2. p = Here /\ i = Len(runs[Here]) + 1
    BY <1>2, <1>5, <1>6, <1>8, <2>1
  <2>3. i = Len(runs'[p]) /\ runs'[p][i].by = job
    BY <1>6, <2>2
  <2>4. /\ job \in DOMAIN journal /\ journal[job].state \in LiveStates
        /\ journal[job].pursuit = Here
    BY <1>2, IdFacts DEF IInv, Lane, Queueing, Agreement, LiveStates, Here
  <2> QED
    BY <1>1, <1>4, <2>2, <2>3, <2>4 DEF WorkerRest
<1>12. Guarding'
  <2>1. WorkerGuarded'
    BY <1>1, <1>2, <1>3, <1>4, <1>5, <1>6 DEF WorkerGuarded, WorkerRest
  <2> QED
    BY <1>1, <1>2, <1>3, <1>6, <1>7, <2>1, WorkerGuarding DEF IInv
<1> QED
  BY <1>9, <1>10, <1>11, <1>12 DEF IInv

\* The run the worker has open gets its footer.
LEMMA EndedHere ==
    ASSUME IInv, worker \in {"run", "commit"}
    PROVE  /\ Ended(Here) \in Logs
           /\ \A p \in Pursuits : /\ Len(Ended(Here)[p]) = Len(runs[p])
                                  /\ Len(Ended(Here)[p]) <= MaxRuns
                                  /\ DOMAIN Ended(Here)[p] = DOMAIN runs[p]
           /\ \A p \in Pursuits : p # Here => Ended(Here)[p] = runs[p]
           /\ \A p \in Pursuits : \A i \in DOMAIN runs[p] :
                Ended(Here)[p][i] = runs[p][i] \/ Ended(Here)[p][i].status # "open"
           /\ Ended(Here)[Here][Len(runs[Here])].status # "open"
<1>1. runs \in Logs /\ Here \in Pursuits /\ runs[Here] # <<>>
  BY HereFacts DEF IInv, Shape, Guarding, WorkerGuarded, BusyPCs, HoldingPCs
<1>2. \A p \in Pursuits : Len(runs[p]) <= MaxRuns /\ DOMAIN runs[p] = 1..Len(runs[p])
  BY DEF IInv, Shape, TypeOK, Logs
<1>3. /\ Ended(Here) \in Logs
      /\ \A p \in Pursuits : Len(Ended(Here)[p]) = Len(runs[p])
      /\ \A p \in Pursuits : p # Here => Ended(Here)[p] = runs[p]
      /\ Ended(Here)[Here][Len(runs[Here])].status = "ended"
      /\ \A p \in Pursuits : \A i \in 1..Len(runs[p]) :
           \/ Ended(Here)[p][i] = runs[p][i]
           \/ /\ p = Here /\ i = Len(runs[Here])
              /\ Ended(Here)[p][i].by = runs[p][i].by /\ Ended(Here)[p][i].status = "ended"
  BY <1>1, EndedFacts
<1>4. \A p \in Pursuits : DOMAIN Ended(Here)[p] = 1..Len(Ended(Here)[p])
  BY <1>3 DEF Logs
<1> QED
  BY <1>2, <1>3, <1>4

\* A stage of an advance ends its run.
LEMMA EndStageKeeps == IInv /\ EndStage => IInv'
<1> SUFFICES ASSUME IInv, EndStage PROVE IInv'
  OBVIOUS
<1>1. /\ WorkerRest /\ UNCHANGED <<registry, guard, minted, outcome, completed, faults>>
      /\ server = "up" /\ worker = "run" /\ worker' = "target" /\ runs' = Ended(Here)
  BY DEF EndStage, WorkerRest
<1>2. Here \in Pursuits /\ Here' = Here
  BY <1>1, HereFacts DEF IInv, BusyPCs, HoldingPCs, Here, WorkerRest
<1>3. Shape'
  BY <1>1, EndedHere, WorkerShape DEF IInv, Shape, TypeOK, BusyPCs, HoldingPCs, WorkerPCs
<1>4. Lane'
  BY <1>1, WorkerLane DEF HoldingPCs
<1>5. OpenRuns'
  BY <1>1, EndedHere, WorkerOpenRuns
<1>6. guard[Here] = Worker
  BY <1>1 DEF IInv, Guarding, WorkerGuarded, HoldingPCs
<1>7. Guarding'
  <2>1. WorkerGuarded'
    BY <1>1, <1>2, <1>6 DEF WorkerGuarded
  <2> QED
    BY <1>1, <1>2, <1>6, <2>1, EndedHere, WorkerGuarding DEF IInv
<1> QED
  BY <1>3, <1>4, <1>5, <1>7 DEF IInv

\* A worker that is past its runs keeps nothing of them: the guard may go.
LEMMA WorkerLeaves ==
    ASSUME IInv, worker \in HoldingPCs, WorkerRest, UNCHANGED minted,
           worker' \in {"close", "finish"}, Here' = Here,
           \/ guard' = [guard EXCEPT ![Here] = NoOne] /\ worker' = "finish"
           \/ UNCHANGED guard,
           \A q \in Pursuits : q # Here => runs'[q] = runs[q]
    PROVE  /\ guard' \in [Pursuits -> Holders \cup {NoOne}]
           /\ Guarding'
<1>1. /\ Here \in Pursuits /\ guard[Here] = Worker
      /\ guard \in [Pursuits -> Holders \cup {NoOne}]
  BY HereFacts DEF IInv, BusyPCs, Shape, TypeOK, Guarding, WorkerGuarded
<1>2. /\ guard' \in [Pursuits -> Holders \cup {NoOne}]
      /\ \A q \in Pursuits : q # Here => guard'[q] = guard[q]
  BY <1>1
<1>3. WorkerGuarded'
  BY <1>1 DEF WorkerGuarded, HoldingPCs
<1> QED
  BY <1>1, <1>2, <1>3, WorkerGuarding DEF IInv

\* The poll between two sections goes on, or ends the round and its run.
LEMMA PollKeeps == IInv /\ Poll => IInv'
<1> SUFFICES ASSUME IInv, Poll PROVE IInv'
  OBVIOUS
<1>1. /\ WorkerRest /\ UNCHANGED <<registry, minted, completed, faults>>
      /\ server = "up" /\ worker = "run"
  BY DEF Poll, WorkerRest
<1>2. Here \in Pursuits /\ Here' = Here
  BY <1>1, HereFacts DEF IInv, BusyPCs, HoldingPCs, Here, WorkerRest
<1>3. Lane'
  BY <1>1, WorkerLane DEF HoldingPCs, Poll
<1>4. CASE worker' = "commit"
  <2>1. UNCHANGED <<runs, outcome, guard>>
    BY <1>4 DEF Poll
  <2>2. Shape'
    BY <1>1, <1>4, <2>1, WorkerShape DEF IInv, Shape, TypeOK, BusyPCs, HoldingPCs, WorkerPCs
  <2>3. OpenRuns'
    BY <1>1, <1>4, <2>1, WorkerOpenRuns
  <2>4. Guarding'
    BY <1>1, <1>2, <1>4, <2>1, WorkerGuarding DEF IInv, Guarding, WorkerGuarded, HoldingPCs, WorkerRest
  <2> QED
    BY <1>3, <2>2, <2>3, <2>4 DEF IInv
<1>5. CASE worker' = "finish"
  <2>1. /\ runs' = Ended(Here) /\ outcome' = "stopped" /\ guard' = [guard EXCEPT ![Here] = NoOne]
    BY <1>5 DEF Poll
  <2>2. guard' \in [Pursuits -> Holders \cup {NoOne}] /\ Guarding'
    BY <1>1, <1>2, <1>5, <2>1, EndedHere, WorkerLeaves DEF HoldingPCs
  <2>3. Shape'
    BY <1>1, <1>5, <2>1, <2>2, EndedHere, WorkerShape DEF IInv, Shape, TypeOK, BusyPCs, HoldingPCs, WorkerPCs
  <2>4. OpenRuns'
    BY <1>1, <2>1, EndedHere, WorkerOpenRuns
  <2> QED
    BY <1>3, <2>2, <2>3, <2>4 DEF IInv
<1> QED
  BY <1>4, <1>5 DEF Poll

\* The target returns done and gives the guard back.
LEMMA ReturnKeeps == IInv /\ Return => IInv'
<1> SUFFICES ASSUME IInv, Return PROVE IInv'
  OBVIOUS
<1>1. /\ WorkerRest /\ UNCHANGED <<registry, minted, faults>>
      /\ server = "up" /\ worker \in {"target", "commit"} /\ worker' = "finish"
      /\ outcome' = "done" /\ completed' = completed \cup {job}
      /\ guard' = [guard EXCEPT ![Here] = NoOne]
      /\ \/ worker = "target" /\ UNCHANGED runs
         \/ worker = "commit" /\ runs' = Ended(Here)
  BY DEF Return, WorkerRest
<1>2. Here \in Pursuits /\ Here' = Here /\ job \in Ids
  BY <1>1, HereFacts DEF IInv, BusyPCs, HoldingPCs, Here, WorkerRest
<1>3. Lane'
  BY <1>1, WorkerLane DEF HoldingPCs
<1>4. guard' \in [Pursuits -> Holders \cup {NoOne}] /\ Guarding'
  BY <1>1, <1>2, EndedHere, WorkerLeaves DEF HoldingPCs
<1>5. Shape'
  BY <1>1, <1>2, <1>4, EndedHere, WorkerShape DEF IInv, Shape, TypeOK, BusyPCs, HoldingPCs, WorkerPCs
<1>6. OpenRuns'
  BY <1>1, EndedHere, WorkerOpenRuns
<1> QED
  BY <1>3, <1>4, <1>5, <1>6 DEF IInv

\* The target raises, with its run open or, of a refused round, ended.
LEMMA RaiseKeeps == IInv /\ Raise => IInv'
<1> SUFFICES ASSUME IInv, Raise PROVE IInv'
  OBVIOUS
<1>1. /\ WorkerRest /\ UNCHANGED <<registry, minted, completed, guard, faults>>
      /\ server = "up" /\ worker \in {"target", "run", "commit"} /\ worker' = "close"
      /\ outcome' \in {"refused", "error"}
      /\ \/ UNCHANGED runs
         \/ worker \in {"run", "commit"} /\ runs' = Ended(Here)
  BY DEF Raise, WorkerRest
<1>2. Here \in Pursuits /\ Here' = Here
  BY <1>1, HereFacts DEF IInv, BusyPCs, HoldingPCs, Here, WorkerRest
<1>3. Lane'
  BY <1>1, WorkerLane DEF HoldingPCs
<1>4. guard' \in [Pursuits -> Holders \cup {NoOne}] /\ Guarding'
  BY <1>1, <1>2, EndedHere, WorkerLeaves DEF HoldingPCs
<1>5. Shape'
  BY <1>1, <1>2, <1>4, EndedHere, WorkerShape DEF IInv, Shape, TypeOK, BusyPCs, HoldingPCs, WorkerPCs
<1>6. OpenRuns'
  BY <1>1, EndedHere, WorkerOpenRuns
<1> QED
  BY <1>3, <1>4, <1>5, <1>6 DEF IInv

\* The job lane closes what the target left open, or reports that it cannot.
LEMMA CloseOpenRunKeeps == IInv /\ CloseOpenRun => IInv'
<1> SUFFICES ASSUME IInv, CloseOpenRun PROVE IInv'
  OBVIOUS
<1>1. /\ WorkerRest /\ UNCHANGED <<minted, completed, outcome>>
      /\ server = "up" /\ worker = "close" /\ worker' = "finish"
      /\ guard' = [guard EXCEPT ![Here] = NoOne]
      /\ \/ /\ runs' = ClosedOpen(Here) /\ UNCHANGED faults
            /\ registry' = [registry EXCEPT ![job].run = Len(runs[Here])]
         \/ /\ UNCHANGED <<runs, registry>>
            /\ faults < MaxFaults /\ faults' = faults + 1
  BY DEF CloseOpenRun, WorkerRest
<1>2. /\ Here \in Pursuits /\ job \in DOMAIN registry /\ job # 0
      /\ registry[job] \in Job /\ registry[job].state = "running"
      /\ runs \in Logs /\ Len(runs[Here]) \in 0..MaxRuns
      /\ \A p \in Pursuits : Len(runs[p]) <= MaxRuns /\ DOMAIN runs[p] = 1..Len(runs[p])
  <2>1. /\ Here \in Pursuits /\ job \in DOMAIN registry /\ job # 0
        /\ registry[job] \in Job /\ registry[job].state = "running"
    BY <1>1, HereFacts, IdFacts DEF IInv, BusyPCs, HoldingPCs
  <2>2. runs \in Logs /\ \A p \in Pursuits : Len(runs[p]) <= MaxRuns
    BY DEF IInv, Shape, TypeOK
  <2>3. \A p \in Pursuits : Len(runs[p]) \in Nat /\ DOMAIN runs[p] = 1..Len(runs[p])
    BY <2>2 DEF Logs
  <2> QED
    BY <2>1, <2>2, <2>3, BoundAssumption
<1>3. /\ registry' \in [DOMAIN registry -> Job] /\ DOMAIN registry' = DOMAIN registry
      /\ \A j \in DOMAIN registry : /\ registry'[j].pursuit = registry[j].pursuit
                                    /\ registry'[j].kind = registry[j].kind
                                    /\ registry'[j].state = registry[j].state
  <2> DEFINE named == [registry[job] EXCEPT !.run = Len(runs[Here])]
  <2>1. /\ named \in Job /\ named.pursuit = registry[job].pursuit
        /\ named.kind = registry[job].kind /\ named.state = registry[job].state
    BY <1>2 DEF Job
  <2>2. registry \in [DOMAIN registry -> Job]
    BY DEF IInv, Shape
  <2>3. CASE registry' = [registry EXCEPT ![job] = named]
    <3> HIDE DEF named
    <3> QED
      BY <1>2, <2>1, <2>2, <2>3
  <2>4. CASE UNCHANGED registry
    BY <2>2, <2>4
  <2> QED
    BY <1>1, <2>3, <2>4
<1>4. Here' = Here
  BY <1>1, <1>2, <1>3 DEF Here, WorkerRest
<1>5. /\ runs' \in Logs
      /\ \A p \in Pursuits : Len(runs'[p]) = Len(runs[p]) /\ Len(runs'[p]) <= MaxRuns
      /\ \A p \in Pursuits : p # Here => runs'[p] = runs[p]
      /\ \A p \in Pursuits : \A i \in 1..Len(runs[p]) :
           runs'[p][i] = runs[p][i] \/ runs'[p][i].status # "open"
      /\ faults' = faults => (runs[Here] # <<>> => runs'[Here][Len(runs[Here])].status # "open")
  <2>1. CASE runs' = ClosedOpen(Here)
    <3>1. \A p \in Pursuits : p # Here => ClosedOpen(Here)[p] = runs[p]
      BY <1>2 DEF ClosedOpen, Closed, Logs
    <3> QED
      BY <1>2, <2>1, <3>1, ClosedOpenFacts
  <2>2. CASE UNCHANGED runs /\ faults' = faults + 1
    BY <1>2, <2>2 DEF IInv, Shape, TypeOK
  <2> QED
    BY <1>1, <2>1, <2>2
<1>6. Lane'
  BY <1>1, <1>3, WorkerLane DEF HoldingPCs, IInv, Lane, Quiet
<1>7. guard' \in [Pursuits -> Holders \cup {NoOne}] /\ Guarding'
  BY <1>1, <1>4, <1>5, WorkerLeaves DEF HoldingPCs
<1>8. Shape'
  <2>1. \A p \in Pursuits : Range(runs'[p]) \subseteq Run
    BY <1>5 DEF Logs, Range
  <2>2. faults' \in 0..MaxFaults
    BY <1>1 DEF IInv, Shape, TypeOK
  <2> QED
    BY <1>1, <1>2, <1>3, <1>5, <1>7, <2>1, <2>2 DEF IInv, Shape, TypeOK, WorkerRest, WorkerPCs
<1>9. OpenRuns'
  <2>1. CASE faults' = faults + 1
    BY <2>1 DEF OpenRuns, IInv, Shape, TypeOK
  <2>2. CASE UNCHANGED faults
    <3>1. \A p \in Pursuits : DOMAIN runs'[p] = DOMAIN runs[p]
      BY <1>2, <1>5 DEF Logs
    <3>2. CASE runs[Here] = <<>>
      <4>1. \A p \in Pursuits : \A i \in DOMAIN runs[p] :
              faults = 0 /\ runs[p][i].status = "open" => runs[p][i].by = Route
        BY <1>1, <1>2, <3>2, OpenRunIsHere
      <4> QED
        BY <1>5, <2>2, <3>1, <4>1, <1>2 DEF OpenRuns
    <3>3. CASE runs[Here] # <<>>
      BY <1>1, <1>2, <1>5, <2>2, <3>1, <3>3, WorkerOpenRuns
    <3> QED
      BY <3>2, <3>3
  <2> QED
    BY <1>1, <2>1, <2>2
<1> QED
  BY <1>6, <1>7, <1>8, <1>9 DEF IInv

-----------------------------------------------------------------------------
(* The registry, the journal and the queue                                 *)

\* What the append of one line does to the journal.
LEMMA JournalFacts ==
    ASSUME Shape, NEW j \in Ids, NEW rec \in Job, Journal(j, rec)
    PROVE  /\ journal' \in [DOMAIN journal' -> Job] /\ DOMAIN journal' = DOMAIN journal \cup {j}
           /\ \A i \in DOMAIN journal : i # j => journal'[i] = journal[i]
           /\ journal'[j].pursuit = rec.pursuit /\ journal'[j].kind = rec.kind
           /\ journal'[j].state = rec.state
           /\ UNCHANGED <<torn, faults>>
<1> DEFINE line == [rec EXCEPT !.cancel = FALSE]
<1>1. /\ line \in Job /\ line.pursuit = rec.pursuit /\ line.kind = rec.kind
      /\ line.state = rec.state
  BY DEF Job
<1>2. journal' = With(journal, j, line) /\ UNCHANGED <<torn, faults>>
  BY DEF Journal
<1>3. journal \in [DOMAIN journal -> Job]
  BY DEF Shape
<1> HIDE DEF line
<1> QED
  BY <1>1, <1>2, <1>3 DEF With

\* An append that raises leaves the lines and may leave half of one.
LEMMA JournalFailsFacts ==
    ASSUME Shape, JournalFails
    PROVE  /\ UNCHANGED journal /\ torn' \in BOOLEAN /\ faults' \in 0..MaxFaults
           /\ faults' = 0 => faults = 0
<1>1. torn \in BOOLEAN /\ faults \in 0..MaxFaults
  BY DEF Shape, TypeOK
<1>2. torn' \in {torn, TRUE} /\ UNCHANGED journal
  BY DEF JournalFails
<1>3. torn' \in BOOLEAN
  BY <1>1, <1>2
<1>4. UNCHANGED faults \/ (faults < MaxFaults /\ faults' = faults + 1)
  BY DEF JournalFails
<1>5. faults' \in 0..MaxFaults /\ (faults' = 0 => faults = 0)
  BY <1>1, <1>4
<1> QED
  BY <1>2, <1>3, <1>5

\* The state of one job of the registry is set.
LEMMA BadgeFacts ==
    ASSUME Shape, NEW j \in DOMAIN registry, NEW state \in LiveStates \cup EndStates
    PROVE  /\ [registry[j] EXCEPT !.state = state] \in Job
           /\ [registry[j] EXCEPT !.state = state].pursuit = registry[j].pursuit
           /\ [registry[j] EXCEPT !.state = state].kind = registry[j].kind
           /\ [registry[j] EXCEPT !.state = state].state = state
<1>1. registry[j] \in Job
  BY DEF Shape
<1> QED
  BY <1>1 DEF Job

\* Who holds what depends on the job of a holding worker only.
LEMMA GuardingFrame ==
    ASSUME Guarding, UNCHANGED <<guard, thread, minted, runs>>,
           worker' \in HoldingPCs => worker' = worker /\ job' = job /\ Here' = Here
    PROVE  Guarding'
BY DEF Guarding, WorkerGuarded, ThreadGuarded, HoldingPCs, On, Fresh

\* The runs stand and the line of the worker's job does.
LEMMA OpenRunsJournal ==
    ASSUME IInv, server = "up", UNCHANGED <<runs, server, replay>>, faults' = 0 => faults = 0,
           \/ worker \notin {"run", "commit", "close"}
           \/ /\ UNCHANGED <<worker, job>>
              /\ job \in DOMAIN journal => job \in DOMAIN journal' /\ journal'[job] = journal[job]
    PROVE  OpenRuns'
<1> SUFFICES ASSUME faults = 0, NEW p \in Pursuits, NEW i \in DOMAIN runs[p],
                    runs[p][i].status = "open", runs[p][i].by # Route
             PROVE  /\ i = Len(runs[p])
                    /\ runs[p][i].by \in DOMAIN journal'
                    /\ journal'[runs[p][i].by].state \in LiveStates
                    /\ journal'[runs[p][i].by].pursuit = p
                    /\ server = "up" => /\ runs[p][i].by = job'
                                        /\ worker' \in {"run", "commit", "close"}
                    /\ server = "booting" => runs[p][i].by \in replay
  BY DEF OpenRuns
<1>1. runs[p][i].by = job /\ worker \in {"run", "commit", "close"}
  BY OpenRunIsHere
<1> QED
  BY <1>1 DEF IInv, OpenRuns

\* A new id is above every id of the registry.
LEMMA NextIdFresh ==
    ASSUME Shape, Numbered, NextId \in Ids
    PROVE  NextId \notin DOMAIN registry /\ \A j \in DOMAIN registry : j <= NextId
<1>1. DOMAIN registry \subseteq Nat
  BY IdFacts DEF Shape, TypeOK
<1>2. CASE registry = <<>>
  BY <1>2
<1>3. CASE registry # <<>>
  <2> DEFINE IsTop(m) == m \in DOMAIN registry /\ \A i \in DOMAIN registry : i <= m
             top == CHOOSE m \in DOMAIN registry : \A i \in DOMAIN registry : i <= m
  <2>1. IsTop(top)
    BY <1>3 DEF Numbered
  <2>2. NextId = 1 + top
    BY <1>3 DEF NextId
  <2> QED
    BY <1>1, <2>1, <2>2
<1> QED
  BY <1>2, <1>3

\* submit: a fresh id, queued, before its line is written.
LEMMA SubmitKeeps ==
    ASSUME IInv, NEW p \in Pursuits, NEW kind \in Kinds, Submit(p, kind)
    PROVE  IInv'
<1> DEFINE rec == [pursuit |-> p, kind |-> kind, state |-> "queued", cancel |-> FALSE, run |-> 0]
<1>1. /\ server = "up" /\ NextId \in Ids /\ adding' = NextId
      /\ registry' = With(registry, NextId, rec)
      /\ UNCHANGED <<durable, unput, queue, worker, job, outcome, minted, guard, thread, asking,
                     server, replay, completed, crashes, faults>>
  BY DEF Submit
<1>2. NextId \notin DOMAIN registry /\ \A j \in DOMAIN registry : j <= NextId
  BY <1>1, NextIdFresh DEF IInv, Lane
<1>3. rec \in Job /\ rec.state = "queued"
  BY DEF Job, LiveStates
<1> HIDE DEF rec
<1>4. /\ registry' \in [DOMAIN registry \cup {NextId} -> Job]
      /\ DOMAIN registry' = DOMAIN registry \cup {NextId} /\ registry'[NextId] = rec
      /\ \A j \in DOMAIN registry : registry'[j] = registry[j]
  <2>1. registry \in [DOMAIN registry -> Job]
    BY DEF IInv, Shape
  <2> QED
    BY <1>1, <1>2, <1>3, <2>1 DEF With
<1>5. DOMAIN registry \subseteq Ids /\ NextId \in Nat /\ NextId # 0 /\ DOMAIN journal \subseteq DOMAIN registry
  BY <1>1, IdFacts DEF IInv, Shape, TypeOK, Lane, Agreement
<1>6. Shape'
  <2>1. job' # 0 => registry'[job'] = registry[job]
    BY <1>1, <1>4 DEF IInv, Shape, TypeOK
  <2> QED
    BY <1>1, <1>4, <1>5, <2>1 DEF IInv, Shape, TypeOK, durable
<1>7. Quiet' /\ Numbered'
  BY <1>1, <1>2, <1>4, <1>5 DEF IInv, Lane, Quiet, Numbered, durable
<1>8. Queueing'
  <2>1. Waiting \subseteq DOMAIN registry /\ (job # 0 => job \in DOMAIN registry)
    BY DEF IInv, Shape, TypeOK, Waiting
  <2> QED
    BY <1>1, <1>2, <1>3, <1>4, <1>5, <2>1 DEF IInv, Lane, Queueing, Waiting, durable
<1>9. Agreement' /\ Past'
  BY <1>1, <1>2, <1>4, <1>5 DEF IInv, Lane, Agreement, Past, durable
<1>10. Guarding'
  <2>1. worker \in HoldingPCs => Here' = Here
    BY <1>1, <1>4, HereFacts DEF IInv, BusyPCs, Here
  <2> QED
    BY <1>1, <2>1, GuardingFrame DEF IInv, durable
<1>11. OpenRuns'
  BY <1>1, OpenRunsFrame DEF IInv, durable
<1> QED
  BY <1>6, <1>7, <1>8, <1>9, <1>10, <1>11 DEF IInv, Lane

\* A job that is put on the queue is on it once.
LEMMA AppendFacts ==
    ASSUME queue \in Seq(Ids), IsInjective(queue), NEW j \in Ids, j \notin Range(queue)
    PROVE  /\ Append(queue, j) \in Seq(Ids) /\ IsInjective(Append(queue, j))
           /\ Range(Append(queue, j)) = Range(queue) \cup {j}
<1> DEFINE q == Append(queue, j)
<1>1. /\ q \in Seq(Ids) /\ Len(queue) \in Nat /\ DOMAIN queue = 1..Len(queue)
      /\ DOMAIN q = 1..(Len(queue) + 1) /\ q[Len(queue) + 1] = j
      /\ \A i \in 1..Len(queue) : q[i] = queue[i]
  OBVIOUS
<1> HIDE DEF q
<1>2. \A i \in 1..Len(queue) : queue[i] # j
  BY <1>1 DEF Range
<1>3. IsInjective(q)
  BY <1>1, <1>2 DEF IsInjective
<1>4. Range(q) = Range(queue) \cup {j}
  BY <1>1 DEF Range
<1> QED
  BY <1>1, <1>3, <1>4 DEF q

\* The job that is taken off the queue is on it no more.
LEMMA TailFacts ==
    ASSUME queue \in Seq(Ids), IsInjective(queue), queue # <<>>
    PROVE  /\ Tail(queue) \in Seq(Ids) /\ IsInjective(Tail(queue))
           /\ Head(queue) \in Range(queue)
           /\ Range(Tail(queue)) = Range(queue) \ {Head(queue)}
<1> DEFINE q == Tail(queue)
<1>1. /\ q \in Seq(Ids) /\ Len(queue) \in Nat /\ Len(queue) > 0 /\ DOMAIN queue = 1..Len(queue)
      /\ DOMAIN q = 1..(Len(queue) - 1) /\ \A i \in 1..(Len(queue) - 1) : q[i] = queue[i + 1]
      /\ Head(queue) = queue[1]
  OBVIOUS
<1> HIDE DEF q
<1>2. IsInjective(q)
  <2> SUFFICES ASSUME NEW a \in DOMAIN q, NEW b \in DOMAIN q, q[a] = q[b] PROVE a = b
    BY DEF IsInjective
  <2>1. a + 1 \in DOMAIN queue /\ b + 1 \in DOMAIN queue /\ queue[a + 1] = queue[b + 1]
    BY <1>1
  <2>2. a + 1 = b + 1
    BY <2>1 DEF IsInjective
  <2> QED
    BY <1>1, <2>2
<1>3. Head(queue) \in Range(queue)
  BY <1>1 DEF Range
<1>4. ASSUME NEW x \in Range(q) PROVE x \in Range(queue) /\ x # queue[1]
  BY <1>1 DEF Range, IsInjective
<1>5. ASSUME NEW x \in Range(queue), x # queue[1] PROVE x \in Range(q)
  <2>1. PICK i \in 1..Len(queue) : x = queue[i]
    BY <1>1 DEF Range
  <2>2. i - 1 \in 1..(Len(queue) - 1) /\ (i - 1) + 1 = i
    BY <1>1, <1>5, <2>1
  <2>3. q[i - 1] = queue[i]
    BY <1>1, <2>2
  <2> QED
    BY <1>1, <2>1, <2>2, <2>3 DEF Range
<1>6. Range(q) = Range(queue) \ {queue[1]}
  BY <1>4, <1>5
<1> QED
  BY <1>1, <1>2, <1>3, <1>6 DEF q

\* The line of a new job lands and the job may be put, or the append raises.
LEMMA SubmitJournalKeeps == IInv /\ SubmitJournal => IInv'
<1> SUFFICES ASSUME IInv, SubmitJournal PROVE IInv'
  OBVIOUS
<1>1. /\ server = "up" /\ adding \in DOMAIN registry \ DOMAIN journal /\ adding \in Ids
      /\ registry[adding] \in Job /\ registry[adding].state = "queued" /\ adding' = 0
      /\ UNCHANGED <<registry, queue, worker, job, outcome, minted, guard, thread, asking,
                     runs, server, replay, completed, crashes>>
  BY DEF SubmitJournal, IInv, Lane, Queueing, Shape, TypeOK
<1>2. Guarding' /\ Numbered'
  BY <1>1, GuardingFrame DEF IInv, Here, Lane, Numbered
<1>3. CASE Journal(adding, registry[adding]) /\ unput' = unput \cup {adding}
  <2>1. /\ journal' \in [DOMAIN journal' -> Job] /\ DOMAIN journal' = DOMAIN journal \cup {adding}
        /\ \A i \in DOMAIN journal : i # adding => journal'[i] = journal[i]
        /\ journal'[adding].pursuit = registry[adding].pursuit
        /\ journal'[adding].kind = registry[adding].kind
        /\ journal'[adding].state = "queued"
        /\ UNCHANGED <<torn, faults>>
    BY <1>1, <1>3, JournalFacts DEF IInv
  <2>2. Shape'
    BY <1>1, <1>3, <2>1 DEF IInv, Shape, TypeOK
  <2>3. Quiet'
    BY <1>1 DEF IInv, Lane, Quiet
  <2>4. Queueing'
    BY <1>1, <1>3, <2>1 DEF IInv, Lane, Queueing, Waiting
  <2>5. Agreement' /\ Past'
    BY <1>1, <2>1 DEF IInv, Lane, Agreement, Past, LiveStates
  <2>6. OpenRuns'
    BY <1>1, <2>1, OpenRunsJournal
  <2> QED
    BY <1>2, <2>2, <2>3, <2>4, <2>5, <2>6 DEF IInv, Lane
<1>4. CASE JournalFails /\ UNCHANGED unput
  <2>1. /\ UNCHANGED journal /\ torn' \in BOOLEAN /\ faults' \in 0..MaxFaults
        /\ faults' = 0 => faults = 0
    BY <1>4, JournalFailsFacts DEF IInv
  <2>2. Shape'
    BY <1>1, <1>4, <2>1 DEF IInv, Shape, TypeOK
  <2>3. Quiet' /\ Queueing'
    BY <1>1, <1>4, <2>1 DEF IInv, Lane, Quiet, Queueing, Waiting
  <2>4. Agreement' /\ Past'
    BY <1>1, <2>1 DEF IInv, Lane, Agreement, Past
  <2>5. OpenRuns'
    BY <1>1, <2>1, OpenRunsJournal
  <2> QED
    BY <1>2, <2>2, <2>3, <2>4, <2>5 DEF IInv, Lane
<1> QED
  BY <1>3, <1>4 DEF SubmitJournal

\* A journaled job is put on the queue.
LEMMA PutKeeps == ASSUME IInv, NEW j \in Ids, Put(j) PROVE IInv'
<1>1. /\ server = "up" /\ j \in unput /\ unput' = unput \ {j} /\ queue' = Append(queue, j)
      /\ UNCHANGED <<durable, registry, adding, worker, job, outcome, minted, guard, thread, asking,
                     server, replay, completed, crashes, faults>>
  BY DEF Put
<1>2. j \notin Range(queue)
  BY <1>1 DEF IInv, Lane, Queueing
<1>3. queue' \in Seq(Ids) /\ IsInjective(queue') /\ Range(queue') = Range(queue) \cup {j}
  BY <1>1, <1>2, AppendFacts DEF IInv, Shape, TypeOK
<1>4. Waiting' = Waiting
  BY <1>1, <1>3 DEF Waiting
<1>5. Shape'
  BY <1>1, <1>3 DEF IInv, Shape, TypeOK, durable
<1>6. Lane'
  BY <1>1, <1>3, <1>4 DEF IInv, Lane, Quiet, Numbered, Queueing, Agreement, Past, durable
<1>7. Guarding'
  BY <1>1, GuardingFrame DEF IInv, durable, Here
<1>8. OpenRuns'
  BY <1>1, OpenRunsFrame DEF IInv, durable
<1> QED
  BY <1>5, <1>6, <1>7, <1>8 DEF IInv

\* A cancel request that passed its check.
LEMMA CancelCheckKeeps == ASSUME IInv, NEW j \in Ids, CancelCheck(j) PROVE IInv'
<1>1. /\ server = "up" /\ j \in DOMAIN registry /\ asking' = j
      /\ UNCHANGED <<durable, registry, adding, unput, queue, worker, job, outcome, minted, guard,
                     thread, server, replay, completed, crashes, faults>>
  BY DEF CancelCheck
<1>2. Shape'
  BY <1>1 DEF IInv, Shape, TypeOK, durable
<1>3. Lane'
  BY <1>1, LaneFrame DEF IInv, durable
<1>4. Guarding'
  BY <1>1, GuardingFrame DEF IInv, durable, Here
<1>5. OpenRuns'
  BY <1>1, OpenRunsFrame DEF IInv, durable
<1> QED
  BY <1>2, <1>3, <1>4, <1>5 DEF IInv

\* The cancel flag of one job changes nothing else of it.
LEMMA CancelSetKeeps == ASSUME IInv, NEW j \in Ids, CancelSet(j) PROVE IInv'
<1> DEFINE rec == [registry[j] EXCEPT !.cancel = TRUE]
<1>1. /\ server = "up" /\ asking = j /\ asking' = 0 /\ registry' = [registry EXCEPT ![j] = rec]
      /\ UNCHANGED <<durable, adding, unput, queue, worker, job, outcome, minted, guard,
                     thread, server, replay, completed, crashes, faults>>
  BY DEF CancelSet
<1>2. /\ j \in DOMAIN registry /\ registry \in [DOMAIN registry -> Job] /\ registry[j] \in Job
  BY <1>1, IdFacts DEF IInv, Shape, TypeOK
<1>3. /\ rec \in Job /\ rec.pursuit = registry[j].pursuit /\ rec.kind = registry[j].kind
      /\ rec.state = registry[j].state
  BY <1>2 DEF Job
<1> HIDE DEF rec
<1>4. /\ registry' \in [DOMAIN registry -> Job] /\ DOMAIN registry' = DOMAIN registry
      /\ \A i \in DOMAIN registry : /\ registry'[i].pursuit = registry[i].pursuit
                                    /\ registry'[i].kind = registry[i].kind
                                    /\ registry'[i].state = registry[i].state
  BY <1>1, <1>2, <1>3
<1>5. Shape'
  BY <1>1, <1>4 DEF IInv, Shape, TypeOK, durable
<1>6. Numbered'
  <2>1. \E m \in DOMAIN registry : \A i \in DOMAIN registry : i <= m
    BY <1>2 DEF IInv, Lane, Numbered
  <2> QED
    BY <1>4, <2>1 DEF Numbered
<1>7. Quiet' /\ Agreement' /\ Past'
  BY <1>1, <1>4 DEF IInv, Lane, Quiet, Agreement, Past, durable
<1>8. Queueing'
  <2>1. Waiting \subseteq DOMAIN registry /\ (job # 0 => job \in DOMAIN registry)
    BY DEF IInv, Shape, TypeOK, Waiting
  <2> QED
    BY <1>1, <1>4, <2>1 DEF IInv, Lane, Queueing, Waiting, durable
<1>9. Guarding'
  <2>1. worker \in HoldingPCs => Here' = Here
    BY <1>1, <1>4, HereFacts DEF IInv, BusyPCs, Here
  <2> QED
    BY <1>1, <2>1, GuardingFrame DEF IInv, durable
<1>10. OpenRuns'
  BY <1>1, OpenRunsFrame DEF IInv, durable
<1> QED
  BY <1>5, <1>6, <1>7, <1>8, <1>9, <1>10 DEF IInv, Lane

\* The new state of a journaled job lands in the registry, and in the journal
\* unless the append raises.
LEMMA StampFacts ==
    ASSUME Shape, NEW j \in DOMAIN registry, j \in DOMAIN journal,
           NEW state \in LiveStates \cup EndStates, NEW rec,
           rec = [registry[j] EXCEPT !.state = state],
           registry' = [registry EXCEPT ![j] = rec],
           Journal(j, rec) \/ JournalFails
    PROVE  /\ registry' \in [DOMAIN registry -> Job] /\ DOMAIN registry' = DOMAIN registry
           /\ \A i \in DOMAIN registry : i # j => registry'[i] = registry[i]
           /\ registry'[j].pursuit = registry[j].pursuit /\ registry'[j].kind = registry[j].kind
           /\ registry'[j].state = state
           /\ journal' \in [DOMAIN journal -> Job] /\ DOMAIN journal' = DOMAIN journal
           /\ \A i \in DOMAIN journal :
                \/ journal'[i] = journal[i]
                \/ /\ i = j /\ journal'[i].state = state
                   /\ journal'[i].pursuit = registry[j].pursuit
                   /\ journal'[i].kind = registry[j].kind
           /\ torn' \in BOOLEAN /\ faults' \in 0..MaxFaults /\ (faults' = 0 => faults = 0)
<1>1. /\ rec \in Job /\ rec.pursuit = registry[j].pursuit /\ rec.kind = registry[j].kind
      /\ rec.state = state
  BY BadgeFacts
<1>2. /\ j \in Ids /\ registry \in [DOMAIN registry -> Job] /\ journal \in [DOMAIN journal -> Job]
      /\ torn \in BOOLEAN /\ faults \in 0..MaxFaults
  BY DEF Shape, TypeOK
<1>3. /\ registry' \in [DOMAIN registry -> Job] /\ DOMAIN registry' = DOMAIN registry
      /\ \A i \in DOMAIN registry : i # j => registry'[i] = registry[i]
      /\ registry'[j] = rec
  BY <1>1, <1>2
<1>4. CASE Journal(j, rec)
  <2>1. /\ journal' \in [DOMAIN journal' -> Job] /\ DOMAIN journal' = DOMAIN journal \cup {j}
        /\ \A i \in DOMAIN journal : i # j => journal'[i] = journal[i]
        /\ journal'[j].pursuit = rec.pursuit /\ journal'[j].kind = rec.kind
        /\ journal'[j].state = rec.state
        /\ UNCHANGED <<torn, faults>>
    BY <1>1, <1>2, <1>4, JournalFacts
  <2>2. DOMAIN journal' = DOMAIN journal
    BY <2>1
  <2>3. torn' \in BOOLEAN
    BY <1>2, <2>1
  <2> QED
    BY <1>1, <1>2, <1>3, <2>1, <2>2, <2>3
<1>5. CASE JournalFails
  BY <1>1, <1>2, <1>3, <1>5, JournalFailsFacts
<1> QED
  BY <1>4, <1>5

\* The job at the head of the queue: journaled, queued, and not completed.
LEMMA TakenFacts ==
    ASSUME IInv, queue # <<>>, worker = "get"
    PROVE  /\ Taken \in DOMAIN registry /\ Taken \in DOMAIN journal /\ Taken \in Ids /\ Taken # 0
           /\ registry[Taken].state = "queued" /\ journal[Taken].state \in LiveStates
           /\ Taken \notin completed /\ job = 0 /\ Taken # adding
           /\ journal[Taken].pursuit = registry[Taken].pursuit
           /\ journal[Taken].kind = registry[Taken].kind
           /\ \A j \in DOMAIN registry : registry[j].state # "running"
           /\ Tail(queue) \in Seq(Ids) /\ IsInjective(Tail(queue))
           /\ unput \cup Range(Tail(queue)) = Waiting \ {Taken}
           /\ unput \cap Range(Tail(queue)) = {}
           /\ Range(Tail(queue)) \subseteq DOMAIN registry
<1>1. /\ Tail(queue) \in Seq(Ids) /\ IsInjective(Tail(queue)) /\ Taken \in Range(queue)
      /\ Range(Tail(queue)) = Range(queue) \ {Taken}
  BY TailFacts DEF IInv, Shape, TypeOK, Taken
<1>2. Taken \in DOMAIN registry /\ Taken \in Ids /\ Taken # 0 /\ Range(queue) \subseteq DOMAIN registry
  BY <1>1, IdFacts DEF IInv, Shape, TypeOK
<1>3. Taken \in DOMAIN journal /\ registry[Taken].state = "queued" /\ Taken # adding
  BY <1>1, IdFacts, <1>2 DEF IInv, Lane, Queueing, Waiting
<1>4. /\ journal[Taken].state \in LiveStates /\ Taken \notin completed
      /\ journal[Taken].pursuit = registry[Taken].pursuit
      /\ journal[Taken].kind = registry[Taken].kind
  BY <1>2, <1>3 DEF IInv, Lane, Agreement, Past, LiveStates
<1>5. job = 0 /\ \A j \in DOMAIN registry : registry[j].state # "running"
  BY IdFacts DEF IInv, Lane, Quiet, Queueing, Shape, TypeOK
<1>6. unput \cup Range(Tail(queue)) = Waiting \ {Taken} /\ unput \cap Range(Tail(queue)) = {}
  BY <1>1 DEF IInv, Lane, Queueing, Waiting
<1> QED
  BY <1>1, <1>2, <1>3, <1>4, <1>5, <1>6

\* The worker takes the head of the queue, to run it or to skip it.
LEMMA TakeKeeps ==
    ASSUME IInv, server = "up", worker = "get", queue # <<>>,
           NEW state \in {"running", "cancelled"}, NEW rec,
           rec = [registry[Taken] EXCEPT !.state = state],
           registry' = [registry EXCEPT ![Taken] = rec], Journal(Taken, rec) \/ JournalFails,
           queue' = Tail(queue), job' = IF state = "running" THEN Taken ELSE 0,
           worker' \in IF state = "running" THEN {"waiting", "dead"} ELSE {"get", "dead"},
           UNCHANGED <<adding, unput, outcome, minted, guard, thread, asking, runs, server, replay,
                       completed, crashes>>
    PROVE  IInv'
<1>1. /\ Taken \in DOMAIN registry /\ Taken \in DOMAIN journal /\ Taken \in Ids /\ Taken # 0
      /\ registry[Taken].state = "queued" /\ journal[Taken].state \in LiveStates
      /\ Taken \notin completed /\ job = 0 /\ Taken # adding
      /\ journal[Taken].pursuit = registry[Taken].pursuit
      /\ journal[Taken].kind = registry[Taken].kind
      /\ \A j \in DOMAIN registry : registry[j].state # "running"
      /\ Waiting' = Waiting \ {Taken} /\ unput' \cap Range(queue') = {}
      /\ queue' \in Seq(Ids) /\ IsInjective(queue') /\ Range(queue') \subseteq DOMAIN registry
  BY TakenFacts DEF Waiting
<1>2. /\ registry' \in [DOMAIN registry -> Job] /\ DOMAIN registry' = DOMAIN registry
      /\ \A i \in DOMAIN registry : i # Taken => registry'[i] = registry[i]
      /\ registry'[Taken].pursuit = registry[Taken].pursuit
      /\ registry'[Taken].kind = registry[Taken].kind
      /\ registry'[Taken].state = state
      /\ journal' \in [DOMAIN journal -> Job] /\ DOMAIN journal' = DOMAIN journal
      /\ \A i \in DOMAIN journal :
           \/ journal'[i] = journal[i]
           \/ /\ i = Taken /\ journal'[i].state = state
              /\ journal'[i].pursuit = registry[Taken].pursuit
              /\ journal'[i].kind = registry[Taken].kind
      /\ torn' \in BOOLEAN /\ faults' \in 0..MaxFaults /\ (faults' = 0 => faults = 0)
  <2>1. Shape /\ state \in LiveStates \cup EndStates
    BY DEF IInv, LiveStates, EndStates
  <2>2. Taken \in DOMAIN registry /\ Taken \in DOMAIN journal
    BY <1>1
  <2> QED
    BY ONLY <2>1, <2>2, StampFacts, rec = [registry[Taken] EXCEPT !.state = state],
       registry' = [registry EXCEPT ![Taken] = rec], Journal(Taken, rec) \/ JournalFails
<1>3. Shape'
  BY <1>1, <1>2 DEF IInv, Shape, TypeOK, WorkerPCs
<1>4. Quiet'
  BY <1>1, <1>2 DEF IInv, Lane, Quiet
<1>5. Numbered'
  <2>1. \E m \in DOMAIN registry : \A i \in DOMAIN registry : i <= m
    BY <1>1 DEF IInv, Lane, Numbered
  <2> QED
    BY <1>2, <2>1 DEF Numbered
<1>6. Queueing'
  <2>1. Waiting \subseteq DOMAIN registry
    BY DEF IInv, Shape, TypeOK, Waiting
  <2>2. /\ adding' # 0 => adding' \in DOMAIN registry' \ DOMAIN journal'
                          /\ registry'[adding'].state = "queued"
        /\ \A j \in Waiting' : j \in DOMAIN journal' /\ registry'[j].state = "queued"
    BY <1>1, <1>2, <2>1 DEF IInv, Lane, Queueing
  <2>3. CASE state = "running"
    BY <1>1, <1>2, <2>2, <2>3 DEF Queueing
  <2>4. CASE state = "cancelled"
    BY <1>1, <1>2, <2>2, <2>4 DEF Queueing
  <2> QED
    BY <2>3, <2>4
<1>7. Agreement'
  BY <1>1, <1>2 DEF IInv, Lane, Agreement, LiveStates
<1>8. Past'
  BY <1>1, <1>2 DEF IInv, Lane, Past
<1>9. Guarding'
  BY GuardingFrame DEF IInv, HoldingPCs
<1>10. OpenRuns'
  BY <1>2, OpenRunsJournal
<1> QED
  BY <1>3, <1>4, <1>5, <1>6, <1>7, <1>8, <1>9, <1>10 DEF IInv, Lane

\* A job cancelled in the queue is skipped.
LEMMA SkipCancelledKeeps == IInv /\ SkipCancelled => IInv'
<1> SUFFICES ASSUME IInv, SkipCancelled PROVE IInv'
  OBVIOUS
<1> DEFINE rec == [registry[Taken] EXCEPT !.state = "cancelled"]
<1>1. job = 0
  BY DEF IInv, Lane, Quiet, SkipCancelled
<1>2. /\ server = "up" /\ worker = "get" /\ queue # <<>> /\ queue' = Tail(queue) /\ job' = 0
      /\ registry' = [registry EXCEPT ![Taken] = rec]
      /\ (Journal(Taken, rec) \/ JournalFails) /\ worker' \in {"get", "dead"}
      /\ UNCHANGED <<adding, unput, outcome, minted, guard, thread, asking, runs, server, replay,
                     completed, crashes>>
  BY <1>1 DEF SkipCancelled, Finish
<1> HIDE DEF rec
<1>3. rec = [registry[Taken] EXCEPT !.state = "cancelled"]
  BY DEF rec
<1> QED
  BY <1>2, <1>3, TakeKeeps

\* The head of the queue is started.
LEMMA StartKeeps == IInv /\ Start => IInv'
<1> SUFFICES ASSUME IInv, Start PROVE IInv'
  OBVIOUS
<1> DEFINE rec == [registry[Taken] EXCEPT !.state = "running"]
<1>1. Taken \in DOMAIN registry
  BY TakenFacts DEF Start
<1>2. /\ server = "up" /\ worker = "get" /\ queue # <<>> /\ queue' = Tail(queue) /\ job' = Taken
      /\ registry' = [registry EXCEPT ![Taken] = rec]
      /\ Journal(Taken, registry'[Taken]) \/ JournalFails
      /\ worker' \in {"waiting", "dead"}
      /\ UNCHANGED <<adding, unput, outcome, minted, guard, thread, asking, runs, server, replay,
                     completed, crashes>>
  BY DEF Start
<1> HIDE DEF rec
<1>3. rec = [registry[Taken] EXCEPT !.state = "running"] /\ registry'[Taken] = rec
  BY <1>1, <1>2 DEF rec
<1> QED
  BY <1>2, <1>3, TakeKeeps

\* The badge is an end state, and cancelled only when the target has stopped.
LEMMA BadgeIsEnd ==
    ASSUME IInv, worker = "finish"
    PROVE  Badge \in EndStates /\ (Badge = "cancelled" => outcome = "stopped")
<1>1. outcome \in {"done", "stopped", "refused", "error"}
  BY DEF IInv, Shape, TypeOK, Lane, Quiet
<1> QED
  BY <1>1 DEF Badge, EndStates

\* The job ends with its badge.
LEMMA EndKeeps == IInv /\ End => IInv'
<1> SUFFICES ASSUME IInv, End PROVE IInv'
  OBVIOUS
<1> DEFINE rec == [registry[job] EXCEPT !.state = Badge]
<1>1. /\ server = "up" /\ worker = "finish" /\ job' = 0 /\ outcome' = "none"
      /\ registry' = [registry EXCEPT ![job] = rec]
      /\ (Journal(job, rec) \/ JournalFails) /\ worker' \in {"get", "dead"}
      /\ UNCHANGED <<adding, unput, queue, minted, guard, thread, asking, runs, server, replay,
                     completed, crashes>>
  BY DEF End, Finish
<1> HIDE DEF rec
<1>2. rec = [registry[job] EXCEPT !.state = Badge]
  BY DEF rec
<1>3. Badge \in EndStates /\ (Badge = "cancelled" => outcome = "stopped")
  BY <1>1, BadgeIsEnd
<1>4. /\ job \in DOMAIN registry /\ job \in DOMAIN journal /\ registry[job].state = "running"
      /\ job \notin Waiting /\ job # adding
      /\ journal[job].pursuit = registry[job].pursuit
      /\ journal[job].kind = registry[job].kind
      /\ \A j \in DOMAIN registry : j # job => registry[j].state # "running"
  BY <1>1, HereFacts, IdFacts DEF IInv, BusyPCs, Lane, Queueing, Agreement
<1>5. job \in completed => Badge # "cancelled"
  BY <1>3, <1>4 DEF IInv, Lane, Past
<1>6. /\ registry' \in [DOMAIN registry -> Job] /\ DOMAIN registry' = DOMAIN registry
      /\ \A i \in DOMAIN registry : i # job => registry'[i] = registry[i]
      /\ registry'[job].pursuit = registry[job].pursuit
      /\ registry'[job].kind = registry[job].kind
      /\ registry'[job].state = Badge
      /\ journal' \in [DOMAIN journal -> Job] /\ DOMAIN journal' = DOMAIN journal
      /\ \A i \in DOMAIN journal :
           \/ journal'[i] = journal[i]
           \/ /\ i = job /\ journal'[i].state = Badge
              /\ journal'[i].pursuit = registry[job].pursuit
              /\ journal'[i].kind = registry[job].kind
      /\ torn' \in BOOLEAN /\ faults' \in 0..MaxFaults /\ (faults' = 0 => faults = 0)
  BY <1>1, <1>2, <1>3, <1>4, StampFacts DEF IInv
<1>7. Shape'
  BY <1>1, <1>4, <1>6 DEF IInv, Shape, TypeOK, WorkerPCs
<1>8. Quiet'
  BY <1>1, <1>6 DEF IInv, Lane, Quiet
<1>9. Numbered'
  <2>1. \E m \in DOMAIN registry : \A i \in DOMAIN registry : i <= m
    BY <1>4 DEF IInv, Lane, Numbered
  <2> QED
    BY <1>6, <2>1 DEF Numbered
<1>10. Queueing'
  <2>1. Waiting \subseteq DOMAIN registry
    BY DEF IInv, Shape, TypeOK, Waiting
  <2>2. Badge # "running"
    BY <1>3 DEF EndStates
  <2>3. Waiting' = Waiting
    BY <1>1 DEF Waiting
  <2> QED
    BY <1>1, <1>4, <1>6, <2>1, <2>2, <2>3 DEF IInv, Lane, Queueing
<1>11. Agreement'
  <2>1. Badge \notin LiveStates
    BY <1>3 DEF EndStates, LiveStates
  <2> QED
    BY <1>1, <1>4, <1>6, <2>1 DEF IInv, Lane, Agreement
<1>12. Past'
  <2>1. Badge \notin {"queued", "running"}
    BY <1>3 DEF EndStates
  <2> QED
    BY <1>1, <1>4, <1>5, <1>6, <2>1 DEF IInv, Lane, Past
<1>13. Guarding'
  BY <1>1, GuardingFrame DEF IInv, HoldingPCs
<1>14. OpenRuns'
  BY <1>1, <1>6, OpenRunsJournal
<1> QED
  BY <1>7, <1>8, <1>9, <1>10, <1>11, <1>12, <1>13, <1>14 DEF IInv, Lane

-----------------------------------------------------------------------------
(* A killed server and the start                                           *)

\* No list, no job.
LEMMA EmptyFacts ==
    /\ DOMAIN <<>> = {} /\ Range(<<>>) = {} /\ IsInjective(<<>>)
    /\ <<>> \in [DOMAIN <<>> -> Job] /\ <<>> \in Seq(Ids)
<1>1. DOMAIN <<>> = {} /\ <<>> \in Seq(Ids)
  OBVIOUS
<1>2. Range(<<>>) = {} /\ IsInjective(<<>>)
  BY <1>1 DEF Range, IsInjective
<1>3. <<>> \in [DOMAIN <<>> -> Job]
  BY <1>1
<1> QED
  BY <1>1, <1>2, <1>3

\* A process with nothing in memory, and what it finds on disk.
LEMMA ForgetKeeps ==
    ASSUME IInv, Forget, server' = "down", replay' = {}, UNCHANGED <<journal, completed, faults>>,
           torn' \in {torn, TRUE}, crashes' \in 0..(MaxCrashes + 1),
           runs' \in Logs, \A p \in Pursuits : Len(runs'[p]) = Len(runs[p]),
           \A p \in Pursuits : \A i \in 1..Len(runs[p]) :
             runs'[p][i] = runs[p][i] \/ runs'[p][i].status # "open"
    PROVE  IInv'
<1>1. /\ registry' = <<>> /\ adding' = 0 /\ unput' = {} /\ queue' = <<>>
      /\ worker' = "get" /\ job' = 0 /\ outcome' = "none" /\ asking' = 0
      /\ minted' = [h \in Holders |-> 0] /\ guard' = [p \in Pursuits |-> NoOne]
      /\ thread' = [t \in Threads |-> IdleThread]
  BY DEF Forget
<1>2. /\ DOMAIN registry' = {} /\ registry' \in [DOMAIN registry' -> Job]
      /\ queue' \in Seq(Ids) /\ Range(queue') = {} /\ IsInjective(queue')
  BY <1>1, EmptyFacts
<1>3. /\ minted' \in [Holders -> 0..MaxRuns]
      /\ guard' \in [Pursuits -> Holders \cup {NoOne}]
      /\ thread' \in [Threads -> [pc : ThreadPCs, pursuit : Pursuits]]
      /\ \A t \in Threads : thread'[t].pc = "idle"
  BY <1>1, IdleTyped
<1>4. \A p \in Pursuits : /\ Len(runs'[p]) <= MaxRuns /\ Range(runs'[p]) \subseteq Run
                          /\ DOMAIN runs[p] = 1..Len(runs[p])
                          /\ DOMAIN runs'[p] = 1..Len(runs'[p])
  BY DEF IInv, Shape, TypeOK, Logs, Range
<1>5. torn' \in BOOLEAN
  BY DEF IInv, Shape, TypeOK
<1>6. Shape'
  BY <1>1, <1>2, <1>3, <1>4, <1>5 DEF IInv, Shape, TypeOK, WorkerPCs
<1>7. Lane'
  <2>1. Waiting' = {}
    BY <1>1, <1>2 DEF Waiting
  <2>2. Quiet' /\ Numbered' /\ Queueing' /\ Agreement'
    BY <1>1, <1>2, <1>3, <2>1 DEF Quiet, Numbered, Queueing, Agreement
  <2>3. Past'
    BY <1>2 DEF IInv, Lane, Past
  <2> QED
    BY <2>2, <2>3 DEF Lane
<1>8. Guarding'
  BY <1>1, <1>3 DEF Guarding, WorkerGuarded, ThreadGuarded, HoldingPCs
<1>9. OpenRuns'
  BY <1>4 DEF IInv, OpenRuns
<1> QED
  BY <1>6, <1>7, <1>8, <1>9 DEF IInv

\* The server is killed.
LEMMA CrashKeeps == IInv /\ Crash => IInv'
<1> SUFFICES ASSUME IInv, Crash PROVE IInv'
  OBVIOUS
<1>1. /\ Forget /\ server' = "down" /\ replay' = {} /\ torn' \in {torn, TRUE}
      /\ UNCHANGED <<journal, runs, completed, faults>>
      /\ crashes' = crashes + 1 /\ crashes < MaxCrashes
  BY DEF Crash
<1>2. crashes' \in 0..(MaxCrashes + 1)
  BY <1>1 DEF IInv, Shape, TypeOK
<1>3. runs \in Logs
  BY DEF IInv, Shape
<1> QED
  BY <1>1, <1>2, <1>3, ForgetKeeps

\* The start is killed between the close of a run and the line that names it.
LEMMA BootCrashKeeps == ASSUME IInv, NEW j \in Ids, BootCrash(j) PROVE IInv'
<1>1. /\ Forget /\ server' = "down" /\ replay' = {} /\ torn' \in {torn, TRUE}
      /\ UNCHANGED <<journal, completed, faults>>
      /\ j \in replay /\ runs' = ClosedOpen(journal[j].pursuit)
      /\ crashes' = crashes + 1 /\ crashes <= MaxCrashes
  BY DEF BootCrash, NextReplay
<1>2. crashes' \in 0..(MaxCrashes + 1)
  BY <1>1 DEF IInv, Shape, TypeOK
<1>3. journal[j].pursuit \in Pursuits
  BY <1>1 DEF IInv, Shape, TypeOK, Job
<1>4. /\ runs' \in Logs /\ \A p \in Pursuits : Len(runs'[p]) = Len(runs[p])
      /\ \A p \in Pursuits : \A i \in 1..Len(runs[p]) :
           runs'[p][i] = runs[p][i] \/ runs'[p][i].status # "open"
  BY <1>1, <1>3, ClosedOpenFacts DEF IInv, Shape
<1> QED
  BY <1>1, <1>2, <1>4, ForgetKeeps

\* The journal is read.
LEMMA BootKeeps == IInv /\ Boot => IInv'
<1> SUFFICES ASSUME IInv, Boot PROVE IInv'
  OBVIOUS
<1>1. /\ server = "down" /\ server' = "booting" /\ replay' = DOMAIN journal /\ torn' = FALSE
      /\ UNCHANGED <<journal, runs, registry, adding, unput, queue, worker, job, outcome, minted,
                     guard, thread, asking, completed, crashes, faults>>
  BY DEF Boot, volatile
<1>2. Shape'
  BY <1>1 DEF IInv, Shape, TypeOK
<1>3. Lane'
  BY <1>1 DEF IInv, Lane, Quiet, Numbered, Queueing, Agreement, Past, Waiting
<1>4. Guarding'
  BY <1>1, GuardingFrame DEF IInv, Here
<1>5. OpenRuns'
  BY <1>1 DEF IInv, OpenRuns
<1> QED
  BY <1>2, <1>3, <1>4, <1>5 DEF IInv

\* Every journaled job is taken over: the server serves.
LEMMA ServeKeeps == IInv /\ Serve => IInv'
<1> SUFFICES ASSUME IInv, Serve PROVE IInv'
  OBVIOUS
<1>1. /\ server = "booting" /\ server' = "up" /\ replay = {}
      /\ UNCHANGED <<journal, torn, runs, registry, adding, unput, queue, worker, job, outcome,
                     minted, guard, thread, asking, replay, completed, crashes, faults>>
  BY DEF Serve, volatile, durable
<1>2. Shape'
  BY <1>1 DEF IInv, Shape, TypeOK
<1>3. Lane'
  BY <1>1 DEF IInv, Lane, Quiet, Numbered, Queueing, Agreement, Past, Waiting
<1>4. Guarding'
  BY <1>1, GuardingFrame DEF IInv, Here
<1>5. OpenRuns'
  BY <1>1 DEF IInv, OpenRuns
<1> QED
  BY <1>2, <1>3, <1>4, <1>5 DEF IInv

\* One job is taken over: nothing is under way, its line keeps its pursuit and
\* its kind, it is live no more, and the run it left open is closed.
LEMMA TakenOver ==
    ASSUME IInv, server = "booting", NEW j \in replay, NEW rec \in Job,
           rec.pursuit = journal[j].pursuit, rec.kind = journal[j].kind,
           rec.state \notin LiveStates,
           journal[j].state # "cancelled" => rec.state # "cancelled",
           registry' = With(registry, j, rec), replay' = replay \ {j},
           \/ /\ UNCHANGED <<journal, runs>> /\ journal[j].state \notin LiveStates
              /\ rec.state = journal[j].state
           \/ Journal(j, rec) /\ runs' = ClosedOpen(journal[j].pursuit),
           UNCHANGED <<torn, adding, unput, queue, worker, job, outcome, minted, guard, thread,
                       asking, server, completed, crashes, faults>>
    PROVE  IInv'
<1>1. /\ worker = "get" /\ adding = 0 /\ Waiting = {} /\ asking = 0 /\ job = 0
      /\ \A t \in Threads : thread[t].pc = "idle"
  BY DEF IInv, Lane, Quiet
<1>2. j \in DOMAIN journal /\ j \in Ids /\ j \in Nat /\ journal[j].pursuit \in Pursuits
  BY IdFacts DEF IInv, Shape, TypeOK, Job
<1>3. /\ registry' \in [DOMAIN registry' -> Job] /\ DOMAIN registry' = DOMAIN registry \cup {j}
      /\ registry'[j] = rec
      /\ \A i \in DOMAIN registry : i # j => registry'[i] = registry[i]
  <2>1. registry \in [DOMAIN registry -> Job]
    BY DEF IInv, Shape
  <2> QED
    BY <2>1 DEF With
<1>4. /\ journal' \in [DOMAIN journal' -> Job] /\ DOMAIN journal' = DOMAIN journal
      /\ \A i \in DOMAIN journal : i # j => journal'[i] = journal[i]
      /\ journal'[j].pursuit = rec.pursuit /\ journal'[j].kind = rec.kind
      /\ journal'[j].state = rec.state
  <2>1. CASE UNCHANGED journal /\ rec.state = journal[j].state
    BY <1>2, <2>1 DEF IInv, Shape
  <2>2. CASE Journal(j, rec)
    <3>1. /\ journal' \in [DOMAIN journal' -> Job] /\ DOMAIN journal' = DOMAIN journal \cup {j}
          /\ \A i \in DOMAIN journal : i # j => journal'[i] = journal[i]
          /\ journal'[j].pursuit = rec.pursuit /\ journal'[j].kind = rec.kind
          /\ journal'[j].state = rec.state
      BY <1>2, <2>2, JournalFacts DEF IInv
    <3> QED
      BY <1>2, <3>1
  <2> QED
    BY <2>1, <2>2
<1>5. /\ runs' \in Logs /\ \A p \in Pursuits : Len(runs'[p]) = Len(runs[p])
      /\ \A p \in Pursuits : \A i \in 1..Len(runs[p]) :
           runs'[p][i] = runs[p][i] \/ runs'[p][i].status # "open"
      /\ journal[j].state \in LiveStates /\ runs[journal[j].pursuit] # <<>> =>
           runs'[journal[j].pursuit][Len(runs[journal[j].pursuit])].status # "open"
  <2>1. runs \in Logs
    BY DEF IInv, Shape
  <2>2. CASE UNCHANGED runs /\ journal[j].state \notin LiveStates
    BY <2>1, <2>2
  <2>3. CASE runs' = ClosedOpen(journal[j].pursuit)
    BY <1>2, <2>1, <2>3, ClosedOpenFacts
  <2> QED
    BY <2>2, <2>3
<1>6. Shape'
  <2>1. \A p \in Pursuits : Len(runs'[p]) <= MaxRuns /\ Range(runs'[p]) \subseteq Run
    BY <1>5 DEF IInv, Shape, TypeOK, Logs, Range
  <2> QED
    BY <1>1, <1>2, <1>3, <1>4, <1>5, <2>1 DEF IInv, Shape, TypeOK
<1>7. Quiet' /\ Waiting' = {}
  BY <1>1 DEF IInv, Lane, Quiet, Waiting
<1>8. Numbered'
  <2>1. CASE registry = <<>>
    <3>1. DOMAIN registry = {}
      BY <2>1
    <3> QED
      BY <1>2, <1>3, <3>1 DEF Numbered
  <2>2. CASE registry # <<>>
    <3>1. PICK m \in DOMAIN registry : \A i \in DOMAIN registry : i <= m
      BY <2>2 DEF IInv, Lane, Numbered
    <3>2. m \in Nat /\ DOMAIN registry \subseteq Nat
      BY IdFacts DEF IInv, Shape, TypeOK
    <3>3. CASE j <= m
      BY <1>3, <3>1, <3>3 DEF Numbered
    <3>4. CASE m <= j
      BY <1>2, <1>3, <3>1, <3>2, <3>4 DEF Numbered
    <3> QED
      BY <1>2, <3>2, <3>3, <3>4
  <2> QED
    BY <2>1, <2>2
<1>9. Queueing'
  <2>1. \A i \in DOMAIN registry : registry[i].state # "running"
    BY <1>1, IdFacts DEF IInv, Lane, Queueing, Shape, TypeOK
  <2>2. \A i \in DOMAIN registry' : registry'[i].state # "running"
    BY <1>3, <2>1 DEF LiveStates
  <2>3. unput' \cap Range(queue') = {}
    BY <1>7 DEF Waiting
  <2> QED
    BY <1>1, <1>7, <2>2, <2>3 DEF Queueing
<1>10. Agreement'
  BY <1>2, <1>3, <1>4 DEF IInv, Lane, Agreement
<1>11. Past'
  BY <1>2, <1>3, <1>4 DEF IInv, Lane, Past, LiveStates
<1>12. Guarding'
  BY <1>1 DEF Guarding, WorkerGuarded, ThreadGuarded, HoldingPCs
<1>13. OpenRuns'
  <2> SUFFICES ASSUME faults = 0, NEW p \in Pursuits, NEW i \in DOMAIN runs'[p],
                      runs'[p][i].status = "open", runs'[p][i].by # Route
               PROVE  /\ i = Len(runs'[p])
                      /\ runs'[p][i].by \in DOMAIN journal'
                      /\ journal'[runs'[p][i].by].state \in LiveStates
                      /\ journal'[runs'[p][i].by].pursuit = p
                      /\ runs'[p][i].by \in replay'
    BY DEF OpenRuns
  <2>1. DOMAIN runs[p] = 1..Len(runs[p]) /\ DOMAIN runs'[p] = 1..Len(runs'[p])
    BY <1>5 DEF IInv, Shape, Logs
  <2>2. i \in DOMAIN runs[p] /\ runs'[p][i] = runs[p][i]
    BY <1>5, <2>1
  <2>3. /\ i = Len(runs[p]) /\ runs[p][i].by \in DOMAIN journal
        /\ journal[runs[p][i].by].state \in LiveStates
        /\ journal[runs[p][i].by].pursuit = p /\ runs[p][i].by \in replay
    BY <2>2 DEF IInv, OpenRuns
  <2>4. runs[p][i].by # j
    BY <1>5, <2>1, <2>2, <2>3
  <2> QED
    BY <1>4, <1>5, <2>2, <2>3, <2>4
<1> QED
  BY <1>6, <1>7, <1>8, <1>9, <1>10, <1>11, <1>12, <1>13 DEF IInv, Lane

\* A live line becomes an orphan, any other stands as it is.
LEMMA RehydrateKeeps == ASSUME IInv, NEW j \in Ids, Rehydrate(j) PROVE IInv'
<1> DEFINE line == journal[j]
           orphan == [line EXCEPT !.state = "orphaned", !.run = Len(runs[line.pursuit])]
<1>1. /\ server = "booting" /\ j \in replay /\ replay' = replay \ {j}
      /\ IF line.state \in LiveStates
         THEN /\ registry' = With(registry, j, orphan)
              /\ runs' = ClosedOpen(line.pursuit)
              /\ Journal(j, orphan)
         ELSE registry' = With(registry, j, line) /\ UNCHANGED <<journal, torn, runs, faults>>
      /\ UNCHANGED <<adding, unput, queue, worker, job, outcome, minted, guard, thread, asking,
                     server, completed, crashes>>
  BY DEF Rehydrate, NextReplay
<1>2. line \in Job /\ line.pursuit \in Pursuits /\ Len(runs[line.pursuit]) \in 0..MaxRuns
  BY <1>1 DEF IInv, Shape, TypeOK, Job, Logs
<1>3. /\ orphan \in Job /\ orphan.pursuit = line.pursuit /\ orphan.kind = line.kind
      /\ orphan.state = "orphaned"
  BY <1>2 DEF Job, EndStates
<1> HIDE DEF orphan
<1>4. CASE line.state \in LiveStates
  <2>1. UNCHANGED <<torn, faults>>
    BY <1>1, <1>4 DEF Journal
  <2>2. registry' = With(registry, j, orphan) /\ runs' = ClosedOpen(line.pursuit) /\ Journal(j, orphan)
    BY <1>1, <1>4
  <2>3. orphan.state \notin LiveStates /\ orphan.state # "cancelled"
    BY <1>3 DEF LiveStates
  <2> QED
    BY <1>1, <1>3, <2>1, <2>2, <2>3, TakenOver
<1>5. CASE line.state \notin LiveStates
  BY <1>1, <1>2, <1>5, TakenOver
<1> QED
  BY <1>4, <1>5

-----------------------------------------------------------------------------
(* The invariant holds throughout                                          *)

\* The first process of a new workspace.
LEMMA InitKeeps == Init => IInv
<1> SUFFICES ASSUME Init PROVE IInv
  OBVIOUS
<1>1. /\ registry = <<>> /\ journal = <<>> /\ queue = <<>> /\ DOMAIN registry = {} /\ DOMAIN journal = {}
      /\ registry \in [DOMAIN registry -> Job] /\ journal \in [DOMAIN journal -> Job]
      /\ queue \in Seq(Ids) /\ Range(queue) = {} /\ IsInjective(queue)
  BY EmptyFacts DEF Init
<1>2. /\ minted \in [Holders -> 0..MaxRuns]
      /\ guard \in [Pursuits -> Holders \cup {NoOne}]
      /\ thread \in [Threads -> [pc : ThreadPCs, pursuit : Pursuits]]
      /\ \A t \in Threads : thread[t].pc = "idle"
  BY IdleTyped DEF Init
<1>3. runs = [p \in Pursuits |-> <<>>]
  BY DEF Init
<1>4. /\ \A p \in Pursuits : Len(runs[p]) = 0 /\ DOMAIN runs[p] = {} /\ Range(runs[p]) = {}
      /\ runs \in Logs
  BY <1>3 DEF Logs, Range
<1>5. Shape
  <2>1. /\ crashes \in 0..(MaxCrashes + 1) /\ faults \in 0..MaxFaults
        /\ \A p \in Pursuits : Len(runs[p]) <= MaxRuns /\ Range(runs[p]) \subseteq Run
    BY <1>4 DEF Init
  <2>2. /\ adding = 0 /\ unput = {} /\ worker = "get" /\ job = 0 /\ outcome = "none" /\ asking = 0
        /\ torn = FALSE /\ server = "up" /\ replay = {} /\ completed = {}
    BY DEF Init
  <2>3. TypeOK
    BY <1>1, <1>2, <2>1, <2>2 DEF TypeOK, WorkerPCs
  <2> QED
    BY <1>1, <1>4, <2>3 DEF Shape
<1>6. Lane
  BY <1>1, <1>2 DEF Init, Lane, Quiet, Numbered, Queueing, Agreement, Past, Waiting
<1>7. Guarding
  BY <1>2 DEF Init, Guarding, WorkerGuarded, ThreadGuarded, HoldingPCs
<1>8. OpenRuns
  BY <1>4 DEF OpenRuns
<1> QED
  BY <1>5, <1>6, <1>7, <1>8 DEF IInv

\* Every step of the lane, of the routes, of a crash and of a start keeps it.
LEMMA NextKeeps == IInv /\ [Next]_vars => IInv'
<1> SUFFICES ASSUME IInv, [Next]_vars PROVE IInv'
  OBVIOUS
<1>1. ASSUME NEW p \in Pursuits, NEW kind \in Kinds, Submit(p, kind) PROVE IInv'
  BY <1>1, SubmitKeeps
<1>2. CASE SubmitJournal
  BY <1>2, SubmitJournalKeeps
<1>3. ASSUME NEW j \in Ids, Put(j) \/ CancelCheck(j) \/ CancelSet(j) \/ BootCrash(j) PROVE IInv'
  BY <1>3, PutKeeps, CancelCheckKeeps, CancelSetKeeps, BootCrashKeeps
<1>4. CASE WorkerStep
  BY <1>4, SkipCancelledKeeps, StartKeeps, AcquireKeeps, MintKeeps, OpenRunKeeps, EndStageKeeps,
     PollKeeps, ReturnKeeps, RaiseKeeps, CloseOpenRunKeeps, EndKeeps DEF WorkerStep
<1>5. ASSUME NEW t \in Threads, RouteStep(t) PROVE IInv'
  BY <1>5, RouteEnterKeeps, RouteLeaveKeeps, RouteMintKeeps, RouteOpenKeeps, RouteEndKeeps DEF RouteStep
<1>6. ASSUME NEW t \in Threads, NEW p \in Pursuits, RouteAsk(t, p) PROVE IInv'
  BY <1>6, RouteAskKeeps
<1>7. CASE Crash
  BY <1>7, CrashKeeps
<1>8. CASE BootStep
  BY <1>8, BootKeeps, ServeKeeps, RehydrateKeeps DEF BootStep
<1>9. CASE UNCHANGED vars
  <2>1. UNCHANGED <<journal, torn, runs, registry, adding, unput, queue, worker, job, outcome,
                    minted, guard, thread, asking, server, replay, completed, crashes, faults>>
    BY <1>9 DEF vars, durable, volatile
  <2>2. Shape'
    BY <2>1 DEF IInv, Shape, TypeOK
  <2>3. Lane'
    BY <2>1 DEF IInv, Lane, Quiet, Numbered, Queueing, Agreement, Past, Waiting
  <2>4. Guarding'
    BY <2>1, GuardingFrame DEF IInv, Here
  <2>5. OpenRuns'
    BY <2>1, OpenRunsFrame DEF IInv
  <2> QED
    BY <2>2, <2>3, <2>4, <2>5 DEF IInv
<1> QED
  BY <1>1, <1>2, <1>3, <1>4, <1>5, <1>6, <1>7, <1>8, <1>9 DEF Next

\* The invariant of the job lane (jobs.py and the routes of server.py).
THEOREM LaneInvariant == Spec => []IInv
BY InitKeeps, NextKeeps, PTL DEF Spec

-----------------------------------------------------------------------------
(* What the invariant gives                                                *)

\* Every variable stays in its type, across crashes and restarts: the worker
\* runs jobs of the registry only, and no id is on the queue twice.
THEOREM JobTypeCorrect == Spec => []TypeOK
<1>1. IInv => TypeOK
  BY DEF IInv, Shape
<1> QED
  BY <1>1, LaneInvariant, PTL

\* The ids of runs are minted one at a time, the runs of ended jobs have their
\* footers unless a write failed, and no completed work has a cancelled badge.
THEOREM RunsStaySound == Spec => []RunsAreSound
<1>1. IInv => MintIsSerial
  BY DEF IInv, Guarding, WorkerGuarded, ThreadGuarded, MintIsSerial
<1>2. IInv => JobRunsAreClosed
  <2> SUFFICES ASSUME IInv, server = "up", faults = 0, NEW p \in Pursuits, NEW i \in DOMAIN runs[p],
                      runs[p][i].status = "open", runs[p][i].by # Route
               PROVE  Live(runs[p][i].by)
    BY DEF JobRunsAreClosed
  <2>1. runs[p][i].by = job /\ worker \in {"run", "commit", "close"}
    BY OpenRunIsHere
  <2> QED
    BY <2>1, HereFacts DEF IInv, BusyPCs, HoldingPCs, Live, LiveStates
<1>3. IInv => CancelledMeansStopped
  BY DEF IInv, Lane, Past, CancelledMeansStopped
<1>4. IInv => RunsAreSound
  BY <1>1, <1>2, <1>3 DEF RunsAreSound
<1> QED
  BY <1>4, LaneInvariant, PTL

\* What a step may do to the run logs, and to the lines of the journal.
FooterStep == \A p \in Pursuits : \A i \in DOMAIN runs[p] :
    \/ runs'[p][i] = runs[p][i]
    \/ runs[p][i].status = "open" /\ i = Len(runs[p]) /\ runs'[p][i].by = runs[p][i].by
JournalStep == \A j \in DOMAIN journal :
    /\ j \in DOMAIN journal'
    /\ journal'[j].pursuit = journal[j].pursuit /\ journal'[j].kind = journal[j].kind
    /\ journal[j].state \in EndStates => journal'[j] = journal[j]

\* A run that is opened is appended, and a footer goes to the open newest run.
LEMMA FooterFacts ==
    ASSUME Shape, NEW p \in Pursuits,
           \/ UNCHANGED runs
           \/ \E by \in Ids \cup {Route} : runs' = Opened(p, by)
           \/ runs[p] # <<>> /\ runs[p][Len(runs[p])].status = "open" /\ runs' = Ended(p)
           \/ runs' = ClosedOpen(p)
    PROVE  FooterStep
<1>1. runs \in Logs /\ \A q \in Pursuits : DOMAIN runs[q] = 1..Len(runs[q])
  BY DEF Shape, Logs
<1>2. CASE UNCHANGED runs
  BY <1>2 DEF FooterStep
<1>3. ASSUME NEW by \in Ids \cup {Route}, runs' = Opened(p, by) PROVE FooterStep
  <2>1. \A q \in Pursuits : \A i \in 1..Len(runs[q]) : Opened(p, by)[q][i] = runs[q][i]
    BY <1>1, OpenedFacts
  <2> QED
    BY <1>1, <1>3, <2>1 DEF FooterStep
<1>4. CASE runs[p] # <<>> /\ runs[p][Len(runs[p])].status = "open" /\ runs' = Ended(p)
  <2>1. \A q \in Pursuits : \A i \in 1..Len(runs[q]) :
          \/ runs'[q][i] = runs[q][i]
          \/ q = p /\ i = Len(runs[p]) /\ runs'[q][i].by = runs[q][i].by
    BY <1>1, <1>4, EndedFacts
  <2> QED
    BY <1>1, <1>4, <2>1 DEF FooterStep
<1>5. CASE runs' = ClosedOpen(p)
  <2>1. \A q \in Pursuits : \A i \in 1..Len(runs[q]) :
          \/ runs'[q][i] = runs[q][i]
          \/ /\ q = p /\ i = Len(runs[p]) /\ runs[p][i].status = "open"
             /\ runs'[q][i].by = runs[q][i].by
    BY <1>1, <1>5, ClosedOpenFacts
  <2> QED
    BY <1>1, <2>1 DEF FooterStep
<1> QED
  BY <1>2, <1>3, <1>4, <1>5

\* No step writes a run that has its footer, or one that is not the newest.
LEMMA NextFooters == IInv /\ Next => FooterStep
<1> SUFFICES ASSUME IInv, Next PROVE FooterStep
  OBVIOUS
<1>1. Shape
  BY DEF IInv
<1>2. CASE UNCHANGED runs
  BY <1>2 DEF FooterStep
<1>3. CASE WorkerStep
  <2>1. CASE worker \in {"minted", "run", "commit", "close"} /\ ~UNCHANGED runs
    <3>1. Here \in Pursuits /\ job \in Ids
      BY <1>1, <2>1, HereFacts DEF BusyPCs, HoldingPCs
    <3>2. worker \in {"run", "commit"} =>
            runs[Here] # <<>> /\ runs[Here][Len(runs[Here])].status = "open"
      BY DEF IInv, Guarding, WorkerGuarded
    <3>3. \/ runs' = Opened(Here, job)
          \/ worker \in {"run", "commit"} /\ runs' = Ended(Here)
          \/ runs' = ClosedOpen(Here)
      BY <1>3, <2>1 DEF WorkerStep, SkipCancelled, Start, Acquire, Mint, OpenRun, EndStage, Poll,
         Return, Raise, CloseOpenRun, End, durable
    <3> QED
      BY <1>1, <3>1, <3>2, <3>3, FooterFacts
  <2>2. CASE worker \notin {"minted", "run", "commit", "close"}
    <3>1. UNCHANGED runs
      BY <1>3, <2>2 DEF WorkerStep, SkipCancelled, Start, Acquire, Mint, OpenRun, EndStage, Poll,
         Return, Raise, CloseOpenRun, End, durable
    <3> QED
      BY <1>2, <3>1
  <2> QED
    BY <1>2, <2>1, <2>2
<1>4. ASSUME NEW t \in Threads, RouteStep(t) PROVE FooterStep
  <2>1. On(t) \in Pursuits
    BY <1>1 DEF Shape, TypeOK, On
  <2>2. \/ UNCHANGED runs
        \/ RouteOpen(t) /\ runs' = Opened(On(t), Route)
        \/ RouteEnd(t) /\ runs' = Ended(On(t))
    BY <1>4 DEF RouteStep, RouteEnter, RouteLeave, RouteMint, RouteOpen, RouteEnd, durable
  <2>3. RouteEnd(t) => runs[On(t)] # <<>> /\ runs[On(t)][Len(runs[On(t)])].status = "open"
    BY DEF IInv, Guarding, ThreadGuarded, RouteEnd, At
  <2> QED
    BY <1>1, <2>1, <2>2, <2>3, FooterFacts
<1>5. ASSUME NEW j \in Ids, Rehydrate(j) \/ BootCrash(j) PROVE FooterStep
  <2>1. j \in replay /\ (UNCHANGED runs \/ runs' = ClosedOpen(journal[j].pursuit))
    BY <1>5 DEF Rehydrate, BootCrash, NextReplay
  <2>2. journal[j].pursuit \in Pursuits
    BY <1>1, <2>1 DEF Shape, TypeOK, Job
  <2> QED
    BY <1>1, <2>1, <2>2, FooterFacts
<1>6. ASSUME \/ \E p \in Pursuits, kind \in Kinds : Submit(p, kind)
             \/ SubmitJournal \/ Crash \/ Boot \/ Serve
             \/ \E j \in Ids : Put(j) \/ CancelCheck(j) \/ CancelSet(j)
             \/ \E t \in Threads, p \in Pursuits : RouteAsk(t, p)
      PROVE  UNCHANGED runs
  BY <1>6 DEF Submit, SubmitJournal, Crash, Boot, Serve, Put, CancelCheck, CancelSet, RouteAsk, durable
<1> QED
  BY <1>2, <1>3, <1>4, <1>5, <1>6 DEF Next, BootStep

\* One line is written over only while the job it names is live.
LEMMA LineFacts ==
    ASSUME Shape, NEW j \in Ids, NEW rec \in Job, Journal(j, rec),
           j \in DOMAIN journal => /\ journal[j].state \in LiveStates
                                   /\ rec.pursuit = journal[j].pursuit
                                   /\ rec.kind = journal[j].kind
    PROVE  JournalStep
<1>1. /\ DOMAIN journal' = DOMAIN journal \cup {j}
      /\ \A i \in DOMAIN journal : i # j => journal'[i] = journal[i]
      /\ journal'[j].pursuit = rec.pursuit /\ journal'[j].kind = rec.kind
  BY JournalFacts
<1> QED
  BY <1>1 DEF JournalStep, LiveStates, EndStates

\* So what the journal says of an ended job stands.
LEMMA NextHistory == IInv /\ Next => JournalStep
<1> SUFFICES ASSUME IInv, Next PROVE JournalStep
  OBVIOUS
<1>1. Shape
  BY DEF IInv
<1>2. CASE UNCHANGED journal
  BY <1>2 DEF JournalStep
<1>3. CASE SubmitJournal
  <2>1. /\ adding \in Ids /\ adding \notin DOMAIN journal /\ registry[adding] \in Job
        /\ UNCHANGED journal \/ Journal(adding, registry[adding])
    BY <1>3 DEF SubmitJournal, JournalFails, IInv, Lane, Queueing, Shape, TypeOK
  <2> QED
    BY <1>1, <1>2, <2>1, LineFacts
<1>4. CASE SkipCancelled \/ Start
  <2>1. /\ worker = "get" /\ queue # <<>>
        /\ \E state \in {"running", "cancelled"} :
             UNCHANGED journal \/ Journal(Taken, [registry[Taken] EXCEPT !.state = state])
    <3>1. Start => registry'[Taken] = [registry[Taken] EXCEPT !.state = "running"]
      BY TakenFacts DEF Start
    <3> QED
      BY <1>4, <3>1 DEF SkipCancelled, Start, Finish, JournalFails
  <2>2. PICK state \in {"running", "cancelled"} :
          UNCHANGED journal \/ Journal(Taken, [registry[Taken] EXCEPT !.state = state])
    BY <2>1
  <2>3. /\ Taken \in DOMAIN registry /\ Taken \in Ids /\ journal[Taken].state \in LiveStates
        /\ journal[Taken].pursuit = registry[Taken].pursuit
        /\ journal[Taken].kind = registry[Taken].kind
    BY <2>1, TakenFacts
  <2> DEFINE rec == [registry[Taken] EXCEPT !.state = state]
  <2>4. rec \in Job /\ rec.pursuit = registry[Taken].pursuit /\ rec.kind = registry[Taken].kind
    BY <1>1, <2>3, BadgeFacts DEF LiveStates, EndStates
  <2>5. UNCHANGED journal \/ Journal(Taken, rec)
    BY <2>2
  <2> HIDE DEF rec
  <2> QED
    BY <1>1, <1>2, <2>3, <2>4, <2>5, LineFacts
<1>5. CASE End
  <2> DEFINE rec == [registry[job] EXCEPT !.state = Badge]
  <2>1. UNCHANGED journal \/ Journal(job, rec)
    BY <1>5 DEF End, Finish, JournalFails
  <2>2. worker = "finish"
    BY <1>5 DEF End
  <2>3. /\ job \in DOMAIN registry /\ job \in Ids /\ job \in DOMAIN journal
        /\ journal[job].state \in LiveStates
        /\ journal[job].pursuit = registry[job].pursuit
        /\ journal[job].kind = registry[job].kind
    BY <2>2, HereFacts, IdFacts DEF IInv, BusyPCs, Lane, Queueing, Agreement, LiveStates
  <2>4. rec \in Job /\ rec.pursuit = registry[job].pursuit /\ rec.kind = registry[job].kind
    BY <1>1, <2>2, <2>3, BadgeIsEnd, BadgeFacts
  <2> HIDE DEF rec
  <2> QED
    BY <1>1, <1>2, <2>1, <2>3, <2>4, LineFacts
<1>6. ASSUME NEW j \in Ids, Rehydrate(j) PROVE JournalStep
  <2> DEFINE rec == [journal[j] EXCEPT !.state = "orphaned", !.run = Len(runs[journal[j].pursuit])]
  <2>1. /\ j \in DOMAIN journal /\ journal[j] \in Job /\ journal[j].pursuit \in Pursuits
        /\ Len(runs[journal[j].pursuit]) \in 0..MaxRuns
    BY <1>1, <1>6 DEF Rehydrate, NextReplay, Shape, TypeOK, Logs, Job
  <2>2. UNCHANGED journal \/ (journal[j].state \in LiveStates /\ Journal(j, rec))
    BY <1>6 DEF Rehydrate
  <2>3. rec \in Job /\ rec.pursuit = journal[j].pursuit /\ rec.kind = journal[j].kind
    BY <2>1 DEF Job, EndStates
  <2> HIDE DEF rec
  <2> QED
    BY <1>1, <1>2, <2>2, <2>3, LineFacts
<1>7. ASSUME \/ \E p \in Pursuits, kind \in Kinds : Submit(p, kind)
             \/ Acquire \/ Mint \/ OpenRun \/ EndStage \/ Poll \/ Return \/ Raise \/ CloseOpenRun
             \/ Crash \/ Boot \/ Serve
             \/ \E j \in Ids : Put(j) \/ CancelCheck(j) \/ CancelSet(j) \/ BootCrash(j)
             \/ \E t \in Threads : RouteStep(t) \/ \E p \in Pursuits : RouteAsk(t, p)
      PROVE  UNCHANGED journal
  BY <1>7 DEF Submit, Acquire, Mint, OpenRun, EndStage, Poll, Return, Raise, CloseOpenRun, Crash,
     Boot, Serve, Put, CancelCheck, CancelSet, BootCrash, RouteStep, RouteAsk, RouteEnter, RouteLeave,
     RouteMint, RouteOpen, RouteEnd, durable
<1> QED
  BY <1>2, <1>3, <1>4, <1>5, <1>6, <1>7 DEF Next, WorkerStep, BootStep

\* What has ended stays as it ended: no footer is lost or written over, only
\* the newest run is ever written, and no id is given out twice.
THEOREM HistoryIsKept == Spec => HistoryStands
<1>1. IInv /\ [Next]_vars => [FooterStep /\ JournalStep]_vars
  BY NextFooters, NextHistory
<1>2. Spec => FootersStand
  <2>1. IInv /\ [Next]_vars =>
          [\A p \in Pursuits : \A i \in DOMAIN runs[p] :
             \/ runs'[p][i] = runs[p][i]
             \/ runs[p][i].status = "open" /\ i = Len(runs[p]) /\ runs'[p][i].by = runs[p][i].by]_vars
    BY <1>1 DEF FooterStep
  <2> QED
    BY <2>1, LaneInvariant, PTL DEF Spec, FootersStand
<1>3. Spec => JournalIsHistory
  <2>1. IInv /\ [Next]_vars =>
          [\A j \in DOMAIN journal :
             /\ j \in DOMAIN journal'
             /\ journal'[j].pursuit = journal[j].pursuit /\ journal'[j].kind = journal[j].kind
             /\ journal[j].state \in EndStates => journal'[j] = journal[j]]_vars
    BY <1>1 DEF JournalStep
  <2> QED
    BY <2>1, LaneInvariant, PTL DEF Spec, JournalIsHistory
<1> QED
  BY <1>2, <1>3, PTL DEF HistoryStands
=============================================================================
