------------------------------- MODULE MCWalks --------------------------------
(***************************************************************************)
(* What runs to an end beside others: the model calls of a walk under their *)
(* budget (SpendGate) and the operator who answers them by hand (Handoff),  *)
(* the learners of two accepts (LearnLane), and the commands that want the  *)
(* workspace's lock (SliceLock).  They share no variable: `part` says which *)
(* moves, and the others rest.                                              *)
(***************************************************************************)
EXTENDS Naturals, TLC

CONSTANTS None, Half,
          Prices, Ceiling, Total, MaxCalls, Attempts, MaxRuns,   \* the budget's
          Commands, Servers, Fresh, MaxInodes,                   \* the lock's
          Threads, Agents, Named, MaxSeq, MaxBad, MaxStops,      \* the operator's
          Pursuits, Cards, Events, Gaps, Of, Kind, Naming, Residual,
          MaxAccepts, MaxKills, p1, p2, e1, e2, g1               \* the learners'

VARIABLES part,
          walk, run, call, spent, budget, log, answered,
          cites, alias, given, routing, proposal, signal, learner, seen, due, routed, lock,
          accepts, kills, covered,
          directory, path, inodes, owner, holder, tree, step, handle, wiped, told,
          up, counter, request, response, wait, desk, results, calls, bad, stops

\* Checked with a walk of two runs; a fourth call is over the cap, a second dear one over
\* the ceiling of its run or over the total of two runs.
Spend == INSTANCE SpendGate

\* Checked with a pursuit that has an edit and a gap that name the buyer and a waiver
\* no cleaning helps, and a second pursuit that only cites; two accepts and one kill.
MCOf == e1 :> p1 @@ e2 :> p1 @@ g1 :> p1
MCKind == e1 :> "factual" @@ e2 :> "waiver"
Learn == INSTANCE LearnLane WITH status <- proposal, pc <- learner, todo <- due

\* Checked with a server, an intake run and a slice --fresh; three lock files are more
\* than they can create, and the workspace may exist without a marker.
Lock == INSTANCE SliceLock WITH pc <- step

\* Checked with two threads, three exchanges, one refused answer and one restart.
Exchange == INSTANCE Handoff

ASSUME WalkConstants ==
    /\ Exchange!HandoffAssumption /\ Spend!SpendAssumption /\ Learn!LearnConstants /\ Lock!LockConstants

spendVars == <<walk, run, call, spent, budget, log, answered>>
learnVars == <<cites, alias, given, routing, proposal, signal, learner, seen, due, routed, lock,
               accepts, kills, covered>>
lockVars == <<directory, path, inodes, owner, holder, tree, step, handle, wiped, told>>
exchangeVars == <<up, counter, request, response, wait, desk, results, calls, bad, stops>>
vars == <<part, spendVars, learnVars, lockVars, exchangeVars>>

Init ==
    /\ part \in {"spend", "learn", "lock", "exchange"}
    /\ Spend!Init /\ Learn!Init /\ Exchange!Init
    /\ (part = "lock" \/ directory = FALSE) /\ Lock!Init

Call == part = "spend" /\ Spend!Next /\ UNCHANGED <<part, learnVars, lockVars, exchangeVars>>
Absorb == part = "learn" /\ Learn!Next /\ UNCHANGED <<part, spendVars, lockVars, exchangeVars>>
Claim == part = "lock" /\ Lock!Next /\ UNCHANGED <<part, spendVars, learnVars, exchangeVars>>
Answer == part = "exchange" /\ Exchange!Next /\ UNCHANGED <<part, spendVars, learnVars, lockVars>>
Next == Call \/ Absorb \/ Claim \/ Answer

Fairness ==
    /\ WF_spendVars(part = "spend" /\ Spend!Progress)
    /\ \A p \in Pursuits :
          /\ WF_learnVars(part = "learn" /\ Learn!Read(p)) /\ SF_learnVars(part = "learn" /\ Learn!Take(p))
          /\ WF_learnVars(part = "learn" /\ Learn!Stage(p))
    /\ \A p \in Commands : WF_lockVars(part = "lock" /\ Lock!Steady(p))
    /\ \A t \in Threads :
          WF_exchangeVars(part = "exchange" /\ (Exchange!Accept(t) \/ Exchange!Expire(t)))
Spec == Init /\ [][Next]_vars /\ Fairness

------------------------------------------------------------------------------
\* The brakes of a walk hold however calls, retries and costs fall: at most the one
\* call that trips a limit lies beyond it, the shared budget is what the traces say,
\* and each line owns to its retries (caller.py:103-110, 197-218, live.py:169-173).
OneCallOver ==
    /\ Spend!TypeOK /\ Spend!OneCallOver /\ Spend!BudgetIsTheTrace /\ Spend!RetriesAreHonest

\* No feedback is spent for nothing, no gap is proposed twice, and an accept leaves no
\* name it knew of in an open proposal, through kills and the two doors (learn.py:107-220).
SpentIsProposed ==
    /\ Learn!TypeOK /\ Learn!SpentIsProposed /\ Learn!OneGapOneProposal /\ Learn!AcceptLeavesNoName

\* Two processes write one workspace only where a --fresh took the lock file away
\* under one of them, and the dead hold nothing (lock.py:8, 30-48, slice.py:299-302).
OneWriterUntilWiped ==
    Lock!TypeOK /\ Lock!OneWriterUntilWiped /\ Lock!TheDeadHoldNothing

\* An accepted answer answers the question of the thread that returns it, across
\* timeouts, retries and restarts, and no exchange pair is overwritten
\* (handoff.py:95-175).
AnswersItsQuestion ==
    Exchange!PairsStand /\ [](Exchange!TypeOK /\ Exchange!AnswersItsQuestion)

\* Everything ends, and a fired brake ends it for good: a call on its finite ladder,
\* a wait for the operator at its deadline, an accept that waits for another's learner,
\* a command that finds the lock held; and nothing is asked after a cost_ceiling line
\* (caller.py:197-218, handoff.py:148, locks.py:19-20, server.py:2033-2042, lock.py:6-8).
WalksEnd ==
    /\ Spend!BrakeIsFinal /\ Spend!EveryCallEnds /\ Exchange!EveryWaitEnds /\ Learn!AcceptIsAnswered
    /\ part = "lock" => Lock!NeverWaits
==============================================================================
