------------------------------- MODULE MCDoors --------------------------------
(***************************************************************************)
(* The doors of the web server on one pursuit: the operator's (PlanDoor),   *)
(* a guest's share link (ShareDoor) and the assistant's session             *)
(* (AssistantLane).  `part` says which of the three is in use; they write   *)
(* different files, and the other two rest in their initial state.          *)
(***************************************************************************)
EXTENDS Naturals

CONSTANTS Nobody, MaxCrashes,
          Threads, Planned, MaxReviewGaps, MaxPings, MaxJobs, MaxRequests,         \* the plan's
          Guests, Clerks, MaxLinks, MaxLines, MaxDays, MaxNow, MaxVisits,          \* the links'
          Turns, Sources, Withheld, Prices, Ceiling, MaxTools, MaxRecites          \* the session's

VARIABLES part,
          plan, pings, pending, blocked, guard, busy, thread, jobs, requests, crashes,
          accepts, clobbered,
          file, torn, lock, job, clerk, guest, access, comments, now, visits, falls,
          acked, answered,
          log, transcript, turn, overlapped, restarts

\* Checked with three requests on two threads, one planned gap and one review gap.
Plan == INSTANCE PlanDoor

\* Checked with one guest and two operators, two links, one crash; the clock runs past
\* the end of a link.
Share == INSTANCE ShareDoor WITH busy <- job, pending <- comments, crashes <- falls

\* Checked with two messages of one session, an open document and a withheld card.
Session == INSTANCE AssistantLane WITH crashes <- restarts

ASSUME DoorConstants ==
    Plan!DoorAssumption /\ Share!ShareAssumption /\ Session!AssistantAssumption

planVars == <<plan, pings, pending, blocked, guard, busy, thread, jobs, requests, crashes,
              accepts, clobbered>>
shareVars == <<file, torn, lock, job, clerk, guest, access, comments, now, visits, falls,
               acked, answered>>
sessionVars == <<log, transcript, turn, overlapped, restarts>>
vars == <<part, planVars, shareVars, sessionVars>>

Init == part \in {"plan", "share", "session"} /\ Plan!Init /\ Share!Init /\ Session!Init

Operate == part = "plan" /\ Plan!Next /\ UNCHANGED <<part, shareVars, sessionVars>>
Visit == part = "share" /\ Share!Next /\ UNCHANGED <<part, planVars, sessionVars>>
Converse == part = "session" /\ Session!Next /\ UNCHANGED <<part, planVars, shareVars>>
Next == Operate \/ Visit \/ Converse

Fairness ==
    /\ WF_planVars(part = "plan" /\ Plan!JobEnd)
    /\ \A t \in Threads : WF_planVars(part = "plan" /\ Plan!Handle(t))
    /\ \A c \in Clerks : /\ SF_shareVars(part = "share" /\ Share!Revoke(c))
                         /\ WF_shareVars(part = "share" /\ (Share!MintLine(c) \/ Share!RevokeLine(c)))
    /\ \A t \in Turns : WF_sessionVars(part = "session" /\ Session!Step(t))
Spec == Init /\ [][Next]_vars /\ Fairness

------------------------------------------------------------------------------
\* The ping journal and the live plan agree, and a gap is asked about once, through
\* any interleaving of pings, answers, decisions and jobs in which no comment wrote
\* a plan it had read too early and nothing crashed between the line and the write
\* (pings.py:87-94, 150-160, server.py:1887-1957).
AnswersReachThePlan == Plan!TypeOK /\ Plan!AnswersReachThePlan /\ Plan!OneOpenPing

\* The kill switch holds: no interleaving of mints, revokes, torn lines and restarts
\* lets a guest in after the link's end or lends it another link's token, and what
\* guests were told of a link is logged (share.py:12-14, 57-61, 98-146).
NoEntryAfterTheEnd ==
    /\ Share!TypeOK /\ Share!NoEntryAfterTheEnd /\ Share!LinksAreDistinct
    /\ Share!LaneStaysReadable /\ Share!LinkAnswersAreLogged

\* An answer cites only what its session opened, however turns interleave; turns
\* that never overlap keep one gapless run and one ordinal per message, over
\* restarts (tools.py:49-53, session.py:5-8).
CitationsEarned == Session!TypeOK /\ Session!CitationsEarned /\ Session!LoneTurnsGapless

\* Whoever knocks is answered: a request of the operator ends and gives the guard
\* back, a revoke lands while a job runs, a message ends with a reply or a typed
\* refusal, and turns that never overlap spend no more than one call beyond the
\* ceiling; and no door but a job's takes the stamp of an accept from a section
\* (server.py:1887-1957, 2023, 2163, share.py:109-112, loop.py:136-242).
DoorsAnswer ==
    /\ Plan!RequestsEnd /\ Share!RevokeLands /\ Plan!FinalStands
    /\ part = "session" => Session!EveryTurnEnds
    /\ []Session!LoneTurnsBrake
==============================================================================
