----------------------------- MODULE DoorsProofs -----------------------------
(***************************************************************************)
(* Proofs about the three doors that MCDoors runs: the operator's plan,    *)
(* for any threads, planned gaps and bounds, the guests' share links, for  *)
(* any guests, clerks, clock and bounds, and the assistant's session, for  *)
(* any turns, sources and prices.                                          *)
(***************************************************************************)
EXTENDS MCDoors, FiniteSetTheorems, SequenceTheorems, WellFoundedInduction, TLAPS

-----------------------------------------------------------------------------
(* The operator's door                                                     *)

\* A line of the ping journal.
PingLines == [gap : Plan!Gaps, gen : 1..MaxJobs + 1, answered : BOOLEAN]
Requests == [at : {"idle", "waiting", "in", "writing"}, op : {"none"} \cup Plan!Ops, doc : Plan!Plans]

\* The types of the door's state, with the bounds of what it counts.
DoorTypes ==
    /\ plan \in Plan!Plans /\ pings \in Seq(PingLines) /\ Len(pings) <= MaxPings
    /\ pending \in 0..MaxRequests /\ requests \in 0..MaxRequests /\ crashes \in Nat
    /\ blocked \in BOOLEAN /\ busy \in BOOLEAN /\ guard \in Threads \cup {Nobody}
    /\ thread \in [Threads -> Requests]
    /\ accepts \subseteq BOOLEAN /\ clobbered \in BOOLEAN

\* A request is inside the guard exactly while it holds it, and a job's write waits for it.
Inside == \A t \in Threads : thread[t].at \in {"in", "writing"} => guard = t

\* Each comment on its way, or waiting for a round, was a request.
Comments == {t \in Threads : thread[t].op = "comment" /\ thread[t].at \in {"waiting", "in"}}
Heard == IsFiniteSet(Comments) /\ pending + Cardinality(Comments) <= requests

\* What the journal says of a plan stands on it: its answered gaps are answered, the
\* others have been asked about once, and the review gaps are numbered without a hole.
Agree(ps, doc) ==
    /\ \A k \in DOMAIN ps : ps[k].gen <= doc.gen
    /\ \A k \in DOMAIN ps : ps[k].gen = doc.gen =>
          /\ ps[k].answered => doc.gaps[ps[k].gap] = "answered"
          /\ ~ps[k].answered => doc.gaps[ps[k].gap] \notin {"none", "open"}
    /\ \A j, k \in DOMAIN ps :
          ps[j].gen = doc.gen /\ ps[k].gen = doc.gen /\ ps[j].gap = ps[k].gap
          /\ ~ps[j].answered /\ ~ps[k].answered => j = k
    /\ \E m \in 0..MaxReviewGaps : \A g \in Plan!ReviewGaps : doc.gaps[g] # "none" <=> g <= m

\* The journal agrees with the plan that is live, or with the one about to be written;
\* a plan about to be written is of the live generation.
Journal ==
    ~clobbered /\ crashes = 0 =>
        /\ (\A t \in Threads : thread[t].at # "writing") => Agree(pings, plan)
        /\ \A t \in Threads : thread[t].at = "writing" =>
              Agree(pings, thread[t].doc) /\ thread[t].doc.gen = plan.gen

\* What is about to be written keeps the stamp of an accept.
Stamped ==
    ~clobbered => \A t \in Threads : thread[t].at = "writing" /\ plan.status = "final"
                                        => thread[t].doc.status = "final"

PlanInv == DoorTypes /\ Inside /\ Heard /\ Journal /\ Stamped

\* What is assumed of the door's constants.
LEMMA PlanConstants ==
    /\ Nobody \notin Threads /\ Planned \cap Nat = {}
    /\ MaxReviewGaps \in Nat /\ MaxPings \in Nat /\ MaxJobs \in Nat /\ MaxRequests \in Nat
    /\ MaxCrashes \in Nat
    /\ Plan!ReviewGaps = 1..MaxReviewGaps /\ Plan!Gaps = Planned \cup 1..MaxReviewGaps
BY DoorConstants DEF Plan!DoorAssumption, Plan!ReviewGaps, Plan!Gaps

\* The library's finite sets are the same wherever they are instantiated.
LEMMA PlanCardinality == \A S : Plan!Cardinality(S) = Cardinality(S)
BY DEF Plan!Cardinality, Cardinality

\* A new plan is one, and lists the planned gaps only.
LEMMA NewPlanFacts ==
    ASSUME NEW gen \in 1..MaxJobs + 1
    PROVE  /\ Plan!NewPlan(gen) \in Plan!Plans /\ Plan!NewPlan(gen).gen = gen
           /\ Plan!NewPlan(gen).status = "planned"
           /\ \A g \in Plan!ReviewGaps : Plan!NewPlan(gen).gaps[g] = "none"
BY PlanConstants DEF Plan!NewPlan, Plan!Plans, Plan!GapStates

\* A plan is one after a gap's status changed, and differs there alone.
LEMMA PutGap ==
    ASSUME NEW doc \in Plan!Plans, NEW g \in Plan!Gaps, NEW s \in Plan!GapStates
    PROVE  /\ [doc EXCEPT !.gaps[g] = s] \in Plan!Plans
           /\ [doc EXCEPT !.gaps[g] = s].gen = doc.gen
           /\ [doc EXCEPT !.gaps[g] = s].status = doc.status
           /\ \A h \in Plan!Gaps : [doc EXCEPT !.gaps[g] = s].gaps[h]
                                      = IF h = g THEN s ELSE doc.gaps[h]
<1> DEFINE new == [doc EXCEPT !.gaps[g] = s]
<1>1. /\ doc.gaps \in [Plan!Gaps -> Plan!GapStates]
      /\ new = [doc EXCEPT !.gaps = [doc.gaps EXCEPT ![g] = s]]
  BY DEF Plan!Plans
<1>2. [doc.gaps EXCEPT ![g] = s] \in [Plan!Gaps -> Plan!GapStates]
  BY <1>1
<1>3. new.gaps = [doc.gaps EXCEPT ![g] = s] /\ new.gen = doc.gen /\ new.status = doc.status
  BY <1>1 DEF Plan!Plans
<1>4. new \in Plan!Plans
  BY <1>1, <1>2 DEF Plan!Plans
<1> QED
  BY <1>1, <1>3, <1>4

\* A plan is one after its section's status changed, and differs there alone.
LEMMA PutStatus ==
    ASSUME NEW doc \in Plan!Plans, NEW s \in {"planned", "drafted", "in_review", "final"}
    PROVE  /\ [doc EXCEPT !.status = s] \in Plan!Plans /\ [doc EXCEPT !.status = s].status = s
           /\ [doc EXCEPT !.status = s].gen = doc.gen /\ [doc EXCEPT !.status = s].gaps = doc.gaps
BY DEF Plan!Plans

\* Nobody has asked, and the first plan is live.
LEMMA PlanInit == Init => PlanInv
<1> SUFFICES ASSUME Plan!Init PROVE PlanInv
  BY DEF Init
<1> USE DEF Plan!Init
<1>1. Plan!NewPlan(1) \in Plan!Plans /\ \A g \in Plan!ReviewGaps : Plan!NewPlan(1).gaps[g] = "none"
  BY NewPlanFacts, PlanConstants
<1>2. DoorTypes
  <2>1. Plan!Idle \in Requests
    BY <1>1 DEF Requests, Plan!Idle
  <2>2. thread \in [Threads -> Requests] /\ pings \in Seq(PingLines) /\ plan \in Plan!Plans
    BY <1>1, <2>1
  <2>3. /\ Len(pings) <= MaxPings /\ pending \in 0..MaxRequests /\ requests \in 0..MaxRequests
        /\ crashes \in Nat
    BY PlanConstants
  <2>4. /\ blocked \in BOOLEAN /\ busy \in BOOLEAN /\ guard \in Threads \cup {Nobody}
        /\ accepts \subseteq BOOLEAN /\ clobbered \in BOOLEAN
    OBVIOUS
  <2> QED
    BY <2>2, <2>3, <2>4 DEF DoorTypes
<1>3. Inside
  BY DEF Inside, Plan!Idle
<1>4. Comments = {}
  BY DEF Comments, Plan!Idle
<1>5. Heard
  BY <1>4, FS_EmptySet DEF Heard
<1>6. Agree(pings, plan)
  <2>1. \A g \in Plan!ReviewGaps : plan.gaps[g] # "none" <=> g <= 0
    BY <1>1, PlanConstants
  <2>2. 0 \in 0..MaxReviewGaps /\ DOMAIN pings = {}
    BY PlanConstants
  <2> QED
    BY <2>1, <2>2 DEF Agree
<1>7. Journal
  BY <1>6 DEF Journal, Plan!Idle
<1>8. Stamped
  BY DEF Stamped, Plan!Idle
<1> QED
  BY <1>2, <1>3, <1>5, <1>7, <1>8 DEF PlanInv

\* The door's types hold across every step.
LEMMA PlanTypes == PlanInv /\ Plan!Next => DoorTypes'
<1> SUFFICES ASSUME PlanInv, Plan!Next PROVE DoorTypes'
  OBVIOUS
<1> USE PlanConstants DEF Plan!counts, Plan!history
<1>0. DoorTypes /\ Heard
  BY DEF PlanInv
<1>a. ASSUME NEW t \in Threads, Plan!Leave(t)
      PROVE  thread' \in [Threads -> Requests] /\ guard' = Nobody
  <2>1. Plan!Idle \in Requests
    BY NewPlanFacts DEF Plan!Idle, Requests
  <2> QED
    BY <1>0, <1>a, <2>1 DEF DoorTypes, Plan!Leave
<1>b. ASSUME NEW t \in Threads, NEW doc \in Plan!Plans, Plan!Compose(t, doc)
      PROVE  thread' \in [Threads -> Requests] /\ guard' = guard
  <2>1. thread[t] \in Requests
    BY <1>0 DEF DoorTypes
  <2>2. [[thread[t] EXCEPT !.at = "writing"] EXCEPT !.doc = doc] \in Requests
    BY <2>1 DEF Requests
  <2> QED
    BY <1>0, <1>b, <2>2 DEF DoorTypes, Plan!Compose
<1>c. Plan!Idle \in Requests /\ \A t \in Threads : thread[t].doc \in Plan!Plans
  BY <1>0, NewPlanFacts DEF DoorTypes, Plan!Idle, Requests
<1>1. ASSUME NEW t \in Threads, NEW op \in Plan!Ops, Plan!Arrive(t, op) PROVE DoorTypes'
  <2>1. [at |-> "waiting", op |-> op, doc |-> IF op = "comment" THEN plan ELSE Plan!Idle.doc]
          \in Requests
    BY <1>0, <1>c DEF DoorTypes, Requests
  <2>2. thread' \in [Threads -> Requests] /\ requests' \in 0..MaxRequests
    BY <1>0, <1>1, <2>1 DEF DoorTypes, Plan!Arrive
  <2> QED
    BY <1>0, <1>1, <2>2 DEF DoorTypes, Plan!Arrive
<1>2. ASSUME NEW t \in Threads, Plan!Enter(t) PROVE DoorTypes'
  <2>1. [thread[t] EXCEPT !.at = "in"] \in Requests
    BY <1>0 DEF DoorTypes, Requests
  <2> QED
    BY <1>0, <1>2, <2>1 DEF DoorTypes, Plan!Enter
<1>3. ASSUME NEW t \in Threads, Plan!TurnedAway(t) PROVE DoorTypes'
  BY <1>0, <1>3, <1>c DEF DoorTypes, Plan!TurnedAway
<1>4. ASSUME NEW t \in Threads, Plan!Comment(t) PROVE DoorTypes'
  <2>1. thread' \in [Threads -> Requests] /\ guard' \in Threads \cup {Nobody}
    <3>1. CASE Plan!Reviewable(thread[t].doc)
      <4>1. [thread[t].doc EXCEPT !.status = "in_review"] \in Plan!Plans
        BY <1>c, PutStatus
      <4> QED
        BY <1>0, <1>4, <1>b, <3>1, <4>1 DEF DoorTypes, Plan!Comment
    <3> QED
      BY <1>4, <1>a, <3>1 DEF Plan!Comment
  <2>2. pending' \in 0..MaxRequests
    <3>1. t \in Comments
      BY <1>4 DEF Plan!Comment, Plan!In, Comments
    <3>2. Cardinality(Comments) \in Nat /\ Cardinality(Comments) # 0
      BY <1>0, <3>1, FS_CardinalityType, FS_EmptySet DEF Heard
    <3> QED
      BY <1>0, <1>4, <3>2 DEF DoorTypes, Plan!Comment, Heard
  <2>3. clobbered' \in BOOLEAN /\ UNCHANGED <<plan, pings, blocked, busy, jobs, requests, crashes, accepts>>
    BY <1>0, <1>4 DEF DoorTypes, Plan!Comment
  <2> QED
    BY <1>0, <2>1, <2>2, <2>3 DEF DoorTypes
<1>5. ASSUME NEW t \in Threads, NEW g \in Plan!Gaps, Plan!Ping(t, g) PROVE DoorTypes'
  <2>1. [plan EXCEPT !.gaps[g] = "pinged"] \in Plan!Plans
    BY <1>0, PutGap DEF DoorTypes, Plan!GapStates
  <2>2. thread' \in [Threads -> Requests] /\ guard' = guard
    BY <1>5, <1>b, <2>1 DEF Plan!Ping
  <2>3. [gap |-> g, gen |-> plan.gen, answered |-> FALSE] \in PingLines
    BY <1>0 DEF DoorTypes, Plan!Plans, PingLines
  <2>4. pings' \in Seq(PingLines) /\ Len(pings') <= MaxPings
    BY <1>0, <1>5, <2>3, AppendProperties DEF DoorTypes, Plan!Ping
  <2> QED
    BY <1>0, <1>5, <2>2, <2>4 DEF DoorTypes, Plan!Ping
<1>6. ASSUME NEW t \in Threads, NEW k \in DOMAIN pings, Plan!Answer(t, k) PROVE DoorTypes'
  <2>1. k \in 1..Len(pings) /\ pings[k] \in PingLines
    BY <1>0 DEF DoorTypes
  <2>2. pings[k].gap \in Plan!Gaps /\ [pings[k] EXCEPT !.answered = TRUE] \in PingLines
    BY <2>1 DEF PingLines
  <2>3. [plan EXCEPT !.gaps[pings[k].gap] = "answered"] \in Plan!Plans
    BY <1>0, <2>2, PutGap DEF DoorTypes, Plan!GapStates
  <2>4. thread' \in [Threads -> Requests] /\ guard' = guard
    BY <1>6, <1>b, <2>3 DEF Plan!Answer, Plan!Settled
  <2>5. pings' \in Seq(PingLines) /\ Len(pings') <= MaxPings
    BY <1>0, <1>6, <2>1, <2>2, ExceptSeq DEF DoorTypes, Plan!Answer
  <2> QED
    BY <1>0, <1>6, <2>4, <2>5 DEF DoorTypes, Plan!Answer
<1>7. ASSUME NEW t \in Threads, Plan!OpenGap(t) PROVE DoorTypes'
  <2> DEFINE n == 1 + Plan!Cardinality({g \in Plan!ReviewGaps : plan.gaps[g] # "none"})
  <2>1. n \in Plan!ReviewGaps /\ Plan!Compose(t, [plan EXCEPT !.gaps[n] = "open"])
    BY <1>7 DEF Plan!OpenGap
  <2> HIDE DEF n
  <2>2. [plan EXCEPT !.gaps[n] = "open"] \in Plan!Plans
    BY <1>0, <2>1, PutGap DEF DoorTypes, Plan!GapStates
  <2> QED
    BY <1>0, <1>7, <1>b, <2>1, <2>2 DEF DoorTypes, Plan!OpenGap
<1>8. ASSUME NEW t \in Threads, NEW g \in Plan!Gaps, Plan!Dispose(t, g) PROVE DoorTypes'
  <2>1. [plan EXCEPT !.gaps[g] = "disposed"] \in Plan!Plans
    BY <1>0, PutGap DEF DoorTypes, Plan!GapStates
  <2> QED
    BY <1>0, <1>8, <1>b, <2>1 DEF DoorTypes, Plan!Dispose
<1>9. ASSUME NEW t \in Threads, Plan!Accept(t) PROVE DoorTypes'
  <2>1. [plan EXCEPT !.status = "final"] \in Plan!Plans
    BY <1>0, PutStatus DEF DoorTypes
  <2> QED
    BY <1>0, <1>9, <1>b, <2>1 DEF DoorTypes, Plan!Accept
<1>10. ASSUME NEW t \in Threads, Plan!Refuse(t) PROVE DoorTypes'
  BY <1>0, <1>10, <1>a DEF DoorTypes, Plan!Refuse
<1>11. ASSUME NEW t \in Threads, Plan!WritePlan(t) PROVE DoorTypes'
  BY <1>0, <1>11, <1>a, <1>c DEF DoorTypes, Plan!WritePlan
<1>12. CASE Plan!JobSubmit \/ Plan!JobEnd
  BY <1>0, <1>12 DEF DoorTypes, Plan!JobSubmit, Plan!JobEnd
<1>13. ASSUME NEW again \in BOOLEAN, NEW verdict \in BOOLEAN, Plan!JobCommit(again, verdict)
       PROVE  DoorTypes'
  <2>1. plan' \in Plan!Plans
    <3>1. CASE again
      <4>1. plan' = Plan!NewPlan(plan.gen + 1) /\ plan'.gen <= MaxJobs + 1
        BY <1>13, <3>1 DEF Plan!JobCommit
      <4>2. plan.gen \in Nat /\ plan'.gen = plan.gen + 1 /\ plan.gen >= 1
        BY <1>0, <4>1 DEF DoorTypes, Plan!Plans, Plan!NewPlan
      <4> QED
        BY <4>1, <4>2, NewPlanFacts
    <3>2. CASE ~again
      BY <1>0, <1>13, <3>2, PutStatus DEF DoorTypes, Plan!JobCommit
    <3> QED
      BY <3>1, <3>2
  <2>2. /\ pending' = 0 /\ blocked' = verdict
        /\ UNCHANGED <<pings, guard, busy, thread, jobs, requests, crashes, accepts, clobbered>>
    BY <1>13 DEF Plan!JobCommit
  <2> QED
    BY <1>0, <2>1, <2>2 DEF DoorTypes
<1>14. CASE Plan!Crash
  <2>1. thread' = [t \in Threads |-> Plan!Idle] /\ crashes' = crashes + 1
    BY <1>14 DEF Plan!Crash
  <2>2. thread' \in [Threads -> Requests] /\ crashes' \in Nat
    BY <1>0, <1>c, <2>1 DEF DoorTypes
  <2>3. /\ guard' = Nobody /\ busy' = FALSE
        /\ UNCHANGED <<plan, pings, pending, blocked, requests, accepts, clobbered>>
    BY <1>14 DEF Plan!Crash
  <2> QED
    BY <1>0, <2>2, <2>3 DEF DoorTypes
<1> QED
  BY <1>1, <1>2, <1>3, <1>4, <1>5, <1>6, <1>7, <1>8, <1>9, <1>10, <1>11, <1>12, <1>13, <1>14
     DEF Plan!Next, Plan!Handle

\* A thread that steps, and the others: what a request's step does to where threads are.
LEMMA ThreadsMove ==
    ASSUME DoorTypes, NEW t \in Threads
    PROVE  /\ Plan!Leave(t) => /\ guard' = Nobody
                               /\ \A s \in Threads : thread'[s] = IF s = t THEN Plan!Idle ELSE thread[s]
           /\ \A doc : Plan!Compose(t, doc) =>
                 /\ guard' = guard
                 /\ \A s \in Threads : s # t => thread'[s] = thread[s]
                 /\ thread'[t].at = "writing" /\ thread'[t].doc = doc /\ thread'[t].op = thread[t].op
<1>1. thread \in [Threads -> Requests] /\ thread[t] \in Requests
  BY DEF DoorTypes
<1>2. ASSUME NEW doc, Plan!Compose(t, doc)
      PROVE  /\ guard' = guard
             /\ \A s \in Threads : s # t => thread'[s] = thread[s]
             /\ thread'[t].at = "writing" /\ thread'[t].doc = doc /\ thread'[t].op = thread[t].op
  <2>1. thread' = [thread EXCEPT ![t] = [[thread[t] EXCEPT !.at = "writing"] EXCEPT !.doc = doc]]
    BY <1>1, <1>2 DEF Plan!Compose
  <2>2. thread'[t] = [[thread[t] EXCEPT !.at = "writing"] EXCEPT !.doc = doc]
    BY <1>1, <2>1
  <2>3. thread'[t].at = "writing" /\ thread'[t].doc = doc /\ thread'[t].op = thread[t].op
    BY <1>1, <2>2 DEF Requests
  <2> QED
    BY <1>1, <1>2, <2>1, <2>3 DEF Plan!Compose
<1> QED
  BY <1>1, <1>2 DEF Plan!Leave

\* What every step of the door is: the guard and the threads, by kind of step.
Composed(t, doc) ==
    /\ thread[t].at = "in" /\ guard' = guard
    /\ \A s \in Threads : s # t => thread'[s] = thread[s]
    /\ thread'[t].at = "writing" /\ thread'[t].doc = doc /\ thread'[t].op = thread[t].op
Left(t) ==
    /\ thread[t].at \in {"in", "writing"} /\ guard' = Nobody
    /\ \A s \in Threads : thread'[s] = IF s = t THEN Plan!Idle ELSE thread[s]

\* A comment, an open gap and an accept read their document, compose a new one, or leave.
LEMMA Composes ==
    ASSUME DoorTypes, NEW t \in Threads
    PROVE  /\ Plan!Comment(t) =>
                 /\ thread[t].op = "comment"
                 /\ IF thread[t].doc.status = "drafted"
                    THEN Composed(t, [thread[t].doc EXCEPT !.status = "in_review"]) ELSE Left(t)
           /\ Plan!OpenGap(t) => thread[t].op = "open" /\ \E doc : Composed(t, doc)
           /\ Plan!Accept(t) => thread[t].op = "accept" /\ Composed(t, [plan EXCEPT !.status = "final"])
           /\ Plan!Refuse(t) => thread[t].op # "comment" /\ Left(t)
           /\ Plan!WritePlan(t) => thread[t].at = "writing" /\ Left(t)
           /\ \A g : Plan!Ping(t, g) =>
                 thread[t].op = "ping" /\ Composed(t, [plan EXCEPT !.gaps[g] = "pinged"])
           /\ \A g : Plan!Dispose(t, g) =>
                 thread[t].op = "dispose" /\ Composed(t, [plan EXCEPT !.gaps[g] = "disposed"])
           /\ \A k : Plan!Answer(t, k) =>
                 thread[t].op = "answer" /\ Composed(t, [plan EXCEPT !.gaps[pings[k].gap] = "answered"])
<1>1. /\ Plan!Leave(t) => /\ guard' = Nobody
                          /\ \A s \in Threads : thread'[s] = IF s = t THEN Plan!Idle ELSE thread[s]
      /\ \A doc : Plan!Compose(t, doc) =>
            /\ guard' = guard
            /\ \A s \in Threads : s # t => thread'[s] = thread[s]
            /\ thread'[t].at = "writing" /\ thread'[t].doc = doc /\ thread'[t].op = thread[t].op
  BY ThreadsMove
<1>2. Plan!Comment(t) =>
         /\ thread[t].op = "comment"
         /\ IF thread[t].doc.status = "drafted"
            THEN Composed(t, [thread[t].doc EXCEPT !.status = "in_review"]) ELSE Left(t)
  BY <1>1 DEF Plan!Comment, Plan!In, Plan!Reviewable, Composed, Left
<1>3. /\ Plan!OpenGap(t) => thread[t].op = "open" /\ \E doc : Composed(t, doc)
      /\ Plan!Accept(t) => thread[t].op = "accept" /\ Composed(t, [plan EXCEPT !.status = "final"])
  BY <1>1 DEF Plan!OpenGap, Plan!Accept, Plan!In, Composed
<1>4. /\ Plan!Refuse(t) => thread[t].op # "comment" /\ Left(t)
      /\ Plan!WritePlan(t) => thread[t].at = "writing" /\ Left(t)
  BY <1>1 DEF Plan!Refuse, Plan!WritePlan, Left
<1>5. ASSUME NEW g
      PROVE  /\ Plan!Ping(t, g) =>
                   thread[t].op = "ping" /\ Composed(t, [plan EXCEPT !.gaps[g] = "pinged"])
             /\ Plan!Dispose(t, g) =>
                   thread[t].op = "dispose" /\ Composed(t, [plan EXCEPT !.gaps[g] = "disposed"])
  BY <1>1 DEF Plan!Ping, Plan!Dispose, Plan!In, Composed
<1>6. ASSUME NEW k
      PROVE  Plan!Answer(t, k) =>
                thread[t].op = "answer" /\ Composed(t, [plan EXCEPT !.gaps[pings[k].gap] = "answered"])
  BY <1>1 DEF Plan!Answer, Plan!In, Plan!Settled, Composed
<1> QED
  BY <1>2, <1>3, <1>4, <1>5, <1>6

\* The guard keeps one request inside, across every step.
LEMMA PlanInside == PlanInv /\ Plan!Next => Inside'
<1> SUFFICES ASSUME PlanInv, Plan!Next PROVE Inside'
  OBVIOUS
<1>0. DoorTypes /\ Inside /\ Nobody \notin Threads
  BY PlanConstants DEF PlanInv
<1>a. ASSUME NEW t \in Threads, Left(t) PROVE Inside'
  <2>1. \A s \in Threads : s # t => thread[s].at \notin {"in", "writing"}
    BY <1>0, <1>a DEF Inside, Left
  <2> QED
    BY <1>a, <2>1 DEF Inside, Left, Plan!Idle
<1>b. ASSUME NEW t \in Threads, NEW doc, Composed(t, doc) PROVE Inside'
  BY <1>0, <1>b DEF Inside, Composed
<1>1. ASSUME NEW t \in Threads, NEW op \in Plan!Ops, Plan!Arrive(t, op) PROVE Inside'
  BY <1>0, <1>1 DEF Inside, DoorTypes, Plan!Arrive
<1>2. ASSUME NEW t \in Threads, Plan!Enter(t) PROVE Inside'
  <2>1. \A s \in Threads : thread[s].at \notin {"in", "writing"}
    BY <1>0, <1>2 DEF Inside, Plan!Enter
  <2> QED
    BY <1>0, <1>2, <2>1 DEF Inside, DoorTypes, Plan!Enter
<1>3. ASSUME NEW t \in Threads, Plan!TurnedAway(t) PROVE Inside'
  BY <1>0, <1>3 DEF Inside, DoorTypes, Plan!TurnedAway, Plan!Idle
<1>4. ASSUME NEW t \in Threads, Plan!Comment(t) PROVE Inside'
  BY <1>0, <1>4, <1>a, <1>b, Composes
<1>5. ASSUME NEW t \in Threads, Plan!OpenGap(t) PROVE Inside'
  BY <1>0, <1>5, <1>b, Composes
<1>6. ASSUME NEW t \in Threads, Plan!Accept(t) \/ Plan!Refuse(t) \/ Plan!WritePlan(t) PROVE Inside'
  BY <1>0, <1>6, <1>a, <1>b, Composes
<1>7. ASSUME NEW t \in Threads, NEW g \in Plan!Gaps, Plan!Ping(t, g) \/ Plan!Dispose(t, g)
      PROVE  Inside'
  BY <1>0, <1>7, <1>b, Composes
<1>8. ASSUME NEW t \in Threads, NEW k \in DOMAIN pings, Plan!Answer(t, k) PROVE Inside'
  BY <1>0, <1>8, <1>b, Composes
<1>9. ASSUME NEW again \in BOOLEAN, NEW verdict \in BOOLEAN, Plan!JobCommit(again, verdict)
      PROVE  Inside'
  BY <1>0, <1>9 DEF Inside, Plan!JobCommit
<1>10. CASE Plan!JobSubmit \/ Plan!JobEnd
  BY <1>0, <1>10 DEF Inside, Plan!JobSubmit, Plan!JobEnd
<1>11. CASE Plan!Crash
  BY <1>0, <1>11 DEF Inside, Plan!Crash, Plan!Idle
<1> QED
  BY <1>1, <1>2, <1>3, <1>4, <1>5, <1>6, <1>7, <1>8, <1>9, <1>10, <1>11
     DEF Plan!Next, Plan!Handle

\* Every comment is still counted after a step.
LEMMA PlanHeard == PlanInv /\ Plan!Next => Heard'
<1> SUFFICES ASSUME PlanInv, Plan!Next PROVE Heard'
  OBVIOUS
<1>0. DoorTypes /\ Heard /\ pending \in Nat /\ requests \in Nat /\ Cardinality(Comments) \in Nat
  BY PlanConstants, FS_CardinalityType DEF PlanInv, DoorTypes, Heard
<1>a. ASSUME Comments' = Comments, pending' \in 0..pending, requests' \in Nat, requests' >= requests
      PROVE  Heard'
  BY <1>0, <1>a DEF Heard
<1>b. ASSUME NEW t \in Threads, Comments' = Comments \ {t}, UNCHANGED <<pending, requests>>
      PROVE  Heard'
  <2>1. IsFiniteSet(Comments \ {t}) /\ Cardinality(Comments \ {t}) <= Cardinality(Comments)
        /\ Cardinality(Comments \ {t}) \in Nat
    <3> DEFINE C == Comments
    <3>1. IsFiniteSet(C) /\ C \ {t} \in SUBSET C
      BY <1>0 DEF Heard
    <3> HIDE DEF C
    <3>2. IsFiniteSet(C \ {t}) /\ Cardinality(C \ {t}) <= Cardinality(C)
      BY <3>1, FS_Subset
    <3>3. Cardinality(C \ {t}) \in Nat
      BY <3>2, FS_CardinalityType
    <3> QED
      BY <3>2, <3>3 DEF C
  <2> QED
    BY <1>0, <1>b, <2>1 DEF Heard
<1>c. ASSUME NEW t \in Threads, Left(t) PROVE Comments' = Comments \ {t}
  BY <1>c DEF Comments, Left, Plan!Idle
<1>d. ASSUME NEW t \in Threads, NEW doc, Composed(t, doc) PROVE Comments' = Comments \ {t}
  BY <1>d DEF Comments, Composed
<1>e. ASSUME NEW t \in Threads, thread[t].op # "comment" \/ thread[t].at \notin {"waiting", "in"}
      PROVE  Comments \ {t} = Comments
  BY <1>e DEF Comments
<1>1. ASSUME NEW t \in Threads, NEW op \in Plan!Ops, Plan!Arrive(t, op) PROVE Heard'
  <2>1. t \notin Comments /\ UNCHANGED pending /\ requests' = requests + 1
    BY <1>1 DEF Comments, Plan!Arrive
  <2>2. Comments' = IF op = "comment" THEN Comments \cup {t} ELSE Comments
    BY <1>0, <1>1 DEF Comments, Plan!Arrive, DoorTypes
  <2>3. IsFiniteSet(Comments \cup {t}) /\ Cardinality(Comments \cup {t}) = Cardinality(Comments) + 1
    BY <1>0, <2>1, FS_AddElement DEF Heard
  <2> QED
    BY <1>0, <2>1, <2>2, <2>3 DEF Heard
<1>2. ASSUME NEW t \in Threads, Plan!Enter(t) PROVE Heard'
  <2>1. Comments' = Comments
    BY <1>0, <1>2 DEF Comments, Plan!Enter, DoorTypes, Requests
  <2> QED
    BY <1>0, <1>2, <1>a, <2>1 DEF Plan!Enter, Plan!counts
<1>3. ASSUME NEW t \in Threads, Plan!TurnedAway(t) PROVE Heard'
  <2>1. Comments' = Comments \ {t}
    BY <1>0, <1>3 DEF Comments, Plan!TurnedAway, DoorTypes, Plan!Idle
  <2> QED
    BY <1>3, <1>b, <2>1 DEF Plan!TurnedAway, Plan!counts
<1>4. ASSUME NEW t \in Threads, Plan!Comment(t) PROVE Heard'
  <2>1. Comments' = Comments \ {t} /\ t \in Comments
    BY <1>0, <1>4, <1>c, <1>d, Composes DEF Comments, Plan!Comment, Plan!In
  <2>2. IsFiniteSet(Comments \ {t}) /\ Cardinality(Comments \ {t}) = Cardinality(Comments) - 1
    BY <1>0, <2>1, FS_RemoveElement DEF Heard
  <2>3. pending' = pending + 1 /\ requests' = requests
    BY <1>4 DEF Plan!Comment, Plan!counts
  <2> QED
    BY <1>0, <2>1, <2>2, <2>3 DEF Heard
<1>5. ASSUME NEW t \in Threads, Plan!OpenGap(t) PROVE Heard'
  <2>1. Comments' = Comments \ {t}
    BY <1>0, <1>5, <1>d, Composes
  <2> QED
    BY <1>5, <1>b, <2>1 DEF Plan!OpenGap, Plan!counts
<1>6. ASSUME NEW t \in Threads, Plan!Accept(t) \/ Plan!Refuse(t) \/ Plan!WritePlan(t) PROVE Heard'
  <2>1. Comments' = Comments \ {t}
    BY <1>0, <1>6, <1>c, <1>d, Composes
  <2> QED
    BY <1>6, <1>b, <2>1 DEF Plan!Accept, Plan!Refuse, Plan!WritePlan, Plan!counts
<1>7. ASSUME NEW t \in Threads, NEW g \in Plan!Gaps, Plan!Ping(t, g) \/ Plan!Dispose(t, g)
      PROVE  Heard'
  <2>1. Comments' = Comments \ {t}
    BY <1>0, <1>7, <1>d, Composes
  <2> QED
    BY <1>7, <1>b, <2>1 DEF Plan!Ping, Plan!Dispose, Plan!counts
<1>8. ASSUME NEW t \in Threads, NEW k \in DOMAIN pings, Plan!Answer(t, k) PROVE Heard'
  <2>1. Comments' = Comments \ {t}
    BY <1>0, <1>8, <1>d, Composes
  <2> QED
    BY <1>8, <1>b, <2>1 DEF Plan!Answer, Plan!counts
<1>9. ASSUME NEW again \in BOOLEAN, NEW verdict \in BOOLEAN, Plan!JobCommit(again, verdict)
      PROVE  Heard'
  <2>1. Comments' = Comments /\ pending' = 0 /\ UNCHANGED requests
    BY <1>9 DEF Comments, Plan!JobCommit, Plan!counts
  <2> QED
    BY <1>0, <1>a, <2>1
<1>10. CASE Plan!JobSubmit \/ Plan!JobEnd
  <2>1. Comments' = Comments /\ UNCHANGED <<pending, requests>>
    BY <1>10 DEF Comments, Plan!JobSubmit, Plan!JobEnd, Plan!counts
  <2> QED
    BY <1>0, <1>a, <2>1
<1>11. CASE Plan!Crash
  <2>1. Comments' = {} /\ UNCHANGED <<pending, requests>>
    BY <1>11 DEF Comments, Plan!Crash, Plan!Idle
  <2> QED
    BY <1>0, <2>1, FS_EmptySet DEF Heard
<1> QED
  BY <1>1, <1>2, <1>3, <1>4, <1>5, <1>6, <1>7, <1>8, <1>9, <1>10, <1>11
     DEF Plan!Next, Plan!Handle

\* The lines of a journal are lines.
LEMMA LinesOfJournal ==
    ASSUME NEW ps \in Seq(PingLines)
    PROVE  \A k \in DOMAIN ps : /\ ps[k] \in PingLines /\ ps[k].gap \in Plan!Gaps
                                /\ ps[k].gen \in 1..MaxJobs + 1 /\ ps[k].answered \in BOOLEAN
<1>1. \A k \in DOMAIN ps : ps[k] \in PingLines
  OBVIOUS
<1> QED
  BY <1>1 DEF PingLines

\* A plan of the same generation and gaps agrees with the same journal.
LEMMA AgreeSame ==
    ASSUME NEW ps, NEW doc, NEW new, Agree(ps, doc), new.gen = doc.gen, new.gaps = doc.gaps
    PROVE  Agree(ps, new)
BY DEF Agree

\* A gap that waits is disposed of, and no answered line is about it.
LEMMA AgreeDispose ==
    ASSUME NEW ps \in Seq(PingLines), NEW doc \in Plan!Plans, NEW g \in Plan!Gaps, Agree(ps, doc),
           doc.gaps[g] \in {"open", "pinged"}
    PROVE  Agree(ps, [doc EXCEPT !.gaps[g] = "disposed"])
<1> DEFINE new == [doc EXCEPT !.gaps[g] = "disposed"]
<1>1. /\ new.gen = doc.gen
      /\ \A h \in Plan!Gaps : new.gaps[h] = IF h = g THEN "disposed" ELSE doc.gaps[h]
  BY PutGap DEF Plan!GapStates
<1>2. \A k \in DOMAIN ps : ps[k].gap \in Plan!Gaps
  BY LinesOfJournal
<1>3. Plan!ReviewGaps \subseteq Plan!Gaps
  BY PlanConstants
<1> HIDE DEF new
<1>4. Agree(ps, new)
  <2>1. \A h \in Plan!Gaps : new.gaps[h] # "none" <=> doc.gaps[h] # "none"
    BY <1>1
  <2> QED
    BY <1>1, <1>2, <1>3, <2>1 DEF Agree
<1> QED
  BY <1>4 DEF new

\* A gap that is open has no line of this plan yet, and a ping gives it one.
LEMMA AgreePing ==
    ASSUME NEW ps \in Seq(PingLines), NEW doc \in Plan!Plans, NEW g \in Plan!Gaps, Agree(ps, doc),
           doc.gaps[g] = "open"
    PROVE  Agree(Append(ps, [gap |-> g, gen |-> doc.gen, answered |-> FALSE]),
                 [doc EXCEPT !.gaps[g] = "pinged"])
<1> DEFINE new == [doc EXCEPT !.gaps[g] = "pinged"]
           line == [gap |-> g, gen |-> doc.gen, answered |-> FALSE]
           qs == Append(ps, line)
<1>1. /\ new.gen = doc.gen /\ doc.gen \in Nat
      /\ \A h \in Plan!Gaps : new.gaps[h] = IF h = g THEN "pinged" ELSE doc.gaps[h]
  BY PutGap, PlanConstants DEF Plan!GapStates, Plan!Plans
<1>2. \A k \in DOMAIN ps : ps[k].gap \in Plan!Gaps /\ ps[k].answered \in BOOLEAN
  BY LinesOfJournal
<1>3. Plan!ReviewGaps \subseteq Plan!Gaps
  BY PlanConstants
<1>4. line.gap = g /\ line.gen = doc.gen /\ line.answered = FALSE /\ line \in PingLines
  BY DEF PingLines, Plan!Plans
<1> HIDE DEF new, line
<1>5. /\ DOMAIN ps = 1..Len(ps) /\ DOMAIN qs = 1..Len(ps) + 1 /\ Len(ps) \in Nat
      /\ \A k \in DOMAIN ps : qs[k] = ps[k]
      /\ qs[Len(ps) + 1] = line
  BY <1>4, AppendProperties
<1> HIDE DEF qs
<1>6. \A k \in DOMAIN qs : k \in DOMAIN ps \/ k = Len(ps) + 1
  BY <1>5
<1>7. \A k \in DOMAIN ps : ps[k].gen = doc.gen => ps[k].gap # g
  BY <1>2 DEF Agree
<1>8. \A h \in Plan!Gaps : new.gaps[h] # "none" <=> doc.gaps[h] # "none"
  BY <1>1
<1>9. \A k \in DOMAIN qs : qs[k].gen <= new.gen
  BY <1>1, <1>4, <1>5, <1>6 DEF Agree
<1>10. \A k \in DOMAIN qs : qs[k].gen = new.gen =>
          /\ qs[k].answered => new.gaps[qs[k].gap] = "answered"
          /\ ~qs[k].answered => new.gaps[qs[k].gap] \notin {"none", "open"}
  BY <1>1, <1>2, <1>4, <1>5, <1>6, <1>7 DEF Agree
<1>11. \A j, k \in DOMAIN qs :
          qs[j].gen = new.gen /\ qs[k].gen = new.gen /\ qs[j].gap = qs[k].gap
          /\ ~qs[j].answered /\ ~qs[k].answered => j = k
  BY <1>1, <1>2, <1>4, <1>5, <1>6, <1>7 DEF Agree
<1>12. \E m \in 0..MaxReviewGaps : \A h \in Plan!ReviewGaps : new.gaps[h] # "none" <=> h <= m
  BY <1>3, <1>8 DEF Agree
<1>13. Agree(qs, new)
  BY <1>9, <1>10, <1>11, <1>12 DEF Agree
<1> QED
  BY <1>13 DEF qs, new, line

\* A line is answered, and its gap with it, whatever the gap's status was.
LEMMA AgreeAnswer ==
    ASSUME NEW ps \in Seq(PingLines), NEW doc \in Plan!Plans, NEW k \in DOMAIN ps, Agree(ps, doc),
           doc.gaps[ps[k].gap] # "none"
    PROVE  Agree([ps EXCEPT ![k].answered = TRUE], [doc EXCEPT !.gaps[ps[k].gap] = "answered"])
<1> DEFINE g == ps[k].gap
           new == [doc EXCEPT !.gaps[g] = "answered"]
           qs == [ps EXCEPT ![k].answered = TRUE]
<1>1. k \in 1..Len(ps) /\ ps[k] \in PingLines
  OBVIOUS
<1>2. g \in Plan!Gaps
  BY <1>1 DEF PingLines
<1>3. /\ new.gen = doc.gen
      /\ \A h \in Plan!Gaps : new.gaps[h] = IF h = g THEN "answered" ELSE doc.gaps[h]
  BY <1>2, PutGap DEF Plan!GapStates
<1>4. \A j \in DOMAIN ps : ps[j].gap \in Plan!Gaps /\ ps[j].answered \in BOOLEAN
  BY LinesOfJournal
<1>5. /\ DOMAIN qs = DOMAIN ps
      /\ \A j \in DOMAIN ps : qs[j] = IF j = k THEN [ps[k] EXCEPT !.answered = TRUE] ELSE ps[j]
  BY <1>1
<1>6. \A j \in DOMAIN ps : /\ qs[j].gap = ps[j].gap /\ qs[j].gen = ps[j].gen
                           /\ qs[j].answered = (ps[j].answered \/ j = k)
  <2>1. /\ [ps[k] EXCEPT !.answered = TRUE].gap = ps[k].gap
        /\ [ps[k] EXCEPT !.answered = TRUE].gen = ps[k].gen
        /\ [ps[k] EXCEPT !.answered = TRUE].answered = TRUE
    BY <1>1 DEF PingLines
  <2> HIDE DEF qs
  <2> QED
    BY <1>4, <1>5, <2>1
<1>7. Plan!ReviewGaps \subseteq Plan!Gaps
  BY PlanConstants
<1> HIDE DEF new, qs, g
<1>8. \A h \in Plan!Gaps : new.gaps[h] # "none" <=> doc.gaps[h] # "none"
  BY <1>2, <1>3 DEF g
<1>9. \A j \in DOMAIN qs : qs[j].gen <= new.gen
  BY <1>3, <1>5, <1>6 DEF Agree
<1>10. \A j \in DOMAIN qs : qs[j].gen = new.gen =>
          /\ qs[j].answered => new.gaps[qs[j].gap] = "answered"
          /\ ~qs[j].answered => new.gaps[qs[j].gap] \notin {"none", "open"}
  BY <1>3, <1>4, <1>5, <1>6 DEF Agree, g
<1>11. \A i, j \in DOMAIN qs :
          qs[i].gen = new.gen /\ qs[j].gen = new.gen /\ qs[i].gap = qs[j].gap
          /\ ~qs[i].answered /\ ~qs[j].answered => i = j
  <2>1. \A i, j \in DOMAIN ps :
           ps[i].gen = doc.gen /\ ps[j].gen = doc.gen /\ ps[i].gap = ps[j].gap
           /\ ~ps[i].answered /\ ~ps[j].answered => i = j
    BY DEF Agree
  <2>2. DOMAIN qs = DOMAIN ps /\ new.gen = doc.gen
    BY <1>3, <1>5
  <2> QED
    BY ONLY <1>6, <2>1, <2>2
<1>12. \E m \in 0..MaxReviewGaps : \A h \in Plan!ReviewGaps : new.gaps[h] # "none" <=> h <= m
  BY <1>7, <1>8 DEF Agree
<1>13. Agree(qs, new)
  BY <1>9, <1>10, <1>11, <1>12 DEF Agree
<1> QED
  BY <1>13 DEF qs, new, g

\* The review gap that is opened is the first that is not there, and no line is about it.
LEMMA AgreeOpen ==
    ASSUME NEW ps \in Seq(PingLines), NEW doc \in Plan!Plans, NEW n \in Plan!ReviewGaps,
           Agree(ps, doc),
           n = 1 + Plan!Cardinality({g \in Plan!ReviewGaps : doc.gaps[g] # "none"})
    PROVE  Agree(ps, [doc EXCEPT !.gaps[n] = "open"])
<1> DEFINE new == [doc EXCEPT !.gaps[n] = "open"]
<1>1. PICK m \in 0..MaxReviewGaps : \A g \in Plan!ReviewGaps : doc.gaps[g] # "none" <=> g <= m
  BY DEF Agree
<1>2. n = 1 + m
  <2>1. {g \in Plan!ReviewGaps : doc.gaps[g] # "none"} = 1..m
    BY <1>1, PlanConstants
  <2>2. Cardinality(1..m) = m
    BY <1>1, PlanConstants, FS_Interval
  <2> QED
    BY <2>1, <2>2, PlanCardinality
<1>3. n \in Plan!Gaps /\ doc.gaps[n] = "none" /\ m + 1 \in 0..MaxReviewGaps
  <2>1. m \in Nat /\ n \in 1..MaxReviewGaps /\ m <= MaxReviewGaps /\ n = m + 1
    BY <1>2, PlanConstants
  <2>2. n \in Plan!Gaps /\ m + 1 \in 0..MaxReviewGaps /\ ~(n <= m)
    BY <2>1, PlanConstants
  <2>3. n \in Plan!ReviewGaps
    OBVIOUS
  <2> QED
    BY <1>1, <2>2, <2>3
<1>4. /\ new.gen = doc.gen
      /\ \A h \in Plan!Gaps : new.gaps[h] = IF h = n THEN "open" ELSE doc.gaps[h]
  BY <1>3, PutGap DEF Plan!GapStates
<1>5. \A k \in DOMAIN ps : ps[k].gap \in Plan!Gaps /\ ps[k].answered \in BOOLEAN
  BY LinesOfJournal
<1> HIDE DEF new
<1>6. \A k \in DOMAIN ps : ps[k].gen = doc.gen => ps[k].gap # n
  BY <1>3, <1>5 DEF Agree
<1>7. \A g \in Plan!ReviewGaps : new.gaps[g] # "none" <=> g <= m + 1
  <2> SUFFICES ASSUME NEW g \in Plan!ReviewGaps PROVE new.gaps[g] # "none" <=> g <= m + 1
    OBVIOUS
  <2>1. g \in Plan!Gaps /\ g \in Nat /\ m \in Nat /\ n = m + 1
    BY <1>2, PlanConstants
  <2>2. new.gaps[g] = IF g = n THEN "open" ELSE doc.gaps[g]
    BY <1>4, <2>1
  <2> QED
    BY <1>1, <2>1, <2>2
<1>8. Agree(ps, new)
  BY <1>3, <1>4, <1>5, <1>6, <1>7 DEF Agree
<1> QED
  BY <1>8 DEF new

\* A new plan has no line yet.
LEMMA AgreeNew ==
    ASSUME NEW ps \in Seq(PingLines), NEW doc \in Plan!Plans, Agree(ps, doc),
           doc.gen + 1 \in 1..MaxJobs + 1
    PROVE  Agree(ps, Plan!NewPlan(doc.gen + 1))
<1> DEFINE new == Plan!NewPlan(doc.gen + 1)
<1>1. new.gen = doc.gen + 1 /\ \A g \in Plan!ReviewGaps : new.gaps[g] = "none"
  BY NewPlanFacts
<1>2. doc.gen \in Nat /\ \A k \in DOMAIN ps : ps[k].gen \in Nat /\ ps[k].gen <= doc.gen
  <2>1. doc.gen \in Nat /\ \A k \in DOMAIN ps : ps[k].gen \in Nat
    BY PlanConstants, LinesOfJournal DEF Plan!Plans
  <2> QED
    BY <2>1 DEF Agree
<1> HIDE DEF new
<1>3. \A k \in DOMAIN ps : ps[k].gen < new.gen
  BY <1>1, <1>2
<1>4. 0 \in 0..MaxReviewGaps /\ \A g \in Plan!ReviewGaps : new.gaps[g] # "none" <=> g <= 0
  BY <1>1, PlanConstants
<1>5. Agree(ps, new)
  BY <1>1, <1>2, <1>3, <1>4 DEF Agree
<1> QED
  BY <1>5 DEF new

\* The journal and the live plan agree after every step.
LEMMA PlanJournal == PlanInv /\ Plan!Next => Journal'
<1> SUFFICES ASSUME PlanInv, Plan!Next, ~clobbered', crashes' = 0
             PROVE  /\ (\A t \in Threads : thread'[t].at # "writing") => Agree(pings', plan')
                    /\ \A t \in Threads : thread'[t].at = "writing" =>
                          Agree(pings', thread'[t].doc) /\ thread'[t].doc.gen = plan'.gen
  BY DEF Journal
<1> DEFINE Goal == /\ (\A t \in Threads : thread'[t].at # "writing") => Agree(pings', plan')
                   /\ \A t \in Threads : thread'[t].at = "writing" =>
                         Agree(pings', thread'[t].doc) /\ thread'[t].doc.gen = plan'.gen
<1>0. /\ DoorTypes /\ Inside /\ Nobody \notin Threads /\ crashes \in Nat
      /\ plan \in Plan!Plans /\ pings \in Seq(PingLines)
      /\ \A t \in Threads : thread[t] \in Requests
  BY PlanConstants DEF PlanInv, DoorTypes
<1>k. ASSUME ~clobbered, crashes = 0
      PROVE  /\ (\A t \in Threads : thread[t].at # "writing") => Agree(pings, plan)
             /\ \A t \in Threads : thread[t].at = "writing" =>
                   Agree(pings, thread[t].doc) /\ thread[t].doc.gen = plan.gen
  BY <1>k DEF PlanInv, Journal
<1>a. ASSUME UNCHANGED <<pings, plan, clobbered, crashes>>,
             \A t \in Threads : thread'[t].at = "writing" <=> thread[t].at = "writing",
             \A t \in Threads : thread[t].at = "writing" => thread'[t].doc = thread[t].doc
      PROVE  Goal
  BY <1>a, <1>k
<1>b. ASSUME NEW t \in Threads, NEW doc, Composed(t, doc), UNCHANGED plan,
             Agree(pings, plan) => Agree(pings', doc) /\ doc.gen = plan.gen,
             UNCHANGED <<clobbered, crashes>>
      PROVE  Goal
  <2>1. \A s \in Threads : thread[s].at # "writing"
    BY <1>0, <1>b DEF Composed, Inside
  <2>2. \A s \in Threads : thread'[s].at = "writing" => s = t
    BY <1>b, <2>1 DEF Composed
  <2>3. Agree(pings, plan)
    BY <1>b, <1>k, <2>1
  <2> QED
    BY <1>b, <2>2, <2>3 DEF Composed
<1>1. ASSUME NEW t \in Threads, NEW op \in Plan!Ops, Plan!Arrive(t, op) PROVE Goal
  BY <1>0, <1>1, <1>a DEF DoorTypes, Plan!Arrive, Plan!history
<1>2. ASSUME NEW t \in Threads, Plan!Enter(t) PROVE Goal
  BY <1>0, <1>2, <1>a DEF DoorTypes, Plan!Enter, Plan!history, Plan!counts
<1>3. ASSUME NEW t \in Threads, Plan!TurnedAway(t) PROVE Goal
  BY <1>0, <1>3, <1>a DEF DoorTypes, Plan!TurnedAway, Plan!Idle, Plan!history, Plan!counts
<1>4. ASSUME NEW t \in Threads, Plan!Comment(t) PROVE Goal
  <2>1. /\ UNCHANGED <<plan, pings, crashes>>
        /\ ~clobbered /\ (thread[t].doc.status = "drafted" => thread[t].doc = plan)
        /\ UNCHANGED clobbered
    BY <1>0, <1>4 DEF Plan!Comment, Plan!counts, Plan!Reviewable, DoorTypes
  <2>2. CASE thread[t].doc.status = "drafted"
    <3>1. Composed(t, [plan EXCEPT !.status = "in_review"])
      BY <1>0, <1>4, <2>1, <2>2, Composes
    <3>2. /\ [plan EXCEPT !.status = "in_review"].gen = plan.gen
          /\ [plan EXCEPT !.status = "in_review"].gaps = plan.gaps
      BY <1>0, PutStatus
    <3>3. Agree(pings, plan) => Agree(pings', [plan EXCEPT !.status = "in_review"])
      BY <2>1, <3>2, AgreeSame
    <3> QED
      BY <1>b, <2>1, <3>1, <3>2, <3>3
  <2>3. CASE thread[t].doc.status # "drafted"
    <3>1. Left(t) /\ thread[t].at = "in"
      BY <1>0, <1>4, <2>3, Composes DEF Plan!Comment, Plan!In
    <3> QED
      BY <1>a, <2>1, <3>1 DEF Left, Plan!Idle
  <2> QED
    BY <2>2, <2>3
<1>5. ASSUME NEW t \in Threads, Plan!OpenGap(t) PROVE Goal
  <2> DEFINE n == 1 + Plan!Cardinality({g \in Plan!ReviewGaps : plan.gaps[g] # "none"})
             doc == [plan EXCEPT !.gaps[n] = "open"]
  <2>1. /\ n \in Plan!ReviewGaps /\ Plan!Compose(t, doc) /\ thread[t].at = "in"
        /\ UNCHANGED <<plan, pings, clobbered, crashes>>
    BY <1>5 DEF Plan!OpenGap, Plan!In, Plan!counts, Plan!history
  <2>2. n \in Plan!Gaps
    BY <2>1, PlanConstants
  <2>3. doc.gen = plan.gen
    <3> HIDE DEF n
    <3> QED
      BY <1>0, <2>2, PutGap DEF Plan!GapStates
  <2>4. Agree(pings, plan) => Agree(pings', doc)
    BY <1>0, <2>1, AgreeOpen
  <2> HIDE DEF n, doc
  <2>5. Composed(t, doc)
    BY <1>0, <2>1, ThreadsMove DEF Composed
  <2> QED
    BY <1>b, <2>1, <2>3, <2>4, <2>5
<1>6. ASSUME NEW t \in Threads, Plan!Accept(t) PROVE Goal
  <2>1. /\ Composed(t, [plan EXCEPT !.status = "final"]) /\ UNCHANGED <<plan, pings, clobbered, crashes>>
    BY <1>0, <1>6, Composes DEF Plan!Accept, Plan!counts
  <2>2. /\ [plan EXCEPT !.status = "final"].gen = plan.gen
        /\ [plan EXCEPT !.status = "final"].gaps = plan.gaps
    BY <1>0, PutStatus
  <2>3. Agree(pings, plan) => Agree(pings', [plan EXCEPT !.status = "final"])
    BY <2>1, <2>2, AgreeSame
  <2> QED
    BY <1>b, <2>1, <2>2, <2>3
<1>7. ASSUME NEW t \in Threads, NEW g \in Plan!Gaps, Plan!Ping(t, g) PROVE Goal
  <2>1. /\ Composed(t, [plan EXCEPT !.gaps[g] = "pinged"]) /\ UNCHANGED <<plan, clobbered, crashes>>
        /\ pings' = Append(pings, [gap |-> g, gen |-> plan.gen, answered |-> FALSE])
        /\ plan.gaps[g] = "open"
    BY <1>0, <1>7, Composes DEF Plan!Ping, Plan!Pingable, Plan!counts, Plan!history
  <2>2. [plan EXCEPT !.gaps[g] = "pinged"].gen = plan.gen
    BY <1>0, PutGap DEF Plan!GapStates
  <2>3. Agree(pings, plan) => Agree(pings', [plan EXCEPT !.gaps[g] = "pinged"])
    BY <1>0, <2>1, AgreePing
  <2> QED
    BY <1>b, <2>1, <2>2, <2>3
<1>8. ASSUME NEW t \in Threads, NEW g \in Plan!Gaps, Plan!Dispose(t, g) PROVE Goal
  <2>1. /\ Composed(t, [plan EXCEPT !.gaps[g] = "disposed"])
        /\ UNCHANGED <<plan, pings, clobbered, crashes>> /\ plan.gaps[g] \in {"open", "pinged"}
    BY <1>0, <1>8, Composes DEF Plan!Dispose, Plan!AnyUnanswered, Plan!counts, Plan!history
  <2>2. [plan EXCEPT !.gaps[g] = "disposed"].gen = plan.gen
    BY <1>0, PutGap DEF Plan!GapStates
  <2>3. Agree(pings, plan) => Agree(pings', [plan EXCEPT !.gaps[g] = "disposed"])
    BY <1>0, <2>1, AgreeDispose
  <2> QED
    BY <1>b, <2>1, <2>2, <2>3
<1>9. ASSUME NEW t \in Threads, NEW k \in DOMAIN pings, Plan!Answer(t, k) PROVE Goal
  <2>1. /\ Composed(t, [plan EXCEPT !.gaps[pings[k].gap] = "answered"])
        /\ UNCHANGED <<plan, clobbered, crashes>>
        /\ pings' = [pings EXCEPT ![k].answered = TRUE]
        /\ plan.gaps[pings[k].gap] # "none"
    BY <1>0, <1>9, Composes DEF Plan!Answer, Plan!counts, Plan!history
  <2>2. [plan EXCEPT !.gaps[pings[k].gap] = "answered"].gen = plan.gen
    BY <1>0, PutGap, LinesOfJournal DEF Plan!GapStates
  <2>3. Agree(pings, plan) => Agree(pings', [plan EXCEPT !.gaps[pings[k].gap] = "answered"])
    BY <1>0, <2>1, AgreeAnswer
  <2> QED
    BY <1>b, <2>1, <2>2, <2>3
<1>10. ASSUME NEW t \in Threads, Plan!Refuse(t) PROVE Goal
  <2>1. Left(t) /\ thread[t].at = "in" /\ UNCHANGED <<plan, pings, clobbered, crashes>>
    BY <1>0, <1>10, Composes DEF Plan!Refuse, Plan!counts, Plan!history
  <2> QED
    BY <1>a, <2>1 DEF Left, Plan!Idle
<1>11. ASSUME NEW t \in Threads, Plan!WritePlan(t) PROVE Goal
  <2>1. /\ Left(t) /\ thread[t].at = "writing" /\ plan' = thread[t].doc
        /\ UNCHANGED <<pings, clobbered, crashes>>
    BY <1>0, <1>11, Composes DEF Plan!WritePlan, Plan!counts, Plan!history
  <2>2. \A s \in Threads : thread'[s].at # "writing"
    BY <1>0, <2>1 DEF Left, Plan!Idle, Inside
  <2> QED
    BY <1>k, <2>1, <2>2
<1>12. CASE Plan!JobSubmit \/ Plan!JobEnd
  BY <1>12, <1>a DEF Plan!JobSubmit, Plan!JobEnd, Plan!counts, Plan!history
<1>13. ASSUME NEW again \in BOOLEAN, NEW verdict \in BOOLEAN, Plan!JobCommit(again, verdict)
       PROVE  Goal
  <2>1. /\ guard = Nobody /\ UNCHANGED <<pings, thread, clobbered, crashes>>
        /\ plan' = IF again THEN Plan!NewPlan(plan.gen + 1) ELSE [plan EXCEPT !.status = "drafted"]
        /\ plan'.gen <= MaxJobs + 1
    BY <1>13 DEF Plan!JobCommit, Plan!counts, Plan!history
  <2>2. \A s \in Threads : thread[s].at # "writing"
    BY <1>0, <2>1 DEF Inside
  <2>3. Agree(pings, plan)
    BY <1>k, <2>1, <2>2
  <2>4. Agree(pings, plan')
    <3>1. CASE again
      <4>1. plan' = Plan!NewPlan(plan.gen + 1) /\ plan'.gen = plan.gen + 1 /\ plan.gen \in 1..MaxJobs + 1
        BY <1>0, <2>1, <3>1 DEF Plan!NewPlan, Plan!Plans
      <4>2. plan.gen + 1 \in 1..MaxJobs + 1
        BY <2>1, <4>1, PlanConstants
      <4> QED
        BY <1>0, <2>3, <4>1, <4>2, AgreeNew
    <3>2. CASE ~again
      <4>1. /\ plan' = [plan EXCEPT !.status = "drafted"]
            /\ plan'.gen = plan.gen /\ plan'.gaps = plan.gaps
        BY <1>0, <2>1, <3>2, PutStatus
      <4> QED
        BY <2>3, <4>1, AgreeSame
    <3> QED
      BY <3>1, <3>2
  <2> QED
    BY <2>1, <2>2, <2>4
<1>14. CASE Plan!Crash
  BY <1>0, <1>14 DEF Plan!Crash
<1> QED
  BY <1>1, <1>2, <1>3, <1>4, <1>5, <1>6, <1>7, <1>8, <1>9, <1>10, <1>11, <1>12, <1>13, <1>14
     DEF Plan!Next, Plan!Handle

\* What is about to be written keeps the stamp after every step, and no door's step takes it.
LEMMA PlanStamps ==
    PlanInv /\ Plan!Next =>
        /\ Stamped'
        /\ plan.status = "final" /\ plan'.status # "final" => busy \/ clobbered'
<1> SUFFICES ASSUME PlanInv, Plan!Next, ~clobbered'
             PROVE  /\ \A t \in Threads : thread'[t].at = "writing" /\ plan'.status = "final"
                                             => thread'[t].doc.status = "final"
                    /\ plan.status = "final" /\ plan'.status # "final" => busy
  BY DEF Stamped
<1> DEFINE Goal == /\ \A t \in Threads : thread'[t].at = "writing" /\ plan'.status = "final"
                                             => thread'[t].doc.status = "final"
                   /\ plan.status = "final" /\ plan'.status # "final" => busy
<1>0. /\ DoorTypes /\ Inside /\ Nobody \notin Threads
      /\ plan \in Plan!Plans /\ pings \in Seq(PingLines)
      /\ \A t \in Threads : thread[t] \in Requests
      /\ ~clobbered => \A t \in Threads : thread[t].at = "writing" /\ plan.status = "final"
                                             => thread[t].doc.status = "final"
  BY PlanConstants DEF PlanInv, DoorTypes, Stamped
<1>a. ASSUME UNCHANGED <<plan, clobbered>>,
             \A t \in Threads : thread'[t].at = "writing" =>
                thread[t].at = "writing" /\ thread'[t].doc = thread[t].doc
      PROVE  Goal
  BY <1>0, <1>a
<1>b. ASSUME NEW t \in Threads, NEW doc, Composed(t, doc), UNCHANGED plan,
             plan.status = "final" => doc.status = "final"
      PROVE  Goal
  <2>1. \A s \in Threads : thread[s].at # "writing"
    BY <1>0, <1>b DEF Composed, Inside
  <2>2. \A s \in Threads : thread'[s].at = "writing" => s = t
    BY <1>b, <2>1 DEF Composed
  <2> QED
    BY <1>b, <2>2 DEF Composed
<1>1. ASSUME NEW t \in Threads, NEW op \in Plan!Ops, Plan!Arrive(t, op) PROVE Goal
  BY <1>0, <1>1, <1>a DEF DoorTypes, Plan!Arrive, Plan!history
<1>2. ASSUME NEW t \in Threads, Plan!Enter(t) PROVE Goal
  BY <1>0, <1>2, <1>a DEF DoorTypes, Plan!Enter, Plan!history
<1>3. ASSUME NEW t \in Threads, Plan!TurnedAway(t) PROVE Goal
  BY <1>0, <1>3, <1>a DEF DoorTypes, Plan!TurnedAway, Plan!Idle, Plan!history
<1>4. ASSUME NEW t \in Threads, Plan!Comment(t) PROVE Goal
  <2>1. /\ UNCHANGED plan
        /\ ~clobbered /\ (thread[t].doc.status = "drafted" => thread[t].doc = plan)
        /\ UNCHANGED clobbered
    BY <1>0, <1>4 DEF Plan!Comment, Plan!Reviewable, DoorTypes
  <2>2. CASE thread[t].doc.status = "drafted"
    <3>1. Composed(t, [plan EXCEPT !.status = "in_review"]) /\ plan.status = "drafted"
      BY <1>0, <1>4, <2>1, <2>2, Composes
    <3> QED
      BY <1>b, <2>1, <3>1
  <2>3. CASE thread[t].doc.status # "drafted"
    <3>1. Left(t)
      BY <1>0, <1>4, <2>3, Composes
    <3> QED
      BY <1>a, <2>1, <3>1 DEF Left, Plan!Idle
  <2> QED
    BY <2>2, <2>3
<1>5. ASSUME NEW t \in Threads, Plan!OpenGap(t) PROVE Goal
  <2> DEFINE n == 1 + Plan!Cardinality({g \in Plan!ReviewGaps : plan.gaps[g] # "none"})
             doc == [plan EXCEPT !.gaps[n] = "open"]
  <2>1. n \in Plan!Gaps /\ Plan!Compose(t, doc) /\ thread[t].at = "in" /\ UNCHANGED plan
    BY <1>5, PlanConstants DEF Plan!OpenGap, Plan!In
  <2> HIDE DEF n
  <2>2. doc.status = plan.status
    BY <1>0, <2>1, PutGap DEF Plan!GapStates
  <2> HIDE DEF doc
  <2>3. Composed(t, doc)
    BY <1>0, <2>1, ThreadsMove DEF Composed
  <2> QED
    BY <1>b, <2>1, <2>2, <2>3
<1>6. ASSUME NEW t \in Threads, Plan!Accept(t) PROVE Goal
  <2>1. Composed(t, [plan EXCEPT !.status = "final"]) /\ UNCHANGED plan
    BY <1>0, <1>6, Composes DEF Plan!Accept
  <2>2. [plan EXCEPT !.status = "final"].status = "final"
    BY <1>0, PutStatus
  <2> QED
    BY <1>b, <2>1, <2>2
<1>7. ASSUME NEW t \in Threads, NEW g \in Plan!Gaps, Plan!Ping(t, g) PROVE Goal
  <2>1. Composed(t, [plan EXCEPT !.gaps[g] = "pinged"]) /\ UNCHANGED plan
    BY <1>0, <1>7, Composes DEF Plan!Ping
  <2>2. [plan EXCEPT !.gaps[g] = "pinged"].status = plan.status
    BY <1>0, PutGap DEF Plan!GapStates
  <2> QED
    BY <1>b, <2>1, <2>2
<1>8. ASSUME NEW t \in Threads, NEW g \in Plan!Gaps, Plan!Dispose(t, g) PROVE Goal
  <2>1. Composed(t, [plan EXCEPT !.gaps[g] = "disposed"]) /\ UNCHANGED plan
    BY <1>0, <1>8, Composes DEF Plan!Dispose
  <2>2. [plan EXCEPT !.gaps[g] = "disposed"].status = plan.status
    BY <1>0, PutGap DEF Plan!GapStates
  <2> QED
    BY <1>b, <2>1, <2>2
<1>9. ASSUME NEW t \in Threads, NEW k \in DOMAIN pings, Plan!Answer(t, k) PROVE Goal
  <2>1. Composed(t, [plan EXCEPT !.gaps[pings[k].gap] = "answered"]) /\ UNCHANGED plan
    BY <1>0, <1>9, Composes DEF Plan!Answer
  <2>2. [plan EXCEPT !.gaps[pings[k].gap] = "answered"].status = plan.status
    BY <1>0, PutGap, LinesOfJournal DEF Plan!GapStates
  <2> QED
    BY <1>b, <2>1, <2>2
<1>10. ASSUME NEW t \in Threads, Plan!Refuse(t) PROVE Goal
  <2>1. Left(t) /\ UNCHANGED <<plan, clobbered>>
    BY <1>0, <1>10, Composes DEF Plan!Refuse, Plan!history
  <2> QED
    BY <1>a, <2>1 DEF Left, Plan!Idle
<1>11. ASSUME NEW t \in Threads, Plan!WritePlan(t) PROVE Goal
  <2>1. /\ Left(t) /\ thread[t].at = "writing" /\ plan' = thread[t].doc
        /\ UNCHANGED clobbered
    BY <1>0, <1>11, Composes DEF Plan!WritePlan, Plan!history
  <2>2. \A s \in Threads : thread'[s].at # "writing"
    BY <1>0, <2>1 DEF Left, Plan!Idle, Inside
  <2> QED
    BY <1>0, <2>1, <2>2
<1>12. CASE Plan!JobSubmit \/ Plan!JobEnd
  BY <1>12, <1>a DEF Plan!JobSubmit, Plan!JobEnd, Plan!history
<1>13. ASSUME NEW again \in BOOLEAN, NEW verdict \in BOOLEAN, Plan!JobCommit(again, verdict)
       PROVE  Goal
  <2>1. guard = Nobody /\ busy /\ UNCHANGED thread
    BY <1>13 DEF Plan!JobCommit
  <2> QED
    BY <1>0, <2>1 DEF Inside
<1>14. CASE Plan!Crash
  BY <1>14, <1>a DEF Plan!Crash, Plan!Idle, Plan!history
<1> QED
  BY <1>1, <1>2, <1>3, <1>4, <1>5, <1>6, <1>7, <1>8, <1>9, <1>10, <1>11, <1>12, <1>13, <1>14
     DEF Plan!Next, Plan!Handle

\* Whatever else moves leaves the door's invariant alone.
LEMMA PlanRests == PlanInv /\ UNCHANGED planVars => PlanInv'
BY DEF PlanInv, DoorTypes, Inside, Heard, Comments, Journal, Stamped, planVars

\* The door's invariant holds across every step of the composition.
LEMMA PlanStep == PlanInv /\ [Next]_vars => PlanInv'
<1> SUFFICES ASSUME PlanInv, [Next]_vars PROVE PlanInv'
  OBVIOUS
<1>1. CASE Operate
  BY <1>1, PlanTypes, PlanInside, PlanHeard, PlanJournal, PlanStamps DEF Operate, PlanInv
<1>2. CASE UNCHANGED planVars
  BY <1>2, PlanRests
<1> QED
  BY <1>1, <1>2 DEF Next, Visit, Converse, vars

\* A set with no two elements has one at most.
LEMMA LoneElement ==
    ASSUME NEW S, \A x, y \in S : x = y
    PROVE  IsFiniteSet(S) /\ Cardinality(S) <= 1
<1>1. CASE S = {}
  BY <1>1, FS_EmptySet
<1>2. CASE S # {}
  <2>1. PICK x \in S : TRUE
    BY <1>2
  <2>2. S = {x}
    BY <2>1
  <2>3. IsFiniteSet({x}) /\ Cardinality({x}) = 1
    BY FS_Singleton
  <2> QED
    BY <2>2, <2>3
<1> QED
  BY <1>1, <1>2

\* The invariant gives what the run checks of the door.
LEMMA PlanIsSound == PlanInv => AnswersReachThePlan
<1> SUFFICES ASSUME PlanInv PROVE AnswersReachThePlan
  OBVIOUS
<1>0. DoorTypes /\ pings \in Seq(PingLines)
  BY DEF PlanInv, DoorTypes
<1>1. Plan!TypeOK
  <2>1. \A t \in Threads :
          /\ thread[t].at \in {"idle", "waiting", "in", "writing"} /\ thread[t].doc \in Plan!Plans
          /\ thread[t].op \in {"none", "comment", "ping", "answer", "open", "dispose", "accept"}
    BY <1>0 DEF DoorTypes, Requests, Plan!Ops
  <2> QED
    BY <1>0, <2>1, LinesOfJournal DEF DoorTypes, Plan!TypeOK
<1>k. ASSUME ~clobbered, crashes = 0
      PROVE  /\ (\A t \in Threads : thread[t].at # "writing") => Agree(pings, plan)
             /\ \A t \in Threads : thread[t].at = "writing" =>
                   Agree(pings, thread[t].doc) /\ thread[t].doc.gen = plan.gen
  BY <1>k DEF PlanInv, Journal
<1>2. Plan!AnswersReachThePlan
  BY <1>k DEF Plan!AnswersReachThePlan, Plan!Reached, Plan!Writing, Agree
<1>3. Plan!OneOpenPing
  <2> SUFFICES ASSUME ~clobbered, crashes = 0, NEW g \in Plan!Gaps
               PROVE  Plan!Cardinality({k \in DOMAIN pings :
                         pings[k].gap = g /\ pings[k].gen = plan.gen /\ ~pings[k].answered}) <= 1
    BY DEF Plan!OneOpenPing
  <2>1. \E doc : Agree(pings, doc) /\ doc.gen = plan.gen
    BY <1>k
  <2>2. \A j, k \in DOMAIN pings :
          pings[j].gen = plan.gen /\ pings[k].gen = plan.gen /\ pings[j].gap = pings[k].gap
          /\ ~pings[j].answered /\ ~pings[k].answered => j = k
    BY <2>1 DEF Agree
  <2> QED
    BY <2>2, LoneElement, PlanCardinality
<1> QED
  BY <1>1, <1>2, <1>3 DEF AnswersReachThePlan

\* The ping journal and the live plan agree, and a gap is asked about once, for any number of
\* threads, gaps, requests, jobs and crashes, in whatever order they come, as long as no
\* comment wrote a plan it had read too early and nothing crashed between the line and the
\* write (pings.py:87-94, 150-160, server.py:1887-1957).
THEOREM JournalIsOnThePlan == Spec => []AnswersReachThePlan
<1>1. Init => PlanInv
  BY PlanInit
<1>2. PlanInv /\ [Next]_vars => PlanInv'
  BY PlanStep
<1> QED
  BY <1>1, <1>2, PlanIsSound, PTL DEF Spec

\* Only a job takes the stamp of an accept from a section: no route does, unless it wrote a
\* plan it had read too early (server.py:2023).
THEOREM StampIsKept == Spec => Plan!FinalStands
<1>1. Spec => []PlanInv
  <2>1. Init => PlanInv
    BY PlanInit
  <2>2. PlanInv /\ [Next]_vars => PlanInv'
    BY PlanStep
  <2> QED
    BY <2>1, <2>2, PTL DEF Spec
<1>2. PlanInv /\ [Next]_vars =>
         [plan.status = "final" /\ plan'.status # "final" => busy \/ clobbered']_(Plan!vars)
  <2> SUFFICES ASSUME PlanInv, [Next]_vars, plan.status = "final" /\ plan'.status # "final"
               PROVE  busy \/ clobbered'
    OBVIOUS
  <2>1. CASE Operate
    BY <2>1, PlanStamps DEF Operate
  <2>2. CASE UNCHANGED planVars
    BY <2>2 DEF planVars
  <2> QED
    BY <2>1, <2>2 DEF Next, Visit, Converse, vars
<1> QED
  BY <1>1, <1>2, PTL DEF Spec, Plan!FinalStands

-----------------------------------------------------------------------------
(* The share links                                                         *)

\* The types of the links' state.  No line is fused with another.
Orders == [at : {"idle", "minting", "asked", "revoking"}, id : 0..MaxLinks,
           until : 0..MaxNow + MaxDays]
Visitors == [at : {"away", "asking", "granted", "denied", "open", "posting"},
             op : {"view", "comment"}, token : Share!Tokens, when : 0..MaxNow, late : BOOLEAN]
WholeLines == {line \in Share!Lines : line.kind \in {"mint", "revoke"}}
LinkTypes ==
    /\ file \in Seq(WholeLines)
    /\ torn \in BOOLEAN /\ job \in BOOLEAN /\ lock \in Clerks \cup {Nobody}
    /\ clerk \in [Clerks -> Orders] /\ guest \in [Guests -> Visitors]
    /\ access \subseteq Share!AccessLines /\ answered \subseteq Share!AccessLines
    /\ comments \subseteq Share!Tokens /\ acked \subseteq Share!Tokens /\ now \in 0..MaxNow

\* The links are numbered in the order of their mint lines, and a link's token is its number.
Minted == Cardinality(Share!MintLines)
NumberedLinks ==
    /\ IsFiniteSet(Share!MintLines) /\ Minted <= MaxLinks /\ Share!Ids = 1..Minted
    /\ \A k \in Share!MintLines : file[k].token = file[k].id /\ file[k].until > 0
    /\ \A j, k \in Share!MintLines : file[j].id = file[k].id => j = k

\* A clerk who is about to write a line holds the lock of the lane; a mint has the next
\* number, a revoke is of a link that was minted, and what was acknowledged is revoked.
Ordered ==
    /\ \A c \in Clerks : clerk[c].at \in {"minting", "revoking"} => lock = c
    /\ \A c \in Clerks : clerk[c].at = "minting" =>
          clerk[c].id = Minted + 1 /\ Minted < MaxLinks /\ clerk[c].until > 0
    /\ \A c \in Clerks : clerk[c].at \in {"asked", "revoking"} => clerk[c].id \in Share!Ids
    /\ \A t \in acked : t \in Share!Ids /\ Share!Revoked(t)

\* A guest brings the token of a link or one nobody minted; who was found to come too late
\* came after the answer to a revoke; who was let in came in time, and the log says so.
Screened ==
    /\ \A g \in Guests : guest[g].token \in {0} \cup Share!Ids
    /\ \A g \in Guests : guest[g].late => guest[g].token \in acked
    /\ \A g \in Guests : guest[g].at \in {"granted", "open", "posting"} =>
          /\ ~guest[g].late
          /\ \A k \in Share!MintLines : file[k].token = guest[g].token => guest[g].when < file[k].until
    /\ \A g \in Guests : guest[g].at \in {"open", "posting"} => Share!Entry(g, TRUE) \in access
    /\ Share!LinkAnswersAreLogged

ShareInv == LinkTypes /\ NumberedLinks /\ Ordered /\ Screened

\* What is assumed of the links' constants.
LEMMA ShareConstants ==
    /\ Nobody \notin Clerks /\ Share!Tokens = 0..MaxLinks
    /\ MaxLinks \in Nat /\ MaxLines \in Nat /\ MaxDays \in Nat /\ MaxNow \in Nat
BY DoorConstants DEF Share!ShareAssumption, Share!Tokens

\* The library's finite sets are the same wherever they are instantiated.
LEMMA ShareCardinality == \A S : Share!Cardinality(S) = Cardinality(S)
BY DEF Share!Cardinality, Cardinality

\* The greatest of the numbers to n is n, and of one number that number.
LEMMA GreatestOf ==
    /\ \A n \in Nat \ {0} : Share!Max(1..n) = n
    /\ \A k \in Nat : Share!Max({k}) = k
<1>1. ASSUME NEW n \in Nat \ {0} PROVE Share!Max(1..n) = n
  <2>1. n \in 1..n /\ \A y \in 1..n : n >= y
    OBVIOUS
  <2>2. \A x \in 1..n : (\A y \in 1..n : x >= y) => x = n
    <3> SUFFICES ASSUME NEW x \in 1..n, \A y \in 1..n : x >= y PROVE x = n
      OBVIOUS
    <3>1. x >= n /\ n >= x /\ x \in Nat
      BY <2>1
    <3> QED
      BY <3>1
  <2> QED
    BY <2>1, <2>2 DEF Share!Max
<1>2. ASSUME NEW k \in Nat PROVE Share!Max({k}) = k
  BY DEF Share!Max
<1> QED
  BY <1>1, <1>2

\* The lines of the lane are lines, each with its fields.
LEMMA LinesOfLane ==
    ASSUME LinkTypes
    PROVE  /\ DOMAIN file = 1..Len(file) /\ Len(file) \in Nat
           /\ \A k \in DOMAIN file : /\ file[k] \in Share!Lines /\ file[k].kind \in {"mint", "revoke"}
                                     /\ file[k].id \in 0..MaxLinks /\ file[k].token \in 0..MaxLinks
                                     /\ file[k].until \in Nat
           /\ Share!MintLines \subseteq DOMAIN file /\ Share!Readable
<1>1. \A k \in DOMAIN file : file[k] \in WholeLines
  BY DEF LinkTypes
<1>2. DOMAIN file = 1..Len(file) /\ Len(file) \in Nat
  BY DEF LinkTypes
<1>3. \A k \in DOMAIN file : /\ file[k] \in Share!Lines /\ file[k].kind \in {"mint", "revoke"}
                             /\ file[k].id \in 0..MaxLinks /\ file[k].token \in 0..MaxLinks
                             /\ file[k].until \in Nat
  BY <1>1, ShareConstants DEF WholeLines, Share!Lines
<1> QED
  BY <1>2, <1>3 DEF Share!MintLines, Share!Readable

\* The record of a link is the line that minted it, and the next link has the next number.
LEMMA RecordsOfLinks ==
    ASSUME LinkTypes, NumberedLinks
    PROVE  /\ \A k \in Share!MintLines : Share!Record(file[k].id) = file[k]
           /\ \A i \in Share!Ids : \E k \in Share!MintLines : file[k].id = i /\ file[k].token = i
                                                             /\ Share!Record(i) = file[k]
           /\ Share!NextId = Minted + 1 /\ Minted \in Nat
           /\ \A t : Share!Holders(t) = {t} \cap Share!Ids
<1>1. ASSUME NEW k \in Share!MintLines PROVE Share!Record(file[k].id) = file[k]
  <2>1. {j \in Share!MintLines : file[j].id = file[k].id} = {k}
    BY DEF NumberedLinks
  <2>2. k \in Nat
    BY LinesOfLane
  <2>3. Share!Max({k}) = k
    BY <2>2, GreatestOf
  <2> QED
    BY <2>1, <2>3 DEF Share!Record
<1>2. \A i \in Share!Ids : \E k \in Share!MintLines : file[k].id = i /\ file[k].token = i
                                                     /\ Share!Record(i) = file[k]
  BY <1>1 DEF NumberedLinks, Share!Ids
<1>3. Minted \in Nat
  BY FS_CardinalityType DEF NumberedLinks, Minted
<1>4. Share!NextId = Minted + 1
  <2>1. CASE Minted = 0
    <3>1. Share!Ids = {}
      BY <2>1 DEF NumberedLinks
    <3> QED
      BY <2>1, <3>1 DEF Share!NextId
  <2>2. CASE Minted # 0
    <3>1. Minted \in Nat \ {0} /\ Share!Ids = 1..Minted /\ 1 \in 1..Minted
      BY <1>3, <2>2 DEF NumberedLinks
    <3>2. Share!Max(Share!Ids) = Minted
      BY <3>1, GreatestOf
    <3> QED
      BY <3>1, <3>2 DEF Share!NextId
  <2> QED
    BY <2>1, <2>2
<1>5. \A t : Share!Holders(t) = {t} \cap Share!Ids
  BY <1>2, LinesOfLane DEF Share!Holders
<1> QED
  BY <1>1, <1>2, <1>3, <1>4, <1>5

\* A line that lands is the last of the lane, and the others stay.
LEMMA LaneGrows ==
    ASSUME LinkTypes, NEW line \in WholeLines, Share!Land(line)
    PROVE  /\ file' \in Seq(WholeLines) /\ Len(file) + 1 \in DOMAIN file'
           /\ Len(file) + 1 \notin DOMAIN file /\ file'[Len(file) + 1] = line
           /\ \A k \in DOMAIN file : k \in DOMAIN file' /\ file'[k] = file[k]
           /\ Share!MintLines' = IF line.kind = "mint" THEN Share!MintLines \cup {Len(file) + 1}
                                                       ELSE Share!MintLines
           /\ \A i : Share!Revoked(i) => Share!Revoked(i)'
<1>1. file \in Seq(WholeLines) /\ file' = Append(file, line)
  BY DEF LinkTypes, Share!Land
<1>2. /\ file' \in Seq(WholeLines) /\ Len(file') = Len(file) + 1 /\ Len(file) \in Nat
      /\ \A k \in 1..Len(file) : file'[k] = file[k]
      /\ file'[Len(file) + 1] = line
  BY <1>1, AppendProperties
<1>3. DOMAIN file = 1..Len(file) /\ DOMAIN file' = 1..Len(file) + 1
  BY <1>1, <1>2
<1>4. \A k \in DOMAIN file' : k \in DOMAIN file \/ k = Len(file) + 1
  BY <1>2, <1>3
<1>5. /\ Len(file) + 1 \in DOMAIN file' /\ Len(file) + 1 \notin DOMAIN file
      /\ \A k \in DOMAIN file : k \in DOMAIN file' /\ file'[k] = file[k]
  BY <1>2, <1>3
<1>6. Share!MintLines' = IF line.kind = "mint" THEN Share!MintLines \cup {Len(file) + 1}
                                               ELSE Share!MintLines
  BY <1>2, <1>4, <1>5 DEF Share!MintLines
<1>7. \A i : Share!Revoked(i) => Share!Revoked(i)'
  BY <1>5 DEF Share!Revoked
<1> QED
  BY <1>2, <1>5, <1>6, <1>7

\* Nobody has minted or knocked.
LEMMA ShareInit == Init => ShareInv
<1> SUFFICES ASSUME Share!Init PROVE ShareInv
  BY DEF Init
<1> USE ShareConstants DEF Share!Init
<1>1. LinkTypes
  <2>1. Share!Idle \in Orders /\ Share!Away \in Visitors
    BY DEF Share!Idle, Share!Away, Orders, Visitors
  <2>2. /\ clerk \in [Clerks -> Orders] /\ guest \in [Guests -> Visitors]
        /\ file \in Seq(WholeLines)
    BY <2>1
  <2>3. /\ torn \in BOOLEAN /\ job \in BOOLEAN /\ lock \in Clerks \cup {Nobody}
        /\ access \subseteq Share!AccessLines /\ answered \subseteq Share!AccessLines
        /\ comments \subseteq Share!Tokens /\ acked \subseteq Share!Tokens
    OBVIOUS
  <2>4. now \in 0..MaxNow
    OBVIOUS
  <2> QED
    BY <2>2, <2>3, <2>4 DEF LinkTypes
<1>2. Share!MintLines = {} /\ Share!Ids = {}
  BY DEF Share!MintLines, Share!Ids
<1>3. Minted = 0
  BY <1>2, FS_EmptySet DEF Minted
<1>4. NumberedLinks
  BY <1>2, <1>3, FS_EmptySet DEF NumberedLinks
<1>5. Ordered
  BY DEF Ordered, Share!Idle
<1>6. Screened
  BY DEF Screened, Share!Away, Share!LinkAnswersAreLogged
<1> QED
  BY <1>1, <1>4, <1>5, <1>6 DEF ShareInv

\* A guest who goes on keeps what it brought, and one who leaves brings nothing.
LEMMA GuestsMove ==
    ASSUME LinkTypes, NEW g \in Guests,
           NEW phase \in {"away", "asking", "granted", "denied", "open", "posting"},
           Share!Put(g, phase)
    PROVE  /\ guest' \in [Guests -> Visitors] /\ \A h \in Guests : h # g => guest'[h] = guest[h]
           /\ phase = "away" => guest'[g] = Share!Away
           /\ phase # "away" => /\ guest'[g].at = phase /\ guest'[g].op = guest[g].op
                                /\ guest'[g].token = guest[g].token /\ guest'[g].when = guest[g].when
                                /\ guest'[g].late = guest[g].late
<1>1. guest \in [Guests -> Visitors] /\ guest[g] \in Visitors
  BY DEF LinkTypes
<1>2. Share!Away \in Visitors
  BY ShareConstants DEF Share!Away, Visitors
<1>3. guest' = [guest EXCEPT ![g] = IF phase = "away" THEN Share!Away
                                     ELSE [guest[g] EXCEPT !.at = phase]]
  BY <1>1 DEF Share!Put
<1>4. /\ [guest[g] EXCEPT !.at = phase] \in Visitors
      /\ [guest[g] EXCEPT !.at = phase].at = phase
      /\ [guest[g] EXCEPT !.at = phase].op = guest[g].op
      /\ [guest[g] EXCEPT !.at = phase].token = guest[g].token
      /\ [guest[g] EXCEPT !.at = phase].when = guest[g].when
      /\ [guest[g] EXCEPT !.at = phase].late = guest[g].late
  BY <1>1 DEF Visitors
<1> QED
  BY <1>1, <1>2, <1>3, <1>4

\* What a guest does leaves the lane, its lock, the clerks and their answers alone.
LEMMA GuestsRest ==
    ASSUME NEW g \in Guests, Share!Work(g)
    PROVE  UNCHANGED <<file, torn, lock, job, clerk, now, visits, falls, acked>>
BY DEF Share!Work, Share!Unknown, Share!Resolve, Share!Denied, Share!Granted, Share!View,
       Share!Malformed, Share!WellFormed, Share!TurnedAway, Share!Post, Share!LogAccess,
       Share!LogRefusal, Share!Tell, Share!lane, Share!counts

\* The links' types hold across every step.
LEMMA ShareTypes == ShareInv /\ Share!Next => LinkTypes'
<1> SUFFICES ASSUME ShareInv, Share!Next PROVE LinkTypes'
  OBVIOUS
<1> USE DEF Share!lane, Share!counts
<1>0. LinkTypes /\ NumberedLinks /\ Ordered /\ Minted \in Nat
  BY RecordsOfLinks DEF ShareInv
<1>a. Share!Idle \in Orders /\ Share!Away \in Visitors
  BY ShareConstants DEF Share!Idle, Share!Away, Orders, Visitors
<1>b. ASSUME NEW c \in Clerks, clerk[c].at \in {"minting", "revoking"},
             NEW line \in WholeLines, Share!Land(line), torn' = FALSE, lock' = Nobody,
             clerk' = [clerk EXCEPT ![c] = Share!Idle], acked' \subseteq Share!Tokens,
             UNCHANGED <<job, guest, access, comments, now, answered>>
      PROVE  LinkTypes'
  <2>1. file' \in Seq(WholeLines)
    BY <1>0, <1>b, LaneGrows
  <2>2. clerk' \in [Clerks -> Orders]
    BY <1>0, <1>a, <1>b DEF LinkTypes
  <2> QED
    BY <1>0, <1>b, <2>1, <2>2 DEF LinkTypes
<1>c. \A c \in Clerks : clerk[c] \in Orders
  BY <1>0 DEF LinkTypes
<1>1. ASSUME NEW c \in Clerks, NEW until \in 0..MaxNow + MaxDays, Share!Create(c, until)
      PROVE  LinkTypes'
  <2>1. Share!NextId \in 0..MaxLinks
    BY <1>0, <1>1, RecordsOfLinks, ShareConstants, ShareCardinality DEF Share!Create, Minted
  <2>2. [at |-> "minting", id |-> Share!NextId, until |-> until] \in Orders
    BY <2>1 DEF Orders
  <2>3. /\ lock' = c /\ UNCHANGED <<file, torn, job, guest, access, comments, now, acked, answered>>
        /\ clerk' = [clerk EXCEPT ![c] = [at |-> "minting", id |-> Share!NextId, until |-> until]]
    BY <1>1 DEF Share!Create
  <2>4. clerk' \in [Clerks -> Orders]
    BY <1>0, <2>2, <2>3 DEF LinkTypes
  <2> QED
    BY <1>0, <2>3, <2>4 DEF LinkTypes
<1>2. ASSUME NEW c \in Clerks, Share!MintLine(c) PROVE LinkTypes'
  <2> DEFINE line == [kind |-> "mint", id |-> clerk[c].id, until |-> clerk[c].until,
                      token |-> Share!Cardinality(Share!MintLines) + 1]
  <2>1. clerk[c].at = "minting" /\ Share!Land(line)
    BY <1>2 DEF Share!MintLine
  <2>2. Share!Cardinality(Share!MintLines) + 1 \in 0..MaxLinks
    BY <1>0, <2>1, ShareConstants, ShareCardinality DEF Ordered, Minted
  <2>3. line \in WholeLines
    BY <1>c, <2>2, ShareConstants DEF WholeLines, Share!Lines, Orders
  <2> HIDE DEF line
  <2>4. /\ torn' = FALSE /\ lock' = Nobody /\ clerk' = [clerk EXCEPT ![c] = Share!Idle]
        /\ UNCHANGED <<job, guest, access, comments, now, answered, acked>>
    BY <1>2 DEF Share!MintLine
  <2>5. acked' \subseteq Share!Tokens
    BY <1>0, <2>4 DEF LinkTypes
  <2> QED
    BY <1>b, <2>1, <2>3, <2>4, <2>5
<1>3. ASSUME NEW c \in Clerks, NEW id \in Share!Ids, Share!Ask(c, id) PROVE LinkTypes'
  <2>1. id \in 0..MaxLinks
    BY <1>0, ShareConstants DEF NumberedLinks
  <2>2. [at |-> "asked", id |-> id, until |-> 0] \in Orders
    BY <2>1, ShareConstants DEF Orders
  <2>3. clerk' \in [Clerks -> Orders]
    BY <1>0, <1>3, <2>2 DEF LinkTypes, Share!Ask
  <2> QED
    BY <1>0, <1>3, <2>3 DEF LinkTypes, Share!Ask
<1>4. ASSUME NEW c \in Clerks, Share!Revoke(c) PROVE LinkTypes'
  <2>1. [clerk[c] EXCEPT !.at = "revoking"] \in Orders
    BY <1>c DEF Orders
  <2>2. clerk' \in [Clerks -> Orders]
    BY <1>0, <1>4, <2>1 DEF LinkTypes, Share!Revoke
  <2> QED
    BY <1>0, <1>4, <2>2 DEF LinkTypes, Share!Revoke, Share!Serialized
<1>5. ASSUME NEW c \in Clerks, Share!RevokeLine(c) PROVE LinkTypes'
  <2> DEFINE line == [kind |-> "revoke", id |-> clerk[c].id, token |-> 0, until |-> 0]
  <2>1. clerk[c].at = "revoking" /\ Share!Land(line)
    BY <1>5 DEF Share!RevokeLine
  <2>2. line \in WholeLines
    BY <1>c, ShareConstants DEF WholeLines, Share!Lines, Orders
  <2> HIDE DEF line
  <2>3. /\ torn' = FALSE /\ lock' = Nobody /\ clerk' = [clerk EXCEPT ![c] = Share!Idle]
        /\ UNCHANGED <<job, guest, access, comments, now, answered>>
        /\ acked' = acked \cup {Share!Record(clerk[c].id).token}
    BY <1>5 DEF Share!RevokeLine
  <2>4. PICK k \in Share!MintLines : Share!Record(clerk[c].id) = file[k]
    BY <1>0, <2>1, RecordsOfLinks DEF Ordered
  <2>5. file[k].token \in Share!Tokens
    BY <1>0, LinesOfLane, ShareConstants
  <2>6. acked' \subseteq Share!Tokens
    BY <1>0, <2>3, <2>4, <2>5 DEF LinkTypes
  <2> QED
    BY <1>b, <2>1, <2>2, <2>3, <2>6
<1>6. ASSUME NEW g \in Guests, Share!Work(g) PROVE LinkTypes'
  <2>1. guest[g] \in Visitors
    BY <1>0 DEF LinkTypes
  <2>2. \A b \in BOOLEAN : Share!Entry(g, b) \in Share!AccessLines
    BY <2>1 DEF Visitors, Share!Entry, Share!AccessLines
  <2>3. \E phase \in {"away", "asking", "granted", "denied", "open", "posting"} : Share!Put(g, phase)
    BY <1>6 DEF Share!Work, Share!Unknown, Share!Resolve, Share!Denied, Share!Granted, Share!View,
                Share!Malformed, Share!WellFormed, Share!TurnedAway, Share!Post
  <2>4. guest' \in [Guests -> Visitors]
    BY <1>0, <2>3, GuestsMove
  <2>5. access' \subseteq Share!AccessLines /\ answered' \subseteq Share!AccessLines
    BY <1>0, <1>6, <2>2
       DEF LinkTypes, Share!Work, Share!Unknown, Share!Resolve, Share!Denied, Share!Granted,
           Share!View, Share!Malformed, Share!WellFormed, Share!TurnedAway, Share!Post,
           Share!LogAccess, Share!LogRefusal, Share!Tell
  <2>6. comments' \subseteq Share!Tokens
    BY <1>0, <1>6, <2>1
       DEF LinkTypes, Share!Work, Share!Unknown, Share!Resolve, Share!Denied, Share!Granted,
           Share!View, Share!Malformed, Share!WellFormed, Share!TurnedAway, Share!Post, Visitors
  <2> QED
    BY <1>0, <1>6, <2>4, <2>5, <2>6, GuestsRest DEF LinkTypes
<1>7. ASSUME NEW g \in Guests, NEW op \in {"view", "comment"},
             NEW t \in 0..Share!Cardinality(Share!MintLines), Share!Arrive(g, op, t)
      PROVE  LinkTypes'
  <2>1. t \in Share!Tokens
    BY <1>0, ShareConstants, ShareCardinality DEF NumberedLinks, Minted
  <2>2. [at |-> "asking", op |-> op, token |-> t, when |-> now, late |-> t \in acked] \in Visitors
    <3>1. (t \in acked) \in BOOLEAN /\ now \in 0..MaxNow
      BY <1>0 DEF LinkTypes
    <3> QED
      BY <2>1, <3>1 DEF Visitors
  <2>3. guest' \in [Guests -> Visitors]
    BY <1>0, <1>7, <2>2 DEF LinkTypes, Share!Arrive
  <2> QED
    BY <1>0, <1>7, <2>3 DEF LinkTypes, Share!Arrive
<1>8. CASE Share!Job
  BY <1>0, <1>8 DEF LinkTypes, Share!Job, Share!JobStart, Share!JobEnd
<1>9. CASE Share!Tick
  <2>1. now' \in 0..MaxNow
    BY <1>0, <1>9, ShareConstants DEF LinkTypes, Share!Tick
  <2> QED
    BY <1>0, <1>9, <2>1 DEF LinkTypes, Share!Tick
<1>10. CASE Share!Crash
  <2>1. clerk' \in [Clerks -> Orders] /\ guest' \in [Guests -> Visitors]
    BY <1>a, <1>10 DEF Share!Crash
  <2>2. torn' \in BOOLEAN
    BY <1>0, <1>10 DEF LinkTypes, Share!Crash
  <2> QED
    BY <1>0, <1>10, <2>1, <2>2 DEF LinkTypes, Share!Crash
<1> QED
  BY <1>1, <1>2, <1>3, <1>4, <1>5, <1>6, <1>7, <1>8, <1>9, <1>10 DEF Share!Next, Share!Serve

\* A mint takes the next number, and nothing else changes the links there are.
LEMMA ShareNumbers == ShareInv /\ Share!Next => NumberedLinks'
<1> SUFFICES ASSUME ShareInv, Share!Next PROVE NumberedLinks'
  OBVIOUS
<1>0. LinkTypes /\ NumberedLinks /\ Ordered /\ Minted \in Nat
  BY RecordsOfLinks DEF ShareInv
<1>a. ASSUME UNCHANGED file PROVE NumberedLinks'
  BY <1>0, <1>a DEF NumberedLinks, Minted, Share!MintLines, Share!Ids
<1>c. \A c \in Clerks : clerk[c] \in Orders
  BY <1>0 DEF LinkTypes
<1>1. ASSUME NEW c \in Clerks, Share!MintLine(c) PROVE NumberedLinks'
  <2> DEFINE line == [kind |-> "mint", id |-> clerk[c].id, until |-> clerk[c].until,
                      token |-> Share!Cardinality(Share!MintLines) + 1]
             last == Len(file) + 1
  <2>1. Share!Land(line) /\ clerk[c].id = Minted + 1 /\ Minted < MaxLinks /\ clerk[c].until > 0
    BY <1>0, <1>1 DEF Share!MintLine, Ordered
  <2>2. /\ line.kind = "mint" /\ line.id = Minted + 1 /\ line.token = Minted + 1 /\ line.until > 0
    BY <2>1, ShareCardinality DEF Minted
  <2>3. line \in WholeLines
    <3>1. Minted + 1 \in 0..MaxLinks
      BY <1>0, <2>1, ShareConstants
    <3> QED
      BY <1>c, <2>1, <3>1, ShareConstants, ShareCardinality
         DEF WholeLines, Share!Lines, Orders, Minted
  <2> HIDE DEF line
  <2>4. /\ last \notin DOMAIN file /\ file'[last] = line
        /\ \A k \in DOMAIN file : file'[k] = file[k]
        /\ Share!MintLines' = Share!MintLines \cup {last}
    BY <1>0, <2>1, <2>2, <2>3, LaneGrows
  <2> HIDE DEF last
  <2>5. Share!MintLines \subseteq DOMAIN file /\ last \notin Share!MintLines
    BY <1>0, <2>4, LinesOfLane
  <2>6. IsFiniteSet(Share!MintLines)' /\ Minted' = Minted + 1
    BY <1>0, <2>4, <2>5, FS_AddElement DEF NumberedLinks, Minted
  <2>7. Share!Ids' = Share!Ids \cup {Minted + 1}
    BY <2>2, <2>4, <2>5 DEF Share!Ids
  <2>8. Share!Ids' = 1..Minted'
    BY <1>0, <2>6, <2>7 DEF NumberedLinks
  <2>9. \A k \in Share!MintLines' : file'[k].token = file'[k].id /\ file'[k].until > 0
    BY <1>0, <2>2, <2>4, <2>5 DEF NumberedLinks
  <2>10. \A k \in Share!MintLines : file[k].id # Minted + 1
    <3>1. \A k \in Share!MintLines : file[k].id \in 1..Minted
      BY <1>0 DEF NumberedLinks, Share!Ids
    <3> QED
      BY <1>0, <3>1
  <2>11. \A j, k \in Share!MintLines' : file'[j].id = file'[k].id => j = k
    BY <1>0, <2>2, <2>4, <2>5, <2>10 DEF NumberedLinks
  <2>12. Minted' <= MaxLinks
    BY <1>0, <2>1, <2>6, ShareConstants
  <2> QED
    BY <2>6, <2>8, <2>9, <2>11, <2>12 DEF NumberedLinks
<1>2. ASSUME NEW c \in Clerks, Share!RevokeLine(c) PROVE NumberedLinks'
  <2> DEFINE line == [kind |-> "revoke", id |-> clerk[c].id, token |-> 0, until |-> 0]
  <2>1. Share!Land(line) /\ line \in WholeLines /\ line.kind = "revoke"
    BY <1>2, <1>c, ShareConstants DEF Share!RevokeLine, WholeLines, Share!Lines, Orders
  <2> HIDE DEF line
  <2>2. Share!MintLines' = Share!MintLines /\ \A k \in DOMAIN file : file'[k] = file[k]
    BY <1>0, <2>1, LaneGrows
  <2>3. \A k \in Share!MintLines : file'[k] = file[k]
    BY <1>0, <2>2, LinesOfLane
  <2>4. Share!Ids' = Share!Ids /\ Minted' = Minted
    BY <2>2, <2>3 DEF Share!Ids, Minted
  <2> QED
    BY <1>0, <2>2, <2>3, <2>4 DEF NumberedLinks
<1>3. ASSUME NEW g \in Guests, Share!Work(g) PROVE NumberedLinks'
  BY <1>3, <1>a, GuestsRest
<1>4. CASE \/ \E c \in Clerks : Share!Revoke(c)
           \/ \E c \in Clerks, u \in 0..MaxNow + MaxDays : Share!Create(c, u)
           \/ \E c \in Clerks, id \in Share!Ids : Share!Ask(c, id)
           \/ \E g \in Guests, op \in {"view", "comment"},
                 t \in 0..Share!Cardinality(Share!MintLines) : Share!Arrive(g, op, t)
           \/ Share!Job \/ Share!Tick \/ Share!Crash
  BY <1>4, <1>a DEF Share!Revoke, Share!Create, Share!Ask, Share!Arrive, Share!Job, Share!Tick,
                    Share!Crash, Share!lane
<1> QED
  BY <1>1, <1>2, <1>3, <1>4 DEF Share!Next, Share!Serve

\* A mint line and a revoke line, as they land: what the two kinds of line have in common.
LEMMA LinesLand ==
    ASSUME ShareInv, NEW c \in Clerks, Share!MintLine(c) \/ Share!RevokeLine(c)
    PROVE  /\ clerk[c].at \in {"minting", "revoking"}
           /\ clerk' = [clerk EXCEPT ![c] = Share!Idle]
           /\ Share!Ids \subseteq Share!Ids' /\ \A i : Share!Revoked(i) => Share!Revoked(i)'
           /\ \A k \in Share!MintLines : k \in Share!MintLines' /\ file'[k] = file[k]
           /\ \A k \in Share!MintLines' : k \in Share!MintLines \/ file'[k].token = Minted + 1
           /\ \A i : Share!RevokeLine(c) /\ i = clerk[c].id => Share!Revoked(i)'
           /\ UNCHANGED <<guest, access, answered>>
<1>0. LinkTypes /\ NumberedLinks /\ Ordered /\ Minted \in Nat
  BY RecordsOfLinks DEF ShareInv
<1>c. clerk[c] \in Orders
  BY <1>0 DEF LinkTypes
<1>d. Share!MintLines \subseteq DOMAIN file
  BY <1>0, LinesOfLane
<1>1. CASE Share!MintLine(c)
  <2> DEFINE line == [kind |-> "mint", id |-> clerk[c].id, until |-> clerk[c].until,
                      token |-> Share!Cardinality(Share!MintLines) + 1]
  <2>1. Share!Land(line) /\ Minted < MaxLinks
    BY <1>0, <1>1 DEF Share!MintLine, Ordered
  <2>2. line.kind = "mint" /\ line.token = Minted + 1
    BY ShareCardinality DEF Minted
  <2>3. line \in WholeLines
    <3>1. Minted + 1 \in 0..MaxLinks
      BY <1>0, <2>1, ShareConstants
    <3> QED
      BY <1>c, <3>1, ShareConstants, ShareCardinality DEF WholeLines, Share!Lines, Orders, Minted
  <2> HIDE DEF line
  <2>4. /\ file'[Len(file) + 1] = line /\ \A k \in DOMAIN file : file'[k] = file[k]
        /\ Share!MintLines' = Share!MintLines \cup {Len(file) + 1}
        /\ \A i : Share!Revoked(i) => Share!Revoked(i)'
    BY <1>0, <2>1, <2>2, <2>3, LaneGrows
  <2>5. Share!Ids \subseteq Share!Ids'
    BY <1>d, <2>4 DEF Share!Ids
  <2>6. ~Share!RevokeLine(c)
    BY <1>1 DEF Share!MintLine, Share!RevokeLine
  <2>7. /\ clerk[c].at \in {"minting", "revoking"} /\ clerk' = [clerk EXCEPT ![c] = Share!Idle]
        /\ UNCHANGED <<guest, access, answered>>
    BY <1>1 DEF Share!MintLine
  <2> QED
    BY <1>d, <2>2, <2>4, <2>5, <2>6, <2>7
<1>2. CASE Share!RevokeLine(c)
  <2> DEFINE line == [kind |-> "revoke", id |-> clerk[c].id, token |-> 0, until |-> 0]
  <2>1. Share!Land(line) /\ line \in WholeLines /\ line.kind = "revoke" /\ line.id = clerk[c].id
    BY <1>2, <1>c, ShareConstants DEF Share!RevokeLine, WholeLines, Share!Lines, Orders
  <2> HIDE DEF line
  <2>2. /\ Share!MintLines' = Share!MintLines /\ \A k \in DOMAIN file : file'[k] = file[k]
        /\ file'[Len(file) + 1] = line /\ Len(file) + 1 \in DOMAIN file'
        /\ \A i : Share!Revoked(i) => Share!Revoked(i)'
    BY <1>0, <2>1, LaneGrows
  <2>3. \A k \in Share!MintLines : file'[k] = file[k]
    BY <1>d, <2>2
  <2>4. Share!Ids' = Share!Ids
    BY <2>2, <2>3 DEF Share!Ids
  <2>5. \E k \in DOMAIN file' : file'[k].kind = "revoke" /\ file'[k].id = clerk[c].id
    BY <2>1, <2>2
  <2>6. /\ clerk[c].at \in {"minting", "revoking"} /\ clerk' = [clerk EXCEPT ![c] = Share!Idle]
        /\ UNCHANGED <<guest, access, answered>>
    BY <1>2 DEF Share!RevokeLine
  <2>7. \A i : i = clerk[c].id => Share!Revoked(i)'
    BY <2>5 DEF Share!Revoked
  <2> QED
    BY <2>2, <2>3, <2>4, <2>6, <2>7
<1> QED
  BY <1>1, <1>2

\* The clerks hold the lock for their lines, one at a time, across every step.
LEMMA ShareOrders == ShareInv /\ Share!Next => Ordered'
<1> SUFFICES ASSUME ShareInv, Share!Next PROVE Ordered'
  OBVIOUS
<1>0. LinkTypes /\ NumberedLinks /\ Ordered /\ Minted \in Nat /\ Nobody \notin Clerks
  BY RecordsOfLinks, ShareConstants DEF ShareInv
<1>c. clerk \in [Clerks -> Orders]
  BY <1>0 DEF LinkTypes
<1>a. ASSUME UNCHANGED <<file, clerk, lock, acked>> PROVE Ordered'
  BY <1>0, <1>a DEF Ordered, Minted, Share!MintLines, Share!Ids, Share!Revoked
<1>b. ASSUME UNCHANGED file
      PROVE  Share!Ids' = Share!Ids /\ Minted' = Minted /\ \A i : Share!Revoked(i) => Share!Revoked(i)'
  BY <1>b DEF Minted, Share!MintLines, Share!Ids, Share!Revoked
<1>1. ASSUME NEW c \in Clerks, NEW until \in 0..MaxNow + MaxDays, Share!Create(c, until)
      PROVE  Ordered'
  <2>1. \A d \in Clerks : clerk[d].at \notin {"minting", "revoking"}
    BY <1>0, <1>1 DEF Share!Create, Ordered
  <2>2. until > 0 /\ Share!NextId = Minted + 1 /\ Minted < MaxLinks
    <3>1. until \in now + 1..now + MaxDays /\ now \in Nat
      BY <1>0, <1>1, ShareConstants DEF Share!Create, Share!Expiries, LinkTypes
    <3> QED
      BY <1>0, <1>1, <3>1, RecordsOfLinks, ShareCardinality, ShareConstants DEF Share!Create, Minted
  <2>3. /\ lock' = c /\ UNCHANGED <<file, acked>>
        /\ clerk' = [clerk EXCEPT ![c] = [at |-> "minting", id |-> Share!NextId, until |-> until]]
    BY <1>1 DEF Share!Create, Share!lane
  <2> HIDE DEF Share!NextId
  <2>4. \A d \in Clerks : clerk'[d] = IF d = c THEN [at |-> "minting", id |-> Share!NextId, until |-> until]
                                              ELSE clerk[d]
    BY <1>c, <2>3
  <2> QED
    BY <1>0, <1>b, <2>1, <2>2, <2>3, <2>4 DEF Ordered
<1>2. ASSUME NEW c \in Clerks, Share!MintLine(c) \/ Share!RevokeLine(c) PROVE Ordered'
  <2>1. /\ clerk[c].at \in {"minting", "revoking"} /\ clerk' = [clerk EXCEPT ![c] = Share!Idle]
        /\ Share!Ids \subseteq Share!Ids' /\ \A i : Share!Revoked(i) => Share!Revoked(i)'
        /\ \A i : Share!RevokeLine(c) /\ i = clerk[c].id => Share!Revoked(i)'
    BY <1>2, LinesLand
  <2>2. \A d \in Clerks : d # c => clerk[d].at \notin {"minting", "revoking"}
    BY <1>0, <2>1 DEF Ordered
  <2>3. \A d \in Clerks : clerk'[d] = IF d = c THEN Share!Idle ELSE clerk[d]
    BY <1>c, <2>1
  <2>4. \A t \in acked' : t \in Share!Ids /\ Share!Revoked(t)'
    <3>1. CASE Share!MintLine(c)
      BY <1>0, <2>1, <3>1 DEF Share!MintLine, Ordered
    <3>2. CASE Share!RevokeLine(c)
      <4>1. clerk[c].id \in Share!Ids /\ acked' = acked \cup {Share!Record(clerk[c].id).token}
        BY <1>0, <3>2 DEF Share!RevokeLine, Ordered
      <4>2. Share!Record(clerk[c].id).token = clerk[c].id
        BY <1>0, <4>1, RecordsOfLinks
      <4> QED
        BY <1>0, <2>1, <3>2, <4>1, <4>2 DEF Ordered
    <3> QED
      BY <1>2, <3>1, <3>2
  <2> QED
    BY <1>0, <2>1, <2>2, <2>3, <2>4 DEF Ordered, Share!Idle
<1>3. ASSUME NEW c \in Clerks, NEW id \in Share!Ids, Share!Ask(c, id) PROVE Ordered'
  <2>1. /\ UNCHANGED <<file, lock, acked>>
        /\ \A d \in Clerks : clerk'[d] = IF d = c THEN [at |-> "asked", id |-> id, until |-> 0] ELSE clerk[d]
    BY <1>3, <1>c DEF Share!Ask, Share!lane
  <2> QED
    BY <1>0, <1>b, <2>1 DEF Ordered
<1>4. ASSUME NEW c \in Clerks, Share!Revoke(c) PROVE Ordered'
  <2>1. /\ clerk[c].at = "asked" /\ lock = Nobody /\ lock' = c /\ UNCHANGED <<file, acked>>
        /\ clerk' = [clerk EXCEPT ![c] = [clerk[c] EXCEPT !.at = "revoking"]]
    BY <1>4, <1>c DEF Share!Revoke, Share!Serialized, Share!lane
  <2>2. \A d \in Clerks : clerk'[d] = IF d = c THEN [clerk[c] EXCEPT !.at = "revoking"] ELSE clerk[d]
    BY <1>c, <2>1
  <2>3. /\ [clerk[c] EXCEPT !.at = "revoking"].at = "revoking"
        /\ [clerk[c] EXCEPT !.at = "revoking"].id = clerk[c].id
    BY <1>c DEF Orders
  <2>4. \A d \in Clerks : clerk[d].at \notin {"minting", "revoking"}
    BY <1>0, <2>1 DEF Ordered
  <2> QED
    BY <1>0, <1>b, <2>1, <2>2, <2>3, <2>4 DEF Ordered
<1>5. ASSUME NEW g \in Guests, Share!Work(g) PROVE Ordered'
  BY <1>5, <1>a, GuestsRest
<1>6. CASE \/ \E g \in Guests, op \in {"view", "comment"},
                 t \in 0..Share!Cardinality(Share!MintLines) : Share!Arrive(g, op, t)
           \/ Share!Job \/ Share!Tick
  BY <1>6, <1>a DEF Share!Arrive, Share!Job, Share!Tick, Share!lane
<1>7. CASE Share!Crash
  <2>1. UNCHANGED <<file, acked>> /\ \A d \in Clerks : clerk'[d] = Share!Idle
    BY <1>7 DEF Share!Crash
  <2> QED
    BY <1>0, <1>b, <2>1 DEF Ordered, Share!Idle
<1> QED
  BY <1>1, <1>2, <1>3, <1>4, <1>5, <1>6, <1>7 DEF Share!Next, Share!Serve

\* Who is let in came in time, and is in the log, after every step.
LEMMA ShareScreens == ShareInv /\ Share!Next => Screened'
<1> SUFFICES ASSUME ShareInv, Share!Next PROVE Screened'
  OBVIOUS
<1>0. LinkTypes /\ NumberedLinks /\ Ordered /\ Screened /\ Minted \in Nat
  BY RecordsOfLinks DEF ShareInv
<1>c. guest \in [Guests -> Visitors]
  BY <1>0 DEF LinkTypes
<1>b. ASSUME UNCHANGED file
      PROVE  /\ Share!Ids' = Share!Ids /\ Share!MintLines' = Share!MintLines
  BY <1>b DEF Share!MintLines, Share!Ids
<1>a. ASSUME UNCHANGED <<file, guest, access, acked, answered>> PROVE Screened'
  BY <1>0, <1>a, <1>b DEF Screened, Share!LinkAnswersAreLogged, Share!Entry
<1>1. ASSUME NEW c \in Clerks, Share!MintLine(c) \/ Share!RevokeLine(c) PROVE Screened'
  <2>1. /\ Share!Ids \subseteq Share!Ids'
        /\ \A k \in Share!MintLines : k \in Share!MintLines' /\ file'[k] = file[k]
        /\ \A k \in Share!MintLines' : k \in Share!MintLines \/ file'[k].token = Minted + 1
        /\ UNCHANGED <<guest, access, answered>>
    BY <1>1, LinesLand
  <2>2. acked \subseteq acked'
    BY <1>1 DEF Share!MintLine, Share!RevokeLine
  <2>3. \A g \in Guests : guest[g].token # Minted + 1
    <3>1. \A g \in Guests : guest[g].token \in 0..Minted
      BY <1>0 DEF Screened, NumberedLinks
    <3> QED
      BY <1>0, <3>1
  <2>4. \A g \in Guests : guest[g].at \in {"granted", "open", "posting"} =>
           \A k \in Share!MintLines' : file'[k].token = guest[g].token => guest[g].when < file'[k].until
    BY <1>0, <2>1, <2>3 DEF Screened
  <2>5. Share!LinkAnswersAreLogged'
    BY <1>0, <2>1 DEF Screened, Share!LinkAnswersAreLogged
  <2>6. \A g \in Guests : Share!Entry(g, TRUE)' = Share!Entry(g, TRUE)
    BY <2>1 DEF Share!Entry
  <2> QED
    BY <1>0, <2>1, <2>2, <2>4, <2>5, <2>6 DEF Screened
<1>2. ASSUME NEW g \in Guests, NEW op \in {"view", "comment"},
             NEW t \in 0..Share!Cardinality(Share!MintLines), Share!Arrive(g, op, t)
      PROVE  Screened'
  <2>1. t \in {0} \cup Share!Ids
    BY <1>0, ShareCardinality DEF NumberedLinks, Minted
  <2>2. /\ UNCHANGED <<file, access, acked, answered>>
        /\ guest' = [guest EXCEPT ![g] = [at |-> "asking", op |-> op, token |-> t, when |-> now,
                                          late |-> t \in acked]]
    BY <1>2 DEF Share!Arrive, Share!lane
  <2>3. /\ guest'[g].at = "asking" /\ guest'[g].token = t /\ (guest'[g].late => t \in acked)
        /\ \A h \in Guests : h # g => guest'[h] = guest[h]
    BY <1>c, <2>2
  <2> HIDE DEF Share!LinkAnswersAreLogged
  <2>4. Share!LinkAnswersAreLogged'
    BY <1>0, <2>2 DEF Screened, Share!LinkAnswersAreLogged
  <2>5. \A h \in Guests : h # g => Share!Entry(h, TRUE)' = Share!Entry(h, TRUE)
    BY <2>3 DEF Share!Entry
  <2>6. \A h \in Guests : guest'[h].token \in {0} \cup Share!Ids'
    BY <1>0, <1>b, <2>1, <2>2, <2>3 DEF Screened
  <2>7. \A h \in Guests : guest'[h].late => guest'[h].token \in acked'
    BY <1>0, <2>2, <2>3 DEF Screened
  <2>8. \A h \in Guests : guest'[h].at \in {"granted", "open", "posting"} =>
           /\ ~guest'[h].late
           /\ \A k \in Share!MintLines' :
                 file'[k].token = guest'[h].token => guest'[h].when < file'[k].until
    BY <1>0, <1>b, <2>2, <2>3 DEF Screened
  <2>9. \A h \in Guests : guest'[h].at \in {"open", "posting"} => Share!Entry(h, TRUE)' \in access'
    BY <1>0, <2>2, <2>3, <2>5 DEF Screened
  <2> QED
    BY <2>4, <2>6, <2>7, <2>8, <2>9 DEF Screened
<1>3. ASSUME NEW g \in Guests, Share!Work(g) PROVE Screened'
  <2> DEFINE Keeps(phase) == /\ guest'[g].at = phase /\ guest'[g].op = guest[g].op
                             /\ guest'[g].token = guest[g].token
                             /\ guest'[g].when = guest[g].when /\ guest'[g].late = guest[g].late
  <2>0. UNCHANGED <<file, acked>>
    BY <1>3, GuestsRest
  <2>a. \A phase \in {"away", "asking", "granted", "denied", "open", "posting"} :
           Share!Put(g, phase) =>
              /\ \A h \in Guests : h # g => guest'[h] = guest[h]
              /\ phase = "away" => guest'[g] = Share!Away
              /\ phase # "away" => Keeps(phase)
    BY <1>0, GuestsMove
  <2>b. ASSUME \A h \in Guests : h # g => guest'[h] = guest[h],
               access \subseteq access', Share!LinkAnswersAreLogged',
               guest'[g].token \in {0} \cup Share!Ids, guest'[g].late => guest'[g].token \in acked,
               guest'[g].at \in {"granted", "open", "posting"} =>
                  /\ ~guest'[g].late
                  /\ \A k \in Share!MintLines :
                        file[k].token = guest'[g].token => guest'[g].when < file[k].until,
               guest'[g].at \in {"open", "posting"} => Share!Entry(g, TRUE)' \in access'
        PROVE  Screened'
    <3>1. \A h \in Guests : h # g => Share!Entry(h, TRUE)' = Share!Entry(h, TRUE)
      BY <2>b DEF Share!Entry
    <3> HIDE DEF Share!LinkAnswersAreLogged, Share!Entry
    <3> QED
      BY <1>0, <1>b, <2>0, <2>b, <3>1 DEF Screened
  <2>c. ASSUME Share!Put(g, "away"), access \subseteq access', Share!LinkAnswersAreLogged'
        PROVE  Screened'
    <3>1. guest'[g] = Share!Away /\ \A h \in Guests : h # g => guest'[h] = guest[h]
      BY <2>a, <2>c
    <3> QED
      BY <2>b, <2>c, <3>1 DEF Share!Away
  <2>d. /\ guest[g].token \in {0} \cup Share!Ids /\ (guest[g].late => guest[g].token \in acked)
        /\ Share!LinkAnswersAreLogged
    BY <1>0 DEF Screened
  <2>e. UNCHANGED <<access, answered>> => Share!LinkAnswersAreLogged'
    BY <2>d DEF Share!LinkAnswersAreLogged
  <2>f. \A b \in BOOLEAN : answered' = answered \cup {Share!Entry(g, b)} /\ access \subseteq access'
                           /\ Share!Entry(g, b) \in access' => Share!LinkAnswersAreLogged'
    BY <2>d DEF Share!LinkAnswersAreLogged
  <2>1. CASE Share!Unknown(g)
    <3>1. guest[g].token = 0
      BY <1>0, <2>1, <2>d, RecordsOfLinks DEF Share!Unknown
    <3>2. Share!LinkAnswersAreLogged'
      BY <2>1, <2>d, <3>1 DEF Share!Unknown, Share!Tell, Share!Entry, Share!LinkAnswersAreLogged
    <3> QED
      BY <2>1, <2>c, <3>2 DEF Share!Unknown
  <2>2. CASE Share!Resolve(g)
    <3>1. PICK id \in Share!Holders(guest[g].token) :
             Share!Put(g, IF Share!Stands(g, id) THEN "granted" ELSE "denied")
      BY <2>2 DEF Share!Resolve
    <3>2. id = guest[g].token /\ id \in Share!Ids
      BY <1>0, <3>1, RecordsOfLinks
    <3>3. UNCHANGED <<access, answered>>
      BY <2>2 DEF Share!Resolve
    <3>4. CASE Share!Stands(g, id)
      <4>1. Keeps("granted") /\ \A h \in Guests : h # g => guest'[h] = guest[h]
        BY <2>a, <3>1, <3>4
      <4>2. ~guest[g].late
        BY <1>0, <2>d, <3>2, <3>4 DEF Share!Stands, Ordered
      <4>3. \A k \in Share!MintLines : file[k].token = guest[g].token => guest[g].when < file[k].until
        <5> SUFFICES ASSUME NEW k \in Share!MintLines, file[k].token = guest[g].token
                     PROVE  guest[g].when < file[k].until
          OBVIOUS
        <5>1. file[k].id = id /\ Share!Record(id) = file[k]
          BY <1>0, <3>2, RecordsOfLinks DEF NumberedLinks
        <5> QED
          BY <3>4, <5>1 DEF Share!Stands
      <4> QED
        BY <2>b, <2>d, <2>e, <3>3, <4>1, <4>2, <4>3
    <3>5. CASE ~Share!Stands(g, id)
      <4>1. Keeps("denied") /\ \A h \in Guests : h # g => guest'[h] = guest[h]
        BY <2>a, <3>1, <3>5
      <4> QED
        BY <2>b, <2>d, <2>e, <3>3, <4>1
    <3> QED
      BY <3>4, <3>5
  <2>3. CASE Share!Denied(g)
    BY <2>3, <2>c, <2>f DEF Share!Denied, Share!LogAccess, Share!Tell
  <2>4. CASE Share!Granted(g)
    <3>1. /\ guest[g].at = "granted" /\ access' = access \cup {Share!Entry(g, TRUE)}
          /\ Share!Put(g, "open") /\ UNCHANGED answered
      BY <2>4 DEF Share!Granted, Share!LogAccess
    <3>2. Keeps("open") /\ \A h \in Guests : h # g => guest'[h] = guest[h]
      BY <2>a, <3>1
    <3>3. Share!Entry(g, TRUE)' = Share!Entry(g, TRUE)
      BY <3>2 DEF Share!Entry
    <3>4. Share!LinkAnswersAreLogged'
      BY <2>d, <3>1 DEF Share!LinkAnswersAreLogged
    <3>5. /\ ~guest[g].late
          /\ \A k \in Share!MintLines : file[k].token = guest[g].token => guest[g].when < file[k].until
      BY <1>0, <3>1 DEF Screened
    <3> QED
      BY <2>b, <2>d, <3>1, <3>2, <3>3, <3>4, <3>5
  <2>5. CASE Share!View(g)
    <3>1. Share!Entry(g, TRUE) \in access
      BY <1>0, <2>5 DEF Screened, Share!View
    <3> QED
      BY <2>5, <2>c, <2>f, <3>1 DEF Share!View, Share!Tell
  <2>6. CASE Share!Malformed(g)
    BY <2>6, <2>c, <2>f DEF Share!Malformed, Share!LogRefusal, Share!LogAccess, Share!Tell
  <2>7. CASE Share!WellFormed(g)
    <3>1. guest[g].at = "open" /\ Share!Put(g, "posting") /\ UNCHANGED <<access, answered>>
      BY <2>7 DEF Share!WellFormed
    <3>2. Keeps("posting") /\ \A h \in Guests : h # g => guest'[h] = guest[h]
      BY <2>a, <3>1
    <3>3. Share!Entry(g, TRUE)' = Share!Entry(g, TRUE)
      BY <3>2 DEF Share!Entry
    <3>4. /\ ~guest[g].late /\ Share!Entry(g, TRUE) \in access
          /\ \A k \in Share!MintLines : file[k].token = guest[g].token => guest[g].when < file[k].until
      BY <1>0, <3>1 DEF Screened
    <3> QED
      BY <2>b, <2>d, <2>e, <3>1, <3>2, <3>3, <3>4
  <2>8. CASE Share!TurnedAway(g)
    BY <2>8, <2>c, <2>e DEF Share!TurnedAway
  <2>9. CASE Share!Post(g)
    <3>1. Share!Entry(g, TRUE) \in access
      BY <1>0, <2>9 DEF Screened, Share!Post
    <3> QED
      BY <2>9, <2>c, <2>f, <3>1 DEF Share!Post, Share!Tell
  <2> QED
    BY <1>3, <2>1, <2>2, <2>3, <2>4, <2>5, <2>6, <2>7, <2>8, <2>9 DEF Share!Work
<1>4. CASE \/ \E c \in Clerks : Share!Revoke(c)
           \/ \E c \in Clerks, u \in 0..MaxNow + MaxDays : Share!Create(c, u)
           \/ \E c \in Clerks, id \in Share!Ids : Share!Ask(c, id)
           \/ Share!Job \/ Share!Tick
  BY <1>4, <1>a DEF Share!Revoke, Share!Create, Share!Ask, Share!Job, Share!Tick, Share!lane
<1>5. CASE Share!Crash
  <2>1. /\ UNCHANGED <<file, acked, access, answered>> /\ \A g \in Guests : guest'[g] = Share!Away
    BY <1>5 DEF Share!Crash
  <2>2. Share!LinkAnswersAreLogged'
    BY <1>0, <2>1 DEF Screened, Share!LinkAnswersAreLogged
  <2>3. \A g \in Guests : guest'[g].at = "away" /\ guest'[g].token = 0 /\ ~guest'[g].late
    BY <2>1 DEF Share!Away
  <2> QED
    BY <2>2, <2>3 DEF Screened
<1> QED
  BY <1>1, <1>2, <1>3, <1>4, <1>5 DEF Share!Next, Share!Serve

\* Whatever else moves leaves the links' invariant alone.
LEMMA ShareRests == ShareInv /\ UNCHANGED shareVars => ShareInv'
<1> SUFFICES ASSUME ShareInv, UNCHANGED shareVars PROVE ShareInv'
  OBVIOUS
<1>1. /\ UNCHANGED <<file, torn, lock, job, clerk, guest, access, comments, now, acked, answered>>
      /\ LinkTypes /\ NumberedLinks /\ Ordered /\ Screened
  BY DEF shareVars, ShareInv
<1>2. /\ Share!MintLines' = Share!MintLines /\ Share!Ids' = Share!Ids /\ Minted' = Minted
      /\ \A i : Share!Revoked(i) => Share!Revoked(i)'
      /\ \A g : Share!Entry(g, TRUE)' = Share!Entry(g, TRUE)
      /\ Share!LinkAnswersAreLogged => Share!LinkAnswersAreLogged'
  BY <1>1 DEF Minted, Share!MintLines, Share!Ids, Share!Revoked, Share!Entry,
              Share!LinkAnswersAreLogged
<1>3. LinkTypes'
  BY <1>1 DEF LinkTypes
<1>4. NumberedLinks'
  BY <1>1, <1>2 DEF NumberedLinks
<1>5. Ordered'
  BY <1>1, <1>2 DEF Ordered
<1>6. Screened'
  BY <1>1, <1>2 DEF Screened
<1> QED
  BY <1>3, <1>4, <1>5, <1>6 DEF ShareInv

\* The links' invariant holds across every step of the composition.
LEMMA ShareStep == ShareInv /\ [Next]_vars => ShareInv'
<1> SUFFICES ASSUME ShareInv, [Next]_vars PROVE ShareInv'
  OBVIOUS
<1>1. CASE Visit
  BY <1>1, ShareTypes, ShareNumbers, ShareOrders, ShareScreens DEF Visit, ShareInv
<1>2. CASE UNCHANGED shareVars
  BY <1>2, ShareRests
<1> QED
  BY <1>1, <1>2 DEF Next, Operate, Converse, vars

\* The invariant gives what the run checks of the links.
LEMMA ShareIsSound == ShareInv => NoEntryAfterTheEnd
<1> SUFFICES ASSUME ShareInv PROVE NoEntryAfterTheEnd
  OBVIOUS
<1>0. LinkTypes /\ NumberedLinks /\ Ordered /\ Screened /\ Share!Readable
  BY LinesOfLane DEF ShareInv
<1>1. Share!TypeOK
  <2>1. \A k \in DOMAIN file : file[k] \in Share!Lines /\ (file[k].kind = "mint" => file[k].until > 0)
    BY <1>0, LinesOfLane DEF NumberedLinks, Share!MintLines
  <2>2. /\ \A c \in Clerks : clerk[c].at \in {"idle", "minting", "asked", "revoking"}
        /\ \A g \in Guests : guest[g].at \in {"away", "asking", "granted", "denied", "open", "posting"}
    BY <1>0 DEF LinkTypes, Orders, Visitors
  <2> QED
    BY <1>0, <2>1, <2>2 DEF LinkTypes, Share!TypeOK
<1>2. Share!NoEntryAfterTheEnd
  BY <1>0 DEF Screened, Share!NoEntryAfterTheEnd
<1>3. Share!LinksAreDistinct
  <2>1. Cardinality(1..Minted) = Minted /\ Minted \in Nat
    BY <1>0, RecordsOfLinks, FS_Interval
  <2> QED
    BY <1>0, <2>1, ShareCardinality DEF NumberedLinks, Minted, Share!LinksAreDistinct
<1> QED
  BY <1>0, <1>1, <1>2, <1>3 DEF NoEntryAfterTheEnd, Screened, Share!LaneStaysReadable

\* No guest is let in after the answer to a revoke or after the link's end, no link takes the
\* token of another, and what guests were told of a link is logged, for any number of guests,
\* clerks, links, visits and restarts (share.py:12-14, 57-61, 98-146).
THEOREM LinksAreSound == Spec => []NoEntryAfterTheEnd
<1>1. Init => ShareInv
  BY ShareInit
<1>2. ShareInv /\ [Next]_vars => ShareInv'
  BY ShareStep
<1> QED
  BY <1>1, <1>2, ShareIsSound, PTL DEF Spec

-----------------------------------------------------------------------------
(* The assistant's session                                                 *)

\* The types of the session's state; what a turn has spent is the sum of the log it read.
LogLines == [seq : Nat, kind : {"agent_call", "tool_call", "tool_refused", "error"},
             cost : Prices \cup {0}, source : SUBSET Sources]
Records == [kind : {"user", "assistant", "decline"}, n : Nat, cites : SUBSET Sources,
            earned : SUBSET Sources]
TurnsOf(spent) == [at : Session!Phases, n : Nat, spent : {spent}, tools : 0..MaxTools,
                   recites : 0..MaxRecites, earned : SUBSET Sources, seq : Nat, tail : Seq(Records)]
SessionTypes ==
    /\ log \in Seq(LogLines) /\ transcript \in Seq(Records)
    /\ turn = [t \in Turns |-> turn[t]] /\ \A t \in Turns : turn[t] \in TurnsOf(turn[t].spent)
    /\ overlapped \in BOOLEAN /\ restarts \in 0..MaxCrashes

\* A source of the set has been opened, and the log says so.
Opened(lines, set) == \A c \in set :
    /\ c \notin Withheld
    /\ \E j \in 1..Len(lines) : lines[j].kind = "tool_call" /\ c \in lines[j].source

\* What a turn has earned, what it is about to write, and what is written, was opened.
Earned ==
    /\ \A t \in Turns : Opened(log, turn[t].earned)
    /\ \A t \in Turns : \A i \in 1..Len(turn[t].tail) :
          Opened(log, turn[t].tail[i].cites) /\ Opened(log, turn[t].tail[i].earned)
    /\ \A i \in 1..Len(transcript) : Opened(log, transcript[i].cites) /\ Opened(log, transcript[i].earned)

\* A turn that writes has its message and its answer to write, or its answer alone.
Tails == \A t \in Turns : turn[t].at = "writing" =>
    \/ /\ Len(turn[t].tail) = 2 /\ turn[t].tail[1].kind = "user" /\ turn[t].tail[1].n = turn[t].n
       /\ turn[t].tail[2].kind # "user"
    \/ Len(turn[t].tail) = 1 /\ turn[t].tail[1].kind # "user"

\* While turns have not overlapped, the one in the air goes on where the log ends and has the
\* next ordinal until its message is written; the log has no hole and no ordinal comes twice.
Messages == {i \in 1..Len(transcript) : transcript[i].kind = "user"}
Lone == ~overlapped =>
    /\ \A s, t \in Session!InAir : s = t
    /\ \A t \in Session!InAir : turn[t].at # "writing" => turn[t].seq = Len(log)
    /\ \A t \in Session!InAir : turn[t].at # "writing" \/ Len(turn[t].tail) = 2
                                   => turn[t].n = 1 + Cardinality(Messages)
    /\ \A i \in 1..Len(log) : log[i].seq = i - 1
    /\ \A i \in Messages : transcript[i].n <= Cardinality(Messages)
    /\ \A i, j \in Messages : transcript[i].n = transcript[j].n => i = j

SessionInv == SessionTypes /\ Earned /\ Tails /\ Lone

\* What is assumed of the session's constants.
LEMMA SessionConstants ==
    /\ Withheld \subseteq Sources /\ Prices \subseteq Nat
    /\ MaxTools \in Nat /\ MaxRecites \in Nat /\ MaxCrashes \in Nat
BY DoorConstants DEF Session!AssistantAssumption

\* The library's finite sets are the same wherever they are instantiated.
LEMMA SessionCardinality == \A S : Session!Cardinality(S) = Cardinality(S)
BY DEF Session!Cardinality, Cardinality

\* Nobody has written to the assistant.
LEMMA SessionInit == Init => SessionInv
<1> SUFFICES ASSUME Session!Init PROVE SessionInv
  BY DEF Init
<1> USE DEF Session!Init
<1>1. Session!NewTurn \in TurnsOf(Session!NewTurn.spent)
  BY SessionConstants DEF Session!NewTurn, TurnsOf, Session!Phases
<1>2. turn = [t \in Turns |-> turn[t]] /\ \A t \in Turns : turn[t] = Session!NewTurn
  OBVIOUS
<1>3. SessionTypes
  <2>1. log \in Seq(LogLines) /\ transcript \in Seq(Records) /\ \A t \in Turns : turn[t] \in TurnsOf(turn[t].spent)
    BY <1>1, <1>2
  <2>2. overlapped \in BOOLEAN /\ restarts \in 0..MaxCrashes
    <3>1. overlapped \in BOOLEAN
      OBVIOUS
    <3>2. restarts \in 0..MaxCrashes
      BY SessionConstants
    <3> QED
      BY <3>1, <3>2
  <2> QED
    BY <1>2, <2>1, <2>2 DEF SessionTypes
<1>4. Len(log) = 0 /\ Len(transcript) = 0 /\ \A t \in Turns : Len(turn[t].tail) = 0 /\ turn[t].earned = {}
  BY <1>2 DEF Session!NewTurn
<1>5. Earned
  BY <1>4 DEF Earned, Opened
<1>6. Tails
  BY <1>2 DEF Tails, Session!NewTurn
<1>7. Lone
  <2>1. Session!InAir = {} /\ Messages = {}
    BY <1>2, <1>4 DEF Session!InAir, Session!NewTurn, Messages
  <2> QED
    BY <1>4, <2>1 DEF Lone
<1> QED
  BY <1>3, <1>5, <1>6, <1>7 DEF SessionInv

\* One turn moves and the others stay; the log keeps its lines.
Moves(t) ==
    /\ turn' = [s \in Turns |-> turn'[s]] /\ \A s \in Turns : s # t => turn'[s] = turn[s]
Grows == log' \in Seq(LogLines) /\ Len(log') >= Len(log) /\ \A j \in 1..Len(log) : log'[j] = log[j]

\* What was opened stays opened while the log keeps its lines.
LEMMA StaysOpened ==
    ASSUME SessionTypes, Grows
    PROVE  \A set : Opened(log, set) => Opened(log', set)
<1>1. Len(log) \in Nat /\ Len(log') \in Nat
  BY DEF SessionTypes, Grows
<1>2. \A j \in 1..Len(log) : j \in 1..Len(log') /\ log'[j] = log[j]
  BY <1>1 DEF Grows
<1> QED
  BY <1>2 DEF Opened

\* A turn that moves keeps the invariant, given what its own new state must satisfy: what it
\* has earned was opened, and, if turns have not overlapped, it is alone in the air and goes
\* on where the log ends.
LEMMA TurnMoves ==
    ASSUME SessionInv, NEW t \in Turns, Moves(t), Grows, UNCHANGED <<transcript, restarts>>,
           turn'[t] \in TurnsOf(turn'[t].spent), overlapped' \in BOOLEAN, overlapped => overlapped',
           Opened(log', turn'[t].earned),
           \A i \in 1..Len(turn'[t].tail) :
              Opened(log', turn'[t].tail[i].cites) /\ Opened(log', turn'[t].tail[i].earned),
           turn'[t].at = "writing" =>
              \/ /\ Len(turn'[t].tail) = 2 /\ turn'[t].tail[1].kind = "user"
                 /\ turn'[t].tail[1].n = turn'[t].n /\ turn'[t].tail[2].kind # "user"
              \/ Len(turn'[t].tail) = 1 /\ turn'[t].tail[1].kind # "user",
           ~overlapped' =>
              /\ t \in Session!InAir' => \A s \in Session!InAir : s = t
              /\ t \in Session!InAir \/ log' = log
              /\ t \in Session!InAir' /\ turn'[t].at # "writing" => turn'[t].seq = Len(log')
              /\ t \in Session!InAir' /\ (turn'[t].at # "writing" \/ Len(turn'[t].tail) = 2)
                    => turn'[t].n = 1 + Cardinality(Messages)
              /\ \A i \in 1..Len(log') : log'[i].seq = i - 1
    PROVE  SessionInv'
<1>0. SessionTypes /\ Earned /\ Tails /\ Lone /\ \A s \in Turns : s # t => turn'[s] = turn[s]
  BY DEF SessionInv, Moves
<1>1. SessionTypes'
  <2>1. \A s \in Turns : turn'[s] \in TurnsOf(turn'[s].spent)
    BY <1>0 DEF SessionTypes
  <2> QED
    BY <1>0, <2>1 DEF SessionTypes, Moves, Grows
<1>2. \A set : Opened(log, set) => Opened(log', set)
  BY <1>0, StaysOpened
<1>3. Earned'
  <2>1. \A s \in Turns : Opened(log', turn'[s].earned)
    BY <1>0, <1>2 DEF Earned
  <2>2. \A s \in Turns : \A i \in 1..Len(turn'[s].tail) :
           Opened(log', turn'[s].tail[i].cites) /\ Opened(log', turn'[s].tail[i].earned)
    BY <1>0, <1>2 DEF Earned
  <2>3. \A i \in 1..Len(transcript) : Opened(log', transcript[i].cites) /\ Opened(log', transcript[i].earned)
    BY <1>0, <1>2 DEF Earned
  <2> QED
    BY <2>1, <2>2, <2>3 DEF Earned
<1>4. Tails'
  BY <1>0 DEF Tails
<1>5. Lone'
  <2> SUFFICES ASSUME ~overlapped' PROVE Lone'
    BY DEF Lone
  <2>1. /\ Messages' = Messages
        /\ \A s \in Turns : s # t => (s \in Session!InAir' <=> s \in Session!InAir)
        /\ Session!InAir \subseteq Turns /\ Session!InAir' \subseteq Turns
    BY <1>0 DEF Messages, Session!InAir
  <2>2. \A r, s \in Session!InAir' : r = s
    BY <1>0, <2>1 DEF Lone
  <2>3. \A s \in Session!InAir' : s # t => log' = log
    BY <1>0, <2>1 DEF Lone
  <2>4. \A s \in Session!InAir' : turn'[s].at # "writing" => turn'[s].seq = Len(log')
    BY <1>0, <2>1, <2>3 DEF Lone
  <2>5. \A s \in Session!InAir' : turn'[s].at # "writing" \/ Len(turn'[s].tail) = 2
                                     => turn'[s].n = 1 + Cardinality(Messages)
    BY <1>0, <2>1 DEF Lone
  <2>6. \A i \in 1..Len(log') : log'[i].seq = i - 1
    OBVIOUS
  <2>7. /\ \A i \in Messages' : transcript'[i].n <= Cardinality(Messages')
        /\ \A i, j \in Messages' : transcript'[i].n = transcript'[j].n => i = j
    BY <1>0, <2>1 DEF Lone
  <2> QED
    BY <2>1, <2>2, <2>4, <2>5, <2>6, <2>7 DEF Lone
<1> QED
  BY <1>1, <1>3, <1>4, <1>5 DEF SessionInv

\* A line at the end of the log: the log keeps its lines, and the line is there.
LEMMA LogLineLands ==
    ASSUME SessionTypes, NEW line \in LogLines, log' = Append(log, line)
    PROVE  /\ Grows /\ Len(log') = Len(log) + 1 /\ log'[Len(log) + 1] = line
           /\ (\A i \in 1..Len(log) : log[i].seq = i - 1) /\ line.seq = Len(log)
                 => \A i \in 1..Len(log') : log'[i].seq = i - 1
<1>1. log \in Seq(LogLines) /\ Len(log) \in Nat
  BY DEF SessionTypes
<1>2. /\ log' \in Seq(LogLines) /\ Len(log') = Len(log) + 1 /\ log'[Len(log) + 1] = line
      /\ \A i \in 1..Len(log) : log'[i] = log[i]
  BY <1>1, AppendProperties
<1>3. \A i \in 1..Len(log') : i \in 1..Len(log) \/ i = Len(log) + 1
  BY <1>1, <1>2
<1> QED
  BY <1>1, <1>2, <1>3 DEF Grows

\* One turn is replaced in the function of turns.
LEMMA TurnPut ==
    ASSUME SessionTypes, NEW t \in Turns, NEW new, turn' = [turn EXCEPT ![t] = new]
    PROVE  Moves(t) /\ turn'[t] = new
<1>1. turn = [s \in Turns |-> turn[s]]
  BY DEF SessionTypes
<1>2. DOMAIN turn = Turns /\ turn' = [s \in Turns |-> IF s = t THEN new ELSE turn[s]]
  BY <1>1
<1> QED
  BY <1>2 DEF Moves

\* The records of a turn, field by field.
LEMMA FieldsOfTurn ==
    ASSUME SessionTypes, NEW t \in Turns
    PROVE  /\ turn[t].at \in Session!Phases /\ turn[t].n \in Nat /\ turn[t].tools \in 0..MaxTools
           /\ turn[t].recites \in 0..MaxRecites /\ turn[t].earned \subseteq Sources
           /\ turn[t].seq \in Nat /\ turn[t].tail \in Seq(Records)
           /\ Len(log) \in Nat /\ Len(transcript) \in Nat
           /\ IsFiniteSet(Messages) /\ Cardinality(Messages) \in Nat
           /\ \A i \in 1..Len(transcript) : transcript[i] \in Records
<1>1. turn[t] \in TurnsOf(turn[t].spent) /\ log \in Seq(LogLines) /\ transcript \in Seq(Records)
  BY DEF SessionTypes
<1>2. Len(log) \in Nat /\ Len(transcript) \in Nat /\ \A i \in 1..Len(transcript) : transcript[i] \in Records
  BY <1>1
<1>3. IsFiniteSet(Messages)
  <2>1. IsFiniteSet(1..Len(transcript)) /\ Messages \in SUBSET (1..Len(transcript))
    BY <1>2, FS_Interval DEF Messages
  <2> QED
    BY <2>1, FS_Subset
<1> QED
  BY <1>1, <1>2, <1>3, FS_CardinalityType DEF TurnsOf

\* A turn starts from what the log and the transcript say, or is refused by the brake.
LEMMA ReceiveStep == ASSUME SessionInv, NEW t \in Turns, Session!Receive(t) PROVE SessionInv'
<1>0. SessionTypes /\ Earned /\ Lone
  BY DEF SessionInv
<1>1. UNCHANGED <<log, transcript, restarts>> /\ turn[t].at = "waiting" /\ t \notin Session!InAir
  BY DEF Session!Receive, Session!InAir
<1>2. Grows
  BY <1>0, <1>1 DEF Grows, SessionTypes
<1>3. overlapped' \in BOOLEAN /\ (overlapped => overlapped')
  BY <1>0 DEF SessionTypes, Session!Receive
<1>4. CASE Session!Brake
  <2> DEFINE new == [Session!NewTurn EXCEPT !.at = "asking", !.n = Session!NextOrdinal,
                        !.spent = Session!SpentUsd, !.earned = Session!EarnedSoFar,
                        !.seq = Session!NextSeq]
  <2>1. turn' = [turn EXCEPT ![t] = new]
    BY <1>4 DEF Session!Receive
  <2>2. Session!NextOrdinal = 1 + Cardinality(Messages)
    BY SessionCardinality DEF Session!NextOrdinal, Messages
  <2>3. Session!NextSeq \in Nat
    <3>1. CASE log = <<>>
      BY <3>1 DEF Session!NextSeq
    <3>2. CASE log # <<>>
      <4>1. Len(log) \in 1..Len(log) /\ log[Len(log)] \in LogLines
        BY <1>0, <3>2 DEF SessionTypes
      <4> QED
        BY <3>2, <4>1 DEF Session!NextSeq, Session!Last, LogLines
    <3> QED
      BY <3>1, <3>2
  <2>4. (\A i \in 1..Len(log) : log[i].seq = i - 1) => Session!NextSeq = Len(log)
    <3>1. CASE log = <<>>
      BY <3>1 DEF Session!NextSeq
    <3>2. CASE log # <<>>
      <4>1. Len(log) \in 1..Len(log) /\ Len(log) \in Nat
        BY <1>0, <3>2 DEF SessionTypes
      <4> QED
        BY <3>2, <4>1 DEF Session!NextSeq, Session!Last
    <3> QED
      BY <3>1, <3>2
  <2>5. Session!EarnedSoFar \subseteq Sources /\ Opened(log, Session!EarnedSoFar)
    <3>1. \A i \in 1..Len(transcript) : transcript[i].earned \subseteq Sources
      BY <1>0, FieldsOfTurn DEF Records
    <3>2. \A i \in 1..Len(transcript) : Opened(log, transcript[i].earned)
      BY <1>0 DEF Earned
    <3> QED
      BY <3>1, <3>2 DEF Session!EarnedSoFar, Opened
  <2>6. /\ new.at = "asking" /\ new.n = Session!NextOrdinal /\ new.spent = Session!SpentUsd
        /\ new.earned = Session!EarnedSoFar /\ new.seq = Session!NextSeq /\ new.tail = <<>>
        /\ new.tools = 0 /\ new.recites = 0
    BY DEF Session!NewTurn
  <2>7. new \in TurnsOf(Session!SpentUsd)
    <3> DEFINE n == Session!NextOrdinal
               spent == Session!SpentUsd
               earned == Session!EarnedSoFar
               seq == Session!NextSeq
    <3>1. n \in Nat /\ seq \in Nat /\ earned \in SUBSET Sources
          /\ <<>> \in Seq(Records) /\ 0 \in 0..MaxTools /\ 0 \in 0..MaxRecites
      BY <1>0, <2>2, <2>3, <2>5, FieldsOfTurn, SessionConstants
    <3> HIDE DEF n, spent, earned, seq
    <3>2. [Session!NewTurn EXCEPT !.at = "asking", !.n = n, !.spent = spent, !.earned = earned,
              !.seq = seq]
            \in [at : {"asking"}, n : Nat, spent : {spent}, tools : {0}, recites : {0},
                 earned : SUBSET Sources, seq : Nat, tail : {<<>>}]
      BY <3>1 DEF Session!NewTurn
    <3>3. [at : {"asking"}, n : Nat, spent : {spent}, tools : {0}, recites : {0},
           earned : SUBSET Sources, seq : Nat, tail : {<<>>}] \subseteq TurnsOf(spent)
      BY <3>1 DEF TurnsOf, Session!Phases
    <3> QED
      BY <3>2, <3>3 DEF n, spent, earned, seq
  <2> HIDE DEF new
  <2>8. Moves(t) /\ turn'[t] = new
    BY <1>0, <2>1, TurnPut
  <2>9. ~overlapped' => Session!InAir = {} /\ ~overlapped
    BY <1>0, <1>4 DEF Session!Receive, SessionTypes
  <2>10. Len(turn'[t].tail) = 0
    BY <2>6, <2>8
  <2>11. Opened(log', turn'[t].earned)
    BY <1>1, <2>5, <2>6, <2>8
  <2>12. turn'[t] \in TurnsOf(turn'[t].spent)
    BY <2>6, <2>7, <2>8
  <2>13. ~overlapped' =>
              /\ t \in Session!InAir' => \A s \in Session!InAir : s = t
              /\ t \in Session!InAir \/ log' = log
              /\ t \in Session!InAir' /\ turn'[t].at # "writing" => turn'[t].seq = Len(log')
              /\ t \in Session!InAir' /\ (turn'[t].at # "writing" \/ Len(turn'[t].tail) = 2)
                    => turn'[t].n = 1 + Cardinality(Messages)
              /\ \A i \in 1..Len(log') : log'[i].seq = i - 1
    BY <1>0, <1>1, <2>2, <2>4, <2>6, <2>8, <2>9 DEF Lone
  <2>14. turn'[t].at # "writing"
    BY <2>6, <2>8
  <2> QED
    BY <1>1, <1>2, <1>3, <2>8, <2>10, <2>11, <2>12, <2>13, <2>14, TurnMoves
<1>5. CASE ~Session!Brake
  <2> DEFINE new == [turn[t] EXCEPT !.at = "refused"]
  <2>1. turn' = [turn EXCEPT ![t] = new]
    BY <1>0, <1>5 DEF Session!Receive, Session!Turned, SessionTypes
  <2>2. /\ new.at = "refused" /\ new.earned = turn[t].earned /\ new.tail = turn[t].tail
        /\ new \in TurnsOf(new.spent)
    BY <1>0 DEF SessionTypes, TurnsOf, Session!Phases
  <2> HIDE DEF new
  <2>3. Moves(t) /\ turn'[t] = new
    BY <1>0, <2>1, TurnPut
  <2>4. t \notin Session!InAir' /\ (~overlapped' => ~overlapped)
    BY <1>3, <2>2, <2>3 DEF Session!InAir
  <2>5. Opened(log', turn'[t].earned)
    BY <1>0, <1>1, <2>2, <2>3 DEF Earned
  <2>6. \A i \in 1..Len(turn'[t].tail) :
           Opened(log', turn'[t].tail[i].cites) /\ Opened(log', turn'[t].tail[i].earned)
    BY <1>0, <1>1, <2>2, <2>3 DEF Earned
  <2>7. ~overlapped' =>
              /\ t \in Session!InAir' => \A s \in Session!InAir : s = t
              /\ t \in Session!InAir \/ log' = log
              /\ t \in Session!InAir' /\ turn'[t].at # "writing" => turn'[t].seq = Len(log')
              /\ t \in Session!InAir' /\ (turn'[t].at # "writing" \/ Len(turn'[t].tail) = 2)
                    => turn'[t].n = 1 + Cardinality(Messages)
              /\ \A i \in 1..Len(log') : log'[i].seq = i - 1
    BY <1>0, <1>1, <2>4 DEF Lone
  <2>8. turn'[t].at # "writing" /\ turn'[t] \in TurnsOf(turn'[t].spent)
    BY <2>2, <2>3
  <2> QED
    BY <1>1, <1>2, <1>3, <2>3, <2>5, <2>6, <2>7, <2>8, TurnMoves
<1> QED
  BY <1>4, <1>5

\* A turn that is asking or acting, goes on with what it earned, and has written nothing yet:
\* what TurnMoves needs of such a step.
Continues(t) ==
    /\ turn'[t] \in TurnsOf(turn'[t].spent) /\ turn'[t].tail = turn[t].tail
    /\ turn'[t].n = turn[t].n /\ turn'[t].at \in {"asking", "acting", "refused"}
    /\ turn'[t].at # "refused" =>
          (turn[t].seq = Len(log) => turn'[t].seq = Len(log'))
    /\ (\A i \in 1..Len(log) : log[i].seq = i - 1) /\ turn[t].seq = Len(log)
          => \A i \in 1..Len(log') : log'[i].seq = i - 1

\* A turn that continues keeps the invariant: it is TurnMoves with the transcript at rest.
LEMMA ContinueStep ==
    ASSUME SessionInv, NEW t \in Turns, turn[t].at \in {"asking", "acting"}, Moves(t), Grows,
           Continues(t), Opened(log', turn'[t].earned), UNCHANGED <<transcript, restarts, overlapped>>
    PROVE  SessionInv'
<1>0. SessionTypes /\ Earned /\ Lone /\ t \in Session!InAir
  BY DEF SessionInv, Session!InAir
<1>1. \A i \in 1..Len(turn'[t].tail) :
         Opened(log', turn'[t].tail[i].cites) /\ Opened(log', turn'[t].tail[i].earned)
  BY <1>0, StaysOpened DEF Earned, Continues
<1>2. ~overlapped' =>
          /\ t \in Session!InAir' => \A s \in Session!InAir : s = t
          /\ t \in Session!InAir \/ log' = log
          /\ t \in Session!InAir' /\ turn'[t].at # "writing" => turn'[t].seq = Len(log')
          /\ t \in Session!InAir' /\ (turn'[t].at # "writing" \/ Len(turn'[t].tail) = 2)
                => turn'[t].n = 1 + Cardinality(Messages)
          /\ \A i \in 1..Len(log') : log'[i].seq = i - 1
  <2> SUFFICES ASSUME ~overlapped
               PROVE  /\ \A s \in Session!InAir : s = t
                      /\ t \in Session!InAir' => turn'[t].seq = Len(log')
                      /\ turn'[t].n = 1 + Cardinality(Messages)
                      /\ \A i \in 1..Len(log') : log'[i].seq = i - 1
    BY <1>0
  <2>1. /\ \A s \in Session!InAir : s = t
        /\ turn[t].seq = Len(log) /\ turn[t].n = 1 + Cardinality(Messages)
        /\ \A i \in 1..Len(log) : log[i].seq = i - 1
    BY <1>0 DEF Lone
  <2>2. t \in Session!InAir' => turn'[t].at # "refused"
    BY DEF Session!InAir
  <2> QED
    BY <2>1, <2>2 DEF Continues
<1>3. overlapped' \in BOOLEAN /\ (overlapped => overlapped')
  BY <1>0 DEF SessionTypes
<1>4. turn'[t].at # "writing" /\ turn'[t] \in TurnsOf(turn'[t].spent)
  BY DEF Continues
<1> QED
  BY <1>1, <1>2, <1>3, <1>4, TurnMoves

\* A model call leaves its line, and a second one when it tripped the ceiling.
LEMMA AskStep ==
    ASSUME SessionInv, NEW t \in Turns, NEW cost \in Prices, Session!Ask(t, cost)
    PROVE  SessionInv'
<1> DEFINE over == turn[t].spent + cost > Ceiling
           call == Session!LogLine(turn[t].seq, "agent_call", cost, {})
           stop == Session!LogLine(turn[t].seq + 1, "error", 0, {})
           new == [turn[t] EXCEPT !.spent = turn[t].spent + cost,
                                  !.seq = turn[t].seq + (IF over THEN 2 ELSE 1),
                                  !.at = IF over THEN "refused" ELSE "acting"]
<1>0. SessionTypes /\ Earned
  BY DEF SessionInv
<1>1. /\ turn[t].at = "asking" /\ UNCHANGED <<transcript, overlapped, restarts>>
      /\ log' = log \o <<call>> \o (IF over THEN <<stop>> ELSE <<>>)
  BY DEF Session!Ask
<1>2. turn' = [turn EXCEPT ![t] = new]
  BY <1>0 DEF Session!Ask, SessionTypes
<1>3. /\ turn[t].seq \in Nat /\ turn[t] \in TurnsOf(turn[t].spent)
      /\ log \in Seq(LogLines) /\ Len(log) \in Nat
  BY <1>0, FieldsOfTurn DEF SessionTypes
<1>4. call \in LogLines /\ stop \in LogLines /\ call.seq = turn[t].seq /\ stop.seq = turn[t].seq + 1
  BY <1>3 DEF Session!LogLine, LogLines
<1> HIDE DEF call, stop, over
<1>5. /\ new.tail = turn[t].tail /\ new.n = turn[t].n /\ new.earned = turn[t].earned
      /\ new.at = (IF over THEN "refused" ELSE "acting")
      /\ new.seq = turn[t].seq + (IF over THEN 2 ELSE 1)
      /\ new.spent = turn[t].spent + cost
  BY <1>3 DEF TurnsOf
<1>6. new \in TurnsOf(turn[t].spent + cost)
  <2> DEFINE sum == turn[t].spent + cost
             next == turn[t].seq + (IF over THEN 2 ELSE 1)
             at == IF over THEN "refused" ELSE "acting"
  <2>1. next \in Nat /\ at \in Session!Phases
    BY <1>3 DEF Session!Phases
  <2> HIDE DEF sum, next, at
  <2>2. [turn[t] EXCEPT !.spent = sum, !.seq = next, !.at = at] \in TurnsOf(sum)
    BY <1>3, <2>1 DEF TurnsOf
  <2> QED
    BY <2>2 DEF sum, next, at
<1> HIDE DEF new
<1>7. Moves(t) /\ turn'[t] = new
  BY <1>0, <1>2, TurnPut
<1>8. CASE over
  <2>1. log' = Append(Append(log, call), stop)
    <3>1. log' = log \o <<call>> \o <<stop>>
      BY <1>1, <1>8
    <3>2. log \o <<call>> = Append(log, call) /\ Append(log, call) \in Seq(LogLines)
      BY <1>3, <1>4
    <3>3. \A s \in Seq(LogLines) : s \o <<stop>> = Append(s, stop)
      BY <1>4
    <3> QED
      BY <3>1, <3>2, <3>3
  <2>2. /\ Append(log, call) \in Seq(LogLines) /\ Len(Append(log, call)) = Len(log) + 1
        /\ Append(log, call)[Len(log) + 1] = call
        /\ \A i \in 1..Len(log) : Append(log, call)[i] = log[i]
    BY <1>3, <1>4, AppendProperties
  <2> DEFINE mid == Append(log, call)
  <2> HIDE DEF mid
  <2>3. /\ log' \in Seq(LogLines) /\ Len(log') = Len(mid) + 1 /\ log'[Len(mid) + 1] = stop
        /\ \A i \in 1..Len(mid) : log'[i] = mid[i]
    BY <1>4, <2>1, <2>2, AppendProperties DEF mid
  <2>4. /\ Len(log') = Len(log) + 2 /\ log'[Len(log) + 2] = stop /\ log'[Len(log) + 1] = call
        /\ \A i \in 1..Len(log) : log'[i] = log[i]
    BY <1>3, <2>2, <2>3 DEF mid
  <2>5. Grows
    BY <1>3, <2>3, <2>4 DEF Grows
  <2>6. (\A i \in 1..Len(log) : log[i].seq = i - 1) /\ turn[t].seq = Len(log)
          => \A i \in 1..Len(log') : log'[i].seq = i - 1
    <3>1. \A i \in 1..Len(log') : i \in 1..Len(log) \/ i = Len(log) + 1 \/ i = Len(log) + 2
      BY <1>3, <2>4
    <3> QED
      BY <1>3, <1>4, <2>4, <3>1
  <2>7. Continues(t)
    BY <1>5, <1>6, <1>7, <1>8, <2>6 DEF Continues
  <2>8. Opened(log', turn'[t].earned)
    BY <1>0, <1>5, <1>7, <2>5, StaysOpened DEF Earned
  <2> QED
    BY <1>1, <1>7, <2>5, <2>7, <2>8, ContinueStep
<1>9. CASE ~over
  <2>1. log' = Append(log, call)
    BY <1>1, <1>3, <1>4, <1>9
  <2>2. /\ Grows /\ Len(log') = Len(log) + 1
        /\ (\A i \in 1..Len(log) : log[i].seq = i - 1) /\ call.seq = Len(log)
              => \A i \in 1..Len(log') : log'[i].seq = i - 1
    BY <1>0, <1>4, <2>1, LogLineLands
  <2>3. new.seq = turn[t].seq + 1
    BY <1>5, <1>9
  <2>4. Continues(t)
    BY <1>4, <1>5, <1>6, <1>7, <1>9, <2>2, <2>3 DEF Continues
  <2>5. Opened(log', turn'[t].earned)
    BY <1>0, <1>5, <1>7, <2>2, StaysOpened DEF Earned
  <2> QED
    BY <1>1, <1>7, <2>2, <2>4, <2>5, ContinueStep
<1> QED
  BY <1>8, <1>9

\* A refused turn leaves one error line.
LEMMA RefuseStep ==
    ASSUME SessionInv, NEW t \in Turns, turn[t].at = "acting", Session!Refuse(t),
           UNCHANGED <<transcript, overlapped, restarts>>
    PROVE  SessionInv'
<1> DEFINE stop == Session!LogLine(turn[t].seq, "error", 0, {})
           new == [turn[t] EXCEPT !.at = "refused", !.seq = turn[t].seq + 1]
<1>0. SessionTypes /\ Earned
  BY DEF SessionInv
<1>1. turn[t].seq \in Nat /\ turn[t] \in TurnsOf(turn[t].spent)
  BY <1>0, FieldsOfTurn DEF SessionTypes
<1>2. log' = Append(log, stop) /\ turn' = [turn EXCEPT ![t] = new]
  BY <1>0 DEF Session!Refuse, Session!Emit, SessionTypes
<1>3. stop \in LogLines /\ stop.seq = turn[t].seq
  BY <1>1 DEF Session!LogLine, LogLines
<1>4. /\ new.tail = turn[t].tail /\ new.n = turn[t].n /\ new.earned = turn[t].earned
      /\ new.at = "refused" /\ new.spent = turn[t].spent /\ new \in TurnsOf(turn[t].spent)
  <2> DEFINE next == turn[t].seq + 1
  <2>1. next \in Nat /\ "refused" \in Session!Phases
    BY <1>1 DEF Session!Phases
  <2> HIDE DEF next
  <2>2. [turn[t] EXCEPT !.at = "refused", !.seq = next] \in TurnsOf(turn[t].spent)
    BY <1>1, <2>1 DEF TurnsOf
  <2>3. new \in TurnsOf(turn[t].spent)
    BY <2>2 DEF next
  <2> QED
    BY <1>1, <2>3 DEF TurnsOf
<1> HIDE DEF stop, new
<1>5. Moves(t) /\ turn'[t] = new
  BY <1>0, <1>2, TurnPut
<1>6. /\ Grows
      /\ (\A i \in 1..Len(log) : log[i].seq = i - 1) /\ stop.seq = Len(log)
            => \A i \in 1..Len(log') : log'[i].seq = i - 1
  BY <1>0, <1>2, <1>3, LogLineLands
<1>7. Continues(t)
  BY <1>3, <1>4, <1>5, <1>6 DEF Continues
<1>8. Opened(log', turn'[t].earned)
  BY <1>0, <1>4, <1>5, <1>6, StaysOpened DEF Earned
<1> QED
  BY <1>5, <1>6, <1>7, <1>8, ContinueStep

\* A tool leaves its line, and earns what the line says was opened.
LEMMA ToolStep ==
    ASSUME SessionInv, NEW t \in Turns, NEW opened \in {{}} \cup {{s} : s \in Sources},
           Session!Tool(t, opened)
    PROVE  SessionInv'
<1>0. SessionTypes /\ Earned
  BY DEF SessionInv
<1>1. turn[t].at = "acting" /\ UNCHANGED <<transcript, overlapped, restarts>>
  BY DEF Session!Tool
<1>2. CASE turn[t].tools + 1 > MaxTools
  <2>1. Session!Refuse(t)
    BY <1>2 DEF Session!Tool
  <2> QED
    BY <1>1, <2>1, RefuseStep
<1>3. CASE ~(turn[t].tools + 1 > MaxTools)
  <2> DEFINE kind == IF opened \ Withheld = opened THEN "tool_call" ELSE "tool_refused"
             line == Session!LogLine(turn[t].seq, kind, 0, opened \ Withheld)
             new == [turn[t] EXCEPT !.at = "asking", !.seq = turn[t].seq + 1,
                        !.tools = turn[t].tools + 1, !.earned = turn[t].earned \cup (opened \ Withheld)]
  <2>1. /\ turn[t].seq \in Nat /\ turn[t] \in TurnsOf(turn[t].spent)
        /\ turn[t].tools + 1 \in 0..MaxTools /\ turn[t].earned \cup (opened \ Withheld) \subseteq Sources
    BY <1>0, <1>3, FieldsOfTurn, SessionConstants DEF SessionTypes
  <2>2. log' = Append(log, line)
    BY <1>3 DEF Session!Tool, Session!Emit, Session!Earns
  <2>3. turn' = [turn EXCEPT ![t] = new]
    BY <1>0, <1>3 DEF Session!Tool, Session!Earns, SessionTypes
  <2>4. line \in LogLines /\ line.seq = turn[t].seq /\ line.source = opened \ Withheld /\ line.kind = kind
    BY <2>1 DEF Session!LogLine, LogLines
  <2>5. /\ new.tail = turn[t].tail /\ new.n = turn[t].n /\ new.at = "asking"
        /\ new.earned = turn[t].earned \cup (opened \ Withheld) /\ new.seq = turn[t].seq + 1
        /\ new \in TurnsOf(new.spent)
    <3> DEFINE tools == turn[t].tools + 1
               earned == turn[t].earned \cup (opened \ Withheld)
               next == turn[t].seq + 1
    <3>1. /\ tools \in 0..MaxTools /\ earned \in SUBSET Sources /\ next \in Nat
          /\ "asking" \in Session!Phases
      BY <2>1 DEF Session!Phases
    <3> HIDE DEF tools, earned, next
    <3>2. [turn[t] EXCEPT !.at = "asking", !.seq = next, !.tools = tools, !.earned = earned]
            \in TurnsOf(turn[t].spent)
      BY <2>1, <3>1 DEF TurnsOf
    <3>3. new \in TurnsOf(turn[t].spent)
      BY <3>2 DEF tools, earned, next
    <3> QED
      BY <2>1, <3>3 DEF TurnsOf
  <2> HIDE DEF line, new
  <2>6. Moves(t) /\ turn'[t] = new
    BY <1>0, <2>3, TurnPut
  <2>7. /\ Grows /\ Len(log') = Len(log) + 1 /\ log'[Len(log) + 1] = line /\ Len(log) \in Nat
        /\ (\A i \in 1..Len(log) : log[i].seq = i - 1) /\ line.seq = Len(log)
              => \A i \in 1..Len(log') : log'[i].seq = i - 1
    BY <1>0, <2>2, <2>4, LogLineLands, FieldsOfTurn
  <2>8. Continues(t)
    BY <2>4, <2>5, <2>6, <2>7 DEF Continues
  <2>9. Opened(log', turn'[t].earned)
    <3>1. Opened(log', turn[t].earned)
      BY <1>0, <2>7, StaysOpened DEF Earned
    <3>2. Opened(log', opened \ Withheld)
      <4> SUFFICES ASSUME NEW c \in opened \ Withheld
                   PROVE  \E j \in 1..Len(log') : log'[j].kind = "tool_call" /\ c \in log'[j].source
        BY DEF Opened
      <4>1. opened \ Withheld = opened
        OBVIOUS
      <4>2. Len(log) + 1 \in 1..Len(log')
        BY <2>7
      <4> QED
        BY <2>4, <2>7, <4>1, <4>2
    <3> QED
      BY <2>5, <2>6, <3>1, <3>2 DEF Opened
  <2> QED
    BY <1>1, <2>6, <2>7, <2>8, <2>9, ContinueStep
<1> QED
  BY <1>2, <1>3

\* An answer that cites only what it earned is laid out to be written, after its message.
LEMMA WriteStep ==
    ASSUME SessionInv, NEW t \in Turns, NEW kind \in {"assistant", "decline"},
           NEW cites \in SUBSET turn[t].earned, turn[t].at = "acting",
           turn' = [turn EXCEPT ![t].at = "writing", ![t].tail = Session!Frames(t, kind, cites)],
           UNCHANGED <<log, transcript, overlapped, restarts>>
    PROVE  SessionInv'
<1> DEFINE tail == Session!Frames(t, kind, cites)
           new == [turn[t] EXCEPT !.at = "writing", !.tail = tail]
<1>0. SessionTypes /\ Earned /\ Lone /\ t \in Session!InAir
  BY DEF SessionInv, Session!InAir
<1>1. turn' = [turn EXCEPT ![t] = new]
  BY <1>0 DEF SessionTypes
<1>2. /\ turn[t] \in TurnsOf(turn[t].spent) /\ turn[t].n \in Nat
      /\ turn[t].earned \subseteq Sources /\ cites \subseteq Sources
  BY <1>0, FieldsOfTurn DEF SessionTypes
<1>3. /\ tail \in Seq(Records) /\ Len(tail) = 2 /\ tail[1].kind = "user" /\ tail[1].n = turn[t].n
      /\ tail[1].cites = {} /\ tail[1].earned = {}
      /\ tail[2].kind = kind /\ tail[2].cites = cites /\ tail[2].earned = turn[t].earned
  <2> DEFINE first == Session!Record("user", turn[t].n, {}, {})
             second == Session!Record(kind, turn[t].n, cites, turn[t].earned)
  <2>1. /\ first \in Records /\ first.kind = "user" /\ first.n = turn[t].n
        /\ first.cites = {} /\ first.earned = {}
    BY <1>2 DEF Session!Record, Records
  <2>2. /\ second \in Records /\ second.kind = kind /\ second.cites = cites
        /\ second.earned = turn[t].earned
    BY <1>2 DEF Session!Record, Records
  <2>3. tail = <<first, second>>
    BY DEF Session!Frames
  <2> HIDE DEF first, second, tail
  <2> QED
    BY <2>1, <2>2, <2>3
<1> HIDE DEF tail
<1>4. /\ new.at = "writing" /\ new.tail = tail /\ new.n = turn[t].n /\ new.earned = turn[t].earned
      /\ new.spent = turn[t].spent /\ new \in TurnsOf(turn[t].spent)
  BY <1>2, <1>3 DEF TurnsOf, Session!Phases
<1> HIDE DEF new
<1>5. Moves(t) /\ turn'[t] = new
  BY <1>0, <1>1, TurnPut
<1>6. Grows
  BY <1>0 DEF Grows, SessionTypes
<1>7. /\ turn'[t] \in TurnsOf(turn'[t].spent) /\ Opened(log', turn'[t].earned)
      /\ overlapped' \in BOOLEAN /\ (overlapped => overlapped')
  BY <1>0, <1>4, <1>5 DEF Earned, SessionTypes
<1>8. \A i \in 1..Len(turn'[t].tail) :
         Opened(log', turn'[t].tail[i].cites) /\ Opened(log', turn'[t].tail[i].earned)
  <2>1. Opened(log, turn[t].earned) /\ Opened(log, cites) /\ Opened(log, {})
    BY <1>0 DEF Earned, Opened
  <2>2. turn'[t].tail = tail
    BY <1>4, <1>5
  <2>3. \A i \in 1..2 : i = 1 \/ i = 2
    OBVIOUS
  <2>4. \A i \in 1..Len(tail) : i = 1 \/ i = 2
    BY <1>3, <2>3
  <2> QED
    BY <1>3, <2>1, <2>2, <2>4
<1>9. turn'[t].at = "writing" =>
          \/ /\ Len(turn'[t].tail) = 2 /\ turn'[t].tail[1].kind = "user"
             /\ turn'[t].tail[1].n = turn'[t].n /\ turn'[t].tail[2].kind # "user"
          \/ Len(turn'[t].tail) = 1 /\ turn'[t].tail[1].kind # "user"
  BY <1>3, <1>4, <1>5
<1>10. ~overlapped' =>
          /\ t \in Session!InAir' => \A s \in Session!InAir : s = t
          /\ t \in Session!InAir \/ log' = log
          /\ t \in Session!InAir' /\ turn'[t].at # "writing" => turn'[t].seq = Len(log')
          /\ t \in Session!InAir' /\ (turn'[t].at # "writing" \/ Len(turn'[t].tail) = 2)
                => turn'[t].n = 1 + Cardinality(Messages)
          /\ \A i \in 1..Len(log') : log'[i].seq = i - 1
  BY <1>0, <1>4, <1>5 DEF Lone
<1> QED
  BY <1>5, <1>6, <1>7, <1>8, <1>9, <1>10, TurnMoves

\* A decline cites nothing.
LEMMA DeclineStep == ASSUME SessionInv, NEW t \in Turns, Session!Decline(t) PROVE SessionInv'
<1>1. /\ turn[t].at = "acting" /\ UNCHANGED <<log, transcript, overlapped, restarts>>
      /\ turn' = [turn EXCEPT ![t].at = "writing", ![t].tail = Session!Frames(t, "decline", {})]
  BY DEF Session!Decline
<1>2. {} \in SUBSET turn[t].earned /\ "decline" \in {"assistant", "decline"}
  OBVIOUS
<1> QED
  BY <1>1, <1>2, WriteStep

\* A malformed wire ends the turn with an error line.
LEMMA BadWireStep == ASSUME SessionInv, NEW t \in Turns, Session!BadWire(t) PROVE SessionInv'
BY RefuseStep DEF Session!BadWire

\* An answer that cites too much is asked again while retries are left, and refused after them.
LEMMA AnswerStep ==
    ASSUME SessionInv, NEW t \in Turns, NEW cites \in SUBSET Sources, Session!Answer(t, cites)
    PROVE  SessionInv'
<1>0. SessionTypes /\ Earned
  BY DEF SessionInv
<1>1. turn[t].at = "acting" /\ UNCHANGED <<transcript, overlapped, restarts>>
  BY DEF Session!Answer
<1>2. CASE Session!Bogus(t, cites) = {}
  <2>1. /\ turn' = [turn EXCEPT ![t].at = "writing",
                                ![t].tail = Session!Frames(t, "assistant", cites)]
        /\ UNCHANGED log
    BY <1>2 DEF Session!Answer
  <2>2. cites \in SUBSET turn[t].earned
    BY <1>2 DEF Session!Bogus
  <2> QED
    BY <1>1, <2>1, <2>2, WriteStep
<1>3. CASE Session!Bogus(t, cites) # {} /\ Session!Exhausted(t)
  <2>1. Session!Refuse(t)
    BY <1>3 DEF Session!Answer
  <2> QED
    BY <1>1, <2>1, RefuseStep
<1>4. CASE Session!Bogus(t, cites) # {} /\ ~Session!Exhausted(t)
  <2> DEFINE tools == turn[t].tools + 1
             recites == turn[t].recites + 1
             new == [turn[t] EXCEPT !.at = "asking", !.tools = tools, !.recites = recites]
  <2>1. UNCHANGED log /\ turn' = [turn EXCEPT ![t] = new]
    BY <1>0, <1>4 DEF Session!Answer, SessionTypes
  <2>2. /\ turn[t] \in TurnsOf(turn[t].spent) /\ "asking" \in Session!Phases
        /\ turn[t].tools \in 0..MaxTools /\ turn[t].recites \in 0..MaxRecites
    BY <1>0, FieldsOfTurn DEF SessionTypes, Session!Phases
  <2>3. tools \in 0..MaxTools /\ recites \in 0..MaxRecites
    BY <1>4, <2>2, SessionConstants DEF Session!Exhausted
  <2> HIDE DEF tools, recites
  <2>4. /\ new.at = "asking" /\ new.tail = turn[t].tail /\ new.n = turn[t].n
        /\ new.earned = turn[t].earned /\ new.seq = turn[t].seq /\ new.spent = turn[t].spent
        /\ new \in TurnsOf(turn[t].spent)
    BY <2>2, <2>3 DEF TurnsOf
  <2> HIDE DEF new
  <2>5. Moves(t) /\ turn'[t] = new
    BY <1>0, <2>1, TurnPut
  <2>6. Grows
    BY <1>0, <2>1 DEF Grows, SessionTypes
  <2>7. Continues(t)
    BY <2>1, <2>4, <2>5 DEF Continues
  <2>8. Opened(log', turn'[t].earned)
    BY <1>0, <2>1, <2>4, <2>5 DEF Earned
  <2> QED
    BY <1>1, <2>5, <2>6, <2>7, <2>8, ContinueStep
<1> QED
  BY <1>2, <1>3, <1>4

\* One line of the transcript is written: the message first, under the ordinal its turn holds,
\* then what answered it.
LEMMA Append1Step == ASSUME SessionInv, NEW t \in Turns, Session!Append1(t) PROVE SessionInv'
<1> DEFINE tail == turn[t].tail
           rest == SubSeq(tail, 2, Len(tail))
           at == IF Len(tail) = 1 THEN "done" ELSE "writing"
           new == [turn[t] EXCEPT !.tail = rest, !.at = at]
           line == tail[1]
           last == Len(transcript) + 1
<1>0. SessionTypes /\ Earned /\ Tails /\ Lone
  BY DEF SessionInv
<1>1. /\ turn[t].at = "writing" /\ UNCHANGED <<log, overlapped, restarts>> /\ t \in Session!InAir
      /\ transcript' = Append(transcript, Head(tail))
  BY DEF Session!Append1, Session!InAir
<1>2. turn' = [turn EXCEPT ![t] = new]
  BY <1>0 DEF Session!Append1, SessionTypes
<1>3. /\ turn[t] \in TurnsOf(turn[t].spent) /\ tail \in Seq(Records)
      /\ transcript \in Seq(Records) /\ Len(transcript) \in Nat /\ last \in Nat
      /\ IsFiniteSet(Messages) /\ Cardinality(Messages) \in Nat
  BY <1>0, FieldsOfTurn DEF SessionTypes
<1>4. \/ Len(tail) = 2 /\ line.kind = "user" /\ line.n = turn[t].n /\ tail[2].kind # "user"
      \/ Len(tail) = 1 /\ line.kind # "user"
  BY <1>0, <1>1 DEF Tails
<1>5. line \in Records /\ Head(tail) = line
  BY <1>3, <1>4
<1>6. /\ rest \in Seq(Records) /\ Len(rest) = Len(tail) - 1
      /\ \A i \in 1..Len(rest) : i + 1 \in 1..Len(tail) /\ rest[i] = tail[i + 1]
  BY <1>3, <1>4, TailIsSubSeq, HeadTailProperties
<1>7. /\ transcript' \in Seq(Records) /\ Len(transcript') = last /\ transcript'[last] = line
      /\ \A i \in 1..Len(transcript) : transcript'[i] = transcript[i]
      /\ \A i \in 1..Len(transcript') : i \in 1..Len(transcript) \/ i = last
  <2>1. /\ transcript' \in Seq(Records) /\ Len(transcript') = Len(transcript) + 1
        /\ transcript'[Len(transcript) + 1] = line
        /\ \A i \in 1..Len(transcript) : transcript'[i] = transcript[i]
    BY <1>1, <1>3, <1>5, AppendProperties
  <2> QED
    BY <1>3, <2>1
<1>8. at \in Session!Phases
  BY DEF Session!Phases
<1>9. Len(tail) = 1 => at = "done"
  OBVIOUS
<1>10. Len(tail) = 2 => at = "writing"
  OBVIOUS
<1>11. (Len(tail) = 2 => Len(rest) = 1 /\ rest[1].kind # "user") /\ (Len(tail) = 1 => Len(rest) = 0)
  BY <1>4, <1>6
<1> HIDE DEF rest, at
<1>12. /\ new.tail = rest /\ new.at = at /\ new.n = turn[t].n /\ new.earned = turn[t].earned
       /\ new.spent = turn[t].spent /\ new \in TurnsOf(turn[t].spent)
  BY <1>3, <1>6, <1>8 DEF TurnsOf
<1> HIDE DEF new
<1>13. Moves(t) /\ turn'[t] = new
  BY <1>0, <1>2, TurnPut
<1>14. \A s \in Turns : s # t => turn'[s] = turn[s]
  BY <1>13 DEF Moves
<1>15. SessionTypes'
  <2>1. \A s \in Turns : turn'[s] \in TurnsOf(turn'[s].spent)
    BY <1>0, <1>12, <1>13, <1>14 DEF SessionTypes
  <2> QED
    BY <1>0, <1>1, <1>7, <1>13, <2>1 DEF SessionTypes, Moves
<1>16. Earned'
  <2>1. \A s \in Turns : Opened(log', turn'[s].earned)
    BY <1>0, <1>1, <1>12, <1>13, <1>14 DEF Earned
  <2>2. \A i \in 1..Len(tail) : Opened(log, tail[i].cites) /\ Opened(log, tail[i].earned)
    BY <1>0 DEF Earned
  <2>3. \A i \in 1..Len(rest) : Opened(log, rest[i].cites) /\ Opened(log, rest[i].earned)
    BY <1>6, <2>2
  <2>4. \A s \in Turns : \A i \in 1..Len(turn'[s].tail) :
           Opened(log', turn'[s].tail[i].cites) /\ Opened(log', turn'[s].tail[i].earned)
    <3>1. ASSUME NEW s \in Turns, s # t
          PROVE  \A i \in 1..Len(turn'[s].tail) :
                    Opened(log', turn'[s].tail[i].cites) /\ Opened(log', turn'[s].tail[i].earned)
      BY <1>0, <1>1, <1>14, <3>1 DEF Earned
    <3>2. \A i \in 1..Len(turn'[t].tail) :
             Opened(log', turn'[t].tail[i].cites) /\ Opened(log', turn'[t].tail[i].earned)
      BY <1>1, <1>12, <1>13, <2>3
    <3> QED
      BY <3>1, <3>2
  <2>5. \A i \in 1..Len(transcript') :
           Opened(log', transcript'[i].cites) /\ Opened(log', transcript'[i].earned)
    <3>1. 1 \in 1..Len(tail)
      BY <1>4
    <3>2. Opened(log, line.cites) /\ Opened(log, line.earned)
      BY <2>2, <3>1
    <3>3. \A i \in 1..Len(transcript) :
             Opened(log, transcript[i].cites) /\ Opened(log, transcript[i].earned)
      BY <1>0 DEF Earned
    <3> QED
      BY <1>1, <1>7, <3>2, <3>3
  <2> QED
    BY <2>1, <2>4, <2>5 DEF Earned
<1>17. Tails'
  <2>1. turn'[t].at = "writing" => Len(turn'[t].tail) = 1 /\ turn'[t].tail[1].kind # "user"
    BY <1>4, <1>9, <1>11, <1>12, <1>13
  <2> QED
    BY <1>0, <1>14, <2>1 DEF Tails
<1>18. Lone'
  <2> SUFFICES ASSUME ~overlapped PROVE Lone'
    BY <1>1 DEF Lone
  <2>1. /\ \A s \in Session!InAir : s = t
        /\ Len(tail) = 2 => line.n = 1 + Cardinality(Messages)
        /\ \A i \in 1..Len(log) : log[i].seq = i - 1
        /\ \A i \in Messages : transcript[i].n <= Cardinality(Messages)
        /\ \A i, j \in Messages : transcript[i].n = transcript[j].n => i = j
    BY <1>0, <1>1, <1>4 DEF Lone
  <2>2. \A s \in Session!InAir' : s = t
    BY <1>14, <2>1 DEF Session!InAir
  <2>3. turn'[t].at = "writing" => Len(turn'[t].tail) = 1
    BY <1>4, <1>9, <1>11, <1>12, <1>13
  <2>4. t \in Session!InAir' => turn'[t].at = "writing"
    BY <1>4, <1>9, <1>10, <1>12, <1>13 DEF Session!InAir
  <2>5. /\ \A r, s \in Session!InAir' : r = s
        /\ \A s \in Session!InAir' : turn'[s].at # "writing" => turn'[s].seq = Len(log')
        /\ \A s \in Session!InAir' : turn'[s].at # "writing" \/ Len(turn'[s].tail) = 2
                                        => turn'[s].n = 1 + Cardinality(Messages')
        /\ \A i \in 1..Len(log') : log'[i].seq = i - 1
    <3>1. \A r, s \in Session!InAir' : r = s
      BY <2>2
    <3>2. \A s \in Session!InAir' : turn'[s].at = "writing" /\ Len(turn'[s].tail) = 1
      BY <2>2, <2>3, <2>4
    <3>3. \A i \in 1..Len(log') : log'[i].seq = i - 1
      BY <1>1, <2>1
    <3> QED
      BY <3>1, <3>2, <3>3
  <2>6. /\ \A i \in Messages' : transcript'[i].n <= Cardinality(Messages')
        /\ \A i, j \in Messages' : transcript'[i].n = transcript'[j].n => i = j
    <3>1. CASE line.kind = "user"
      <4>1. Messages' = Messages \cup {last} /\ last \notin Messages
        BY <1>3, <1>7, <3>1 DEF Messages
      <4>2. Cardinality(Messages') = Cardinality(Messages) + 1
        BY <1>3, <4>1, FS_AddElement
      <4>3. /\ \A i \in Messages : transcript'[i].n = transcript[i].n /\ transcript[i].n \in Nat
            /\ transcript'[last].n = 1 + Cardinality(Messages)
        BY <1>0, <1>4, <1>7, <2>1, <3>1, FieldsOfTurn DEF Messages, Records
      <4> QED
        BY <1>3, <2>1, <4>1, <4>2, <4>3
    <3>2. CASE line.kind # "user"
      <4>1. Messages' = Messages /\ \A i \in Messages : transcript'[i] = transcript[i]
        BY <1>3, <1>7, <3>2 DEF Messages
      <4> QED
        BY <2>1, <4>1
    <3> QED
      BY <3>1, <3>2
  <2> QED
    BY <2>5, <2>6 DEF Lone
<1> QED
  BY <1>15, <1>16, <1>17, <1>18 DEF SessionInv

\* A restart refuses every turn in the air; what is durable stays as it was.
LEMMA CrashStep == SessionInv /\ Session!Crash => SessionInv'
<1> SUFFICES ASSUME SessionInv, Session!Crash PROVE SessionInv'
  OBVIOUS
<1>0. SessionTypes /\ Earned /\ Tails /\ Lone
  BY DEF SessionInv
<1>1. /\ UNCHANGED <<log, transcript, overlapped>> /\ restarts' = restarts + 1 /\ restarts < MaxCrashes
      /\ turn' = [t \in Turns |-> IF t \in Session!InAir THEN [turn[t] EXCEPT !.at = "refused"]
                                                         ELSE turn[t]]
  BY DEF Session!Crash
<1>2. /\ turn' = [t \in Turns |-> turn'[t]]
      /\ \A t \in Turns : turn'[t] = IF t \in Session!InAir THEN [turn[t] EXCEPT !.at = "refused"]
                                                            ELSE turn[t]
  BY <1>1
<1>3. ASSUME NEW t \in Turns
      PROVE  /\ turn'[t] \in TurnsOf(turn'[t].spent) /\ t \notin Session!InAir'
             /\ turn'[t].earned = turn[t].earned /\ turn'[t].tail = turn[t].tail
             /\ turn'[t].at # "writing"
  <2>1. CASE t \in Session!InAir
    <3>1. turn'[t] = [turn[t] EXCEPT !.at = "refused"]
      BY <1>2, <2>1
    <3>2. turn[t] \in TurnsOf(turn[t].spent)
      BY <1>0 DEF SessionTypes
    <3>3. /\ turn'[t].at = "refused" /\ turn'[t].earned = turn[t].earned
          /\ turn'[t].tail = turn[t].tail /\ turn'[t] \in TurnsOf(turn'[t].spent)
      BY <3>1, <3>2 DEF TurnsOf, Session!Phases
    <3> QED
      BY <3>3 DEF Session!InAir
  <2>2. CASE t \notin Session!InAir
    BY <1>0, <1>2, <2>2 DEF Session!InAir, SessionTypes
  <2> QED
    BY <2>1, <2>2
<1>4. SessionTypes'
  <2>1. restarts' \in 0..MaxCrashes
    BY <1>0, <1>1, SessionConstants DEF SessionTypes
  <2> QED
    BY <1>0, <1>1, <1>2, <1>3, <2>1 DEF SessionTypes
<1>5. Earned'
  BY <1>0, <1>1, <1>3 DEF Earned
<1>6. Tails'
  BY <1>3 DEF Tails
<1>7. Lone'
  <2>1. Session!InAir' = {} /\ Messages' = Messages
    BY <1>1, <1>3 DEF Session!InAir, Messages
  <2> QED
    BY <1>0, <1>1, <2>1 DEF Lone
<1> QED
  BY <1>4, <1>5, <1>6, <1>7 DEF SessionInv

\* Whatever else moves leaves the session's invariant alone.
LEMMA SessionRests == SessionInv /\ UNCHANGED sessionVars => SessionInv'
<1> SUFFICES ASSUME SessionInv, UNCHANGED sessionVars PROVE SessionInv'
  OBVIOUS
<1>1. /\ UNCHANGED <<log, transcript, turn, overlapped, restarts>>
      /\ SessionTypes /\ Earned /\ Tails /\ Lone
  BY DEF sessionVars, SessionInv
<1>2. Messages' = Messages /\ Session!InAir' = Session!InAir
  BY <1>1 DEF Messages, Session!InAir
<1>3. SessionTypes'
  BY <1>1 DEF SessionTypes
<1>4. Earned'
  BY <1>1 DEF Earned
<1>5. Tails'
  BY <1>1 DEF Tails
<1>6. Lone'
  BY <1>1, <1>2 DEF Lone
<1> QED
  BY <1>3, <1>4, <1>5, <1>6 DEF SessionInv

\* The session's invariant holds across every step of the composition.
LEMMA SessionStep == SessionInv /\ [Next]_vars => SessionInv'
<1> SUFFICES ASSUME SessionInv, [Next]_vars PROVE SessionInv'
  OBVIOUS
<1>1. CASE Session!Next
  <2>1. ASSUME NEW t \in Turns, Session!Step(t) PROVE SessionInv'
    <3>1. CASE Session!Receive(t)
      BY <3>1, ReceiveStep
    <3>2. CASE Session!Decline(t)
      BY <3>2, DeclineStep
    <3>3. CASE Session!BadWire(t)
      BY <3>3, BadWireStep
    <3>4. CASE Session!Append1(t)
      BY <3>4, Append1Step
    <3>5. CASE \E cost \in Prices : Session!Ask(t, cost)
      BY <3>5, AskStep
    <3>6. CASE \E opened \in {{}} \cup {{s} : s \in Sources} : Session!Tool(t, opened)
      BY <3>6, ToolStep
    <3>7. CASE \E cites \in (SUBSET Sources) \ {{}} : Session!Answer(t, cites)
      BY <3>7, AnswerStep
    <3> QED
      BY <2>1, <3>1, <3>2, <3>3, <3>4, <3>5, <3>6, <3>7 DEF Session!Step
  <2> QED
    BY <1>1, <2>1, CrashStep DEF Session!Next
<1>2. CASE UNCHANGED sessionVars
  BY <1>2, SessionRests
<1> QED
  BY <1>1, <1>2 DEF Next, Operate, Visit, Converse, vars

\* The invariant gives what the run checks of the session.
LEMMA SessionIsSound == SessionInv => CitationsEarned
<1> SUFFICES ASSUME SessionInv PROVE CitationsEarned
  OBVIOUS
<1>0. SessionTypes /\ Earned /\ Lone
  BY DEF SessionInv
<1>1. Session!TypeOK
  <2>1. \A i \in 1..Len(log) : log[i] \in LogLines
    BY <1>0 DEF SessionTypes
  <2>2. \A i \in 1..Len(transcript) : transcript[i] \in Records
    BY <1>0 DEF SessionTypes
  <2>3. \A t \in Turns : /\ turn[t].at \in Session!Phases /\ turn[t].earned \subseteq Sources
                         /\ turn[t].tools \in 0..MaxTools /\ turn[t].recites \in 0..MaxRecites
    BY <1>0, FieldsOfTurn
  <2>4. \A i \in 1..Len(log) :
           /\ log[i].kind \in {"agent_call", "tool_call", "tool_refused", "error"}
           /\ log[i].cost \in Prices \cup {0} /\ log[i].seq \in Nat /\ log[i].source \subseteq Sources
    BY <2>1 DEF LogLines
  <2>5. \A i \in 1..Len(transcript) :
           /\ transcript[i].kind \in {"user", "assistant", "decline"} /\ transcript[i].n \in Nat
           /\ transcript[i].cites \cup transcript[i].earned \subseteq Sources
    BY <2>2 DEF Records
  <2> QED
    BY <1>0, <2>3, <2>4, <2>5 DEF Session!TypeOK, SessionTypes
<1>2. Session!CitationsEarned
  BY <1>0 DEF Session!CitationsEarned, Earned, Opened
<1>3. Session!LoneTurnsGapless
  BY <1>0 DEF Session!LoneTurnsGapless, Lone, Messages
<1> QED
  BY <1>1, <1>2, <1>3 DEF CitationsEarned

\* An answer cites only what its session opened, and never a withheld card, for any number of
\* messages, sources and restarts and any interleaving of the turns; turns that never overlap
\* leave one gapless run and one ordinal per message (tools.py:49-53, session.py:5-8).
THEOREM CitationsAreEarned == Spec => []CitationsEarned
<1>1. Init => SessionInv
  BY SessionInit
<1>2. SessionInv /\ [Next]_vars => SessionInv'
  BY SessionStep
<1> QED
  BY <1>1, <1>2, SessionIsSound, PTL DEF Spec
=============================================================================
