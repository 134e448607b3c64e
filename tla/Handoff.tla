------------------------------- MODULE Handoff -------------------------------
(***************************************************************************)
(* The operator seam (llm/handoff.py): a model call becomes a request file *)
(* call-NNNN.request.json, and the caller waits, bounded, for the matching *)
(* response file.  The operator reads a request at one time and writes the *)
(* answer at another; the server restarts between them.  Both directories  *)
(* are durable, the counter is not: it is read back from the file names.   *)
(***************************************************************************)
EXTENDS Integers, FiniteSets, FiniteSetsExt

CONSTANTS Threads,    \* threads that may hold a call in the air
          Agents,     \* prompts are told apart by the agent that asks
          Named,      \* highest number the directory scan recognises (9999)
          MaxSeq,     \* bound: exchanges
          MaxBad,     \* bound: answers that are refused
          MaxStops,   \* bound: restarts of the server
          None, Half  \* no file, no thread; half a file

VARIABLES up, counter,      \* the process and its in-memory _seq
          request,          \* request file by number, or None
          response,         \* response file by number: None, Half or an answer
          wait,             \* the exchange each thread polls for, or None
          desk,             \* the request the operator has read, or None
          results,          \* history: what _accept returned
          calls, bad, stops \* counts, for identity and for the bounds

files == <<request, response>>
vars == <<up, counter, request, response, wait, desk, results, calls, bad, stops>>

Numbers == 1..MaxSeq
Requests == [seq : Numbers, agent : Agents, id : Nat]   \* id is history
Answers == [seq : Numbers, agent : Agents, for : Nat, usable : BOOLEAN]

\* Assumed of the constants wherever this module is instantiated.
HandoffAssumption ==
    /\ {Named, MaxSeq, MaxBad, MaxStops} \subseteq Nat
    /\ None \notin Requests \cup Answers /\ Half \notin Answers

TypeOK ==
    /\ up \in BOOLEAN /\ counter \in 0..MaxSeq
    /\ request \in [Numbers -> Requests \cup {None}]
    /\ response \in [Numbers -> Answers \cup {None, Half}]
    /\ wait \in [Threads -> Requests \cup {None}]
    /\ desk \in Requests \cup {None}
    /\ results \subseteq [seq : Numbers, asked : Nat, answered : Nat]
    /\ calls \in 0..MaxSeq + MaxStops * MaxSeq /\ bad \in 0..MaxBad /\ stops \in 0..MaxStops

Init ==
    /\ up = FALSE /\ counter = 0
    /\ request = [n \in Numbers |-> None]
    /\ response = [n \in Numbers |-> None]
    /\ wait = [t \in Threads |-> None]
    /\ desk = None /\ results = {}
    /\ calls = 0 /\ bad = 0 /\ stops = 0

Exists(n) == request[n] # None \/ response[n] # None

\* Mutant: the count resumes past the answered exchanges only.
Answered == Max({0} \cup {n \in Numbers : n <= Named /\ response[n] # None})
\* The highest number among the file names the pattern matches.
Highest == Max({0} \cup {n \in Numbers : n <= Named /\ Exists(n)})

---------------------------------------------------------------------------

\* HandoffCaller.__post_init__, one caller for the life of the server.
Start ==
    /\ ~up
    /\ up' = TRUE /\ counter' = Highest
    /\ UNCHANGED <<files, wait, desk, results, calls, bad, stops>>

\* _exchange: take a number under the lock, write the request, start to poll.
Issue(t, agent) ==
    LET asked == [seq |-> counter + 1, agent |-> agent, id |-> calls + 1]
    IN  /\ up /\ wait[t] = None /\ counter < MaxSeq
        /\ counter' = counter + 1 /\ calls' = calls + 1
        /\ request' = [request EXCEPT ![counter + 1] = asked]
        /\ wait' = [wait EXCEPT ![t] = asked]
        /\ UNCHANGED <<up, response, desk, results, bad, stops>>

\* The poll reads the response of its own number; half a file is not ready.
Ready(asked) == {n \in Numbers : n = asked.seq /\ response[n] \in Answers}

\* _accept: the answer must name the request, a model that is not fake-, a text.
EchoHolds(answer, asked) ==
    answer.seq = asked.seq /\ answer.agent = asked.agent /\ answer.usable

Accept(t) ==
    /\ up /\ wait[t] # None
    /\ \E n \in Ready(wait[t]) :
          results' = IF EchoHolds(response[n], wait[t])
                     THEN results \cup {[seq |-> n, asked |-> wait[t].id,
                                         answered |-> response[n].for]}
                     ELSE results                          \* HandoffError
    /\ wait' = [wait EXCEPT ![t] = None]
    /\ UNCHANGED <<up, counter, files, desk, calls, bad, stops>>

\* The deadline is looked at only when the file is not ready; both files stay.
NotReady(asked) == Ready(asked) = {}

Expire(t) ==
    /\ up /\ wait[t] # None /\ NotReady(wait[t])
    /\ wait' = [wait EXCEPT ![t] = None]
    /\ UNCHANGED <<up, counter, files, desk, results, calls, bad, stops>>

---------------------------------------------------------------------------
\* The operator: reads a request that has no answer yet, ...
Read(n) ==
    /\ request[n] # None /\ response[n] \notin Answers
    /\ desk' = request[n]
    /\ UNCHANGED <<up, counter, files, wait, results, calls, bad, stops>>

\* ... and writes, at some later time, half of an answer, an answer, or one that
\* names another request or no model.
WriteHalf ==
    /\ desk # None /\ response[desk.seq] = None
    /\ response' = [response EXCEPT ![desk.seq] = Half]
    /\ UNCHANGED <<up, counter, request, wait, desk, results, calls, bad, stops>>

Write ==
    /\ desk # None
    /\ response' = [response EXCEPT ![desk.seq] =
          [seq |-> desk.seq, agent |-> desk.agent, for |-> desk.id, usable |-> TRUE]]
    /\ desk' = None
    /\ UNCHANGED <<up, counter, request, wait, results, calls, bad, stops>>

Misplace(n) ==     \* the answer is saved under another request's number
    /\ desk # None /\ bad < MaxBad /\ request[n] # None /\ response[n] = None
    /\ \E usable \in BOOLEAN :
          response' = [response EXCEPT ![n] =
             [seq |-> desk.seq, agent |-> desk.agent, for |-> desk.id, usable |-> usable]]
    /\ bad' = bad + 1 /\ desk' = None
    /\ UNCHANGED <<up, counter, request, wait, results, calls, stops>>

Stop ==      \* the process ends; threads and counter are gone, files are not
    /\ up /\ stops < MaxStops
    /\ stops' = stops + 1 /\ up' = FALSE /\ counter' = 0
    /\ wait' = [t \in Threads |-> None]
    /\ UNCHANGED <<files, desk, results, calls, bad>>

Next ==
    \/ Start \/ Stop \/ WriteHalf \/ Write
    \/ \E t \in Threads : Accept(t) \/ Expire(t) \/ \E agent \in Agents : Issue(t, agent)
    \/ \E n \in Numbers : Read(n) \/ Misplace(n)

\* The loop of _exchange runs until the file or the deadline; the clock advances.
Fairness == \A t \in Threads : WF_vars(Accept(t) \/ Expire(t))
Spec == Init /\ [][Next]_vars /\ Fairness

---------------------------------------------------------------------------
\* A judgment reaches only the call it was given for: neither an answer that
\* comes after the timeout, nor one saved under a wrong name, nor one written
\* across a restart is taken by a later call (handoff.py:95-102, 160-165).
AnswersItsQuestion == \A r \in results : r.answered = r.asked

\* The files are the audit record (handoff.py:1-10): "a re-advanced walk issues
\* NEW requests and never overwrites an earlier pair" (handoff.py:100-101).
PairsStand ==
    [][\A n \in Numbers : request[n] # None => request'[n] = request[n]]_vars

\* A call never waits for ever, also when the operator never answers and when
\* half an answer stays on disk (handoff.py:137-153).
EveryWaitEnds == \A t \in Threads : wait[t] # None ~> wait[t] = None
=============================================================================
