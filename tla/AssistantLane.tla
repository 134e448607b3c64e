---------------------------- MODULE AssistantLane ----------------------------
(***************************************************************************)
(* One session of the steward's assistant (assistant/loop.py, session.py,  *)
(* tools.py and the message route of web/server.py).  A message is one     *)
(* request thread: it loads the session, checks the spend that the log     *)
(* shows, and runs a bounded loop of model calls and tools.  No lock keeps *)
(* two messages of one session apart.  The run log is durable line by      *)
(* line; the transcript is appended only when the turn has ended well.     *)
(***************************************************************************)
EXTENDS Integers, Sequences, SequencesExt, FiniteSets

CONSTANTS Turns,       \* the messages, one request thread each
          Sources,     \* documents, cards and proposals that may be cited
          Withheld,    \* cards that the tools refuse to open
          Prices,      \* cost of one model call
          Ceiling,     \* SESSION_CEILING_USD
          MaxTools,    \* MAX_TOOL_ACTIONS
          MaxRecites,  \* citation retries
          MaxCrashes   \* bound: restarts of the server

\* Assumed of the constants wherever this module is instantiated.
AssistantAssumption ==
    /\ Withheld \subseteq Sources /\ Prices \subseteq Nat /\ Prices # {}
    /\ {Ceiling, MaxTools, MaxRecites, MaxCrashes} \subseteq Nat

VARIABLES log,         \* run.jsonl of the session: [seq, kind, cost, source]
          transcript,  \* transcript.jsonl: [kind, n, cites, earned]
          turn,        \* what each thread holds in memory
          overlapped,  \* history: two turns were in the air at once
          crashes

vars == <<log, transcript, turn, overlapped, crashes>>

Phases == {"waiting", "asking", "acting", "writing", "done", "refused"}
NewTurn == [at |-> "waiting", n |-> 0, spent |-> 0, tools |-> 0, recites |-> 0,
            earned |-> {}, seq |-> 0, tail |-> <<>>]
LogLine(seq, kind, cost, src) == [seq |-> seq, kind |-> kind, cost |-> cost, source |-> src]
Record(kind, n, cites, earned) == [kind |-> kind, n |-> n, cites |-> cites, earned |-> earned]

TypeOK ==
    /\ \A i \in 1..Len(log) :
          /\ log[i].kind \in {"agent_call", "tool_call", "tool_refused", "error"}
          /\ log[i].cost \in Prices \cup {0} /\ log[i].seq \in Nat
          /\ log[i].source \subseteq Sources
    /\ \A i \in 1..Len(transcript) :
          /\ transcript[i].kind \in {"user", "assistant", "decline"}
          /\ transcript[i].n \in Nat
          /\ transcript[i].cites \cup transcript[i].earned \subseteq Sources
    /\ \A t \in Turns : turn[t].at \in Phases /\ turn[t].earned \subseteq Sources
    /\ \A t \in Turns : turn[t].tools \in 0..MaxTools /\ turn[t].recites \in 0..MaxRecites
    /\ overlapped \in BOOLEAN /\ crashes \in 0..MaxCrashes

Init ==
    /\ log = <<>> /\ transcript = <<>>
    /\ turn = [t \in Turns |-> NewTurn]
    /\ overlapped = FALSE /\ crashes = 0

InAir == {t \in Turns : turn[t].at \in {"asking", "acting", "writing"}}
SpentUsd == FoldLeft(LAMBDA sum, line : sum + line.cost, 0, log)
EarnedSoFar == UNION {transcript[i].earned : i \in 1..Len(transcript)}
NextOrdinal == 1 + Cardinality({i \in 1..Len(transcript) : transcript[i].kind = "user"})
NextSeq == IF log = <<>> THEN 0 ELSE Last(log).seq + 1    \* RunLogger, resume=True

Emit(t, kind, cost, src) == log' = Append(log, LogLine(turn[t].seq, kind, cost, src))

---------------------------------------------------------------------------
\* The preflight of the route: spend is derived from the log, never stored.
Brake == SpentUsd < Ceiling

Turned == "refused"     \* the typed 402

Receive(t) ==     \* load the session, preflight, start the turn
    /\ turn[t].at = "waiting"
    /\ IF Brake
       THEN turn' = [turn EXCEPT ![t] = [NewTurn EXCEPT
                        !.at = "asking", !.n = NextOrdinal, !.spent = SpentUsd,
                        !.earned = EarnedSoFar, !.seq = NextSeq]]
       ELSE turn' = [turn EXCEPT ![t].at = Turned]
    /\ overlapped' = (overlapped \/ (Brake /\ InAir # {}))
    /\ UNCHANGED <<log, transcript, crashes>>

\* traced.call: the line first, then the ceiling, started from the spend of the
\* session; the raised ceiling is a second line of the log.
Ask(t, cost) ==
    LET over == turn[t].spent + cost > Ceiling
    IN  /\ turn[t].at = "asking"
        /\ log' = log \o <<LogLine(turn[t].seq, "agent_call", cost, {})>>
                      \o (IF over THEN <<LogLine(turn[t].seq + 1, "error", 0, {})>> ELSE <<>>)
        /\ turn' = [turn EXCEPT ![t].spent = @ + cost,
                                ![t].seq = @ + (IF over THEN 2 ELSE 1),
                                ![t].at = IF over THEN "refused" ELSE "acting"]
        /\ UNCHANGED <<transcript, overlapped, crashes>>

Refuse(t) ==     \* a malformed wire or an exhausted budget: one error line, 502
    /\ Emit(t, "error", 0, {})
    /\ turn' = [turn EXCEPT ![t].at = "refused", ![t].seq = @ + 1]

\* Mutant: a tool earns whatever it was asked for.
EarnsAll(opened) == opened
\* read_doc, open_card and card_detail earn what they open and refuse a withheld
\* card; search and the views open nothing.
Earns(opened) == opened \ Withheld

\* One arm of the loop: execute a tool, with its line, and ask again.
Tool(t, opened) ==
    /\ turn[t].at = "acting"
    /\ IF turn[t].tools + 1 > MaxTools
       THEN Refuse(t)
       ELSE /\ Emit(t, IF Earns(opened) = opened THEN "tool_call" ELSE "tool_refused",
                    0, opened \ Withheld)
            /\ turn' = [turn EXCEPT ![t].at = "asking", ![t].seq = @ + 1,
                           ![t].tools = @ + 1, ![t].earned = @ \cup Earns(opened)]
    /\ UNCHANGED <<transcript, overlapped, crashes>>

Bogus(t, cites) == cites \ turn[t].earned

Exhausted(t) == turn[t].tools + 1 > MaxTools \/ turn[t].recites + 1 > MaxRecites

Frames(t, kind, cites) ==
    <<Record("user", turn[t].n, {}, {}),
      Record(kind, turn[t].n, cites, turn[t].earned)>>

Answer(t, cites) ==
    /\ turn[t].at = "acting"
    /\ IF Bogus(t, cites) = {}
       THEN /\ turn' = [turn EXCEPT ![t].at = "writing",
                                    ![t].tail = Frames(t, "assistant", cites)]
            /\ UNCHANGED log
       ELSE IF Exhausted(t)
       THEN Refuse(t)
       ELSE /\ turn' = [turn EXCEPT ![t].at = "asking", ![t].tools = @ + 1,
                                    ![t].recites = @ + 1]
            /\ UNCHANGED log
    /\ UNCHANGED <<transcript, overlapped, crashes>>

Decline(t) ==
    /\ turn[t].at = "acting"
    /\ turn' = [turn EXCEPT ![t].at = "writing", ![t].tail = Frames(t, "decline", {})]
    /\ UNCHANGED <<log, transcript, overlapped, crashes>>

BadWire(t) == turn[t].at = "acting" /\ Refuse(t) /\ UNCHANGED <<transcript, overlapped, crashes>>

Append1(t) ==     \* session.append, one durable line at a time
    /\ turn[t].at = "writing"
    /\ transcript' = Append(transcript, Head(turn[t].tail))
    /\ turn' = [turn EXCEPT ![t].tail = SubSeq(@, 2, Len(@)),
                            ![t].at = IF Len(turn[t].tail) = 1 THEN "done" ELSE "writing"]
    /\ UNCHANGED <<log, overlapped, crashes>>

Crash ==          \* the server dies with every turn in the air
    /\ InAir # {} /\ crashes < MaxCrashes
    /\ crashes' = crashes + 1
    /\ turn' = [t \in Turns |-> IF t \in InAir THEN [turn[t] EXCEPT !.at = "refused"] ELSE turn[t]]
    /\ UNCHANGED <<log, transcript, overlapped>>

Step(t) ==
    \/ Receive(t) \/ Decline(t) \/ BadWire(t) \/ Append1(t)
    \/ \E cost \in Prices : Ask(t, cost)
    \/ \E opened \in {{}} \cup {{s} : s \in Sources} : Tool(t, opened)
    \/ \E cites \in (SUBSET Sources) \ {{}} : Answer(t, cites)

Next == Crash \/ \E t \in Turns : Step(t)
Spec == Init /\ [][Next]_vars /\ \A t \in Turns : WF_vars(Step(t))

---------------------------------------------------------------------------
\* Only what was retrieved may be cited (tools.py:49-53), for every answer that
\* is kept, however turns interleave or crash: a tool_call line of the session
\* shows that each cited source was opened, so no withheld card is ever cited.
CitationsEarned ==
    \A i \in 1..Len(transcript) : \A c \in transcript[i].cites \cup transcript[i].earned :
        /\ c \notin Withheld
        /\ \E j \in 1..Len(log) : log[j].kind = "tool_call" /\ c \in log[j].source

\* Turns that never overlap spend at most the call that trips the ceiling beyond
\* it, over the whole session: refused and crashed turns are counted as well,
\* since the spend is read from the log (session.py:11-12, server.py:2163).
LoneTurnsBrake ==
    ~overlapped => \A p \in Prices : (\A q \in Prices : q <= p) => SpentUsd <= Ceiling + p

\* Turns that never overlap leave one gapless run and one ordinal per message,
\* also when a crash cut a turn between its two records (session.py:5-8).
LoneTurnsGapless ==
    ~overlapped =>
        /\ \A i \in 1..Len(log) : log[i].seq = i - 1
        /\ \A i, j \in 1..Len(transcript) :
              i # j /\ transcript[i].kind = "user" /\ transcript[j].kind = "user"
                 => transcript[i].n # transcript[j].n

\* Every message ends with a reply or a typed refusal: the loop is bounded by the
\* tools, the citation retries and the ceiling (loop.py:136-242).
EveryTurnEnds == \A t \in Turns : <>(turn[t].at \in {"done", "refused"})

\* "The RunLogger is resume-safe, so every HTTP turn reopens the same gapless
\* run" (session.py:6-7), without the condition that the turns do not overlap.
EveryTurnGapless == \A i \in 1..Len(log) : log[i].seq = i - 1
=============================================================================
