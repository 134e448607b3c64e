----------------------------- MODULE IntakeReview -----------------------------
(***************************************************************************)
(* What a Gate 0 request does to the brief (intake/brief.py:101-368,       *)
(* intake/gate.py:52-215) and to the organisations of the workspace        *)
(* (workspace/orgs.py).  A pursuit has its own lane, so two pursuits decide *)
(* at the same time; they share the orgs directory and the inbox of card   *)
(* proposals.  A request works on a copy of the brief that is written at   *)
(* its end; a bad instruction raises, and the copy is dropped.             *)
(*                                                                         *)
(* One matrix row and one deadline stand for all; the parser of a text is  *)
(* the set of texts that state a number or a date, which is the text.      *)
(***************************************************************************)
EXTENDS Naturals, FiniteSets

CONSTANTS Pursuits, Texts, Stated,  \* buyer texts; those that parse
          Questions,                \* what the questioner may ask
          Crisp,                    \* questions within the brevity rules
          Wires,      \* per pursuit: what the analyst and the questioner return
          Elder,      \* a name under which an org is known from an older pursuit
          Absent, MaxOrgs, MaxRequests, MaxPings  \* bounds (pings: at one time)

\* Assumed of the constants wherever this module is instantiated.
ReviewAssumption ==
    /\ Stated \subseteq Texts /\ Crisp \subseteq Questions /\ Absent \notin Texts \cup Pursuits
    /\ {MaxOrgs, MaxRequests, MaxPings} \subseteq Nat /\ MaxOrgs > 0
    /\ \A p \in Pursuits : Wires[p] \subseteq
          [weight : Texts \cup {Absent}, date : Texts \cup {Absent},
           shown : BOOLEAN, asked : SUBSET Questions]

VARIABLES saved,      \* brief.json of each pursuit
          orgs,       \* org.json: the aliases of each minted org
          minter,     \* who holds _MINT_LOCK
          request,    \* the request in the air: phase, copy of the brief, org
          spawned,    \* <<pursuit, gap>> of card proposals in the inbox
          sent,       \* requests sent
          pinged,     \* <<pursuit, gap>> of the pings without an answer
          minted      \* history: org mints that took place

vars == <<saved, orgs, minter, request, spawned, sent, pinged, minted>>

Texted == {"weight_text", "date_text"}
Fields == Texted \cup {"weight", "date"}
Parse(text) == IF text \in Stated THEN text ELSE Absent
Targets == {"weight", "deadlines"}     \* what completeness asks for
Gaps == Targets \cup Questions
GapStates == {"absent", "open", "answered", "skipped"}

\* The register lists every present field: the texts as the model's, the number
\* and the date as parsed by code.
Register(values) ==
    [f \in Fields |-> IF values[f] = Absent THEN "absent" ELSE "unconfirmed"]

\* completeness: a weight or a date of the documents that no row carries.
Misses(values, shown) ==
    {t \in Targets : shown /\ values[IF t = "weight" THEN "weight" ELSE "date_text"] = Absent}

\* Code assembles the brief from the wire; the questioner's crisp questions are
\* appended behind the completeness gaps, the rest is dropped and reported.
Assembled(wire) ==
    LET values == [f \in Fields |->
            CASE f = "weight_text" -> wire.weight [] f = "weight" -> Parse(wire.weight)
              [] f = "date_text" -> wire.date     [] f = "date" -> Parse(wire.date)]
    IN  [values |-> values, register |-> Register(values), org |-> 0, stamped |-> FALSE,
         gaps |-> [g \in Gaps |-> IF g \in Misses(values, wire.shown) \cup (wire.asked \cap Crisp)
                                  THEN "open" ELSE "absent"]]

Nobody == Absent
NoRequest(p) == [at |-> "idle", brief |-> saved[p], org |-> 0, seen |-> {}]

TypeOK ==
    /\ \A p \in Pursuits :
          /\ saved[p].values \in [Fields -> Texts \cup {Absent}]
          /\ saved[p].register \in
               [Fields -> {"absent", "unconfirmed", "corrected", "confirmed"}]
          /\ saved[p].gaps \in [Gaps -> GapStates] /\ saved[p].org \in 0..MaxOrgs
          /\ saved[p].stamped \in BOOLEAN
          /\ request[p].at \in {"idle", "org", "minting", "mint", "linking", "fixing"}
          /\ request[p].seen \subseteq Pursuits \cup {Elder}
    /\ orgs \in [1..MaxOrgs -> SUBSET (Pursuits \cup {Elder})]
    /\ minter \in Pursuits \cup {Nobody}
    /\ spawned \subseteq Pursuits \X Gaps /\ pinged \subseteq Pursuits \X Gaps
    /\ sent \in 0..MaxRequests /\ minted \in Nat

Init ==
    /\ \E wire \in [Pursuits -> UNION {Wires[p] : p \in Pursuits}] :
          /\ \A p \in Pursuits : wire[p] \in Wires[p]
          /\ saved = [p \in Pursuits |-> Assembled(wire[p])]
    /\ orgs = [o \in 1..MaxOrgs |-> IF o = 1 THEN {Elder} ELSE {}] /\ minter = Nobody
    /\ request = [p \in Pursuits |-> NoRequest(p)]
    /\ spawned = {} /\ pinged = {} /\ sent = 0 /\ minted = 1

Known == {o \in 1..MaxOrgs : orgs[o] # {}}
At(p, phase) == request[p].at = phase
Move(p, phase) == request' = [request EXCEPT ![p].at = phase]
Copy(p, brief, phase) == request' = [request EXCEPT ![p].brief = brief, ![p].at = phase]

---------------------------------------------------------------------------
Begin(p, withOrg) ==
    /\ At(p, "idle") /\ ~saved[p].stamped /\ sent < MaxRequests
    /\ sent' = sent + 1
    /\ request' = [request EXCEPT ![p] = [NoRequest(p) EXCEPT
                      !.at = IF withOrg THEN "org" ELSE "fixing"]]
    /\ UNCHANGED <<saved, orgs, minter, spawned, minted, pinged>>

\* create_org: the scan for the highest id and the write hold _MINT_LOCK.
MintLock(p) == minter = Nobody /\ minter' = p

MintScan(p) ==
    /\ At(p, "org") /\ Cardinality(Known) < MaxOrgs
    /\ MintLock(p)
    /\ request' = [request EXCEPT ![p].at = "mint", ![p].org = Cardinality(Known) + 1]
    /\ UNCHANGED <<saved, orgs, spawned, sent, minted, pinged>>

MintWrite(p) ==
    /\ At(p, "mint")
    /\ orgs' = [orgs EXCEPT ![request[p].org] = {p}] /\ minted' = minted + 1
    /\ minter' = IF minter = p THEN Nobody ELSE minter
    /\ Move(p, "fixing")
    /\ UNCHANGED <<saved, spawned, sent, pinged>>

\* link_alias: read org.json, then write it with the alias, without a lock.
LinkRead(p, o) ==
    /\ At(p, "org") /\ o \in Known
    /\ request' = [request EXCEPT ![p].at = "linking", ![p].org = o, ![p].seen = orgs[o]]
    /\ UNCHANGED <<saved, orgs, minter, spawned, sent, minted, pinged>>

LinkWrite(p) ==
    /\ At(p, "linking")
    /\ orgs' = [orgs EXCEPT ![request[p].org] =
                   IF p \in request[p].seen THEN @ ELSE request[p].seen \cup {p}]
    /\ Move(p, "fixing")
    /\ UNCHANGED <<saved, minter, spawned, sent, minted, pinged>>

---------------------------------------------------------------------------
\* A corrected weight text is parsed again; a number it no longer states is
\* removed together with its register entry.
Reparsed(brief, text) ==
    [brief EXCEPT !.values["weight"] = Parse(text),
                  !.register["weight"] = IF Parse(text) = Absent THEN "absent" ELSE @]

Corrected(brief, field, text) ==
    LET edited == [brief EXCEPT !.values[field] = text, !.register[field] = "corrected"]
    IN  IF field = "weight_text" THEN Reparsed(edited, text) ELSE edited

Correct(p, field, text) ==     \* a register entry of the model's, or it raises
    /\ At(p, "fixing") /\ request[p].brief.register[field] # "absent"
    /\ field \in Texted
    /\ Copy(p, Corrected(request[p].brief, field, text), "fixing")
    /\ UNCHANGED <<saved, orgs, minter, spawned, sent, minted, pinged>>

\* Mutant: a settled gap takes another action.
AnyGap(brief) == {g \in Gaps : brief.gaps[g] # "absent"}
OpenGaps(brief) == {g \in Gaps : brief.gaps[g] = "open"}

Answer(p, g, proposeCard) ==   \* the card proposal is written at once
    /\ At(p, "fixing") /\ g \in OpenGaps(request[p].brief)
    /\ Copy(p, [request[p].brief EXCEPT !.gaps[g] = "answered"], "fixing")
    /\ spawned' = IF proposeCard THEN spawned \cup {<<p, g>>} ELSE spawned
    /\ UNCHANGED <<saved, orgs, minter, sent, minted, pinged>>

Skip(p, g) ==
    /\ At(p, "fixing") /\ g \in OpenGaps(request[p].brief)
    /\ Copy(p, [request[p].brief EXCEPT !.gaps[g] = "skipped"], "fixing")
    /\ UNCHANGED <<saved, orgs, minter, spawned, sent, minted, pinged>>

Raise(p) ==      \* an instruction that does not resolve: nothing is saved
    /\ At(p, "fixing")
    /\ request' = [request EXCEPT ![p] = NoRequest(p)]
    /\ UNCHANGED <<saved, orgs, minter, spawned, sent, minted, pinged>>

ConfirmRegister(register) ==
    [f \in Fields |-> IF register[f] = "unconfirmed" THEN "confirmed" ELSE register[f]]

Save(p) ==       \* an approval by a human confirms the rest of the register
    /\ At(p, "fixing")
    /\ saved' = [saved EXCEPT ![p] = [request[p].brief EXCEPT
                    !.register = ConfirmRegister(@), !.org = request[p].org,
                    !.stamped = TRUE]]
    /\ Move(p, "idle")
    /\ UNCHANGED <<orgs, minter, spawned, sent, minted, pinged>>

\* Between requests the ping lane asks about open gaps; a ping leaves its intake
\* gap open, and its answer looks at the ping and not at what the gap became.
Ping(p, g) ==
    /\ At(p, "idle") /\ g \in OpenGaps(saved[p]) /\ Cardinality(pinged) < MaxPings
    /\ pinged' = pinged \cup {<<p, g>>}
    /\ UNCHANGED <<saved, orgs, minter, request, spawned, sent, minted>>

PingAnswer(p, g, proposeCard) ==
    /\ At(p, "idle") /\ <<p, g>> \in pinged
    /\ saved' = [saved EXCEPT ![p].gaps[g] = "answered"]
    /\ pinged' = pinged \ {<<p, g>>}
    /\ spawned' = IF proposeCard THEN spawned \cup {<<p, g>>} ELSE spawned
    /\ UNCHANGED <<orgs, minter, request, sent, minted>>

Step(p) ==
    \/ MintScan(p) \/ MintWrite(p) \/ LinkWrite(p) \/ Raise(p) \/ Save(p)
    \/ \E o \in Known : LinkRead(p, o)
    \/ \E f \in Fields, t \in Texts : Correct(p, f, t)
    \/ \E g \in Gaps, c \in BOOLEAN : Answer(p, g, c)
    \/ \E g \in Gaps : Skip(p, g)

Next == \E p \in Pursuits :
    \/ \E w \in BOOLEAN : Begin(p, w)
    \/ \E g \in Gaps : Ping(p, g) \/ \E c \in BOOLEAN : PingAnswer(p, g, c)
    \/ Step(p)
Spec == Init /\ [][Next]_vars

---------------------------------------------------------------------------
\* A weight is what its text states, after any number of corrections, refusals
\* and answers (gate.py:113-128: "a stale 30.0 under corrected prose is a lie").
NumberFollowsText ==
    \A p \in Pursuits : saved[p].values["weight"] = Parse(saved[p].values["weight_text"])

\* The same for a deadline: "correct its model source text and the parse
\* follows" (gate.py:104-106).
DateFollowsText ==
    \A p \in Pursuits : saved[p].values["date"] = Parse(saved[p].values["date_text"])

\* A gap is settled once: no later request, refused or not, changes an answered
\* or skipped gap; only a ping sent while it was open may still answer it, and
\* nothing opens it again (gate.py:141-148, pings.py:127-151).
GapsSettleOnce ==
    [][\A p \in Pursuits, g \in Gaps :
          saved[p].gaps[g] \in {"answered", "skipped"} =>
              saved'[p].gaps[g] \in {saved[p].gaps[g]} \cup
                  (IF <<p, g>> \in pinged THEN {"answered"} ELSE {})]_vars

\* What a human corrected is told apart from what was only confirmed for as
\* long as the brief stands (gate.py:109-111, 335-340).
CorrectionsAreNamed ==
    [][\A p \in Pursuits : saved'[p].stamped /\ ~saved[p].stamped =>
          \A f \in Texted : saved'[p].values[f] # saved[p].values[f]
                            => saved'[p].register[f] = "corrected"]_vars

\* Two pursuits that mint at the same time never mint one org (orgs.py:71-87).
MintsAreDistinct == minted = Cardinality(Known)

\* A pursuit that linked is an alias of its org (orgs.py:90-99).
AliasKept == \A p \in Pursuits : saved[p].org # 0 => p \in orgs[saved[p].org]

\* A refused request has written nothing (gate.py:223 "validation before any
\* write"): with no request in the air, every org belongs to a saved link.
RefusedLeavesNothing ==
    (\A p \in Pursuits : At(p, "idle")) =>
        /\ \A o \in Known \ {1} : \E p \in Pursuits : saved[p].org = o
        /\ \A card \in spawned : saved[card[1]].gaps[card[2]] = "answered"
=============================================================================
