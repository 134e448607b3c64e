------------------------------ MODULE ShareDoor ------------------------------
(***************************************************************************)
(* The share links of a pursuit (web/share.py, web/server.py:1118-1309):   *)
(* operators mint and revoke, guests view and comment.  links.jsonl is an  *)
(* append-only file that every reader folds, without the lock; a mint      *)
(* also needs the pursuit's guard, a revoke only the lane's lock, so that  *)
(* it lands while a job runs.  Every crash may tear the line in the air.   *)
(*                                                                         *)
(* A token is the number of its mint line; 0 is a token nobody minted.     *)
(***************************************************************************)
EXTENDS Naturals, Sequences, FiniteSets, FiniteSetsExt

CONSTANTS Guests, Clerks, Nobody,
          MaxLinks, MaxLines, MaxDays, MaxNow, MaxVisits, MaxCrashes   \* bounds
          \* MaxDays: MAX_LINK_DAYS on the model's clock

\* Assumed of the constants wherever this module is instantiated.
ShareAssumption ==
    /\ Nobody \notin Clerks
    /\ {MaxLinks, MaxLines, MaxDays, MaxNow, MaxVisits, MaxCrashes} \subseteq Nat

VARIABLES file,      \* links.jsonl: lines [kind, id, token, until]
          torn,      \* the file ends in a fragment
          lock,      \* _MINT_LOCK
          busy,      \* a job is queued or running
          clerk,     \* operator request: phase, link, expiry
          guest,     \* guest request: phase, operation, token, arrival
          access,    \* access.jsonl: [token, op, when, granted]
          pending,   \* tokens of the guest comments in events/pending.json
          now, visits, crashes,
          acked,     \* history: tokens whose revoke was answered
          answered   \* history: what guests were told, in the form of access

vars == <<file, torn, lock, busy, clerk, guest, access, pending, now, visits,
          crashes, acked, answered>>
lane == <<file, torn>>
counts == <<now, visits, crashes>>

Tokens == 0..MaxLinks
Idle == [at |-> "idle", id |-> 0, until |-> 0]
Away == [at |-> "away", op |-> "view", token |-> 0, when |-> 0, late |-> FALSE]
Lines == [kind : {"mint", "revoke", "fused"}, id : 0..MaxLinks, token : Tokens,
          until : 0..MaxNow + MaxDays]
AccessLines == [token : Tokens, op : {"view", "comment"}, when : 0..MaxNow, granted : BOOLEAN]

TypeOK ==
    /\ \A k \in DOMAIN file : file[k] \in Lines /\ (file[k].kind = "mint" => file[k].until > 0)
    /\ torn \in BOOLEAN /\ busy \in BOOLEAN /\ lock \in Clerks \cup {Nobody}
    /\ \A c \in Clerks : clerk[c].at \in {"idle", "minting", "asked", "revoking"}
    /\ \A g \in Guests : guest[g].at \in {"away", "asking", "granted", "denied", "open", "posting"}
    /\ access \subseteq AccessLines /\ answered \subseteq AccessLines
    /\ pending \subseteq Tokens /\ acked \subseteq Tokens

Init ==
    /\ file = <<>> /\ torn = FALSE /\ lock = Nobody /\ busy = FALSE
    /\ clerk = [c \in Clerks |-> Idle] /\ guest = [g \in Guests |-> Away]
    /\ access = {} /\ pending = {} /\ now = 0 /\ visits = 0 /\ crashes = 0
    /\ acked = {} /\ answered = {}

\* The fold, last line wins: the record of an id is its last mint, and it is
\* revoked once any line says so.  A fragment at the end is skipped.
MintLines == {k \in DOMAIN file : file[k].kind = "mint"}
Ids == {file[k].id : k \in MintLines}
Record(id) == file[Max({k \in MintLines : file[k].id = id})]
Revoked(id) == \E k \in DOMAIN file : file[k].kind = "revoke" /\ file[k].id = id
Readable == \A k \in DOMAIN file : file[k].kind # "fused"
Holders(token) == {id \in Ids : Readable /\ Record(id).token = token}

\* append_fsync under the lock: the fragment is cut off before the line lands.
Land(line) == file' = Append(file, line)

---------------------------------------------------------------------------
NextId == IF Ids = {} THEN 1 ELSE Max(Ids) + 1
Expiries == now + 1..now + MaxDays

Guarded == \E c \in Clerks : clerk[c].at = "minting"

Create(c, until) ==      \* inside the pursuit's guard, then the lane's lock
    /\ clerk[c].at = "idle" /\ ~busy /\ ~Guarded /\ lock = Nobody
    /\ Readable /\ Cardinality(MintLines) < MaxLinks /\ Len(file) < MaxLines
    /\ until \in Expiries
    /\ lock' = c /\ clerk' = [clerk EXCEPT ![c] = [at |-> "minting", id |-> NextId, until |-> until]]
    /\ UNCHANGED <<lane, busy, guest, access, pending, counts, acked, answered>>

MintLine(c) ==
    /\ clerk[c].at = "minting"
    /\ Land([kind |-> "mint", id |-> clerk[c].id, until |-> clerk[c].until,
             token |-> Cardinality(MintLines) + 1])
    /\ torn' = FALSE /\ lock' = Nobody /\ clerk' = [clerk EXCEPT ![c] = Idle]
    /\ UNCHANGED <<busy, guest, access, pending, counts, acked, answered>>

Ask(c, id) ==            \* an operator reaches for the kill switch
    /\ clerk[c].at = "idle" /\ id \in Ids \ {i \in Ids : Revoked(i)}
    /\ Len(file) < MaxLines
    /\ clerk' = [clerk EXCEPT ![c] = [at |-> "asked", id |-> id, until |-> 0]]
    /\ UNCHANGED <<lane, lock, busy, guest, access, pending, counts, acked, answered>>

\* Mutant: the revoke is a mutation of the pursuit like the others.
Guardedly(c) == lock = Nobody /\ lock' = c /\ ~busy
Serialized(c) == lock = Nobody /\ lock' = c

Revoke(c) ==
    /\ clerk[c].at = "asked" /\ Serialized(c)
    /\ clerk' = [clerk EXCEPT ![c].at = "revoking"]
    /\ UNCHANGED <<lane, busy, guest, access, pending, counts, acked, answered>>

RevokeLine(c) ==
    /\ clerk[c].at = "revoking"
    /\ Land([kind |-> "revoke", id |-> clerk[c].id, token |-> 0, until |-> 0])
    /\ torn' = FALSE /\ lock' = Nobody /\ clerk' = [clerk EXCEPT ![c] = Idle]
    /\ acked' = acked \cup {Record(clerk[c].id).token}
    /\ UNCHANGED <<busy, guest, access, pending, counts, answered>>

---------------------------------------------------------------------------
Put(g, phase) ==
    guest' = [guest EXCEPT ![g] = IF phase = "away" THEN Away ELSE [@ EXCEPT !.at = phase]]
Entry(g, granted) == [token |-> guest[g].token, op |-> guest[g].op,
                      when |-> guest[g].when, granted |-> granted]
Tell(g, granted) == answered' = answered \cup {Entry(g, granted)}

\* The guest never brings the clock; "late" is history, not state of the code.
Arrive(g, op, token) ==
    /\ guest[g].at = "away" /\ visits < MaxVisits
    /\ guest' = [guest EXCEPT ![g] = [at |-> "asking", op |-> op, token |-> token,
                    when |-> now, late |-> token \in acked]]
    /\ visits' = visits + 1
    /\ UNCHANGED <<lane, lock, busy, clerk, access, pending, now, crashes, acked, answered>>

\* _resolve_share and resolve fold the file without the lock.  A token that no
\* readable lane holds is refused without a line.
Unknown(g) ==
    /\ guest[g].at = "asking" /\ Holders(guest[g].token) = {}
    /\ Put(g, "away") /\ Tell(g, FALSE)
    /\ UNCHANGED <<lane, lock, busy, clerk, access, pending, counts, acked>>

\* Mutant: a link that has expired still stands until somebody revokes it.
NotRevoked(g, id) == ~Revoked(id)
Stands(g, id) == ~Revoked(id) /\ guest[g].when < Record(id).until

Resolve(g) ==
    /\ guest[g].at = "asking"
    /\ \E id \in Holders(guest[g].token) :
          Put(g, IF Stands(g, id) THEN "granted" ELSE "denied")
    /\ UNCHANGED <<lane, lock, busy, clerk, access, pending, counts, acked, answered>>

\* log_access takes the lock for its own line.
LogAccess(g, granted) == lock = Nobody /\ access' = access \cup {Entry(g, granted)}

Denied(g) ==
    /\ guest[g].at = "denied" /\ LogAccess(g, FALSE) /\ Tell(g, FALSE) /\ Put(g, "away")
    /\ UNCHANGED <<lane, lock, busy, clerk, pending, counts, acked>>

Granted(g) ==
    /\ guest[g].at = "granted" /\ LogAccess(g, TRUE) /\ Put(g, "open")
    /\ UNCHANGED <<lane, lock, busy, clerk, pending, counts, acked, answered>>

View(g) ==
    /\ guest[g].at = "open" /\ guest[g].op = "view" /\ Tell(g, TRUE) /\ Put(g, "away")
    /\ UNCHANGED <<lane, lock, busy, clerk, access, pending, counts, acked>>

\* A comment without a name, a text, a section or a slot is refused with a line
\* of its own; one that passes waits for the pursuit's guard.
LogRefusal(g) == LogAccess(g, FALSE)

Malformed(g) ==
    /\ guest[g].at = "open" /\ guest[g].op = "comment"
    /\ LogRefusal(g) /\ Tell(g, FALSE) /\ Put(g, "away")
    /\ UNCHANGED <<lane, lock, busy, clerk, pending, counts, acked>>

WellFormed(g) ==
    /\ guest[g].at = "open" /\ guest[g].op = "comment" /\ Put(g, "posting")
    /\ UNCHANGED <<lane, lock, busy, clerk, access, pending, counts, acked, answered>>

TurnedAway(g) ==         \* _mutate: 409 while a job is queued or running
    /\ guest[g].at = "posting" /\ busy /\ Put(g, "away")
    /\ UNCHANGED <<lane, lock, busy, clerk, access, pending, counts, acked, answered>>

Post(g) ==
    /\ guest[g].at = "posting" /\ ~busy /\ ~Guarded
    /\ pending' = pending \cup {guest[g].token} /\ Tell(g, TRUE) /\ Put(g, "away")
    /\ UNCHANGED <<lane, lock, busy, clerk, access, counts, acked>>

---------------------------------------------------------------------------
JobStart == ~busy /\ ~Guarded /\ busy' = TRUE
JobEnd == busy /\ busy' = FALSE
Job == (JobStart \/ JobEnd)
       /\ UNCHANGED <<lane, lock, clerk, guest, access, pending, counts, acked, answered>>

Tick ==
    /\ now < MaxNow /\ now' = now + 1
    /\ UNCHANGED <<lane, lock, busy, clerk, guest, access, pending, visits, crashes, acked, answered>>

Crash ==                 \* a line in the air may be left as a fragment
    /\ crashes < MaxCrashes /\ crashes' = crashes + 1
    /\ torn' \in {torn, \E c \in Clerks : clerk[c].at \in {"minting", "revoking"}}
    /\ lock' = Nobody /\ busy' = FALSE
    /\ clerk' = [c \in Clerks |-> Idle] /\ guest' = [g \in Guests |-> Away]
    /\ UNCHANGED <<file, access, pending, now, visits, acked, answered>>

Work(g) == Unknown(g) \/ Resolve(g) \/ Denied(g) \/ Granted(g) \/ View(g)
           \/ Malformed(g) \/ WellFormed(g) \/ TurnedAway(g) \/ Post(g)
Serve(c) == MintLine(c) \/ Revoke(c) \/ RevokeLine(c)
Next ==
    \/ \E c \in Clerks : Serve(c)
    \/ \E c \in Clerks, u \in 0..MaxNow + MaxDays : Create(c, u)
    \/ \E c \in Clerks, id \in Ids : Ask(c, id)
    \/ \E g \in Guests : Work(g)
    \/ \E g \in Guests, op \in {"view", "comment"}, t \in 0..Cardinality(MintLines) : Arrive(g, op, t)
    \/ Job \/ Tick \/ Crash

\* A thread that is in a handler goes on; nothing says that a job ends.  The
\* lock is taken again and again by others, so a waiter needs strong fairness.
Fairness == \A c \in Clerks : SF_vars(Revoke(c)) /\ WF_vars(MintLine(c) \/ RevokeLine(c))
Spec == Init /\ [][Next]_vars /\ Fairness

---------------------------------------------------------------------------
\* The kill switch: a guest whose request came after the answer to a revoke is
\* let in by no interleaving, and neither is one who came after the link's end
\* (share.py:108-120, 128-146).
NoEntryAfterTheEnd ==
    \A g \in Guests : guest[g].at \in {"open", "posting"} =>
        /\ ~guest[g].late
        /\ \A k \in MintLines : file[k].token = guest[g].token => guest[g].when < file[k].until

\* One link, one token: no mint takes the id of an older link, whatever was
\* revoked or torn in between, so no guest inherits another's revoke
\* (share.py:98-105).
LinksAreDistinct == Cardinality(MintLines) = Cardinality(Ids)

\* A crash never costs more than the line in the air: the file is readable again
\* after every append (atomic.py:100-111, share.py:57-61).
LaneStaysReadable == Readable

\* Whatever a guest was told about a link that exists has its line in the access
\* log, refusals included (share.py:12-14).
LinkAnswersAreLogged ==
    answered \cap [token : Tokens \ {0}, op : {"view", "comment"},
                   when : 0..MaxNow, granted : BOOLEAN] \subseteq access

\* The whole of that sentence: "logs every guest READ and WRITE attempt, denials
\* included" (share.py:12-13).
EveryAttemptIsLogged == answered \subseteq access

\* A revoke lands while a job runs, for as long as it runs (share.py:109-112).
RevokeLands == \A c \in Clerks : clerk[c].at = "asked" ~> clerk[c].at = "idle"
=============================================================================
