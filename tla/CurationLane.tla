---------------------------- MODULE CurationLane ----------------------------
(***************************************************************************)
(* The steward's side of the knowledge base: the proposal store             *)
(* (flywheel/proposals.py), the doors that propose (kb/curation.py, the     *)
(* workbook import kb/xlsx.py) and the merge that applies a batch in two    *)
(* passes under the lock of the KB root and writes the curation log.  A     *)
(* step of a merge can raise, and the process can be killed between any     *)
(* two of its writes.  A proposal's id is its content, so a proposal is its *)
(* content here: which card, what it does, and for an edit the value the    *)
(* proposer read and the one asked for.                                     *)
(***************************************************************************)
EXTENDS Integers, Sequences, FiniteSets, SequencesExt

CONSTANTS
    Cards, Values,      \* cards and the values of their one edited field
    Lessons, NoCard,    \* reviewers' edits, and the card of one whose section cites none
    LessonCard,         \* Lessons -> Cards \cup {NoCard}
    Answers, Body,      \* answered gaps, and the body (the minted id) of each
    Held,               \* cards under legal hold
    MaxEdits, MaxOpen, MaxFaults    \* bounds: edits composed, proposals opened, kills and raises

\* Assumed of the constants wherever this module is instantiated.
CurationConstants ==
    /\ LessonCard \in [Lessons -> Cards \cup {NoCard}] /\ NoCard \notin Cards /\ DOMAIN Body = Answers
    /\ Held \subseteq Cards /\ MaxEdits \in Nat /\ MaxOpen \in Nat /\ MaxFaults \in Nat

Edit(c, before, after) == [kind |-> "update_card", card |-> c, before |-> before, after |-> after]
Lesson(n) == [kind |-> "update_card", card |-> LessonCard[n], lesson |-> n]
Deprecation(c) == [kind |-> "deprecate_card", card |-> c]
NewCard(a) == [kind |-> "new_card", gap |-> a]
Proposals ==
    {Edit(c, v, w) : c \in Cards, v \in Values, w \in Values} \cup {Lesson(n) : n \in Lessons}
      \cup {Deprecation(c) : c \in Cards} \cup {NewCard(a) : a \in Answers}

\* Where an accepted proposal lands; a note is its own accepted record.
HomeOf(p) ==
    CASE p.kind = "update_card" /\ "after" \in DOMAIN p -> "card_field"
      [] p.kind = "update_card" /\ "lesson" \in DOMAIN p -> IF p.card = NoCard THEN "note" ELSE "card_lesson"
      [] p.kind = "deprecate_card" -> "deprecate"
      [] p.kind = "new_card" -> "new_card"

VARIABLES
    field, lessons, deprecated, minted,  \* what the store holds
    cited,      \* cards some drafted section cites
    status,     \* the record of each proposal
    reads,      \* edits composed from a card read outside the lock
    edits,      \* edits composed so far
    pc, left, done, \* the merge in hand: its step, what is staged, what it accepted
    answer,     \* what the door said of the last merge
    logged,     \* proposals the curation log names
    faults      \* what went wrong so far, in order: "raised", "killed"

store == <<field, lessons, deprecated, minted>>
batch == <<pc, left, done>>
vars == <<store, cited, status, reads, edits, batch, answer, logged, faults>>

TypeOK ==
    /\ field \in [Cards -> Values] /\ deprecated \subseteq Cards \ Held /\ minted \subseteq Range(Body)
    /\ \A c \in Cards : \A i \in DOMAIN lessons[c] : LessonCard[lessons[c][i]] = c
    /\ status \in [Proposals -> {"absent", "proposed", "accepted", "rejected"}]
    /\ pc \in {"idle", "apply", "decide", "log"} /\ Range(left) \cup Range(done) \cup logged \subseteq Proposals
    /\ \A p \in Proposals : p \in Range(left) => status[p] = "proposed"
    /\ answer \in {"none", "merged", "refused", "died"}

Faulted(kind) == kind \in Range(faults)

Init ==
    /\ field \in [Cards -> Values] /\ lessons = [c \in Cards |-> <<>>]
    /\ deprecated = {} /\ minted = {} /\ cited = {} /\ status = [p \in Proposals |-> "absent"]
    /\ reads = {} /\ edits = 0 /\ pc = "idle" /\ left = <<>> /\ done = <<>>
    /\ answer = "none" /\ logged = {} /\ faults = <<>>

------------------------------------------------------------------------------
(* The doors that propose.                                                    *)

\* The edit door and the workbook import read the card and compose the diff
\* before they take the lock to open the proposal.
ReadCard(c, w) ==
    /\ edits < MaxEdits /\ field[c] # w
    /\ edits' = edits + 1
    /\ reads' = reads \cup {Edit(c, field[c], w)}
    /\ UNCHANGED <<store, cited, status, batch, answer, logged, faults>>

\* Opening the same content twice is a no-op, whatever became of the first.
Room == Cardinality({p \in Proposals : status[p] # "absent"}) < MaxOpen
Open(p) == Room /\ status' = [status EXCEPT ![p] = IF @ = "absent" THEN "proposed" ELSE @]

OpenEdit(p) ==
    /\ pc = "idle" /\ p \in reads
    /\ reads' = reads \ {p}
    /\ Open(p)
    /\ UNCHANGED <<store, cited, edits, batch, answer, logged, faults>>

\* A whole workbook, one row to a card, opens its proposals in one hold of the lock.
OpenImport ==
    /\ pc = "idle" /\ Cardinality(reads) > 1 /\ Room
    /\ \A p, q \in reads : p.card = q.card => p = q
    /\ reads' = {}
    /\ status' = [p \in Proposals |-> IF p \in reads /\ status[p] = "absent" THEN "proposed" ELSE status[p]]
    /\ UNCHANGED <<store, cited, edits, batch, answer, logged, faults>>

\* The learner's lessons and the answered gaps.
OpenLearned(p) ==
    /\ pc = "idle" /\ HomeOf(p) \in {"card_lesson", "note", "new_card"} /\ status[p] = "absent"
    /\ Open(p)
    /\ UNCHANGED <<store, cited, reads, edits, batch, answer, logged, faults>>

\* Delete means deprecate, refused while a section cites the card.
ProposeDeprecation(c) ==
    /\ pc = "idle" /\ c \notin Held \cup cited /\ status[Deprecation(c)] = "absent"
    /\ Open(Deprecation(c))
    /\ UNCHANGED <<store, cited, reads, edits, batch, answer, logged, faults>>

\* A drafter cites a card retrieval still offers.
Cite(c) ==
    /\ c \notin deprecated \cup cited
    /\ cited' = cited \cup {c}
    /\ UNCHANGED <<store, status, reads, edits, batch, answer, logged, faults>>

------------------------------------------------------------------------------
(* The merge.                                                                 *)

\* Pass 1 refuses a proposal that is decided, has no home or cannot apply, each
\* proposal against the store as it stands.
Applies(p) ==
    /\ status[p] = "proposed"
    /\ HomeOf(p) = "deprecate" => p.card \notin Held
    /\ HomeOf(p) = "new_card" => Body[p.gap] \notin minted

Stageable(ids) == pc = "idle" /\ \A i \in DOMAIN ids : Applies(ids[i])
Merge(ids) ==
    /\ Stageable(ids)
    /\ pc' = "apply" /\ left' = ids /\ done' = <<>> /\ answer' = "none"
    /\ UNCHANGED <<store, cited, status, reads, edits, logged, faults>>

\* The record refuses a lesson it holds already.
AppendLesson(held, n) == IF n \in Range(held) THEN held ELSE Append(held, n)

\* Mutant: a lesson and a deprecation are decided and not carried.
DecideOnly(p) ==
    /\ field' = IF HomeOf(p) = "card_field" THEN [field EXCEPT ![p.card] = p.after] ELSE field
    /\ minted' = IF HomeOf(p) = "new_card" THEN minted \cup {Body[p.gap]} ELSE minted
    /\ UNCHANGED <<lessons, deprecated>>
Write(p) ==
    /\ field' = IF HomeOf(p) = "card_field" THEN [field EXCEPT ![p.card] = p.after] ELSE field
    /\ lessons' = IF HomeOf(p) = "card_lesson" THEN [lessons EXCEPT ![p.card] = AppendLesson(@, p.lesson)] ELSE lessons
    /\ deprecated' = IF HomeOf(p) = "deprecate" THEN deprecated \cup {p.card} ELSE deprecated
    /\ minted' = IF HomeOf(p) = "new_card" THEN minted \cup {Body[p.gap]} ELSE minted

Apply ==
    /\ pc = "apply" /\ Applies(Head(left))
    /\ Write(Head(left))
    /\ pc' = "decide"
    /\ UNCHANGED <<cited, status, reads, edits, left, done, answer, logged, faults>>

\* The new card of an earlier member of the batch has this one's body.
Refuse ==
    /\ pc = "apply" /\ ~Applies(Head(left))
    /\ pc' = "log" /\ answer' = "refused"
    /\ UNCHANGED <<store, cited, status, reads, edits, left, done, logged, faults>>

Decide ==
    /\ pc = "decide"
    /\ status' = [status EXCEPT ![Head(left)] = "accepted"]
    /\ done' = Append(done, Head(left)) /\ left' = Tail(left)
    /\ IF Tail(left) = <<>> THEN pc' = "log" /\ answer' = "merged" ELSE pc' = "apply" /\ UNCHANGED answer
    /\ UNCHANGED <<store, cited, reads, edits, logged, faults>>

\* One line whether the batch finished or died part of the way.
LineOf == Range(done)
WriteLog ==
    /\ pc = "log"
    /\ logged' = logged \cup LineOf
    /\ pc' = "idle" /\ left' = <<>> /\ done' = <<>> /\ answer' = "none"
    /\ UNCHANGED <<store, cited, status, reads, edits, faults>>

\* A write or a decision raises; the finally clause still writes the line.
Raise ==
    /\ pc \in {"apply", "decide"} /\ Len(faults) < MaxFaults
    /\ pc' = "log" /\ answer' = "died" /\ faults' = Append(faults, "raised")
    /\ UNCHANGED <<store, cited, status, reads, edits, left, done, logged>>

Kill ==
    /\ Len(faults) < MaxFaults /\ (pc # "idle" \/ reads # {})
    /\ faults' = Append(faults, "killed")
    /\ pc' = "idle" /\ left' = <<>> /\ done' = <<>> /\ answer' = "none" /\ reads' = {}
    /\ UNCHANGED <<store, cited, status, edits, logged>>

\* A rejection is one step under the lock the merge holds.
Reject(p) ==
    /\ pc = "idle" /\ status[p] = "proposed"
    /\ status' = [status EXCEPT ![p] = "rejected"]
    /\ UNCHANGED <<store, cited, reads, edits, batch, answer, logged, faults>>

Batches == {<<p>> : p \in Proposals} \cup {<<p, q>> : p \in Proposals, q \in Proposals}
Next ==
    \/ \E c \in Cards : ProposeDeprecation(c) \/ Cite(c) \/ \E w \in Values : ReadCard(c, w)
    \/ OpenImport
    \/ \E p \in Proposals : OpenEdit(p) \/ OpenLearned(p) \/ Reject(p)
    \/ \E ids \in Batches : IsInjective(ids) /\ Merge(ids)
    \/ Apply \/ Refuse \/ Decide \/ WriteLog \/ Raise \/ Kill

Spec == Init /\ [][Next]_vars

------------------------------------------------------------------------------
(* What the store says of a proposal's content.                               *)
Carried(p) ==
    CASE HomeOf(p) = "card_lesson" -> p.lesson \in Range(lessons[p.card])
      [] HomeOf(p) = "deprecate"   -> p.card \in deprecated
      [] HomeOf(p) = "new_card"    -> Body[p.gap] \in minted
      [] OTHER -> TRUE

\* What a steward accepts is carried forward: the lesson is on its card, the card
\* withheld or minted, through raises and kills (curation.py:425-477, 593-607).
AcceptedIsCarried == \A p \in Proposals : status[p] = "accepted" => Carried(p)

\* A lesson lands once, however often a killed merge is retried (store.py:112-124).
LandsOnce == \A c \in Cards : IsInjective(lessons[c])

\* Two stewards never disagree with the store: unless a step raised or the process
\* died, what was rejected changed nothing (curation.py:511-516, proposals.py:144-161).
RejectedChangesNothing ==
    \A p \in Proposals : status[p] = "rejected" /\ HomeOf(p) = "card_lesson" => ~Carried(p)
StewardsAgree == faults = <<>> => RejectedChangesNothing

\* Unless the process was killed, every accepted proposal is named by a line of the
\* curation log once its merge is over, also of a batch that died (curation.py:608-616).
AcceptedIsLogged ==
    pc = "idle" /\ ~Faulted("killed") => \A p \in Proposals : status[p] = "accepted" => p \in logged

------------------------------------------------------------------------------
(* What the docs say and the code does not keep.                              *)

\* curation.py:522-531: pass 1 validates the whole batch, a refusal applies nothing.
RefusalAppliesNothing == answer = "refused" => done = <<>>

\* proposals.py:11-13: the diff the steward saw is the change that lands.
DiffIsTrue == [][\A c \in Cards : field'[c] # field[c] => Head(left).before = field[c]]_vars

\* curation.py:219-232: a card is not deprecated while a section cites it.
DeprecationStrandsNothing == [][\A c \in deprecated' \ deprecated : c \notin cited]_vars
==============================================================================
