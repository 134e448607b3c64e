----------------------------- MODULE ReviewRound -----------------------------
(***************************************************************************)
(* The review loop of a drafted pursuit: people leave comments and edits   *)
(* in the pending store, guests leave comments that wait for curation, and *)
(* a revise round takes the pending batch through one model call per       *)
(* touched section, a targeted re-validation and a commit of many durable  *)
(* writes, resumable from its checkpoint.                                  *)
(*                                                                         *)
(* A round runs as a job and every route that writes the pending store or  *)
(* the plan waits for it, so the routes act only while `pc` is "idle".     *)
(* A break is a killed server, an exception between two writes, or a       *)
(* cancel honoured between two sections.                                   *)
(*                                                                         *)
(* The prose of a section is the set of changes it carries: the cid of an  *)
(* applied edit, the cids of the comments the agent revised for, GapText   *)
(* for the text that fills an answered gap.  A digest is the content it    *)
(* digests.  An addendum replan between two rounds is not in this module.  *)
(***************************************************************************)
EXTENDS Naturals, FiniteSets, Sequences, FiniteSetsExt

CONSTANTS
    Sections,    \* section ids, numbered in their sorted order
    Awaiting,    \* the sections that drafting left awaiting a disposition
    MaxItems,    \* bound: items ever left in the pending store
    MaxRounds,   \* bound: rounds committed
    MaxBreaks    \* bound: crashes and cancels

\* Validation has passed, so some section is drafted.
ASSUME SectionsAssumption == /\ Sections \subseteq Nat
                             /\ Awaiting \subseteq Sections /\ Awaiting # Sections
ASSUME BoundAssumption == MaxItems \in Nat /\ MaxRounds \in Nat /\ MaxBreaks \in Nat

Cids == 1..MaxItems
GapText == 0

Entry == [prose : SUBSET (Cids \cup {GapText}), drafted : BOOLEAN]
Entries == [Sections -> Entry]
NoEntries == [s \in Sections |-> [prose |-> {}, drafted |-> FALSE]]

Draft == [rev : 0..MaxRounds, entries : Entries]
NoDraft == [rev |-> 0, entries |-> NoEntries]

\* annotated-draft.json: the envelope it binds and, per drafted section, the
\* entry its findings were computed on.
Annotated == [draft : Draft, verdicts : Entries]
NoAnnotated == [draft |-> NoDraft, verdicts |-> NoEntries]

Item == [cid : Cids, kind : {"comment", "edit"}, section : Sections, external : BOOLEAN,
         included : BOOLEAN, dismissed : BOOLEAN]

\* checkpoints/review_round_<n>.json: each processed section's outcome and
\* revised entry, the re-validation (the verdicts of the revised sections),
\* the envelope it commits (draft_sha256_out), and the inputs of the round
\* record once they are fixed.  At most one is open, and without a replan it
\* always binds the draft on disk: as the envelope it started from, or as
\* the one it committed.
Ckpt == [outcome : [Sections -> {"none", "kept", "pended", "revised"}],
         entry : Entries, reval : BOOLEAN, verdicts : Entries, out : Draft,
         record : SUBSET SUBSET Cids]
NoCkpt == [outcome |-> [s \in Sections |-> "none"], entry |-> NoEntries,
           reval |-> FALSE, verdicts |-> NoEntries, out |-> NoDraft, record |-> {}]

\* What a running round keeps in memory: whether it resumes a commit, its
\* number, the batch and the store as read at its start, the sections with
\* newly answered gaps, the envelope under revision, the annotated draft it
\* carries verdicts from, and the cids it has finalized.
Memory == [resume : BOOLEAN, n : 0..MaxRounds, take : SUBSET Item, store : SUBSET Item,
           gaps : SUBSET Sections, entries : Entries, verdicts : Entries,
           handled : SUBSET Cids]
NoMemory == [resume |-> FALSE, n |-> 0, take |-> {}, store |-> {}, gaps |-> {},
             entries |-> NoEntries, verdicts |-> NoEntries, handled |-> {}]

VARIABLES
    draft,      \* drafts/draft.json
    annotated,  \* drafts/annotated-draft.json
    pending,    \* events/pending.json: the entries
    nextCid,    \* events/pending.json: next_cid
    gaps,       \* live plan: the awaiting sections whose gap is answered
    inReview,   \* live plan: the sections whose draft_status is in_review
    ckpt,       \* the checkpoint of the open round
    archived,   \* revisions/draft.rev<n>.json and annotated.rev<n>.json
    events,     \* events/events.jsonl: the finalized comments and edits
    rounds,     \* revisions/round_<n>.json
    pc,         \* the write the running round does next, or "idle"
    mem,        \* the running round's memory
    removed,    \* history: the cids a person deleted
    heard,      \* history: the cids applied, refused with a warning, or
                \* given to the agent in a call that parsed
    unaudited,  \* history: sections whose prose moved in memory and that the
                \* round re-validates no more (LeftUnaudited)
    breaks      \* bounded count of the crashes and cancels

vars == <<draft, annotated, pending, nextCid, gaps, inReview, ckpt, archived, events,
          rounds, pc, mem, removed, heard, unaudited, breaks>>

PCs == {"idle", "revise", "archive_draft", "archive_annotated", "bind_out", "write_draft",
        "annotate", "finalize", "drop", "record", "live_plan", "clear"}

TypeOK ==
    /\ draft \in Draft
    /\ annotated \in Annotated
    /\ pending \subseteq Item
    /\ nextCid \in 1..(MaxItems + 1)
    /\ gaps \subseteq Awaiting
    /\ inReview \subseteq Sections
    /\ ckpt \in Ckpt
    /\ archived \in [0..MaxRounds -> [draft : Draft, annotated : Annotated]]
    /\ events \in Seq([cid : Cids, rev : 0..MaxRounds])
    /\ rounds \subseteq [n : 1..MaxRounds, consumed : SUBSET Cids]
    /\ pc \in PCs
    /\ mem \in Memory
    /\ removed \cup heard \subseteq Cids
    /\ unaudited \subseteq Sections
    /\ breaks \in 0..MaxBreaks

Init ==
    /\ draft = [rev |-> 0, entries |-> [s \in Sections |->
                   [prose |-> {}, drafted |-> s \notin Awaiting]]]
    /\ annotated = [draft |-> draft, verdicts |-> draft.entries]
    /\ pending = {} /\ nextCid = 1
    /\ gaps = {} /\ inReview = {}
    /\ ckpt = NoCkpt
    /\ archived = [n \in 0..MaxRounds |-> [draft |-> NoDraft, annotated |-> NoAnnotated]]
    /\ events = <<>> /\ rounds = {}
    /\ pc = "idle" /\ mem = NoMemory
    /\ removed = {} /\ heard = {} /\ unaudited = {} /\ breaks = 0

-----------------------------------------------------------------------------
(* The routes: each runs under the pursuit's guard, with no job under way   *)

\* add_comment and share_comment; an internal item on a section that drafting
\* completed puts it in review.
AddItem(kind, s, external) ==
    /\ pc = "idle"
    /\ nextCid \in Cids
    /\ external => kind = "comment"
    /\ pending' = pending \cup {[cid |-> nextCid, kind |-> kind, section |-> s,
                                 external |-> external, included |-> FALSE,
                                 dismissed |-> FALSE]}
    /\ nextCid' = nextCid + 1
    /\ inReview' = IF external \/ s \in Awaiting THEN inReview ELSE inReview \cup {s}
    /\ UNCHANGED <<draft, annotated, gaps, ckpt, archived, events, rounds, pc, mem,
                   removed, heard, unaudited, breaks>>

\* include_comment and dismiss_comment add their mark, whatever the other
\* mark says; the marks of an internal item are never read.
Curate(i, mark) ==
    /\ pc = "idle"
    /\ i.external /\ ~i[mark]
    /\ pending' = (pending \ {i}) \cup {[i EXCEPT ![mark] = TRUE]}
    /\ UNCHANGED <<draft, annotated, nextCid, gaps, inReview, ckpt, archived, events, rounds,
                   pc, mem, removed, heard, unaudited, breaks>>

DeleteItem(i) ==
    /\ pc = "idle"
    /\ pending' = pending \ {i}
    /\ removed' = removed \cup {i.cid}
    /\ UNCHANGED <<draft, annotated, nextCid, gaps, inReview, ckpt, archived, events, rounds,
                   pc, mem, heard, unaudited, breaks>>

AnswerGap(s) ==
    /\ pc = "idle"
    /\ gaps' = gaps \cup {s}
    /\ s \notin gaps
    /\ UNCHANGED <<draft, annotated, pending, nextCid, inReview, ckpt, archived, events,
                   rounds, pc, mem, removed, heard, unaudited, breaks>>

-----------------------------------------------------------------------------
(* The round, up to the commit                                             *)

Consumable == {i \in pending : ~i.external \/ i.included}

\* A gap answered since the draft: its section still awaits a disposition.
AnsweredGaps == {s \in gaps : ~draft.entries[s].drafted}

\* A checkpoint whose commit already landed its envelope.
Resuming == ckpt.out # NoDraft /\ ckpt.out = draft

\* Mutation: the envelope starts from the disk, the outcomes from the checkpoint.
BeginRoundFromDisk ==
    /\ pc = "idle"
    /\ Resuming \/ annotated.draft = draft
    /\ Resuming \/ Consumable # {} \/ AnsweredGaps # {}
    /\ Resuming \/ draft.rev < MaxRounds
    /\ mem' = [resume |-> Resuming, n |-> IF Resuming THEN draft.rev ELSE draft.rev + 1,
               take |-> Consumable, store |-> pending, gaps |-> AnsweredGaps,
               entries |-> draft.entries,
               verdicts |-> annotated.verdicts, handled |-> {}]
    /\ pc' = "revise"
    /\ UNCHANGED <<draft, annotated, pending, nextCid, gaps, inReview, ckpt, archived, events,
                   rounds, removed, heard, unaudited, breaks>>

\* The refusals (stale annotation, empty round), the batch, and the envelope
\* with the checkpointed sections' revised entries restored into it.
BeginRound ==
    /\ pc = "idle"
    /\ Resuming \/ annotated.draft = draft
    /\ Resuming \/ Consumable # {} \/ AnsweredGaps # {}
    /\ Resuming \/ draft.rev < MaxRounds
    /\ mem' = [resume |-> Resuming, n |-> IF Resuming THEN draft.rev ELSE draft.rev + 1,
               take |-> Consumable, store |-> pending, gaps |-> AnsweredGaps,
               entries |-> [s \in Sections |-> IF ckpt.outcome[s] = "revised" THEN ckpt.entry[s]
                                               ELSE draft.entries[s]],
               verdicts |-> annotated.verdicts, handled |-> {}]
    /\ pc' = "revise"
    /\ UNCHANGED <<draft, annotated, pending, nextCid, gaps, inReview, ckpt, archived, events,
                   rounds, removed, heard, unaudited, breaks>>

\* The touched sections that no checkpoint holds yet, in sorted order.
Todo == {s \in {i.section : i \in mem.take} \cup mem.gaps : ckpt.outcome[s] = "none"}
IsNext(s) == pc = "revise" /\ s \in Todo /\ \A t \in Todo : s <= t

Batch(s, kind) == {i \in mem.take : i.section = s /\ i.kind = kind}
CidsOf(items) == {i.cid : i \in items}

\* A section that is not drafted and has no gap answer is kept.
KeepSection(s) ==
    /\ IsNext(s)
    /\ ~mem.entries[s].drafted /\ s \notin mem.gaps
    /\ ckpt' = [ckpt EXCEPT !.outcome[s] = "kept"]
    /\ UNCHANGED <<draft, annotated, pending, nextCid, gaps, inReview, archived, events,
                   rounds, pc, mem, removed, heard, unaudited, breaks>>

\* An edit landed and the agent's answer then failed to parse, or the
\* checkpoint says that the re-validation is already done.
LeftUnaudited(applied, answer) == \/ answer = "pended" /\ applied # {}
                                  \/ ckpt.reval /\ (answer = "changed" \/ applied # {})

\* The edits that anchor are applied to the envelope in memory (the text an
\* applied edit was anchored in is gone); then, when
\* there are comments or a gap answer, the agent revises: its answer changes
\* the prose, leaves it, or fails to parse.
ReviseSection(s, applied, answer) ==
    LET comments == Batch(s, "comment")
        called == comments # {} \/ s \in mem.gaps
        agent == IF answer # "changed" THEN {}
                 ELSE CidsOf(comments) \cup (IF s \in mem.gaps THEN {GapText} ELSE {})
        entry == [prose |-> mem.entries[s].prose \cup CidsOf(applied) \cup agent,
                  drafted |-> mem.entries[s].drafted \/ (s \in mem.gaps /\ agent # {})]
        outcome == IF answer = "pended" THEN "pended"
                   ELSE IF applied # {} \/ answer = "changed" THEN "revised" ELSE "kept"
    IN
    /\ IsNext(s)
    /\ mem.entries[s].drafted \/ s \in mem.gaps
    /\ applied \subseteq Batch(s, "edit")
    /\ CidsOf(applied) \cap mem.entries[s].prose = {}
    /\ answer \in IF called THEN {"changed", "same", "pended"} ELSE {"same"}
    /\ mem' = [mem EXCEPT !.entries[s] = entry]
    /\ ckpt' = [ckpt EXCEPT !.outcome[s] = outcome,
                            !.entry[s] = IF outcome = "revised" THEN entry ELSE @]
    /\ heard' = heard \cup CidsOf(Batch(s, "edit"))
                      \cup (IF answer = "pended" THEN {} ELSE CidsOf(comments))
    /\ unaudited' = IF LeftUnaudited(applied, answer) THEN unaudited \cup {s} ELSE unaudited
    /\ UNCHANGED <<draft, annotated, pending, nextCid, gaps, inReview, archived, events,
                   rounds, pc, removed, breaks>>

Revised == {s \in Sections : ckpt.outcome[s] = "revised"}
Pended == {s \in Sections : ckpt.outcome[s] = "pended"}

NothingChanged ==
    /\ pc = "revise" /\ Todo = {} /\ Revised = {}
    /\ ckpt' = NoCkpt
    /\ pc' = "idle"
    /\ mem' = NoMemory
    /\ UNCHANGED <<draft, annotated, pending, nextCid, gaps, inReview, archived, events,
                   rounds, removed, heard, unaudited, breaks>>

\* The revised sections are validated again, once per checkpoint.
Revalidate ==
    /\ pc = "revise" /\ Todo = {} /\ Revised # {}
    /\ ckpt' = IF ckpt.reval THEN ckpt
               ELSE [ckpt EXCEPT !.reval = TRUE,
                                 !.verdicts = [s \in Sections |-> IF s \in Revised
                                                 THEN mem.entries[s] ELSE @[s]]]
    /\ pc' = IF mem.resume THEN "annotate" ELSE "archive_draft"
    /\ UNCHANGED <<draft, annotated, pending, nextCid, gaps, inReview, archived, events,
                   rounds, mem, removed, heard, unaudited, breaks>>

-----------------------------------------------------------------------------
(* The convergent commit                                                   *)

ArchiveDraft ==
    /\ pc = "archive_draft"
    /\ archived' = IF archived[mem.n - 1].draft # NoDraft THEN archived
                   ELSE [archived EXCEPT ![mem.n - 1].draft = draft]
    /\ pc' = "archive_annotated"
    /\ UNCHANGED <<draft, annotated, pending, nextCid, gaps, inReview, ckpt, events, rounds,
                   mem, removed, heard, unaudited, breaks>>

ArchiveAnnotated ==
    /\ pc = "archive_annotated"
    /\ archived' = IF archived[mem.n - 1].annotated # NoAnnotated THEN archived
                   ELSE [archived EXCEPT ![mem.n - 1].annotated = annotated]
    /\ pc' = "bind_out"
    /\ UNCHANGED <<draft, annotated, pending, nextCid, gaps, inReview, ckpt, events, rounds,
                   mem, removed, heard, unaudited, breaks>>

Revision == [rev |-> mem.n, entries |-> mem.entries]

\* Mutation: the checkpoint never learns which envelope it committed.
BindNothing ==
    /\ pc = "bind_out"
    /\ pc' = "write_draft"
    /\ UNCHANGED <<draft, annotated, pending, nextCid, gaps, inReview, ckpt, archived, events,
                   rounds, mem, removed, heard, unaudited, breaks>>

BindOut ==
    /\ pc = "bind_out"
    /\ ckpt' = [ckpt EXCEPT !.out = Revision]
    /\ pc' = "write_draft"
    /\ UNCHANGED <<draft, annotated, pending, nextCid, gaps, inReview, archived, events,
                   rounds, mem, removed, heard, unaudited, breaks>>

WriteDraft ==
    /\ pc = "write_draft"
    /\ draft' = Revision
    /\ pc' = "annotate"
    /\ UNCHANGED <<annotated, pending, nextCid, gaps, inReview, ckpt, archived, events,
                   rounds, mem, removed, heard, unaudited, breaks>>

\* Mutation: every section carries its verdicts.
RebuildCarried ==
    /\ pc = "annotate"
    /\ annotated' = [draft |-> draft, verdicts |-> mem.verdicts]
    /\ pc' = "finalize"
    /\ UNCHANGED <<draft, pending, nextCid, gaps, inReview, ckpt, archived, events, rounds,
                   mem, removed, heard, unaudited, breaks>>

\* Fresh verdicts for the re-validated sections, carried ones for the others.
RebuildAnnotated ==
    /\ pc = "annotate"
    /\ annotated' = [draft |-> draft,
                     verdicts |-> [s \in Sections |->
                        IF ~mem.entries[s].drafted THEN NoEntries[s]
                        ELSE IF ckpt.verdicts[s] # NoEntries[s] THEN ckpt.verdicts[s]
                        ELSE mem.verdicts[s]]]
    /\ pc' = "finalize"
    /\ UNCHANGED <<draft, pending, nextCid, gaps, inReview, ckpt, archived, events, rounds,
                   mem, removed, heard, unaudited, breaks>>

\* The batch without the pended sections; then the dismissed guests' comments.
Consumed == {i \in mem.take : i.section \notin Pended}
Dismissed == {i \in mem.store \ Consumed : i.external /\ i.dismissed /\ i.section \notin Pended}

ToFinalize == LET left(items) == CidsOf(items) \ mem.handled
              IN  IF left(Consumed) # {} THEN left(Consumed) ELSE left(Dismissed)

Finalized == {events[n].cid : n \in DOMAIN events}

\* Mutation: a replay appends again.
FinalizeAgain ==
    /\ pc = "finalize"
    /\ ToFinalize # {}
    /\ LET cid == Min(ToFinalize) IN
       /\ events' = Append(events, [cid |-> cid, rev |-> draft.rev])
       /\ mem' = [mem EXCEPT !.handled = @ \cup {cid}]
    /\ UNCHANGED <<draft, annotated, pending, nextCid, gaps, inReview, ckpt, archived, rounds,
                   pc, removed, heard, unaudited, breaks>>

\* One event per item, unless an earlier attempt already appended it.
FinalizeItem ==
    /\ pc = "finalize"
    /\ ToFinalize # {}
    /\ LET cid == Min(ToFinalize) IN
       /\ events' = IF cid \in Finalized THEN events
                    ELSE Append(events, [cid |-> cid, rev |-> draft.rev])
       /\ mem' = [mem EXCEPT !.handled = @ \cup {cid}]
    /\ UNCHANGED <<draft, annotated, pending, nextCid, gaps, inReview, ckpt, archived, rounds,
                   pc, removed, heard, unaudited, breaks>>

\* The record's inputs are fixed before the pending items go.
CheckpointRecord ==
    /\ pc = "finalize"
    /\ ToFinalize = {}
    /\ ckpt' = [ckpt EXCEPT !.record = IF @ = {} THEN {CidsOf(Consumed)} ELSE @]
    /\ pc' = "drop"
    /\ UNCHANGED <<draft, annotated, pending, nextCid, gaps, inReview, archived, events,
                   rounds, mem, removed, heard, unaudited, breaks>>

DropPending ==
    /\ pc = "drop"
    /\ pending' = {i \in pending : i.cid \notin CidsOf(Consumed \cup Dismissed)}
    /\ pc' = "record"
    /\ UNCHANGED <<draft, annotated, nextCid, gaps, inReview, ckpt, archived, events, rounds,
                   mem, removed, heard, unaudited, breaks>>

\* Mutation: the record is numbered by the revision it started from.
WriteRecordFrom ==
    /\ pc = "record"
    /\ rounds' = rounds \cup {[n |-> mem.n - 1, consumed |-> UNION ckpt.record]}
    /\ pc' = "live_plan"
    /\ UNCHANGED <<draft, annotated, pending, nextCid, gaps, inReview, ckpt, archived, events,
                   mem, removed, heard, unaudited, breaks>>

\* The first attempt's record stands.
WriteRecord ==
    /\ pc = "record"
    /\ rounds' = IF \E r \in rounds : r.n = mem.n THEN rounds
                 ELSE rounds \cup {[n |-> mem.n, consumed |-> UNION ckpt.record]}
    /\ pc' = "live_plan"
    /\ UNCHANGED <<draft, annotated, pending, nextCid, gaps, inReview, ckpt, archived, events,
                   mem, removed, heard, unaudited, breaks>>

WriteLivePlan ==
    /\ pc = "live_plan"
    /\ inReview' = inReview \ Revised
    /\ pc' = "clear"
    /\ UNCHANGED <<draft, annotated, pending, nextCid, gaps, ckpt, archived, events, rounds,
                   mem, removed, heard, unaudited, breaks>>

ClearCheckpoint ==
    /\ pc = "clear"
    /\ ckpt' = NoCkpt
    /\ mem' = NoMemory
    /\ pc' = "idle"
    /\ UNCHANGED <<draft, annotated, pending, nextCid, gaps, inReview, archived, events,
                   rounds, removed, heard, unaudited, breaks>>

-----------------------------------------------------------------------------

Lose == /\ breaks < MaxBreaks
        /\ breaks' = breaks + 1
        /\ pc' = "idle"
        /\ mem' = NoMemory
        /\ UNCHANGED <<draft, annotated, pending, nextCid, gaps, inReview, ckpt, archived,
                       events, rounds, removed, heard, unaudited>>

\* A cancel, polled before each section that is left, loses the same.
Crash == pc # "idle" /\ Lose

Routes == \/ \E kind \in {"comment", "edit"}, s \in Sections, x \in BOOLEAN : AddItem(kind, s, x)
          \/ \E i \in pending : DeleteItem(i)
          \/ \E i \in pending, mark \in {"included", "dismissed"} : Curate(i, mark)
          \/ \E s \in Awaiting : AnswerGap(s)

Revise == \/ \E s \in Sections :
                \/ KeepSection(s)
                \/ \E applied \in SUBSET mem.take, answer \in {"changed", "same", "pended"} :
                      ReviseSection(s, applied, answer)
          \/ NothingChanged \/ Revalidate

Commit == \/ ArchiveDraft \/ ArchiveAnnotated \/ BindOut \/ WriteDraft \/ RebuildAnnotated
          \/ FinalizeItem \/ CheckpointRecord \/ DropPending \/ WriteRecord
          \/ WriteLivePlan \/ ClearCheckpoint

Next == Routes \/ BeginRound \/ Revise \/ Commit \/ Crash

Spec == Init /\ [][Next]_vars

\* A running round goes on, and a round whose commit was cut short is
\* submitted again.
FairSpec == Spec /\ WF_vars(Revise) /\ WF_vars(Commit) /\ WF_vars(Resuming /\ BeginRound)

-----------------------------------------------------------------------------
(* Properties                                                              *)

\* No human input is lost: every item ever left is still pending, on the
\* append-only record, or deleted by a person - through every interleaving of
\* rounds, cancels and crashes (finalize before drop, in that order).
NothingLost == \A c \in 1..(nextCid - 1) :
    \/ c \in CidsOf(pending)
    \/ c \in Finalized
    \/ c \in removed

\* An item reaches the record at most once, whatever is replayed
\* (finalized_by_cid).
FinalizedOnce == Len(events) = Cardinality(Finalized)

\* Every item lands on the record once, or is still pending, or was deleted by a
\* person: finalize goes before drop, and a replay finalizes nothing again
\* (revision/round.py:513-545).
ItemsLandOnce == NothingLost /\ FinalizedOnce

\* The annotated draft that binds the envelope describes it: the verdicts of
\* a drafted section were computed on the prose the envelope holds, whether
\* they are fresh or carried.  The two ways past the audit that the code has
\* are named by LeftUnaudited; there is no third.
VerdictsMatch(sections) ==
    annotated.draft = draft =>
        \A s \in sections : draft.entries[s].drafted => annotated.verdicts[s] = draft.entries[s]
CarriedVerdictsMatch == VerdictsMatch(Sections \ unaudited)

\* A revision is written only over a pair that is archived as it stood, and
\* only when every section the round calls revised moved: revision_n never
\* bumps over unchanged prose, also when the round resumes a checkpoint.
RevisionMoves ==
    [][draft' # draft => /\ draft'.rev = draft.rev + 1
                         /\ archived[draft.rev] = [draft |-> draft, annotated |-> annotated]
                         /\ \A s \in Revised : draft'.entries[s] # draft.entries[s]]_vars

\* A commit whose envelope landed completes: the annotated draft binds it,
\* and its record is there with nothing it consumed left pending (the commit
\* is convergent from its checkpoint).
Committed == /\ ckpt = NoCkpt
             /\ annotated.draft = draft
             /\ \E r \in rounds : r.n = draft.rev /\ r.consumed \cap CidsOf(pending) = {}
Landed == draft.rev > 0 /\ ~\E r \in rounds : r.n = draft.rev
CommitConverges == Landed \/ Resuming ~> Committed

\* The module's head comment: human edits apply verbatim and are re-audited
\* like model prose; a failed wire never half-applies.
ShippedProseIsAudited == VerdictsMatch(Sections)

\* The same comment: a human edit that a round finalizes was applied, or
\* refused with a warning because it did not anchor.
FinalizedEditIsHeard == [][\A i \in mem.take :
    i.kind = "edit" /\ i.cid \in mem'.handled \ mem.handled => i.cid \in heard]_vars
=============================================================================
