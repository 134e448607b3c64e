------------------------- MODULE ReviewRoundProofs -------------------------
(***************************************************************************)
(* Proofs about ReviewRound, for any sections and any bounds.              *)
(*                                                                         *)
(* The inductive invariant says of a running round what its memory owes to *)
(* the disk (Numbering, InMemory), of the audit which verdicts match which *)
(* prose (Audit), of the items where each of them is (Items, Landing,      *)
(* Voices), and of the archive what it holds of the live pair (Archive).   *)
(***************************************************************************)
EXTENDS ReviewRound, FiniteSetTheorems, WellFoundedInduction, TLAPS

USE SectionsAssumption, BoundAssumption

-----------------------------------------------------------------------------
(* The operators                                                           *)

\* A set of numbers that is not empty has a least one: a finalize step has an
\* item to handle.
LEMMA MinFacts == ASSUME NEW S \in SUBSET Nat, S # {} PROVE Min(S) \in S
<1> DEFINE Less == OpToRel(<, Nat)
<1>1. IsWellFoundedOn(Less, Nat)
  BY NatLessThanWellFounded
<1>2. PICK x \in S : \A y \in S : ~(<<y, x>> \in Less)
  <2> HIDE DEF Less
  <2> QED
    BY <1>1, WFMin
<1>3. \A y \in S : ~(y < x)
  BY <1>2 DEF OpToRel
<1>4. \A y \in S : x <= y
  BY <1>3
<1> QED
  BY <1>4 DEF Min

\* The ids of items start at 1, and the text of a gap has none of them.
LEMMA CidFacts == Cids \subseteq Nat /\ GapText \notin Cids /\ GapText = 0
BY DEF Cids, GapText

\* What an empty workspace holds is well typed.
LEMMA NoneTyped ==
    /\ NoEntries \in Entries /\ NoDraft \in Draft /\ NoAnnotated \in Annotated
    /\ NoCkpt \in Ckpt /\ NoMemory \in Memory
<1>1. NoEntries \in Entries
  BY DEF NoEntries, Entries, Entry
<1>2. NoDraft \in Draft
  BY <1>1 DEF NoDraft, Draft
<1>3. NoAnnotated \in Annotated
  BY <1>1, <1>2 DEF NoAnnotated, Annotated
<1>4. NoCkpt \in Ckpt
  BY <1>1, <1>2 DEF NoCkpt, Ckpt
<1>5. NoMemory \in Memory
  BY <1>1 DEF NoMemory, Memory
<1> QED
  BY <1>1, <1>2, <1>3, <1>4, <1>5

\* The cids of items.
LEMMA CidsOfFacts == ASSUME NEW items \in SUBSET Item PROVE CidsOf(items) \subseteq Cids
BY DEF CidsOf, Item

\* The parts of the round's memory and of the checkpoint are typed.
LEMMA PartsTyped ==
    ASSUME TypeOK
    PROVE  /\ mem.resume \in BOOLEAN /\ mem.n \in 0..MaxRounds /\ mem.take \subseteq Item
           /\ mem.store \subseteq Item /\ mem.gaps \subseteq Sections /\ mem.entries \in Entries
           /\ mem.verdicts \in Entries /\ mem.handled \subseteq Cids
           /\ ckpt.outcome \in [Sections -> {"none", "kept", "pended", "revised"}]
           /\ ckpt.entry \in Entries /\ ckpt.reval \in BOOLEAN /\ ckpt.verdicts \in Entries
           /\ ckpt.out \in Draft /\ ckpt.record \subseteq SUBSET Cids
           /\ draft.rev \in 0..MaxRounds /\ draft.entries \in Entries
           /\ annotated.draft \in Draft /\ annotated.verdicts \in Entries
           /\ Finalized \subseteq Cids
<1>1. mem \in Memory /\ ckpt \in Ckpt /\ draft \in Draft /\ annotated \in Annotated
  BY DEF TypeOK
<1>2. Finalized \subseteq Cids
  <2> DEFINE Event == [cid : Cids, rev : 0..MaxRounds]
  <2>1. events \in Seq(Event) /\ \A e \in Event : e.cid \in Cids
    BY DEF TypeOK
  <2> HIDE DEF Event
  <2>2. \A n \in DOMAIN events : events[n] \in Event
    BY <2>1
  <2>3. \A n \in DOMAIN events : events[n].cid \in Cids
    BY <2>1, <2>2
  <2> QED
    BY <2>3 DEF Finalized
<1> QED
  BY <1>1, <1>2 DEF Memory, Ckpt, Draft, Annotated

\* The entry that the revision of a section leaves, and its outcome.
Agent(s, answer) == IF answer # "changed" THEN {}
                    ELSE CidsOf(Batch(s, "comment")) \cup (IF s \in mem.gaps THEN {GapText} ELSE {})
Left(s, applied, answer) ==
    [prose |-> mem.entries[s].prose \cup CidsOf(applied) \cup Agent(s, answer),
     drafted |-> mem.entries[s].drafted \/ (s \in mem.gaps /\ Agent(s, answer) # {})]
Outcome(applied, answer) ==
    IF answer = "pended" THEN "pended"
    ELSE IF applied # {} \/ answer = "changed" THEN "revised" ELSE "kept"

\* What the revision of one section writes.
LEMMA ReviseFacts ==
    ASSUME TypeOK, NEW s \in Sections, NEW applied \in SUBSET mem.take,
           NEW answer \in {"changed", "same", "pended"}, ReviseSection(s, applied, answer)
    PROVE  /\ Left(s, applied, answer) \in Entry
           /\ mem' \in Memory
           /\ \A t \in Sections : mem'.entries[t] = IF t = s THEN Left(s, applied, answer)
                                                    ELSE mem.entries[t]
           /\ mem'.resume = mem.resume /\ mem'.n = mem.n /\ mem'.take = mem.take
           /\ mem'.store = mem.store /\ mem'.gaps = mem.gaps /\ mem'.verdicts = mem.verdicts
           /\ mem'.handled = mem.handled
           /\ ckpt' \in Ckpt
           /\ \A t \in Sections : ckpt'.outcome[t] = IF t = s THEN Outcome(applied, answer)
                                                     ELSE ckpt.outcome[t]
           /\ \A t \in Sections :
                ckpt'.entry[t] = IF t = s /\ Outcome(applied, answer) = "revised"
                                 THEN Left(s, applied, answer) ELSE ckpt.entry[t]
           /\ ckpt'.reval = ckpt.reval /\ ckpt'.verdicts = ckpt.verdicts /\ ckpt'.out = ckpt.out
           /\ ckpt'.record = ckpt.record
           /\ heard' \subseteq Cids /\ unaudited' \subseteq Sections
           /\ unaudited \subseteq unaudited'
<1> DEFINE e == Left(s, applied, answer)
           o == Outcome(applied, answer)
<1>1. /\ mem \in Memory /\ ckpt \in Ckpt /\ mem.take \subseteq Item /\ mem.entries \in Entries
      /\ ckpt.entry \in Entries /\ mem.gaps \subseteq Sections
      /\ ckpt.outcome \in [Sections -> {"none", "kept", "pended", "revised"}]
      /\ heard \subseteq Cids /\ unaudited \subseteq Sections
  BY PartsTyped DEF TypeOK
<1>2. /\ CidsOf(applied) \subseteq Cids /\ \A kind : CidsOf(Batch(s, kind)) \subseteq Cids
  BY <1>1, CidsOfFacts DEF Batch
<1>3. Agent(s, answer) \subseteq Cids \cup {GapText}
  BY <1>2 DEF Agent
<1>4. e \in Entry
  <2>1. mem.entries[s] \in Entry
    BY <1>1 DEF Entries
  <2> QED
    BY <1>2, <1>3, <2>1 DEF Left, Entry
<1>5. o \in {"kept", "pended", "revised"}
  BY DEF Outcome
<1>6. /\ mem' = [mem EXCEPT !.entries[s] = e]
      /\ ckpt' = [ckpt EXCEPT !.outcome[s] = o, !.entry[s] = IF o = "revised" THEN e ELSE @]
      /\ heard' = heard \cup CidsOf(Batch(s, "edit"))
                        \cup (IF answer = "pended" THEN {} ELSE CidsOf(Batch(s, "comment")))
      /\ unaudited' = IF LeftUnaudited(applied, answer) THEN unaudited \cup {s} ELSE unaudited
  BY DEF ReviseSection, Left, Agent, Outcome
<1> HIDE DEF e, o
<1>7. [mem.entries EXCEPT ![s] = e] \in Entries
  BY <1>1, <1>4 DEF Entries
<1>8. /\ mem' \in Memory /\ \A t \in Sections : mem'.entries[t] = IF t = s THEN e ELSE mem.entries[t]
      /\ mem'.resume = mem.resume /\ mem'.n = mem.n /\ mem'.take = mem.take
      /\ mem'.store = mem.store /\ mem'.gaps = mem.gaps /\ mem'.verdicts = mem.verdicts
      /\ mem'.handled = mem.handled
  <2>1. \A t \in Sections : [mem.entries EXCEPT ![s] = e][t] = IF t = s THEN e ELSE mem.entries[t]
    BY <1>1 DEF Entries
  <2> QED
    BY <1>1, <1>6, <1>7, <2>1 DEF Memory
<1>9. /\ [ckpt.outcome EXCEPT ![s] = o] \in [Sections -> {"none", "kept", "pended", "revised"}]
      /\ \A t \in Sections : [ckpt.outcome EXCEPT ![s] = o][t] = IF t = s THEN o ELSE ckpt.outcome[t]
  BY <1>1, <1>5
<1>10. CASE o = "revised"
  <2>1. /\ [ckpt.entry EXCEPT ![s] = e] \in Entries
        /\ \A t \in Sections : [ckpt.entry EXCEPT ![s] = e][t] = IF t = s THEN e ELSE ckpt.entry[t]
    BY <1>1, <1>4 DEF Entries
  <2>2. ckpt' = [ckpt EXCEPT !.outcome = [ckpt.outcome EXCEPT ![s] = o],
                             !.entry = [ckpt.entry EXCEPT ![s] = e]]
    BY <1>1, <1>6, <1>10 DEF Ckpt
  <2>3. /\ ckpt' \in Ckpt
        /\ \A t \in Sections : /\ ckpt'.outcome[t] = IF t = s THEN o ELSE ckpt.outcome[t]
                               /\ ckpt'.entry[t] = IF t = s THEN e ELSE ckpt.entry[t]
        /\ ckpt'.reval = ckpt.reval /\ ckpt'.verdicts = ckpt.verdicts /\ ckpt'.out = ckpt.out
        /\ ckpt'.record = ckpt.record
    BY <1>1, <1>9, <2>1, <2>2 DEF Ckpt
  <2>4. heard' \subseteq Cids /\ unaudited' \subseteq Sections /\ unaudited \subseteq unaudited'
    BY <1>1, <1>2, <1>6
  <2> QED
    BY <1>4, <1>8, <1>10, <2>3, <2>4 DEF e, o
<1>11. CASE o # "revised"
  <2>1. [ckpt.entry EXCEPT ![s] = ckpt.entry[s]] = ckpt.entry
    BY <1>1 DEF Entries
  <2>2. ckpt' = [ckpt EXCEPT !.outcome = [ckpt.outcome EXCEPT ![s] = o]]
    BY <1>1, <1>6, <1>11, <2>1 DEF Ckpt
  <2>3. /\ ckpt' \in Ckpt
        /\ \A t \in Sections : ckpt'.outcome[t] = IF t = s THEN o ELSE ckpt.outcome[t]
        /\ ckpt'.entry = ckpt.entry
        /\ ckpt'.reval = ckpt.reval /\ ckpt'.verdicts = ckpt.verdicts /\ ckpt'.out = ckpt.out
        /\ ckpt'.record = ckpt.record
    BY <1>1, <1>9, <2>2 DEF Ckpt
  <2>4. heard' \subseteq Cids /\ unaudited' \subseteq Sections /\ unaudited \subseteq unaudited'
    BY <1>1, <1>2, <1>6
  <2> QED
    BY <1>4, <1>8, <1>11, <2>3, <2>4 DEF e, o
<1> QED
  BY <1>10, <1>11

\* What the revision writes of the entries and the outcomes.
Writes(s, applied, answer) == \A t \in Sections :
    /\ mem'.entries[t] = IF t = s THEN Left(s, applied, answer) ELSE mem.entries[t]
    /\ ckpt'.outcome[t] = IF t = s THEN Outcome(applied, answer) ELSE ckpt.outcome[t]
    /\ ckpt'.entry[t] = IF t = s /\ Outcome(applied, answer) = "revised"
                        THEN Left(s, applied, answer) ELSE ckpt.entry[t]

\* The revision of a section writes its entry and its outcome, and no other's.
LEMMA ReviseWrites ==
    ASSUME TypeOK, NEW s \in Sections, NEW applied \in SUBSET mem.take,
           NEW answer \in {"changed", "same", "pended"}, ReviseSection(s, applied, answer)
    PROVE  Writes(s, applied, answer)
<1> SUFFICES ASSUME NEW t \in Sections
             PROVE  /\ mem'.entries[t] = IF t = s THEN Left(s, applied, answer) ELSE mem.entries[t]
                    /\ ckpt'.outcome[t] = IF t = s THEN Outcome(applied, answer) ELSE ckpt.outcome[t]
                    /\ ckpt'.entry[t] = IF t = s /\ Outcome(applied, answer) = "revised"
                                        THEN Left(s, applied, answer) ELSE ckpt.entry[t]
  BY DEF Writes
<1>1. mem'.entries[t] = IF t = s THEN Left(s, applied, answer) ELSE mem.entries[t]
  BY ReviseFacts, SMTT(60)
<1>2. ckpt'.outcome[t] = IF t = s THEN Outcome(applied, answer) ELSE ckpt.outcome[t]
  BY ReviseFacts, SMTT(60)
<1>3. ckpt'.entry[t] = IF t = s /\ Outcome(applied, answer) = "revised"
                       THEN Left(s, applied, answer) ELSE ckpt.entry[t]
  BY ReviseFacts, SMTT(60)
<1> QED
  BY <1>1, <1>2, <1>3

-----------------------------------------------------------------------------
(* The invariant                                                           *)

Early == {"revise", "archive_draft", "archive_annotated", "bind_out", "write_draft"}
Late == {"annotate", "finalize", "drop", "record", "live_plan", "clear"}

\* The round knows which revision it writes and whether it resumes a commit;
\* what lands is what the checkpoint binds, and the annotated draft lags
\* behind the envelope only while a commit is open.
Numbering ==
    /\ annotated.draft.rev <= draft.rev
    /\ ckpt.out # NoDraft => ckpt.out.rev >= 1 /\ ckpt.reval /\ Revised # {}
    /\ pc # "idle" => mem.n >= 1
    /\ pc \in Early => mem.resume = Resuming
    /\ pc \in Early /\ Resuming => mem.n = draft.rev
    /\ pc \in Early /\ ~Resuming => mem.n = draft.rev + 1
    /\ pc \in Early \ {"revise"} => ~Resuming /\ ckpt.reval /\ Revised # {}
    /\ pc = "write_draft" => ckpt.out = Revision
    /\ pc \in Late => Resuming /\ mem.n = draft.rev
    /\ pc \in Late \ {"annotate"} => annotated.draft = draft
    /\ annotated.draft = draft \/ Resuming

Audited == Sections \ unaudited

\* The verdicts of the audited sections: the fresh ones are of the entry the
\* checkpoint holds, the annotated ones of the entry the envelope holds,
\* except where the open commit has revised it.
Audit ==
    /\ ~ckpt.reval => ckpt.verdicts = NoEntries
    /\ \A s \in Sections : ckpt.verdicts[s] # NoEntries[s] => s \in Revised
    /\ ckpt.reval => \A s \in Revised \ unaudited : ckpt.verdicts[s] = ckpt.entry[s]
    /\ Resuming => \A s \in Revised \ unaudited : ckpt.entry[s] = draft.entries[s]
    /\ \A s \in Audited : draft.entries[s].drafted /\ (s \notin Revised \/ annotated.draft = draft)
         => annotated.verdicts[s] = draft.entries[s]

\* What a round holds in memory until the annotated draft is written: the
\* verdicts it carries, the revised entries, and else the envelope on disk.
InMemory == pc \in Early \cup {"annotate"} =>
    /\ mem.verdicts = annotated.verdicts
    /\ \A s \in Revised : mem.entries[s] = ckpt.entry[s]
    /\ \A s \in Sections : ckpt.outcome[s] = "none" => mem.entries[s] = draft.entries[s]
    /\ \A s \in Audited \ Revised : mem.entries[s] = draft.entries[s]
    /\ pc = "revise" => \A s \in mem.gaps : ~draft.entries[s].drafted

\* Cids are given out once, whatever was left or deleted since.
Known(entry) == \A c \in entry.prose : c < nextCid
Dropped == {"record", "live_plan", "clear"}
Wanted(i) == ~i.external \/ i.included
Items ==
    /\ \A i \in pending : i.cid < nextCid
    /\ \A i, j \in pending : i.cid = j.cid => i = j
    /\ \A s \in Sections : Known(draft.entries[s]) /\ (s \in Revised => Known(ckpt.entry[s]))
    /\ pc \in Early => \A s \in Sections : Known(mem.entries[s])
    /\ pc \notin {"idle"} \cup Dropped => mem.store = pending /\ mem.take = Consumable
    /\ pc \in Dropped => \A i \in pending : Wanted(i) => i.section \in Pended

\* An item is dropped only after it is on the record.
Landing ==
    /\ NothingLost /\ FinalizedOnce
    /\ mem.handled \subseteq Finalized
    /\ pc = "drop" => CidsOf(Consumed) \cup CidsOf(Dismissed) \subseteq mem.handled

\* The archive of the live revision is empty or holds the live pair, and a
\* revision that is written over is archived first.
Archive ==
    /\ archived[draft.rev].draft \in {NoDraft, draft}
    /\ archived[draft.rev].annotated \in {NoAnnotated, annotated}
    /\ Resuming => /\ archived[draft.rev].draft = NoDraft
                   /\ archived[draft.rev].annotated = NoAnnotated
    /\ \A n \in 0..MaxRounds : n > draft.rev => /\ archived[n].draft = NoDraft
                                               /\ archived[n].annotated = NoAnnotated
    /\ pc \in {"archive_annotated", "bind_out", "write_draft"} => archived[draft.rev].draft = draft
    /\ pc \in {"bind_out", "write_draft"} => archived[draft.rev].annotated = annotated

\* The agent is asked again about a comment it has revised for only while the
\* commit that consumes the comment is open, and a gap's text fills its
\* section; so a section that is called revised has prose it did not have.
Voiced(i, entries) == i.kind = "comment" /\ i.cid \in entries[i.section].prose
Filled(entry) == GapText \in entry.prose => entry.drafted
Voices ==
    /\ \A i \in pending : Voiced(i, draft.entries) => Wanted(i) /\ i.section \in Revised /\ Resuming
    /\ \A i \in pending : i.section \in Revised /\ Voiced(i, ckpt.entry) => Wanted(i)
    /\ pc \in Early => \A i \in pending : Voiced(i, mem.entries) => Wanted(i) /\ i.section \in Revised
    /\ \A s \in Sections : Filled(draft.entries[s]) /\ (s \in Revised => Filled(ckpt.entry[s]))
    /\ pc \in Early => \A s \in Sections : Filled(mem.entries[s])
    /\ ~Resuming => \A s \in Revised : ckpt.entry[s] # draft.entries[s]

IInv == /\ TypeOK /\ Numbering /\ Audit /\ InMemory
        /\ Items /\ Landing /\ Archive /\ Voices

-----------------------------------------------------------------------------
(* The types                                                               *)

\* A route keeps the types.
LEMMA RoutesTyped == TypeOK /\ Routes => TypeOK'
<1> SUFFICES ASSUME TypeOK, Routes PROVE TypeOK'
  OBVIOUS
<1>1. ASSUME NEW kind \in {"comment", "edit"}, NEW s \in Sections, NEW x \in BOOLEAN, AddItem(kind, s, x)
      PROVE  TypeOK'
  <2>1. nextCid \in Cids /\ nextCid' = nextCid + 1
    BY <1>1 DEF AddItem
  <2>2. nextCid' \in 1..(MaxItems + 1)
    BY <2>1 DEF Cids
  <2> DEFINE item == [cid |-> nextCid, kind |-> kind, section |-> s, external |-> x,
                      included |-> FALSE, dismissed |-> FALSE]
  <2>3. item \in Item
    BY <2>1 DEF Item
  <2>5. pending' = pending \cup {item}
    BY <1>1 DEF AddItem
  <2>6. pending' \subseteq Item
    <3> HIDE DEF item
    <3> QED
      BY <2>3, <2>5 DEF TypeOK
  <2>4. inReview' \subseteq Sections
    BY <1>1 DEF AddItem, TypeOK
  <2> QED
    BY <1>1, <2>2, <2>4, <2>6 DEF AddItem, TypeOK
<1>2. ASSUME NEW i \in pending, DeleteItem(i) PROVE TypeOK'
  <2>1. i.cid \in Cids
    BY DEF TypeOK, Item
  <2> QED
    BY <1>2, <2>1 DEF DeleteItem, TypeOK
<1>3. ASSUME NEW i \in pending, NEW mark \in {"included", "dismissed"}, Curate(i, mark) PROVE TypeOK'
  <2>1. [i EXCEPT ![mark] = TRUE] \in Item
    BY DEF TypeOK, Item
  <2> QED
    BY <1>3, <2>1 DEF Curate, TypeOK
<1>4. ASSUME NEW s \in Awaiting, AnswerGap(s) PROVE TypeOK'
  BY <1>4 DEF AnswerGap, TypeOK
<1> QED
  BY <1>1, <1>2, <1>3, <1>4 DEF Routes

\* The start of a round: its number, its batch and its envelope.
LEMMA BeginTyped ==
    ASSUME TypeOK, BeginRound
    PROVE  /\ TypeOK' /\ pc = "idle" /\ pc' = "revise"
           /\ mem'.resume = Resuming /\ mem'.n = IF Resuming THEN draft.rev ELSE draft.rev + 1
           /\ mem'.take = Consumable /\ mem'.store = pending /\ mem'.gaps = AnsweredGaps
           /\ mem'.verdicts = annotated.verdicts /\ mem'.handled = {}
           /\ mem'.entries \in Entries
           /\ \A s \in Sections : mem'.entries[s] = IF s \in Revised THEN ckpt.entry[s]
                                                    ELSE draft.entries[s]
           /\ Resuming \/ annotated.draft = draft
           /\ UNCHANGED <<draft, annotated, pending, nextCid, gaps, inReview, ckpt, archived, events,
                          rounds, removed, heard, unaudited, breaks>>
<1>1. /\ pc = "idle" /\ pc' = "revise" /\ (Resuming \/ annotated.draft = draft)
      /\ Resuming \/ draft.rev < MaxRounds
      /\ UNCHANGED <<draft, annotated, pending, nextCid, gaps, inReview, ckpt, archived, events,
                     rounds, removed, heard, unaudited, breaks>>
  BY DEF BeginRound
<1> DEFINE es == [s \in Sections |-> IF ckpt.outcome[s] = "revised" THEN ckpt.entry[s]
                                     ELSE draft.entries[s]]
           n == IF Resuming THEN draft.rev ELSE draft.rev + 1
<1>2. mem' = [resume |-> Resuming, n |-> n, take |-> Consumable, store |-> pending,
              gaps |-> AnsweredGaps, entries |-> es,
              verdicts |-> annotated.verdicts, handled |-> {}]
  BY DEF BeginRound
<1>3. es \in Entries /\ \A s \in Sections : es[s] = IF s \in Revised THEN ckpt.entry[s]
                                                   ELSE draft.entries[s]
  BY PartsTyped DEF Entries, Revised
<1>4. n \in 0..MaxRounds
  BY <1>1, PartsTyped
<1>5. /\ Consumable \subseteq Item /\ pending \subseteq Item /\ AnsweredGaps \subseteq Sections
      /\ annotated.verdicts \in Entries /\ Resuming \in BOOLEAN
  BY PartsTyped DEF TypeOK, Consumable, AnsweredGaps, Resuming
<1> HIDE DEF es, n
<1>6. mem' \in Memory
  BY <1>2, <1>3, <1>4, <1>5 DEF Memory
<1>7. TypeOK'
  BY <1>1, <1>6 DEF TypeOK, PCs
<1> QED
  BY <1>1, <1>2, <1>3, <1>7 DEF n

\* A section that is kept changes its outcome only.
LEMMA KeepFacts ==
    ASSUME TypeOK, NEW s \in Sections, KeepSection(s)
    PROVE  /\ ckpt' \in Ckpt /\ ckpt'.outcome = [ckpt.outcome EXCEPT ![s] = "kept"]
           /\ ckpt'.entry = ckpt.entry /\ ckpt'.reval = ckpt.reval
           /\ ckpt'.verdicts = ckpt.verdicts /\ ckpt'.out = ckpt.out
<1>1. ckpt' = [ckpt EXCEPT !.outcome = [ckpt.outcome EXCEPT ![s] = "kept"]] /\ ckpt \in Ckpt
  BY DEF KeepSection, TypeOK, Ckpt
<1>2. [ckpt.outcome EXCEPT ![s] = "kept"] \in [Sections -> {"none", "kept", "pended", "revised"}]
  BY PartsTyped
<1> QED
  BY <1>1, <1>2 DEF Ckpt

\* The re-validation gives every revised section a verdict, once.
LEMMA RevalidateFacts ==
    ASSUME TypeOK, Revalidate
    PROVE  /\ ckpt' \in Ckpt /\ ckpt'.reval = TRUE /\ ckpt'.outcome = ckpt.outcome
           /\ ckpt'.entry = ckpt.entry /\ ckpt'.out = ckpt.out
           /\ ckpt.reval => ckpt'.verdicts = ckpt.verdicts
           /\ ~ckpt.reval => \A s \in Sections :
                ckpt'.verdicts[s] = IF s \in Revised THEN mem.entries[s] ELSE ckpt.verdicts[s]
<1> DEFINE vs == [s \in Sections |-> IF s \in Revised THEN mem.entries[s] ELSE ckpt.verdicts[s]]
<1>1. ckpt \in Ckpt /\ mem.entries \in Entries /\ ckpt.verdicts \in Entries
  BY PartsTyped DEF TypeOK
<1>2. vs \in Entries
  BY <1>1 DEF Entries
<1>3. CASE ckpt.reval
  <2>1. ckpt' = ckpt
    BY <1>3 DEF Revalidate
  <2> QED
    BY <1>1, <1>3, <2>1 DEF Ckpt
<1>4. CASE ~ckpt.reval
  <2>1. ckpt' = [ckpt EXCEPT !.reval = TRUE, !.verdicts = vs]
    BY <1>1, <1>4 DEF Revalidate, Ckpt
  <2>2. \A s \in Sections : vs[s] = IF s \in Revised THEN mem.entries[s] ELSE ckpt.verdicts[s]
    OBVIOUS
  <2> HIDE DEF vs
  <2> QED
    BY <1>1, <1>2, <1>4, <2>1, <2>2 DEF Ckpt
<1> QED
  BY <1>1, <1>3, <1>4 DEF Ckpt

\* The sections of a round keep the types.
LEMMA ReviseTyped == TypeOK /\ Revise => TypeOK'
<1> SUFFICES ASSUME TypeOK, Revise PROVE TypeOK'
  OBVIOUS
<1>1. ASSUME NEW s \in Sections, KeepSection(s) PROVE TypeOK'
  BY <1>1, KeepFacts DEF KeepSection, TypeOK
<1>2. ASSUME NEW s \in Sections, NEW applied \in SUBSET mem.take,
             NEW answer \in {"changed", "same", "pended"}, ReviseSection(s, applied, answer)
      PROVE  TypeOK'
  <2>1. mem' \in Memory /\ ckpt' \in Ckpt /\ heard' \subseteq Cids /\ unaudited' \subseteq Sections
    BY <1>2, ReviseFacts
  <2> QED
    BY <1>2, <2>1 DEF ReviseSection, TypeOK
<1>3. CASE NothingChanged
  BY <1>3, NoneTyped DEF NothingChanged, TypeOK, PCs
<1>4. CASE Revalidate
  BY <1>4, RevalidateFacts DEF Revalidate, TypeOK, PCs
<1> QED
  BY <1>1, <1>2, <1>3, <1>4 DEF Revise

\* The archive takes the envelope of the live pair, unless it has one.
LEMMA ArchiveDraftFacts ==
    ASSUME TypeOK, ArchiveDraft, mem.n - 1 \in 0..MaxRounds
    PROVE  /\ archived' \in [0..MaxRounds -> [draft : Draft, annotated : Annotated]]
           /\ \A n \in 0..MaxRounds : archived'[n].annotated = archived[n].annotated
           /\ \A n \in 0..MaxRounds : n # mem.n - 1 => archived'[n].draft = archived[n].draft
           /\ archived'[mem.n - 1].draft = IF archived[mem.n - 1].draft # NoDraft
                                           THEN archived[mem.n - 1].draft ELSE draft
<1>1. /\ archived \in [0..MaxRounds -> [draft : Draft, annotated : Annotated]] /\ draft \in Draft
  BY DEF TypeOK
<1> DEFINE m == mem.n - 1
           pair == [archived[m] EXCEPT !.draft = draft]
<1>2. /\ pair \in [draft : Draft, annotated : Annotated] /\ pair.draft = draft
      /\ pair.annotated = archived[m].annotated
  BY <1>1
<1>3. archived' = IF archived[m].draft # NoDraft THEN archived ELSE [archived EXCEPT ![m] = pair]
  BY DEF ArchiveDraft
<1>4. m \in 0..MaxRounds
  OBVIOUS
<1> HIDE DEF m, pair
<1> QED
  BY <1>1, <1>2, <1>3, <1>4 DEF m

\* The same of the annotated draft.
LEMMA ArchiveAnnotatedFacts ==
    ASSUME TypeOK, ArchiveAnnotated, mem.n - 1 \in 0..MaxRounds
    PROVE  /\ archived' \in [0..MaxRounds -> [draft : Draft, annotated : Annotated]]
           /\ \A n \in 0..MaxRounds : archived'[n].draft = archived[n].draft
           /\ \A n \in 0..MaxRounds : n # mem.n - 1 => archived'[n].annotated = archived[n].annotated
           /\ archived'[mem.n - 1].annotated = IF archived[mem.n - 1].annotated # NoAnnotated
                                               THEN archived[mem.n - 1].annotated ELSE annotated
<1>1. /\ archived \in [0..MaxRounds -> [draft : Draft, annotated : Annotated]]
      /\ annotated \in Annotated
  BY DEF TypeOK
<1> DEFINE m == mem.n - 1
           pair == [archived[m] EXCEPT !.annotated = annotated]
<1>2. /\ pair \in [draft : Draft, annotated : Annotated] /\ pair.annotated = annotated
      /\ pair.draft = archived[m].draft
  BY <1>1
<1>3. archived' = IF archived[m].annotated # NoAnnotated THEN archived
                  ELSE [archived EXCEPT ![m] = pair]
  BY DEF ArchiveAnnotated
<1>4. m \in 0..MaxRounds
  OBVIOUS
<1> HIDE DEF m, pair
<1> QED
  BY <1>1, <1>2, <1>3, <1>4 DEF m

\* The envelope of the round.
LEMMA RevisionFacts ==
    ASSUME TypeOK
    PROVE  Revision \in Draft /\ Revision.rev = mem.n /\ Revision.entries = mem.entries
BY PartsTyped DEF Revision, Draft

\* The checkpoint learns the envelope that the round commits.
LEMMA BindOutFacts ==
    ASSUME TypeOK, BindOut
    PROVE  /\ ckpt' \in Ckpt /\ ckpt'.out = Revision /\ ckpt'.outcome = ckpt.outcome
           /\ ckpt'.entry = ckpt.entry /\ ckpt'.reval = ckpt.reval /\ ckpt'.verdicts = ckpt.verdicts
BY RevisionFacts DEF BindOut, TypeOK, Ckpt

\* The checkpoint learns the inputs of the round's record.
LEMMA CheckpointRecordFacts ==
    ASSUME TypeOK, CheckpointRecord
    PROVE  /\ ckpt' \in Ckpt /\ ckpt'.out = ckpt.out /\ ckpt'.outcome = ckpt.outcome
           /\ ckpt'.entry = ckpt.entry /\ ckpt'.reval = ckpt.reval /\ ckpt'.verdicts = ckpt.verdicts
<1>1. ckpt \in Ckpt /\ ckpt.record \subseteq SUBSET Cids /\ Consumed \subseteq Item
  BY PartsTyped DEF TypeOK, Consumed
<1> DEFINE r == IF ckpt.record = {} THEN {CidsOf(Consumed)} ELSE ckpt.record
<1>2. r \subseteq SUBSET Cids
  BY <1>1, CidsOfFacts
<1>3. ckpt' = [ckpt EXCEPT !.record = r]
  BY <1>1 DEF CheckpointRecord, Ckpt
<1> HIDE DEF r
<1> QED
  BY <1>1, <1>2, <1>3 DEF Ckpt

\* One item is handled, and appended unless it is on the record.
LEMMA FinalizeFacts ==
    ASSUME TypeOK, FinalizeItem
    PROVE  /\ mem' \in Memory /\ mem'.resume = mem.resume /\ mem'.n = mem.n
           /\ mem'.take = mem.take /\ mem'.store = mem.store /\ mem'.gaps = mem.gaps
           /\ mem'.entries = mem.entries /\ mem'.verdicts = mem.verdicts
           /\ \E cid \in Cids :
                /\ mem'.handled = mem.handled \cup {cid}
                /\ events' = IF cid \in Finalized THEN events
                             ELSE Append(events, [cid |-> cid, rev |-> draft.rev])
           /\ events' \in Seq([cid : Cids, rev : 0..MaxRounds])
<1>1. mem \in Memory /\ mem.take \subseteq Item /\ mem.store \subseteq Item /\ draft.rev \in 0..MaxRounds
      /\ mem.handled \subseteq Cids /\ events \in Seq([cid : Cids, rev : 0..MaxRounds])
  BY PartsTyped DEF TypeOK
<1>2. CidsOf(Consumed) \subseteq Cids /\ CidsOf(Dismissed) \subseteq Cids
  BY <1>1, CidsOfFacts DEF Consumed, Dismissed
<1>3. ToFinalize \subseteq Cids /\ ToFinalize # {}
  BY <1>2 DEF ToFinalize, FinalizeItem
<1> DEFINE cid == Min(ToFinalize)
<1>4. cid \in Cids
  BY <1>3, MinFacts, CidFacts
<1>5. /\ mem' = [mem EXCEPT !.handled = mem.handled \cup {cid}]
      /\ events' = IF cid \in Finalized THEN events
                   ELSE Append(events, [cid |-> cid, rev |-> draft.rev])
  BY <1>1 DEF FinalizeItem, Memory
<1> HIDE DEF cid
<1>6. [cid |-> cid, rev |-> draft.rev] \in [cid : Cids, rev : 0..MaxRounds]
  BY <1>1, <1>4
<1>7. events' \in Seq([cid : Cids, rev : 0..MaxRounds])
  <2> DEFINE Event == [cid : Cids, rev : 0..MaxRounds]
             event == [cid |-> cid, rev |-> draft.rev]
  <2>1. events \in Seq(Event) /\ event \in Event
    BY <1>1, <1>6
  <2>2. events' = events \/ events' = Append(events, event)
    BY <1>5
  <2> HIDE DEF Event, event
  <2>3. events' \in Seq(Event)
    BY <2>1, <2>2
  <2> QED
    BY <2>3 DEF Event
<1>8. mem.handled \cup {cid} \subseteq Cids
  BY <1>1, <1>4
<1>9. /\ mem' \in Memory /\ mem'.resume = mem.resume /\ mem'.n = mem.n
      /\ mem'.take = mem.take /\ mem'.store = mem.store /\ mem'.gaps = mem.gaps
      /\ mem'.entries = mem.entries /\ mem'.verdicts = mem.verdicts
      /\ mem'.handled = mem.handled \cup {cid}
  BY <1>1, <1>5, <1>8 DEF Memory
<1> QED
  BY <1>4, <1>5, <1>7, <1>9

\* The commit keeps the types; the record of a round is numbered from 1.
LEMMA CommitTyped == TypeOK /\ Numbering /\ Commit => TypeOK'
<1> SUFFICES ASSUME TypeOK, Numbering, Commit PROVE TypeOK'
  OBVIOUS
<1>1. mem.n \in 0..MaxRounds /\ (pc # "idle" => mem.n \in 1..MaxRounds /\ mem.n - 1 \in 0..MaxRounds)
  BY PartsTyped DEF Numbering
<1>2. CASE ArchiveDraft
  <2>1. archived' \in [0..MaxRounds -> [draft : Draft, annotated : Annotated]]
    BY <1>1, <1>2, ArchiveDraftFacts DEF ArchiveDraft
  <2> QED
    BY <1>2, <2>1 DEF ArchiveDraft, TypeOK, PCs
<1>3. CASE ArchiveAnnotated
  <2>1. archived' \in [0..MaxRounds -> [draft : Draft, annotated : Annotated]]
    BY <1>1, <1>3, ArchiveAnnotatedFacts DEF ArchiveAnnotated
  <2> QED
    BY <1>3, <2>1 DEF ArchiveAnnotated, TypeOK, PCs
<1>4. CASE BindOut
  <2>1. ckpt' \in Ckpt
    BY <1>4, BindOutFacts
  <2> QED
    BY <1>4, <2>1 DEF BindOut, TypeOK, PCs
<1>5. CASE WriteDraft
  BY <1>5, RevisionFacts DEF WriteDraft, TypeOK, PCs
<1>6. CASE RebuildAnnotated
  <2> DEFINE vs == [s \in Sections |-> IF ~mem.entries[s].drafted THEN NoEntries[s]
                                       ELSE IF ckpt.verdicts[s] # NoEntries[s] THEN ckpt.verdicts[s]
                                       ELSE mem.verdicts[s]]
  <2>1. vs \in Entries
    BY PartsTyped, NoneTyped DEF Entries
  <2>2. annotated' = [draft |-> draft, verdicts |-> vs]
    BY <1>6 DEF RebuildAnnotated
  <2> HIDE DEF vs
  <2>3. annotated' \in Annotated
    BY <2>1, <2>2 DEF Annotated, TypeOK
  <2> QED
    BY <1>6, <2>3 DEF RebuildAnnotated, TypeOK, PCs
<1>7. CASE FinalizeItem
  <2>1. mem' \in Memory /\ events' \in Seq([cid : Cids, rev : 0..MaxRounds])
    BY <1>7, FinalizeFacts
  <2> QED
    BY <1>7, <2>1 DEF FinalizeItem, TypeOK
<1>8. CASE CheckpointRecord
  <2>1. ckpt' \in Ckpt
    BY <1>8, CheckpointRecordFacts
  <2> QED
    BY <1>8, <2>1 DEF CheckpointRecord, TypeOK, PCs
<1>9. CASE DropPending
  BY <1>9 DEF DropPending, TypeOK, PCs
<1>10. CASE WriteRecord
  <2>1. UNION ckpt.record \subseteq Cids
    BY PartsTyped
  <2>2. [n |-> mem.n, consumed |-> UNION ckpt.record] \in [n : 1..MaxRounds, consumed : SUBSET Cids]
    BY <1>1, <1>10, <2>1 DEF WriteRecord
  <2>3. rounds' \subseteq [n : 1..MaxRounds, consumed : SUBSET Cids]
    BY <1>10, <2>2 DEF WriteRecord, TypeOK
  <2> QED
    BY <1>10, <2>3 DEF WriteRecord, TypeOK, PCs
<1>11. CASE WriteLivePlan
  BY <1>11 DEF WriteLivePlan, TypeOK, PCs
<1>12. CASE ClearCheckpoint
  BY <1>12, NoneTyped DEF ClearCheckpoint, TypeOK, PCs
<1> QED
  BY <1>2, <1>3, <1>4, <1>5, <1>6, <1>7, <1>8, <1>9, <1>10, <1>11, <1>12 DEF Commit

\* Every step keeps the types.
LEMMA NextTyped == TypeOK /\ Numbering /\ [Next]_vars => TypeOK'
<1> SUFFICES ASSUME TypeOK, Numbering, [Next]_vars PROVE TypeOK'
  OBVIOUS
<1>1. CASE Routes
  BY <1>1, RoutesTyped
<1>2. CASE BeginRound
  BY <1>2, BeginTyped
<1>3. CASE Revise
  BY <1>3, ReviseTyped
<1>4. CASE Commit
  BY <1>4, CommitTyped
<1>5. CASE Crash
  <2>1. breaks' \in 0..MaxBreaks
    BY <1>5 DEF Crash, Lose, TypeOK
  <2> QED
    BY <1>5, <2>1, NoneTyped DEF Crash, Lose, TypeOK, PCs
<1>6. CASE UNCHANGED vars
  BY <1>6 DEF vars, TypeOK
<1> QED
  BY <1>1, <1>2, <1>3, <1>4, <1>5, <1>6 DEF Next

\* A fresh draft, validated.
LEMMA InitTyped == Init => TypeOK
<1> SUFFICES ASSUME Init PROVE TypeOK
  OBVIOUS
<1> DEFINE es == [s \in Sections |-> [prose |-> {}, drafted |-> s \notin Awaiting]]
<1>1. es \in Entries
  BY DEF Entries, Entry
<1>2. draft = [rev |-> 0, entries |-> es] /\ annotated = [draft |-> draft, verdicts |-> draft.entries]
  BY DEF Init
<1> HIDE DEF es
<1>3. draft \in Draft
  BY <1>1, <1>2 DEF Draft
<1>4. annotated \in Annotated
  BY <1>1, <1>2, <1>3 DEF Annotated
<1>5. archived \in [0..MaxRounds -> [draft : Draft, annotated : Annotated]]
  BY NoneTyped DEF Init
<1>6. nextCid \in 1..(MaxItems + 1) /\ breaks \in 0..MaxBreaks /\ events \in Seq([cid : Cids, rev : 0..MaxRounds])
  BY DEF Init
<1> QED
  BY <1>3, <1>4, <1>5, <1>6, NoneTyped DEF Init, TypeOK, PCs

-----------------------------------------------------------------------------
(* The frames of the steps                                                 *)

\* A route touches the pending store and the live plan only; a crash also
\* loses the memory of the round.
LEMMA RouteFrame ==
    Routes => /\ pc = "idle"
              /\ UNCHANGED <<draft, annotated, ckpt, archived, events, rounds, pc, mem, unaudited>>
BY DEF Routes, AddItem, DeleteItem, Curate, AnswerGap

\* The section a round takes next is one the checkpoint knows nothing of.
LEMMA NextSection ==
    ASSUME NEW s \in Sections, IsNext(s)
    PROVE  pc = "revise" /\ ckpt.outcome[s] = "none" /\ s \notin Revised
BY DEF IsNext, Todo, Revised

\* A kept section leaves the revised ones as they are.
LEMMA KeepRevised ==
    ASSUME TypeOK, NEW s \in Sections, KeepSection(s)
    PROVE  Revised' = Revised /\ Resuming' = Resuming
<1>1. ckpt'.outcome = [ckpt.outcome EXCEPT ![s] = "kept"] /\ ckpt'.out = ckpt.out /\ draft' = draft
  BY KeepFacts DEF KeepSection
<1>2. ckpt.outcome[s] = "none"
  BY NextSection DEF KeepSection
<1>3. ckpt.outcome \in [Sections -> {"none", "kept", "pended", "revised"}]
  BY PartsTyped
<1> QED
  BY <1>1, <1>2, <1>3 DEF Revised, Resuming

\* A section that is revised joins them.
LEMMA ReviseRevised ==
    ASSUME TypeOK, NEW s \in Sections, NEW applied \in SUBSET mem.take,
           NEW answer \in {"changed", "same", "pended"}, ReviseSection(s, applied, answer)
    PROVE  /\ Revised' = IF Outcome(applied, answer) = "revised" THEN Revised \cup {s} ELSE Revised
           /\ Resuming' = Resuming
<1>1. \A t \in Sections : ckpt'.outcome[t] = IF t = s THEN Outcome(applied, answer)
                                              ELSE ckpt.outcome[t]
  <2>1. Writes(s, applied, answer)
    BY ReviseWrites
  <2> QED
    BY <2>1 DEF Writes
<1>2. s \notin Revised
  BY NextSection DEF ReviseSection
<1>3. Resuming' = Resuming
  <2>1. ckpt'.out = ckpt.out
    BY ReviseFacts
  <2>2. draft' = draft
    BY DEF ReviseSection
  <2> QED
    BY <2>1, <2>2 DEF Resuming
<1>4. Revised' = IF Outcome(applied, answer) = "revised" THEN Revised \cup {s} ELSE Revised
  BY <1>1, <1>2 DEF Revised
<1> QED
  BY <1>3, <1>4

\* No checkpoint: nothing is revised and nothing has landed.
LEMMA NoneRevised ==
    ASSUME ckpt' = NoCkpt
    PROVE  Revised' = {} /\ ckpt'.out = NoDraft /\ ~Resuming'
BY DEF Revised, NoCkpt, Resuming

-----------------------------------------------------------------------------
(* Numbering                                                               *)

\* It depends on the envelope, the annotated draft, the checkpoint and the
\* memory of the round.
LEMMA NumberingFrame ==
    ASSUME Numbering, UNCHANGED <<draft, annotated, pc, ckpt>>, mem'.n = mem.n,
           mem'.resume = mem.resume, mem'.entries = mem.entries
    PROVE  Numbering'
BY DEF Numbering, Revised, Resuming, Revision

\* What lands is what the checkpoint binds, one revision above what it
\* replaces.
LEMMA NextNumbering == TypeOK /\ Numbering /\ [Next]_vars => Numbering'
<1> SUFFICES ASSUME TypeOK, Numbering, [Next]_vars PROVE Numbering'
  OBVIOUS
<1>1. /\ draft.rev \in Nat /\ annotated.draft.rev \in Nat /\ NoDraft.rev = 0
      /\ Revision.rev = mem.n /\ mem.n \in Nat
  BY PartsTyped, RevisionFacts DEF NoDraft, Draft
<1>2. CASE Routes
  BY <1>2, RouteFrame, NumberingFrame
<1>3. CASE BeginRound
  <2>1. /\ pc' = "revise" /\ mem'.resume = Resuming
        /\ mem'.n = IF Resuming THEN draft.rev ELSE draft.rev + 1
        /\ UNCHANGED <<draft, annotated, ckpt>>
    BY <1>3, BeginTyped
  <2>2. Resuming' = Resuming /\ Revised' = Revised
    BY <2>1 DEF Resuming, Revised
  <2>3. Resuming => draft.rev >= 1
    BY DEF Numbering, Resuming
  <2> QED
    BY <1>1, <2>1, <2>2, <2>3 DEF Numbering, Early, Late
<1>4. ASSUME NEW s \in Sections, KeepSection(s) PROVE Numbering'
  <2>1. /\ ckpt'.reval = ckpt.reval /\ ckpt'.out = ckpt.out
        /\ pc = "revise" /\ UNCHANGED <<pc, draft, annotated, mem>>
    BY <1>4, KeepFacts, NextSection DEF KeepSection
  <2>2. Revised' = Revised /\ Resuming' = Resuming
    BY <1>4, KeepRevised
  <2> QED
    BY <2>1, <2>2 DEF Numbering, Early, Late
<1>5. ASSUME NEW s \in Sections, NEW applied \in SUBSET mem.take,
             NEW answer \in {"changed", "same", "pended"}, ReviseSection(s, applied, answer)
      PROVE  Numbering'
  <2>1. /\ ckpt'.reval = ckpt.reval /\ ckpt'.out = ckpt.out
        /\ mem'.n = mem.n /\ mem'.resume = mem.resume
    BY <1>5, ReviseFacts
  <2>2. pc = "revise" /\ UNCHANGED <<pc, draft, annotated>>
    BY <1>5, NextSection DEF ReviseSection
  <2>3. Revised \subseteq Revised' /\ Resuming' = Resuming
    BY <1>5, ReviseRevised
  <2> QED
    BY <2>1, <2>2, <2>3 DEF Numbering, Early, Late
<1>6. CASE NothingChanged
  <2>1. pc' = "idle" /\ UNCHANGED <<draft, annotated>> /\ annotated.draft = draft
    BY <1>6 DEF NothingChanged, Numbering, Resuming
  <2>2. Revised' = {} /\ ckpt'.out = NoDraft /\ ~Resuming'
    BY <1>6, NoneRevised DEF NothingChanged
  <2> QED
    BY <2>1, <2>2 DEF Numbering, Early, Late
<1>7. CASE Revalidate
  <2>1. /\ ckpt'.reval /\ ckpt'.outcome = ckpt.outcome /\ ckpt'.out = ckpt.out
        /\ pc = "revise" /\ pc' = (IF mem.resume THEN "annotate" ELSE "archive_draft")
        /\ UNCHANGED <<draft, annotated, mem>> /\ Revised # {}
    BY <1>7, RevalidateFacts DEF Revalidate
  <2>2. Revised' = Revised /\ Resuming' = Resuming
    BY <2>1 DEF Revised, Resuming
  <2> QED
    BY <2>1, <2>2 DEF Numbering, Early, Late
<1>8. CASE ArchiveDraft \/ ArchiveAnnotated
  <2>1. /\ UNCHANGED <<draft, annotated, mem, ckpt>> /\ pc \in Early \ {"revise"}
        /\ pc' \in {"archive_annotated", "bind_out"}
    BY <1>8 DEF ArchiveDraft, ArchiveAnnotated, Early
  <2> QED
    BY <2>1 DEF Numbering, Early, Late, Revised, Resuming
<1>9. CASE BindOut
  <2>1. /\ ckpt'.out = Revision /\ ckpt'.outcome = ckpt.outcome /\ ckpt'.reval = ckpt.reval
        /\ pc = "bind_out" /\ pc' = "write_draft" /\ UNCHANGED <<draft, annotated, mem>>
    BY <1>9, BindOutFacts DEF BindOut
  <2>2. mem.n = draft.rev + 1 /\ ~Resuming /\ ckpt.reval /\ Revised # {} /\ ~mem.resume
    BY <2>1 DEF Numbering, Early
  <2>3. Revised' = Revised /\ Revision' = Revision /\ ~Resuming'
    BY <1>1, <2>1, <2>2 DEF Revised, Revision, Resuming
  <2>4. annotated.draft = draft
    BY <2>2 DEF Numbering
  <2>5. mem'.resume = Resuming'
    <3>1. mem.resume \in BOOLEAN /\ Resuming' \in BOOLEAN
      BY PartsTyped DEF Resuming
    <3> QED
      BY <2>1, <2>2, <2>3, <3>1
  <2> QED
    BY <1>1, <2>1, <2>2, <2>3, <2>4, <2>5 DEF Numbering, Early, Late
<1>10. CASE WriteDraft
  <2>1. /\ draft' = Revision /\ pc = "write_draft" /\ pc' = "annotate"
        /\ UNCHANGED <<ckpt, annotated, mem>>
    BY <1>10 DEF WriteDraft
  <2>2. mem.n = draft.rev + 1 /\ ckpt.out = Revision /\ ckpt.reval /\ Revised # {} /\ mem.n >= 1
    BY <2>1 DEF Numbering, Early
  <2>3. Revised' = Revised /\ Resuming'
    BY <1>1, <2>1, <2>2 DEF Revised, Resuming
  <2> QED
    BY <1>1, <2>1, <2>2, <2>3 DEF Numbering, Early, Late
<1>11. CASE RebuildAnnotated
  <2>1. /\ annotated'.draft = draft /\ pc = "annotate" /\ pc' = "finalize"
        /\ UNCHANGED <<ckpt, draft, mem>>
    BY <1>11 DEF RebuildAnnotated
  <2>2. Revised' = Revised /\ Resuming' = Resuming
    BY <2>1 DEF Revised, Resuming
  <2> QED
    BY <1>1, <2>1, <2>2 DEF Numbering, Early, Late
<1>12. CASE FinalizeItem
  <2>1. mem'.n = mem.n /\ mem'.resume = mem.resume /\ mem'.entries = mem.entries
    BY <1>12, FinalizeFacts
  <2> QED
    BY <1>12, <2>1, NumberingFrame DEF FinalizeItem
<1>13. CASE CheckpointRecord
  <2>1. /\ ckpt'.out = ckpt.out /\ ckpt'.outcome = ckpt.outcome /\ ckpt'.reval = ckpt.reval
        /\ pc = "finalize" /\ pc' = "drop" /\ UNCHANGED <<draft, annotated, mem>>
    BY <1>13, CheckpointRecordFacts DEF CheckpointRecord
  <2>2. Revised' = Revised /\ Resuming' = Resuming
    BY <2>1 DEF Revised, Resuming
  <2> QED
    BY <2>1, <2>2 DEF Numbering, Early, Late
<1>14. CASE DropPending \/ WriteRecord \/ WriteLivePlan
  <2>1. /\ UNCHANGED <<draft, annotated, mem, ckpt>> /\ pc \in Late \ {"annotate"}
        /\ pc' \in Late \ {"annotate"}
    BY <1>14 DEF DropPending, WriteRecord, WriteLivePlan, Late
  <2> QED
    BY <2>1 DEF Numbering, Early, Late, Revised, Resuming
<1>15. CASE ClearCheckpoint
  <2>1. pc' = "idle" /\ UNCHANGED <<draft, annotated>> /\ annotated.draft = draft
    BY <1>15 DEF ClearCheckpoint, Numbering, Late
  <2>2. Revised' = {} /\ ckpt'.out = NoDraft /\ ~Resuming'
    BY <1>15, NoneRevised DEF ClearCheckpoint
  <2> QED
    BY <2>1, <2>2 DEF Numbering, Early, Late
<1>16. CASE Crash
  <2>1. pc' = "idle" /\ UNCHANGED <<draft, annotated, ckpt>>
    BY <1>16 DEF Crash, Lose
  <2> QED
    BY <2>1 DEF Numbering, Early, Late, Revised, Resuming
<1>17. CASE UNCHANGED vars
  BY <1>17, NumberingFrame DEF vars
<1> QED
  BY <1>2, <1>3, <1>4, <1>5, <1>6, <1>7, <1>8, <1>9, <1>10, <1>11, <1>12, <1>13, <1>14, <1>15,
     <1>16, <1>17 DEF Next, Revise, Commit

-----------------------------------------------------------------------------
(* The audit                                                               *)

\* It depends on the envelope, the annotated draft and the checkpoint.
LEMMA AuditFrame ==
    ASSUME Audit, UNCHANGED <<draft, annotated, ckpt, unaudited>>
    PROVE  Audit'
BY DEF Audit, Audited, Revised, Resuming

\* A section's verdicts are fresh when the round moved its prose, carried when
\* it did not, and its annotated ones are of the prose the envelope holds.
LEMMA NextAudit == TypeOK /\ Numbering /\ InMemory /\ Audit /\ [Next]_vars => Audit'
<1> SUFFICES ASSUME TypeOK, Numbering, InMemory, Audit, [Next]_vars PROVE Audit'
  OBVIOUS
<1>1. CASE Routes
  BY <1>1, RouteFrame, AuditFrame
<1>2. CASE BeginRound
  <2>1. UNCHANGED <<draft, annotated, ckpt, unaudited>>
    BY <1>2, BeginTyped
  <2> QED
    BY <2>1, AuditFrame
<1>3. ASSUME NEW s \in Sections, KeepSection(s) PROVE Audit'
  <2>1. ckpt'.entry = ckpt.entry /\ ckpt'.reval = ckpt.reval /\ ckpt'.verdicts = ckpt.verdicts
    BY <1>3, KeepFacts
  <2>2. Revised' = Revised /\ Resuming' = Resuming
    BY <1>3, KeepRevised
  <2>3. UNCHANGED <<draft, annotated, unaudited>>
    BY <1>3 DEF KeepSection
  <2> QED
    BY <2>1, <2>2, <2>3 DEF Audit, Audited
<1>4. ASSUME NEW s \in Sections, NEW applied \in SUBSET mem.take,
             NEW answer \in {"changed", "same", "pended"}, ReviseSection(s, applied, answer)
      PROVE  Audit'
  <2>0. Writes(s, applied, answer)
    BY <1>4, ReviseWrites
  <2>1. ckpt'.reval = ckpt.reval /\ ckpt'.verdicts = ckpt.verdicts
    BY <1>4, ReviseFacts
  <2>2. \A t \in Sections \ {s} : ckpt'.entry[t] = ckpt.entry[t]
    BY <2>0 DEF Writes
  <2>3. /\ Revised' = (IF Outcome(applied, answer) = "revised" THEN Revised \cup {s} ELSE Revised)
        /\ Resuming' = Resuming /\ s \notin Revised
    BY <1>4, ReviseRevised, NextSection DEF ReviseSection
  <2>4. /\ UNCHANGED <<draft, annotated>>
        /\ unaudited' = IF LeftUnaudited(applied, answer) THEN unaudited \cup {s} ELSE unaudited
    BY <1>4 DEF ReviseSection
  <2>5. Outcome(applied, answer) = "revised" /\ ckpt.reval => s \in unaudited'
    BY <2>4 DEF Outcome, LeftUnaudited
  <2>6. Resuming => ckpt.reval
    BY DEF Numbering, Resuming
  <2>7. Revised \subseteq Revised' /\ Revised' \subseteq Revised \cup {s} /\ unaudited \subseteq unaudited'
    BY <2>3, <2>4
  <2>8. ckpt.reval => Revised' \ unaudited' \subseteq Revised \ unaudited
    BY <2>3, <2>4, <2>5
  <2>9. \A t \in Revised \ unaudited : ckpt'.entry[t] = ckpt.entry[t]
    BY <2>2, <2>3 DEF Revised
  <2> QED
    BY <2>1, <2>3, <2>4, <2>6, <2>7, <2>8, <2>9 DEF Audit, Audited
<1>5. CASE NothingChanged
  <2>1. Revised = {} /\ ckpt' = NoCkpt /\ UNCHANGED <<draft, annotated, unaudited>>
    BY <1>5 DEF NothingChanged
  <2>2. Revised' = {} /\ ~Resuming'
    BY <2>1, NoneRevised
  <2>3. ckpt'.verdicts = NoEntries /\ ckpt'.reval = FALSE
    BY <2>1 DEF NoCkpt
  <2> QED
    BY <2>1, <2>2, <2>3 DEF Audit, Audited
<1>6. CASE Revalidate
  <2>1. /\ ckpt'.reval = TRUE /\ ckpt'.outcome = ckpt.outcome /\ ckpt'.entry = ckpt.entry
        /\ ckpt'.out = ckpt.out
    BY <1>6, RevalidateFacts
  <2>2. pc = "revise" /\ UNCHANGED <<draft, annotated, unaudited>>
    BY <1>6 DEF Revalidate
  <2>3. Revised' = Revised /\ Resuming' = Resuming
    BY <2>1, <2>2 DEF Revised, Resuming
  <2>4. \A s \in Revised : mem.entries[s] = ckpt.entry[s]
    BY <2>2 DEF InMemory, Early
  <2>5. CASE ckpt.reval
    <3>1. ckpt'.verdicts = ckpt.verdicts
      BY <1>6, <2>5, RevalidateFacts
    <3> QED
      BY <2>1, <2>2, <2>3, <2>5, <3>1 DEF Audit, Audited
  <2>6. CASE ~ckpt.reval
    <3>1. \A s \in Sections : ckpt'.verdicts[s] = IF s \in Revised THEN mem.entries[s]
                                                 ELSE ckpt.verdicts[s]
      BY <1>6, <2>6, RevalidateFacts
    <3>2. \A s \in Sections : s \notin Revised => ckpt.verdicts[s] = NoEntries[s]
      BY <2>6 DEF Audit
    <3> QED
      BY <2>1, <2>2, <2>3, <2>4, <3>1, <3>2 DEF Audit, Audited, Revised
  <2> QED
    BY <2>5, <2>6
<1>7. CASE ArchiveDraft \/ ArchiveAnnotated
  BY <1>7, AuditFrame DEF ArchiveDraft, ArchiveAnnotated
<1>8. CASE BindOut
  <2>1. /\ ckpt'.out = Revision /\ ckpt'.outcome = ckpt.outcome /\ ckpt'.reval = ckpt.reval
        /\ ckpt'.entry = ckpt.entry /\ ckpt'.verdicts = ckpt.verdicts
    BY <1>8, BindOutFacts
  <2>2. pc = "bind_out" /\ UNCHANGED <<draft, annotated, unaudited>>
    BY <1>8 DEF BindOut
  <2>3. Revised' = Revised /\ ~Resuming'
    <3>1. mem.n = draft.rev + 1 /\ draft.rev \in Nat
      BY <2>2, PartsTyped DEF Numbering, Early
    <3>2. Revision.rev # draft.rev
      BY <3>1, RevisionFacts
    <3> QED
      BY <2>1, <2>2, <3>2 DEF Revised, Resuming
  <2> QED
    BY <2>1, <2>2, <2>3 DEF Audit, Audited
<1>9. CASE WriteDraft
  <2>1. draft' = Revision /\ pc = "write_draft" /\ UNCHANGED <<ckpt, annotated, unaudited>>
    BY <1>9 DEF WriteDraft
  <2>2. draft'.entries = mem.entries /\ draft'.rev = draft.rev + 1 /\ annotated.draft.rev <= draft.rev
    BY <2>1, RevisionFacts DEF Numbering, Early
  <2>3. annotated'.draft # draft'
    <3>1. draft.rev \in Nat /\ annotated.draft.rev \in Nat
      BY PartsTyped DEF Draft
    <3> QED
      BY <2>1, <2>2, <3>1
  <2>4. /\ \A s \in Revised : mem.entries[s] = ckpt.entry[s]
        /\ \A s \in Audited \ Revised : mem.entries[s] = draft.entries[s]
    BY <2>1 DEF InMemory, Early
  <2>5. Revised' = Revised
    BY <2>1 DEF Revised
  <2>6. \A s \in Audited \ Revised : mem.entries[s].drafted => annotated.verdicts[s] = mem.entries[s]
    BY <2>4 DEF Audit, Audited
  <2> QED
    BY <2>1, <2>2, <2>3, <2>4, <2>5, <2>6 DEF Audit, Audited
<1>10. CASE RebuildAnnotated
  <2>1. pc = "annotate" /\ UNCHANGED <<draft, ckpt, unaudited>>
    BY <1>10 DEF RebuildAnnotated
  <2>2. /\ mem.verdicts = annotated.verdicts /\ Resuming /\ ckpt.reval
        /\ \A s \in Revised : mem.entries[s] = ckpt.entry[s]
        /\ \A s \in Audited \ Revised : mem.entries[s] = draft.entries[s]
    BY <2>1 DEF InMemory, Early, Numbering, Late, Resuming
  <2>3. \A s \in Sections : annotated'.verdicts[s] =
            IF ~mem.entries[s].drafted THEN NoEntries[s]
            ELSE IF ckpt.verdicts[s] # NoEntries[s] THEN ckpt.verdicts[s] ELSE mem.verdicts[s]
    BY <1>10 DEF RebuildAnnotated
  <2>4. ASSUME NEW s \in Audited, draft.entries[s].drafted
        PROVE  annotated'.verdicts[s] = draft.entries[s]
    <3>1. CASE s \in Revised
      <4>1. ckpt.verdicts[s] = ckpt.entry[s] /\ ckpt.entry[s] = draft.entries[s]
        BY <2>2, <3>1 DEF Audit, Audited
      <4>2. ckpt.verdicts[s] # NoEntries[s]
        BY <2>4, <4>1 DEF NoEntries, Audited
      <4> QED
        BY <2>2, <2>3, <2>4, <3>1, <4>1, <4>2 DEF Audited
    <3>2. CASE s \notin Revised
      <4>1. mem.entries[s] = draft.entries[s] /\ annotated.verdicts[s] = draft.entries[s]
        BY <2>2, <2>4, <3>2 DEF Audit, Audited
      <4>2. ckpt.verdicts[s] = NoEntries[s]
        BY <3>2 DEF Audit, Audited
      <4> QED
        BY <2>2, <2>3, <2>4, <4>1, <4>2 DEF Audited
    <3> QED
      BY <3>1, <3>2
  <2>5. Revised' = Revised /\ Resuming' = Resuming /\ Audited' = Audited
    BY <2>1 DEF Revised, Resuming, Audited
  <2> QED
    BY <2>1, <2>4, <2>5 DEF Audit
<1>11. CASE CheckpointRecord
  <2>1. /\ ckpt'.out = ckpt.out /\ ckpt'.outcome = ckpt.outcome /\ ckpt'.reval = ckpt.reval
        /\ ckpt'.entry = ckpt.entry /\ ckpt'.verdicts = ckpt.verdicts
    BY <1>11, CheckpointRecordFacts
  <2>2. UNCHANGED <<draft, annotated, unaudited>>
    BY <1>11 DEF CheckpointRecord
  <2>3. Revised' = Revised /\ Resuming' = Resuming
    BY <2>1, <2>2 DEF Revised, Resuming
  <2> QED
    BY <2>1, <2>2, <2>3 DEF Audit, Audited
<1>12. CASE FinalizeItem \/ DropPending \/ WriteRecord \/ WriteLivePlan
  BY <1>12, AuditFrame DEF FinalizeItem, DropPending, WriteRecord, WriteLivePlan
<1>13. CASE ClearCheckpoint
  <2>1. /\ ckpt' = NoCkpt /\ annotated.draft = draft /\ UNCHANGED <<draft, annotated, unaudited>>
    BY <1>13 DEF ClearCheckpoint, Numbering, Late
  <2>2. Revised' = {} /\ ~Resuming'
    BY <2>1, NoneRevised
  <2>3. ckpt'.verdicts = NoEntries /\ ckpt'.reval = FALSE
    BY <2>1 DEF NoCkpt
  <2> QED
    BY <2>1, <2>2, <2>3 DEF Audit, Audited
<1>14. CASE Crash \/ UNCHANGED vars
  BY <1>14, AuditFrame DEF Crash, Lose, vars
<1> QED
  BY <1>1, <1>2, <1>3, <1>4, <1>5, <1>6, <1>7, <1>8, <1>9, <1>10, <1>11, <1>12, <1>13, <1>14
     DEF Next, Revise, Commit

-----------------------------------------------------------------------------
(* The memory of the round                                                 *)

\* Without an edit that anchors and an answer that changes the prose, a
\* section is left as it was.
LEMMA LeftAlone ==
    ASSUME TypeOK, NEW s \in Sections, NEW answer, answer # "changed"
    PROVE  Left(s, {}, answer) = mem.entries[s]
<1>1. mem.entries[s] \in Entry
  BY PartsTyped DEF Entries
<1>2. Agent(s, answer) = {} /\ CidsOf({}) = {}
  BY DEF Agent, CidsOf
<1>3. (mem.entries[s].drafted \/ (s \in mem.gaps /\ Agent(s, answer) # {})) = mem.entries[s].drafted
  BY <1>1, <1>2 DEF Entry
<1>4. mem.entries[s].prose \cup CidsOf({}) \cup Agent(s, answer) = mem.entries[s].prose
  BY <1>2
<1>5. Left(s, {}, answer) = [prose |-> mem.entries[s].prose, drafted |-> mem.entries[s].drafted]
  BY <1>3, <1>4 DEF Left
<1> QED
  BY <1>1, <1>5 DEF Entry

\* The round carries the verdicts it read, holds what the checkpoint revised,
\* and else what the disk holds.
LEMMA NextInMemory == TypeOK /\ InMemory /\ [Next]_vars => InMemory'
<1> SUFFICES ASSUME TypeOK, InMemory, [Next]_vars PROVE InMemory'
  OBVIOUS
<1>1. CASE Routes
  <2>1. pc' = "idle"
    BY <1>1, RouteFrame
  <2> QED
    BY <2>1 DEF InMemory, Early
<1>2. CASE BeginRound
  <2>1. /\ mem'.verdicts = annotated.verdicts /\ mem'.gaps = AnsweredGaps
        /\ UNCHANGED <<draft, annotated, ckpt, unaudited>>
        /\ \A s \in Sections : mem'.entries[s] = IF s \in Revised THEN ckpt.entry[s]
                                                 ELSE draft.entries[s]
    BY <1>2, BeginTyped
  <2>2. Revised' = Revised /\ Audited' = Audited /\ Revised \subseteq Sections
    BY <2>1 DEF Revised, Audited
  <2>3. \A s \in Sections : ckpt.outcome[s] = "none" => s \notin Revised
    BY DEF Revised
  <2>4. \A s \in AnsweredGaps : ~draft.entries[s].drafted
    BY DEF AnsweredGaps
  <2> QED
    BY <2>1, <2>2, <2>3, <2>4 DEF InMemory, Audited
<1>3. ASSUME NEW s \in Sections, KeepSection(s) PROVE InMemory'
  <2>1. ckpt'.entry = ckpt.entry
    BY <1>3, KeepFacts
  <2>2. \A t \in Sections : ckpt'.outcome[t] = "none" => ckpt.outcome[t] = "none"
    BY <1>3, KeepFacts, PartsTyped
  <2>3. Revised' = Revised
    BY <1>3, KeepRevised
  <2>4. pc = "revise" /\ UNCHANGED <<draft, annotated, mem, pc, unaudited>>
    BY <1>3, NextSection DEF KeepSection
  <2> QED
    BY <2>1, <2>2, <2>3, <2>4 DEF InMemory, Audited, Early
<1>4. ASSUME NEW s \in Sections, NEW applied \in SUBSET mem.take,
             NEW answer \in {"changed", "same", "pended"}, ReviseSection(s, applied, answer)
      PROVE  InMemory'
  <2>0. Writes(s, applied, answer)
    BY <1>4, ReviseWrites
  <2>1. mem'.verdicts = mem.verdicts /\ mem'.gaps = mem.gaps /\ unaudited \subseteq unaudited'
    BY <1>4, ReviseFacts
  <2>2. \A t \in Sections : mem'.entries[t] = IF t = s THEN Left(s, applied, answer)
                                              ELSE mem.entries[t]
    BY <2>0 DEF Writes
  <2>3. \A t \in Sections : ckpt'.outcome[t] = IF t = s THEN Outcome(applied, answer)
                                               ELSE ckpt.outcome[t]
    BY <2>0 DEF Writes
  <2>4. \A t \in Sections : ckpt'.entry[t] = IF t = s /\ Outcome(applied, answer) = "revised"
                                             THEN Left(s, applied, answer) ELSE ckpt.entry[t]
    BY <2>0 DEF Writes
  <2>5. /\ Revised' = (IF Outcome(applied, answer) = "revised" THEN Revised \cup {s} ELSE Revised)
        /\ s \notin Revised /\ ckpt.outcome[s] = "none" /\ pc = "revise"
    BY <1>4, ReviseRevised, NextSection DEF ReviseSection
  <2>6. /\ UNCHANGED <<draft, annotated, pc>>
        /\ unaudited' = IF LeftUnaudited(applied, answer) THEN unaudited \cup {s} ELSE unaudited
    BY <1>4 DEF ReviseSection
  <2>7. Outcome(applied, answer) # "none"
    BY DEF Outcome
  <2>8. Outcome(applied, answer) # "revised" /\ s \notin unaudited' =>
            Left(s, applied, answer) = mem.entries[s]
    <3>1. Outcome(applied, answer) # "revised" /\ s \notin unaudited' =>
            applied = {} /\ answer # "changed"
      BY <2>6 DEF Outcome, LeftUnaudited
    <3> QED
      BY <3>1, LeftAlone
  <2>9. mem.entries[s] = draft.entries[s]
    BY <2>5 DEF InMemory, Early
  <2>10. /\ mem.verdicts = annotated.verdicts
         /\ \A t \in Revised : mem.entries[t] = ckpt.entry[t]
         /\ \A t \in Sections : ckpt.outcome[t] = "none" => mem.entries[t] = draft.entries[t]
         /\ \A t \in Audited \ Revised : mem.entries[t] = draft.entries[t]
         /\ \A t \in mem.gaps : ~draft.entries[t].drafted
    BY <2>5 DEF InMemory, Early
  <2> HIDE DEF Outcome
  <2>11. \A t \in Revised' : mem'.entries[t] = ckpt'.entry[t]
    <3>1. Revised \subseteq Sections
      BY DEF Revised
    <3> QED
      BY <2>2, <2>4, <2>5, <2>10, <3>1
  <2>12. \A t \in Sections : ckpt'.outcome[t] = "none" => mem'.entries[t] = draft.entries[t]
    BY <2>2, <2>3, <2>7, <2>10
  <2>13. \A t \in Audited' \ Revised' : mem'.entries[t] = draft.entries[t]
    <3>1. TAKE t \in Audited' \ Revised'
    <3>2. t \in Sections /\ t \notin unaudited' /\ t \in Audited \ Revised
      BY <2>1, <2>5 DEF Audited
    <3>3. CASE t = s
      BY <2>2, <2>5, <2>8, <2>9, <3>2, <3>3
    <3>4. CASE t # s
      BY <2>2, <2>10, <3>2, <3>4
    <3> QED
      BY <3>3, <3>4
  <2> QED
    BY <2>1, <2>6, <2>10, <2>11, <2>12, <2>13 DEF InMemory
<1>5. CASE Revalidate
  <2>1. ckpt'.outcome = ckpt.outcome /\ ckpt'.entry = ckpt.entry
    BY <1>5, RevalidateFacts
  <2>2. pc = "revise" /\ pc' # "revise" /\ UNCHANGED <<draft, annotated, mem, unaudited>>
    BY <1>5 DEF Revalidate
  <2> QED
    BY <2>1, <2>2 DEF InMemory, Audited, Revised, Early
<1>6. CASE ArchiveDraft \/ ArchiveAnnotated
  <2>1. /\ pc \in Early /\ pc' # "revise" /\ UNCHANGED <<draft, annotated, mem, ckpt, unaudited>>
    BY <1>6 DEF ArchiveDraft, ArchiveAnnotated, Early
  <2> QED
    BY <2>1 DEF InMemory, Audited, Revised
<1>7. CASE BindOut
  <2>1. ckpt'.outcome = ckpt.outcome /\ ckpt'.entry = ckpt.entry
    BY <1>7, BindOutFacts
  <2>2. pc \in Early /\ pc' # "revise" /\ UNCHANGED <<draft, annotated, mem, unaudited>>
    BY <1>7 DEF BindOut, Early
  <2> QED
    BY <2>1, <2>2 DEF InMemory, Audited, Revised
<1>8. CASE WriteDraft
  <2>1. /\ pc \in Early /\ pc' # "revise" /\ draft'.entries = mem.entries
        /\ UNCHANGED <<ckpt, annotated, mem, unaudited>>
    BY <1>8, RevisionFacts DEF WriteDraft, Early
  <2> QED
    BY <2>1 DEF InMemory, Audited, Revised
<1>9. CASE NothingChanged \/ RebuildAnnotated \/ FinalizeItem \/ CheckpointRecord \/ DropPending
           \/ WriteRecord \/ WriteLivePlan \/ ClearCheckpoint \/ Crash
  <2>1. pc' \notin Early \cup {"annotate"}
    BY <1>9 DEF NothingChanged, RebuildAnnotated, FinalizeItem, CheckpointRecord, DropPending,
                WriteRecord, WriteLivePlan, ClearCheckpoint, Crash, Lose, Early
  <2> QED
    BY <2>1 DEF InMemory
<1>10. CASE UNCHANGED vars
  BY <1>10 DEF vars, InMemory, Audited, Revised
<1> QED
  BY <1>1, <1>2, <1>3, <1>4, <1>5, <1>6, <1>7, <1>8, <1>9, <1>10 DEF Next, Revise, Commit

-----------------------------------------------------------------------------
(* The archive                                                             *)

\* The steps that leave the pair and the archive alone keep the archive, as
\* long as no commit begins and none is about to write.
LEMMA ArchiveFrame ==
    ASSUME Archive, UNCHANGED <<draft, annotated, archived>>, Resuming' => Resuming,
           pc' \notin {"archive_annotated", "bind_out", "write_draft"}
    PROVE  Archive'
BY DEF Archive

\* A commit that has only bound its envelope has landed nothing.
LEMMA BoundIsNotLanded ==
    ASSUME TypeOK, Numbering, BindOut
    PROVE  ~Resuming' /\ ~Resuming
<1>1. pc = "bind_out" /\ draft' = draft /\ ckpt'.out = Revision
  BY BindOutFacts DEF BindOut
<1>2. mem.n = draft.rev + 1 /\ draft.rev \in Nat /\ ~Resuming
  BY <1>1, PartsTyped DEF Numbering, Early
<1>3. Revision.rev # draft.rev
  BY <1>2, RevisionFacts
<1> QED
  BY <1>1, <1>2, <1>3 DEF Resuming

\* The pair of a revision is archived before the next one is written over it,
\* and nothing else is archived under its number.
LEMMA NextArchive == TypeOK /\ Numbering /\ Archive /\ [Next]_vars => Archive'
<1> SUFFICES ASSUME TypeOK, Numbering, Archive, [Next]_vars PROVE Archive'
  OBVIOUS
<1>1. draft.rev \in 0..MaxRounds /\ (pc # "idle" => mem.n - 1 \in 0..MaxRounds)
  BY PartsTyped DEF Numbering
<1>2. CASE Routes
  <2>1. pc' = "idle" /\ UNCHANGED <<draft, annotated, archived, ckpt>>
    BY <1>2, RouteFrame
  <2> QED
    BY <2>1, ArchiveFrame DEF Resuming
<1>3. CASE BeginRound
  <2>1. pc' = "revise" /\ UNCHANGED <<draft, annotated, archived, ckpt>>
    BY <1>3, BeginTyped
  <2> QED
    BY <2>1, ArchiveFrame DEF Resuming
<1>4. ASSUME NEW s \in Sections, KeepSection(s) PROVE Archive'
  <2>1. pc' = "revise" /\ UNCHANGED <<draft, annotated, archived>>
    BY <1>4, NextSection DEF KeepSection
  <2>2. Resuming' = Resuming
    BY <1>4, KeepRevised
  <2> QED
    BY <2>1, <2>2, ArchiveFrame
<1>5. ASSUME NEW s \in Sections, NEW applied \in SUBSET mem.take,
             NEW answer \in {"changed", "same", "pended"}, ReviseSection(s, applied, answer)
      PROVE  Archive'
  <2>1. pc' = "revise" /\ UNCHANGED <<draft, annotated, archived>>
    BY <1>5, NextSection DEF ReviseSection
  <2>2. Resuming' = Resuming
    BY <1>5, ReviseRevised
  <2> QED
    BY <2>1, <2>2, ArchiveFrame
<1>6. CASE NothingChanged \/ ClearCheckpoint
  <2>1. pc' = "idle" /\ ckpt' = NoCkpt /\ UNCHANGED <<draft, annotated, archived>>
    BY <1>6 DEF NothingChanged, ClearCheckpoint
  <2> QED
    BY <2>1, NoneRevised, ArchiveFrame
<1>7. CASE Revalidate
  <2>1. pc' \in {"annotate", "archive_draft"} /\ UNCHANGED <<draft, annotated, archived>>
    BY <1>7 DEF Revalidate
  <2>2. ckpt'.out = ckpt.out
    BY <1>7, RevalidateFacts
  <2> QED
    BY <2>1, <2>2, ArchiveFrame DEF Resuming
<1>8. CASE ArchiveDraft
  <2>1. pc = "archive_draft" /\ pc' = "archive_annotated" /\ UNCHANGED <<draft, annotated, ckpt>>
    BY <1>8 DEF ArchiveDraft
  <2>2. mem.n - 1 = draft.rev /\ ~Resuming
    BY <1>1, <2>1 DEF Numbering, Early
  <2>3. /\ \A n \in 0..MaxRounds : archived'[n].annotated = archived[n].annotated
        /\ \A n \in 0..MaxRounds : n # draft.rev => archived'[n].draft = archived[n].draft
        /\ archived'[draft.rev].draft = IF archived[draft.rev].draft # NoDraft
                                        THEN archived[draft.rev].draft ELSE draft
    BY <1>1, <1>8, <2>2, ArchiveDraftFacts
  <2>4. archived'[draft.rev].draft = draft
    BY <2>3 DEF Archive
  <2> QED
    BY <1>1, <2>1, <2>2, <2>3, <2>4 DEF Archive, Resuming
<1>9. CASE ArchiveAnnotated
  <2>1. pc = "archive_annotated" /\ pc' = "bind_out" /\ UNCHANGED <<draft, annotated, ckpt>>
    BY <1>9 DEF ArchiveAnnotated
  <2>2. mem.n - 1 = draft.rev /\ ~Resuming
    BY <1>1, <2>1 DEF Numbering, Early
  <2>3. /\ \A n \in 0..MaxRounds : archived'[n].draft = archived[n].draft
        /\ \A n \in 0..MaxRounds : n # draft.rev => archived'[n].annotated = archived[n].annotated
        /\ archived'[draft.rev].annotated = IF archived[draft.rev].annotated # NoAnnotated
                                            THEN archived[draft.rev].annotated ELSE annotated
    BY <1>1, <1>9, <2>2, ArchiveAnnotatedFacts
  <2>4. archived'[draft.rev].annotated = annotated
    BY <2>3 DEF Archive
  <2> QED
    BY <1>1, <2>1, <2>2, <2>3, <2>4 DEF Archive, Resuming
<1>10. CASE BindOut
  <2>1. pc = "bind_out" /\ pc' = "write_draft" /\ UNCHANGED <<draft, annotated, archived>>
    BY <1>10 DEF BindOut
  <2>2. ~Resuming'
    BY <1>10, BoundIsNotLanded
  <2> QED
    BY <2>1, <2>2 DEF Archive
<1>11. CASE WriteDraft
  <2>1. /\ pc = "write_draft" /\ pc' = "annotate" /\ draft' = Revision
        /\ UNCHANGED <<annotated, archived>>
    BY <1>11 DEF WriteDraft
  <2>2. draft'.rev = draft.rev + 1 /\ draft'.rev \in 0..MaxRounds
    BY <2>1, PartsTyped, RevisionFacts DEF Numbering, Early
  <2>3. /\ archived[draft'.rev].draft = NoDraft /\ archived[draft'.rev].annotated = NoAnnotated
        /\ \A n \in 0..MaxRounds : n > draft'.rev => n > draft.rev
    BY <1>1, <2>2 DEF Archive
  <2> QED
    BY <2>1, <2>3 DEF Archive
<1>12. CASE RebuildAnnotated
  <2>1. pc = "annotate" /\ pc' = "finalize" /\ UNCHANGED <<draft, archived, ckpt>>
    BY <1>12 DEF RebuildAnnotated
  <2>2. archived[draft.rev].annotated = NoAnnotated
    BY <2>1 DEF Archive, Numbering, Late
  <2> QED
    BY <2>1, <2>2 DEF Archive, Resuming
<1>13. CASE CheckpointRecord
  <2>1. pc' = "drop" /\ UNCHANGED <<draft, annotated, archived>>
    BY <1>13 DEF CheckpointRecord
  <2>2. ckpt'.out = ckpt.out
    BY <1>13, CheckpointRecordFacts
  <2> QED
    BY <2>1, <2>2, ArchiveFrame DEF Resuming
<1>14. CASE FinalizeItem \/ DropPending \/ WriteRecord \/ WriteLivePlan \/ Crash
  <2>1. /\ pc' \notin {"archive_annotated", "bind_out", "write_draft"}
        /\ UNCHANGED <<draft, annotated, archived, ckpt>>
    BY <1>14 DEF FinalizeItem, DropPending, WriteRecord, WriteLivePlan, Crash, Lose
  <2> QED
    BY <2>1, ArchiveFrame DEF Resuming
<1>15. CASE UNCHANGED vars
  BY <1>15 DEF vars, Archive, Resuming
<1> QED
  BY <1>2, <1>3, <1>4, <1>5, <1>6, <1>7, <1>8, <1>9, <1>10, <1>11, <1>12, <1>13, <1>14, <1>15
     DEF Next, Revise, Commit

-----------------------------------------------------------------------------
(* The record                                                              *)

\* The record starts empty and grows by one cid.
LEMMA FinalizedGrows ==
    ASSUME TypeOK, NEW cid \in Cids, cid \notin Finalized,
           events' = Append(events, [cid |-> cid, rev |-> draft.rev])
    PROVE  Finalized' = Finalized \cup {cid} /\ Len(events') = Len(events) + 1
<1> DEFINE Event == [cid : Cids, rev : 0..MaxRounds]
           event == [cid |-> cid, rev |-> draft.rev]
<1>1. events \in Seq(Event) /\ event \in Event /\ event.cid = cid
  BY PartsTyped DEF TypeOK
<1>2. events' = Append(events, event)
  OBVIOUS
<1> HIDE DEF Event, event
<1>3. /\ Len(events') = Len(events) + 1 /\ events' \in Seq(Event) /\ Len(events) \in Nat
      /\ DOMAIN events = 1..Len(events) /\ DOMAIN events' = 1..Len(events')
  BY <1>1, <1>2
<1>4. /\ events'[Len(events) + 1] = event
      /\ \A n \in 1..Len(events) : events'[n] = events[n]
  BY <1>1, <1>2
<1>5. Finalized' = {events'[n].cid : n \in 1..Len(events')} /\ Finalized = {events[n].cid : n \in 1..Len(events)}
  BY <1>3 DEF Finalized
<1>6. \A c \in Finalized' : c \in Finalized \cup {cid}
  <2>1. TAKE c \in Finalized'
  <2>2. PICK n \in 1..Len(events') : c = events'[n].cid
    BY <1>5
  <2>3. n \in 1..Len(events) \/ n = Len(events) + 1
    BY <1>3
  <2> QED
    BY <1>1, <1>4, <1>5, <2>2, <2>3
<1>7. cid \in Finalized'
  BY <1>1, <1>3, <1>4, <1>5
<1>8. \A c \in Finalized : c \in Finalized'
  <2>1. TAKE c \in Finalized
  <2>2. PICK n \in 1..Len(events) : c = events[n].cid
    BY <1>5
  <2>3. n \in 1..Len(events')
    BY <1>3
  <2> QED
    BY <1>4, <1>5, <2>2, <2>3
<1> QED
  BY <1>3, <1>6, <1>7, <1>8

\* The record holds finitely many cids.
LEMMA FinalizedFinite == TypeOK => IsFiniteSet(Finalized)
<1>1. IsFiniteSet(Cids)
  BY FS_Interval DEF Cids
<1> QED
  BY <1>1, PartsTyped, FS_Subset

\* What touches neither the items nor the record keeps every item where it is.
LEMMA LandingFrame ==
    ASSUME Landing, UNCHANGED <<pending, nextCid, events, removed>>,
           mem'.handled = mem.handled \/ mem'.handled = {}, pc' # "drop"
    PROVE  Landing'
<1>1. Finalized' = Finalized /\ NothingLost' /\ FinalizedOnce'
  BY DEF Landing, Finalized, NothingLost, FinalizedOnce, CidsOf
<1> QED
  BY <1>1 DEF Landing

\* An item leaves the pending store for the record, or by a person's hand.
LEMMA NextLanding == TypeOK /\ Landing /\ [Next]_vars => Landing'
<1> SUFFICES ASSUME TypeOK, Landing, [Next]_vars PROVE Landing'
  OBVIOUS
<1>1. ASSUME NEW kind \in {"comment", "edit"}, NEW s \in Sections, NEW x \in BOOLEAN, AddItem(kind, s, x)
      PROVE  Landing'
  <2> DEFINE item == [cid |-> nextCid, kind |-> kind, section |-> s, external |-> x,
                      included |-> FALSE, dismissed |-> FALSE]
  <2>1. /\ pending' = pending \cup {item} /\ nextCid' = nextCid + 1 /\ nextCid \in Nat
        /\ item.cid = nextCid /\ pc' = "idle" /\ UNCHANGED <<events, removed, mem>>
    BY <1>1, CidFacts DEF AddItem
  <2> HIDE DEF item
  <2>2. CidsOf(pending') = CidsOf(pending) \cup {nextCid}
    BY <2>1 DEF CidsOf
  <2>3. Finalized' = Finalized /\ FinalizedOnce'
    BY <2>1 DEF Landing, Finalized, FinalizedOnce
  <2>4. NothingLost'
    <3>1. \A c \in 1..(nextCid' - 1) : c \in 1..(nextCid - 1) \/ c = nextCid
      BY <2>1
    <3> QED
      BY <2>1, <2>2, <2>3, <3>1 DEF Landing, NothingLost
  <2> QED
    BY <2>1, <2>3, <2>4 DEF Landing
<1>2. ASSUME NEW i \in pending, DeleteItem(i) PROVE Landing'
  <2>1. /\ pending' = pending \ {i} /\ removed' = removed \cup {i.cid} /\ pc' = "idle"
        /\ UNCHANGED <<nextCid, events, mem>>
    BY <1>2 DEF DeleteItem
  <2>2. Finalized' = Finalized /\ FinalizedOnce'
    BY <2>1 DEF Landing, Finalized, FinalizedOnce
  <2>3. \A c \in CidsOf(pending) : c \in CidsOf(pending') \/ c \in removed'
    BY <2>1 DEF CidsOf
  <2>4. NothingLost'
    BY <2>1, <2>2, <2>3 DEF Landing, NothingLost
  <2> QED
    BY <2>1, <2>2, <2>4 DEF Landing
<1>3. ASSUME NEW i \in pending, NEW mark \in {"included", "dismissed"}, Curate(i, mark) PROVE Landing'
  <2> DEFINE marked == [i EXCEPT ![mark] = TRUE]
  <2>1. /\ pending' = (pending \ {i}) \cup {marked} /\ pc' = "idle" /\ marked.cid = i.cid
        /\ UNCHANGED <<nextCid, events, mem, removed>>
    BY <1>3 DEF Curate, TypeOK, Item
  <2> HIDE DEF marked
  <2>2. Finalized' = Finalized /\ FinalizedOnce'
    BY <2>1 DEF Landing, Finalized, FinalizedOnce
  <2>3. \A c \in CidsOf(pending) : c \in CidsOf(pending')
    BY <2>1 DEF CidsOf
  <2>4. NothingLost'
    BY <2>1, <2>2, <2>3 DEF Landing, NothingLost
  <2> QED
    BY <2>1, <2>2, <2>4 DEF Landing
<1>4. ASSUME NEW s \in Awaiting, AnswerGap(s) PROVE Landing'
  <2>1. pc' = "idle" /\ UNCHANGED <<pending, nextCid, events, removed, mem>>
    BY <1>4 DEF AnswerGap
  <2> QED
    BY <2>1, LandingFrame
<1>5. CASE BeginRound
  <2>1. mem'.handled = {} /\ pc' = "revise" /\ UNCHANGED <<pending, nextCid, events, removed>>
    BY <1>5, BeginTyped
  <2> QED
    BY <2>1, LandingFrame
<1>6. ASSUME NEW s \in Sections, KeepSection(s) PROVE Landing'
  <2>1. pc' = "revise" /\ UNCHANGED <<pending, nextCid, events, removed, mem>>
    BY <1>6, NextSection DEF KeepSection
  <2> QED
    BY <2>1, LandingFrame
<1>7. ASSUME NEW s \in Sections, NEW applied \in SUBSET mem.take,
             NEW answer \in {"changed", "same", "pended"}, ReviseSection(s, applied, answer)
      PROVE  Landing'
  <2>1. pc' = "revise" /\ UNCHANGED <<pending, nextCid, events, removed>>
    BY <1>7, NextSection DEF ReviseSection
  <2>2. mem'.handled = mem.handled
    BY <1>7, ReviseFacts
  <2> QED
    BY <2>1, <2>2, LandingFrame
<1>8. CASE NothingChanged \/ ClearCheckpoint \/ Crash
  <2>1. pc' = "idle" /\ mem' = NoMemory /\ UNCHANGED <<pending, nextCid, events, removed>>
    BY <1>8 DEF NothingChanged, ClearCheckpoint, Crash, Lose
  <2>2. mem'.handled = {}
    BY <2>1 DEF NoMemory
  <2> QED
    BY <2>1, <2>2, LandingFrame
<1>9. CASE \/ Revalidate \/ ArchiveDraft \/ ArchiveAnnotated \/ BindOut \/ WriteDraft
           \/ RebuildAnnotated \/ WriteRecord \/ WriteLivePlan
  <2>1. pc' # "drop" /\ UNCHANGED <<pending, nextCid, events, removed, mem>>
    BY <1>9 DEF Revalidate, ArchiveDraft, ArchiveAnnotated, BindOut, WriteDraft,
                RebuildAnnotated, WriteRecord, WriteLivePlan
  <2> QED
    BY <2>1, LandingFrame
<1>10. CASE FinalizeItem
  <2>1. PICK cid \in Cids : /\ mem'.handled = mem.handled \cup {cid}
                            /\ events' = IF cid \in Finalized THEN events
                                         ELSE Append(events, [cid |-> cid, rev |-> draft.rev])
    BY <1>10, FinalizeFacts
  <2>2. pc' = "finalize" /\ UNCHANGED <<pending, nextCid, removed>>
    BY <1>10 DEF FinalizeItem
  <2>3. Finalized' = Finalized \cup {cid} /\ FinalizedOnce'
    <3>1. CASE cid \in Finalized
      BY <2>1, <3>1 DEF Landing, Finalized, FinalizedOnce
    <3>2. CASE cid \notin Finalized
      <4>1. Finalized' = Finalized \cup {cid} /\ Len(events') = Len(events) + 1
        BY <2>1, <3>2, FinalizedGrows
      <4>2. Cardinality(Finalized \cup {cid}) = Cardinality(Finalized) + 1
        BY <3>2, FinalizedFinite, FS_AddElement
      <4> QED
        BY <4>1, <4>2 DEF Landing, FinalizedOnce
    <3> QED
      BY <3>1, <3>2
  <2>4. NothingLost'
    BY <2>2, <2>3 DEF Landing, NothingLost, CidsOf
  <2> QED
    BY <2>1, <2>2, <2>3, <2>4 DEF Landing
<1>11. CASE CheckpointRecord
  <2>1. ToFinalize = {} /\ UNCHANGED <<pending, nextCid, events, removed, mem>>
    BY <1>11 DEF CheckpointRecord
  <2>2. CidsOf(Consumed) \cup CidsOf(Dismissed) \subseteq mem.handled
    BY <2>1 DEF ToFinalize
  <2>3. ckpt'.outcome = ckpt.outcome
    BY <1>11, CheckpointRecordFacts
  <2>4. CidsOf(Consumed)' = CidsOf(Consumed) /\ CidsOf(Dismissed)' = CidsOf(Dismissed)
    BY <2>1, <2>3 DEF CidsOf, Consumed, Dismissed, Pended
  <2>5. Finalized' = Finalized /\ NothingLost' /\ FinalizedOnce'
    BY <2>1 DEF Landing, Finalized, NothingLost, FinalizedOnce, CidsOf
  <2> QED
    BY <2>1, <2>2, <2>4, <2>5 DEF Landing
<1>12. CASE DropPending
  <2>1. /\ pc = "drop" /\ pc' = "record" /\ UNCHANGED <<nextCid, events, removed, mem>>
        /\ pending' = {i \in pending : i.cid \notin CidsOf(Consumed \cup Dismissed)}
    BY <1>12 DEF DropPending
  <2>2. CidsOf(Consumed \cup Dismissed) \subseteq Finalized
    BY <2>1 DEF Landing, CidsOf
  <2>3. \A c \in CidsOf(pending) : c \in CidsOf(pending') \/ c \in Finalized
    BY <2>1, <2>2 DEF CidsOf
  <2>4. Finalized' = Finalized /\ FinalizedOnce'
    BY <2>1 DEF Landing, Finalized, FinalizedOnce
  <2>5. NothingLost'
    BY <2>1, <2>3, <2>4 DEF Landing, NothingLost
  <2> QED
    BY <2>1, <2>4, <2>5 DEF Landing
<1>13. CASE UNCHANGED vars
  BY <1>13 DEF vars, Landing, NothingLost, FinalizedOnce, Finalized, CidsOf, Consumed, Dismissed, Pended
<1> QED
  BY <1>1, <1>2, <1>3, <1>4, <1>5, <1>6, <1>7, <1>8, <1>9, <1>10, <1>11, <1>12, <1>13
     DEF Next, Routes, Revise, Commit

-----------------------------------------------------------------------------
(* The items                                                               *)

\* A step that leaves the items, the envelope and the checkpointed entries
\* alone keeps the items, as long as it enters no new stage of the round.
LEMMA ItemsFrame ==
    ASSUME Items, UNCHANGED <<pending, nextCid, draft>>,
           ckpt'.outcome = ckpt.outcome, ckpt'.entry = ckpt.entry,
           mem'.take = mem.take, mem'.store = mem.store, mem'.entries = mem.entries,
           pc' \in Early => pc \in Early,
           pc' \notin {"idle"} \cup Dropped => pc \notin {"idle"} \cup Dropped,
           pc' \in Dropped => pc \in Dropped
    PROVE  Items'
<1>1. Revised' = Revised /\ Pended' = Pended /\ Consumable' = Consumable
  BY DEF Revised, Pended, Consumable
<1> QED
  BY <1>1 DEF Items, Known, Wanted

\* A round that is gone leaves its items where they were.
LEMMA ItemsIdle ==
    ASSUME Items, UNCHANGED <<pending, nextCid, draft>>, pc' = "idle",
           Revised' = {} \/ (Revised' = Revised /\ ckpt'.entry = ckpt.entry)
    PROVE  Items'
<1>1. pc' \notin Early /\ pc' \notin Dropped
  BY DEF Early, Dropped
<1> QED
  BY <1>1 DEF Items, Known, Wanted

\* The entries of the envelope, of the checkpoint and of the memory.
LEMMA EntriesTyped ==
    ASSUME TypeOK, NEW s \in Sections
    PROVE  draft.entries[s] \in Entry /\ ckpt.entry[s] \in Entry /\ mem.entries[s] \in Entry
BY PartsTyped DEF Entries

\* The prose that a section's revision leaves names known items.
LEMMA LeftKnown ==
    ASSUME TypeOK, Items, NEW s \in Sections, NEW applied \in SUBSET mem.take,
           NEW answer, pc = "revise"
    PROVE  Known(Left(s, applied, answer))
<1>1. Known(mem.entries[s]) /\ mem.take \subseteq pending
  BY DEF Items, Early, Dropped, Consumable
<1>2. nextCid >= 1 /\ nextCid \in Nat
  BY DEF TypeOK
<1>3. \A items \in SUBSET mem.take : \A c \in CidsOf(items) : c < nextCid
  BY <1>1 DEF Items, CidsOf
<1>4. \A c \in Agent(s, answer) : c < nextCid
  BY <1>2, <1>3, CidFacts DEF Agent, Batch
<1>5. Left(s, applied, answer).prose = mem.entries[s].prose \cup CidsOf(applied) \cup Agent(s, answer)
  BY DEF Left
<1> QED
  BY <1>1, <1>3, <1>4, <1>5 DEF Known

\* Cids stay unique and known, a running round sees the store as it is, and
\* what the round wanted and did not put off is dropped.
LEMMA NextItems == TypeOK /\ Items /\ [Next]_vars => Items'
<1> SUFFICES ASSUME TypeOK, Items, [Next]_vars PROVE Items'
  OBVIOUS
<1>1. ASSUME NEW kind \in {"comment", "edit"}, NEW s \in Sections, NEW x \in BOOLEAN, AddItem(kind, s, x)
      PROVE  Items'
  <2> DEFINE item == [cid |-> nextCid, kind |-> kind, section |-> s, external |-> x,
                      included |-> FALSE, dismissed |-> FALSE]
  <2>1. /\ pending' = pending \cup {item} /\ nextCid' = nextCid + 1 /\ nextCid \in Nat
        /\ item.cid = nextCid /\ pc' = "idle" /\ UNCHANGED <<draft, ckpt>>
    BY <1>1, CidFacts DEF AddItem
  <2> HIDE DEF item
  <2>2. \A i \in pending : i.cid \in Nat /\ i.cid < nextCid
    BY CidFacts DEF Items, TypeOK, Item
  <2>3. /\ \A i \in pending' : i.cid < nextCid'
        /\ \A i, j \in pending' : i.cid = j.cid => i = j
    BY <2>1, <2>2 DEF Items
  <2>4. \A entry \in Entry : Known(entry) => \A c \in entry.prose : c < nextCid'
    BY <2>1, CidFacts DEF Known, Entry
  <2>5. \A s_1 \in Sections : /\ \A c \in draft.entries[s_1].prose : c < nextCid'
                              /\ s_1 \in Revised => \A c \in ckpt.entry[s_1].prose : c < nextCid'
    BY <2>4, EntriesTyped DEF Items
  <2>6. Revised' = Revised /\ pc' \notin Early /\ pc' \notin Dropped
    BY <2>1 DEF Revised, Early, Dropped
  <2> QED
    BY <2>1, <2>3, <2>5, <2>6 DEF Items, Known
<1>2. ASSUME NEW i \in pending, DeleteItem(i) PROVE Items'
  <2>1. pending' = pending \ {i} /\ pc' = "idle" /\ UNCHANGED <<nextCid, draft, ckpt>>
    BY <1>2 DEF DeleteItem
  <2> QED
    BY <2>1 DEF Items, Known, Revised, Early, Dropped
<1>3. ASSUME NEW i \in pending, NEW mark \in {"included", "dismissed"}, Curate(i, mark) PROVE Items'
  <2> DEFINE marked == [i EXCEPT ![mark] = TRUE]
  <2>1. /\ pending' = (pending \ {i}) \cup {marked} /\ pc' = "idle" /\ marked.cid = i.cid
        /\ UNCHANGED <<nextCid, draft, ckpt>>
    BY <1>3 DEF Curate, TypeOK, Item
  <2> HIDE DEF marked
  <2> QED
    BY <2>1 DEF Items, Known, Revised, Early, Dropped
<1>4. ASSUME NEW s \in Awaiting, AnswerGap(s) PROVE Items'
  <2>1. pc' = "idle" /\ UNCHANGED <<pending, nextCid, draft, ckpt>>
    BY <1>4 DEF AnswerGap
  <2> QED
    BY <2>1, ItemsIdle DEF Revised
<1>5. CASE BeginRound
  <2>1. /\ pc' = "revise" /\ mem'.take = Consumable /\ mem'.store = pending
        /\ \A s \in Sections : mem'.entries[s] = IF s \in Revised THEN ckpt.entry[s]
                                                 ELSE draft.entries[s]
        /\ UNCHANGED <<pending, nextCid, draft, ckpt>>
    BY <1>5, BeginTyped
  <2>2. Revised' = Revised /\ Consumable' = Consumable
    BY <2>1 DEF Revised, Consumable
  <2> QED
    BY <2>1, <2>2 DEF Items, Known, Dropped
<1>6. ASSUME NEW s \in Sections, KeepSection(s) PROVE Items'
  <2>1. pc = "revise" /\ UNCHANGED <<pc, pending, nextCid, draft, mem>>
    BY <1>6, NextSection DEF KeepSection
  <2>2. Revised' = Revised /\ ckpt'.entry = ckpt.entry
    BY <1>6, KeepRevised, KeepFacts
  <2>3. Consumable' = Consumable
    BY <2>1 DEF Consumable
  <2> QED
    BY <2>1, <2>2, <2>3 DEF Items, Known, Dropped
<1>7. ASSUME NEW s \in Sections, NEW applied \in SUBSET mem.take,
             NEW answer \in {"changed", "same", "pended"}, ReviseSection(s, applied, answer)
      PROVE  Items'
  <2>0. Writes(s, applied, answer)
    BY <1>7, ReviseWrites
  <2>1. pc = "revise" /\ UNCHANGED <<pc, pending, nextCid, draft>>
    BY <1>7, NextSection DEF ReviseSection
  <2>2. mem'.take = mem.take /\ mem'.store = mem.store
    BY <1>7, ReviseFacts
  <2>3. \A t \in Sections : mem'.entries[t] = IF t = s THEN Left(s, applied, answer)
                                              ELSE mem.entries[t]
    BY <2>0 DEF Writes
  <2>4. \A t \in Sections : ckpt'.entry[t] = IF t = s /\ Outcome(applied, answer) = "revised"
                                             THEN Left(s, applied, answer) ELSE ckpt.entry[t]
    BY <2>0 DEF Writes
  <2>5. /\ Revised' = (IF Outcome(applied, answer) = "revised" THEN Revised \cup {s} ELSE Revised)
        /\ s \notin Revised
    BY <1>7, ReviseRevised, NextSection DEF ReviseSection
  <2>6. Known(Left(s, applied, answer))
    BY <2>1, LeftKnown
  <2>7. Consumable' = Consumable
    BY <2>1 DEF Consumable
  <2>8. \A t \in Sections : Known(mem'.entries[t]) /\ (t \in Revised' => Known(ckpt'.entry[t]))
    BY <2>1, <2>3, <2>4, <2>5, <2>6 DEF Items, Early
  <2> QED
    BY <2>1, <2>2, <2>7, <2>8 DEF Items, Known, Dropped
<1>8. CASE NothingChanged \/ ClearCheckpoint
  <2>1. pc' = "idle" /\ ckpt' = NoCkpt /\ UNCHANGED <<pending, nextCid, draft>>
    BY <1>8 DEF NothingChanged, ClearCheckpoint
  <2> QED
    BY <2>1, NoneRevised, ItemsIdle
<1>9. CASE Revalidate
  <2>1. ckpt'.outcome = ckpt.outcome /\ ckpt'.entry = ckpt.entry
    BY <1>9, RevalidateFacts
  <2>2. /\ pc = "revise" /\ pc' \in {"annotate", "archive_draft"}
        /\ UNCHANGED <<pending, nextCid, draft, mem>>
    BY <1>9 DEF Revalidate
  <2> QED
    BY <2>1, <2>2, ItemsFrame DEF Early, Dropped
<1>10. CASE ArchiveDraft \/ ArchiveAnnotated
  <2>1. /\ pc \in Early /\ pc' \in Early /\ UNCHANGED <<pending, nextCid, draft, mem, ckpt>>
    BY <1>10 DEF ArchiveDraft, ArchiveAnnotated, Early
  <2> QED
    BY <2>1, ItemsFrame DEF Early, Dropped
<1>11. CASE BindOut
  <2>1. ckpt'.outcome = ckpt.outcome /\ ckpt'.entry = ckpt.entry
    BY <1>11, BindOutFacts
  <2>2. pc = "bind_out" /\ pc' = "write_draft" /\ UNCHANGED <<pending, nextCid, draft, mem>>
    BY <1>11 DEF BindOut
  <2> QED
    BY <2>1, <2>2, ItemsFrame DEF Early, Dropped
<1>12. CASE WriteDraft
  <2>1. /\ pc = "write_draft" /\ pc' = "annotate" /\ draft'.entries = mem.entries
        /\ UNCHANGED <<pending, nextCid, ckpt, mem>>
    BY <1>12, RevisionFacts DEF WriteDraft
  <2>2. Revised' = Revised /\ Consumable' = Consumable
    BY <2>1 DEF Revised, Consumable
  <2> QED
    BY <2>1, <2>2 DEF Items, Known, Early, Dropped
<1>13. CASE RebuildAnnotated
  <2>1. pc = "annotate" /\ pc' = "finalize" /\ UNCHANGED <<pending, nextCid, draft, ckpt, mem>>
    BY <1>13 DEF RebuildAnnotated
  <2> QED
    BY <2>1, ItemsFrame DEF Early, Dropped
<1>14. CASE FinalizeItem
  <2>1. mem'.take = mem.take /\ mem'.store = mem.store /\ mem'.entries = mem.entries
    BY <1>14, FinalizeFacts
  <2>2. UNCHANGED <<pending, nextCid, draft, ckpt, pc>>
    BY <1>14 DEF FinalizeItem
  <2> QED
    BY <2>1, <2>2, ItemsFrame
<1>15. CASE CheckpointRecord
  <2>1. ckpt'.outcome = ckpt.outcome /\ ckpt'.entry = ckpt.entry
    BY <1>15, CheckpointRecordFacts
  <2>2. pc = "finalize" /\ pc' = "drop" /\ UNCHANGED <<pending, nextCid, draft, mem>>
    BY <1>15 DEF CheckpointRecord
  <2> QED
    BY <2>1, <2>2, ItemsFrame DEF Early, Dropped
<1>16. CASE DropPending
  <2>1. /\ pc = "drop" /\ pc' = "record" /\ UNCHANGED <<nextCid, draft, ckpt, mem>>
        /\ pending' = {i \in pending : i.cid \notin CidsOf(Consumed \cup Dismissed)}
    BY <1>16 DEF DropPending
  <2>2. mem.take = Consumable
    BY <2>1 DEF Items, Dropped
  <2>3. \A i \in pending' : Wanted(i) => i.section \in Pended
    BY <2>1, <2>2 DEF Wanted, Consumable, Consumed, CidsOf
  <2>4. Revised' = Revised /\ Pended' = Pended
    BY <2>1 DEF Revised, Pended
  <2> QED
    BY <2>1, <2>3, <2>4 DEF Items, Known, Early, Dropped, Wanted
<1>17. CASE WriteRecord \/ WriteLivePlan
  <2>1. pc \in Dropped /\ pc' \in Dropped /\ UNCHANGED <<pending, nextCid, draft, ckpt, mem>>
    BY <1>17 DEF WriteRecord, WriteLivePlan, Dropped
  <2> QED
    BY <2>1, ItemsFrame DEF Early, Dropped
<1>18. CASE Crash
  <2>1. pc' = "idle" /\ UNCHANGED <<pending, nextCid, draft, ckpt>>
    BY <1>18 DEF Crash, Lose
  <2> QED
    BY <2>1, ItemsIdle DEF Revised
<1>19. CASE UNCHANGED vars
  BY <1>19, ItemsFrame DEF vars
<1> QED
  BY <1>1, <1>2, <1>3, <1>4, <1>5, <1>6, <1>7, <1>8, <1>9, <1>10, <1>11, <1>12, <1>13, <1>14, <1>15,
     <1>16, <1>17, <1>18, <1>19 DEF Next, Routes, Revise, Commit

-----------------------------------------------------------------------------
(* The voices                                                              *)

\* Fewer items, and no new entry in the round's memory or its checkpoint,
\* keep them.
LEMMA VoicesFrame ==
    ASSUME Voices, pending' \subseteq pending, draft' = draft,
           ckpt'.outcome = ckpt.outcome, ckpt'.entry = ckpt.entry, Resuming' = Resuming,
           pc' \in Early => pc \in Early /\ mem'.entries = mem.entries
    PROVE  Voices'
<1>1. Revised' = Revised
  BY DEF Revised
<1> QED
  BY <1>1 DEF Voices, Voiced, Filled, Wanted

\* The items of a round's batch, told by their cids.
LEMMA BatchFacts ==
    ASSUME TypeOK, Items, NEW s \in Sections, NEW applied \in SUBSET mem.take, pc = "revise",
           applied \subseteq Batch(s, "edit"), NEW i \in pending, i.kind = "comment"
    PROVE  /\ i.cid \notin CidsOf(applied)
           /\ i.cid \in CidsOf(Batch(s, "comment")) => Wanted(i)
           /\ i.cid # GapText
<1>1. mem.take = Consumable /\ Consumable \subseteq pending
  BY DEF Items, Dropped, Consumable
<1>2. \A j \in pending : j.cid = i.cid => j = i
  BY DEF Items
<1>3. \A j \in applied : j \in pending /\ j.kind = "edit"
  BY <1>1 DEF Batch
<1>4. i.cid \notin CidsOf(applied)
  BY <1>2, <1>3 DEF CidsOf
<1>5. \A j \in Batch(s, "comment") : j \in pending /\ Wanted(j)
  BY <1>1 DEF Batch, Consumable, Wanted
<1>6. i.cid \in CidsOf(Batch(s, "comment")) => Wanted(i)
  BY <1>2, <1>5 DEF CidsOf
<1>7. i.cid \in Cids
  BY DEF TypeOK, Item
<1> QED
  BY <1>4, <1>6, <1>7, CidFacts

\* What the revision of a section leaves: a pending comment is in its prose
\* only if the agent was asked about it in this round, the text of an
\* answered gap fills it, and prose that is called revised has moved.
LEMMA LeftVoices ==
    ASSUME TypeOK, InMemory, Items, Voices, NEW s \in Sections, NEW applied \in SUBSET mem.take,
           NEW answer \in {"changed", "same", "pended"}, ReviseSection(s, applied, answer)
    PROVE  /\ \A i \in pending :
                i.kind = "comment" /\ i.section = s /\ i.cid \in Left(s, applied, answer).prose
                  => Wanted(i) /\ Outcome(applied, answer) = "revised"
           /\ Filled(Left(s, applied, answer))
           /\ Outcome(applied, answer) = "revised" => Left(s, applied, answer) # draft.entries[s]
<1>1. pc = "revise" /\ ckpt.outcome[s] = "none" /\ s \notin Revised
  BY NextSection DEF ReviseSection
<1>2. /\ applied \subseteq Batch(s, "edit") /\ CidsOf(applied) \cap mem.entries[s].prose = {}
      /\ answer = "changed" => Batch(s, "comment") # {} \/ s \in mem.gaps
  BY DEF ReviseSection
<1>3. /\ Left(s, applied, answer).prose =
           mem.entries[s].prose \cup CidsOf(applied) \cup Agent(s, answer)
      /\ Left(s, applied, answer).drafted =
           (mem.entries[s].drafted \/ (s \in mem.gaps /\ Agent(s, answer) # {}))
  BY DEF Left
<1>4. /\ mem.entries[s] = draft.entries[s]
      /\ s \in mem.gaps => ~draft.entries[s].drafted
  BY <1>1 DEF InMemory, Early
<1>5. \A i \in pending : i.section = s /\ i.kind = "comment" => i.cid \notin mem.entries[s].prose
  BY <1>1 DEF Voices, Voiced, Early
<1>6. ASSUME NEW i \in pending, i.kind = "comment", i.section = s,
             i.cid \in Left(s, applied, answer).prose
      PROVE  Wanted(i) /\ Outcome(applied, answer) = "revised"
  <2>1. /\ i.cid \notin CidsOf(applied) /\ i.cid # GapText
        /\ i.cid \in CidsOf(Batch(s, "comment")) => Wanted(i)
    BY <1>1, <1>2, <1>6, BatchFacts
  <2>2. i.cid \in Agent(s, answer)
    BY <1>3, <1>5, <1>6, <2>1
  <2>3. i.cid \in CidsOf(Batch(s, "comment")) /\ answer = "changed"
    BY <2>1, <2>2 DEF Agent
  <2> QED
    BY <2>1, <2>3 DEF Outcome
<1>7. Filled(Left(s, applied, answer))
  <2>1. Filled(mem.entries[s])
    BY <1>1 DEF Voices, Early
  <2>2. \A items \in SUBSET Item : GapText \notin CidsOf(items)
    BY CidsOfFacts, CidFacts
  <2>3. GapText \notin CidsOf(applied) /\ GapText \notin CidsOf(Batch(s, "comment"))
    BY <2>2, PartsTyped DEF Batch
  <2>4. GapText \in Agent(s, answer) => s \in mem.gaps
    BY <2>3 DEF Agent
  <2>5. CASE GapText \in mem.entries[s].prose
    BY <1>3, <2>1, <2>5 DEF Filled
  <2>6. CASE GapText \in Agent(s, answer)
    BY <1>3, <2>4, <2>6 DEF Filled
  <2> QED
    BY <1>3, <2>3, <2>5, <2>6 DEF Filled
<1>8. ASSUME Outcome(applied, answer) = "revised" PROVE Left(s, applied, answer) # draft.entries[s]
  <2>1. applied # {} \/ (answer = "changed" /\ (Batch(s, "comment") # {} \/ s \in mem.gaps))
    BY <1>2, <1>8 DEF Outcome
  <2>2. CASE applied # {}
    <3>1. PICK j \in applied : TRUE
      BY <2>2
    <3>2. j.cid \in CidsOf(applied)
      BY DEF CidsOf
    <3> QED
      BY <1>2, <1>3, <1>4, <3>2
  <2>3. CASE answer = "changed" /\ Batch(s, "comment") # {}
    <3>1. PICK j \in Batch(s, "comment") : TRUE
      BY <2>3
    <3>2. j.cid \in Agent(s, answer)
      BY <2>3 DEF Agent, CidsOf
    <3>3. j \in pending /\ j.section = s /\ j.kind = "comment"
      BY <1>1 DEF Batch, Items, Dropped, Consumable
    <3> QED
      BY <1>3, <1>4, <1>5, <3>2, <3>3
  <2>4. CASE answer = "changed" /\ s \in mem.gaps
    <3>1. GapText \in Agent(s, answer)
      BY <2>4 DEF Agent
    <3>2. Left(s, applied, answer).drafted
      BY <1>3, <2>4, <3>1
    <3> QED
      BY <1>4, <2>4, <3>2
  <2> QED
    BY <2>1, <2>2, <2>3, <2>4
<1> QED
  BY <1>6, <1>7, <1>8

\* A comment the agent has revised for is asked about again only while its
\* commit is open.
LEMMA NextVoices ==
    TypeOK /\ Numbering /\ InMemory /\ Items /\ Voices /\ [Next]_vars => Voices'
<1> SUFFICES ASSUME TypeOK, Numbering, InMemory, Items, Voices, [Next]_vars PROVE Voices'
  OBVIOUS
<1>1. ASSUME NEW kind \in {"comment", "edit"}, NEW s \in Sections, NEW x \in BOOLEAN, AddItem(kind, s, x)
      PROVE  Voices'
  <2> DEFINE item == [cid |-> nextCid, kind |-> kind, section |-> s, external |-> x,
                      included |-> FALSE, dismissed |-> FALSE]
  <2>1. /\ pending' = pending \cup {item} /\ nextCid \in Nat /\ item.cid = nextCid
        /\ item.section = s /\ pc' = "idle" /\ UNCHANGED <<draft, ckpt>>
    BY <1>1, CidFacts DEF AddItem
  <2> HIDE DEF item
  <2>2. Revised' = Revised /\ Resuming' = Resuming
    BY <2>1 DEF Revised, Resuming
  <2>3. nextCid \notin draft.entries[s].prose /\ (s \in Revised => nextCid \notin ckpt.entry[s].prose)
    <3>1. ~(nextCid < nextCid)
      BY <2>1
    <3> QED
      BY <3>1 DEF Items, Known
  <2>4. ~Voiced(item, draft.entries) /\ (item.section \in Revised => ~Voiced(item, ckpt.entry))
    BY <2>1, <2>3 DEF Voiced
  <2>5. pc' \notin Early
    BY <2>1 DEF Early
  <2> QED
    BY <2>1, <2>2, <2>4, <2>5 DEF Voices, Voiced, Wanted, Filled
<1>2. ASSUME NEW i \in pending, DeleteItem(i) PROVE Voices'
  <2>1. pending' \subseteq pending /\ pc' = "idle" /\ UNCHANGED <<draft, ckpt>>
    BY <1>2 DEF DeleteItem
  <2> QED
    BY <2>1, VoicesFrame DEF Early, Resuming
<1>3. ASSUME NEW i \in pending, NEW mark \in {"included", "dismissed"}, Curate(i, mark) PROVE Voices'
  <2> DEFINE marked == [i EXCEPT ![mark] = TRUE]
  <2>1. i \in Item
    BY DEF TypeOK
  <2>2. /\ marked.cid = i.cid /\ marked.kind = i.kind /\ marked.section = i.section
        /\ marked.external = i.external /\ (i.included => marked.included)
    BY <2>1 DEF Item
  <2>3. pending' = (pending \ {i}) \cup {marked} /\ pc' = "idle" /\ UNCHANGED <<draft, ckpt>>
    BY <1>3 DEF Curate
  <2> HIDE DEF marked
  <2>4. Revised' = Revised /\ Resuming' = Resuming /\ pc' \notin Early
    BY <2>3 DEF Revised, Resuming, Early
  <2>5. Wanted(i) => Wanted(marked)
    BY <2>2 DEF Wanted
  <2>6. \A es : Voiced(marked, es) = Voiced(i, es)
    BY <2>2 DEF Voiced
  <2>7. \A j \in pending' : Voiced(j, draft.entries) => Wanted(j) /\ j.section \in Revised /\ Resuming
    BY <2>2, <2>3, <2>5, <2>6 DEF Voices
  <2>8. \A j \in pending' : j.section \in Revised /\ Voiced(j, ckpt.entry) => Wanted(j)
    BY <2>2, <2>3, <2>5, <2>6 DEF Voices
  <2> QED
    BY <2>3, <2>4, <2>7, <2>8 DEF Voices, Voiced, Wanted, Filled
<1>4. ASSUME NEW s \in Awaiting, AnswerGap(s) PROVE Voices'
  <2>1. pc' = "idle" /\ UNCHANGED <<pending, draft, ckpt>>
    BY <1>4 DEF AnswerGap
  <2> QED
    BY <2>1, VoicesFrame DEF Early, Resuming
<1>5. CASE BeginRound
  <2>1. /\ UNCHANGED <<pending, draft, ckpt>>
        /\ \A s \in Sections : mem'.entries[s] = IF s \in Revised THEN ckpt.entry[s]
                                                 ELSE draft.entries[s]
    BY <1>5, BeginTyped
  <2>2. Revised' = Revised /\ Resuming' = Resuming
    BY <2>1 DEF Revised, Resuming
  <2>3. \A i \in pending : i.section \in Sections
    BY DEF TypeOK, Item
  <2>4. \A i \in pending : Voiced(i, mem'.entries) => Wanted(i) /\ i.section \in Revised
    BY <2>1, <2>3 DEF Voices, Voiced
  <2>5. \A s \in Sections : Filled(mem'.entries[s])
    BY <2>1 DEF Voices
  <2> QED
    BY <2>1, <2>2, <2>4, <2>5 DEF Voices, Voiced, Wanted, Filled
<1>6. ASSUME NEW s \in Sections, KeepSection(s) PROVE Voices'
  <2>1. UNCHANGED <<pc, pending, draft, mem>>
    BY <1>6 DEF KeepSection
  <2>2. Revised' = Revised /\ Resuming' = Resuming /\ ckpt'.entry = ckpt.entry
    BY <1>6, KeepRevised, KeepFacts
  <2> QED
    BY <2>1, <2>2 DEF Voices, Voiced, Wanted, Filled
<1>7. ASSUME NEW s \in Sections, NEW applied \in SUBSET mem.take,
             NEW answer \in {"changed", "same", "pended"}, ReviseSection(s, applied, answer)
      PROVE  Voices'
  <2>0. Writes(s, applied, answer)
    BY <1>7, ReviseWrites
  <2> DEFINE left == Left(s, applied, answer)
             outcome == Outcome(applied, answer)
  <2>1. pc = "revise" /\ UNCHANGED <<pc, pending, draft>>
    BY <1>7, NextSection DEF ReviseSection
  <2>2. \A t \in Sections : mem'.entries[t] = IF t = s THEN left ELSE mem.entries[t]
    BY <2>0 DEF Writes
  <2>3. \A t \in Sections : ckpt'.entry[t] = IF t = s /\ outcome = "revised" THEN left
                                             ELSE ckpt.entry[t]
    BY <2>0 DEF Writes
  <2>4. /\ Revised' = (IF outcome = "revised" THEN Revised \cup {s} ELSE Revised)
        /\ s \notin Revised /\ Resuming' = Resuming
    BY <1>7, ReviseRevised, NextSection DEF ReviseSection
  <2>5. /\ \A i \in pending : i.kind = "comment" /\ i.section = s /\ i.cid \in left.prose
                               => Wanted(i) /\ outcome = "revised"
        /\ Filled(left)
        /\ outcome = "revised" => left # draft.entries[s]
    BY <1>7, LeftVoices
  <2> HIDE DEF left, outcome
  <2>6. \A i \in pending : i.section \in Sections
    BY DEF TypeOK, Item
  <2>7. \A i \in pending : i.section \in Revised' /\ Voiced(i, ckpt'.entry) => Wanted(i)
    BY <2>3, <2>4, <2>5, <2>6 DEF Voices, Voiced
  <2>8. \A i \in pending : Voiced(i, mem'.entries) => Wanted(i) /\ i.section \in Revised'
    BY <2>1, <2>2, <2>4, <2>5, <2>6 DEF Voices, Voiced, Early
  <2>9. \A t \in Sections : (t \in Revised' => Filled(ckpt'.entry[t])) /\ Filled(mem'.entries[t])
    BY <2>1, <2>2, <2>3, <2>4, <2>5 DEF Voices, Early
  <2>10. ~Resuming => \A t \in Revised' : ckpt'.entry[t] # draft.entries[t]
    <3>1. Revised \subseteq Sections
      BY DEF Revised
    <3> QED
      BY <2>3, <2>4, <2>5, <3>1 DEF Voices
  <2>11. \A i \in pending : Voiced(i, draft.entries) => Wanted(i) /\ i.section \in Revised' /\ Resuming
    BY <2>4 DEF Voices
  <2> QED
    BY <2>1, <2>4, <2>7, <2>8, <2>9, <2>10, <2>11 DEF Voices, Voiced, Wanted, Filled
<1>8. CASE NothingChanged \/ ClearCheckpoint
  <2>1. pc' = "idle" /\ ckpt' = NoCkpt /\ UNCHANGED <<pending, draft>>
    BY <1>8 DEF NothingChanged, ClearCheckpoint
  <2>2. Revised' = {} /\ pc' \notin Early
    BY <2>1, NoneRevised DEF Early
  <2>3. \A i \in pending : ~Voiced(i, draft.entries)
    <3>1. CASE NothingChanged
      <4>1. Revised = {}
        BY <3>1 DEF NothingChanged
      <4> QED
        BY <4>1 DEF Voices
    <3>2. CASE ClearCheckpoint
      <4>1. \A i \in pending : Wanted(i) => i.section \in Pended
        BY <3>2 DEF ClearCheckpoint, Items, Dropped
      <4>2. \A s : ~(s \in Pended /\ s \in Revised)
        BY DEF Pended, Revised
      <4> QED
        BY <4>1, <4>2 DEF Voices
    <3> QED
      BY <1>8, <3>1, <3>2
  <2> QED
    BY <2>1, <2>2, <2>3 DEF Voices, Voiced, Filled
<1>9. CASE Revalidate
  <2>1. ckpt'.outcome = ckpt.outcome /\ ckpt'.entry = ckpt.entry /\ ckpt'.out = ckpt.out
    BY <1>9, RevalidateFacts
  <2>2. pc = "revise" /\ UNCHANGED <<pending, draft, mem>>
    BY <1>9 DEF Revalidate
  <2> QED
    BY <2>1, <2>2, VoicesFrame DEF Early, Resuming
<1>10. CASE ArchiveDraft \/ ArchiveAnnotated
  <2>1. pc \in Early /\ UNCHANGED <<pending, draft, mem, ckpt>>
    BY <1>10 DEF ArchiveDraft, ArchiveAnnotated, Early
  <2> QED
    BY <2>1, VoicesFrame DEF Resuming
<1>11. CASE BindOut
  <2>1. ckpt'.outcome = ckpt.outcome /\ ckpt'.entry = ckpt.entry
    BY <1>11, BindOutFacts
  <2>2. pc \in Early /\ UNCHANGED <<pending, draft, mem>>
    BY <1>11 DEF BindOut, Early
  <2>3. Resuming' = Resuming
    <3>1. Resuming \in BOOLEAN /\ Resuming' \in BOOLEAN
      BY DEF Resuming
    <3> QED
      BY <1>11, <3>1, BoundIsNotLanded
  <2> QED
    BY <2>1, <2>2, <2>3, VoicesFrame
<1>12. CASE WriteDraft
  <2>1. /\ pc = "write_draft" /\ pc' = "annotate" /\ draft'.entries = mem.entries /\ draft' = Revision
        /\ UNCHANGED <<pending, ckpt, mem>>
    BY <1>12, RevisionFacts DEF WriteDraft
  <2>2. ckpt.out = Revision /\ ckpt.out # NoDraft
    <3>1. ckpt.out = Revision /\ mem.n = draft.rev + 1 /\ draft.rev \in Nat
      BY <2>1, PartsTyped DEF Numbering, Early
    <3>2. Revision.rev # 0
      BY <3>1, RevisionFacts
    <3> QED
      BY <3>1, <3>2 DEF NoDraft
  <2>3. Revised' = Revised /\ Resuming' /\ pc' \notin Early
    BY <2>1, <2>2 DEF Revised, Resuming, Early
  <2>4. /\ \A i \in pending : Voiced(i, mem.entries) => Wanted(i) /\ i.section \in Revised
        /\ \A s \in Sections : Filled(mem.entries[s])
    BY <2>1 DEF Voices, Early
  <2> QED
    BY <2>1, <2>3, <2>4 DEF Voices, Voiced, Wanted, Filled
<1>13. CASE CheckpointRecord
  <2>1. ckpt'.outcome = ckpt.outcome /\ ckpt'.entry = ckpt.entry /\ ckpt'.out = ckpt.out
    BY <1>13, CheckpointRecordFacts
  <2>2. pc' = "drop" /\ UNCHANGED <<pending, draft>>
    BY <1>13 DEF CheckpointRecord
  <2> QED
    BY <2>1, <2>2, VoicesFrame DEF Early, Resuming
<1>14. CASE RebuildAnnotated \/ FinalizeItem \/ DropPending \/ WriteRecord \/ WriteLivePlan \/ Crash
  <2>1. pc' \notin Early /\ pending' \subseteq pending /\ UNCHANGED <<draft, ckpt>>
    BY <1>14 DEF RebuildAnnotated, FinalizeItem, DropPending, WriteRecord, WriteLivePlan, Crash,
                 Lose, Early
  <2> QED
    BY <2>1, VoicesFrame DEF Resuming
<1>15. CASE UNCHANGED vars
  BY <1>15, VoicesFrame DEF vars, Resuming
<1> QED
  BY <1>1, <1>2, <1>3, <1>4, <1>5, <1>6, <1>7, <1>8, <1>9, <1>10, <1>11, <1>12, <1>13, <1>14, <1>15
     DEF Next, Routes, Revise, Commit

-----------------------------------------------------------------------------
(* The theorems                                                            *)

\* A fresh draft has no round, no item and no archive.
LEMMA InitInvariant == Init => IInv
<1> SUFFICES ASSUME Init PROVE IInv
  OBVIOUS
<1>1. TypeOK
  BY InitTyped
<1>2. /\ pc = "idle" /\ pending = {} /\ events = <<>> /\ nextCid = 1 /\ mem = NoMemory
      /\ ckpt = NoCkpt /\ draft.rev = 0 /\ annotated.draft = draft
      /\ annotated.verdicts = draft.entries
      /\ \A s \in Sections : draft.entries[s].prose = {}
      /\ \A n \in 0..MaxRounds : /\ archived[n].draft = NoDraft
                                 /\ archived[n].annotated = NoAnnotated
  BY DEF Init
<1>3. /\ Revised = {} /\ ~Resuming /\ ckpt.out = NoDraft /\ ckpt.verdicts = NoEntries
      /\ ckpt.reval = FALSE /\ mem.handled = {}
  BY <1>2 DEF Revised, Resuming, NoCkpt, NoMemory
<1>4. Numbering
  BY <1>2, <1>3 DEF Numbering, Early, Late
<1>5. Audit
  BY <1>2, <1>3 DEF Audit, Audited
<1>6. InMemory
  BY <1>2 DEF InMemory, Early
<1>7. Items
  BY <1>2, <1>3 DEF Items, Known, Early, Dropped
<1>8. Finalized = {}
  BY <1>2 DEF Finalized
<1>9. Landing
  <2>1. NothingLost
    BY <1>2 DEF NothingLost
  <2>2. FinalizedOnce
    BY <1>2, <1>8, FS_EmptySet DEF FinalizedOnce
  <2> QED
    BY <1>2, <1>3, <2>1, <2>2 DEF Landing
<1>10. Archive
  BY <1>2, <1>3, PartsTyped, <1>1 DEF Archive
<1>11. Voices
  BY <1>2, <1>3 DEF Voices, Filled, Early
<1> QED
  BY <1>1, <1>4, <1>5, <1>6, <1>7, <1>9, <1>10, <1>11 DEF IInv

\* The invariant of the rounds, through every interleaving of routes, rounds,
\* cancels and crashes.
THEOREM RoundInvariant == Spec => []IInv
<1>1. Init => IInv
  BY InitInvariant
<1>2. IInv /\ [Next]_vars => IInv'
  BY NextTyped, NextNumbering, NextAudit, NextInMemory, NextItems, NextLanding, NextArchive,
     NextVoices DEF IInv
<1> QED
  BY <1>1, <1>2, PTL DEF Spec

\* Every state of the review loop is well typed.
THEOREM RoundTypeCorrect == Spec => []TypeOK
<1>1. IInv => TypeOK
  BY DEF IInv
<1> QED
  BY <1>1, RoundInvariant, PTL

\* No human input is lost and none lands twice, whatever is cancelled, killed
\* and replayed.
THEOREM InputLandsOnce == Spec => []ItemsLandOnce
<1>1. IInv => ItemsLandOnce
  BY DEF IInv, Landing, ItemsLandOnce
<1> QED
  BY <1>1, RoundInvariant, PTL

\* The annotated draft that binds the envelope describes its prose, but for
\* the sections that the audit was skipped for.
THEOREM VerdictsAreOfTheProse == Spec => []CarriedVerdictsMatch
<1>1. IInv => CarriedVerdictsMatch
  BY DEF IInv, Audit, Audited, CarriedVerdictsMatch, VerdictsMatch
<1> QED
  BY <1>1, RoundInvariant, PTL

RevisionStep == draft' # draft =>
    /\ draft'.rev = draft.rev + 1
    /\ archived[draft.rev] = [draft |-> draft, annotated |-> annotated]
    /\ \A s \in Revised : draft'.entries[s] # draft.entries[s]

\* A step that writes a revision writes it over an archived pair, and every
\* section it calls revised has moved.
LEMMA NextRevision == IInv /\ [Next]_vars => RevisionStep
<1> SUFFICES ASSUME IInv, [Next]_vars, draft' # draft PROVE RevisionStep
  BY DEF RevisionStep
<1>1. WriteDraft
  <2>1. ~Routes /\ ~UNCHANGED vars /\ ~Crash
    BY RouteFrame DEF vars, Crash, Lose
  <2>2. ~BeginRound
    BY DEF BeginRound
  <2>3. ~Revise
    <3>1. \A s \in Sections : KeepSection(s) => draft' = draft
      BY DEF KeepSection
    <3>2. \A s, applied, answer : ReviseSection(s, applied, answer) => draft' = draft
      BY DEF ReviseSection
    <3>3. NothingChanged \/ Revalidate => draft' = draft
      BY DEF NothingChanged, Revalidate
    <3> QED
      BY <3>1, <3>2, <3>3 DEF Revise
  <2>4. Commit => WriteDraft
    BY DEF Commit, ArchiveDraft, ArchiveAnnotated, BindOut, RebuildAnnotated, FinalizeItem,
           CheckpointRecord, DropPending, WriteRecord, WriteLivePlan, ClearCheckpoint
  <2> QED
    BY <2>1, <2>2, <2>3, <2>4 DEF Next
<1>2. pc = "write_draft" /\ draft' = Revision /\ TypeOK
  BY <1>1 DEF WriteDraft, IInv
<1>3. draft'.rev = draft.rev + 1 /\ draft'.entries = mem.entries /\ ~Resuming
  BY <1>2, RevisionFacts DEF IInv, Numbering, Early
<1>4. archived[draft.rev] = [draft |-> draft, annotated |-> annotated]
  <2>1. archived[draft.rev] \in [draft : Draft, annotated : Annotated]
    BY <1>2, PartsTyped DEF TypeOK
  <2>2. archived[draft.rev].draft = draft /\ archived[draft.rev].annotated = annotated
    BY <1>2 DEF IInv, Archive
  <2> QED
    BY <2>1, <2>2
<1>5. \A s \in Revised : mem.entries[s] = ckpt.entry[s] /\ ckpt.entry[s] # draft.entries[s]
  BY <1>2, <1>3 DEF IInv, InMemory, Voices, Early
<1> QED
  BY <1>3, <1>4, <1>5 DEF RevisionStep

\* A revision is written only over a pair that is archived as it stood, and
\* only when every section the round calls revised moved.
THEOREM RevisionsMove == Spec => RevisionMoves
<1>1. IInv /\ [Next]_vars =>
        [draft' # draft => /\ draft'.rev = draft.rev + 1
                           /\ archived[draft.rev] = [draft |-> draft, annotated |-> annotated]
                           /\ \A s \in Revised : draft'.entries[s] # draft.entries[s]]_vars
  BY NextRevision DEF RevisionStep
<1> QED
  BY <1>1, RoundInvariant, PTL DEF Spec, RevisionMoves
=============================================================================
