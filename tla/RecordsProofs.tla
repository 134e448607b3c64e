---------------------------- MODULE RecordsProofs ----------------------------
(***************************************************************************)
(* Theorems about what is decided, written and sent by hand: the steward's *)
(* merges, for any cards, lessons, answers and batches, the doors a        *)
(* response leaves by, for any forms and bounds, and the requests of Gate  *)
(* 0, for any pursuits, texts and questions; and about what the engine     *)
(* measures of itself: the proof gate of the extraction, for any tables    *)
(* and corpora, and the release gate of the evals, for any suites, slices  *)
(* and bounds.                                                             *)
(***************************************************************************)
EXTENDS MCRecords, MCMeasures, FiniteSetTheorems, SequenceTheorems, WellFoundedInduction, TLAPS

-----------------------------------------------------------------------------
(* The steward's merges                                                    *)

\* What a proposal's record says, where it lands, and what lies where.
CurateTypes ==
    /\ field \in [Cards -> Values] /\ deprecated \subseteq Cards \ Held
    /\ minted \subseteq Curate!Range(Body)
    /\ lessons \in [Cards -> Seq(Lessons)]
    /\ \A c \in Cards : \A i \in 1..Len(lessons[c]) : LessonCard[lessons[c][i]] = c
    /\ status \in [Curate!Proposals -> {"absent", "proposed", "accepted", "rejected"}]
    /\ pc \in {"idle", "apply", "decide", "log"}
    /\ staged \in Seq(Curate!Proposals) /\ done \in Seq(Curate!Proposals)
    /\ reads \subseteq {Curate!Edit(c, v, w) : c \in Cards, v \in Values, w \in Values}
    /\ logged \subseteq Curate!Proposals
    /\ answer \in {"none", "merged", "refused", "died"}
    /\ faults \in Seq({"raised", "killed"})

\* What is staged is open and told apart, and what is about to be decided is in the store.
Staged ==
    /\ pc = "idle" => staged = <<>> /\ done = <<>>
    /\ pc \in {"apply", "decide"} => staged # <<>>
    /\ \A i \in 1..Len(staged) : status[staged[i]] = "proposed"
    /\ \A i, j \in 1..Len(staged) : staged[i] = staged[j] => i = j
    /\ pc = "decide" => Curate!Carried(Head(staged))

\* Without a fault a lesson is on its card only if it was accepted or is about to be.
Untouched ==
    faults = <<>> => \A n \in Lessons :
        LessonCard[n] # NoCard /\ Curate!Carried(Curate!Lesson(n)) =>
           \/ status[Curate!Lesson(n)] = "accepted"
           \/ pc = "decide" /\ Curate!Lesson(n) = Head(staged)

\* What was accepted is named by a line of the log, or will be by the merge's.
Accounted ==
    ~Curate!Faulted("killed") => \A p \in Curate!Proposals :
        status[p] = "accepted" => p \in logged \cup Curate!Range(done)

CurateInv ==
    CurateTypes /\ Staged /\ Untouched /\ Accounted
    /\ Curate!AcceptedIsCarried /\ Curate!LandsOnce

\* What is assumed of the steward's constants.
LEMMA CurateConstants ==
    /\ LessonCard \in [Lessons -> Cards \cup {NoCard}] /\ NoCard \notin Cards
    /\ DOMAIN Body = Answers /\ Held \subseteq Cards /\ MaxFaults \in Nat
BY RecordConstants DEF Curate!CurationConstants

\* The four kinds of proposal, and where each lands.
LEMMA Kinds ==
    /\ \A c \in Cards, v, w \in Values :
          /\ Curate!Edit(c, v, w) \in Curate!Proposals
          /\ Curate!HomeOf(Curate!Edit(c, v, w)) = "card_field"
          /\ Curate!Edit(c, v, w).card = c /\ Curate!Edit(c, v, w).after = w
    /\ \A n \in Lessons :
          /\ Curate!Lesson(n) \in Curate!Proposals
          /\ Curate!HomeOf(Curate!Lesson(n)) = IF LessonCard[n] = NoCard THEN "note" ELSE "card_lesson"
          /\ Curate!Lesson(n).card = LessonCard[n] /\ Curate!Lesson(n).lesson = n
    /\ \A c \in Cards :
          /\ Curate!Deprecation(c) \in Curate!Proposals
          /\ Curate!HomeOf(Curate!Deprecation(c)) = "deprecate" /\ Curate!Deprecation(c).card = c
    /\ \A a \in Answers :
          /\ Curate!NewCard(a) \in Curate!Proposals
          /\ Curate!HomeOf(Curate!NewCard(a)) = "new_card" /\ Curate!NewCard(a).gap = a
<1>1. \A c \in Cards, v, w \in Values :
          /\ Curate!Edit(c, v, w) \in Curate!Proposals
          /\ Curate!HomeOf(Curate!Edit(c, v, w)) = "card_field"
          /\ Curate!Edit(c, v, w).card = c /\ Curate!Edit(c, v, w).after = w
  <2> TAKE c \in Cards, v, w \in Values
  <2>1. DOMAIN Curate!Edit(c, v, w) = {"kind", "card", "before", "after"}
    BY DEF Curate!Edit
  <2>2. Curate!Edit(c, v, w) \in Curate!Proposals
    BY DEF Curate!Proposals
  <2>3. /\ Curate!Edit(c, v, w).kind = "update_card"
        /\ Curate!Edit(c, v, w).card = c /\ Curate!Edit(c, v, w).after = w
    BY DEF Curate!Edit
  <2> QED
    BY <2>1, <2>2, <2>3 DEF Curate!HomeOf
<1>2. \A n \in Lessons :
          /\ Curate!Lesson(n) \in Curate!Proposals
          /\ Curate!HomeOf(Curate!Lesson(n)) = IF LessonCard[n] = NoCard THEN "note" ELSE "card_lesson"
          /\ Curate!Lesson(n).card = LessonCard[n] /\ Curate!Lesson(n).lesson = n
  <2> TAKE n \in Lessons
  <2>1. DOMAIN Curate!Lesson(n) = {"kind", "card", "lesson"}
    BY DEF Curate!Lesson
  <2>2. Curate!Lesson(n) \in Curate!Proposals
    BY DEF Curate!Proposals
  <2>3. /\ Curate!Lesson(n).kind = "update_card"
        /\ Curate!Lesson(n).card = LessonCard[n] /\ Curate!Lesson(n).lesson = n
    BY DEF Curate!Lesson
  <2>4. "after" \notin DOMAIN Curate!Lesson(n) /\ "lesson" \in DOMAIN Curate!Lesson(n)
    BY <2>1
  <2> QED
    BY <2>2, <2>3, <2>4 DEF Curate!HomeOf
<1>3. \A c \in Cards :
          /\ Curate!Deprecation(c) \in Curate!Proposals
          /\ Curate!HomeOf(Curate!Deprecation(c)) = "deprecate" /\ Curate!Deprecation(c).card = c
  <2> TAKE c \in Cards
  <2>1. Curate!Deprecation(c) \in Curate!Proposals
    BY DEF Curate!Proposals
  <2>2. Curate!Deprecation(c).kind = "deprecate_card" /\ Curate!Deprecation(c).card = c
    BY DEF Curate!Deprecation
  <2> QED
    BY <2>1, <2>2 DEF Curate!HomeOf
<1>4. \A a \in Answers :
          /\ Curate!NewCard(a) \in Curate!Proposals
          /\ Curate!HomeOf(Curate!NewCard(a)) = "new_card" /\ Curate!NewCard(a).gap = a
  <2> TAKE a \in Answers
  <2>1. Curate!NewCard(a) \in Curate!Proposals
    BY DEF Curate!Proposals
  <2>2. Curate!NewCard(a).kind = "new_card" /\ Curate!NewCard(a).gap = a
    BY DEF Curate!NewCard
  <2> QED
    BY <2>1, <2>2 DEF Curate!HomeOf
<1> QED
  BY <1>1, <1>2, <1>3, <1>4

\* Every proposal is of one of them.
LEMMA OfSomeKind ==
    ASSUME NEW p \in Curate!Proposals
    PROVE  \/ \E c \in Cards, v, w \in Values : p = Curate!Edit(c, v, w)
           \/ \E n \in Lessons : p = Curate!Lesson(n)
           \/ \E c \in Cards : p = Curate!Deprecation(c)
           \/ \E a \in Answers : p = Curate!NewCard(a)
BY DEF Curate!Proposals

\* A proposal by the place it lands.
LEMMA ByHome ==
    ASSUME NEW p \in Curate!Proposals
    PROVE  /\ Curate!HomeOf(p) \in {"card_field", "note", "card_lesson", "deprecate", "new_card"}
           /\ Curate!HomeOf(p) = "card_field" => p.card \in Cards /\ p.after \in Values
           /\ Curate!HomeOf(p) = "card_lesson" =>
                 p.lesson \in Lessons /\ p.card \in Cards /\ p.card = LessonCard[p.lesson]
                 /\ p = Curate!Lesson(p.lesson)
           /\ Curate!HomeOf(p) = "deprecate" => p.card \in Cards
           /\ Curate!HomeOf(p) = "new_card" => p.gap \in Answers
<1>1. CASE \E c \in Cards, v, w \in Values : p = Curate!Edit(c, v, w)
  BY <1>1, Kinds
<1>2. CASE \E n \in Lessons : p = Curate!Lesson(n)
  BY <1>2, Kinds, CurateConstants
<1>3. CASE \E c \in Cards : p = Curate!Deprecation(c)
  BY <1>3, Kinds
<1>4. CASE \E a \in Answers : p = Curate!NewCard(a)
  BY <1>4, Kinds
<1> QED
  BY <1>1, <1>2, <1>3, <1>4, OfSomeKind

\* Whether the store carries a proposal is a matter of the lists of its cards.
LEMMA CarriedStays ==
    ASSUME UNCHANGED <<field, lessons, deprecated, minted>>
    PROVE  \A p \in Curate!Proposals : Curate!Carried(p)' <=> Curate!Carried(p)
BY DEF Curate!Carried

\* Nothing was proposed yet.
LEMMA CurateInit == Init => CurateInv
<1> SUFFICES ASSUME Curate!Init PROVE CurateInv
  BY DEF Init
<1> USE DEF Curate!Init
<1>1. CurateTypes
  <2>1. lessons \in [Cards -> Seq(Lessons)] /\ \A c \in Cards : Len(lessons[c]) = 0
    BY EmptySeq
  <2>2. \A c \in Cards : \A i \in 1..Len(lessons[c]) : LessonCard[lessons[c][i]] = c
    BY <2>1
  <2> QED
    BY <2>1, <2>2, EmptySeq DEF CurateTypes
<1>2. Staged
  BY DEF Staged
<1>3. Untouched
  <2>1. \A n \in Lessons : LessonCard[n] # NoCard => ~Curate!Carried(Curate!Lesson(n))
    <3> TAKE n \in Lessons
    <3> HAVE LessonCard[n] # NoCard
    <3>1. Curate!Range(lessons[LessonCard[n]]) = {}
      BY CurateConstants DEF Curate!Range
    <3> QED
      BY <3>1, Kinds DEF Curate!Carried
  <2> QED
    BY <2>1 DEF Untouched
<1>4. Accounted /\ Curate!AcceptedIsCarried
  BY DEF Accounted, Curate!AcceptedIsCarried
<1>5. Curate!LandsOnce
  BY DEF Curate!LandsOnce, Curate!IsInjective
<1> QED
  BY <1>1, <1>2, <1>3, <1>4, <1>5 DEF CurateInv

\* The records of proposals move while no merge runs: they are opened or rejected.
LEMMA CurateStatus ==
    ASSUME CurateInv, pc = "idle",
           UNCHANGED <<field, lessons, deprecated, minted, pc, staged, done, answer, logged, faults>>,
           status' \in [Curate!Proposals -> {"absent", "proposed", "accepted", "rejected"}],
           \A p \in Curate!Proposals : status'[p] = "accepted" <=> status[p] = "accepted",
           reads' \subseteq {Curate!Edit(c, v, w) : c \in Cards, v \in Values, w \in Values}
    PROVE  CurateInv'
<1>1. CurateTypes'
  BY DEF CurateInv, CurateTypes
<1>2. staged = <<>> /\ done = <<>>
  BY DEF CurateInv, Staged
<1>3. Staged'
  BY <1>2 DEF Staged
<1>4. Untouched'
  <2>1. \A n \in Lessons : Curate!Carried(Curate!Lesson(n))' <=> Curate!Carried(Curate!Lesson(n))
    BY CarriedStays, Kinds
  <2> QED
    BY <2>1, Kinds DEF CurateInv, Untouched
<1>5. Accounted'
  BY DEF CurateInv, Accounted, Curate!Faulted
<1>6. Curate!AcceptedIsCarried'
  BY CarriedStays DEF CurateInv, Curate!AcceptedIsCarried
<1>7. Curate!LandsOnce'
  BY DEF CurateInv, Curate!LandsOnce
<1> QED
  BY <1>1, <1>3, <1>4, <1>5, <1>6, <1>7 DEF CurateInv

\* A card is read, or cited by a draft, whatever the merge does.
LEMMA CurateAside ==
    ASSUME CurateInv,
           UNCHANGED <<field, lessons, deprecated, minted, status, pc, staged, done, answer, logged,
                       faults>>,
           reads' \subseteq {Curate!Edit(c, v, w) : c \in Cards, v \in Values, w \in Values}
    PROVE  CurateInv'
<1>1. CurateTypes'
  BY DEF CurateInv, CurateTypes
<1>2. Staged'
  <2>1. pc = "decide" => Head(staged) \in Curate!Proposals
    BY DEF CurateInv, CurateTypes, Staged
  <2>2. pc = "decide" => Curate!Carried(Head(staged))'
    BY <2>1, CarriedStays DEF CurateInv, Staged
  <2>3. (pc = "decide" => Curate!Carried(Head(staged)))'
    BY <2>2
  <2>4. /\ pc' = "idle" => staged' = <<>> /\ done' = <<>>
        /\ pc' \in {"apply", "decide"} => staged' # <<>>
        /\ \A i \in 1..Len(staged') : status'[staged'[i]] = "proposed"
        /\ \A i, j \in 1..Len(staged') : staged'[i] = staged'[j] => i = j
    BY DEF CurateInv, Staged
  <2> QED
    BY <2>3, <2>4 DEF Staged
<1>3. Untouched'
  <2>1. \A n \in Lessons : Curate!Carried(Curate!Lesson(n))' <=> Curate!Carried(Curate!Lesson(n))
    BY CarriedStays, Kinds
  <2> QED
    BY <2>1, Kinds DEF CurateInv, Untouched
<1>4. Accounted'
  BY DEF CurateInv, Accounted, Curate!Faulted
<1>5. Curate!AcceptedIsCarried'
  BY CarriedStays DEF CurateInv, Curate!AcceptedIsCarried
<1>6. Curate!LandsOnce'
  BY DEF CurateInv, Curate!LandsOnce
<1> QED
  BY <1>1, <1>2, <1>3, <1>4, <1>5, <1>6 DEF CurateInv

\* Proposals are opened and rejected, cards read and cited.
LEMMA CurateOpens ==
    ASSUME CurateInv,
           \/ \E c \in Cards : Curate!ProposeDeprecation(c) \/ Curate!Cite(c)
                               \/ \E w \in Values : Curate!ReadCard(c, w)
           \/ Curate!OpenImport
           \/ \E p \in Curate!Proposals :
                 Curate!OpenEdit(p) \/ Curate!OpenLearned(p) \/ Curate!Reject(p)
    PROVE  CurateInv'
<1> USE DEF Curate!store, Curate!batch
<1>0. /\ status \in [Curate!Proposals -> {"absent", "proposed", "accepted", "rejected"}]
      /\ reads \subseteq {Curate!Edit(c, v, w) : c \in Cards, v \in Values, w \in Values}
      /\ field \in [Cards -> Values]
  BY DEF CurateInv, CurateTypes
<1>1. ASSUME NEW p \in Curate!Proposals, Curate!Open(p)
      PROVE  /\ status' \in [Curate!Proposals -> {"absent", "proposed", "accepted", "rejected"}]
             /\ \A q \in Curate!Proposals : status'[q] = "accepted" <=> status[q] = "accepted"
  BY <1>0, <1>1 DEF Curate!Open
<1>2. ASSUME NEW c \in Cards, Curate!ProposeDeprecation(c) PROVE CurateInv'
  <2>1. Curate!Deprecation(c) \in Curate!Proposals
    BY Kinds
  <2> QED
    BY <1>0, <1>1, <1>2, <2>1, CurateStatus DEF Curate!ProposeDeprecation
<1>3. ASSUME NEW c \in Cards, Curate!Cite(c) PROVE CurateInv'
  BY <1>0, <1>3, CurateAside DEF Curate!Cite
<1>4. ASSUME NEW c \in Cards, NEW w \in Values, Curate!ReadCard(c, w) PROVE CurateInv'
  BY <1>0, <1>4, CurateAside DEF Curate!ReadCard
<1>5. CASE Curate!OpenImport
  BY <1>0, <1>5, CurateStatus DEF Curate!OpenImport
<1>6. ASSUME NEW p \in Curate!Proposals, Curate!OpenEdit(p) PROVE CurateInv'
  BY <1>0, <1>1, <1>6, CurateStatus DEF Curate!OpenEdit
<1>7. ASSUME NEW p \in Curate!Proposals, Curate!OpenLearned(p) PROVE CurateInv'
  BY <1>0, <1>1, <1>7, CurateStatus DEF Curate!OpenLearned
<1>8. ASSUME NEW p \in Curate!Proposals, Curate!Reject(p) PROVE CurateInv'
  BY <1>0, <1>8, CurateStatus DEF Curate!Reject
<1> QED
  BY <1>2, <1>3, <1>4, <1>5, <1>6, <1>7, <1>8

\* A batch is staged: open proposals, told apart.
LEMMA CurateMerges ==
    ASSUME CurateInv, NEW ids \in Curate!Batches, Curate!IsInjective(ids), Curate!Merge(ids)
    PROVE  CurateInv'
<1> USE DEF Curate!store
<1>0. ids \in Seq(Curate!Proposals) /\ ids # <<>>
  <2>1. CASE \E p \in Curate!Proposals : ids = <<p>>
    <3>1. PICK p \in Curate!Proposals : ids = <<p>>
      BY <2>1
    <3>2. <<p>> \in Seq(Curate!Proposals) /\ <<p>> # <<>>
      OBVIOUS
    <3> QED
      BY <3>1, <3>2
  <2>2. CASE \E p, q \in Curate!Proposals : ids = <<p, q>>
    <3>1. PICK p, q \in Curate!Proposals : ids = <<p, q>>
      BY <2>2
    <3>2. <<p, q>> \in Seq(Curate!Proposals) /\ <<p, q>> # <<>>
      OBVIOUS
    <3> QED
      BY <3>1, <3>2
  <2> QED
    BY <2>1, <2>2 DEF Curate!Batches
<1>1. /\ pc = "idle" /\ pc' = "apply" /\ staged' = ids /\ done' = <<>> /\ answer' = "none"
      /\ UNCHANGED <<field, lessons, deprecated, minted, status, reads, logged, faults>>
  BY DEF Curate!Merge, Curate!Stageable
<1>2. CurateTypes'
  <2>1. staged' \in Seq(Curate!Proposals) /\ done' \in Seq(Curate!Proposals)
    BY <1>0, <1>1, EmptySeq
  <2> QED
    BY <1>1, <2>1 DEF CurateInv, CurateTypes
<1>3. Staged'
  <2>1. \A i \in 1..Len(ids) : status[ids[i]] = "proposed"
    BY <1>0 DEF Curate!Merge, Curate!Stageable, Curate!Applies
  <2>2. \A i, j \in 1..Len(ids) : ids[i] = ids[j] => i = j
    BY <1>0 DEF Curate!IsInjective
  <2> QED
    BY <1>0, <1>1, <2>1, <2>2 DEF Staged
<1>4. done = <<>>
  BY <1>1 DEF CurateInv, Staged
<1>5. Untouched'
  <2>1. \A n \in Lessons : Curate!Carried(Curate!Lesson(n))' <=> Curate!Carried(Curate!Lesson(n))
    BY <1>1, CarriedStays, Kinds
  <2> QED
    BY <1>1, <2>1, Kinds DEF CurateInv, Untouched
<1>6. Accounted'
  BY <1>1, <1>4 DEF CurateInv, Accounted, Curate!Faulted
<1>7. Curate!AcceptedIsCarried'
  BY <1>1, CarriedStays DEF CurateInv, Curate!AcceptedIsCarried
<1>8. Curate!LandsOnce'
  BY <1>1 DEF CurateInv, Curate!LandsOnce
<1> QED
  BY <1>2, <1>3, <1>5, <1>6, <1>7, <1>8 DEF CurateInv

\* The merge is over, refused, cut off or killed; or its line is written.
LEMMA CurateEnds ==
    ASSUME CurateInv, Curate!Refuse \/ Curate!WriteLog \/ Curate!Raise \/ Curate!Kill
    PROVE  CurateInv'
<1> USE DEF Curate!store
<1>1. /\ UNCHANGED <<field, lessons, deprecated, minted, status>>
      /\ pc' \in {"idle", "log"} /\ answer' \in {"none", "refused", "died"}
      /\ \/ UNCHANGED staged
         \/ staged' = <<>>
      /\ UNCHANGED done \/ done' = <<>>
      /\ pc' = "idle" => staged' = <<>> /\ done' = <<>>
      /\ reads' \in {reads, {}}
      /\ logged' \in {logged, logged \cup Curate!LineOf}
      /\ \E w \in {"raised", "killed"} : faults' \in {faults, Append(faults, w)}
  BY DEF Curate!Refuse, Curate!WriteLog, Curate!Raise, Curate!Kill, CurateInv, CurateTypes
<1>2. staged \in Seq(Curate!Proposals) /\ done \in Seq(Curate!Proposals)
      /\ faults \in Seq({"raised", "killed"})
  BY DEF CurateInv, CurateTypes
<1>3. Curate!LineOf \subseteq Curate!Proposals
  BY <1>2 DEF Curate!LineOf, Curate!Range
<1>4. CurateTypes'
  <2>1. staged' \in Seq(Curate!Proposals) /\ done' \in Seq(Curate!Proposals)
    BY <1>1, <1>2, EmptySeq
  <2>2. faults' \in Seq({"raised", "killed"})
    <3>1. PICK w \in {"raised", "killed"} : faults' \in {faults, Append(faults, w)}
      BY <1>1
    <3>2. Append(faults, w) \in Seq({"raised", "killed"})
      BY ONLY <1>2, w \in {"raised", "killed"}
    <3> QED
      BY ONLY <1>2, <3>1, <3>2
  <2>3. logged' \subseteq Curate!Proposals
    BY <1>1, <1>3 DEF CurateInv, CurateTypes
  <2>4. /\ field' \in [Cards -> Values] /\ deprecated' \subseteq Cards \ Held
        /\ minted' \subseteq Curate!Range(Body) /\ lessons' \in [Cards -> Seq(Lessons)]
        /\ \A c \in Cards : \A i \in 1..Len(lessons'[c]) : LessonCard[lessons'[c][i]] = c
        /\ status' \in [Curate!Proposals -> {"absent", "proposed", "accepted", "rejected"}]
    BY <1>1 DEF CurateInv, CurateTypes
  <2>5. reads' \subseteq {Curate!Edit(c, v, w) : c \in Cards, v \in Values, w \in Values}
    BY <1>1 DEF CurateInv, CurateTypes
  <2> QED
    BY <1>1, <2>1, <2>2, <2>3, <2>4, <2>5 DEF CurateTypes
<1>5. Staged'
  BY <1>1 DEF CurateInv, Staged
<1>6. Untouched'
  <2>1. \A n \in Lessons : Curate!Carried(Curate!Lesson(n))' <=> Curate!Carried(Curate!Lesson(n))
    BY <1>1, CarriedStays, Kinds
  <2>2. faults' = <<>> => faults = <<>> /\ pc # "decide"
    BY <1>2 DEF Curate!Refuse, Curate!WriteLog, Curate!Raise, Curate!Kill
  <2> QED
    BY <1>1, <2>1, <2>2, Kinds DEF CurateInv, Untouched
<1>7. Accounted'
  <2>1. CASE Curate!Kill
    <3>1. faults'[Len(faults')] = "killed" /\ Len(faults') \in DOMAIN faults'
      BY <1>2, <2>1 DEF Curate!Kill
    <3> QED
      BY <3>1 DEF Accounted, Curate!Faulted, Curate!Range
  <2>2. CASE Curate!Refuse
    BY <2>2 DEF Curate!Refuse, CurateInv, Accounted, Curate!Faulted
  <2>3. CASE Curate!Raise
    <3>1. Curate!Faulted("killed") => Curate!Faulted("killed")'
      <4> HAVE Curate!Faulted("killed")
      <4>1. PICK i \in DOMAIN faults : faults[i] = "killed"
        BY DEF Curate!Faulted, Curate!Range
      <4>2. faults' = Append(faults, "raised")
        BY <2>3 DEF Curate!Raise
      <4>3. i \in DOMAIN faults' /\ faults'[i] = "killed"
        BY <1>2, <4>1, <4>2
      <4> QED
        BY <4>3 DEF Curate!Faulted, Curate!Range
    <3> QED
      BY <2>3, <3>1 DEF Curate!Raise, CurateInv, Accounted
  <2>4. CASE Curate!WriteLog
    <3>1. faults' = faults /\ logged' = logged \cup Curate!Range(done) /\ status' = status
      BY <2>4 DEF Curate!WriteLog, Curate!LineOf
    <3> QED
      BY <3>1 DEF CurateInv, Accounted, Curate!Faulted
  <2> QED
    BY <2>1, <2>2, <2>3, <2>4
<1>8. Curate!AcceptedIsCarried'
  BY <1>1, CarriedStays DEF CurateInv, Curate!AcceptedIsCarried
<1>9. Curate!LandsOnce'
  BY <1>1 DEF CurateInv, Curate!LandsOnce
<1> QED
  BY <1>4, <1>5, <1>6, <1>7, <1>8, <1>9 DEF CurateInv

\* What is decided is in the store already.
LEMMA CurateDecides == ASSUME CurateInv, Curate!Decide PROVE CurateInv'
<1> USE DEF Curate!store
<1> DEFINE p == Head(staged)
<1>1. /\ pc = "decide" /\ pc' \in {"log", "apply"} /\ answer' \in {answer, "merged"}
      /\ status' = [status EXCEPT ![p] = "accepted"]
      /\ done' = Append(done, p) /\ staged' = Tail(staged)
      /\ pc' = "apply" => Tail(staged) # <<>>
      /\ UNCHANGED <<field, lessons, deprecated, minted, reads, logged, faults>>
  BY DEF Curate!Decide
<1>2. /\ staged \in Seq(Curate!Proposals) /\ staged # <<>> /\ done \in Seq(Curate!Proposals)
      /\ \A i, j \in 1..Len(staged) : staged[i] = staged[j] => i = j
      /\ \A i \in 1..Len(staged) : status[staged[i]] = "proposed"
      /\ status \in [Curate!Proposals -> {"absent", "proposed", "accepted", "rejected"}]
  BY <1>1 DEF CurateInv, CurateTypes, Staged
<1>3. p \in Curate!Proposals /\ p = staged[1] /\ status[p] = "proposed"
  BY <1>2
<1>4. /\ Tail(staged) \in Seq(Curate!Proposals) /\ Len(Tail(staged)) = Len(staged) - 1
      /\ \A i \in 1..Len(Tail(staged)) : Tail(staged)[i] = staged[i + 1]
  BY <1>2
<1>5. \A q \in Curate!Proposals : status'[q] = IF q = p THEN "accepted" ELSE status[q]
  BY <1>1, <1>2
<1> HIDE DEF p
<1>6. CurateTypes'
  <2>1. status' \in [Curate!Proposals -> {"absent", "proposed", "accepted", "rejected"}]
    BY <1>1, <1>2
  <2>2. done' \in Seq(Curate!Proposals) /\ staged' \in Seq(Curate!Proposals)
    BY <1>1, <1>2, <1>3, <1>4
  <2> QED
    BY <1>1, <2>1, <2>2 DEF CurateInv, CurateTypes
<1>7. Staged'
  <2>1. \A i \in 1..Len(Tail(staged)) : i + 1 \in 1..Len(staged) /\ Tail(staged)[i] # p
    BY <1>2, <1>3, <1>4
  <2>2. \A i \in 1..Len(staged') : status'[staged'[i]] = "proposed"
    BY <1>1, <1>2, <1>4, <1>5, <2>1
  <2>3. \A i, j \in 1..Len(staged') : staged'[i] = staged'[j] => i = j
    <3> TAKE i, j \in 1..Len(staged')
    <3>1. i + 1 \in 1..Len(staged) /\ j + 1 \in 1..Len(staged)
      BY <1>1, <2>1
    <3>2. staged'[i] = staged[i + 1] /\ staged'[j] = staged[j + 1]
      BY <1>1, <1>4
    <3>3. staged[i + 1] = staged[j + 1] => i + 1 = j + 1
      BY <1>2, <3>1
    <3> QED
      BY <3>2, <3>3
  <2> QED
    BY <1>1, <2>2, <2>3 DEF Staged
<1>8. Untouched'
  <2>1. \A n \in Lessons : Curate!Carried(Curate!Lesson(n))' <=> Curate!Carried(Curate!Lesson(n))
    BY <1>1, CarriedStays, Kinds
  <2>2. \A n \in Lessons : status[Curate!Lesson(n)] = "accepted" \/ Curate!Lesson(n) = p
                           => status'[Curate!Lesson(n)] = "accepted"
    BY <1>5, Kinds
  <2> QED
    BY <1>1, <2>1, <2>2 DEF CurateInv, Untouched, p
<1>9. Accounted'
  <2>1. Curate!Range(done') = Curate!Range(done) \cup {p}
    <3>1. /\ DOMAIN done' = 1..Len(done) + 1 /\ DOMAIN done = 1..Len(done)
          /\ Len(done) \in Nat
          /\ \A i \in 1..Len(done) : done'[i] = done[i]
          /\ done'[Len(done) + 1] = p
      BY <1>1, <1>2, <1>3
    <3>2. \A i \in 1..Len(done) + 1 : i \in 1..Len(done) \/ i = Len(done) + 1
      BY <3>1
    <3>3. \A i \in 1..Len(done) : i \in 1..Len(done) + 1
      BY <3>1
    <3>4. Len(done) + 1 \in 1..Len(done) + 1
      BY <3>1
    <3>5. \A x : x \in Curate!Range(done') <=> x \in Curate!Range(done) \cup {p}
      BY <3>1, <3>2, <3>3, <3>4 DEF Curate!Range
    <3> QED
      BY <3>5
  <2> QED
    BY <1>1, <1>5, <2>1 DEF CurateInv, Accounted, Curate!Faulted
<1>10. Curate!AcceptedIsCarried'
  <2>1. Curate!Carried(p)
    BY <1>1 DEF CurateInv, Staged, p
  <2>2. \A q \in Curate!Proposals : status'[q] = "accepted" => Curate!Carried(q)
    BY <1>5, <2>1 DEF CurateInv, Curate!AcceptedIsCarried
  <2> QED
    BY <1>1, <2>2, CarriedStays DEF Curate!AcceptedIsCarried
<1>11. Curate!LandsOnce'
  BY <1>1 DEF CurateInv, Curate!LandsOnce
<1> QED
  BY <1>6, <1>7, <1>8, <1>9, <1>10, <1>11 DEF CurateInv

\* What is written is carried, what was carried stays so, and no lesson lands twice.
LEMMA CurateApplies == ASSUME CurateInv, Curate!Apply PROVE CurateInv'
<1> USE DEF Curate!store
<1>0. staged \in Seq(Curate!Proposals) /\ staged # <<>>
  BY DEF CurateInv, CurateTypes, Staged, Curate!Apply
<1>p. PICK p \in Curate!Proposals : p = Head(staged)
  BY <1>0
<1>1. /\ pc = "apply" /\ pc' = "decide" /\ Curate!Applies(p) /\ Curate!Write(p)
      /\ UNCHANGED <<status, reads, staged, done, answer, logged, faults>>
  BY <1>p DEF Curate!Apply
<1>2. /\ staged \in Seq(Curate!Proposals) /\ staged # <<>>
      /\ lessons \in [Cards -> Seq(Lessons)] /\ field \in [Cards -> Values]
  BY <1>1 DEF CurateInv, CurateTypes, Staged
<1>3. p \in Curate!Proposals /\ p = staged[1] /\ 1 \in 1..Len(staged)
  BY <1>2, <1>p
<1>4. status[p] = "proposed"
  BY <1>1 DEF Curate!Applies
<1>5. /\ Curate!HomeOf(p) = "card_field" => p.card \in Cards /\ p.after \in Values
      /\ Curate!HomeOf(p) = "card_lesson" =>
            p.lesson \in Lessons /\ p.card \in Cards /\ p.card = LessonCard[p.lesson]
            /\ p = Curate!Lesson(p.lesson)
      /\ Curate!HomeOf(p) = "deprecate" => p.card \in Cards
      /\ Curate!HomeOf(p) = "new_card" => p.gap \in Answers
  BY <1>3, ByHome
\* The lessons of a card: the new one is added behind, unless it is there.
<1>6. /\ lessons' \in [Cards -> Seq(Lessons)]
      /\ \A c \in Cards : \/ lessons'[c] = lessons[c]
                          \/ /\ Curate!HomeOf(p) = "card_lesson" /\ c = p.card
                             /\ p.lesson \notin Curate!Range(lessons[c])
                             /\ lessons'[c] = Append(lessons[c], p.lesson)
      /\ Curate!HomeOf(p) = "card_lesson" =>
            \/ p.lesson \in Curate!Range(lessons[p.card]) /\ lessons'[p.card] = lessons[p.card]
            \/ lessons'[p.card] = Append(lessons[p.card], p.lesson)
  <2>1. CASE Curate!HomeOf(p) = "card_lesson"
    <3> DEFINE held == lessons[p.card]
               new == Curate!AppendLesson(held, p.lesson)
    <3>1. held \in Seq(Lessons)
      BY <1>2, <1>5, <2>1
    <3>2. \/ p.lesson \in Curate!Range(held) /\ new = held
          \/ p.lesson \notin Curate!Range(held) /\ new = Append(held, p.lesson)
      BY DEF Curate!AppendLesson
    <3>3. new \in Seq(Lessons)
      BY <1>5, <2>1, <3>1, <3>2
    <3>4. lessons' = [lessons EXCEPT ![p.card] = new]
      BY <1>1, <2>1 DEF Curate!Write
    <3> HIDE DEF new
    <3>5. lessons' \in [Cards -> Seq(Lessons)]
      BY <1>2, <1>5, <2>1, <3>3, <3>4
    <3>6. lessons'[p.card] = new /\ \A c \in Cards : c # p.card => lessons'[c] = lessons[c]
      BY <1>2, <1>5, <2>1, <3>4
    <3> QED
      BY <2>1, <3>2, <3>5, <3>6
  <2>2. CASE Curate!HomeOf(p) # "card_lesson"
    <3>1. lessons' = lessons
      BY <1>1, <2>2 DEF Curate!Write
    <3> QED
      BY <1>2, <2>2, <3>1
  <2> QED
    BY <2>1, <2>2
<1>7. \A c \in Cards :
         /\ Curate!Range(lessons[c]) \subseteq Curate!Range(lessons'[c])
         /\ \A n \in Curate!Range(lessons'[c]) :
               n \in Curate!Range(lessons[c])
               \/ (Curate!HomeOf(p) = "card_lesson" /\ n = p.lesson)
         /\ Curate!HomeOf(p) = "card_lesson" /\ c = p.card => p.lesson \in Curate!Range(lessons'[c])
  <2> TAKE c \in Cards
  <2>1. lessons[c] \in Seq(Lessons)
    BY <1>2
  <2>2. CASE lessons'[c] = lessons[c]
    BY <1>6, <2>2
  <2>3. CASE Curate!HomeOf(p) = "card_lesson" /\ c = p.card
             /\ lessons'[c] = Append(lessons[c], p.lesson)
    <3>1. /\ DOMAIN lessons[c] = 1..Len(lessons[c]) /\ Len(lessons[c]) \in Nat
          /\ DOMAIN lessons'[c] = 1..Len(lessons[c]) + 1
          /\ \A i \in 1..Len(lessons[c]) : lessons'[c][i] = lessons[c][i]
          /\ lessons'[c][Len(lessons[c]) + 1] = p.lesson
      BY <1>5, <2>1, <2>3
    <3>2. \A i \in 1..Len(lessons[c]) + 1 : i \in 1..Len(lessons[c]) \/ i = Len(lessons[c]) + 1
      BY <3>1
    <3>3. \A i \in 1..Len(lessons[c]) : i \in 1..Len(lessons[c]) + 1
      BY <3>1
    <3>4. Len(lessons[c]) + 1 \in 1..Len(lessons[c]) + 1
      BY <3>1
    <3> QED
      BY <2>3, <3>1, <3>2, <3>3, <3>4 DEF Curate!Range
  <2> QED
    BY <1>6, <2>2, <2>3
\* What a proposal asks for is carried as it was before, or since this very step.
<1>8. Curate!Carried(p)'
  <2>1. CASE Curate!HomeOf(p) = "card_lesson"
    BY <1>5, <1>7, <2>1 DEF Curate!Carried
  <2>2. CASE Curate!HomeOf(p) = "deprecate"
    BY <1>1, <2>2 DEF Curate!Carried, Curate!Write
  <2>3. CASE Curate!HomeOf(p) = "new_card"
    BY <1>1, <2>3 DEF Curate!Carried, Curate!Write
  <2>4. CASE Curate!HomeOf(p) \in {"card_field", "note"}
    BY <2>4 DEF Curate!Carried
  <2> QED
    BY <1>3, <2>1, <2>2, <2>3, <2>4, ByHome
<1>9. \A q \in Curate!Proposals : Curate!Carried(q) => Curate!Carried(q)'
  <2> TAKE q \in Curate!Proposals
  <2>0. deprecated \subseteq deprecated' /\ minted \subseteq minted'
    BY <1>1 DEF Curate!Write
  <2>1. CASE Curate!HomeOf(q) = "card_lesson"
    <3>1. q.card \in Cards
      BY <2>1, ByHome
    <3> QED
      BY <1>7, <2>1, <3>1 DEF Curate!Carried
  <2>2. CASE Curate!HomeOf(q) = "deprecate"
    BY <2>0, <2>2 DEF Curate!Carried
  <2>3. CASE Curate!HomeOf(q) = "new_card"
    BY <2>0, <2>3 DEF Curate!Carried
  <2>4. CASE Curate!HomeOf(q) \in {"card_field", "note"}
    BY <2>4 DEF Curate!Carried
  <2> QED
    BY <2>1, <2>2, <2>3, <2>4, ByHome
<1>10. \A n \in Lessons : LessonCard[n] # NoCard /\ Curate!Carried(Curate!Lesson(n))'
          => Curate!Carried(Curate!Lesson(n)) \/ Curate!Lesson(n) = p
  <2> TAKE n \in Lessons
  <2> HAVE LessonCard[n] # NoCard /\ Curate!Carried(Curate!Lesson(n))'
  <2>1. /\ Curate!HomeOf(Curate!Lesson(n)) = "card_lesson"
        /\ Curate!Lesson(n).card = LessonCard[n] /\ Curate!Lesson(n).lesson = n
        /\ LessonCard[n] \in Cards
    BY Kinds, CurateConstants
  <2>2. n \in Curate!Range(lessons'[LessonCard[n]])
    BY <2>1 DEF Curate!Carried
  <2>3. n \in Curate!Range(lessons[LessonCard[n]])
        \/ (Curate!HomeOf(p) = "card_lesson" /\ n = p.lesson)
    BY <1>7, <2>1, <2>2
  <2> QED
    BY <1>5, <2>1, <2>3 DEF Curate!Carried
<1>11. CurateTypes'
  <2>1. field' \in [Cards -> Values]
    BY <1>1, <1>2, <1>5 DEF Curate!Write
  <2>2. deprecated' \subseteq Cards \ Held
    BY <1>1, <1>5 DEF Curate!Write, Curate!Applies, CurateInv, CurateTypes
  <2>3. minted' \subseteq Curate!Range(Body)
    BY <1>1, <1>5, CurateConstants DEF Curate!Write, Curate!Range, CurateInv, CurateTypes
  <2>4. \A c \in Cards : \A i \in 1..Len(lessons'[c]) : LessonCard[lessons'[c][i]] = c
    <3> TAKE c \in Cards
    <3>1. /\ lessons[c] \in Seq(Lessons)
          /\ \A i \in 1..Len(lessons[c]) : LessonCard[lessons[c][i]] = c
      BY <1>2 DEF CurateInv, CurateTypes
    <3>2. CASE lessons'[c] = lessons[c]
      BY <3>1, <3>2
    <3>3. CASE Curate!HomeOf(p) = "card_lesson" /\ c = p.card
               /\ lessons'[c] = Append(lessons[c], p.lesson)
      <4>1. /\ Len(lessons'[c]) = Len(lessons[c]) + 1 /\ Len(lessons[c]) \in Nat
            /\ \A i \in 1..Len(lessons[c]) : lessons'[c][i] = lessons[c][i]
            /\ lessons'[c][Len(lessons[c]) + 1] = p.lesson
        BY <1>5, <3>1, <3>3
      <4>2. \A i \in 1..Len(lessons[c]) + 1 :
               i \in 1..Len(lessons[c]) \/ i = Len(lessons[c]) + 1
        BY <4>1
      <4> QED
        BY <1>5, <3>1, <3>3, <4>1, <4>2
    <3> QED
      BY <1>6, <3>2, <3>3
  <2>5. /\ status' \in [Curate!Proposals -> {"absent", "proposed", "accepted", "rejected"}]
        /\ staged' \in Seq(Curate!Proposals) /\ done' \in Seq(Curate!Proposals)
        /\ reads' \subseteq {Curate!Edit(c, v, w) : c \in Cards, v \in Values, w \in Values}
        /\ logged' \subseteq Curate!Proposals
        /\ answer' \in {"none", "merged", "refused", "died"}
        /\ faults' \in Seq({"raised", "killed"})
    BY <1>1 DEF CurateInv, CurateTypes
  <2> QED
    BY <1>1, <1>6, <2>1, <2>2, <2>3, <2>4, <2>5 DEF CurateTypes
<1>12. Staged'
  <2>1. Head(staged') = p
    BY <1>1, <1>p
  <2>2. Curate!Carried(Head(staged))'
    BY <1>8, <2>1
  <2>3. /\ \A i \in 1..Len(staged') : status'[staged'[i]] = "proposed"
        /\ \A i, j \in 1..Len(staged') : staged'[i] = staged'[j] => i = j
    BY <1>1 DEF CurateInv, Staged
  <2> QED
    BY <1>1, <1>2, <2>2, <2>3 DEF Staged
<1>13. Untouched'
  <2>1. pc # "decide" /\ pc' = "decide" /\ Head(staged') = p /\ faults' = faults /\ status' = status
    BY <1>1, <1>p
  <2>2. faults = <<>> => \A n \in Lessons :
           LessonCard[n] # NoCard /\ Curate!Carried(Curate!Lesson(n)) =>
              status[Curate!Lesson(n)] = "accepted"
    BY <2>1 DEF CurateInv, Untouched
  <2> QED
    BY <1>10, <2>1, <2>2 DEF Untouched
<1>14. Accounted'
  BY <1>1 DEF CurateInv, Accounted, Curate!Faulted
<1>15. Curate!AcceptedIsCarried'
  BY <1>1, <1>9 DEF CurateInv, Curate!AcceptedIsCarried
<1>16. Curate!LandsOnce'
  <2> SUFFICES ASSUME NEW c \in Cards PROVE Curate!IsInjective(lessons'[c])
    BY DEF Curate!LandsOnce
  <2>1. lessons[c] \in Seq(Lessons) /\ Curate!IsInjective(lessons[c])
    BY <1>2 DEF CurateInv, Curate!LandsOnce
  <2>2. CASE lessons'[c] = lessons[c]
    BY <2>1, <2>2
  <2>3. CASE /\ Curate!HomeOf(p) = "card_lesson" /\ c = p.card
             /\ p.lesson \notin Curate!Range(lessons[c])
             /\ lessons'[c] = Append(lessons[c], p.lesson)
    <3>1. /\ DOMAIN lessons'[c] = 1..Len(lessons[c]) + 1 /\ Len(lessons[c]) \in Nat
          /\ DOMAIN lessons[c] = 1..Len(lessons[c])
          /\ \A i \in 1..Len(lessons[c]) : lessons'[c][i] = lessons[c][i]
          /\ lessons'[c][Len(lessons[c]) + 1] = p.lesson
      BY <1>5, <2>1, <2>3
    <3>2. \A i \in 1..Len(lessons[c]) + 1 : i \in 1..Len(lessons[c]) \/ i = Len(lessons[c]) + 1
      BY <3>1
    <3>3. \A i \in 1..Len(lessons[c]) : lessons[c][i] # p.lesson
      BY <2>3, <3>1 DEF Curate!Range
    <3> QED
      BY <2>1, <3>1, <3>2, <3>3 DEF Curate!IsInjective
  <2> QED
    BY <1>6, <2>2, <2>3
<1> QED
  BY <1>11, <1>12, <1>13, <1>14, <1>15, <1>16 DEF CurateInv

\* Whatever else moves leaves the steward's store alone.
LEMMA CurateHolds == CurateInv /\ UNCHANGED curateVars => CurateInv'
<1> SUFFICES ASSUME CurateInv, UNCHANGED curateVars PROVE CurateInv'
  OBVIOUS
<1>1. UNCHANGED <<field, lessons, deprecated, minted, status, pc, staged, done, answer, logged,
                  faults, reads>>
  BY DEF curateVars
<1> QED
  BY <1>1, CurateAside DEF CurateInv, CurateTypes

\* The steward's invariant holds across every step of the composition.
LEMMA CurateStep == CurateInv /\ [Next]_vars => CurateInv'
<1> SUFFICES ASSUME CurateInv, [Next]_vars PROVE CurateInv'
  OBVIOUS
<1>1. CASE Curate!Next
  BY <1>1, CurateOpens, CurateMerges, CurateApplies, CurateDecides, CurateEnds DEF Curate!Next
<1>2. CASE UNCHANGED curateVars
  BY <1>2, CurateHolds
<1> QED
  BY <1>1, <1>2 DEF Next, Decide, Ship, Merge, vars

\* What a steward accepted is carried into the store, once, as he read it, with its log line,
\* through kills and raises at any step of any merge (curation.py:425-477, 511-616).
THEOREM AcceptedStaysCarried == Spec => []AcceptedIsCarried
<1>1. Init => CurateInv
  BY CurateInit
<1>2. CurateInv /\ [Next]_vars => CurateInv'
  BY CurateStep
<1>3. CurateInv => AcceptedIsCarried
  <2> SUFFICES ASSUME CurateInv PROVE AcceptedIsCarried
    OBVIOUS
  <2>1. Curate!TypeOK
    <3>1. \A c \in Cards : \A i \in DOMAIN lessons[c] : LessonCard[lessons[c][i]] = c
      BY DEF CurateInv, CurateTypes
    <3>2. Curate!Range(staged) \cup Curate!Range(done) \cup logged \subseteq Curate!Proposals
      BY DEF CurateInv, CurateTypes, Curate!Range
    <3>3. \A p \in Curate!Proposals : p \in Curate!Range(staged) => status[p] = "proposed"
      BY DEF CurateInv, CurateTypes, Staged, Curate!Range
    <3> QED
      BY <3>1, <3>2, <3>3 DEF CurateInv, CurateTypes, Curate!TypeOK
  <2>2. Curate!StewardsAgree
    <3> SUFFICES ASSUME faults = <<>>, NEW p \in Curate!Proposals,
                        status[p] = "rejected", Curate!HomeOf(p) = "card_lesson"
                 PROVE  ~Curate!Carried(p)
      BY DEF Curate!StewardsAgree, Curate!RejectedChangesNothing
    <3>1. p = Curate!Lesson(p.lesson) /\ p.lesson \in Lessons /\ LessonCard[p.lesson] # NoCard
      BY ByHome, CurateConstants
    <3>2. pc = "decide" => status[Head(staged)] = "proposed"
      <4> HAVE pc = "decide"
      <4>1. 1 \in 1..Len(staged) /\ Head(staged) = staged[1]
        BY DEF CurateInv, CurateTypes, Staged
      <4> QED
        BY <4>1 DEF CurateInv, Staged
    <3> QED
      BY <3>1, <3>2 DEF CurateInv, Untouched
  <2>3. Curate!AcceptedIsLogged
    <3> SUFFICES ASSUME pc = "idle", ~Curate!Faulted("killed"), NEW p \in Curate!Proposals,
                        status[p] = "accepted"
                 PROVE  p \in logged
      BY DEF Curate!AcceptedIsLogged
    <3>1. Curate!Range(done) = {}
      BY DEF CurateInv, Staged, Curate!Range
    <3> QED
      BY <3>1 DEF CurateInv, Accounted
  <2> QED
    BY <2>1, <2>2, <2>3 DEF AcceptedIsCarried, CurateInv
<1> QED
  BY <1>1, <1>2, <1>3, PTL DEF Spec

-----------------------------------------------------------------------------
(* The requests of Gate 0                                                  *)

Registered == {"absent", "unconfirmed", "corrected", "confirmed"}
Briefs == [values : [Review!Fields -> Texts \cup {Absent}], register : [Review!Fields -> Registered],
           org : 0..MaxOrgs, stamped : BOOLEAN, gaps : [Review!Gaps -> Review!GapStates]]
Askings == [at : {"idle", "org", "minting", "mint", "linking", "fixing"}, brief : Briefs,
            org : 0..MaxOrgs, seen : SUBSET (Pursuits \cup {Elder})]

ReviewTypes ==
    /\ saved \in [Pursuits -> Briefs] /\ asking \in [Pursuits -> Askings]
    /\ orgs \in [1..MaxOrgs -> SUBSET (Pursuits \cup {Elder})]
    /\ minter \in Pursuits \cup {Review!Nobody}
    /\ spawned \subseteq Pursuits \X Review!Gaps /\ pinged \subseteq Pursuits \X Review!Gaps
    /\ requests \in 0..MaxRequests

\* A number is the one its text states.
Numeric(brief) == brief.values["weight"] = Review!Parse(brief.values["weight_text"])

\* The copy a request works on keeps what is settled, and names what it corrected.
Fits(brief, ask) ==
    /\ Numeric(ask.brief)
    /\ ask.at # "idle" =>
          /\ \A g \in Review!Gaps : brief.gaps[g] \in {"answered", "skipped"} =>
                ask.brief.gaps[g] = brief.gaps[g]
          /\ \A f \in Review!Texted : ask.brief.values[f] # brief.values[f] =>
                ask.brief.register[f] = "corrected"
Fitting == \A p \in Pursuits : Numeric(saved[p]) /\ Fits(saved[p], asking[p])

\* The organisations are numbered as they were minted; whoever is about to mint holds the
\* lock and has the next number, whoever is about to link has a number that is known.
Minting ==
    /\ mints \in 1..MaxOrgs /\ Review!Known = 1..mints
    /\ \A p \in Pursuits :
          /\ asking[p].at = "mint" =>
                minter = p /\ asking[p].org = mints + 1 /\ mints + 1 \in 1..MaxOrgs
          /\ asking[p].at = "linking" => asking[p].org \in 1..mints

ReviewInv == ReviewTypes /\ Fitting /\ Minting

\* What is assumed of the constants of Gate 0.
LEMMA ReviewConstants ==
    /\ Absent \notin Texts /\ Absent \notin Pursuits /\ Stated \subseteq Texts
    /\ MaxOrgs \in Nat /\ MaxRequests \in Nat /\ MaxOrgs > 0
    /\ \A p \in Pursuits : Wires[p] \subseteq
          [weight : Texts \cup {Absent}, date : Texts \cup {Absent},
           shown : BOOLEAN, asked : SUBSET Questions]
BY RecordConstants DEF Review!ReviewAssumption

\* What a text states is a text or nothing.
LEMMA Parsed ==
    /\ Review!Parse(Absent) = Absent
    /\ \A text \in Texts \cup {Absent} : Review!Parse(text) \in Texts \cup {Absent}
BY ReviewConstants DEF Review!Parse

\* What the model returned becomes a brief whose number is its text's.
LEMMA AssembledBrief ==
    ASSUME NEW p \in Pursuits, NEW wire \in Wires[p]
    PROVE  Review!Assembled(wire) \in Briefs /\ Numeric(Review!Assembled(wire))
<1>1. wire.weight \in Texts \cup {Absent} /\ wire.date \in Texts \cup {Absent}
  BY ReviewConstants
<1> DEFINE values == [f \in Review!Fields |->
            CASE f = "weight_text" -> wire.weight [] f = "weight" -> Review!Parse(wire.weight)
              [] f = "date_text" -> wire.date     [] f = "date" -> Review!Parse(wire.date)]
           gaps == [g \in Review!Gaps |->
                       IF g \in Review!Misses(values, wire.shown) \cup (wire.asked \cap Crisp)
                       THEN "open" ELSE "absent"]
<1>2. /\ \A f \in Review!Fields : f \in {"weight_text", "date_text", "weight", "date"}
      /\ {"weight", "weight_text"} \subseteq Review!Fields
  BY DEF Review!Fields, Review!Texted
<1>3. values \in [Review!Fields -> Texts \cup {Absent}]
  BY <1>1, <1>2, Parsed
<1>4. values["weight"] = Review!Parse(values["weight_text"])
  BY <1>2
<1>5. gaps \in [Review!Gaps -> Review!GapStates]
  BY DEF Review!GapStates
<1>6. Review!Assembled(wire) = [values |-> values, register |-> Review!Register(values),
                                org |-> 0, stamped |-> FALSE, gaps |-> gaps]
  BY DEF Review!Assembled
<1> HIDE DEF values, gaps
<1>7. Review!Register(values) \in [Review!Fields -> Registered]
  BY DEF Review!Register, Registered
<1> QED
  BY <1>3, <1>4, <1>5, <1>6, <1>7, ReviewConstants DEF Briefs, Numeric

\* A request that begins works on the brief as it is saved.
LEMMA FreshAsking ==
    ASSUME ReviewTypes, Fitting, NEW p \in Pursuits
    PROVE  /\ Review!NoRequest(p) \in Askings /\ Fits(saved[p], Review!NoRequest(p))
           /\ Review!NoRequest(p).at = "idle"
           /\ \A phase \in {"org", "fixing"} :
                 /\ [Review!NoRequest(p) EXCEPT !.at = phase] \in Askings
                 /\ Fits(saved[p], [Review!NoRequest(p) EXCEPT !.at = phase])
                 /\ [Review!NoRequest(p) EXCEPT !.at = phase].at = phase
<1>1. saved[p] \in Briefs /\ Numeric(saved[p])
  BY DEF ReviewTypes, Fitting
<1>2. /\ Review!NoRequest(p) \in Askings /\ Review!NoRequest(p).at = "idle"
      /\ Review!NoRequest(p).brief = saved[p]
  BY <1>1, ReviewConstants DEF Review!NoRequest, Askings
<1>3. ASSUME NEW phase \in {"org", "fixing"}
      PROVE  /\ [Review!NoRequest(p) EXCEPT !.at = phase] \in Askings
             /\ [Review!NoRequest(p) EXCEPT !.at = phase].at = phase
             /\ [Review!NoRequest(p) EXCEPT !.at = phase].brief = saved[p]
  BY <1>2 DEF Askings
<1> QED
  BY <1>1, <1>2, <1>3 DEF Fits

\* The briefs are assembled, one organisation is known, nobody asks.
LEMMA ReviewInit == Init => ReviewInv
<1> SUFFICES ASSUME Review!Init PROVE ReviewInv
  BY DEF Init
<1>1. PICK wire \in [Pursuits -> UNION {Wires[p] : p \in Pursuits}] :
         /\ \A p \in Pursuits : wire[p] \in Wires[p]
         /\ saved = [p \in Pursuits |-> Review!Assembled(wire[p])]
  BY DEF Review!Init
<1>2. \A p \in Pursuits : saved[p] \in Briefs /\ Numeric(saved[p])
  BY <1>1, AssembledBrief
<1>3. saved \in [Pursuits -> Briefs]
  BY <1>1, <1>2
<1>4. asking = [p \in Pursuits |-> Review!NoRequest(p)]
  BY DEF Review!Init
<1>5. \A p \in Pursuits : Review!NoRequest(p) \in Askings /\ Review!NoRequest(p).at = "idle"
                          /\ Review!NoRequest(p).brief = saved[p]
  BY <1>2, ReviewConstants DEF Review!NoRequest, Askings
<1>6. /\ orgs = [o \in 1..MaxOrgs |-> IF o = 1 THEN {Elder} ELSE {}]
      /\ minter = Review!Nobody /\ spawned = {} /\ pinged = {} /\ requests = 0 /\ mints = 1
  BY DEF Review!Init
<1>7. ReviewTypes
  BY <1>3, <1>4, <1>5, <1>6, ReviewConstants DEF ReviewTypes
<1>8. Fitting
  BY <1>2, <1>4, <1>5 DEF Fitting, Fits
<1>9. Minting
  <2>1. mints \in 1..MaxOrgs /\ 1..mints = {1}
    BY <1>6, ReviewConstants
  <2>2. Review!Known = {1}
    BY <1>6, ReviewConstants DEF Review!Known
  <2> QED
    BY <1>4, <1>5, <2>1, <2>2 DEF Minting
<1> QED
  BY <1>7, <1>8, <1>9 DEF ReviewInv

\* A request moves, and the briefs that are saved do not.
LEMMA AskMoves ==
    ASSUME ReviewTypes, Fitting, NEW p \in Pursuits, NEW r \in Askings,
           asking' = [asking EXCEPT ![p] = r], Fits(saved[p], r), saved' = saved
    PROVE  /\ asking' \in [Pursuits -> Askings] /\ Fitting'
           /\ \A q \in Pursuits : asking'[q] = IF q = p THEN r ELSE asking[q]
<1>1. asking \in [Pursuits -> Askings]
  BY DEF ReviewTypes
<1>2. asking' \in [Pursuits -> Askings]
      /\ \A q \in Pursuits : asking'[q] = IF q = p THEN r ELSE asking[q]
  BY <1>1
<1>3. \A q \in Pursuits : Numeric(saved'[q]) /\ Fits(saved'[q], asking'[q])
  BY <1>2 DEF Fitting
<1> QED
  BY <1>2, <1>3 DEF Fitting

\* The library's finite sets are the same wherever they are instantiated.
LEMMA ReviewCardinality == \A n \in Nat : Review!Cardinality(1..n) = n
<1>1. \A S : Review!Cardinality(S) = Cardinality(S)
  BY DEF Review!Cardinality, Cardinality
<1>2. \A n \in Nat : Cardinality(1..n) = n
  <2> TAKE n \in Nat
  <2>1. Cardinality(1..n) = IF 1 > n THEN 0 ELSE n - 1 + 1
    BY FS_Interval
  <2> QED
    BY <2>1
<1> QED
  BY <1>1, <1>2

\* The fields of a request that changes.
LEMMA AskingFields ==
    ASSUME NEW r \in Askings
    PROVE  \A phase \in {"idle", "org", "minting", "mint", "linking", "fixing"} :
              /\ [r EXCEPT !.at = phase] \in Askings /\ [r EXCEPT !.at = phase].at = phase
              /\ [r EXCEPT !.at = phase].brief = r.brief /\ [r EXCEPT !.at = phase].org = r.org
BY DEF Askings

\* A request begins; an organisation is looked up, minted or linked.
LEMMA ReviewOrgs ==
    ASSUME ReviewInv, NEW p \in Pursuits,
           \/ \E w \in BOOLEAN : Review!Begin(p, w)
           \/ Review!MintScan(p) \/ Review!MintWrite(p) \/ Review!LinkWrite(p)
           \/ \E o \in Review!Known : Review!LinkRead(p, o)
    PROVE  ReviewInv'
<1>0. /\ ReviewTypes /\ Fitting /\ Minting
      /\ asking \in [Pursuits -> Askings] /\ asking[p] \in Askings /\ Fits(saved[p], asking[p])
      /\ mints \in Nat /\ Review!Known = 1..mints /\ MaxOrgs \in Nat
  BY ReviewConstants DEF ReviewInv, ReviewTypes, Fitting, Minting
<1>1. ASSUME NEW w \in BOOLEAN, Review!Begin(p, w) PROVE ReviewInv'
  <2> DEFINE r == [Review!NoRequest(p) EXCEPT !.at = IF w THEN "org" ELSE "fixing"]
  <2>1. r \in Askings /\ Fits(saved[p], r) /\ r.at \in {"org", "fixing"}
    BY <1>0, FreshAsking
  <2>2. /\ asking' = [asking EXCEPT ![p] = r] /\ requests' \in 0..MaxRequests
        /\ UNCHANGED <<saved, orgs, minter, spawned, mints, pinged>>
    BY <1>0, <1>1, ReviewConstants DEF Review!Begin, ReviewTypes
  <2> HIDE DEF r
  <2>3. /\ asking' \in [Pursuits -> Askings] /\ Fitting'
        /\ \A q \in Pursuits : asking'[q] = IF q = p THEN r ELSE asking[q]
    BY <1>0, <2>1, <2>2, AskMoves
  <2>4. ReviewTypes'
    BY <1>0, <2>2, <2>3 DEF ReviewTypes
  <2>5. Minting'
    BY <1>0, <2>1, <2>2, <2>3 DEF Minting, Review!Known
  <2> QED
    BY <2>3, <2>4, <2>5 DEF ReviewInv
<1>2. CASE Review!MintScan(p)
  <2>1. Review!Cardinality(Review!Known) = mints
    BY <1>0, ReviewCardinality
  <2> DEFINE r == [asking[p] EXCEPT !.at = "mint", !.org = mints + 1]
  <2>2. /\ asking' = [asking EXCEPT ![p].at = "mint", ![p].org = mints + 1]
        /\ minter = Review!Nobody /\ minter' = p /\ mints < MaxOrgs
        /\ asking[p].at = "org"
        /\ UNCHANGED <<saved, orgs, spawned, requests, mints, pinged>>
    BY <1>2, <2>1 DEF Review!MintScan, Review!MintLock, Review!At
  <2>3. asking' = [asking EXCEPT ![p] = r]
    BY <1>0, <2>2
  <2>4. mints + 1 \in 1..MaxOrgs /\ mints + 1 \in 0..MaxOrgs
    BY <1>0, <2>2
  <2>5. r \in Askings /\ r.at = "mint" /\ r.brief = asking[p].brief /\ r.org = mints + 1
    BY <1>0, <2>4 DEF Askings
  <2>6. Fits(saved[p], r)
    BY <1>0, <2>2, <2>5 DEF Fits
  <2> HIDE DEF r
  <2>7. /\ asking' \in [Pursuits -> Askings] /\ Fitting'
        /\ \A q \in Pursuits : asking'[q] = IF q = p THEN r ELSE asking[q]
    BY <1>0, <2>2, <2>3, <2>5, <2>6, AskMoves
  <2>8. ReviewTypes'
    BY <1>0, <2>2, <2>7 DEF ReviewTypes
  <2>9. Minting'
    <3>1. Review!Nobody \notin Pursuits
      BY ReviewConstants DEF Review!Nobody
    <3>2. \A q \in Pursuits : asking[q].at # "mint"
      BY <1>0, <2>2, <3>1 DEF Minting
    <3> QED
      BY <1>0, <2>2, <2>4, <2>5, <2>7, <3>2 DEF Minting, Review!Known
  <2> QED
    BY <2>7, <2>8, <2>9 DEF ReviewInv
<1>3. CASE Review!MintWrite(p)
  <2>1. minter = p /\ asking[p].at = "mint" /\ asking[p].org = mints + 1 /\ mints + 1 \in 1..MaxOrgs
    BY <1>0, <1>3 DEF Review!MintWrite, Review!At, Minting
  <2> DEFINE r == [asking[p] EXCEPT !.at = "fixing"]
  <2>2. /\ orgs' = [orgs EXCEPT ![mints + 1] = {p}] /\ mints' = mints + 1
        /\ minter' = Review!Nobody /\ asking' = [asking EXCEPT ![p].at = "fixing"]
        /\ UNCHANGED <<saved, spawned, requests, pinged>>
    BY <1>3, <2>1 DEF Review!MintWrite, Review!Move
  <2>3. asking' = [asking EXCEPT ![p] = r]
    BY <1>0, <2>2
  <2>4. r \in Askings /\ r.at = "fixing" /\ r.brief = asking[p].brief
    BY <1>0, AskingFields
  <2>5. Fits(saved[p], r)
    BY <1>0, <2>1, <2>4 DEF Fits
  <2> HIDE DEF r
  <2>6. /\ asking' \in [Pursuits -> Askings] /\ Fitting'
        /\ \A q \in Pursuits : asking'[q] = IF q = p THEN r ELSE asking[q]
    BY <1>0, <2>2, <2>3, <2>4, <2>5, AskMoves
  <2>7. orgs' \in [1..MaxOrgs -> SUBSET (Pursuits \cup {Elder})]
        /\ \A o \in 1..MaxOrgs : orgs'[o] = IF o = mints + 1 THEN {p} ELSE orgs[o]
    BY <1>0, <2>1, <2>2 DEF ReviewTypes
  <2>8. ReviewTypes'
    BY <1>0, <2>2, <2>6, <2>7 DEF ReviewTypes
  <2>9. Minting'
    <3>1. Review!Known' = 1..mints + 1
      <4>1. \A o \in 1..MaxOrgs : orgs'[o] # {} <=> o = mints + 1 \/ o \in 1..mints
        BY <1>0, <2>7 DEF Review!Known
      <4>2. \A o : o \in 1..mints + 1 <=> o \in 1..MaxOrgs /\ (o = mints + 1 \/ o \in 1..mints)
        BY <1>0, <2>1
      <4> QED
        BY <4>1, <4>2 DEF Review!Known
    <3>2. \A q \in Pursuits : q # p => asking[q].at # "mint"
      BY <1>0, <2>1 DEF Minting
    <3>3. \A o \in 1..mints : o \in 1..mints + 1
      BY <1>0
    <3> QED
      BY <1>0, <2>1, <2>2, <2>4, <2>6, <3>1, <3>2, <3>3 DEF Minting
  <2> QED
    BY <2>6, <2>8, <2>9 DEF ReviewInv
<1>4. CASE Review!LinkWrite(p)
  <2>1. asking[p].at = "linking" /\ asking[p].org \in 1..mints /\ mints \in 1..MaxOrgs
    BY <1>0, <1>4 DEF Review!LinkWrite, Review!At, Minting
  <2>2. asking[p].org \in 1..MaxOrgs /\ orgs[asking[p].org] # {}
        /\ asking[p].seen \subseteq Pursuits \cup {Elder}
    BY <1>0, <2>1 DEF Review!Known, Askings
  <2> DEFINE r == [asking[p] EXCEPT !.at = "fixing"]
             named == IF p \in asking[p].seen THEN orgs[asking[p].org] ELSE asking[p].seen \cup {p}
  <2>3. /\ orgs' = [orgs EXCEPT ![asking[p].org] = named]
        /\ asking' = [asking EXCEPT ![p].at = "fixing"]
        /\ UNCHANGED <<saved, minter, spawned, requests, mints, pinged>>
    BY <1>0, <1>4 DEF Review!LinkWrite, Review!Move, ReviewTypes
  <2>4. named # {} /\ named \subseteq Pursuits \cup {Elder}
    BY <1>0, <2>2 DEF ReviewTypes
  <2>5. asking' = [asking EXCEPT ![p] = r]
    BY <1>0, <2>3
  <2>6. r \in Askings /\ r.at = "fixing" /\ r.brief = asking[p].brief
    BY <1>0, AskingFields
  <2>7. Fits(saved[p], r)
    BY <1>0, <2>1, <2>6 DEF Fits
  <2> HIDE DEF r, named
  <2>8. /\ asking' \in [Pursuits -> Askings] /\ Fitting'
        /\ \A q \in Pursuits : asking'[q] = IF q = p THEN r ELSE asking[q]
    BY <1>0, <2>3, <2>5, <2>6, <2>7, AskMoves
  <2>9. orgs' \in [1..MaxOrgs -> SUBSET (Pursuits \cup {Elder})]
        /\ \A o \in 1..MaxOrgs : orgs'[o] # {} <=> orgs[o] # {}
    BY <1>0, <2>2, <2>3, <2>4 DEF ReviewTypes
  <2>10. ReviewTypes'
    BY <1>0, <2>3, <2>8, <2>9 DEF ReviewTypes
  <2>11. Minting'
    BY <1>0, <2>3, <2>6, <2>8, <2>9 DEF Minting, Review!Known
  <2> QED
    BY <2>8, <2>10, <2>11 DEF ReviewInv
<1>5. ASSUME NEW o \in Review!Known, Review!LinkRead(p, o) PROVE ReviewInv'
  <2>1. o \in 1..mints /\ o \in 1..MaxOrgs /\ o \in 0..MaxOrgs
    BY <1>0 DEF Review!Known
  <2>2. orgs[o] \in SUBSET (Pursuits \cup {Elder})
    BY <1>0, <2>1 DEF ReviewTypes
  <2> DEFINE r == [asking[p] EXCEPT !.at = "linking", !.org = o, !.seen = orgs[o]]
  <2>3. /\ asking' = [asking EXCEPT ![p].at = "linking", ![p].org = o, ![p].seen = orgs[o]]
        /\ asking[p].at = "org"
        /\ UNCHANGED <<saved, orgs, minter, spawned, requests, mints, pinged>>
    BY <1>5 DEF Review!LinkRead, Review!At
  <2>4. asking' = [asking EXCEPT ![p] = r]
    BY <1>0, <2>3
  <2>5. r \in Askings /\ r.at = "linking" /\ r.brief = asking[p].brief /\ r.org = o
    BY <1>0, <2>1, <2>2 DEF Askings
  <2>6. Fits(saved[p], r)
    BY <1>0, <2>3, <2>5 DEF Fits
  <2> HIDE DEF r
  <2>7. /\ asking' \in [Pursuits -> Askings] /\ Fitting'
        /\ \A q \in Pursuits : asking'[q] = IF q = p THEN r ELSE asking[q]
    BY <1>0, <2>3, <2>4, <2>5, <2>6, AskMoves
  <2>8. ReviewTypes'
    BY <1>0, <2>3, <2>7 DEF ReviewTypes
  <2>9. Minting'
    BY <1>0, <2>1, <2>3, <2>5, <2>7 DEF Minting, Review!Known
  <2> QED
    BY <2>7, <2>8, <2>9 DEF ReviewInv
<1> QED
  BY <1>1, <1>2, <1>3, <1>4, <1>5

\* What a brief says after a correction: the number follows its text, and the text that was
\* corrected is named.
LEMMA CorrectedBrief ==
    ASSUME NEW b \in Briefs, Numeric(b), NEW f \in Review!Texted, NEW text \in Texts
    PROVE  LET c == Review!Corrected(b, f, text)
           IN /\ c \in Briefs /\ Numeric(c) /\ c.gaps = b.gaps
              /\ c.register[f] = "corrected"
              /\ \A g \in Review!Texted : g # f =>
                    c.values[g] = b.values[g] /\ c.register[g] = b.register[g]
<1>1. /\ f \in Review!Fields /\ "weight" \in Review!Fields /\ "weight_text" \in Review!Fields
      /\ \A g \in Review!Texted : g \in Review!Fields /\ g # "weight"
  BY DEF Review!Fields, Review!Texted
<1> DEFINE values == [b.values EXCEPT ![f] = text]
           register == [b.register EXCEPT ![f] = "corrected"]
           edited == [b EXCEPT !.values[f] = text, !.register[f] = "corrected"]
<1>2. /\ b.values \in [Review!Fields -> Texts \cup {Absent}]
      /\ b.register \in [Review!Fields -> Registered]
  BY DEF Briefs
<1>3. edited = [b EXCEPT !.values = values, !.register = register]
  BY DEF Briefs
<1>4. /\ values \in [Review!Fields -> Texts \cup {Absent}]
      /\ register \in [Review!Fields -> Registered]
  BY <1>1, <1>2 DEF Registered
<1>5. /\ values[f] = text /\ \A g \in Review!Fields : g # f => values[g] = b.values[g]
      /\ register[f] = "corrected" /\ \A g \in Review!Fields : g # f => register[g] = b.register[g]
  BY <1>1, <1>2
<1> HIDE DEF values, register
<1>6. /\ edited \in Briefs /\ edited.values = values /\ edited.register = register
      /\ edited.gaps = b.gaps
  BY <1>3, <1>4 DEF Briefs
<1> HIDE DEF edited
<1>7. CASE f = "weight_text"
  <2> DEFINE number == [values EXCEPT !["weight"] = Review!Parse(text)]
             listed == [register EXCEPT !["weight"] =
                           IF Review!Parse(text) = Absent THEN "absent" ELSE register["weight"]]
             c == Review!Reparsed(edited, text)
  <2>1. Review!Corrected(b, f, text) = c
    BY <1>7 DEF Review!Corrected, edited
  <2>2. c = [edited EXCEPT !.values = number, !.register = listed]
    BY <1>6 DEF Review!Reparsed, Briefs
  <2>3. Review!Parse(text) \in Texts \cup {Absent}
    BY Parsed
  <2>4. /\ number \in [Review!Fields -> Texts \cup {Absent}]
        /\ listed \in [Review!Fields -> Registered]
    BY <1>1, <1>4, <2>3 DEF Registered
  <2>5. /\ number["weight"] = Review!Parse(text)
        /\ \A g \in Review!Fields : g # "weight" => number[g] = values[g] /\ listed[g] = register[g]
    BY <1>1, <1>4
  <2> HIDE DEF number, listed, c
  <2>6. c \in Briefs /\ c.values = number /\ c.register = listed /\ c.gaps = b.gaps
    BY <1>6, <2>2, <2>4 DEF Briefs
  <2>7. Numeric(c)
    BY <1>1, <1>5, <1>7, <2>5, <2>6 DEF Numeric
  <2>8. c.register[f] = "corrected"
    BY <1>1, <1>5, <2>5, <2>6
  <2>9. \A g \in Review!Texted : g # f =>
           c.values[g] = b.values[g] /\ c.register[g] = b.register[g]
    BY <1>1, <1>5, <2>5, <2>6
  <2> QED
    BY <2>1, <2>6, <2>7, <2>8, <2>9
<1>8. CASE f # "weight_text"
  <2>1. Review!Corrected(b, f, text) = edited
    BY <1>8 DEF Review!Corrected, edited
  <2>2. Numeric(edited)
    BY <1>1, <1>5, <1>6, <1>8 DEF Numeric
  <2>3. \A g \in Review!Texted : g # f =>
           edited.values[g] = b.values[g] /\ edited.register[g] = b.register[g]
    BY <1>1, <1>5, <1>6
  <2> QED
    BY <1>5, <1>6, <2>1, <2>2, <2>3
<1> QED
  BY <1>7, <1>8

\* What a brief says after a gap was settled: that, and nothing else.
LEMMA SettledBrief ==
    ASSUME NEW b \in Briefs, NEW g \in Review!Gaps, NEW s \in {"answered", "skipped"}
    PROVE  LET c == [b EXCEPT !.gaps[g] = s]
           IN /\ c \in Briefs /\ c.values = b.values /\ c.register = b.register
              /\ c.stamped = b.stamped
              /\ \A h \in Review!Gaps : c.gaps[h] = IF h = g THEN s ELSE b.gaps[h]
<1> DEFINE gaps == [b.gaps EXCEPT ![g] = s]
           c == [b EXCEPT !.gaps[g] = s]
<1>1. b.gaps \in [Review!Gaps -> Review!GapStates] /\ c = [b EXCEPT !.gaps = gaps]
  BY DEF Briefs
<1>2. gaps \in [Review!Gaps -> Review!GapStates]
  BY <1>1 DEF Review!GapStates
<1>3. \A h \in Review!Gaps : gaps[h] = IF h = g THEN s ELSE b.gaps[h]
  BY <1>1
<1> HIDE DEF gaps
<1>4. c \in Briefs /\ c.values = b.values /\ c.register = b.register /\ c.gaps = gaps
      /\ c.stamped = b.stamped
  BY <1>1, <1>2 DEF Briefs
<1> QED
  BY <1>3, <1>4

\* A request corrects a text or settles a gap on its copy, or is dropped.
LEMMA ReviewFixes ==
    ASSUME ReviewInv, NEW p \in Pursuits,
           \/ Review!Raise(p)
           \/ \E f \in Review!Fields, t \in Texts : Review!Correct(p, f, t)
           \/ \E g \in Review!Gaps, c \in BOOLEAN : Review!Answer(p, g, c)
           \/ \E g \in Review!Gaps : Review!Skip(p, g)
    PROVE  ReviewInv'
<1>0. /\ ReviewTypes /\ Fitting /\ Minting
      /\ asking \in [Pursuits -> Askings] /\ asking[p] \in Askings /\ Fits(saved[p], asking[p])
      /\ asking[p].brief \in Briefs /\ asking[p].at = "fixing"
  BY DEF ReviewInv, ReviewTypes, Fitting, Askings, Review!Raise, Review!Correct, Review!Answer,
         Review!Skip, Review!At
<1>1. ASSUME NEW r \in Askings, asking' = [asking EXCEPT ![p] = r], Fits(saved[p], r),
             r.at \in {"idle", "fixing"}, spawned' \subseteq Pursuits \X Review!Gaps,
             UNCHANGED <<saved, orgs, minter, requests, mints, pinged>>
      PROVE  ReviewInv'
  <2>1. /\ asking' \in [Pursuits -> Askings] /\ Fitting'
        /\ \A q \in Pursuits : asking'[q] = IF q = p THEN r ELSE asking[q]
    BY <1>0, <1>1, AskMoves
  <2>2. ReviewTypes'
    BY <1>0, <1>1, <2>1 DEF ReviewTypes
  <2>3. Minting'
    BY <1>0, <1>1, <2>1 DEF Minting, Review!Known
  <2> QED
    BY <2>1, <2>2, <2>3 DEF ReviewInv
<1>2. ASSUME NEW b \in Briefs, Review!Copy(p, b, "fixing"), Numeric(b),
             \A g \in Review!Gaps : saved[p].gaps[g] \in {"answered", "skipped"} =>
                b.gaps[g] = saved[p].gaps[g],
             \A f \in Review!Texted : b.values[f] # saved[p].values[f] =>
                b.register[f] = "corrected",
             spawned' \subseteq Pursuits \X Review!Gaps,
             UNCHANGED <<saved, orgs, minter, requests, mints, pinged>>
      PROVE  ReviewInv'
  <2> DEFINE r == [asking[p] EXCEPT !.brief = b, !.at = "fixing"]
  <2>1. asking' = [asking EXCEPT ![p] = r]
    BY <1>0, <1>2 DEF Review!Copy
  <2>2. r \in Askings /\ r.at = "fixing" /\ r.brief = b
    BY <1>0 DEF Askings
  <2> HIDE DEF r
  <2>3. Fits(saved[p], r)
    BY <1>2, <2>2 DEF Fits
  <2> QED
    BY <1>1, <1>2, <2>1, <2>2, <2>3
<1>3. spawned \subseteq Pursuits \X Review!Gaps
  BY <1>0 DEF ReviewTypes
<1>4. CASE Review!Raise(p)
  <2>1. /\ Review!NoRequest(p) \in Askings /\ Fits(saved[p], Review!NoRequest(p))
        /\ Review!NoRequest(p).at = "idle"
    BY <1>0, FreshAsking
  <2> QED
    BY <1>1, <1>3, <1>4, <2>1 DEF Review!Raise
<1>5. ASSUME NEW f \in Review!Fields, NEW t \in Texts, Review!Correct(p, f, t) PROVE ReviewInv'
  <2> DEFINE b == asking[p].brief
             c == Review!Corrected(b, f, t)
  <2>1. f \in Review!Texted /\ Review!Copy(p, c, "fixing")
        /\ UNCHANGED <<saved, orgs, minter, spawned, requests, mints, pinged>>
    BY <1>5 DEF Review!Correct
  <2>2. Numeric(b)
    BY <1>0 DEF Fits
  <2>3. /\ c \in Briefs /\ Numeric(c) /\ c.gaps = b.gaps /\ c.register[f] = "corrected"
        /\ \A g \in Review!Texted : g # f =>
              c.values[g] = b.values[g] /\ c.register[g] = b.register[g]
    BY <1>0, <2>1, <2>2, CorrectedBrief
  <2> HIDE DEF c
  <2>4. \A g \in Review!Gaps : saved[p].gaps[g] \in {"answered", "skipped"} =>
           c.gaps[g] = saved[p].gaps[g]
    BY <1>0, <2>3 DEF Fits
  <2>5. \A g \in Review!Texted : c.values[g] # saved[p].values[g] => c.register[g] = "corrected"
    BY <1>0, <2>3 DEF Fits
  <2> QED
    BY <1>2, <1>3, <2>1, <2>3, <2>4, <2>5
<1>6. ASSUME NEW g \in Review!Gaps, NEW s \in {"answered", "skipped"},
             asking[p].brief.gaps[g] = "open",
             Review!Copy(p, [asking[p].brief EXCEPT !.gaps[g] = s], "fixing"),
             spawned' \subseteq Pursuits \X Review!Gaps,
             UNCHANGED <<saved, orgs, minter, requests, mints, pinged>>
      PROVE  ReviewInv'
  <2> DEFINE b == asking[p].brief
             c == [b EXCEPT !.gaps[g] = s]
  <2>1. /\ c \in Briefs /\ c.values = b.values /\ c.register = b.register
        /\ \A h \in Review!Gaps : c.gaps[h] = IF h = g THEN s ELSE b.gaps[h]
    <3>1. b \in Briefs
      BY <1>0 DEF Askings
    <3> HIDE DEF b
    <3> QED
      BY ONLY <3>1, g \in Review!Gaps, s \in {"answered", "skipped"}, SettledBrief
  <2>2. Review!Copy(p, c, "fixing")
    BY <1>6
  <2> HIDE DEF c
  <2>3. Numeric(c)
    BY <1>0, <2>1 DEF Fits, Numeric
  <2>4. \A h \in Review!Gaps : saved[p].gaps[h] \in {"answered", "skipped"} =>
           c.gaps[h] = saved[p].gaps[h]
    BY <1>0, <1>6, <2>1 DEF Fits
  <2>5. \A f \in Review!Texted : c.values[f] # saved[p].values[f] => c.register[f] = "corrected"
    BY <1>0, <2>1 DEF Fits
  <2> QED
    BY <1>2, <1>6, <2>1, <2>2, <2>3, <2>4, <2>5
<1>7. ASSUME NEW g \in Review!Gaps, NEW c \in BOOLEAN, Review!Answer(p, g, c) PROVE ReviewInv'
  <2>1. spawned' \subseteq Pursuits \X Review!Gaps
    BY <1>3, <1>7 DEF Review!Answer
  <2> QED
    BY <1>6, <1>7, <2>1 DEF Review!Answer, Review!OpenGaps
<1>8. ASSUME NEW g \in Review!Gaps, Review!Skip(p, g) PROVE ReviewInv'
  BY <1>3, <1>6, <1>8 DEF Review!Skip, Review!OpenGaps
<1> QED
  BY <1>4, <1>5, <1>7, <1>8

\* A request is saved: what was not corrected is confirmed, the brief is stamped.
LEMMA ReviewSaves ==
    ASSUME ReviewInv, NEW p \in Pursuits, Review!Save(p)
    PROVE  /\ ReviewInv'
           /\ \A g \in Review!Gaps : saved'[p].gaps[g] = asking[p].brief.gaps[g]
           /\ \A f \in Review!Texted :
                 saved'[p].values[f] # saved[p].values[f] => saved'[p].register[f] = "corrected"
           /\ asking[p].at = "fixing" /\ \A q \in Pursuits : q # p => saved'[q] = saved[q]
<1>0. /\ ReviewTypes /\ Fitting /\ Minting
      /\ saved \in [Pursuits -> Briefs]
      /\ asking \in [Pursuits -> Askings] /\ asking[p] \in Askings /\ Fits(saved[p], asking[p])
      /\ asking[p].brief \in Briefs /\ asking[p].at = "fixing" /\ asking[p].org \in 0..MaxOrgs
  BY DEF ReviewInv, ReviewTypes, Fitting, Askings, Review!Save, Review!At
<1> DEFINE b == asking[p].brief
           listed == Review!ConfirmRegister(b.register)
           new == [b EXCEPT !.register = listed, !.org = asking[p].org, !.stamped = TRUE]
           r == [asking[p] EXCEPT !.at = "idle"]
<1>1. b.register \in [Review!Fields -> Registered]
  BY <1>0 DEF Briefs
<1>2. /\ listed \in [Review!Fields -> Registered]
      /\ \A f \in Review!Fields : b.register[f] = "corrected" => listed[f] = "corrected"
  BY <1>1 DEF Review!ConfirmRegister, Registered
<1>3. saved' = [saved EXCEPT ![p] = new] /\ asking' = [asking EXCEPT ![p].at = "idle"]
      /\ UNCHANGED <<orgs, minter, spawned, requests, mints, pinged>>
  BY DEF Review!Save, Review!Move
<1> HIDE DEF listed
<1>4. /\ new \in Briefs /\ new.values = b.values /\ new.gaps = b.gaps
      /\ new.register = listed
  BY <1>0, <1>2 DEF Briefs
<1>5. asking' = [asking EXCEPT ![p] = r]
  BY <1>0, <1>3
<1>6. r \in Askings /\ r.at = "idle" /\ r.brief = b
  BY <1>0, AskingFields
<1> HIDE DEF new, r
<1>7. /\ saved' \in [Pursuits -> Briefs]
      /\ \A q \in Pursuits : saved'[q] = IF q = p THEN new ELSE saved[q]
  BY <1>0, <1>3, <1>4
<1>8. /\ asking' \in [Pursuits -> Askings]
      /\ \A q \in Pursuits : asking'[q] = IF q = p THEN r ELSE asking[q]
  BY <1>0, <1>5, <1>6
<1>9. ReviewTypes'
  BY <1>0, <1>3, <1>7, <1>8 DEF ReviewTypes
<1>10. Numeric(new) /\ Fits(new, r)
  BY <1>0, <1>4, <1>6 DEF Fits, Numeric
<1>11. Fitting'
  <2>1. \A q \in Pursuits : Numeric(saved'[q]) /\ Fits(saved'[q], asking'[q])
    BY <1>0, <1>7, <1>8, <1>10 DEF Fitting
  <2> QED
    BY <2>1 DEF Fitting
<1>12. Minting'
  BY <1>0, <1>3, <1>6, <1>8 DEF Minting, Review!Known
<1>13. \A f \in Review!Texted : b.values[f] # saved[p].values[f] => listed[f] = "corrected"
  BY <1>0, <1>2 DEF Fits, Review!Fields
<1> QED
  BY <1>0, <1>4, <1>7, <1>9, <1>11, <1>12, <1>13 DEF ReviewInv

\* Between requests a gap is asked about, and the answer settles it.
LEMMA ReviewPings ==
    ASSUME ReviewInv, NEW p \in Pursuits, NEW g \in Review!Gaps,
           Review!Ping(p, g) \/ \E c \in BOOLEAN : Review!PingAnswer(p, g, c)
    PROVE  /\ ReviewInv'
           /\ \/ saved' = saved
              \/ /\ <<p, g>> \in pinged /\ saved'[p].stamped = saved[p].stamped
                 /\ \A q \in Pursuits : q # p => saved'[q] = saved[q]
                 /\ \A h \in Review!Gaps :
                       saved'[p].gaps[h] = IF h = g THEN "answered" ELSE saved[p].gaps[h]
<1>0. /\ ReviewTypes /\ Fitting /\ Minting
      /\ saved \in [Pursuits -> Briefs] /\ saved[p] \in Briefs
      /\ spawned \subseteq Pursuits \X Review!Gaps /\ pinged \subseteq Pursuits \X Review!Gaps
      /\ asking[p].at = "idle" /\ Numeric(saved[p]) /\ Fits(saved[p], asking[p])
  BY DEF ReviewInv, ReviewTypes, Fitting, Review!Ping, Review!PingAnswer, Review!At
<1>1. CASE Review!Ping(p, g)
  <2>1. pinged' \subseteq Pursuits \X Review!Gaps
        /\ UNCHANGED <<saved, orgs, minter, asking, spawned, requests, mints>>
    BY <1>0, <1>1 DEF Review!Ping
  <2>2. ReviewTypes'
    BY <1>0, <2>1 DEF ReviewTypes
  <2>3. Fitting' /\ Minting'
    BY <1>0, <2>1 DEF Fitting, Minting, Review!Known
  <2> QED
    BY <2>1, <2>2, <2>3 DEF ReviewInv
<1>2. ASSUME NEW c \in BOOLEAN, Review!PingAnswer(p, g, c)
      PROVE  /\ ReviewInv'
             /\ <<p, g>> \in pinged /\ saved'[p].stamped = saved[p].stamped
             /\ \A q \in Pursuits : q # p => saved'[q] = saved[q]
             /\ \A h \in Review!Gaps :
                   saved'[p].gaps[h] = IF h = g THEN "answered" ELSE saved[p].gaps[h]
  <2> DEFINE new == [saved[p] EXCEPT !.gaps[g] = "answered"]
  <2>1. /\ saved' = [saved EXCEPT ![p].gaps[g] = "answered"]
        /\ <<p, g>> \in pinged
        /\ pinged' \subseteq pinged /\ spawned' \subseteq spawned \cup {<<p, g>>}
        /\ UNCHANGED <<orgs, minter, asking, requests, mints>>
    BY <1>2 DEF Review!PingAnswer
  <2>2. saved' = [saved EXCEPT ![p] = new]
    BY <1>0, <2>1
  <2>3. /\ new \in Briefs /\ new.values = saved[p].values /\ new.register = saved[p].register
        /\ new.stamped = saved[p].stamped
        /\ \A h \in Review!Gaps : new.gaps[h] = IF h = g THEN "answered" ELSE saved[p].gaps[h]
    BY <1>0, SettledBrief
  <2> HIDE DEF new
  <2>4. /\ saved' \in [Pursuits -> Briefs]
        /\ \A q \in Pursuits : saved'[q] = IF q = p THEN new ELSE saved[q]
    BY <1>0, <2>2, <2>3
  <2>5. ReviewTypes'
    BY <1>0, <2>1, <2>4 DEF ReviewTypes
  <2>6. Numeric(new) /\ Fits(new, asking[p])
    BY <1>0, <2>3 DEF Fits, Numeric
  <2>7. Fitting'
    <3>1. \A q \in Pursuits : Numeric(saved'[q]) /\ Fits(saved'[q], asking'[q])
      BY <1>0, <2>1, <2>4, <2>6 DEF Fitting
    <3> QED
      BY <3>1 DEF Fitting
  <2>8. Minting'
    BY <1>0, <2>1 DEF Minting, Review!Known
  <2> QED
    BY <2>1, <2>3, <2>4, <2>5, <2>7, <2>8 DEF ReviewInv
<1> QED
  BY <1>1, <1>2

\* Whatever else moves leaves the requests alone.
LEMMA ReviewHolds == ReviewInv /\ UNCHANGED reviewVars => ReviewInv'
<1> SUFFICES ASSUME ReviewInv, UNCHANGED reviewVars PROVE ReviewInv'
  OBVIOUS
<1>1. UNCHANGED <<saved, orgs, minter, asking, spawned, requests, pinged, mints>>
  BY DEF reviewVars
<1>2. ReviewTypes'
  BY <1>1 DEF ReviewInv, ReviewTypes
<1>3. Fitting' /\ Minting'
  BY <1>1 DEF ReviewInv, Fitting, Minting, Review!Known
<1> QED
  BY <1>2, <1>3 DEF ReviewInv

\* The invariant of Gate 0 holds across every step of the composition.
LEMMA ReviewStep == ReviewInv /\ [Next]_vars => ReviewInv'
<1> SUFFICES ASSUME ReviewInv, [Next]_vars PROVE ReviewInv'
  OBVIOUS
<1>1. CASE Review!Next
  BY <1>1, ReviewOrgs, ReviewFixes, ReviewSaves, ReviewPings DEF Review!Next, Review!Step
<1>2. CASE UNCHANGED reviewVars
  BY <1>2, ReviewHolds
<1> QED
  BY <1>1, <1>2 DEF Next, Decide, Ship, Merge, vars

\* Only a request that is saved and a ping that is answered change a saved brief.
LEMMA WhoSaves ==
    ASSUME Review!Next, ~(\E p \in Pursuits : Review!Save(p)),
           ~(\E p \in Pursuits, g \in Review!Gaps, c \in BOOLEAN : Review!PingAnswer(p, g, c))
    PROVE  saved' = saved
BY DEF Review!Next, Review!Step, Review!Begin, Review!Ping, Review!MintScan, Review!MintWrite,
       Review!LinkRead, Review!LinkWrite, Review!Correct, Review!Answer, Review!Skip, Review!Raise

\* A settled gap is settled for good, but for a ping sent while it was open; what a human
\* corrected is named; a number follows its text; no organisation is minted twice, for any
\* pursuits whose requests interleave (brief.py:343-371, intake/gate.py:104-148, 335-340,
\* orgs.py:71-87).
THEOREM GapsAreSettledOnce == Spec => GapsSettleOnce
<1> DEFINE moves == <<saved, orgs, minter, asking, spawned, requests, pinged, mints>>
           settled == \A p \in Pursuits, g \in Review!Gaps :
                         saved[p].gaps[g] \in {"answered", "skipped"} =>
                            saved'[p].gaps[g] \in {saved[p].gaps[g]} \cup
                               (IF <<p, g>> \in pinged THEN {"answered"} ELSE {})
           named == \A p \in Pursuits : saved'[p].stamped /\ ~saved[p].stamped =>
                       \A f \in Review!Texted : saved'[p].values[f] # saved[p].values[f]
                                                => saved'[p].register[f] = "corrected"
           sound == Review!TypeOK /\ Review!NumberFollowsText /\ Review!MintsAreDistinct
<1>1. Init => ReviewInv
  BY ReviewInit
<1>2. ReviewInv /\ [Next]_vars => ReviewInv'
  BY ReviewStep
<1>3. ReviewInv => sound
  <2> SUFFICES ASSUME ReviewInv PROVE sound
    OBVIOUS
  <2>1. Review!TypeOK
    <3>1. mints \in Nat
      BY DEF ReviewInv, Minting
    <3>2. \A p \in Pursuits : saved[p] \in Briefs /\ asking[p] \in Askings
      BY DEF ReviewInv, ReviewTypes
    <3> QED
      BY <3>1, <3>2 DEF ReviewInv, ReviewTypes, Review!TypeOK, Briefs, Askings, Registered
  <2>2. Review!NumberFollowsText
    BY DEF ReviewInv, Fitting, Numeric, Review!NumberFollowsText
  <2>3. Review!MintsAreDistinct
    BY ReviewCardinality DEF ReviewInv, Minting, Review!MintsAreDistinct
  <2> QED
    BY <2>1, <2>2, <2>3
<1>4. ReviewInv /\ [Next]_vars => [settled /\ named]_moves
  <2> SUFFICES ASSUME ReviewInv, [Next]_vars, ~UNCHANGED moves PROVE settled /\ named
    OBVIOUS
  <2>1. Review!Next
    BY DEF Next, Decide, Ship, Merge, vars, reviewVars
  <2>2. CASE saved' = saved
    BY <2>2
  <2>3. ASSUME NEW p \in Pursuits, Review!Save(p) PROVE settled /\ named
    <3>1. /\ \A g \in Review!Gaps : saved'[p].gaps[g] = asking[p].brief.gaps[g]
          /\ \A f \in Review!Texted :
                saved'[p].values[f] # saved[p].values[f] => saved'[p].register[f] = "corrected"
          /\ asking[p].at = "fixing" /\ \A q \in Pursuits : q # p => saved'[q] = saved[q]
      BY <2>3, ReviewSaves
    <3>2. \A g \in Review!Gaps : saved[p].gaps[g] \in {"answered", "skipped"} =>
             saved'[p].gaps[g] = saved[p].gaps[g]
      BY <3>1 DEF ReviewInv, Fitting, Fits
    <3> QED
      BY <3>1, <3>2
  <2>4. ASSUME NEW p \in Pursuits, NEW g \in Review!Gaps, NEW c \in BOOLEAN,
               Review!PingAnswer(p, g, c)
        PROVE  settled /\ named
    <3>1. \/ saved' = saved
          \/ /\ <<p, g>> \in pinged /\ saved'[p].stamped = saved[p].stamped
             /\ \A q \in Pursuits : q # p => saved'[q] = saved[q]
             /\ \A h \in Review!Gaps :
                   saved'[p].gaps[h] = IF h = g THEN "answered" ELSE saved[p].gaps[h]
      BY <2>4, ReviewPings
    <3> QED
      BY <2>2, <3>1
  <2> QED
    BY <2>1, <2>2, <2>3, <2>4, WhoSaves
<1>5. [settled /\ named]_moves => [settled]_moves /\ [named]_moves
  OBVIOUS
<1> QED
  BY <1>1, <1>2, <1>3, <1>4, <1>5, PTL
  DEF Spec, GapsSettleOnce, Review!GapsSettleOnce, Review!CorrectionsAreNamed, Review!vars

-----------------------------------------------------------------------------
(* The doors a response leaves by                                          *)

Steps == {"none", "run", "scanned", "write", "prove", "record", "withheld"}
Doors == [kind : {"none", "export", "review", "confirm"}, todo : Seq(Export!Lanes), step : Steps,
          refused : SUBSET Export!Lanes, made : SUBSET Export!Lanes, known : SUBSET (1..MaxTexts)]
Facts == [sha : Export!Files \cup {None}, made : BOOLEAN, run : 1..MaxRuns]

ExportTypes ==
    /\ firm \in BOOLEAN /\ freeze \in 1..MaxPlans /\ draft \in Export!Drafts \cup {None}
    /\ pends \in BOOLEAN /\ blocked \in BOOLEAN /\ indexed \subseteq 1..MaxTexts
    /\ hand \in {"owed", "clean", "naming"}
    /\ file \in [Export!Lanes -> Export!Files \cup {None}]
    /\ facts \in [Export!Lanes -> Facts \cup {None}]
    /\ bundle # None => \A l \in Export!Deliverables :
           bundle[l].status \in {"produced", "refused", "drifted", "absent"}
    /\ door \in Doors /\ (door.kind = "none" => door = Export!Idle) /\ door.known \subseteq indexed
    /\ drafts \in 0..MaxTexts /\ doors \in 0..MaxRuns /\ kills \in 0..MaxKills

\* The lanes of a request: those to come are told apart, and each of the others was refused or
\* made; a confirm goes over all that the plan is bound to, an export over the render.
Queue ==
    door.kind # "none" =>
        /\ draft \in Export!Drafts /\ doors \in 1..MaxRuns
        /\ \A i, j \in 1..Len(door.todo) : door.todo[i] = door.todo[j] => i = j
        /\ \A i \in 1..Len(door.todo) :
              door.todo[i] \in Export!Deliverables \ (door.made \cup door.refused)
        /\ door.refused \cap door.made = {} /\ door.refused \cup door.made \subseteq Export!Deliverables
        /\ door.kind = "confirm" => \A l \in Export!Range(Export!Bound) :
              l \in door.made \cup door.refused \/ \E i \in 1..Len(door.todo) : door.todo[i] = l
        /\ door.kind = "export" =>
              ~firm /\ \A i \in 1..Len(door.todo) : i = 1 /\ door.todo[i] = "render"
        /\ door.kind = "confirm" => "render" \notin door.made
              /\ \A i \in 1..Len(door.todo) : door.todo[i] # "render"

\* What the request has scanned and written of the lane it is at, and of those it made.
InHand ==
    door.kind # "none" =>
        /\ door.step # "none" /\ (door.step # "run" => door.todo # <<>>)
        /\ door.step = "scanned" =>
              draft.n \notin door.known /\ (Head(door.todo) = "fill" => hand = "clean")
        /\ door.step \in {"write", "prove", "record"} =>
              /\ file[Head(door.todo)] # None
              /\ file[Head(door.todo)].run = doors /\ file[Head(door.todo)].text = draft
        /\ door.step \in {"prove", "record"} => file[Head(door.todo)].whole
        /\ door.step = "record" => <<Head(door.todo), file[Head(door.todo)]>> \in proved
        /\ door.step \in {"prove", "record", "withheld"} => Head(door.todo) # "render"
        /\ door.step = "withheld" => file[Head(door.todo)] = None
        /\ door.kind = "confirm" => \A l \in door.made :
              file[l] # None => file[l].text = draft /\ file[l].run = doors

\* Facts are of bytes that were proved, and of no later run than the bytes on disk.
FiledAt(l) ==
    /\ file[l] # None => file[l].run <= doors
    /\ facts[l] # None =>
          /\ l # "render" /\ facts[l].run <= doors
          /\ facts[l].sha # None => facts[l].sha.whole
          /\ facts[l].made => <<l, facts[l].sha>> \in proved
          /\ file[l] # None => file[l].run >= facts[l].run
Filed == \A l \in Export!Lanes : FiledAt(l)

ExportInv == ExportTypes /\ Queue /\ InHand /\ Filed /\ Export!ProducedIsProved

\* What is assumed of the doors' constants.
LEMMA ExportBounds ==
    /\ MaxTexts \in Nat /\ MaxPlans \in Nat /\ MaxRuns \in Nat /\ MaxKills \in Nat
    /\ MaxPlans > 0 /\ None \notin Export!Files
BY RecordConstants DEF Export!ExportConstants

\* The lanes a plan is bound to are a sequence of lanes told apart, the render none of them.
LEMMA BoundLanes ==
    ASSUME firm \in BOOLEAN
    PROVE  /\ Export!Bound \in Seq(Export!Lanes)
           /\ \A i, j \in 1..Len(Export!Bound) : Export!Bound[i] = Export!Bound[j] => i = j
           /\ \A i \in 1..Len(Export!Bound) : Export!Bound[i] \in Export!Range(Export!Bound)
           /\ \A l \in Export!Range(Export!Bound) : \E i \in 1..Len(Export!Bound) : Export!Bound[i] = l
           /\ Export!Range(Export!Bound) \subseteq Export!Deliverables
           /\ Export!Deliverables \subseteq Export!Lanes
           /\ "render" \notin Export!Range(Export!Bound)
           /\ ~firm => "render" \in Export!Deliverables
<1>1. /\ Forms \in Seq(Export!Range(Forms)) /\ Export!Range(Forms) \cap {"render", "fill"} = {}
      /\ \A i, j \in DOMAIN Forms : Forms[i] = Forms[j] => i = j
  BY RecordConstants DEF Export!ExportConstants, Export!IsInjective
<1>2. CASE firm
  <2>1. Export!Bound = <<"fill">> /\ Export!Deliverables = Export!Range(<<"fill">>)
    BY <1>2 DEF Export!Bound, Export!Deliverables
  <2>2. /\ <<"fill">> \in Seq(Export!Lanes) /\ Len(<<"fill">>) = 1 /\ DOMAIN <<"fill">> = 1..1
        /\ <<"fill">>[1] = "fill"
    BY DEF Export!Lanes
  <2>3. Export!Range(<<"fill">>) = {"fill"}
    BY <2>2 DEF Export!Range
  <2> QED
    BY <1>2, <2>1, <2>2, <2>3 DEF Export!Lanes
<1>3. CASE ~firm
  <2>1. Export!Bound = Forms /\ Export!Deliverables = Export!Range(Forms) \cup {"render"}
    BY <1>3 DEF Export!Bound, Export!Deliverables
  <2>2. Forms \in Seq(Export!Lanes)
    BY <1>1 DEF Export!Lanes
  <2>3. DOMAIN Forms = 1..Len(Forms)
    BY <1>1
  <2>4. /\ \A i \in 1..Len(Forms) : Forms[i] \in Export!Range(Forms)
        /\ \A l \in Export!Range(Forms) : \E i \in 1..Len(Forms) : Forms[i] = l
    BY <2>3 DEF Export!Range
  <2> QED
    BY <1>1, <1>3, <2>1, <2>2, <2>3, <2>4 DEF Export!Lanes
<1> QED
  BY <1>2, <1>3

\* Nothing was written yet.
LEMMA ExportInit == Init => ExportInv
<1> SUFFICES ASSUME Export!Init PROVE ExportInv
  BY DEF Init
<1> USE DEF Export!Init
<1>1. Export!Idle \in Doors /\ Export!Idle.kind = "none" /\ Export!Idle.known = {}
  BY EmptySeq DEF Export!Idle, Doors, Steps
<1>2. ExportTypes
  <2>1. /\ file \in [Export!Lanes -> Export!Files \cup {None}]
        /\ facts \in [Export!Lanes -> Facts \cup {None}]
    OBVIOUS
  <2>2. /\ freeze \in 1..MaxPlans /\ drafts \in 0..MaxTexts /\ doors \in 0..MaxRuns
        /\ kills \in 0..MaxKills
    BY ExportBounds
  <2>3. /\ firm \in BOOLEAN /\ pends \in BOOLEAN /\ blocked \in BOOLEAN
        /\ draft \in Export!Drafts \cup {None} /\ indexed \subseteq 1..MaxTexts
        /\ hand \in {"owed", "clean", "naming"}
    OBVIOUS
  <2>4. door \in Doors /\ (door.kind = "none" => door = Export!Idle) /\ door.known \subseteq indexed
    BY <1>1
  <2>5. bundle = None
    OBVIOUS
  <2> QED
    BY <2>1, <2>2, <2>3, <2>4, <2>5 DEF ExportTypes
<1>3. Queue /\ InHand
  BY <1>1 DEF Queue, InHand
<1>4. Filed
  BY DEF Filed, FiledAt
<1>5. Export!ProducedIsProved
  BY DEF Export!ProducedIsProved
<1> QED
  BY <1>2, <1>3, <1>4, <1>5 DEF ExportInv

\* The plan's template is chosen once, so what a request goes over stays what it was.
LEMMA BoundStays ==
    ASSUME firm' = firm
    PROVE  /\ Export!Bound' = Export!Bound /\ Export!Deliverables' = Export!Deliverables
           /\ Export!Range(Export!Bound)' = Export!Range(Export!Bound)
BY DEF Export!Bound, Export!Deliverables

\* The first of the lanes to come is told apart from the rest, from those refused and from
\* those made.
LEMMA FirstLane ==
    ASSUME ExportInv, door.kind # "none", door.todo # <<>>
    PROVE  /\ Export!Lane = Head(door.todo) /\ Export!Lane = door.todo[1]
           /\ Len(door.todo) \in Nat /\ Len(door.todo) >= 1
           /\ Export!Lane \in Export!Lanes /\ Export!Lane \in Export!Deliverables
           /\ Export!Lane \notin door.made \cup door.refused
           /\ Tail(door.todo) \in Seq(Export!Lanes) /\ Len(Tail(door.todo)) = Len(door.todo) - 1
           /\ \A i \in 1..Len(Tail(door.todo)) :
                 /\ Tail(door.todo)[i] = door.todo[i + 1] /\ i + 1 \in 1..Len(door.todo)
                 /\ Tail(door.todo)[i] # Export!Lane
           /\ door.kind = "confirm" => Export!Lane # "render"
           /\ door.kind = "export" => Tail(door.todo) = <<>>
<1> USE DEF ExportInv
<1>1. door.todo \in Seq(Export!Lanes)
  BY DEF ExportTypes, Doors
<1>2. /\ Export!Lane = Head(door.todo) /\ Export!Lane = door.todo[1]
      /\ Len(door.todo) \in Nat /\ Len(door.todo) >= 1 /\ 1 \in 1..Len(door.todo)
      /\ Export!Lane \in Export!Lanes
      /\ Tail(door.todo) \in Seq(Export!Lanes) /\ Len(Tail(door.todo)) = Len(door.todo) - 1
      /\ \A i \in 1..Len(Tail(door.todo)) : Tail(door.todo)[i] = door.todo[i + 1]
  BY <1>1 DEF Export!Lane
<1>3. \A i \in 1..Len(Tail(door.todo)) : i + 1 \in 1..Len(door.todo) /\ i + 1 # 1
  BY <1>2
<1>4. /\ Export!Lane \in Export!Deliverables /\ Export!Lane \notin door.made \cup door.refused
      /\ door.kind = "confirm" => Export!Lane # "render"
  BY <1>2 DEF Queue
<1>5. \A i \in 1..Len(Tail(door.todo)) : Tail(door.todo)[i] # Export!Lane
  BY <1>2, <1>3 DEF Queue
<1>6. ASSUME door.kind = "export" PROVE Tail(door.todo) = <<>>
  <2>1. \A i \in 1..Len(door.todo) : i = 1
    BY <1>6 DEF Queue
  <2>2. Len(door.todo) \in 1..Len(door.todo)
    BY <1>2
  <2>3. Len(door.todo) = 1
    BY <2>1, <2>2
  <2>4. Tail(door.todo) \in Seq(Export!Lanes) /\ Len(Tail(door.todo)) = 0
    BY <1>2, <2>3
  <2> QED
    BY <2>4, EmptySeq
<1> QED
  BY <1>2, <1>3, <1>4, <1>5, <1>6

\* A lane that is done with joins the refused or the made, and the rest are still to come.
LEMMA LaneDone ==
    ASSUME ExportInv, door.kind # "none", door.todo # <<>>, Export!Refuse \/ Export!Made,
           firm' = firm, draft' = draft, doors' = doors
    PROVE  /\ door' \in Doors /\ door'.kind = door.kind /\ door'.step = "run" /\ Queue'
           /\ door'.known = indexed
           /\ door'.made = door.made \/ (Export!Made /\ door'.made = door.made \cup {Export!Lane})
<1>1. door \in Doors /\ indexed \in SUBSET (1..MaxTexts)
  BY DEF ExportInv, ExportTypes
<1>2. /\ door'.kind = door.kind /\ door'.todo = Tail(door.todo) /\ door'.step = "run"
      /\ door'.known = indexed
      /\ \/ Export!Refuse /\ door'.refused = door.refused \cup {Export!Lane} /\ door'.made = door.made
         \/ Export!Made /\ door'.made = door.made \cup {Export!Lane} /\ door'.refused = door.refused
  BY <1>1 DEF Doors, Export!Refuse, Export!Made, Export!NextLane
<1>3. door' \in Doors
  <2> DEFINE coming == Tail(door.todo)
             refused == door.refused \cup {Export!Lane}
             made == door.made \cup {Export!Lane}
  <2>1. coming \in Seq(Export!Lanes) /\ "run" \in Steps
    BY FirstLane DEF Steps
  <2>2. refused \in SUBSET Export!Lanes /\ made \in SUBSET Export!Lanes
    BY <1>1, FirstLane DEF Doors
  <2>3. \/ door' = [door EXCEPT !.todo = coming, !.step = "run", !.known = indexed,
                                !.refused = refused]
        \/ door' = [door EXCEPT !.todo = coming, !.step = "run", !.known = indexed, !.made = made]
    BY <1>1 DEF Export!Refuse, Export!Made, Export!NextLane, Doors
  <2> HIDE DEF Steps, coming, refused, made
  <2> QED
    BY <1>1, <2>1, <2>2, <2>3 DEF Doors
<1>4. Queue'
  <2>1. /\ draft \in Export!Drafts /\ doors \in 1..MaxRuns
        /\ \A i, j \in 1..Len(door.todo) : door.todo[i] = door.todo[j] => i = j
        /\ \A i \in 1..Len(door.todo) :
              door.todo[i] \in Export!Deliverables \ (door.made \cup door.refused)
        /\ door.refused \cap door.made = {}
        /\ door.refused \cup door.made \subseteq Export!Deliverables
    BY DEF ExportInv, Queue
  <2>2. /\ \A i, j \in 1..Len(door'.todo) : door'.todo[i] = door'.todo[j] => i = j
        /\ \A i \in 1..Len(door'.todo) :
              door'.todo[i] \in Export!Deliverables' \ (door'.made \cup door'.refused)
    BY <1>2, <2>1, FirstLane, BoundStays
  <2>3. /\ door'.refused \cap door'.made = {}
        /\ door'.refused \cup door'.made \subseteq Export!Deliverables'
    BY <1>2, <2>1, FirstLane, BoundStays
  <2>4. ASSUME door'.kind = "confirm", NEW l \in Export!Range(Export!Bound)'
        PROVE  l \in door'.made \cup door'.refused \/ \E i \in 1..Len(door'.todo) : door'.todo[i] = l
    <3>1. l \in door.made \cup door.refused \/ \E i \in 1..Len(door.todo) : door.todo[i] = l
      BY <1>2, <2>4, BoundStays DEF ExportInv, Queue
    <3>2. ASSUME NEW i \in 1..Len(door.todo), door.todo[i] = l, l # Export!Lane
          PROVE  \E j \in 1..Len(door'.todo) : door'.todo[j] = l
      <4>1. i # 1 /\ i - 1 \in 1..Len(Tail(door.todo)) /\ (i - 1) + 1 = i
        BY <3>2, FirstLane
      <4>2. Tail(door.todo)[i - 1] = l
        BY <3>2, <4>1, FirstLane
      <4> QED
        BY <1>2, <4>1, <4>2
    <3> QED
      BY <1>2, <3>1, <3>2
  <2>5. door'.kind = "export" => ~firm' /\ \A i \in 1..Len(door'.todo) : FALSE
    <3> SUFFICES ASSUME door'.kind = "export" PROVE ~firm' /\ \A i \in 1..Len(door'.todo) : FALSE
      OBVIOUS
    <3>1. ~firm /\ door'.todo = <<>>
      BY <1>2, FirstLane DEF ExportInv, Queue
    <3> QED
      BY <3>1
  <2>6. door'.kind = "confirm" => "render" \notin door'.made
              /\ \A i \in 1..Len(door'.todo) : door'.todo[i] # "render"
    BY <1>2, FirstLane DEF ExportInv, Queue
  <2> QED
    BY <2>1, <2>2, <2>3, <2>4, <2>5, <2>6 DEF Queue
<1> QED
  BY <1>2, <1>3, <1>4

\* What a step leaves of the doors when it writes no file, no facts, no bundle and no door.
LEMMA DoorsRest ==
    ASSUME ExportInv, UNCHANGED <<firm, file, facts, bundle, proved, door, doors>>,
           door.kind = "none" \/ (draft' = draft /\ hand' = hand)
    PROVE  Queue' /\ InHand' /\ Filed' /\ Export!ProducedIsProved'
<1> USE DEF ExportInv
<1>1. Queue'
  BY BoundStays DEF Queue
<1>2. InHand'
  BY DEF InHand
<1>3. Filed'
  BY DEF Filed, FiledAt
<1>4. Export!ProducedIsProved'
  BY BoundStays DEF Export!ProducedIsProved
<1> QED
  BY <1>1, <1>2, <1>3, <1>4

\* What happens to the pursuit between requests, an ingest and a download move no door.
LEMMA ExportElse ==
    ASSUME ExportInv,
           \/ \E p, b \in BOOLEAN : Export!Redraft(p, b)
           \/ Export!Waive \/ Export!Replan
           \/ \E value \in {"owed", "clean", "naming"} : Export!HandFill(value)
           \/ \E n \in 1..MaxTexts : Export!Ingest(n)
           \/ \E l \in Export!Deliverables : Export!Download(l)
    PROVE  /\ ExportInv' /\ UNCHANGED <<file, bundle>>
<1>1. Export!Idle.kind = "none"
  BY DEF Export!Idle
<1>2. /\ UNCHANGED <<firm, file, facts, bundle, proved, door, doors>>
      /\ door.kind = "none" \/ (draft' = draft /\ hand' = hand)
  BY <1>1 DEF Export!Redraft, Export!Waive, Export!Replan, Export!HandFill, Export!Ingest,
     Export!Download, Export!Free, Export!disk, Export!response, Export!counts
<1>3. Queue' /\ InHand' /\ Filed' /\ Export!ProducedIsProved'
  BY <1>2, DoorsRest
<1>4. /\ freeze' \in 1..MaxPlans /\ drafts' \in 0..MaxTexts /\ kills' \in 0..MaxKills
      /\ indexed' \subseteq 1..MaxTexts /\ indexed \subseteq indexed'
  BY ExportBounds DEF ExportInv, ExportTypes, Export!Redraft, Export!Waive, Export!Replan,
     Export!HandFill, Export!Ingest, Export!Download, Export!disk, Export!response, Export!counts
<1>5. /\ pends' \in BOOLEAN /\ blocked' \in BOOLEAN /\ hand' \in {"owed", "clean", "naming"}
  BY DEF ExportInv, ExportTypes, Export!Redraft, Export!Waive, Export!Replan,
     Export!HandFill, Export!Ingest, Export!Download, Export!disk, Export!response, Export!counts
<1>6. draft' \in Export!Drafts \cup {None}
  <2>1. ASSUME NEW p \in BOOLEAN, NEW b \in BOOLEAN, Export!Redraft(p, b)
        PROVE  draft' \in Export!Drafts
    <3>1. draft' = [n |-> drafts', plan |-> freeze] /\ drafts' \in 1..MaxTexts /\ freeze \in 1..MaxPlans
      BY <2>1, ExportBounds DEF Export!Redraft, ExportInv, ExportTypes
    <3> QED
      BY <3>1 DEF Export!Drafts
  <2> QED
    BY <2>1 DEF ExportInv, ExportTypes, Export!Waive, Export!Replan,
       Export!HandFill, Export!Ingest, Export!Download, Export!disk, Export!response, Export!counts
<1>7. ExportTypes'
  BY <1>2, <1>4, <1>5, <1>6, BoundStays DEF ExportInv, ExportTypes
<1> QED
  BY <1>2, <1>3, <1>7 DEF ExportInv

\* A request enters over lanes told apart, each still to come.
LEMMA ExportEnters ==
    ASSUME ExportInv, Export!Export \/ Export!Review \/ Export!Confirm
    PROVE  ExportInv' /\ UNCHANGED <<file, bundle>>
<1> DEFINE coming == IF Export!Export THEN <<"render">> ELSE IF Export!Review THEN <<>> ELSE Export!Bound
           kind == IF Export!Export THEN "export" ELSE IF Export!Review THEN "review" ELSE "confirm"
<1>1. /\ door.kind = "none" /\ draft # None /\ doors' = doors + 1 /\ doors < MaxRuns
      /\ door' = [Export!Idle EXCEPT !.kind = kind, !.todo = coming, !.step = "run", !.known = indexed]
      /\ UNCHANGED <<firm, freeze, draft, pends, blocked, indexed, hand, file, facts, bundle,
                     proved, kills, drafts>>
  <2>1. Export!Enter(kind, coming) /\ draft # None
    BY DEF Export!Export, Export!Review, Export!Confirm, Export!Current
  <2>2. Export!Idle.kind = "none"
    BY DEF Export!Idle
  <2> HIDE DEF kind, coming
  <2> QED
    BY <2>1, <2>2 DEF Export!Enter, Export!Free, Export!response, Export!disk
<1>2. firm \in BOOLEAN /\ draft \in Export!Drafts /\ doors \in 0..MaxRuns /\ doors' \in 1..MaxRuns
  BY <1>1, ExportBounds DEF ExportInv, ExportTypes
<1>3. /\ coming \in Seq(Export!Lanes)
      /\ \A i, j \in 1..Len(coming) : coming[i] = coming[j] => i = j
      /\ \A i \in 1..Len(coming) : coming[i] \in Export!Deliverables
      /\ kind = "export" => ~firm /\ \A i \in 1..Len(coming) : i = 1 /\ coming[i] = "render"
      /\ kind = "confirm" => coming = Export!Bound
  <2>1. CASE Export!Export
    <3>1. ~firm /\ coming = <<"render">> /\ "render" \in Export!Deliverables
      BY <1>2, <2>1, BoundLanes DEF Export!Export
    <3>2. "render" \in Export!Lanes
      BY DEF Export!Lanes
    <3>3. /\ <<"render">> \in Seq(Export!Lanes) /\ Len(<<"render">>) = 1
          /\ \A i \in 1..1 : i = 1 /\ <<"render">>[i] = "render"
      BY <3>2
    <3>4. kind = "export"
      BY <2>1
    <3> HIDE DEF coming, kind
    <3> QED
      BY <3>1, <3>3, <3>4
  <2>2. CASE ~Export!Export /\ Export!Review
    <3>1. coming = <<>> /\ kind = "review"
      BY <2>2
    <3> HIDE DEF coming, kind
    <3> QED
      BY <3>1, EmptySeq
  <2>3. CASE ~Export!Export /\ ~Export!Review
    <3>1. coming = Export!Bound /\ kind = "confirm"
      BY <2>3
    <3> HIDE DEF coming, kind
    <3> QED
      BY <1>2, <3>1, BoundLanes
  <2> QED
    BY <2>1, <2>2, <2>3
<1>4. kind \in {"export", "review", "confirm"}
  OBVIOUS
<1> HIDE DEF coming, kind
<1>5. /\ door' = [kind |-> kind, todo |-> coming, step |-> "run", refused |-> {}, made |-> {},
                   known |-> indexed]
      /\ door' \in Doors /\ door'.known = indexed
  <2>1. door' = [kind |-> kind, todo |-> coming, step |-> "run", refused |-> {}, made |-> {},
                 known |-> indexed]
    BY <1>1 DEF Export!Idle
  <2>2. indexed \in SUBSET (1..MaxTexts)
    BY DEF ExportInv, ExportTypes
  <2> QED
    BY <1>3, <1>4, <2>1, <2>2 DEF Doors, Steps
<1>6. ExportTypes'
  BY <1>1, <1>2, <1>4, <1>5, BoundStays DEF ExportInv, ExportTypes
<1>7. Queue'
  <2>1. kind = "confirm" => /\ \A l \in Export!Range(Export!Bound) : \E i \in 1..Len(coming) : coming[i] = l
                            /\ \A i \in 1..Len(coming) : coming[i] # "render"
    BY <1>2, <1>3, BoundLanes
  <2>2. /\ door'.kind = kind /\ door'.todo = coming /\ door'.refused = {} /\ door'.made = {}
        /\ draft' = draft /\ firm' = firm
    <3>1. door'.kind = kind /\ door'.todo = coming /\ door'.refused = {} /\ door'.made = {}
      BY <1>5
    <3> QED
      BY <1>1, <3>1
  <2>3. /\ Export!Deliverables' = Export!Deliverables
        /\ Export!Range(Export!Bound)' = Export!Range(Export!Bound)
    BY <2>2, BoundStays
  <2>4. \A i \in 1..Len(coming) : coming[i] \in Export!Deliverables \ ({} \cup {})
    BY <1>3
  <2>5. kind = "confirm" => \A l \in Export!Range(Export!Bound) :
           l \in {} \cup {} \/ \E i \in 1..Len(coming) : coming[i] = l
    BY <2>1
  <2> QED
    BY <1>2, <1>3, <2>1, <2>2, <2>3, <2>4, <2>5 DEF Queue
<1>8. InHand'
  BY <1>5 DEF InHand
<1>9. Filed'
  <2>1. ASSUME NEW l \in Export!Lanes
        PROVE  /\ file[l] # None => file[l].run \in Nat
               /\ facts[l] # None => facts[l].run \in Nat
    BY ExportBounds DEF ExportInv, ExportTypes, Facts, Export!Files
  <2> QED
    BY <1>1, <1>2, <2>1, ExportBounds DEF ExportInv, Filed, FiledAt
<1>10. Export!ProducedIsProved'
  BY <1>1, BoundStays DEF ExportInv, Export!ProducedIsProved
<1> QED
  BY <1>1, <1>6, <1>7, <1>8, <1>9, <1>10 DEF ExportInv

\* What lies on disk and on record for a lane.
LEMMA OnRecord ==
    ASSUME ExportInv, NEW l \in Export!Lanes
    PROVE  /\ file[l] \in Export!Files \cup {None} /\ facts[l] \in Facts \cup {None}
           /\ file[l] # None => /\ file[l].run \in 1..MaxRuns /\ file[l].text \in Export!Drafts
                                /\ file[l].whole \in BOOLEAN /\ file[l].run \in Nat
                                /\ file[l].hand \in {"owed", "clean", "naming"}
           /\ facts[l] # None => facts[l].run \in 1..MaxRuns /\ facts[l].run \in Nat
           /\ FiledAt(l)
<1>1. file[l] \in Export!Files \cup {None} /\ facts[l] \in Facts \cup {None}
  BY DEF ExportInv, ExportTypes
<1>2. file[l] # None => /\ file[l].run \in 1..MaxRuns /\ file[l].text \in Export!Drafts
                        /\ file[l].whole \in BOOLEAN /\ file[l].hand \in {"owed", "clean", "naming"}
  BY <1>1 DEF Export!Files
<1>3. facts[l] # None => facts[l].run \in 1..MaxRuns
  BY <1>1 DEF Facts
<1>4. \A n \in 1..MaxRuns : n \in Nat
  BY ExportBounds
<1>5. FiledAt(l)
  BY DEF ExportInv, Filed
<1> QED
  BY <1>1, <1>2, <1>3, <1>4, <1>5

\* A step at one lane keeps what is recorded of the others, if what it leaves of its own fits.
LEMMA LaneMoves ==
    ASSUME ExportInv, door.kind # "none", door.todo # <<>>,
           UNCHANGED <<firm, freeze, draft, pends, blocked, indexed, hand, drafts, doors, kills,
                       bundle>>,
           door' \in Doors, door'.kind # "none", door'.known \subseteq indexed,
           file' \in [Export!Lanes -> Export!Files \cup {None}],
           facts' \in [Export!Lanes -> Facts \cup {None}], proved \subseteq proved',
           NEW l \in Export!Lanes, FiledAt(l)',
           \A m \in Export!Lanes : m # l => file'[m] = file[m] /\ facts'[m] = facts[m]
    PROVE  ExportTypes' /\ Filed' /\ Export!ProducedIsProved'
<1>1. ExportTypes'
  BY BoundStays DEF ExportInv, ExportTypes
<1>2. Filed'
  <2>1. ASSUME NEW m \in Export!Lanes, m # l PROVE FiledAt(m)'
    <3>1. FiledAt(m) /\ file'[m] = file[m] /\ facts'[m] = facts[m]
      BY <2>1 DEF ExportInv, Filed
    <3> QED
      BY <3>1 DEF FiledAt
  <2> QED
    BY <2>1 DEF Filed
<1>3. Export!ProducedIsProved'
  BY BoundStays DEF ExportInv, Export!ProducedIsProved
<1> QED
  BY <1>1, <1>2, <1>3

\* A lane that is done with leaves in hand what the confirm made so far.
LEMMA HandMoves ==
    ASSUME ExportInv, door.kind # "none", door.todo # <<>>, Export!Refuse \/ Export!Made,
           UNCHANGED <<firm, draft, doors>>,
           \A m \in Export!Lanes : m # Export!Lane => file'[m] = file[m],
           Export!Refuse \/ door.kind # "confirm" \/ file'[Export!Lane] = None
              \/ (file'[Export!Lane].text = draft /\ file'[Export!Lane].run = doors)
    PROVE  InHand'
<1>1. door'.kind = door.kind /\ door'.step = "run"
  BY LaneDone
<1>2. ASSUME door.kind = "confirm", NEW l \in door'.made, file'[l] # None
      PROVE  file'[l].text = draft /\ file'[l].run = doors
  <2>1. door.made \subseteq Export!Lanes /\ Export!Lane \notin door.made
    BY FirstLane DEF ExportInv, ExportTypes, Doors
  <2>2. CASE l \in door.made
    BY <1>2, <2>1, <2>2 DEF ExportInv, InHand
  <2>3. CASE l \notin door.made
    <3>1. l = Export!Lane /\ Export!Made /\ ~Export!Refuse
      <4>1. door'.made = door.made \cup {Export!Lane}
        BY <2>3, LaneDone
      <4>2. Export!Lane \in door'.made
        BY <4>1
      <4>3. door \in Doors
        BY DEF ExportInv, ExportTypes
      <4>4. Export!Refuse => door'.made = door.made
        BY <4>3 DEF Export!Refuse, Export!NextLane, Doors
      <4> QED
        BY <2>1, <2>3, <4>1, <4>2, <4>4
    <3> QED
      BY <1>2, <3>1
  <2> QED
    BY <2>2, <2>3
<1> QED
  BY <1>1, <1>2 DEF InHand

\* A lane that is refused leaves nothing new; a scan or a proof that fails takes its file away.
LEMMA ExportRefuses ==
    ASSUME ExportInv, Export!LaneRefused \/ Export!Gate \/ Export!Drift
    PROVE  /\ ExportInv' /\ bundle' = bundle
           /\ \A m \in Export!Lanes : file'[m] \in {file[m], None}
<1>1. /\ door.kind # "none" /\ door.todo # <<>>
      /\ UNCHANGED <<firm, freeze, draft, pends, blocked, indexed, hand, drafts, doors, kills,
                     bundle, facts, proved>>
  BY DEF Export!LaneRefused, Export!Gate, Export!Drift, Export!At, Export!RefusedAndGone,
     Export!response, Export!disk, Export!counts
<1>2. PICK l \in Export!Lanes : l = Export!Lane
  BY <1>1, FirstLane
<1>3. /\ file \in [Export!Lanes -> Export!Files \cup {None}]
      /\ facts \in [Export!Lanes -> Facts \cup {None}] /\ door \in Doors
  BY DEF ExportInv, ExportTypes
<1>4. file' = file \/ file' = [file EXCEPT ![l] = None]
  BY <1>2 DEF Export!LaneRefused, Export!Gate, Export!Drift, Export!RefusedAndGone, Export!Unlink,
     Export!disk
<1>5. /\ file' \in [Export!Lanes -> Export!Files \cup {None}]
      /\ \A m \in Export!Lanes : file'[m] \in {file[m], None} /\ (m # l => file'[m] = file[m])
  BY <1>3, <1>4
<1>6. FiledAt(l)'
  <2>1. FiledAt(l) /\ file'[l] \in {file[l], None}
    BY <1>5, OnRecord
  <2> QED
    BY <1>1, <2>1 DEF FiledAt
<1>7. /\ door' \in Doors /\ door'.kind # "none" /\ door'.known \subseteq indexed
      /\ Queue' /\ InHand'
  <2>1. CASE Export!Refuse
    BY <1>1, <1>2, <1>5, <2>1, LaneDone, HandMoves
  <2>2. CASE door.kind = "export" /\ door' = [door EXCEPT !.todo = <<>>, !.step = "run"]
    <3>1. <<>> \in Seq(Export!Lanes) /\ "run" \in Steps
      BY EmptySeq DEF Steps
    <3>2. /\ door' \in Doors /\ door'.kind = "export" /\ door'.todo = <<>> /\ door'.step = "run"
          /\ door'.made = door.made /\ door'.refused = door.refused /\ door'.known = door.known
      BY <1>3, <2>2, <3>1 DEF Doors
    <3>3. Queue'
      BY <1>1, <2>2, <3>2, BoundStays DEF ExportInv, Queue
    <3>4. InHand'
      BY <3>2 DEF InHand
    <3>5. door.known \subseteq indexed
      BY DEF ExportInv, ExportTypes
    <3> QED
      BY <3>2, <3>3, <3>4, <3>5
  <2> QED
    BY <2>1, <2>2 DEF Export!LaneRefused, Export!Gate, Export!Drift, Export!RefusedAndGone
<1>8. ExportTypes' /\ Filed' /\ Export!ProducedIsProved'
  BY <1>1, <1>3, <1>5, <1>6, <1>7, LaneMoves
<1> QED
  BY <1>1, <1>5, <1>7, <1>8 DEF ExportInv

\* The step of a request within its lane moves only the step.
LEMMA StepMoves ==
    ASSUME ExportInv, door.kind # "none", door.todo # <<>>, UNCHANGED <<firm, draft, doors>>,
           NEW s \in Steps, door' = [door EXCEPT !.step = s]
    PROVE  /\ door' \in Doors /\ door'.kind = door.kind /\ door'.todo = door.todo /\ door'.step = s
           /\ door'.made = door.made /\ door'.refused = door.refused /\ Queue'
           /\ door'.known = door.known /\ door'.known \subseteq indexed
<1>1. door \in Doors /\ door.known \subseteq indexed
  BY DEF ExportInv, ExportTypes
<1>2. door' \in Doors /\ door'.kind = door.kind /\ door'.todo = door.todo /\ door'.step = s
      /\ door'.made = door.made /\ door'.refused = door.refused /\ door'.known = door.known
  BY <1>1 DEF Doors
<1>3. Queue'
  BY <1>2, BoundStays DEF ExportInv, Queue
<1> QED
  BY <1>1, <1>2, <1>3

\* What the scan clears names nobody that the index knew, now or when the lane's turn came.
LEMMA ExportScans ==
    ASSUME ExportInv, Export!Scan
    PROVE  ExportInv' /\ UNCHANGED <<file, bundle>>
<1>1. /\ door.kind # "none" /\ door.todo # <<>> /\ door.step = "run"
      /\ UNCHANGED <<firm, freeze, draft, pends, blocked, indexed, hand, drafts, doors, kills,
                     bundle, file, facts, proved>>
      /\ door' = [door EXCEPT !.step = "scanned"]
  BY DEF Export!Scan, Export!At, Export!response, Export!disk, Export!counts
<1>2. PICK l \in Export!Lanes : l = Export!Lane
  BY <1>1, FirstLane
<1>3. /\ file \in [Export!Lanes -> Export!Files \cup {None}] /\ hand \in {"owed", "clean", "naming"}
      /\ facts \in [Export!Lanes -> Facts \cup {None}] /\ door.known \subseteq indexed
  BY DEF ExportInv, ExportTypes
<1>4. /\ door' \in Doors /\ door'.kind = door.kind /\ door'.todo = door.todo /\ door'.step = "scanned"
      /\ door'.made = door.made /\ door'.known = door.known /\ door'.known \subseteq indexed /\ Queue'
  BY <1>1, StepMoves DEF Steps
<1>5. FiledAt(l)'
  <2>1. FiledAt(l)
    BY OnRecord
  <2> QED
    BY <1>1, <2>1 DEF FiledAt
<1>6. ExportTypes' /\ Filed' /\ Export!ProducedIsProved'
  BY <1>1, <1>3, <1>4, <1>5, LaneMoves
<1>7. InHand'
  <2>1. draft.n \notin indexed /\ (Export!Lane = "fill" => hand = "clean")
    BY <1>3 DEF Export!Scan, Export!Residue, Export!Withheld, Export!Complete
  <2>2. draft'.n \notin door'.known /\ (Head(door'.todo) = "fill" => hand' = "clean")
    BY <1>1, <1>3, <1>4, <2>1 DEF Export!Lane
  <2> QED
    BY <1>1, <1>4, <2>2 DEF ExportInv, InHand
<1> QED
  BY <1>1, <1>4, <1>6, <1>7 DEF ExportInv

\* A lane is written from the text and the values its scan has cleared, by this request.
LEMMA ExportWrites ==
    ASSUME ExportInv, Export!Write
    PROVE  /\ ExportInv' /\ bundle' = bundle
           /\ \A m \in Export!Lanes : m # Export!Lane => file'[m] = file[m]
           /\ draft.n \notin door.known /\ (Export!Lane = "fill" => hand = "clean")
<1> DEFINE f == [text |-> draft, hand |-> hand, run |-> doors, whole |-> FALSE]
<1>1. /\ door.kind # "none" /\ door.todo # <<>> /\ door.step = "scanned"
      /\ UNCHANGED <<firm, freeze, draft, pends, blocked, indexed, hand, drafts, doors, kills,
                     bundle, facts, proved>>
      /\ file' = [file EXCEPT ![Export!Lane] = f] /\ door' = [door EXCEPT !.step = "write"]
  BY DEF Export!Write, Export!At, Export!response, Export!disk, Export!counts
<1>2. PICK l \in Export!Lanes : l = Export!Lane
  BY <1>1, FirstLane
<1>3. /\ file \in [Export!Lanes -> Export!Files \cup {None}] /\ hand \in {"owed", "clean", "naming"}
      /\ facts \in [Export!Lanes -> Facts \cup {None}] /\ door \in Doors
      /\ draft \in Export!Drafts /\ doors \in 1..MaxRuns
  BY <1>1 DEF ExportInv, ExportTypes, Queue
<1>4. /\ f \in Export!Files /\ f # None /\ f.run = doors /\ f.text = draft
  <2>1. f \in Export!Files
    BY <1>3 DEF Export!Files
  <2>2. f.run = doors /\ f.text = draft
    OBVIOUS
  <2> HIDE DEF f
  <2> QED
    BY <2>1, <2>2, ExportBounds
<1> HIDE DEF f
<1>5. /\ file' \in [Export!Lanes -> Export!Files \cup {None}] /\ file'[l] = f
      /\ \A m \in Export!Lanes : m # l => file'[m] = file[m]
  BY <1>1, <1>2, <1>3, <1>4
<1>6. FiledAt(l)'
  <2>1. /\ FiledAt(l) /\ doors \in Nat
    BY <1>3, OnRecord, ExportBounds
  <2>2. facts[l] # None => facts[l].run \in Nat
    BY OnRecord
  <2> QED
    BY <1>1, <1>4, <1>5, <2>1, <2>2 DEF FiledAt
<1>7. /\ door' \in Doors /\ door'.kind = door.kind /\ door'.todo = door.todo /\ door'.step = "write"
      /\ door'.made = door.made /\ Queue' /\ door'.known \subseteq indexed
  BY <1>1, StepMoves DEF Steps
<1>8. ExportTypes' /\ Filed' /\ Export!ProducedIsProved'
  BY <1>1, <1>3, <1>5, <1>6, <1>7, LaneMoves
<1>9. InHand'
  <2>1. Export!Lane = Head(door.todo) /\ l \notin door.made /\ door.made \subseteq Export!Lanes
    BY <1>1, <1>2, <1>3, FirstLane DEF Doors
  <2>2. \A m \in door.made : file'[m] = file[m]
    BY <1>5, <2>1
  <2>3. Head(door'.todo) = l /\ draft' = draft /\ doors' = doors
    BY <1>1, <1>2, <1>7, <2>1
  <2> QED
    BY <1>1, <1>4, <1>5, <1>7, <2>2, <2>3 DEF ExportInv, InHand
<1>10. draft.n \notin door.known /\ (Export!Lane = "fill" => hand = "clean")
  BY <1>1 DEF ExportInv, InHand, Export!Lane
<1> QED
  BY <1>1, <1>2, <1>5, <1>7, <1>8, <1>9, <1>10 DEF ExportInv

\* A file is saved to its end, proved, and put on record, each of the bytes the request wrote.
LEMMA ExportSaves ==
    ASSUME ExportInv, Export!Save \/ Export!Prove \/ Export!Record
    PROVE  /\ ExportInv' /\ bundle' = bundle
           /\ \A m \in Export!Lanes : file'[m] # None => file[m] # None /\ file'[m].run = file[m].run
<1>1. /\ door.kind # "none" /\ door.todo # <<>> /\ door.step \in {"write", "prove", "record"}
      /\ UNCHANGED <<firm, freeze, draft, pends, blocked, indexed, hand, drafts, doors, kills,
                     bundle>>
  BY DEF Export!Save, Export!Prove, Export!Record, Export!At, Export!response, Export!disk,
     Export!counts
<1>2. PICK l \in Export!Lanes : l = Export!Lane
  BY <1>1, FirstLane
<1>3. /\ file \in [Export!Lanes -> Export!Files \cup {None}]
      /\ facts \in [Export!Lanes -> Facts \cup {None}] /\ door \in Doors /\ doors \in 1..MaxRuns
      /\ doors \in Nat
  BY <1>1, ExportBounds DEF ExportInv, ExportTypes, Queue
<1>4. /\ l = Head(door.todo) /\ l \notin door.made /\ door.made \subseteq Export!Lanes
      /\ FiledAt(l)
  BY <1>1, <1>2, <1>3, FirstLane, OnRecord DEF Doors
<1>5. /\ file[l] # None /\ file[l] \in Export!Files /\ file[l].run = doors /\ file[l].text = draft
      /\ door.step \in {"prove", "record"} => file[l].whole /\ l # "render"
      /\ door.step = "record" => <<l, file[l]>> \in proved
      /\ \A m \in door.made : door.kind = "confirm" /\ file[m] # None =>
            file[m].text = draft /\ file[m].run = doors
  BY <1>1, <1>3, <1>4 DEF ExportInv, InHand
<1>6. CASE Export!Save
  <2> DEFINE g == [file[l] EXCEPT !.whole = TRUE]
  <2>1. /\ g \in Export!Files /\ g.run = doors /\ g.text = draft /\ g.whole = TRUE
    BY <1>5 DEF Export!Files
  <2>2. file' = [file EXCEPT ![l] = g] /\ facts' = facts /\ proved' = proved
    BY <1>2, <1>6 DEF Export!Save, Export!Saved
  <2> HIDE DEF g
  <2>3. g # None
    BY <2>1, ExportBounds
  <2>4. /\ file' \in [Export!Lanes -> Export!Files \cup {None}] /\ file'[l] = g
        /\ \A m \in Export!Lanes : m # l => file'[m] = file[m]
    BY <1>3, <2>1, <2>2
  <2>5. FiledAt(l)'
    BY <1>1, <1>4, <1>5, <2>1, <2>2, <2>3, <2>4 DEF FiledAt
  <2>6. door' \in Doors /\ door'.kind # "none" /\ door'.known \subseteq indexed /\ Queue' /\ InHand'
    <3>1. CASE Export!Lane = "render"
      <4>1. Export!Made /\ door.kind # "confirm"
        BY <1>1, <1>6, <3>1, FirstLane DEF Export!Save
      <4> QED
        BY <1>1, <1>2, <2>4, <4>1, LaneDone, HandMoves
    <3>2. CASE Export!Lane # "render"
      <4>1. door' = [door EXCEPT !.step = "prove"] /\ "prove" \in Steps
        BY <1>6, <3>2 DEF Export!Save, Steps
      <4>2. /\ door' \in Doors /\ door'.kind = door.kind /\ door'.todo = door.todo
            /\ door'.step = "prove" /\ door'.made = door.made /\ Queue'
            /\ door'.known \subseteq indexed
        BY <1>1, <4>1, StepMoves
      <4>3. /\ Head(door'.todo) = l /\ draft' = draft /\ doors' = doors
            /\ \A m \in door.made : file'[m] = file[m]
        BY <1>1, <1>4, <2>4, <4>2
      <4>4. InHand'
        BY <1>1, <1>2, <1>5, <2>1, <2>3, <2>4, <3>2, <4>2, <4>3 DEF InHand
      <4> QED
        BY <1>1, <4>2, <4>4
    <3> QED
      BY <3>1, <3>2
  <2>7. ExportTypes' /\ Filed' /\ Export!ProducedIsProved'
    BY <1>1, <1>3, <2>2, <2>4, <2>5, <2>6, LaneMoves
  <2>8. \A m \in Export!Lanes : file'[m] # None => file[m] # None /\ file'[m].run = file[m].run
    BY <1>5, <2>1, <2>4
  <2> QED
    BY <1>1, <2>6, <2>7, <2>8 DEF ExportInv
<1>7. CASE Export!Prove
  <2>1. /\ file' = file /\ facts' = facts /\ door.step = "prove" /\ "record" \in Steps
        /\ proved' = proved \cup {<<l, file[l]>>} /\ door' = [door EXCEPT !.step = "record"]
    BY <1>2, <1>7 DEF Export!Prove, Export!At, Steps
  <2>2. FiledAt(l)'
    BY <1>1, <1>4, <2>1 DEF FiledAt
  <2>3. /\ door' \in Doors /\ door'.kind = door.kind /\ door'.todo = door.todo
        /\ door'.step = "record" /\ door'.made = door.made /\ Queue'
        /\ door'.known \subseteq indexed
    BY <1>1, <2>1, StepMoves
  <2>4. Head(door'.todo) = l /\ draft' = draft /\ doors' = doors /\ file' = file
        /\ <<l, file'[l]>> \in proved'
    BY <1>1, <1>4, <2>1, <2>3
  <2>5. InHand'
    BY <1>1, <1>5, <2>1, <2>3, <2>4 DEF InHand
  <2>6. ExportTypes' /\ Filed' /\ Export!ProducedIsProved'
    BY <1>1, <1>3, <2>1, <2>2, <2>3, LaneMoves
  <2> QED
    BY <1>1, <2>1, <2>3, <2>5, <2>6 DEF ExportInv
<1>8. CASE Export!Record
  <2> DEFINE r == [sha |-> file[l], made |-> TRUE, run |-> doors]
  <2>1. /\ file' = file /\ proved' = proved /\ door.step = "record" /\ Export!Made
        /\ facts' = [facts EXCEPT ![l] = r]
    BY <1>2, <1>8 DEF Export!Record, Export!At
  <2>2. r \in Facts /\ r.sha = file[l] /\ r.run = doors /\ r.made = TRUE
    BY <1>3, <1>5 DEF Facts
  <2> HIDE DEF r
  <2>3. /\ facts' \in [Export!Lanes -> Facts \cup {None}] /\ facts'[l] = r
        /\ \A m \in Export!Lanes : m # l => facts'[m] = facts[m]
    BY <1>3, <2>1, <2>2
  <2>4. FiledAt(l)'
    BY <1>1, <1>3, <1>4, <1>5, <2>1, <2>2, <2>3 DEF FiledAt
  <2>5. door' \in Doors /\ door'.kind # "none" /\ door'.known \subseteq indexed /\ Queue' /\ InHand'
    BY <1>1, <1>2, <1>5, <2>1, LaneDone, HandMoves
  <2>6. ExportTypes' /\ Filed' /\ Export!ProducedIsProved'
    BY <1>1, <1>3, <2>1, <2>3, <2>4, <2>5, LaneMoves
  <2> QED
    BY <1>1, <2>1, <2>5, <2>6 DEF ExportInv
<1> QED
  BY <1>6, <1>7, <1>8

\* A template with values still owed leaves no buyer's copy, and facts that say so.
LEMMA ExportWithholds ==
    ASSUME ExportInv, Export!Withhold \/ Export!RecordWithheld
    PROVE  /\ ExportInv' /\ bundle' = bundle
           /\ \A m \in Export!Lanes : file'[m] \in {file[m], None}
<1>1. /\ door.kind # "none" /\ door.todo # <<>>
      /\ UNCHANGED <<firm, freeze, draft, pends, blocked, indexed, hand, drafts, doors, kills,
                     bundle, proved>>
  BY DEF Export!Withhold, Export!RecordWithheld, Export!At, Export!response, Export!disk,
     Export!counts
<1>2. PICK l \in Export!Lanes : l = Export!Lane
  BY <1>1, FirstLane
<1>3. /\ file \in [Export!Lanes -> Export!Files \cup {None}]
      /\ facts \in [Export!Lanes -> Facts \cup {None}] /\ door \in Doors /\ doors \in 1..MaxRuns
      /\ doors \in Nat
  BY <1>1, ExportBounds DEF ExportInv, ExportTypes, Queue
<1>4. /\ l = Head(door.todo) /\ l \notin door.made /\ door.made \subseteq Export!Lanes
      /\ FiledAt(l)
  BY <1>1, <1>2, <1>3, FirstLane, OnRecord DEF Doors
<1>5. CASE Export!Withhold
  <2>1. /\ file' = [file EXCEPT ![l] = None] /\ facts' = facts /\ l = "fill"
        /\ door' = [door EXCEPT !.step = "withheld"] /\ "withheld" \in Steps
    BY <1>2, <1>5 DEF Export!Withhold, Export!Emptied, Export!Unlink, Export!Withheld, Steps
  <2>2. /\ file' \in [Export!Lanes -> Export!Files \cup {None}] /\ file'[l] = None
        /\ \A m \in Export!Lanes : m # l => file'[m] = file[m]
    BY <1>3, <2>1
  <2>3. FiledAt(l)'
    BY <1>1, <1>4, <2>1, <2>2 DEF FiledAt
  <2>4. /\ door' \in Doors /\ door'.kind = door.kind /\ door'.todo = door.todo
        /\ door'.step = "withheld" /\ door'.made = door.made /\ Queue'
        /\ door'.known \subseteq indexed
    BY <1>1, <2>1, StepMoves
  <2>5. Head(door'.todo) = l /\ draft' = draft /\ doors' = doors
        /\ \A m \in door.made : file'[m] = file[m]
    BY <1>1, <1>4, <2>2, <2>4
  <2>6. InHand'
    BY <1>1, <2>1, <2>2, <2>4, <2>5 DEF ExportInv, InHand
  <2>7. ExportTypes' /\ Filed' /\ Export!ProducedIsProved'
    BY <1>1, <1>3, <2>1, <2>2, <2>3, <2>4, LaneMoves
  <2>8. \A m \in Export!Lanes : file'[m] \in {file[m], None}
    BY <2>2
  <2> QED
    BY <1>1, <2>4, <2>6, <2>7, <2>8 DEF ExportInv
<1>6. CASE Export!RecordWithheld
  <2> DEFINE r == [sha |-> None, made |-> FALSE, run |-> doors]
  <2>1. /\ file' = file /\ door.step = "withheld" /\ Export!Made
        /\ facts' = [facts EXCEPT ![l] = r]
    BY <1>2, <1>6 DEF Export!RecordWithheld, Export!At
  <2>2. r \in Facts /\ r.sha = None /\ r.run = doors /\ r.made = FALSE
    BY <1>3 DEF Facts
  <2>3. file[l] = None /\ l # "render"
    BY <1>1, <1>4, <2>1 DEF ExportInv, InHand
  <2> HIDE DEF r
  <2>4. /\ facts' \in [Export!Lanes -> Facts \cup {None}] /\ facts'[l] = r
        /\ \A m \in Export!Lanes : m # l => facts'[m] = facts[m]
    BY <1>3, <2>1, <2>2
  <2>5. FiledAt(l)'
    BY <1>1, <1>3, <2>1, <2>2, <2>3, <2>4 DEF FiledAt
  <2>6. door' \in Doors /\ door'.kind # "none" /\ door'.known \subseteq indexed /\ Queue' /\ InHand'
    BY <1>1, <1>2, <2>1, <2>3, LaneDone, HandMoves
  <2>7. ExportTypes' /\ Filed' /\ Export!ProducedIsProved'
    BY <1>1, <1>3, <2>1, <2>4, <2>5, <2>6, LaneMoves
  <2> QED
    BY <1>1, <2>1, <2>6, <2>7 DEF ExportInv
<1> QED
  BY <1>5, <1>6

\* What the bundle says of a lane is one of four words, and no word of a refused lane is
\* produced; of a form it lists as produced the facts are of the bytes on disk.
LEMMA Listing ==
    ASSUME NEW l, NEW refused
    PROVE  /\ Export!Listed(l, refused).status \in {"produced", "refused", "drifted", "absent"}
           /\ Export!Listed(l, refused).sha = file[l]
           /\ Export!Listed(l, refused).status = "produced" =>
                 /\ l \notin refused /\ file[l] # None
                 /\ l # "render" => facts[l] # None /\ facts[l].made /\ file[l] = facts[l].sha
BY DEF Export!Listed, Export!Entry

\* A bundle is composed when the lanes are done: a confirm's lists as produced only what it made.
LEMMA ExportComposes ==
    ASSUME ExportInv, Export!Compose
    PROVE  /\ ExportInv' /\ file' = file
           /\ bundle' # bundle /\ door.kind = "confirm" => \A l \in Export!Range(Export!Bound) :
                 bundle'[l].status = "produced" =>
                    bundle'[l].sha.text = draft /\ bundle'[l].sha.run = doors
<1>1. /\ door.todo = <<>> /\ door' = Export!Idle
      /\ UNCHANGED <<firm, freeze, draft, pends, blocked, indexed, hand, drafts, doors, kills,
                     file, facts, proved>>
      /\ bundle' = bundle
            \/ bundle' = [l \in Export!Deliverables |-> Export!Listed(l, door.refused)]
  BY DEF Export!Compose, Export!response, Export!disk, Export!counts
<1>2. door.kind # "none"
  BY DEF ExportInv, ExportTypes, Export!Compose, Export!Free
<1>3. Export!Idle \in Doors /\ Export!Idle.kind = "none" /\ Export!Idle.known = {}
  BY EmptySeq DEF Export!Idle, Doors, Steps
<1>4. firm \in BOOLEAN
  BY DEF ExportInv, ExportTypes
<1>5. bundle' # bundle => \A l \in Export!Deliverables : bundle'[l] = Export!Listed(l, door.refused)
  BY <1>1
<1>6. ExportTypes'
  <2>1. bundle' # None => \A l \in Export!Deliverables :
           bundle'[l].status \in {"produced", "refused", "drifted", "absent"}
    BY <1>5, Listing DEF ExportInv, ExportTypes
  <2> QED
    BY <1>1, <1>3, <2>1, BoundStays DEF ExportInv, ExportTypes
<1>7. Queue' /\ InHand' /\ Filed'
  <2>1. door'.kind = "none"
    BY <1>1, <1>3
  <2>2. \A l \in Export!Lanes : FiledAt(l)'
    BY <1>1 DEF ExportInv, Filed, FiledAt
  <2> QED
    BY <2>1, <2>2 DEF Queue, InHand, Filed
<1>8. ASSUME bundle' # bundle, NEW l \in Export!Range(Export!Bound), bundle'[l].status = "produced"
      PROVE  /\ <<l, bundle'[l].sha>> \in proved
             /\ l \notin door.refused /\ file[l] # None /\ bundle'[l].sha = file[l]
  <2>1. l \in Export!Deliverables /\ l \in Export!Lanes /\ l # "render"
    BY <1>4, BoundLanes
  <2>2. bundle'[l] = Export!Listed(l, door.refused)
    BY <1>5, <1>8, <2>1
  <2>3. /\ l \notin door.refused /\ file[l] # None /\ bundle'[l].sha = file[l]
        /\ facts[l] # None /\ facts[l].made /\ file[l] = facts[l].sha
    BY <1>8, <2>1, <2>2, Listing
  <2>4. <<l, facts[l].sha>> \in proved
    BY <2>1, <2>3 DEF ExportInv, Filed, FiledAt
  <2> QED
    BY <2>3, <2>4
<1>9. Export!ProducedIsProved'
  BY <1>1, <1>8, BoundStays DEF ExportInv, Export!ProducedIsProved
<1>10. ASSUME bundle' # bundle, door.kind = "confirm", NEW l \in Export!Range(Export!Bound),
              bundle'[l].status = "produced"
       PROVE  bundle'[l].sha.text = draft /\ bundle'[l].sha.run = doors
  <2>1. l \notin door.refused /\ file[l] # None /\ bundle'[l].sha = file[l]
    BY <1>8, <1>10
  <2>2. l \in door.made \cup door.refused \/ \E i \in 1..Len(door.todo) : door.todo[i] = l
    BY <1>10 DEF ExportInv, Queue
  <2>3. l \in door.made
    BY <1>1, <2>1, <2>2
  <2> QED
    BY <1>10, <2>1, <2>3 DEF ExportInv, InHand
<1> QED
  BY <1>1, <1>6, <1>7, <1>9, <1>10 DEF ExportInv

\* A process that is killed forgets its request; the disk is as it was.
LEMMA ExportDies ==
    ASSUME ExportInv, Export!Kill
    PROVE  ExportInv' /\ UNCHANGED <<file, bundle>>
<1>1. /\ door' = Export!Idle /\ kills' \in 0..MaxKills
      /\ UNCHANGED <<firm, freeze, draft, pends, blocked, indexed, hand, drafts, doors, file,
                     facts, bundle, proved>>
  BY ExportBounds DEF Export!Kill, Export!response, Export!disk, ExportInv, ExportTypes
<1>2. Export!Idle \in Doors /\ Export!Idle.kind = "none" /\ Export!Idle.known = {}
  BY EmptySeq DEF Export!Idle, Doors, Steps
<1>3. ExportTypes'
  BY <1>1, <1>2, BoundStays DEF ExportInv, ExportTypes
<1>4. Queue' /\ InHand'
  BY <1>1, <1>2 DEF Queue, InHand
<1>5. Filed' /\ Export!ProducedIsProved'
  <2>1. \A l \in Export!Lanes : FiledAt(l)'
    BY <1>1 DEF ExportInv, Filed, FiledAt
  <2> QED
    BY <1>1, <2>1, BoundStays DEF ExportInv, Filed, Export!ProducedIsProved
<1> QED
  BY <1>1, <1>3, <1>4, <1>5 DEF ExportInv

\* What the other parts do touches none of the doors.
LEMMA ExportHolds == ExportInv /\ UNCHANGED exportVars => ExportInv'
<1> SUFFICES ASSUME ExportInv, UNCHANGED exportVars PROVE ExportInv'
  OBVIOUS
<1>1. UNCHANGED <<firm, freeze, draft, pends, blocked, indexed, hand, file, facts, bundle, door,
                  drafts, doors, kills, proved>>
  BY DEF exportVars
<1>2. Queue' /\ InHand' /\ Filed' /\ Export!ProducedIsProved'
  BY <1>1, DoorsRest
<1>3. ExportTypes'
  BY <1>1, BoundStays DEF ExportInv, ExportTypes
<1> QED
  BY <1>2, <1>3 DEF ExportInv

\* A step of the doors keeps their invariant; it changes the bundle as a confirm may, and begins
\* a file only from what the index did not know when the lane's turn came.
LEMMA ExportMoves ==
    ASSUME ExportInv, Export!Next
    PROVE  /\ ExportInv'
           /\ door.kind = "confirm" /\ bundle' # bundle => \A l \in Export!Range(Export!Bound) :
                 bundle'[l].status = "produced" =>
                    bundle'[l].sha.text = draft /\ bundle'[l].sha.run = doors
           /\ \A l \in Export!Lanes :
                 file'[l] # None /\ (file[l] = None \/ file'[l].run # file[l].run) =>
                    draft.n \notin door.known /\ (l = "fill" => hand = "clean")
<1>1. CASE \/ \E p, b \in BOOLEAN : Export!Redraft(p, b)
           \/ Export!Waive \/ Export!Replan
           \/ \E value \in {"owed", "clean", "naming"} : Export!HandFill(value)
           \/ \E n \in 1..MaxTexts : Export!Ingest(n)
           \/ \E l \in Export!Deliverables : Export!Download(l)
  BY <1>1, ExportElse
<1>2. CASE Export!Export \/ Export!Review \/ Export!Confirm
  BY <1>2, ExportEnters
<1>3. CASE Export!LaneRefused \/ Export!Gate \/ Export!Drift
  BY <1>3, ExportRefuses
<1>4. CASE Export!Scan \/ Export!Write
  BY <1>4, ExportScans, ExportWrites
<1>5. CASE Export!Save \/ Export!Prove \/ Export!Record
  BY <1>5, ExportSaves
<1>6. CASE Export!Withhold \/ Export!RecordWithheld
  BY <1>6, ExportWithholds
<1>7. CASE Export!Compose
  BY <1>7, ExportComposes
<1>8. CASE Export!Kill
  BY <1>8, ExportDies
<1> QED
  BY <1>1, <1>2, <1>3, <1>4, <1>5, <1>6, <1>7, <1>8 DEF Export!Next

\* The invariant of the doors holds across every step of the composition.
LEMMA ExportStep == ExportInv /\ [Next]_vars => ExportInv'
<1> SUFFICES ASSUME ExportInv, [Next]_vars PROVE ExportInv'
  OBVIOUS
<1>1. CASE Export!Next
  BY <1>1, ExportMoves
<1>2. CASE UNCHANGED exportVars
  BY <1>2, ExportHolds
<1> QED
  BY <1>1, <1>2 DEF Next, Decide, Ship, Merge, vars

\* A confirm lists as produced only the live draft, written by that very confirm; no file is
\* begun from a text that the index knew to name another client when the lane's turn came, nor
\* from such a value (an ingest between the scan and the write is not seen); a form the bundle
\* lists has the proof on record, and the record of a proof is never ahead of the file: for any
\* forms, texts, replans, ingests, doors and kills (server.py:1008-1031, bundle.py:116-165,
\* egress.py:183-209, template_fill.py:550-568).
THEOREM BundlesShipTheDraft == Spec => ConfirmShipsTheDraft
<1> DEFINE moves == <<<<firm, freeze, draft, pends, blocked>>, indexed, hand,
                      <<file, facts, bundle, proved>>, door, <<drafts, doors, kills>>, download>>
           ships == door.kind = "confirm" /\ bundle' # bundle =>
                       \A l \in Export!Range(Export!Bound) :
                          bundle'[l].status = "produced" =>
                             bundle'[l].sha.text = draft /\ bundle'[l].sha.run = doors
           names == \A l \in Export!Lanes :
                       file'[l] # None /\ (file[l] = None \/ file'[l].run # file[l].run) =>
                          draft.n \notin door.known /\ (l = "fill" => hand = "clean")
           sound == Export!TypeOK /\ Export!ProducedIsProved /\ Export!FactsNeverAhead
<1>1. Init => ExportInv
  BY ExportInit
<1>2. ExportInv /\ [Next]_vars => ExportInv'
  BY ExportStep
<1>3. ExportInv => sound
  <2> SUFFICES ASSUME ExportInv PROVE sound
    OBVIOUS
  <2>1. Export!FactsNeverAhead
    BY DEF ExportInv, Filed, FiledAt, Export!FactsNeverAhead
  <2>2. \A l \in Export!Lanes : /\ file[l] \in Export!Files \cup {None}
           /\ facts[l] # None => l # "render" /\ (facts[l].sha # None => facts[l].sha.whole)
    BY OnRecord DEF FiledAt
  <2>3. door.refused \cap door.made = {} /\ door.refused \cup door.made \subseteq Export!Deliverables
    <3>1. CASE door.kind = "none"
      <4>1. door.refused = {} /\ door.made = {}
        BY <3>1 DEF ExportInv, ExportTypes, Export!Idle
      <4> QED
        BY <4>1
    <3> QED
      BY <3>1 DEF ExportInv, Queue
  <2>4. Export!TypeOK
    BY <2>2, <2>3 DEF ExportInv, ExportTypes, Export!TypeOK
  <2> QED
    BY <2>1, <2>4 DEF ExportInv
<1>4. ExportInv /\ [Next]_vars => [ships /\ names]_moves
  <2> SUFFICES ASSUME ExportInv, [Next]_vars, ~UNCHANGED moves PROVE ships /\ names
    OBVIOUS
  <2>1. Export!Next
    BY DEF Next, Decide, Ship, Merge, vars, exportVars
  <2> QED
    BY <2>1, ExportMoves
<1>5. [ships /\ names]_moves => [ships]_moves /\ [names]_moves
  OBVIOUS
<1> QED
  BY <1>1, <1>2, <1>3, <1>4, <1>5, PTL
  DEF Spec, ConfirmShipsTheDraft, Export!ConfirmShipsTheDraft, Export!WrittenNamesNobody, Export!Begun,
      Export!vars, Export!response, Export!disk, Export!counts

-----------------------------------------------------------------------------
(* The proof gate of the extraction                                        *)

\* What the sandbox has converted was on its list, and a verdict that is not a
\* rejection was given over the labelled table.
GateInv ==
    /\ case \in Cases /\ rates \in Seq(Nat) /\ left \in Seq(Nat)
    /\ Gate!TypeOK /\ Gate!PassMeansConverted

\* What is assumed of a corpus.
LEMMA CorpusTyped ==
    ASSUME NEW c \in Cases
    PROVE  /\ c.truth \in Seq(Seq(STRING)) /\ c.det \in Seq(Seq(STRING)) /\ c.vlm \in Seq(Seq(STRING))
           /\ c.rates \in Seq(Nat) /\ c.bounds \in BOOLEAN /\ c.form \in BOOLEAN
BY MeasureConstants DEF Gate!GateConstants

\* The gate counts as the library does.
LEMMA GateCounts == \A S : Gate!Cardinality(S) = Cardinality(S)
BY DEF Gate!Cardinality, Cardinality

\* A cell of either grid is at a position the diff looks at.
LEMMA PositionsCover ==
    ASSUME NEW a \in Seq(Seq(STRING)), NEW b \in Seq(Seq(STRING))
    PROVE  Gate!CellsOf(a) \subseteq Gate!Positions(a, b) /\ Gate!Positions(a, b) = Gate!Positions(b, a)
<1>1. Len(a) \in Nat /\ Len(b) \in Nat /\ DOMAIN a = 1..Len(a)
  BY LenProperties
<1>2. Gate!Max({Len(a), Len(b)}) \in Nat /\ Gate!Max({Len(a), Len(b)}) >= Len(a)
  <2> DEFINE S == {Len(a), Len(b)}
  <2>1. \E x \in S : \A y \in S : x >= y
    <3>1. CASE Len(a) >= Len(b)
      BY <1>1, <3>1
    <3>2. CASE ~(Len(a) >= Len(b))
      BY <1>1, <3>2
    <3> QED
      BY <3>1, <3>2
  <2>2. Gate!Max(S) \in S /\ \A y \in S : Gate!Max(S) >= y
    <3> HIDE DEF S
    <3> QED
      BY <2>1 DEF Gate!Max
  <2> QED
    BY <1>1, <2>2
<1>3. DOMAIN a \subseteq Gate!Rows(a, b)
  BY <1>1, <1>2 DEF Gate!Rows
<1>4. Gate!Rows(a, b) = Gate!Rows(b, a)
  <2>1. {Len(a), Len(b)} = {Len(b), Len(a)}
    OBVIOUS
  <2> QED
    BY <2>1 DEF Gate!Rows
<1>5. Gate!CellsOf(a) \subseteq Gate!Positions(a, b)
  BY <1>3 DEF Gate!CellsOf, Gate!Positions, Gate!Row
<1>6. Gate!Positions(a, b) = Gate!Positions(b, a)
  BY <1>4 DEF Gate!Positions
<1> QED
  BY <1>5, <1>6

\* The tripwire is sound, whatever the grids: what only one path invented or has right is
\* in the diff, from either side.
LEMMA TripwireSound ==
    ASSUME NEW c \in Cases
    PROVE  LET shown == {f[1] : f \in Gate!Diff(c.det, c.vlm)}
               invented(g) == Gate!Fabricated(g, c.truth)
               right(g) == Gate!Correct(g, c.truth)
           IN  /\ invented(c.det) \ invented(c.vlm) \subseteq shown
               /\ right(c.det) \ right(c.vlm) \subseteq shown
               /\ right(c.vlm) \ right(c.det) \subseteq shown
               /\ shown = {f[1] : f \in Gate!Diff(c.vlm, c.det)}
<1> DEFINE Agree(a, b, q) == /\ Gate!Has(a, q[1], q[2]) /\ Gate!Has(b, q[1], q[2])
                             /\ a[q[1]][q[2]] = b[q[1]][q[2]]
           Apart(a, b) == {q \in Gate!Positions(a, b) : ~Agree(a, b, q)}
<1>1. \A a, b : {f[1] : f \in Gate!Diff(a, b)} = Apart(a, b)
  <2> TAKE a, b
  <2>1. Gate!Diff(a, b) = {<<p, Gate!Kind(a, b, p)>> : p \in Apart(a, b)}
    BY DEF Gate!Diff
  <2>2. \A p : <<p, Gate!Kind(a, b, p)>>[1] = p
    OBVIOUS
  <2> HIDE DEF Apart
  <2>3. \A f \in Gate!Diff(a, b) : f[1] \in Apart(a, b)
    BY <2>1, <2>2
  <2>4. \A p \in Apart(a, b) : \E f \in Gate!Diff(a, b) : f[1] = p
    BY <2>1, <2>2
  <2> QED
    BY <2>3, <2>4
<1>2. Apart(c.det, c.vlm) = Apart(c.vlm, c.det)
  <2>1. Gate!Positions(c.det, c.vlm) = Gate!Positions(c.vlm, c.det)
    BY CorpusTyped, PositionsCover
  <2>2. \A q : Agree(c.det, c.vlm, q) <=> Agree(c.vlm, c.det, q)
    OBVIOUS
  <2> HIDE DEF Agree
  <2> QED
    BY <2>1, <2>2
<1>3. ASSUME NEW p \in Gate!Fabricated(c.det, c.truth), p \notin Apart(c.det, c.vlm)
      PROVE  p \in Gate!Fabricated(c.vlm, c.truth)
  <2>1. /\ p \in Gate!CellsOf(c.det) /\ c.det[p[1]][p[2]] # ""
        /\ c.det[p[1]][p[2]] \notin Gate!Texts(c.truth)
    BY DEF Gate!Fabricated
  <2>2. p \in Gate!Positions(c.det, c.vlm)
    BY <2>1, CorpusTyped, PositionsCover
  <2>3. Gate!Has(c.vlm, p[1], p[2]) /\ c.vlm[p[1]][p[2]] = c.det[p[1]][p[2]]
    BY <1>3, <2>2
  <2>4. p[1] \in DOMAIN c.vlm
    BY <2>3 DEF Gate!Has, Gate!Row
  <2>5. p \in Gate!CellsOf(c.vlm)
    <3>1. PICK r \in DOMAIN c.det : p \in {r} \X DOMAIN c.det[r]
      BY <2>1 DEF Gate!CellsOf
    <3>2. p[2] \in DOMAIN c.vlm[p[1]]
      BY <2>3, <2>4 DEF Gate!Has, Gate!Row
    <3> QED
      BY <2>4, <3>1, <3>2 DEF Gate!CellsOf
  <2> QED
    BY <2>1, <2>3, <2>5 DEF Gate!Fabricated
<1>4. ASSUME NEW a \in Seq(Seq(STRING)), NEW b \in Seq(Seq(STRING)),
             NEW p \in Gate!Correct(a, c.truth), p \notin Apart(a, b)
      PROVE  p \in Gate!Correct(b, c.truth)
  <2>1. /\ p \in Gate!CellsOf(c.truth) /\ Gate!Has(a, p[1], p[2])
        /\ a[p[1]][p[2]] = c.truth[p[1]][p[2]]
    BY DEF Gate!Correct
  <2>2. p[1] \in DOMAIN a /\ p[2] \in DOMAIN a[p[1]]
    BY <2>1 DEF Gate!Has, Gate!Row
  <2>3. PICK r \in DOMAIN c.truth : p \in {r} \X DOMAIN c.truth[r]
    BY <2>1 DEF Gate!CellsOf
  <2>4. p \in {p[1]} \X DOMAIN a[p[1]]
    BY <2>2, <2>3
  <2>5. p \in Gate!CellsOf(a)
    BY <2>2, <2>4 DEF Gate!CellsOf
  <2>6. p \in Gate!Positions(a, b)
    BY <2>5, PositionsCover
  <2>7. Agree(a, b, p)
    BY <1>4, <2>6
  <2> QED
    BY <2>1, <2>7 DEF Gate!Correct
<1> HIDE DEF Apart
<1>5. c.det \in Seq(Seq(STRING)) /\ c.vlm \in Seq(Seq(STRING))
  BY CorpusTyped
<1>6. /\ Gate!Fabricated(c.det, c.truth) \ Gate!Fabricated(c.vlm, c.truth) \subseteq Apart(c.det, c.vlm)
      /\ Gate!Correct(c.det, c.truth) \ Gate!Correct(c.vlm, c.truth) \subseteq Apart(c.det, c.vlm)
      /\ Gate!Correct(c.vlm, c.truth) \ Gate!Correct(c.det, c.truth) \subseteq Apart(c.vlm, c.det)
  BY <1>3, <1>4, <1>5
<1> QED
  BY <1>1, <1>2, <1>6

\* A table has finitely many cells.
LEMMA TableIsFinite == ASSUME NEW c \in Cases PROVE IsFiniteSet(Gate!CellsOf(c.truth))
<1>1. Len(c.truth) \in Nat /\ DOMAIN c.truth = 1..Len(c.truth)
  BY CorpusTyped, LenProperties
<1>2. \A n \in Nat : IsFiniteSet(1..n)
  BY FS_Interval
<1>3. \A r \in DOMAIN c.truth : IsFiniteSet({r} \X DOMAIN c.truth[r])
  <2> TAKE r \in DOMAIN c.truth
  <2>1. c.truth[r] \in Seq(STRING)
    BY <1>1, CorpusTyped, ElementOfSeq
  <2>2. Len(c.truth[r]) \in Nat /\ DOMAIN c.truth[r] = 1..Len(c.truth[r])
    BY <2>1, LenProperties
  <2> QED
    BY <1>2, <2>2, FS_Singleton, FS_Product
<1> DEFINE rows == {{r} \X DOMAIN c.truth[r] : r \in DOMAIN c.truth}
           f == [r \in DOMAIN c.truth |-> {r} \X DOMAIN c.truth[r]]
<1>4. IsFiniteSet(rows)
  <2>1. f \in Surjection(DOMAIN c.truth, rows)
    BY DEF Surjection
  <2> HIDE DEF f, rows
  <2> QED
    BY <1>1, <1>2, <2>1, FS_Surjection
<1>5. \A S \in rows : IsFiniteSet(S)
  BY <1>3
<1> QED
  BY <1>4, <1>5, FS_UNION DEF Gate!CellsOf

\* The first cells of the first rows of a table have no more right cells than all of them.
LEMMA EndsCutOff ==
    ASSUME NEW c \in Cases, NEW k \in 0..Len(c.det), NEW w
    PROVE  LET a == Gate!Accuracy(Gate!Cut(c.det, k, w), c.truth)  b == Gate!Accuracy(c.det, c.truth)
           IN  a[1] * b[2] <= b[1] * a[2]
<1> DEFINE cut == Gate!Cut(c.det, k, w)
           cells == Gate!CellsOf(c.truth)
<1>1. Len(c.det) \in Nat /\ DOMAIN c.det = 1..Len(c.det)
  BY CorpusTyped, LenProperties
<1>2. IsFiniteSet(cells)
  BY TableIsFinite
<1>3. 1..k \subseteq DOMAIN c.det
  BY <1>1
<1>4. Gate!Correct(cut, c.truth) \in SUBSET Gate!Correct(c.det, c.truth)
      /\ Gate!Correct(c.det, c.truth) \in SUBSET cells
  <2>1. ASSUME NEW r, NEW i, Gate!Has(cut, r, i)
        PROVE  Gate!Has(c.det, r, i) /\ cut[r][i] = c.det[r][i]
    <3>1. r \in 1..k /\ i \in DOMAIN cut[r]
      BY <2>1 DEF Gate!Has, Gate!Row, Gate!Cut
    <3>2. cut[r] = [j \in (1..w) \cap DOMAIN c.det[r] |-> c.det[r][j]]
      BY <3>1 DEF Gate!Cut
    <3>3. i \in DOMAIN c.det[r] /\ cut[r][i] = c.det[r][i]
      BY <3>1, <3>2
    <3> QED
      BY <1>3, <3>1, <3>3 DEF Gate!Has, Gate!Row
  <2> HIDE DEF cut
  <2> QED
    BY <2>1 DEF Gate!Correct
<1> DEFINE x == Cardinality(Gate!Correct(cut, c.truth))
           y == Cardinality(Gate!Correct(c.det, c.truth))
           n == Cardinality(cells)
<1>5. x \in Nat /\ y \in Nat /\ n \in Nat /\ x <= y
  <2> HIDE DEF cut, cells
  <2>1. IsFiniteSet(Gate!Correct(c.det, c.truth))
    BY <1>2, <1>4, FS_Subset
  <2>2. IsFiniteSet(Gate!Correct(cut, c.truth)) /\ x <= y
    BY <1>4, <2>1, FS_Subset
  <2> QED
    BY <1>2, <2>1, <2>2, FS_CardinalityType
<1>6. Gate!Accuracy(cut, c.truth) = <<x, n>> /\ Gate!Accuracy(c.det, c.truth) = <<y, n>>
  <2> HIDE DEF cut
  <2> QED
    BY GateCounts DEF Gate!Accuracy
<1>7. x * n <= y * n
  <2> HIDE DEF x, y, n
  <2>1. y = x + (y - x) /\ y - x \in Nat
    BY <1>5
  <2> DEFINE d == y - x
  <2>2. y * n = x * n + d * n /\ d * n >= 0 /\ x * n \in Nat /\ d * n \in Nat
    <3> HIDE DEF d
    <3>1. y = x + d /\ d \in Nat
      BY <2>1 DEF d
    <3> QED
      BY <1>5, <3>1
  <2> QED
    BY <2>2
<1> HIDE DEF x, y, n, cut
<1> QED
  BY <1>6, <1>7 DEF cut

\* Every value of a sequence that is not empty is at most one of them.
LEMMA SomeIsLargest ==
    ASSUME NEW s \in Seq(Nat), s # <<>>
    PROVE  \E v \in Gate!ToSet(s) : \A w \in Gate!ToSet(s) : v >= w
<1> DEFINE T == Gate!ToSet(s)
           Above(v) == {w \in T : w > v}
           Counts == {Cardinality(Above(v)) : v \in T}
<1>1. Len(s) \in Nat /\ DOMAIN s = 1..Len(s) /\ Len(s) >= 1 /\ T \subseteq Nat /\ s[1] \in T
  <2>1. Len(s) \in Nat /\ DOMAIN s = 1..Len(s) /\ Len(s) # 0
    BY LenProperties, EmptySeq
  <2>2. \A i \in DOMAIN s : s[i] \in Nat
    BY <2>1, ElementOfSeq
  <2>3. T = {s[i] : i \in DOMAIN s}
    BY DEF Gate!ToSet
  <2>4. 1 \in DOMAIN s
    BY <2>1
  <2> QED
    BY <2>1, <2>2, <2>3, <2>4
<1>2. IsFiniteSet(T)
  <2>1. IsFiniteSet(DOMAIN s)
    BY <1>1, FS_Interval
  <2>2. s \in Surjection(DOMAIN s, T)
    <3>1. T = {s[i] : i \in DOMAIN s}
      BY DEF Gate!ToSet
    <3>2. s \in [DOMAIN s -> T]
      BY <1>1, <3>1
    <3> HIDE DEF T
    <3> QED
      BY <3>1, <3>2 DEF Surjection
  <2> HIDE DEF T
  <2> QED
    BY <2>1, <2>2, FS_Surjection
<1> HIDE DEF T
<1>3. \A v : IsFiniteSet(Above(v)) /\ Cardinality(Above(v)) \in Nat
  <2> TAKE v
  <2>1. Above(v) \in SUBSET T
    OBVIOUS
  <2>2. IsFiniteSet(Above(v))
    BY <1>2, <2>1, FS_Subset
  <2> HIDE DEF Above
  <2> QED
    BY <2>2, FS_CardinalityType
<1>4. IsWellFoundedOn(OpToRel(<, Nat), Nat)
  BY NatLessThanWellFounded
<1>5. PICK v \in T : \A w \in T : ~(Cardinality(Above(w)) < Cardinality(Above(v)))
  <2>1. Counts \subseteq Nat /\ Counts # {}
    BY <1>1, <1>3
  <2>2. PICK n \in Counts : \A m \in Counts : ~(<<m, n>> \in OpToRel(<, Nat))
    <3> HIDE DEF Counts
    <3> QED
      BY <1>4, <2>1, WFMin
  <2>3. \A m \in Counts : ~(m < n)
    <3> HIDE DEF Counts
    <3> QED
      BY <2>1, <2>2 DEF OpToRel
  <2> QED
    BY <2>2, <2>3
<1>6. ASSUME NEW w \in T, w > v PROVE FALSE
  <2>1. Above(w) \in SUBSET Above(v) /\ w \in Above(v) /\ w \notin Above(w)
    <3>1. v \in Nat /\ w \in Nat /\ ~(w > w) /\ \A x \in Nat : x > w => x > v
      BY <1>1, <1>6
    <3> QED
      BY <1>1, <1>6, <3>1
  <2> HIDE DEF Above
  <2>2. Cardinality(Above(w)) <= Cardinality(Above(v)) /\ Cardinality(Above(w)) # Cardinality(Above(v))
    BY <1>3, <2>1, FS_Subset
  <2> QED
    BY <1>3, <1>5, <2>2
<1> QED
  BY <1>1, <1>6 DEF T

\* The place the percentile takes among at most ten values is the last.
LEMMA LastPlace == \A n \in 1..10 : Gate!Min({n, Gate!Max({1, Gate!Round95(n)})}) = n
<1> TAKE n \in 1..10
<1>1. Gate!Round95(n) = n
  <2>1. n \in {1, 2, 3, 4, 5, 6, 7, 8, 9, 10}
    OBVIOUS
  <2> QED
    BY <2>1 DEF Gate!Round95
<1>2. Gate!Max({1, n}) = n
  <2>1. n \in {1, n} /\ (\A y \in {1, n} : n >= y) /\ \A x \in {1, n} : (\A y \in {1, n} : x >= y) => x = n
    OBVIOUS
  <2> QED
    BY <2>1 DEF Gate!Max
<1>3. Gate!Min({n, n}) = n
  BY DEF Gate!Min
<1> QED
  BY <1>1, <1>2, <1>3

\* Among at most ten values the percentile is the largest.
LEMMA PercentileIsLargest ==
    ASSUME NEW s \in Seq(Nat), s # <<>>, Len(s) <= 10
    PROVE  Gate!P95(s) = Gate!Max(Gate!ToSet(s))
<1> DEFINE T == Gate!ToSet(s)
           Upto(v) == {i \in DOMAIN s : s[i] <= v}
<1>1. Len(s) \in 1..10 /\ DOMAIN s = 1..Len(s) /\ T \subseteq Nat /\ \A i \in DOMAIN s : s[i] \in T
  <2>1. Len(s) \in Nat /\ DOMAIN s = 1..Len(s) /\ Len(s) # 0
    BY LenProperties, EmptySeq
  <2>2. \A i \in DOMAIN s : s[i] \in Nat
    BY <2>1, ElementOfSeq
  <2>3. T = {s[i] : i \in DOMAIN s}
    BY DEF Gate!ToSet
  <2>4. Len(s) \in 1..10
    <3>1. \A n \in Nat : n # 0 /\ n <= 10 => n \in 1..10
      OBVIOUS
    <3> QED
      BY <2>1, <3>1
  <2> HIDE DEF T
  <2> QED
    BY <2>1, <2>2, <2>3, <2>4
<1>2. Gate!P95(s) = Gate!Nth(s, Len(s))
  BY <1>1, LastPlace DEF Gate!P95
<1>3. \A v \in T : Cardinality(Upto(v)) >= Len(s) <=> \A w \in T : w <= v
  <2> TAKE v \in T
  <2>1. IsFiniteSet(DOMAIN s) /\ Cardinality(DOMAIN s) = Len(s)
    <3>1. \A n \in Nat : IsFiniteSet(1..n) /\ Cardinality(1..n) = n
      <4>1. \A n \in Nat : n \in Int /\ 1 \in Int /\ (IF 1 > n THEN 0 ELSE n - 1 + 1) = n
        OBVIOUS
      <4> QED
        BY <4>1, FS_Interval
    <3> QED
      BY <1>1, <3>1
  <2>2. Upto(v) \in SUBSET DOMAIN s
    OBVIOUS
  <2>3. /\ Cardinality(Upto(v)) \in Nat /\ Cardinality(Upto(v)) <= Len(s)
        /\ Cardinality(Upto(v)) = Len(s) <=> Upto(v) = DOMAIN s
    <3> HIDE DEF Upto
    <3>1. /\ IsFiniteSet(Upto(v)) /\ Cardinality(Upto(v)) <= Len(s)
          /\ Cardinality(DOMAIN s) = Cardinality(Upto(v)) => DOMAIN s = Upto(v)
      BY <2>1, <2>2, FS_Subset
    <3>2. Cardinality(Upto(v)) \in Nat
      BY <3>1, FS_CardinalityType
    <3> QED
      BY <2>1, <3>1, <3>2
  <2>4. Upto(v) = DOMAIN s <=> \A w \in T : w <= v
    <3>1. T = {s[i] : i \in DOMAIN s}
      BY DEF Gate!ToSet
    <3> QED
      BY <3>1
  <2> HIDE DEF Upto, T
  <2> QED
    BY <1>1, <2>3, <2>4
<1>4. PICK v \in T : \A w \in T : v >= w
  BY SomeIsLargest
<1>5. \A x \in T : (\A w \in T : w <= x) <=> x = v
  <2> HIDE DEF T
  <2> QED
    BY <1>1, <1>4
<1>6. Gate!Nth(s, Len(s)) = Gate!Min({v})
  <2>1. {x \in T : Cardinality(Upto(x)) >= Len(s)} = {v}
    <3> HIDE DEF T, Upto
    <3> QED
      BY <1>3, <1>4, <1>5
  <2>2. Gate!Nth(s, Len(s)) = Gate!Min({x \in T : Cardinality(Upto(x)) >= Len(s)})
    BY GateCounts DEF Gate!Nth
  <2> QED
    BY <2>1, <2>2
<1>7. Gate!Min({v}) = v
  <2>1. v <= v
    BY <1>1, <1>4
  <2> QED
    BY <2>1 DEF Gate!Min
<1>8. Gate!Max(T) = v
  <2> HIDE DEF T
  <2>1. \A x \in T : (\A w \in T : x >= w) <=> x = v
    BY <1>1, <1>5
  <2> QED
    BY <1>4, <2>1 DEF Gate!Max
<1> QED
  BY <1>2, <1>6, <1>7, <1>8

\* Before anything is converted.
LEMMA GateInit == MeasureInit => GateInv
<1> SUFFICES ASSUME MeasureInit PROVE GateInv
  OBVIOUS
<1>1. /\ case \in Cases /\ at = "convert" /\ views = FALSE /\ rates = <<>> /\ left = case.rates
      /\ findings = Gate!Unscored /\ report = Gate!Unwritten
  BY DEF MeasureInit, Gate!Init
<1>2. left \in Seq(Nat) /\ rates \in Seq(Nat) /\ Len(rates) = 0 /\ Len(left) \in Nat
  BY <1>1, CorpusTyped, EmptySeq, LenProperties
<1>3. /\ findings.failed = FALSE /\ findings.det = {} /\ report.verdict = "none"
      /\ report.criteria = <<>>
  BY <1>1 DEF Gate!Unscored, Gate!Unwritten
<1>4. Gate!TypeOK
  <2>1. Len(rates) + Len(left) <= Len(case.rates)
    BY <1>1, <1>2
  <2>2. DOMAIN report.criteria = {}
    BY <1>3
  <2>3. at \in {"convert", "second", "judge", "done"} /\ views \in BOOLEAN
    BY <1>1
  <2> QED
    BY <1>3, <2>1, <2>2, <2>3 DEF Gate!TypeOK
<1> QED
  BY <1>1, <1>2, <1>3, <1>4 DEF GateInv, Gate!PassMeansConverted

\* A document is converted, or fails, and is off the list.
LEMMA GateConverts == ASSUME GateInv, NEW ok \in BOOLEAN, Gate!Convert(ok) PROVE GateInv'
<1>1. /\ case' = case /\ findings' = findings /\ report' = report /\ left # <<>>
      /\ left' = SubSeq(left, 2, Len(left)) /\ at' \in {"second", "convert"}
      /\ rates' = (IF ok THEN Append(rates, Head(left)) ELSE rates)
      /\ views' = (views \/ (ok /\ Len(left) = Len(case.rates)))
  BY DEF Gate!Convert
<1>2. case \in Cases /\ rates \in Seq(Nat) /\ left \in Seq(Nat) /\ views \in BOOLEAN
  BY DEF GateInv, Gate!TypeOK
<1>3. /\ left' \in Seq(Nat) /\ Len(left') = Len(left) - 1 /\ Len(left) \in Nat
      /\ rates' \in Seq(Nat) /\ Len(rates') <= Len(rates) + 1 /\ Len(rates) \in Nat /\ Len(rates') \in Nat
  <2>1. Len(left) \in Nat /\ Len(left) # 0 /\ Len(rates) \in Nat /\ Head(left) \in Nat
    BY <1>1, <1>2, EmptySeq, LenProperties, HeadTailProperties
  <2>2. left' \in Seq(Nat) /\ Len(left') = Len(left) - 1
    <3> DEFINE n == Len(left)
    <3>9. n \in Nat /\ n # 0
      BY <2>1
    <3>1. n \in Int /\ 2 \in Int /\ (IF 2 <= n THEN n - 2 + 1 ELSE 0) = n - 1
      <4> HIDE DEF n
      <4>1. CASE n = 1
        BY <4>1
      <4>2. CASE n # 1
        <5>1. 2 <= n /\ n - 2 + 1 = n - 1
          BY <3>9, <4>2
        <5> QED
          BY <3>9, <5>1
      <4> QED
        BY <4>1, <4>2
    <3>2. \A i \in 2..n : left[i] \in Nat
      BY <1>2, <2>1, ElementOfSeq
    <3>3. SubSeq(left, 2, n) \in Seq(Nat) /\ Len(SubSeq(left, 2, n)) = n - 1
      <4> HIDE DEF n
      <4> QED
        BY <3>1, <3>2, SubSeqProperties
    <3> QED
      BY <1>1, <3>3
  <2>3. /\ Append(rates, Head(left)) \in Seq(Nat) /\ Len(Append(rates, Head(left))) = Len(rates) + 1
    BY <1>2, <2>1, AppendProperties
  <2> QED
    BY <1>1, <1>2, <2>1, <2>2, <2>3
<1>4. views' \in BOOLEAN /\ (views => views')
  BY <1>1, <1>2
<1>5. Gate!TypeOK'
  <2>1. /\ Len(rates) + Len(left) <= Len(case.rates) /\ findings.failed \in BOOLEAN
        /\ findings.det \subseteq Gate!CellsOf(case.det)
        /\ report.verdict \in {"none", "pass", "hold", "reject"}
        /\ \A k \in DOMAIN report.criteria : report.criteria[k] \in {"pass", "HOLD", "KILL"}
    BY DEF GateInv, Gate!TypeOK
  <2>2. Len(case.rates) \in Nat
    BY <1>2, CorpusTyped, LenProperties
  <2>3. Len(rates') + Len(left') <= Len(case'.rates)
    <3>1. \A r, s, l, m \in Nat : s <= r + 1 /\ m = l - 1 => s + m <= r + l
      OBVIOUS
    <3>2. Len(rates') + Len(left') <= Len(rates) + Len(left)
      BY <1>3, <3>1
    <3> DEFINE n == Len(rates')
               m == Len(left')
    <3>3. n + m <= Len(case.rates)
      BY <1>3, <2>1, <2>2, <3>2
    <3> HIDE DEF n, m
    <3>4. case'.rates = case.rates
      BY <1>1
    <3> QED
      BY <3>3, <3>4 DEF n, m
  <2>4. Gate!CellsOf(case.det)' = Gate!CellsOf(case.det)
    BY <1>1 DEF Gate!CellsOf, Gate!Has, Gate!Row
  <2>5. at' \in {"convert", "second", "judge", "done"}
    BY <1>1
  <2> QED
    BY <1>1, <1>4, <2>1, <2>3, <2>4, <2>5 DEF Gate!TypeOK
<1>6. Gate!PassMeansConverted'
  BY <1>1, <1>4 DEF GateInv, Gate!PassMeansConverted
<1> QED
  BY <1>1, <1>2, <1>3, <1>5, <1>6 DEF GateInv

\* The second pass finds what it finds in the grids.
LEMMA GateSeconds == ASSUME GateInv, Gate!Second \/ Gate!SecondFails PROVE GateInv'
<1>1. /\ UNCHANGED <<case, views, rates, left, report>> /\ at' = "judge"
      /\ findings'.failed \in BOOLEAN
      /\ findings'.det = {} \/ findings'.det = Gate!Fabricated(case.det, case.truth)
  <2>1. CASE Gate!Second
    BY <2>1 DEF Gate!Second, Gate!Unscored
  <2>2. CASE Gate!SecondFails
    BY <2>2 DEF Gate!SecondFails, Gate!Unscored
  <2> QED
    BY <2>1, <2>2
<1>2. Gate!Fabricated(case.det, case.truth) \subseteq Gate!CellsOf(case.det)
  BY DEF Gate!Fabricated
<1>3. Gate!CellsOf(case.det)' = Gate!CellsOf(case.det)
  BY <1>1 DEF Gate!CellsOf, Gate!Has, Gate!Row
<1>4. Gate!TypeOK'
  BY <1>1, <1>2, <1>3 DEF GateInv, Gate!TypeOK
<1>5. Gate!PassMeansConverted'
  BY <1>1 DEF GateInv, Gate!PassMeansConverted
<1> QED
  BY <1>1, <1>4, <1>5 DEF GateInv

\* The verdict: without the labelled table no cell is right, and the first criterion kills.
LEMMA GateJudges == ASSUME GateInv, Gate!Judge PROVE GateInv'
<1>1. /\ UNCHANGED <<case, views, rates, left, findings>> /\ at' = "done"
      /\ report'.criteria = Gate!Criteria /\ report'.verdict = Gate!Verdict(Gate!Criteria)
  BY DEF Gate!Judge
<1>2. /\ \A k \in DOMAIN Gate!Criteria : Gate!Criteria[k] \in {"pass", "HOLD", "KILL"}
      /\ DOMAIN Gate!Criteria = 1..5 /\ Gate!Criteria[1] = Gate!KillUnless(Gate!Score)
      /\ Gate!Criteria[2] = Gate!KillUnless(case.bounds)
  <2>1. Gate!Speed \in {"pass", "HOLD", "KILL"} /\ \A b : Gate!KillUnless(b) \in {"pass", "KILL"}
    BY DEF Gate!Speed, Gate!KillUnless
  <2> QED
    BY <2>1 DEF Gate!Criteria
<1>3. Gate!Verdict(Gate!Criteria) \in {"pass", "hold", "reject"}
  BY DEF Gate!Verdict
<1>4. Gate!Verdict(Gate!Criteria) \in {"pass", "hold"} =>
         Gate!Criteria[1] # "KILL" /\ Gate!Criteria[2] # "KILL"
  <2>1. 1 \in DOMAIN Gate!Criteria /\ 2 \in DOMAIN Gate!Criteria
    BY <1>2
  <2>2. Gate!ToSet(Gate!Criteria) = {Gate!Criteria[k] : k \in DOMAIN Gate!Criteria}
    BY DEF Gate!ToSet
  <2> QED
    BY <2>1, <2>2 DEF Gate!Verdict
<1>5. Gate!Verdict(Gate!Criteria) \in {"pass", "hold"} => Gate!Score /\ case.bounds
  BY <1>2, <1>4 DEF Gate!KillUnless
<1>6. Gate!Score => views
  <2> SUFFICES ASSUME ~views, Gate!Score PROVE FALSE
    OBVIOUS
  <2>1. Gate!Grid = <<>>
    BY DEF Gate!Grid
  <2>2. Gate!Correct(<<>>, case.truth) = {}
    BY DEF Gate!Correct, Gate!Has, Gate!Row
  <2>3. Cardinality({}) = 0
    BY FS_EmptySet
  <2> DEFINE n == Gate!Cardinality(Gate!CellsOf(case.truth))
  <2>4. Gate!Accuracy(Gate!Grid, case.truth) = <<0, n>>
    BY <2>1, <2>2, <2>3, GateCounts DEF Gate!Accuracy
  <2>5. n > 0 /\ 0 * 10 >= n * 9
    BY <2>4 DEF Gate!Score
  <2>6. n \in Nat
    <3>1. IsFiniteSet(Gate!CellsOf(case.truth))
      BY TableIsFinite DEF GateInv
    <3> QED
      BY <3>1, GateCounts, FS_CardinalityType
  <2> HIDE DEF n
  <2> QED
    BY <2>5, <2>6
<1>7. Gate!CellsOf(case.det)' = Gate!CellsOf(case.det)
  BY <1>1 DEF Gate!CellsOf, Gate!Has, Gate!Row
<1>8. Gate!TypeOK'
  BY <1>1, <1>2, <1>3, <1>7 DEF GateInv, Gate!TypeOK
<1>9. Gate!PassMeansConverted'
  BY <1>1, <1>5, <1>6 DEF Gate!PassMeansConverted
<1> QED
  BY <1>1, <1>8, <1>9 DEF GateInv

\* A step of another study leaves the corpus alone.
LEMMA GateHolds == GateInv /\ UNCHANGED gateVars => GateInv'
<1> SUFFICES ASSUME GateInv, UNCHANGED gateVars PROVE GateInv'
  OBVIOUS
<1>1. UNCHANGED <<case, at, views, rates, left, findings, report>>
  BY DEF gateVars
<1>2. Gate!CellsOf(case.det)' = Gate!CellsOf(case.det)
  BY <1>1 DEF Gate!CellsOf, Gate!Has, Gate!Row
<1>3. Gate!TypeOK'
  BY <1>1, <1>2 DEF GateInv, Gate!TypeOK
<1>4. Gate!PassMeansConverted'
  BY <1>1 DEF GateInv, Gate!PassMeansConverted
<1> QED
  BY <1>1, <1>3, <1>4 DEF GateInv

\* Every step of the studies keeps it.
LEMMA GateStep == GateInv /\ [MeasureNext]_measureVars => GateInv'
<1> SUFFICES ASSUME GateInv, [MeasureNext]_measureVars PROVE GateInv'
  OBVIOUS
<1>1. CASE Convert
  BY <1>1, GateConverts, GateSeconds, GateJudges DEF Convert, Gate!Next
<1>2. CASE ~Convert
  <2>1. UNCHANGED gateVars
    BY <1>2 DEF MeasureNext, measureVars, Measure, Draft, Search
  <2> QED
    BY <2>1, GateHolds
<1> QED
  BY <1>1, <1>2

\* The written criteria of the extraction's proof gate cannot be had by reading less: a
\* cell of the labelled table that one path invented, or that only one path has right,
\* stands in the diff; rows and columns cut off at the end right no more cells; among ten
\* documents the slowest is the percentile; and what is not rejected was measured on a
\* converted table (extraction/gate.py:42-211, 387-406).
THEOREM VerdictsAreEarned == Measures => []TripwireFires
<1>1. MeasureInit => GateInv
  BY GateInit
<1>2. GateInv /\ [MeasureNext]_measureVars => GateInv'
  BY GateStep
<1>3. GateInv => TripwireFires
  <2> SUFFICES ASSUME GateInv PROVE TripwireFires
    OBVIOUS
  <2>1. case \in Cases /\ rates \in Seq(Nat)
    BY DEF GateInv
  <2>2. Gate!TripwireFires
    BY <2>1, TripwireSound DEF Gate!TripwireFires
  <2>3. Gate!DroppingNeverHelps
    BY <2>1, EndsCutOff DEF Gate!DroppingNeverHelps
  <2>4. Gate!SlowestCounts
    BY <2>1, PercentileIsLargest DEF Gate!SlowestCounts
  <2> QED
    BY <2>2, <2>3, <2>4 DEF GateInv, TripwireFires
<1> QED
  BY <1>1, <1>2, <1>3, PTL DEF Measures

-----------------------------------------------------------------------------
(* The release gate of the evals                                           *)

\* What the arm and the writer of a record have in hand.
ArmPhases == {"idle", "next", "open", "ask", "append", "write", "lock", "check"}
Arms == [pc : ArmPhases, todo : SUBSET Eval!Suites, prompt : 0..Eval!MaxEdits \cup {Nil},
         cases : 0..Eval!MaxEdits, report : Eval!Baselines \cup {Nil}]
Pendings == [pc : {"idle", "archive", "write"}, rec : Eval!Records \cup {Nil}]
Locks == [good : BOOLEAN, run : 1..Eval!MaxRuns]

EvalTypes ==
    /\ scope \in Scopes
    /\ prompt \in 0..Eval!MaxEdits /\ cases \in [Eval!Suites -> 0..Eval!MaxEdits]
    /\ base \in [Eval!Suites -> Eval!Baselines \cup {Nil}]
    /\ lock \in [Eval!Suites -> Locks \cup {Nil}]
    /\ history \subseteq Eval!Baselines /\ measured \subseteq Eval!Baselines
    /\ runs \in Seq({"open", "completed", "failed"}) /\ Len(runs) <= Eval!MaxRuns
    /\ arm \in Arms /\ forged \in 0..Eval!MaxForged
    /\ version \in 0..Eval!MaxEvals /\ record \in [0..Eval!MaxEvals -> Eval!Records \cup {Nil}]
    /\ archive \subseteq Eval!Records /\ IsFiniteSet(archive) /\ pending \in Pendings

\* A completed run measured this number of the suite.
Attested(tests, log, s, b) ==
    \E m \in tests : /\ m.suite = s /\ m.good = b.good /\ m.cases = b.cases /\ m.run = b.run
                     /\ b.run \in 1..Len(log) /\ log[b.run] = "completed"

\* The run the arm has open is the newest, and what it has to report is its own.
Working ==
    /\ arm.pc \notin {"idle", "next"} => arm.todo # {} /\ Len(runs) >= 1
    /\ arm.pc \in {"open", "ask"} => runs[Len(runs)] = "open"
    /\ arm.pc = "ask" => arm.prompt \in 0..Eval!MaxEdits
    /\ arm.pc \in {"append", "write", "lock", "check"} =>
          /\ arm.report \in Eval!Baselines /\ arm.report.run = Len(runs)
          /\ Attested(measured, runs, Eval!Current, arm.report)
    /\ arm.pc = "write" => base[Eval!Current] \in history \cup {Nil}
    /\ arm.pc \in {"lock", "check"} => base[Eval!Current] = arm.report

\* Baselines and locks are of runs that were minted, and of earlier ones than the open run.
Aged ==
    \A s \in Eval!Suites :
        /\ base[s] # Nil => /\ base[s].run \in 1..Len(runs)
                            /\ arm.pc \in {"open", "ask", "append", "write"} => base[s].run # Len(runs)
        /\ lock[s] # Nil => /\ lock[s].run \in 1..Len(runs)
                            /\ arm.pc \in {"open", "ask", "append", "write", "lock"} =>
                                  lock[s].run # Len(runs)

\* A baseline its lock agrees with was measured; while nobody edited one by hand all were,
\* and no lock of the same run says anything else.
Locked ==
    \A s \in Eval!Suites : base[s] # Nil =>
        /\ Eval!VerifyLock(s) => Attested(measured, runs, s, base[s])
        /\ forged = 0 => /\ Attested(measured, runs, s, base[s])
                         /\ lock[s] # Nil /\ lock[s].run = base[s].run => lock[s].good = base[s].good

\* A record that passes stands on measures, and what it replaces is archived.
Standing(rec) == rec.passed => \A s \in Eval!Suites : \E m \in measured : m.suite = s /\ m.good
Recorded ==
    /\ pending.pc # "idle" => pending.rec \in Eval!Records /\ Standing(pending.rec)
    /\ pending.pc = "write" => record[pending.rec.version] \in archive \cup {Nil}
    /\ \A v \in DOMAIN record : record[v] # Nil => Standing(record[v])

EvalInv == EvalTypes /\ Working /\ Aged /\ Locked /\ Recorded

\* What is assumed of the engine's scope.
LEMMA ScopeTyped ==
    ASSUME scope \in Scopes
    PROVE  /\ Eval!Suites \subseteq Nat /\ Eval!MaxEdits \in Nat /\ Eval!MaxRuns \in Nat
           /\ Eval!MaxEvals \in Nat /\ Eval!MaxForged \in {0, 1}
           /\ Eval!Slices \subseteq [cost : Nat \cup {Nil}, recall : {0, 1, Nil}]
BY MeasureConstants DEF Eval!EvalBounds, Eval!Suites, Eval!MaxEdits, Eval!MaxRuns, Eval!MaxEvals,
    Eval!MaxForged, Eval!Slices

\* It does not change.
LEMMA ScopeStays ==
    ASSUME scope' = scope
    PROVE  /\ Eval!Suites' = Eval!Suites /\ Eval!MaxEdits' = Eval!MaxEdits /\ Eval!MaxRuns' = Eval!MaxRuns
           /\ Eval!MaxEvals' = Eval!MaxEvals /\ Eval!MaxForged' = Eval!MaxForged
           /\ Eval!Baselines' = Eval!Baselines /\ Eval!Records' = Eval!Records
           /\ Arms' = Arms /\ Pendings' = Pendings /\ Locks' = Locks
<1>1. /\ Eval!Suites' = Eval!Suites /\ Eval!MaxEdits' = Eval!MaxEdits /\ Eval!MaxRuns' = Eval!MaxRuns
      /\ Eval!MaxEvals' = Eval!MaxEvals /\ Eval!MaxForged' = Eval!MaxForged /\ Eval!Slices' = Eval!Slices
  BY DEF Eval!Suites, Eval!MaxEdits, Eval!MaxRuns, Eval!MaxEvals, Eval!MaxForged, Eval!Slices
<1>2. Eval!Baselines' = Eval!Baselines /\ Eval!Records' = Eval!Records
  BY <1>1 DEF Eval!Baselines, Eval!Records
<1>3. Arms' = Arms /\ Pendings' = Pendings /\ Locks' = Locks
  BY <1>1, <1>2 DEF Arms, Pendings, Locks
<1> QED
  BY <1>1, <1>2, <1>3

\* The number of runs is the length of their list.
LEMMA RunsCounted ==
    ASSUME EvalTypes
    PROVE  Eval!Run = Len(runs) /\ Len(runs) \in Nat /\ DOMAIN runs = 1..Len(runs)
<1>1. Len(runs) \in Nat /\ DOMAIN runs = 1..Len(runs)
  BY LenProperties DEF EvalTypes
<1>2. \A n \in Nat : Cardinality(1..n) = n
  <2>1. \A n \in Nat : n \in Int /\ 1 \in Int /\ (IF 1 > n THEN 0 ELSE n - 1 + 1) = n
    OBVIOUS
  <2> QED
    BY <2>1, FS_Interval
<1>3. \A S : Eval!Cardinality(S) = Cardinality(S)
  BY DEF Eval!Cardinality, Cardinality
<1> QED
  BY <1>1, <1>2, <1>3 DEF Eval!Run

\* The suite the arm is at is one of those it still has to measure.
LEMMA CurrentIsNext ==
    ASSUME EvalTypes, arm.todo # {}
    PROVE  Eval!Current \in arm.todo /\ Eval!Current \in Eval!Suites
<1>1. arm.todo \subseteq Eval!Suites /\ arm.todo \subseteq Nat
  BY ScopeTyped DEF EvalTypes, Arms
<1>2. IsWellFoundedOn(OpToRel(<, Nat), Nat)
  BY NatLessThanWellFounded
<1>3. PICK s \in arm.todo : \A t \in arm.todo : ~(<<t, s>> \in OpToRel(<, Nat))
  BY <1>1, <1>2, WFMin
<1>4. \A t \in arm.todo : s <= t
  <2>1. \A t \in arm.todo : ~(t < s)
    BY <1>1, <1>3 DEF OpToRel
  <2> QED
    BY <1>1, <2>1
<1>5. Eval!Min(arm.todo) \in arm.todo
  BY <1>4 DEF Eval!Min
<1> QED
  BY <1>1, <1>5 DEF Eval!Current

\* What was measured stays measured.
LEMMA AttestedStays ==
    ASSUME EvalTypes, measured \subseteq measured', Len(runs') \in Nat, Len(runs) <= Len(runs'),
           \A i \in 1..Len(runs) : runs[i] = "completed" => runs'[i] = "completed"
    PROVE  \A s, b : Attested(measured, runs, s, b) => Attested(measured', runs', s, b)
<1>1. Len(runs) \in Nat
  BY RunsCounted
<1>2. \A i \in 1..Len(runs) : i \in 1..Len(runs')
  BY <1>1
<1> QED
  BY <1>2 DEF Attested

\* The records stand while the measures they stand on stay and nobody writes one.
LEMMA RecordedStays ==
    ASSUME Recorded, UNCHANGED <<scope, record, archive, pending>>, measured \subseteq measured'
    PROVE  Recorded'
<1>1. \A rec : Standing(rec) => Standing(rec)'
  BY ScopeStays DEF Standing
<1>2. /\ (pending'.pc # "idle" => pending'.rec \in Eval!Records' /\ Standing(pending.rec)')
      /\ \A v \in DOMAIN record' : record'[v] # Nil => Standing(record[v])'
  BY <1>1, ScopeStays DEF Recorded
<1>3. pending' = pending /\ record' = record /\ archive' = archive
  OBVIOUS
<1> QED
  BY <1>2, <1>3 DEF Recorded, Standing

\* What the arm, the baselines and the locks say is of them alone.
LEMMA ArmStays ==
    ASSUME EvalInv, UNCHANGED <<scope, base, lock, history, runs, measured, arm, forged>>
    PROVE  Working' /\ Aged' /\ Locked'
<1>1. Eval!Current' = Eval!Current /\ \A s : Eval!VerifyLock(s)' = Eval!VerifyLock(s)
  BY DEF Eval!Current, Eval!VerifyLock, Eval!MeasuresFingerprint
<1>2. \A s, b : Attested(measured', runs', s, b) <=> Attested(measured, runs, s, b)
  BY DEF Attested
<1>3. Working'
  BY <1>1, <1>2, ScopeStays DEF EvalInv, Working
<1>4. Aged'
  BY ScopeStays DEF EvalInv, Aged
<1>5. Locked'
  BY <1>1, <1>2, ScopeStays DEF EvalInv, Locked
<1> QED
  BY <1>3, <1>4, <1>5

\* At first nothing was measured.
LEMMA EvalInit == MeasureInit => EvalInv
<1> SUFFICES ASSUME MeasureInit PROVE EvalInv
  OBVIOUS
<1>1. /\ scope \in Scopes /\ prompt = 0 /\ cases = [s \in Eval!Suites |-> 0] /\ forged = 0
      /\ base = [s \in Eval!Suites |-> Nil] /\ lock = base /\ history = {}
      /\ runs = <<>> /\ measured = {} /\ arm = Eval!Idle
      /\ version = 0 /\ record = [v \in 0..Eval!MaxEvals |-> Nil] /\ archive = {}
      /\ pending = [pc |-> "idle", rec |-> Nil]
  BY DEF MeasureInit, Eval!Init
<1>2. Eval!MaxEdits \in Nat /\ Eval!MaxRuns \in Nat /\ Eval!MaxEvals \in Nat /\ Eval!MaxForged \in Nat
  BY <1>1, ScopeTyped
<1>3. arm \in Arms /\ arm.pc = "idle" /\ pending \in Pendings /\ pending.pc = "idle"
  BY <1>1, <1>2 DEF Eval!Idle, Arms, ArmPhases, Pendings
<1>4. runs \in Seq({"open", "completed", "failed"}) /\ Len(runs) = 0 /\ IsFiniteSet(archive)
  BY <1>1, EmptySeq, FS_EmptySet
<1>5. EvalTypes
  BY <1>1, <1>2, <1>3, <1>4 DEF EvalTypes
<1>6. Working
  BY <1>3 DEF Working
<1>7. Aged /\ Locked
  BY <1>1 DEF Aged, Locked
<1>8. Recorded
  BY <1>1, <1>3 DEF Recorded
<1> QED
  BY <1>5, <1>6, <1>7, <1>8 DEF EvalInv

\* An invocation begins, goes on to the next suite, is refused or ends, by a crash too.
LEMMA ArmRests ==
    ASSUME EvalInv, arm' \in Arms, arm'.pc \in {"idle", "next"},
           UNCHANGED <<scope, prompt, cases, base, lock, history, measured, forged,
                       version, record, archive, pending>>,
           runs' \in Seq({"open", "completed", "failed"}), Len(runs') = Len(runs),
           \A i \in 1..Len(runs) : runs[i] = "completed" => runs'[i] = "completed"
    PROVE  EvalInv'
<1>1. EvalTypes /\ Len(runs) \in Nat
  BY RunsCounted DEF EvalInv
<1>2. EvalTypes'
  BY <1>1, ScopeStays DEF EvalTypes
<1>3. Working'
  BY DEF Working
<1>4. Aged'
  BY ScopeStays DEF EvalInv, Aged
<1>5. Locked'
  <2>1. \A s, b : Attested(measured, runs, s, b) => Attested(measured', runs', s, b)
    BY <1>1, AttestedStays
  <2>2. \A s : Eval!VerifyLock(s)' = Eval!VerifyLock(s)
    BY DEF Eval!VerifyLock, Eval!MeasuresFingerprint
  <2> QED
    BY <2>1, <2>2, ScopeStays DEF EvalInv, Locked
<1>6. Recorded'
  BY RecordedStays DEF EvalInv
<1> QED
  BY <1>2, <1>3, <1>4, <1>5, <1>6 DEF EvalInv

\* The steps of that kind.
LEMMA ArmPauses ==
    ASSUME EvalInv, scope' = scope,
           \/ \E targets \in {Eval!Suites} \cup {{s} : s \in Eval!Suites} : Eval!Rebaseline(targets)
           \/ Eval!AllDone \/ Eval!Crash \/ Eval!Killed
           \/ (Eval!OpenRun /\ Eval!Vacuous(cases[Eval!Current]))
    PROVE  EvalInv'
<1>1. EvalTypes /\ Len(runs) \in Nat /\ DOMAIN runs = 1..Len(runs) /\ Eval!Run = Len(runs)
  BY RunsCounted DEF EvalInv
<1>2. Eval!Idle \in Arms /\ Eval!Idle.pc = "idle"
  BY <1>1, ScopeTyped DEF EvalTypes, Eval!Idle, Arms, ArmPhases
<1>3. runs \in Seq({"open", "completed", "failed"})
  BY <1>1 DEF EvalTypes
<1>4. CASE \E targets \in {Eval!Suites} \cup {{s} : s \in Eval!Suites} : Eval!Rebaseline(targets)
  <2>1. PICK targets \in SUBSET Eval!Suites : Eval!Rebaseline(targets)
    BY <1>4
  <2>2. /\ arm' = [Eval!Idle EXCEPT !.pc = "next", !.todo = targets]
        /\ UNCHANGED <<prompt, cases, base, lock, history, runs, measured, forged,
                       version, record, archive, pending>>
    BY <2>1 DEF Eval!Rebaseline, Eval!files, Eval!releaseVars
  <2>3. arm' \in Arms /\ arm'.pc = "next"
    BY <1>2, <2>2 DEF Arms, ArmPhases
  <2> QED
    BY <1>3, <2>2, <2>3, ArmRests
<1>5. CASE Eval!AllDone \/ Eval!Killed \/ (Eval!OpenRun /\ Eval!Vacuous(cases[Eval!Current]))
  <2>1. /\ arm' = Eval!Idle
        /\ UNCHANGED <<prompt, cases, base, lock, history, runs, measured, forged,
                       version, record, archive, pending>>
    BY <1>5 DEF Eval!AllDone, Eval!Killed, Eval!OpenRun, Eval!files, Eval!releaseVars
  <2> QED
    BY <1>2, <1>3, <2>1, ArmRests
<1>6. CASE Eval!Crash
  <2>1. /\ arm.pc \in {"open", "ask"} /\ runs' = [runs EXCEPT ![Len(runs)] = "failed"]
        /\ arm' = Eval!Idle
        /\ UNCHANGED <<prompt, cases, base, lock, history, measured, forged,
                       version, record, archive, pending>>
    BY <1>1, <1>6 DEF Eval!Crash, Eval!files, Eval!releaseVars
  <2>2. Len(runs) \in 1..Len(runs) /\ runs[Len(runs)] = "open"
    BY <1>1, <2>1 DEF EvalInv, Working
  <2>3. runs' \in Seq({"open", "completed", "failed"}) /\ Len(runs') = Len(runs)
    BY <1>1, <1>3, <2>1, <2>2, ExceptSeq
  <2>4. \A i \in 1..Len(runs) : runs[i] = "completed" => runs'[i] = "completed"
    BY <1>1, <2>1, <2>2
  <2> QED
    BY <1>2, <2>1, <2>3, <2>4, ArmRests
<1> QED
  BY <1>4, <1>5, <1>6

\* A run is minted: every baseline and every lock is of an earlier one.
LEMMA ArmOpens ==
    ASSUME EvalInv, scope' = scope, Eval!OpenRun, ~Eval!Vacuous(cases[Eval!Current])
    PROVE  EvalInv'
<1>1. EvalTypes /\ Len(runs) \in Nat /\ DOMAIN runs = 1..Len(runs) /\ Eval!Run = Len(runs)
  BY RunsCounted DEF EvalInv
<1>2. /\ arm.pc = "next" /\ arm.todo # {} /\ Len(runs) < Eval!MaxRuns
      /\ arm' = [arm EXCEPT !.pc = "open", !.cases = cases[Eval!Current]]
      /\ runs' = Append(runs, "open")
      /\ UNCHANGED <<prompt, cases, base, lock, history, measured, forged,
                     version, record, archive, pending>>
  BY <1>1 DEF Eval!OpenRun, Eval!files, Eval!releaseVars
<1>3. /\ runs' \in Seq({"open", "completed", "failed"}) /\ Len(runs') = Len(runs) + 1
      /\ runs'[Len(runs')] = "open" /\ \A i \in 1..Len(runs) : runs'[i] = runs[i]
  BY <1>1, <1>2, AppendProperties DEF EvalTypes
<1>4. arm' \in Arms /\ arm'.pc = "open" /\ arm'.todo # {}
  <2>1. cases[Eval!Current] \in 0..Eval!MaxEdits
    BY <1>1, <1>2, CurrentIsNext DEF EvalTypes
  <2> QED
    BY <1>1, <1>2, <2>1 DEF EvalTypes, Arms, ArmPhases
<1>5. EvalTypes'
  <2>1. Len(runs') <= Eval!MaxRuns
    BY <1>1, <1>2, <1>3, ScopeTyped DEF EvalTypes
  <2> QED
    BY <1>1, <1>2, <1>3, <1>4, <2>1, ScopeStays DEF EvalTypes
<1>6. Working'
  BY <1>1, <1>3, <1>4 DEF Working
<1>7. Aged'
  <2>1. \A n \in 1..Len(runs) : n \in 1..Len(runs') /\ n # Len(runs')
    BY <1>1, <1>3
  <2> QED
    BY <1>2, <2>1, ScopeStays DEF EvalInv, Aged
<1>8. Locked'
  <2>1. \A s, b : Attested(measured, runs, s, b) => Attested(measured', runs', s, b)
    BY <1>1, <1>2, <1>3, AttestedStays
  <2>2. \A s : Eval!VerifyLock(s)' = Eval!VerifyLock(s)
    BY <1>2 DEF Eval!VerifyLock, Eval!MeasuresFingerprint
  <2> QED
    BY <1>2, <2>1, <2>2, ScopeStays DEF EvalInv, Locked
<1>9. Recorded'
  BY <1>2, RecordedStays DEF EvalInv
<1> QED
  BY <1>5, <1>6, <1>7, <1>8, <1>9 DEF EvalInv

\* The first call of a run takes the prompt, unless an earlier suite's did.
LEMMA ArmCalls == ASSUME EvalInv, scope' = scope, Eval!FirstCall PROVE EvalInv'
<1>1. EvalTypes /\ Len(runs) \in Nat
  BY RunsCounted DEF EvalInv
<1>2. /\ arm.pc = "open" /\ arm' = [arm EXCEPT !.pc = "ask", !.prompt = IF @ = Nil THEN prompt ELSE @]
      /\ UNCHANGED <<prompt, cases, base, lock, history, runs, measured, forged,
                     version, record, archive, pending>>
  BY DEF Eval!FirstCall, Eval!files, Eval!releaseVars
<1>3. /\ arm' \in Arms /\ arm'.pc = "ask" /\ arm'.todo = arm.todo
      /\ arm'.prompt \in 0..Eval!MaxEdits
  BY <1>1, <1>2 DEF EvalTypes, Arms, ArmPhases
<1>4. EvalTypes'
  BY <1>1, <1>2, <1>3, ScopeStays DEF EvalTypes
<1>5. Working'
  BY <1>2, <1>3, ScopeStays DEF EvalInv, Working
<1>6. Aged'
  BY <1>2, <1>3, ScopeStays DEF EvalInv, Aged
<1>7. Locked'
  <2>1. \A s, b : Attested(measured', runs', s, b) <=> Attested(measured, runs, s, b)
    BY <1>2 DEF Attested
  <2>2. \A s : Eval!VerifyLock(s)' = Eval!VerifyLock(s)
    BY <1>2 DEF Eval!VerifyLock, Eval!MeasuresFingerprint
  <2> QED
    BY <1>2, <2>1, <2>2, ScopeStays DEF EvalInv, Locked
<1>8. Recorded'
  BY <1>2, RecordedStays DEF EvalInv
<1> QED
  BY <1>4, <1>5, <1>6, <1>7, <1>8 DEF EvalInv

\* A run completes: its report is of what it measured.
LEMMA ArmFinishes == ASSUME EvalInv, scope' = scope, NEW good \in BOOLEAN, Eval!Finish(good) PROVE EvalInv'
<1>1. EvalTypes /\ Len(runs) \in Nat /\ DOMAIN runs = 1..Len(runs) /\ Eval!Run = Len(runs)
  BY RunsCounted DEF EvalInv
<1> DEFINE s == Eval!Current
           n == Len(runs)
           rep == [suite |-> s, good |-> good, run |-> n, prompt |-> prompt, cases |-> arm.cases]
           m == [rep EXCEPT !.prompt = arm.prompt]
<1>2. /\ arm.pc = "ask" /\ runs' = [runs EXCEPT ![n] = "completed"]
      /\ arm' = [arm EXCEPT !.pc = "append", !.report = rep] /\ measured' = measured \cup {m}
      /\ UNCHANGED <<prompt, cases, base, lock, history, forged, version, record, archive, pending>>
  BY <1>1 DEF Eval!Finish, Eval!Report, Eval!files, Eval!releaseVars
<1>3. /\ s \in Eval!Suites /\ n \in 1..Eval!MaxRuns /\ n \in 1..n /\ runs[n] = "open" /\ arm.todo # {}
      /\ arm.prompt \in 0..Eval!MaxEdits
  <2>1. arm.todo # {} /\ n >= 1 /\ runs[n] = "open" /\ arm.prompt \in 0..Eval!MaxEdits
    BY <1>2 DEF EvalInv, Working
  <2>2. n <= Eval!MaxRuns /\ Eval!MaxRuns \in Nat
    BY <1>1, ScopeTyped DEF EvalTypes
  <2> QED
    BY <1>1, <2>1, <2>2, CurrentIsNext
<1>4. rep \in Eval!Baselines /\ m \in Eval!Baselines
  BY <1>1, <1>3 DEF EvalTypes, Arms, Eval!Baselines
<1>5. /\ runs' \in Seq({"open", "completed", "failed"}) /\ Len(runs') = n
      /\ \A i \in 1..n : runs'[i] = IF i = n THEN "completed" ELSE runs[i]
  BY <1>1, <1>2, <1>3, ExceptSeq DEF EvalTypes
<1>6. arm' \in Arms /\ arm'.pc = "append" /\ arm'.todo = arm.todo /\ arm'.report = rep
  BY <1>1, <1>2, <1>4 DEF EvalTypes, Arms, ArmPhases
<1>7. EvalTypes'
  BY <1>1, <1>2, <1>4, <1>5, <1>6, ScopeStays DEF EvalTypes
<1>8. Attested(measured', runs', s, rep)
  <2>1. m \in measured' /\ m.suite = s /\ m.good = good /\ m.cases = arm.cases /\ m.run = n
    BY <1>2
  <2>2. rep.good = good /\ rep.cases = arm.cases /\ rep.run = n
    OBVIOUS
  <2>3. n \in 1..Len(runs') /\ runs'[n] = "completed"
    BY <1>3, <1>5
  <2> HIDE DEF rep, m, s, n
  <2> QED
    BY <2>1, <2>2, <2>3 DEF Attested
<1>9. Eval!Current' = s
  BY <1>6 DEF Eval!Current, Eval!Min
<1>10. Working'
  <2>1. arm'.report \in Eval!Baselines' /\ arm'.report.run = Len(runs')
    BY <1>4, <1>5, <1>6, ScopeStays
  <2>2. Attested(measured', runs', Eval!Current', arm'.report)
    BY <1>6, <1>8, <1>9
  <2> HIDE DEF rep, m, s, n
  <2> QED
    BY <1>3, <1>5, <1>6, <2>1, <2>2 DEF Working, n
<1>11. Aged'
  BY <1>2, <1>5, <1>6, ScopeStays DEF EvalInv, Aged
<1>12. \A t, b : Attested(measured, runs, t, b) => Attested(measured', runs', t, b)
  <2>1. measured \subseteq measured'
    BY <1>2
  <2>2. Len(runs') \in Nat /\ Len(runs) <= Len(runs')
    <3>1. \A k \in Nat : k <= k
      OBVIOUS
    <3> QED
      BY <1>1, <1>5, <3>1
  <2>3. \A i \in 1..Len(runs) : runs[i] = "completed" => runs'[i] = "completed"
    BY <1>5
  <2> QED
    BY <1>1, <2>1, <2>2, <2>3, AttestedStays
<1>13. Locked'
  <2>1. \A t : Eval!VerifyLock(t)' = Eval!VerifyLock(t)
    BY <1>2 DEF Eval!VerifyLock, Eval!MeasuresFingerprint
  <2> QED
    BY <1>2, <1>12, <2>1, ScopeStays DEF EvalInv, Locked
<1>14. Recorded'
  BY <1>2, RecordedStays DEF EvalInv
<1> QED
  BY <1>7, <1>10, <1>11, <1>13, <1>14 DEF EvalInv

\* What holds while the arm writes: the suite it is at, and the report on it.
LEMMA ArmWrites ==
    ASSUME EvalInv, arm.pc \in {"append", "write", "lock", "check"}
    PROVE  /\ EvalTypes /\ Len(runs) \in 1..Eval!MaxRuns
           /\ Eval!Current \in Eval!Suites /\ arm.todo # {} /\ arm.todo \subseteq Eval!Suites
           /\ arm.report \in Eval!Baselines /\ arm.report.run = Len(runs)
           /\ Attested(measured, runs, Eval!Current, arm.report)
<1>1. EvalTypes /\ Working /\ Len(runs) \in Nat
  BY RunsCounted DEF EvalInv
<1>2. arm.todo # {} /\ Len(runs) >= 1
  BY <1>1 DEF Working
<1>3. Eval!MaxRuns \in Nat /\ Len(runs) <= Eval!MaxRuns /\ arm.todo \subseteq Eval!Suites
  BY <1>1, ScopeTyped DEF EvalTypes, Arms
<1>4. Len(runs) \in 1..Eval!MaxRuns
  BY <1>1, <1>2, <1>3
<1>5. Eval!Current \in Eval!Suites
  BY <1>1, <1>2, CurrentIsNext
<1> QED
  BY <1>1, <1>2, <1>3, <1>4, <1>5 DEF Working

\* The number about to be replaced goes to the history.
LEMMA ArmAppends == ASSUME EvalInv, scope' = scope, Eval!AppendHistory PROVE EvalInv'
<1>1. /\ arm.pc = "append" /\ arm' = [arm EXCEPT !.pc = "write"]
      /\ history' = history \cup ({base[Eval!Current]} \ {Nil})
      /\ UNCHANGED <<prompt, cases, base, lock, runs, measured, forged, version, record, archive, pending>>
  BY DEF Eval!AppendHistory, Eval!Archived, Eval!releaseVars
<1>2. /\ EvalTypes /\ Eval!Current \in Eval!Suites
      /\ arm.report \in Eval!Baselines /\ arm.report.run = Len(runs)
      /\ Attested(measured, runs, Eval!Current, arm.report)
  BY <1>1, ArmWrites
<1>3. arm' \in Arms /\ arm'.pc = "write" /\ arm'.todo = arm.todo /\ arm'.report = arm.report
  BY <1>1, <1>2 DEF EvalTypes, Arms, ArmPhases
<1>4. Eval!Current' = Eval!Current
  BY <1>3 DEF Eval!Current, Eval!Min
<1>5. history' \subseteq Eval!Baselines /\ base[Eval!Current] \in history' \cup {Nil}
  BY <1>1, <1>2 DEF EvalTypes
<1>6. EvalTypes'
  BY <1>1, <1>2, <1>3, <1>5, ScopeStays DEF EvalTypes
<1>7. Working'
  BY <1>1, <1>2, <1>3, <1>4, <1>5, ScopeStays DEF EvalInv, Working
<1>8. Aged'
  BY <1>1, <1>3, ScopeStays DEF EvalInv, Aged
<1>9. Locked'
  <2>1. \A t : Eval!VerifyLock(t)' = Eval!VerifyLock(t)
    BY <1>1 DEF Eval!VerifyLock, Eval!MeasuresFingerprint
  <2> QED
    BY <1>1, <2>1, ScopeStays DEF EvalInv, Locked
<1>10. Recorded'
  BY <1>1, RecordedStays DEF EvalInv
<1> QED
  BY <1>6, <1>7, <1>8, <1>9, <1>10 DEF EvalInv

\* The baseline is the report's: measured, and of no lock's run.
LEMMA ArmReplaces == ASSUME EvalInv, scope' = scope, Eval!WriteBaseline PROVE EvalInv'
<1> DEFINE s == Eval!Current
<1>1. /\ arm.pc = "write" /\ arm' = [arm EXCEPT !.pc = "lock"] /\ base' = [base EXCEPT ![s] = arm.report]
      /\ UNCHANGED <<prompt, cases, lock, history, runs, measured, forged, version, record, archive, pending>>
  BY DEF Eval!WriteBaseline, Eval!releaseVars
<1>2. /\ EvalTypes /\ s \in Eval!Suites /\ Len(runs) \in 1..Eval!MaxRuns
      /\ arm.report \in Eval!Baselines /\ arm.report.run = Len(runs)
      /\ Attested(measured, runs, s, arm.report) /\ arm.todo # {}
  BY <1>1, ArmWrites
<1>3. arm' \in Arms /\ arm'.pc = "lock" /\ arm'.todo = arm.todo /\ arm'.report = arm.report
  BY <1>1, <1>2 DEF EvalTypes, Arms, ArmPhases
<1>4. Eval!Current' = s
  BY <1>3 DEF Eval!Current, Eval!Min
<1> HIDE DEF s
<1>5. \A t \in Eval!Suites : base'[t] = IF t = s THEN arm.report ELSE base[t]
  BY <1>1, <1>2 DEF EvalTypes
<1>6. EvalTypes'
  BY <1>1, <1>2, <1>3, ScopeStays DEF EvalTypes
<1>7. Working'
  BY <1>1, <1>2, <1>3, <1>4, <1>5, ScopeStays DEF EvalInv, Working
<1>8. Aged'
  BY <1>1, <1>2, <1>3, <1>5, ScopeStays DEF EvalInv, Aged
<1>9. Locked'
  <2> SUFFICES ASSUME NEW t \in Eval!Suites, base'[t] # Nil
               PROVE  /\ Eval!VerifyLock(t)' => Attested(measured', runs', t, base'[t])
                      /\ forged' = 0 =>
                            /\ Attested(measured', runs', t, base'[t])
                            /\ lock'[t] # Nil /\ lock'[t].run = base'[t].run => lock'[t].good = base'[t].good
    BY ScopeStays DEF Locked
  <2>1. CASE t = s
    <3>1. lock[t] # Nil => lock[t].run # Len(runs)
      BY <1>1, <1>2, <2>1 DEF EvalInv, Aged
    <3> QED
      BY <1>1, <1>2, <1>5, <2>1, <3>1
  <2>2. CASE t # s
    <3>1. base'[t] = base[t] /\ lock'[t] = lock[t] /\ Eval!VerifyLock(t)' = Eval!VerifyLock(t)
      BY <1>1, <1>5, <2>2 DEF Eval!VerifyLock, Eval!MeasuresFingerprint
    <3> QED
      BY <1>1, <3>1 DEF EvalInv, Locked
  <2> QED
    BY <2>1, <2>2
<1>10. Recorded'
  BY <1>1, RecordedStays DEF EvalInv
<1> QED
  BY <1>6, <1>7, <1>8, <1>9, <1>10 DEF EvalInv

\* The lock fingerprints the baseline that was written.
LEMMA ArmLocks == ASSUME EvalInv, scope' = scope, Eval!WriteLock PROVE EvalInv'
<1> DEFINE s == Eval!Current
           l == Eval!MeasuresFingerprint(base[s])
<1>1. /\ arm.pc = "lock" /\ arm' = [arm EXCEPT !.pc = "check"] /\ lock' = [lock EXCEPT ![s] = l]
      /\ UNCHANGED <<prompt, cases, base, history, runs, measured, forged, version, record, archive, pending>>
  BY DEF Eval!WriteLock, Eval!releaseVars
<1>2. /\ EvalTypes /\ s \in Eval!Suites /\ Len(runs) \in 1..Eval!MaxRuns
      /\ arm.report \in Eval!Baselines /\ arm.report.run = Len(runs)
      /\ Attested(measured, runs, s, arm.report) /\ arm.todo # {} /\ base[s] = arm.report
  BY <1>1, ArmWrites DEF EvalInv, Working
<1>3. arm' \in Arms /\ arm'.pc = "check" /\ arm'.todo = arm.todo /\ arm'.report = arm.report
  BY <1>1, <1>2 DEF EvalTypes, Arms, ArmPhases
<1>4. Eval!Current' = s
  BY <1>3 DEF Eval!Current, Eval!Min
<1>5. l \in Locks /\ l.run = base[s].run /\ l.good = base[s].good /\ l.run = Len(runs)
  BY <1>2 DEF Eval!MeasuresFingerprint, Eval!Baselines, Locks
<1> HIDE DEF s, l
<1>6. \A t \in Eval!Suites : lock'[t] = IF t = s THEN l ELSE lock[t]
  BY <1>1, <1>2 DEF EvalTypes
<1>7. EvalTypes'
  BY <1>1, <1>2, <1>3, <1>5, ScopeStays DEF EvalTypes
<1>8. Working'
  BY <1>1, <1>2, <1>3, <1>4, ScopeStays DEF EvalInv, Working
<1>9. Aged'
  <2>1. Len(runs) \in 1..Len(runs)
    BY <1>2
  <2> QED
    BY <1>1, <1>2, <1>3, <1>5, <1>6, <2>1, ScopeStays DEF EvalInv, Aged
<1>10. Locked'
  <2> SUFFICES ASSUME NEW t \in Eval!Suites, base'[t] # Nil
               PROVE  /\ Eval!VerifyLock(t)' => Attested(measured', runs', t, base'[t])
                      /\ forged' = 0 =>
                            /\ Attested(measured', runs', t, base'[t])
                            /\ lock'[t] # Nil /\ lock'[t].run = base'[t].run => lock'[t].good = base'[t].good
    BY ScopeStays DEF Locked
  <2>1. CASE t = s
    BY <1>1, <1>2, <1>5, <1>6, <2>1
  <2>2. CASE t # s
    <3>1. base'[t] = base[t] /\ lock'[t] = lock[t] /\ Eval!VerifyLock(t)' = Eval!VerifyLock(t)
      BY <1>1, <1>6, <2>2 DEF Eval!VerifyLock, Eval!MeasuresFingerprint
    <3> QED
      BY <1>1, <3>1 DEF EvalInv, Locked
  <2> QED
    BY <2>1, <2>2
<1>11. Recorded'
  BY <1>1, RecordedStays DEF EvalInv
<1> QED
  BY <1>7, <1>8, <1>9, <1>10, <1>11 DEF EvalInv

\* The write closes its loop: what fails its own guard is deleted.
LEMMA ArmCloses == ASSUME EvalInv, scope' = scope, Eval!CloseLoop PROVE EvalInv'
<1> DEFINE s == Eval!Current
<1>1. /\ arm.pc = "check"
      /\ \/ /\ arm' = [arm EXCEPT !.pc = "next", !.todo = @ \ {s}, !.report = Nil]
            /\ UNCHANGED <<base, lock>>
         \/ /\ base' = [base EXCEPT ![s] = Nil] /\ lock' = [lock EXCEPT ![s] = Nil]
            /\ arm' = Eval!Idle
      /\ UNCHANGED <<prompt, cases, history, runs, measured, forged, version, record, archive, pending>>
  BY DEF Eval!CloseLoop, Eval!releaseVars
<1>2. EvalTypes /\ s \in Eval!Suites
  BY <1>1, ArmWrites
<1>3. Eval!Idle \in Arms /\ Eval!Idle.pc = "idle"
  BY <1>2, ScopeTyped DEF EvalTypes, Eval!Idle, Arms, ArmPhases
<1> HIDE DEF s
<1>4. arm' \in Arms /\ arm'.pc \in {"idle", "next"}
  <2>1. CASE arm' = Eval!Idle
    BY <1>3, <2>1
  <2>2. CASE arm' = [arm EXCEPT !.pc = "next", !.todo = @ \ {s}, !.report = Nil]
    <3>1. arm \in Arms
      BY <1>2 DEF EvalTypes
    <3>2. arm.todo \ {s} \in SUBSET Eval!Suites
      BY <3>1 DEF Arms
    <3> QED
      BY <2>2, <3>1, <3>2 DEF Arms, ArmPhases
  <2> QED
    BY <1>1, <2>1, <2>2
<1>5. \A t \in Eval!Suites : \/ base'[t] = Nil /\ lock'[t] = Nil
                             \/ base'[t] = base[t] /\ lock'[t] = lock[t]
  BY <1>1, <1>2 DEF EvalTypes
<1>6. EvalTypes'
  <2>1. base' \in [Eval!Suites -> Eval!Baselines \cup {Nil}] /\ lock' \in [Eval!Suites -> Locks \cup {Nil}]
    BY <1>1, <1>2 DEF EvalTypes
  <2> QED
    BY <1>1, <1>2, <1>4, <2>1, ScopeStays DEF EvalTypes
<1>7. Working'
  BY <1>4 DEF Working
<1>8. Aged'
  BY <1>1, <1>4, <1>5, ScopeStays DEF EvalInv, Aged
<1>9. Locked'
  <2> SUFFICES ASSUME NEW t \in Eval!Suites, base'[t] # Nil
               PROVE  /\ Eval!VerifyLock(t)' => Attested(measured', runs', t, base'[t])
                      /\ forged' = 0 =>
                            /\ Attested(measured', runs', t, base'[t])
                            /\ lock'[t] # Nil /\ lock'[t].run = base'[t].run => lock'[t].good = base'[t].good
    BY ScopeStays DEF Locked
  <2>1. base'[t] = base[t] /\ lock'[t] = lock[t]
    BY <1>5
  <2>2. Eval!VerifyLock(t)' = Eval!VerifyLock(t)
    BY <2>1 DEF Eval!VerifyLock, Eval!MeasuresFingerprint
  <2> QED
    BY <1>1, <2>1, <2>2 DEF EvalInv, Locked
<1>10. Recorded'
  BY <1>1, RecordedStays DEF EvalInv
<1> QED
  BY <1>6, <1>7, <1>8, <1>9, <1>10 DEF EvalInv

\* Somebody edits the prompt or the cases.
LEMMA FilesMove ==
    ASSUME EvalInv, scope' = scope, Eval!EditPrompt \/ \E s \in Eval!Suites : Eval!EditCases(s)
    PROVE  EvalInv'
<1>1. UNCHANGED <<base, lock, history, runs, measured, arm, forged, version, record, archive, pending>>
  BY DEF Eval!EditPrompt, Eval!EditCases, Eval!armVars, Eval!releaseVars
<1>2. EvalTypes /\ Eval!MaxEdits \in Nat
  BY ScopeTyped DEF EvalInv, EvalTypes
<1>3. prompt' \in 0..Eval!MaxEdits /\ cases' \in [Eval!Suites -> 0..Eval!MaxEdits]
  <2>1. CASE Eval!EditPrompt
    BY <1>2, <2>1 DEF EvalTypes, Eval!EditPrompt
  <2>2. CASE \E s \in Eval!Suites : Eval!EditCases(s)
    <3>1. PICK s \in Eval!Suites : Eval!EditCases(s)
      BY <2>2
    <3>2. cases[s] \in 0..Eval!MaxEdits /\ cases[s] < Eval!MaxEdits
      BY <1>2, <3>1 DEF EvalTypes, Eval!EditCases
    <3>3. cases[s] + 1 \in 0..Eval!MaxEdits
      BY <1>2, <3>2
    <3> QED
      BY <1>2, <3>1, <3>3 DEF EvalTypes, Eval!EditCases
  <2> QED
    BY <2>1, <2>2
<1>4. EvalTypes'
  BY <1>1, <1>2, <1>3, ScopeStays DEF EvalTypes
<1>5. Working' /\ Aged' /\ Locked'
  BY <1>1, ArmStays
<1>6. Recorded'
  BY <1>1, RecordedStays DEF EvalInv
<1> QED
  BY <1>4, <1>5, <1>6 DEF EvalInv

\* Somebody edits a baseline or its lock: the two no longer agree.
LEMMA HandEdits ==
    ASSUME EvalInv, scope' = scope, NEW s \in Eval!Suites, Eval!HandEdit(s) PROVE EvalInv'
<1>1. /\ forged < Eval!MaxForged /\ arm.pc = "idle" /\ base[s] # Nil /\ forged' = forged + 1
      /\ \/ base' = [base EXCEPT ![s].good = ~@] /\ UNCHANGED lock
         \/ \E l \in {Nil, [good |-> ~base[s].good, run |-> base[s].run]} :
               lock' = [lock EXCEPT ![s] = l] /\ UNCHANGED base
      /\ UNCHANGED <<prompt, cases, history, runs, measured, arm, version, record, archive, pending>>
  BY DEF Eval!HandEdit, Eval!armVars, Eval!releaseVars
<1>2. EvalTypes /\ Eval!MaxForged \in {0, 1}
  BY ScopeTyped DEF EvalInv, EvalTypes
<1>3. forged = 0 /\ forged' = 1 /\ forged' \in 0..Eval!MaxForged
  BY <1>1, <1>2 DEF EvalTypes
<1>4. base[s] \in Eval!Baselines /\ base[s].good \in BOOLEAN /\ base[s].run \in 1..Eval!MaxRuns
  BY <1>1, <1>2 DEF EvalTypes, Eval!Baselines
<1> DEFINE b == [base[s] EXCEPT !.good = ~@]
           l == [good |-> ~base[s].good, run |-> base[s].run]
<1>5. b \in Eval!Baselines /\ b.run = base[s].run /\ b.good = ~base[s].good
  BY <1>4 DEF Eval!Baselines
<1>6. l \in Locks /\ l.run = base[s].run /\ l.good = ~base[s].good
  BY <1>4 DEF Locks
<1>7. \/ base' = [base EXCEPT ![s] = b] /\ lock' = lock
      \/ base' = base /\ \E k \in {Nil, l} : lock' = [lock EXCEPT ![s] = k]
  <2>1. [base EXCEPT ![s].good = ~@] = [base EXCEPT ![s] = b]
    OBVIOUS
  <2> QED
    BY <1>1, <2>1
<1> HIDE DEF b, l
<1>8. \A t \in Eval!Suites \ {s} : base'[t] = base[t] /\ lock'[t] = lock[t]
  BY <1>2, <1>7 DEF EvalTypes
<1>9. \/ base'[s] = b /\ lock'[s] = lock[s]
      \/ base'[s] = base[s] /\ lock'[s] \in {Nil, l}
  BY <1>2, <1>7 DEF EvalTypes
<1>10. EvalTypes'
  <2>1. base' \in [Eval!Suites -> Eval!Baselines \cup {Nil}] /\ lock' \in [Eval!Suites -> Locks \cup {Nil}]
    <3>1. /\ base \in [Eval!Suites -> Eval!Baselines \cup {Nil}]
          /\ lock \in [Eval!Suites -> Locks \cup {Nil}]
      BY <1>2 DEF EvalTypes
    <3>2. CASE base' = [base EXCEPT ![s] = b] /\ lock' = lock
      BY <1>5, <3>1, <3>2
    <3>3. CASE base' = base /\ \E k \in {Nil, l} : lock' = [lock EXCEPT ![s] = k]
      BY <1>6, <3>1, <3>3
    <3> QED
      BY <1>7, <3>2, <3>3
  <2> QED
    BY <1>1, <1>2, <1>3, <2>1, ScopeStays DEF EvalTypes
<1>11. Working'
  BY <1>1 DEF Working
<1>12. Aged'
  <2> SUFFICES ASSUME NEW t \in Eval!Suites
               PROVE  /\ base'[t] # Nil => base'[t].run \in 1..Len(runs)
                      /\ lock'[t] # Nil => lock'[t].run \in 1..Len(runs)
    BY <1>1, ScopeStays DEF Aged
  <2>1. /\ base[t] # Nil => base[t].run \in 1..Len(runs)
        /\ lock[t] # Nil => lock[t].run \in 1..Len(runs)
        /\ base[s].run \in 1..Len(runs)
    BY <1>1 DEF EvalInv, Aged
  <2>2. CASE t = s
    BY <1>5, <1>6, <1>9, <2>1, <2>2
  <2>3. CASE t # s
    BY <1>8, <2>1, <2>3
  <2> QED
    BY <2>2, <2>3
<1>13. Locked'
  <2> SUFFICES ASSUME NEW t \in Eval!Suites, base'[t] # Nil, Eval!VerifyLock(t)'
               PROVE  Attested(measured', runs', t, base'[t])
    BY <1>3, ScopeStays DEF Locked
  <2>1. lock'[t] # Nil /\ lock'[t].run = base'[t].run /\ lock'[t].good = base'[t].good
    BY DEF Eval!VerifyLock, Eval!MeasuresFingerprint
  <2>2. t # s
    <3>1. lock[s] # Nil /\ lock[s].run = base[s].run => lock[s].good = base[s].good
      BY <1>1, <1>3 DEF EvalInv, Locked
    <3> QED
      BY <1>4, <1>5, <1>6, <1>9, <2>1, <3>1
  <2>3. base'[t] = base[t]
    BY <1>8, <2>2
  <2> QED
    BY <1>1, <1>3, <2>3 DEF EvalInv, Locked
<1>14. Recorded'
  BY <1>1, RecordedStays DEF EvalInv
<1> QED
  BY <1>10, <1>11, <1>12, <1>13, <1>14 DEF EvalInv

\* A lane that passes was measured over the cases at hand.
LEMMA PassIsMeasured == EvalInv => Eval!PassNeedsMeasure
<1> SUFFICES ASSUME EvalInv, NEW s \in Eval!Suites, Eval!Lane(s) = "pass"
             PROVE  \E m \in measured : /\ m.suite = s /\ m.good /\ m.cases = cases[s]
                                        /\ m.run = base[s].run /\ runs[m.run] = "completed"
  BY DEF Eval!PassNeedsMeasure
<1>1. Eval!CheckBaseline(s, cases[s]) /\ base[s].good
  BY DEF Eval!Lane, Eval!BarMisses
<1>2. base[s] # Nil /\ base[s].cases = cases[s] /\ Eval!VerifyLock(s)
  BY <1>1 DEF Eval!CheckBaseline
<1>3. Attested(measured, runs, s, base[s])
  BY <1>2 DEF EvalInv, Locked
<1> QED
  BY <1>1, <1>2, <1>3 DEF Attested

\* The evaluation gives its record the next number.
LEMMA ClockCounts == ASSUME EvalTypes PROVE Eval!Clock \in Nat /\ Eval!Clock >= 1
<1> DEFINE taken == {v \in DOMAIN record : record[v] # Nil}
<1>1. \A S : Eval!Cardinality(S) = Cardinality(S)
  BY DEF Eval!Cardinality, Cardinality
<1>2. Eval!MaxEvals \in Nat /\ DOMAIN record = 0..Eval!MaxEvals
  BY ScopeTyped DEF EvalTypes
<1>3. IsFiniteSet(0..Eval!MaxEvals)
  <2>1. \A n \in Nat : IsFiniteSet(0..n)
    BY FS_Interval
  <2> QED
    BY <1>2, <2>1
<1>4. IsFiniteSet(taken)
  <2>1. taken \in SUBSET (0..Eval!MaxEvals)
    BY <1>2
  <2> HIDE DEF taken
  <2> QED
    BY <1>3, <2>1, FS_Subset
<1>5. Eval!Clock = Cardinality(archive) + Cardinality(taken) + 1
  BY <1>1 DEF Eval!Clock
<1>6. Cardinality(archive) \in Nat /\ Cardinality(taken) \in Nat
  <2> HIDE DEF taken
  <2> QED
    BY <1>4, FS_CardinalityType DEF EvalTypes
<1> HIDE DEF taken
<1> QED
  BY <1>5, <1>6

\* An evaluation grades the lanes: what passes stands on measures.
LEMMA RecordsJudged ==
    ASSUME EvalInv, scope' = scope, NEW holds \in BOOLEAN, NEW slice \in Eval!Slices,
           NEW overrides \in SUBSET {2, 3}, Eval!Judge(holds, slice.cost, slice.recall, overrides)
    PROVE  EvalInv'
<1> DEFINE blocking == Eval!BlockingFailures(holds)
           regressed == Eval!RegressedClauses(Eval!LatestPrior, slice.cost, slice.recall)
           rec == [version |-> version, at |-> Eval!Clock, cost |-> slice.cost, recall |-> slice.recall,
                   blocking |-> blocking, passed |-> Eval!PassState(blocking, regressed, overrides)]
<1>1. /\ pending.pc = "idle" /\ Eval!Clock <= Eval!MaxEvals /\ pending' = [pc |-> "archive", rec |-> rec]
      /\ UNCHANGED <<prompt, cases, base, lock, history, runs, measured, arm, forged>>
      /\ UNCHANGED <<version, record, archive>>
  BY DEF Eval!Judge, Eval!files, Eval!armVars
<1>2. EvalTypes
  BY DEF EvalInv
<1>3. Eval!Clock \in 1..Eval!MaxEvals
  BY <1>1, <1>2, ClockCounts, ScopeTyped DEF EvalTypes
<1>4. slice.cost \in {x.cost : x \in Eval!Slices} /\ slice.recall \in {0, 1, Nil}
  BY <1>2, ScopeTyped DEF EvalTypes
<1>5. blocking \in SUBSET (Eval!Suites \cup {0})
  BY DEF Eval!BlockingFailures
<1>6. Eval!PassState(blocking, regressed, overrides) \in BOOLEAN
      /\ (Eval!PassState(blocking, regressed, overrides) => blocking = {})
  BY DEF Eval!PassState
<1>7. rec \in Eval!Records /\ rec.passed = Eval!PassState(blocking, regressed, overrides)
  <2> HIDE DEF blocking, regressed
  <2> QED
    BY <1>2, <1>3, <1>4, <1>5, <1>6 DEF Eval!Records, EvalTypes
<1>8. Standing(rec)
  <2> SUFFICES ASSUME rec.passed, NEW s \in Eval!Suites PROVE \E m \in measured : m.suite = s /\ m.good
    BY DEF Standing
  <2>1. blocking = {}
    BY <1>6, <1>7
  <2>2. Eval!Lane(s) = "pass"
    BY <2>1 DEF Eval!BlockingFailures
  <2> QED
    BY <2>2, PassIsMeasured DEF Eval!PassNeedsMeasure
<1> HIDE DEF rec
<1>9. pending'.pc = "archive" /\ pending'.rec = rec /\ pending' \in Pendings
  BY <1>1, <1>7 DEF Pendings
<1>10. EvalTypes'
  BY <1>1, <1>2, <1>9, ScopeStays DEF EvalTypes
<1>11. Working' /\ Aged' /\ Locked'
  BY <1>1, ArmStays
<1>12. Recorded'
  <2>1. \A r : Standing(r) => Standing(r)'
    BY <1>1, ScopeStays DEF Standing
  <2>2. pending'.rec \in Eval!Records' /\ Standing(pending.rec)'
    <3>1. Standing(pending.rec)' <=>
             (rec.passed => \A s \in Eval!Suites : \E m \in measured : m.suite = s /\ m.good)
      BY <1>1, <1>9, ScopeStays DEF Standing
    <3> QED
      BY <1>7, <1>8, <1>9, <3>1, ScopeStays DEF Standing
  <2>3. \A v \in DOMAIN record' : record'[v] # Nil => Standing(record[v])'
    BY <1>1, <2>1, ScopeStays DEF EvalInv, Recorded, Standing
  <2> QED
    BY <1>9, <2>2, <2>3 DEF Recorded
<1> QED
  BY <1>10, <1>11, <1>12 DEF EvalInv

\* What the record of a version replaces is archived first; a death leaves the old one.
LEMMA RecordsMove ==
    ASSUME EvalInv, scope' = scope,
           Eval!ArchiveRecord \/ Eval!WriteRecord \/ Eval!EvalDies \/ Eval!Commit
    PROVE  EvalInv'
<1>1. UNCHANGED <<prompt, cases, base, lock, history, runs, measured, arm, forged>>
  BY DEF Eval!ArchiveRecord, Eval!WriteRecord, Eval!EvalDies, Eval!Commit, Eval!files, Eval!armVars
<1>2. EvalTypes /\ Recorded /\ Eval!MaxEvals \in Nat
  BY ScopeTyped DEF EvalInv, EvalTypes
<1>3. Working' /\ Aged' /\ Locked'
  BY <1>1, ArmStays
<1>4. \A r : Standing(r) => (r.passed => \A s \in Eval!Suites' : \E m \in measured' : m.suite = s /\ m.good)
  BY <1>1, ScopeStays DEF Standing
<1>5. CASE Eval!ArchiveRecord
  <2>1. /\ pending.pc = "archive" /\ archive' = archive \cup ({record[pending.rec.version]} \ {Nil})
        /\ pending' = [pending EXCEPT !.pc = "write"] /\ UNCHANGED <<version, record>>
    BY <1>5 DEF Eval!ArchiveRecord, Eval!ToArchive
  <2>2. pending.rec \in Eval!Records /\ pending.rec.version \in 0..Eval!MaxEvals /\ Standing(pending.rec)
    BY <1>2, <2>1 DEF Recorded, Eval!Records
  <2>3. pending'.pc = "write" /\ pending'.rec = pending.rec /\ pending' \in Pendings
    BY <1>2, <2>1 DEF EvalTypes, Pendings
  <2>4. /\ archive' \subseteq Eval!Records /\ IsFiniteSet(archive')
        /\ record[pending.rec.version] \in archive' \cup {Nil}
    <3>1. record[pending.rec.version] \in Eval!Records \cup {Nil}
      BY <1>2, <2>2 DEF EvalTypes
    <3>2. archive' = archive \/ archive' = archive \cup {record[pending.rec.version]}
      BY <2>1
    <3>3. IsFiniteSet(archive')
      <4>1. IsFiniteSet(archive)
        BY <1>2 DEF EvalTypes
      <4>2. \A r : IsFiniteSet(archive \cup {r})
        BY <4>1, FS_AddElement
      <4> QED
        BY <3>2, <4>1, <4>2
    <3> QED
      BY <1>2, <2>1, <3>1, <3>3 DEF EvalTypes
  <2>5. EvalTypes'
    BY <1>1, <1>2, <2>1, <2>3, <2>4, ScopeStays DEF EvalTypes
  <2>6. Recorded'
    BY <1>2, <1>4, <2>1, <2>2, <2>3, <2>4, ScopeStays DEF Recorded, Standing
  <2> QED
    BY <1>3, <2>5, <2>6 DEF EvalInv
<1>6. CASE Eval!WriteRecord
  <2>1. /\ pending.pc = "write" /\ record' = [record EXCEPT ![pending.rec.version] = pending.rec]
        /\ pending' = [pc |-> "idle", rec |-> Nil] /\ UNCHANGED <<version, archive>>
    BY <1>6 DEF Eval!WriteRecord
  <2>2. pending.rec \in Eval!Records /\ pending.rec.version \in 0..Eval!MaxEvals /\ Standing(pending.rec)
    BY <1>2, <2>1 DEF Recorded, Eval!Records
  <2>3. pending' \in Pendings /\ pending'.pc = "idle"
    BY <2>1 DEF Pendings
  <2>4. \A v \in DOMAIN record' : v \in DOMAIN record /\ (record'[v] = pending.rec \/ record'[v] = record[v])
    BY <1>2, <2>1 DEF EvalTypes
  <2>5. EvalTypes'
    BY <1>1, <1>2, <2>1, <2>2, <2>3, ScopeStays DEF EvalTypes
  <2>6. Recorded'
    BY <1>2, <1>4, <2>2, <2>3, <2>4 DEF Recorded, Standing
  <2> QED
    BY <1>3, <2>5, <2>6 DEF EvalInv
<1>7. CASE Eval!EvalDies \/ Eval!Commit
  <2>1. /\ UNCHANGED <<record, archive>> /\ version' \in 0..Eval!MaxEvals
        /\ pending' \in Pendings /\ pending'.pc = "idle"
    <3>1. CASE Eval!EvalDies
      BY <1>2, <3>1 DEF EvalTypes, Eval!EvalDies, Pendings
    <3>2. CASE Eval!Commit
      BY <1>2, <3>2 DEF EvalTypes, Eval!Commit
    <3> QED
      BY <1>7, <3>1, <3>2
  <2>2. EvalTypes'
    BY <1>1, <1>2, <2>1, ScopeStays DEF EvalTypes
  <2>3. Recorded'
    BY <1>2, <1>4, <2>1 DEF Recorded, Standing
  <2> QED
    BY <1>3, <2>2, <2>3 DEF EvalInv
<1> QED
  BY <1>5, <1>6, <1>7

\* A step of another study leaves the baselines and the records alone.
LEMMA EvalHolds == EvalInv /\ UNCHANGED evalVars => EvalInv'
<1> SUFFICES ASSUME EvalInv, UNCHANGED evalVars PROVE EvalInv'
  OBVIOUS
<1>1. UNCHANGED <<scope, prompt, cases, base, lock, history, runs, measured, forged, arm,
                  version, record, archive, pending>>
  BY DEF evalVars
<1>2. EvalTypes'
  BY <1>1, ScopeStays DEF EvalInv, EvalTypes
<1>3. Working' /\ Aged' /\ Locked'
  BY <1>1, ArmStays
<1>4. Recorded'
  BY <1>1, RecordedStays DEF EvalInv
<1> QED
  BY <1>2, <1>3, <1>4 DEF EvalInv

\* Every step of the studies keeps it.
LEMMA EvalStep == EvalInv /\ [MeasureNext]_measureVars => EvalInv'
<1> SUFFICES ASSUME EvalInv, [MeasureNext]_measureVars PROVE EvalInv'
  OBVIOUS
<1>1. CASE Measure
  <2>1. Eval!Move /\ scope' = scope
    BY <1>1 DEF Measure, Eval!Next
  <2>2. CASE \/ \E targets \in {Eval!Suites} \cup {{s} : s \in Eval!Suites} : Eval!Rebaseline(targets)
             \/ Eval!AllDone \/ Eval!Crash \/ Eval!Killed
             \/ (Eval!OpenRun /\ Eval!Vacuous(cases[Eval!Current]))
    BY <2>1, <2>2, ArmPauses
  <2>3. CASE Eval!OpenRun /\ ~Eval!Vacuous(cases[Eval!Current])
    BY <2>1, <2>3, ArmOpens
  <2>4. CASE Eval!FirstCall \/ \E good \in BOOLEAN : Eval!Finish(good)
    BY <2>1, <2>4, ArmCalls, ArmFinishes
  <2>5. CASE Eval!AppendHistory \/ Eval!WriteBaseline \/ Eval!WriteLock \/ Eval!CloseLoop
    BY <2>1, <2>5, ArmAppends, ArmReplaces, ArmLocks, ArmCloses
  <2>6. CASE Eval!EditPrompt \/ \E s \in Eval!Suites : Eval!EditCases(s) \/ Eval!HandEdit(s)
    BY <2>1, <2>6, FilesMove, HandEdits
  <2>7. CASE \E holds \in BOOLEAN, slice \in Eval!Slices, overrides \in SUBSET {2, 3} :
                Eval!Judge(holds, slice.cost, slice.recall, overrides)
    BY <2>1, <2>7, RecordsJudged
  <2>8. CASE Eval!ArchiveRecord \/ Eval!WriteRecord \/ Eval!EvalDies \/ Eval!Commit
    BY <2>1, <2>8, RecordsMove
  <2> QED
    BY <2>1, <2>2, <2>3, <2>4, <2>5, <2>6, <2>7, <2>8 DEF Eval!Move
<1>2. CASE ~Measure
  <2>1. UNCHANGED evalVars
    BY <1>2 DEF MeasureNext, measureVars, Convert, Draft, Search
  <2> QED
    BY <2>1, EvalHolds
<1> QED
  BY <1>1, <1>2

\* A number that replaces another has the other in the history.
LEMMA BaselineKept ==
    ASSUME EvalInv, Eval!Move, NEW s \in Eval!Suites, base[s] # Nil, base'[s] # Nil,
           base'[s].run # base[s].run
    PROVE  base[s] \in history
<1>1. EvalTypes
  BY DEF EvalInv
<1>2. base' # base
  OBVIOUS
<1>3. CASE Eval!WriteBaseline
  <2>1. arm.pc = "write" /\ base' = [base EXCEPT ![Eval!Current] = arm.report]
    BY <1>3 DEF Eval!WriteBaseline
  <2>2. base[Eval!Current] \in history \cup {Nil}
    BY <2>1 DEF EvalInv, Working
  <2>3. s = Eval!Current
    BY <1>1, <2>1 DEF EvalTypes
  <2> QED
    BY <2>2, <2>3
<1>4. CASE Eval!CloseLoop
  <2>1. base' = base \/ base' = [base EXCEPT ![Eval!Current] = Nil]
    BY <1>4 DEF Eval!CloseLoop
  <2> QED
    BY <1>1, <1>2, <2>1 DEF EvalTypes
<1>5. CASE \E t \in Eval!Suites : Eval!HandEdit(t)
  <2>1. PICK t \in Eval!Suites : base' = [base EXCEPT ![t].good = ~@]
    BY <1>2, <1>5 DEF Eval!HandEdit
  <2>2. base[s] \in Eval!Baselines
    BY <1>1 DEF EvalTypes
  <2>3. base'[s].run = base[s].run
    BY <1>1, <2>1, <2>2 DEF EvalTypes, Eval!Baselines
  <2> QED
    BY <2>3
<1>6. CASE ~(Eval!WriteBaseline \/ Eval!CloseLoop \/ \E t \in Eval!Suites : Eval!HandEdit(t))
  BY <1>2, <1>6 DEF Eval!Move, Eval!Rebaseline, Eval!OpenRun, Eval!AllDone, Eval!FirstCall, Eval!Finish,
     Eval!Crash, Eval!Killed, Eval!AppendHistory, Eval!WriteLock, Eval!EditPrompt, Eval!EditCases,
     Eval!Judge, Eval!ArchiveRecord, Eval!WriteRecord, Eval!EvalDies, Eval!Commit, Eval!files
<1> QED
  BY <1>3, <1>4, <1>5, <1>6

\* A record that replaces another has the other in the archive.
LEMMA RecordKept ==
    ASSUME EvalInv, Eval!Move, NEW v \in DOMAIN record, record[v] # Nil, record'[v] # record[v]
    PROVE  record[v] \in archive
<1>1. CASE Eval!WriteRecord
  <2>1. pending.pc = "write" /\ record' = [record EXCEPT ![pending.rec.version] = pending.rec]
    BY <1>1 DEF Eval!WriteRecord
  <2>2. record[pending.rec.version] \in archive \cup {Nil}
    BY <2>1 DEF EvalInv, Recorded
  <2>3. v = pending.rec.version
    BY <2>1 DEF EvalInv, EvalTypes
  <2> QED
    BY <2>2, <2>3
<1>2. CASE ~Eval!WriteRecord
  <2>1. record' = record
    BY <1>2 DEF Eval!Move, Eval!Rebaseline, Eval!OpenRun, Eval!AllDone, Eval!FirstCall, Eval!Finish,
       Eval!Crash, Eval!Killed, Eval!AppendHistory, Eval!WriteBaseline, Eval!WriteLock, Eval!CloseLoop,
       Eval!EditPrompt, Eval!EditCases, Eval!HandEdit, Eval!Judge, Eval!ArchiveRecord, Eval!EvalDies,
       Eval!Commit, Eval!releaseVars
  <2> QED
    BY <2>1
<1> QED
  BY <1>1, <1>2

\* A lane passes only on what a completed run measured over the cases on disk, a release
\* record that passes stands on a good measure of every suite, and no baseline and no
\* record is replaced before it is archived, wherever an earlier invocation died
\* (cases.py:118-131, run.py:87-92, rebaseline.py:191-195, release.py:246-278).
THEOREM NothingIsLostUnarchived == Measures => ReplacedIsArchived
<1> DEFINE moves == <<scope, <<prompt, cases, base, lock, history>>, <<runs, measured, arm>>, forged,
                      <<version, record, archive, pending>>>>
           replaced == \A s \in Eval!Suites :
                          base[s] # Nil /\ base'[s] # Nil /\ base'[s].run # base[s].run => base[s] \in history
           kept == \A v \in DOMAIN record :
                      record[v] # Nil /\ record'[v] # record[v] => record[v] \in archive
           sound == Eval!TypeOK /\ Eval!PassNeedsMeasure /\ Eval!ReleaseStandsOnMeasures
<1>1. MeasureInit => EvalInv
  BY EvalInit
<1>2. EvalInv /\ [MeasureNext]_measureVars => EvalInv'
  BY EvalStep
<1>3. EvalInv => sound
  <2> SUFFICES ASSUME EvalInv PROVE sound
    OBVIOUS
  <2>1. EvalTypes
    BY DEF EvalInv
  <2>2. Eval!TypeOK
    <3>1. runs \in UNION {[1..n -> {"open", "completed", "failed"}] : n \in 0..Eval!MaxRuns}
      <4>1. Eval!MaxRuns \in Nat /\ Len(runs) \in Nat /\ Len(runs) <= Eval!MaxRuns
        BY <2>1, RunsCounted, ScopeTyped DEF EvalTypes
      <4>2. Len(runs) \in 0..Eval!MaxRuns
        BY <4>1
      <4>3. runs \in [1..Len(runs) -> {"open", "completed", "failed"}]
        BY <2>1, LenProperties DEF EvalTypes
      <4> QED
        BY <4>2, <4>3
    <3>2. arm.pc \in ArmPhases /\ arm.todo \subseteq Eval!Suites /\ arm.report \in Eval!Baselines \cup {Nil}
      BY <2>1 DEF EvalTypes, Arms
    <3>3. pending.pc \in {"idle", "archive", "write"}
      BY <2>1 DEF EvalTypes, Pendings
    <3> QED
      BY <2>1, <3>1, <3>2, <3>3 DEF EvalTypes, Eval!TypeOK, ArmPhases, Locks
  <2>3. Eval!PassNeedsMeasure
    BY PassIsMeasured
  <2>4. Eval!ReleaseStandsOnMeasures
    BY DEF EvalInv, Recorded, Standing, Eval!ReleaseStandsOnMeasures
  <2> QED
    BY <2>2, <2>3, <2>4
<1>4. EvalInv /\ [MeasureNext]_measureVars => [replaced /\ kept]_moves
  <2> SUFFICES ASSUME EvalInv, [MeasureNext]_measureVars, ~UNCHANGED moves PROVE replaced /\ kept
    OBVIOUS
  <2>1. Eval!Move
    BY DEF MeasureNext, Measure, Convert, Draft, Search, measureVars, evalVars, Eval!Next
  <2> QED
    BY <2>1, BaselineKept, RecordKept
<1>5. [replaced /\ kept]_moves => [replaced]_moves /\ [kept]_moves
  OBVIOUS
<1> QED
  BY <1>1, <1>2, <1>3, <1>4, <1>5, PTL DEF Measures, ReplacedIsArchived, Eval!ReplacedIsArchived,
     Eval!RecordsKept, Eval!vars, Eval!files, Eval!armVars, Eval!releaseVars
=============================================================================
