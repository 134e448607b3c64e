--------------------------- MODULE PlanLaneProofs ---------------------------
(***************************************************************************)
(* Proofs about PlanLane, for every value of its constants.                *)
(***************************************************************************)
EXTENDS PlanLane, TLAPS

USE NoneAssumption, BoundAssumption

\* The absent files are well typed.
LEMMA AbsentTyped ==
    /\ NoPlan \in Plan
    /\ NoProse \in Prose
    /\ NoText \in [Sections -> Prose]
    /\ NoDraft \in Draft
    /\ NoAnnotated \in Annotated /\ NoAnnotated \in ValCkpt
    /\ NoPathCkpt \in PathCkpt
    /\ NoGate2 \in Gate2Ckpt
    /\ NoDraftCkpt \in DraftCkpt
    /\ NoRequest \in Request
    /\ NoArchive \in Archive
<1>1. NoPlan \in Plan
  BY DEF NoPlan, Plan
<1>2. NoProse \in Prose
  BY <1>1 DEF NoProse, Prose
<1>3. NoText \in [Sections -> Prose]
  BY <1>2 DEF NoText
<1>4. NoDraft \in Draft
  BY <1>1, <1>3 DEF NoDraft, Draft
<1>5. NoAnnotated \in Annotated /\ NoAnnotated \in ValCkpt
  BY <1>3, <1>4 DEF NoAnnotated, Annotated, ValCkpt
<1>6. NoPathCkpt \in PathCkpt
  BY DEF NoPathCkpt, PathCkpt
<1>7. NoGate2 \in Gate2Ckpt
  BY <1>1 DEF NoGate2, Gate2Ckpt
<1>8. NoDraftCkpt \in DraftCkpt
  BY <1>1, <1>3 DEF NoDraftCkpt, DraftCkpt
<1>9. NoRequest \in Request
  BY DEF NoRequest, Request
<1>10. NoArchive \in Archive
  BY <1>1, <1>4, <1>5 DEF NoArchive, Archive
<1> QED
  BY <1>1, <1>2, <1>3, <1>4, <1>5, <1>6, <1>7, <1>8, <1>9, <1>10

\* A new pursuit is well typed.
LEMMA InitTypeOK == Init => TypeOK
BY AbsentTyped DEF Init, TypeOK, PCs, GatePCs, ReplanPCs

\* The path stage and the assembly of the plan (run_planning) keep the types.
LEMMA PlanningTypeOK == TypeOK /\ Planning => TypeOK'
<1> SUFFICES ASSUME TypeOK, Planning PROVE TypeOK'
  OBVIOUS
<1>1. CASE RunPathStage
  BY <1>1, AbsentTyped DEF TypeOK, RunPathStage, PathCkpt, PCs, GatePCs, ReplanPCs, Feedback, Gate2Ckpt
<1>2. CASE AssemblePlan
  <2>1. plan' \in Plan
    BY <1>2, AbsentTyped DEF TypeOK, AssemblePlan, PathCkpt, Plan, NoPlan
  <2> QED
    BY <2>1, <1>2 DEF TypeOK, AssemblePlan, PCs, GatePCs, ReplanPCs
<1> QED
  BY <1>1, <1>2 DEF Planning

\* A Gate 2 decision, its stamp or its refusal, keeps the types (approve_gate2).
LEMMA DecideTypeOK == TypeOK /\ Decide => TypeOK'
<1> SUFFICES ASSUME TypeOK, Decide PROVE TypeOK'
  OBVIOUS
<1>1. CASE \E k \in Keys, t \in Clocks : Approve(k, t)
  <2>1. PICK k \in Keys, t \in Clocks : Approve(k, t)
    BY <1>1
  <2>2. plan' \in Plan
    BY <2>1 DEF TypeOK, Approve, Plan
  <2>3. request' \in Request /\ request'.decision = "approved"
    BY <2>1, AbsentTyped DEF Approve, Request
  <2> QED
    BY <2>1, <2>2, <2>3 DEF TypeOK, Approve, PCs, GatePCs, ReplanPCs
<1>2. CASE \E k \in Keys : Reject(k)
  <2>1. PICK k \in Keys : Reject(k)
    BY <1>2
  <2>2. plan' \in Plan
    BY <2>1 DEF TypeOK, Reject, Plan
  <2>3. request' \in Request /\ request'.decision = "rejected"
    BY <2>1, AbsentTyped DEF Reject, Request
  <2>4. redos' \in 0..MaxRedos
    BY <2>1 DEF TypeOK, Reject
  <2> QED
    BY <2>1, <2>2, <2>3, <2>4 DEF TypeOK, Reject, PCs, GatePCs, ReplanPCs
<1>3. CASE \E a \in Addenda, k \in Keys : BeginReplan(a, k)
  <2>1. PICK a \in Addenda, k \in Keys : BeginReplan(a, k)
    BY <1>3
  <2>2. plan' \in Plan
    BY <2>1 DEF TypeOK, BeginReplan, Plan
  <2>3. request' \in Request /\ request'.addendum \in Addenda
    BY <2>1 DEF BeginReplan, Request
  <2>4. redos' \in 0..MaxRedos
    BY <2>1 DEF TypeOK, BeginReplan
  <2> QED
    BY <2>1, <2>2, <2>3, <2>4 DEF TypeOK, BeginReplan, PCs, GatePCs, ReplanPCs
<1> QED
  BY <1>1, <1>2, <1>3 DEF Decide

\* The freeze, the log line and the checkpoint of a decision keep the types.
LEMMA GateStepTypeOK == TypeOK /\ GateStep => TypeOK'
<1> SUFFICES ASSUME TypeOK, GateStep PROVE TypeOK'
  OBVIOUS
<1>1. CASE Freeze
  BY <1>1, AbsentTyped DEF TypeOK, Freeze, PCs, GatePCs, ReplanPCs
<1>2. CASE GateLine
  BY <1>2 DEF TypeOK, GateLine, files, Request, PCs, GatePCs, ReplanPCs
<1>3. CASE ClearPath
  BY <1>3, AbsentTyped DEF TypeOK, ClearPath, PCs, GatePCs, ReplanPCs
<1>4. CASE GateCheckpoint
  <2>1. gate2' \in Gate2Ckpt
    BY <1>4, AbsentTyped DEF TypeOK, GateCheckpoint, Gate2Ckpt, Request, GatePCs
  <2> QED
    BY <2>1, <1>4, AbsentTyped DEF TypeOK, GateCheckpoint, PCs, GatePCs, ReplanPCs
<1> QED
  BY <1>1, <1>2, <1>3, <1>4 DEF GateStep

\* Drafting, its checkpoint and its envelope keep the types (run_drafting).
LEMMA DraftingTypeOK == TypeOK /\ Drafting => TypeOK'
<1> SUFFICES ASSUME TypeOK, Drafting PROVE TypeOK'
  OBVIOUS
<1>1. CASE BeginDrafting
  <2>1. ResumedText \in [Sections -> Prose]
    BY AbsentTyped DEF TypeOK, ResumedText, DraftCkpt
  <2>2. draft' \in Draft
    BY <1>1, <2>1 DEF TypeOK, BeginDrafting, Draft
  <2>3. plan' \in Plan
    BY <1>1 DEF TypeOK, BeginDrafting, Plan
  <2> QED
    BY <1>1, <2>1, <2>2, <2>3 DEF TypeOK, BeginDrafting, PCs, GatePCs, ReplanPCs
<1>2. CASE \E s \in Sections : DraftSection(s)
  BY <1>2 DEF TypeOK, DraftSection, DraftCkpt, Prose, PCs, GatePCs, ReplanPCs
<1>3. CASE FinishDrafting
  BY <1>3, AbsentTyped DEF TypeOK, FinishDrafting, DraftCkpt, Draft, PCs, GatePCs, ReplanPCs
<1> QED
  BY <1>1, <1>2, <1>3 DEF Drafting

\* Validation and the annotated draft keep the types (run_validation).
LEMMA ValidationTypeOK == TypeOK /\ Validation => TypeOK'
<1> SUFFICES ASSUME TypeOK, Validation PROVE TypeOK'
  OBVIOUS
<1>1. CASE BeginValidation
  BY <1>1, AbsentTyped DEF TypeOK, BeginValidation, files, ValCkpt, PCs, GatePCs, ReplanPCs
<1>2. CASE \E s \in Sections : ValidateSection(s)
  BY <1>2 DEF TypeOK, ValidateSection, ValCkpt, Draft, PCs, GatePCs, ReplanPCs
<1>3. CASE FinishValidation
  BY <1>3, AbsentTyped DEF TypeOK, FinishValidation, ValCkpt, Annotated, PCs, GatePCs, ReplanPCs
<1> QED
  BY <1>1, <1>2, <1>3 DEF Validation

\* A revision and the rebuild of the annotated draft keep the types.
LEMMA RoundTypeOK == TypeOK /\ Round => TypeOK'
<1> SUFFICES ASSUME TypeOK, Round PROVE TypeOK'
  OBVIOUS
<1>1. CASE \E revised \in SUBSET Sections \ {{}} : CommitRound(revised)
  <2>1. PICK revised \in SUBSET Sections : CommitRound(revised)
    BY <1>1
  <2>2. draft.rev \in 0..MaxRev /\ draft.rev + 1 \in 0..MaxRev
    BY <2>1 DEF TypeOK, CommitRound, Draft
  <2>3. draft.text \in [Sections -> Prose]
    BY DEF TypeOK, Draft
  <2>4. draft' \in Draft
    BY <2>1, <2>2, <2>3 DEF TypeOK, CommitRound, Draft, Prose
  <2> QED
    BY <2>1, <2>4 DEF TypeOK, CommitRound, PCs, GatePCs, ReplanPCs
<1>2. CASE RebuildAnnotated
  BY <1>2 DEF TypeOK, RebuildAnnotated, Annotated, Draft, PCs, GatePCs, ReplanPCs
<1> QED
  BY <1>1, <1>2 DEF Round

\* The writes of an addendum replan keep the types (AddendumLane.decide).
LEMMA ReplanStepTypeOK == TypeOK /\ ReplanStep => TypeOK'
<1> SUFFICES ASSUME TypeOK, ReplanStep PROVE TypeOK'
  OBVIOUS
<1>1. CASE ArchiveFrozen
  <2>1. archive' \in [Addenda -> Archive]
    BY <1>1 DEF TypeOK, ArchiveFrozen, Archive
  <2> QED
    BY <2>1, <1>1, AbsentTyped DEF TypeOK, ArchiveFrozen, PCs, GatePCs, ReplanPCs
<1>2. CASE ClearPlanCkpts
  BY <1>2, AbsentTyped DEF TypeOK, ClearPlanCkpts, PCs, GatePCs, ReplanPCs
<1>3. CASE ClearDraftCkpts
  BY <1>3, AbsentTyped DEF TypeOK, ClearDraftCkpts, PCs, GatePCs, ReplanPCs
<1>4. CASE ArchiveDraft
  <2>1. archive' \in [Addenda -> Archive]
    BY <1>4 DEF TypeOK, ArchiveDraft, Archive
  <2> QED
    BY <2>1, <1>4, AbsentTyped DEF TypeOK, ArchiveDraft, PCs, GatePCs, ReplanPCs
<1>5. CASE ArchiveAnnotated
  <2>1. archive' \in [Addenda -> Archive]
    BY <1>5 DEF TypeOK, ArchiveAnnotated, Archive
  <2> QED
    BY <2>1, <1>5, AbsentTyped DEF TypeOK, ArchiveAnnotated, PCs, GatePCs, ReplanPCs
<1>6. CASE ReplanCheckpoint
  BY <1>6, AbsentTyped DEF TypeOK, ReplanCheckpoint, Gate2Ckpt, Request, PCs, GatePCs, ReplanPCs
<1>7. CASE ReplanMeta
  <2>1. decided' \subseteq Addenda
    BY <1>7 DEF TypeOK, ReplanMeta, ReplanPCs
  <2> QED
    BY <2>1, <1>7, AbsentTyped DEF TypeOK, ReplanMeta, PCs, GatePCs, ReplanPCs
<1> QED
  BY <1>1, <1>2, <1>3, <1>4, <1>5, <1>6, <1>7 DEF ReplanStep

\* Every step of the lane keeps the types.
LEMMA NextTypeOK == TypeOK /\ [Next]_vars => TypeOK'
<1> SUFFICES ASSUME TypeOK, [Next]_vars PROVE TypeOK'
  OBVIOUS
<1>1. CASE AnswerGap
  BY <1>1 DEF TypeOK, AnswerGap, Plan
<1>2. CASE Crash
  BY <1>2, AbsentTyped DEF TypeOK, Crash, files, PCs, GatePCs, ReplanPCs
<1>3. CASE UNCHANGED vars
  BY <1>3 DEF TypeOK, vars
<1> QED
  BY <1>1, <1>2, <1>3, PlanningTypeOK, DecideTypeOK, GateStepTypeOK, DraftingTypeOK,
     ValidationTypeOK, RoundTypeOK, ReplanStepTypeOK DEF Next

\* Type correctness: whatever interleaving of decisions, runs, replans and
\* crashes happens, every file of the lane has the shape its schema names.
THEOREM TypeCorrect == Spec => []TypeOK
<1> QED
  BY InitTypeOK, NextTypeOK, PTL DEF Spec

-----------------------------------------------------------------------------
(* The export door: LaneBound is inductive relative to TypeOK.              *)

\* With no file on disk nothing is bound to the wrong one.
LEMMA InitLaneBound == Init => LaneBound
<1> SUFFICES ASSUME Init PROVE LaneBound
  OBVIOUS
<1>1. pc = "idle" /\ draft.status = "absent" /\ annotated = NoAnnotated
  BY DEF Init, NoDraft
<1>2. \A s \in Sections : draftCkpt.text[s] = NoProse /\ valCkpt.verdicts[s] = NoProse
  BY DEF Init, NoDraftCkpt, NoAnnotated, NoText
<1>3. SoundResponse(annotated)
  BY <1>1 DEF SoundResponse, NoAnnotated, NoDraft, NoText, NoProse
<1> QED
  BY <1>1, <1>2, <1>3 DEF LaneBound, DraftBound, ValidationBound, RoundBound, BoundText,
                          BoundVerdicts

\* The steps that write none of the bound files keep every binding.
LEMMA UnboundStep ==
    ASSUME LaneBound, pc' \notin {"drafting", "validating", "round_annotate"},
           UNCHANGED <<draftCkpt, valCkpt, draft, annotated>>
    PROVE  LaneBound'
BY DEF LaneBound, DraftBound, ValidationBound, RoundBound, BoundText, BoundVerdicts,
       SoundResponse

\* Drafting starts from prose of the live freeze only, and adds such prose only.
LEMMA DraftingLaneBound == TypeOK /\ LaneBound /\ Drafting => LaneBound'
<1> SUFFICES ASSUME TypeOK, LaneBound, Drafting PROVE LaneBound'
  OBVIOUS
<1>1. CASE BeginDrafting
  <2>1. BoundText(ResumedText, frozen)
    BY DEF LaneBound, DraftBound, BoundText, ResumedText, NoText
  <2>2. /\ UNCHANGED <<frozen, draftCkpt, valCkpt, annotated>>
        /\ work' = ResumedText
        /\ draft'.status = "in_progress"
        /\ pc' = "drafting"
    BY <1>1 DEF BeginDrafting
  <2>3. DraftBound'
    BY <2>1, <2>2 DEF LaneBound, DraftBound, BoundText
  <2> QED
    BY <2>2, <2>3 DEF LaneBound, ValidationBound, RoundBound, BoundVerdicts, SoundResponse
<1>2. CASE \E s \in Sections : DraftSection(s)
  <2>1. PICK s \in Sections : DraftSection(s)
    BY <1>2
  <2>2. BoundText(work', frozen)
    BY <2>1 DEF DraftSection, LaneBound, DraftBound, BoundText, TypeOK
  <2>3. /\ UNCHANGED <<frozen, valCkpt, draft, annotated, pc>>
        /\ draftCkpt'.plan = frozen /\ draftCkpt'.text = work'
        /\ pc = "drafting"
    BY <2>1 DEF DraftSection
  <2>4. DraftBound'
    BY <2>2, <2>3 DEF LaneBound, DraftBound, BoundText
  <2> QED
    BY <2>3, <2>4 DEF LaneBound, ValidationBound, RoundBound, BoundVerdicts, SoundResponse
<1>3. CASE FinishDrafting
  <2>1. /\ UNCHANGED <<frozen, valCkpt, annotated>>
        /\ draftCkpt'.plan = frozen /\ draftCkpt'.text = work
        /\ draft'.plan = frozen /\ draft'.text = work
        /\ pc = "drafting" /\ pc' = "idle"
    BY <1>3 DEF FinishDrafting
  <2>2. \A s \in Sections : work[s].plan = frozen
    BY <1>3, <2>1 DEF FinishDrafting, LaneBound, DraftBound, BoundText
  <2>3. DraftBound'
    BY <2>1, <2>2 DEF LaneBound, DraftBound, BoundText
  <2> QED
    BY <2>1, <2>3 DEF LaneBound, ValidationBound, RoundBound, BoundVerdicts, SoundResponse
<1> QED
  BY <1>1, <1>2, <1>3 DEF Drafting

\* Validation starts from verdicts of the live envelope only, and adds such only.
LEMMA ValidationLaneBound == TypeOK /\ LaneBound /\ Validation => LaneBound'
<1> SUFFICES ASSUME TypeOK, LaneBound, Validation PROVE LaneBound'
  OBVIOUS
<1>1. CASE BeginValidation
  <2>1. BoundVerdicts(work', draft.text)
    BY <1>1 DEF BeginValidation, LaneBound, ValidationBound, BoundVerdicts, NoText
  <2>2. /\ UNCHANGED <<frozen, draftCkpt, valCkpt, draft, annotated>>
        /\ draft.status = "complete"
        /\ pc' = "validating"
    BY <1>1 DEF BeginValidation, files
  <2> QED
    BY <2>1, <2>2 DEF LaneBound, DraftBound, ValidationBound, RoundBound, BoundText,
                      BoundVerdicts, SoundResponse
<1>2. CASE \E s \in Sections : ValidateSection(s)
  <2>1. PICK s \in Sections : ValidateSection(s)
    BY <1>2
  <2>2. BoundVerdicts(work', draft.text)
    BY <2>1 DEF ValidateSection, LaneBound, ValidationBound, BoundVerdicts, TypeOK
  <2>3. /\ UNCHANGED <<frozen, draftCkpt, draft, annotated, pc>>
        /\ valCkpt'.draft = draft /\ valCkpt'.verdicts = work'
        /\ pc = "validating"
    BY <2>1 DEF ValidateSection
  <2> QED
    BY <2>2, <2>3 DEF LaneBound, DraftBound, ValidationBound, RoundBound, BoundText,
                      BoundVerdicts, SoundResponse
<1>3. CASE FinishValidation
  <2>1. /\ UNCHANGED <<frozen, draftCkpt, draft>>
        /\ valCkpt'.draft = draft /\ valCkpt'.verdicts = work
        /\ annotated'.draft = draft /\ annotated'.verdicts = work
        /\ pc = "validating" /\ pc' = "idle"
    BY <1>3 DEF FinishValidation
  <2>2. \A s \in Sections : work[s] = draft.text[s]
    BY <1>3, <2>1 DEF FinishValidation, LaneBound, ValidationBound, BoundVerdicts
  <2>3. draft.status = "complete" /\ \A s \in Sections : draft.text[s].plan = draft.plan
    BY <2>1 DEF LaneBound, ValidationBound, DraftBound
  <2> QED
    BY <2>1, <2>2, <2>3 DEF LaneBound, DraftBound, ValidationBound, RoundBound, BoundText,
                            BoundVerdicts, SoundResponse
<1> QED
  BY <1>1, <1>2, <1>3 DEF Validation

\* A revision moves some sections of a complete envelope and annotates it anew.
LEMMA RoundLaneBound == TypeOK /\ LaneBound /\ Round => LaneBound'
<1> SUFFICES ASSUME TypeOK, LaneBound, Round PROVE LaneBound'
  OBVIOUS
<1>1. CASE \E revised \in SUBSET Sections \ {{}} : CommitRound(revised)
  <2>1. PICK revised \in SUBSET Sections : CommitRound(revised)
    BY <1>1
  <2>2. /\ draft \in Draft /\ draft.text \in [Sections -> Prose]
        /\ annotated # NoAnnotated /\ annotated.draft = draft
    BY <2>1 DEF CommitRound, TypeOK, Draft
  <2>3. /\ draft'.status = draft.status /\ draft'.plan = draft.plan
        /\ draft'.rev = draft.rev + 1
        /\ \A s \in Sections : /\ draft'.text[s].plan = draft.text[s].plan
                               /\ \/ draft'.text[s].rev = draft.rev + 1
                                  \/ draft'.text[s] = draft.text[s]
        /\ UNCHANGED <<frozen, draftCkpt, valCkpt, annotated, work>>
        /\ pc' = "round_annotate"
    BY <2>1, <2>2 DEF CommitRound, Draft, Prose
  <2>4. draft.status = "complete"
    BY <2>2 DEF LaneBound, RoundBound
  <2>5. DraftBound'
    BY <2>3, <2>4 DEF LaneBound, DraftBound, BoundText
  <2>6. RoundBound'
    BY <2>2, <2>3, <2>4 DEF LaneBound, RoundBound
  <2> QED
    BY <2>3, <2>5, <2>6 DEF LaneBound, ValidationBound, BoundVerdicts, SoundResponse
<1>2. CASE RebuildAnnotated
  <2>1. /\ UNCHANGED <<frozen, draftCkpt, valCkpt, draft>>
        /\ annotated'.draft = draft
        /\ pc = "round_annotate" /\ pc' = "idle"
    BY <1>2 DEF RebuildAnnotated
  <2>2. \A s \in Sections : annotated.verdicts[s] = annotated.draft.text[s]
    BY DEF LaneBound, SoundResponse
  <2>3. \A s \in Sections : annotated'.verdicts[s] = draft.text[s]
    BY <1>2, <2>1, <2>2 DEF RebuildAnnotated, LaneBound, RoundBound
  <2>4. draft.status = "complete" /\ \A s \in Sections : draft.text[s].plan = draft.plan
    BY <2>1 DEF LaneBound, RoundBound, DraftBound
  <2> QED
    BY <2>1, <2>3, <2>4 DEF LaneBound, DraftBound, ValidationBound, RoundBound, BoundText,
                            BoundVerdicts, SoundResponse
<1> QED
  BY <1>1, <1>2 DEF Round

\* An addendum replan takes whole files away and never mixes two.
LEMMA ReplanStepLaneBound == LaneBound /\ ReplanStep => LaneBound'
<1> SUFFICES ASSUME LaneBound, ReplanStep PROVE LaneBound'
  OBVIOUS
<1>1. CASE ArchiveFrozen \/ ClearPlanCkpts \/ ReplanCheckpoint \/ ReplanMeta
  BY <1>1, UnboundStep DEF ArchiveFrozen, ClearPlanCkpts, ReplanCheckpoint, ReplanMeta
<1>2. CASE ClearDraftCkpts
  <2>1. /\ UNCHANGED <<frozen, draft, annotated>>
        /\ pc' = "archive_draft"
        /\ \A s \in Sections : draftCkpt'.text[s] = NoProse /\ valCkpt'.verdicts[s] = NoProse
    BY <1>2 DEF ClearDraftCkpts, NoDraftCkpt, NoAnnotated, NoText
  <2> QED
    BY <2>1 DEF LaneBound, DraftBound, ValidationBound, RoundBound, BoundText, BoundVerdicts,
                SoundResponse
<1>3. CASE ArchiveDraft
  <2>1. /\ UNCHANGED <<frozen, draftCkpt, valCkpt, annotated>>
        /\ draft'.status = "absent"
        /\ pc' = "archive_annotated"
    BY <1>3 DEF ArchiveDraft, NoDraft
  <2> QED
    BY <2>1 DEF LaneBound, DraftBound, ValidationBound, RoundBound, BoundText, BoundVerdicts,
                SoundResponse
<1>4. CASE ArchiveAnnotated
  <2>1. /\ UNCHANGED <<frozen, draftCkpt, valCkpt, draft>>
        /\ annotated' = NoAnnotated
        /\ pc' = "replan_ckpt"
    BY <1>4 DEF ArchiveAnnotated
  <2>2. SoundResponse(NoAnnotated)
    BY DEF SoundResponse, NoAnnotated, NoDraft, NoText, NoProse
  <2> QED
    BY <2>1, <2>2 DEF LaneBound, DraftBound, ValidationBound, RoundBound, BoundText,
                      BoundVerdicts, SoundResponse
<1> QED
  BY <1>1, <1>2, <1>3, <1>4 DEF ReplanStep

\* LaneBound is inductive relative to TypeOK.
LEMMA NextLaneBound == TypeOK /\ LaneBound /\ [Next]_vars => LaneBound'
<1> SUFFICES ASSUME TypeOK, LaneBound, [Next]_vars PROVE LaneBound'
  OBVIOUS
<1>1. CASE Planning \/ AnswerGap \/ Decide \/ GateStep \/ Crash
  <2>1. pc' \notin {"drafting", "validating", "round_annotate"}
    BY <1>1 DEF Planning, RunPathStage, AssemblePlan, AnswerGap, Decide, Approve, Reject,
       BeginReplan, GateStep, Freeze, GateLine, ClearPath, GateCheckpoint, Crash
  <2>2. UNCHANGED <<draftCkpt, valCkpt, draft, annotated>>
    BY <1>1 DEF Planning, RunPathStage, AssemblePlan, AnswerGap, Decide, Approve, Reject,
       BeginReplan, GateStep, Freeze, GateLine, ClearPath, GateCheckpoint, Crash, files
  <2> QED
    BY <2>1, <2>2, UnboundStep
<1>2. CASE UNCHANGED vars
  BY <1>2 DEF vars, LaneBound, DraftBound, ValidationBound, RoundBound, BoundText,
              BoundVerdicts, SoundResponse
<1> QED
  BY <1>1, <1>2, DraftingLaneBound, ValidationLaneBound, RoundLaneBound, ReplanStepLaneBound
     DEF Next

\* The bindings hold in every reachable state.
THEOREM LaneIsBound == Spec => []LaneBound
<1> QED
  BY TypeCorrect, InitLaneBound, NextLaneBound, PTL DEF Spec

\* The export door: whatever assert_current lets out was drafted, section by
\* section, from the freeze Gate 2 vouches for, and validated as it stands -
\* for any number of sections, rounds, addenda and crashes.
THEOREM ExportIsSound == Spec => []ExportSound
<1>1. LaneBound => ExportSound
  BY DEF LaneBound, RoundBound, ExportSound, Exportable
<1> QED
  BY <1>1, LaneIsBound, PTL

-----------------------------------------------------------------------------
(* The gate record                                                         *)

\* What the running gate decision has stamped so far, and what the record
\* that vouches for a freeze says of it.
GateBound ==
    /\ pc = "freeze" => plan.key = request.key /\ request.decision = "approved"
    /\ pc \in {"gate_line", "gate_ckpt"} /\ request.decision = "approved"
         => frozen.key = request.key
    /\ pc = "clear_path" => request.decision = "rejected"
    /\ gate2.frozenSha # NoPlan => gate2.decision = "approved" /\ gate2.key = gate2.frozenSha.key

\* GateBound is inductive relative to TypeOK.
LEMMA NextGateBound == TypeOK /\ GateBound /\ [Next]_vars => GateBound'
<1> SUFFICES ASSUME TypeOK, GateBound, [Next]_vars PROVE GateBound'
  OBVIOUS
<1>1. CASE \E k \in Keys, t \in Clocks : Approve(k, t)
  <2>1. PICK k \in Keys, t \in Clocks : Approve(k, t)
    BY <1>1
  <2>2. plan'.key = k
    BY <2>1 DEF Approve, Approvable, TypeOK, Plan
  <2>3. request'.key = k /\ request'.decision = "approved"
    BY <2>1 DEF Approve, NoRequest
  <2> QED
    BY <2>1, <2>2, <2>3 DEF Approve, GateBound
<1>2. CASE \E k \in Keys : Reject(k)
  BY <1>2 DEF Reject, NoRequest, GateBound
<1>3. CASE \E a \in Addenda, k \in Keys : BeginReplan(a, k)
  BY <1>3 DEF BeginReplan, GateBound
<1>4. CASE Freeze
  <2>1. plan.key = request.key /\ request.decision = "approved" /\ UNCHANGED gate2
    BY <1>4 DEF Freeze, GateBound
  <2>2. CASE pc' = "idle"
    BY <2>1, <2>2, <1>4 DEF Freeze, GateBound
  <2>3. CASE frozen' = plan /\ pc' = "gate_line" /\ UNCHANGED request
    BY <2>1, <2>3 DEF GateBound
  <2> QED
    BY <2>2, <2>3, <1>4 DEF Freeze
<1>5. CASE GateLine \/ ClearPath
  BY <1>5 DEF GateLine, ClearPath, files, GateBound, TypeOK, GatePCs
<1>6. CASE GateCheckpoint
  <2>1. request.decision = "approved" => frozen.key = request.key
    BY <1>6 DEF GateCheckpoint, GateBound
  <2>2. /\ gate2'.decision = request.decision /\ gate2'.key = request.key
        /\ gate2'.frozenSha = IF request.decision = "approved" THEN frozen ELSE NoPlan
        /\ pc' = "idle"
    BY <1>6 DEF GateCheckpoint
  <2> QED
    BY <2>1, <2>2 DEF GateBound
<1>7. CASE Planning \/ AnswerGap \/ Drafting \/ Validation \/ Round \/ Crash
  <2>1. pc' \notin GatePCs
    BY <1>7 DEF Planning, RunPathStage, AssemblePlan, AnswerGap, Drafting, BeginDrafting,
       DraftSection, FinishDrafting, Validation, BeginValidation, ValidateSection,
       FinishValidation, Round, CommitRound, RebuildAnnotated, Crash, GatePCs
  <2>2. UNCHANGED gate2
    BY <1>7 DEF Planning, RunPathStage, AssemblePlan, AnswerGap, Drafting, BeginDrafting,
       DraftSection, FinishDrafting, Validation, BeginValidation, ValidateSection,
       FinishValidation, Round, CommitRound, RebuildAnnotated, Crash, files
  <2> QED
    BY <2>1, <2>2 DEF GateBound, GatePCs
<1>8. CASE ReplanStep
  <2>1. pc' \notin GatePCs
    BY <1>8 DEF ReplanStep, ArchiveFrozen, ClearPlanCkpts, ClearDraftCkpts, ArchiveDraft,
       ArchiveAnnotated, ReplanCheckpoint, ReplanMeta, GatePCs
  <2>2. UNCHANGED gate2 \/ gate2'.frozenSha = NoPlan
    BY <1>8 DEF ReplanStep, ArchiveFrozen, ClearPlanCkpts, ClearDraftCkpts, ArchiveDraft,
       ArchiveAnnotated, ReplanCheckpoint, ReplanMeta, NoGate2
  <2> QED
    BY <2>1, <2>2 DEF GateBound, GatePCs
<1>9. CASE UNCHANGED vars
  BY <1>9 DEF vars, GateBound
<1> QED
  BY <1>1, <1>2, <1>3, <1>4, <1>5, <1>6, <1>7, <1>8, <1>9 DEF Next, Decide, GateStep

\* The gate record that vouches for a freeze names the person and the request
\* that stamped it, whoever retried what after whichever crash.
THEOREM RecordIsTruthful == Spec => []RecordNamesApprover
<1>1. Init => GateBound
  BY DEF Init, GateBound, NoGate2
<1>2. GateBound => RecordNamesApprover
  BY DEF GateBound, RecordNamesApprover, Vouched, IsFrozen
<1> QED
  BY <1>1, <1>2, TypeCorrect, NextGateBound, PTL DEF Spec

-----------------------------------------------------------------------------
(* What a step may never do                                                *)

\* An approval stands until an addendum supersedes it.
THEOREM ApprovalIsKept == Spec => ApprovalStands
<1> DEFINE Kept == Stamped => /\ plan'.status \in {"approved", "superseded"}
                              /\ plan'.body = plan.body /\ plan'.key = plan.key
                              /\ plan'.at = plan.at
<1>1. TypeOK /\ [Next]_vars => [Kept]_vars
  <2> SUFFICES ASSUME TypeOK, Next, Stamped PROVE Kept
    BY DEF Kept
  <2>0. plan \in Plan /\ plan.status = "approved"
    BY DEF TypeOK, Stamped
  <2>1. CASE AnswerGap \/ BeginDrafting
    BY <2>0, <2>1 DEF AnswerGap, BeginDrafting, Plan
  <2>2. CASE \E a \in Addenda, k \in Keys : BeginReplan(a, k)
    BY <2>0, <2>2 DEF BeginReplan, Plan
  <2>3. CASE \E k \in Keys, t \in Clocks : Approve(k, t)
    BY <2>0, <2>3 DEF Approve
  <2>4. CASE (\E k \in Keys : Reject(k)) \/ Planning
    BY <2>0, <2>4 DEF Reject, Planning, RunPathStage, AssemblePlan, PlanningOpen
  <2>5. CASE GateStep \/ Validation \/ Round \/ Crash
    BY <2>0, <2>5 DEF GateStep, Freeze, GateLine, ClearPath, GateCheckpoint, Validation,
       BeginValidation, ValidateSection, FinishValidation, Round, CommitRound,
       RebuildAnnotated, Crash, files
  <2>6. CASE (\E s \in Sections : DraftSection(s)) \/ FinishDrafting
    BY <2>0, <2>6 DEF DraftSection, FinishDrafting
  <2>7. CASE ReplanStep
    BY <2>0, <2>7 DEF ReplanStep, ArchiveFrozen, ClearPlanCkpts, ClearDraftCkpts,
       ArchiveDraft, ArchiveAnnotated, ReplanCheckpoint, ReplanMeta
  <2> QED
    BY <2>1, <2>2, <2>3, <2>4, <2>5, <2>6, <2>7 DEF Next, Decide, Drafting
<1> QED
  BY <1>1, TypeCorrect, PTL DEF Spec, ApprovalStands

\* No step overwrites a freeze or an archived freeze: the freeze copies its own
\* bytes only (freeze_artifact) and the archive takes what it lacks.
LEMMA NextFreezeStep == TypeOK /\ Next => FreezeStep /\ ArchiveStep
<1> SUFFICES ASSUME TypeOK, Next PROVE FreezeStep /\ ArchiveStep
  OBVIOUS
<1>1. CASE Freeze
  BY <1>1 DEF Freeze, FreezeStep, ArchiveStep
<1>2. CASE ArchiveFrozen
  BY <1>2 DEF ArchiveFrozen, FreezeStep, ArchiveStep, TypeOK, Archive, IsFrozen, ReplanPCs
<1>3. CASE ArchiveDraft
  BY <1>3 DEF ArchiveDraft, FreezeStep, ArchiveStep, TypeOK, Archive
<1>4. CASE ArchiveAnnotated
  BY <1>4 DEF ArchiveAnnotated, FreezeStep, ArchiveStep, TypeOK, Archive
<1>5. CASE UNCHANGED <<frozen, archive>>
  BY <1>5 DEF FreezeStep, ArchiveStep
<1>6. CASE Planning \/ AnswerGap \/ Decide \/ Drafting \/ Validation \/ Round \/ Crash
  BY <1>5, <1>6 DEF Planning, RunPathStage, AssemblePlan, AnswerGap, Decide, Approve, Reject,
     BeginReplan, Drafting, BeginDrafting, DraftSection, FinishDrafting, Validation,
     BeginValidation, ValidateSection, FinishValidation, Round, CommitRound,
     RebuildAnnotated, Crash, files
<1>7. CASE GateLine \/ ClearPath \/ GateCheckpoint
  BY <1>5, <1>7 DEF GateLine, ClearPath, GateCheckpoint, files
<1>8. CASE ClearPlanCkpts \/ ClearDraftCkpts \/ ReplanCheckpoint \/ ReplanMeta
  BY <1>5, <1>8 DEF ClearPlanCkpts, ClearDraftCkpts, ReplanCheckpoint, ReplanMeta
<1> QED
  BY <1>1, <1>2, <1>3, <1>4, <1>6, <1>7, <1>8 DEF Next, GateStep, ReplanStep

\* A freeze leaves its place only by moving into an empty archive, and an
\* archived freeze is never written again.
THEOREM FreezeIsKept == Spec => FrozenIsNeverRewritten
<1>1. TypeOK /\ [Next]_vars => [FreezeStep /\ ArchiveStep]_vars
  BY NextFreezeStep
<1> QED
  BY <1>1, TypeCorrect, PTL DEF Spec, FrozenIsNeverRewritten

-----------------------------------------------------------------------------
(* What a resumed drafting stage pays for                                  *)

\* While drafting runs, its memory holds every section that the checkpoint of
\* the live freeze holds.
ResumeBound == pc = "drafting" /\ draftCkpt.plan = frozen
               => \A s \in Sections : draftCkpt.text[s] # NoProse => work[s] # NoProse

\* ResumeBound is inductive: drafting starts from the checkpoint and writes
\* the checkpoint from its memory.
LEMMA NextResumeBound == ResumeBound /\ [Next]_vars => ResumeBound'
<1> SUFFICES ASSUME ResumeBound, [Next]_vars PROVE ResumeBound'
  OBVIOUS
<1>1. CASE BeginDrafting
  BY <1>1 DEF BeginDrafting, ResumedText, ResumeBound
<1>2. CASE \E s \in Sections : DraftSection(s)
  BY <1>2 DEF DraftSection, ResumeBound
<1>3. CASE UNCHANGED vars
  BY <1>3 DEF vars, ResumeBound
<1>4. CASE \/ Planning \/ AnswerGap \/ Decide \/ GateStep \/ FinishDrafting
           \/ Validation \/ Round \/ ReplanStep \/ Crash
  <2>1. pc' # "drafting"
    BY <1>4 DEF Planning, RunPathStage, AssemblePlan, AnswerGap, Decide, Approve, Reject,
       BeginReplan, GateStep, Freeze, GateLine, ClearPath, GateCheckpoint, FinishDrafting,
       Validation, BeginValidation, ValidateSection, FinishValidation, Round, CommitRound,
       RebuildAnnotated, ReplanStep, ArchiveFrozen, ClearPlanCkpts, ClearDraftCkpts,
       ArchiveDraft, ArchiveAnnotated, ReplanCheckpoint, ReplanMeta, Crash
  <2> QED
    BY <2>1 DEF ResumeBound
<1> QED
  BY <1>1, <1>2, <1>3, <1>4 DEF Next, Drafting

\* Across crashes and resumes no section is paid for twice under one freeze.
THEOREM NothingIsPaidTwice == Spec => PaidOnce
<1> DEFINE Paid == \A s \in Sections :
                 pc = "drafting" /\ work[s] = NoProse /\ work'[s] # NoProse
                 => ~(draftCkpt.plan = frozen /\ draftCkpt.text[s] # NoProse)
<1>1. Init => ResumeBound
  BY DEF Init, ResumeBound
<1>2. ResumeBound /\ [Next]_vars => [Paid]_vars
  BY DEF ResumeBound
<1> QED
  BY <1>1, <1>2, NextResumeBound, PTL DEF Spec, PaidOnce

-----------------------------------------------------------------------------
(* The lane implements what Gate 2 promises (PlanAuthority)                *)

\* Whatever the door lets out is a sound package of the vouched freeze.
LEMMA DoorIsBound ==
    ASSUME TypeOK, LaneBound, Exportable
    PROVE  /\ Vouched
           /\ annotated \in SoundResponses
           /\ annotated.draft.plan = frozen
BY DEF TypeOK, LaneBound, Exportable, SoundResponses

\* Without a vouched freeze the door is shut.
LEMMA UnvouchedIsShut == ~Vouched => ~Exportable
BY DEF Exportable

\* The abstract state in terms of the files.
LEMMA AuthorityBound == TypeOK /\ LaneBound => Authority!Bound
<1> SUFFICES ASSUME TypeOK, LaneBound PROVE Authority!Bound
  OBVIOUS
<1> QED
  BY DoorIsBound DEF Authority!Bound, Vouched, IsFrozen

\* The state of the promise, computed from the files.
AuthorityHeld == IF Vouched THEN frozen ELSE NoPlan
ResponseOpen == IF Exportable THEN annotated ELSE NoAnnotated

\* Every step of the files is a step of the promise, or invisible to it: the
\* authority is granted, held or withdrawn and never exchanged, because a
\* freeze is never written over.
LEMMA StepImplementsAuthority ==
    TypeOK /\ LaneBound /\ TypeOK' /\ LaneBound' /\ [Next]_vars
    => [Authority!Next]_<<AuthorityHeld, ResponseOpen>>
<1> SUFFICES ASSUME TypeOK, LaneBound, TypeOK', LaneBound', [Next]_vars
             PROVE  [Authority!Next]_<<AuthorityHeld, ResponseOpen>>
  OBVIOUS
<1>1. Authority!Bound'
  BY AuthorityBound, PTL
<1>2. frozen' \in Plan
  BY DEF TypeOK
<1>3. CASE UNCHANGED vars
  BY <1>3 DEF vars, AuthorityHeld, ResponseOpen, Vouched, IsFrozen, Exportable
<1>4. CASE Next /\ ~Vouched /\ ~Vouched'
  BY <1>4 DEF Exportable, AuthorityHeld, ResponseOpen
<1>5. CASE Next /\ ~Vouched /\ Vouched'
  BY <1>1, <1>2, <1>5 DEF Authority!Next, Authority!Grant, Vouched, IsFrozen
<1>6. CASE Next /\ Vouched /\ ~Vouched'
  BY <1>6 DEF Authority!Next, Authority!Withdraw, Vouched, IsFrozen, Exportable
<1>7. CASE Next /\ Vouched /\ Vouched'
  <2>1. frozen' = frozen
    BY <1>7, NextFreezeStep DEF FreezeStep, Vouched, IsFrozen
  <2> QED
    BY <1>1, <1>7, <2>1 DEF Authority!Next, Authority!Answer, Vouched, IsFrozen
<1> QED
  BY <1>3, <1>4, <1>5, <1>6, <1>7

\* The lane of files, checkpoints and crashes implements the promise of Gate 2:
\* one authority at a time, and no package but a sound one that answers it.
THEOREM LaneImplementsAuthority == Spec => ImplementsAuthority
<1>1. Init => Authority!Init
  BY DEF Init, Authority!Init, Vouched, IsFrozen, Exportable
<1> QED
  BY <1>1, StepImplementsAuthority, TypeCorrect, LaneIsBound, PTL
     DEF Spec, ImplementsAuthority, Authority!Spec, AuthorityHeld, ResponseOpen
=============================================================================
