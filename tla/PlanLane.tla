------------------------------ MODULE PlanLane ------------------------------
(***************************************************************************)
(* The planning half of a pursuit directory: planning, the Gate 2          *)
(* decision, drafting, validation, the commit of a review round, and the   *)
(* addendum replan, as the sequences of durable writes they are.           *)
(*                                                                         *)
(* Every operation runs alone (the per-pursuit guard of the job lane), so  *)
(* at most one is under way: `pc` says which write it does next.  Crash    *)
(* stands for a killed server and for an exception between two writes: the *)
(* memory of the operation is lost and the files stay as they are.         *)
(*                                                                         *)
(* A sha256 of a file is modelled by the content of the file: two digests  *)
(* agree exactly when the bytes do.  Gate 1 has frozen the brief before    *)
(* this lane opens, so the refusals on the brief are not modelled here.    *)
(***************************************************************************)
EXTENDS Naturals, FiniteSets

CONSTANTS
    Sections,    \* the plan's sections
    Bodies,      \* what a run of the path stage may produce
    Keys,        \* (actor, request digest) pairs; of a redo, its notes
    Clocks,      \* the `at` a request arrives with
    Addenda,     \* uploaded addenda
    None,        \* absence of a body, a key, a clock, an addendum
    MaxRev,      \* bound: review rounds committed on one draft
    MaxCrashes,  \* bound: crashes in one behaviour
    GapsMove,    \* whether pings answer gaps of the live plan
    MaxRedos     \* bound: redo decisions (rejections, replans) begun

ASSUME NoneAssumption == None \notin (Bodies \cup Keys \cup Clocks \cup Addenda)
ASSUME BoundAssumption == /\ MaxRev \in Nat /\ MaxCrashes \in Nat /\ MaxRedos \in Nat
                          /\ GapsMove \in BOOLEAN

\* plan.json: its status, the sections the path stage produced, whether its
\* gaps are answered, the Gate 2 stamp (who and what, when) and whether
\* drafting has written its draft_status fields.
Plan == [status : {"absent", "gate2_pending", "draft", "approved", "superseded"},
         body : Bodies \cup {None}, gap : {"open", "answered"},
         key : Keys \cup {None}, at : Clocks \cup {None}, drafting : BOOLEAN]
NoPlan == [status |-> "absent", body |-> None, gap |-> "open",
           key |-> None, at |-> None, drafting |-> FALSE]

\* The prose of one section: the freeze it was drafted from and the round
\* that last revised it.
Prose == [plan : Plan, rev : 0..MaxRev]
NoProse == [plan |-> NoPlan, rev |-> 0]
NoText == [s \in Sections |-> NoProse]

Draft == [status : {"absent", "in_progress", "complete"}, plan : Plan,
          rev : 0..MaxRev, text : [Sections -> Prose]]
NoDraft == [status |-> "absent", plan |-> NoPlan, rev |-> 0, text |-> NoText]

\* annotated-draft.json: the envelope it binds and, per section, the prose
\* its verdicts were computed on.
Annotated == [draft : Draft, verdicts : [Sections -> Prose]]
NoAnnotated == [draft |-> NoDraft, verdicts |-> NoText]

PathCkpt == [body : Bodies \cup {None}, feedback : Keys \cup {None}]
NoPathCkpt == [body |-> None, feedback |-> None]

Gate2Ckpt == [decision : {"none", "approved", "rejected"}, key : Keys \cup {None},
              planSha : Plan, frozenSha : Plan]
NoGate2 == [decision |-> "none", key |-> None, planSha |-> NoPlan, frozenSha |-> NoPlan]

DraftCkpt == [plan : Plan, text : [Sections -> Prose]]
NoDraftCkpt == [plan |-> NoPlan, text |-> NoText]

ValCkpt == [draft : Draft, verdicts : [Sections -> Prose]]

Request == [decision : {"none", "approved", "rejected", "replan"},
            key : Keys \cup {None}, addendum : Addenda \cup {None}]
NoRequest == [decision |-> "none", key |-> None, addendum |-> None]

VARIABLES
    plan,       \* plan.json
    frozen,     \* plan.frozen.json
    pathCkpt,   \* checkpoints/path_a_map.json or path_b_outline.json
    gate2,      \* checkpoints/gate_2.json
    draftCkpt,  \* checkpoints/drafting.json
    valCkpt,    \* checkpoints/validation.json
    draft,      \* drafts/draft.json
    annotated,  \* drafts/annotated-draft.json
    archive,    \* addenda/<id>/*.superseded.json
    decided,    \* the addenda whose meta.json carries the decision
    pc,         \* the write the running operation does next, or "idle"
    request,    \* the decision the running operation carries
    work,       \* the in-memory checkpoint of drafting or validation
    redo,       \* history: notes of the last redo on the record (a rejection's
                \* gate line, a replan's checkpoint) that no approval has answered
    redos,      \* bounded count of the redos begun
    crashes     \* bounded count of the crashes

files == <<plan, frozen, pathCkpt, gate2, draftCkpt, valCkpt, draft, annotated, archive, decided>>
vars == <<plan, frozen, pathCkpt, gate2, draftCkpt, valCkpt, draft, annotated,
          archive, decided, pc, request, work, redo, redos, crashes>>

GatePCs == {"freeze", "gate_line", "clear_path", "gate_ckpt"}
ReplanPCs == {"archive_frozen", "clear_plan_ckpts", "clear_draft_ckpts", "archive_draft",
              "archive_annotated", "replan_ckpt", "replan_meta"}
PCs == {"idle", "assemble", "drafting", "validating", "round_annotate"}
       \cup GatePCs \cup ReplanPCs

Archive == [frozen : Plan, draft : Draft, annotated : Annotated]
NoArchive == [frozen |-> NoPlan, draft |-> NoDraft, annotated |-> NoAnnotated]

TypeOK ==
    /\ plan \in Plan
    /\ frozen \in Plan
    /\ pathCkpt \in PathCkpt
    /\ gate2 \in Gate2Ckpt
    /\ draftCkpt \in DraftCkpt
    /\ valCkpt \in ValCkpt
    /\ draft \in Draft
    /\ annotated \in Annotated
    /\ archive \in [Addenda -> Archive]
    /\ decided \subseteq Addenda
    /\ pc \in PCs
    /\ request \in Request
    /\ pc \in GatePCs => request.decision \in {"approved", "rejected"}
    /\ pc \in ReplanPCs => request.addendum \in Addenda
    /\ work \in [Sections -> Prose]
    /\ redo \in Keys \cup {None}
    /\ redos \in 0..MaxRedos
    /\ crashes \in 0..MaxCrashes

Init ==
    /\ plan = NoPlan
    /\ frozen = NoPlan
    /\ pathCkpt = NoPathCkpt
    /\ gate2 = NoGate2
    /\ draftCkpt = NoDraftCkpt
    /\ valCkpt = NoAnnotated
    /\ draft = NoDraft
    /\ annotated = NoAnnotated
    /\ archive = [a \in Addenda |-> NoArchive]
    /\ decided = {}
    /\ pc = "idle"
    /\ request = NoRequest
    /\ work = NoText
    /\ redo = None
    /\ redos = 0
    /\ crashes = 0

-----------------------------------------------------------------------------
(* Predicates on the files                                                 *)

IsFrozen == frozen # NoPlan

\* read_frozen succeeds: the gate record vouches for the bytes on disk.
Vouched == IsFrozen /\ gate2.frozenSha = frozen

DraftIsCurrent == draft.status = "complete" /\ draft.plan = frozen

ValidationIsCurrent ==
    /\ annotated # NoAnnotated
    /\ annotated.draft = draft
    /\ draft.plan = frozen

\* assert_current lets the response out of the building.
Exportable ==
    /\ Vouched
    /\ draft # NoDraft /\ draft.plan = frozen
    /\ annotated # NoAnnotated /\ annotated.draft = draft

-----------------------------------------------------------------------------
(* Planning: the path stage once per checkpoint, then the assembly          *)

\* Mutation: planning refuses a frozen plan only.
PlanningOpenOnStamp == ~IsFrozen

PlanningOpen == ~IsFrozen /\ plan.status # "approved"

\* The redo notes the path stage is given.
Feedback == IF gate2.decision = "rejected" THEN gate2.key ELSE None

RunPathStage ==
    /\ pc = "idle"
    /\ PlanningOpen
    /\ pathCkpt = NoPathCkpt
    /\ \E b \in Bodies : pathCkpt' = [body |-> b, feedback |-> Feedback]
    /\ pc' = "assemble"
    /\ UNCHANGED <<plan, frozen, gate2, draftCkpt, valCkpt, draft, annotated,
                   archive, decided, request, work, redo, redos, crashes>>

AssemblePlan ==
    /\ pc \in {"idle", "assemble"}
    /\ PlanningOpen
    /\ pathCkpt # NoPathCkpt
    /\ plan' = [NoPlan EXCEPT !.status = "gate2_pending", !.body = pathCkpt.body]
    /\ pc' = "idle"
    /\ UNCHANGED <<frozen, pathCkpt, gate2, draftCkpt, valCkpt, draft, annotated,
                   archive, decided, request, work, redo, redos, crashes>>

\* A ping is answered on the live plan, whatever the plan's status.
AnswerGap ==
    /\ GapsMove
    /\ pc = "idle"
    /\ plan # NoPlan
    /\ plan.gap = "open"
    /\ plan' = [plan EXCEPT !.gap = "answered"]
    /\ UNCHANGED <<frozen, pathCkpt, gate2, draftCkpt, valCkpt, draft, annotated,
                   archive, decided, pc, request, work, redo, redos, crashes>>

-----------------------------------------------------------------------------
(* Gate 2: plan -> freeze -> log -> checkpoint                             *)

\* The decision is neither converged on the checkpoint nor refused because
\* the checkpoint already holds one.
NotDecided == gate2.decision # "none" => plan.status = "gate2_pending"

Stamped == plan.status = "approved" /\ plan.key # None

\* Mutation: any approving request completes a stamp.
ApprovableByAnyone(k) == NotDecided /\ (Stamped \/ plan.status = "gate2_pending")

\* Mutation: a stamped plan is not pending, so nothing completes it.
ApprovableFresh(k) == NotDecided /\ plan.status = "gate2_pending"

\* approve_gate2 with an approving request goes through: a fresh decision,
\* or the same request completing a stamp a crash left behind.
Approvable(k) ==
    /\ NotDecided
    /\ IF Stamped THEN plan.key = k ELSE plan.status = "gate2_pending"

Approve(k, t) ==
    /\ pc = "idle"
    /\ Approvable(k)
    /\ plan' = IF Stamped THEN plan
               ELSE [plan EXCEPT !.status = "approved", !.key = k, !.at = t]
    /\ request' = [NoRequest EXCEPT !.decision = "approved", !.key = k]
    /\ pc' = "freeze"
    /\ UNCHANGED <<frozen, pathCkpt, gate2, draftCkpt, valCkpt, draft, annotated,
                   archive, decided, work, redo, redos, crashes>>

\* Mutation: the verdict is written where the status goes.
RejectAsStatus(k) ==
    /\ pc = "idle"
    /\ redos < MaxRedos
    /\ NotDecided
    /\ plan.status \in {"gate2_pending", "draft"}
    /\ plan' = [plan EXCEPT !.status = "rejected"]
    /\ request' = [NoRequest EXCEPT !.decision = "rejected", !.key = k]
    /\ pc' = "gate_line"
    /\ redos' = redos + 1
    /\ UNCHANGED <<frozen, pathCkpt, gate2, draftCkpt, valCkpt, draft, annotated,
                   archive, decided, work, redo, crashes>>

Reject(k) ==
    /\ pc = "idle"
    /\ redos < MaxRedos
    /\ NotDecided
    /\ plan.status \in {"gate2_pending", "draft"}
    /\ plan' = [plan EXCEPT !.status = "draft"]
    /\ request' = [NoRequest EXCEPT !.decision = "rejected", !.key = k]
    /\ pc' = "gate_line"
    /\ redos' = redos + 1
    /\ UNCHANGED <<frozen, pathCkpt, gate2, draftCkpt, valCkpt, draft, annotated,
                   archive, decided, work, redo, crashes>>

\* Mutation: the freeze is copied over whatever is there.
FreezeOver ==
    /\ pc = "freeze"
    /\ frozen' = plan
    /\ pc' = "gate_line"
    /\ UNCHANGED <<plan, pathCkpt, gate2, draftCkpt, valCkpt, draft, annotated,
                   archive, decided, request, work, redo, redos, crashes>>

\* freeze_artifact: the same bytes are kept, other bytes are refused.
Freeze ==
    /\ pc = "freeze"
    /\ IF IsFrozen /\ frozen # plan
       THEN pc' = "idle" /\ request' = NoRequest /\ UNCHANGED frozen
       ELSE frozen' = plan /\ pc' = "gate_line" /\ UNCHANGED request
    /\ UNCHANGED <<plan, pathCkpt, gate2, draftCkpt, valCkpt, draft, annotated,
                   archive, decided, work, redo, redos, crashes>>

\* The gate line of the run log: the decision is now on the record.
GateLine ==
    /\ pc = "gate_line"
    /\ IF request.decision = "rejected"
       THEN redo' = request.key /\ pc' = "clear_path"
       ELSE redo' = None /\ pc' = "gate_ckpt"
    /\ UNCHANGED <<files, request, work, redos, crashes>>

ClearPath ==
    /\ pc = "clear_path"
    /\ pathCkpt' = NoPathCkpt
    /\ pc' = "gate_ckpt"
    /\ UNCHANGED <<plan, frozen, gate2, draftCkpt, valCkpt, draft, annotated,
                   archive, decided, request, work, redo, redos, crashes>>

GateCheckpoint ==
    /\ pc = "gate_ckpt"
    /\ gate2' = [decision |-> request.decision, key |-> request.key, planSha |-> plan,
                 frozenSha |-> IF request.decision = "approved" THEN frozen ELSE NoPlan]
    /\ pc' = "idle"
    /\ request' = NoRequest
    /\ UNCHANGED <<plan, frozen, pathCkpt, draftCkpt, valCkpt, draft, annotated,
                   archive, decided, work, redo, redos, crashes>>

-----------------------------------------------------------------------------
(* Drafting and validation: resume what is bound, pay for the rest         *)

\* Mutation: the checkpoint is resumed whatever freeze it was built against.
ResumedTextUnbound == draftCkpt.text

\* Mutation: every run of the stage starts from nothing.
ResumedTextNever == NoText

\* The checkpoint's sections, unless it was built against another freeze.
ResumedText == IF draftCkpt.plan = frozen THEN draftCkpt.text ELSE NoText

\* Refusals, the prepass envelope and the live draft_status.
BeginDrafting ==
    /\ pc = "idle"
    /\ plan.status = "approved"
    /\ Vouched
    /\ ~DraftIsCurrent
    /\ draft' = [status |-> "in_progress", plan |-> frozen, rev |-> 0, text |-> ResumedText]
    /\ work' = ResumedText
    /\ plan' = [plan EXCEPT !.drafting = TRUE]
    /\ pc' = "drafting"
    /\ UNCHANGED <<frozen, pathCkpt, gate2, draftCkpt, valCkpt, annotated,
                   archive, decided, request, redo, redos, crashes>>

\* One model call, then the checkpoint.
DraftSection(s) ==
    /\ pc = "drafting"
    /\ work[s] = NoProse
    /\ work' = [work EXCEPT ![s] = [plan |-> frozen, rev |-> 0]]
    /\ draftCkpt' = [plan |-> frozen, text |-> work']
    /\ UNCHANGED <<plan, frozen, pathCkpt, gate2, valCkpt, draft, annotated, archive,
                   decided, pc, request, redo, redos, crashes>>

FinishDrafting ==
    /\ pc = "drafting"
    /\ \A s \in Sections : work[s] # NoProse
    /\ draftCkpt' = [plan |-> frozen, text |-> work]
    /\ draft' = [status |-> "complete", plan |-> frozen, rev |-> 0, text |-> work]
    /\ work' = NoText
    /\ pc' = "idle"
    /\ UNCHANGED <<plan, frozen, pathCkpt, gate2, valCkpt, annotated, archive,
                   decided, request, redo, redos, crashes>>

BeginValidation ==
    /\ pc = "idle"
    /\ draft.status = "complete"
    /\ draft.plan = frozen
    /\ Vouched
    /\ ~ValidationIsCurrent
    /\ work' = IF valCkpt.draft = draft THEN valCkpt.verdicts ELSE NoText
    /\ pc' = "validating"
    /\ UNCHANGED <<files, request, redo, redos, crashes>>

ValidateSection(s) ==
    /\ pc = "validating"
    /\ work[s] = NoProse
    /\ work' = [work EXCEPT ![s] = draft.text[s]]
    /\ valCkpt' = [draft |-> draft, verdicts |-> work']
    /\ UNCHANGED <<plan, frozen, pathCkpt, gate2, draftCkpt, draft, annotated, archive,
                   decided, pc, request, redo, redos, crashes>>

FinishValidation ==
    /\ pc = "validating"
    /\ \A s \in Sections : work[s] # NoProse
    /\ valCkpt' = [draft |-> draft, verdicts |-> work]
    /\ annotated' = [draft |-> draft, verdicts |-> work]
    /\ work' = NoText
    /\ pc' = "idle"
    /\ UNCHANGED <<plan, frozen, pathCkpt, gate2, draftCkpt, draft, archive,
                   decided, request, redo, redos, crashes>>

-----------------------------------------------------------------------------
(* The two writes of a review round that this lane's bindings depend on:   *)
(* the new envelope, then the annotated draft rebuilt against it.          *)

CommitRound(revised) ==
    /\ pc = "idle"
    /\ draft # NoDraft /\ annotated # NoAnnotated
    /\ plan # NoPlan
    /\ Vouched
    /\ annotated.draft = draft
    /\ draft.rev < MaxRev
    /\ draft' = [draft EXCEPT !.rev = @ + 1,
                              !.text = [s \in Sections |->
                                  IF s \in revised THEN [@[s] EXCEPT !.rev = draft.rev + 1]
                                  ELSE @[s]]]
    /\ pc' = "round_annotate"
    /\ UNCHANGED <<plan, frozen, pathCkpt, gate2, draftCkpt, valCkpt, annotated, archive,
                   decided, request, work, redo, redos, crashes>>

\* Mutation: a revised section carries its verdicts too.
RebuildCarried ==
    /\ pc = "round_annotate"
    /\ annotated' = [annotated EXCEPT !.draft = draft]
    /\ pc' = "idle"
    /\ UNCHANGED <<plan, frozen, pathCkpt, gate2, draftCkpt, valCkpt, draft, archive,
                   decided, request, work, redo, redos, crashes>>

\* A revised section is validated again, the others carry their verdicts.
RebuildAnnotated ==
    /\ pc = "round_annotate"
    /\ annotated' = [draft |-> draft,
                     verdicts |-> [s \in Sections |->
                         IF draft.text[s].rev = draft.rev THEN draft.text[s]
                         ELSE annotated.verdicts[s]]]
    /\ pc' = "idle"
    /\ UNCHANGED <<plan, frozen, pathCkpt, gate2, draftCkpt, valCkpt, draft, archive,
                   decided, request, work, redo, redos, crashes>>

-----------------------------------------------------------------------------
(* The addendum replan: supersede, archive the freeze, clear the           *)
(* checkpoints, archive the draft pair, carry the notes, decide.           *)

BeginReplan(a, k) ==
    /\ pc = "idle"
    /\ redos < MaxRedos
    /\ a \notin decided
    /\ plan # NoPlan
    /\ plan' = [plan EXCEPT !.status = "superseded"]
    /\ request' = [decision |-> "replan", key |-> k, addendum |-> a]
    /\ pc' = "archive_frozen"
    /\ redos' = redos + 1
    /\ UNCHANGED <<frozen, pathCkpt, gate2, draftCkpt, valCkpt, draft, annotated,
                   archive, decided, work, redo, crashes>>

\* archive_frozen: nothing to move, or a move that is never over an archive.
ArchiveFrozen ==
    LET a == request.addendum IN
    /\ pc = "archive_frozen"
    /\ IF IsFrozen /\ archive[a].frozen # NoPlan
       THEN pc' = "idle" /\ request' = NoRequest /\ UNCHANGED <<frozen, archive>>
       ELSE /\ archive' = IF IsFrozen THEN [archive EXCEPT ![a].frozen = frozen] ELSE archive
            /\ frozen' = NoPlan
            /\ pc' = "clear_plan_ckpts"
            /\ UNCHANGED request
    /\ UNCHANGED <<plan, pathCkpt, gate2, draftCkpt, valCkpt, draft, annotated,
                   decided, work, redo, redos, crashes>>

ClearPlanCkpts ==
    /\ pc = "clear_plan_ckpts"
    /\ pathCkpt' = NoPathCkpt
    /\ pc' = "clear_draft_ckpts"
    /\ UNCHANGED <<plan, frozen, gate2, draftCkpt, valCkpt, draft, annotated, archive,
                   decided, request, work, redo, redos, crashes>>

ClearDraftCkpts ==
    /\ pc = "clear_draft_ckpts"
    /\ draftCkpt' = NoDraftCkpt
    /\ valCkpt' = NoAnnotated
    /\ pc' = "archive_draft"
    /\ UNCHANGED <<plan, frozen, pathCkpt, gate2, draft, annotated, archive,
                   decided, request, work, redo, redos, crashes>>

ArchiveDraft ==
    /\ pc = "archive_draft"
    /\ archive' = IF draft = NoDraft THEN archive
                  ELSE [archive EXCEPT ![request.addendum].draft = draft]
    /\ draft' = NoDraft
    /\ pc' = "archive_annotated"
    /\ UNCHANGED <<plan, frozen, pathCkpt, gate2, draftCkpt, valCkpt, annotated,
                   decided, request, work, redo, redos, crashes>>

ArchiveAnnotated ==
    /\ pc = "archive_annotated"
    /\ archive' = IF annotated = NoAnnotated THEN archive
                  ELSE [archive EXCEPT ![request.addendum].annotated = annotated]
    /\ annotated' = NoAnnotated
    /\ pc' = "replan_ckpt"
    /\ UNCHANGED <<plan, frozen, pathCkpt, gate2, draftCkpt, valCkpt, draft,
                   decided, request, work, redo, redos, crashes>>

ReplanCheckpoint ==
    /\ pc = "replan_ckpt"
    /\ gate2' = [NoGate2 EXCEPT !.decision = "rejected", !.key = request.key]
    /\ redo' = request.key
    /\ pc' = "replan_meta"
    /\ UNCHANGED <<plan, frozen, pathCkpt, draftCkpt, valCkpt, draft, annotated, archive,
                   decided, request, work, redos, crashes>>

ReplanMeta ==
    /\ pc = "replan_meta"
    /\ decided' = decided \cup {request.addendum}
    /\ pc' = "idle"
    /\ request' = NoRequest
    /\ UNCHANGED <<plan, frozen, pathCkpt, gate2, draftCkpt, valCkpt, draft, annotated,
                   archive, work, redo, redos, crashes>>

-----------------------------------------------------------------------------

Crash ==
    /\ pc # "idle"
    /\ crashes < MaxCrashes
    /\ crashes' = crashes + 1
    /\ pc' = "idle"
    /\ request' = NoRequest
    /\ work' = NoText
    /\ UNCHANGED <<files, redo, redos>>

Planning == RunPathStage \/ AssemblePlan

GateStep == Freeze \/ GateLine \/ ClearPath \/ GateCheckpoint

Drafting == BeginDrafting \/ (\E s \in Sections : DraftSection(s)) \/ FinishDrafting

Validation == BeginValidation \/ (\E s \in Sections : ValidateSection(s)) \/ FinishValidation

Round == (\E revised \in SUBSET Sections \ {{}} : CommitRound(revised)) \/ RebuildAnnotated

ReplanStep == \/ ArchiveFrozen \/ ClearPlanCkpts \/ ClearDraftCkpts \/ ArchiveDraft
              \/ ArchiveAnnotated \/ ReplanCheckpoint \/ ReplanMeta

Decide == \/ \E k \in Keys, t \in Clocks : Approve(k, t)
          \/ \E k \in Keys : Reject(k)
          \/ \E a \in Addenda, k \in Keys : BeginReplan(a, k)

Next == \/ Planning \/ AnswerGap \/ Decide \/ GateStep \/ Drafting \/ Validation
        \/ Round \/ ReplanStep \/ Crash

Spec == Init /\ [][Next]_vars

\* A running operation goes on, and a person whose approval was cut short
\* submits the same request again until it is accepted.
FairSpec == /\ Spec
            /\ WF_vars(GateStep)
            /\ WF_vars(\E k \in Keys, t \in Clocks : Stamped /\ Approve(k, t))

-----------------------------------------------------------------------------
(* Properties                                                              *)

\* The bindings that make the lane safe: every piece of prose belongs to the
\* plan its envelope names, every verdict to the prose beside it, and the
\* memory of a running stage to the files it started from.
BoundText(text, p) == \A s \in Sections : text[s] = NoProse \/ text[s].plan = p
BoundVerdicts(verdicts, text) == \A s \in Sections : verdicts[s] = NoProse \/ verdicts[s] = text[s]
DraftBound == /\ BoundText(draftCkpt.text, draftCkpt.plan)
              /\ draft.status = "complete" => \A s \in Sections : draft.text[s].plan = draft.plan
              /\ pc = "drafting" => BoundText(work, frozen)
ValidationBound == /\ BoundVerdicts(valCkpt.verdicts, valCkpt.draft.text)
                   /\ pc = "validating" => /\ draft.status = "complete"
                                           /\ BoundVerdicts(work, draft.text)
RoundBound ==
    /\ annotated # NoAnnotated => annotated.draft.status = "complete"
    /\ pc = "round_annotate" =>
         /\ annotated # NoAnnotated
         /\ draft.status = "complete"
         /\ \A s \in Sections : \/ draft.text[s].rev = draft.rev
                                \/ draft.text[s] = annotated.draft.text[s]

\* A package answers a plan when every section was drafted from that plan and
\* every verdict was computed on the prose that ships.
SoundResponse(r) == \A s \in Sections : /\ r.draft.text[s].plan = r.draft.plan
                                        /\ r.verdicts[s] = r.draft.text[s]

LaneBound == DraftBound /\ ValidationBound /\ RoundBound /\ SoundResponse(annotated)

\* Whatever the export door (assert_current) lets out was drafted, section by
\* section, from the freeze Gate 2 vouches for, and validated as it stands:
\* no checkpoint of an earlier plan or an earlier envelope leaks into it.
ExportSound == Exportable => /\ draft.status = "complete"
                             /\ annotated.draft.plan = frozen
                             /\ SoundResponse(annotated)

\* A freeze leaves plan.frozen.json only by moving into the archive of an
\* addendum that held none (archive_frozen), and an archived freeze keeps its
\* bytes for ever (freeze_artifact, AddendumLane.decide).
FreezeStep == IsFrozen /\ frozen' # frozen
              => /\ frozen' = NoPlan
                 /\ \E a \in Addenda : archive[a].frozen = NoPlan /\ archive'[a].frozen = frozen
ArchiveStep == \A a \in Addenda :
    archive[a].frozen # NoPlan => archive'[a].frozen = archive[a].frozen
FrozenIsNeverRewritten == [][FreezeStep /\ ArchiveStep]_vars

\* A plan stamped approved keeps its stamp - who, what and when - until an
\* addendum supersedes it: no replan, retry or crash discards the decision
\* (run_planning's plan_past_gate refusal; approve_gate2 completing with the
\* stamp's clock).
ApprovalStands ==
    [][Stamped => /\ plan'.status \in {"approved", "superseded"}
                  /\ plan'.body = plan.body /\ plan'.key = plan.key /\ plan'.at = plan.at]_vars

\* A section that was drafted and checkpointed against the live freeze is not
\* drafted, and paid for, a second time - across crashes and resumes
\* (run_drafting's checkpoint).
PaidOnce == [][\A s \in Sections :
                 pc = "drafting" /\ work[s] = NoProse /\ work'[s] # NoProse
                 => ~(draftCkpt.plan = frozen /\ draftCkpt.text[s] # NoProse)]_vars

\* The gate record that vouches for a freeze names the person and the request
\* that stamped it, also when the approval was completed by a retry after a
\* crash (approve_gate2's resume: a stamp is completed by its own request only).
RecordNamesApprover == Vouched => gate2.decision = "approved" /\ gate2.key = frozen.key

\* A freeze that no longer equals the live plan refuses every retry.
Overtaken == IsFrozen /\ frozen # plan

\* A first approval that a crash cut short completes when the same request is
\* submitted again: the freeze is vouched for, unless an addendum supersedes
\* the plan or a gap answered meanwhile has changed the plan under it.
FirstApprovalCompletes ==
    Stamped /\ gate2.decision = "none" ~> Vouched \/ plan.status = "superseded" \/ Overtaken

\* gate_key.py: a crash between the stamp and the checkpoint recovers through
\* a same-request resubmit.  approve_gate2 must accept that request whenever
\* the plan is stamped and the gate record does not vouch for it.
CrashedApprovalResumes ==
    pc = "idle" /\ Stamped /\ gate2.decision # "approved" => Approvable(plan.key)

\* planning/gate.py: a rejection clears the planning checkpoints so that the
\* replan genuinely reruns, and carries its feedback into it.  A plan is
\* assembled only from a path stage that was given the notes of the redo that
\* is outstanding.
FeedbackReachesReplan ==
    [][plan.status # "gate2_pending" /\ plan'.status = "gate2_pending" /\ redo # None
       => pathCkpt.feedback = redo]_vars

SoundResponses == {r \in Annotated : SoundResponse(r)}

\* The lane implements the promise of Gate 2.
Authority == INSTANCE PlanAuthority WITH
    Plans <- Plan, NoPlan <- NoPlan, NoResponse <- NoAnnotated,
    Responses <- SoundResponses,
    Answers <- LAMBDA r, p : r.draft.plan = p,
    authority <- IF Vouched THEN frozen ELSE NoPlan,
    response <- IF Exportable THEN annotated ELSE NoAnnotated
ImplementsAuthority == Authority!Spec
=============================================================================
