# A verification project for rfp-engine

rfp-engine takes a request for proposals through a fixed pipeline (intake,
strategy, planning, drafting, validation, revision, packaging) with human gates
in between. Every stage leaves files in the directory of one *pursuit*; a local
web server with one worker thread advances pursuits as jobs and serves the people
who decide, comment and export. The engine promises that whatever happens between
two of its file writes, nobody's decision or comment is lost, nothing is paid for
twice, and nothing leaves the building that was not approved and audited as it
stands. These are statements about orders of writes, crashes and threads, which
unit tests reach one at a time; here they are stated in TLA+, model-checked with
TLC on small instances, and, for most of the components, proved with TLAPS for
every instance.

## 1. Inventory

Sizes are lines of Python under `src/engine/`.

| component | state it keeps | operations | modelled in |
|---|---|---|---|
| planning (1838) | `plan.json`, `plan.frozen.json`, checkpoints `path_a_map`, `path_b_outline`, `pursuit_plan`, `gate_2` | path stages, sections, mapping, assembly, Gate 2 approve/reject | `PlanLane`, `DraftRouting` |
| drafting (1094) | checkpoint `drafting`, `drafts/draft.json` | route, draft a section, resume, write the envelope | `PlanLane`, `DraftRouting` |
| validation (1720) | checkpoint `validation`, `drafts/annotated-draft.json` | claim audit per section, annotate | `PlanLane`, `ReviewRound` |
| revision (849) | checkpoint `review_round`, `revisions/` | begin, revise, re-validate, commit | `ReviewRound` |
| web events (in web, 4428) | `events/pending.json`, `events/events.jsonl` | add, delete, mark, finalise, drop | `ReviewRound` |
| addenda (web) | `addenda/<id>/` | decide: replan | `PlanLane` |
| job runner (web) | registry, queue, locks in memory; `jobs.jsonl` | submit, run, cancel, restart | `JobRunner` |
| run logs (264) | `runs/<id>/run.jsonl` | mint, open, append, footer, resume | `JobRunner` |
| driver (578) | none (predicates over files) | pick the next stage, revise, export checks | `PlanLane`, `BriefLane`, `ReviewRound` |
| web routes (web) | live plan, `pings.jsonl`, pending comments | comment, gap, ping, answer, dispose, accept | `PlanDoor` |
| share links (web) | `links.jsonl`, `access.jsonl` | mint, revoke, view, comment as a guest | `ShareDoor` |
| assistant (986) | the session's run log and `transcript.jsonl` | load, search, open, answer, decline | `AssistantLane` |
| intake (1675), strategy (537), research (470) | `brief.json`, its freeze, checkpoints, themes | intake, Gate 0, research, themes, Gate 1 | `BriefLane`, `ThemeSlate`, `IntakeReview` |
| workspace (544) | `org.json` per organisation, `serve.lock` | mint and link an organisation, flock | `IntakeReview`, `SliceLock` |
| structure, extraction (4777) | `extraction.json` | convert in the sandbox, read twice, the proof gate | `DocumentReader`, `ExtractionGate` |
| assembly (2518) | `exports/`, facts records, `submission-bundle.json`, hand-typed values | render, write back, fill, bundle, download | `PlanLane` (export check), `ExportDoors` |
| knowledge base (5637) | cards, restricted provenance, sources, proposals, curation log | ingest, merge, purge; propose and merge edits; search | `KnowledgeBase`, `CurationLane`, `ReplayLane` |
| flywheel (640) | proposals, survival signals, revised events | learn from an accept | `LearnLane` |
| LLM (942) | spend, budget, request and response files | call, retry, fall back, hand off to a person | `SpendGate`, `Handoff` |
| evals and metrics (3626) | baselines, locks, histories, release records | re-baseline, evaluate, release, replay | `EvalRelease`, `ReplayLane` |
| cli and support (1951) | none of its own | slice, intake, ingest, serve, replay | `SliceLock`, `ReplayLane` |
| contracts (543) | none | atomic replace, durable append, request digests | in every module, as what one step is |

### What is hard in this code

* **Crashes.** No transaction spans two files. Each operation fixes an order of
  writes and a rule by which its retry *converges*; the rule is in prose, in the
  order of some ten statements and in the guards of the next call.
* **Stale files.** Each stage accumulates a checkpoint and resumes it. After a
  redo, an addendum or a revision, checkpoints and envelopes of several plans lie
  next to each other, kept apart by recorded hashes.
* **Interleavings.** Request threads and the worker share the pursuit directory;
  the guard serialises most of it, comments arrive while a round runs, cancel
  flags and the registry are read without a lock.
* **Restarts.** The journal and open runs are reconciled when the server starts,
  which may itself be killed.

`PROJECT.json` lists every such place with its line ("hazards") and the property
that covers it, or why none does yet.

### What makes each component correct

* planning, Gate 2, addenda: an approval stands until superseded, is attributed to
  whoever gave it, completes after a crash; a freeze is never rewritten.
* sections, mapper, router: every slot is in one section; a question that nobody can
  answer is a gap somebody is asked about, or hangs on one; the draft says of each
  slot what became of it.
* drafting, validation, export: what is exported answers the approved plan, section
  by section, and is validated as it stands; no section is paid for twice; what
  leaves the door is the text it was confirmed for, proved, and scanned for other names.
* revision, events: no human input is lost or recorded twice; verdicts describe the
  prose they are attached to; a commit converges.
* routes: an answer in the journal reaches the live plan; a gap is asked about once;
  every request is answered and gives the guard back.
* share links: a revoked or expired link lets nobody in, and what a guest was told
  of a link is in the log.
* assistant: an answer cites only what its session opened; the ceiling and the log
  of turns that do not overlap hold.
* job runner, run logs: run ids are minted one at a time, every run a job opened is
  closed, footers stand, every job ends, the journal never revises itself.
* intake, Gate 0, Gate 1: research follows a confirmation, is paid once for a
  reading; a decision completes after a crash; weak text on record is marked; a gap
  is settled once; themes trace to sources that were opened.
* knowledge base, flywheel: every card stays within reach of its client's purge; a
  clean purge left nothing; what a steward accepted lands once, as read, and is
  logged; feedback is spent only on a proposal.
* LLM: at most the call that trips a limit lies beyond it; a brake is final; an answer
  answers the question of the thread that returns it.
* evals, extraction gate, replay: a verdict is never better than what was measured; a
  record is archived before it is replaced; nothing withheld surfaces.
* workspace lock: two writers only where a `--fresh` took the lock file away.

## 2. Modules

| module | what it is |
|---|---|
| `PlanAuthority` | abstract specification: an authority granted, held and withdrawn, and a response that answers it |
| `PlanLane` | planning, Gate 2, drafting, validation, revision (as one step), addendum replan, export check |
| `ReviewRound` | the revise round and the events lane in detail |
| `JobRunner` | jobs, worker, guard, cancel, journal, run logs, restart |
| `KnowledgeBase` | ingest, merge batch and purge over cards, records, sources, proposals and drafts |
| `DocumentReader`, `BriefLane`, `ThemeSlate` | the front half of a pursuit: reading, gates 0 and 1, themes |
| `PlanDoor`, `ShareDoor`, `AssistantLane` | the doors of the web server: operators, guests, the assistant |
| `SpendGate`, `Handoff`, `LearnLane`, `SliceLock` | what runs to an end beside others: calls, exchanges, learners, commands |
| `IntakeReview`, `ExportDoors`, `CurationLane` | what is decided, sent and merged by hand |
| `ExtractionGate`, `EvalRelease`, `DraftRouting`, `ReplayLane` | what the engine computes and measures |
| `MCIntake`, `MCDoors`, `MCWalks`, `MCRecords`, `MCMeasures` | one run each for the last five rows, see below |
| `MCPlanLane`, `MCReviewRound`, `MCJobRunner`, `MCKnowledgeBase` | the modules TLC runs for the first rows |
| `PlanLaneProofs`, `JobRunnerProofs`, `ReviewRoundProofs`, `WalksProofs`, `DoorsProofs`, `IntakeProofs`, `RecordsProofs`, `KnowledgeBaseProofs` | theorems about the modules they are named after (`RecordsProofs` about `MCMeasures` too), see section 4 |

### PlanLane

One pursuit after Gate 1. A file or checkpoint is a variable: `plan` (plan.json),
`frozen`, `gate2`, `pathCkpt` (the path stages), `draftCkpt`, `draft`, `valCkpt`,
`annotated`, `archive` (the `addenda/<id>/` copies). A hash of a file is the value
of the file. What a plan says is one of `Bodies`; a request is a key in `Keys`
(actor and digest of the decision), its clock is separate because the code keys
requests *without* it. Prose is the plan it was drafted from and the revision that
wrote it, which is all that the bindings can tell apart.

`pc` says which operation is running and which of its writes comes next; `work` is
the memory of a running stage. Each durable write is an action of its own
(`Approve`/`Reject`, `Freeze`, `GateLine`, `GateCheckpoint`, ...), and `Crash` may
come between any two, losing `pc`, `work` and `request` only. Consecutive steps
that touch no file another step reads are one action. The guards of the stages are
the skip predicates of `pipeline/driver.py` followed by the refusals of the stage
itself. The driver holds the pursuit's guard while it runs (see `JobRunner`), so
operations do not overlap here; a gap answered on the live plan is the one write
from outside that is let in, between operations (`AnswerGap`, enabled by `GapsMove`).

### ReviewRound

Same conventions. Prose is the set of human inputs applied to a section, an item is
a pending comment or edit, or an answered gap; the model may apply any subset of
what it is shown and answer with changed prose, the same prose, or an error.
Comments and edits are added, deleted and marked by request threads while a round
runs. The commit is one action per write: archive the draft, archive the annotated
draft, bind the outgoing hash in the checkpoint, write the draft, rebuild the
annotated draft, finalise items one at a time, checkpoint the record, drop what was
finalised, write the round's record, the live plan, clear the checkpoint.

Outside the abstraction: an edit whose `after` equals or contains its `before`
(replaying it is then not idempotent or not a change), and a replan between two
rounds.

### JobRunner

The state of `web/jobs.py` field by field: the registry (`_jobs`), the journal as
it reads back, the queue, the worker's position in its loop, the pursuit guards,
and the runs of each pursuit. `Submit`, `SubmitJournal` and `Put` are separate
because the code releases the registry lock before it puts the job on the queue.
A request thread asks, waits for the guard, looks at `busy` inside it, and mints and
opens a run or leaves. Minting and opening a run are two steps. `Boot`, `Rehydrate`
(one job per step, journal line and closed run) and `Serve` are a start of the
server, and a crash may interrupt it. A journal append may fail, with or without
half a line on disk.

Abstracted: a run's lines (it is open, ended by its opener, or closed as failed by
the job lane); one poll of the cancel flag stands for the polls between sections;
at most one cancel request is between its check and its write.

### KnowledgeBase

The directories of the firm's knowledge base are variables: `card` and `record` are
the two halves of a card (public file, restricted provenance), `meta`, `source` and
`model` the three files of a retained document, `proposal` the claim proposals,
`drafts` the prose that cites a card. Three operations write them, one action per
file: the ingest (`IngestStart` to `OpenClaim`), the merge batch of a steward
(`MergeStart`, `ApplyCard`, `ApplyRecord`, `Decide`) and the purge (`PurgeStart` to
`Sweep`). The purge takes the workspace lock and the lock of its root, the merge
batch runs in the server, which holds the first: `cur` is whichever of them runs.
The ingest takes no lock, so `ing` interleaves with `cur` everywhere. Either may be
killed between two writes. `append_source` and `merge_into` read a record and write
it back, which is two steps (`Appended` and `Folded` are what they make of it).

The purge computes what it covers once, when it starts: `Closure` is the loop of the
code, a recursive function. `Derived` is what the loop ought to compute, the least
set closed under derivation, and `Lineage` what the records on disk could lead to if
absorbed ids were followed too. Ghost variables remember what the files do not:
whose documents went into a card (`material`), which cards a purge passed over or
cut off (`escaped`), which proposals and models it could not see (`stray`), of which
documents a purge removed one card of several (`cur.twice`), whether the claim a merge
batch has in hand came from what a purge passed over (`cur.loose`), and the last verdict
of each client.

What holds needs exceptions, and each is a place where the code makes no promise: a
card whose record a kill left unwritten; a held card and what derives from it; what
only an absorbed id leads to (`Derived` against `Lineage`); what a killed purge had
not reached, since its retry finds a record without a card and stops there; a card
written over a record that such a purge left; a card that was purged and minted again
while an append held the old record in hand, which is then written back; a claim that
a merge batch accepts, after a clean verdict, from a proposal or a parent that the purge
passed over, which makes a new card of the client's material; and
everything about a purge that an ingest ran beside, to which the model gives no verdict.

`HeldKeepsSource` speaks of a held card whose record names the client of its document
(`OwnersAreNamed`: every card of a chunk that no purge passed over), and excepts a
document of which the same purge removed another card. There the code keeps no promise:
`held_cds` (kb/purge.py:311) is collected from the held cards that the purge covers, so
when a card merged from two clients goes with the other client, its document goes too,
though a held card of its own client, which that purge does not cover, was made from it.

Abstracted: a client has one logical document of one chunk, whose bodies are its
versions; a body is the anonymised text and names the id it mints, so two clients
can mint the same id; similarity is two given relations, and which of several near
cards scores best, and which side survives a merge, is left open. A chunk that is word
for word the claim drawn from it would mint the claim's id, and is left out. Card edits,
deprecation and lessons are not modelled.

### DocumentReader

One intake run over the documents of a package. `cur` is the document it is at,
`child` what the jailed parser left (a result, a partial one, half a file, nothing,
or it hangs), `docs` the readings in memory, `record` and `done` the two writes at
the end. The parent decides by what it finds: the child's view, the legacy parser
with its flags, or the end of the run. A document's bytes are abstracted to what its
text came from and whether a second reading agreed; both are history, the code
keeps flags, and `WeakTextIsReviewed` relates the two on record. `behind` is what the
run saw of the checkpoint when it looked, after its readings. A run that saw none
records what it has in memory and pays its brief for just that; a run that resumes behind
the checkpoint reads every document again, and what a child that fails makes of it goes
into the brief without a record or a flag. So the property is about the record and the
runs that write it, and that every brief is of full or marked texts is a refuted claim
(`BriefTextIsMarked`).

### BriefLane

Intake, Gate 0, research, themes and Gate 1 in the conventions of `PlanLane`: a
checkpoint is what it holds, each durable write an action, `job` the stage or the
decision that holds the lane. `Halt` (the process dies, or a model call fails) may
come between any two. `inbox` moves when the buyer sends another package, `journal` remembers
what was paid. `late` marks an approval that landed on a brief sent back (see
Refuted claims); what holds is stated without it.

### ThemeSlate

Candidates from generation to Gate 1: what was opened, what findings cite, the
slate in its order, the judge's window of `KEEP_MAX` out of `GENERATE_MAX`, and a
human's keep, edit, add and kill, in web and airgapped mode. Models answer with
anything; the filters of the code are the guards.

### PlanDoor

Two request threads and the job lane over the live plan. A handler is a record of
what it has read and what it will write; those that read before the guard
(comments, accept, a review gap) do so in a step of their own. A ping is a line of
the journal, folded, and a write of the plan after it. A crash loses threads and
the guard. `clobbered` marks a plan written from a copy that was stale.

### ShareDoor

`links.jsonl` as lines that every reader folds, with a torn tail after a crash; the
lock of the lane, which a mint takes inside the pursuit's guard and a revoke alone;
guests who read the file at one moment and are let in at another; the access log
and the pending comments they leave. `now` is a clock of days.

### AssistantLane

The messages of one session, a thread each: load (what is spent, the next ordinal,
the next sequence number), a loop of model call and tool, the answer or the typed
refusal, transcript last. Nothing excludes two messages of one session, so they
overlap in the model; `overlapped` remembers that they did.

### SpendGate and Handoff

`SpendGate` is one walk of `slice --live`: the refusals of its construction, the
transport ladder of one call with its retries and fallback, the traced line, the
ceiling of the run, and the budget its runs share. `Handoff` is the other caller: a
request file, a bounded wait, an operator who reads at one time and saves at
another (under any number, or half a file), a counter that is read back from file
names after a restart. Prices are members of a small set, prompts are agents.

### LearnLane

What an accept learns, step by step: reads before the lock of the knowledge base,
signals, events routed into proposals, gap answers, the revised lines at the end.
A text is what it came from and whether it was cleaned of the alias the registry
learns late; a proposal is its content, which is how the code numbers it.

### SliceLock

Processes and inodes: the lock is on an inode, the file has a name, `slice --fresh`
lets go, removes the tree and locks again. The workspace is the set of processes
that wrote into it.

### IntakeReview

The requests of Gate 0 on two pursuits: answers, skips, corrections with the parsed
value beside the text, the organisation that is linked or minted under its lock,
the card proposals. A request works on a copy that is written at its end, or raises.

### ExportDoors

A response is a text of a frozen plan; a file is the text, the typed values and the
run it was written from, and whether it was written to the end, so that two files
are equal when their digests are. The render, each write-back and the fill are scanned
(`Scan`), written in place in a step of their own and proved afterwards, the facts record
follows, the bundle lists what is on disk, a download takes the listed path under no
lock. An ingest may add to the index before the scan, between it and the write, and
after: `door.known` is the index when the turn of the lane came, and
`WrittenNamesNobody` says that no file is begun from a text that was known then to name
another client. What an ingest adds behind the scan is not seen
(`NamesNobodyWhenBegun`, refuted).

### CurationLane

Edits, lessons, deprecations and answered gaps as proposals, the doors that compose
them from a value they read, and the two passes of a merge, each write a step; a
step may raise, the process may be killed.

### ExtractionGate, EvalRelease, DraftRouting, ReplayLane

These are computations more than protocols. `ExtractionGate` runs the five criteria
over grids of cells and speeds; its tripwire shows, by position, a cell that one path
invented or that only one has right, and says nothing of a real text that both paths put
in the same wrong place, which the code counts as an accuracy error; a score cannot be
bettered by dropping rows or columns from the end (a cell dropped from the middle shifts
the others, and may). `EvalRelease` abstracts a measure to whether it
clears its bar and a fingerprint to the version of the file it covers, and lets the
arm die, files be edited and baselines be forged between any two steps (its suites,
floors, slices and bounds are those of a `scope` chosen in the initial state). The
stamps of its release records are assumed distinct (`Clock`): by default a stamp is the
time of a command that runs several lanes, so the test `if not archive.exists()` (release.py:276)
is not modelled. `RecordsKept` rests on that; of three records of one version that are
made under the same `--at` the second would be lost.
`DraftRouting` takes a parsed questionnaire through gating links, sections, the
mapper, the decisions of people and the lanes of the router; `ReplayLane` is search
with corpus statistics, exclusion and restriction through the walk's three
retrieving stages, beside a steward and the assistant. Their inputs are every
element of a small universe; the definitions are the code's loops as set
comprehensions and folds.

### Composites

The five composites instantiate components that share no variable. `part` (in
`MCMeasures` `study`) is chosen in the initial state and says which component moves; each of the others rests in
one of its initial states. A behaviour of the composite is a behaviour of the chosen
component with constants beside it, and each component's behaviours all occur, so a
conjunction of the components' properties holds of the composite exactly when each
holds of its component (a resting component satisfies its invariants because they
hold initially). Fairness carries the same condition: `WF_v(part = "x" /\ A)` is
fairness of `A` when `x` moves and trivial otherwise. Nothing is claimed about two
components of a composite moving together; where two really interact they are one
module (`PlanDoor` has the job lane in it, `LearnLane` the lock of the knowledge
base, `IntakeReview` both pursuits).

## 3. Runs

| run | question | answer |
|---|---|---|
| `plan_lane` | does what is exported answer what was approved, and do decisions stand, through redo, addendum, revision and crash? | yes |
| `review_round` | is any human input lost, counted twice, or audited on other prose; does a commit converge? | no; yes |
| `job_runner` | are runs minted serially and closed, do jobs end, is the journal a history? | yes |
| `knowledge_base` | does every card stay within reach of its client's purge, and does a clean verdict mean gone? | yes, with the exceptions above |
| `intake` | does a reading on record claim only what it has, do the gates decide once and on what was read, does what began end? | yes |
| `doors` | do answers reach the plan, do links end, are citations earned, is everybody answered? | yes |
| `walks` | do the brakes hold, does an answer answer its question, is feedback spent only on proposals, is a workspace one writer's, does everything end? | yes, but for a writer whose lock file was wiped |
| `records` | are gaps settled once, does a confirmed bundle ship its draft, does what a steward accepted land? | yes |
| `measures` | is a verdict ever better than what was measured, is a question lost, does anything withheld surface? | no |
| `crashed_approval` | can a crashed approval always be resubmitted? | not after an earlier redo |
| `unaudited_prose` | is all committed prose audited? | not an edit whose section is pended |
| `unreached_claim` | does the purge reach every claim proposal of a client? | not one opened for an exact duplicate |

The last three check what a comment in the code says and the code does not do;
`PROJECT.json` quotes each line. `CarriedVerdictsMatch` in `review_round` is the
strongest form of `ShippedProseIsAudited` that holds: it names the two ways around
the audit and says there is no third. `FirstApprovalCompletes` in `plan_lane` is
likewise what holds of `CrashedApprovalResumes`, and `CleanIsClean` of the claims
about the purge.

A property of a composite is a conjunction of a component's properties under one
name, and the comment above it says what they amount to together. In the same way
`ReviewRound.ItemsLandOnce` is `NothingLost` and `FinalizedOnce`;
`JobRunner.RunsAreSound` is `MintIsSerial`, `JobRunsAreClosed` and
`CancelledMeansStopped`; `JobRunner.HistoryStands` is `FootersStand` and
`JournalIsHistory`; `KnowledgeBase.CleanIsClean` is `CleanMeansGone` and
`DraftsFollowCards`. The parts keep their names and comments in the components.

### Bounds

* `plan_lane`: two sections (so a resume has something done and something not), one
  plan body, two request keys and two clocks (retry by the same person at another
  time, or by another person), one addendum, one revision, one crash, two redos (a
  rejection followed by an addendum, or twice rejected). One crash suffices for the
  crash windows because each recovery starts from files only; the proofs do not have
  the bound. 459,313 states.
* `review_round`: two sections, one of which awaits a gap answer (kept, then
  drafted by a round), two items, two rounds (the second round meets what the first
  left), one crash or cancel. 409,795 states. `unaudited_prose` needs three items:
  an edit and a comment on one section and one on the other.
* `job_runner`: one pursuit, one request thread, two jobs (one waiting behind
  another; ids across a restart), two runs, one crash and one more in the start that
  follows, one failed append. 880,820 states. With two pursuits the state space is
  out of reach; the only thing pursuits share is the worker and the journal, which
  two jobs of one pursuit share as well.
* `knowledge_base`: two interchangeable clients (a card made from both, one purged),
  two bodies that are near duplicates and drifts of each other, one of which carries
  a claim; two ingests, two purges (a retry, or the second client), one crash, one
  draft, one hold. 2,233,451 states. Symmetry is sound here: the clients are only
  compared, and no liveness is checked. Two bodies are the least with a merge, a
  rewrite and a derived fact.
* `intake`: a pdf, a docx and a workbook and two runs (one resumes before or behind
  the other's checkpoint); two packages, three readings, two rejections, two halts,
  two approving requests (one completes its own stamp, the other must not); two
  candidates of which the judge may keep one, two edits of a human, a usable and a
  restricted card, a URL of the pack and one outside it. 645,000 states.
* `doors`: three requests on two threads beside one job, a planned and a review gap,
  two pings, one crash; one guest and two operators with two links over the end of
  their days, one crash; two overlapping messages, two sources of which one is
  withheld, a ceiling two calls reach, one tool, one restart. 155,000 states.
* `walks`: a walk of two runs, three attempts a call, free and dear calls, so that the
  ceiling, the total and the count of calls each trip first in some behaviour; two
  threads with three exchanges, one refused answer, one restart; two pursuits that
  learn, with an edit, a waiver no cleaning helps and a gap, two accepts and a kill; a
  server, an intake run and a `slice --fresh` with three lock files, more than they
  can create. 361,436 states.
* `records`: two pursuits that mint or link (three organisations, two requests, one
  open ping), where one document shows a weight and a date; two forms and a render,
  or a fill, two texts, two plans (an amendment), two doors and a kill; two cards (one
  on hold), two lessons, two gaps of one body, two edits, two open proposals, one kill
  or raise. An ingest may fall between any two steps of a door. Symmetric in the field
  values and the gaps, which are only compared; no liveness is checked. 606,000 states.
* `measures`: every pair of grids up to two by two against two answer keys, and every
  corpus of up to four speeds and one of ten (where the percentile is not the
  maximum); two suites under the re-baseline arm with an edit, a forgery and two
  runs; one suite with a corpus below its floor, four slices and two evaluations under
  the release; every document of three slots out of four shapes; seven cards with a
  chain of derivations over three lanes, and one steward decision. 821,000 states.

Deadlock is not checked: at its bounds a model stops, and the system itself rests
when nobody asks anything of it.

### Fairness

* `plan_lane`: weak fairness of the steps of a decision once it is running, and of
  the same request being resubmitted while it is accepted: the recovery the code
  documents is a person's resubmit, and without it nothing completes.
* `review_round`: weak fairness of a running round's steps and of resubmitting a
  round that was interrupted in its commit. Nothing is assumed about people who
  comment.
* `job_runner`: weak fairness of the worker, of each request thread once inside a
  route, of the submitter that has journaled a job, and of the boot sequence: threads
  that are scheduled. The guard is not assumed fair: a queued
  job makes the busy check refuse new routes, so the worker waits only for the
  threads that were already on their way.
* `intake`: weak fairness of the parent that reads (it polls its child against a
  deadline) and none of the child; of the lane's next step, and of the operator
  resubmitting a stamped decision, as in `plan_lane`.
* `doors`: weak fairness of each handler's step, of the end of a job and of each
  message; strong fairness of `Revoke`, which waits for a lock that mints may take in
  between. Nothing is assumed of guests.
* `walks`: weak fairness of the call ladder, of each wait's poll (it accepts or
  expires), of reading and of the stages of learning, of a command's own step; strong
  fairness of `Take`, the contended lock of the knowledge base, which is a blocking
  `threading.RLock`. Nothing is assumed of the operator or of a server's end.
* `knowledge_base`, `records`, `measures`: none; their properties are safety properties.

### Refuted claims

The modules also state claims of docs and comments that the code does not keep. Each
formula stands at the end of its module with the line that makes the claim; TLC
refutes it at small bounds. Except for the three violation runs above they are not
run; to see one, add an operator such as `Confirmed == Brief!ConfirmedAlways` to
the composite and name it in its cfg.

| claim | where it fails | what happens |
|---|---|---|
| `PlanLane.FeedbackReachesReplan` | planning/gate.py:434 | a rejection that dies between clearing the planning checkpoints and its own record replans without the notes |
| `ReviewRound.FinalizedEditIsHeard` | revision/round.py:190 | an edit added between a crash and the resume, on a section already done, is finalised without being applied or refused |
| `JobRunner.JobNamesItsRun` | web/jobs.py:184 | a job that opened no run names the newest run of its pursuit, which somebody else opened |
| `KnowledgeBase.NoDraftOutlives` | kb/purge.py:252 | a draft that cites an absorbed id survives the clean purge of its client |
| `SpendGate.NoCallEscapes` | llm/caller.py:156 | a call that raises after it was answered and billed leaves no line and no cost |
| `Handoff.PairsStand` | llm/handoff.py:41 | the scan recognises four digits: beyond 9999 a restart issues an old number again (with `Named` below `MaxSeq`; the run has them equal) |
| `AssistantLane.EveryTurnGapless` | web/server.py:2156 | two messages of one session that overlap write one sequence number twice |
| `BriefLane.ConfirmedAlways` | intake/gate.py:287 | the brief that was just sent back can be approved, and research then spends on its rewrite |
| `BriefLane.RecordCoversBrief` | intake/brief.py:398 | a document uploaded after the intake checkpoint is in the brief and not in the extraction record |
| `PlanDoor.AnswersStand` | web/server.py:1934 | a comment writes back a plan it read before the guard and reopens a gap answered in between |
| `PlanDoor.AcceptIsClear` | web/server.py:2011 | an accept checks packaging before the guard and is recorded on a package blocked since |
| `IntakeReview.DateFollowsText` | intake/gate.py:113 | correcting the text of a deadline leaves the date parsed from the old one |
| `IntakeReview.AliasKept` | workspace/orgs.py:94 | two pursuits that link one organisation at once drop an alias |
| `IntakeReview.RefusedLeavesNothing` | intake/gate.py:307 | a request refused after its organisation was minted leaves it behind |
| `ShareDoor.EveryAttemptIsLogged` | web/server.py:1194 | a guest with an unknown token is refused in no lane, so nobody logs it |
| `ExtractionGate.PassMeansNoInvention` | extraction/gate.py:483 | a VLM conversion that fails skips the check of the deterministic cells |
| `EvalRelease.StampedIsMeasured` | validation/poison.py:154 | a prompt edited during a measure is stamped on the number of the old one |
| `EvalRelease.LoopIsClosed` | evals/rebaseline.py:200 | cases edited during a measure pass the closing check and stale the lane at once |
| `EvalRelease.HistoryIsPast` | evals/rebaseline.py:194 | a death between the history line and the baseline leaves a baseline in history that still stands |
| `CurationLane.RefusalAppliesNothing` | kb/curation.py:587 | two new cards of one body pass the first pass, and the second is refused after the first was minted |
| `CurationLane.RejectedChangesNothing` | kb/curation.py:606 | a lesson lands, the process dies before the decision, and the proposal is rejected |
| `CurationLane.DiffIsTrue` | kb/curation.py:596 | an accepted edit replaces a value its diff never showed |
| `CurationLane.DeprecationStrandsNothing` | kb/curation.py:582 | a card cited after its deprecation was proposed is deprecated |
| `LearnLane.SignalsHold` | web/learn.py:213 | a signal computed from runs read before the lock overwrites a newer one |
| `LearnLane.OneLessonPerCard` | web/learn.py:220 | after a kill and a new alias one event is proposed twice |
| `DraftRouting.InventsNothing` | drafting/route.py:172 | a child gated by a question of another section is drafted without grounding or gap |
| `DraftRouting.SectionIdsDiffer` | planning/sections.py:48 | Scope, Scope, Scope 2 give one id twice |
| `DraftRouting.NoSilentMiss` | planning/sections.py:132 | with questions in a circle (`CrossFollow` TRUE) each is skipped and none is a gap |
| `ExportDoors.NamesNobodyWhenBegun` | assembly/template_fill.py:554 | every lane scans "the exact set of strings it is about to hand outward" (egress.py:1-4) and writes later (also docx.py:131, 149): a client ingested in between is named in a file begun after |
| `ExportDoors.ServedIsProved` | web/server.py:900 | a download takes a file a second confirm is writing |
| `ExportDoors.OldResponseNeverShips` | assembly/bundle.py:178 | after a replan the old render on disk is listed as produced |
| `ExportDoors.RenderIsWhole` | assembly/bundle.py:178 | so is a render torn by a kill |
| `SliceLock.OneWriter` | cli/slice.py:300 | a process with the old inode and one with the new both hold the lock |
| `SliceLock.NamesTheHolder` | workspace/lock.py:37 | a refused process is told the name of one that is gone |
| `SliceLock.NobodysWorkIsWiped` | cli/slice.py:301 | a process that locks between release and wipe loses its files |
| `DocumentReader.BriefTextIsMarked` | intake/brief.py:398 | "degraded extraction still ingests, flagged" (brief.py:434), but behind the checkpoint a run that reads with a failing child puts the weaker text into the paid brief while the record says full |
| `DocumentReader.OnlyTheParseDies` | extraction/sandbox.py:96 | a child killed inside its result write ends the intake run |

## 4. Proofs

Each proof module extends the module its runs check (`RecordsProofs` two of them,
`MCRecords` with `Spec` and `MCMeasures` with `Measures`) and is proved for every value of
the constants that the named assumptions allow. A component's invariant was first
checked by TLC, over instances larger than the runs', and then proved inductive, one
lemma per action or per part of the invariant.

| module | theorem | statement |
|---|---|---|
| `PlanLaneProofs` | `TypeCorrect` | `Spec => []TypeOK` |
| | `LaneIsBound` | `Spec => []LaneBound`, the inductive invariant |
| | `ExportIsSound` | `Spec => []ExportSound` |
| | `RecordIsTruthful` | `Spec => []RecordNamesApprover` |
| | `ApprovalIsKept` | `Spec => ApprovalStands` |
| | `FreezeIsKept` | `Spec => FrozenIsNeverRewritten` |
| | `NothingIsPaidTwice` | `Spec => PaidOnce` |
| | `LaneImplementsAuthority` | `Spec => ImplementsAuthority`, the refinement of `PlanAuthority` |
| `JobRunnerProofs` | `LaneInvariant` | `Spec => []IInv`, the inductive invariant |
| | `JobTypeCorrect` | `Spec => []TypeOK` |
| | `RunsStaySound` | `Spec => []RunsAreSound` |
| | `HistoryIsKept` | `Spec => HistoryStands` |
| `ReviewRoundProofs` | `RoundInvariant` | `Spec => []IInv`, the inductive invariant |
| | `RoundTypeCorrect` | `Spec => []TypeOK` |
| | `InputLandsOnce` | `Spec => []ItemsLandOnce` |
| | `VerdictsAreOfTheProse` | `Spec => []CarriedVerdictsMatch` |
| | `RevisionsMove` | `Spec => RevisionMoves` |
| `WalksProofs` | `LockIsExclusive` | `Spec => []OneWriterUntilWiped` |
| | `EveryAnswerIsItsOwn` | `MaxSeq <= Named /\ Spec => AnswersItsQuestion` |
| | `NoFeedbackIsLost` | `Spec => []SpentIsProposed` |
| | `BrakesHold` | `Spec => []OneCallOver` |
| `DoorsProofs` | `JournalIsOnThePlan` | `Spec => []AnswersReachThePlan` |
| | `StampIsKept` | `Spec => Plan!FinalStands`, a conjunct of `DoorsAnswer` |
| | `LinksAreSound` | `Spec => []NoEntryAfterTheEnd` |
| | `CitationsAreEarned` | `Spec => []CitationsEarned` |
| `IntakeProofs` | `ReadingsAreHonest` | `Spec => []ReadingIsHonest` |
| | `SecondReadingIsPaidOnce` | `Spec => Reader!SecondReadOnce` |
| | `FrozenBriefStands` | `Spec => Brief!FreezeStands`, a conjunct of `IntakeSettles` |
| | `GatesAreHeld` | `Spec => []GatesHold` |
| `RecordsProofs` | `AcceptedStaysCarried` | `Spec => []AcceptedIsCarried` |
| | `GapsAreSettledOnce` | `Spec => GapsSettleOnce` |
| | `BundlesShipTheDraft` | `Spec => ConfirmShipsTheDraft` |
| | `VerdictsAreEarned` | `Measures => []TripwireFires` |
| | `NothingIsLostUnarchived` | `Measures => ReplacedIsArchived` |
| `KnowledgeBaseProofs` | `StoreTypeCorrect` | `Spec => []TypeOK` |
| | `ClosureIsLeast` | what the loop of a purge computes is the least closed set |
| | `HoldsAreKept` | `Spec => HeldKeepsSource` |
| | `OwnersAreNamed` | the record of a chunk's card names the client of its document |
| | `LineageIsKept` | `Spec => []LineageKept` |
| | `CleanVerdictsAreTrue` | `Spec => []CleanIsClean` |

What is assumed of the constants is what the code relies on: a value that stands for
"absent" is none of the values it is told from (`NoneAssumption`, `LockConstants`,
`HandoffAssumption`, `LearnConstants`), bounds are naturals (`BoundAssumption`), prices
are naturals and one is the dearest, as an answer has a length limit
(`SpendAssumption`), there is a pursuit (`PursuitAssumption`), the gaps planned for are
not numbered like those a review raises (`DoorAssumption`), what a learner is given is
finite (`LearnConstants`), documents are numbered from one (`ReaderAssumption`), there
is a package to read (`BriefAssumption`), a card is no URL (`SlateAssumption`), a lesson
is for a card or is a note (`CurationConstants`), an organisation may be on file before
the pursuits are (`ReviewAssumption`), and the container's forms are a list without
repetition, none of them called like the render or the fill (`ExportConstants`). Chunks
are finitely many, what is compared for similarity is chunks, and the id of a claim is no
chunk's (`IdAssumption`, `DuplicateAssumption`): an id is a digest of the text it stands
for. The cells and speeds of a corpus are texts and naturals, an engine's suites are
numbered, and at most one of a baseline and its lock is edited by hand: two edits that
agree measure nothing and no digest can tell (`GateConstants` and `EvalBounds`, in
`MeasureConstants`). TLC evaluates each of them in the runs.

### PlanLane

`ExportSound` speaks only of states in which the export check passes, and is not
inductive: what makes it true was established when a stage resumed a checkpoint.
`LaneBound` says it of all files at all times: prose in the drafting checkpoint
belongs to the plan that checkpoint names, a complete envelope's prose to the plan
the envelope names, verdicts to the envelope the validation checkpoint names, the
memory of a running stage to the files it started from, and the annotated draft is
a sound response to *some* plan. Only then does the export check, which compares
three hashes, imply that it is a response to the vouched one.

`RecordNamesApprover` needs `GateBound`: while a decision is between its freeze and
its record, the freeze carries the key of the request that is running. This is where
the code's rule that a stamp is completed only by its own request is used.

The action properties follow from `TypeOK` and the guards step by step; the
interesting cases are the approve step on a stamped plan, the archive step of an
addendum that already holds a freeze, and, for `PaidOnce`, the resume of a drafting
checkpoint (the memory of a run holds what the checkpoint held when it was resumed).
The refinement maps a vouched freeze to a granted authority; a step of the lane that
is not an approval, a supersession or an export leaves the mapped state alone.

### JobRunner

`IInv` has four parts. `Shape` are the types. `Lane` says where a job is: being
added, waiting or with the worker, with the registry and the journal in agreement
about it, and a job whose work is done past the point where it can be skipped.
`Guarding` says that whoever is between the mint of a run and its end holds the
guard, and that the newest run of the pursuit is the one it minted: this is what
makes mints serial, and what the read of the directory in `mint` relies on.
`OpenRuns` accounts for a run that stands open: without a failed write it is the
newest of its pursuit, and its job is with the worker or, while a restart replays
the journal, still to be replayed. `RunsAreSound` and both halves of `HistoryStands`
follow from these.

### ReviewRound

The hard part is a commit that is cut off and resumed in a later round, from files
that are half old and half new. `Numbering` says which revision a round writes and
that the annotated draft lags behind the envelope only while a commit is open;
`Audit` which verdicts are of which prose on disk, `InMemory` the same of what a
round holds; `Items`, `Landing` where a comment or an edit is, that cids are given out
once, and that an item is dropped only after it is on the record; `Archive` that a
revision is written over only after it was archived; `Voices` that an agent is asked
again about a comment only while the commit that consumes it is open, from which
a section that is called revised has prose it did not have (`RevisionMoves`).

### SliceLock, Handoff, LearnLane and SpendGate

`LockInv`: a process past its `flock` owns the file it has open and the other way
round, and until a `--fresh` comes as far as its wipe all open files are one. The
property cannot go further, and `SliceLock.OneWriter` among the refuted claims says why.

`ExchangeInv`: past the number the server counts to nothing is on disk; a request
lies under its own number; an answer that names the number it is saved under was
given for the request there. The hypothesis `MaxSeq <= Named` is the code's: a
restart counts the files whose names have four digits, so exchange 10000 would not
be counted and its number would be given out again. The run has it as its bound.

`LearnInv` says, stage by stage, what the learner that holds the lock has in hand:
the proposals it has opened or has still to open, events all of whose proposals are
opened before their mark is written, gaps whose proposals carry no name once the
alias is known. A learner that is killed leaves the lock, and the next one starts
from what is on disk, which `Lessons` describes.

`SpendInv`: while no brake has fired the shared budget and the meter of the open run hold
what the traces say, both within their limits, and runs to come have spent nothing
(`Metered`); a call's requests are its retries, and one more once it fell back
(`Laddered`). What a log says was spent is a sum over its lines, so each step needs that
one more line adds its cost (`SumGrows`, `TraceGrows`): the running totals of a sequence
exist and agree on a common prefix, by a least counterexample (`WFMin` over the naturals),
which is how this prover does an induction that needs no operator parameter.

### PlanDoor, ShareDoor and AssistantLane

`PlanInv`: a request is inside the guard exactly while it holds it (`Inside`); the
comments on their way are counted among the requests (`Heard`); unless a stale copy
was written or a crash fell in between, the journal of pings agrees with the live
plan, and with the copy a handler is about to write (`Journal`); such a copy keeps the stamp of
an accept (`Stamped`).

`ShareInv`: the lines of links are numbered as they were minted (`NumberedLinks`);
a clerk's order is one the file knows of (`Ordered`); what a guest was told at the
door follows from lines that were there, and lines are never taken away (`Screened`).

`SessionInv`: all that a turn has earned, is about to write or has written was opened
by a line of the log (`Earned`); what a turn writes is its message and then what
answered it (`Tails`); and while no two turns have overlapped, the one in the air goes
on where the log ends and holds the next ordinal until its message is written
(`Lone`), which is why a crash between the two records leaves no ordinal twice.

### DocumentReader, BriefLane and ThemeSlate

`ReaderInv`: the parser is at work on a document of the package, and second readings
come before the checkpoint (`AtWork`), from which no second reading is paid twice; from
its write on the record is what the run has in memory, unless the run looked behind the
checkpoint (`OnTheRecord`), so that its brief is paid for the readings on record; a
reading in memory or on record is marked unless its text is full (`Truthful`); of the
documents whose turn in the second round is over, those of tables nobody confirmed
are marked (`Compared`).

`BriefInv`: what holds of the files at each step of the job or the decision that has
the lane (`AtStep`); how the checkpoints depend on each other, so that nothing made
from a replaced reading is left and a frozen brief is the brief, approved (`Follows`);
the lines of a gate are of one decision, the one on the brief (`OneWord`); while
nobody approved a brief that had been sent back, research was paid for approved
readings only (`OnTime`); and calls exceed checkpoints by no more than the halts
(`Paid`).

`SlateInv`: sources are known before the themes that cite them (`Known`), a theme of
the model's cites findings and is numbered by its place (`Cited`), no more of the
model's themes stand than the judge's window (`Judged`), what was approved is what the
slate says (`Closed`). `NthIsThere` and `FirstOnes` are the lemmas about the window:
that the k-th of a set of positions is one of them, and that the first n of them are n.

### CurationLane, IntakeReview and ExportDoors

`CurateInv`: what a merge has staged is open and told apart, and what it is about to
decide is in the store (`Staged`); without a fault a lesson is on its card only if it
was accepted or is next to be (`Untouched`), which is what makes it land once; what was
accepted is on a line of the log or on the one this merge will write (`Accounted`).

`ReviewInv`: a request's copy of the brief keeps every gap the saved one has settled, and
names as corrected whatever text it changes (`Fitting`), which is why a save that
overwrites the file loses no answer; organisations are numbered under the lock, so the
mints are as many as the numbers given out, and whoever is about to mint has the next
(`Minting`).

`ExportInv`: the lanes of a request that are still to come, those it refused and those
it made are told apart and make up all the plan is bound to (`Queue`); the file of the
lane it is at is this request's, of the live draft, and so is every lane a confirm made;
a lane that was scanned and is not begun has a text that was not known to name anybody
when its turn came, nor do its typed values, which the guard holds still (`InHand`); the
facts of a lane are of bytes that were proved and of no later run than the bytes on disk
(`Filed`). `ProducedIsProved` is inductive beside these because only
`Compose` writes the bundle, and it compares the digest on disk with the facts'.

### ExtractionGate and EvalRelease

`GateInv` adds to the type invariant that a verdict which is not a rejection was given
over the labelled table; the three other parts of `TripwireFires` hold of every corpus
and are lemmas about the operators. `TripwireSound`: the diff looks at every cell of
either grid (`PositionsCover`) and from both sides at the same ones. A cell
that is right in one path is a cell of it, so the diff looks there, and where it finds
the two alike the other is right too. `EndsCutOff`: the right cells of a grid cut off
below and to the right are among those of the whole. `PercentileIsLargest`: at up to
ten values the rounded place is the last (`LastPlace`), and the value in the last place
is the one with all others below it, which exists by the well-foundedness of the
naturals (`SomeIsLargest`).

`EvalInv`: the arm's open run is the newest one, its report is what that run measured,
and before it writes, what it replaces is in the history (`Working`); baselines and
locks are of runs that were minted, and of earlier ones than the one under way (`Aged`);
a baseline its lock agrees with was measured (`Locked`). `Aged` is why: after a death
between the two writes a new baseline lies beside an old lock, and the two cannot agree
because no lock is of the new run yet. While nobody edited by hand every baseline was
measured, and one edit of one file makes the pair disagree; this is the half of `Locked`
that the assumption on hand edits is for. `Recorded` says that a record that passes
stands on measures and that what a record under way replaces is archived.

### KnowledgeBase

`ClosureIsLeast` is the lemma about the loop: a pass that adds nothing has reached a
closed set, and one that adds something has made the set larger, which can happen no
more often than there are ids (`CountUp` takes the place of an induction rule, from the
well-foundedness of the naturals). `Passes` are the values the loop goes through.

`HoldInv`: an ingest beside a purge is known to it (`Alone`), and while a purge that ran
alone has sources to remove, a held card it covers is still to come or has its document
kept, and a document on its list is the client's own or was there twice (`Holding`).

`LineageKept` is not inductive, since a record may go while others hang by it, and since
what a card's record says is decided steps before it is written. For the card of a chunk
its own record must name everybody: `Direct` says so, `InHand` says it of the copies an
ingest has in hand, and lets a merge drop a record only when the survivor's says no less.
For the card of a claim, whose record names nobody, `Traced` says that the records lead
to it. A purge could break that by removing a record on the way. `Covering` is why it
does not: there is a set that holds all it has still to remove, that nothing leaves along
derivation or absorption, and whose members are to go, gone or passed over. The lineage of
the client at the start of the purge is such a set, as `ClosureIsLeast` shows, and
`LineBeside` that what is outside such a set loses nothing when a record inside it goes.
The other lemmas on `Line`, the lineage as a function of the records, say which changes
of a record leave it alone: one that says more (`LineGrows`), one of a claim's card
(`LineOfOthers`), one that another has taken over (`LineOfMerged`).

`CleanIsClean` is about what is left when a purge says so, and about every later step.
`CleanInv` has the two halves. While a purge that no ingest ran beside is under way,
`Going` says that whatever is left of its client is still on its list or was passed over:
at its start by `LineageKept` (what the records do not lead to has slipped already), then
by each step, which takes from the list only what it removes; `Backed` accounts for the
models, which have no list of their own (a model no purge passed over lies beside its
document), and `OnHold` for what is kept (nothing is while nothing was put on hold). At
the sweep the lists are empty, and what is left was passed over. Afterwards `Quiet` and
`Batch` keep the verdict true: an ingest that runs is of another client, so what it
writes, folds or mints holds no material of a clean one but what was passed over
(`Quiet`); a merge batch may accept a claim that came from what was passed over, and
`Batch` says that nothing else of a clean client gets into the new card. That last case
was met when the proof of it failed: at larger bounds TLC found a claim accepted after a
clean verdict from a proposal the purge had passed over, whose card counted as leftover;
`cur.loose` now remembers it, and the exception is in the property's comment.

### Only model-checked

* The liveness properties (`FirstApprovalCompletes`, `CommitConverges`,
  `EveryJobEnds`, `IntakeSettles`, `DoorsAnswer`, `WalksEnd`): fairness and `ENABLED` are
  outside what this prover does.
* `AssistantLane.LoneTurnsBrake`: a sum over the log of a session, like `OneCallOver`, but
  written with a fold over sets, whose induction is over sets; and `SpendGate`'s
  `EveryCallEnds`, liveness again, beside `BrakeIsFinal` among `WalksEnd`.
* `DraftRouting.NoSilentMiss` and `ReplayLane.PassMeansWithheld`: what folds over sections and
  cards and the sorting of hits compute, which takes an induction over data.

## 5. Plan

The components and properties that were planned are modelled and checked. What is left is
to prove, and waits for a prover with induction over data: `NoSilentMiss` (sections and
lanes are built slot by slot), `PassMeansWithheld` (hits are sorted) and `LoneTurnsBrake`
(costs are summed). No module declares a RECURSIVE operator.

## 6. Not modelled

* File formats and text: document parsing, claim detection, anonymisation, the bytes
  of docx and xlsx, prompt frames. They are sequential functions whose difficulty is in
  bytes, not in states; where a property depends on one, the module models what it does.
* The metric views over run logs, the read-only routes, the advisor and the trace
  viewer: they print what the rest writes.
* Sessions, sign-in, headers and limits of the web server, which guard requests and
  keep no protocol state.
* Gate 2's section edits (kill, merge), waivers, the upload of an addendum and its
  note-only decision, an addendum replan between two review rounds.
* Knowledge base: documents of several chunks, the lanes of a pursuit and of the
  organisation, the dry run, a purge during a merge of proposals.
* Two release records of one version under one stamp (`--at`), the second of which is
  not archived.
* Learning from the write-back, the content of review copies and the per-cell
  write-back, two `--fresh` that wipe one workspace at once.
* `DraftRouting` with questions in a circle is stated (`CrossFollow`) and not run;
  `answered`, `reframed` and `draft_flagged` gaps route alike and are one value, as
  are `open` and `pinged`.
