--------------------------- MODULE DocumentReader ---------------------------
(***************************************************************************)
(* How intake reads the buyer's documents (cli/intake.py, extraction/,     *)
(* intake/extract.py, intake/brief.py:370-478).  A pdf or docx is parsed by *)
(* a jailed child, in this process's container or through docker; what the *)
(* child leaves decides between its view, the legacy parser, and the end of *)
(* the run.  A pdf with tables is read twice.  The record of the readings  *)
(* and the checkpoint are two writes; a resumed run reads all texts again, *)
(* and behind the checkpoint it uses what it reads without a record.       *)
(*                                                                         *)
(* A document's fields "text" and "agreed" are history: what its text came *)
(* from, and whether a second reading agreed with its tables.              *)
(***************************************************************************)
EXTENDS Naturals, FiniteSets

CONSTANTS Format,       \* of each document, 1..n: "pdf", "docx" or "other"
          MaxRuns       \* bound

Docs == DOMAIN Format

\* Assumed of the constants wherever this module is instantiated.
ReaderAssumption == MaxRuns \in Nat /\ IsFiniteSet(Docs) /\ Docs = 1..Cardinality(Docs)

VARIABLES route,        \* where docling can be reached: container, docker, none
          override,     \* RFP_EXTRACTION_FALLBACK is set
          intact,       \* the weights tree is the one of the manifest
          run,          \* phase of the run
          cur,          \* the document it is at
          child,        \* the jailed parser: what it left, or "running"
          docs,         \* readings of this run, in memory
          record,       \* extraction.json
          done,         \* intake is in checkpoints.json
          behind,       \* this run found intake in checkpoints.json
          runs

vars == <<route, override, intact, run, cur, child, docs, record, done, behind, runs>>
world == <<route, override, intact>>

Unread == [by |-> "none", text |-> "none", tables |-> FALSE, agreed |-> FALSE,
           degraded |-> FALSE, flags |-> {}]
Results == {"ok", "partial", "malformed", "error", "absent", "torn", "timeout"}
FlagWords == {"partial_extraction", "layout", "docling_fallback", "legacy_extractor",
              "two_path_divergence", "two_path_unavailable"}
Readings == [by : {"none", "docling", "legacy"}, text : {"none", "full", "part", "legacy"},
             tables : BOOLEAN, agreed : BOOLEAN, degraded : BOOLEAN, flags : SUBSET FlagWords]

TypeOK ==
    /\ route \in {"container", "docker", "none"} /\ {override, intact, done} \subseteq BOOLEAN
    /\ run \in {"idle", "reading", "second", "record", "checkpoint", "brief", "ended", "refused", "escaped"}
    /\ cur \in Docs \cup {Cardinality(Docs) + 1}
    /\ child \in Results \cup {"none", "running"}
    /\ \A d \in Docs : docs[d] \in Readings /\ record[d] \in Readings
    /\ behind \in BOOLEAN /\ runs \in 0..MaxRuns

Init ==
    /\ route \in {"container", "docker", "none"} /\ override \in BOOLEAN /\ intact \in BOOLEAN
    /\ run = "idle" /\ cur = 1 /\ child = "none" /\ done = FALSE /\ behind = FALSE
    /\ docs = [d \in Docs |-> Unread] /\ record = [d \in Docs |-> Unread] /\ runs = 0

Parsed(d) == Format[d] \in {"pdf", "docx"}
\* resolve_backend; its constructor verifies the weights or raises.  Both ends of
\* the run come before any document is read.
Needed == \E d \in Docs : Parsed(d)
Backend == Needed /\ ~override
Available == route # "none" /\ intact

Start ==
    /\ run \in {"idle", "refused", "escaped"} /\ runs < MaxRuns
    /\ runs' = runs + 1
    /\ run' = IF Backend /\ ~Available THEN "refused" ELSE "reading"
    /\ cur' = 1 /\ docs' = [d \in Docs |-> Unread] /\ child' = "none" /\ behind' = FALSE
    /\ UNCHANGED <<world, record, done>>

---------------------------------------------------------------------------
Spawn ==
    /\ child = "none" /\ cur \in Docs
    /\ \/ run = "reading" /\ Backend /\ Parsed(cur)
       \/ run = "second" /\ Format[cur] = "pdf" /\ docs[cur].by = "docling" /\ docs[cur].tables
    /\ child' = "running"
    /\ UNCHANGED <<world, run, cur, docs, record, done, behind, runs>>

ChildEnds(result) ==         \* it may die in any way it likes, or never
    /\ child = "running" /\ result \in Results \ {"timeout"}
    /\ child' = result
    /\ UNCHANGED <<world, run, cur, docs, record, done, behind, runs>>

\* Mutant: the parent waits without a limit.
WaitForever == FALSE
WallClock == child = "running"

Timeout ==                   \* the whole process group is killed
    /\ WallClock /\ child' = "timeout"
    /\ UNCHANGED <<world, run, cur, docs, record, done, behind, runs>>

\* In the container a result file that does not parse raises out of the sandbox;
\* through docker it is a failure like the others.
Escapes == child = "torn" /\ route = "container"
Viewed == child \in {"ok", "partial"}
Failed == child \in Results /\ ~Viewed /\ ~Escapes

FromView(tables, layout) ==  \* layout: a logo, a signature, several columns
    [by |-> "docling", text |-> IF child = "ok" THEN "full" ELSE "part", tables |-> tables,
     agreed |-> FALSE, degraded |-> child = "partial",
     flags |-> (IF child = "partial" THEN {"partial_extraction"} ELSE {})
               \cup (IF layout THEN {"layout"} ELSE {})]

Legacy(flag) == [Unread EXCEPT !.by = "legacy", !.text = "legacy", !.degraded = TRUE,
                               !.flags = {flag}]
Plain == [Unread EXCEPT !.by = "legacy", !.text = "full"]    \* xlsx and text files

Keep(reading) ==
    /\ docs' = [docs EXCEPT ![cur] = reading] /\ cur' = cur + 1 /\ child' = "none"
    /\ UNCHANGED <<world, run, record, done, behind, runs>>

TakeView == \E tables, layout \in BOOLEAN :
    run = "reading" /\ Viewed /\ Keep(FromView(tables, layout))
FallBack == run = "reading" /\ Failed /\ Keep(Legacy("docling_fallback"))
ReadPlain ==
    /\ run = "reading" /\ cur \in Docs /\ child = "none" /\ ~(Backend /\ Parsed(cur))
    /\ Keep(IF Parsed(cur) THEN Legacy("legacy_extractor") ELSE Plain)

Stop(how) == run' = how /\ child' = "none"
             /\ UNCHANGED <<world, cur, docs, record, done, behind, runs>>
Unreadable ==                \* the parser of last resort fails, or there is no text
    /\ run = "reading" /\ cur \in Docs
    /\ Viewed \/ Failed \/ (child = "none" /\ ~(Backend /\ Parsed(cur)))
    /\ Stop("refused")
Escape == run \in {"reading", "second"} /\ Escapes /\ Stop("escaped")

AfterReading == IF done THEN "brief" ELSE "second"
AllRead ==                   \* the checkpoint is looked up once, here
    /\ run = "reading" /\ cur \notin Docs /\ run' = AfterReading /\ cur' = 1 /\ behind' = done
    /\ UNCHANGED <<world, child, docs, record, done, runs>>

---------------------------------------------------------------------------
\* The second reading of a pdf's tables; its view is compared and dropped.
Due == run = "second" /\ cur \in Docs
Pair(flags, agreed) == Keep([docs[cur] EXCEPT !.flags = @ \cup flags, !.agreed = agreed])
Agree == Due /\ Viewed /\ Pair({}, TRUE)
Diverge == Due /\ Viewed /\ Pair({"two_path_divergence"}, FALSE)
\* Mutant: a second reading that cannot run says nothing.
Silent == {}
OnFailure == {"two_path_unavailable"}
NoSecond == Due /\ Failed /\ Pair(OnFailure, FALSE)
Single == Due /\ child = "none" /\ ~(Format[cur] = "pdf" /\ docs[cur].by = "docling" /\ docs[cur].tables)
          /\ Pair({}, FALSE)
Paired == run = "second" /\ cur \notin Docs /\ Stop("record")

WriteRecord ==
    /\ run = "record" /\ record' = docs /\ run' = "checkpoint"
    /\ UNCHANGED <<world, cur, child, docs, done, behind, runs>>
Checkpoint ==
    /\ run = "checkpoint" /\ done' = TRUE /\ run' = "brief"
    /\ UNCHANGED <<world, cur, child, docs, record, behind, runs>>
Call ==                      \* paid for the readings in memory, which stay as they are
    /\ run = "brief" /\ run' = "ended"
    /\ UNCHANGED <<world, cur, child, docs, record, done, behind, runs>>

Crash ==
    /\ run \notin {"idle", "ended"} /\ run' = "idle" /\ child' = "none"
    /\ cur' = 1 /\ docs' = [d \in Docs |-> Unread] /\ behind' = FALSE
    /\ UNCHANGED <<world, record, done, runs>>

Reader == Spawn \/ Timeout \/ TakeView \/ FallBack \/ ReadPlain \/ Unreadable \/ Escape
          \/ AllRead \/ Agree \/ Diverge \/ NoSecond \/ Single \/ Paired
          \/ WriteRecord \/ Checkpoint \/ Call
Next == Start \/ (\E r \in Results : ChildEnds(r)) \/ Reader \/ Crash
Spec == Init /\ [][Next]_vars /\ WF_vars(Reader)

---------------------------------------------------------------------------
\* What a reading is worth: the full text, and a pdf's tables confirmed.
Sound(d, reading) ==
    /\ reading.text = "full"
    /\ (Format[d] = "pdf" /\ reading.by = "docling" /\ reading.tables) => reading.agreed
Marked(reading) == reading.degraded \/ reading.flags # {}

\* A weaker text is never taken for a full one: what docling read in part, what
\* the legacy parsers read for it, and tables that no second reading confirmed
\* are marked for review in the record, over crashes and retries.  The brief of a
\* run that looked before there was a checkpoint is paid for the very readings on
\* record; a run that resumes behind the checkpoint reads without a record
\* (BriefTextIsMarked, below) (brief.py:397-461, 491-499, extract.py:360-376, 393-414).
WeakTextIsReviewed ==
    /\ \A d \in Docs : record[d].by # "none" /\ ~Marked(record[d]) => Sound(d, record[d])
    /\ run \in {"brief", "ended"} /\ ~behind => docs = record

\* And what lost content says so itself, whatever else is flagged: on record, and
\* in the memory of every run, also behind the checkpoint (extract.py:364-368, 393-414).
LossIsDegraded == \A d \in Docs : \A reading \in {record[d], docs[d]} :
    reading.text \in {"part", "legacy"} => reading.degraded

\* The second reading is paid once: a run that resumes after the checkpoint never
\* starts one (brief.py:411-412).
SecondReadOnce == [][done => run' # "second"]_vars

\* A run ends or the process dies, even when a parser hangs (sandbox.py:82-91).
RunEnds == run = "reading" ~> run \in {"idle", "ended", "refused", "escaped"}

\* "A malformed document may kill the parse and nothing else" (sandbox.py:7-8).
OnlyTheParseDies == run # "escaped"

\* "Degraded extraction still ingests, flagged" (brief.py:434): every text that the
\* brief is paid for is full or marked on record.
BriefTextIsMarked ==
    run \in {"brief", "ended"} => \A d \in Docs : Marked(record[d]) \/ docs[d].text = "full"
=============================================================================
