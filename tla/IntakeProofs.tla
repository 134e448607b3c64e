---------------------------- MODULE IntakeProofs ----------------------------
(***************************************************************************)
(* Theorems about the front half of a pursuit: the reading of documents,   *)
(* for any package and number of runs, the brief through Gate 0, research  *)
(* and Gate 1, for any requests and bounds, and the slate of themes, for   *)
(* any cards, URLs and bounds.                                             *)
(***************************************************************************)
EXTENDS MCIntake, Sequences, FiniteSetTheorems, SequenceTheorems, WellFoundedInduction, TLAPS

-----------------------------------------------------------------------------
(* The reader of documents                                                 *)

ReaderTypes ==
    /\ Reader!TypeOK
    /\ docs \in [Reader!Docs -> Reader!Readings] /\ record \in [Reader!Docs -> Reader!Readings]

\* A parser is at work on a document, the second readings come before the checkpoint, and only
\* a brief is prepared behind it.
AtWork ==
    /\ child # "none" => cur \in Reader!Docs /\ run \in {"reading", "second"}
    /\ run = "second" => ~done
    /\ behind => run \in {"brief", "ended"}

\* From its write on the record is what the run has in memory, unless the run looked later.
OnTheRecord == run \in {"checkpoint", "brief", "ended"} /\ ~behind => record = docs

\* What a reading says of its text is so, in memory and on record.
Honest(reading) ==
    /\ reading.text \in {"part", "legacy"} => reading.degraded
    /\ reading.by # "none" /\ ~reading.degraded /\ reading.flags = {} => reading.text = "full"
Truthful == \A d \in Reader!Docs : Honest(docs[d]) /\ Honest(record[d])

\* A pdf's tables are confirmed or flagged once its turn in the second round is over.
Confirmed(d, reading) ==
    Format[d] = "pdf" /\ reading.by = "docling" /\ reading.tables /\ reading.flags = {}
    /\ ~reading.degraded => reading.agreed
Compared ==
    /\ \A d \in Reader!Docs : Confirmed(d, record[d])
    /\ run = "second" => \A d \in Reader!Docs : d < cur => Confirmed(d, docs[d])
    /\ run = "record" => \A d \in Reader!Docs : Confirmed(d, docs[d])

ReaderInv == ReaderTypes /\ AtWork /\ OnTheRecord /\ Truthful /\ Compared

\* What is assumed of the reader's constants.
LEMMA ReaderConstants ==
    /\ MaxRuns \in Nat /\ IsFiniteSet(Reader!Docs) /\ Cardinality(Reader!Docs) \in Nat
    /\ Reader!Docs = 1..Cardinality(Reader!Docs)
    /\ Reader!Cardinality(Reader!Docs) = Cardinality(Reader!Docs)
<1>1. \A S : Reader!Cardinality(S) = Cardinality(S)
  BY DEF Reader!Cardinality, Cardinality
<1>2. \A S : Reader!IsFiniteSet(S) <=> IsFiniteSet(S)
  BY DEF Reader!IsFiniteSet, IsFiniteSet
<1> QED
  BY <1>1, <1>2, IntakeConstants, FS_CardinalityType DEF Reader!ReaderAssumption

\* A reading that is not there is one.
LEMMA UnreadIsHonest ==
    /\ Reader!Unread \in Reader!Readings /\ Honest(Reader!Unread)
    /\ \A d \in Reader!Docs : Confirmed(d, Reader!Unread)
BY DEF Reader!Unread, Reader!Readings, Reader!FlagWords, Honest, Confirmed

\* Nothing has been read.
LEMMA ReaderInit == Init => ReaderInv
<1> SUFFICES ASSUME Reader!Init PROVE ReaderInv
  BY DEF Init
<1>1. /\ docs = [d \in Reader!Docs |-> Reader!Unread] /\ record = docs
      /\ run = "idle" /\ cur = 1 /\ child = "none" /\ done = FALSE /\ behind = FALSE /\ runs = 0
      /\ route \in {"container", "docker", "none"} /\ override \in BOOLEAN /\ intact \in BOOLEAN
  BY DEF Reader!Init
<1>2. /\ \A d \in Reader!Docs : docs[d] = Reader!Unread /\ record[d] = Reader!Unread
      /\ docs \in [Reader!Docs -> Reader!Readings] /\ record \in [Reader!Docs -> Reader!Readings]
  BY <1>1, UnreadIsHonest
<1>3. cur \in Reader!Docs \cup {Reader!Cardinality(Reader!Docs) + 1} /\ runs \in 0..MaxRuns
  BY <1>1, ReaderConstants
<1>4. Reader!TypeOK
  BY <1>1, <1>2, <1>3 DEF Reader!TypeOK
<1> QED
  BY <1>1, <1>2, <1>4, UnreadIsHonest DEF ReaderInv, ReaderTypes, AtWork, OnTheRecord, Truthful, Compared

\* A reading is kept: it is the document's in memory, and the next one is due.
LEMMA ReaderKeeps ==
    ASSUME ReaderInv, NEW reading \in Reader!Readings, Reader!Keep(reading), cur \in Reader!Docs,
           run \in {"reading", "second"}, Honest(reading),
           run = "second" => Confirmed(cur, reading)
    PROVE  ReaderInv'
<1>0. ReaderTypes /\ AtWork /\ OnTheRecord /\ Truthful /\ Compared
  BY DEF ReaderInv
<1>1. /\ UNCHANGED <<route, override, intact, run, record, done, behind, runs>>
      /\ docs' = [docs EXCEPT ![cur] = reading] /\ cur' = cur + 1 /\ child' = "none"
  BY DEF Reader!Keep, Reader!world
<1>2. /\ docs' \in [Reader!Docs -> Reader!Readings]
      /\ \A d \in Reader!Docs : docs'[d] = IF d = cur THEN reading ELSE docs[d]
  BY <1>0, <1>1 DEF ReaderTypes
<1>3. cur' \in Reader!Docs \cup {Reader!Cardinality(Reader!Docs) + 1}
      /\ \A d \in Reader!Docs : d < cur' => d < cur \/ d = cur
  BY <1>1, ReaderConstants
<1>4. ReaderTypes'
  BY <1>0, <1>1, <1>2, <1>3 DEF ReaderTypes, Reader!TypeOK
<1>5. AtWork' /\ OnTheRecord'
  BY <1>0, <1>1 DEF AtWork, OnTheRecord
<1>6. Truthful'
  BY <1>0, <1>1, <1>2 DEF Truthful
<1>7. Compared'
  BY <1>0, <1>1, <1>2, <1>3 DEF Compared
<1> QED
  BY <1>4, <1>5, <1>6, <1>7 DEF ReaderInv

\* A first reading: the parser's view, the parser of last resort's, or a plain file's.
LEMMA ReaderReads ==
    ASSUME ReaderInv, Reader!TakeView \/ Reader!FallBack \/ Reader!ReadPlain
    PROVE  ReaderInv'
<1>0. AtWork
  BY DEF ReaderInv
<1>1. CASE Reader!TakeView
  <2>1. PICK tables \in BOOLEAN, layout \in BOOLEAN : Reader!Keep(Reader!FromView(tables, layout))
    BY <1>1 DEF Reader!TakeView
  <2>2. run = "reading" /\ child \in {"ok", "partial"}
    BY <1>1 DEF Reader!TakeView, Reader!Viewed
  <2>3. Reader!FromView(tables, layout) \in Reader!Readings /\ Honest(Reader!FromView(tables, layout))
    BY <2>2 DEF Reader!FromView, Reader!Readings, Reader!FlagWords, Honest
  <2> QED
    BY <1>0, <2>1, <2>2, <2>3, ReaderKeeps DEF AtWork
<1>2. \A flag \in {"docling_fallback", "legacy_extractor"} :
         Reader!Legacy(flag) \in Reader!Readings /\ Honest(Reader!Legacy(flag))
  BY DEF Reader!Legacy, Reader!Unread, Reader!Readings, Reader!FlagWords, Honest
<1>3. Reader!Plain \in Reader!Readings /\ Honest(Reader!Plain)
  BY DEF Reader!Plain, Reader!Unread, Reader!Readings, Reader!FlagWords, Honest
<1>4. CASE Reader!FallBack
  <2>1. run = "reading" /\ child # "none" /\ Reader!Keep(Reader!Legacy("docling_fallback"))
    BY <1>4 DEF Reader!FallBack, Reader!Failed, Reader!Results
  <2> QED
    BY <1>0, <1>2, <2>1, ReaderKeeps DEF AtWork
<1>5. CASE Reader!ReadPlain
  <2>1. /\ run = "reading" /\ cur \in Reader!Docs
        /\ \/ Reader!Keep(Reader!Legacy("legacy_extractor"))
           \/ Reader!Keep(Reader!Plain)
    BY <1>5 DEF Reader!ReadPlain
  <2> QED
    BY <1>2, <1>3, <2>1, ReaderKeeps
<1> QED
  BY <1>1, <1>4, <1>5

\* A second reading confirms the tables, flags them, or has none to compare.
LEMMA ReaderCompares ==
    ASSUME ReaderInv, Reader!Agree \/ Reader!Diverge \/ Reader!NoSecond \/ Reader!Single
    PROVE  ReaderInv'
<1>0. /\ run = "second" /\ cur \in Reader!Docs /\ docs[cur] \in Reader!Readings /\ Honest(docs[cur])
      /\ Reader!Due
  BY DEF ReaderInv, ReaderTypes, Truthful, Reader!Agree, Reader!Diverge, Reader!NoSecond,
         Reader!Single, Reader!Due
<1>1. ASSUME NEW flags \in SUBSET Reader!FlagWords, NEW agreed \in BOOLEAN,
             Reader!Pair(flags, agreed),
             agreed \/ flags # {} \/ ~(Format[cur] = "pdf" /\ docs[cur].by = "docling" /\ docs[cur].tables)
      PROVE  ReaderInv'
  <2> DEFINE all == docs[cur].flags \cup flags
             reading == [docs[cur] EXCEPT !.flags = all, !.agreed = agreed]
  <2>1. Reader!Keep(reading)
    BY <1>1 DEF Reader!Pair
  <2>2. all \in SUBSET Reader!FlagWords /\ (all = {} => docs[cur].flags = {} /\ flags = {})
    BY <1>0, <1>1 DEF Reader!Readings
  <2> HIDE DEF all
  <2>3. /\ reading \in Reader!Readings /\ reading.text = docs[cur].text /\ reading.by = docs[cur].by
        /\ reading.degraded = docs[cur].degraded /\ reading.tables = docs[cur].tables
        /\ reading.flags = all /\ reading.agreed = agreed
    BY <1>0, <1>1, <2>2 DEF Reader!Readings
  <2> HIDE DEF reading
  <2>4. Honest(reading)
    BY <1>0, <2>2, <2>3 DEF Honest
  <2>5. Confirmed(cur, reading)
    BY <1>0, <1>1, <2>2, <2>3 DEF Confirmed
  <2> QED
    BY <1>0, <2>1, <2>3, <2>4, <2>5, ReaderKeeps
<1>2. CASE Reader!Agree
  BY <1>1, <1>2 DEF Reader!Agree
<1>3. CASE Reader!Diverge
  BY <1>1, <1>3 DEF Reader!Diverge, Reader!FlagWords
<1>4. CASE Reader!NoSecond
  BY <1>1, <1>4 DEF Reader!NoSecond, Reader!OnFailure, Reader!FlagWords
<1>5. CASE Reader!Single
  BY <1>1, <1>5 DEF Reader!Single
<1> QED
  BY <1>2, <1>3, <1>4, <1>5

\* The rest of the steps move the run along, or end it.
LEMMA ReaderMoves ==
    ASSUME ReaderInv,
           \/ Reader!Start \/ Reader!Spawn \/ Reader!Timeout \/ Reader!Unreadable \/ Reader!Escape
           \/ Reader!AllRead \/ Reader!Paired \/ Reader!WriteRecord \/ Reader!Checkpoint
           \/ Reader!Call \/ Reader!Crash \/ \E r \in Reader!Results : Reader!ChildEnds(r)
    PROVE  ReaderInv'
<1>0. ReaderTypes /\ AtWork /\ OnTheRecord /\ Truthful /\ Compared
  BY DEF ReaderInv
<1>a. \A d \in Reader!Docs : ~(d < 1)
  BY ReaderConstants
<1>b. 1 \in Reader!Docs \cup {Reader!Cardinality(Reader!Docs) + 1}
  BY ReaderConstants
<1>1. CASE Reader!Start \/ Reader!Crash
  <2>1. /\ UNCHANGED <<route, override, intact, record, done>>
        /\ docs' = [d \in Reader!Docs |-> Reader!Unread] /\ cur' = 1 /\ child' = "none"
        /\ behind' = FALSE
        /\ run' \in {"refused", "reading", "idle"} /\ runs' \in 0..MaxRuns
    BY <1>0, <1>1, ReaderConstants
       DEF Reader!Start, Reader!Crash, Reader!world, ReaderTypes, Reader!TypeOK
  <2>2. /\ docs' \in [Reader!Docs -> Reader!Readings] /\ \A d \in Reader!Docs : docs'[d] = Reader!Unread
    BY <2>1, UnreadIsHonest
  <2>3. ReaderTypes'
    BY <1>0, <1>b, <2>1, <2>2 DEF ReaderTypes, Reader!TypeOK
  <2>4. AtWork' /\ OnTheRecord' /\ Truthful' /\ Compared'
    BY <1>0, <2>1, <2>2, UnreadIsHonest DEF AtWork, OnTheRecord, Truthful, Compared
  <2> QED
    BY <2>3, <2>4 DEF ReaderInv
<1>2. CASE Reader!Spawn \/ Reader!Timeout \/ \E r \in Reader!Results : Reader!ChildEnds(r)
  <2>1. /\ UNCHANGED <<route, override, intact, run, cur, docs, record, done, behind, runs>>
        /\ child' \in Reader!Results \cup {"running"}
        /\ cur \in Reader!Docs /\ run \in {"reading", "second"}
    BY <1>0, <1>2 DEF Reader!Spawn, Reader!Timeout, Reader!ChildEnds, Reader!WallClock,
                      Reader!world, Reader!Results, AtWork
  <2> QED
    BY <1>0, <2>1 DEF ReaderInv, ReaderTypes, Reader!TypeOK, AtWork, OnTheRecord, Truthful, Compared
<1>3. CASE Reader!Unreadable \/ Reader!Escape \/ Reader!Paired
  <2>1. /\ UNCHANGED <<route, override, intact, cur, docs, record, done, behind, runs>>
        /\ run \in {"reading", "second"}
        /\ child' = "none" /\ run' \in {"refused", "escaped", "record"}
        /\ run' = "record" => run = "second" /\ cur \notin Reader!Docs
    BY <1>3 DEF Reader!Unreadable, Reader!Escape, Reader!Paired, Reader!Stop, Reader!world
  <2>2. run' = "record" => \A d \in Reader!Docs : d < cur
    BY <1>0, <2>1, ReaderConstants DEF ReaderTypes, Reader!TypeOK
  <2> QED
    BY <1>0, <2>1, <2>2 DEF ReaderInv, ReaderTypes, Reader!TypeOK, AtWork, OnTheRecord, Truthful, Compared
<1>4. CASE Reader!AllRead
  <2>1. /\ UNCHANGED <<route, override, intact, child, docs, record, done, runs>>
        /\ behind' = done /\ run = "reading" /\ cur \notin Reader!Docs /\ cur' = 1
        /\ run' = IF done THEN "brief" ELSE "second"
    BY <1>4 DEF Reader!AllRead, Reader!AfterReading, Reader!world
  <2> QED
    BY <1>0, <1>a, <1>b, <2>1
       DEF ReaderInv, ReaderTypes, Reader!TypeOK, AtWork, OnTheRecord, Truthful, Compared
<1>5. CASE Reader!WriteRecord
  <2>1. /\ UNCHANGED <<route, override, intact, cur, child, docs, done, behind, runs>>
        /\ run = "record" /\ record' = docs /\ run' = "checkpoint"
    BY <1>5 DEF Reader!WriteRecord, Reader!world
  <2> QED
    BY <1>0, <2>1
       DEF ReaderInv, ReaderTypes, Reader!TypeOK, AtWork, OnTheRecord, Truthful, Compared
<1>6. CASE Reader!Checkpoint \/ Reader!Call
  <2>1. /\ UNCHANGED <<route, override, intact, cur, child, docs, record, behind, runs>>
        /\ run \in {"checkpoint", "brief"} /\ run' \in {"brief", "ended"} /\ done' \in {TRUE, done}
    BY <1>6 DEF Reader!Checkpoint, Reader!Call, Reader!world
  <2> QED
    BY <1>0, <2>1
       DEF ReaderInv, ReaderTypes, Reader!TypeOK, AtWork, OnTheRecord, Truthful, Compared
<1> QED
  BY <1>1, <1>2, <1>3, <1>4, <1>5, <1>6

\* Whatever else moves leaves the reader alone.
LEMMA ReaderStays == ReaderInv /\ UNCHANGED readerVars => ReaderInv'
<1> SUFFICES ASSUME ReaderInv, UNCHANGED readerVars PROVE ReaderInv'
  OBVIOUS
<1>1. /\ UNCHANGED <<route, override, intact, run, cur, child, docs, record, done, behind, runs>>
      /\ ReaderTypes /\ AtWork /\ OnTheRecord /\ Truthful /\ Compared
  BY DEF readerVars, ReaderInv
<1>2. ReaderTypes'
  BY <1>1 DEF ReaderTypes, Reader!TypeOK
<1>3. AtWork' /\ OnTheRecord' /\ Truthful' /\ Compared'
  BY <1>1 DEF AtWork, OnTheRecord, Truthful, Compared
<1> QED
  BY <1>2, <1>3 DEF ReaderInv

\* The reader's invariant holds across every step of the composition.
LEMMA ReaderStep == ReaderInv /\ [Next]_vars => ReaderInv'
<1> SUFFICES ASSUME ReaderInv, [Next]_vars PROVE ReaderInv'
  OBVIOUS
<1>1. CASE Reader!Next
  BY <1>1, ReaderReads, ReaderCompares, ReaderMoves DEF Reader!Next, Reader!Reader
<1>2. CASE UNCHANGED readerVars
  BY <1>2, ReaderStays
<1> QED
  BY <1>1, <1>2 DEF Next, Read, Advance, Judge, vars

\* No reading on record claims more than it has: a text that is read in part or by a weaker
\* parser, and tables that no second reading confirmed, are marked for review in the record, and
\* a run that looked before there was a checkpoint pays for the brief of the very readings on
\* record, for any package, any number of runs and crashes between any two steps.  What a run
\* reads behind the checkpoint is on no record; of that the theorem says only that lost content
\* is marked in the reading itself (brief.py:397-461, 491-499, extract.py:360-414).
THEOREM ReadingsAreHonest == Spec => []ReadingIsHonest
<1>1. Init => ReaderInv
  BY ReaderInit
<1>2. ReaderInv /\ [Next]_vars => ReaderInv'
  BY ReaderStep
<1>3. ReaderInv => ReadingIsHonest
  <2> SUFFICES ASSUME ReaderInv PROVE ReadingIsHonest
    OBVIOUS
  <2>1. Reader!TypeOK /\ Reader!LossIsDegraded
    BY DEF ReaderInv, ReaderTypes, Truthful, Honest, Reader!LossIsDegraded
  <2>2. Reader!WeakTextIsReviewed
    BY DEF ReaderInv, OnTheRecord, Truthful, Honest, Compared, Confirmed,
           Reader!WeakTextIsReviewed, Reader!Marked, Reader!Sound
  <2> QED
    BY <2>1, <2>2 DEF ReadingIsHonest
<1> QED
  BY <1>1, <1>2, <1>3, PTL DEF Spec

\* A run that resumes after the checkpoint of intake starts no second reading.
THEOREM SecondReadingIsPaidOnce == Spec => Reader!SecondReadOnce
<1>1. Init => ReaderInv
  BY ReaderInit
<1>2. ReaderInv /\ [Next]_vars => ReaderInv'
  BY ReaderStep
<1>3. ReaderInv /\ [Next]_vars => [done => run' # "second"]_(Reader!vars)
  <2> SUFFICES ASSUME ReaderInv, Next, done, run' = "second" PROVE UNCHANGED Reader!vars
    BY DEF vars, readerVars, Reader!vars
  <2>1. run # "second"
    BY DEF ReaderInv, AtWork
  <2>2. CASE Reader!Next
    BY <2>1, <2>2 DEF Reader!Next, Reader!Reader, Reader!Start, Reader!ChildEnds, Reader!Spawn,
       Reader!Timeout, Reader!TakeView, Reader!FallBack, Reader!ReadPlain, Reader!Keep,
       Reader!Unreadable, Reader!Escape, Reader!Stop, Reader!AllRead, Reader!AfterReading,
       Reader!Agree, Reader!Diverge, Reader!NoSecond, Reader!Single, Reader!Due, Reader!Pair,
       Reader!Paired, Reader!WriteRecord, Reader!Checkpoint, Reader!Call, Reader!Crash, Reader!world
  <2>3. CASE UNCHANGED readerVars
    BY <2>3 DEF readerVars, Reader!vars
  <2> QED
    BY <2>2, <2>3 DEF Next, Read, Advance, Judge
<1> QED
  BY <1>1, <1>2, <1>3, PTL DEF Spec, Reader!SecondReadOnce

-----------------------------------------------------------------------------
(* The brief                                                               *)

Steps == {"idle", "reading", "assembling", "assembled", "internal", "external", "found", "cited",
          "themes", "judged", "unreading", "unbriefing", "sending", "stamping0", "logging0",
          "closing0", "stamping1", "freezing", "logging1", "closing1"}
Jobs == [at : Steps, req : Brief!Requests \cup {Absent}, pkg : 0..MaxPackages]
Lines == [what : {"spent", "sent_back", "gate_0", "gate_1"}, reading : 1..MaxReads,
          req : Brief!Requests \cup {Absent}]

BriefTypes ==
    /\ inbox \in 1..MaxPackages
    /\ cp = [s \in Brief!Stages |-> cp[s]]
    /\ cp["intake"] \in 1..MaxPackages \cup {Absent}
    /\ \A s \in {"bid_brief", "research_internal", "research_external", "win_themes"} :
          cp[s] \in 1..MaxReads \cup {Absent}
    /\ cp["gate_0"] \in Approvals \cup {Absent} /\ cp["gate_1"] \in Brief!Requests \cup {Absent}
    /\ brief \in Brief!Briefs \cup {Absent} /\ frozen \in Brief!Briefs \cup {Absent}
    /\ job \in Jobs
    /\ journal \subseteq Lines
    /\ reads \in 0..MaxReads /\ rejections \in 0..MaxRejections /\ halts \in 0..MaxHalts
    /\ calls \in Nat /\ late \in BOOLEAN

Researching == {"internal", "external", "found", "cited", "themes", "judged"}
Stamped0 == {"logging0", "closing0"}
Stamped1 == {"freezing", "logging1", "closing1"}

\* What holds of the files at each step of the job or the decision that has the lane.
AtStep ==
    /\ job.at \in {"reading", "assembling"} =>
          ~Brief!Done("bid_brief") /\ reads < MaxReads /\ job.pkg > 0
    /\ job.at \notin {"idle", "reading", "assembling"} => brief # Absent
    /\ job.at = "assembled" =>
          /\ ~Brief!Done("bid_brief")
          /\ \A line \in journal : line.reading < brief.reading
    /\ job.at \in {"unreading", "unbriefing", "sending"} =>
          /\ ~Brief!Done("gate_0") /\ brief.gate0 = Absent
          /\ IF job.at = "sending" THEN ~Brief!Done("bid_brief") ELSE rejections < MaxRejections
    /\ job.at = "stamping0" =>
          ~Brief!Done("gate_0") /\ job.req \in Approvals /\ brief.gate0 \in {Absent, job.req}
    /\ job.at \in Stamped0 =>
          ~Brief!Done("gate_0") /\ job.req \in Approvals /\ brief.gate0 = job.req
    /\ job.at = "closing0" => Brief!Line("gate_0", brief.reading, job.req) \in journal
    /\ job.at \in Researching =>
          /\ Brief!Done("gate_0") /\ Brief!Done("bid_brief") /\ frozen = Absent /\ ~Brief!Gated
          /\ job.at # "internal" => Brief!Done("research_internal")
          /\ job.at = "judged" => Brief!Done("win_themes")
    /\ job.at = "stamping1" =>
          job.req \in Brief!Requests /\ brief.themes # 0 /\ (Brief!Gated => brief.gate1 = job.req)
    /\ job.at \in Stamped1 =>
          job.req \in Brief!Requests /\ brief.gate1 = job.req

\* How the files of the lane depend on each other: nothing is made from a reading that was
\* replaced, what is gated has themes, and a frozen brief is the brief, approved.
Follows ==
    /\ brief # Absent => brief.reading = reads
    /\ \A line \in journal : line.reading <= reads
    /\ \/ Brief!Done("bid_brief") \/ Brief!Done("gate_0") \/ Brief!Done("win_themes")
       \/ frozen # Absent
       => brief # Absent
    /\ Brief!Done("research_internal") =>
          /\ Brief!Done("gate_0") /\ Brief!Done("bid_brief")
          /\ cp["research_internal"] = brief.reading
    /\ Brief!Done("win_themes") =>
          brief.findings # 0 /\ cp["win_themes"] = brief.findings
    /\ brief # Absent =>
          /\ brief.findings \in {0, brief.reading} /\ brief.themes \in {0, brief.findings}
          /\ brief.findings # 0 => Brief!Done("research_internal")
          /\ Brief!Gated <=> brief.gate1 # Absent
          /\ Brief!Gated => brief.themes # 0
          /\ brief.gate1 \in Approvals => brief.status = "approved"
          /\ brief.gate1 = Rejection => brief.status = "declined"
    /\ frozen # Absent => frozen = brief /\ brief.gate1 \in Approvals

\* The lines of a gate are of one decision, and of the live reading they are of the one that
\* stands on the brief; a reading that was sent back has no checkpoint.
OneWord ==
    /\ \A a, b \in journal :
          a.what = b.what /\ a.what \in {"gate_0", "gate_1"} /\ a.reading = b.reading
             => a.req = b.req
    /\ brief # Absent => \A line \in journal : line.reading = brief.reading =>
          /\ line.what = "gate_0" => line.req \in Approvals /\ brief.gate0 = line.req
          /\ line.what = "gate_1" => line.req \in Brief!Requests /\ brief.gate1 = line.req
          /\ line.what = "sent_back" => ~Brief!Done("bid_brief")

\* While nobody approved a brief that was sent back, an approved brief is one that intake
\* closed, and research is paid for approved readings only.
OnTime == ~late =>
    /\ brief # Absent /\ brief.gate0 # Absent => Brief!Done("bid_brief")
    /\ Brief!Done("gate_0") => brief.gate0 # Absent /\ Brief!Approved(brief.reading)
    /\ \A line \in journal : line.what = "spent" => Brief!Approved(line.reading)

\* A call that is not checkpointed yet is one of the halts', or on its way there.
Paid == calls <= halts + (IF Brief!Done("research_external") \/ job.at \in {"found", "cited"}
                          THEN 1 ELSE 0)

BriefInv == BriefTypes /\ AtStep /\ Follows /\ OneWord /\ OnTime /\ Paid

\* What is assumed of the brief's constants.
LEMMA BriefConstants ==
    /\ Rejection \notin Approvals /\ Absent \notin Approvals /\ Absent # Rejection
    /\ MaxPackages \in Nat /\ MaxReads \in Nat /\ MaxRejections \in Nat /\ MaxHalts \in Nat
    /\ MaxPackages > 0 /\ Absent \notin Brief!Briefs /\ \A n \in Nat : n # Absent
    /\ Brief!Requests = Approvals \cup {Rejection}
BY IntakeConstants DEF Brief!BriefAssumption, Brief!Requests

\* A checkpoint changes its stage and no other.
LEMMA Checkpoints ==
    ASSUME BriefTypes, NEW stage \in Brief!Stages, NEW payload, Brief!Checkpoint(stage, payload)
    PROVE  /\ cp' = [s \in Brief!Stages |-> cp'[s]] /\ cp'[stage] = payload
           /\ \A s \in Brief!Stages \ {stage} : cp'[s] = cp[s]
<1>1. cp = [s \in Brief!Stages |-> cp[s]] /\ cp' = [cp EXCEPT ![stage] = payload]
  BY DEF BriefTypes, Brief!Checkpoint
<1> QED
  BY <1>1

\* The job goes on to another step, or leaves the lane.
LEMMA JobGoes ==
    ASSUME BriefTypes, NEW at \in Steps, Brief!Go(at)
    PROVE  job' \in Jobs /\ job'.at = at /\ job'.req = job.req /\ job'.pkg = job.pkg
BY DEF BriefTypes, Brief!Go, Jobs

\* The lane is idle again.
LEMMA JobLeaves ==
    ASSUME Brief!Leave PROVE job' \in Jobs /\ job'.at = "idle"
BY BriefConstants DEF Brief!Leave, Brief!Idle, Jobs, Steps

\* A job that takes the lane starts from the idle one.
LEMMA JobIdle ==
    Brief!Idle \in Jobs /\ Brief!Idle.at = "idle" /\ Brief!Idle.req = Absent /\ Brief!Idle.pkg = 0
BY BriefConstants DEF Brief!Idle, Jobs, Steps

\* The fields of a brief that is there.
LEMMA BriefFields ==
    ASSUME BriefTypes, brief # Absent
    PROVE  /\ brief \in Brief!Briefs
           /\ brief.reading \in 1..MaxReads /\ brief.pkg \in 1..MaxPackages
           /\ brief.gate0 \in Approvals \cup {Absent} /\ brief.findings \in 0..MaxReads
           /\ brief.themes \in 0..MaxReads /\ brief.gate1 \in Brief!Requests \cup {Absent}
           /\ brief.clock \in 0..MaxHalts
           /\ brief.status \in {"draft", "gate1_pending", "approved", "declined"}
BY DEF BriefTypes, Brief!Briefs

\* The job moves and no file does.
LEMMA OnlyJobMoves ==
    ASSUME BriefInv, UNCHANGED <<cp, brief, frozen, journal, reads, rejections, calls, late>>,
           inbox' \in 1..MaxPackages, job' \in Jobs, halts' \in 0..MaxHalts,
           AtStep', Paid'
    PROVE  BriefInv'
<1>0. BriefTypes /\ Follows /\ OneWord /\ OnTime
  BY DEF BriefInv
<1>1. BriefTypes'
  BY <1>0 DEF BriefTypes, Jobs
<1>2. Follows'
  BY <1>0 DEF Follows, Brief!Done, Brief!Gated
<1>3. OneWord'
  BY <1>0 DEF OneWord, Brief!Done
<1>4. OnTime'
  BY <1>0 DEF OnTime, Brief!Done, Brief!Approved
<1> QED
  BY <1>1, <1>2, <1>3, <1>4 DEF BriefInv

\* A job or a decision enters the lane, or the operator fixes the package.
LEMMA BriefStarts ==
    ASSUME BriefInv,
           \/ Brief!Upload \/ Brief!StartIntake \/ Brief!StartResearch
           \/ \E req \in Brief!Requests : Brief!DecideZero(req) \/ Brief!DecideOne(req)
    PROVE  BriefInv'
<1>0. BriefTypes /\ AtStep /\ Follows /\ OneWord /\ OnTime /\ Paid
  BY DEF BriefInv
<1>1. UNCHANGED <<cp, brief, frozen, journal, reads, rejections, calls, halts, late>> /\ job.at = "idle"
  BY DEF Brief!Upload, Brief!StartIntake, Brief!StartResearch, Brief!DecideZero, Brief!DecideOne,
     Brief!counts
<1>2. ASSUME job'.at \notin {"found", "cited"} PROVE Paid'
  BY <1>0, <1>1, <1>2 DEF Paid, Brief!Done
<1>3. CASE Brief!Upload
  <2>1. job' \in Jobs /\ job'.at = "idle" /\ inbox' \in 1..MaxPackages
    BY <1>0, <1>1, <1>3, BriefConstants DEF Brief!Upload, BriefTypes
  <2>2. AtStep'
    BY <2>1 DEF AtStep, Researching, Stamped0, Stamped1
  <2>3. Paid'
    BY <1>2, <2>1
  <2> QED
    BY <1>0, <1>1, <2>1, <2>2, <2>3, OnlyJobMoves DEF BriefTypes
<1>4. CASE Brief!StartIntake
  <2> DEFINE at == IF Brief!Done("intake") THEN "assembling" ELSE "reading"
  <2>a. /\ at \in {"reading", "assembling"} /\ inbox' = inbox /\ inbox \in 1..MaxPackages
        /\ inbox \in 0..MaxPackages
    BY <1>0, <1>4, BriefConstants DEF Brief!StartIntake, BriefTypes
  <2>b. job' = [Brief!Idle EXCEPT !.pkg = inbox, !.at = at]
    BY <1>4 DEF Brief!StartIntake
  <2> HIDE DEF at
  <2>1. /\ job' \in Jobs /\ job'.at \in {"reading", "assembling"} /\ job'.pkg = inbox
        /\ ~Brief!Done("bid_brief") /\ reads < MaxReads
    BY <1>4, <2>a, <2>b, JobIdle DEF Brief!StartIntake, Jobs, Steps
  <2>2. AtStep'
    BY <1>0, <1>1, <2>1, BriefConstants
       DEF AtStep, Researching, Stamped0, Stamped1, Brief!Done, BriefTypes
  <2>3. Paid'
    BY <1>2, <2>1
  <2> QED
    BY <1>0, <1>1, <2>1, <2>2, <2>3, <2>a, OnlyJobMoves DEF BriefTypes
<1>5. CASE Brief!StartResearch
  <2>1. /\ job' \in Jobs /\ job'.at = "internal" /\ Brief!Done("bid_brief") /\ Brief!Done("gate_0")
        /\ frozen = Absent /\ brief # Absent /\ ~Brief!Gated
    BY <1>5, JobIdle DEF Brief!StartResearch, Jobs, Steps, Brief!GateZeroDecided, Brief!ResearchMayRun
  <2>i. inbox' = inbox
    BY <1>5 DEF Brief!StartResearch
  <2>2. AtStep'
    BY <1>0, <1>1, <2>1 DEF AtStep, Researching, Stamped0, Stamped1, Brief!Done, Brief!Gated
  <2>3. Paid'
    BY <1>2, <2>1
  <2> QED
    BY <1>0, <1>1, <2>1, <2>2, <2>3, <2>i, OnlyJobMoves DEF BriefTypes
<1>6. ASSUME NEW req \in Brief!Requests, Brief!DecideZero(req) PROVE BriefInv'
  <2> DEFINE at == IF req = Rejection THEN "unreading" ELSE "stamping0"
  <2>i. at \in Steps /\ inbox' = inbox /\ job' = [Brief!Idle EXCEPT !.req = req, !.at = at]
    BY <1>6 DEF Brief!DecideZero, Steps
  <2> HIDE DEF at
  <2>1. /\ job' \in Jobs /\ job'.at = at /\ job'.req = req /\ ~Brief!Done("gate_0") /\ brief # Absent
        /\ brief.gate0 \in {Absent, req} /\ (req = Rejection => rejections < MaxRejections)
    BY <1>6, <2>i, JobIdle DEF Brief!DecideZero, Brief!ZeroOpen, Jobs
  <2>2. AtStep'
    BY <1>0, <1>1, <2>1, BriefConstants, BriefFields
       DEF AtStep, Researching, Stamped0, Stamped1, Brief!Done, at
  <2>3. Paid'
    BY <1>2, <2>1 DEF at
  <2> QED
    BY <1>0, <1>1, <2>1, <2>2, <2>3, <2>i, OnlyJobMoves DEF BriefTypes
<1>7. ASSUME NEW req \in Brief!Requests, Brief!DecideOne(req) PROVE BriefInv'
  <2>1. /\ job' \in Jobs /\ job'.at = "stamping1" /\ job'.req = req /\ brief # Absent
        /\ brief.themes # 0 /\ (Brief!Gated => brief.gate1 = req)
    BY <1>7, JobIdle DEF Brief!DecideOne, Brief!StampAgrees, Jobs, Steps
  <2>i. inbox' = inbox
    BY <1>7 DEF Brief!DecideOne
  <2>2. AtStep'
    BY <1>0, <1>1, <2>1 DEF AtStep, Researching, Stamped0, Stamped1, Brief!Done, Brief!Gated
  <2>3. Paid'
    BY <1>2, <2>1
  <2> QED
    BY <1>0, <1>1, <2>1, <2>2, <2>3, <2>i, OnlyJobMoves DEF BriefTypes
<1> QED
  BY <1>3, <1>4, <1>5, <1>6, <1>7

\* The process dies, or a model call fails: the job leaves, what is written stays.
LEMMA BriefHalt == ASSUME BriefInv, Brief!Halt PROVE BriefInv'
<1>0. BriefTypes /\ AtStep /\ Follows /\ OneWord /\ OnTime /\ Paid
  BY DEF BriefInv
<1>1. /\ UNCHANGED <<inbox, cp, brief, frozen, journal, reads, rejections, calls, late>>
      /\ halts' = halts + 1 /\ halts < MaxHalts /\ Brief!Leave
  BY DEF Brief!Halt
<1>2. job' \in Jobs /\ job'.at = "idle"
  BY <1>1, JobLeaves
<1>3. halts' \in 0..MaxHalts
  BY <1>0, <1>1, BriefConstants DEF BriefTypes
<1>4. AtStep'
  BY <1>2 DEF AtStep, Researching, Stamped0, Stamped1
<1>5. Paid'
  BY <1>0, <1>1, <1>2 DEF Paid, Brief!Done, BriefTypes
<1> QED
  BY <1>0, <1>1, <1>2, <1>3, <1>4, <1>5, OnlyJobMoves DEF BriefTypes

\* The package is read: the checkpoint of intake is of the package the job took.
LEMMA BriefReads ==
    ASSUME BriefInv, Brief!ReadPackage PROVE BriefInv'
<1>0. BriefTypes /\ AtStep /\ Follows /\ OneWord /\ OnTime /\ Paid
  BY DEF BriefInv
<1>1. UNCHANGED <<inbox, brief, frozen, journal, reads, rejections, calls, halts, late>>
  BY DEF Brief!ReadPackage, Brief!counts
<1>2. /\ cp' = [s \in Brief!Stages |-> cp'[s]] /\ cp'["intake"] = job.pkg
      /\ cp'["bid_brief"] = cp["bid_brief"] /\ cp'["gate_0"] = cp["gate_0"]
      /\ cp'["research_internal"] = cp["research_internal"]
      /\ cp'["research_external"] = cp["research_external"]
      /\ cp'["win_themes"] = cp["win_themes"] /\ cp'["gate_1"] = cp["gate_1"]
  BY <1>0, Checkpoints DEF Brief!ReadPackage, Brief!Stages
<1>3. job' \in Jobs /\ job'.at = "assembling" /\ job'.req = job.req /\ job'.pkg = job.pkg
  BY <1>0, JobGoes DEF Brief!ReadPackage, Steps
<1>4. job.at = "reading" /\ job.pkg \in 1..MaxPackages
  BY <1>0 DEF Brief!ReadPackage, BriefTypes, AtStep, Jobs
<1>5. BriefTypes'
  BY <1>0, <1>1, <1>2, <1>3, <1>4 DEF BriefTypes
<1>6. AtStep'
  BY <1>0, <1>1, <1>2, <1>3, <1>4
     DEF AtStep, Brief!Done, Brief!Gated, Researching, Stamped0, Stamped1
<1>7. Follows'
  BY <1>0, <1>1, <1>2, <1>3, <1>4 DEF Follows, Brief!Done, Brief!Gated
<1>8. OneWord'
  BY <1>0, <1>1, <1>2, <1>3, <1>4 DEF OneWord, Brief!Done
<1>9. OnTime'
  BY <1>0, <1>1, <1>2, <1>3, <1>4 DEF OnTime, Brief!Done, Brief!Approved
<1>10. Paid'
  BY <1>0, <1>1, <1>2, <1>3, <1>4 DEF Paid, Brief!Done
<1> QED
  BY <1>5, <1>6, <1>7, <1>8, <1>9, <1>10 DEF BriefInv

\* The model assembles a brief: a new reading, on which nothing was decided yet.
LEMMA BriefAssembles ==
    ASSUME BriefInv, Brief!AssembleBrief PROVE BriefInv'
<1>0. BriefTypes /\ AtStep /\ Follows /\ OneWord /\ OnTime /\ Paid
  BY DEF BriefInv
<1>1. UNCHANGED <<inbox, cp, frozen, journal, rejections, calls, halts, late>>
  BY DEF Brief!AssembleBrief, Brief!counts
<1>2. job' \in Jobs /\ job'.at = "assembled" /\ job'.req = job.req /\ job'.pkg = job.pkg
  BY <1>0, JobGoes DEF Brief!AssembleBrief, Steps
<1>3. /\ job.at = "assembling" /\ reads' = reads + 1 /\ ~Brief!Done("bid_brief")
      /\ reads + 1 \in 1..MaxReads
      /\ job.pkg \in 1..MaxPackages
  BY <1>0, BriefConstants DEF Brief!AssembleBrief, BriefTypes, AtStep, Jobs
<1>4. /\ brief' \in Brief!Briefs /\ brief' # Absent /\ brief'.reading = reads + 1 /\ brief'.findings = 0
      /\ brief'.themes = 0 /\ brief'.gate0 = Absent /\ brief'.gate1 = Absent /\ brief'.status = "draft"
  BY <1>3, BriefConstants DEF Brief!AssembleBrief, Brief!Write, Brief!Fresh, Brief!Briefs
<1>5. /\ \A line \in journal : line.reading < reads + 1 /\ line.reading <= reads + 1
      /\ \A line \in journal : line.reading # reads + 1
  BY <1>0, BriefConstants DEF BriefTypes, Lines, Follows
<1>6. /\ ~Brief!Done("gate_0") \/ brief # Absent
      /\ ~Brief!Done("research_internal") /\ ~Brief!Done("win_themes") /\ frozen = Absent
  BY <1>0, <1>3, BriefConstants DEF Follows
<1>7. BriefTypes'
  BY <1>0, <1>1, <1>2, <1>3, <1>4, <1>5, <1>6 DEF BriefTypes
<1>8. AtStep'
  BY <1>0, <1>1, <1>2, <1>3, <1>4, <1>5, <1>6
     DEF AtStep, Brief!Done, Brief!Gated, Researching, Stamped0, Stamped1
<1>9. Follows'
  BY <1>0, <1>1, <1>2, <1>3, <1>4, <1>5, <1>6, BriefConstants DEF Follows, Brief!Done, Brief!Gated
<1>10. OneWord'
  BY <1>0, <1>1, <1>2, <1>3, <1>4, <1>5, <1>6 DEF OneWord, Brief!Done
<1>11. OnTime'
  BY <1>0, <1>1, <1>2, <1>3, <1>4, <1>5, <1>6 DEF OnTime, Brief!Done, Brief!Approved
<1>12. Paid'
  BY <1>0, <1>1, <1>2, <1>3, <1>4, <1>5, <1>6 DEF Paid, Brief!Done
<1> QED
  BY <1>7, <1>8, <1>9, <1>10, <1>11, <1>12 DEF BriefInv

\* Intake closes on the reading it assembled.
LEMMA BriefCloses ==
    ASSUME BriefInv, Brief!CloseIntake PROVE BriefInv'
<1>0. BriefTypes /\ AtStep /\ Follows /\ OneWord /\ OnTime /\ Paid
  BY DEF BriefInv
<1>1. UNCHANGED <<inbox, brief, frozen, journal, reads, rejections, calls, halts, late>>
  BY DEF Brief!CloseIntake, Brief!counts
<1>2. /\ cp' = [s \in Brief!Stages |-> cp'[s]] /\ cp'["bid_brief"] = brief.reading
      /\ cp'["intake"] = cp["intake"] /\ cp'["gate_0"] = cp["gate_0"]
      /\ cp'["research_internal"] = cp["research_internal"]
      /\ cp'["research_external"] = cp["research_external"]
      /\ cp'["win_themes"] = cp["win_themes"] /\ cp'["gate_1"] = cp["gate_1"]
  BY <1>0, Checkpoints DEF Brief!CloseIntake, Brief!Stages
<1>3. job' \in Jobs /\ job'.at = "idle"
  BY JobLeaves DEF Brief!CloseIntake
<1>4. job.at = "assembled" /\ brief # Absent /\ brief.reading \in 1..MaxReads /\ brief.reading # Absent
  BY <1>0, BriefFields, BriefConstants DEF Brief!CloseIntake, AtStep
<1>5. \A line \in journal : line.reading # brief.reading
  BY <1>0, <1>4, BriefConstants DEF AtStep, BriefTypes, Lines
<1>6. BriefTypes'
  BY <1>0, <1>1, <1>2, <1>3, <1>4, <1>5 DEF BriefTypes
<1>7. AtStep'
  BY <1>0, <1>1, <1>2, <1>3, <1>4, <1>5
     DEF AtStep, Brief!Done, Brief!Gated, Researching, Stamped0, Stamped1
<1>8. Follows'
  BY <1>0, <1>1, <1>2, <1>3, <1>4, <1>5 DEF Follows, Brief!Done, Brief!Gated
<1>9. OneWord'
  BY <1>0, <1>1, <1>2, <1>3, <1>4, <1>5 DEF OneWord, Brief!Done
<1>10. OnTime'
  BY <1>0, <1>1, <1>2, <1>3, <1>4, <1>5 DEF OnTime, Brief!Done, Brief!Approved
<1>11. Paid'
  BY <1>0, <1>1, <1>2, <1>3, <1>4, <1>5 DEF Paid, Brief!Done
<1> QED
  BY <1>6, <1>7, <1>8, <1>9, <1>10, <1>11 DEF BriefInv

\* A redo clears the checkpoint of intake.
LEMMA BriefClears ==
    ASSUME BriefInv, Brief!ClearIntake PROVE BriefInv'
<1>0. BriefTypes /\ AtStep /\ Follows /\ OneWord /\ OnTime /\ Paid
  BY DEF BriefInv
<1>1. UNCHANGED <<inbox, brief, frozen, journal, reads, rejections, calls, halts, late>>
  BY DEF Brief!ClearIntake, Brief!counts
<1>2. /\ cp' = [s \in Brief!Stages |-> cp'[s]] /\ cp'["intake"] = Absent
      /\ cp'["bid_brief"] = cp["bid_brief"] /\ cp'["gate_0"] = cp["gate_0"]
      /\ cp'["research_internal"] = cp["research_internal"]
      /\ cp'["research_external"] = cp["research_external"]
      /\ cp'["win_themes"] = cp["win_themes"] /\ cp'["gate_1"] = cp["gate_1"]
  BY <1>0, Checkpoints DEF Brief!ClearIntake, Brief!Stages
<1>3. job' \in Jobs /\ job'.at = "unbriefing" /\ job'.req = job.req /\ job'.pkg = job.pkg
  BY <1>0, JobGoes DEF Brief!ClearIntake, Steps
<1>4. job.at = "unreading"
  BY DEF Brief!ClearIntake
<1>5. BriefTypes'
  BY <1>0, <1>1, <1>2, <1>3, <1>4 DEF BriefTypes
<1>6. AtStep'
  BY <1>0, <1>1, <1>2, <1>3, <1>4
     DEF AtStep, Brief!Done, Brief!Gated, Researching, Stamped0, Stamped1
<1>7. Follows'
  BY <1>0, <1>1, <1>2, <1>3, <1>4 DEF Follows, Brief!Done, Brief!Gated
<1>8. OneWord'
  BY <1>0, <1>1, <1>2, <1>3, <1>4 DEF OneWord, Brief!Done
<1>9. OnTime'
  BY <1>0, <1>1, <1>2, <1>3, <1>4 DEF OnTime, Brief!Done, Brief!Approved
<1>10. Paid'
  BY <1>0, <1>1, <1>2, <1>3, <1>4 DEF Paid, Brief!Done
<1> QED
  BY <1>5, <1>6, <1>7, <1>8, <1>9, <1>10 DEF BriefInv

\* A redo clears the checkpoint of the brief: nothing was made of it yet.
LEMMA BriefUnbriefs ==
    ASSUME BriefInv, Brief!Unbrief PROVE BriefInv'
<1>0. BriefTypes /\ AtStep /\ Follows /\ OneWord /\ OnTime /\ Paid
  BY DEF BriefInv
<1>1. UNCHANGED <<inbox, brief, frozen, journal, reads, calls, halts, late>>
  BY DEF Brief!Unbrief, Brief!counts
<1>2. /\ cp' = [s \in Brief!Stages |-> cp'[s]] /\ cp'["bid_brief"] = Absent
      /\ cp'["intake"] = cp["intake"] /\ cp'["gate_0"] = cp["gate_0"]
      /\ cp'["research_internal"] = cp["research_internal"]
      /\ cp'["research_external"] = cp["research_external"]
      /\ cp'["win_themes"] = cp["win_themes"] /\ cp'["gate_1"] = cp["gate_1"]
  BY <1>0, Checkpoints DEF Brief!Unbrief, Brief!ClearBrief, Brief!Stages
<1>3. job' \in Jobs /\ job'.at = "sending" /\ job'.req = job.req /\ job'.pkg = job.pkg
  BY <1>0, JobGoes DEF Brief!Unbrief, Steps
<1>4. /\ job.at = "unbriefing" /\ rejections' = rejections + 1 /\ rejections < MaxRejections
      /\ rejections' \in 0..MaxRejections /\ ~Brief!Done("gate_0") /\ brief.gate0 = Absent
      /\ brief # Absent
  BY <1>0, BriefConstants DEF Brief!Unbrief, AtStep, BriefTypes
<1>5. BriefTypes'
  BY <1>0, <1>1, <1>2, <1>3, <1>4 DEF BriefTypes
<1>6. AtStep'
  BY <1>0, <1>1, <1>2, <1>3, <1>4
     DEF AtStep, Brief!Done, Brief!Gated, Researching, Stamped0, Stamped1
<1>7. Follows'
  BY <1>0, <1>1, <1>2, <1>3, <1>4 DEF Follows, Brief!Done, Brief!Gated
<1>8. OneWord'
  BY <1>0, <1>1, <1>2, <1>3, <1>4 DEF OneWord, Brief!Done
<1>9. OnTime'
  BY <1>0, <1>1, <1>2, <1>3, <1>4 DEF OnTime, Brief!Done, Brief!Approved
<1>10. Paid'
  BY <1>0, <1>1, <1>2, <1>3, <1>4 DEF Paid, Brief!Done
<1> QED
  BY <1>5, <1>6, <1>7, <1>8, <1>9, <1>10 DEF BriefInv

\* A rejection is logged and the lane is left: the checkpoint of the brief is gone.
LEMMA BriefSendsBack ==
    ASSUME BriefInv, Brief!SendBack PROVE BriefInv'
<1>0. BriefTypes /\ AtStep /\ Follows /\ OneWord /\ OnTime /\ Paid
  BY DEF BriefInv
<1>1. UNCHANGED <<inbox, cp, brief, frozen, reads, rejections, calls, halts, late>>
  BY DEF Brief!SendBack, Brief!counts
<1>2. job' \in Jobs /\ job'.at = "idle"
  BY JobLeaves DEF Brief!SendBack
<1>3. job.at = "sending" /\ brief # Absent /\ ~Brief!Done("bid_brief") /\ brief.reading \in 1..MaxReads
  BY <1>0, BriefFields DEF Brief!SendBack, AtStep
<1>4. PICK line : /\ line = Brief!Line("sent_back", brief.reading, Rejection)
                  /\ journal' = journal \cup {line}
  BY DEF Brief!SendBack
<1>5. /\ line.what = "sent_back" /\ line.reading = brief.reading /\ line.req = Rejection
      /\ line \in Lines
  BY <1>0, <1>3, <1>4, BriefFields, BriefConstants DEF Brief!Line, Lines
<1>6. BriefTypes'
  BY <1>0, <1>1, <1>2, <1>3, <1>4, <1>5 DEF BriefTypes
<1>7. AtStep'
  BY <1>0, <1>1, <1>2, <1>3, <1>4, <1>5
     DEF AtStep, Brief!Done, Brief!Gated, Researching, Stamped0, Stamped1
<1>8. Follows'
  BY <1>0, <1>1, <1>2, <1>3, <1>4, <1>5 DEF Follows, Brief!Done, Brief!Gated
<1>9. OneWord'
  BY <1>0, <1>1, <1>2, <1>3, <1>4, <1>5 DEF OneWord, Brief!Done
<1>10. OnTime'
  BY <1>0, <1>1, <1>2, <1>3, <1>4, <1>5 DEF OnTime, Brief!Done, Brief!Approved
<1>11. Paid'
  BY <1>0, <1>1, <1>2, <1>3, <1>4, <1>5 DEF Paid, Brief!Done
<1> QED
  BY <1>6, <1>7, <1>8, <1>9, <1>10, <1>11 DEF BriefInv

\* The decision of Gate 0 is logged as it was stamped.
LEMMA BriefLogsZero ==
    ASSUME BriefInv, Brief!LogZero PROVE BriefInv'
<1>0. BriefTypes /\ AtStep /\ Follows /\ OneWord /\ OnTime /\ Paid
  BY DEF BriefInv
<1>1. UNCHANGED <<inbox, cp, brief, frozen, reads, rejections, calls, halts, late>>
  BY DEF Brief!LogZero, Brief!counts
<1>2. job' \in Jobs /\ job'.at = "closing0" /\ job'.req = job.req /\ job'.pkg = job.pkg
  BY <1>0, JobGoes DEF Brief!LogZero, Steps
<1>3. /\ job.at = "logging0" /\ brief # Absent /\ brief.reading \in 1..MaxReads
      /\ job.req \in Approvals /\ brief.gate0 = job.req /\ ~Brief!Done("gate_0")
  BY <1>0, BriefFields DEF Brief!LogZero, AtStep, Stamped0
<1>4. PICK line : /\ line = Brief!Line("gate_0", brief.reading, job.req)
                  /\ journal' = journal \cup {line}
  BY DEF Brief!LogZero
<1>5. /\ line.what = "gate_0" /\ line.reading = brief.reading /\ line.req = job.req /\ line \in Lines
  BY <1>0, <1>3, <1>4, BriefFields, BriefConstants DEF Brief!Line, Lines
<1>6. BriefTypes'
  BY <1>0, <1>1, <1>2, <1>3, <1>4, <1>5 DEF BriefTypes
<1>7. AtStep'
  BY <1>0, <1>1, <1>2, <1>3, <1>4, <1>5
     DEF AtStep, Brief!Done, Brief!Gated, Researching, Stamped0, Stamped1
<1>8. Follows'
  BY <1>0, <1>1, <1>2, <1>3, <1>4, <1>5 DEF Follows, Brief!Done, Brief!Gated
<1>9. OneWord'
  BY <1>0, <1>1, <1>2, <1>3, <1>4, <1>5 DEF OneWord, Brief!Done
<1>10. OnTime'
  BY <1>0, <1>1, <1>2, <1>3, <1>4, <1>5 DEF OnTime, Brief!Done, Brief!Approved
<1>11. Paid'
  BY <1>0, <1>1, <1>2, <1>3, <1>4, <1>5 DEF Paid, Brief!Done
<1> QED
  BY <1>6, <1>7, <1>8, <1>9, <1>10, <1>11 DEF BriefInv

\* The decision of Gate 1 is logged as it was stamped.
LEMMA BriefLogsOne ==
    ASSUME BriefInv, Brief!LogOne PROVE BriefInv'
<1>0. BriefTypes /\ AtStep /\ Follows /\ OneWord /\ OnTime /\ Paid
  BY DEF BriefInv
<1>1. UNCHANGED <<inbox, cp, brief, frozen, reads, rejections, calls, halts, late>>
  BY DEF Brief!LogOne, Brief!counts
<1>2. job' \in Jobs /\ job'.at = "closing1" /\ job'.req = job.req /\ job'.pkg = job.pkg
  BY <1>0, JobGoes DEF Brief!LogOne, Steps
<1>3. /\ job.at = "logging1" /\ brief # Absent /\ brief.reading \in 1..MaxReads
      /\ job.req \in Brief!Requests /\ brief.gate1 = job.req
  BY <1>0, BriefFields DEF Brief!LogOne, AtStep, Stamped1
<1>4. PICK line : /\ line = Brief!Line("gate_1", brief.reading, job.req)
                  /\ journal' = journal \cup {line}
  BY DEF Brief!LogOne
<1>5. /\ line.what = "gate_1" /\ line.reading = brief.reading /\ line.req = job.req /\ line \in Lines
  BY <1>0, <1>3, <1>4, BriefFields, BriefConstants DEF Brief!Line, Lines
<1>6. BriefTypes'
  BY <1>0, <1>1, <1>2, <1>3, <1>4, <1>5 DEF BriefTypes
<1>7. AtStep'
  BY <1>0, <1>1, <1>2, <1>3, <1>4, <1>5
     DEF AtStep, Brief!Done, Brief!Gated, Researching, Stamped0, Stamped1
<1>8. Follows'
  BY <1>0, <1>1, <1>2, <1>3, <1>4, <1>5 DEF Follows, Brief!Done, Brief!Gated
<1>9. OneWord'
  BY <1>0, <1>1, <1>2, <1>3, <1>4, <1>5 DEF OneWord, Brief!Done
<1>10. OnTime'
  BY <1>0, <1>1, <1>2, <1>3, <1>4, <1>5 DEF OnTime, Brief!Done, Brief!Approved
<1>11. Paid'
  BY <1>0, <1>1, <1>2, <1>3, <1>4, <1>5 DEF Paid, Brief!Done
<1> QED
  BY <1>6, <1>7, <1>8, <1>9, <1>10, <1>11 DEF BriefInv

\* Gate 0 is closed on a decision that is stamped and logged.
LEMMA BriefClosesZero ==
    ASSUME BriefInv, Brief!CloseZero PROVE BriefInv'
<1>0. BriefTypes /\ AtStep /\ Follows /\ OneWord /\ OnTime /\ Paid
  BY DEF BriefInv
<1>1. UNCHANGED <<inbox, brief, frozen, journal, reads, rejections, calls, halts, late>>
  BY DEF Brief!CloseZero, Brief!counts
<1>2. /\ cp' = [s \in Brief!Stages |-> cp'[s]] /\ cp'["gate_0"] = job.req
      /\ cp'["intake"] = cp["intake"] /\ cp'["bid_brief"] = cp["bid_brief"]
      /\ cp'["research_internal"] = cp["research_internal"]
      /\ cp'["research_external"] = cp["research_external"]
      /\ cp'["win_themes"] = cp["win_themes"] /\ cp'["gate_1"] = cp["gate_1"]
  BY <1>0, Checkpoints DEF Brief!CloseZero, Brief!Stages
<1>3. job' \in Jobs /\ job'.at = "idle"
  BY JobLeaves DEF Brief!CloseZero
<1>4. /\ job.at = "closing0" /\ brief # Absent /\ job.req \in Approvals /\ job.req # Absent
      /\ brief.gate0 = job.req
      /\ Brief!Line("gate_0", brief.reading, job.req) \in journal
  BY <1>0, BriefConstants DEF Brief!CloseZero, AtStep, Stamped0
<1>5. Brief!Approved(brief.reading)
  BY <1>4 DEF Brief!Approved, Brief!Line
<1>6. BriefTypes'
  BY <1>0, <1>1, <1>2, <1>3, <1>4, <1>5 DEF BriefTypes
<1>7. AtStep'
  BY <1>0, <1>1, <1>2, <1>3, <1>4, <1>5
     DEF AtStep, Brief!Done, Brief!Gated, Researching, Stamped0, Stamped1
<1>8. Follows'
  BY <1>0, <1>1, <1>2, <1>3, <1>4, <1>5 DEF Follows, Brief!Done, Brief!Gated
<1>9. OneWord'
  BY <1>0, <1>1, <1>2, <1>3, <1>4, <1>5 DEF OneWord, Brief!Done
<1>10. OnTime'
  BY <1>0, <1>1, <1>2, <1>3, <1>4, <1>5 DEF OnTime, Brief!Done, Brief!Approved
<1>11. Paid'
  BY <1>0, <1>1, <1>2, <1>3, <1>4, <1>5 DEF Paid, Brief!Done
<1> QED
  BY <1>6, <1>7, <1>8, <1>9, <1>10, <1>11 DEF BriefInv

\* Gate 1 is closed on the decision that is stamped.
LEMMA BriefClosesOne ==
    ASSUME BriefInv, Brief!CloseOne PROVE BriefInv'
<1>0. BriefTypes /\ AtStep /\ Follows /\ OneWord /\ OnTime /\ Paid
  BY DEF BriefInv
<1>1. UNCHANGED <<inbox, brief, frozen, journal, reads, rejections, calls, halts, late>>
  BY DEF Brief!CloseOne, Brief!counts
<1>2. /\ cp' = [s \in Brief!Stages |-> cp'[s]] /\ cp'["gate_1"] = job.req
      /\ cp'["intake"] = cp["intake"] /\ cp'["bid_brief"] = cp["bid_brief"]
      /\ cp'["gate_0"] = cp["gate_0"] /\ cp'["research_internal"] = cp["research_internal"]
      /\ cp'["research_external"] = cp["research_external"] /\ cp'["win_themes"] = cp["win_themes"]
  BY <1>0, Checkpoints DEF Brief!CloseOne, Brief!Stages
<1>3. job' \in Jobs /\ job'.at = "idle"
  BY JobLeaves DEF Brief!CloseOne
<1>4. job.at = "closing1" /\ brief # Absent /\ job.req \in Brief!Requests /\ job.req # Absent
  BY <1>0, BriefConstants DEF Brief!CloseOne, AtStep, Stamped1
<1>5. BriefTypes'
  BY <1>0, <1>1, <1>2, <1>3, <1>4 DEF BriefTypes
<1>6. AtStep'
  BY <1>0, <1>1, <1>2, <1>3, <1>4
     DEF AtStep, Brief!Done, Brief!Gated, Researching, Stamped0, Stamped1
<1>7. Follows'
  BY <1>0, <1>1, <1>2, <1>3, <1>4 DEF Follows, Brief!Done, Brief!Gated
<1>8. OneWord'
  BY <1>0, <1>1, <1>2, <1>3, <1>4 DEF OneWord, Brief!Done
<1>9. OnTime'
  BY <1>0, <1>1, <1>2, <1>3, <1>4 DEF OnTime, Brief!Done, Brief!Approved
<1>10. Paid'
  BY <1>0, <1>1, <1>2, <1>3, <1>4 DEF Paid, Brief!Done
<1> QED
  BY <1>5, <1>6, <1>7, <1>8, <1>9, <1>10 DEF BriefInv

\* The cards are retrieved once: an internal checkpoint that is there stands.
LEMMA BriefResearches ==
    ASSUME BriefInv, Brief!ResearchInternal PROVE BriefInv'
<1>0. BriefTypes /\ AtStep /\ Follows /\ OneWord /\ OnTime /\ Paid
  BY DEF BriefInv
<1>1. UNCHANGED <<inbox, brief, frozen, journal, reads, rejections, calls, halts, late>>
  BY DEF Brief!ResearchInternal, Brief!counts
<1>2. job' \in Jobs /\ job'.at = "external" /\ job'.req = job.req /\ job'.pkg = job.pkg
  BY <1>0, JobGoes DEF Brief!ResearchInternal, Steps
<1>3. job.at = "internal" /\ Brief!Done("bid_brief") /\ Brief!Done("gate_0") /\ frozen = Absent
      /\ ~Brief!Gated /\ brief # Absent
      /\ brief.reading \in 1..MaxReads /\ brief.reading # Absent
  BY <1>0, BriefFields, BriefConstants DEF Brief!ResearchInternal, AtStep, Researching
<1>4. /\ cp' = [s \in Brief!Stages |-> cp'[s]] /\ cp'["research_internal"] = brief.reading
      /\ cp'["intake"] = cp["intake"] /\ cp'["bid_brief"] = cp["bid_brief"]
      /\ cp'["gate_0"] = cp["gate_0"] /\ cp'["research_external"] = cp["research_external"]
      /\ cp'["win_themes"] = cp["win_themes"] /\ cp'["gate_1"] = cp["gate_1"]
  <2>1. CASE Brief!Done("research_internal")
    BY <1>0, <2>1 DEF Brief!ResearchInternal, Follows, BriefTypes
  <2>2. CASE ~Brief!Done("research_internal")
    <3>1. Brief!Checkpoint("research_internal", brief.reading)
      BY <2>2 DEF Brief!ResearchInternal, Brief!Checkpoint
    <3> QED
      BY <1>0, <3>1, Checkpoints DEF Brief!Stages
  <2> QED
    BY <2>1, <2>2
<1>5. BriefTypes'
  BY <1>0, <1>1, <1>2, <1>3, <1>4 DEF BriefTypes
<1>6. AtStep'
  BY <1>0, <1>1, <1>2, <1>3, <1>4
     DEF AtStep, Brief!Done, Brief!Gated, Researching, Stamped0, Stamped1
<1>7. Follows'
  BY <1>0, <1>1, <1>2, <1>3, <1>4 DEF Follows, Brief!Done, Brief!Gated
<1>8. OneWord'
  BY <1>0, <1>1, <1>2, <1>3, <1>4 DEF OneWord, Brief!Done
<1>9. OnTime'
  BY <1>0, <1>1, <1>2, <1>3, <1>4 DEF OnTime, Brief!Done, Brief!Approved
<1>10. Paid'
  BY <1>0, <1>1, <1>2, <1>3, <1>4 DEF Paid, Brief!Done
<1> QED
  BY <1>5, <1>6, <1>7, <1>8, <1>9, <1>10 DEF BriefInv

\* The external call is made unless it is checkpointed: it is paid and logged, for a reading
\* that Gate 0 approved.
LEMMA BriefSpends ==
    ASSUME BriefInv, Brief!ResearchExternal PROVE BriefInv'
<1>0. BriefTypes /\ AtStep /\ Follows /\ OneWord /\ OnTime /\ Paid
  BY DEF BriefInv
<1>1. UNCHANGED <<inbox, cp, brief, frozen, reads, rejections, halts, late>>
  BY DEF Brief!ResearchExternal
<1>2. job.at = "external" /\ Brief!Done("research_internal") /\ Brief!Done("bid_brief")
      /\ Brief!Done("gate_0") /\ frozen = Absent /\ ~Brief!Gated /\ brief # Absent
      /\ brief.reading \in 1..MaxReads /\ brief.reading # Absent
  BY <1>0, BriefFields, BriefConstants DEF Brief!ResearchExternal, AtStep, Researching
<1>3. CASE Brief!Done("research_external")
  <2>1. UNCHANGED <<journal, calls>> /\ Brief!Go("themes")
    BY <1>3 DEF Brief!ResearchExternal, Brief!ExternalDone
  <2>2. job' \in Jobs /\ job'.at = "themes"
    BY <1>0, <2>1, JobGoes DEF Steps
  <2>3. AtStep'
    BY <1>0, <1>1, <1>2, <2>2 DEF AtStep, Researching, Stamped0, Stamped1, Brief!Done, Brief!Gated
  <2>4. Paid'
    BY <1>0, <1>1, <1>3, <2>1 DEF Paid, Brief!Done
  <2> QED
    BY <1>0, <1>1, <2>1, <2>2, <2>3, <2>4, OnlyJobMoves DEF BriefTypes
<1>4. CASE ~Brief!Done("research_external")
  <2>1. PICK line : /\ line = Brief!Line("spent", brief.reading, Absent)
                    /\ journal' = journal \cup {line}
    BY <1>4 DEF Brief!ResearchExternal, Brief!ExternalDone
  <2>2. /\ line.what = "spent" /\ line.reading = brief.reading /\ line.req = Absent /\ line \in Lines
    BY <1>2, <2>1 DEF Brief!Line, Lines
  <2>3. job' \in Jobs /\ job'.at = "found" /\ calls' = calls + 1
    BY <1>0, <1>4, JobGoes DEF Brief!ResearchExternal, Brief!ExternalDone, Steps
  <2>4. BriefTypes'
    BY <1>0, <1>1, <2>1, <2>2, <2>3 DEF BriefTypes
  <2>5. AtStep'
    BY <1>0, <1>1, <1>2, <2>3 DEF AtStep, Researching, Stamped0, Stamped1, Brief!Done, Brief!Gated
  <2>6. Follows'
    BY <1>0, <1>1, <1>2, <2>1, <2>2 DEF Follows, Brief!Done, Brief!Gated
  <2>7. OneWord'
    BY <1>0, <1>1, <1>2, <2>1, <2>2 DEF OneWord, Brief!Done
  <2>8. OnTime'
    BY <1>0, <1>1, <1>2, <2>1, <2>2 DEF OnTime, Brief!Done, Brief!Approved
  <2>9. Paid'
    BY <1>0, <1>1, <1>2, <1>4, <2>3 DEF Paid, Brief!Done, BriefTypes
  <2> QED
    BY <2>4, <2>5, <2>6, <2>7, <2>8, <2>9 DEF BriefInv
<1> QED
  BY <1>3, <1>4

\* The findings are of the reading that was researched.
LEMMA BriefFinds ==
    ASSUME BriefInv, Brief!WriteFindings PROVE BriefInv'
<1>0. BriefTypes /\ AtStep /\ Follows /\ OneWord /\ OnTime /\ Paid
  BY DEF BriefInv
<1>1. UNCHANGED <<inbox, cp, frozen, journal, reads, rejections, calls, halts, late>>
  BY DEF Brief!WriteFindings, Brief!counts
<1>2. job' \in Jobs /\ job'.at = "cited" /\ job'.req = job.req /\ job'.pkg = job.pkg
  BY <1>0, JobGoes DEF Brief!WriteFindings, Steps
<1>3. /\ job.at = "found" /\ Brief!Done("research_internal")
      /\ Brief!Done("bid_brief") /\ Brief!Done("gate_0") /\ frozen = Absent /\ ~Brief!Gated
      /\ brief # Absent
      /\ brief.reading \in 1..MaxReads /\ brief.reading # Absent
      /\ cp["research_internal"] = brief.reading
  BY <1>0, BriefFields, BriefConstants DEF Brief!WriteFindings, AtStep, Researching, Follows
<1>4. /\ brief' \in Brief!Briefs /\ brief' # Absent /\ brief'.findings = brief.reading
      /\ brief'.reading = brief.reading /\ brief'.gate0 = brief.gate0 /\ brief'.themes = brief.themes
      /\ brief'.status = brief.status /\ brief'.gate1 = brief.gate1
  BY <1>0, <1>3, BriefFields, BriefConstants DEF Brief!WriteFindings, Brief!Write, Brief!Briefs
<1>5. BriefTypes'
  BY <1>0, <1>1, <1>2, <1>3, <1>4 DEF BriefTypes
<1>6. AtStep'
  BY <1>0, <1>1, <1>2, <1>3, <1>4
     DEF AtStep, Brief!Done, Brief!Gated, Researching, Stamped0, Stamped1
<1>7. Follows'
  BY <1>0, <1>1, <1>2, <1>3, <1>4 DEF Follows, Brief!Done, Brief!Gated
<1>8. OneWord'
  BY <1>0, <1>1, <1>2, <1>3, <1>4 DEF OneWord, Brief!Done
<1>9. OnTime'
  BY <1>0, <1>1, <1>2, <1>3, <1>4 DEF OnTime, Brief!Done, Brief!Approved
<1>10. Paid'
  BY <1>0, <1>1, <1>2, <1>3, <1>4 DEF Paid, Brief!Done
<1> QED
  BY <1>5, <1>6, <1>7, <1>8, <1>9, <1>10 DEF BriefInv

\* Research closes on the reading it was paid for.
LEMMA BriefEnds ==
    ASSUME BriefInv, Brief!CloseResearch PROVE BriefInv'
<1>0. BriefTypes /\ AtStep /\ Follows /\ OneWord /\ OnTime /\ Paid
  BY DEF BriefInv
<1>1. UNCHANGED <<inbox, brief, frozen, journal, reads, rejections, calls, halts, late>>
  BY DEF Brief!CloseResearch, Brief!counts
<1>2. /\ cp' = [s \in Brief!Stages |-> cp'[s]] /\ cp'["research_external"] = brief.reading
      /\ cp'["intake"] = cp["intake"] /\ cp'["bid_brief"] = cp["bid_brief"]
      /\ cp'["gate_0"] = cp["gate_0"] /\ cp'["research_internal"] = cp["research_internal"]
      /\ cp'["win_themes"] = cp["win_themes"] /\ cp'["gate_1"] = cp["gate_1"]
  BY <1>0, Checkpoints DEF Brief!CloseResearch, Brief!Stages
<1>3. job' \in Jobs /\ job'.at = "themes" /\ job'.req = job.req /\ job'.pkg = job.pkg
  BY <1>0, JobGoes DEF Brief!CloseResearch, Steps
<1>4. /\ job.at = "cited" /\ Brief!Done("research_internal")
      /\ Brief!Done("bid_brief") /\ Brief!Done("gate_0") /\ frozen = Absent /\ ~Brief!Gated
      /\ brief # Absent
      /\ brief.reading \in 1..MaxReads /\ brief.reading # Absent
  BY <1>0, BriefFields, BriefConstants DEF Brief!CloseResearch, AtStep, Researching
<1>5. BriefTypes'
  BY <1>0, <1>1, <1>2, <1>3, <1>4 DEF BriefTypes
<1>6. AtStep'
  BY <1>0, <1>1, <1>2, <1>3, <1>4
     DEF AtStep, Brief!Done, Brief!Gated, Researching, Stamped0, Stamped1
<1>7. Follows'
  BY <1>0, <1>1, <1>2, <1>3, <1>4 DEF Follows, Brief!Done, Brief!Gated
<1>8. OneWord'
  BY <1>0, <1>1, <1>2, <1>3, <1>4 DEF OneWord, Brief!Done
<1>9. OnTime'
  BY <1>0, <1>1, <1>2, <1>3, <1>4 DEF OnTime, Brief!Done, Brief!Approved
<1>10. Paid'
  BY <1>0, <1>1, <1>2, <1>3, <1>4 DEF Paid, Brief!Done
<1> QED
  BY <1>5, <1>6, <1>7, <1>8, <1>9, <1>10 DEF BriefInv

\* The themes are written from the checkpoint: they cite the findings of the brief.
LEMMA BriefThemes ==
    ASSUME BriefInv, Brief!WriteThemes PROVE BriefInv'
<1>0. BriefTypes /\ AtStep /\ Follows /\ OneWord /\ OnTime /\ Paid
  BY DEF BriefInv
<1>1. UNCHANGED <<inbox, cp, frozen, journal, reads, rejections, calls, halts, late>>
  BY DEF Brief!WriteThemes, Brief!counts
<1>2. job' \in Jobs /\ job'.at = "idle"
  BY JobLeaves DEF Brief!WriteThemes
<1>3. /\ job.at = "judged" /\ Brief!Done("win_themes") /\ Brief!Done("research_internal")
      /\ Brief!Done("bid_brief") /\ Brief!Done("gate_0") /\ frozen = Absent /\ ~Brief!Gated
      /\ brief # Absent
      /\ brief.reading \in 1..MaxReads /\ brief.reading # Absent
      /\ brief.findings # 0 /\ cp["win_themes"] = brief.findings
  BY <1>0, BriefFields, BriefConstants DEF Brief!WriteThemes, AtStep, Researching, Follows
<1>4. /\ brief' \in Brief!Briefs /\ brief' # Absent /\ brief'.themes = brief.findings
      /\ brief'.status = "gate1_pending"
      /\ brief'.reading = brief.reading /\ brief'.gate0 = brief.gate0 /\ brief'.findings = brief.findings
      /\ brief'.gate1 = brief.gate1
  BY <1>0, <1>3, BriefFields, BriefConstants DEF Brief!WriteThemes, Brief!Write, Brief!Briefs
<1>5. BriefTypes'
  BY <1>0, <1>1, <1>2, <1>3, <1>4 DEF BriefTypes
<1>6. AtStep'
  BY <1>0, <1>1, <1>2, <1>3, <1>4
     DEF AtStep, Brief!Done, Brief!Gated, Researching, Stamped0, Stamped1
<1>7. Follows'
  BY <1>0, <1>1, <1>2, <1>3, <1>4 DEF Follows, Brief!Done, Brief!Gated
<1>8. OneWord'
  BY <1>0, <1>1, <1>2, <1>3, <1>4 DEF OneWord, Brief!Done
<1>9. OnTime'
  BY <1>0, <1>1, <1>2, <1>3, <1>4 DEF OnTime, Brief!Done, Brief!Approved
<1>10. Paid'
  BY <1>0, <1>1, <1>2, <1>3, <1>4 DEF Paid, Brief!Done
<1> QED
  BY <1>5, <1>6, <1>7, <1>8, <1>9, <1>10 DEF BriefInv

\* The themes are judged once, and not at all without findings or past Gate 1.
LEMMA BriefJudges ==
    ASSUME BriefInv, Brief!JudgeThemes PROVE BriefInv'
<1>0. BriefTypes /\ AtStep /\ Follows /\ OneWord /\ OnTime /\ Paid
  BY DEF BriefInv
<1>1. UNCHANGED <<inbox, brief, frozen, journal, reads, rejections, calls, halts, late>>
  BY DEF Brief!JudgeThemes, Brief!counts
<1>2. /\ job.at = "themes" /\ Brief!Done("research_internal")
      /\ Brief!Done("bid_brief") /\ Brief!Done("gate_0") /\ frozen = Absent /\ ~Brief!Gated
      /\ brief # Absent
      /\ brief.reading \in 1..MaxReads /\ brief.reading # Absent
  BY <1>0, BriefFields, BriefConstants DEF Brief!JudgeThemes, AtStep, Researching
<1>3. CASE cp' = cp /\ Brief!Leave
  <2>1. job' \in Jobs /\ job'.at = "idle"
    BY <1>3, JobLeaves
  <2>2. AtStep'
    BY <2>1 DEF AtStep, Researching, Stamped0, Stamped1
  <2>3. Paid'
    BY <1>0, <1>1, <1>2, <1>3, <2>1 DEF Paid, Brief!Done
  <2> QED
    BY <1>0, <1>1, <1>3, <2>1, <2>2, <2>3, OnlyJobMoves DEF BriefTypes
<1>4. CASE cp' = cp /\ Brief!Go("judged") /\ Brief!Done("win_themes")
  <2>1. job' \in Jobs /\ job'.at = "judged"
    BY <1>0, <1>4, JobGoes DEF Steps
  <2>2. AtStep'
    BY <1>0, <1>1, <1>2, <1>4, <2>1 DEF AtStep, Researching, Stamped0, Stamped1, Brief!Done, Brief!Gated
  <2>3. Paid'
    BY <1>0, <1>1, <1>2, <1>4, <2>1 DEF Paid, Brief!Done
  <2> QED
    BY <1>0, <1>1, <1>4, <2>1, <2>2, <2>3, OnlyJobMoves DEF BriefTypes
<1>5. CASE /\ Brief!Checkpoint("win_themes", brief.findings) /\ Brief!Go("judged")
           /\ brief.findings # 0
  <2>1. job' \in Jobs /\ job'.at = "judged"
    BY <1>0, <1>5, JobGoes DEF Steps
  <2>2. /\ cp' = [s \in Brief!Stages |-> cp'[s]] /\ cp'["win_themes"] = brief.findings
        /\ cp'["intake"] = cp["intake"] /\ cp'["bid_brief"] = cp["bid_brief"]
        /\ cp'["gate_0"] = cp["gate_0"] /\ cp'["research_internal"] = cp["research_internal"]
        /\ cp'["research_external"] = cp["research_external"] /\ cp'["gate_1"] = cp["gate_1"]
    BY <1>0, <1>5, Checkpoints DEF Brief!Stages
  <2>3. brief.findings \in 1..MaxReads /\ brief.findings # Absent
    BY <1>0, <1>2, <1>5, BriefFields, BriefConstants
  <2>4. BriefTypes'
    BY <1>0, <1>1, <2>1, <2>2, <2>3 DEF BriefTypes
  <2>5. AtStep'
    BY <1>0, <1>1, <1>2, <2>1, <2>2, <2>3
       DEF AtStep, Researching, Stamped0, Stamped1, Brief!Done, Brief!Gated
  <2>6. Follows'
    BY <1>0, <1>1, <1>2, <1>5, <2>2, <2>3 DEF Follows, Brief!Done, Brief!Gated
  <2>7. OneWord'
    BY <1>0, <1>1, <2>2 DEF OneWord, Brief!Done
  <2>8. OnTime'
    BY <1>0, <1>1, <2>2 DEF OnTime, Brief!Done, Brief!Approved
  <2>9. Paid'
    BY <1>0, <1>1, <1>2, <2>1, <2>2 DEF Paid, Brief!Done
  <2> QED
    BY <2>4, <2>5, <2>6, <2>7, <2>8, <2>9 DEF BriefInv
<1> QED
  BY <1>3, <1>4, <1>5 DEF Brief!JudgeThemes, Brief!Checkpoint

\* Gate 0 stamps an approval on a brief that holds none, or the same.
LEMMA BriefStampsZero ==
    ASSUME BriefInv, Brief!StampZero PROVE BriefInv'
<1>0. BriefTypes /\ AtStep /\ Follows /\ OneWord /\ OnTime /\ Paid
  BY DEF BriefInv
<1>1. UNCHANGED <<inbox, cp, frozen, journal, reads, rejections, calls, halts>>
  BY DEF Brief!StampZero, Brief!counts
<1>2. job' \in Jobs /\ job'.at = "logging0" /\ job'.req = job.req /\ job'.pkg = job.pkg
  BY <1>0, JobGoes DEF Brief!StampZero, Steps
<1>3. /\ job.at = "stamping0" /\ brief # Absent /\ job.req \in Approvals
      /\ brief.gate0 \in {Absent, job.req}
      /\ ~Brief!Done("gate_0")
  BY <1>0 DEF Brief!StampZero, AtStep
<1>4. /\ late' \in BOOLEAN /\ job.req # Absent
      /\ ~late' => ~late /\ Brief!Done("bid_brief")
  BY <1>0, <1>3, BriefConstants DEF Brief!StampZero, BriefTypes
<1>5. /\ brief' \in Brief!Briefs /\ brief' # Absent /\ brief'.gate0 = job.req
      /\ brief'.reading = brief.reading /\ brief'.findings = brief.findings /\ brief'.themes = brief.themes
      /\ brief'.status = brief.status /\ brief'.gate1 = brief.gate1
  BY <1>0, <1>3, BriefFields, BriefConstants DEF Brief!StampZero, Brief!Write, Brief!Briefs
<1>6. BriefTypes'
  BY <1>0, <1>1, <1>2, <1>3, <1>4, <1>5 DEF BriefTypes
<1>7. AtStep'
  BY <1>0, <1>1, <1>2, <1>3, <1>4, <1>5
     DEF AtStep, Brief!Done, Brief!Gated, Researching, Stamped0, Stamped1
<1>8. Follows'
  BY <1>0, <1>1, <1>2, <1>3, <1>4, <1>5 DEF Follows, Brief!Done, Brief!Gated
<1>9. OneWord'
  BY <1>0, <1>1, <1>2, <1>3, <1>4, <1>5, BriefConstants DEF OneWord, Brief!Done
<1>10. OnTime'
  BY <1>0, <1>1, <1>2, <1>3, <1>4, <1>5 DEF OnTime, Brief!Done, Brief!Approved
<1>11. Paid'
  BY <1>0, <1>1, <1>2, <1>3, <1>4, <1>5 DEF Paid, Brief!Done
<1> QED
  BY <1>6, <1>7, <1>8, <1>9, <1>10, <1>11 DEF BriefInv

\* Gate 1 stamps its decision on a brief that has themes and no other decision.
LEMMA BriefStampsOne ==
    ASSUME BriefInv, Brief!StampOne PROVE BriefInv'
<1>0. BriefTypes /\ AtStep /\ Follows /\ OneWord /\ OnTime /\ Paid
  BY DEF BriefInv
<1>1. UNCHANGED <<inbox, cp, frozen, journal, reads, rejections, calls, halts, late>>
  BY DEF Brief!StampOne, Brief!counts
<1>2. job' \in Jobs /\ job'.at = "freezing" /\ job'.req = job.req /\ job'.pkg = job.pkg
  BY <1>0, JobGoes DEF Brief!StampOne, Steps
<1>3. /\ job.at = "stamping1" /\ brief # Absent /\ job.req \in Brief!Requests /\ job.req # Absent
      /\ brief.themes # 0 /\ (Brief!Gated => brief.gate1 = job.req)
  BY <1>0, BriefConstants DEF Brief!StampOne, AtStep
<1>4. /\ brief' \in Brief!Briefs /\ brief' # Absent /\ brief'.gate1 = job.req
      /\ brief'.status = (IF job.req = Rejection THEN "declined" ELSE "approved")
      /\ brief'.reading = brief.reading /\ brief'.gate0 = brief.gate0 /\ brief'.findings = brief.findings
      /\ brief'.themes = brief.themes
  <2> DEFINE status == IF job.req = Rejection THEN "declined" ELSE "approved"
             clock == Brief!StampClock
  <2>1. brief' = [brief EXCEPT !.gate1 = job.req, !.clock = clock, !.status = status]
    BY DEF Brief!StampOne, Brief!Write
  <2>2. status \in {"draft", "gate1_pending", "approved", "declined"} /\ clock \in 0..MaxHalts
    BY <1>0, <1>3, BriefFields DEF Brief!StampClock, BriefTypes
  <2> HIDE DEF status, clock
  <2>3. /\ brief' \in Brief!Briefs /\ brief'.gate1 = job.req /\ brief'.status = status
        /\ brief'.reading = brief.reading /\ brief'.gate0 = brief.gate0
        /\ brief'.findings = brief.findings /\ brief'.themes = brief.themes
    BY <1>0, <1>3, <2>1, <2>2, BriefFields DEF Brief!Briefs
  <2> QED
    BY <2>3, BriefConstants DEF status
<1>5. brief.gate1 \in Brief!Requests => brief.gate1 = job.req
  BY <1>0, <1>3, BriefConstants DEF Follows
<1>6. frozen # Absent => brief' = brief
  <2> SUFFICES ASSUME frozen # Absent PROVE brief' = brief
    OBVIOUS
  <2>1. Brief!Gated /\ brief.gate1 = job.req /\ brief.gate1 # Rejection /\ brief.status = "approved"
    BY <1>0, <1>3, BriefConstants DEF Follows, Brief!Gated
  <2>2. brief' = [brief EXCEPT !.gate1 = brief.gate1, !.clock = brief.clock, !.status = brief.status]
    BY <2>1 DEF Brief!StampOne, Brief!Write, Brief!StampClock
  <2>3. brief \in Brief!Briefs
    BY <1>0, <1>3, BriefFields
  <2> QED
    BY <2>2, <2>3 DEF Brief!Briefs
<1>7. BriefTypes'
  BY <1>0, <1>1, <1>2, <1>3, <1>4, <1>5, <1>6 DEF BriefTypes
<1>8. AtStep'
  BY <1>0, <1>1, <1>2, <1>3, <1>4, <1>5, <1>6
     DEF AtStep, Brief!Done, Brief!Gated, Researching, Stamped0, Stamped1
<1>9. Follows'
  BY <1>0, <1>1, <1>2, <1>3, <1>4, <1>5, <1>6, BriefConstants DEF Follows, Brief!Done, Brief!Gated
<1>10. OneWord'
  BY <1>0, <1>1, <1>2, <1>3, <1>4, <1>5, <1>6, BriefConstants DEF OneWord, Brief!Done
<1>11. OnTime'
  BY <1>0, <1>1, <1>2, <1>3, <1>4, <1>5, <1>6 DEF OnTime, Brief!Done, Brief!Approved
<1>12. Paid'
  BY <1>0, <1>1, <1>2, <1>3, <1>4, <1>5, <1>6 DEF Paid, Brief!Done
<1> QED
  BY <1>7, <1>8, <1>9, <1>10, <1>11, <1>12 DEF BriefInv

\* An approved brief is frozen as it stands.
LEMMA BriefFreezes ==
    ASSUME BriefInv, Brief!Freeze PROVE BriefInv'
<1>0. BriefTypes /\ AtStep /\ Follows /\ OneWord /\ OnTime /\ Paid
  BY DEF BriefInv
<1>1. UNCHANGED <<inbox, cp, brief, journal, reads, rejections, calls, halts, late>>
  BY DEF Brief!Freeze, Brief!counts
<1>2. job' \in Jobs /\ job'.at = "logging1" /\ job'.req = job.req /\ job'.pkg = job.pkg
  BY <1>0, JobGoes DEF Brief!Freeze, Steps
<1>3. /\ job.at = "freezing" /\ brief # Absent /\ brief \in Brief!Briefs /\ job.req \in Brief!Requests
      /\ brief.gate1 = job.req
  BY <1>0, BriefFields DEF Brief!Freeze, AtStep, Stamped1
<1>4. frozen' = IF job.req = Rejection THEN frozen ELSE brief
  BY DEF Brief!Freeze
<1>5. job.req # Rejection => brief.gate1 \in Approvals
  BY <1>3, BriefConstants
<1>6. BriefTypes'
  BY <1>0, <1>1, <1>2, <1>3, <1>4, <1>5 DEF BriefTypes
<1>7. AtStep'
  BY <1>0, <1>1, <1>2, <1>3, <1>4, <1>5
     DEF AtStep, Brief!Done, Brief!Gated, Researching, Stamped0, Stamped1
<1>8. Follows'
  BY <1>0, <1>1, <1>2, <1>3, <1>4, <1>5 DEF Follows, Brief!Done, Brief!Gated
<1>9. OneWord'
  BY <1>0, <1>1, <1>2, <1>3, <1>4, <1>5 DEF OneWord, Brief!Done
<1>10. OnTime'
  BY <1>0, <1>1, <1>2, <1>3, <1>4, <1>5 DEF OnTime, Brief!Done, Brief!Approved
<1>11. Paid'
  BY <1>0, <1>1, <1>2, <1>3, <1>4, <1>5 DEF Paid, Brief!Done
<1> QED
  BY <1>6, <1>7, <1>8, <1>9, <1>10, <1>11 DEF BriefInv

\* Nothing is there but the package.
LEMMA BriefInit == Init => BriefInv
<1> SUFFICES ASSUME Brief!Init PROVE BriefInv
  BY DEF Init
<1>1. /\ inbox = 1 /\ cp = [s \in Brief!Stages |-> Absent] /\ brief = Absent /\ frozen = Absent
      /\ job = Brief!Idle /\ journal = {} /\ reads = 0 /\ rejections = 0 /\ calls = 0 /\ halts = 0
      /\ late = FALSE
  BY DEF Brief!Init
<1>2. /\ job \in Jobs /\ job.at = "idle"
      /\ cp = [s \in Brief!Stages |-> cp[s]] /\ \A s \in Brief!Stages : cp[s] = Absent
  BY <1>1, JobIdle
<1>3. /\ cp["intake"] = Absent /\ cp["bid_brief"] = Absent /\ cp["gate_0"] = Absent
      /\ cp["research_internal"] = Absent /\ cp["research_external"] = Absent
      /\ cp["win_themes"] = Absent /\ cp["gate_1"] = Absent
  BY <1>2 DEF Brief!Stages
<1>4. BriefTypes
  <2>1. /\ inbox \in 1..MaxPackages /\ reads \in 0..MaxReads /\ rejections \in 0..MaxRejections
        /\ halts \in 0..MaxHalts /\ calls \in Nat
    BY <1>1, BriefConstants
  <2>2. late \in BOOLEAN /\ journal \subseteq Lines
    BY <1>1
  <2> QED
    BY <1>1, <1>2, <1>3, <2>1, <2>2 DEF BriefTypes
<1>5. AtStep
  BY <1>2 DEF AtStep, Researching, Stamped0, Stamped1
<1>6. Follows /\ OneWord /\ OnTime
  BY <1>1, <1>3 DEF Follows, OneWord, OnTime, Brief!Done
<1>7. Paid
  BY <1>1, <1>2, <1>3 DEF Paid, Brief!Done
<1> QED
  BY <1>4, <1>5, <1>6, <1>7 DEF BriefInv

\* Whatever else moves leaves the brief alone.
LEMMA BriefStays == BriefInv /\ UNCHANGED briefVars => BriefInv'
<1> SUFFICES ASSUME BriefInv, UNCHANGED briefVars PROVE BriefInv'
  OBVIOUS
<1>0. BriefTypes /\ AtStep /\ Paid
  BY DEF BriefInv
<1>1. UNCHANGED <<inbox, cp, brief, frozen, job, journal, reads, rejections, calls, halts, late>>
  BY DEF briefVars
<1>2. inbox' \in 1..MaxPackages /\ job' \in Jobs /\ halts' \in 0..MaxHalts
  BY <1>0, <1>1 DEF BriefTypes
<1>3. AtStep'
  BY <1>0, <1>1 DEF AtStep, Brief!Done, Brief!Gated
<1>4. Paid'
  BY <1>0, <1>1 DEF Paid, Brief!Done
<1> QED
  BY <1>1, <1>2, <1>3, <1>4, OnlyJobMoves

\* The brief's invariant holds across every step of the composition.
LEMMA BriefStep == BriefInv /\ [Next]_vars => BriefInv'
<1> SUFFICES ASSUME BriefInv, [Next]_vars PROVE BriefInv'
  OBVIOUS
<1>1. CASE Brief!Next
  <2>1. CASE Brief!Upload \/ Brief!Start
    BY <2>1, BriefStarts DEF Brief!Start
  <2>2. CASE Brief!Intake \/ Brief!Research \/ Brief!Themes
    BY <2>2, BriefReads, BriefAssembles, BriefCloses, BriefResearches, BriefSpends, BriefFinds,
       BriefEnds, BriefJudges, BriefThemes DEF Brief!Intake, Brief!Research, Brief!Themes
  <2>3. CASE Brief!GateZero \/ Brief!GateOne
    BY <2>3, BriefClears, BriefUnbriefs, BriefSendsBack, BriefStampsZero, BriefLogsZero,
       BriefClosesZero, BriefStampsOne, BriefFreezes, BriefLogsOne, BriefClosesOne
       DEF Brief!GateZero, Brief!GateOne
  <2>4. CASE Brief!Halt
    BY <2>4, BriefHalt
  <2> QED
    BY <1>1, <2>1, <2>2, <2>3, <2>4 DEF Brief!Next, Brief!Lane
<1>2. CASE UNCHANGED briefVars
  BY <1>2, BriefStays
<1> QED
  BY <1>1, <1>2 DEF Next, Read, Advance, Judge, vars

\* What the gates promise of the brief follows from its invariant.
LEMMA BriefHolds ==
    ASSUME BriefInv
    PROVE  /\ Brief!TypeOK /\ Brief!ResearchIsConfirmed /\ Brief!OneDecision
           /\ Brief!ThemesFollowReading /\ Brief!ResearchPaidOnce /\ Brief!RedoIsRead
<1>0. BriefTypes /\ AtStep /\ Follows /\ OneWord /\ OnTime /\ Paid
  BY DEF BriefInv
<1>1. Brief!TypeOK
  <2>1. \A s \in Brief!Stages :
           cp[s] \in {Absent} \cup 1..MaxPackages \cup 1..MaxReads \cup Brief!Requests
    BY <1>0, BriefConstants DEF BriefTypes, Brief!Stages
  <2>2. cp \in [Brief!Stages -> {Absent} \cup 1..MaxPackages \cup 1..MaxReads \cup Brief!Requests]
    BY <1>0, <2>1 DEF BriefTypes
  <2>3. /\ job.req \in Brief!Requests \cup {Absent} /\ job.pkg \in 0..MaxPackages
        /\ \A line \in journal : line.reading \in 1..MaxReads
    BY <1>0 DEF BriefTypes, Jobs, Lines
  <2> QED
    BY <1>0, <2>2, <2>3 DEF BriefTypes, Brief!TypeOK
<1>2. Brief!ResearchIsConfirmed
  <2> SUFFICES ASSUME ~late
               PROVE  /\ \A line \in journal : line.what = "spent" => Brief!Approved(line.reading)
                      /\ frozen # Absent => frozen.gate0 # Absent
    BY DEF Brief!ResearchIsConfirmed
  <2>1. frozen # Absent => frozen = brief /\ Brief!Done("gate_0")
    BY <1>0, BriefConstants DEF Follows, Brief!Gated
  <2> QED
    BY <1>0, <2>1 DEF OnTime
<1>3. Brief!OneDecision
  <2>1. \A a, b \in journal :
           a.what = b.what /\ a.what \in {"gate_0", "gate_1"} /\ a.reading = b.reading
              => a.req = b.req
    BY <1>0 DEF OneWord
  <2>2. ASSUME frozen # Absent,
               Brief!Line("gate_1", IF brief = Absent THEN 1 ELSE brief.reading, Rejection) \in journal
        PROVE  FALSE
    <3>1. brief # Absent /\ brief.gate1 \in Approvals
      BY <1>0, <2>2 DEF Follows
    <3>2. Brief!Line("gate_1", brief.reading, Rejection) \in journal
      BY <2>2, <3>1
    <3>3. PICK line \in journal :
             line.what = "gate_1" /\ line.reading = brief.reading /\ line.req = Rejection
      BY <3>2 DEF Brief!Line
    <3> QED
      BY <1>0, <3>1, <3>3, BriefConstants DEF OneWord
  <2> QED
    BY <2>1, <2>2 DEF Brief!OneDecision
<1>4. Brief!ThemesFollowReading
  BY <1>0 DEF Follows, Brief!ThemesFollowReading
<1>5. Brief!ResearchPaidOnce
  BY <1>0 DEF Paid, BriefTypes, Brief!ResearchPaidOnce
<1>6. Brief!RedoIsRead
  <2> SUFFICES ASSUME ~late, Brief!Done("gate_0"),
                      Brief!Line("sent_back", brief.reading, Rejection) \in journal
               PROVE  FALSE
    BY DEF Brief!RedoIsRead
  <2>1. brief # Absent /\ Brief!Done("bid_brief")
    BY <1>0 DEF Follows, OnTime
  <2>2. PICK line \in journal : line.what = "sent_back" /\ line.reading = brief.reading
    BY DEF Brief!Line
  <2> QED
    BY <1>0, <2>1, <2>2 DEF OneWord
<1> QED
  BY <1>1, <1>2, <1>3, <1>4, <1>5, <1>6

\* No retry, resubmission or redo changes a byte of the frozen brief, and brief.json stays equal
\* to it, for any requests and halts (strategy/gate.py:202-210).
THEOREM FrozenBriefStands == Spec => Brief!FreezeStands
<1>1. Init => BriefInv
  BY BriefInit
<1>2. BriefInv /\ [Next]_vars => BriefInv'
  BY BriefStep
<1>3. BriefInv /\ [Next]_vars
         => [frozen # Absent => frozen' = frozen /\ brief' = frozen']_(Brief!vars)
  <2> SUFFICES ASSUME BriefInv, [Next]_vars, frozen # Absent, ~(frozen' = frozen /\ brief' = frozen')
               PROVE  UNCHANGED Brief!vars
    OBVIOUS
  <2>0. AtStep /\ Follows
    BY DEF BriefInv
  <2>1. /\ brief = frozen /\ brief # Absent /\ brief.gate1 \in Approvals /\ Brief!Gated
        /\ brief.themes # 0 /\ brief.findings # 0
        /\ Brief!Done("research_internal") /\ Brief!Done("bid_brief") /\ Brief!Done("gate_0")
    BY <2>0, BriefConstants DEF Follows, Brief!Gated
  <2>2. /\ job.at \notin Researching /\ job.at \notin {"reading", "assembling", "assembled"}
        /\ job.at \notin {"unreading", "unbriefing", "sending"}
        /\ job.at \notin {"stamping0", "logging0", "closing0"}
        /\ job.at \in Stamped1 \cup {"stamping1"} => job.req = brief.gate1
    BY <2>0, <2>1 DEF AtStep, Researching, Stamped0, Stamped1
  <2>3. job.req # Rejection \/ job.at \notin Stamped1 \cup {"stamping1"}
    BY <2>1, <2>2, BriefConstants
  <2>4. CASE Brief!StampOne
    <3>1. UNCHANGED frozen /\ job.at = "stamping1" /\ job.req = brief.gate1 /\ job.req # Rejection
      BY <2>2, <2>3, <2>4 DEF Brief!StampOne
    <3>2. brief.status = "approved" /\ brief \in Brief!Briefs
      BY <2>0, <2>1, BriefFields DEF Follows, BriefInv
    <3>3. brief' = [brief EXCEPT !.gate1 = brief.gate1, !.clock = brief.clock,
                                 !.status = brief.status]
      BY <2>1, <2>4, <3>1, <3>2 DEF Brief!StampOne, Brief!Write, Brief!StampClock
    <3>4. brief' = brief
      BY <3>2, <3>3 DEF Brief!Briefs
    <3> QED
      BY <2>1, <3>1, <3>4
  <2>5. CASE Brief!Freeze
    BY <2>1, <2>2, <2>3, <2>5 DEF Brief!Freeze, Stamped1
  <2>6. CASE Brief!Upload \/ Brief!Start \/ Brief!Halt \/ Brief!LogOne \/ Brief!CloseOne
    BY <2>1, <2>6 DEF Brief!Upload, Brief!Start, Brief!StartIntake, Brief!StartResearch,
       Brief!DecideZero, Brief!DecideOne, Brief!Halt, Brief!LogOne, Brief!CloseOne
  <2>7. CASE Brief!Intake \/ Brief!Research \/ Brief!Themes \/ Brief!GateZero
    BY <2>2, <2>7 DEF Brief!Intake, Brief!Research, Brief!Themes, Brief!GateZero, Researching,
       Brief!ReadPackage, Brief!AssembleBrief, Brief!CloseIntake, Brief!ResearchInternal,
       Brief!ResearchExternal, Brief!WriteFindings, Brief!CloseResearch, Brief!JudgeThemes,
       Brief!WriteThemes, Brief!ClearIntake, Brief!Unbrief, Brief!SendBack, Brief!StampZero,
       Brief!LogZero, Brief!CloseZero
  <2>8. CASE UNCHANGED briefVars
    BY <2>8 DEF briefVars, Brief!vars
  <2>9. Brief!Next \/ UNCHANGED briefVars
    BY DEF Next, Read, Advance, Judge, vars
  <2> QED
    BY <2>4, <2>5, <2>6, <2>7, <2>8, <2>9 DEF Brief!Next, Brief!Lane, Brief!GateOne
<1> QED
  BY <1>1, <1>2, <1>3, PTL DEF Spec, Brief!FreezeStands

-----------------------------------------------------------------------------
(* The slate                                                               *)

Themes == [id : Nat, cites : SUBSET Slate!Sources, status : {"proposed", "killed", "approved"},
           by : {"model", "human"}]
SlateTypes ==
    /\ phase \in {"internal", "external", "generate", "judge", "gate", "approved", "refused"}
    /\ mode \in {"airgapped", "web"} /\ edits \in 0..MaxEdits
    /\ opened \subseteq Cards /\ findings \subseteq Slate!Sources
    /\ slate \in Seq(Themes) /\ Len(slate) <= GenerateMax + edits

\* Sources are known before the themes that cite them.
Known ==
    /\ opened \cap Restricted = {} /\ findings \cap Cards \subseteq opened
    /\ mode = "airgapped" => findings \cap Urls \subseteq Packed
    /\ phase = "internal" => findings = {}
    /\ phase \in {"internal", "external", "generate", "refused"} => slate = <<>>

\* A theme of the model's cites findings, and a theme is numbered by its place.
Cited ==
    \A i \in 1..Len(slate) :
       /\ slate[i].id = i
       /\ slate[i].by = "model" => slate[i].cites # {} /\ slate[i].cites \subseteq findings
       /\ phase = "judge" => slate[i].by = "model" /\ slate[i].status = "proposed"

Standing == {i \in 1..Len(slate) : slate[i].by = "model" /\ slate[i].status # "killed"}
Judged == phase \in {"gate", "approved"} => Cardinality(Standing) <= KeepMax
Closed == decided = IF phase = "approved" THEN {i \in 1..Len(slate) : slate[i].status = "approved"}
                    ELSE {}

SlateInv == SlateTypes /\ Known /\ Cited /\ Judged /\ Closed

\* What is assumed of the slate's constants.
LEMMA SlateConstants ==
    /\ Restricted \subseteq Cards /\ Packed \subseteq Urls /\ Cards \cap Urls = {}
    /\ GenerateMax \in Nat /\ KeepMax \in Nat /\ MaxEdits \in Nat
    /\ Slate!Sources = Cards \cup Urls /\ \A S : Slate!Cardinality(S) = Cardinality(S)
<1>1. \A S : Slate!Cardinality(S) = Cardinality(S)
  BY DEF Slate!Cardinality, Cardinality
<1> QED
  BY <1>1, IntakeConstants DEF Slate!SlateAssumption, Slate!Sources

\* A part of 1..n is finite, and so are its parts.
LEMMA Window ==
    ASSUME NEW n \in Nat, NEW K \in SUBSET (1..n)
    PROVE  IsFiniteSet(K) /\ Cardinality(K) \in Nat /\ Cardinality(K) <= n
<1>1. IsFiniteSet(1..n) /\ Cardinality(1..n) <= n
  BY FS_Interval
<1>2. IsFiniteSet(K) /\ Cardinality(K) <= Cardinality(1..n)
  BY <1>1, FS_Subset
<1>3. Cardinality(K) \in Nat /\ Cardinality(1..n) \in Nat
  BY <1>1, <1>2, FS_CardinalityType
<1> QED
  BY <1>1, <1>2, <1>3

\* A set of numbers that is not empty has a least one.
LEMMA LeastOne ==
    ASSUME NEW S \in SUBSET Nat, S # {} PROVE \E z \in S : \A y \in S : z <= y
<1> DEFINE Less == OpToRel(<, Nat)
<1>1. IsWellFoundedOn(Less, Nat)
  BY NatLessThanWellFounded
<1>2. PICK z \in S : \A y \in S : ~(<<y, z>> \in Less)
  <2> HIDE DEF Less
  <2> QED
    BY <1>1, WFMin
<1>3. \A y \in S : ~(y < z)
  BY <1>2 DEF OpToRel
<1>4. \A y \in S : z <= y
  BY <1>3
<1> QED
  BY <1>4

\* The k-th element of a part of 1..n is one of its elements.
LEMMA NthIsThere ==
    ASSUME NEW n \in Nat, NEW K \in SUBSET (1..n), NEW k \in 1..Cardinality(K)
    PROVE  Slate!Nth(K, k) \in K
<1> DEFINE Upto(i) == {j \in K : j <= i}
           Many == {i \in 1..n : Cardinality(Upto(i)) >= k}
<1>1. \A i : Upto(i) \in SUBSET (1..n) /\ IsFiniteSet(Upto(i)) /\ Cardinality(Upto(i)) \in Nat
  BY Window
<1>2. k \in Nat /\ k >= 1 /\ Cardinality(K) \in Nat /\ k <= Cardinality(K)
  BY Window
<1>0. \A j \in K : j \in 1..n /\ j \in Nat /\ j >= 1 /\ j <= n
  OBVIOUS
<1>3. n \in Many
  <2>1. Upto(n) = K
    BY <1>0
  <2>2. n # 0
    <3> SUFFICES ASSUME n = 0 PROVE FALSE
      OBVIOUS
    <3>1. K = {}
      OBVIOUS
    <3> QED
      BY <1>2, <3>1, FS_EmptySet
  <2>a. n \in 1..n
    BY <2>2
  <2>b. Cardinality(Upto(n)) >= k
    <3> HIDE DEF Upto
    <3> QED
      BY <1>2, <2>1
  <2>3. n \in 1..n /\ Cardinality(Upto(n)) >= k
    BY <2>a, <2>b
  <2> HIDE DEF Upto
  <2> QED
    BY <2>3
<1>4. PICK i \in Many : \A y \in Many : i <= y
  <2>1. Many \in SUBSET Nat
    <3> HIDE DEF Upto
    <3> QED
      OBVIOUS
  <2> HIDE DEF Many
  <2>2. Many # {}
    BY <1>3
  <2> QED
    BY <2>1, <2>2, LeastOne
<1>5. i \in 1..n /\ Cardinality(Upto(i)) >= k
  BY <1>4
<1>6. Cardinality(Upto(i - 1)) < k
  <2>1. CASE i = 1
    <3>a. \A j \in K : ~(j <= i - 1)
      BY <1>0, <2>1
    <3>1. Upto(i - 1) = {}
      BY <3>a
    <3> QED
      BY <1>2, <3>1, FS_EmptySet
  <2>2. CASE i # 1
    <3>1. i - 1 \in 1..n /\ ~(i <= i - 1)
      BY <1>5, <2>2
    <3>2. i - 1 \notin Many
      BY <1>4, <3>1
    <3> HIDE DEF Upto
    <3>3. ~(Cardinality(Upto(i - 1)) >= k)
      BY <3>1, <3>2
    <3> QED
      BY <1>1, <1>2, <3>3
  <2> QED
    BY <2>1, <2>2
<1>7. i \in K
  <2> SUFFICES ASSUME i \notin K PROVE FALSE
    OBVIOUS
  <2>a. i \in 1..n
    BY <1>5
  <2>b. \A j \in K : j <= i <=> j <= i - 1
    BY <1>0, <2>a
  <2>1. Upto(i) = Upto(i - 1)
    BY <2>b
  <2> HIDE DEF Upto
  <2> QED
    BY <1>1, <1>2, <1>5, <1>6, <2>1
<1>8. Cardinality(Upto(i)) = k
  <2>a. i \in 1..n
    BY <1>5
  <2>b. (\A j \in K : j <= i <=> j <= i - 1 \/ j = i) /\ ~(i <= i - 1)
    BY <1>0, <2>a
  <2>1. Upto(i) = Upto(i - 1) \cup {i} /\ i \notin Upto(i - 1)
    BY <1>7, <2>b
  <2> HIDE DEF Upto
  <2>2. Cardinality(Upto(i)) = Cardinality(Upto(i - 1)) + 1
    BY <1>1, <2>1, FS_AddElement
  <2> QED
    BY <1>1, <1>2, <1>5, <1>6, <2>2
<1>9. Slate!Cardinality({j \in K : j <= i}) = k
  BY <1>8, SlateConstants
<1> QED
  BY <1>7, <1>9 DEF Slate!Nth

\* Of a part of 1..n, at most m elements have fewer than m elements below them.
LEMMA FirstOnes ==
    ASSUME NEW n \in Nat, NEW K \in SUBSET (1..n), NEW m \in Nat
    PROVE  Cardinality({i \in K : Cardinality({j \in K : j < i}) < m}) <= m
<1> DEFINE Below(i) == {j \in K : j < i}
           First == {i \in K : Cardinality(Below(i)) < m}
           Mirror == {n - i : i \in First}
<1>1. First \in SUBSET (1..n) /\ IsFiniteSet(First) /\ Cardinality(First) \in Nat
  BY Window
<1>2. \A i : Below(i) \in SUBSET (1..n) /\ IsFiniteSet(Below(i)) /\ Cardinality(Below(i)) \in Nat
  BY Window
<1>3. CASE First = {}
  <2> HIDE DEF First
  <2>1. Cardinality(First) <= m
    BY <1>3, FS_EmptySet
  <2> QED
    BY <2>1 DEF First
<1>4. CASE First # {}
  <2>1. Mirror \in SUBSET Nat /\ Mirror # {}
    <3>1. \A i \in First : n - i \in Nat
      BY <1>1
    <3> HIDE DEF First
    <3> QED
      BY <1>4, <3>1
  <2>2. PICK z \in Mirror : \A y \in Mirror : z <= y
    <3> HIDE DEF Mirror
    <3> QED
      BY <2>1, LeastOne
  <2>3. PICK last \in First : z = n - last
    OBVIOUS
  <2>4. \A i \in First : i <= last
    <3> HIDE DEF First
    <3> SUFFICES ASSUME NEW i \in First PROVE i <= last
      OBVIOUS
    <3>1. n - last <= n - i
      BY <2>2, <2>3
    <3>2. i \in 1..n /\ last \in 1..n
      BY <1>1
    <3> QED
      BY <3>1, <3>2
  <2>5. First \ {last} \in SUBSET Below(last)
    <3>1. \A i \in First : i \in K /\ i \in Nat
      OBVIOUS
    <3>2. last \in Nat
      BY <3>1
    <3> HIDE DEF First
    <3>3. \A i \in First \ {last} : i < last /\ i \in K
      BY <2>4, <3>1, <3>2
    <3> QED
      BY <3>3
  <2>6. Cardinality(Below(last)) < m
    BY <2>3
  <2> HIDE DEF First, Below
  <2>7. Cardinality(First) - 1 <= Cardinality(Below(last))
    <3>1. Cardinality(First \ {last}) = Cardinality(First) - 1
      BY <1>1, FS_RemoveElement
    <3>2. Cardinality(First \ {last}) <= Cardinality(Below(last))
      BY <1>2, <2>5, FS_Subset
    <3> QED
      BY <1>1, <3>1, <3>2
  <2>8. Cardinality(First) <= m
    BY <1>1, <1>2, <2>6, <2>7
  <2> QED
    BY <2>8 DEF First, Below
<1> QED
  BY <1>3, <1>4

\* Nothing has been opened, found or proposed.
LEMMA SlateInit == Init => SlateInv
<1> SUFFICES ASSUME Slate!Init PROVE SlateInv
  BY DEF Init
<1>1. /\ phase = "internal" /\ mode \in {"airgapped", "web"} /\ opened = {} /\ findings = {}
      /\ slate = <<>> /\ decided = {} /\ edits = 0 /\ Len(slate) = 0
  BY DEF Slate!Init
<1>2. SlateTypes
  BY <1>1, SlateConstants DEF SlateTypes
<1>3. Known
  BY <1>1 DEF Known
<1>4. Cited /\ Judged /\ Closed
  BY <1>1 DEF Cited, Judged, Closed
<1> QED
  BY <1>2, <1>3, <1>4 DEF SlateInv

\* Research finds sources: opened cards that may be used, URLs of the pack when there is no net.
LEMMA SlateResearches ==
    ASSUME SlateInv,
           \/ \E found, cited \in SUBSET Cards : Slate!ResearchInternal(found, cited)
           \/ \E supplied \in BOOLEAN, cited \in SUBSET Urls : Slate!ResearchExternal(supplied, cited)
    PROVE  SlateInv'
<1>0. SlateTypes /\ Known /\ Cited /\ Judged /\ Closed
  BY DEF SlateInv
<1>1. /\ UNCHANGED <<mode, slate, decided, edits>> /\ phase \in {"internal", "external"}
      /\ phase' \in {"external", "generate", "refused"}
  BY DEF Slate!ResearchInternal, Slate!ResearchExternal
<1>2. slate = <<>> /\ Len(slate) = 0
  BY <1>0, <1>1 DEF Known
<1>3. /\ opened' \cap Restricted = {} /\ findings' \cap Cards \subseteq opened'
      /\ opened' \subseteq Cards /\ findings' \subseteq Slate!Sources
      /\ mode = "airgapped" => findings' \cap Urls \subseteq Packed
  <2>1. CASE \E found, cited \in SUBSET Cards : Slate!ResearchInternal(found, cited)
    <3>1. PICK found \in SUBSET Cards, cited \in SUBSET Cards :
             opened' = found \ Restricted /\ findings' = cited \cap opened'
      BY <2>1 DEF Slate!ResearchInternal, Slate!Openable, Slate!Traceable
    <3> QED
      BY <3>1, SlateConstants
  <2>2. CASE \E supplied \in BOOLEAN, cited \in SUBSET Urls : Slate!ResearchExternal(supplied, cited)
    <3>1. PICK supplied \in BOOLEAN, cited \in SUBSET Urls : Slate!ResearchExternal(supplied, cited)
      BY <2>2
    <3>2. PICK more \in SUBSET Urls :
             /\ opened' = opened /\ findings' = findings \cup more
             /\ mode = "airgapped" => more \subseteq Packed
      <4>1. CASE mode = "airgapped"
        BY <3>1, <4>1, SlateConstants DEF Slate!ResearchExternal, Slate!Traceable, Slate!PackUrls
      <4>2. CASE mode # "airgapped"
        BY <3>1, <4>2 DEF Slate!ResearchExternal
      <4> QED
        BY <4>1, <4>2
    <3>3. /\ opened \cap Restricted = {} /\ findings \cap Cards \subseteq opened
          /\ opened \subseteq Cards /\ findings \subseteq Slate!Sources
          /\ mode = "airgapped" => findings \cap Urls \subseteq Packed
      BY <1>0 DEF SlateTypes, Known
    <3>4. more \cap Cards = {} /\ more \subseteq Slate!Sources
      BY SlateConstants
    <3> QED
      BY <3>2, <3>3, <3>4
  <2> QED
    BY <2>1, <2>2
<1>4. SlateTypes'
  BY <1>0, <1>1, <1>3 DEF SlateTypes
<1>5. Known'
  BY <1>1, <1>2, <1>3 DEF Known
<1>6. Cited' /\ Judged' /\ Closed'
  BY <1>0, <1>1, <1>2 DEF Cited, Judged, Closed
<1> QED
  BY <1>4, <1>5, <1>6 DEF SlateInv

\* The slate holds the proposals that cite a finding, cut to their findings and numbered.
LEMMA SlateGenerates ==
    ASSUME SlateInv, NEW m \in Nat, NEW wire \in [1..m -> SUBSET Slate!Sources], Slate!Generate(wire)
    PROVE  SlateInv'
<1> DEFINE kept == Slate!Kept(wire)
           cut == Slate!Truncated(kept)
           cites(k) == wire[Slate!Nth(kept, k)] \cap findings
<1>0. SlateTypes /\ Known /\ Closed
  BY DEF SlateInv
<1>1. /\ phase = "generate" /\ phase' = "judge" /\ UNCHANGED <<mode, opened, findings, decided, edits>>
      /\ slate' = [k \in 1..cut |-> Slate!Candidate(k, cites(k), "proposed", "model")]
  BY DEF Slate!Generate, Slate!Numbered, Slate!Traceable
<1>2. kept \in SUBSET (1..m) /\ \A i \in kept : wire[i] \cap findings # {}
  BY DEF Slate!Kept, Slate!Traceable
<1>3. cut \in Nat /\ cut <= GenerateMax /\ cut <= Cardinality(kept)
  <2>1. Cardinality(kept) \in Nat /\ Slate!Cardinality(kept) = Cardinality(kept)
    BY <1>2, Window, SlateConstants
  <2>2. \A a, b \in Nat : /\ Slate!Min({a, b}) \in Nat /\ Slate!Min({a, b}) <= a
                          /\ Slate!Min({a, b}) <= b
    <3> SUFFICES ASSUME NEW a \in Nat, NEW b \in Nat
                 PROVE  /\ Slate!Min({a, b}) \in Nat /\ Slate!Min({a, b}) <= a
                        /\ Slate!Min({a, b}) <= b
      OBVIOUS
    <3>1. \E x \in {a, b} : \A y \in {a, b} : x <= y
      <4>1. a <= b \/ b <= a
        OBVIOUS
      <4> QED
        BY <4>1
    <3> QED
      BY <3>1 DEF Slate!Min
  <2> HIDE DEF kept
  <2> QED
    BY <2>1, <2>2, SlateConstants DEF Slate!Truncated
<1>4. \A k \in 1..cut : Slate!Nth(kept, k) \in kept
  <2> SUFFICES ASSUME NEW k \in 1..cut PROVE Slate!Nth(kept, k) \in kept
    OBVIOUS
  <2>1. Cardinality(kept) \in Nat
    BY <1>2, Window
  <2> HIDE DEF kept, cut
  <2>2. k \in 1..Cardinality(kept)
    BY <1>3, <2>1
  <2> QED
    BY <1>2, <2>2, NthIsThere
<1>5. \A k \in 1..cut : cites(k) # {} /\ cites(k) \subseteq findings /\ cites(k) \subseteq Slate!Sources
  <2> HIDE DEF kept, cut
  <2> QED
    BY <1>0, <1>2, <1>4 DEF SlateTypes
<1> HIDE DEF kept, cut, cites
<1>6. /\ slate' \in Seq(Themes) /\ Len(slate') = cut
      /\ \A k \in 1..cut : /\ slate'[k].id = k /\ slate'[k].cites = cites(k)
                           /\ slate'[k].by = "model" /\ slate'[k].status = "proposed"
  <2>1. \A k \in 1..cut : slate'[k] = [id |-> k, cites |-> cites(k), status |-> "proposed", by |-> "model"]
    BY <1>1 DEF Slate!Candidate
  <2>2. \A k \in 1..cut : slate'[k] \in Themes
    <3> SUFFICES ASSUME NEW k \in 1..cut PROVE slate'[k] \in Themes
      OBVIOUS
    <3>1. k \in Nat
      BY <1>3
    <3>2. cites(k) \in SUBSET Slate!Sources
      BY <1>5
    <3>3. PICK c \in SUBSET Slate!Sources :
             slate'[k] = [id |-> k, cites |-> c, status |-> "proposed", by |-> "model"]
      BY <2>1, <3>2
    <3> QED
      BY <3>1, <3>3 DEF Themes
  <2>3. slate' = [k \in 1..cut |-> slate'[k]]
    BY <1>1
  <2>4. slate' \in [1..cut -> Themes]
    BY <2>2, <2>3
  <2> QED
    BY <1>3, <2>1, <2>4
<1>7. SlateTypes'
  <2>1. Len(slate') <= GenerateMax + edits'
    BY <1>0, <1>1, <1>3, <1>6, SlateConstants DEF SlateTypes
  <2> QED
    BY <1>0, <1>1, <1>6, <2>1 DEF SlateTypes
<1>8. Known'
  BY <1>0, <1>1 DEF Known
<1>9. Cited'
  <2> SUFFICES ASSUME NEW i \in 1..Len(slate')
               PROVE  /\ slate'[i].id = i /\ slate'[i].cites # {} /\ slate'[i].cites \subseteq findings
                      /\ slate'[i].by = "model" /\ slate'[i].status = "proposed"
    BY <1>1 DEF Cited
  <2>1. i \in 1..cut
    BY <1>6
  <2> QED
    BY <1>5, <1>6, <2>1
<1>10. Judged' /\ Closed'
  BY <1>0, <1>1 DEF Judged, Closed
<1> QED
  BY <1>7, <1>8, <1>9, <1>10 DEF SlateInv

\* A theme that keeps its status is the theme.
LEMMA ThemeStatus ==
    ASSUME NEW c \in Themes
    PROVE  c = [c EXCEPT !.status = c.status] /\ c.status \in {"proposed", "killed", "approved"}
BY DEF Themes

\* A slate that changes some fields of its themes only.
LEMMA SlateRemarks ==
    ASSUME SlateInv, phase \in {"judge", "gate"}, phase' \in {"gate", "approved"},
           UNCHANGED <<mode, opened, findings>>, edits' \in 0..MaxEdits, edits' >= edits,
           slate' = [i \in 1..Len(slate) |-> slate'[i]],
           \A i \in 1..Len(slate) : \E status \in {"proposed", "killed", "approved"} :
              slate'[i] = [slate[i] EXCEPT !.status = status]
    PROVE  /\ SlateTypes' /\ Known' /\ Cited' /\ Len(slate') = Len(slate)
           /\ \A i \in 1..Len(slate) : slate'[i].by = slate[i].by
<1>0. SlateTypes /\ Known /\ Cited
  BY DEF SlateInv
<1>1. /\ Len(slate) \in Nat /\ \A i \in 1..Len(slate) : slate[i] \in Themes
      /\ Len(slate) <= GenerateMax + edits /\ edits \in Nat
  BY <1>0 DEF SlateTypes
<1>2. \A i \in 1..Len(slate) : /\ slate'[i] \in Themes /\ slate'[i].id = slate[i].id
                               /\ slate'[i].cites = slate[i].cites /\ slate'[i].by = slate[i].by
  BY <1>1 DEF Themes
<1>3. slate' \in Seq(Themes) /\ Len(slate') = Len(slate)
  BY <1>1, <1>2
<1>4. SlateTypes'
  <2>1. Len(slate') <= GenerateMax + edits'
    BY <1>1, <1>3, SlateConstants
  <2> QED
    BY <1>0, <1>3, <2>1 DEF SlateTypes
<1>5. Known'
  BY <1>0 DEF Known
<1>6. Cited'
  BY <1>0, <1>2, <1>3 DEF Cited
<1> QED
  BY <1>2, <1>3, <1>4, <1>5, <1>6

\* The judge keeps no more than its window of what was proposed.
LEMMA SlateJudges ==
    ASSUME SlateInv, NEW keep \in SUBSET DOMAIN slate, NEW kill,
           Slate!Judge([keep |-> keep, kill |-> kill])
    PROVE  SlateInv'
<1> DEFINE verdicts == [keep |-> keep, kill |-> kill]
           first == {i \in keep : Cardinality({j \in keep : j < i}) < KeepMax}
<1>0. SlateTypes /\ Closed /\ Len(slate) \in Nat /\ DOMAIN slate = 1..Len(slate)
  BY DEF SlateInv, SlateTypes
<1>1. /\ phase = "judge" /\ phase' = "gate" /\ UNCHANGED <<mode, opened, findings, decided, edits>>
      /\ slate' = [i \in 1..Len(slate) |->
                      IF Slate!Survives(verdicts, i) THEN slate[i]
                      ELSE [slate[i] EXCEPT !.status = "killed"]]
  BY <1>0 DEF Slate!Judge
<1>2. \A i : Slate!Survives(verdicts, i) <=> i \in first
  BY SlateConstants DEF Slate!Survives
<1> HIDE DEF verdicts, first
<1>3. /\ slate' = [i \in 1..Len(slate) |-> slate'[i]]
      /\ \A i \in 1..Len(slate) :
            slate'[i] = IF i \in first THEN slate[i] ELSE [slate[i] EXCEPT !.status = "killed"]
  BY <1>1, <1>2
<1>4. \A i \in 1..Len(slate) : /\ slate[i] \in Themes
                               /\ slate[i] = [slate[i] EXCEPT !.status = slate[i].status]
                               /\ slate[i].status \in {"proposed", "killed", "approved"}
  <2>1. \A i \in 1..Len(slate) : slate[i] \in Themes
    BY <1>0 DEF SlateTypes
  <2> QED
    BY <2>1, ThemeStatus
<1>5. \A i \in 1..Len(slate) : \E status \in {"proposed", "killed", "approved"} :
         slate'[i] = [slate[i] EXCEPT !.status = status]
  BY <1>3, <1>4
<1>6. edits' \in 0..MaxEdits /\ edits' >= edits
  BY <1>0, <1>1, SlateConstants DEF SlateTypes
<1>7. SlateTypes' /\ Known' /\ Cited' /\ Len(slate') = Len(slate)
  BY <1>1, <1>3, <1>5, <1>6, SlateRemarks
<1>8. Judged'
  <2>1. \A i \in 1..Len(slate) : i \notin first => slate'[i].status = "killed"
    BY <1>3, <1>4 DEF Themes
  <2>2. Standing' \subseteq first
    BY <1>7, <2>1 DEF Standing
  <2>3. Cardinality(first) <= KeepMax /\ IsFiniteSet(first) /\ Cardinality(first) \in Nat
    BY <1>0, FirstOnes, Window, SlateConstants DEF first
  <2>4. /\ IsFiniteSet(Standing') /\ Cardinality(Standing') <= Cardinality(first)
        /\ Cardinality(Standing') \in Nat
    BY <2>2, <2>3, FS_Subset, FS_CardinalityType
  <2> QED
    BY <2>3, <2>4, SlateConstants DEF Judged
<1>9. Closed'
  BY <1>0, <1>1 DEF Closed
<1> QED
  BY <1>7, <1>8, <1>9 DEF SlateInv

\* The gate kills a theme, or closes on those that are still proposed.
LEMMA SlateMarks ==
    ASSUME SlateInv, Slate!Approve \/ \E i \in DOMAIN slate : Slate!Kill(i)
    PROVE  SlateInv'
<1>0. SlateTypes /\ Cited /\ Judged /\ Closed /\ Len(slate) \in Nat /\ DOMAIN slate = 1..Len(slate)
  BY DEF SlateInv, SlateTypes
<1>1. \A i \in 1..Len(slate) : /\ slate[i] \in Themes
                               /\ slate[i] = [slate[i] EXCEPT !.status = slate[i].status]
                               /\ slate[i].status \in {"proposed", "killed", "approved"}
  <2>1. \A i \in 1..Len(slate) : slate[i] \in Themes
    BY <1>0 DEF SlateTypes
  <2> QED
    BY <2>1, ThemeStatus
<1>2. /\ phase = "gate" /\ phase' \in {"gate", "approved"} /\ UNCHANGED <<mode, opened, findings>>
      /\ edits' \in 0..MaxEdits /\ edits' >= edits
  <2>1. CASE Slate!Approve
    BY <1>0, <2>1, SlateConstants DEF Slate!Approve, SlateTypes
  <2>2. CASE \E i \in DOMAIN slate : Slate!Kill(i)
    BY <1>0, <2>2, SlateConstants DEF Slate!Kill, SlateTypes
  <2> QED
    BY <2>1, <2>2
<1>3. /\ slate' = [i \in 1..Len(slate) |-> slate'[i]]
      /\ \A i \in 1..Len(slate) :
            \/ slate'[i] = slate[i]
            \/ slate'[i] = [slate[i] EXCEPT !.status = "killed"]
            \/ slate'[i] = [slate[i] EXCEPT !.status = "approved"] /\ slate[i].status = "proposed"
  <2>1. CASE Slate!Approve
    BY <1>0, <2>1 DEF Slate!Approve, Slate!ApproveProposed
  <2>2. CASE \E i \in DOMAIN slate : Slate!Kill(i)
    <3>1. PICK k \in 1..Len(slate) : slate' = [slate EXCEPT ![k] = [slate[k] EXCEPT !.status = "killed"]]
      BY <1>0, <2>2 DEF Slate!Kill
    <3> QED
      BY <1>0, <3>1 DEF SlateTypes
  <2> QED
    BY <2>1, <2>2
<1>4. \A i \in 1..Len(slate) : \E status \in {"proposed", "killed", "approved"} :
         slate'[i] = [slate[i] EXCEPT !.status = status]
  BY <1>1, <1>3
<1>5. /\ SlateTypes' /\ Known' /\ Cited' /\ Len(slate') = Len(slate)
      /\ \A i \in 1..Len(slate) : slate'[i].by = slate[i].by
  BY <1>2, <1>3, <1>4, SlateRemarks
<1>6. Judged'
  <2>1. \A i \in 1..Len(slate) : slate[i].status = "killed" => slate'[i].status = "killed"
    BY <1>1, <1>3 DEF Themes
  <2>2. Standing' \subseteq Standing
    BY <1>5, <2>1 DEF Standing
  <2>3. IsFiniteSet(Standing) /\ Cardinality(Standing) \in Nat /\ Cardinality(Standing) <= KeepMax
    BY <1>0, <1>2, Window DEF Standing, Judged
  <2>4. Cardinality(Standing') <= Cardinality(Standing) /\ Cardinality(Standing') \in Nat
    BY <2>2, <2>3, FS_Subset, FS_CardinalityType
  <2> QED
    BY <2>3, <2>4, SlateConstants DEF Judged
<1>7. Closed'
  <2>1. CASE Slate!Approve
    <3>1. /\ phase' = "approved"
          /\ decided' = {c.id : c \in {d \in {slate'[i] : i \in DOMAIN slate'} : d.status = "approved"}}
      BY <2>1 DEF Slate!Approve, Slate!ToSet
    <3>2. /\ DOMAIN slate' = 1..Len(slate') /\ \A i \in 1..Len(slate') : slate'[i].id = i
      BY <1>5 DEF SlateTypes, Cited
    <3>3. decided' = {i \in 1..Len(slate') : slate'[i].status = "approved"}
      BY <3>1, <3>2
    <3> QED
      BY <3>1, <3>3 DEF Closed
  <2>2. CASE \E i \in DOMAIN slate : Slate!Kill(i)
    BY <1>0, <2>2 DEF Slate!Kill, Closed
  <2> QED
    BY <2>1, <2>2
<1> QED
  BY <1>5, <1>6, <1>7 DEF SlateInv

\* A theme that a human adds takes the number after the last one.
LEMMA SlateAdds ==
    ASSUME SlateInv, NEW cites \in SUBSET Packed, Slate!Add(cites)
    PROVE  SlateInv'
<1> DEFINE new == Slate!Candidate(Slate!NextCandidateId, cites, "proposed", "human")
<1>0. /\ SlateTypes /\ Known /\ Cited /\ Judged /\ Closed
      /\ Len(slate) \in Nat /\ DOMAIN slate = 1..Len(slate) /\ slate \in Seq(Themes)
  BY DEF SlateInv, SlateTypes
<1>1. /\ phase = "gate" /\ UNCHANGED <<phase, mode, opened, findings, decided>>
      /\ edits' = edits + 1 /\ edits < MaxEdits /\ slate' = Append(slate, new)
  BY DEF Slate!Add
<1>2. Slate!NextCandidateId = Len(slate) + 1
  <2>1. CASE slate = <<>>
    BY <2>1 DEF Slate!NextCandidateId
  <2>2. CASE slate # <<>>
    <3>1. Len(slate) >= 1 /\ Len(slate) \in 1..Len(slate)
      BY <1>0, <2>2
    <3>2. {c.id : c \in Slate!ToSet(slate)} = 1..Len(slate)
      <4>1. \A i \in 1..Len(slate) : slate[i].id = i
        BY <1>0 DEF Cited
      <4>2. {c.id : c \in {slate[i] : i \in 1..Len(slate)}} = 1..Len(slate)
        BY <4>1
      <4> QED
        BY <1>0, <4>2 DEF Slate!ToSet
    <3>3. Slate!Max(1..Len(slate)) = Len(slate)
      <4> DEFINE n == Len(slate)
      <4>1. n \in 1..n /\ \A y \in 1..n : n >= y
        BY <1>0, <3>1
      <4>2. Slate!Max(1..n) \in 1..n /\ \A y \in 1..n : Slate!Max(1..n) >= y
        <5> HIDE DEF n
        <5> QED
          BY <4>1 DEF Slate!Max
      <4> HIDE DEF n
      <4>3. Slate!Max(1..n) = n
        BY <4>1, <4>2
      <4> QED
        BY <4>3 DEF n
    <3>4. Slate!NextCandidateId = 1 + Slate!Max(1..Len(slate))
      BY <2>2, <3>2 DEF Slate!NextCandidateId
    <3> QED
      BY <1>0, <3>3, <3>4
  <2> QED
    BY <2>1, <2>2
<1>3. /\ new.id = Len(slate) + 1 /\ new.cites = cites /\ new.status = "proposed" /\ new.by = "human"
      /\ new \in Themes
  <2>1. new = [id |-> Slate!NextCandidateId, cites |-> cites, status |-> "proposed", by |-> "human"]
    BY DEF Slate!Candidate
  <2>2. Slate!NextCandidateId \in Nat /\ cites \subseteq Slate!Sources
    BY <1>0, <1>2, SlateConstants
  <2> QED
    BY <1>2, <2>1, <2>2 DEF Themes
<1> HIDE DEF new
<1>4. /\ slate' \in Seq(Themes) /\ Len(slate') = Len(slate) + 1 /\ slate'[Len(slate) + 1] = new
      /\ \A i \in 1..Len(slate) : slate'[i] = slate[i]
  BY <1>0, <1>1, <1>3
<1>5. \A i \in 1..Len(slate') : i \in 1..Len(slate) \/ i = Len(slate) + 1
  BY <1>0, <1>4
<1>6. SlateTypes'
  <2>1. edits' \in 0..MaxEdits /\ Len(slate') <= GenerateMax + edits'
    BY <1>0, <1>1, <1>4, SlateConstants DEF SlateTypes
  <2> QED
    BY <1>0, <1>1, <1>4, <2>1 DEF SlateTypes
<1>7. Known'
  BY <1>0, <1>1 DEF Known
<1>8. Cited'
  <2> SUFFICES ASSUME NEW i \in 1..Len(slate')
               PROVE  /\ slate'[i].id = i
                      /\ slate'[i].by = "model" =>
                             slate'[i].cites # {} /\ slate'[i].cites \subseteq findings
    BY <1>1 DEF Cited
  <2>1. CASE i \in 1..Len(slate)
    BY <1>0, <1>4, <2>1 DEF Cited
  <2>2. CASE i = Len(slate) + 1
    BY <1>3, <1>4, <2>2
  <2> QED
    BY <1>5, <2>1, <2>2
<1>9. Judged'
  <2>1. Standing' = Standing
    BY <1>0, <1>3, <1>4, <1>5 DEF Standing
  <2> QED
    BY <1>0, <1>1, <2>1 DEF Judged
<1>10. Closed'
  BY <1>0, <1>1 DEF Closed
<1> QED
  BY <1>6, <1>7, <1>8, <1>9, <1>10 DEF SlateInv

\* Whatever else moves leaves the slate alone.
LEMMA SlateStays == SlateInv /\ UNCHANGED slateVars => SlateInv'
BY DEF slateVars, SlateInv, SlateTypes, Known, Cited, Judged, Standing, Closed

\* The slate's invariant holds across every step of the composition.
LEMMA SlateStep == SlateInv /\ [Next]_vars => SlateInv'
<1> SUFFICES ASSUME SlateInv, [Next]_vars PROVE SlateInv'
  OBVIOUS
<1>1. CASE Slate!Next
  <2>1. ASSUME NEW wire \in Slate!BoundedSeq(SUBSET Slate!Sources, GenerateMax + 1),
               Slate!Generate(wire)
        PROVE  SlateInv'
    <3>1. PICK m \in 0..(GenerateMax + 1) : wire \in [1..m -> SUBSET Slate!Sources]
      BY DEF Slate!BoundedSeq, Slate!SeqOf
    <3> QED
      BY <2>1, <3>1, SlateGenerates, SlateConstants
  <2>2. ASSUME NEW keep \in SUBSET DOMAIN slate, NEW kill \in SUBSET DOMAIN slate,
               Slate!Judge([keep |-> keep, kill |-> kill])
        PROVE  SlateInv'
    BY <2>2, SlateJudges
  <2> QED
    BY <1>1, <2>1, <2>2, SlateResearches, SlateMarks, SlateAdds DEF Slate!Next
<1>2. CASE UNCHANGED slateVars
  BY <1>2, SlateStays
<1> QED
  BY <1>1, <1>2 DEF Next, Read, Advance, Judge, vars

\* What the gates promise of the themes follows from the invariant of the slate.
LEMMA SlateHolds ==
    ASSUME SlateInv PROVE Slate!TypeOK /\ Slate!ThemesTrace /\ Slate!IdsStand /\ Slate!JudgeWindow
<1>0. /\ SlateTypes /\ Known /\ Cited /\ Judged /\ Closed
      /\ Len(slate) \in Nat /\ DOMAIN slate = 1..Len(slate) /\ edits \in Nat
      /\ \A i \in 1..Len(slate) : slate[i] \in Themes /\ slate[i].id = i
  BY DEF SlateInv, SlateTypes, Cited
<1>1. \A c \in Slate!ToSet(slate) : \E i \in 1..Len(slate) : c = slate[i]
  BY <1>0 DEF Slate!ToSet
<1>2. Slate!TypeOK
  <2>1. \A i \in 1..Len(slate) : i \in 1..GenerateMax + MaxEdits
    BY <1>0, SlateConstants DEF SlateTypes
  <2>2. \A i \in 1..Len(slate) :
           /\ slate[i].id \in 1..GenerateMax + MaxEdits /\ slate[i].cites \subseteq Cards \cup Urls
           /\ slate[i].status \in {"proposed", "killed", "approved"} /\ slate[i].by \in {"model", "human"}
    BY <1>0, <2>1, SlateConstants DEF Themes
  <2>3. decided \subseteq 1..GenerateMax + MaxEdits
    BY <1>0, <2>1 DEF Closed
  <2>4. findings \subseteq Cards \cup Urls
    BY <1>0, SlateConstants DEF SlateTypes
  <2> QED
    BY <1>0, <1>1, <2>2, <2>3, <2>4 DEF SlateTypes, Slate!TypeOK
<1>3. Slate!ThemesTrace
  <2> SUFFICES ASSUME NEW i \in 1..Len(slate), slate[i].by = "model"
               PROVE  /\ slate[i].cites # {} /\ slate[i].cites \cap Restricted = {}
                      /\ slate[i].cites \cap Cards \subseteq opened
                      /\ mode = "airgapped" => slate[i].cites \cap Urls \subseteq Packed
    BY <1>1 DEF Slate!ThemesTrace
  <2>1. slate[i].cites # {} /\ slate[i].cites \subseteq findings
    BY <1>0 DEF Cited
  <2> QED
    BY <1>0, <2>1, SlateConstants DEF Known
<1>4. Slate!IdsStand
  <2>1. \A i, j \in DOMAIN slate : slate[i].id = slate[j].id => i = j
    BY <1>0
  <2>2. \A i \in decided : i \in 1..Len(slate) /\ slate[i].status # "killed"
    BY <1>0 DEF Closed
  <2>3. \A x \in {c.id : c \in {d \in Slate!ToSet(slate) : d.status = "killed"}} :
           x \in 1..Len(slate) /\ slate[x].status = "killed"
    BY <1>0, <1>1
  <2> QED
    BY <2>1, <2>2, <2>3 DEF Slate!IdsStand
<1>5. Slate!JudgeWindow
  <2>1. {i \in DOMAIN slate : slate[i].by = "model" /\ slate[i].status # "killed"} = Standing
    BY <1>0 DEF Standing
  <2> QED
    BY <1>0, <2>1, SlateConstants DEF Judged, Slate!JudgeWindow
<1> QED
  BY <1>2, <1>3, <1>4, <1>5

\* The gates decide once, and on what was read: research follows a confirmation, themes follow
\* the reading that was researched and trace to what was opened, for every order of rejections,
\* redos, halts and retries (intake/gate.py:1-2, 289-305, strategy/gate.py:160-184,
\* findings.py:222-229, themes.py:60-90).
THEOREM GatesAreHeld == Spec => []GatesHold
<1>1. Init => BriefInv /\ SlateInv
  BY BriefInit, SlateInit
<1>2. BriefInv /\ SlateInv /\ [Next]_vars => BriefInv' /\ SlateInv'
  BY BriefStep, SlateStep
<1>3. BriefInv /\ SlateInv => GatesHold
  BY BriefHolds, SlateHolds DEF GatesHold
<1> QED
  BY <1>1, <1>2, <1>3, PTL DEF Spec
=============================================================================
