------------------------ MODULE KnowledgeBaseProofs ------------------------
(***************************************************************************)
(* Theorems about KnowledgeBase, for any clients, bodies, similarities and *)
(* bounds: its types, what a legal hold keeps (HeldKeepsSource), that the  *)
(* records lead to every card (LineageKept) and that the clean verdict of  *)
(* a purge is true (CleanIsClean).                                         *)
(***************************************************************************)
EXTENDS KnowledgeBase, FiniteSetTheorems, WellFoundedInduction, TLAPS

-----------------------------------------------------------------------------
(* Types                                                                   *)

IngRecs == [pc : IngestPCs, doc : Docs \cup {None}, id : Bodies \cup {None},
            top : Ids \cup {None}, seen : BOOLEAN, owner : Ids \cup {None},
            absorb : BOOLEAN, copy : Record \cup {None}]
CurRecs == [pc : {"idle"} \cup PurgePCs \cup MergePCs, client : Clients \cup {None},
            cards : SUBSET Ids, item : Ids \cup {None}, purged : SUBSET Ids,
            docs : SUBSET Docs, kept : SUBSET Docs, twice : SUBSET Docs,
            claims : SUBSET Keys, claim : Keys \cup {None}, loose : BOOLEAN, beside : BOOLEAN]
DraftRecs == [card : Ids, of : SUBSET Clients, missed : BOOLEAN]

\* Only a card of a chunk has a document.
CardTypes ==
    /\ card \in [Ids -> Card \cup {None}]
    /\ \A k \in Ids : card[k] # None /\ card[k].doc # None => k \in Bodies
RecordTypes == record \in [Ids -> Record \cup {None}]
FileTypes == meta \subseteq Docs /\ source \subseteq Docs /\ model \subseteq Docs
ProposalTypes == proposal \in [Keys -> Statuses]
DraftTypes == drafts \subseteq DraftRecs

\* What the step at hand needs has been set.
IngTypes ==
    /\ ing \in IngRecs
    /\ ing.pc # "idle" => ing.doc \in Docs /\ ing.id \in Bodies
    /\ ing.pc \in {"append", "appended", "merge", "merged", "unlink", "drop"} => ing.top \in Ids
    /\ ing.pc \in {"appended", "merged"} => ing.copy \in Record
CurTypes ==
    /\ cur \in CurRecs
    /\ cur.pc = "record" => cur.item \in Ids
    /\ cur.pc \in {"link", "decide"} => cur.claim \in Keys
    /\ cur.pc \in PurgePCs => cur.client \in Clients
GhostTypes ==
    /\ material \in [Ids -> SUBSET Clients]
    /\ escaped \subseteq Ids
    /\ stray \subseteq Keys \cup Docs
    /\ verdict \in [Clients -> {"none", "clean", "findings"}]
CountTypes ==
    /\ ingests \in 0..MaxIngests /\ purges \in 0..MaxPurges
    /\ crashes \in 0..MaxCrashes /\ holds \in 0..MaxHolds

Types ==
    /\ CardTypes /\ RecordTypes /\ FileTypes /\ ProposalTypes /\ DraftTypes
    /\ IngTypes /\ CurTypes /\ GhostTypes /\ CountTypes

\* What the sets the model is made of have to do with each other.
LEMMA Names ==
    /\ Bodies \subseteq Ids
    /\ \A b \in Claims : b \in Bodies /\ Fact(b) \in Ids /\ Fact(b) \notin Bodies
    /\ \A p \in Keys : p.client \in Clients /\ p.claim \in Claims /\ p.from \in Bodies
    /\ \A d \in Docs : d.client \in Clients /\ d.body \in Bodies
    /\ \A r \in Record : r.sources \subseteq Clients /\ r.from \subseteq Ids
    /\ \A x \in Card : x.doc \in Docs \cup {None} /\ x.body \in Ids /\ x.held \in BOOLEAN
<1>1. Bodies \subseteq Ids
  BY DEF Ids
<1>2. \A b \in Claims : b \in Bodies /\ Fact(b) \in Ids /\ Fact(b) \notin Bodies
  BY ClaimAssumption, IdAssumption DEF Ids
<1>3. \A p \in Keys : p.client \in Clients /\ p.claim \in Claims /\ p.from \in Bodies
  BY DEF Keys
<1>4. \A d \in Docs : d.client \in Clients /\ d.body \in Bodies
  BY DEF Docs
<1>5. /\ \A r \in Record : r.sources \subseteq Clients /\ r.from \subseteq Ids
      /\ \A x \in Card : x.doc \in Docs \cup {None} /\ x.body \in Ids /\ x.held \in BOOLEAN
  BY DEF Record, Card
<1> QED
  BY <1>1, <1>2, <1>3, <1>4, <1>5

\* The value for absent is none of the values it is told from.
LEMMA Absent ==
    /\ None \notin Clients /\ None \notin Ids /\ None \notin Docs
    /\ None \notin Card /\ None \notin Record /\ None \notin Keys
BY NoneAssumption

\* A step that leaves a part of the state alone leaves its types alone.
LEMMA TypesStay ==
    /\ CardTypes /\ UNCHANGED card => CardTypes'
    /\ RecordTypes /\ UNCHANGED record => RecordTypes'
    /\ FileTypes /\ UNCHANGED <<meta, source, model>> => FileTypes'
    /\ ProposalTypes /\ UNCHANGED proposal => ProposalTypes'
    /\ DraftTypes /\ UNCHANGED drafts => DraftTypes'
    /\ IngTypes /\ UNCHANGED ing => IngTypes'
    /\ CurTypes /\ UNCHANGED cur => CurTypes'
    /\ GhostTypes /\ UNCHANGED <<material, escaped, stray, verdict>> => GhostTypes'
    /\ CountTypes /\ UNCHANGED <<ingests, purges, crashes, holds>> => CountTypes'
BY DEF CardTypes, RecordTypes, FileTypes, ProposalTypes, DraftTypes, IngTypes, CurTypes,
       GhostTypes, CountTypes

\* Nothing is stored, nobody runs.
LEMMA TypesInit == Init => Types
<1> SUFFICES ASSUME Init PROVE Types
  OBVIOUS
<1>1. CardTypes /\ RecordTypes /\ FileTypes /\ DraftTypes
  BY DEF Init, CardTypes, RecordTypes, FileTypes, DraftTypes
<1>2. ProposalTypes
  BY DEF Init, ProposalTypes, Statuses
<1>3. IngTypes
  BY DEF Init, IngTypes, IngRecs, NoIngest, IngestPCs
<1>4. CurTypes
  BY DEF Init, CurTypes, CurRecs, NoCurator, PurgePCs
<1>5. GhostTypes /\ CountTypes
  BY BoundAssumption DEF Init, GhostTypes, CountTypes
<1> QED
  BY <1>1, <1>2, <1>3, <1>4, <1>5 DEF Types

\* No ingest runs after it.
LEMMA IngStops == NoIngest \in IngRecs /\ NoIngest.pc = "idle"
BY DEF NoIngest, IngRecs, IngestPCs

\* No purge or merge batch runs after it.
LEMMA CurStops == NoCurator \in CurRecs /\ NoCurator.pc = "idle"
BY DEF NoCurator, CurRecs
-----------------------------------------------------------------------------
(* The loop of a purge                                                     *)

\* A set that holds zero and the successor of what it holds has all numbers.
LEMMA CountUp ==
    ASSUME NEW T, 0 \in T, \A n \in Nat : n \in T => n + 1 \in T
    PROVE  \A n \in Nat : n \in T
<1> SUFFICES ASSUME \E n \in Nat : n \notin T PROVE FALSE
  OBVIOUS
<1> DEFINE Bad == {n \in Nat : n \notin T}
<1>1. IsWellFoundedOn(OpToRel(<, Nat), Nat)
  BY NatLessThanWellFounded
<1>2. PICK n \in Bad : \A m \in Bad : ~(<<m, n>> \in OpToRel(<, Nat))
  BY <1>1, WFMin
<1>3. n \in Nat /\ n \notin T /\ n # 0
  BY <1>2
<1>4. n - 1 \in Nat /\ n - 1 < n /\ (n - 1) + 1 = n
  BY <1>3
<1>5. n - 1 \in T
  BY <1>2, <1>3, <1>4 DEF OpToRel
<1> QED
  BY <1>3, <1>4, <1>5

\* There are finitely many ids.
LEMMA IdsAreFinite == IsFiniteSet(Ids) /\ Cardinality(Ids) \in Nat
<1>1. IsFiniteSet(Claims)
  BY ClaimAssumption, IdAssumption, FS_Subset
<1>2. IsFiniteSet({Fact(b) : b \in Claims})
  <2> DEFINE F == {Fact(b) : b \in Claims}
             f == [b \in Claims |-> Fact(b)]
  <2>1. f \in Surjection(Claims, F)
    BY DEF Surjection
  <2> QED
    BY <1>1, <2>1, FS_Surjection
<1>3. IsFiniteSet(Ids)
  BY <1>2, IdAssumption, FS_Union DEF Ids
<1> QED
  BY <1>3, FS_CardinalityType

\* The values the loop of a purge has had after each of its first n passes.
Passes(c, n) ==
    {a \in [0..n -> SUBSET Ids] :
        \A i \in 0..n : a[i] = IF i = 0 THEN Seeds(c) ELSE a[i - 1] \cup DerivedOf(a[i - 1])}

\* The loop can be run for as many passes as one likes.
LEMMA PassesExist == \A c \in Clients : \A n \in Nat : Passes(c, n) # {}
<1> SUFFICES ASSUME NEW c \in Clients PROVE \A n \in Nat : Passes(c, n) # {}
  OBVIOUS
<1> DEFINE T == {n \in Nat : Passes(c, n) # {}}
<1>1. 0 \in T
  <2> DEFINE a == [i \in 0..0 |-> Seeds(c)]
  <2>1. a \in Passes(c, 0)
    BY DEF Passes, Seeds, Recorded
  <2> QED
    BY <2>1
<1>2. ASSUME NEW n \in Nat, n \in T PROVE n + 1 \in T
  <2>1. PICK a \in [0..n -> SUBSET Ids] :
            \A i \in 0..n : a[i] = IF i = 0 THEN Seeds(c) ELSE a[i - 1] \cup DerivedOf(a[i - 1])
    BY <1>2 DEF Passes
  <2> DEFINE b == [i \in 0..(n + 1) |-> IF i = n + 1 THEN a[n] \cup DerivedOf(a[n]) ELSE a[i]]
  <2>2. b \in [0..(n + 1) -> SUBSET Ids]
    BY <2>1 DEF DerivedOf, Recorded
  <2>3. ASSUME NEW i \in 0..(n + 1)
        PROVE  b[i] = IF i = 0 THEN Seeds(c) ELSE b[i - 1] \cup DerivedOf(b[i - 1])
    <3>1. CASE i = n + 1
      <4>1. b[i] = a[n] \cup DerivedOf(a[n]) /\ b[i - 1] = a[n] /\ i # 0
        BY <3>1
      <4> QED
        BY <4>1
    <3>2. CASE i # n + 1
      <4>1. i \in 0..n /\ b[i] = a[i] /\ (i # 0 => b[i - 1] = a[i - 1])
        BY <3>2
      <4> QED
        BY <2>1, <4>1
    <3> QED
      BY <3>1, <3>2
  <2>4. b \in Passes(c, n + 1)
    BY <2>2, <2>3 DEF Passes
  <2> QED
    BY <2>4
<1> HIDE DEF T
<1>3. \A n \in Nat : n \in T
  BY <1>1, <1>2, CountUp
<1> QED
  BY <1>3 DEF T

\* What a purge covers is what the loop has found in its last pass.
LEMMA ClosureIs ==
    \A c \in Clients : \E a \in Passes(c, Cardinality(Ids)) : Closure(c) = a[Cardinality(Ids)]
<1> SUFFICES ASSUME NEW c \in Clients
             PROVE  \E a \in Passes(c, Cardinality(Ids)) : Closure(c) = a[Cardinality(Ids)]
  OBVIOUS
<1> DEFINE N == Cardinality(Ids)
           Loop(f) == f = [n \in 0..N |->
                              IF n = 0 THEN Seeds(c) ELSE f[n - 1] \cup DerivedOf(f[n - 1])]
           a == CHOOSE f : Loop(f)
<1>1. N \in Nat
  BY IdsAreFinite
<1>2. PICK b \in Passes(c, N) : TRUE
  BY <1>1, PassesExist
<1>3. Loop(b)
  BY <1>2 DEF Passes
<1>4. Loop(a)
  BY <1>3
<1>5. Closure(c) = a[N]
  BY DEF Closure
<1> HIDE DEF a
<1>6. \A i \in 0..N : a[i] = IF i = 0 THEN Seeds(c) ELSE a[i - 1] \cup DerivedOf(a[i - 1])
  BY <1>4
<1>7. \A i \in 0..N : a[i] \in SUBSET Ids
  <2> DEFINE T == {i \in Nat : i \in 0..N => a[i] \in SUBSET Ids}
  <2>1. 0 \in T
    BY <1>1, <1>6 DEF Seeds, Recorded
  <2>2. ASSUME NEW n \in Nat, n \in T PROVE n + 1 \in T
    <3>1. CASE n + 1 \in 0..N
      <4>1. n \in 0..N /\ n + 1 # 0 /\ (n + 1) - 1 = n
        BY <1>1, <3>1
      <4>2. a[n] \in SUBSET Ids
        BY <2>2, <4>1
      <4>3. a[n + 1] = a[n] \cup DerivedOf(a[n])
        BY <1>6, <3>1, <4>1
      <4> QED
        BY <4>2, <4>3 DEF DerivedOf, Recorded
    <3> QED
      BY <3>1
  <2> HIDE DEF T
  <2>3. \A n \in Nat : n \in T
    BY <2>1, <2>2, CountUp
  <2> QED
    BY <1>1, <2>3 DEF T
<1>8. a \in [0..N -> SUBSET Ids]
  BY <1>4, <1>7
<1>9. a \in Passes(c, N)
  BY <1>6, <1>8 DEF Passes
<1> QED
  BY <1>5, <1>9

\* A purge covers the records that name the client and what derives from what
\* it covers, and nothing that every such set does not hold.
LEMMA ClosureIsLeast ==
    ASSUME NEW c \in Clients
    PROVE  /\ Closure(c) \subseteq Ids
           /\ Seeds(c) \subseteq Closure(c)
           /\ DerivedOf(Closure(c)) \subseteq Closure(c)
           /\ \A S \in SUBSET Ids :
                  Seeds(c) \subseteq S /\ DerivedOf(S) \subseteq S => Closure(c) \subseteq S
<1> DEFINE N == Cardinality(Ids)
<1>1. N \in Nat /\ IsFiniteSet(Ids)
  BY IdsAreFinite
<1>2. PICK a \in Passes(c, N) : Closure(c) = a[N]
  BY ClosureIs
<1>3. a \in [0..N -> SUBSET Ids]
  BY <1>2 DEF Passes
<1>4. a[0] = Seeds(c)
  BY <1>1, <1>2 DEF Passes
<1>5. ASSUME NEW n \in Nat, n + 1 \in 0..N
      PROVE  n \in 0..N /\ a[n + 1] = a[n] \cup DerivedOf(a[n])
  <2>1. n \in 0..N /\ n + 1 # 0 /\ (n + 1) - 1 = n
    BY <1>1, <1>5
  <2> QED
    BY <1>2, <1>5, <2>1 DEF Passes
<1>6. Closure(c) \subseteq Ids
  BY <1>1, <1>2, <1>3
<1>7. Seeds(c) \subseteq Closure(c)
  <2> DEFINE T == {n \in Nat : n \in 0..N => Seeds(c) \subseteq a[n]}
  <2>1. 0 \in T
    BY <1>4
  <2>2. \A n \in Nat : n \in T => n + 1 \in T
    BY <1>5
  <2> HIDE DEF T
  <2>3. \A n \in Nat : n \in T
    BY <2>1, <2>2, CountUp
  <2> QED
    BY <1>1, <1>2, <2>3 DEF T
<1>8. ASSUME NEW S \in SUBSET Ids, Seeds(c) \subseteq S, DerivedOf(S) \subseteq S
      PROVE  Closure(c) \subseteq S
  <2> DEFINE T == {n \in Nat : n \in 0..N => a[n] \subseteq S}
  <2>1. 0 \in T
    BY <1>4, <1>8
  <2>2. \A n \in Nat : n \in T => n + 1 \in T
    <3> SUFFICES ASSUME NEW n \in Nat, n \in T, n + 1 \in 0..N PROVE a[n + 1] \subseteq S
      OBVIOUS
    <3>1. a[n] \subseteq S
      BY <1>5
    <3>2. DerivedOf(a[n]) \subseteq DerivedOf(S)
      BY <3>1 DEF DerivedOf
    <3> QED
      BY <1>5, <1>8, <3>1, <3>2
  <2> HIDE DEF T
  <2>3. \A n \in Nat : n \in T
    BY <2>1, <2>2, CountUp
  <2> QED
    BY <1>1, <1>2, <2>3 DEF T
<1>9. DerivedOf(Closure(c)) \subseteq Closure(c)
  <2> DEFINE T == {n \in Nat : n \in 0..N =>
                       DerivedOf(a[n]) \subseteq a[n] \/ Cardinality(a[n]) >= n}
  <2>1. \A n \in 0..N : a[n] \subseteq Ids /\ IsFiniteSet(a[n]) /\ Cardinality(a[n]) \in Nat
    BY <1>1, <1>3, FS_Subset, FS_CardinalityType
  <2>2. 0 \in T
    <3>1. 0 \in 0..N
      BY <1>1
    <3> QED
      BY <2>1, <3>1
  <2>3. \A n \in Nat : n \in T => n + 1 \in T
    <3> SUFFICES ASSUME NEW n \in Nat, n \in T, n + 1 \in 0..N
                 PROVE  \/ DerivedOf(a[n + 1]) \subseteq a[n + 1]
                        \/ Cardinality(a[n + 1]) >= n + 1
      OBVIOUS
    <3>1. n \in 0..N /\ a[n + 1] = a[n] \cup DerivedOf(a[n])
      BY <1>5
    <3>2. CASE DerivedOf(a[n]) \subseteq a[n]
      <4>1. a[n + 1] = a[n]
        BY <3>1, <3>2
      <4> QED
        BY <3>2, <4>1
    <3>3. CASE ~(DerivedOf(a[n]) \subseteq a[n])
      <4>1. a[n] \subseteq a[n + 1] /\ a[n] # a[n + 1]
        BY <3>1, <3>3
      <4>2. Cardinality(a[n]) <= Cardinality(a[n + 1])
            /\ Cardinality(a[n]) # Cardinality(a[n + 1])
        BY <2>1, <4>1, FS_Subset
      <4>3. Cardinality(a[n]) >= n
        BY <3>1, <3>3
      <4>4. Cardinality(a[n]) \in Nat /\ Cardinality(a[n + 1]) \in Nat
        BY <2>1, <3>1
      <4> QED
        BY <4>2, <4>3, <4>4
    <3> QED
      BY <3>2, <3>3
  <2> HIDE DEF T
  <2>4. \A n \in Nat : n \in T
    BY <2>2, <2>3, CountUp
  <2>5. DerivedOf(a[N]) \subseteq a[N] \/ Cardinality(a[N]) >= N
    BY <1>1, <2>4 DEF T
  <2>6. CASE Cardinality(a[N]) >= N
    <3>1. a[N] \subseteq Ids /\ Cardinality(a[N]) \in Nat
      BY <1>1, <2>1
    <3>2. Cardinality(a[N]) <= N /\ (Cardinality(Ids) = Cardinality(a[N]) => Ids = a[N])
      BY <1>1, <3>1, FS_Subset
    <3>3. a[N] = Ids
      BY <1>1, <2>6, <3>1, <3>2
    <3> QED
      BY <1>2, <3>3 DEF DerivedOf, Recorded
  <2> QED
    BY <1>2, <2>5, <2>6
<1> QED
  BY <1>6, <1>7, <1>8, <1>9

\* Only ids are cut off from their lineage.
LEMMA CutIds == Cut \subseteq Ids
BY DEF Cut, Lineage

\* The types, over IngestStart.
LEMMA TypesIngestStart ==
    ASSUME Types, NEW d \in Docs, IngestStart(d)
    PROVE  Types'
<1>1. UNCHANGED <<card, record, proposal, drafts>>
  BY DEF IngestStart, files, ghosts, counts
<1>2. FileTypes'
  BY Names, Absent DEF IngestStart, Types, FileTypes, IngTypes, CurTypes, CardTypes, RecordTypes
<1>3. IngTypes'
  <2>1. PICK o \in IF Owners(d.body) = {} THEN {None} ELSE Owners(d.body) :
            ing' = [NoIngest EXCEPT !.pc = "bytes", !.doc = d, !.id = d.body,
                                    !.seen = d \in source, !.owner = o]
    BY DEF IngestStart
  <2>2. o \in Ids \cup {None} /\ d.body \in Bodies
    BY Names DEF Owners, Recorded
  <2> DEFINE b == d.body
             e == d \in source
  <2>3. b \in Bodies /\ e \in BOOLEAN
    BY <2>2
  <2>4. ing' = [NoIngest EXCEPT !.pc = "bytes", !.doc = d, !.id = b, !.seen = e, !.owner = o]
    BY <2>1
  <2> HIDE DEF b, e
  <2>5. ing' \in IngRecs /\ ing'.pc = "bytes" /\ ing'.doc = d /\ ing'.id = b
    BY <2>2, <2>3, <2>4, IngStops DEF IngRecs, IngestPCs
  <2> QED
    BY <2>3, <2>5 DEF IngTypes
<1>4. CurTypes'
  <2> DEFINE b == cur.pc # "idle"
  <2>1. cur' = [cur EXCEPT !.beside = b] /\ b \in BOOLEAN
    BY DEF IngestStart
  <2> HIDE DEF b
  <2>2. cur' \in CurRecs /\ cur'.pc = cur.pc /\ cur'.item = cur.item
        /\ cur'.claim = cur.claim /\ cur'.client = cur.client
    BY <2>1 DEF Types, CurTypes, CurRecs
  <2> QED
    BY <2>2 DEF Types, CurTypes
<1>5. GhostTypes'
  BY Names, Absent DEF IngestStart, Types, GhostTypes, IngTypes, CurTypes, CardTypes, RecordTypes
<1>6. CountTypes'
  BY BoundAssumption DEF IngestStart, Types, CountTypes, IngTypes, CurTypes, CardTypes,
     RecordTypes
<1> QED
  BY <1>1, <1>2, <1>3, <1>4, <1>5, <1>6, TypesStay DEF Types

\* The types, over WriteBytes.
LEMMA TypesWriteBytes ==
    ASSUME Types, WriteBytes
    PROVE  Types'
<1>1. UNCHANGED <<card, record, proposal, drafts, cur, material, escaped, stray, verdict,
                  ingests, purges, crashes, holds>>
  BY DEF WriteBytes, files, ghosts, counts
<1>2. FileTypes'
  BY Names, Absent DEF WriteBytes, Goto, Types, FileTypes, IngTypes, CurTypes, CardTypes,
     RecordTypes
<1>3. IngTypes'
  BY Names, Absent, IngStops DEF WriteBytes, Goto, Types, IngTypes, CurTypes, CardTypes,
     RecordTypes, IngRecs, IngestPCs
<1> QED
  BY <1>1, <1>2, <1>3, TypesStay DEF Types

\* The types, over IngestBlocked.
LEMMA TypesIngestBlocked ==
    ASSUME Types, IngestBlocked
    PROVE  Types'
<1>1. UNCHANGED <<card, record, meta, source, model, proposal, drafts, cur, material, escaped,
                  stray, verdict, ingests, purges, crashes, holds>>
  BY DEF IngestBlocked, files, ghosts, counts
<1>2. IngTypes'
  BY Names, Absent, IngStops DEF IngestBlocked, Stop, Types, IngTypes, CurTypes, CardTypes,
     RecordTypes, IngRecs, IngestPCs
<1> QED
  BY <1>1, <1>2, TypesStay DEF Types

\* Where a candidate goes is a card of a chunk, with what the next step needs.
LEMMA TypesSettle ==
    ASSUME Types, Settle
    PROVE  Types'
<1>1. UNCHANGED <<card, record, meta, source, proposal, drafts, cur, material, escaped, verdict,
                  ingests, purges, crashes, holds>>
  BY DEF Settle, counts
<1>2. /\ ing \in IngRecs /\ ing.pc = "read" /\ ing.doc \in Docs /\ ing.id \in Bodies
      /\ ing.owner \in Ids \cup {None} /\ ing.doc.body \in Bodies
  BY Names DEF Settle, Types, IngTypes, IngRecs
<1>3. model' \subseteq Docs /\ stray' \subseteq Keys \cup Docs
  BY <1>2 DEF Settle, Types, FileTypes, GhostTypes
<1>4. FileTypes' /\ GhostTypes'
  BY <1>1, <1>3 DEF Types, FileTypes, GhostTypes
<1>5. Priors \subseteq Bodies /\ Matched \subseteq Bodies /\ TopCards \subseteq Ids
  <2>1. \A k \in Priors : k \in Bodies
    BY <1>2, Absent DEF Priors, Exists, Types, CardTypes, FileTypes
  <2> QED
    BY <1>2, <2>1 DEF Matched, TopCards
<1>6. ing' \in Home(ing.doc.body)
  BY DEF Settle
<1>7. \/ \E k \in Bodies, s \in {"claim", "rewrite"} : ing' = [ing EXCEPT !.pc = s, !.id = k]
      \/ \E t \in Ids : ing' = [ing EXCEPT !.pc = "append", !.top = t]
      \/ \E t \in Ids : ing' = [ing EXCEPT !.pc = "append", !.top = t, !.absorb = TRUE]
      \/ ing' = [ing EXCEPT !.pc = "card"]
      \/ \E t \in Ids : ing' = [ing EXCEPT !.pc = "card", !.top = t]
  <2>1. CASE Matched # {}
    BY <1>5, <1>6, <2>1 DEF Home
  <2>2. CASE Matched = {} /\ Exists(ing.doc.body)
    BY <1>2, <1>6, <2>2 DEF Home
  <2>3. CASE Matched = {} /\ ~Exists(ing.doc.body)
    BY <1>2, <1>5, <1>6, <2>3 DEF Home, Drifted
  <2> QED
    BY <2>1, <2>2, <2>3
<1>8. IngTypes'
  <2>1. ASSUME NEW k \in Bodies, NEW s \in {"claim", "rewrite"},
               ing' = [ing EXCEPT !.pc = s, !.id = k]
        PROVE  IngTypes'
    <3>1. ing' \in IngRecs /\ ing'.pc = s /\ ing'.doc = ing.doc /\ ing'.id = k
      BY <1>2, <2>1 DEF IngRecs, IngestPCs
    <3> QED
      BY <1>2, <3>1 DEF IngTypes
  <2>2. ASSUME NEW t \in Ids, NEW b \in BOOLEAN,
               ing' = [ing EXCEPT !.pc = "append", !.top = t, !.absorb = b]
        PROVE  IngTypes'
    <3>1. ing' \in IngRecs /\ ing'.pc = "append" /\ ing'.doc = ing.doc /\ ing'.id = ing.id
          /\ ing'.top = t
      BY <1>2, <2>2 DEF IngRecs, IngestPCs
    <3> QED
      BY <1>2, <3>1 DEF IngTypes
  <2>3. ASSUME NEW t \in Ids \cup {None}, ing' = [ing EXCEPT !.pc = "card", !.top = t]
        PROVE  IngTypes'
    <3>1. ing' \in IngRecs /\ ing'.pc = "card" /\ ing'.doc = ing.doc /\ ing'.id = ing.id
      BY <1>2, <2>3 DEF IngRecs, IngestPCs
    <3> QED
      BY <1>2, <3>1 DEF IngTypes
  <2>4. ASSUME NEW t \in Ids, ing' = [ing EXCEPT !.pc = "append", !.top = t]
        PROVE  IngTypes'
    <3>1. ing' \in IngRecs /\ ing'.pc = "append" /\ ing'.doc = ing.doc /\ ing'.id = ing.id
          /\ ing'.top = t
      BY <1>2, <2>4 DEF IngRecs, IngestPCs
    <3> QED
      BY <1>2, <3>1 DEF IngTypes
  <2>5. CASE ing' = [ing EXCEPT !.pc = "card"]
    <3>1. ing' \in IngRecs /\ ing'.pc = "card" /\ ing'.doc = ing.doc /\ ing'.id = ing.id
      BY <1>2, <2>5 DEF IngRecs, IngestPCs
    <3> QED
      BY <1>2, <3>1 DEF IngTypes
  <2> QED
    BY <1>7, <2>1, <2>2, <2>3, <2>4, <2>5
<1> QED
  BY <1>1, <1>4, <1>8, TypesStay DEF Types

\* The types, over RewriteCard.
LEMMA TypesRewriteCard ==
    ASSUME Types, RewriteCard
    PROVE  Types'
<1>1. UNCHANGED <<record, meta, source, model, proposal, drafts, cur, ingests, purges, crashes,
                  holds>>
  BY DEF RewriteCard, files, ghosts, counts
<1>2. CardTypes'
  BY Names, Absent DEF RewriteCard, Stop, Exists, Types, CardTypes, IngTypes, CurTypes,
     RecordTypes, Card
<1>3. IngTypes'
  <2>1. ing \in IngRecs /\ ing.pc = "rewrite" /\ ing.doc \in Docs /\ ing.id \in Bodies
    BY DEF RewriteCard, Types, IngTypes
  <2>2. ing' = [ing EXCEPT !.pc = "append", !.top = ing.id] \/ ing' = NoIngest
    BY DEF RewriteCard, Stop
  <2>3. CASE ing' = [ing EXCEPT !.pc = "append", !.top = ing.id]
    <3>1. ing' \in IngRecs /\ ing'.pc = "append" /\ ing'.doc = ing.doc /\ ing'.id = ing.id
          /\ ing'.top = ing.id
      BY <2>1, <2>3, Names DEF IngRecs, IngestPCs
    <3> QED
      BY <2>1, <3>1, Names DEF IngTypes
  <2> QED
    BY <2>2, <2>3, IngStops DEF IngTypes
<1>4. GhostTypes'
  BY Names, Absent DEF RewriteCard, Stop, Exists, Types, GhostTypes, IngTypes, CurTypes,
     CardTypes, RecordTypes
<1> QED
  BY <1>1, <1>2, <1>3, <1>4, TypesStay DEF Types

\* The types, over AppendRead.
LEMMA TypesAppendRead ==
    ASSUME Types, AppendRead
    PROVE  Types'
<1>1. UNCHANGED <<card, record, meta, source, model, proposal, drafts, cur, material, escaped,
                  stray, verdict, ingests, purges, crashes, holds>>
  BY DEF AppendRead, files, ghosts, counts
<1>2. IngTypes'
  <2>1. /\ ing \in IngRecs /\ ing.pc = "append" /\ ing.doc \in Docs /\ ing.id \in Bodies
        /\ ing.top \in Ids
    BY DEF AppendRead, Types, IngTypes
  <2>2. CASE record[ing.top] = None
    BY <2>2, IngStops DEF AppendRead, Stop, IngTypes
  <2>3. CASE record[ing.top] # None
    <3> DEFINE r == Appended(record[ing.top])
    <3>1. record[ing.top] \in Record
      BY <2>1, <2>3 DEF Types, RecordTypes
    <3>2. r \in Record
      BY <2>1, <3>1, Names DEF Appended, Record
    <3>3. ing' = [ing EXCEPT !.pc = "appended", !.copy = r]
      BY <2>3 DEF AppendRead
    <3> HIDE DEF r
    <3>4. ing' \in IngRecs /\ ing'.pc = "appended" /\ ing'.doc = ing.doc /\ ing'.id = ing.id
          /\ ing'.top = ing.top /\ ing'.copy = r
      BY <2>1, <3>2, <3>3 DEF IngRecs, IngestPCs
    <3> QED
      BY <2>1, <3>2, <3>4 DEF IngTypes
  <2> QED
    BY <2>2, <2>3
<1> QED
  BY <1>1, <1>2, TypesStay DEF Types

\* The types, over AppendWrite.
LEMMA TypesAppendWrite ==
    ASSUME Types, AppendWrite
    PROVE  Types'
<1>1. UNCHANGED <<card, meta, source, model, proposal, drafts, cur, ingests, purges, crashes,
                  holds>>
  BY DEF AppendWrite, files, ghosts, counts
<1>2. RecordTypes'
  BY Names, Absent DEF AppendWrite, Goto, Types, RecordTypes, IngTypes, CurTypes, CardTypes,
     Record
<1>3. IngTypes'
  BY Names, Absent, IngStops DEF AppendWrite, Goto, Types, IngTypes, CurTypes, CardTypes,
     RecordTypes, IngRecs, IngestPCs
<1>4. GhostTypes'
  BY Names, Absent DEF AppendWrite, Goto, Types, GhostTypes, IngTypes, CurTypes, CardTypes,
     RecordTypes
<1> QED
  BY <1>1, <1>2, <1>3, <1>4, TypesStay DEF Types

\* The types, over WriteCard.
LEMMA TypesWriteCard ==
    ASSUME Types, WriteCard
    PROVE  Types'
<1>1. UNCHANGED <<record, meta, source, model, proposal, drafts, cur, ingests, purges, crashes,
                  holds>>
  BY DEF WriteCard, files, ghosts, counts
<1>2. CardTypes'
  BY Names, Absent DEF WriteCard, Goto, Types, CardTypes, IngTypes, CurTypes, RecordTypes, Card
<1>3. IngTypes'
  BY Names, Absent, IngStops DEF WriteCard, Goto, Types, IngTypes, CurTypes, CardTypes,
     RecordTypes, IngRecs, IngestPCs
<1>4. GhostTypes'
  BY Names, Absent DEF WriteCard, Goto, Types, GhostTypes, IngTypes, CurTypes, CardTypes,
     RecordTypes
<1> QED
  BY <1>1, <1>2, <1>3, <1>4, TypesStay DEF Types

\* The types, over WriteRecord.
LEMMA TypesWriteRecord ==
    ASSUME Types, WriteRecord
    PROVE  Types'
<1>1. UNCHANGED <<card, meta, source, model, proposal, drafts, cur, ingests, purges, crashes,
                  holds>>
  BY DEF WriteRecord, files, ghosts, counts
<1>2. RecordTypes'
  BY Names, Absent DEF WriteRecord, Goto, Types, RecordTypes, IngTypes, CurTypes, CardTypes,
     Record
<1>3. IngTypes'
  BY Names, Absent, IngStops DEF WriteRecord, Goto, Types, IngTypes, CurTypes, CardTypes,
     RecordTypes, IngRecs, IngestPCs
<1>4. GhostTypes'
  <2>1. escaped' \subseteq Ids
    BY CutIds, Names DEF WriteRecord, Types, GhostTypes, IngTypes, CurTypes
  <2>2. UNCHANGED <<material, stray, verdict>>
    BY DEF WriteRecord
  <2> QED
    BY <2>1, <2>2 DEF Types, GhostTypes
<1> QED
  BY <1>1, <1>2, <1>3, <1>4, TypesStay DEF Types

\* The types, over MergeRead.
LEMMA TypesMergeRead ==
    ASSUME Types, MergeRead
    PROVE  Types'
<1>1. UNCHANGED <<card, record, meta, source, model, proposal, drafts, cur, material, escaped,
                  stray, verdict, ingests, purges, crashes, holds>>
  BY DEF MergeRead, files, ghosts, counts
<1>2. IngTypes'
  <2>1. /\ ing \in IngRecs /\ ing.pc = "merge" /\ ing.doc \in Docs /\ ing.id \in Bodies
        /\ ing.top \in Ids
    BY DEF MergeRead, Types, IngTypes
  <2>2. CASE None \in {record[ing.top], record[ing.id]}
    BY <2>2, IngStops DEF MergeRead, Stop, IngTypes
  <2>3. CASE ~(None \in {record[ing.top], record[ing.id]})
    <3> DEFINE r == Folded(record[ing.top], record[ing.id])
    <3>1. record[ing.top] \in Record /\ record[ing.id] \in Record
      BY <2>1, <2>3, Names DEF Types, RecordTypes
    <3>2. r \in Record
      BY <2>1, <3>1, Names DEF Folded, Record
    <3>3. ing' = [ing EXCEPT !.pc = "merged", !.copy = r]
      BY <2>3 DEF MergeRead
    <3> HIDE DEF r
    <3>4. ing' \in IngRecs /\ ing'.pc = "merged" /\ ing'.doc = ing.doc /\ ing'.id = ing.id
          /\ ing'.top = ing.top /\ ing'.copy = r
      BY <2>1, <3>2, <3>3 DEF IngRecs, IngestPCs
    <3> QED
      BY <2>1, <3>2, <3>4 DEF IngTypes
  <2> QED
    BY <2>2, <2>3
<1> QED
  BY <1>1, <1>2, TypesStay DEF Types

\* The types, over MergeWrite.
LEMMA TypesMergeWrite ==
    ASSUME Types, MergeWrite
    PROVE  Types'
<1>1. UNCHANGED <<card, meta, source, model, proposal, drafts, cur, ingests, purges, crashes,
                  holds>>
  BY DEF MergeWrite, files, ghosts, counts
<1>2. RecordTypes'
  BY Names, Absent DEF MergeWrite, Goto, Types, RecordTypes, IngTypes, CurTypes, CardTypes, Record
<1>3. IngTypes'
  BY Names, Absent, IngStops DEF MergeWrite, Goto, Types, IngTypes, CurTypes, CardTypes,
     RecordTypes, IngRecs, IngestPCs
<1>4. GhostTypes'
  BY Names, Absent DEF MergeWrite, Goto, Types, GhostTypes, IngTypes, CurTypes, CardTypes,
     RecordTypes
<1> QED
  BY <1>1, <1>2, <1>3, <1>4, TypesStay DEF Types

\* The types, over MergeUnlink.
LEMMA TypesMergeUnlink ==
    ASSUME Types, MergeUnlink
    PROVE  Types'
<1>1. UNCHANGED <<card, meta, source, model, proposal, drafts, cur, ingests, purges, crashes,
                  holds>>
  BY DEF MergeUnlink, files, ghosts, counts
<1>2. RecordTypes'
  BY Names, Absent DEF MergeUnlink, Stop, Goto, Types, RecordTypes, IngTypes, CurTypes,
     CardTypes, Record
<1>3. IngTypes'
  BY Names, Absent, IngStops DEF MergeUnlink, Stop, Goto, Types, IngTypes, CurTypes, CardTypes,
     RecordTypes, IngRecs, IngestPCs
<1>4. GhostTypes'
  <2>1. escaped' \subseteq Ids
    BY CutIds, Names DEF MergeUnlink, Types, GhostTypes, IngTypes, CurTypes
  <2>2. UNCHANGED <<material, stray, verdict>>
    BY DEF MergeUnlink
  <2> QED
    BY <2>1, <2>2 DEF Types, GhostTypes
<1> QED
  BY <1>1, <1>2, <1>3, <1>4, TypesStay DEF Types

\* The types, over DropCard.
LEMMA TypesDropCard ==
    ASSUME Types, DropCard
    PROVE  Types'
<1>1. UNCHANGED <<record, meta, source, model, proposal, drafts, cur, ingests, purges, crashes,
                  holds>>
  BY DEF DropCard, files, ghosts, counts
<1>2. CardTypes'
  BY Names, Absent DEF DropCard, Stop, Goto, Exists, Types, CardTypes, IngTypes, CurTypes,
     RecordTypes, Card
<1>3. IngTypes'
  BY Names, Absent, IngStops DEF DropCard, Stop, Goto, Exists, Types, IngTypes, CurTypes,
     CardTypes, RecordTypes, IngRecs, IngestPCs
<1>4. GhostTypes'
  BY Names, Absent DEF DropCard, Stop, Goto, Exists, Types, GhostTypes, IngTypes, CurTypes,
     CardTypes, RecordTypes
<1> QED
  BY <1>1, <1>2, <1>3, <1>4, TypesStay DEF Types

\* The types, over OpenClaim.
LEMMA TypesOpenClaim ==
    ASSUME Types, OpenClaim
    PROVE  Types'
<1>1. UNCHANGED <<card, record, meta, source, model, drafts, cur, material, escaped, stray,
                  verdict, ingests, purges, crashes, holds>>
  BY DEF OpenClaim, files, ghosts, counts
<1>2. ProposalTypes'
  BY Names, Absent DEF OpenClaim, Stop, Types, ProposalTypes, IngTypes, CurTypes, CardTypes,
     RecordTypes, Statuses
<1>3. IngTypes'
  BY Names, Absent, IngStops DEF OpenClaim, Stop, Types, IngTypes, CurTypes, CardTypes,
     RecordTypes, IngRecs, IngestPCs
<1> QED
  BY <1>1, <1>2, <1>3, TypesStay DEF Types

\* The types, over IngestCrash.
LEMMA TypesIngestCrash ==
    ASSUME Types, IngestCrash
    PROVE  Types'
<1>1. UNCHANGED <<card, record, meta, source, model, proposal, drafts, cur, material, escaped,
                  stray, verdict>>
  BY DEF IngestCrash, files, ghosts, counts
<1>2. IngTypes'
  BY Names, Absent, IngStops DEF IngestCrash, Stop, Types, IngTypes, CurTypes, CardTypes,
     RecordTypes, IngRecs, IngestPCs
<1>3. CountTypes'
  BY BoundAssumption DEF IngestCrash, Stop, Types, CountTypes, IngTypes, CurTypes, CardTypes,
     RecordTypes
<1> QED
  BY <1>1, <1>2, <1>3, TypesStay DEF Types

\* The types, over MergeStart.
LEMMA TypesMergeStart ==
    ASSUME Types, MergeStart
    PROVE  Types'
<1>1. UNCHANGED <<card, record, meta, source, model, proposal, drafts, ing, material, escaped,
                  stray, verdict, ingests, purges, crashes, holds>>
  BY DEF MergeStart, files, ghosts, counts
<1>2. CurTypes'
  <2>1. PICK batch \in SUBSET Keys : cur' = [NoCurator EXCEPT !.pc = "apply", !.claims = batch]
    BY DEF MergeStart
  <2>2. cur' \in CurRecs /\ cur'.pc = "apply"
    BY <2>1, CurStops DEF CurRecs, MergePCs
  <2> QED
    BY <2>2 DEF CurTypes, PurgePCs
<1> QED
  BY <1>1, <1>2, TypesStay DEF Types

\* The types, over ApplyCard.
LEMMA TypesApplyCard ==
    ASSUME Types, NEW p \in Keys, ApplyCard(p)
    PROVE  Types'
<1>1. UNCHANGED <<record, meta, source, model, proposal, drafts, ing, ingests, purges, crashes,
                  holds>>
  BY DEF ApplyCard, files, ghosts, counts
<1>2. CardTypes'
  <2>1. Fact(p.claim) \in Ids /\ Fact(p.claim) \notin Bodies
    BY Names
  <2> DEFINE x == [doc |-> None, body |-> Fact(p.claim), held |-> FALSE]
  <2>2. x \in Card /\ x.doc = None
    BY <2>1 DEF Card
  <2>3. card' = [card EXCEPT ![Fact(p.claim)] = x] \/ card' = card
    BY DEF ApplyCard
  <2> HIDE DEF x
  <2> QED
    BY <2>1, <2>2, <2>3 DEF Types, CardTypes
<1>3. CurTypes'
  <2>1. cur \in CurRecs
    BY DEF Types, CurTypes
  <2> DEFINE l == Loose(p)
  <2>0. l \in BOOLEAN
    BY DEF Loose
  <2>2. cur' = [cur EXCEPT !.pc = "link", !.claim = p, !.loose = l] \/ cur' = NoCurator
    BY DEF ApplyCard, Release
  <2> HIDE DEF l
  <2>3. CASE cur' = [cur EXCEPT !.pc = "link", !.claim = p, !.loose = l]
    <3>1. cur' \in CurRecs /\ cur'.pc = "link" /\ cur'.claim = p
      BY <2>0, <2>1, <2>3 DEF CurRecs, MergePCs
    <3> QED
      BY <3>1 DEF CurTypes, PurgePCs
  <2> QED
    BY <2>2, <2>3, CurStops DEF CurTypes, PurgePCs
<1>4. GhostTypes'
  BY Names, Absent DEF ApplyCard, Release, Types, GhostTypes, IngTypes, CurTypes, CardTypes,
     RecordTypes
<1> QED
  BY <1>1, <1>2, <1>3, <1>4, TypesStay DEF Types

\* The types, over ApplyRecord.
LEMMA TypesApplyRecord ==
    ASSUME Types, ApplyRecord
    PROVE  Types'
<1>1. UNCHANGED <<card, meta, source, model, proposal, drafts, ing, ingests, purges, crashes,
                  holds>>
  BY DEF ApplyRecord, files, ghosts, counts
<1>2. RecordTypes'
  BY Names, Absent DEF ApplyRecord, Types, RecordTypes, IngTypes, CurTypes, CardTypes, Record
<1>3. CurTypes'
  BY Names, Absent, CurStops DEF ApplyRecord, Types, CurTypes, IngTypes, CardTypes, RecordTypes,
     CurRecs, PurgePCs, MergePCs
<1>4. GhostTypes'
  BY Names, Absent DEF ApplyRecord, Types, GhostTypes, IngTypes, CurTypes, CardTypes, RecordTypes
<1> QED
  BY <1>1, <1>2, <1>3, <1>4, TypesStay DEF Types

\* The types, over Decide.
LEMMA TypesDecide ==
    ASSUME Types, Decide
    PROVE  Types'
<1>1. UNCHANGED <<card, record, meta, source, model, drafts, ing, material, escaped, stray,
                  verdict, ingests, purges, crashes, holds>>
  BY DEF Decide, files, ghosts, counts
<1>2. ProposalTypes'
  BY Names, Absent DEF Decide, Release, Types, ProposalTypes, IngTypes, CurTypes, CardTypes,
     RecordTypes, Statuses
<1>3. CurTypes'
  <2>1. cur \in CurRecs
    BY DEF Types, CurTypes
  <2> DEFINE rest == cur.claims \ {cur.claim}
  <2>2. cur' = NoCurator \/ cur' = [cur EXCEPT !.pc = "apply", !.claims = rest, !.claim = None]
    BY DEF Decide, Release
  <2>3. rest \in SUBSET Keys
    BY <2>1 DEF CurRecs
  <2> HIDE DEF rest
  <2>4. CASE cur' = [cur EXCEPT !.pc = "apply", !.claims = rest, !.claim = None]
    <3>1. cur' \in CurRecs /\ cur'.pc = "apply"
      BY <2>1, <2>3, <2>4 DEF CurRecs, MergePCs
    <3> QED
      BY <3>1 DEF CurTypes, PurgePCs
  <2> QED
    BY <2>2, <2>4, CurStops DEF CurTypes, PurgePCs
<1> QED
  BY <1>1, <1>2, <1>3, TypesStay DEF Types

\* The types, over Reject.
LEMMA TypesReject ==
    ASSUME Types, NEW p \in Keys, Reject(p)
    PROVE  Types'
<1>1. UNCHANGED <<card, record, meta, source, model, drafts, ing, cur, material, escaped, stray,
                  verdict, ingests, purges, crashes, holds>>
  BY DEF Reject, files, ghosts, counts
<1>2. ProposalTypes'
  BY Names, Absent DEF Reject, Types, ProposalTypes, IngTypes, CurTypes, CardTypes, RecordTypes,
     Statuses
<1> QED
  BY <1>1, <1>2, TypesStay DEF Types

\* The types, over PurgeStart.
LEMMA TypesPurgeStart ==
    ASSUME Types, NEW c \in Clients, PurgeStart(c)
    PROVE  Types'
<1>1. UNCHANGED <<card, record, meta, source, model, proposal, ing>>
  BY DEF PurgeStart, files, ghosts, counts
<1>2. DraftTypes'
  <2>1. ASSUME NEW d \in DraftRecs
        PROVE  [d EXCEPT !.missed = @ \/ (c \in d.of /\ d.card \notin Derived(c))] \in DraftRecs
    <3>1. d.missed \in BOOLEAN
      BY DEF DraftRecs
    <3> DEFINE m == d.missed \/ (c \in d.of /\ d.card \notin Derived(c))
    <3>2. m \in BOOLEAN
      BY <3>1
    <3> HIDE DEF m
    <3>3. [d EXCEPT !.missed = m] \in DraftRecs
      BY <3>2 DEF DraftRecs
    <3> QED
      BY <3>3 DEF m
  <2>2. drafts' = {[d EXCEPT !.missed = @ \/ (c \in d.of /\ d.card \notin Derived(c))] : d \in drafts}
    BY DEF PurgeStart
  <2> QED
    BY <2>1, <2>2 DEF Types, DraftTypes
<1>3. CurTypes'
  <2> DEFINE S == Closure(c)
             b == ing.pc # "idle"
  <2>1. S \in SUBSET Ids /\ b \in BOOLEAN
    BY ClosureIsLeast
  <2>2. cur' = [NoCurator EXCEPT !.pc = "cards", !.client = c, !.cards = S, !.beside = b]
    BY DEF PurgeStart
  <2> HIDE DEF S, b
  <2>3. cur' \in CurRecs /\ cur'.pc = "cards" /\ cur'.client = c
    BY <2>1, <2>2, CurStops DEF CurRecs, PurgePCs
  <2> QED
    BY <2>3 DEF CurTypes
<1>4. GhostTypes'
  <2>1. escaped' \subseteq Ids /\ stray' \subseteq Keys \cup Docs
    BY DEF PurgeStart, Types, GhostTypes, Lineage
  <2>2. material' = material /\ verdict' = [verdict EXCEPT ![c] = "none"]
    BY DEF PurgeStart
  <2> QED
    BY <2>1, <2>2 DEF Types, GhostTypes
<1>5. CountTypes'
  BY BoundAssumption DEF PurgeStart, Types, CountTypes, IngTypes, CurTypes, CardTypes, RecordTypes
<1> QED
  BY <1>1, <1>2, <1>3, <1>4, <1>5, TypesStay DEF Types

\* The types, over PurgeCard.
LEMMA TypesPurgeCard ==
    ASSUME Types, NEW k \in Ids, PurgeCard(k)
    PROVE  Types'
<1>1. UNCHANGED <<record, meta, source, model, proposal, drafts, ing, ingests, purges, crashes,
                  holds>>
  BY DEF PurgeCard, files, ghosts, counts
<1>2. CardTypes'
  BY Names, Absent DEF PurgeCard, PurgeDies, Release, DocOf, Exists, Types, CardTypes, IngTypes,
     CurTypes, RecordTypes, Card
<1>3. CurTypes'
  <2>1. cur \in CurRecs /\ cur.client \in Clients
    BY DEF PurgeCard, Types, CurTypes, PurgePCs
  <2>2. CASE ~Exists(k)
    BY <2>2, CurStops DEF PurgeCard, PurgeDies, Release, CurTypes, PurgePCs
  <2>3. CASE Exists(k)
    <3> DEFINE D == cur.docs \cup DocOf(k)
               W == cur.twice \cup {d \in DocOf(k) : Twin(k, d)}
    <3>1. DocOf(k) \subseteq Docs
      BY <2>3, Names DEF DocOf, Exists, Types, CardTypes
    <3>2. D \in SUBSET Docs /\ W \in SUBSET Docs
      BY <2>1, <3>1 DEF CurRecs
    <3>3. cur' = [cur EXCEPT !.pc = "record", !.item = k, !.docs = D, !.twice = W]
      BY <2>3 DEF PurgeCard
    <3> HIDE DEF D, W
    <3>4. cur' \in CurRecs /\ cur'.pc = "record" /\ cur'.item = k /\ cur'.client = cur.client
      BY <2>1, <3>2, <3>3 DEF CurRecs, PurgePCs
    <3> QED
      BY <2>1, <3>4 DEF CurTypes
  <2> QED
    BY <2>2, <2>3
<1>4. GhostTypes'
  <2>1. escaped' \subseteq Ids
    BY DEF PurgeCard, PurgeDies, Types, GhostTypes, CurTypes, CurRecs
  <2>2. material' = [material EXCEPT ![k] = {}] \/ material' = material
    BY DEF PurgeCard
  <2>3. UNCHANGED <<stray, verdict>>
    BY DEF PurgeCard
  <2> QED
    BY <2>1, <2>2, <2>3 DEF Types, GhostTypes
<1> QED
  BY <1>1, <1>2, <1>3, <1>4, TypesStay DEF Types

\* The types, over PurgeHeld.
LEMMA TypesPurgeHeld ==
    ASSUME Types, NEW k \in Ids, PurgeHeld(k)
    PROVE  Types'
<1>1. UNCHANGED <<card, record, meta, source, model, proposal, ing, ingests, purges, crashes,
                  holds>>
  BY DEF PurgeHeld, files, ghosts, counts
<1>2. DraftTypes'
  BY Names, Absent DEF PurgeHeld, DocOf, Exists, Types, DraftTypes, IngTypes, CurTypes,
     CardTypes, RecordTypes, DraftRecs
<1>3. CurTypes'
  <2>1. cur \in CurRecs /\ cur.client \in Clients
    BY DEF PurgeHeld, Types, CurTypes, PurgePCs
  <2> DEFINE S == cur.cards \ {k}
             K == cur.kept \cup DocOf(k)
  <2>2. DocOf(k) \subseteq Docs
    BY Names DEF PurgeHeld, DocOf, Exists, Types, CardTypes
  <2>3. S \in SUBSET Ids /\ K \in SUBSET Docs
    BY <2>1, <2>2 DEF CurRecs
  <2>4. cur' = [cur EXCEPT !.cards = S, !.kept = K] /\ cur.pc = "cards"
    BY DEF PurgeHeld
  <2> HIDE DEF S, K
  <2>5. cur' \in CurRecs /\ cur'.pc = "cards" /\ cur'.client = cur.client
    BY <2>1, <2>3, <2>4 DEF CurRecs, PurgePCs
  <2> QED
    BY <2>1, <2>5 DEF CurTypes
<1>4. GhostTypes'
  BY Names, Absent DEF PurgeHeld, DocOf, Exists, Types, GhostTypes, IngTypes, CurTypes,
     CardTypes, RecordTypes
<1> QED
  BY <1>1, <1>2, <1>3, <1>4, TypesStay DEF Types

\* The types, over PurgeRecord.
LEMMA TypesPurgeRecord ==
    ASSUME Types, PurgeRecord
    PROVE  Types'
<1>1. UNCHANGED <<card, meta, source, model, proposal, drafts, ing, ingests, purges, crashes,
                  holds>>
  BY DEF PurgeRecord, files, ghosts, counts
<1>2. RecordTypes'
  BY Names, Absent DEF PurgeRecord, PurgeDies, Release, Types, RecordTypes, IngTypes, CurTypes,
     CardTypes, Record
<1>3. CurTypes'
  <2>1. cur \in CurRecs /\ cur.client \in Clients /\ cur.item \in Ids
    BY DEF PurgeRecord, Types, CurTypes, PurgePCs
  <2> DEFINE S == cur.cards \ {cur.item}
             P == cur.purged \cup {cur.item}
  <2>2. S \in SUBSET Ids /\ P \in SUBSET Ids
    BY <2>1 DEF CurRecs
  <2>3. \/ cur' = NoCurator
        \/ cur' = [cur EXCEPT !.pc = "cards", !.cards = S, !.item = None, !.purged = P]
    BY DEF PurgeRecord, PurgeDies, Release
  <2> HIDE DEF S, P
  <2>4. CASE cur' = [cur EXCEPT !.pc = "cards", !.cards = S, !.item = None, !.purged = P]
    <3>1. cur' \in CurRecs /\ cur'.pc = "cards" /\ cur'.client = cur.client
      BY <2>1, <2>2, <2>4 DEF CurRecs, PurgePCs
    <3> QED
      BY <2>1, <3>1 DEF CurTypes
  <2> QED
    BY <2>3, <2>4, CurStops DEF CurTypes, PurgePCs
<1>4. GhostTypes'
  <2>1. escaped' \subseteq Ids
    BY CutIds, Names DEF PurgeRecord, Types, GhostTypes, IngTypes, CurTypes, CurRecs, PurgeDies
  <2>2. UNCHANGED <<material, stray, verdict>>
    BY DEF PurgeRecord
  <2> QED
    BY <2>1, <2>2 DEF Types, GhostTypes
<1> QED
  BY <1>1, <1>2, <1>3, <1>4, TypesStay DEF Types

\* The types, over PurgeSourcesStart.
LEMMA TypesPurgeSourcesStart ==
    ASSUME Types, PurgeSourcesStart
    PROVE  Types'
<1>1. UNCHANGED <<card, record, meta, source, model, proposal, drafts, ing, material, escaped,
                  stray, verdict, ingests, purges, crashes, holds>>
  BY DEF PurgeSourcesStart, files, ghosts, counts
<1>2. CurTypes'
  <2>1. cur \in CurRecs /\ cur.client \in Clients
    BY DEF PurgeSourcesStart, Types, CurTypes, PurgePCs
  <2> DEFINE D == cur.docs \cup {d \in source \cap meta : d.client = cur.client}
  <2>2. D \in SUBSET Docs
    BY <2>1 DEF CurRecs, Types, FileTypes
  <2>3. cur' = [cur EXCEPT !.pc = "sources", !.docs = D]
    BY DEF PurgeSourcesStart
  <2> HIDE DEF D
  <2>4. cur' \in CurRecs /\ cur'.pc = "sources" /\ cur'.client = cur.client
    BY <2>1, <2>2, <2>3 DEF CurRecs, PurgePCs
  <2> QED
    BY <2>1, <2>4 DEF CurTypes
<1> QED
  BY <1>1, <1>2, TypesStay DEF Types

\* The types, over PurgeSource.
LEMMA TypesPurgeSource ==
    ASSUME Types, NEW d \in Docs, PurgeSource(d)
    PROVE  Types'
<1>1. UNCHANGED <<card, record, proposal, drafts, ing, material, escaped, stray, verdict,
                  ingests, purges, crashes, holds>>
  BY DEF PurgeSource, files, ghosts, counts
<1>2. FileTypes'
  BY Names, Absent DEF PurgeSource, Types, FileTypes, IngTypes, CurTypes, CardTypes, RecordTypes
<1>3. CurTypes'
  BY Names, Absent, CurStops DEF PurgeSource, Types, CurTypes, IngTypes, CardTypes, RecordTypes,
     CurRecs, PurgePCs, MergePCs
<1> QED
  BY <1>1, <1>2, <1>3, TypesStay DEF Types

\* The types, over PurgeOrphans.
LEMMA TypesPurgeOrphans ==
    ASSUME Types, PurgeOrphans
    PROVE  Types'
<1>1. UNCHANGED <<card, record, proposal, drafts, ing, material, escaped, stray, verdict,
                  ingests, purges, crashes, holds>>
  BY DEF PurgeOrphans, files, ghosts, counts
<1>2. FileTypes'
  BY Names, Absent DEF PurgeOrphans, Cites, Types, FileTypes, IngTypes, CurTypes, CardTypes,
     RecordTypes
<1>3. CurTypes'
  BY Names, Absent, CurStops DEF PurgeOrphans, Cites, Types, CurTypes, IngTypes, CardTypes,
     RecordTypes, CurRecs, PurgePCs, MergePCs
<1> QED
  BY <1>1, <1>2, <1>3, TypesStay DEF Types

\* The types, over PurgeVoid.
LEMMA TypesPurgeVoid ==
    ASSUME Types, NEW p \in Keys, PurgeVoid(p)
    PROVE  Types'
<1>1. UNCHANGED <<card, record, meta, source, model, drafts, ing, material, escaped, stray,
                  verdict, ingests, purges, crashes, holds>>
  BY DEF PurgeVoid, files, ghosts, counts
<1>2. ProposalTypes'
  BY Names, Absent DEF PurgeVoid, Types, ProposalTypes, IngTypes, CurTypes, CardTypes,
     RecordTypes, Statuses
<1>3. CurTypes'
  BY Names, Absent, CurStops DEF PurgeVoid, Types, CurTypes, IngTypes, CardTypes, RecordTypes,
     CurRecs, PurgePCs, MergePCs
<1> QED
  BY <1>1, <1>2, <1>3, TypesStay DEF Types

\* The types, over PurgeDraftsStart.
LEMMA TypesPurgeDraftsStart ==
    ASSUME Types, PurgeDraftsStart
    PROVE  Types'
<1>1. UNCHANGED <<card, record, meta, source, model, proposal, drafts, ing, material, escaped,
                  stray, verdict, ingests, purges, crashes, holds>>
  BY DEF PurgeDraftsStart, files, ghosts, counts
<1>2. CurTypes'
  BY Names, Absent, CurStops DEF PurgeDraftsStart, Types, CurTypes, IngTypes, CardTypes,
     RecordTypes, CurRecs, PurgePCs, MergePCs
<1> QED
  BY <1>1, <1>2, TypesStay DEF Types

\* The types, over PurgeDraft.
LEMMA TypesPurgeDraft ==
    ASSUME Types, NEW d \in drafts, PurgeDraft(d)
    PROVE  Types'
<1>1. UNCHANGED <<card, record, meta, source, model, proposal, ing, cur, material, escaped,
                  stray, verdict, ingests, purges, crashes, holds>>
  BY DEF PurgeDraft, files, ghosts, counts
<1>2. DraftTypes'
  BY Names, Absent DEF PurgeDraft, Types, DraftTypes, IngTypes, CurTypes, CardTypes,
     RecordTypes, DraftRecs
<1> QED
  BY <1>1, <1>2, TypesStay DEF Types

\* The types, over Sweep.
LEMMA TypesSweep ==
    ASSUME Types, Sweep
    PROVE  Types'
<1>1. UNCHANGED <<card, record, meta, source, model, proposal, drafts, ing, ingests, purges,
                  crashes, holds>>
  BY DEF Sweep, files, ghosts, counts
<1>2. CurTypes'
  BY Names, Absent, CurStops DEF Sweep, Release, Types, CurTypes, IngTypes, CardTypes,
     RecordTypes, CurRecs, PurgePCs, MergePCs
<1>3. GhostTypes'
  BY Names, Absent DEF Sweep, Release, Types, GhostTypes, IngTypes, CurTypes, CardTypes,
     RecordTypes
<1> QED
  BY <1>1, <1>2, <1>3, TypesStay DEF Types

\* The types, over CuratorCrash.
LEMMA TypesCuratorCrash ==
    ASSUME Types, CuratorCrash
    PROVE  Types'
<1>1. UNCHANGED <<card, record, meta, source, model, proposal, drafts, ing>>
  BY DEF CuratorCrash, files, ghosts, counts
<1>2. CurTypes'
  BY Names, Absent, CurStops DEF CuratorCrash, PurgeDies, Release, Free, Types, CurTypes,
     IngTypes, CardTypes, RecordTypes, CurRecs, PurgePCs, MergePCs
<1>3. GhostTypes'
  <2>1. escaped' \subseteq Ids
    BY CutIds, Names DEF CuratorCrash, Types, GhostTypes, IngTypes, CurTypes, CurRecs, PurgeDies
  <2>2. UNCHANGED <<material, stray, verdict>>
    BY DEF CuratorCrash
  <2> QED
    BY <2>1, <2>2 DEF Types, GhostTypes
<1>4. CountTypes'
  BY BoundAssumption DEF CuratorCrash, PurgeDies, Release, Free, Types, CountTypes, IngTypes,
     CurTypes, CardTypes, RecordTypes
<1> QED
  BY <1>1, <1>2, <1>3, <1>4, TypesStay DEF Types

\* The types, over Draft.
LEMMA TypesDraft ==
    ASSUME Types, NEW k \in Ids, Draft(k)
    PROVE  Types'
<1>1. UNCHANGED <<card, record, meta, source, model, proposal, ing, cur, material, escaped,
                  stray, verdict, ingests, purges, crashes, holds>>
  BY DEF Draft, files, ghosts, counts
<1>2. DraftTypes'
  <2> DEFINE b == k \in escaped \/ record[k] = None
             x == [card |-> k, of |-> material[k], missed |-> b]
  <2>1. b \in BOOLEAN /\ material[k] \in SUBSET Clients
    BY DEF Types, GhostTypes
  <2>2. drafts' = drafts \cup {x}
    BY DEF Draft
  <2> HIDE DEF b
  <2>3. x \in DraftRecs
    BY <2>1 DEF DraftRecs
  <2> QED
    BY <2>2, <2>3 DEF Types, DraftTypes
<1> QED
  BY <1>1, <1>2, TypesStay DEF Types

\* The types, over Hold.
LEMMA TypesHold ==
    ASSUME Types, NEW k \in Ids, Hold(k)
    PROVE  Types'
<1>1. UNCHANGED <<record, meta, source, model, proposal, drafts, ing, cur, material, escaped,
                  stray, verdict>>
  BY DEF Hold, files, ghosts, counts
<1>2. CardTypes'
  <2> DEFINE x == [card[k] EXCEPT !.held = TRUE]
  <2>1. card[k] \in Card /\ card[k] # None
    BY DEF Hold, Exists, Types, CardTypes
  <2>2. x \in Card /\ x.doc = card[k].doc
    BY <2>1 DEF Card
  <2>3. card' = [card EXCEPT ![k] = x]
    BY DEF Hold
  <2> HIDE DEF x
  <2> QED
    BY <2>1, <2>2, <2>3 DEF Types, CardTypes
<1>3. CountTypes'
  BY BoundAssumption DEF Hold, Types, CountTypes, IngTypes, CurTypes, CardTypes, RecordTypes
<1> QED
  BY <1>1, <1>2, <1>3, TypesStay DEF Types

\* Every action keeps the types.
LEMMA TypesStep == ASSUME Types, [Next]_vars PROVE Types'
<1>1. CASE UNCHANGED vars
  BY <1>1, TypesStay DEF vars, files, ghosts, counts, Types
<1>2. CASE Ingest
  BY <1>2, TypesIngestStart, TypesWriteBytes, TypesIngestBlocked, TypesRewriteCard,
     TypesAppendRead, TypesAppendWrite, TypesWriteCard, TypesWriteRecord, TypesMergeRead,
     TypesMergeWrite, TypesMergeUnlink, TypesDropCard, TypesOpenClaim, TypesIngestCrash,
     TypesSettle
     DEF Ingest
<1>3. CASE Curate
  BY <1>3, TypesMergeStart, TypesApplyCard, TypesApplyRecord, TypesDecide, TypesReject,
     TypesPurgeStart, TypesPurgeCard, TypesPurgeHeld, TypesPurgeRecord, TypesPurgeSourcesStart,
     TypesPurgeSource, TypesPurgeOrphans, TypesPurgeVoid, TypesPurgeDraftsStart,
     TypesPurgeDraft, TypesSweep, TypesCuratorCrash DEF Curate
<1>4. CASE (\E k \in Ids : Draft(k)) \/ \E k \in Ids : Hold(k)
  BY <1>4, TypesDraft, TypesHold
<1> QED
  BY <1>1, <1>2, <1>3, <1>4 DEF Next

\* The files, the processes and the history are what the module says of them.
\* Kind: type invariant; run knowledge_base.
THEOREM StoreTypeCorrect == Spec => []TypeOK
<1>1. Types => TypeOK
  BY DEF Types, CardTypes, RecordTypes, FileTypes, ProposalTypes, DraftTypes, IngTypes, CurTypes,
         GhostTypes, CountTypes, TypeOK, IngRecs, CurRecs, DraftRecs
<1>2. Types /\ [Next]_vars => Types'
  BY TypesStep
<1> QED
  BY <1>1, <1>2, TypesInit, PTL DEF Spec
-----------------------------------------------------------------------------
(* Legal hold                                                              *)

\* A purge that no ingest ran beside has no ingest beside it now.
Alone == cur.pc \in PurgePCs /\ ~cur.beside => ing.pc = "idle"

\* What a purge has still to remove is listed while it removes cards only.
Listed == cur.pc \notin {"cards", "record"} => cur.cards = {}

\* While such a purge has sources to remove: a held card that it covers is
\* still to come or has its document kept, and a document on its list that a
\* card was made from is the client's own, or was on the list twice.
Holding ==
    cur.pc \in {"cards", "record", "sources"} /\ ~cur.beside =>
        /\ \A k \in Ids :
              /\ Exists(k) /\ card[k].held /\ record[k] # None
              /\ cur.client \in record[k].sources
              => k \in cur.cards \/ card[k].doc \in cur.kept \cup {None}
        /\ \A k \in Ids :
              Exists(k) /\ card[k].doc \in cur.docs \ cur.twice => card[k].doc.client = cur.client

HoldInv == Alone /\ Listed /\ Holding

\* An ingest that runs beside a purge is remembered.
LEMMA IngestIsSeen ==
    ASSUME Types, Ingest
    PROVE  /\ cur'.pc = cur.pc /\ cur'.cards = cur.cards
           /\ cur.pc \in PurgePCs => cur'.beside \/ (ing.pc # "idle" /\ cur' = cur)
<1>1. cur \in CurRecs
  BY DEF Types, CurTypes
<1>2. ASSUME NEW d \in Docs, IngestStart(d)
      PROVE  cur'.pc = cur.pc /\ cur'.cards = cur.cards /\ (cur.pc \in PurgePCs => cur'.beside)
  <2> DEFINE b == cur.pc # "idle"
  <2>1. cur' = [cur EXCEPT !.beside = b] /\ b \in BOOLEAN
    BY <1>2 DEF IngestStart
  <2>2. cur.pc \in PurgePCs => b
    BY DEF PurgePCs
  <2> HIDE DEF b
  <2> QED
    BY <1>1, <2>1, <2>2 DEF CurRecs
<1>3. ASSUME ~\E d \in Docs : IngestStart(d) PROVE ing.pc # "idle" /\ cur' = cur
  BY <1>3 DEF Ingest, WriteBytes, IngestBlocked, Settle, RewriteCard, AppendRead, AppendWrite,
     WriteCard, WriteRecord, MergeRead, MergeWrite, MergeUnlink, DropCard, OpenClaim, IngestCrash
<1> QED
  BY <1>2, <1>3

\* Nothing is held that nothing runs.
LEMMA HoldInit == Init => HoldInv
BY DEF Init, HoldInv, Alone, Listed, Holding, NoCurator, PurgePCs

\* The ingest of a document.
LEMMA HoldIngest == ASSUME Types, HoldInv, Ingest PROVE HoldInv'
<1>1. /\ cur'.pc = cur.pc /\ cur'.cards = cur.cards
      /\ cur.pc \in PurgePCs => cur'.beside \/ (ing.pc # "idle" /\ cur' = cur)
  BY IngestIsSeen
<1>2. cur.pc \in PurgePCs => cur'.beside
  BY <1>1 DEF HoldInv, Alone
<1> QED
  BY <1>1, <1>2 DEF HoldInv, Alone, Listed, Holding, PurgePCs

\* A purge that starts holds what it covers.
LEMMA HoldPurgeStart ==
    ASSUME Types, HoldInv, NEW c \in Clients, PurgeStart(c)
    PROVE  HoldInv'
<1> DEFINE S == Closure(c)
           b == ing.pc # "idle"
<1>1. Seeds(c) \subseteq S /\ S \subseteq Ids /\ b \in BOOLEAN
  BY ClosureIsLeast
<1>2. cur' = [NoCurator EXCEPT !.pc = "cards", !.client = c, !.cards = S, !.beside = b]
      /\ UNCHANGED <<card, record, ing>>
  BY DEF PurgeStart
<1>3. \A k \in Ids : record[k] # None /\ c \in record[k].sources => k \in S
  BY <1>1 DEF Seeds, Recorded
<1> HIDE DEF S
<1>4. cur'.pc = "cards" /\ cur'.client = c /\ cur'.cards = S /\ cur'.docs = {} /\ cur'.beside = b
  BY <1>2 DEF NoCurator
<1> QED
  BY <1>2, <1>3, <1>4 DEF HoldInv, Alone, Listed, Holding, Exists

\* The document of a card that goes is the client's, or another card's too.
LEMMA HoldPurgeCard ==
    ASSUME Types, HoldInv, NEW k \in Ids, PurgeCard(k)
    PROVE  HoldInv'
<1>1. cur \in CurRecs /\ card \in [Ids -> Card \cup {None}]
  BY DEF Types, CurTypes, CardTypes
<1>2. CASE ~Exists(k)
  BY <1>2 DEF PurgeCard, PurgeDies, Release, NoCurator, HoldInv, Alone, Listed, Holding, PurgePCs
<1>3. CASE Exists(k)
  <2> DEFINE D == cur.docs \cup DocOf(k)
             W == cur.twice \cup {d \in DocOf(k) : Twin(k, d)}
  <2>1. /\ cur' = [cur EXCEPT !.pc = "record", !.item = k, !.docs = D, !.twice = W]
        /\ card' = [card EXCEPT ![k] = None] /\ UNCHANGED <<record, ing>> /\ cur.pc = "cards"
    BY <1>3 DEF PurgeCard
  <2>2. \A j \in Ids : card'[j] = IF j = k THEN None ELSE card[j]
    BY <1>1, <2>1
  <2>3. \A j \in Ids \ {k} : Exists(j) /\ card[j].doc \in D \ W => card[j].doc \in cur.docs \ cur.twice
    BY <1>3 DEF DocOf, Twin
  <2> HIDE DEF D, W
  <2>4. /\ cur'.pc = "record" /\ cur'.docs = D /\ cur'.twice = W /\ cur'.client = cur.client
        /\ cur'.cards = cur.cards /\ cur'.kept = cur.kept /\ cur'.beside = cur.beside
    BY <1>1, <2>1 DEF CurRecs
  <2>5. Alone' /\ Listed'
    BY <2>1, <2>4 DEF HoldInv, Alone, Listed, PurgePCs
  <2>6. Holding'
    BY <2>1, <2>2, <2>3, <2>4 DEF HoldInv, Holding, Exists
  <2> QED
    BY <2>5, <2>6 DEF HoldInv
<1> QED
  BY <1>2, <1>3

\* A held card of the list has its document kept.
LEMMA HoldPurgeHeld ==
    ASSUME Types, HoldInv, NEW k \in Ids, PurgeHeld(k)
    PROVE  HoldInv'
<1>1. cur \in CurRecs
  BY DEF Types, CurTypes
<1> DEFINE S == cur.cards \ {k}
           K == cur.kept \cup DocOf(k)
<1>2. cur' = [cur EXCEPT !.cards = S, !.kept = K] /\ cur.pc = "cards"
      /\ UNCHANGED <<card, record, ing>>
  BY DEF PurgeHeld
<1>3. card[k].doc \in K \cup {None}
  BY DEF DocOf
<1>4. \A j \in Ids : j \in cur.cards \/ card[j].doc \in cur.kept \cup {None}
                        => j \in S \/ card[j].doc \in K \cup {None}
  BY <1>3
<1> HIDE DEF S, K
<1>5. /\ cur'.pc = "cards" /\ cur'.docs = cur.docs /\ cur'.twice = cur.twice
      /\ cur'.client = cur.client /\ cur'.cards = S /\ cur'.kept = K /\ cur'.beside = cur.beside
  BY <1>1, <1>2 DEF CurRecs
<1>6. Alone' /\ Listed'
  BY <1>2, <1>5 DEF HoldInv, Alone, Listed, PurgePCs
<1>7. Holding'
  BY <1>2, <1>4, <1>5 DEF HoldInv, Holding, Exists
<1> QED
  BY <1>6, <1>7 DEF HoldInv

\* The record of a card goes after the card: no card is held by it.
LEMMA HoldPurgeRecord ==
    ASSUME Types, HoldInv, PurgeRecord
    PROVE  HoldInv'
<1>1. cur \in CurRecs /\ cur.item \in Ids /\ record \in [Ids -> Record \cup {None}]
  BY DEF PurgeRecord, Types, CurTypes, RecordTypes
<1> DEFINE S == cur.cards \ {cur.item}
           P == cur.purged \cup {cur.item}
<1>2. \/ cur' = NoCurator
      \/ cur' = [cur EXCEPT !.pc = "cards", !.cards = S, !.item = None, !.purged = P]
  BY DEF PurgeRecord, PurgeDies, Release
<1>3. record' = [record EXCEPT ![cur.item] = None] /\ UNCHANGED <<card, ing>> /\ cur.pc = "record"
  BY DEF PurgeRecord
<1>4. \A k \in Ids : record'[k] = IF k = cur.item THEN None ELSE record[k]
  BY <1>1, <1>3
<1>5. CASE cur' = NoCurator
  BY <1>5 DEF NoCurator, HoldInv, Alone, Listed, Holding, PurgePCs
<1>6. CASE cur' = [cur EXCEPT !.pc = "cards", !.cards = S, !.item = None, !.purged = P]
  <2>1. \A k \in Ids : k \in cur.cards => k \in S \/ k = cur.item
    OBVIOUS
  <2> HIDE DEF S, P
  <2>2. /\ cur'.pc = "cards" /\ cur'.docs = cur.docs /\ cur'.twice = cur.twice
        /\ cur'.client = cur.client /\ cur'.cards = S /\ cur'.kept = cur.kept
        /\ cur'.beside = cur.beside
    BY <1>1, <1>6 DEF CurRecs
  <2>3. Alone' /\ Listed'
    BY <1>3, <2>2 DEF HoldInv, Alone, Listed, PurgePCs
  <2>4. Holding'
    BY <1>3, <1>4, <2>1, <2>2 DEF HoldInv, Holding, Exists
  <2> QED
    BY <2>3, <2>4 DEF HoldInv
<1> QED
  BY <1>2, <1>5, <1>6

\* The list of sources grows by the client's own.
LEMMA HoldPurgeSourcesStart ==
    ASSUME Types, HoldInv, PurgeSourcesStart
    PROVE  HoldInv'
<1>1. cur \in CurRecs
  BY DEF Types, CurTypes
<1> DEFINE D == cur.docs \cup {d \in source \cap meta : d.client = cur.client}
<1>2. cur' = [cur EXCEPT !.pc = "sources", !.docs = D] /\ cur.pc = "cards" /\ cur.cards = {}
      /\ UNCHANGED <<card, record, ing>>
  BY DEF PurgeSourcesStart, files
<1>3. \A d \in D : d \in cur.docs \/ d.client = cur.client
  OBVIOUS
<1> HIDE DEF D
<1>4. /\ cur'.pc = "sources" /\ cur'.docs = D /\ cur'.twice = cur.twice
      /\ cur'.client = cur.client /\ cur'.cards = {} /\ cur'.kept = cur.kept
      /\ cur'.beside = cur.beside
  BY <1>1, <1>2 DEF CurRecs
<1>5. Alone' /\ Listed'
  BY <1>2, <1>4 DEF HoldInv, Alone, Listed, PurgePCs
<1>6. Holding'
  BY <1>2, <1>3, <1>4 DEF HoldInv, Holding, Exists
<1> QED
  BY <1>5, <1>6 DEF HoldInv

\* A source of the list is done with.
LEMMA HoldPurgeSource ==
    ASSUME Types, HoldInv, NEW d \in Docs, PurgeSource(d)
    PROVE  HoldInv'
<1>1. cur \in CurRecs
  BY DEF Types, CurTypes
<1> DEFINE D == cur.docs \ {d}
<1>2. cur' = [cur EXCEPT !.docs = D] /\ cur.pc = "sources" /\ UNCHANGED <<card, record, ing>>
  BY DEF PurgeSource
<1>3. D \subseteq cur.docs
  OBVIOUS
<1> HIDE DEF D
<1>4. /\ cur'.pc = "sources" /\ cur'.docs = D /\ cur'.twice = cur.twice
      /\ cur'.client = cur.client /\ cur'.cards = cur.cards /\ cur'.kept = cur.kept
      /\ cur'.beside = cur.beside
  BY <1>1, <1>2 DEF CurRecs
<1>5. Alone' /\ Listed'
  BY <1>2, <1>4 DEF HoldInv, Alone, Listed, PurgePCs
<1>6. Holding'
  BY <1>2, <1>3, <1>4 DEF HoldInv, Holding, Exists
<1> QED
  BY <1>5, <1>6 DEF HoldInv

\* The rest of a purge: no card and no source is at stake.
LEMMA HoldPurgeTail ==
    ASSUME Types, HoldInv,
           \/ PurgeOrphans \/ \E p \in Keys : PurgeVoid(p)
           \/ PurgeDraftsStart \/ Sweep \/ CuratorCrash
    PROVE  HoldInv'
<1>1. cur \in CurRecs
  BY DEF Types, CurTypes
<1>2. CASE PurgeOrphans
  <2> DEFINE C == Cites(cur.purged)
  <2>1. cur' = [cur EXCEPT !.pc = "void", !.claims = C] /\ cur.pc = "sources" /\ UNCHANGED ing
    BY <1>2 DEF PurgeOrphans
  <2> HIDE DEF C
  <2>2. cur'.pc = "void" /\ cur'.cards = cur.cards /\ cur'.beside = cur.beside
    BY <1>1, <2>1 DEF CurRecs
  <2> QED
    BY <2>1, <2>2 DEF HoldInv, Alone, Listed, Holding, PurgePCs
<1>3. CASE (\E p \in Keys : PurgeVoid(p)) \/ PurgeDraftsStart
  <2>1. /\ cur'.pc \in {"void", "drafts"} /\ cur'.cards = cur.cards /\ cur'.beside = cur.beside
        /\ cur.pc = "void" /\ UNCHANGED ing
    BY <1>1, <1>3 DEF PurgeVoid, PurgeDraftsStart, CurRecs
  <2> QED
    BY <2>1 DEF HoldInv, Alone, Listed, Holding, PurgePCs
<1>4. CASE Sweep \/ CuratorCrash
  BY <1>4 DEF Sweep, CuratorCrash, PurgeDies, Release, NoCurator, HoldInv, Alone, Listed,
     Holding, PurgePCs
<1> QED
  BY <1>2, <1>3, <1>4

\* A merge batch is no purge.
LEMMA HoldMerge ==
    ASSUME Types, HoldInv,
           MergeStart \/ (\E p \in Keys : ApplyCard(p)) \/ ApplyRecord \/ Decide
    PROVE  HoldInv'
<1>1. cur \in CurRecs
  BY DEF Types, CurTypes
<1>2. cur'.pc \in {"idle", "apply", "link", "decide"} /\ cur'.cards = {}
  <2>1. CASE MergeStart
    BY <2>1 DEF MergeStart, NoCurator
  <2>2. CASE \E p \in Keys : ApplyCard(p)
    <3>1. PICK p \in Keys : /\ cur.pc = "apply"
                            /\ \/ cur' = [cur EXCEPT !.pc = "link", !.claim = p, !.loose = Loose(p)]
                               \/ cur' = NoCurator
      BY <2>2, Zenon DEF ApplyCard, Release
    <3> DEFINE l == Loose(p)
    <3>2. cur.cards = {}
      BY <3>1 DEF HoldInv, Listed
    <3>3. CASE cur' = NoCurator
      BY <3>3 DEF NoCurator
    <3>4. ASSUME cur' = [cur EXCEPT !.pc = "link", !.claim = p, !.loose = l]
          PROVE  cur'.pc = "link" /\ cur'.cards = {}
      <4> HIDE DEF l
      <4> QED
        BY <1>1, <3>2, <3>4 DEF CurRecs
    <3> QED
      BY <3>1, <3>3, <3>4
  <2>3. CASE ApplyRecord
    BY <1>1, <2>3 DEF ApplyRecord, HoldInv, Listed, CurRecs
  <2>4. CASE Decide
    <3> DEFINE rest == cur.claims \ {cur.claim}
    <3>1. /\ cur.pc = "decide"
          /\ \/ cur' = [cur EXCEPT !.pc = "apply", !.claims = rest, !.claim = None]
             \/ cur' = NoCurator
      BY <2>4 DEF Decide, Release
    <3> HIDE DEF rest
    <3>2. cur.cards = {}
      BY <3>1 DEF HoldInv, Listed
    <3>3. CASE cur' = NoCurator
      BY <3>3 DEF NoCurator
    <3>4. CASE cur' # NoCurator
      BY <1>1, <3>1, <3>2, <3>4 DEF CurRecs
    <3> QED
      BY <3>3, <3>4
  <2> QED
    BY <2>1, <2>2, <2>3, <2>4
<1> QED
  BY <1>2 DEF HoldInv, Alone, Listed, Holding, PurgePCs

\* Every action keeps it.
LEMMA HoldStep == ASSUME Types, HoldInv, [Next]_vars PROVE HoldInv'
<1>1. ASSUME UNCHANGED <<card, record, ing, cur>> PROVE HoldInv'
  BY <1>1 DEF HoldInv, Alone, Listed, Holding, Exists
<1>2. CASE UNCHANGED vars
  BY <1>1, <1>2 DEF vars, files
<1>3. CASE Ingest
  BY <1>3, HoldIngest
<1>4. CASE Curate
  <2>1. ASSUME NEW p \in Keys, Reject(p) PROVE HoldInv'
    BY <1>1, <2>1 DEF Reject
  <2>2. ASSUME NEW d \in drafts, PurgeDraft(d) PROVE HoldInv'
    BY <1>1, <2>2 DEF PurgeDraft
  <2> QED
    BY <1>4, <2>1, <2>2, HoldMerge, HoldPurgeStart, HoldPurgeCard, HoldPurgeHeld,
       HoldPurgeRecord, HoldPurgeSourcesStart, HoldPurgeSource, HoldPurgeTail DEF Curate
<1>5. ASSUME NEW k \in Ids, Draft(k) PROVE HoldInv'
  BY <1>1, <1>5 DEF Draft
<1>6. ASSUME NEW k \in Ids, Hold(k) PROVE HoldInv'
  BY <1>6 DEF Hold, Free, HoldInv, Alone, Listed, Holding, PurgePCs
<1> QED
  BY <1>2, <1>3, <1>4, <1>5, <1>6 DEF Next

\* A source that a purge removes is none that a held card was made from whose
\* record names the client of the document.
LEMMA HeldStep ==
    ASSUME Types, HoldInv, [Next]_vars,
           NEW k \in Ids, Exists(k), card[k].held, record[k] # None,
           card[k].doc \in (source \cap meta) \ cur.twice,
           card[k].doc.client \in record[k].sources, ~cur.beside
    PROVE  card[k].doc \in source'
<1> DEFINE s == card[k].doc
<1>0. s # None
  BY Absent DEF Types, FileTypes
<1>1. ASSUME NEW d \in Docs, PurgeSource(d) PROVE s \in source'
  <2>1. CASE source' = source \ {d} /\ Removable(d)
    <3>1. cur.pc = "sources" /\ d \in cur.docs
      BY <1>1 DEF PurgeSource
    <3>2. SUFFICES ASSUME s = d PROVE FALSE
      BY <2>1
    <3>3. s.client = cur.client
      BY <3>1, <3>2 DEF HoldInv, Holding
    <3>4. k \in cur.cards \/ s \in cur.kept
      BY <1>0, <3>1, <3>3 DEF HoldInv, Holding
    <3>5. cur.cards = {}
      BY <3>1 DEF HoldInv, Listed
    <3> QED
      BY <2>1, <3>2, <3>4, <3>5 DEF Removable
  <2> QED
    BY <1>1, <2>1 DEF PurgeSource
<1>2. CASE PurgeOrphans
  BY <1>2 DEF PurgeOrphans
<1>3. CASE UNCHANGED vars
  BY <1>3 DEF vars, files
<1>4. CASE Ingest
  BY <1>4 DEF Ingest, IngestStart, WriteBytes, IngestBlocked, Settle, RewriteCard, AppendRead,
     AppendWrite, WriteCard, WriteRecord, MergeRead, MergeWrite, MergeUnlink, DropCard,
     OpenClaim, IngestCrash, files
<1>5. CASE Curate
  <2>1. CASE UNCHANGED source
    BY <2>1
  <2>2. CASE source' # source
    <3>1. PurgeOrphans \/ \E d \in Docs : PurgeSource(d)
      BY <1>5, <2>2 DEF Curate, MergeStart, ApplyCard, ApplyRecord, Decide, Reject, PurgeStart,
         PurgeCard, PurgeHeld, PurgeRecord, PurgeSourcesStart, PurgeVoid, PurgeDraftsStart,
         PurgeDraft, Sweep, CuratorCrash, files
    <3> QED
      BY <1>1, <1>2, <3>1
  <2> QED
    BY <2>1, <2>2
<1>6. CASE (\E j \in Ids : Draft(j)) \/ \E j \in Ids : Hold(j)
  BY <1>6 DEF Draft, Hold
<1> QED
  BY <1>3, <1>4, <1>5, <1>6 DEF Next

\* A held card keeps the source it was made from, whichever client is purged.
\* Kind: action property; run knowledge_base.
THEOREM HoldsAreKept == Spec => HeldKeepsSource
<1> DEFINE Keeps ==
        \A k \in Ids :
          /\ Exists(k) /\ card[k].held /\ record[k] # None
          /\ card[k].doc \in (source \cap meta) \ cur.twice
          /\ card[k].doc.client \in record[k].sources
          /\ ~cur.beside
          => card[k].doc \in source'
<1>1. Types /\ HoldInv /\ [Next]_vars => Types' /\ HoldInv'
  BY TypesStep, HoldStep
<1>2. Types /\ HoldInv /\ [Next]_vars => [Keeps]_vars
  BY HeldStep
<1> HIDE DEF Keeps
<1>3. Spec => [][Keeps]_vars
  BY <1>1, <1>2, TypesInit, HoldInit, PTL DEF Spec
<1> QED
  BY <1>3 DEF HeldKeepsSource, Keeps
-----------------------------------------------------------------------------
(* What records lead to                                                    *)

\* The record says no more than the other.
Within(r, q) == r.sources \subseteq q.sources /\ r.from \subseteq q.from

\* The set holds what derives from it and what was folded into it.
Stable(R, S) ==
    \A k \in Ids : R[k] # None =>
        /\ R[k].from \cap S # {} => k \in S
        /\ k \in S \cap Bodies => R[k].from \subseteq S

Named(R, c, S) == \A k \in Ids : R[k] # None /\ c \in R[k].sources => k \in S

\* Lineage, of any records.
Line(R, c) == {k \in Ids : \A S \in SUBSET Ids : Named(R, c, S) /\ Stable(R, S) => k \in S}

\* The conditions of the model are those conditions.
LEMMA StableIs ==
    ASSUME NEW c \in Clients, NEW S \in SUBSET Ids, RecordTypes
    PROVE  /\ Seeds(c) \subseteq S <=> Named(record, c, S)
           /\ DerivedOf(S) \subseteq S /\ FoldedIn(S) \subseteq S <=> Stable(record, S)
<1>1. Seeds(c) \subseteq S <=> Named(record, c, S)
  BY DEF Seeds, Recorded, Named
<1>2. DerivedOf(S) \subseteq S
        <=> \A k \in Ids : record[k] # None /\ record[k].from \cap S # {} => k \in S
  BY DEF DerivedOf, Recorded
<1>3. FoldedIn(S) \subseteq S
        <=> \A k \in Ids : record[k] # None /\ k \in S \cap Bodies => record[k].from \subseteq S
  BY DEF FoldedIn, Recorded
<1> QED
  BY <1>1, <1>2, <1>3 DEF Stable

\* The lineage of the model is that of the records on disk.
LEMMA LineageIs ==
    ASSUME NEW c \in Clients, RecordTypes
    PROVE  Lineage(c) = Line(record, c)
BY StableIs DEF Lineage, Line

\* So it is after a step.
LEMMA NextLineageIs ==
    ASSUME NEW c \in Clients, RecordTypes'
    PROVE  Lineage(c)' = Line(record', c)
<1>1. ASSUME NEW S \in SUBSET Ids
      PROVE  /\ Seeds(c)' \subseteq S <=> Named(record', c, S)
             /\ DerivedOf(S)' \subseteq S /\ FoldedIn(S)' \subseteq S <=> Stable(record', S)
  <2>1. Seeds(c)' \subseteq S <=> Named(record', c, S)
    BY DEF Seeds, Recorded, Named
  <2>2. DerivedOf(S)' \subseteq S
          <=> \A k \in Ids : record'[k] # None /\ record'[k].from \cap S # {} => k \in S
    BY DEF DerivedOf, Recorded
  <2>3. FoldedIn(S)' \subseteq S
          <=> \A k \in Ids : record'[k] # None /\ k \in S \cap Bodies => record'[k].from \subseteq S
    BY DEF FoldedIn, Recorded
  <2> QED
    BY <2>1, <2>2, <2>3 DEF Stable
<1> QED
  BY <1>1 DEF Lineage, Line

\* A card whose record names the client is of the client's lineage, and so is
\* what derives from such a card.
LEMMA LineHolds ==
    ASSUME NEW c \in Clients, NEW R, NEW k \in Ids, R[k] # None
    PROVE  /\ c \in R[k].sources => k \in Line(R, c)
           /\ R[k].from \cap Line(R, c) # {} => k \in Line(R, c)
BY DEF Line, Named, Stable

\* The lineage holds what derives from it and what was folded into it.
LEMMA LineIsStable ==
    ASSUME NEW c \in Clients, NEW R, \A k \in Ids : R[k] # None => R[k].from \subseteq Ids
    PROVE  Line(R, c) \in SUBSET Ids /\ Stable(R, Line(R, c)) /\ Named(R, c, Line(R, c))
BY DEF Line, Named, Stable

\* Records that say more lead to more.
LEMMA LineGrows ==
    ASSUME NEW c \in Clients, NEW R, NEW Q,
           \A k \in Ids : R[k] # None => Q[k] # None /\ Within(R[k], Q[k])
    PROVE  Line(R, c) \subseteq Line(Q, c)
<1>1. ASSUME NEW S \in SUBSET Ids, Named(Q, c, S), Stable(Q, S)
      PROVE  Named(R, c, S) /\ Stable(R, S)
  BY <1>1 DEF Named, Stable, Within
<1> QED
  BY <1>1 DEF Line

\* The record of a claim's card leads to no other card.
LEMMA LineOfOthers ==
    ASSUME NEW c \in Clients, NEW R, NEW Q, NEW f \in Ids \ Bodies,
           \A k \in Ids \ {f} : Q[k] = R[k],
           \A k \in Ids : R[k] # None => R[k].from \subseteq Bodies,
           NEW j \in Line(R, c), j # f
    PROVE  j \in Line(Q, c)
<1>1. ASSUME NEW S \in SUBSET Ids, Named(Q, c, S), Stable(Q, S)
      PROVE  j \in S
  <2> DEFINE T == S \cup {f}
  <2>1. T \in SUBSET Ids
    OBVIOUS
  <2>2. Named(R, c, T)
    BY <1>1 DEF Named
  <2>3. Stable(R, T)
    <3> SUFFICES ASSUME NEW k \in Ids, R[k] # None
                 PROVE  /\ R[k].from \cap T # {} => k \in T
                        /\ k \in T \cap Bodies => R[k].from \subseteq T
      BY DEF Stable
    <3>1. R[k].from \subseteq Bodies
      OBVIOUS
    <3>2. CASE k = f
      BY <3>2
    <3>3. CASE k # f
      BY <1>1, <3>1, <3>3 DEF Stable
    <3> QED
      BY <3>2, <3>3
  <2>4. j \in T
    BY <2>1, <2>2, <2>3 DEF Line
  <2> QED
    BY <2>4
<1> QED
  BY <1>1 DEF Line

\* A record that another has taken over may go.
LEMMA LineOfMerged ==
    ASSUME NEW c \in Clients, NEW R, NEW Q, NEW top \in Ids, NEW id \in Bodies, top # id,
           R[id] # None, R[top] # None => Within(R[top], R[id]), top \in R[id].from,
           Q[top] = None, \A k \in Ids \ {top} : Q[k] = R[k]
    PROVE  Line(R, c) \subseteq Line(Q, c)
<1>0. id \in Ids
  BY Names
<1>1. ASSUME NEW S \in SUBSET Ids, Named(Q, c, S), Stable(Q, S)
      PROVE  Named(R, c, S) /\ Stable(R, S)
  <2>1. Q[id] = R[id]
    BY <1>0
  <2>2. id \in S <=> top \in S
    BY <1>0, <1>1, <2>1 DEF Stable
  <2>3. Named(R, c, S)
    <3> SUFFICES ASSUME NEW k \in Ids, R[k] # None, c \in R[k].sources PROVE k \in S
      BY DEF Named
    <3>1. CASE k = top
      BY <1>0, <1>1, <2>1, <2>2, <3>1 DEF Named, Within
    <3>2. CASE k # top
      BY <1>1, <3>2 DEF Named
    <3> QED
      BY <3>1, <3>2
  <2>4. Stable(R, S)
    <3> SUFFICES ASSUME NEW k \in Ids, R[k] # None
                 PROVE  /\ R[k].from \cap S # {} => k \in S
                        /\ k \in S \cap Bodies => R[k].from \subseteq S
      BY DEF Stable
    <3>1. CASE k = top
      <4>1. R[top].from \subseteq R[id].from
        BY <3>1 DEF Within
      <4>2. /\ R[id].from \cap S # {} => id \in S
            /\ id \in S => R[id].from \subseteq S
        BY <1>0, <1>1, <2>1 DEF Stable
      <4> QED
        BY <2>2, <3>1, <4>1, <4>2
    <3>2. CASE k # top
      BY <1>1, <3>2 DEF Stable
    <3> QED
      BY <3>1, <3>2
  <2> QED
    BY <2>3, <2>4
<1> QED
  BY <1>1 DEF Line

\* A record of a set that holds what hangs by it may go: what is not of the
\* set does not hang by it.
LEMMA LineBeside ==
    ASSUME NEW c \in Clients, NEW R, NEW Q, NEW L \in SUBSET Ids, Stable(R, L), NEW i \in L,
           \A k \in Ids \ {i} : Q[k] = R[k],
           NEW j \in Line(R, c), j \notin L
    PROVE  j \in Line(Q, c)
<1>1. ASSUME NEW S \in SUBSET Ids, Named(Q, c, S), Stable(Q, S)
      PROVE  j \in S
  <2> DEFINE T == S \cup L
  <2>1. T \in SUBSET Ids
    OBVIOUS
  <2>2. Named(R, c, T)
    BY <1>1 DEF Named
  <2>3. Stable(R, T)
    <3> SUFFICES ASSUME NEW k \in Ids, R[k] # None
                 PROVE  /\ R[k].from \cap T # {} => k \in T
                        /\ k \in T \cap Bodies => R[k].from \subseteq T
      BY DEF Stable
    <3>1. /\ R[k].from \cap L # {} => k \in L
          /\ k \in L \cap Bodies => R[k].from \subseteq L
      BY DEF Stable
    <3>2. CASE k = i
      BY <3>1, <3>2
    <3>3. CASE k # i
      <4>1. /\ R[k].from \cap S # {} => k \in S
            /\ k \in S \cap Bodies => R[k].from \subseteq S
        BY <1>1, <3>3 DEF Stable
      <4> QED
        BY <3>1, <4>1
    <3> QED
      BY <3>2, <3>3
  <2>4. j \in T
    BY <2>1, <2>2, <2>3 DEF Line
  <2> QED
    BY <2>4
<1> QED
  BY <1>1 DEF Line
-----------------------------------------------------------------------------
(* Lineage                                                                 *)

\* A card of a claim is that claim, and only chunks are folded into cards or
\* have claims.
Plain ==
    /\ \A k \in Ids \ Bodies : Exists(k) => card[k].body = k
    /\ \A k \in Ids : record[k] # None => record[k].from \subseteq Bodies

\* Where no card is there is no material; a card holds material of the client
\* of its document; the record of a chunk's card names whose material it holds.
Direct ==
    /\ \A k \in Ids : ~Exists(k) => material[k] = {}
    /\ \A k \in Bodies : Exists(k) /\ card[k].doc # None => card[k].doc.client \in material[k]
    /\ \A k \in Bodies :
          Exists(k) /\ record[k] # None /\ k \notin escaped => material[k] \subseteq record[k].sources

\* What an ingest has in hand: a card that is rewritten is of the client; what
\* is merged is another chunk; a copy says no less than the records it is of.
InHand ==
    /\ ing.pc \in {"bytes", "read"} => ing.id = ing.doc.body /\ ing.top = None
    /\ ing.pc = "rewrite" /\ Exists(ing.id) => ing.doc.client \in material[ing.id]
    /\ ing.pc \in {"card", "record", "merge", "merged", "unlink", "drop"} /\ ing.top # None
          => ing.top \in Bodies /\ ing.top # ing.id
    /\ ing.pc = "record" => material[ing.id] \subseteq {ing.doc.client}
    /\ ing.pc \in {"appended", "merged"} => ing.copy.from \subseteq Bodies
    /\ ing.pc = "appended" /\ ing.top \in Bodies /\ record[ing.top] # None
          => Within(record[ing.top], ing.copy)
    /\ ing.pc = "merged" =>
          /\ ing.top \in ing.copy.from
          /\ \A k \in {ing.id, ing.top} :
                /\ record[k] # None => Within(record[k], ing.copy)
                /\ k \notin escaped => material[k] \subseteq ing.copy.sources
    /\ ing.pc = "unlink" /\ record[ing.id] # None =>
          /\ ing.top \in record[ing.id].from
          /\ record[ing.top] # None => Within(record[ing.top], record[ing.id])

\* The records lead to the card of a claim from all it was made from.
Traced ==
    \A f \in Ids \ Bodies :
        Exists(f) /\ record[f] # None /\ f \notin escaped \cup cur.cards
            => \A c \in material[f] : f \in Line(record, c)

\* A purge that no ingest ran beside: what hangs by a card that is to go is to
\* go, is gone, or was passed over; a card that is gone does not come back.
Covering ==
    cur.pc \in {"cards", "record"} /\ ~cur.beside =>
        /\ \E L \in SUBSET Ids :
              cur.cards \subseteq L /\ L \subseteq cur.cards \cup cur.purged \cup escaped /\ Stable(record, L)
        /\ \A k \in cur.purged : ~Exists(k)
        /\ cur.pc = "record" => cur.item \in cur.cards /\ ~Exists(cur.item)

ChunkInv == Plain /\ Direct /\ InHand
LineInv == Traced /\ Covering

\* What a step of the curator, a draft or a hold does to the cards: those of
\* chunks go or stay, and so do their records; a new card is a claim's.
OnCards ==
    /\ ing' = ing
    /\ \A k \in Bodies :
          /\ \/ ~Exists(k)' /\ material'[k] = {}
             \/ /\ Exists(k)' <=> Exists(k)
                /\ material'[k] = material[k]
                /\ Exists(k) => card'[k].doc = card[k].doc
          /\ record'[k] \in {record[k], None}
          /\ k \in escaped => k \in escaped'
    /\ \A k \in Ids :
          /\ ~Exists(k)' => material'[k] = {} \/ (~Exists(k) /\ material'[k] = material[k])
          /\ record'[k] # None => record'[k].from \subseteq Bodies \/ record'[k] = record[k]
    /\ \A k \in Ids \ Bodies :
          Exists(k)' => card'[k].body = k \/ (Exists(k) /\ card'[k].body = card[k].body)

\* Most steps leave cards and records alone.
LEMMA QuietOnCards ==
    ASSUME Types, UNCHANGED <<card, record, material, ing>>, escaped \subseteq escaped'
    PROVE  OnCards
BY Names DEF OnCards, Exists

\* What the other steps do.
LEMMA ApplyCardOnCards ==
    ASSUME Types, NEW p \in Keys, ApplyCard(p)
    PROVE  OnCards
<1> DEFINE f == Fact(p.claim)
           x == [doc |-> None, body |-> f, held |-> FALSE]
           m == {p.client} \cup material[p.from]
<1>1. f \in Ids /\ f \notin Bodies
  BY Names
<1>2. card \in [Ids -> Card \cup {None}] /\ material \in [Ids -> SUBSET Clients]
  BY DEF Types, CardTypes, GhostTypes
<1>3. UNCHANGED <<record, ing>> /\ escaped \subseteq escaped'
  BY DEF ApplyCard
<1>4. CASE UNCHANGED <<card, material>>
  BY <1>3, <1>4, QuietOnCards
<1>5. CASE card' = [card EXCEPT ![f] = x] /\ material' = [material EXCEPT ![f] = m]
  <2>1. x \in Card /\ x.body = f
    BY <1>1 DEF Card
  <2> HIDE DEF x, m, f
  <2>2. \A k \in Ids \ {f} : card'[k] = card[k] /\ material'[k] = material[k]
    BY <1>2, <1>5
  <2>3. card'[f] = x /\ x # None
    BY <1>1, <1>2, <1>5, <2>1, Absent
  <2> QED
    BY <1>1, <1>3, <2>1, <2>2, <2>3, Names DEF OnCards, Exists
<1> QED
  BY <1>4, <1>5 DEF ApplyCard

\* The record of a claim's card.
LEMMA ApplyRecordOnCards ==
    ASSUME Types, ApplyRecord
    PROVE  OnCards
<1> DEFINE f == Fact(cur.claim.claim)
           r == [sources |-> {}, from |-> {cur.claim.from}]
<1>1. f \in Ids /\ f \notin Bodies /\ cur.claim.from \in Bodies
  BY Names DEF ApplyRecord, Types, CurTypes
<1>2. record \in [Ids -> Record \cup {None}]
  BY DEF Types, RecordTypes
<1>3. UNCHANGED <<card, material, ing>> /\ escaped \ {f} \subseteq escaped'
  BY DEF ApplyRecord
<1>4. record' = [record EXCEPT ![f] = r]
  BY DEF ApplyRecord
<1>5. r.from \subseteq Bodies
  BY <1>1
<1> HIDE DEF r, f
<1>6. \A k \in Ids : record'[k] = IF k = f THEN r ELSE record[k]
  BY <1>2, <1>4
<1> QED
  BY <1>1, <1>3, <1>5, <1>6, Names DEF OnCards, Exists

\* A card that goes.
LEMMA PurgeCardOnCards ==
    ASSUME Types, NEW k \in Ids, PurgeCard(k)
    PROVE  OnCards
<1>1. card \in [Ids -> Card \cup {None}] /\ material \in [Ids -> SUBSET Clients]
  BY DEF Types, CardTypes, GhostTypes
<1>2. UNCHANGED <<record, ing>> /\ escaped \subseteq escaped'
  BY DEF PurgeCard, PurgeDies
<1>3. CASE UNCHANGED <<card, material>>
  BY <1>2, <1>3, QuietOnCards
<1>4. CASE card' = [card EXCEPT ![k] = None] /\ material' = [material EXCEPT ![k] = {}]
  <2>1. \A j \in Ids \ {k} : card'[j] = card[j] /\ material'[j] = material[j]
    BY <1>1, <1>4
  <2>2. card'[k] = None /\ material'[k] = {}
    BY <1>1, <1>4
  <2> QED
    BY <1>2, <2>1, <2>2, Names DEF OnCards, Exists
<1> QED
  BY <1>3, <1>4 DEF PurgeCard

\* A record that goes.
LEMMA PurgeRecordOnCards ==
    ASSUME Types, PurgeRecord
    PROVE  OnCards
<1>1. record \in [Ids -> Record \cup {None}]
  BY DEF Types, RecordTypes
<1>2. UNCHANGED <<card, material, ing>> /\ escaped \subseteq escaped'
      /\ record' = [record EXCEPT ![cur.item] = None]
  BY DEF PurgeRecord, PurgeDies
<1>3. \A k \in Ids : record'[k] \in {record[k], None}
  BY <1>1, <1>2
<1> QED
  BY <1>2, <1>3, Names DEF OnCards, Exists

\* A hold.
LEMMA HoldOnCards ==
    ASSUME Types, NEW k \in Ids, Hold(k)
    PROVE  OnCards
<1> DEFINE x == [card[k] EXCEPT !.held = TRUE]
<1>1. card \in [Ids -> Card \cup {None}] /\ card[k] \in Card
  BY DEF Hold, Exists, Types, CardTypes
<1>2. UNCHANGED <<record, material, escaped, ing>> /\ card' = [card EXCEPT ![k] = x] /\ Exists(k)
  BY DEF Hold, ghosts
<1>3. x \in Card /\ x.doc = card[k].doc /\ x.body = card[k].body
  BY <1>1 DEF Card
<1> HIDE DEF x
<1>4. card'[k] = x /\ x # None /\ \A j \in Ids \ {k} : card'[j] = card[j]
  BY <1>1, <1>2, <1>3, Absent
<1> QED
  BY <1>2, <1>3, <1>4, Names DEF OnCards, Exists

\* All of them.
LEMMA OthersOnCards ==
    ASSUME Types, Curate \/ (\E k \in Ids : Draft(k)) \/ \E k \in Ids : Hold(k)
    PROVE  OnCards
<1>1. ASSUME \/ MergeStart \/ Decide \/ (\E p \in Keys : Reject(p)) \/ \E c \in Clients : PurgeStart(c)
             \/ (\E k \in Ids : PurgeHeld(k)) \/ PurgeSourcesStart \/ \E d \in Docs : PurgeSource(d)
             \/ PurgeOrphans \/ (\E p \in Keys : PurgeVoid(p)) \/ PurgeDraftsStart
             \/ (\E d \in drafts : PurgeDraft(d)) \/ Sweep \/ CuratorCrash
             \/ \E k \in Ids : Draft(k)
      PROVE  OnCards
  <2>1. UNCHANGED <<card, record, material, ing>> /\ escaped \subseteq escaped'
    BY <1>1 DEF MergeStart, Decide, Reject, PurgeStart, PurgeHeld, PurgeSourcesStart, PurgeSource,
       PurgeOrphans, PurgeVoid, PurgeDraftsStart, PurgeDraft, Sweep, CuratorCrash, PurgeDies, Draft,
       files, ghosts
  <2> QED
    BY <2>1, QuietOnCards
<1> QED
  BY <1>1, ApplyCardOnCards, ApplyRecordOnCards, PurgeCardOnCards, PurgeRecordOnCards, HoldOnCards
     DEF Curate

\* None of them touches what an ingest relies on.
LEMMA ChunkOthers ==
    ASSUME Types, ChunkInv, OnCards
    PROVE  ChunkInv'
<1>1. Bodies \subseteq Ids
  BY Names
<1>2. Plain'
  BY DEF ChunkInv, Plain, OnCards
<1>3. Direct'
  <2>1. \A k \in Ids : ~Exists(k)' => material'[k] = {}
    BY DEF ChunkInv, Direct, OnCards
  <2>2. ASSUME NEW k \in Bodies, Exists(k)'
        PROVE  Exists(k) /\ material'[k] = material[k] /\ card'[k].doc = card[k].doc
    BY <1>1, <2>2, <2>1 DEF OnCards
  <2>3. \A k \in Bodies : record'[k] # None => record'[k] = record[k]
    BY DEF OnCards
  <2>4. \A k \in Bodies : k \in escaped => k \in escaped'
    BY DEF OnCards
  <2> QED
    BY <2>1, <2>2, <2>3, <2>4 DEF ChunkInv, Direct, Exists
<1>4. InHand'
  <2>1. ing' = ing
    BY DEF OnCards
  <2>2. ASSUME NEW k \in Bodies
        PROVE  /\ Exists(k)' => Exists(k) /\ material'[k] = material[k]
               /\ material'[k] \subseteq material[k]
               /\ record'[k] # None => record'[k] = record[k]
               /\ k \in escaped => k \in escaped'
    <3>1. ~Exists(k)' => material'[k] = {}
      BY <1>1 DEF ChunkInv, Direct, OnCards
    <3> QED
      BY <3>1 DEF OnCards
  <2>3. /\ ing.pc # "idle" => ing.id \in Bodies
        /\ ing.pc \in {"merge", "merged", "unlink", "drop"} => ing.top \in Bodies
    BY Absent DEF Types, IngTypes, ChunkInv, InHand
  <2> USE <2>1, <2>2, <2>3 DEF ChunkInv, InHand
  <2>4. ing.pc = "rewrite" /\ Exists(ing.id)' => ing.doc.client \in material'[ing.id]
    OBVIOUS
  <2>5. ing.pc = "record" => material'[ing.id] \subseteq {ing.doc.client}
    OBVIOUS
  <2>6. ing.pc = "appended" /\ ing.top \in Bodies /\ record'[ing.top] # None
          => Within(record'[ing.top], ing.copy)
    OBVIOUS
  <2>7. ing.pc = "merged" =>
          /\ ing.top \in ing.copy.from
          /\ \A k \in {ing.id, ing.top} :
                /\ record'[k] # None => Within(record'[k], ing.copy)
                /\ k \notin escaped' => material'[k] \subseteq ing.copy.sources
    OBVIOUS
  <2>8. ing.pc = "unlink" /\ record'[ing.id] # None =>
          /\ ing.top \in record'[ing.id].from
          /\ record'[ing.top] # None => Within(record'[ing.top], record'[ing.id])
    OBVIOUS
  <2> QED
    BY <2>4, <2>5, <2>6, <2>7, <2>8 DEF Exists, Within
<1> QED
  BY <1>2, <1>3, <1>4 DEF ChunkInv

\* Nothing is stored.
LEMMA ChunkInit == Init => ChunkInv
BY Names DEF Init, ChunkInv, Plain, Direct, InHand, Exists, NoIngest

\* Steps that leave cards and records alone keep what is said of them.
LEMMA CardsStay ==
    ASSUME Plain, Direct, UNCHANGED <<card, record, material, escaped>>
    PROVE  Plain' /\ Direct'
BY DEF Plain, Direct, Exists

\* The steps before the store is read.
LEMMA ChunkEarly ==
    ASSUME Types, ChunkInv,
           (\E d \in Docs : IngestStart(d)) \/ WriteBytes \/ IngestBlocked \/ OpenClaim \/ IngestCrash
    PROVE  ChunkInv'
<1>1. UNCHANGED <<card, record, material, escaped>>
  BY DEF IngestStart, WriteBytes, IngestBlocked, OpenClaim, IngestCrash, files, ghosts
<1>2. ing \in IngRecs
  BY DEF Types, IngTypes
<1>3. /\ ing'.pc \in {"idle", "bytes", "read"}
      /\ ing'.pc \in {"bytes", "read"} => ing'.id = ing'.doc.body /\ ing'.top = None
  <2>1. ASSUME NEW d \in Docs, IngestStart(d)
        PROVE  ing'.pc = "bytes" /\ ing'.id = ing'.doc.body /\ ing'.top = None
    BY <2>1 DEF IngestStart, NoIngest
  <2>2. ASSUME WriteBytes PROVE ing'.pc = "read" /\ ing'.id = ing'.doc.body /\ ing'.top = None
    BY <1>2, <2>2 DEF WriteBytes, Goto, IngRecs, ChunkInv, InHand
  <2>3. ASSUME IngestBlocked \/ OpenClaim \/ IngestCrash PROVE ing'.pc = "idle"
    BY <2>3, IngStops DEF IngestBlocked, OpenClaim, IngestCrash, Stop
  <2> QED
    BY <2>1, <2>2, <2>3
<1>4. InHand'
  BY <1>3 DEF InHand
<1> QED
  BY <1>1, <1>4, CardsStay DEF ChunkInv

\* A candidate goes to a prior card of the client, to a card of its own, or
\* beside another chunk's.
LEMMA ChunkSettle ==
    ASSUME Types, ChunkInv, Settle
    PROVE  ChunkInv'
<1>1. UNCHANGED <<card, record, material, escaped>>
  BY DEF Settle
<1>2. /\ ing \in IngRecs /\ ing.pc = "read" /\ ing.doc \in Docs /\ ing.id \in Bodies
      /\ ing.doc.body \in Bodies
  BY Names DEF Settle, Types, IngTypes
<1>3. ASSUME NEW k \in Priors
      PROVE  Exists(k) /\ (k \in Bodies => ing.doc.client \in material[k])
  <2>1. k \in Ids /\ Exists(k) /\ card[k].doc \in Docs /\ card[k].doc.client = ing.doc.client
    BY <1>2 DEF Priors, Types, FileTypes
  <2> QED
    BY <2>1, Absent DEF ChunkInv, Direct
<1>4. ASSUME NEW t \in TopCards PROVE Exists(t) /\ t \in Bodies
  <2>1. t \in Ids /\ Exists(t) /\ Near(Duplicates, ing.doc.body, card[t].body)
    BY DEF TopCards
  <2>2. t \notin Bodies => card[t].body = t
    BY <2>1 DEF ChunkInv, Plain
  <2> QED
    BY <1>2, <2>1, <2>2, DuplicateAssumption DEF Near
<1>5. /\ ing' \in Home(ing.doc.body)
  BY DEF Settle
<1>6. \/ \E k \in Ids : ing' = [ing EXCEPT !.pc = "claim", !.id = k]
      \/ \E k \in Drifted : ing' = [ing EXCEPT !.pc = "rewrite", !.id = k]
      \/ \E t \in Ids, b \in BOOLEAN : ing' = [ing EXCEPT !.pc = "append", !.top = t, !.absorb = b]
      \/ \E t \in Ids : ing' = [ing EXCEPT !.pc = "append", !.top = t]
      \/ ~Exists(ing.doc.body) /\ ing' = [ing EXCEPT !.pc = "card"]
      \/ ~Exists(ing.doc.body) /\ \E t \in TopCards : ing' = [ing EXCEPT !.pc = "card", !.top = t]
  <2>1. CASE Matched # {}
    <3>1. Matched \subseteq Ids
      BY <1>2, Names DEF Matched, Priors
    <3> QED
      BY <1>5, <2>1, <3>1 DEF Home
  <2>2. CASE Matched = {} /\ Exists(ing.doc.body)
    BY <1>2, <1>5, <2>2, Names DEF Home
  <2>3. CASE Matched = {} /\ ~Exists(ing.doc.body)
    <3>1. ing.owner # None => ing.owner \in Ids
      BY <1>2 DEF IngRecs
    <3>2. TopCards \subseteq Ids
      BY DEF TopCards
    <3> QED
      BY <1>5, <2>3, <3>1, <3>2 DEF Home
  <2> QED
    BY <2>1, <2>2, <2>3
<1>7. InHand'
  <2>1. ASSUME NEW k, NEW s \in {"claim", "rewrite"}, k \in Ids,
               ing' = [ing EXCEPT !.pc = s, !.id = k],
               s = "rewrite" => k \in Drifted
        PROVE  InHand'
    <3>1. ing'.pc = s /\ ing'.doc = ing.doc /\ ing'.id = k
      BY <1>2, <2>1 DEF IngRecs
    <3> QED
      BY <1>1, <1>3, <2>1, <3>1 DEF InHand, Drifted, Exists
  <2>2. ASSUME NEW t, NEW b, ing' = [ing EXCEPT !.pc = "append", !.top = t, !.absorb = b]
        PROVE  InHand'
    <3>1. ing'.pc = "append"
      BY <1>2, <2>2 DEF IngRecs
    <3> QED
      BY <3>1 DEF InHand
  <2>3. ASSUME NEW t, ing' = [ing EXCEPT !.pc = "append", !.top = t]
        PROVE  InHand'
    <3>1. ing'.pc = "append"
      BY <1>2, <2>3 DEF IngRecs
    <3> QED
      BY <3>1 DEF InHand
  <2>4. ASSUME NEW t \in Ids, ing' = [ing EXCEPT !.pc = "card", !.top = t], t \in TopCards,
               ~Exists(ing.doc.body)
        PROVE  InHand'
    <3>1. ing'.pc = "card" /\ ing'.top = t /\ ing'.id = ing.id
      BY <1>2, <2>4 DEF IngRecs
    <3> QED
      BY <1>1, <1>2, <1>4, <2>4, <3>1 DEF InHand, ChunkInv
  <2>5. ASSUME ing' = [ing EXCEPT !.pc = "card"] PROVE InHand'
    <3>1. ing'.pc = "card" /\ ing'.top = None
      BY <1>2, <2>5 DEF IngRecs, ChunkInv, InHand
    <3> QED
      BY <3>1 DEF InHand
  <2> QED
    <3>1. ASSUME NEW t \in TopCards, ~Exists(ing.doc.body), ing' = [ing EXCEPT !.pc = "card", !.top = t]
          PROVE  InHand'
      BY <2>4, <3>1 DEF TopCards
    <3>2. ASSUME NEW k \in Drifted, ing' = [ing EXCEPT !.pc = "rewrite", !.id = k] PROVE InHand'
      BY <2>1, <3>2, Names DEF Drifted
    <3> QED
      BY <1>6, <2>1, <2>2, <2>3, <2>5, <3>1, <3>2
<1> QED
  BY <1>1, <1>7, CardsStay DEF ChunkInv

\* A prior card of the client takes the new document over.
LEMMA ChunkRewrite ==
    ASSUME Types, ChunkInv, RewriteCard
    PROVE  ChunkInv'
<1>1. /\ ing \in IngRecs /\ ing.doc \in Docs /\ ing.id \in Bodies /\ ing.id \in Ids
      /\ ing.pc = "rewrite"
  BY Names DEF RewriteCard, Types, IngTypes
<1>2. UNCHANGED <<record, escaped>>
  BY DEF RewriteCard
<1>3. CASE UNCHANGED <<card, material>> /\ Stop
  BY <1>2, <1>3, CardsStay, IngStops DEF Stop, ChunkInv, InHand
<1>4. CASE /\ Exists(ing.id)
           /\ card' = [card EXCEPT ![ing.id].doc = ing.doc, ![ing.id].body = ing.doc.body]
           /\ material' = [material EXCEPT ![ing.id] = @ \cup {ing.doc.client}]
           /\ ing' = [ing EXCEPT !.pc = "append", !.top = ing.id]
  <2> DEFINE x == [card[ing.id] EXCEPT !.doc = ing.doc, !.body = ing.doc.body]
             m == material[ing.id] \cup {ing.doc.client}
  <2>1. card \in [Ids -> Card \cup {None}] /\ material \in [Ids -> SUBSET Clients]
        /\ card[ing.id] \in Card
    BY <1>1, <1>4 DEF Types, CardTypes, GhostTypes, Exists
  <2>2. x \in Card /\ x.doc = ing.doc
    BY <1>1, <2>1, Names DEF Card
  <2>3. \A k \in Ids : card'[k] = IF k = ing.id THEN x ELSE card[k]
    BY <1>1, <1>4, <2>1
  <2>4. m = material[ing.id]
    BY <1>1, <1>4 DEF ChunkInv, InHand
  <2>5. \A k \in Ids : material'[k] = IF k = ing.id THEN m ELSE material[k]
    BY <1>1, <1>4, <2>1
  <2>6. ing.doc.client \in m
    OBVIOUS
  <2> HIDE DEF x, m
  <2>7. x # None
    BY <2>2, Absent
  <2>8. Plain'
    BY <1>1, <1>2, <2>3 DEF ChunkInv, Plain, Exists
  <2>9. Direct'
    <3>1. \A k \in Ids : material'[k] = material[k] /\ (Exists(k)' <=> Exists(k))
      BY <1>4, <2>3, <2>4, <2>5, <2>7 DEF Exists
    <3>2. \A k \in Bodies : Exists(k)' /\ card'[k].doc # None => card'[k].doc.client \in material'[k]
      BY <2>2, <2>3, <2>5, <2>6, Names DEF ChunkInv, Direct, Exists
    <3> QED
      BY <1>2, <3>1, <3>2, Names DEF ChunkInv, Direct
  <2>10. ing'.pc = "append"
    BY <1>1, <1>4 DEF IngRecs
  <2> QED
    BY <2>8, <2>9, <2>10 DEF ChunkInv, InHand
<1> QED
  BY <1>3, <1>4 DEF RewriteCard

\* A copy of a record says what the record says, and names the client.
LEMMA ChunkAppendRead ==
    ASSUME Types, ChunkInv, AppendRead
    PROVE  ChunkInv'
<1>1. /\ ing \in IngRecs /\ ing.doc \in Docs /\ ing.doc.body \in Bodies /\ ing.top \in Ids
      /\ ing.pc = "append"
  BY Names DEF AppendRead, Types, IngTypes
<1>2. UNCHANGED <<card, record, material, escaped>>
  BY DEF AppendRead, files, ghosts
<1>3. InHand'
  <2>1. CASE Stop
    BY <2>1, IngStops DEF Stop, InHand
  <2>2. CASE record[ing.top] # None
             /\ ing' = [ing EXCEPT !.pc = "appended", !.copy = Appended(record[ing.top])]
    <3> DEFINE r == Appended(record[ing.top])
    <3>1. Within(record[ing.top], r) /\ r.from \subseteq Bodies
      BY <1>1, <2>2 DEF Appended, Within, ChunkInv, Plain
    <3> HIDE DEF r
    <3>2. ing'.pc = "appended" /\ ing'.top = ing.top /\ ing'.copy = r
      BY <1>1, <2>2 DEF IngRecs, r
    <3> QED
      BY <1>2, <3>1, <3>2 DEF InHand
  <2> QED
    BY <2>1, <2>2 DEF AppendRead
<1> QED
  BY <1>2, <1>3, CardsStay DEF ChunkInv

\* The copy is written back; a card minted since the read is passed over.
LEMMA ChunkAppendWrite ==
    ASSUME Types, ChunkInv, AppendWrite
    PROVE  ChunkInv'
<1>1. /\ ing \in IngRecs /\ ing.doc \in Docs /\ ing.top \in Ids /\ ing.pc = "appended"
      /\ ing.copy \in Record /\ ing.copy.from \subseteq Bodies
  BY DEF AppendWrite, Types, IngTypes, ChunkInv, InHand
<1>2. card' = card /\ escaped \subseteq escaped'
  BY DEF AppendWrite
<1>3. record \in [Ids -> Record \cup {None}] /\ material \in [Ids -> SUBSET Clients]
  BY DEF Types, RecordTypes, GhostTypes
<1>4. \A k \in Ids : record'[k] = IF k = ing.top THEN ing.copy ELSE record[k]
  BY <1>1, <1>3 DEF AppendWrite
<1>5. \A k \in Ids : material'[k] = IF k = ing.top /\ Exists(k)
                                    THEN material[k] \cup {ing.doc.client} ELSE material[k]
  BY <1>1, <1>3 DEF AppendWrite
<1>6. Plain'
  BY <1>1, <1>2, <1>4 DEF ChunkInv, Plain, Exists
<1>7. Direct'
  <2>1. ASSUME NEW k \in Bodies, Exists(k), record'[k] # None, k \notin escaped'
        PROVE  material'[k] \subseteq record'[k].sources
    <3>0. k \in Ids
      BY Names
    <3>1. CASE k # ing.top
      BY <1>2, <1>4, <1>5, <2>1, <3>0, <3>1 DEF ChunkInv, Direct
    <3>2. CASE k = ing.top
      <4>1. record[k] # None /\ ing.copy = Appended(record[k])
        BY <2>1, <3>2 DEF AppendWrite
      <4>2. material[k] \subseteq record[k].sources
        BY <1>2, <2>1, <4>1 DEF ChunkInv, Direct
      <4>3. record[k].sources \cup {ing.doc.client} \subseteq ing.copy.sources
        BY <4>1 DEF Appended
      <4> QED
        BY <1>4, <1>5, <3>0, <3>2, <4>2, <4>3
    <3> QED
      BY <3>1, <3>2
  <2>2. \A k \in Ids : material[k] \subseteq material'[k] /\ (~Exists(k) => material'[k] = material[k])
    BY <1>5
  <2> QED
    BY <1>2, <2>1, <2>2, Names DEF ChunkInv, Direct, Exists
<1>8. ing'.pc = "claim"
  BY <1>1 DEF AppendWrite, Goto, IngRecs
<1> QED
  BY <1>6, <1>7, <1>8 DEF ChunkInv, InHand

\* The public half of a new card.
LEMMA ChunkWriteCard ==
    ASSUME Types, ChunkInv, WriteCard
    PROVE  ChunkInv'
<1>1. /\ ing \in IngRecs /\ ing.doc \in Docs /\ ing.id \in Bodies /\ ing.id \in Ids
      /\ ing.pc = "card"
  BY Names DEF WriteCard, Types, IngTypes
<1> DEFINE x == [doc |-> ing.doc, body |-> ing.id, held |-> FALSE]
<1>2. x \in Card /\ x.doc = ing.doc
  BY <1>1 DEF Card
<1>3. card \in [Ids -> Card \cup {None}] /\ material \in [Ids -> SUBSET Clients]
  BY DEF Types, CardTypes, GhostTypes
<1>4. /\ card' = [card EXCEPT ![ing.id] = x] /\ record' = record
      /\ material' = [material EXCEPT ![ing.id] = {ing.doc.client}]
  BY DEF WriteCard
<1> HIDE DEF x
<1>5. \A k \in Ids : card'[k] = IF k = ing.id THEN x ELSE card[k]
  BY <1>1, <1>3, <1>4
<1>6. \A k \in Ids : material'[k] = IF k = ing.id THEN {ing.doc.client} ELSE material[k]
  BY <1>1, <1>3, <1>4
<1>7. /\ \A k \in Ids \ {ing.id} : k \in escaped => k \in escaped'
      /\ record[ing.id] # None => ing.id \in escaped'
  BY <1>1 DEF WriteCard, Recorded
<1>8. x # None
  BY <1>2, Absent
<1>9. Plain'
  BY <1>1, <1>4, <1>5 DEF ChunkInv, Plain, Exists
<1>10. Direct'
  <2>1. ASSUME NEW k \in Ids
        PROVE  /\ ~Exists(k)' => material'[k] = {}
               /\ k \in Bodies /\ Exists(k)' /\ card'[k].doc # None
                    => card'[k].doc.client \in material'[k]
               /\ k \in Bodies /\ Exists(k)' /\ record'[k] # None /\ k \notin escaped'
                    => material'[k] \subseteq record'[k].sources
    <3>1. CASE k = ing.id
      BY <1>2, <1>4, <1>5, <1>6, <1>7, <1>8, <3>1 DEF Exists
    <3>2. CASE k # ing.id
      BY <1>4, <1>5, <1>6, <1>7, <3>2 DEF ChunkInv, Direct, Exists
    <3> QED
      BY <3>1, <3>2
  <2> QED
    BY <2>1, Names DEF Direct
<1>11. /\ ing'.pc = "record" /\ ing'.id = ing.id /\ ing'.doc = ing.doc /\ ing'.top = ing.top
  BY <1>1 DEF WriteCard, Goto, IngRecs
<1>12. InHand'
  BY <1>1, <1>6, <1>11 DEF ChunkInv, InHand
<1> QED
  BY <1>9, <1>10, <1>12 DEF ChunkInv

\* Its record names the client.
LEMMA ChunkWriteRecord ==
    ASSUME Types, ChunkInv, WriteRecord
    PROVE  ChunkInv'
<1>1. /\ ing \in IngRecs /\ ing.doc \in Docs /\ ing.id \in Bodies /\ ing.id \in Ids
      /\ ing.pc = "record"
  BY Names DEF WriteRecord, Types, IngTypes
<1> DEFINE r == [sources |-> {ing.doc.client}, from |-> {}]
<1>2. record \in [Ids -> Record \cup {None}]
  BY DEF Types, RecordTypes
<1>3. UNCHANGED <<card, material>> /\ record' = [record EXCEPT ![ing.id] = r]
  BY DEF WriteRecord
<1>4. r.sources = {ing.doc.client} /\ r.from = {}
  OBVIOUS
<1> HIDE DEF r
<1>5. \A k \in Ids : record'[k] = IF k = ing.id THEN r ELSE record[k]
  BY <1>1, <1>2, <1>3
<1>6. \A k \in Ids \ {ing.id} : k \in escaped => k \in escaped'
  BY DEF WriteRecord
<1>7. material[ing.id] \subseteq r.sources
  BY <1>1, <1>4 DEF ChunkInv, InHand
<1>8. Plain'
  BY <1>3, <1>4, <1>5 DEF ChunkInv, Plain, Exists
<1>9. Direct'
  <2>1. ASSUME NEW k \in Bodies, Exists(k), record'[k] # None, k \notin escaped'
        PROVE  material[k] \subseteq record'[k].sources
    <3>0. k \in Ids
      BY Names
    <3>1. CASE k = ing.id
      BY <1>5, <1>7, <3>0, <3>1
    <3>2. CASE k # ing.id
      BY <1>5, <1>6, <2>1, <3>0, <3>2 DEF ChunkInv, Direct
    <3> QED
      BY <3>1, <3>2
  <2> QED
    BY <1>3, <2>1 DEF ChunkInv, Direct, Exists
<1>10. ing'.pc \in {"claim", "merge"} /\ ing'.top = ing.top /\ ing'.id = ing.id
  BY <1>1 DEF WriteRecord, Goto, IngRecs
<1>11. InHand'
  BY <1>1, <1>10 DEF ChunkInv, InHand
<1> QED
  BY <1>8, <1>9, <1>11 DEF ChunkInv

\* What is to be written says what both records say.
LEMMA ChunkMergeRead ==
    ASSUME Types, ChunkInv, MergeRead
    PROVE  ChunkInv'
<1>1. /\ ing \in IngRecs /\ ing.id \in Bodies /\ ing.top \in Ids /\ ing.pc = "merge"
      /\ ing.top \in Bodies /\ ing.top # ing.id /\ ing.id \in Ids
  BY Names, Absent DEF MergeRead, Types, IngTypes, ChunkInv, InHand
<1>2. UNCHANGED <<card, record, material, escaped>>
  BY DEF MergeRead, files, ghosts
<1>3. InHand'
  <2>1. CASE Stop
    BY <2>1, IngStops DEF Stop, InHand
  <2>2. CASE /\ record[ing.top] # None /\ record[ing.id] # None
             /\ ing' = [ing EXCEPT !.pc = "merged",
                                   !.copy = Folded(record[ing.top], record[ing.id])]
    <3> DEFINE r == Folded(record[ing.top], record[ing.id])
    <3>1. /\ Within(record[ing.top], r) /\ Within(record[ing.id], r) /\ ing.top \in r.from
      BY DEF Folded, Within
    <3>2. r.from \subseteq Bodies
      BY <1>1, <2>2 DEF Folded, ChunkInv, Plain
    <3>3. \A k \in {ing.id, ing.top} : k \notin escaped => material[k] \subseteq r.sources
      <4>1. \A k \in {ing.id, ing.top} : k \notin escaped => material[k] \subseteq record[k].sources
        BY <1>1, <2>2 DEF ChunkInv, Direct
      <4> QED
        BY <3>1, <4>1 DEF Within
    <3> HIDE DEF r
    <3>4. ing'.pc = "merged" /\ ing'.top = ing.top /\ ing'.id = ing.id /\ ing'.copy = r
      BY <1>1, <2>2 DEF IngRecs, r
    <3> QED
      BY <1>1, <1>2, <3>1, <3>2, <3>3, <3>4 DEF InHand
  <2> QED
    BY <2>1, <2>2 DEF MergeRead
<1> QED
  BY <1>2, <1>3, CardsStay DEF ChunkInv

\* The survivor names whose material it takes over.
LEMMA ChunkMergeWrite ==
    ASSUME Types, ChunkInv, MergeWrite
    PROVE  ChunkInv'
<1>1. /\ ing \in IngRecs /\ ing.id \in Bodies /\ ing.top \in Ids /\ ing.pc = "merged"
      /\ ing.top \in Bodies /\ ing.top # ing.id /\ ing.id \in Ids
      /\ ing.copy \in Record /\ ing.copy.from \subseteq Bodies
  BY Names, Absent DEF MergeWrite, Types, IngTypes, ChunkInv, InHand
<1>2. card' = card /\ escaped \subseteq escaped' /\ (ing.top \in escaped => ing.id \in escaped')
  BY DEF MergeWrite
<1>3. record \in [Ids -> Record \cup {None}] /\ material \in [Ids -> SUBSET Clients]
  BY DEF Types, RecordTypes, GhostTypes
<1>4. \A k \in Ids : record'[k] = IF k = ing.id THEN ing.copy ELSE record[k]
  BY <1>1, <1>3 DEF MergeWrite
<1>5. \A k \in Ids : material'[k] = IF k = ing.id /\ Exists(k)
                                    THEN material[k] \cup material[ing.top] ELSE material[k]
  BY <1>1, <1>3 DEF MergeWrite
<1>6. Plain'
  BY <1>1, <1>2, <1>4 DEF ChunkInv, Plain, Exists
<1>7. Direct'
  <2>1. ASSUME NEW k \in Bodies, Exists(k), record'[k] # None, k \notin escaped'
        PROVE  material'[k] \subseteq record'[k].sources
    <3>0. k \in Ids
      BY Names
    <3>1. CASE k # ing.id
      BY <1>2, <1>4, <1>5, <2>1, <3>0, <3>1 DEF ChunkInv, Direct
    <3>2. CASE k = ing.id
      <4>1. k \notin escaped /\ ing.top \notin escaped
        BY <1>2, <2>1, <3>2
      <4>2. material[k] \subseteq ing.copy.sources /\ material[ing.top] \subseteq ing.copy.sources
        BY <1>1, <3>2, <4>1 DEF ChunkInv, InHand
      <4> QED
        BY <1>4, <1>5, <3>0, <3>2, <4>2
    <3> QED
      BY <3>1, <3>2
  <2>2. \A k \in Ids : material[k] \subseteq material'[k] /\ (~Exists(k) => material'[k] = material[k])
    BY <1>5
  <2> QED
    BY <1>2, <2>1, <2>2, Names DEF ChunkInv, Direct, Exists
<1>8. ing'.pc = "unlink" /\ ing'.id = ing.id /\ ing'.top = ing.top
  BY <1>1 DEF MergeWrite, Goto, IngRecs
<1>9. InHand'
  BY <1>1, <1>4, <1>8 DEF ChunkInv, InHand
<1> QED
  BY <1>6, <1>7, <1>9 DEF ChunkInv

\* The record and then the card that were taken over go.
LEMMA ChunkMergeEnds ==
    ASSUME Types, ChunkInv, MergeUnlink \/ DropCard
    PROVE  ChunkInv'
<1>1. /\ ing \in IngRecs /\ ing.id \in Bodies /\ ing.top \in Ids /\ ing.pc \in {"unlink", "drop"}
      /\ ing.top \in Bodies /\ ing.top # ing.id
  BY Absent DEF MergeUnlink, DropCard, Types, IngTypes, ChunkInv, InHand
<1>2. /\ card \in [Ids -> Card \cup {None}] /\ record \in [Ids -> Record \cup {None}]
      /\ material \in [Ids -> SUBSET Clients]
  BY DEF Types, CardTypes, RecordTypes, GhostTypes
<1>3. CASE MergeUnlink
  <2>1. UNCHANGED <<card, material>> /\ escaped \subseteq escaped'
    BY <1>3 DEF MergeUnlink
  <2>2. \A k \in Ids : record'[k] \in {record[k], None}
    BY <1>1, <1>2, <1>3 DEF MergeUnlink
  <2>3. Plain' /\ Direct'
    BY <2>1, <2>2, Names DEF ChunkInv, Plain, Direct, Exists
  <2>4. ing'.pc \in {"idle", "drop"} /\ (ing'.pc = "drop" => ing'.top = ing.top /\ ing'.id = ing.id)
    BY <1>1, <1>3, IngStops DEF MergeUnlink, Stop, Goto, IngRecs
  <2>5. InHand'
    BY <1>1, <2>4 DEF InHand
  <2> QED
    BY <2>3, <2>5 DEF ChunkInv
<1>4. CASE DropCard
  <2>1. UNCHANGED <<record, escaped>>
    BY <1>4 DEF DropCard
  <2>2. \A k \in Ids : /\ card'[k] = IF k = ing.top THEN None ELSE card[k]
                       /\ material'[k] = IF k = ing.top THEN {} ELSE material[k]
    BY <1>1, <1>2, <1>4 DEF DropCard
  <2>3. Plain' /\ Direct'
    BY <2>1, <2>2, Names DEF ChunkInv, Plain, Direct, Exists
  <2>4. ing'.pc \in {"idle", "claim"}
    BY <1>1, <1>4, IngStops DEF DropCard, Stop, Goto, IngRecs
  <2>5. InHand'
    BY <2>4 DEF InHand
  <2> QED
    BY <2>3, <2>5 DEF ChunkInv
<1> QED
  BY <1>3, <1>4

\* Every action keeps it.
LEMMA ChunkStep == ASSUME Types, ChunkInv, [Next]_vars PROVE ChunkInv'
<1>1. CASE UNCHANGED vars
  BY <1>1 DEF vars, files, ghosts, ChunkInv, Plain, Direct, InHand, Exists
<1>2. CASE Ingest
  BY <1>2, ChunkEarly, ChunkSettle, ChunkRewrite, ChunkAppendRead, ChunkAppendWrite,
     ChunkWriteCard, ChunkWriteRecord, ChunkMergeRead, ChunkMergeWrite, ChunkMergeEnds DEF Ingest
<1>3. CASE Curate \/ (\E k \in Ids : Draft(k)) \/ \E k \in Ids : Hold(k)
  BY <1>3, OthersOnCards, ChunkOthers
<1> QED
  BY <1>1, <1>2, <1>3 DEF Next

\* What it takes to keep Traced over a step.
LEMMA TracedOn ==
    ASSUME Traced,
           \A f \in Ids \ Bodies :
              Exists(f)' /\ record'[f] # None /\ f \notin escaped' \cup cur'.cards
                => /\ Exists(f) /\ record[f] # None /\ f \notin escaped \cup cur.cards
                   /\ \A c \in material'[f] : c \in material[f]
                   /\ \A c \in material[f] : f \in Line(record, c) => f \in Line(record', c)
    PROVE  Traced'
BY DEF Traced

\* Steps that leave the cards of claims and all records alone keep it.
LEMMA TracedQuiet ==
    ASSUME Traced, record' = record, cur.cards = cur'.cards,
           \A f \in Ids \ Bodies : /\ card'[f] = card[f] /\ material'[f] = material[f]
                                   /\ f \in escaped => f \in escaped'
    PROVE  Traced'
BY DEF Traced, Exists

\* A step that remembers what it cuts off keeps it.
LEMMA TracedCut ==
    ASSUME Types, RecordTypes', Traced, UNCHANGED <<card, material>>, Cut \subseteq escaped',
           cur'.cards \subseteq cur.cards,
           \A f \in Ids \ Bodies : /\ f \in escaped => f \in escaped'
                                   /\ record'[f] # None => record[f] # None
                                   /\ f \in cur.cards \ cur'.cards => record'[f] = None
    PROVE  Traced'
<1>1. ASSUME NEW f \in Ids \ Bodies, f \notin escaped', NEW c \in material[f], f \in Line(record, c)
      PROVE  f \in Line(record', c)
  <2>1. c \in Clients
    BY <1>1 DEF Types, GhostTypes
  <2>2. f \notin Lineage(c) \ Lineage(c)'
    BY <1>1, <2>1 DEF Cut
  <2>3. Lineage(c) = Line(record, c) /\ Lineage(c)' = Line(record', c)
    BY <2>1, LineageIs, NextLineageIs DEF Types
  <2> QED
    BY <1>1, <2>2, <2>3
<1> QED
  BY <1>1, TracedOn DEF Exists

\* The steps of an ingest that leave all records alone.
LEMMA TracedIngestQuiet ==
    ASSUME Types, ChunkInv, Traced,
           \/ (\E d \in Docs : IngestStart(d)) \/ WriteBytes \/ IngestBlocked \/ OpenClaim
           \/ IngestCrash \/ Settle \/ RewriteCard \/ AppendRead \/ WriteCard \/ MergeRead \/ DropCard
    PROVE  Traced'
<1>0. Ingest
  BY DEF Ingest
<1>1. cur'.cards = cur.cards
  BY <1>0, IngestIsSeen
<1>2. card \in [Ids -> Card \cup {None}] /\ material \in [Ids -> SUBSET Clients]
  BY DEF Types, CardTypes, GhostTypes
<1>3. CASE \/ (\E d \in Docs : IngestStart(d)) \/ WriteBytes \/ IngestBlocked \/ OpenClaim
           \/ IngestCrash \/ Settle \/ AppendRead \/ MergeRead
  <2>1. UNCHANGED <<card, record, material, escaped>>
    BY <1>3 DEF IngestStart, WriteBytes, IngestBlocked, OpenClaim, IngestCrash, Settle, AppendRead,
       MergeRead, files, ghosts
  <2> QED
    BY <1>1, <2>1, TracedQuiet
<1>4. CASE RewriteCard
  <2>1. ing.id \in Bodies
    BY <1>4 DEF RewriteCard, Types, IngTypes
  <2>2. record' = record /\ escaped' = escaped
    BY <1>4 DEF RewriteCard
  <2>3. \A f \in Ids \ Bodies : card'[f] = card[f] /\ material'[f] = material[f]
    BY <1>2, <1>4, <2>1 DEF RewriteCard
  <2> QED
    BY <1>1, <2>2, <2>3, TracedQuiet
<1>5. CASE WriteCard
  <2>1. ing.id \in Bodies
    BY <1>5 DEF WriteCard, Types, IngTypes
  <2>2. record' = record /\ \A f \in Ids \ Bodies : f \in escaped => f \in escaped'
    BY <1>5, <2>1 DEF WriteCard
  <2>3. \A f \in Ids \ Bodies : card'[f] = card[f] /\ material'[f] = material[f]
    BY <1>2, <1>5, <2>1 DEF WriteCard
  <2> QED
    BY <1>1, <2>2, <2>3, TracedQuiet
<1>6. CASE DropCard
  <2>1. ing.top \in Bodies
    BY <1>6, Absent DEF DropCard, Types, IngTypes, ChunkInv, InHand
  <2>2. record' = record /\ escaped' = escaped
    BY <1>6 DEF DropCard
  <2>3. \A f \in Ids \ Bodies : card'[f] = card[f] /\ material'[f] = material[f]
    BY <1>2, <1>6, <2>1 DEF DropCard
  <2> QED
    BY <1>1, <2>2, <2>3, TracedQuiet
<1> QED
  BY <1>3, <1>4, <1>5, <1>6

\* A copy of a chunk's record says no less than it, and that of a claim's card
\* leads to that card only.
LEMMA TracedAppendWrite ==
    ASSUME Types, ChunkInv, Traced, AppendWrite
    PROVE  Traced'
<1>1. /\ ing.doc.client \in Clients /\ ing.top \in Ids /\ ing.pc = "appended"
  BY Names DEF AppendWrite, Types, IngTypes
<1>2. card' = card /\ escaped \subseteq escaped' /\ cur' = cur
  BY DEF AppendWrite
<1>3. record \in [Ids -> Record \cup {None}] /\ material \in [Ids -> SUBSET Clients]
  BY DEF Types, RecordTypes, GhostTypes
<1>4. \A k \in Ids : record'[k] = IF k = ing.top THEN ing.copy ELSE record[k]
  BY <1>1, <1>3 DEF AppendWrite
<1>5. ing.copy # None
  BY <1>1, Absent DEF Types, IngTypes
<1>6. \A k \in Ids : material'[k] = IF k = ing.top /\ Exists(k)
                                    THEN material[k] \cup {ing.doc.client} ELSE material[k]
  BY <1>1, <1>3 DEF AppendWrite
<1>7. CASE ing.top \in Bodies
  <2>1. \A k \in Ids : record[k] # None => record'[k] # None /\ Within(record[k], record'[k])
    BY <1>1, <1>4, <1>5, <1>7 DEF Within, ChunkInv, InHand
  <2>2. \A c \in Clients : Line(record, c) \subseteq Line(record', c)
    BY <2>1, LineGrows
  <2> QED
    BY <1>2, <1>3, <1>4, <1>6, <1>7, <2>2, TracedOn DEF Exists
<1>8. CASE ing.top \notin Bodies
  <2>1. ASSUME NEW f \in Ids \ Bodies, Exists(f), record'[f] # None, f \notin escaped',
               f \notin cur.cards, NEW c \in material'[f]
        PROVE  f \in Line(record', c)
    <3>0. c \in Clients
      BY <1>1, <1>3, <1>6, <2>1
    <3>1. CASE f # ing.top
      <4>1. f \in Line(record, c)
        BY <1>2, <1>4, <1>6, <2>1, <3>1 DEF Traced
      <4>2. \A k \in Ids : record[k] # None => record[k].from \subseteq Bodies
        BY DEF ChunkInv, Plain
      <4>3. \A k \in Ids \ {ing.top} : record'[k] = record[k]
        BY <1>4
      <4>4. ing.top \in Ids \ Bodies
        BY <1>1, <1>8
      <4> QED
        BY <3>0, <3>1, <4>1, <4>2, <4>3, <4>4, LineOfOthers
    <3>2. CASE f = ing.top
      <4>1. record[f] # None /\ ing.copy = Appended(record[f])
        BY <2>1, <3>2 DEF AppendWrite
      <4>2. Within(record[f], ing.copy) /\ ing.doc.client \in ing.copy.sources
        BY <4>1 DEF Appended, Within
      <4>3. CASE c = ing.doc.client
        <5>1. record'[f] # None /\ c \in record'[f].sources
          BY <1>4, <1>5, <3>2, <4>2, <4>3
        <5> QED
          BY <3>0, <5>1, LineHolds
      <4>4. CASE c # ing.doc.client
        <5>1. f \in Line(record, c)
          BY <1>2, <1>6, <2>1, <4>1, <4>4 DEF Traced
        <5>2. \A k \in Ids : record[k] # None => record'[k] # None /\ Within(record[k], record'[k])
          BY <1>4, <1>5, <3>2, <4>2 DEF Within
        <5> QED
          BY <3>0, <5>1, <5>2, LineGrows
      <4> QED
        BY <4>3, <4>4
    <3> QED
      BY <3>1, <3>2
  <2> QED
    BY <1>2, <2>1 DEF Traced, Exists
<1> QED
  BY <1>7, <1>8

\* A new record leads to more; what one over an old record cuts off is remembered.
LEMMA TracedWriteRecord ==
    ASSUME Types, Types', ChunkInv, Traced, WriteRecord
    PROVE  Traced'
<1>1. ing.id \in Bodies /\ ing.id \in Ids /\ ing.doc.client \in Clients
  BY Names DEF WriteRecord, Types, IngTypes
<1> DEFINE r == [sources |-> {ing.doc.client}, from |-> {}]
<1>2. r \in Record /\ r # None
  <2>1. r \in Record
    BY <1>1 DEF Record
  <2> QED
    BY <2>1, Absent
<1>3. UNCHANGED <<card, material, cur>> /\ record' = [record EXCEPT ![ing.id] = r]
  BY DEF WriteRecord
<1>4. record \in [Ids -> Record \cup {None}]
  BY DEF Types, RecordTypes
<1> HIDE DEF r
<1>5. \A k \in Ids : record'[k] = IF k = ing.id THEN r ELSE record[k]
  BY <1>1, <1>3, <1>4
<1>6. CASE record[ing.id] = None
  <2>1. \A k \in Ids : record[k] # None => record'[k] # None /\ Within(record[k], record'[k])
    BY <1>5, <1>6 DEF Within
  <2>2. \A c \in Clients : Line(record, c) \subseteq Line(record', c)
    BY <2>1, LineGrows
  <2>3. \A f \in Ids \ Bodies : f \in escaped => f \in escaped'
    BY <1>1 DEF WriteRecord
  <2>4. material \in [Ids -> SUBSET Clients]
    BY DEF Types, GhostTypes
  <2> QED
    BY <1>1, <1>3, <1>5, <2>2, <2>3, <2>4, TracedOn DEF Exists
<1>7. CASE record[ing.id] # None
  <2>1. escaped' = (escaped \cup Cut) \ {ing.id}
    BY <1>7 DEF WriteRecord
  <2>2. ASSUME NEW f \in Ids \ Bodies, f \notin escaped', NEW c \in material[f], f \in Line(record, c)
        PROVE  f \in Line(record', c)
    <3>1. c \in Clients
      BY <2>2 DEF Types, GhostTypes
    <3>2. f \notin Lineage(c) \ Lineage(c)'
      BY <1>1, <2>1, <2>2, <3>1 DEF Cut
    <3>3. Lineage(c) = Line(record, c) /\ Lineage(c)' = Line(record', c)
      BY <3>1, LineageIs, NextLineageIs DEF Types
    <3> QED
      BY <2>2, <3>2, <3>3
  <2>3. \A f \in Ids \ Bodies : f \in escaped => f \in escaped'
    BY <1>1, <2>1
  <2> QED
    BY <1>1, <1>3, <1>5, <2>2, <2>3, TracedOn DEF Exists
<1> QED
  BY <1>6, <1>7

\* A survivor leads to what it led to, and to what the other led to.
LEMMA TracedMerge ==
    ASSUME Types, Types', ChunkInv, Traced, MergeWrite \/ MergeUnlink
    PROVE  Traced'
<1>1. /\ ing.id \in Bodies /\ ing.id \in Ids /\ ing.top \in Bodies /\ ing.top # ing.id /\ ing.top \in Ids
  BY Names, Absent DEF MergeWrite, MergeUnlink, Types, IngTypes, ChunkInv, InHand
<1>2. /\ record \in [Ids -> Record \cup {None}] /\ material \in [Ids -> SUBSET Clients]
  BY DEF Types, RecordTypes, GhostTypes
<1>3. card' = card /\ escaped \subseteq escaped' /\ cur' = cur
  BY DEF MergeWrite, MergeUnlink
<1>4. \A f \in Ids \ Bodies : material'[f] = material[f] /\ record'[f] = record[f]
  BY <1>1, <1>2 DEF MergeWrite, MergeUnlink
<1>5. CASE MergeWrite
  <2>1. ing.pc = "merged" /\ ing.copy # None
    BY <1>5, Absent DEF MergeWrite, Types, IngTypes
  <2>2. \A k \in Ids : record'[k] = IF k = ing.id THEN ing.copy ELSE record[k]
    BY <1>1, <1>2, <1>5 DEF MergeWrite
  <2>3. \A k \in Ids : record[k] # None => record'[k] # None /\ Within(record[k], record'[k])
    BY <2>1, <2>2 DEF Within, ChunkInv, InHand
  <2>4. \A c \in Clients : Line(record, c) \subseteq Line(record', c)
    BY <2>3, LineGrows
  <2> QED
    BY <1>2, <1>3, <1>4, <2>4, TracedOn DEF Exists
<1>6. CASE MergeUnlink
  <2>1. ing.pc = "unlink" /\ UNCHANGED material
    BY <1>6 DEF MergeUnlink
  <2>2. CASE record[ing.id] = None
    <3>1. Cut \subseteq escaped'
      BY <1>6, <2>2 DEF MergeUnlink
    <3> QED
      BY <1>3, <1>4, <2>1, <3>1, TracedCut DEF Types
  <2>3. CASE record[ing.id] # None
    <3>1. record'[ing.top] = None /\ \A k \in Ids \ {ing.top} : record'[k] = record[k]
      BY <1>1, <1>2, <1>6 DEF MergeUnlink
    <3>2. /\ ing.top \in record[ing.id].from
          /\ record[ing.top] # None => Within(record[ing.top], record[ing.id])
      BY <2>1, <2>3 DEF ChunkInv, InHand
    <3>3. \A c \in Clients : Line(record, c) \subseteq Line(record', c)
      BY <1>1, <2>3, <3>1, <3>2, LineOfMerged
    <3> QED
      BY <1>2, <1>3, <1>4, <3>3, TracedOn DEF Exists
  <2> QED
    BY <2>2, <2>3
<1> QED
  BY <1>5, <1>6

\* A batch adds the card of a claim, then a record that leads to it from the
\* claim's source, unless the source itself was passed over.
LEMMA TracedApplyCard ==
    ASSUME Types, HoldInv, Traced, NEW p \in Keys, ApplyCard(p)
    PROVE  Traced'
<1> DEFINE g == Fact(p.claim)
           x == [doc |-> None, body |-> g, held |-> FALSE]
           m == {p.client} \cup material[p.from]
           l == Loose(p)
<1>1. cur.pc = "apply" /\ cur.cards = {} /\ cur \in CurRecs
  BY DEF ApplyCard, HoldInv, Listed, Types, CurTypes
<1>2. card \in [Ids -> Card \cup {None}] /\ material \in [Ids -> SUBSET Clients]
  BY DEF Types, CardTypes, GhostTypes
<1>3. record' = record
  BY DEF ApplyCard
<1>4. CASE UNCHANGED <<card, material, escaped>> /\ cur' = NoCurator
  BY <1>1, <1>3, <1>4, TracedQuiet DEF NoCurator
<1>5. CASE /\ card' = [card EXCEPT ![g] = x] /\ material' = [material EXCEPT ![g] = m]
           /\ escaped' = escaped \cup ({g} \cap Recorded)
           /\ cur' = [cur EXCEPT !.pc = "link", !.claim = p, !.loose = l]
  <2> HIDE DEF g, x, m, l
  <2>1. cur'.cards = {}
    BY <1>1, <1>5 DEF CurRecs
  <2>2. \A f \in Ids \ {g} : card'[f] = card[f] /\ material'[f] = material[f]
    BY <1>2, <1>5
  <2>3. g \in Ids /\ record[g] # None => g \in escaped'
    BY <1>5 DEF Recorded
  <2> QED
    BY <1>1, <1>3, <1>5, <2>1, <2>2, <2>3 DEF Traced, Exists
<1> QED
  BY <1>4, <1>5 DEF ApplyCard, Release

\* The record of the card of a claim.
LEMMA TracedApplyRecord ==
    ASSUME Types, ChunkInv, HoldInv, Traced, ApplyRecord
    PROVE  Traced'
<1> DEFINE g == Fact(cur.claim.claim)
           from == cur.claim.from
           r == [sources |-> {}, from |-> {from}]
           traced == ~cur.loose /\ from \notin escaped /\ \A c \in material[g] : from \in Lineage(c)
<1>1. g \in Ids /\ g \notin Bodies /\ from \in Bodies /\ from \in Ids
  BY Names DEF ApplyRecord, Types, CurTypes
<1>2. record \in [Ids -> Record \cup {None}] /\ material \in [Ids -> SUBSET Clients]
  BY DEF Types, RecordTypes, GhostTypes
<1>3. /\ UNCHANGED <<card, material>> /\ record' = [record EXCEPT ![g] = r]
      /\ escaped' = IF traced THEN escaped \ {g} ELSE escaped \cup {g}
  BY DEF ApplyRecord
<1>4. r \in Record /\ r # None /\ r.from = {from}
  <2>1. r \in Record
    BY <1>1 DEF Record
  <2> QED
    BY <2>1, Absent
<1>5. cur.cards = {} /\ cur'.cards = {}
  BY DEF ApplyRecord, HoldInv, Listed, Types, CurTypes, CurRecs
<1>6. traced => \A c \in material[g] : c \in Clients /\ from \in Line(record, c)
  BY <1>1, <1>2, LineageIs DEF Types
<1>7. \A k \in Ids : record[k] # None => record[k].from \subseteq Bodies
  BY DEF ChunkInv, Plain
<1> HIDE DEF g, from, r, traced
<1>8. \A k \in Ids : record'[k] = IF k = g THEN r ELSE record[k]
  BY <1>1, <1>2, <1>3
<1>9. \A c \in Clients, j \in Ids \ {g} : j \in Line(record, c) => j \in Line(record', c)
  BY <1>1, <1>7, <1>8, LineOfOthers
<1>10. ASSUME NEW f \in Ids \ Bodies, Exists(f), record'[f] # None, f \notin escaped',
              NEW c \in material[f]
       PROVE  f \in Line(record', c)
  <2>0. c \in Clients
    BY <1>2, <1>10
  <2>1. CASE f = g
    <3>1. from \in Line(record, c)
      BY <1>3, <1>6, <1>10, <2>1
    <3>2. from \in Line(record', c)
      BY <1>1, <1>9, <2>0, <3>1
    <3>3. record'[g] = r /\ r.from \cap Line(record', c) # {}
      BY <1>1, <1>4, <1>8, <3>2
    <3> QED
      BY <1>1, <1>4, <2>0, <2>1, <3>3, LineHolds
  <2>2. CASE f # g
    <3>1. f \in Line(record, c)
      BY <1>3, <1>5, <1>8, <1>10, <2>2 DEF Traced
    <3> QED
      BY <1>9, <2>0, <2>2, <3>1
  <2> QED
    BY <2>1, <2>2
<1> QED
  BY <1>3, <1>10 DEF Traced, Exists

\* A purge that dies passes over what it cut off.
LEMMA TracedDies ==
    ASSUME Types, Traced, UNCHANGED <<card, record, material>>, PurgeDies
    PROVE  Traced'
<1>1. escaped' = escaped \cup {k \in cur.cards : \E c \in material[k] : k \notin Lineage(c)}
  BY DEF PurgeDies
<1>2. ASSUME NEW f \in Ids \ Bodies, Exists(f), record[f] # None, f \notin escaped',
             NEW c \in material[f]
      PROVE  f \in Line(record, c)
  <2>1. c \in Clients
    BY <1>2 DEF Types, GhostTypes
  <2>2. CASE f \in cur.cards
    BY <1>1, <1>2, <2>1, <2>2, LineageIs DEF Types
  <2>3. CASE f \notin cur.cards
    BY <1>1, <1>2, <2>3 DEF Traced
  <2> QED
    BY <2>2, <2>3
<1> QED
  BY <1>2 DEF Traced, Exists

\* What a purge takes away was to go, hangs by nothing that goes, or is
\* passed over.
LEMMA TracedPurgeRecord ==
    ASSUME Types, Types', LineInv, PurgeRecord
    PROVE  Traced'
<1>1. cur.item \in Ids /\ cur \in CurRecs /\ cur.pc = "record"
  BY DEF PurgeRecord, Types, CurTypes
<1>2. record \in [Ids -> Record \cup {None}]
  BY DEF Types, RecordTypes
<1>3. UNCHANGED <<card, material>> /\ record' = [record EXCEPT ![cur.item] = None]
  BY DEF PurgeRecord
<1>4. \A k \in Ids : record'[k] = IF k = cur.item THEN None ELSE record[k]
  BY <1>1, <1>2, <1>3
<1>5. CASE record[cur.item] = None
  <2>1. record' = record
    BY <1>1, <1>2, <1>3, <1>5
  <2>2. PurgeDies
    BY <1>5 DEF PurgeRecord
  <2> QED
    BY <1>3, <2>1, <2>2, TracedDies DEF LineInv
<1>6. CASE record[cur.item] # None
  <2>1. /\ cur' = [cur EXCEPT !.pc = "cards", !.cards = @ \ {cur.item}, !.item = None,
                              !.purged = @ \cup {cur.item}]
        /\ escaped' = IF cur.beside THEN escaped \cup Cut ELSE escaped
    BY <1>6 DEF PurgeRecord
  <2>2. cur'.cards = cur.cards \ {cur.item}
    BY <1>1, <2>1 DEF CurRecs
  <2>3. CASE cur.beside
    BY <1>3, <1>4, <2>1, <2>2, <2>3, TracedCut DEF LineInv, Types
  <2>4. CASE ~cur.beside
    <3>1. PICK L \in SUBSET Ids : /\ cur.cards \subseteq L
                                  /\ L \subseteq cur.cards \cup cur.purged \cup escaped
                                  /\ Stable(record, L)
      BY <1>1, <2>4 DEF LineInv, Covering
    <3>2. /\ \A k \in cur.purged : ~Exists(k)
          /\ cur.item \in cur.cards
      BY <1>1, <2>4 DEF LineInv, Covering
    <3>3. ASSUME NEW f \in Ids \ Bodies, Exists(f), record'[f] # None, f \notin escaped,
                 f \notin cur.cards \ {cur.item}, NEW c \in material[f]
          PROVE  f \in Line(record', c)
      <4>1. f # cur.item /\ f \notin cur.cards
        BY <1>4, <3>3
      <4>2. f \notin L
        BY <3>1, <3>2, <3>3, <4>1
      <4>3. f \in Line(record, c)
        BY <1>4, <3>3, <4>1 DEF LineInv, Traced
      <4>4. c \in Clients
        BY <3>3 DEF Types, GhostTypes
      <4>5. cur.item \in L /\ \A k \in Ids \ {cur.item} : record'[k] = record[k]
        BY <1>4, <3>1, <3>2
      <4> QED
        BY <3>1, <4>2, <4>3, <4>4, <4>5, LineBeside
    <3> QED
      BY <1>3, <2>1, <2>2, <2>4, <3>3 DEF Traced, Exists
  <2> QED
    BY <2>3, <2>4
<1> QED
  BY <1>5, <1>6

\* The other steps of the curator, a draft and a hold.
LEMMA TracedOthers ==
    ASSUME Types, HoldInv, Traced,
           \/ MergeStart \/ Decide \/ (\E p \in Keys : Reject(p)) \/ \E c \in Clients : PurgeStart(c)
           \/ (\E k \in Ids : PurgeCard(k) \/ PurgeHeld(k)) \/ PurgeSourcesStart
           \/ (\E d \in Docs : PurgeSource(d)) \/ PurgeOrphans \/ (\E p \in Keys : PurgeVoid(p))
           \/ PurgeDraftsStart \/ (\E d \in drafts : PurgeDraft(d)) \/ Sweep \/ CuratorCrash
           \/ (\E k \in Ids : Draft(k)) \/ \E k \in Ids : Hold(k)
    PROVE  Traced'
<1>1. cur \in CurRecs
  BY DEF Types, CurTypes
<1>2. card \in [Ids -> Card \cup {None}] /\ material \in [Ids -> SUBSET Clients]
  BY DEF Types, CardTypes, GhostTypes
<1>3. CASE \/ MergeStart \/ Decide \/ (\E p \in Keys : Reject(p)) \/ PurgeSourcesStart
           \/ (\E d \in Docs : PurgeSource(d)) \/ PurgeOrphans \/ (\E p \in Keys : PurgeVoid(p))
           \/ PurgeDraftsStart \/ (\E d \in drafts : PurgeDraft(d)) \/ Sweep
           \/ \E k \in Ids : Draft(k)
  <2>1. UNCHANGED <<card, record, material, escaped>>
    BY <1>3 DEF MergeStart, Decide, Reject, PurgeSourcesStart, PurgeSource, PurgeOrphans, PurgeVoid,
       PurgeDraftsStart, PurgeDraft, Sweep, Draft, files, ghosts
  <2>2. cur'.cards = cur.cards
    <3>1. CASE MergeStart
      BY <3>1 DEF MergeStart, Free, NoCurator, HoldInv, Listed
    <3>2. CASE Decide
      <4> DEFINE rest == cur.claims \ {cur.claim}
      <4>1. /\ cur.pc = "decide"
            /\ \/ cur' = [cur EXCEPT !.pc = "apply", !.claims = rest, !.claim = None]
               \/ cur' = NoCurator
        BY <3>2 DEF Decide, Release
      <4> HIDE DEF rest
      <4>2. cur.cards = {}
        BY <4>1 DEF HoldInv, Listed
      <4>3. CASE cur' = NoCurator
        BY <4>2, <4>3 DEF NoCurator
      <4>4. CASE cur' # NoCurator
        BY <1>1, <4>1, <4>4 DEF CurRecs
      <4> QED
        BY <4>3, <4>4
    <3>3. CASE Sweep
      BY <3>3 DEF Sweep, Release, NoCurator, HoldInv, Listed
    <3>4. CASE \/ (\E p \in Keys : Reject(p)) \/ (\E d \in drafts : PurgeDraft(d))
               \/ \E k \in Ids : Draft(k)
      BY <3>4 DEF Reject, PurgeDraft, Draft
    <3>5. CASE \/ PurgeSourcesStart \/ (\E d \in Docs : PurgeSource(d)) \/ PurgeOrphans
               \/ (\E p \in Keys : PurgeVoid(p)) \/ PurgeDraftsStart
      BY <1>1, <3>5 DEF PurgeSourcesStart, PurgeSource, PurgeOrphans, PurgeVoid, PurgeDraftsStart,
         CurRecs
    <3> QED
      BY <1>3, <3>1, <3>2, <3>3, <3>4, <3>5
  <2> QED
    BY <2>1, <2>2, TracedQuiet
<1>4. ASSUME NEW c \in Clients, PurgeStart(c) PROVE Traced'
  <2>1. cur.cards = {} /\ UNCHANGED <<card, record, material>> /\ escaped \subseteq escaped'
    BY <1>4 DEF PurgeStart, Free, HoldInv, Listed
  <2> QED
    BY <2>1 DEF Traced, Exists
<1>5. ASSUME NEW k \in Ids, PurgeCard(k) PROVE Traced'
  <2>1. CASE ~Exists(k)
    BY <1>5, <2>1, TracedDies DEF PurgeCard
  <2>2. CASE Exists(k)
    <3> DEFINE D == cur.docs \cup DocOf(k)
               W == cur.twice \cup {d \in DocOf(k) : Twin(k, d)}
    <3>1. /\ card' = [card EXCEPT ![k] = None] /\ material' = [material EXCEPT ![k] = {}]
          /\ cur' = [cur EXCEPT !.pc = "record", !.item = k, !.docs = D, !.twice = W]
          /\ UNCHANGED <<record, escaped>>
      BY <1>5, <2>2 DEF PurgeCard
    <3> HIDE DEF D, W
    <3>2. cur'.cards = cur.cards
      BY <1>1, <3>1 DEF CurRecs
    <3>3. \A f \in Ids : /\ card'[f] = IF f = k THEN None ELSE card[f]
                         /\ material'[f] = IF f = k THEN {} ELSE material[f]
      BY <1>2, <3>1
    <3> QED
      BY <3>1, <3>2, <3>3 DEF Traced, Exists
  <2> QED
    BY <2>1, <2>2
<1>6. ASSUME NEW k \in Ids, PurgeHeld(k) PROVE Traced'
  <2>1. UNCHANGED <<card, record, material>> /\ escaped' = escaped \cup {k}
    BY <1>6 DEF PurgeHeld
  <2>2. cur'.cards = cur.cards \ {k}
    BY <1>1, <1>6 DEF PurgeHeld, CurRecs
  <2> QED
    BY <2>1, <2>2 DEF Traced, Exists
<1>7. CASE CuratorCrash
  BY <1>7, TracedDies DEF CuratorCrash, files
<1>8. ASSUME NEW k \in Ids, Hold(k) PROVE Traced'
  <2>1. UNCHANGED <<record, material, escaped, cur>> /\ Exists(k)
        /\ card' = [card EXCEPT ![k].held = TRUE]
    BY <1>8 DEF Hold, ghosts
  <2>2. \A f \in Ids : Exists(f)' => Exists(f)
    BY <1>2, <2>1 DEF Exists
  <2> QED
    BY <2>1, <2>2 DEF Traced
<1> QED
  BY <1>3, <1>4, <1>5, <1>6, <1>7, <1>8

\* Nothing hangs by anything, and no purge runs.
LEMMA LineInit == Init => LineInv
BY DEF Init, LineInv, Traced, Covering, Exists, NoCurator

\* The records lead to the cards of claims after every step.
LEMMA TracedStep ==
    ASSUME Types, Types', ChunkInv, HoldInv, LineInv, [Next]_vars
    PROVE  Traced'
<1>0. Traced
  BY DEF LineInv
<1>1. CASE UNCHANGED vars
  BY <1>0, <1>1 DEF vars, files, ghosts, Traced, Exists
<1>2. CASE Ingest
  BY <1>0, <1>2, TracedIngestQuiet, TracedAppendWrite, TracedWriteRecord, TracedMerge DEF Ingest
<1>3. CASE Curate
  <2>1. CASE (\E p \in Keys : ApplyCard(p)) \/ ApplyRecord \/ PurgeRecord
    BY <1>0, <2>1, TracedApplyCard, TracedApplyRecord, TracedPurgeRecord
  <2>2. CASE ~((\E p \in Keys : ApplyCard(p)) \/ ApplyRecord \/ PurgeRecord)
    BY <1>0, <1>3, <2>2, TracedOthers DEF Curate
  <2> QED
    BY <2>1, <2>2
<1>4. CASE (\E k \in Ids : Draft(k)) \/ \E k \in Ids : Hold(k)
  BY <1>0, <1>4, TracedOthers
<1> QED
  BY <1>1, <1>2, <1>3, <1>4 DEF Next

\* What an ingest does, it does beside a purge that knows of it.
LEMMA CoveringIngest == ASSUME Types, HoldInv, Ingest PROVE Covering'
<1>1. cur'.pc = cur.pc /\ (cur.pc \in PurgePCs => cur'.beside \/ (ing.pc # "idle" /\ cur' = cur))
  BY IngestIsSeen
<1>2. cur.pc \in PurgePCs => cur'.beside
  BY <1>1 DEF HoldInv, Alone
<1> QED
  BY <1>1, <1>2 DEF Covering, PurgePCs

\* A purge that starts lists all that hangs by its client but what it passes
\* over: what the loop finds is least among what the lineage is least among.
LEMMA CoveringPurgeStart ==
    ASSUME Types, NEW c \in Clients, PurgeStart(c)
    PROVE  Covering'
<1> DEFINE K == Closure(c)
           L == Line(record, c)
           b == ing.pc # "idle"
<1>1. record \in [Ids -> Record \cup {None}] /\ RecordTypes
  BY DEF Types, RecordTypes
<1>2. \A k \in Ids : record[k] # None => record[k].from \subseteq Ids
  BY <1>1, Names DEF Record
<1>3. L \in SUBSET Ids /\ Stable(record, L) /\ Named(record, c, L)
  BY <1>2, LineIsStable
<1>4. Seeds(c) \subseteq L /\ DerivedOf(L) \subseteq L
  BY <1>1, <1>3, StableIs
<1>5. K \subseteq L
  BY <1>3, <1>4, ClosureIsLeast
<1>6. Derived(c) \subseteq K
  BY ClosureIsLeast DEF Derived
<1>7. Lineage(c) = L
  BY <1>1, LineageIs
<1>8. /\ cur' = [NoCurator EXCEPT !.pc = "cards", !.client = c, !.cards = K, !.beside = b]
      /\ escaped' = escaped \cup (Lineage(c) \ Derived(c))
      /\ record' = record
  BY DEF PurgeStart
<1> HIDE DEF K, L, b
<1>9. cur'.pc = "cards" /\ cur'.cards = K /\ cur'.purged = {}
  BY <1>8 DEF NoCurator
<1>10. L \subseteq K \cup escaped'
  BY <1>6, <1>7, <1>8
<1> QED
  BY <1>3, <1>5, <1>8, <1>9, <1>10 DEF Covering

\* A purge that removes keeps to its list.
LEMMA CoveringPurge ==
    ASSUME Types, Covering, NEW k \in Ids, PurgeCard(k) \/ PurgeHeld(k) \/ PurgeRecord
    PROVE  Covering'
<1>1. cur \in CurRecs
  BY DEF Types, CurTypes
<1>2. /\ card \in [Ids -> Card \cup {None}] /\ record \in [Ids -> Record \cup {None}]
  BY DEF Types, CardTypes, RecordTypes
<1>3. CASE cur' = NoCurator
  BY <1>3 DEF Covering, NoCurator
<1>4. CASE cur.beside /\ cur' # NoCurator
  <2>1. cur'.beside
    BY <1>1, <1>4 DEF PurgeCard, PurgeHeld, PurgeRecord, PurgeDies, Release, CurRecs
  <2> QED
    BY <2>1 DEF Covering
<1>5. CASE ~cur.beside /\ cur' # NoCurator
  <2>1. cur.pc \in {"cards", "record"}
    BY DEF PurgeCard, PurgeHeld, PurgeRecord
  <2>2. PICK L \in SUBSET Ids : /\ cur.cards \subseteq L
                                /\ L \subseteq cur.cards \cup cur.purged \cup escaped
                                /\ Stable(record, L)
    BY <1>5, <2>1 DEF Covering
  <2>3. /\ \A j \in cur.purged : ~Exists(j)
        /\ cur.pc = "record" => cur.item \in cur.cards /\ ~Exists(cur.item)
    BY <1>5, <2>1 DEF Covering
  <2>4. CASE PurgeCard(k)
    <3> DEFINE D == cur.docs \cup DocOf(k)
               W == cur.twice \cup {d \in DocOf(k) : Twin(k, d)}
    <3>1. /\ card' = [card EXCEPT ![k] = None] /\ record' = record /\ escaped' = escaped
          /\ cur' = [cur EXCEPT !.pc = "record", !.item = k, !.docs = D, !.twice = W]
          /\ k \in cur.cards
      BY <1>5, <2>4 DEF PurgeCard, PurgeDies, Release
    <3> HIDE DEF D, W
    <3>2. cur'.pc = "record" /\ cur'.item = k /\ cur'.cards = cur.cards /\ cur'.purged = cur.purged
      BY <1>1, <3>1 DEF CurRecs
    <3>3. \A j \in Ids : card'[j] = IF j = k THEN None ELSE card[j]
      BY <1>2, <3>1
    <3>4. cur.purged \subseteq Ids
      BY <1>1 DEF CurRecs
    <3>5. (\A j \in cur'.purged : ~Exists(j)') /\ ~Exists(k)'
      BY <2>3, <3>2, <3>3, <3>4 DEF Exists
    <3> QED
      BY <2>2, <3>1, <3>2, <3>5 DEF Covering
  <2>5. CASE PurgeHeld(k)
    <3> DEFINE D == cur.kept \cup DocOf(k)
    <3>1. /\ cur' = [cur EXCEPT !.cards = @ \ {k}, !.kept = D]
          /\ escaped' = escaped \cup {k} /\ card' = card /\ record' = record /\ cur.pc = "cards"
      BY <2>5 DEF PurgeHeld
    <3> HIDE DEF D
    <3>2. cur'.pc = "cards" /\ cur'.cards = cur.cards \ {k} /\ cur'.purged = cur.purged
      BY <1>1, <3>1 DEF CurRecs
    <3> QED
      BY <2>2, <2>3, <3>1, <3>2 DEF Covering, Exists
  <2>6. CASE PurgeRecord
    <3>1. /\ record' = [record EXCEPT ![cur.item] = None] /\ card' = card
          /\ cur' = [cur EXCEPT !.pc = "cards", !.cards = @ \ {cur.item}, !.item = None,
                                !.purged = @ \cup {cur.item}]
          /\ escaped' = escaped /\ cur.pc = "record"
      BY <1>5, <2>6 DEF PurgeRecord, PurgeDies, Release
    <3>2. /\ cur'.pc = "cards" /\ cur'.cards = cur.cards \ {cur.item}
          /\ cur'.purged = cur.purged \cup {cur.item}
      BY <1>1, <3>1 DEF CurRecs
    <3>3. \A j \in Ids : record'[j] = None \/ record'[j] = record[j]
      BY <1>2, <3>1
    <3>4. Stable(record', L)
      BY <2>2, <3>3 DEF Stable
    <3>5. \A j \in cur'.purged : ~Exists(j)'
      BY <2>3, <3>1, <3>2 DEF Exists
    <3> QED
      BY <2>2, <3>1, <3>2, <3>4, <3>5 DEF Covering
  <2> QED
    BY <2>4, <2>5, <2>6
<1> QED
  BY <1>3, <1>4, <1>5

\* The other steps run no removal, or change nothing that it rests on.
LEMMA CoveringOthers ==
    ASSUME Types, Covering,
           \/ MergeStart \/ (\E p \in Keys : ApplyCard(p)) \/ ApplyRecord \/ Decide
           \/ (\E p \in Keys : Reject(p)) \/ PurgeSourcesStart
           \/ (\E d \in Docs : PurgeSource(d)) \/ PurgeOrphans \/ (\E p \in Keys : PurgeVoid(p))
           \/ PurgeDraftsStart \/ (\E d \in drafts : PurgeDraft(d)) \/ Sweep \/ CuratorCrash
           \/ (\E k \in Ids : Draft(k)) \/ \E k \in Ids : Hold(k)
    PROVE  Covering'
<1>1. cur \in CurRecs
  BY DEF Types, CurTypes
<1>2. CASE \/ MergeStart \/ PurgeSourcesStart \/ (\E d \in Docs : PurgeSource(d)) \/ PurgeOrphans
           \/ (\E p \in Keys : PurgeVoid(p)) \/ PurgeDraftsStart \/ Sweep \/ CuratorCrash
  <2>1. CASE MergeStart
    BY <2>1 DEF MergeStart, NoCurator, Covering
  <2>2. CASE PurgeSourcesStart
    BY <1>1, <2>2 DEF PurgeSourcesStart, CurRecs, Covering
  <2>3. CASE \E d \in Docs : PurgeSource(d)
    BY <1>1, <2>3 DEF PurgeSource, CurRecs, Covering
  <2>4. CASE PurgeOrphans \/ PurgeDraftsStart \/ \E p \in Keys : PurgeVoid(p)
    BY <1>1, <2>4 DEF PurgeOrphans, PurgeDraftsStart, PurgeVoid, CurRecs, Covering
  <2>5. CASE Sweep \/ CuratorCrash
    BY <2>5 DEF Sweep, CuratorCrash, PurgeDies, Release, NoCurator, Covering
  <2> QED
    BY <1>2, <2>1, <2>2, <2>3, <2>4, <2>5
<1>3. CASE (\E p \in Keys : ApplyCard(p)) \/ ApplyRecord \/ Decide
  <2>1. ASSUME NEW p \in Keys, ApplyCard(p) PROVE cur' = NoCurator \/ cur'.pc = "link"
    BY <1>1, <2>1 DEF ApplyCard, Release, CurRecs
  <2>2. CASE ApplyRecord
    BY <1>1, <2>2 DEF ApplyRecord, CurRecs, Covering
  <2>3. CASE Decide
    <3> DEFINE rest == cur.claims \ {cur.claim}
    <3>1. \/ cur' = [cur EXCEPT !.pc = "apply", !.claims = rest, !.claim = None]
          \/ cur' = NoCurator
      BY <2>3 DEF Decide, Release
    <3> HIDE DEF rest
    <3>2. cur' = NoCurator \/ cur'.pc = "apply"
      BY <1>1, <3>1 DEF CurRecs
    <3> QED
      BY <3>2 DEF Covering, NoCurator
  <2> QED
    BY <1>3, <2>1, <2>2, <2>3 DEF Covering, NoCurator
<1>4. CASE \/ (\E p \in Keys : Reject(p)) \/ (\E d \in drafts : PurgeDraft(d))
           \/ (\E k \in Ids : Draft(k))
  <2>1. UNCHANGED <<card, record, cur, escaped>>
    BY <1>4 DEF Reject, PurgeDraft, Draft, ghosts
  <2> QED
    BY <2>1 DEF Covering, Exists
<1>5. CASE \E k \in Ids : Hold(k)
  BY <1>5 DEF Hold, Free, Covering
<1> QED
  BY <1>2, <1>3, <1>4, <1>5

\* A purge keeps covering what hangs by what it removes.
LEMMA CoveringStep ==
    ASSUME Types, HoldInv, Covering, [Next]_vars
    PROVE  Covering'
<1>1. CASE UNCHANGED vars
  BY <1>1 DEF vars, files, ghosts, Covering, Exists
<1>2. CASE Ingest
  BY <1>2, CoveringIngest
<1>3. CASE (\E c \in Clients : PurgeStart(c)) \/ (\E k \in Ids : PurgeCard(k) \/ PurgeHeld(k))
  BY <1>3, CoveringPurgeStart, CoveringPurge
<1>4. CASE PurgeRecord
  <2>1. cur.item \in Ids
    BY <1>4 DEF PurgeRecord, Types, CurTypes
  <2> QED
    BY <1>4, <2>1, CoveringPurge
<1> QED
  BY <1>1, <1>2, <1>3, <1>4, CoveringOthers DEF Next, Curate

\* The bookkeeping of lineage survives every step.
LEMMA LineStep ==
    ASSUME Types, Types', ChunkInv, HoldInv, LineInv, [Next]_vars
    PROVE  LineInv'
BY TracedStep, CoveringStep DEF LineInv

\* That is what the property asks: the record of a chunk's card names each
\* client, and the records lead to a claim's card.
LEMMA LineageFollows == ASSUME Types, ChunkInv, LineInv PROVE LineageKept
<1> SUFFICES ASSUME NEW c \in Clients, NEW k \in Ids,
                    Exists(k), c \in material[k], record[k] # None, k \notin escaped \cup cur.cards
             PROVE  k \in Lineage(c)
  BY DEF LineageKept
<1>1. Lineage(c) = Line(record, c)
  BY LineageIs DEF Types
<1>2. CASE k \in Bodies
  <2>1. c \in record[k].sources
    BY <1>2 DEF ChunkInv, Direct
  <2> QED
    BY <1>1, <2>1, LineHolds
<1>3. CASE k \notin Bodies
  BY <1>1, <1>3 DEF LineInv, Traced
<1> QED
  BY <1>2, <1>3

\* A chunk's card that no purge passed over names, in its record, the client
\* of the document it was made from: what a held card holds its document by
\* (purge.py reads the client from the record, the document from the card).
THEOREM OwnersAreNamed ==
    Spec => [](\A k \in Bodies :
                  Exists(k) /\ card[k].doc # None /\ record[k] # None /\ k \notin escaped
                      => card[k].doc.client \in record[k].sources)
<1> DEFINE Inv == Types /\ ChunkInv
           OwnerNamed == \A k \in Bodies :
                        Exists(k) /\ card[k].doc # None /\ record[k] # None /\ k \notin escaped
                            => card[k].doc.client \in record[k].sources
<1>1. Init => Inv
  BY TypesInit, ChunkInit
<1>2. Inv /\ [Next]_vars => Inv'
  BY TypesStep, ChunkStep
<1>3. Inv => OwnerNamed
  BY DEF ChunkInv, Direct
<1> HIDE DEF Inv
<1> QED
  BY <1>1, <1>2, <1>3, PTL DEF Spec

\* While a card exists, the records on disk lead from every client whose
\* document went into it to the card, but for a record that a crash left
\* unwritten and what a purge passed over (purge.py walks those records).
THEOREM LineageIsKept == Spec => []LineageKept
<1> DEFINE Inv == Types /\ ChunkInv /\ HoldInv /\ LineInv
<1>1. Init => Inv
  BY TypesInit, ChunkInit, HoldInit, LineInit
<1>2. Inv /\ [Next]_vars => Inv'
  BY TypesStep, ChunkStep, HoldStep, LineStep
<1>3. Inv => LineageKept
  BY LineageFollows
<1> HIDE DEF Inv
<1> QED
  BY <1>1, <1>2, <1>3, PTL DEF Spec
-----------------------------------------------------------------------------
(* The clean verdict                                                       *)

\* A purge that an earlier one passed over the card would not find it.
Slipped(k) == k \in escaped \/ record[k] = None

\* The documents of a model that no purge passed over are kept in full.
Backed == model \ stray \subseteq source \cap meta

\* What is held was put on hold.
OnHold ==
    holds = 0 => /\ \A k \in Ids : Exists(k) => ~card[k].held
                 /\ cur.kept = {}

\* While an ingest runs its client is not clean; the card it mints is of its
\* client alone until another is folded into it; what it folds into it, of a
\* client that is clean, was passed over.
Quiet ==
    /\ \A c \in Clients : verdict[c] = "clean" /\ ing.pc # "idle" => ing.doc.client # c
    /\ ing.pc \in {"record", "merge", "merged"} => material[ing.id] \subseteq {ing.doc.client}
    /\ ing.pc = "merged" =>
          \A c \in material[ing.top] : verdict[c] = "clean" => ing.top \in escaped

\* What a merge batch accepts is proposed, and when the claim's card holds
\* material of a client that is clean, the claim came from what was passed over.
Batch ==
    /\ cur.pc \in MergePCs => \A p \in cur.claims : proposal[p] = "proposed"
    /\ cur.pc = "link" =>
          \A c \in material[Fact(cur.claim.claim)] : verdict[c] = "clean" => cur.loose

\* A purge that no ingest ran beside: what is left of its client is still to
\* go, or was passed over.
Going ==
    LET c == cur.client
        covered == cur.cards \cup cur.purged
    IN cur.pc \in PurgePCs /\ ~cur.beside =>
        /\ \A k \in Ids : Exists(k) /\ c \in material[k] => k \in cur.cards \/ Slipped(k)
        /\ \A p \in Keys : p.client = c /\ proposal[p] = "proposed" =>
              \/ p \in stray
              \/ cur.pc \in {"cards", "record", "sources"} /\ p.from \in covered
              \/ cur.pc = "void" /\ p \in cur.claims
        /\ \A d \in drafts : c \in d.of => d.missed \/ d.card \in covered
        /\ cur.pc = "sources" =>
              \A d \in source \cap meta : d.client = c => d \in cur.docs \cup cur.kept
        /\ cur.pc \in {"void", "drafts", "sweep"} /\ holds = 0 =>
              \A d \in source \cup (model \ stray) : d.client # c

CleanInv == Backed /\ OnHold /\ Quiet /\ Batch /\ Going /\ CleanIsClean

\* Nothing is stored, nobody is clean.
LEMMA CleanInit == Init => CleanInv
BY DEF Init, CleanInv, Backed, OnHold, Quiet, Batch, Going, CleanIsClean, CleanMeansGone,
       DraftsFollowCards, Exists, NoIngest, NoCurator, PurgePCs

\* A model is written beside its document or is remembered, and goes with it.
LEMMA BackedStep == ASSUME Types, Backed, [Next]_vars PROVE Backed'
<1>0. stray \subseteq Keys \cup Docs /\ model \subseteq Docs
  BY DEF Types, GhostTypes, FileTypes
<1>1. CASE UNCHANGED vars
  BY <1>1 DEF vars, files, ghosts, Backed
<1>2. CASE Ingest
  BY <1>2 DEF Ingest, IngestStart, WriteBytes, IngestBlocked, Settle, RewriteCard, AppendRead,
     AppendWrite, WriteCard, WriteRecord, MergeRead, MergeWrite, MergeUnlink, DropCard, OpenClaim,
     IngestCrash, files, ghosts, Backed
<1>3. CASE Curate
  <2>1. ASSUME NEW c \in Clients, PurgeStart(c) PROVE Backed'
    BY <2>1 DEF PurgeStart, Backed
  <2>2. ASSUME NEW k \in Ids, PurgeHeld(k) PROVE Backed'
    BY <2>2 DEF PurgeHeld, Backed
  <2>3. ASSUME NEW d \in Docs, PurgeSource(d) PROVE Backed'
    BY <2>3 DEF PurgeSource, ghosts, Backed
  <2>4. CASE PurgeOrphans
    BY <2>4 DEF PurgeOrphans, ghosts, Backed
  <2>5. ASSUME ~(\E c \in Clients : PurgeStart(c)), ~(\E k \in Ids : PurgeHeld(k)),
               ~(\E d \in Docs : PurgeSource(d)), ~PurgeOrphans
        PROVE  UNCHANGED <<model, stray, source, meta>>
    BY <1>3, <2>5 DEF Curate, MergeStart, ApplyCard, ApplyRecord, Decide, Reject, PurgeCard,
       PurgeRecord, PurgeSourcesStart, PurgeVoid, PurgeDraftsStart, PurgeDraft, Sweep,
       CuratorCrash, PurgeDies, files, ghosts
  <2> QED
    BY <2>1, <2>2, <2>3, <2>4, <2>5 DEF Backed
<1>4. CASE (\E k \in Ids : Draft(k)) \/ \E k \in Ids : Hold(k)
  BY <1>4 DEF Draft, Hold, files, ghosts, Backed
<1> QED
  BY <1>1, <1>2, <1>3, <1>4 DEF Next

\* What a purge has kept grows by held cards only.
LEMMA KeptByHold ==
    ASSUME Types, Curate, ~\E k \in Ids : PurgeHeld(k)
    PROVE  cur'.kept \subseteq cur.kept
<1>0. cur \in CurRecs /\ NoCurator.kept = {}
  BY DEF Types, CurTypes, NoCurator
<1>1. CASE cur' = NoCurator \/ cur' = cur
  BY <1>0, <1>1
<1>2. ASSUME NEW batch, cur' = [NoCurator EXCEPT !.pc = "apply", !.claims = batch]
      PROVE  cur'.kept = {}
  BY <1>2 DEF NoCurator
<1>3. ASSUME NEW c, NEW S, NEW b,
             cur' = [NoCurator EXCEPT !.pc = "cards", !.client = c, !.cards = S, !.beside = b]
      PROVE  cur'.kept = {}
  BY <1>3 DEF NoCurator
<1>4. ASSUME MergeStart \/ \E c \in Clients : PurgeStart(c) PROVE cur'.kept = {}
  <2>1. CASE MergeStart
    <3>1. PICK batch : cur' = [NoCurator EXCEPT !.pc = "apply", !.claims = batch]
      BY <2>1 DEF MergeStart
    <3> QED
      BY <1>2, <3>1
  <2>2. ASSUME NEW c \in Clients, PurgeStart(c) PROVE cur'.kept = {}
    <3> DEFINE S == Closure(c)
               b == ing.pc # "idle"
    <3>1. cur' = [NoCurator EXCEPT !.pc = "cards", !.client = c, !.cards = S, !.beside = b]
      BY <2>2 DEF PurgeStart
    <3> HIDE DEF S, b
    <3> QED
      BY <1>3, <3>1
  <2> QED
    BY <1>4, <2>1, <2>2
<1>5. ASSUME ~MergeStart, ~\E c \in Clients : PurgeStart(c), cur' # NoCurator
      PROVE  cur'.kept = cur.kept
  <2>1. CASE (\E p \in Keys : ApplyCard(p)) \/ ApplyRecord \/ Decide \/ \E p \in Keys : Reject(p)
    <3>1. ASSUME NEW p \in Keys, ApplyCard(p) PROVE cur'.kept = cur.kept
      <4> DEFINE l == Loose(p)
      <4>1. cur' = [cur EXCEPT !.pc = "link", !.claim = p, !.loose = l]
        BY <1>5, <3>1 DEF ApplyCard, Release
      <4> HIDE DEF l
      <4> QED
        BY <1>0, <4>1 DEF CurRecs
    <3>2. CASE Decide
      <4> DEFINE rest == cur.claims \ {cur.claim}
      <4>1. cur' = [cur EXCEPT !.pc = "apply", !.claims = rest, !.claim = None]
        BY <1>5, <3>2 DEF Decide, Release
      <4> HIDE DEF rest
      <4> QED
        BY <1>0, <4>1 DEF CurRecs
    <3>3. CASE ApplyRecord \/ \E p \in Keys : Reject(p)
      BY <1>0, <3>3 DEF ApplyRecord, Reject, CurRecs
    <3> QED
      BY <2>1, <3>1, <3>2, <3>3
  <2>2. CASE PurgeRecord \/ PurgeSourcesStart \/ PurgeOrphans \/ PurgeDraftsStart \/ Sweep
             \/ CuratorCrash
    BY <1>0, <1>5, <2>2 DEF PurgeRecord, PurgeSourcesStart, PurgeOrphans, PurgeDraftsStart, Sweep,
       CuratorCrash, PurgeDies, Release, CurRecs
  <2>3. CASE \/ (\E k \in Ids : PurgeCard(k)) \/ (\E d \in Docs : PurgeSource(d))
             \/ (\E p \in Keys : PurgeVoid(p)) \/ \E d \in drafts : PurgeDraft(d)
    BY <1>0, <1>5, <2>3 DEF PurgeCard, PurgeSource, PurgeVoid, PurgeDraft, PurgeDies, Release,
       CurRecs
  <2> QED
    BY <1>5, <2>1, <2>2, <2>3 DEF Curate
<1> QED
  BY <1>0, <1>4, <1>5
\* Only a hold holds a card.
LEMMA HeldByHold ==
    ASSUME Types, Ingest \/ Curate, NEW k \in Ids, Exists(k)', card'[k].held
    PROVE  Exists(k) /\ card[k].held
<1>1. card \in [Ids -> Card \cup {None}]
  BY DEF Types, CardTypes
<1>2. CASE card' = card
  BY <1>2 DEF Exists
<1>3. CASE RewriteCard
  <2> DEFINE x == [card[ing.id] EXCEPT !.doc = ing.doc, !.body = ing.doc.body]
  <2>1. CASE Exists(ing.id)
    <3>1. ing.id \in Ids /\ card[ing.id] \in Card
      BY <1>1, <1>3, <2>1, Names, Absent DEF RewriteCard, Exists, Types, IngTypes
    <3>2. card' = [card EXCEPT ![ing.id] = x]
      BY <1>3, <2>1 DEF RewriteCard
    <3>3. x.held = card[ing.id].held
      BY <3>1 DEF Card
    <3> HIDE DEF x
    <3> QED
      BY <1>1, <2>1, <3>1, <3>2, <3>3 DEF Exists
  <2>2. CASE ~Exists(ing.id)
    BY <1>2, <1>3, <2>2 DEF RewriteCard
  <2> QED
    BY <2>1, <2>2
<1>4. ASSUME NEW j \in Ids, NEW x \in Card \cup {None}, card' = [card EXCEPT ![j] = x],
             x # None => ~x.held
      PROVE  Exists(k) /\ card[k].held
  BY <1>1, <1>4 DEF Exists
<1>5. CASE WriteCard
  <2> DEFINE x == [doc |-> ing.doc, body |-> ing.id, held |-> FALSE]
  <2>1. ing.id \in Ids /\ x \in Card /\ ~x.held
    BY <1>5, Names DEF WriteCard, Types, IngTypes, Card
  <2>2. card' = [card EXCEPT ![ing.id] = x]
    BY <1>5 DEF WriteCard
  <2> HIDE DEF x
  <2> QED
    BY <1>4, <2>1, <2>2
<1>6. CASE DropCard
  <2>1. ing.top \in Ids /\ card' = [card EXCEPT ![ing.top] = None]
    BY <1>6 DEF DropCard, Types, IngTypes
  <2> QED
    BY <1>4, <2>1
<1>7. ASSUME NEW p \in Keys, ApplyCard(p), card' # card PROVE Exists(k) /\ card[k].held
  <2> DEFINE f == Fact(p.claim)
             x == [doc |-> None, body |-> f, held |-> FALSE]
  <2>1. f \in Ids /\ x \in Card /\ ~x.held
    BY Names DEF Card
  <2>2. card' = [card EXCEPT ![f] = x]
    BY <1>7 DEF ApplyCard
  <2> HIDE DEF x, f
  <2> QED
    BY <1>4, <2>1, <2>2
<1>8. ASSUME NEW j \in Ids, PurgeCard(j), card' # card PROVE Exists(k) /\ card[k].held
  BY <1>4, <1>8 DEF PurgeCard
<1>9. ASSUME ~RewriteCard, ~WriteCard, ~DropCard, ~\E p \in Keys : ApplyCard(p),
             ~\E j \in Ids : PurgeCard(j)
      PROVE  card' = card
  <2>1. Ingest => card' = card
    BY <1>9 DEF Ingest, IngestStart, WriteBytes, IngestBlocked, Settle, AppendRead, AppendWrite,
       WriteRecord, MergeRead, MergeWrite, MergeUnlink, OpenClaim, IngestCrash, files
  <2>2. Curate => card' = card
    BY <1>9 DEF Curate, MergeStart, ApplyRecord, Decide, Reject, PurgeStart, PurgeHeld,
       PurgeRecord, PurgeSourcesStart, PurgeSource, PurgeOrphans, PurgeVoid, PurgeDraftsStart,
       PurgeDraft, Sweep, CuratorCrash, files
  <2> QED
    BY <2>1, <2>2
<1> QED
  BY <1>2, <1>3, <1>5, <1>6, <1>7, <1>8, <1>9

\* While nothing was put on hold nothing is held or kept.
LEMMA OnHoldStep == ASSUME Types, OnHold, [Next]_vars PROVE OnHold'
<1>0. holds \in Nat /\ card \in [Ids -> Card \cup {None}]
  BY BoundAssumption DEF Types, CountTypes, CardTypes
<1>1. CASE UNCHANGED vars
  BY <1>1 DEF vars, files, counts, OnHold, Exists
<1>2. CASE Ingest \/ Curate
  <2>1. \A k \in Ids : Exists(k)' /\ card'[k].held => Exists(k) /\ card[k].held
    BY <1>2, HeldByHold
  <2>2. holds' = holds
    BY <1>2 DEF Ingest, IngestStart, WriteBytes, IngestBlocked, Settle, RewriteCard, AppendRead,
       AppendWrite, WriteCard, WriteRecord, MergeRead, MergeWrite, MergeUnlink, DropCard,
       OpenClaim, IngestCrash, Curate, MergeStart, ApplyCard, ApplyRecord, Decide, Reject,
       PurgeStart, PurgeCard, PurgeHeld, PurgeRecord, PurgeSourcesStart, PurgeSource, PurgeOrphans,
       PurgeVoid, PurgeDraftsStart, PurgeDraft, Sweep, CuratorCrash, counts
  <2>3. holds = 0 => cur'.kept = {}
    <3>1. CASE Ingest
      <4>1. cur'.kept = cur.kept
        <5>1. ASSUME NEW d \in Docs, IngestStart(d) PROVE cur'.kept = cur.kept
          BY <5>1 DEF IngestStart, Types, CurTypes, CurRecs
        <5>2. ASSUME ~\E d \in Docs : IngestStart(d) PROVE cur' = cur
          BY <3>1, <5>2 DEF Ingest, WriteBytes, IngestBlocked, Settle, RewriteCard, AppendRead,
             AppendWrite, WriteCard, WriteRecord, MergeRead, MergeWrite, MergeUnlink, DropCard,
             OpenClaim, IngestCrash
        <5> QED
          BY <5>1, <5>2
      <4> QED
        BY <4>1 DEF OnHold
    <3>2. CASE Curate
      <4>1. ASSUME NEW k \in Ids, PurgeHeld(k) PROVE holds # 0
        BY <4>1 DEF PurgeHeld, OnHold
      <4> QED
        BY <3>2, <4>1, KeptByHold DEF OnHold
    <3> QED
      BY <1>2, <3>1, <3>2
  <2> QED
    BY <2>1, <2>2, <2>3 DEF OnHold
<1>3. ASSUME NEW k \in Ids, Draft(k) PROVE OnHold'
  BY <1>3 DEF Draft, counts, OnHold, Exists
<1>4. ASSUME NEW k \in Ids, Hold(k) PROVE OnHold'
  BY <1>0, <1>4 DEF Hold, OnHold
<1> QED
  BY <1>1, <1>2, <1>3, <1>4 DEF Next
\* An ingest is of one document.
LEMMA SameDocument ==
    ASSUME Types, Ingest, ~\E d \in Docs : IngestStart(d), ing'.pc # "idle"
    PROVE  ing.pc # "idle" /\ ing'.doc = ing.doc
<1>0. ing \in IngRecs /\ NoIngest.pc = "idle"
  BY IngStops DEF Types, IngTypes
<1>1. CASE Settle
  <2>1. \/ \E k, q : ing' = [ing EXCEPT !.pc = q, !.id = k]
        \/ \E t, q : ing' = [ing EXCEPT !.pc = q, !.top = t]
        \/ \E t, q, a : ing' = [ing EXCEPT !.pc = q, !.top = t, !.absorb = a]
        \/ \E q : ing' = [ing EXCEPT !.pc = q]
    <3>1. ing' \in Home(ing.doc.body)
      BY <1>1 DEF Settle
    <3>2. CASE Matched # {}
      BY <3>1, <3>2, Zenon DEF Home
    <3>3. CASE Matched = {} /\ ~Exists(ing.doc.body) /\ Priors # {} /\ ing.owner = None /\ Drifted # {}
      BY <3>1, <3>3, Zenon DEF Home
    <3>4. CASE Matched = {} /\ Exists(ing.doc.body)
      BY <3>1, <3>4, Zenon DEF Home
    <3>5. CASE /\ Matched = {} /\ ~Exists(ing.doc.body)
               /\ ~(Priors # {} /\ ing.owner = None /\ Drifted # {})
      BY <3>1, <3>5, Zenon DEF Home
    <3> QED
      BY <3>2, <3>3, <3>4, <3>5
  <2> QED
    BY <1>0, <1>1, <2>1 DEF Settle, IngRecs
<1>2. CASE AppendRead
  <2> DEFINE r == Appended(record[ing.top])
  <2>1. ing' = NoIngest \/ ing' = [ing EXCEPT !.pc = "appended", !.copy = r]
    BY <1>2 DEF AppendRead, Stop
  <2> HIDE DEF r
  <2> QED
    BY <1>0, <1>2, <2>1 DEF AppendRead, IngRecs
<1>3. CASE MergeRead
  <2> DEFINE r == Folded(record[ing.top], record[ing.id])
  <2>1. ing' = NoIngest \/ ing' = [ing EXCEPT !.pc = "merged", !.copy = r]
    BY <1>3 DEF MergeRead, Stop
  <2> HIDE DEF r
  <2> QED
    BY <1>0, <1>3, <2>1 DEF MergeRead, IngRecs
<1>4. CASE RewriteCard
  BY <1>0, <1>4 DEF RewriteCard, Stop, IngRecs
<1>5. CASE WriteRecord
  BY <1>0, <1>5 DEF WriteRecord, Goto, IngRecs
<1>6. CASE WriteBytes \/ AppendWrite \/ WriteCard \/ MergeWrite
  BY <1>0, <1>6 DEF WriteBytes, AppendWrite, WriteCard, MergeWrite, Goto, IngRecs
<1>7. CASE MergeUnlink \/ DropCard
  BY <1>0, <1>7 DEF MergeUnlink, DropCard, Goto, Stop, IngRecs
<1>8. CASE IngestBlocked \/ OpenClaim \/ IngestCrash
  BY <1>0, <1>8 DEF IngestBlocked, OpenClaim, IngestCrash, Stop
<1> QED
  BY <1>1, <1>2, <1>3, <1>4, <1>5, <1>6, <1>7, <1>8 DEF Ingest

\* An ingest ends what was clean, for its client; no other step of it changes a verdict.
LEMMA VerdictOfIngest ==
    ASSUME Types, Ingest
    PROVE  \A c \in Clients : verdict'[c] = "clean" =>
              /\ verdict[c] = "clean"
              /\ \A d \in Docs : IngestStart(d) => d.client # c
<1>0. verdict \in [Clients -> {"none", "clean", "findings"}]
  BY DEF Types, GhostTypes
<1>1. ASSUME NEW d \in Docs, IngestStart(d)
      PROVE  \A c \in Clients : verdict'[c] = IF c = d.client THEN "none" ELSE verdict[c]
  BY <1>0, <1>1, Names DEF IngestStart
<1>2. ASSUME ~\E d \in Docs : IngestStart(d) PROVE verdict' = verdict
  BY <1>2 DEF Ingest, WriteBytes, IngestBlocked, Settle, RewriteCard, AppendRead, AppendWrite,
     WriteCard, WriteRecord, MergeRead, MergeWrite, MergeUnlink, DropCard, OpenClaim, IngestCrash,
     ghosts
<1> QED
  BY <1>1, <1>2

\* Only a sweep that no ingest ran beside says clean, and no ingest runs then.
LEMMA VerdictOfOthers ==
    ASSUME Types, HoldInv, Curate \/ (\E k \in Ids : Draft(k)) \/ \E k \in Ids : Hold(k)
    PROVE  \A c \in Clients : verdict'[c] = "clean" =>
              \/ verdict[c] = "clean"
              \/ Sweep /\ ~cur.beside /\ c = cur.client /\ ing.pc = "idle"
<1>0. verdict \in [Clients -> {"none", "clean", "findings"}]
  BY DEF Types, GhostTypes
<1>1. CASE Sweep
  <2>1. cur.client \in Clients /\ cur.pc \in PurgePCs
    BY <1>1 DEF Sweep, Types, CurTypes, PurgePCs
  <2>2. \A c \in Clients : c # cur.client => verdict'[c] = verdict[c]
    BY <1>0, <1>1 DEF Sweep
  <2>3. cur.beside => verdict'[cur.client] = "none"
    BY <1>0, <1>1, <2>1 DEF Sweep
  <2> QED
    BY <1>1, <2>1, <2>2, <2>3 DEF HoldInv, Alone
<1>2. ASSUME NEW c \in Clients, PurgeStart(c) PROVE \A d \in Clients : verdict'[d] = "clean" => verdict[d] = "clean"
  <2>1. verdict' = [verdict EXCEPT ![c] = "none"]
    BY <1>2 DEF PurgeStart
  <2> QED
    BY <1>0, <2>1
<1>3. ASSUME ~Sweep, ~\E c \in Clients : PurgeStart(c) PROVE verdict' = verdict
  BY <1>3 DEF Curate, MergeStart, ApplyCard, ApplyRecord, Decide, Reject, PurgeCard, PurgeHeld,
     PurgeRecord, PurgeSourcesStart, PurgeSource, PurgeOrphans, PurgeVoid, PurgeDraftsStart,
     PurgeDraft, CuratorCrash, Draft, Hold, ghosts
<1> QED
  BY <1>1, <1>2, <1>3
\* Where the candidate goes next.
LEMMA SettleGoes ==
    ASSUME Types, Settle
    PROVE  ing'.pc \in {"claim", "rewrite", "append", "card"}
<1>0. ing \in IngRecs
  BY DEF Types, IngTypes
<1>1. ing' \in Home(ing.doc.body)
  BY DEF Settle
<1>2. CASE Matched # {}
  BY <1>0, <1>1, <1>2 DEF Home, IngRecs
<1>3. CASE Matched = {} /\ Exists(ing.doc.body)
  BY <1>0, <1>1, <1>3 DEF Home, IngRecs
<1>4. CASE Matched = {} /\ ~Exists(ing.doc.body) /\ Priors # {} /\ ing.owner = None /\ Drifted # {}
  <2>1. \E k : ing' = [ing EXCEPT !.pc = "rewrite", !.id = k]
    BY <1>1, <1>4, Zenon DEF Home
  <2> QED
    BY <1>0, <2>1 DEF IngRecs
<1>5. CASE /\ Matched = {} /\ ~Exists(ing.doc.body)
           /\ ~(Priors # {} /\ ing.owner = None /\ Drifted # {})
  BY <1>0, <1>1, <1>5 DEF Home, IngRecs
<1> QED
  BY <1>2, <1>3, <1>4, <1>5

\* What an ingest that runs beside a clean client does to it.
LEMMA QuietIngest ==
    ASSUME Types, ChunkInv, Quiet, CleanIsClean, Ingest
    PROVE  Quiet'
<1>0. ing \in IngRecs /\ material \in [Ids -> SUBSET Clients] /\ (ing.pc # "idle" => ing.id \in Ids)
  BY Names DEF Types, IngTypes, GhostTypes
<1>1. \A c \in Clients : verdict'[c] = "clean" =>
         /\ verdict[c] = "clean"
         /\ \A d \in Docs : IngestStart(d) => d.client # c
  BY VerdictOfIngest
<1>2. ASSUME NEW c \in Clients, verdict'[c] = "clean", ing'.pc # "idle"
      PROVE  ing'.doc.client # c
  <2>1. ASSUME NEW d \in Docs, IngestStart(d) PROVE ing'.doc = d
    BY <2>1 DEF IngestStart, NoIngest
  <2>2. ASSUME ~\E d \in Docs : IngestStart(d) PROVE ing.pc # "idle" /\ ing'.doc = ing.doc
    BY <1>2, <2>2, SameDocument
  <2> QED
    BY <1>1, <1>2, <2>1, <2>2 DEF Quiet
<1>3. ASSUME ing'.pc \in {"record", "merge", "merged"}
      PROVE  material'[ing'.id] \subseteq {ing'.doc.client}
  <2>1. CASE WriteCard
    <3>1. ing'.id = ing.id /\ ing'.doc = ing.doc
      BY <1>0, <2>1 DEF WriteCard, Goto, IngRecs
    <3>2. material'[ing.id] = {ing.doc.client}
      BY <1>0, <2>1 DEF WriteCard
    <3> QED
      BY <3>1, <3>2
  <2>2. CASE WriteRecord
    <3>1. ing'.id = ing.id /\ ing'.doc = ing.doc
      BY <1>0, <2>2 DEF WriteRecord, Goto, IngRecs
    <3> QED
      BY <2>2, <3>1 DEF WriteRecord, Quiet
  <2>3. CASE MergeRead
    <3> DEFINE r == Folded(record[ing.top], record[ing.id])
    <3>1. ing' = NoIngest \/ ing' = [ing EXCEPT !.pc = "merged", !.copy = r]
      BY <2>3 DEF MergeRead, Stop
    <3> HIDE DEF r
    <3>2. ing'.id = ing.id /\ ing'.doc = ing.doc
      BY <1>0, <1>3, <3>1, IngStops DEF IngRecs
    <3> QED
      BY <2>3, <3>2 DEF MergeRead, Quiet, ghosts
  <2>4. ASSUME NEW d \in Docs, IngestStart(d) PROVE FALSE
    BY <1>3, <2>4 DEF IngestStart, NoIngest
  <2>5. CASE Settle
    BY <1>3, <2>5, SettleGoes
  <2>6. CASE WriteBytes \/ RewriteCard \/ AppendWrite \/ MergeWrite
    BY <1>0, <1>3, <2>6, IngStops DEF WriteBytes, RewriteCard, AppendWrite, MergeWrite, Goto, Stop, IngRecs
  <2>7. CASE AppendRead
    <3> DEFINE r == Appended(record[ing.top])
    <3>1. ing' = NoIngest \/ ing' = [ing EXCEPT !.pc = "appended", !.copy = r]
      BY <2>7 DEF AppendRead, Stop
    <3> HIDE DEF r
    <3> QED
      BY <1>0, <1>3, <3>1, IngStops DEF IngRecs
  <2>8. CASE IngestBlocked \/ MergeUnlink \/ DropCard \/ OpenClaim \/ IngestCrash
    BY <1>0, <1>3, <2>8, IngStops DEF IngestBlocked, MergeUnlink, DropCard, OpenClaim, IngestCrash,
       Goto, Stop, IngRecs
  <2> QED
    BY <2>1, <2>2, <2>3, <2>4, <2>5, <2>6, <2>7, <2>8 DEF Ingest
<1>4. ASSUME ing'.pc = "merged", NEW c \in material'[ing'.top], verdict'[c] = "clean"
      PROVE  ing'.top \in escaped'
  <2>1. MergeRead
    <3>1. ASSUME NEW d \in Docs, IngestStart(d) PROVE FALSE
      BY <1>4, <3>1 DEF IngestStart, NoIngest
    <3>2. CASE Settle
      BY <1>4, <3>2, SettleGoes
    <3>3. CASE WriteBytes \/ RewriteCard \/ AppendWrite \/ MergeWrite \/ WriteCard \/ WriteRecord
      BY <1>0, <1>4, <3>3, IngStops DEF WriteBytes, RewriteCard, AppendWrite, MergeWrite, WriteCard,
         WriteRecord, Goto, Stop, IngRecs
    <3>4. CASE AppendRead
      <4> DEFINE r == Appended(record[ing.top])
      <4>1. ing' = NoIngest \/ ing' = [ing EXCEPT !.pc = "appended", !.copy = r]
        BY <3>4 DEF AppendRead, Stop
      <4> HIDE DEF r
      <4> QED
        BY <1>0, <1>4, <4>1, IngStops DEF IngRecs
    <3>5. CASE IngestBlocked \/ MergeUnlink \/ DropCard \/ OpenClaim \/ IngestCrash
      BY <1>0, <1>4, <3>5, IngStops DEF IngestBlocked, MergeUnlink, DropCard, OpenClaim, IngestCrash,
         Goto, Stop, IngRecs
    <3> QED
      BY <3>1, <3>2, <3>3, <3>4, <3>5 DEF Ingest
  <2> DEFINE r == Folded(record[ing.top], record[ing.id])
  <2>2. /\ ing.top \in Ids /\ record[ing.top] # None
        /\ ing' = [ing EXCEPT !.pc = "merged", !.copy = r]
    BY <1>4, <2>1, IngStops DEF MergeRead, Stop, Types, IngTypes
  <2> HIDE DEF r
  <2>3. ing'.top = ing.top /\ UNCHANGED <<material, escaped, verdict>>
    BY <1>0, <2>1, <2>2 DEF MergeRead, IngRecs, ghosts
  <2>4. c \in Clients /\ c \in material[ing.top] /\ verdict[c] = "clean"
    BY <1>0, <1>4, <2>2, <2>3
  <2>5. Exists(ing.top)
    BY <2>2, <2>4 DEF ChunkInv, Direct
  <2> QED
    BY <2>2, <2>3, <2>4, <2>5 DEF CleanIsClean, CleanMeansGone
<1> QED
  BY <1>2, <1>3, <1>4 DEF Quiet
\* The other steps leave the ingest alone.
LEMMA QuietOthers ==
    ASSUME Types, ChunkInv, HoldInv, Quiet, Curate \/ (\E k \in Ids : Draft(k)) \/ \E k \in Ids : Hold(k)
    PROVE  Quiet'
<1>0. OnCards
  BY OthersOnCards
<1>1. ing' = ing /\ material \in [Ids -> SUBSET Clients]
  BY <1>0 DEF OnCards, Types, GhostTypes
<1>2. \A c \in Clients : verdict'[c] = "clean" /\ ing.pc # "idle" => verdict[c] = "clean"
  BY VerdictOfOthers
<1>3. \A k \in Bodies : material'[k] \subseteq material[k] /\ (k \in escaped => k \in escaped')
  BY <1>0 DEF OnCards
<1>4. /\ ing.pc # "idle" => ing.id \in Bodies
      /\ ing.pc = "merged" => ing.top \in Bodies /\ ing.top \in Ids
  BY Names, Absent DEF Types, IngTypes, ChunkInv, InHand
<1>5. \A c \in Clients : verdict'[c] = "clean" /\ ing'.pc # "idle" => ing'.doc.client # c
  BY <1>1, <1>2 DEF Quiet
<1>6. ing'.pc \in {"record", "merge", "merged"} => material'[ing'.id] \subseteq {ing'.doc.client}
  BY <1>1, <1>3, <1>4 DEF Quiet
<1>7. ASSUME ing'.pc = "merged", NEW c \in material'[ing'.top], verdict'[c] = "clean"
      PROVE  ing'.top \in escaped'
  <2>1. ing.pc = "merged" /\ ing'.top = ing.top /\ ing.top \in Bodies /\ ing.top \in Ids
    BY <1>1, <1>4, <1>7
  <2>2. c \in material[ing.top] /\ c \in Clients
    BY <1>1, <1>3, <1>7, <2>1
  <2>3. verdict[c] = "clean"
    BY <1>2, <1>7, <2>1, <2>2
  <2> QED
    BY <1>3, <2>1, <2>2, <2>3 DEF Quiet
<1> QED
  BY <1>5, <1>6, <1>7 DEF Quiet

\* A client's ingest keeps its promises after every step.
LEMMA QuietStep ==
    ASSUME Types, ChunkInv, HoldInv, Quiet, CleanIsClean, [Next]_vars
    PROVE  Quiet'
<1>1. CASE UNCHANGED vars
  BY <1>1 DEF vars, files, ghosts, Quiet
<1> QED
  BY <1>1, QuietIngest, QuietOthers DEF Next

\* What an ingest does to what is stored of a client that is clean: a card that
\* holds its material was there and was passed over, or hangs by no record.
LEMMA CleanOverIngest ==
    ASSUME Types, ChunkInv, Quiet, CleanIsClean, Ingest,
           NEW c \in Clients, verdict'[c] = "clean",
           NEW k \in Ids, Exists(k)', c \in material'[k]
    PROVE  Slipped(k)'
<1>0. /\ card \in [Ids -> Card \cup {None}] /\ record \in [Ids -> Record \cup {None}]
      /\ material \in [Ids -> SUBSET Clients]
  BY DEF Types, CardTypes, RecordTypes, GhostTypes
<1>1. verdict[c] = "clean"
  BY VerdictOfIngest
<1>2. ing.pc # "idle" => /\ ing.doc.client # c /\ ing.id \in Bodies /\ ing.id \in Ids
                         /\ ing.doc.client \in Clients
  BY <1>1, Names DEF Quiet, Types, IngTypes
<1>3. Exists(k) /\ c \in material[k] => Slipped(k)
  BY <1>1 DEF CleanIsClean, CleanMeansGone, Slipped
<1>4. CASE UNCHANGED <<card, record, material>> /\ escaped \subseteq escaped'
  BY <1>3, <1>4 DEF Exists, Slipped
<1>5. CASE RewriteCard
  <2>1. CASE Exists(ing.id)
    <3>1. /\ UNCHANGED <<record, escaped>> /\ ing.pc = "rewrite"
          /\ material' = [material EXCEPT ![ing.id] = @ \cup {ing.doc.client}]
          /\ \A j \in Ids : j # ing.id => card'[j] = card[j]
      BY <1>0, <1>5, <2>1 DEF RewriteCard
    <3>2. Exists(k) /\ c \in material[k]
      BY <1>0, <1>2, <2>1, <3>1 DEF Exists
    <3> QED
      BY <1>3, <3>1, <3>2 DEF Slipped
  <2>2. CASE ~Exists(ing.id)
    BY <1>4, <1>5, <2>2 DEF RewriteCard
  <2> QED
    BY <2>1, <2>2
<1>6. CASE AppendWrite
  <2>1. /\ card' = card /\ ing.pc = "appended" /\ ing.top \in Ids
        /\ record' = [record EXCEPT ![ing.top] = ing.copy]
    BY <1>6 DEF AppendWrite, Types, IngTypes
  <2>2. material'[k] \subseteq material[k] \cup {ing.doc.client}
    BY <1>0, <1>6, <2>1 DEF AppendWrite
  <2>3. Exists(k) /\ c \in material[k]
    BY <1>2, <2>1, <2>2 DEF Exists
  <2>4. escaped \subseteq escaped' /\ (record[ing.top] = None /\ Exists(ing.top) => ing.top \in escaped')
    BY <1>6 DEF AppendWrite
  <2>5. record'[k] = IF k = ing.top THEN ing.copy ELSE record[k]
    BY <1>0, <2>1
  <2> QED
    BY <1>3, <2>3, <2>4, <2>5 DEF Slipped
<1>7. CASE WriteCard
  <2>1. /\ record' = record /\ ing.pc = "card" /\ escaped \ {ing.id} \subseteq escaped'
        /\ material' = [material EXCEPT ![ing.id] = {ing.doc.client}]
        /\ \A j \in Ids : j # ing.id => card'[j] = card[j]
    BY <1>0, <1>7 DEF WriteCard
  <2>2. k # ing.id
    BY <1>0, <1>2, <2>1
  <2>3. Exists(k) /\ c \in material[k]
    BY <1>0, <2>1, <2>2 DEF Exists
  <2> QED
    BY <1>3, <2>1, <2>2, <2>3 DEF Slipped
<1>8. CASE WriteRecord
  <2>1. /\ UNCHANGED <<card, material>> /\ ing.pc = "record" /\ escaped \ {ing.id} \subseteq escaped'
        /\ \A j \in Ids : j # ing.id => record'[j] = record[j]
    BY <1>0, <1>8 DEF WriteRecord
  <2>2. k # ing.id
    BY <1>2, <2>1 DEF Quiet
  <2> QED
    BY <1>3, <2>1, <2>2 DEF Slipped, Exists
<1>9. CASE MergeWrite
  <2>1. /\ card' = card /\ ing.pc = "merged" /\ ing.top \in Ids
        /\ \A j \in Ids : j # ing.id => record'[j] = record[j] /\ material'[j] = material[j]
        /\ material'[ing.id] \subseteq material[ing.id] \cup material[ing.top]
        /\ escaped \subseteq escaped' /\ (ing.top \in escaped => ing.id \in escaped')
    BY <1>0, <1>2, <1>9 DEF MergeWrite, Types, IngTypes
  <2>2. CASE k # ing.id
    BY <1>3, <2>1, <2>2 DEF Slipped, Exists
  <2>3. CASE k = ing.id
    <3>1. c \notin material[ing.id]
      BY <1>2, <2>1 DEF Quiet
    <3>2. c \in material[ing.top]
      BY <2>1, <2>3, <3>1
    <3>3. ing.top \in escaped
      BY <1>1, <2>1, <3>2 DEF Quiet
    <3> QED
      BY <2>1, <2>3, <3>3 DEF Slipped
  <2> QED
    BY <2>2, <2>3
<1>10. CASE MergeUnlink
  <2>1. /\ UNCHANGED <<card, material>> /\ escaped \subseteq escaped'
        /\ record' = [record EXCEPT ![ing.top] = None]
    BY <1>10 DEF MergeUnlink
  <2>2. record'[k] \in {record[k], None}
    BY <1>0, <2>1
  <2> QED
    BY <1>3, <2>1, <2>2 DEF Slipped, Exists
<1>11. CASE DropCard
  <2>1. /\ UNCHANGED <<record, escaped>> /\ card' = [card EXCEPT ![ing.top] = None]
        /\ material' = [material EXCEPT ![ing.top] = {}]
    BY <1>11 DEF DropCard
  <2>2. k # ing.top
    BY <1>0, <2>1
  <2>3. card'[k] = card[k] /\ material'[k] = material[k]
    BY <1>0, <2>1, <2>2
  <2> QED
    BY <1>3, <2>1, <2>3 DEF Slipped, Exists
<1>12. CASE \/ (\E d \in Docs : IngestStart(d)) \/ WriteBytes \/ IngestBlocked \/ Settle
            \/ AppendRead \/ MergeRead \/ OpenClaim \/ IngestCrash
  <2>1. UNCHANGED <<card, record, material, escaped>>
    BY <1>12 DEF IngestStart, WriteBytes, IngestBlocked, Settle, AppendRead, MergeRead, OpenClaim,
       IngestCrash, files, ghosts
  <2> QED
    BY <1>4, <2>1
<1> QED
  BY <1>5, <1>6, <1>7, <1>8, <1>9, <1>10, <1>11, <1>12 DEF Ingest
\* An ingest opens proposals, and stores documents and models, of its client only.
LEMMA CleanIngest ==
    ASSUME Types, ChunkInv, Quiet, CleanIsClean, Ingest
    PROVE  CleanIsClean'
<1> SUFFICES ASSUME NEW c \in Clients, verdict'[c] = "clean"
             PROVE  /\ \A k \in Ids : Exists(k)' /\ c \in material'[k] => Slipped(k)'
                    /\ \A p \in Keys : p.client = c /\ proposal'[p] = "proposed" => p \in stray'
                    /\ holds' = 0 => \A d \in source' \cup (model' \ stray') : d.client # c
                    /\ \A d \in drafts' : c \in d.of => d.missed
  BY DEF CleanIsClean, CleanMeansGone, DraftsFollowCards, Slipped
<1>1. verdict[c] = "clean"
  BY VerdictOfIngest
<1>2. /\ \A p \in Keys : p.client = c /\ proposal[p] = "proposed" => p \in stray
      /\ holds = 0 => \A d \in source \cup (model \ stray) : d.client # c
      /\ \A d \in drafts : c \in d.of => d.missed
  BY <1>1 DEF CleanIsClean, CleanMeansGone, DraftsFollowCards
<1>3. \A k \in Ids : Exists(k)' /\ c \in material'[k] => Slipped(k)'
  BY CleanOverIngest
<1>4. ing.pc # "idle" => ing.doc.client # c
  BY <1>1 DEF Quiet
<1>5. stray \subseteq stray'
  BY DEF Ingest, IngestStart, WriteBytes, IngestBlocked, Settle, RewriteCard, AppendRead,
     AppendWrite, WriteCard, WriteRecord, MergeRead, MergeWrite, MergeUnlink, DropCard, OpenClaim,
     IngestCrash, ghosts
<1>6. drafts' = drafts /\ holds' = holds
  BY DEF Ingest, IngestStart, WriteBytes, IngestBlocked, Settle, RewriteCard, AppendRead,
     AppendWrite, WriteCard, WriteRecord, MergeRead, MergeWrite, MergeUnlink, DropCard, OpenClaim,
     IngestCrash, files, counts
<1>7. ASSUME NEW p \in Keys, p.client = c, proposal'[p] = "proposed" PROVE proposal[p] = "proposed"
  <2>1. CASE OpenClaim
    <3> DEFINE q == [client |-> ing.doc.client, claim |-> ing.doc.body, from |-> ing.id]
    <3>1. ing.pc = "claim" /\ q.client # c
      BY <1>4, <2>1 DEF OpenClaim
    <3>2. proposal' \in {proposal, [proposal EXCEPT ![q] = "proposed"]}
      BY <2>1 DEF OpenClaim
    <3>3. p # q
      BY <1>7, <3>1
    <3> HIDE DEF q
    <3> QED
      BY <1>7, <3>2, <3>3 DEF Types, ProposalTypes
  <2>2. CASE ~OpenClaim
    <3>1. proposal' = proposal
      BY <2>2 DEF Ingest, IngestStart, WriteBytes, IngestBlocked, Settle, RewriteCard, AppendRead,
         AppendWrite, WriteCard, WriteRecord, MergeRead, MergeWrite, MergeUnlink, DropCard,
         IngestCrash, files
    <3> QED
      BY <1>7, <3>1
  <2> QED
    BY <2>1, <2>2
<1>8. ASSUME ~(ing.pc # "idle" /\ source' \subseteq source \cup {ing.doc} /\ model' \subseteq model \cup {ing.doc})
      PROVE  source' = source /\ model' = model
  BY <1>8 DEF Ingest, IngestStart, WriteBytes, IngestBlocked, Settle, RewriteCard, AppendRead,
     AppendWrite, WriteCard, WriteRecord, MergeRead, MergeWrite, MergeUnlink, DropCard, OpenClaim,
     IngestCrash, files
<1>9. holds = 0 => \A d \in source' \cup (model' \ stray') : d.client # c
  BY <1>2, <1>4, <1>5, <1>8
<1> QED
  BY <1>2, <1>3, <1>5, <1>6, <1>7, <1>9

\* What most of the other steps do: nothing new is stored.
Shrinks ==
    /\ \A k \in Ids :
          /\ Exists(k)' => Exists(k) /\ material'[k] = material[k]
          /\ record'[k] \in {record[k], None}
    /\ \A p \in Keys : proposal'[p] = "proposed" => proposal[p] = "proposed"
    /\ source' \subseteq source /\ model' \subseteq model
    /\ escaped \subseteq escaped' /\ stray \subseteq stray' /\ (holds' = 0 => holds = 0)

\* The steps of the curator but the two that write the card of a claim.
LEMMA CurateShrinks ==
    ASSUME Types, Curate, ~\E p \in Keys : ApplyCard(p), ~ApplyRecord
    PROVE  Shrinks
<1>0. /\ card \in [Ids -> Card \cup {None}] /\ record \in [Ids -> Record \cup {None}]
      /\ material \in [Ids -> SUBSET Clients] /\ proposal \in [Keys -> Statuses]
  BY DEF Types, CardTypes, RecordTypes, GhostTypes, ProposalTypes
<1>1. holds' = holds
  BY DEF Curate, MergeStart, Decide, Reject, PurgeStart, PurgeCard, PurgeHeld, PurgeRecord,
     PurgeSourcesStart, PurgeSource, PurgeOrphans, PurgeVoid, PurgeDraftsStart, PurgeDraft, Sweep,
     CuratorCrash, counts
<1>2. escaped \subseteq escaped' /\ stray \subseteq stray'
  BY DEF Curate, MergeStart, Decide, Reject, PurgeStart, PurgeCard, PurgeHeld, PurgeRecord,
     PurgeSourcesStart, PurgeSource, PurgeOrphans, PurgeVoid, PurgeDraftsStart, PurgeDraft, Sweep,
     CuratorCrash, PurgeDies, ghosts
<1>3. source' \subseteq source /\ model' \subseteq model
  BY DEF Curate, MergeStart, Decide, Reject, PurgeStart, PurgeCard, PurgeHeld, PurgeRecord,
     PurgeSourcesStart, PurgeSource, PurgeOrphans, PurgeVoid, PurgeDraftsStart, PurgeDraft, Sweep,
     CuratorCrash, files
<1>4. ASSUME NEW p \in Keys, proposal'[p] = "proposed" PROVE proposal[p] = "proposed"
  <2>1. \/ proposal' = proposal
        \/ \E q, s : s # "proposed" /\ proposal' = [proposal EXCEPT ![q] = s]
    BY DEF Curate, MergeStart, Decide, Reject, PurgeStart, PurgeCard, PurgeHeld, PurgeRecord,
       PurgeSourcesStart, PurgeSource, PurgeOrphans, PurgeVoid, PurgeDraftsStart, PurgeDraft, Sweep,
       CuratorCrash, files
  <2> QED
    BY <1>0, <1>4, <2>1
<1>5. ASSUME NEW k \in Ids PROVE record'[k] \in {record[k], None}
  <2>1. record' = record \/ record' = [record EXCEPT ![cur.item] = None]
    BY DEF Curate, MergeStart, Decide, Reject, PurgeStart, PurgeCard, PurgeHeld, PurgeRecord,
       PurgeSourcesStart, PurgeSource, PurgeOrphans, PurgeVoid, PurgeDraftsStart, PurgeDraft, Sweep,
       CuratorCrash, files
  <2> QED
    BY <1>0, <2>1
<1>6. ASSUME NEW k \in Ids, Exists(k)' PROVE Exists(k) /\ material'[k] = material[k]
  <2>1. CASE UNCHANGED <<card, material>>
    BY <1>6, <2>1 DEF Exists
  <2>2. ASSUME NEW j \in Ids, PurgeCard(j), ~UNCHANGED <<card, material>>
        PROVE  Exists(k) /\ material'[k] = material[k]
    <3>1. card' = [card EXCEPT ![j] = None] /\ material' = [material EXCEPT ![j] = {}]
      BY <2>2 DEF PurgeCard
    <3>2. k # j
      BY <1>0, <1>6, <3>1 DEF Exists
    <3> QED
      BY <1>0, <1>6, <3>1, <3>2 DEF Exists
  <2>3. ASSUME ~\E j \in Ids : PurgeCard(j) PROVE UNCHANGED <<card, material>>
    BY <2>3 DEF Curate, MergeStart, Decide, Reject, PurgeStart, PurgeHeld, PurgeRecord,
       PurgeSourcesStart, PurgeSource, PurgeOrphans, PurgeVoid, PurgeDraftsStart, PurgeDraft, Sweep,
       CuratorCrash, files, ghosts
  <2> QED
    BY <2>1, <2>2, <2>3
<1> QED
  BY <1>1, <1>2, <1>3, <1>4, <1>5, <1>6 DEF Shrinks
\* An ingest opens proposals; the card of a claim gets material of its client only.
LEMMA BatchIngest ==
    ASSUME Types, Quiet, Batch, Ingest
    PROVE  Batch'
<1>0. /\ cur \in CurRecs /\ material \in [Ids -> SUBSET Clients] /\ proposal \in [Keys -> Statuses]
      /\ (ing.pc # "idle" => ing.id \in Bodies)
      /\ (cur.pc = "link" => Fact(cur.claim.claim) \notin Bodies /\ Fact(cur.claim.claim) \in Ids)
  BY Names DEF Types, CurTypes, GhostTypes, ProposalTypes, IngTypes
<1>1. /\ cur'.pc = cur.pc /\ cur'.claims = cur.claims /\ cur'.claim = cur.claim
      /\ cur'.loose = cur.loose
  <2>1. ASSUME NEW d \in Docs, IngestStart(d)
        PROVE  /\ cur'.pc = cur.pc /\ cur'.claims = cur.claims /\ cur'.claim = cur.claim
               /\ cur'.loose = cur.loose
    <3> DEFINE b == cur.pc # "idle"
    <3>1. cur' = [cur EXCEPT !.beside = b]
      BY <2>1 DEF IngestStart
    <3> HIDE DEF b
    <3> QED
      BY <1>0, <3>1 DEF CurRecs
  <2>2. ASSUME ~\E d \in Docs : IngestStart(d) PROVE cur' = cur
    BY <2>2 DEF Ingest, WriteBytes, IngestBlocked, Settle, RewriteCard, AppendRead, AppendWrite,
       WriteCard, WriteRecord, MergeRead, MergeWrite, MergeUnlink, DropCard, OpenClaim, IngestCrash
  <2> QED
    BY <2>1, <2>2
<1>2. ASSUME NEW p \in Keys, proposal[p] = "proposed" PROVE proposal'[p] = "proposed"
  <2>1. proposal' = proposal \/ \E q : proposal' = [proposal EXCEPT ![q] = "proposed"]
    BY DEF Ingest, IngestStart, WriteBytes, IngestBlocked, Settle, RewriteCard, AppendRead,
       AppendWrite, WriteCard, WriteRecord, MergeRead, MergeWrite, MergeUnlink, DropCard, OpenClaim,
       IngestCrash, files
  <2> QED
    BY <1>0, <1>2, <2>1
<1>3. ASSUME NEW f \in Ids \ Bodies
      PROVE  \/ material'[f] \subseteq material[f]
             \/ ing.pc # "idle" /\ material'[f] \subseteq material[f] \cup {ing.doc.client}
  <2>1. CASE RewriteCard \/ WriteCard \/ MergeWrite
    <3>1. ing.id # f
      BY <1>0, <1>3, <2>1 DEF RewriteCard, WriteCard, MergeWrite
    <3> QED
      BY <1>0, <2>1, <3>1 DEF RewriteCard, WriteCard, MergeWrite
  <2>2. CASE AppendWrite
    BY <1>0, <2>2 DEF AppendWrite
  <2>3. CASE DropCard
    BY <1>0, <2>3 DEF DropCard
  <2>4. CASE ~RewriteCard /\ ~WriteCard /\ ~MergeWrite /\ ~AppendWrite /\ ~DropCard
    BY <2>4 DEF Ingest, IngestStart, WriteBytes, IngestBlocked, Settle, AppendRead,
       WriteRecord, MergeRead, MergeUnlink, OpenClaim, IngestCrash, ghosts
  <2> QED
    BY <2>1, <2>2, <2>3, <2>4
<1>4. cur'.pc \in MergePCs => \A p \in cur'.claims : proposal'[p] = "proposed"
  BY <1>0, <1>1, <1>2 DEF Batch, CurRecs
<1>5. ASSUME cur'.pc = "link", NEW c \in material'[Fact(cur'.claim.claim)], verdict'[c] = "clean"
      PROVE  cur'.loose
  <2> DEFINE f == Fact(cur.claim.claim)
  <2>1. f \in Ids \ Bodies /\ c \in material'[f] /\ cur.pc = "link"
    BY <1>0, <1>1, <1>5
  <2>2. (\E d \in Docs : IngestStart(d)) => material' = material
    BY DEF IngestStart
  <2>3. ing.pc # "idle" => ing.doc.client \in Clients
    BY Names DEF Types, IngTypes
  <2>4. c \in Clients
    BY <1>0, <1>3, <2>1, <2>3
  <2>5. verdict[c] = "clean"
    BY <1>5, <2>4, VerdictOfIngest
  <2>6. c \in material[f]
    BY <1>3, <2>1, <2>4, <2>5 DEF Quiet
  <2> QED
    BY <1>1, <2>1, <2>5, <2>6 DEF Batch
<1> QED
  BY <1>4, <1>5 DEF Batch

\* A batch accepts what is proposed, and remembers where it came from.
LEMMA BatchOthers ==
    ASSUME Types, HoldInv, Batch, CleanIsClean,
           Curate \/ (\E k \in Ids : Draft(k)) \/ \E k \in Ids : Hold(k)
    PROVE  Batch'
<1>0. /\ cur \in CurRecs /\ material \in [Ids -> SUBSET Clients] /\ proposal \in [Keys -> Statuses]
      /\ NoCurator.pc = "idle"
  BY CurStops DEF Types, CurTypes, GhostTypes, ProposalTypes
<1>1. CASE MergeStart
  <2>1. PICK batch \in SUBSET {p \in Keys : proposal[p] = "proposed" /\ Acceptable(p)} :
           cur' = [NoCurator EXCEPT !.pc = "apply", !.claims = batch]
    BY <1>1 DEF MergeStart
  <2>2. cur'.pc = "apply" /\ cur'.claims = batch
    BY <2>1 DEF NoCurator
  <2> QED
    BY <1>1, <2>1, <2>2 DEF MergeStart, Batch, MergePCs, files
<1>2. ASSUME NEW p \in Keys, ApplyCard(p), cur' # NoCurator PROVE Batch'
  <2> DEFINE l == Loose(p)
             f == Fact(p.claim)
  <2>1. /\ cur.pc = "apply" /\ p \in cur.claims /\ proposal' = proposal /\ Exists(p.from)
        /\ cur' = [cur EXCEPT !.pc = "link", !.claim = p, !.loose = l]
        /\ material' = [material EXCEPT ![f] = {p.client} \cup material[p.from]]
        /\ verdict' = verdict
    BY <1>2 DEF ApplyCard, Release, Acceptable
  <2>2. f \in Ids /\ p.from \in Ids /\ p.client \in Clients
    BY Names
  <2>3. material'[f] = {p.client} \cup material[p.from]
    BY <1>0, <2>1, <2>2
  <2>4. \A c \in material'[f] : verdict'[c] = "clean" => l
    <3>1. verdict[p.client] = "clean" => p \in stray
      BY <2>1, <2>2 DEF CleanIsClean, CleanMeansGone, Batch, MergePCs
    <3>2. \A c \in material[p.from] : verdict[c] = "clean" => p.from \in escaped \/ record[p.from] = None
      BY <1>0, <2>1, <2>2 DEF CleanIsClean, CleanMeansGone
    <3> QED
      BY <2>1, <2>3, <3>1, <3>2 DEF Loose
  <2> HIDE DEF l
  <2>5. cur'.pc = "link" /\ cur'.claim = p /\ cur'.loose = l /\ cur'.claims = cur.claims
    BY <1>0, <2>1 DEF CurRecs
  <2> QED
    BY <1>0, <2>1, <2>4, <2>5 DEF Batch, MergePCs
<1>3. CASE ApplyRecord
  <2>1. cur'.pc = "decide" /\ cur'.claims = cur.claims /\ proposal' = proposal /\ cur.pc = "link"
    BY <1>0, <1>3 DEF ApplyRecord, CurRecs
  <2> QED
    BY <2>1 DEF Batch, MergePCs
<1>4. ASSUME Decide, cur' # NoCurator PROVE Batch'
  <2> DEFINE rest == cur.claims \ {cur.claim}
  <2>1. /\ cur' = [cur EXCEPT !.pc = "apply", !.claims = rest, !.claim = None]
        /\ proposal' = [proposal EXCEPT ![cur.claim] = "accepted"]
    BY <1>4 DEF Decide, Release
  <2> HIDE DEF rest
  <2>2. cur'.pc = "apply" /\ cur'.claims = rest
    BY <1>0, <2>1 DEF CurRecs
  <2>3. \A p \in rest : proposal'[p] = proposal[p]
    BY <1>0, <2>1 DEF CurRecs, rest
  <2>4. \A p \in rest : proposal[p] = "proposed"
    BY <1>4 DEF rest, Decide, Batch, MergePCs
  <2> QED
    BY <2>2, <2>3, <2>4 DEF Batch
<1>5. CASE \/ (\E p \in Keys : Reject(p)) \/ (\E k \in Ids : Draft(k)) \/ \E k \in Ids : Hold(k)
  <2>1. CASE \E p \in Keys : Reject(p)
    BY <2>1 DEF Reject, Free, Batch, MergePCs
  <2>2. CASE (\E k \in Ids : Draft(k)) \/ \E k \in Ids : Hold(k)
    BY <2>2 DEF Draft, Hold, Batch, files, ghosts
  <2> QED
    BY <1>5, <2>1, <2>2
<1>6. CASE cur' = NoCurator
  BY <1>0, <1>6 DEF Batch, MergePCs
<1>7. ASSUME NEW c \in Clients, PurgeStart(c) PROVE Batch'
  <2> DEFINE S == Closure(c)
             b == ing.pc # "idle"
  <2>1. cur' = [NoCurator EXCEPT !.pc = "cards", !.client = c, !.cards = S, !.beside = b]
    BY <1>7 DEF PurgeStart
  <2> HIDE DEF S, b
  <2>2. cur'.pc = "cards"
    BY <2>1 DEF NoCurator
  <2> QED
    BY <2>2 DEF Batch, MergePCs
<1>8. CASE (\E k \in Ids : PurgeCard(k) \/ PurgeHeld(k)) \/ PurgeRecord
  <2>1. cur'.pc \in {"idle", "cards", "record"}
    <3>1. ASSUME NEW k \in Ids, PurgeCard(k) PROVE cur'.pc \in {"idle", "cards", "record"}
      BY <1>0, <3>1 DEF PurgeCard, PurgeDies, Release, CurRecs
    <3>2. ASSUME NEW k \in Ids, PurgeHeld(k) PROVE cur'.pc \in {"idle", "cards", "record"}
      BY <1>0, <3>2 DEF PurgeHeld, CurRecs
    <3>3. CASE PurgeRecord
      BY <1>0, <3>3 DEF PurgeRecord, PurgeDies, Release, CurRecs
    <3> QED
      BY <1>8, <3>1, <3>2, <3>3
  <2> QED
    BY <2>1 DEF Batch, MergePCs
<1>9. CASE \/ PurgeSourcesStart \/ (\E d \in Docs : PurgeSource(d)) \/ PurgeOrphans
           \/ (\E p \in Keys : PurgeVoid(p)) \/ PurgeDraftsStart \/ (\E d \in drafts : PurgeDraft(d))
  <2>1. cur'.pc \in {"sources", "void", "drafts"}
    <3>1. CASE PurgeSourcesStart
      BY <1>0, <3>1 DEF PurgeSourcesStart, CurRecs
    <3>2. ASSUME NEW d \in Docs, PurgeSource(d) PROVE cur'.pc = "sources"
      BY <1>0, <3>2 DEF PurgeSource, CurRecs
    <3>3. CASE PurgeOrphans
      <4> DEFINE S == Cites(cur.purged)
      <4>1. cur' = [cur EXCEPT !.pc = "void", !.claims = S]
        BY <3>3 DEF PurgeOrphans
      <4> HIDE DEF S
      <4> QED
        BY <1>0, <4>1 DEF CurRecs
    <3>4. ASSUME NEW p \in Keys, PurgeVoid(p) PROVE cur'.pc = "void"
      BY <1>0, <3>4 DEF PurgeVoid, CurRecs
    <3>5. CASE PurgeDraftsStart
      BY <1>0, <3>5 DEF PurgeDraftsStart, CurRecs
    <3>6. ASSUME NEW d \in drafts, PurgeDraft(d) PROVE cur'.pc = "drafts"
      BY <3>6 DEF PurgeDraft
    <3> QED
      BY <1>9, <3>1, <3>2, <3>3, <3>4, <3>5, <3>6
  <2> QED
    BY <2>1 DEF Batch, MergePCs
<1>10. CASE Sweep \/ CuratorCrash
  BY <1>6, <1>10 DEF Sweep, CuratorCrash, PurgeDies, Release
<1> QED
  BY <1>1, <1>2, <1>3, <1>4, <1>5, <1>6, <1>7, <1>8, <1>9, <1>10 DEF Curate
\* A draft that a purge leaves is one that was there, missed if that one was.
LEMMA DraftsShrink ==
    ASSUME Types, Curate, NEW d \in drafts'
    PROVE  \E e \in drafts : d.card = e.card /\ d.of = e.of /\ (e.missed => d.missed)
<1>0. drafts \subseteq DraftRecs
  BY DEF Types, DraftTypes
<1>1. ASSUME NEW e \in drafts, NEW m \in BOOLEAN, d = [e EXCEPT !.missed = m], e.missed => m
      PROVE  d.card = e.card /\ d.of = e.of /\ (e.missed => d.missed)
  BY <1>0, <1>1 DEF DraftRecs
<1>2. ASSUME NEW c \in Clients, PurgeStart(c)
      PROVE  \E e \in drafts : d.card = e.card /\ d.of = e.of /\ (e.missed => d.missed)
  <2>1. PICK e \in drafts : d = [e EXCEPT !.missed = @ \/ (c \in e.of /\ e.card \notin Derived(c))]
    BY <1>2 DEF PurgeStart
  <2> DEFINE m == e.missed \/ (c \in e.of /\ e.card \notin Derived(c))
  <2>2. d = [e EXCEPT !.missed = m] /\ m \in BOOLEAN /\ (e.missed => m)
    BY <1>0, <2>1 DEF DraftRecs
  <2> HIDE DEF m
  <2> QED
    BY <1>1, <2>2
<1>3. ASSUME NEW k \in Ids, PurgeHeld(k)
      PROVE  \E e \in drafts : d.card = e.card /\ d.of = e.of /\ (e.missed => d.missed)
  <2>1. PICK e \in drafts : d = [e EXCEPT !.missed = @ \/ e.card = k]
    BY <1>3 DEF PurgeHeld
  <2> DEFINE m == e.missed \/ e.card = k
  <2>2. d = [e EXCEPT !.missed = m] /\ m \in BOOLEAN /\ (e.missed => m)
    BY <1>0, <2>1 DEF DraftRecs
  <2> HIDE DEF m
  <2> QED
    BY <1>1, <2>2
<1>4. ASSUME ~\E c \in Clients : PurgeStart(c), ~\E k \in Ids : PurgeHeld(k) PROVE drafts' \subseteq drafts
  BY <1>4 DEF Curate, MergeStart, ApplyCard, ApplyRecord, Decide, Reject, PurgeCard, PurgeRecord,
     PurgeSourcesStart, PurgeSource, PurgeOrphans, PurgeVoid, PurgeDraftsStart, PurgeDraft, Sweep,
     CuratorCrash, files
<1> QED
  BY <1>2, <1>3, <1>4

\* A sweep that no ingest ran beside says clean when nothing of the client is left.
LEMMA CleanSweep ==
    ASSUME Types, HoldInv, Going, Sweep, ~cur.beside, verdict'[cur.client] = "clean",
           NEW c \in Clients, c = cur.client
    PROVE  /\ \A k \in Ids : Exists(k) /\ c \in material[k] => Slipped(k)
           /\ \A p \in Keys : p.client = c /\ proposal[p] = "proposed" => p \in stray
           /\ holds = 0 => \A d \in source \cup (model \ stray) : d.client # c
           /\ \A d \in drafts : c \in d.of => d.missed
<1>1. cur.pc = "drafts" /\ cur.pc \in PurgePCs /\ cur.cards = {} /\ Citing = {}
  BY DEF Sweep, PurgePCs, HoldInv, Listed
<1>2. \A d \in drafts : d.card \notin cur.purged
  BY <1>1 DEF Citing
<1> QED
  BY <1>1, <1>2 DEF Going

\* The other steps remove, or make a card of what was passed over.
LEMMA CleanOthers ==
    ASSUME Types, HoldInv, Batch, Going, CleanIsClean,
           Curate \/ (\E k \in Ids : Draft(k)) \/ \E k \in Ids : Hold(k)
    PROVE  CleanIsClean'
<1> SUFFICES ASSUME NEW c \in Clients, verdict'[c] = "clean"
             PROVE  /\ \A k \in Ids : Exists(k)' /\ c \in material'[k] => Slipped(k)'
                    /\ \A p \in Keys : p.client = c /\ proposal'[p] = "proposed" => p \in stray'
                    /\ holds' = 0 => \A d \in source' \cup (model' \ stray') : d.client # c
                    /\ \A d \in drafts' : c \in d.of => d.missed
  BY DEF CleanIsClean, CleanMeansGone, DraftsFollowCards, Slipped
<1>0. /\ card \in [Ids -> Card \cup {None}] /\ record \in [Ids -> Record \cup {None}]
      /\ material \in [Ids -> SUBSET Clients]
  BY DEF Types, CardTypes, RecordTypes, GhostTypes
<1>1. /\ \A k \in Ids : Exists(k) /\ c \in material[k] => Slipped(k)
      /\ \A p \in Keys : p.client = c /\ proposal[p] = "proposed" => p \in stray
      /\ holds = 0 => \A d \in source \cup (model \ stray) : d.client # c
      /\ \A d \in drafts : c \in d.of => d.missed
  <2>1. CASE verdict[c] = "clean"
    BY <2>1 DEF CleanIsClean, CleanMeansGone, DraftsFollowCards, Slipped
  <2>2. CASE verdict[c] # "clean"
    <3>1. Sweep /\ ~cur.beside /\ c = cur.client
      BY <2>2, VerdictOfOthers
    <3> QED
      BY <3>1, CleanSweep
  <2> QED
    BY <2>1, <2>2
<1>2. ASSUME Curate, ~\E p \in Keys : ApplyCard(p), ~ApplyRecord
      PROVE  /\ \A k \in Ids : Exists(k)' /\ c \in material'[k] => Slipped(k)'
             /\ \A p \in Keys : p.client = c /\ proposal'[p] = "proposed" => p \in stray'
             /\ holds' = 0 => \A d \in source' \cup (model' \ stray') : d.client # c
             /\ \A d \in drafts' : c \in d.of => d.missed
  <2>1. Shrinks
    BY <1>2, CurateShrinks
  <2>2. \A d \in drafts' : c \in d.of => d.missed
    BY <1>1, <1>2, DraftsShrink
  <2>3. \A k \in Ids : Exists(k)' /\ c \in material'[k] => Slipped(k)'
    BY <1>1, <2>1 DEF Shrinks, Slipped
  <2> QED
    BY <1>1, <2>1, <2>2, <2>3 DEF Shrinks
<1>3. ASSUME NEW p \in Keys, ApplyCard(p)
      PROVE  /\ \A k \in Ids : Exists(k)' /\ c \in material'[k] => Slipped(k)'
             /\ UNCHANGED <<source, model, proposal, drafts, stray, holds>>
  <2> DEFINE f == Fact(p.claim)
  <2>0. f \in Ids
    BY Names
  <2>1. /\ UNCHANGED <<source, model, proposal, drafts, stray, holds, record>>
        /\ escaped \subseteq escaped'
    BY <1>3 DEF ApplyCard, counts
  <2>2. ASSUME NEW k \in Ids, k # f PROVE card'[k] = card[k] /\ material'[k] = material[k]
    BY <1>0, <1>3, <2>2 DEF ApplyCard
  <2>3. CASE UNCHANGED <<card, material>>
    BY <1>1, <2>1, <2>3 DEF Exists, Slipped
  <2>4. CASE escaped' = escaped \cup ({f} \cap Recorded)
    <3>1. Slipped(f)'
      BY <2>0, <2>1, <2>4 DEF Slipped, Recorded
    <3> QED
      BY <1>1, <2>1, <2>2, <3>1 DEF Exists, Slipped
  <2> QED
    BY <1>3, <2>1, <2>3, <2>4 DEF ApplyCard
<1>4. ASSUME ApplyRecord
      PROVE  /\ \A k \in Ids : Exists(k)' /\ c \in material'[k] => Slipped(k)'
             /\ UNCHANGED <<source, model, proposal, drafts, stray, holds>>
  <2> DEFINE f == Fact(cur.claim.claim)
  <2>1. /\ UNCHANGED <<source, model, proposal, drafts, stray, holds, card, material, verdict>>
        /\ escaped \ {f} \subseteq escaped' /\ (cur.loose => f \in escaped') /\ cur.pc = "link"
    BY <1>4 DEF ApplyRecord, counts
  <2>2. \A k \in Ids : k # f => record'[k] = record[k]
    BY <1>0, <1>4 DEF ApplyRecord
  <2>3. c \in material[f] => f \in escaped'
    BY <2>1 DEF Batch
  <2> QED
    BY <1>1, <2>1, <2>2, <2>3 DEF Exists, Slipped
<1>5. ASSUME NEW k \in Ids, Draft(k)
      PROVE  /\ UNCHANGED <<source, model, proposal, stray, holds, card, record, material, escaped>>
             /\ \A d \in drafts' : c \in d.of => d.missed
  <2> DEFINE m == k \in escaped \/ record[k] = None
             x == [card |-> k, of |-> material[k], missed |-> m]
  <2>1. /\ UNCHANGED <<source, model, proposal, stray, holds, card, record, material, escaped>>
        /\ drafts' = drafts \cup {x} /\ Exists(k)
    BY <1>5 DEF Draft, ghosts, counts
  <2>2. c \in x.of => x.missed
    BY <1>1, <2>1 DEF Slipped
  <2> HIDE DEF x
  <2> QED
    BY <1>1, <2>1, <2>2
<1>6. ASSUME NEW k \in Ids, Hold(k)
      PROVE  /\ UNCHANGED <<source, model, proposal, stray, drafts, record, material, escaped>>
             /\ \A j \in Ids : Exists(j)' => Exists(j)
             /\ holds' = 0 => holds = 0
  <2>1. holds \in Nat
    BY BoundAssumption DEF Types, CountTypes
  <2> QED
    BY <1>0, <1>6, <2>1 DEF Hold, Exists, ghosts
<1> QED
  <2>1. CASE Curate /\ (~\E p \in Keys : ApplyCard(p)) /\ ~ApplyRecord
    BY <1>2, <2>1
  <2>2. CASE (\E p \in Keys : ApplyCard(p)) \/ ApplyRecord
    BY <1>1, <1>3, <1>4, <2>2
  <2>3. CASE \E k \in Ids : Draft(k)
    BY <1>1, <1>5, <2>3 DEF Exists, Slipped
  <2>4. CASE \E k \in Ids : Hold(k)
    BY <1>1, <1>6, <2>4 DEF Slipped
  <2> QED
    BY <2>1, <2>2, <2>3, <2>4
\* What a purge step leaves of what was to go.
LEMMA GoingCore ==
    ASSUME Types, Going, Curate, ~\E p \in Keys : ApplyCard(p), ~ApplyRecord,
           cur.pc \in PurgePCs, ~cur.beside, NEW c, c = cur.client,
           NEW covered, covered = cur.cards \cup cur.purged
    PROVE  /\ Shrinks
           /\ \A k \in Ids : Exists(k)' /\ c \in material'[k] => k \in cur.cards \/ Slipped(k)'
           /\ \A p \in Keys : p.client = c /\ proposal'[p] = "proposed" =>
                 /\ proposal[p] = "proposed"
                 /\ \/ p \in stray'
                    \/ cur.pc \in {"cards", "record", "sources"} /\ p.from \in covered
                    \/ cur.pc = "void" /\ p \in cur.claims
           /\ \A d \in drafts' : c \in d.of => d.missed \/ d.card \in covered
           /\ cur.pc = "sources" =>
                 \A d \in source \cap meta : d.client = c => d \in cur.docs \cup cur.kept
           /\ cur.pc \in {"void", "drafts", "sweep"} /\ holds' = 0 =>
                 \A d \in source' \cup (model' \ stray') : d.client # c
<1>1. Shrinks
  BY CurateShrinks
<1>2. /\ \A k \in Ids : Exists(k) /\ c \in material[k] => k \in cur.cards \/ Slipped(k)
      /\ \A p \in Keys : p.client = c /\ proposal[p] = "proposed" =>
            \/ p \in stray
            \/ cur.pc \in {"cards", "record", "sources"} /\ p.from \in covered
            \/ cur.pc = "void" /\ p \in cur.claims
      /\ \A d \in drafts : c \in d.of => d.missed \/ d.card \in covered
      /\ cur.pc = "sources" =>
            \A d \in source \cap meta : d.client = c => d \in cur.docs \cup cur.kept
      /\ cur.pc \in {"void", "drafts", "sweep"} /\ holds = 0 =>
            \A d \in source \cup (model \ stray) : d.client # c
  BY DEF Going
<1>3. \A k \in Ids : Exists(k)' /\ c \in material'[k] => k \in cur.cards \/ Slipped(k)'
  BY <1>1, <1>2 DEF Shrinks, Slipped
<1>4. \A p \in Keys : p.client = c /\ proposal'[p] = "proposed" =>
         /\ proposal[p] = "proposed"
         /\ \/ p \in stray'
            \/ cur.pc \in {"cards", "record", "sources"} /\ p.from \in covered
            \/ cur.pc = "void" /\ p \in cur.claims
  BY <1>1, <1>2 DEF Shrinks
<1>5. \A d \in drafts' : c \in d.of => d.missed \/ d.card \in covered
  BY <1>2, DraftsShrink
<1>6. cur.pc \in {"void", "drafts", "sweep"} /\ holds' = 0 =>
         \A d \in source' \cup (model' \ stray') : d.client # c
  BY <1>1, <1>2 DEF Shrinks
<1> QED
  BY <1>1, <1>2, <1>3, <1>4, <1>5, <1>6

\* When a purge starts, the records lead to what is the client's.
LEMMA GoingStart ==
    ASSUME Types, HoldInv, LineageKept, NEW c \in Clients, PurgeStart(c)
    PROVE  Going'
<1> DEFINE S == Closure(c)
           b == ing.pc # "idle"
<1>1. Derived(c) \subseteq S
  BY ClosureIsLeast DEF Derived
<1>2. cur' = [NoCurator EXCEPT !.pc = "cards", !.client = c, !.cards = S, !.beside = b]
      /\ UNCHANGED <<card, record, material, proposal>> /\ cur.pc = "idle"
      /\ escaped' = escaped \cup (Lineage(c) \ Derived(c))
      /\ stray' = stray \cup {p \in Keys : p.client = c /\ proposal[p] = "proposed"
                                              /\ p.from \notin Derived(c)}
  BY DEF PurgeStart, Free
<1>3. \A d \in drafts' : c \in d.of => d.missed \/ d.card \in Derived(c)
  <2> SUFFICES ASSUME NEW d \in drafts', c \in d.of PROVE d.missed \/ d.card \in Derived(c)
    OBVIOUS
  <2>1. PICK e \in drafts : d = [e EXCEPT !.missed = @ \/ (c \in e.of /\ e.card \notin Derived(c))]
    BY DEF PurgeStart
  <2> DEFINE m == e.missed \/ (c \in e.of /\ e.card \notin Derived(c))
  <2>2. d = [e EXCEPT !.missed = m] /\ (m <=> (e.missed \/ (c \in e.of /\ e.card \notin Derived(c))))
    BY <2>1
  <2> HIDE DEF m
  <2>3. d.card = e.card /\ d.of = e.of /\ d.missed = m
    BY <2>2 DEF Types, DraftTypes, DraftRecs
  <2> QED
    BY <2>2, <2>3
<1>4. cur.cards = {}
  BY <1>2 DEF HoldInv, Listed
<1> HIDE DEF S, b
<1>5. cur'.pc = "cards" /\ cur'.client = c /\ cur'.cards = S /\ cur'.purged = {}
  BY <1>2 DEF NoCurator
<1>6. \A k \in Ids : Exists(k)' /\ c \in material'[k] => k \in S \/ Slipped(k)'
  BY <1>1, <1>2, <1>4 DEF LineageKept, Exists, Slipped
<1>7. \A p \in Keys : p.client = c /\ proposal'[p] = "proposed" => p \in stray' \/ p.from \in S
  BY <1>1, <1>2
<1> QED
  BY <1>1, <1>3, <1>5, <1>6, <1>7 DEF Going

\* A card and its record go.
LEMMA GoingCards ==
    ASSUME Types, HoldInv, LineInv, Going,
           (\E k \in Ids : PurgeCard(k) \/ PurgeHeld(k)) \/ PurgeRecord
    PROVE  Going'
<1>0. cur \in CurRecs /\ cur.pc \in PurgePCs /\ cur.pc \in {"cards", "record"}
  BY DEF Types, CurTypes, PurgeCard, PurgeHeld, PurgeRecord, PurgePCs
<1>1. Curate /\ (~\E p \in Keys : ApplyCard(p)) /\ ~ApplyRecord
  BY <1>0 DEF Curate, ApplyCard, ApplyRecord
<1>2. CASE cur' = NoCurator
  BY <1>2, CurStops DEF Going, PurgePCs
<1>3. CASE cur'.beside
  BY <1>3 DEF Going
<1> SUFFICES ASSUME cur' # NoCurator, ~cur'.beside PROVE Going'
  BY <1>2, <1>3
<1> DEFINE c == cur.client
           covered == cur.cards \cup cur.purged
<1>4. ASSUME NEW k \in Ids, PurgeCard(k) PROVE Going'
  <2> DEFINE D == cur.docs \cup DocOf(k)
             W == cur.twice \cup {d \in DocOf(k) : Twin(k, d)}
  <2>1. cur' = [cur EXCEPT !.pc = "record", !.item = k, !.docs = D, !.twice = W] /\ cur.pc = "cards"
    BY <1>4 DEF PurgeCard, PurgeDies, Release
  <2> HIDE DEF D, W
  <2>2. /\ cur'.pc = "record" /\ cur'.client = c /\ cur'.cards = cur.cards
        /\ cur'.purged = cur.purged /\ ~cur.beside
    BY <1>0, <2>1 DEF CurRecs
  <2> QED
    BY <1>0, <1>1, <2>1, <2>2, GoingCore DEF Going
<1>5. ASSUME NEW k \in Ids, PurgeHeld(k) PROVE Going'
  <2> DEFINE S == cur.cards \ {k}
             D == cur.kept \cup DocOf(k)
  <2>1. /\ cur' = [cur EXCEPT !.cards = S, !.kept = D] /\ cur.pc = "cards"
        /\ k \in escaped' /\ proposal' = proposal
        /\ \A p \in Keys : proposal[p] = "proposed" /\ p.from = k => p \in stray'
    BY <1>5 DEF PurgeHeld
  <2>2. \A d \in drafts' : d.card = k => d.missed
    <3> SUFFICES ASSUME NEW d \in drafts', d.card = k PROVE d.missed
      OBVIOUS
    <3>1. PICK e \in drafts : d = [e EXCEPT !.missed = @ \/ e.card = k]
      BY <1>5 DEF PurgeHeld
    <3> DEFINE m == e.missed \/ e.card = k
    <3>2. d = [e EXCEPT !.missed = m] /\ (m <=> (e.missed \/ e.card = k))
      BY <3>1
    <3> HIDE DEF m
    <3>3. d.card = e.card /\ d.missed = m
      BY <3>2 DEF Types, DraftTypes, DraftRecs
    <3> QED
      BY <3>2, <3>3
  <2>3. S = cur.cards \ {k}
    OBVIOUS
  <2> HIDE DEF D, S
  <2>4. /\ cur'.pc = "cards" /\ cur'.client = c /\ cur'.cards = S
        /\ cur'.purged = cur.purged /\ ~cur.beside
    BY <1>0, <2>1 DEF CurRecs
  <2>5. /\ \A j \in Ids : Exists(j)' /\ c \in material'[j] => j \in cur.cards \/ Slipped(j)'
        /\ \A p \in Keys : p.client = c /\ proposal'[p] = "proposed" =>
              proposal[p] = "proposed" /\ (p \in stray' \/ p.from \in covered)
        /\ \A d \in drafts' : c \in d.of => d.missed \/ d.card \in covered
    BY <1>0, <1>1, <2>1, <2>4, GoingCore
  <2>6. Slipped(k)'
    BY <2>1 DEF Slipped
  <2> QED
    BY <2>1, <2>2, <2>3, <2>4, <2>5, <2>6 DEF Going
<1>6. CASE PurgeRecord
  <2> DEFINE S == cur.cards \ {cur.item}
             P == cur.purged \cup {cur.item}
  <2>1. /\ cur' = [cur EXCEPT !.pc = "cards", !.cards = S, !.item = None, !.purged = P]
        /\ cur.pc = "record" /\ card' = card
    BY <1>6 DEF PurgeRecord, PurgeDies, Release
  <2>2. S = cur.cards \ {cur.item} /\ P = cur.purged \cup {cur.item}
    OBVIOUS
  <2> HIDE DEF S, P
  <2>3. /\ cur'.pc = "cards" /\ cur'.client = c /\ cur'.cards = S /\ cur'.purged = P /\ ~cur.beside
    BY <1>0, <2>1 DEF CurRecs
  <2>4. ~Exists(cur.item)
    BY <2>1, <2>3 DEF LineInv, Covering
  <2>5. /\ \A j \in Ids : Exists(j)' /\ c \in material'[j] => j \in cur.cards \/ Slipped(j)'
        /\ \A p \in Keys : p.client = c /\ proposal'[p] = "proposed" =>
              p \in stray' \/ p.from \in covered
        /\ \A d \in drafts' : c \in d.of => d.missed \/ d.card \in covered
    BY <1>0, <1>1, <2>1, <2>3, GoingCore
  <2>6. \A j \in Ids : Exists(j)' => j # cur.item
    BY <2>1, <2>4 DEF Exists
  <2> QED
    BY <2>2, <2>3, <2>5, <2>6 DEF Going
<1> QED
  BY <1>4, <1>5, <1>6

\* The documents go, then the proposals, then the drafts.
LEMMA GoingTail ==
    ASSUME Types, HoldInv, Backed, OnHold, Going,
           \/ PurgeSourcesStart \/ (\E d \in Docs : PurgeSource(d)) \/ PurgeOrphans
           \/ (\E p \in Keys : PurgeVoid(p)) \/ PurgeDraftsStart \/ \E d \in drafts : PurgeDraft(d)
    PROVE  Going'
<1>0. cur \in CurRecs /\ cur.pc \in PurgePCs /\ cur.cards = {}
  BY DEF Types, CurTypes, PurgeSourcesStart, PurgeSource, PurgeOrphans, PurgeVoid, PurgeDraftsStart,
     PurgeDraft, PurgePCs, HoldInv, Listed
<1>1. Curate /\ (~\E p \in Keys : ApplyCard(p)) /\ ~ApplyRecord
  BY <1>0 DEF Curate, ApplyCard, ApplyRecord, PurgePCs
<1> SUFFICES ASSUME ~cur'.beside PROVE Going'
  BY DEF Going
<1> DEFINE c == cur.client
           covered == cur.cards \cup cur.purged
<1>2. CASE PurgeSourcesStart
  <2> DEFINE D == cur.docs \cup {d \in source \cap meta : d.client = c}
  <2>1. /\ cur' = [cur EXCEPT !.pc = "sources", !.docs = D] /\ cur.pc = "cards"
        /\ UNCHANGED <<source, meta>>
    BY <1>2 DEF PurgeSourcesStart, files
  <2>2. \A d \in source \cap meta : d.client = c => d \in D
    OBVIOUS
  <2> HIDE DEF D
  <2>3. /\ cur'.pc = "sources" /\ cur'.client = c /\ cur'.cards = cur.cards /\ cur'.docs = D
        /\ cur'.purged = cur.purged /\ ~cur.beside
    BY <1>0, <2>1 DEF CurRecs
  <2> QED
    BY <1>0, <1>1, <2>1, <2>2, <2>3, GoingCore DEF Going
<1>3. ASSUME NEW d \in Docs, PurgeSource(d) PROVE Going'
  <2> DEFINE D == cur.docs \ {d}
  <2>1. cur' = [cur EXCEPT !.docs = D] /\ cur.pc = "sources"
    BY <1>3 DEF PurgeSource
  <2>2. /\ source' \subseteq source /\ meta' \subseteq meta
        /\ d \in source' \cap meta' => d \in cur.kept
    BY <1>3 DEF PurgeSource, Removable
  <2>3. D = cur.docs \ {d}
    OBVIOUS
  <2> HIDE DEF D
  <2>4. /\ cur'.pc = "sources" /\ cur'.client = c /\ cur'.cards = cur.cards /\ cur'.docs = D
        /\ cur'.purged = cur.purged /\ ~cur.beside /\ cur'.kept = cur.kept
    BY <1>0, <2>1 DEF CurRecs
  <2>5. \A e \in source \cap meta : e.client = c => e \in cur.docs \cup cur.kept
    BY <1>0, <1>1, <2>1, <2>4, GoingCore
  <2>6. \A e \in source' \cap meta' : e.client = c => e \in D \cup cur.kept
    BY <2>2, <2>3, <2>5
  <2> QED
    BY <1>0, <1>1, <2>1, <2>4, <2>6, GoingCore DEF Going
<1>4. CASE PurgeOrphans
  <2> DEFINE S == Cites(cur.purged)
  <2>1. /\ cur' = [cur EXCEPT !.pc = "void", !.claims = S] /\ cur.pc = "sources" /\ cur.docs = {}
        /\ source' = source \cap meta /\ UNCHANGED <<model, stray, holds, proposal>>
    BY <1>4 DEF PurgeOrphans, ghosts, counts
  <2>2. \A p \in Keys : proposal[p] = "proposed" /\ p.from \in cur.purged => p \in S
    BY DEF Cites
  <2> HIDE DEF S
  <2>3. /\ cur'.pc = "void" /\ cur'.client = c /\ cur'.cards = cur.cards /\ cur'.claims = S
        /\ cur'.purged = cur.purged /\ ~cur.beside
    BY <1>0, <2>1 DEF CurRecs
  <2>4. holds = 0 => \A e \in source \cap meta : e.client # c
    BY <1>0, <2>1, <2>3 DEF Going, OnHold
  <2>5. holds' = 0 => \A e \in source' \cup (model' \ stray') : e.client # c
    BY <2>1, <2>4 DEF Backed
  <2>6. /\ \A k \in Ids : Exists(k)' /\ c \in material'[k] => k \in cur.cards \/ Slipped(k)'
        /\ \A p \in Keys : p.client = c /\ proposal'[p] = "proposed" =>
              proposal[p] = "proposed" /\ (p \in stray' \/ p.from \in covered)
        /\ \A d \in drafts' : c \in d.of => d.missed \/ d.card \in covered
    BY <1>0, <1>1, <2>1, <2>3, GoingCore
  <2> QED
    BY <1>0, <2>2, <2>3, <2>5, <2>6 DEF Going
<1>5. ASSUME NEW p \in Keys, PurgeVoid(p) PROVE Going'
  <2> DEFINE S == cur.claims \ {p}
  <2>1. cur' = [cur EXCEPT !.claims = S] /\ cur.pc = "void"
    BY <1>5 DEF PurgeVoid
  <2>2. proposal'[p] # "proposed"
    BY <1>5 DEF PurgeVoid, Types, ProposalTypes
  <2>3. S = cur.claims \ {p}
    OBVIOUS
  <2> HIDE DEF S
  <2>4. /\ cur'.pc = "void" /\ cur'.client = c /\ cur'.cards = cur.cards /\ cur'.claims = S
        /\ cur'.purged = cur.purged /\ ~cur.beside
    BY <1>0, <2>1 DEF CurRecs
  <2>5. \A q \in Keys : q.client = c /\ proposal'[q] = "proposed" => q \in stray' \/ q \in S
    BY <1>0, <1>1, <2>1, <2>2, <2>3, <2>4, GoingCore
  <2> QED
    BY <1>0, <1>1, <2>1, <2>4, <2>5, GoingCore DEF Going
<1>6. CASE PurgeDraftsStart
  <2>1. cur' = [cur EXCEPT !.pc = "drafts"] /\ cur.pc = "void" /\ cur.claims = {}
    BY <1>6 DEF PurgeDraftsStart
  <2>2. /\ cur'.pc = "drafts" /\ cur'.client = c /\ cur'.cards = cur.cards
        /\ cur'.purged = cur.purged /\ ~cur.beside
    BY <1>0, <2>1 DEF CurRecs
  <2> QED
    BY <1>0, <1>1, <2>1, <2>2, GoingCore DEF Going
<1>7. ASSUME NEW d \in drafts, PurgeDraft(d) PROVE Going'
  <2>1. cur' = cur /\ cur.pc = "drafts"
    BY <1>7 DEF PurgeDraft
  <2> QED
    BY <1>0, <1>1, <2>1, GoingCore DEF Going
<1> QED
  BY <1>2, <1>3, <1>4, <1>5, <1>6, <1>7

\* A merge batch is no purge; an ingest beside a purge is remembered; drafts and holds wait.
LEMMA GoingOthers ==
    ASSUME Types, HoldInv, Going,
           \/ MergeStart \/ (\E p \in Keys : ApplyCard(p)) \/ ApplyRecord \/ Decide
           \/ (\E p \in Keys : Reject(p)) \/ Sweep \/ CuratorCrash
           \/ Ingest \/ (\E k \in Ids : Draft(k)) \/ \E k \in Ids : Hold(k)
    PROVE  Going'
<1>0. cur \in CurRecs
  BY DEF Types, CurTypes
<1> SUFFICES ASSUME cur'.pc \in PurgePCs, ~cur'.beside PROVE FALSE
  BY DEF Going
<1>1. cur' # NoCurator
  BY CurStops DEF PurgePCs
<1>2. CASE MergeStart
  <2>1. PICK batch : cur' = [NoCurator EXCEPT !.pc = "apply", !.claims = batch]
    BY <1>2 DEF MergeStart
  <2>2. cur'.pc = "apply"
    BY <2>1 DEF NoCurator
  <2> QED
    BY <2>2 DEF PurgePCs
<1>3. ASSUME NEW p \in Keys, ApplyCard(p) PROVE FALSE
  <2> DEFINE l == Loose(p)
  <2>1. cur' = [cur EXCEPT !.pc = "link", !.claim = p, !.loose = l]
    BY <1>1, <1>3 DEF ApplyCard, Release
  <2> HIDE DEF l
  <2>2. cur'.pc = "link"
    BY <1>0, <2>1 DEF CurRecs
  <2> QED
    BY <2>2 DEF PurgePCs
<1>4. CASE ApplyRecord
  <2>1. cur'.pc = "decide"
    BY <1>0, <1>4 DEF ApplyRecord, CurRecs
  <2> QED
    BY <2>1 DEF PurgePCs
<1>5. CASE Decide
  <2> DEFINE rest == cur.claims \ {cur.claim}
  <2>1. cur' = [cur EXCEPT !.pc = "apply", !.claims = rest, !.claim = None]
    BY <1>1, <1>5 DEF Decide, Release
  <2> HIDE DEF rest
  <2>2. cur'.pc = "apply"
    BY <1>0, <2>1 DEF CurRecs
  <2> QED
    BY <2>2 DEF PurgePCs
<1>6. CASE (\E p \in Keys : Reject(p)) \/ \E k \in Ids : Hold(k)
  BY <1>6 DEF Reject, Hold, Free, PurgePCs
<1>7. CASE Sweep \/ CuratorCrash
  BY <1>1, <1>7 DEF Sweep, CuratorCrash, PurgeDies, Release
<1>8. CASE \E k \in Ids : Draft(k)
  BY <1>8 DEF Draft
<1>9. CASE Ingest
  BY <1>9, IngestIsSeen DEF HoldInv, Alone
<1> QED
  BY <1>2, <1>3, <1>4, <1>5, <1>6, <1>7, <1>8, <1>9

\* What a purge of its client leaves is kept by every step.
LEMMA GoingStep ==
    ASSUME Types, HoldInv, LineInv, LineageKept, Backed, OnHold, Going, [Next]_vars
    PROVE  Going'
<1>1. CASE UNCHANGED vars
  BY <1>1 DEF vars, files, ghosts, counts, Going, Exists, Slipped
<1>2. CASE Ingest \/ (\E k \in Ids : Draft(k)) \/ \E k \in Ids : Hold(k)
  BY <1>2, GoingOthers
<1>3. CASE Curate
  BY <1>3, GoingOthers, GoingStart, GoingCards, GoingTail DEF Curate
<1> QED
  BY <1>1, <1>2, <1>3 DEF Next

\* What is clean, and what makes it so, is kept by every step.
LEMMA CleanStep ==
    ASSUME Types, ChunkInv, HoldInv, LineInv, CleanInv, [Next]_vars
    PROVE  CleanInv'
<1>1. LineageKept
  BY LineageFollows
<1>2. Backed' /\ OnHold' /\ Quiet' /\ Going'
  BY <1>1, BackedStep, OnHoldStep, QuietStep, GoingStep DEF CleanInv
<1>3. Batch' /\ CleanIsClean'
  <2>1. CASE UNCHANGED vars
    BY <2>1 DEF vars, files, ghosts, counts, CleanInv, Batch, CleanIsClean, CleanMeansGone,
       DraftsFollowCards, Exists
  <2>2. CASE Ingest
    BY <2>2, BatchIngest, CleanIngest DEF CleanInv
  <2>3. CASE Curate \/ (\E k \in Ids : Draft(k)) \/ \E k \in Ids : Hold(k)
    BY <2>3, BatchOthers, CleanOthers DEF CleanInv
  <2> QED
    BY <2>1, <2>2, <2>3 DEF Next
<1> QED
  BY <1>2, <1>3 DEF CleanInv

\* A CLEAN verdict of a purge is the truth: until the client's next ingest,
\* whatever runs and dies beside it, no card, open proposal, retained source,
\* model or draft of the client is left but what is held, what a crash left
\* without a record or a purge passed over, and what was accepted from these
\* (purge.py, the cascade and its verification).
THEOREM CleanVerdictsAreTrue == Spec => []CleanIsClean
<1> DEFINE Inv == Types /\ ChunkInv /\ HoldInv /\ LineInv /\ CleanInv
<1>1. Init => Inv
  BY TypesInit, ChunkInit, HoldInit, LineInit, CleanInit
<1>2. Inv /\ [Next]_vars => Inv'
  BY TypesStep, ChunkStep, HoldStep, LineStep, CleanStep
<1>3. Inv => CleanIsClean
  BY DEF CleanInv
<1> HIDE DEF Inv
<1> QED
  BY <1>1, <1>2, <1>3, PTL DEF Spec
=============================================================================
