--------------------------- MODULE KnowledgeBase ---------------------------
(***************************************************************************)
(* The firm's knowledge base: cards, their restricted provenance records,  *)
(* retained sources, proposals, and the drafts that cite cards.  Three     *)
(* operations write it, file by file: the ingest of a client's document    *)
(* (a command that takes no lock), a steward's merge batch, and the purge  *)
(* of a client (these two exclude each other).  Each process may be killed *)
(* between two writes.                                                     *)
(*                                                                         *)
(* A document is a client's only one, of one chunk; its later bodies are   *)
(* its versions.  A body is the anonymised text of a chunk and names the   *)
(* kb_id it mints, a hash of it; Fact(b) is the id of the claim of b.      *)
(***************************************************************************)
EXTENDS Integers, FiniteSets

CONSTANTS
    Clients,
    Bodies,
    Claims,      \* the bodies that carry a claim candidate
    Duplicates,  \* pairs of bodies that score above DEDUP_FLOOR
    Drifts,      \* pairs of bodies that score above MATCH_FLOOR
    None,
    MaxIngests, MaxPurges, MaxCrashes, MaxDrafts, MaxHolds  \* bounds

ASSUME ClaimAssumption == Claims \subseteq Bodies
ASSUME DuplicateAssumption == \A pair \in Duplicates : pair \subseteq Bodies
ASSUME BoundAssumption ==
    {MaxIngests, MaxPurges, MaxCrashes, MaxDrafts, MaxHolds} \subseteq Nat

Fact(b) == <<"fact", b>>
Ids == Bodies \cup {Fact(b) : b \in Claims}
Docs == [client : Clients, body : Bodies]
Card == [doc : Docs \cup {None}, body : Ids, held : BOOLEAN]
Record == [sources : SUBSET Clients, from : SUBSET Ids]
Keys == [client : Clients, claim : Claims, from : Bodies]
Statuses == {"none", "proposed", "accepted", "rejected", "voided"}

ASSUME NoneAssumption == None \notin Clients \cup Ids \cup Docs \cup Card \cup Record \cup Keys
\* Two chunks are two texts, and the id of a claim is no chunk's.
ASSUME IdAssumption == IsFiniteSet(Bodies) /\ \A b \in Claims : Fact(b) \notin Bodies

VARIABLES
    card,        \* cards/: the public half of each card, or None
    record,      \* restricted/: its provenance record, or None
    meta,        \* sources/: the documents whose meta file exists
    source,      \* sources/: those whose bytes exist
    model,       \* canonical/: those whose L1 model exists
    proposal,    \* proposals/: the status of each claim proposal
    drafts,      \* drafts: the card cited, and whose material it held then
    ing,         \* the ingest that runs
    cur,         \* the curator that runs: a purge or a merge batch
    material,    \* history: the clients whose documents went into a card
    escaped,     \* history: cards some purge passed over
    stray,       \* history: proposals some purge passed over, and models that were
                 \* written when a purge had removed their source
    verdict,     \* history: the last sweep of a client, since its last ingest
    ingests, purges, crashes, holds

files == <<card, record, meta, source, model, proposal, drafts>>
ghosts == <<material, escaped, stray, verdict>>
counts == <<ingests, purges, crashes, holds>>
vars == <<files, ing, cur, ghosts, counts>>

NoIngest == [pc |-> "idle", doc |-> None, id |-> None, top |-> None,
             seen |-> FALSE, owner |-> None, absorb |-> FALSE, copy |-> None]
NoCurator == [pc |-> "idle", client |-> None, cards |-> {}, item |-> None, purged |-> {},
              docs |-> {}, kept |-> {}, twice |-> {}, claims |-> {}, claim |-> None,
              loose |-> FALSE, beside |-> FALSE]

IngestPCs == {"idle", "bytes", "read", "rewrite", "append", "appended", "card",
              "record", "merge", "merged", "unlink", "drop", "claim"}
PurgePCs == {"cards", "record", "sources", "void", "drafts", "sweep"}
MergePCs == {"apply", "link", "decide"}

TypeOK ==
    /\ card \in [Ids -> Card \cup {None}]
    /\ record \in [Ids -> Record \cup {None}]
    /\ meta \subseteq Docs /\ source \subseteq Docs /\ model \subseteq Docs
    /\ proposal \in [Keys -> Statuses]
    /\ \A d \in drafts : d.card \in Ids /\ d.of \subseteq Clients /\ d.missed \in BOOLEAN
    /\ ing.pc \in IngestPCs /\ ing.doc \in Docs \cup {None}
    /\ ing.id \in Bodies \cup {None} /\ ing.top \in Ids \cup {None}
    /\ ing.owner \in Ids \cup {None} /\ ing.copy \in Record \cup {None}
    /\ ing.seen \in BOOLEAN /\ ing.absorb \in BOOLEAN
    /\ cur.pc \in {"idle"} \cup PurgePCs \cup MergePCs
    /\ cur.client \in Clients \cup {None} /\ cur.item \in Ids \cup {None}
    /\ cur.cards \subseteq Ids /\ cur.purged \subseteq Ids
    /\ cur.docs \subseteq Docs /\ cur.kept \subseteq Docs /\ cur.twice \subseteq Docs
    /\ cur.claims \subseteq Keys /\ cur.claim \in Keys \cup {None}
    /\ cur.loose \in BOOLEAN /\ cur.beside \in BOOLEAN
    /\ material \in [Ids -> SUBSET Clients]
    /\ escaped \subseteq Ids /\ stray \subseteq Keys \cup Docs
    /\ verdict \in [Clients -> {"none", "clean", "findings"}]
    /\ ingests \in 0..MaxIngests /\ purges \in 0..MaxPurges
    /\ crashes \in 0..MaxCrashes /\ holds \in 0..MaxHolds

Init ==
    /\ card = [k \in Ids |-> None] /\ record = [k \in Ids |-> None]
    /\ meta = {} /\ source = {} /\ model = {}
    /\ proposal = [p \in Keys |-> "none"] /\ drafts = {}
    /\ ing = NoIngest /\ cur = NoCurator
    /\ material = [k \in Ids |-> {}]
    /\ escaped = {} /\ stray = {}
    /\ verdict = [c \in Clients |-> "none"]
    /\ ingests = 0 /\ purges = 0 /\ crashes = 0 /\ holds = 0

-----------------------------------------------------------------------------
(* Lineage                                                                 *)

Exists(k) == card[k] # None
Recorded == {k \in Ids : record[k] # None}

\* The records that name the client.
Seeds(c) == {k \in Recorded : c \in record[k].sources}

DerivedOf(S) == {k \in Recorded : record[k].from \cap S # {}}
\* The ids whose text was folded into a card of S.
FoldedIn(S) == UNION {record[k].from : k \in S \cap Recorded \cap Bodies}

\* Mutant: the records that name the client, and nothing derived.
ClosureUnderived(c) == Seeds(c)

\* _closure: what a purge of the client covers.  The loop adds what derives
\* from a member until nothing is added.
Closure(c) ==
    LET after[n \in 0..Cardinality(Ids)] ==
            IF n = 0 THEN Seeds(c) ELSE after[n - 1] \cup DerivedOf(after[n - 1])
    IN after[Cardinality(Ids)]

\* The least set that holds the client's records and what derives from it.
Derived(c) ==
    {k \in Ids : \A S \in SUBSET Ids : Seeds(c) \subseteq S /\ DerivedOf(S) \subseteq S => k \in S}

\* What the records on disk could lead to: an id that was folded into a
\* member counts as a member.
Lineage(c) ==
    {k \in Ids : \A S \in SUBSET Ids :
        Seeds(c) \subseteq S /\ DerivedOf(S) \subseteq S /\ FoldedIn(S) \subseteq S => k \in S}

\* absorbed_owners: the cards whose record names k; the first by id answers.
Owners(k) == {j \in Recorded : k \in record[j].from}

\* History: the cards this step cuts off from their lineage.
Cut == UNION {Lineage(c) \ Lineage(c)' : c \in Clients}

Near(pairs, a, b) == a = b \/ {a, b} \in pairs

-----------------------------------------------------------------------------
(* Ingest of one document                                                  *)

Stop == ing' = NoIngest
Goto(pc) == ing' = [ing EXCEPT !.pc = pc]

\* What was seen before is read first; then the meta file is written.
IngestStart(d) ==
    /\ ing.pc = "idle" /\ ingests < MaxIngests
    /\ \E o \in IF Owners(d.body) = {} THEN {None} ELSE Owners(d.body) :
          ing' = [NoIngest EXCEPT !.pc = "bytes", !.doc = d, !.id = d.body,
                                  !.seen = d \in source, !.owner = o]
    /\ meta' = meta \cup {d}
    /\ ingests' = ingests + 1
    /\ verdict' = [verdict EXCEPT ![d.client] = "none"]
    /\ cur' = [cur EXCEPT !.beside = cur.pc # "idle"]
    /\ UNCHANGED <<card, record, source, model, proposal, drafts>>
    /\ UNCHANGED <<material, escaped, stray, purges, crashes, holds>>

WriteBytes ==
    /\ ing.pc = "bytes"
    /\ source' = source \cup {ing.doc}
    /\ Goto("read")
    /\ UNCHANGED <<card, record, meta, model, proposal, drafts, cur, ghosts, counts>>

\* The scan finds an identifier, or a reader's reply is refused: no card.
IngestBlocked ==
    /\ ing.pc = "read" /\ Stop
    /\ UNCHANGED <<files, cur, ghosts, counts>>

\* Cards minted from an earlier version of the same document.
Priors ==
    LET seen == {d \in source \cap meta : d.client = ing.doc.client /\ d # ing.doc}
                  \cup (IF ing.seen THEN {ing.doc} ELSE {})
    IN {k \in Ids : Exists(k) /\ card[k].doc \in seen}

\* The same bytes under a kept id; the candidate's own id comes first.
Matched == IF ing.doc.body \in Priors THEN {ing.doc.body}
           ELSE {k \in Priors : card[k].body = ing.doc.body}
Drifted == {k \in Priors \cap Bodies : Near(Drifts, ing.doc.body, card[k].body)}
TopCards == {k \in Ids : Exists(k) /\ Near(Duplicates, ing.doc.body, card[k].body)}

\* Where the candidate goes, once the store has been read.  Which of several
\* near cards scores best, and which side survives, is left open.
Home(b) ==
    IF Matched # {} THEN {[ing EXCEPT !.pc = "claim", !.id = k] : k \in Matched}
    ELSE IF Exists(b) THEN {[ing EXCEPT !.pc = "claim", !.id = b]}
    ELSE IF Priors # {} /\ ing.owner = None /\ Drifted # {}
    THEN {[ing EXCEPT !.pc = "rewrite", !.id = k] : k \in Drifted}
    ELSE IF ing.owner # None /\ Exists(ing.owner)
    THEN {[ing EXCEPT !.pc = "append", !.top = ing.owner]}
    ELSE IF TopCards = {} THEN {[ing EXCEPT !.pc = "card"]}
    ELSE {[ing EXCEPT !.pc = "card", !.top = t] : t \in TopCards}
           \cup {[ing EXCEPT !.pc = "append", !.top = t, !.absorb = TRUE] : t \in TopCards}

\* Reconciliation and dedup read the store; the L1 model is the first write.
Settle ==
    /\ ing.pc = "read"
    /\ ing' \in Home(ing.doc.body)
    /\ model' = model \cup {ing.doc}
    /\ stray' = IF ing.doc \in source \cap meta THEN stray ELSE stray \cup {ing.doc}
    /\ UNCHANGED <<card, record, meta, source, proposal, drafts, cur>>
    /\ UNCHANGED <<material, escaped, verdict, counts>>

\* rewrite_card: new content under the old id, governance kept.
RewriteCard ==
    /\ ing.pc = "rewrite"
    /\ IF Exists(ing.id)
       THEN /\ card' = [card EXCEPT ![ing.id].doc = ing.doc, ![ing.id].body = ing.doc.body]
            /\ material' = [material EXCEPT ![ing.id] = @ \cup {ing.doc.client}]
            /\ ing' = [ing EXCEPT !.pc = "append", !.top = ing.id]
       ELSE Stop /\ UNCHANGED <<card, material>>
    /\ UNCHANGED <<record, meta, source, model, proposal, drafts, cur>>
    /\ UNCHANGED <<escaped, stray, verdict, counts>>

Appended(old) ==
    [sources |-> old.sources \cup {ing.doc.client},
     from |-> old.from \cup (IF ing.absorb THEN {ing.doc.body} ELSE {})]

\* append_source reads the record, then writes it back whole.
AppendRead ==
    /\ ing.pc = "append"
    /\ IF record[ing.top] = None THEN Stop
       ELSE ing' = [ing EXCEPT !.pc = "appended", !.copy = Appended(record[ing.top])]
    /\ UNCHANGED <<files, cur, ghosts, counts>>

\* A card that was purged and minted again since the read gets the record of
\* the card that is gone.
AppendWrite ==
    /\ ing.pc = "appended"
    /\ record' = [record EXCEPT ![ing.top] = ing.copy]
    /\ material' = IF Exists(ing.top)
                   THEN [material EXCEPT ![ing.top] = @ \cup {ing.doc.client}] ELSE material
    /\ LET stale == record[ing.top] = None \/ ing.copy # Appended(record[ing.top])
       IN escaped' = IF Exists(ing.top) /\ stale THEN escaped \cup {ing.top} ELSE escaped
    /\ Goto("claim")
    /\ UNCHANGED <<card, meta, source, model, proposal, drafts, cur>>
    /\ UNCHANGED <<stray, verdict, counts>>

\* write_card: the public file, then the restricted record.  Until then the
\* record of a killed purge may stand under the new card.
WriteCard ==
    /\ ing.pc = "card"
    /\ card' = [card EXCEPT ![ing.id] = [doc |-> ing.doc, body |-> ing.id, held |-> FALSE]]
    /\ material' = [material EXCEPT ![ing.id] = {ing.doc.client}]
    /\ escaped' = (escaped \ {ing.id}) \cup ({ing.id} \cap Recorded)
    /\ Goto("record")
    /\ UNCHANGED <<record, meta, source, model, proposal, drafts, cur, stray, verdict, counts>>

WriteRecord ==
    /\ ing.pc = "record"
    /\ record' = [record EXCEPT ![ing.id] = [sources |-> {ing.doc.client}, from |-> {}]]
    /\ Goto(IF ing.top = None THEN "claim" ELSE "merge")
    /\ escaped' = (IF record[ing.id] = None THEN escaped ELSE escaped \cup Cut) \ {ing.id}
    /\ UNCHANGED <<card, meta, source, model, proposal, drafts, cur>>
    /\ UNCHANGED <<material, stray, verdict, counts>>

\* Mutant: the survivor keeps its own sources only.
FoldedUnsourced(src, dst) == [sources |-> dst.sources,
                              from |-> dst.from \cup src.from \cup {ing.top}]
\* merge_into: the survivor's record takes over sources, links and the id.
Folded(src, dst) == [sources |-> dst.sources \cup src.sources,
                     from |-> dst.from \cup src.from \cup {ing.top}]

MergeRead ==
    /\ ing.pc = "merge"
    /\ IF None \in {record[ing.top], record[ing.id]} THEN Stop
       ELSE ing' = [ing EXCEPT !.pc = "merged",
                               !.copy = Folded(record[ing.top], record[ing.id])]
    /\ UNCHANGED <<files, cur, ghosts, counts>>

MergeWrite ==
    /\ ing.pc = "merged"
    /\ record' = [record EXCEPT ![ing.id] = ing.copy]
    /\ material' = IF Exists(ing.id)
                   THEN [material EXCEPT ![ing.id] = @ \cup material[ing.top]] ELSE material
    /\ escaped' = IF ing.top \in escaped THEN escaped \cup {ing.id} ELSE escaped
    /\ Goto("unlink")
    /\ UNCHANGED <<card, meta, source, model, proposal, drafts, cur>>
    /\ UNCHANGED <<stray, verdict, counts>>

MergeUnlink ==
    /\ ing.pc = "unlink"
    /\ IF record[ing.top] = None THEN Stop ELSE Goto("drop")
    /\ record' = [record EXCEPT ![ing.top] = None]
    /\ escaped' = IF record[ing.id] = None THEN escaped \cup Cut ELSE escaped
    /\ UNCHANGED <<card, meta, source, model, proposal, drafts, cur>>
    /\ UNCHANGED <<material, stray, verdict, counts>>

DropCard ==
    /\ ing.pc = "drop"
    /\ IF Exists(ing.top) THEN Goto("claim") ELSE Stop
    /\ card' = [card EXCEPT ![ing.top] = None]
    /\ material' = [material EXCEPT ![ing.top] = {}]
    /\ UNCHANGED <<record, meta, source, model, proposal, drafts, cur>>
    /\ UNCHANGED <<escaped, stray, verdict, counts>>

\* Claim promotion: opened once, decided or not; derived from the id the
\* candidate ended with, even when no card of that id was written.
OpenClaim ==
    /\ ing.pc = "claim" /\ Stop
    /\ LET p == [client |-> ing.doc.client, claim |-> ing.doc.body, from |-> ing.id]
       IN proposal' = IF ing.doc.body \in Claims /\ proposal[p] = "none"
                      THEN [proposal EXCEPT ![p] = "proposed"] ELSE proposal
    /\ UNCHANGED <<card, record, meta, source, model, drafts, cur, ghosts, counts>>

IngestCrash ==
    /\ ing.pc # "idle" /\ crashes < MaxCrashes
    /\ Stop /\ crashes' = crashes + 1
    /\ UNCHANGED <<files, cur, ghosts, ingests, purges, holds>>

Ingest ==
    \/ \E d \in Docs : IngestStart(d)
    \/ WriteBytes \/ IngestBlocked \/ Settle
    \/ RewriteCard \/ AppendRead \/ AppendWrite
    \/ WriteCard \/ WriteRecord
    \/ MergeRead \/ MergeWrite \/ MergeUnlink \/ DropCard
    \/ OpenClaim \/ IngestCrash

-----------------------------------------------------------------------------
(* A steward's merge batch of claim proposals                              *)

Free == cur.pc = "idle"
Release == cur' = NoCurator

\* _check_new_card: the sources exist, the content is not yet in the store.
Acceptable(p) == Exists(p.from) /\ ~Exists(Fact(p.claim))

\* Pass 1 refuses the whole batch; a refusal writes nothing.
MergeStart ==
    /\ Free
    /\ \E batch \in SUBSET {p \in Keys : proposal[p] = "proposed" /\ Acceptable(p)} :
          /\ batch # {}
          /\ cur' = [NoCurator EXCEPT !.pc = "apply", !.claims = batch]
    /\ UNCHANGED <<files, ing, ghosts, counts>>

\* History: a purge passed over the proposal or its parent, or the parent has
\* no record that a purge could have found it by.
Loose(p) == p \in stray \/ p.from \in escaped \/ record[p.from] = None

\* Pass 2 checks again, then writes the card; a refusal aborts the batch.
ApplyCard(p) ==
    /\ cur.pc = "apply" /\ p \in cur.claims
    /\ IF Acceptable(p)
       THEN /\ card' = [card EXCEPT ![Fact(p.claim)] =
                           [doc |-> None, body |-> Fact(p.claim), held |-> FALSE]]
            /\ material' = [material EXCEPT ![Fact(p.claim)] = {p.client} \cup material[p.from]]
            /\ escaped' = escaped \cup ({Fact(p.claim)} \cap Recorded)
            /\ cur' = [cur EXCEPT !.pc = "link", !.claim = p, !.loose = Loose(p)]
       ELSE Release /\ UNCHANGED <<card, material, escaped>>
    /\ UNCHANGED <<record, meta, source, model, proposal, drafts, ing, stray, verdict, counts>>

\* The record of a minted card names no client: its parent does, if no
\* purge passed over what the claim came from.
ApplyRecord ==
    /\ cur.pc = "link"
    /\ LET f == Fact(cur.claim.claim)
           from == cur.claim.from
           traced == ~cur.loose /\ from \notin escaped /\ \A c \in material[f] : from \in Lineage(c)
       IN /\ record' = [record EXCEPT ![f] = [sources |-> {}, from |-> {from}]]
          /\ escaped' = IF traced THEN escaped \ {f} ELSE escaped \cup {f}
    /\ cur' = [cur EXCEPT !.pc = "decide"]
    /\ UNCHANGED <<card, meta, source, model, proposal, drafts, ing>>
    /\ UNCHANGED <<material, stray, verdict, counts>>

Decide ==
    /\ cur.pc = "decide"
    /\ proposal' = [proposal EXCEPT ![cur.claim] = "accepted"]
    /\ LET rest == cur.claims \ {cur.claim}
       IN IF rest = {} THEN Release
          ELSE cur' = [cur EXCEPT !.pc = "apply", !.claims = rest, !.claim = None]
    /\ UNCHANGED <<card, record, meta, source, model, drafts, ing, ghosts, counts>>

Reject(p) ==
    /\ Free /\ proposal[p] = "proposed"
    /\ proposal' = [proposal EXCEPT ![p] = "rejected"]
    /\ UNCHANGED <<card, record, meta, source, model, drafts, ing, cur, ghosts, counts>>

-----------------------------------------------------------------------------
(* The purge of a client                                                   *)

PurgeStart(c) ==
    /\ Free /\ purges < MaxPurges
    /\ cur' = [NoCurator EXCEPT !.pc = "cards", !.client = c, !.cards = Closure(c),
                                 !.beside = ing.pc # "idle"]
    /\ purges' = purges + 1
    /\ escaped' = escaped \cup (Lineage(c) \ Derived(c))
    /\ stray' = stray \cup {p \in Keys : p.client = c /\ proposal[p] = "proposed"
                                           /\ p.from \notin Derived(c)}
    /\ drafts' = {[d EXCEPT !.missed = @ \/ (c \in d.of /\ d.card \notin Derived(c))] : d \in drafts}
    /\ verdict' = [verdict EXCEPT ![c] = "none"]
    /\ UNCHANGED <<card, record, meta, source, model, proposal, ing>>
    /\ UNCHANGED <<material, ingests, crashes, holds>>

\* Mutant: a card without a canonical document is not told apart.
DocOfUnchecked(k) == {card[k].doc}
DocOf(k) == IF card[k].doc = None THEN {} ELSE {card[k].doc}

\* History: another card was made from the same document.
Twin(k, d) == \E j \in Ids \ {k} : Exists(j) /\ card[j].doc = d

\* The purge dies: what it had still to remove may have hung by a record that
\* it has removed already, and no later purge will find it.
PurgeDies ==
    /\ Release
    /\ escaped' = escaped \cup {k \in cur.cards : \E c \in material[k] : k \notin Lineage(c)}

\* A member without a card file stops the purge; a held card holds its
\* document; any other card file goes first, its record after it.
PurgeCard(k) ==
    /\ cur.pc = "cards" /\ k \in cur.cards
    /\ IF ~Exists(k) THEN PurgeDies /\ UNCHANGED <<card, material>>
       ELSE /\ ~card[k].held
            /\ card' = [card EXCEPT ![k] = None]
            /\ material' = [material EXCEPT ![k] = {}]
            /\ cur' = [cur EXCEPT !.pc = "record", !.item = k, !.docs = @ \cup DocOf(k),
                                  !.twice = @ \cup {d \in DocOf(k) : Twin(k, d)}]
            /\ UNCHANGED escaped
    /\ UNCHANGED <<record, meta, source, model, proposal, drafts, ing>>
    /\ UNCHANGED <<stray, verdict, counts>>

PurgeHeld(k) ==
    /\ cur.pc = "cards" /\ k \in cur.cards /\ Exists(k) /\ card[k].held
    /\ cur' = [cur EXCEPT !.cards = @ \ {k}, !.kept = @ \cup DocOf(k)]
    /\ escaped' = escaped \cup {k}
    /\ stray' = stray \cup {p \in Keys : proposal[p] = "proposed" /\ p.from = k}
    /\ drafts' = {[d EXCEPT !.missed = @ \/ d.card = k] : d \in drafts}
    /\ UNCHANGED <<card, record, meta, source, model, proposal, ing>>
    /\ UNCHANGED <<material, verdict, counts>>

PurgeRecord ==
    /\ cur.pc = "record"
    /\ record' = [record EXCEPT ![cur.item] = None]
    /\ IF record[cur.item] = None THEN PurgeDies
       ELSE /\ cur' = [cur EXCEPT !.pc = "cards", !.cards = @ \ {cur.item}, !.item = None,
                                  !.purged = @ \cup {cur.item}]
            /\ escaped' = IF cur.beside THEN escaped \cup Cut ELSE escaped
    /\ UNCHANGED <<card, meta, source, model, proposal, drafts, ing>>
    /\ UNCHANGED <<material, stray, verdict, counts>>

\* The documents of the purged cards and those whose meta names the client.
PurgeSourcesStart ==
    /\ cur.pc = "cards" /\ cur.cards = {}
    /\ cur' = [cur EXCEPT !.pc = "sources",
                  !.docs = @ \cup {d \in source \cap meta : d.client = cur.client}]
    /\ UNCHANGED <<files, ing, ghosts, counts>>

\* Mutant: the documents of held cards are not kept.
RemovableAll(d) == d \in cur.docs
Removable(d) == d \notin cur.kept

PurgeSource(d) ==
    /\ cur.pc = "sources" /\ d \in cur.docs
    /\ cur' = [cur EXCEPT !.docs = @ \ {d}]
    /\ IF Removable(d)
       THEN /\ model' = model \ {d}
            /\ source' = source \ {d}
            /\ meta' = IF d \in source THEN meta \ {d} ELSE meta
       ELSE UNCHANGED <<model, source, meta>>
    /\ UNCHANGED <<card, record, proposal, drafts, ing, ghosts, counts>>

Cites(S) == {p \in Keys : proposal[p] = "proposed" /\ p.from \in S}

\* Bytes without a meta file belong to nobody and go with every purge; then
\* the open proposals derived from a purged card are listed.
PurgeOrphans ==
    /\ cur.pc = "sources" /\ cur.docs = {}
    /\ source' = source \cap meta
    /\ cur' = [cur EXCEPT !.pc = "void", !.claims = Cites(cur.purged)]
    /\ UNCHANGED <<card, record, meta, model, proposal, drafts, ing, ghosts, counts>>

PurgeVoid(p) ==
    /\ cur.pc = "void" /\ p \in cur.claims
    /\ proposal' = [proposal EXCEPT ![p] = "voided"]
    /\ cur' = [cur EXCEPT !.claims = @ \ {p}]
    /\ UNCHANGED <<card, record, meta, source, model, drafts, ing, ghosts, counts>>

PurgeDraftsStart ==
    /\ cur.pc = "void" /\ cur.claims = {}
    /\ cur' = [cur EXCEPT !.pc = "drafts"]
    /\ UNCHANGED <<files, ing, ghosts, counts>>

Citing == {d \in drafts : d.card \in cur.purged}

PurgeDraft(d) ==
    /\ cur.pc = "drafts" /\ d \in Citing
    /\ drafts' = drafts \ {d}
    /\ UNCHANGED <<card, record, meta, source, model, proposal, ing, cur, ghosts, counts>>

\* post_purge_sweep, the accounting and the line of the access log.  A
\* verdict of a purge that an ingest ran beside claims nothing.
Sweep ==
    /\ cur.pc = "drafts" /\ Citing = {} /\ Release
    /\ LET found == Cites(cur.purged) # {} \/ \E k \in cur.purged : Exists(k)
       IN verdict' = [verdict EXCEPT ![cur.client] =
                        IF cur.beside THEN "none" ELSE IF found THEN "findings" ELSE "clean"]
    /\ UNCHANGED <<files, ing, material, escaped, stray, counts>>

CuratorCrash ==
    /\ ~Free /\ crashes < MaxCrashes
    /\ PurgeDies /\ crashes' = crashes + 1
    /\ UNCHANGED <<files, ing, material, stray, verdict, ingests, purges, holds>>

Curate ==
    \/ MergeStart \/ (\E p \in Keys : ApplyCard(p)) \/ ApplyRecord \/ Decide
    \/ \E p \in Keys : Reject(p)
    \/ \E c \in Clients : PurgeStart(c)
    \/ \E k \in Ids : PurgeCard(k) \/ PurgeHeld(k)
    \/ PurgeRecord \/ PurgeSourcesStart
    \/ \E d \in Docs : PurgeSource(d)
    \/ PurgeOrphans
    \/ \E p \in Keys : PurgeVoid(p)
    \/ PurgeDraftsStart
    \/ \E d \in drafts : PurgeDraft(d)
    \/ Sweep \/ CuratorCrash

-----------------------------------------------------------------------------
(* The rest of the system                                                  *)

\* A draft that cites a card.  A purge refuses to run beside the server.
Draft(k) ==
    /\ cur.pc \notin PurgePCs /\ Exists(k) /\ Cardinality(drafts) < MaxDrafts
    /\ drafts' = drafts \cup {[card |-> k, of |-> material[k],
                                missed |-> k \in escaped \/ record[k] = None]}
    /\ UNCHANGED <<card, record, meta, source, model, proposal, ing, cur, ghosts, counts>>

\* A legal hold, put on the card's front matter by hand: no door of src/
\* sets it.
Hold(k) ==
    /\ Free /\ ing.pc = "idle" /\ Exists(k) /\ ~card[k].held /\ holds < MaxHolds
    /\ card' = [card EXCEPT ![k].held = TRUE]
    /\ holds' = holds + 1
    /\ UNCHANGED <<record, meta, source, model, proposal, drafts, ing, cur, ghosts>>
    /\ UNCHANGED <<ingests, purges, crashes>>

Next == Ingest \/ Curate \/ (\E k \in Ids : Draft(k)) \/ \E k \in Ids : Hold(k)

Spec == Init /\ [][Next]_vars

-----------------------------------------------------------------------------
(* Properties                                                              *)

\* While a card exists, the records on disk lead from every client whose
\* document went into it to the card, through merges, absorbed ids and
\* derived facts.  Excepted: a card whose record a crash left unwritten, and
\* what an earlier purge passed over.
LineageKept ==
    \A c \in Clients, k \in Ids :
        Exists(k) /\ c \in material[k] /\ record[k] # None /\ k \notin escaped \cup cur.cards
            => k \in Lineage(c)

\* After a CLEAN verdict, and until the client's next ingest, no card, open
\* proposal, retained source or model of the client is left, whatever ran
\* beside the purge; excepted what is held, what a crash left without a
\* record, what only an absorbed id leads to, and claims accepted from these.
CleanMeansGone ==
    \A c \in Clients : verdict[c] = "clean" =>
        /\ \A k \in Ids : Exists(k) /\ c \in material[k] => k \in escaped \/ record[k] = None
        /\ \A p \in Keys : p.client = c /\ proposal[p] = "proposed" => p \in stray
        /\ holds = 0 => \A d \in source \cup (model \ stray) : d.client # c

\* Client-derived prose does not outlive its source cards: after a CLEAN
\* verdict no draft made from the client's material is left, with the same
\* exceptions.
DraftsFollowCards ==
    \A c \in Clients : verdict[c] = "clean" =>
        \A d \in drafts : c \in d.of => d.missed

\* A CLEAN verdict is the truth about the store and about the drafts made from it
\* (purge.py, the cascade and its verification).
CleanIsClean == CleanMeansGone /\ DraftsFollowCards

\* A held card holds its parents: while a card is held whose record names the
\* client of its document, no step of a purge that no ingest ran beside removes
\* the retained source the card was made from, whichever client is purged.
\* Excepted: a document of which the purge removed another card.
HeldKeepsSource ==
    [][\A k \in Ids :
          /\ Exists(k) /\ card[k].held /\ record[k] # None
          /\ card[k].doc \in (source \cap meta) \ cur.twice
          /\ card[k].doc.client \in record[k].sources
          /\ ~cur.beside
          => card[k].doc \in source']_vars

\* purge.py on the sweep of drafts, without the exceptions.
NoDraftOutlives ==
    \A c \in Clients : verdict[c] = "clean" => \A d \in drafts : c \notin d.of

\* ingest.py: a claim's proposal is linked to its source card so that the purge
\* cascade reaches it; after a CLEAN verdict none of the client's is open.
CascadeReachesClaims ==
    \A c \in Clients : verdict[c] = "clean" =>
        \A p \in Keys : p.client = c => proposal[p] # "proposed"

=============================================================================
