--------------------------- MODULE ExtractionGate ---------------------------
(***************************************************************************)
(* The proof gate of the extraction stack (extraction/gate.py,             *)
(* extraction/twopath.py): every document of the corpus is converted in    *)
(* the sandbox, the labelled ones a second time by the VLM path, and five  *)
(* written criteria turn the scores into a verdict.                        *)
(*                                                                         *)
(* A grid is a sequence of rows of normalised cell texts; "" is an empty   *)
(* cell.  One labelled table stands for the labelled documents; the others *)
(* contribute their seconds per page.                                      *)
(***************************************************************************)
EXTENDS Naturals, Sequences, FiniteSets, SequencesExt, FiniteSetsExt

CONSTANTS Cases,     \* [truth, det, vlm : grid, rates : Seq, bounds : BOOLEAN, form : BOOLEAN]
          Bar, Near  \* P95_BAR_S_PER_PAGE and the end of the near band

\* Assumed of the constants wherever this module is instantiated.
GateConstants ==
    /\ Bar \in Nat /\ Near \in Nat
    /\ \A c \in Cases : /\ {c.truth, c.det, c.vlm} \subseteq Seq(Seq(STRING))
                        /\ c.rates \in Seq(Nat) /\ {c.bounds, c.form} \subseteq BOOLEAN

VARIABLES case,      \* what the conversions of this corpus will say
          at,        \* phase of the run
          views,     \* the labelled table was converted
          rates,     \* seconds per page of the documents converted so far
          left,      \* documents still to convert
          findings,  \* [det, vlm, diff, failed] of the second pass
          report     \* report.json: verdicts of the criteria, verdict

vars == <<case, at, views, rates, left, findings, report>>

Unscored == [det |-> {}, vlm |-> {}, diff |-> {}, failed |-> FALSE]
Unwritten == [criteria |-> <<>>, verdict |-> "none", vlm_killed |-> FALSE]

Rows(a, b) == 1..Max({Len(a), Len(b)})
Row(g, r) == IF r \in DOMAIN g THEN g[r] ELSE <<>>
Has(g, r, c) == c \in DOMAIN Row(g, r)
Positions(a, b) == UNION {{r} \X (DOMAIN Row(a, r) \cup DOMAIN Row(b, r)) : r \in Rows(a, b)}
Kind(a, b, p) == IF ~Has(a, p[1], p[2]) THEN "only_in_b"
                 ELSE IF ~Has(b, p[1], p[2]) THEN "only_in_a" ELSE "value_differs"

\* Mutant: rows beyond the shorter grid are cut off by the zip.
ZipDiff(a, b) == {<<p, Kind(a, b, p)>> : p \in {q \in Positions(a, b) :
    q[1] \in DOMAIN a \cap DOMAIN b
    /\ ~(Has(a, q[1], q[2]) /\ Has(b, q[1], q[2]) /\ a[q[1]][q[2]] = b[q[1]][q[2]])}}
Diff(a, b) == {<<p, Kind(a, b, p)>> : p \in {q \in Positions(a, b) :
    ~(Has(a, q[1], q[2]) /\ Has(b, q[1], q[2]) /\ a[q[1]][q[2]] = b[q[1]][q[2]])}}

CellsOf(g) == UNION {{r} \X DOMAIN g[r] : r \in DOMAIN g}
Correct(g, truth) == {p \in CellsOf(truth) : Has(g, p[1], p[2]) /\ g[p[1]][p[2]] = truth[p[1]][p[2]]}
Accuracy(g, truth) == <<Cardinality(Correct(g, truth)), Cardinality(CellsOf(truth))>>

Texts(g) == {g[p[1]][p[2]] : p \in CellsOf(g)}
Fabricated(g, truth) ==
    {p \in CellsOf(g) : g[p[1]][p[2]] # "" /\ g[p[1]][p[2]] \notin Texts(truth)}

\* round() of Python: halves go to the even neighbour.
Round95(n) == LET q == (95 * n) \div 100  r == (95 * n) % 100
              IN  IF r > 50 \/ (r = 50 /\ q % 2 = 1) THEN q + 1 ELSE q
\* The value in the n-th place when the values are sorted.
Nth(values, n) ==
    Min({v \in ToSet(values) : Cardinality({i \in DOMAIN values : values[i] <= v}) >= n})
P95(values) ==
    IF values = <<>> THEN 0
    ELSE Nth(values, Min({Len(values), Max({1, Round95(Len(values))})}))

---------------------------------------------------------------------------
Init ==
    /\ case \in Cases /\ at = "convert" /\ views = FALSE /\ rates = <<>>
    /\ left = case.rates /\ findings = Unscored /\ report = Unwritten

TypeOK ==
    /\ at \in {"convert", "second", "judge", "done"} /\ views \in BOOLEAN
    /\ Len(rates) + Len(left) <= Len(case.rates)
    /\ findings.failed \in BOOLEAN /\ findings.det \subseteq CellsOf(case.det)
    /\ report.verdict \in {"none", "pass", "hold", "reject"}
    /\ \A k \in DOMAIN report.criteria : report.criteria[k] \in {"pass", "HOLD", "KILL"}

\* A document that fails leaves no view and no timing; the first is the table.
Convert(ok) ==
    /\ at = "convert" /\ left # <<>>
    /\ left' = SubSeq(left, 2, Len(left))
    /\ rates' = IF ok THEN Append(rates, Head(left)) ELSE rates
    /\ views' = (views \/ (ok /\ Len(left) = Len(case.rates)))
    /\ at' = IF Len(left) = 1 THEN "second" ELSE "convert"
    /\ UNCHANGED <<case, findings, report>>

Second ==
    /\ at = "second" /\ at' = "judge"
    /\ findings' = IF ~views THEN Unscored
                   ELSE [det |-> Fabricated(case.det, case.truth), failed |-> FALSE,
                         vlm |-> Fabricated(case.vlm, case.truth),
                         diff |-> Diff(case.det, case.vlm)]
    /\ UNCHANGED <<case, views, rates, left, report>>

\* A VLM leg that fails is its own finding, and the table is not looked at.
SecondFails ==
    /\ at = "second" /\ views /\ at' = "judge"
    /\ findings' = [Unscored EXCEPT !.failed = TRUE]
    /\ UNCHANGED <<case, views, rates, left, report>>

Grid == IF views THEN case.det ELSE <<>>
Speed == LET rate == P95(rates) IN
    IF rate <= Bar THEN "pass" ELSE IF rate <= Near THEN "HOLD" ELSE "KILL"
KillUnless(b) == IF b THEN "pass" ELSE "KILL"
Score == LET a == Accuracy(Grid, case.truth) IN a[2] > 0 /\ a[1] * 10 >= a[2] * 9
Criteria ==
    <<KillUnless(Score), KillUnless(case.bounds), KillUnless(findings.det = {}),
      KillUnless(case.form), Speed>>
Verdict(criteria) ==
    IF "KILL" \in ToSet(criteria) THEN "reject"
    ELSE IF "HOLD" \in ToSet(criteria) THEN "hold" ELSE "pass"

Judge ==
    /\ at = "judge" /\ at' = "done"
    /\ report' = [criteria |-> Criteria, verdict |-> Verdict(Criteria),
                  vlm_killed |-> findings.vlm # {} \/ findings.failed]
    /\ UNCHANGED <<case, views, rates, left, findings>>

Next == (\E ok \in BOOLEAN : Convert(ok)) \/ Second \/ SecondFails \/ Judge
Spec == Init /\ [][Next]_vars

---------------------------------------------------------------------------
\* The tripwire is sound: at every position the diff shows an invented cell, unless both
\* paths invented it, and a cell of the key that only one path has right; and it shows
\* the same positions whichever path comes first.  What it does not show: a text of the
\* key that both paths put in the same wrong place is in no diff and, as a shift of real
\* content, not invented; only the accuracy counts it (gate.py:42-65, 85-100, twopath.py:8-14).
TripwireFires ==
    LET shown == {f[1] : f \in Diff(case.det, case.vlm)}
        invented(g) == Fabricated(g, case.truth)
        right(g) == Correct(g, case.truth)
    IN  /\ invented(case.det) \ invented(case.vlm) \subseteq shown
        /\ right(case.det) \ right(case.vlm) \subseteq shown
        /\ right(case.vlm) \ right(case.det) \subseteq shown
        /\ shown = {f[1] : f \in Diff(case.vlm, case.det)}

\* The first k rows of a grid, each cut off after w cells, and the widths there are.
Cut(g, k, w) == [r \in 1..k |-> [c \in (1..w) \cap DOMAIN g[r] |-> g[r][c]]]
Widths(g) == UNION {0..Len(g[r]) : r \in DOMAIN g}

\* "An extractor cannot improve its score by dropping cells" (gate.py:68-72), from the
\* end: no extraction without its last rows, and none without its last columns, scores
\* better.  (A cell dropped from the middle shifts what follows, which may come right by it.)
DroppingNeverHelps ==
    \A k \in 0..Len(case.det), w \in Widths(case.det) :
        LET a == Accuracy(Cut(case.det, k, w), case.truth)  b == Accuracy(case.det, case.truth)
        IN  a[1] * b[2] <= b[1] * a[2]

\* On a corpus of at most ten documents the p95 is the slowest one that was
\* converted: no document hides behind the percentile (gate.py:137-141).
SlowestCounts == rates # <<>> /\ Len(rates) <= 10 => P95(rates) = Max(ToSet(rates))

\* No passing verdict without the labelled table: when its conversion failed the
\* gate rejects, whatever the other documents say (gate.py:387-406, 153-211).
PassMeansConverted == report.verdict \in {"pass", "hold"} => views /\ case.bounds

\* "zero silent fabrication in the deterministic path" (gate.py:172): a gate that
\* passes has no invented cell in the deterministic reading of a labelled table.
PassMeansNoInvention ==
    report.verdict = "pass" => Fabricated(case.det, case.truth) = {}
=============================================================================
