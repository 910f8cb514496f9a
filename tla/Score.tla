------------------------------- MODULE Score -------------------------------
(***************************************************************************)
(* cv/src/score.js: the score and the qualification that a table of        *)
(* requirements gives.                                                     *)
(***************************************************************************)
EXTENDS Naturals, FiniteSets, FiniteSetsExt

CONSTANT Lab \* the skills that are practised in personal R&D only

Weight(row) == IF row.importance = "must" THEN 3 ELSE 1

\* Twice MATCH_VALUE, so that it is whole.
Value(match) == CASE match = "yes" -> 2 [] match = "adjacent" -> 1 [] OTHER -> 0

LabOnly(row) == row.match # "no" /\ row.skills # {} /\ row.skills \subseteq Lab

\* A personal quality, or a condition to confirm, is not scored.
Counts(row) == row.kind \notin {"quality", "condition"}

\* The indices of the rows of a table that count.
Scored(rows) == {i \in DOMAIN rows : Counts(rows[i])}

Total(rows) == FoldSet(LAMBDA i, sum : Weight(rows[i]) + sum, 0, Scored(rows))

\* Mutant: the lab is worth as much as client experience.
WorthAnywhere(row) == Weight(row) * Value(row.match)

\* Twice what a row brings; the lab is worth half at most.
Worth(row) == Weight(row) * (IF LabOnly(row) THEN Min({1, Value(row.match)}) ELSE Value(row.match))

Met(rows) == FoldSet(LAMBDA i, sum : Worth(rows[i]) + sum, 0, Scored(rows))

\* Math.round of the percentage; there is none where nothing counts.
ScoreOf(rows) == (100 * Met(rows) + Total(rows)) \div (2 * Total(rows))

\* qualification: the musts that are not met by client experience.  The rows
\* that name what is never claimed are those at the indices `never'.
IsGap(row, isNever) == isNever \/ row.match = "no" \/ LabOnly(row) \/ row.judged

Musts(rows) == {i \in Scored(rows) : rows[i].importance = "must"}

Gaps(rows, never) == {i \in Musts(rows) : IsGap(rows[i], i \in never)}

Level(rows, never) ==
  LET gaps == Cardinality(Gaps(rows, never)) IN
  IF gaps = 0 THEN "qualified"
  ELSE IF 2 * gaps >= Cardinality(Musts(rows)) THEN "not-qualified" ELSE "partial"
=============================================================================
