------------------------------ MODULE FitToPage ------------------------------
(***************************************************************************)
(* cv/src/fit.js: how many of the ranked bullets the CV shows, decided by  *)
(* measuring the real layout, one measure at a time: one full page, a      *)
(* second one only when the relevant bullets alone reach a page and a      *)
(* half.  When the skills column alone runs past the page it gives way     *)
(* first.                                                                  *)
(***************************************************************************)
EXTENDS CvModel

CONSTANTS HeightOf,     \* how long each bullet is
          ColumnOf,     \* how long the skills column is, with each of SKILL_CAPS
          OnePage,      \* ONE_PAGE - SAFETY
          TwoPagesFrom, \* TWO_PAGES_FROM
          TwoPages,     \* TWO_PAGES - SAFETY
          Analyses      \* what a CV may be tailored to

Caps == 1..Len(ColumnOf)

ASSUME FitAssumption ==
         /\ Len(ColumnOf) \in Nat \ {0}
         /\ {OnePage, TwoPages} \subseteq Nat /\ OnePage < TwoPages
         /\ \A a \in Analyses : DOMAIN a.picks \subseteq Nat

VARIABLES analysis,  \* what the CV is tailored to
          stage,     \* what is measured next
          cap,       \* which of SKILL_CAPS
          ids,       \* the bullets that are searched
          limit,     \* the length to fit
          low, high  \* how many of them fit, and how many might

fitVars == <<analysis, stage, cap, ids, limit, low, high>>

\* measure: the longer of the two columns.
LengthOf(bullets, k, c) ==
  LET shown == OnTheCv(analysis, First(analysis, bullets, k)) IN
  Max({ColumnOf[c], FoldSet(LAMBDA b, sum : HeightOf[b] + sum, 0, shown)})

\* Mutant: what was measured is kept whatever the number of skills.
MeasuredOnce(bullets, k, c) == LengthOf(bullets, k, 1)

\* lengthOf: a measure is kept for its bullets and its number of skills.
Measured(bullets, k, c) == LengthOf(bullets, k, c)

FitTypeOK ==
  /\ analysis \in Analyses
  /\ stage \in {"relevant", "caps", "search", "done"}
  /\ cap \in Caps /\ ids \in SUBSET Bullets
  /\ limit \in {OnePage, TwoPages}
  /\ low \in 0..Cardinality(ids) /\ high \in low..Cardinality(ids)

FitInit ==
  /\ analysis \in Analyses
  /\ stage = "relevant" /\ cap = 1
  /\ ids = {} /\ limit = OnePage /\ low = 0 /\ high = 0

\* The relevant bullets alone.
MeasureRelevant ==
  LET bullets == Relevant(analysis)
      pages == Measured(bullets, Cardinality(bullets), cap)
  IN
  /\ stage = "relevant"
  /\ IF pages >= TwoPagesFrom
       THEN /\ ids' = bullets /\ limit' = TwoPages /\ high' = Cardinality(bullets)
            /\ IF pages <= TwoPages THEN stage' = "done" /\ low' = high'
                                    ELSE stage' = "search" /\ low' = 0
       ELSE stage' = "caps" /\ UNCHANGED <<ids, limit, low, high>>
  /\ UNCHANGED <<analysis, cap>>

\* No bullet at all, with fewer and fewer skills; the last cap stands.
MeasureColumn ==
  /\ stage = "caps"
  /\ IF Measured(Ranked(analysis), 0, cap) <= OnePage \/ cap = Len(ColumnOf)
       THEN /\ stage' = "search"
            /\ ids' = Ranked(analysis) /\ limit' = OnePage
            /\ low' = 0 /\ high' = Cardinality(ids')
            /\ UNCHANGED cap
       ELSE cap' = cap + 1 /\ UNCHANGED <<stage, ids, limit, low, high>>
  /\ UNCHANGED analysis

\* Math.ceil((low + high) / 2)
Middle == (low + high + 1) \div 2

Halve ==
  /\ stage = "search" /\ low < high
  /\ IF Measured(ids, Middle, cap) <= limit THEN low' = Middle /\ UNCHANGED high
                                            ELSE high' = Middle - 1 /\ UNCHANGED low
  /\ UNCHANGED <<analysis, stage, cap, ids, limit>>

Found ==
  /\ stage = "search" /\ low = high
  /\ stage' = "done"
  /\ UNCHANGED <<analysis, cap, ids, limit, low, high>>

FitNext == MeasureRelevant \/ MeasureColumn \/ Halve \/ Found

FitSpec == FitInit /\ [][FitNext]_fitVars

----------------------------------------------------------------------------
(* What must hold.                                                         *)

\* The CV that is written fits its limit, unless not even the bullets every
\* main mission must show do; one more bullet would not have fitted; and it
\* goes on a second page only for relevant content of a page and a half.
LengthIsRight ==
  stage = "done" =>
    /\ low = 0 \/ LengthOf(ids, low, cap) <= limit
    /\ low = Cardinality(ids) \/ ~ (LengthOf(ids, low + 1, cap) <= limit)
    /\ limit = TwoPages => LengthOf(ids, Cardinality(ids), 1) >= TwoPagesFrom

\* No experience shows more bullets than the reference (rule 4), and a bullet
\* of a short mission or of R&D is shown only where it backs a requirement
\* (rule 3).
RulesHold ==
  LET shown == First(analysis, ids, low) IN
  stage = "done" =>
    /\ \A e \in DOMAIN Experiences :
         Cardinality(Printed(analysis, shown, e)) <= Cardinality(Printed(analysis, shown, Reference))
    /\ \A b \in OnTheCv(analysis, shown) :
         Kind(ExperienceOf(b)) # "main" => b \in shown /\ Backs(analysis, b)

\* Both, whatever was measured and given up on the way.
FittedIsRight == FitTypeOK /\ LengthIsRight /\ RulesHold
=============================================================================
