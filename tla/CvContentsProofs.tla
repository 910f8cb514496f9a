-------------------------- MODULE CvContentsProofs --------------------------
(***************************************************************************)
(* Proofs about what a CV says and shows: the docx that is fitted to its   *)
(* pages (FitToPage), the page that is filled in the browser (A4Page), the *)
(* table of requirements (Normalize) and what is selected for it           *)
(* (Selection), for every profile, analysis, offer and layout.             *)
(***************************************************************************)
EXTENDS Normalize, Selection, FitToPage, A4Page, FiniteSetTheorems, WellFoundedInduction, TLAPS

----------------------------------------------------------------------------
(* The bullets, and the order in which they are worth showing.             *)

LEMMA BulletsArePlaced ==
  ASSUME NEW b \in Bullets
  PROVE  /\ ExperienceOf(b) \in DOMAIN Experiences /\ b \in BulletsOf(ExperienceOf(b))
         /\ PositionOf(b) \in DOMAIN Experiences[ExperienceOf(b)].bullets
         /\ Experiences[ExperienceOf(b)].bullets[PositionOf(b)] = b
         /\ ExperienceOf(b) \in Nat /\ PositionOf(b) \in Nat
<1>1. \E e \in DOMAIN Experiences : b \in BulletsOf(e)
  BY DEF Bullets
<1>2. ExperienceOf(b) \in DOMAIN Experiences /\ b \in BulletsOf(ExperienceOf(b))
  BY <1>1 DEF ExperienceOf
<1>3. \E i \in DOMAIN Experiences[ExperienceOf(b)].bullets :
        Experiences[ExperienceOf(b)].bullets[i] = b
  BY <1>2 DEF BulletsOf, Range
<1>4. /\ PositionOf(b) \in DOMAIN Experiences[ExperienceOf(b)].bullets
      /\ Experiences[ExperienceOf(b)].bullets[PositionOf(b)] = b
  BY <1>3 DEF PositionOf
<1>5. ExperienceOf(b) \in Nat
  BY <1>2, CvAssumption
<1>6. PositionOf(b) \in Nat
  <2>1. Experiences[ExperienceOf(b)].bullets \in Seq(BulletsOf(ExperienceOf(b)))
    BY <1>2, CvAssumption
  <2>2. \A s \in Seq(BulletsOf(ExperienceOf(b))) : DOMAIN s \subseteq Nat
    OBVIOUS
  <2> QED BY <1>4, <2>1, <2>2
<1> QED BY <1>2, <1>4, <1>5, <1>6

\* A bullet belongs to one experience.
LEMMA OneExperience ==
  ASSUME NEW e \in DOMAIN Experiences, NEW b \in BulletsOf(e)
  PROVE  b \in Bullets /\ ExperienceOf(b) = e
<1>1. b \in Bullets
  BY DEF Bullets
<1>2. ExperienceOf(b) \in DOMAIN Experiences /\ b \in BulletsOf(ExperienceOf(b))
  BY <1>1, BulletsArePlaced
<1> QED BY <1>1, <1>2, CvAssumption

LEMMA BulletsAreFinite ==
  /\ \A e \in DOMAIN Experiences : IsFiniteSet(BulletsOf(e))
  /\ IsFiniteSet(Bullets)
<1>1. ASSUME NEW e \in DOMAIN Experiences PROVE IsFiniteSet(BulletsOf(e))
  <2> DEFINE s == Experiences[e].bullets
  <2>1. s \in Seq(BulletsOf(e))
    BY CvAssumption
  <2>2. Len(s) \in Nat /\ DOMAIN s = 1..Len(s)
    BY <2>1
  <2> HIDE DEF s
  <2>3. IsFiniteSet(1..Len(s))
    BY <2>2, FS_Interval
  <2> USE DEF s
  <2>4. s \in Surjection(1..Len(s), BulletsOf(e))
    BY <2>1, <2>2 DEF Surjection, BulletsOf, Range
  <2> QED BY <2>3, <2>4, FS_Surjection
<1> DEFINE all == {BulletsOf(e) : e \in DOMAIN Experiences}
           f == [e \in DOMAIN Experiences |-> BulletsOf(e)]
<1>2. f \in Surjection(DOMAIN Experiences, all)
  BY DEF Surjection
<1>3. IsFiniteSet(all)
  BY <1>2, CvAssumption, FS_Surjection
<1>4. IsFiniteSet(UNION all)
  BY <1>1, <1>3, FS_UNION
<1> QED BY <1>1, <1>4 DEF Bullets

IsAnalysis(a) == DOMAIN a.picks \subseteq Nat

LEMMA KeysAreNumbers ==
  ASSUME NEW a, IsAnalysis(a), NEW b \in Bullets
  PROVE  /\ Tier(a, b) \in 0..2 /\ Relevance(a, b) \in Nat
         /\ Tier(a, b) = 2 => PickOf(a, b) \in Nat /\ a.picks[PickOf(a, b)] = b
<1>1. Relevance(a, b) \in Nat
  BY CvAssumption, FS_Intersection, FS_CardinalityType DEF Relevance
<1>2. Tier(a, b) \in 0..2 /\ (Tier(a, b) = 2 => Picked(a, b))
  BY DEF Tier
<1>3. Picked(a, b) => \E i \in DOMAIN a.picks : a.picks[i] = b
  BY DEF Picked, Range
<1>4. Picked(a, b) => PickOf(a, b) \in DOMAIN a.picks /\ a.picks[PickOf(a, b)] = b
  BY <1>3 DEF PickOf
<1> QED BY <1>1, <1>2, <1>4 DEF IsAnalysis

\* The sort of rankBullets is of a strict order in which no two are even.
LEMMA EarlierIsAnOrder ==
  ASSUME NEW a, IsAnalysis(a)
  PROVE  /\ \A b \in Bullets : ~ Earlier(a, b, b)
         /\ \A b, c, d \in Bullets : Earlier(a, b, c) /\ Earlier(a, c, d) => Earlier(a, b, d)
         /\ \A b, c \in Bullets : b # c => Earlier(a, b, c) \/ Earlier(a, c, b)
<1> DEFINE Keys(b) == /\ Tier(a, b) \in 0..2 /\ Relevance(a, b) \in Nat
                      /\ ExperienceOf(b) \in Nat /\ PositionOf(b) \in Nat
                      /\ Tier(a, b) = 2 => PickOf(a, b) \in Nat
<1>1. \A b \in Bullets : Keys(b)
  BY KeysAreNumbers, BulletsArePlaced
<1>2. ASSUME NEW b \in Bullets, Earlier(a, b, b) PROVE FALSE
  BY <1>1, <1>2 DEF Earlier
<1>3. ASSUME NEW b \in Bullets, NEW c \in Bullets, NEW d \in Bullets,
             Earlier(a, b, c), Earlier(a, c, d)
      PROVE  Earlier(a, b, d)
  BY <1>1, <1>3 DEF Earlier
<1>4. ASSUME NEW b \in Bullets, NEW c \in Bullets, b # c, ~ Earlier(a, b, c), ~ Earlier(a, c, b)
      PROVE  FALSE
  <2>1. Keys(b) /\ Keys(c) /\ Tier(a, b) = Tier(a, c)
    BY <1>1, <1>4 DEF Earlier
  <2>2. CASE Tier(a, b) = 2
    <3>1. PickOf(a, b) = PickOf(a, c)
      BY <1>4, <2>1, <2>2 DEF Earlier
    <3> QED BY <1>4, <2>1, <2>2, <3>1, KeysAreNumbers
  <2>3. CASE Tier(a, b) # 2
    <3>1. ExperienceOf(b) = ExperienceOf(c) /\ PositionOf(b) = PositionOf(c)
      BY <1>4, <2>1, <2>3 DEF Earlier
    <3> QED BY <1>4, <3>1, BulletsArePlaced
  <2> QED BY <2>2, <2>3
<1> QED BY <1>2, <1>3, <1>4

\* What is cut to the first n, of some things in a strict order.
IsOrder(R, S) ==
  /\ \A x \in S : <<x, x>> \notin R
  /\ \A x, y, z \in S : <<x, y>> \in R /\ <<y, z>> \in R => <<x, z>> \in R
  /\ \A x, y \in S : x # y => <<x, y>> \in R \/ <<y, x>> \in R

AheadOf(R, S, x) == {y \in S : <<y, x>> \in R}

LEMMA MoreAreAhead ==
  ASSUME NEW S, IsFiniteSet(S), NEW R, IsOrder(R, S)
  PROVE  /\ \A x \in S : Cardinality(AheadOf(R, S, x)) \in Nat
         /\ \A x, y \in S : <<x, y>> \in R =>
              Cardinality(AheadOf(R, S, x)) < Cardinality(AheadOf(R, S, y))
<1>1. \A x \in S : AheadOf(R, S, x) \in SUBSET S
  BY DEF AheadOf
<1>2. \A x \in S : IsFiniteSet(AheadOf(R, S, x)) /\ Cardinality(AheadOf(R, S, x)) \in Nat
  BY <1>1, FS_Subset, FS_CardinalityType
<1>3. ASSUME NEW x \in S, NEW y \in S, <<x, y>> \in R
      PROVE  Cardinality(AheadOf(R, S, x)) < Cardinality(AheadOf(R, S, y))
  <2>1. x \in AheadOf(R, S, y) /\ x \notin AheadOf(R, S, x)
    BY <1>3 DEF AheadOf, IsOrder
  <2>2. AheadOf(R, S, x) \in SUBSET AheadOf(R, S, y)
    BY <1>3 DEF AheadOf, IsOrder
  <2>3. /\ Cardinality(AheadOf(R, S, x)) <= Cardinality(AheadOf(R, S, y))
        /\ Cardinality(AheadOf(R, S, x)) # Cardinality(AheadOf(R, S, y))
    BY <1>2, <2>1, <2>2, FS_Subset
  <2> QED BY <1>2, <2>3
<1> QED BY <1>2, <1>3

LEMMA FewComeFirst ==
  ASSUME NEW S, IsFiniteSet(S), NEW R, IsOrder(R, S), NEW n \in Nat
  PROVE  LET F == {x \in S : Cardinality(AheadOf(R, S, x)) < n} IN
         F \in SUBSET S /\ IsFiniteSet(F) /\ Cardinality(F) <= n
<1> DEFINE F == {x \in S : Cardinality(AheadOf(R, S, x)) < n}
           f == [x \in F |-> Cardinality(AheadOf(R, S, x))]
<1>1. F \in SUBSET S /\ \A x \in F : Cardinality(AheadOf(R, S, x)) < n
  OBVIOUS
<1>2. f \in Injection(F, 0..(n - 1))
  <2>1. \A x \in F : Cardinality(AheadOf(R, S, x)) \in 0..(n - 1)
    BY <1>1, MoreAreAhead
  <2>2. ASSUME NEW x \in F, NEW y \in F, x # y
        PROVE  Cardinality(AheadOf(R, S, x)) # Cardinality(AheadOf(R, S, y))
    <3>1. x \in S /\ y \in S
      BY <1>1
    <3> HIDE DEF F
    <3>2. <<x, y>> \in R \/ <<y, x>> \in R
      BY <2>2, <3>1 DEF IsOrder
    <3>3. Cardinality(AheadOf(R, S, x)) \in Nat /\ Cardinality(AheadOf(R, S, y)) \in Nat
      BY <3>1, MoreAreAhead
    <3> QED BY <3>1, <3>2, <3>3, MoreAreAhead
  <2> HIDE DEF F
  <2> QED BY <2>1, <2>2 DEF Injection, IsInjective
<1>3. IsFiniteSet(0..(n - 1)) /\ Cardinality(0..(n - 1)) = n
  BY FS_Interval
<1> QED BY <1>1, <1>2, <1>3, FS_Injection

Before(a, S, b) == {c \in S : Earlier(a, c, b)}

LEMMA EarlierOrders ==
  ASSUME NEW a, IsAnalysis(a), NEW S \in SUBSET Bullets
  PROVE  LET R == {p \in S \X S : Earlier(a, p[1], p[2])} IN
         /\ IsFiniteSet(S) /\ IsOrder(R, S)
         /\ \A b \in S : AheadOf(R, S, b) = Before(a, S, b)
<1> DEFINE R == {p \in S \X S : Earlier(a, p[1], p[2])}
<1>1. \A b, c \in S : <<b, c>> \in R <=> Earlier(a, b, c)
  OBVIOUS
<1> HIDE DEF R
<1>2. IsOrder(R, S)
  BY <1>1, EarlierIsAnOrder DEF IsOrder
<1>3. \A b \in S : AheadOf(R, S, b) = Before(a, S, b)
  BY <1>1 DEF AheadOf, Before
<1> QED BY <1>2, <1>3, BulletsAreFinite, FS_Subset DEF R

LEMMA BeforeRises ==
  ASSUME NEW a, IsAnalysis(a), NEW S \in SUBSET Bullets
  PROVE  /\ \A b \in S : Cardinality(Before(a, S, b)) \in Nat
         /\ \A b, c \in S : Earlier(a, b, c) =>
              Cardinality(Before(a, S, b)) < Cardinality(Before(a, S, c))
<1> DEFINE R == {p \in S \X S : Earlier(a, p[1], p[2])}
<1>1. \A b, c \in S : Earlier(a, b, c) => <<b, c>> \in R
  OBVIOUS
<1>2. IsFiniteSet(S) /\ IsOrder(R, S) /\ \A b \in S : AheadOf(R, S, b) = Before(a, S, b)
  BY EarlierOrders
<1> HIDE DEF R
<1>3. /\ \A b \in S : Cardinality(AheadOf(R, S, b)) \in Nat
      /\ \A b, c \in S : <<b, c>> \in R =>
           Cardinality(AheadOf(R, S, b)) < Cardinality(AheadOf(R, S, c))
  BY <1>2, MoreAreAhead
<1> QED BY <1>1, <1>2, <1>3

\* The first k are at most k.
LEMMA FirstAreFew ==
  ASSUME NEW a, IsAnalysis(a), NEW S \in SUBSET Bullets, NEW k \in Nat
  PROVE  /\ First(a, S, k) \in SUBSET S
         /\ IsFiniteSet(First(a, S, k)) /\ Cardinality(First(a, S, k)) <= k
<1> DEFINE R == {p \in S \X S : Earlier(a, p[1], p[2])}
<1>1. IsFiniteSet(S) /\ IsOrder(R, S) /\ \A b \in S : AheadOf(R, S, b) = Before(a, S, b)
  BY EarlierOrders
<1> HIDE DEF R
<1>2. First(a, S, k) = {b \in S : Cardinality(AheadOf(R, S, b)) < k}
  BY <1>1 DEF First, Before
<1> QED BY <1>1, <1>2, FewComeFirst

\* Of some bullets, one is earlier than all the others.
LEMMA OneIsEarliest ==
  ASSUME NEW a, IsAnalysis(a), NEW S \in SUBSET Bullets, S # {}
  PROVE  \E b \in S : \A c \in S \ {b} : Earlier(a, b, c)
<1> DEFINE R == {p \in Nat \X Nat : p[1] < p[2]}
           N == {Cardinality(Before(a, S, b)) : b \in S}
<1>1. N \in SUBSET Nat /\ N # {}
  BY BeforeRises
<1>2. PICK n \in N : \A k \in N : <<k, n>> \notin R
  <2>1. IsWellFoundedOn(R, Nat)
    BY NatLessThanWellFounded DEF OpToRel
  <2> HIDE DEF R, N
  <2> QED BY <1>1, <2>1, WFMin
<1>3. PICK b \in S : n = Cardinality(Before(a, S, b))
  OBVIOUS
<1>4. ASSUME NEW c \in S \ {b} PROVE Earlier(a, b, c)
  <2>1. ~ Earlier(a, c, b)
    <3>1. Cardinality(Before(a, S, c)) \in Nat /\ n \in Nat /\ Cardinality(Before(a, S, c)) \in N
      BY <1>1
    <3>2. ~ (Cardinality(Before(a, S, c)) < n)
      BY <1>2, <3>1
    <3> QED BY <1>3, <3>2, BeforeRises
  <2> QED BY <2>1, EarlierIsAnOrder
<1> QED BY <1>4

----------------------------------------------------------------------------
(* What a CV shows.                                                        *)

LEMMA ChosenAreItsOwn ==
  ASSUME NEW a, NEW shown, NEW e \in DOMAIN Experiences
  PROVE  /\ ChosenOf(a, shown, e) \in SUBSET BulletsOf(e)
         /\ ChosenOf(a, shown, e) \in SUBSET Bullets /\ IsFiniteSet(ChosenOf(a, shown, e))
         /\ Cardinality(ChosenOf(a, shown, e)) \in Nat
<1>1. Experiences[e].bullets[1] \in BulletsOf(e)
  <2>1. Experiences[e].bullets \in Seq(BulletsOf(e)) /\ Experiences[e].bullets # << >>
    BY CvAssumption
  <2> QED BY <2>1
<1>2. ChosenOf(a, shown, e) \in SUBSET BulletsOf(e)
  BY <1>1 DEF ChosenOf
<1> QED BY <1>2, BulletsAreFinite, FS_Subset, FS_CardinalityType DEF Bullets

LEMMA PrintedAreChosen ==
  ASSUME NEW a, IsAnalysis(a), NEW shown, NEW e \in DOMAIN Experiences
  PROVE  Printed(a, shown, e) \in SUBSET ChosenOf(a, shown, e)
<1>1. CASE e = Reference
  BY <1>1 DEF Printed
<1>2. CASE e # Reference
  BY <1>2, ChosenAreItsOwn, FirstAreFew, CvAssumption DEF Printed
<1> QED BY <1>1, <1>2

\* Rule 4, for any bullets that are chosen to be shown.
LEMMA ReferenceShowsMost ==
  ASSUME NEW a, IsAnalysis(a), NEW shown, NEW e \in DOMAIN Experiences
  PROVE  Cardinality(Printed(a, shown, e)) <= Cardinality(Printed(a, shown, Reference))
<1> DEFINE most == Cardinality(ChosenOf(a, shown, Reference))
<1>1. Cardinality(Printed(a, shown, Reference)) = most /\ most \in Nat
  BY ChosenAreItsOwn, CvAssumption DEF Printed
<1>2. CASE e = Reference
  BY <1>1, <1>2
<1>3. CASE e # Reference
  BY <1>1, <1>3, ChosenAreItsOwn, FirstAreFew DEF Printed
<1> QED BY <1>2, <1>3

\* Rule 3: a bullet of no main mission is one that was to be shown, and ranked.
LEMMA OthersAreBacked ==
  ASSUME NEW a, IsAnalysis(a), NEW shown, NEW b \in OnTheCv(a, shown), Kind(ExperienceOf(b)) # "main"
  PROVE  b \in shown /\ Backs(a, b)
<1>1. PICK e \in DOMAIN Experiences : b \in Printed(a, shown, e)
  BY DEF OnTheCv
<1>2. b \in ChosenOf(a, shown, e) /\ b \in BulletsOf(e)
  BY <1>1, PrintedAreChosen, ChosenAreItsOwn
<1>3. Kind(e) # "main"
  BY <1>2, OneExperience
<1>4. b \in Ranked(a) /\ b \in shown
  BY <1>2, <1>3 DEF ChosenOf
<1> QED BY <1>4 DEF Ranked, EarnsItsPlace

----------------------------------------------------------------------------
(* The docx.                                                               *)

\* LengthOf, with the analysis as a parameter.
LengthFor(a, bullets, k, c) ==
  LET shown == OnTheCv(a, First(a, bullets, k)) IN
  Max({ColumnOf[c], FoldSet(LAMBDA b, sum : HeightOf[b] + sum, 0, shown)})

LEMMA LengthIsFor ==
  ASSUME NEW S, NEW k, NEW c
  PROVE  LengthOf(S, k, c) = LengthFor(analysis, S, k, c)
BY DEF LengthOf, LengthFor

\* The search keeps, at its two ends, what it has measured.
EndsAreMeasured ==
  stage \in {"search", "done"} =>
    /\ low = 0 \/ LengthFor(analysis, ids, low, cap) <= limit
    /\ high = Cardinality(ids) \/ ~ (LengthFor(analysis, ids, high + 1, cap) <= limit)
    /\ limit = TwoPages => LengthFor(analysis, ids, Cardinality(ids), 1) >= TwoPagesFrom

FitInv ==
  /\ FitTypeOK /\ EndsAreMeasured
  /\ stage = "relevant" => cap = 1
  /\ stage \in {"relevant", "caps"} => limit = OnePage
  /\ stage = "done" => low = high

LEMMA RankedAreBullets ==
  ASSUME NEW a
  PROVE  /\ Ranked(a) \in SUBSET Bullets /\ Cardinality(Ranked(a)) \in Nat
         /\ Relevant(a) \in SUBSET Bullets /\ Cardinality(Relevant(a)) \in Nat
<1>1. Ranked(a) \in SUBSET Bullets /\ Relevant(a) \in SUBSET Bullets
  BY DEF Ranked, Relevant
<1> QED BY <1>1, BulletsAreFinite, FS_Subset, FS_CardinalityType

LEMMA FitStarts == FitInit => FitInv
<1> SUFFICES ASSUME FitInit PROVE FitInv
  OBVIOUS
<1>1. Cardinality({}) = 0
  BY FS_EmptySet
<1> QED BY <1>1, FitAssumption DEF FitInit, FitInv, FitTypeOK, EndsAreMeasured, Caps

LEMMA FitStep == FitInv /\ [FitNext]_fitVars => FitInv'
<1> SUFFICES ASSUME FitInv, [FitNext]_fitVars PROVE FitInv'
  OBVIOUS
<1>1. CASE MeasureRelevant
  <2> DEFINE bullets == Relevant(analysis)
  <2>1. /\ stage = "relevant" /\ analysis' = analysis /\ cap' = cap /\ cap = 1 /\ limit = OnePage
    BY <1>1 DEF MeasureRelevant, FitInv
  <2>2. CASE LengthFor(analysis, bullets, Cardinality(bullets), cap) >= TwoPagesFrom
    <3>1. /\ ids' = bullets /\ limit' = TwoPages /\ high' = Cardinality(bullets)
          /\ \/ /\ LengthFor(analysis, bullets, Cardinality(bullets), cap) <= TwoPages
                /\ stage' = "done" /\ low' = high'
             \/ stage' = "search" /\ low' = 0
      BY <1>1, <2>2, LengthIsFor DEF MeasureRelevant, Measured
    <3>2. bullets \in SUBSET Bullets /\ Cardinality(bullets) \in Nat
      BY RankedAreBullets
    <3> HIDE DEF bullets
    <3>3. FitTypeOK'
      BY <2>1, <3>1, <3>2 DEF FitInv, FitTypeOK
    <3>4. EndsAreMeasured'
      BY <2>1, <2>2, <3>1 DEF EndsAreMeasured
    <3> QED BY <2>1, <3>1, <3>3, <3>4 DEF FitInv
  <2>3. CASE ~ (LengthFor(analysis, bullets, Cardinality(bullets), cap) >= TwoPagesFrom)
    <3>1. stage' = "caps" /\ UNCHANGED <<ids, limit, low, high>>
      BY <1>1, <2>3, LengthIsFor DEF MeasureRelevant, Measured
    <3> QED BY <2>1, <3>1 DEF FitInv, FitTypeOK, EndsAreMeasured
  <2> QED BY <2>2, <2>3
<1>2. CASE MeasureColumn
  <2>1. stage = "caps" /\ analysis' = analysis /\ limit = OnePage
    BY <1>2 DEF MeasureColumn, FitInv
  <2>2. CASE stage' = "search"
    <3>1. /\ ids' = Ranked(analysis) /\ limit' = OnePage /\ low' = 0
          /\ high' = Cardinality(ids') /\ cap' = cap
      BY <1>2, <2>1, <2>2 DEF MeasureColumn
    <3>2. FitTypeOK'
      BY <2>1, <2>2, <3>1, RankedAreBullets DEF FitInv, FitTypeOK
    <3>3. EndsAreMeasured'
      BY <3>1, FitAssumption DEF EndsAreMeasured
    <3> QED BY <2>2, <3>1, <3>2, <3>3 DEF FitInv
  <2>3. CASE stage' # "search"
    <3>1. cap # Len(ColumnOf) /\ cap' = cap + 1 /\ UNCHANGED <<stage, ids, limit, low, high>>
      BY <1>2, <2>3 DEF MeasureColumn
    <3>2. cap + 1 \in Caps
      BY <3>1, FitAssumption DEF FitInv, FitTypeOK, Caps
    <3> QED BY <2>1, <3>1, <3>2 DEF FitInv, FitTypeOK, EndsAreMeasured
  <2> QED BY <2>2, <2>3
<1>3. CASE Halve
  <2> DEFINE fits == LengthFor(analysis, ids, Middle, cap) <= limit
  <2>1. /\ stage = "search" /\ low < high /\ UNCHANGED <<analysis, stage, cap, ids, limit>>
        /\ IF fits THEN low' = Middle /\ high' = high ELSE high' = Middle - 1 /\ low' = low
    BY <1>3, LengthIsFor DEF Halve, Measured
  <2>2. /\ Cardinality(ids) \in Nat /\ low \in 0..Cardinality(ids) /\ high \in low..Cardinality(ids)
    BY BulletsAreFinite, FS_Subset, FS_CardinalityType DEF FitInv, FitTypeOK
  <2>3. Middle \in (low + 1)..high
    BY <2>1, <2>2 DEF Middle
  <2>4. FitTypeOK'
    BY <2>1, <2>2, <2>3 DEF FitInv, FitTypeOK
  <2>5. EndsAreMeasured'
    <3>1. CASE fits
      BY <2>1, <3>1 DEF FitInv, EndsAreMeasured
    <3>2. CASE ~ fits
      <4>1. high' + 1 = Middle
        BY <2>1, <2>2, <2>3, <3>2
      <4> QED BY <2>1, <3>2, <4>1 DEF FitInv, EndsAreMeasured
    <3> QED BY <3>1, <3>2
  <2> QED BY <2>1, <2>4, <2>5 DEF FitInv
<1>4. CASE Found
  BY <1>4 DEF Found, FitInv, FitTypeOK, EndsAreMeasured
<1>5. CASE UNCHANGED fitVars
  BY <1>5 DEF fitVars, FitInv, FitTypeOK, EndsAreMeasured
<1> QED BY <1>1, <1>2, <1>3, <1>4, <1>5 DEF FitNext

\* The docx that is written fits its pages, or shows no more than it must; one
\* more bullet would not have fitted; a second page is for relevant content of a
\* page and a half; and rules 3 and 4 of the profile hold of what is shown,
\* whatever was measured on the way (fit.js, tailor.js).
THEOREM DocxIsFitted == FitSpec => []FittedIsRight
<1>1. FitInv => FittedIsRight
  <2> SUFFICES ASSUME FitInv PROVE FittedIsRight
    OBVIOUS
  <2>1. LengthIsRight
    BY LengthIsFor DEF FitInv, EndsAreMeasured, LengthIsRight
  <2>2. IsAnalysis(analysis)
    BY FitAssumption DEF FitInv, FitTypeOK, IsAnalysis
  <2>3. RulesHold
    BY <2>2, ReferenceShowsMost, OthersAreBacked DEF RulesHold
  <2> QED BY <2>1, <2>3 DEF FitInv, FittedIsRight
<1> QED BY <1>1, FitStarts, FitStep, PTL DEF FitSpec

----------------------------------------------------------------------------
(* The page in the browser.                                                *)

\* ShownOf and Fits, with what they read of the state as parameters.
ShownFor(a, e, shown) == Cardinality(Items(a, e) \cap shown)

FitsFor(a, shown, space) ==
  LET heads == Cardinality({e \in DOMAIN Experiences : Kind(e) # "short" \/ Items(a, e) \cap shown # {}})
  IN space * (OtherLines + heads + FoldSet(LAMBDA b, sum : LinesOf[b] + sum, 0, shown)) <= Box

AllOf(a) == UNION {Items(a, e) : e \in DOMAIN Experiences}

MustsOf(a) == Indispensable(a) \cap AllOf(a)

LEMMA SheetIsFor ==
  /\ \A e \in DOMAIN Experiences : ShownOf(e) = ShownFor(asked, e, visible)
  /\ \A shown, space : Fits(shown, space) <=> FitsFor(asked, shown, space)
  /\ AllItems = AllOf(asked) /\ MustItems = MustsOf(asked)
  /\ AllItems = OnTheCv(asked, Ranked(asked))
<1>1. AllItems = AllOf(asked) /\ AllItems = OnTheCv(asked, Ranked(asked))
  BY DEF AllItems, AllOf, ItemsOf, Items, OnTheCv
<1>2. ASSUME NEW shown, NEW space PROVE Fits(shown, space) <=> FitsFor(asked, shown, space)
  BY DEF Fits, FitsFor, Height, Heads, ItemsOf
<1>3. \A e \in DOMAIN Experiences : ShownOf(e) = ShownFor(asked, e, visible)
  BY DEF ShownOf, ShownFor, ItemsOf
<1> QED BY <1>1, <1>2, <1>3 DEF MustItems, MustsOf

LEMMA ItemsAreItsOwn ==
  ASSUME NEW a, IsAnalysis(a), NEW e \in DOMAIN Experiences
  PROVE  /\ Items(a, e) \in SUBSET BulletsOf(e) /\ IsFiniteSet(Items(a, e))
         /\ \A shown : ShownFor(a, e, shown) \in Nat
<1>1. Items(a, e) \in SUBSET BulletsOf(e)
  BY PrintedAreChosen, ChosenAreItsOwn DEF Items
<1>2. IsFiniteSet(Items(a, e))
  BY <1>1, BulletsAreFinite, FS_Subset
<1>3. ASSUME NEW shown PROVE ShownFor(a, e, shown) \in Nat
  BY <1>2, FS_Intersection, FS_CardinalityType DEF ShownFor
<1> QED BY <1>1, <1>2, <1>3

BalancedFor(a, shown) ==
  \A e \in DOMAIN Experiences : ShownFor(a, e, shown) <= ShownFor(a, Reference, shown)

\* The musts are one bullet of each main mission at most, and one of the
\* reference: a main mission's first bullet is always ranked.
LEMMA MustsAreBalanced ==
  ASSUME NEW a, IsAnalysis(a)
  PROVE  BalancedFor(a, MustsOf(a))
<1> DEFINE FirstIn(e) == Experiences[e].bullets[1]
<1>1. ASSUME NEW e \in DOMAIN Experiences
      PROVE  Items(a, e) \cap MustsOf(a) \in SUBSET {FirstIn(e)}
  <2>1. ASSUME NEW b \in Items(a, e) \cap MustsOf(a) PROVE b \in ChosenOf(a, {}, e)
    <3>1. PICK f \in DOMAIN Experiences : b \in Printed(a, {}, f)
      BY DEF MustsOf, Indispensable, OnTheCv
    <3>2. b \in BulletsOf(f) /\ b \in BulletsOf(e) /\ b \in ChosenOf(a, {}, f)
      BY <3>1, PrintedAreChosen, ChosenAreItsOwn, ItemsAreItsOwn
    <3>3. f = e
      BY <3>2, OneExperience
    <3> QED BY <3>2, <3>3
  <2>2. ChosenOf(a, {}, e) \in SUBSET {FirstIn(e)}
    BY DEF ChosenOf
  <2> QED BY <2>1, <2>2
<1>2. \A e \in DOMAIN Experiences : ShownFor(a, e, MustsOf(a)) <= 1
  <2> TAKE e \in DOMAIN Experiences
  <2>1. IsFiniteSet({FirstIn(e)}) /\ Cardinality({FirstIn(e)}) = 1
    BY FS_Singleton
  <2> HIDE DEF FirstIn
  <2> QED BY <1>1, <2>1, FS_Subset DEF ShownFor
<1>3. FirstIn(Reference) \in Items(a, Reference) \cap MustsOf(a)
  <2>1. /\ Reference \in DOMAIN Experiences /\ Kind(Reference) = "main"
        /\ Experiences[Reference].bullets \in Seq(BulletsOf(Reference))
        /\ Experiences[Reference].bullets # << >>
    BY CvAssumption
  <2>2. FirstIn(Reference) \in BulletsOf(Reference)
    BY <2>1
  <2>3. FirstIn(Reference) \in Ranked(a)
    BY <2>1, <2>2, OneExperience DEF Ranked, EarnsItsPlace
  <2>4. FirstIn(Reference) \in Printed(a, {}, Reference)
    BY <2>1 DEF Printed, ChosenOf
  <2>5. FirstIn(Reference) \in Items(a, Reference)
    BY <2>2, <2>3 DEF Items, Printed, ChosenOf
  <2> QED BY <2>1, <2>4, <2>5 DEF MustsOf, AllOf, Indispensable, OnTheCv
<1>4. ShownFor(a, Reference, MustsOf(a)) >= 1
  <2>1. Reference \in DOMAIN Experiences
    BY CvAssumption
  <2>2. ShownFor(a, Reference, MustsOf(a)) \in Nat /\ IsFiniteSet(Items(a, Reference) \cap MustsOf(a))
    BY <2>1, ItemsAreItsOwn, FS_Intersection
  <2>3. ShownFor(a, Reference, MustsOf(a)) # 0
    BY <1>3, <2>2, FS_EmptySet DEF ShownFor
  <2> QED BY <2>2, <2>3
<1>5. ASSUME NEW e \in DOMAIN Experiences
      PROVE  ShownFor(a, e, MustsOf(a)) <= ShownFor(a, Reference, MustsOf(a))
  <2>1. ShownFor(a, e, MustsOf(a)) \in Nat /\ ShownFor(a, Reference, MustsOf(a)) \in Nat
    BY CvAssumption, ItemsAreItsOwn
  <2> QED BY <1>2, <1>4, <2>1
<1> QED BY <1>5 DEF BalancedFor

\* An item more, of the reference or of an experience that shows less than it.
LEMMA OneMoreIsBalanced ==
  ASSUME NEW a, IsAnalysis(a), NEW shown, BalancedFor(a, shown), NEW b \in AllOf(a), b \notin shown,
         \/ ExperienceOf(b) = Reference
         \/ ShownFor(a, ExperienceOf(b), shown) < ShownFor(a, Reference, shown)
  PROVE  BalancedFor(a, shown \cup {b})
<1>1. PICK f \in DOMAIN Experiences : b \in Items(a, f)
  BY DEF AllOf
<1>2. ExperienceOf(b) = f
  BY <1>1, ItemsAreItsOwn, OneExperience
<1>3. ShownFor(a, f, shown \cup {b}) = ShownFor(a, f, shown) + 1
  <2>1. IsFiniteSet(Items(a, f) \cap shown)
    BY ItemsAreItsOwn, FS_Intersection
  <2>2. Items(a, f) \cap (shown \cup {b}) = (Items(a, f) \cap shown) \cup {b}
    BY <1>1
  <2>3. b \notin Items(a, f) \cap shown
    OBVIOUS
  <2> QED BY <2>1, <2>2, <2>3, FS_AddElement DEF ShownFor
<1>4. ASSUME NEW e \in DOMAIN Experiences, e # f
      PROVE  ShownFor(a, e, shown \cup {b}) = ShownFor(a, e, shown)
  <2>1. b \notin Items(a, e)
    BY <1>2, <1>4, ItemsAreItsOwn, OneExperience
  <2>2. Items(a, e) \cap (shown \cup {b}) = Items(a, e) \cap shown
    BY <2>1
  <2> QED BY <2>2 DEF ShownFor
<1>5. ASSUME NEW e \in DOMAIN Experiences
      PROVE  ShownFor(a, e, shown \cup {b}) <= ShownFor(a, Reference, shown \cup {b})
  <2>1. /\ Reference \in DOMAIN Experiences
        /\ ShownFor(a, e, shown) \in Nat /\ ShownFor(a, Reference, shown) \in Nat
        /\ ShownFor(a, f, shown) \in Nat
    BY CvAssumption, ItemsAreItsOwn
  <2>2. ShownFor(a, e, shown) <= ShownFor(a, Reference, shown)
    BY DEF BalancedFor
  <2> QED BY <1>2, <1>3, <1>4, <2>1, <2>2
<1> QED BY <1>5 DEF BalancedFor

SheetInv ==
  /\ asked \in Tailored
  /\ step \in {"musts", "shrink", "overflow", "fill", "widen", "full"}
  /\ step # "musts" => /\ MustsOf(asked) \subseteq visible /\ visible \subseteq AllOf(asked)
                       /\ BalancedFor(asked, visible)
  /\ step \in {"shrink", "overflow"} => visible = MustsOf(asked)
  /\ step \in {"fill", "widen", "full"} => FitsFor(asked, visible, spacing)
  /\ step = "overflow" => ~ FitsFor(asked, visible, SpacingMin)

LEMMA NextIsPending == ASSUME asked \in Tailored, Pending # {} PROVE NextItem \in Pending
<1>1. IsAnalysis(asked)
  BY SheetAssumption DEF IsAnalysis
<1>2. Pending \in SUBSET Bullets
  BY DEF Pending, Ranked
<1>3. \E b \in Pending : \A c \in Pending \ {b} : Earlier(asked, b, c)
  BY <1>1, <1>2, OneIsEarliest
<1> QED BY <1>3 DEF NextItem

LEMMA SheetStep == SheetInv /\ [SheetNext]_sheetVars => SheetInv'
<1> SUFFICES ASSUME SheetInv, [SheetNext]_sheetVars PROVE SheetInv'
  OBVIOUS
<1>1. IsAnalysis(asked) /\ asked \in Tailored
  BY SheetAssumption DEF SheetInv, IsAnalysis
<1>2. CASE ShowMusts
  <2>1. step' = "shrink" /\ asked' = asked /\ visible' = MustsOf(asked)
    BY <1>2, SheetIsFor DEF ShowMusts, Stays
  <2>2. MustsOf(asked) \subseteq AllOf(asked) /\ BalancedFor(asked, MustsOf(asked))
    BY <1>1, MustsAreBalanced DEF MustsOf
  <2> QED BY <1>1, <2>1, <2>2 DEF SheetInv
<1>3. CASE Shrink
  BY <1>3 DEF Shrink, Stays, SheetInv
<1>4. CASE Overflow
  <2>1. /\ step = "shrink" /\ step' = "overflow" /\ asked' = asked /\ visible' = visible
        /\ ~ FitsFor(asked, visible, SpacingMin)
    BY <1>4, SheetIsFor DEF Overflow, Stays
  <2> QED BY <2>1 DEF SheetInv
<1>5. CASE MustsFit
  <2>1. /\ step = "shrink" /\ step' = "fill" /\ asked' = asked /\ visible' = visible
        /\ spacing' = spacing /\ FitsFor(asked, visible, spacing)
    BY <1>5, SheetIsFor DEF MustsFit, Stays
  <2> QED BY <2>1 DEF SheetInv
<1>6. CASE ShowNext
  <2> DEFINE b == NextItem
  <2>1. /\ step = "fill" /\ step' = "fill" /\ asked' = asked /\ visible' = visible \cup {b}
        /\ spacing' = spacing /\ FitsFor(asked, visible \cup {b}, spacing) /\ Pending # {}
    BY <1>6, SheetIsFor DEF ShowNext, Stays
  <2>2. b \in Pending
    BY <1>1, <2>1, NextIsPending
  <2>3. /\ b \in AllOf(asked) /\ b \notin visible /\ b \in Bullets
        /\ \/ ExperienceOf(b) = Reference
           \/ ShownFor(asked, ExperienceOf(b), visible) < ShownFor(asked, Reference, visible)
    <3>1. /\ b \in AllItems /\ b \in Ranked(asked) /\ b \notin visible
          /\ ExperienceOf(b) = Reference \/ ShownOf(ExperienceOf(b)) < ShownOf(Reference)
      BY <2>2 DEF Pending
    <3>2. b \in Bullets
      BY <3>1 DEF Ranked
    <3> HIDE DEF b
    <3> QED BY <3>1, <3>2, BulletsArePlaced, SheetIsFor, CvAssumption
  <2> HIDE DEF b
  <2>4. BalancedFor(asked, visible \cup {b})
    BY <1>1, <2>1, <2>3, OneMoreIsBalanced DEF SheetInv
  <2> QED BY <1>1, <2>1, <2>3, <2>4 DEF SheetInv
<1>7. CASE PageIsFull
  BY <1>7 DEF PageIsFull, Stays, SheetInv
<1>8. CASE Widen
  <2>1. /\ step = "widen" /\ step' = "widen" /\ asked' = asked /\ visible' = visible
        /\ FitsFor(asked, visible, spacing')
    BY <1>8, SheetIsFor DEF Widen, CanWiden, Stays
  <2> QED BY <2>1 DEF SheetInv
<1>9. CASE PageIsDone
  BY <1>9 DEF PageIsDone, Stays, SheetInv
<1>10. CASE UNCHANGED sheetVars
  BY <1>10 DEF sheetVars, SheetInv
<1> QED BY <1>2, <1>3, <1>4, <1>5, <1>6, <1>7, <1>8, <1>9, <1>10 DEF SheetNext

\* The page in the browser holds: every must is on it, no experience shows more
\* than the reference (rule 4), nothing is shown that the docx could not show,
\* and it overflows only where the musts do with the narrowest lines (cv.js).
THEOREM SheetIsFilled == SheetSpec => []SheetIsRight
<1>1. SheetInit => SheetInv
  BY DEF SheetInit, SheetInv
<1>2. SheetInv => SheetIsRight
  BY SheetIsFor, CvAssumption DEF SheetInv, SheetIsRight, BalancedFor
<1> QED BY <1>1, <1>2, SheetStep, PTL DEF SheetSpec

----------------------------------------------------------------------------
(* What the whole profile holds for a requirement.                         *)

\* A verdict and the skills that it rests on.
IsAnswer(x, some) ==
  /\ x.match \in {"yes", "adjacent", "no"} /\ x.skills \in SUBSET some
  /\ x.match = "no" <=> x.skills = {}
  /\ x.judged => x.match # "yes"

\* Some word of the phrase is one of the skills' words.
Says(phrase, some) ==
  \E s \in some : (phrase \ Ignored) \cap UNION (Skills[s].names \cup Skills[s].terms) # {}

\* Some skill is on the concepts of the phrase, or the owner ruled it the same.
IsOnIt(phrase, some, usable) ==
  some \cap (Members(phrase, Placed(usable, FALSE)) \cup Ruled(phrase, "same")) # {}

LEMMA SaidInFull ==
  ASSUME NEW words, NEW s, NEW deep, Said(words, s, deep) = 3
  PROVE  words \cap UNION (Skills[s].names \cup Skills[s].terms) # {}
<1> DEFINE wanted == words \ (IF deep THEN Practice ELSE {})
           says(labels) == {l \in labels : Mentions(wanted, l)}
           half(labels) == {l \in labels : wanted \subseteq l /\ 2 * Cardinality(wanted) >= Cardinality(l)}
           names == {n \ Ignored : n \in Skills[s].names}
           terms == {t \ Ignored : t \in Skills[s].terms}
<1>1. wanted # {} /\ (says(names) # {} \/ half(names) # {})
  <2>1. Said(words, s, deep) =
          IF wanted = {} THEN 0
          ELSE IF \/ says(names) # {} /\ wanted \subseteq UNION says(names \cup terms)
                  \/ half(names) # {} THEN 3
          ELSE IF says(names) # {} THEN 2
          ELSE IF says(terms) \cup half(terms) # {} THEN 1 ELSE 0
    BY DEF Said
  <2> HIDE DEF wanted, says, half, names, terms
  <2> QED BY <2>1
<1>2. CASE says(names) # {}
  <2>1. PICK n \in Skills[s].names : Mentions(wanted, n \ Ignored)
    BY <1>2
  <2> QED BY <2>1 DEF Mentions
<1>3. CASE half(names) # {}
  <2>1. PICK n \in Skills[s].names : wanted \subseteq n \ Ignored
    BY <1>3
  <2>2. PICK w : w \in wanted
    BY <1>1
  <2>3. w \in words /\ w \in n
    BY <2>1, <2>2
  <2> QED BY <2>1, <2>3
<1> QED BY <1>1, <1>2, <1>3

LEMMA VocabularyIsSound ==
  ASSUME NEW phrase, NEW ok, NEW strong
  PROVE  /\ IsAnswer(Vocabulary(phrase, ok, strong), ok)
         /\ Vocabulary(phrase, ok, strong).match = "yes" =>
              Says(phrase, Vocabulary(phrase, ok, strong).skills)
<1> DEFINE words == phrase \ Ignored
           grade(s) == LET g == Said(words, s, s \in AtLevel(strong, Deep)) IN
                       IF g = 3 /\ s \notin strong THEN 2 ELSE g
           graded(g) == {s \in ok : LevelOf(s) \notin TooLow /\ grade(s) = g}
           found == Vocabulary(phrase, ok, strong)
<1>1. found = IF words = {} THEN Silent
              ELSE IF graded(3) # {} THEN Answer("yes", graded(3), FALSE)
              ELSE IF graded(2) # {} THEN Answer("adjacent", graded(2), FALSE)
              ELSE IF graded(1) # {} THEN Answer("adjacent", graded(1), TRUE) ELSE Silent
  BY DEF Vocabulary
<1>2. \A g : graded(g) \in SUBSET ok
  OBVIOUS
<1>3. ASSUME NEW s \in graded(3)
      PROVE  words \cap UNION (Skills[s].names \cup Skills[s].terms) # {}
  <2>1. grade(s) = 3
    BY <1>3
  <2>2. Said(words, s, s \in AtLevel(strong, Deep)) = 3
    BY <2>1
  <2> QED BY <2>2, SaidInFull
<1> HIDE DEF found, graded
<1>4. IsAnswer(found, ok) /\ (found.match = "yes" => found.skills = graded(3) /\ graded(3) # {})
  BY <1>1, <1>2 DEF IsAnswer, Answer, Silent
<1> QED BY <1>3, <1>4 DEF found, Says

LEMMA ByConceptIsSound ==
  ASSUME NEW phrase, NEW placed, NEW named, NEW ok, NEW strong \in SUBSET ok, NEW same, NEW near
  PROVE  LET found == ByConcept(phrase, placed, named, ok, strong, same, near) IN
         /\ IsAnswer(found, ok)
         /\ found.match = "yes" => found.skills \cap (Members(phrase, named) \cup same) # {}
<1> DEFINE parts == {Curated(Labels[l]) : l \in Spans(phrase)}
           holds(part, where) == Holders(part, where) \cap ok
           firm == (UNION {holds(p, named) : p \in parts}) \cup ((same \cup near) \cap ok)
           loose == firm = {}
           held == Best(IF loose THEN UNION {holds(p, placed) : p \in parts} ELSE firm)
           sure == same \cap strong
           covers(p) == Covering(p, holds(p, named) \cap strong, named) \cup sure
           met == IF parts = {} THEN sure # {} ELSE \A p \in parts : covers(p) # {}
           all == (UNION {covers(p) : p \in parts}) \cup sure
           extra == RestOf(phrase) \ (Ignored \cup (IF AtLevel(all, Deep) # {} THEN Practice ELSE {}))
           found == ByConcept(phrase, placed, named, ok, strong, same, near)
<1>1. found = IF held = {} THEN Silent
              ELSE IF met /\ (extra = {} \/ sure # {}) THEN Answer("yes", all, FALSE)
              ELSE Answer("adjacent", held, loose)
  BY DEF ByConcept
<1>2. held \in SUBSET ok
  <2>1. firm \in SUBSET ok /\ UNION {holds(p, placed) : p \in parts} \in SUBSET ok
    OBVIOUS
  <2>2. \A some : Best(some) \in SUBSET some
    BY DEF Best, AtLevel
  <2> HIDE DEF firm, holds, parts
  <2> QED BY <2>1, <2>2
<1>3. ASSUME NEW p \in parts
      PROVE  covers(p) \in SUBSET ok /\ covers(p) \in SUBSET (Members(phrase, named) \cup same)
  <2>1. PICK l \in Spans(phrase) : p = Curated(Labels[l])
    OBVIOUS
  <2>2. p \in SUBSET Lookup(phrase)
    BY <2>1 DEF Curated, Lookup
  <2>3. Holders(p, named) \in SUBSET Members(phrase, named)
    BY <2>2 DEF Holders, Members
  <2>4. \A some : Covering(p, some, named) \in SUBSET some
    BY DEF Covering
  <2> QED BY <2>3, <2>4
<1>4. all \in SUBSET ok /\ all \in SUBSET (Members(phrase, named) \cup same)
  <2>1. sure \in SUBSET ok /\ sure \in SUBSET same
    OBVIOUS
  <2> HIDE DEF covers, parts, sure
  <2>2. ASSUME NEW s \in all PROVE s \in sure \/ \E p \in parts : s \in covers(p)
    OBVIOUS
  <2> QED BY <1>3, <2>1, <2>2
<1>5. met => all # {}
  <2> HIDE DEF covers, parts, sure
  <2>1. CASE parts = {}
    BY <2>1
  <2>2. CASE parts # {}
    <3>1. PICK p : p \in parts
      BY <2>2
    <3>2. covers(p) \in SUBSET all
      BY <3>1
    <3>3. met => covers(p) # {}
      BY <2>2, <3>1
    <3> QED BY <3>2, <3>3
  <2> QED BY <2>1, <2>2
<1> HIDE DEF found, held, met, all, extra, sure, loose
<1>6. IsAnswer(found, ok)
  BY <1>1, <1>2, <1>4, <1>5 DEF IsAnswer, Answer, Silent
<1>7. found.match = "yes" => found.skills = all /\ all # {}
  BY <1>1, <1>5 DEF Answer, Silent
<1> QED BY <1>4, <1>6, <1>7 DEF found

LEMMA ByExperienceIsSound ==
  ASSUME NEW phrase, NEW ok
  PROVE  /\ IsAnswer(ByExperience(phrase, ok), ok)
         /\ ByExperience(phrase, ok).match # "yes"
<1> DEFINE wanted == phrase \ (Ignored \cup Practice)
           shown(bullet) == {s \in bullet.skills \cap ok : LevelOf(s) \notin TooLow}
           states == {b \in Stated : wanted \subseteq b.words /\ shown(b) # {}}
           one == shown(CHOOSE b \in states : TRUE)
           found == ByExperience(phrase, ok)
<1>1. found = IF wanted = {} \/ states = {} THEN Silent ELSE Answer("adjacent", one, TRUE)
  BY DEF ByExperience
<1>2. one \in SUBSET ok /\ (states # {} => one # {})
  OBVIOUS
<1> HIDE DEF found, one, states
<1>3. IsAnswer(found, ok) /\ found.match # "yes"
  BY <1>1, <1>2 DEF IsAnswer, Answer, Silent
<1> QED BY <1>3 DEF found

\* The profile's own answer rests on skills that may be used, and is a yes only
\* where some word, concept or ruling says so.
LEMMA CoverageIsSound ==
  ASSUME NEW phrase, NEW usable
  PROVE  LET found == Coverage(phrase, usable) IN
         /\ IsAnswer(found, usable)
         /\ found.match = "yes" => Says(phrase, found.skills) \/ IsOnIt(phrase, found.skills, usable)
<1> DEFINE placed == Placed(usable, TRUE)
           named == Placed(usable, FALSE)
           ok == usable \ Ruled(phrase, "no")
           strong == AtLevel(ok, Strong) \ Ruled(phrase, "near")
           same == SameByWords(phrase) \cap ok
           concept == ByConcept(phrase, placed, named, ok, strong, same, Ruled(phrase, "near"))
           words == Vocabulary(phrase, ok, strong)
           parts == UNION {Curated(Labels[l]) : l \in Spans(phrase)}
           kin == Siblings(parts, named) \cap strong
           found == Coverage(phrase, usable)
<1>1. found = IF concept.match = "yes" THEN concept
              ELSE IF concept # Silent THEN Firmer(concept, words)
              ELSE IF words # Silent THEN words
              ELSE IF kin # {} THEN Answer("adjacent", kin, TRUE)
              ELSE ByExperience(phrase, ok)
  BY DEF Coverage
<1>2. strong \in SUBSET ok /\ ok \in SUBSET usable
  BY DEF AtLevel
<1>3. same \in SUBSET Ruled(phrase, "same")
  BY DEF SameByWords, Ruled
<1> DEFINE Good(x) == /\ IsAnswer(x, usable)
                      /\ x.match = "yes" => Says(phrase, x.skills) \/ IsOnIt(phrase, x.skills, usable)
<1>4. \A x : IsAnswer(x, ok) => IsAnswer(x, usable)
  BY <1>2 DEF IsAnswer
<1>5. Good(concept)
  <2> HIDE DEF strong, ok, same, named, placed
  <2>1. /\ IsAnswer(concept, ok)
        /\ concept.match = "yes" => concept.skills \cap (Members(phrase, named) \cup same) # {}
    BY <1>2, ByConceptIsSound
  <2> HIDE DEF concept
  <2> QED BY <1>3, <1>4, <2>1 DEF IsOnIt, named
<1>6. Good(words)
  <2> HIDE DEF strong, ok
  <2>1. IsAnswer(words, ok) /\ (words.match = "yes" => Says(phrase, words.skills))
    BY VocabularyIsSound
  <2> HIDE DEF words
  <2> QED BY <1>4, <2>1
<1>7. Good(ByExperience(phrase, ok))
  <2> HIDE DEF ok
  <2> QED BY <1>4, ByExperienceIsSound
<1>8. kin # {} => Good(Answer("adjacent", kin, TRUE))
  <2>1. kin \in SUBSET usable
    BY <1>2
  <2> HIDE DEF kin
  <2> QED BY <2>1 DEF IsAnswer, Answer
<1> HIDE DEF Good, concept, words, kin, ok
<1>9. Good(found)
  BY <1>1, <1>5, <1>6, <1>7, <1>8 DEF Firmer
<1> QED BY <1>9 DEF Good

----------------------------------------------------------------------------
(* One row of the table.                                                   *)

Verdicts == {"yes", "adjacent", "no"}

IsRow(r) ==
  /\ DOMAIN r = {"name", "importance", "match", "skills", "kind", "judged", "never", "members"}
  /\ r.match \in Verdicts /\ r.never \in BOOLEAN /\ r.members = {}

UsableFor(ev) == SkillIds \ BlockedSkills(ev)

\* What the name of a row, and the skills it rests on, say for a full yes.
IsNamedFor(n, some, usable) == Grounded(n, some) \/ IsOnIt(WordsOf(n), some, usable)

NameIsNever(n) == \E e \in Never : Mentions(WordsOf(n), WordsOf(e))

\* A row as Settle leaves it: its verdict and its skills go together, it rests
\* on what may be used, its kind says how it was answered, and what is never
\* claimed is a no.
RowOk(r, usable) ==
  /\ IsRow(r) /\ r.skills \in SUBSET usable
  /\ r.kind \in Kinds
  /\ r.kind = "skill" => (r.match = "no" <=> r.skills = {})
  /\ r.kind # "skill" => r.skills = {}
  /\ r.kind = "condition" => r.match = "no"
  /\ r.kind = "language" => IsLanguage(r.name)
  /\ r.kind = "degree" => IsDegree(r.name)
  /\ r.kind = "skill" /\ r.match = "yes" => IsNamedFor(r.name, r.skills, usable)
  /\ NameIsNever(r.name) => r.never
  /\ r.never => r.match = "no" /\ r.kind = "skill"
  /\ r.judged => r.match # "yes"

\* What no pass over a row changes.
SameRow(q, r) == q.name = r.name /\ q.importance = r.importance /\ (IsNeverClaimed(q) <=> IsNeverClaimed(r))

LEMMA NeverIsByFlagOrName ==
  ASSUME NEW r, IsRow(r)
  PROVE  /\ IsNever(r, Never) <=> r.never \/ NameIsNever(r.name)
         /\ IsNeverClaimed(r) <=> r.never \/ NameIsNever(r.name)
BY DEF IsNever, IsNeverClaimed, NameIsNever, IsRow

LEMMA FirstPasses ==
  ASSUME NEW r, IsRow(r), r.kind = "skill"
  PROVE  LET q == NeverClaimed(ByName(r)) IN
         /\ IsRow(q) /\ SameRow(q, r) /\ q.kind = "skill" /\ (q.never <=> IsNeverClaimed(r))
         /\ q.never => q.match = "no"
<1> DEFINE b == ByName(r)
           q == NeverClaimed(b)
<1>1. /\ IsRow(b) /\ b.name = r.name /\ b.importance = r.importance /\ b.kind = "skill"
      /\ b.never = r.never
  BY DEF ByName, IsRow, Verdicts
<1> HIDE DEF b
<1>2. /\ IsRow(q) /\ q.name = b.name /\ q.importance = b.importance /\ q.kind = "skill"
      /\ q.never = IF IsNever(b, Never) THEN TRUE ELSE b.never
      /\ IsNever(b, Never) => q.match = "no"
  BY <1>1 DEF NeverClaimed, IsRow, Verdicts
<1> HIDE DEF q
<1>3. /\ IsRow(q) /\ SameRow(q, r) /\ q.kind = "skill" /\ (q.never <=> IsNeverClaimed(r))
      /\ q.never => q.match = "no"
  <2>1. b.never \in BOOLEAN /\ q.never \in BOOLEAN /\ r.never \in BOOLEAN
    BY <1>1, <1>2 DEF IsRow
  <2> QED BY <1>1, <1>2, <2>1, NeverIsByFlagOrName DEF SameRow
<1> QED BY <1>3 DEF q, b

LEMMA KnownIsUsable ==
  ASSUME NEW r, IsRow(r), r.kind = "skill"
  PROVE  LET q == Known(r) IN
         /\ IsRow(q) /\ SameRow(q, r) /\ q.kind = "skill" /\ q.never = r.never
         /\ q.skills \in SUBSET Usable /\ q.match = r.match
<1> DEFINE q == Known(r)
<1>1. /\ IsRow(q) /\ q.name = r.name /\ q.importance = r.importance /\ q.kind = "skill"
      /\ q.never = r.never /\ q.match = r.match
      /\ q.skills = (r.skills \cap Usable) \ (IF r.never THEN {} ELSE Ruled(WordsOf(r.name), "no"))
  BY DEF Known, IsRow
<1> HIDE DEF q
<1>2. SameRow(q, r)
  BY <1>1, NeverIsByFlagOrName DEF SameRow
<1> QED BY <1>1, <1>2 DEF q

\* A yes that is not the loose reading of the model has a reason.
LEMMA JudgedIsNamed ==
  ASSUME NEW r, IsRow(r), r.kind = "skill", r.skills \in SUBSET Usable
  PROVE  LET q == Judged(r) IN
         /\ IsRow(q) /\ SameRow(q, r) /\ q.kind = "skill" /\ q.never = r.never
         /\ q.skills \in SUBSET Usable
         /\ q.match = "yes" /\ q.skills # {} => IsNamedFor(q.name, q.skills, Usable)
         /\ (r.match = "no" => q.match = "no") /\ (q.judged => q.match # "yes")
<1> DEFINE words == WordsOf(r.name)
           all == IF IsMet(r) THEN r.skills \cup Alike(words, Placed(Usable, FALSE), r.skills)
                              ELSE r.skills
           loose == r.match # "no" /\ all # {} /\ Held(r) = {} /\ ~ Grounded(r.name, all)
           near == all # {} /\ ~ r.never /\ all \subseteq Ruled(words, "near")
           q == Judged(r)
<1>1. q = [r EXCEPT !.skills = all, !.judged = loose,
                    !.match = IF @ = "yes" /\ (loose \/ near) THEN "adjacent" ELSE @]
  BY DEF Judged
<1>2. all \in SUBSET Usable /\ r.skills \in SUBSET all
  <2>1. Alike(words, Placed(Usable, FALSE), r.skills) \in SUBSET Usable
    BY DEF Alike, Placed
  <2> QED BY <2>1
<1>3. Held(r) # {} => IsOnIt(words, all, Usable)
  <2>1. Held(r) \in SUBSET (r.skills \cap (Members(words, Placed(Usable, FALSE)) \cup Ruled(words, "same")))
    BY DEF Held
  <2> HIDE DEF all
  <2> QED BY <1>2, <2>1 DEF IsOnIt
<1>4. ~ loose /\ r.match # "no" /\ all # {} => IsNamedFor(r.name, all, Usable)
  <2> HIDE DEF all
  <2> QED BY <1>3 DEF IsNamedFor
<1> HIDE DEF q, all, loose, near
<1>5. /\ q.name = r.name /\ q.importance = r.importance /\ q.kind = "skill" /\ q.never = r.never
      /\ q.skills = all /\ IsRow(q) /\ (q.match = "yes" => r.match = "yes" /\ ~ loose)
      /\ (r.match = "no" => q.match = "no") /\ q.judged = loose
  BY <1>1 DEF IsRow, Verdicts
<1>6. SameRow(q, r)
  BY <1>5, NeverIsByFlagOrName DEF SameRow
<1> QED BY <1>2, <1>4, <1>5, <1>6 DEF q

LEMMA ConsistentIsOk ==
  ASSUME NEW r, IsRow(r), r.kind = "skill", r.skills \in SUBSET Usable,
         r.match = "yes" /\ r.skills # {} => IsNamedFor(r.name, r.skills, Usable),
         NameIsNever(r.name) => r.never, r.never => r.match = "no", r.judged => r.match # "yes"
  PROVE  LET q == Consistent(r) IN RowOk(q, Usable) /\ SameRow(q, r) /\ q.never = r.never
<1> DEFINE q == Consistent(r)
<1>1. /\ IsRow(q) /\ q.name = r.name /\ q.importance = r.importance /\ q.kind = "skill"
      /\ q.never = r.never /\ q.skills \in SUBSET Usable /\ (q.match = "no" <=> q.skills = {})
      /\ q.match = "yes" => r.match = "yes" /\ q.skills = r.skills /\ r.skills # {}
      /\ (r.match = "no" => q.match = "no") /\ q.judged = r.judged
  BY DEF Consistent, IsRow, Verdicts
<1> HIDE DEF q
<1>2. SameRow(q, r)
  BY <1>1, NeverIsByFlagOrName DEF SameRow
<1>3. RowOk(q, Usable)
  BY <1>1 DEF RowOk, Kinds
<1> QED BY <1>1, <1>2, <1>3 DEF q

LEMMA OfItsKindIsOk ==
  ASSUME NEW r, RowOk(r, Usable), r.kind = "skill"
  PROVE  LET q == OfItsKind(r) IN RowOk(q, Usable) /\ SameRow(q, r) /\ q.never = r.never
<1> DEFINE q == OfItsKind(r)
<1>1. ASSUME NEW kind \in Kinds \ {"skill"}, NEW match \in Verdicts, ~ r.never,
             kind = "condition" => match = "no",
             kind = "language" => IsLanguage(r.name), kind = "degree" => IsDegree(r.name)
      PROVE  LET x == Answered(r, kind, match) IN RowOk(x, Usable) /\ SameRow(x, r) /\ x.never = r.never
  <2> DEFINE x == Answered(r, kind, match)
  <2>1. /\ IsRow(x) /\ x.name = r.name /\ x.importance = r.importance /\ x.kind = kind
        /\ x.match = match /\ x.skills = {} /\ x.never = r.never /\ x.judged = FALSE
    <3>1. IsRow(r)
      BY DEF RowOk
    <3> QED BY <3>1 DEF Answered, IsRow
  <2> HIDE DEF x
  <2>2. SameRow(x, r)
    BY <2>1, NeverIsByFlagOrName DEF SameRow, RowOk
  <2>3. RowOk(x, Usable)
    BY <1>1, <2>1 DEF RowOk
  <2> QED BY <2>1, <2>2, <2>3 DEF x
<1>2. LanguageMatch(r.name) \in Verdicts
  BY DEF LanguageMatch, Verdicts
<1>3. CertificationMatch(r.name) \in Verdicts /\ DegreeMatch(r.name) \in Verdicts
  BY DEF CertificationMatch, DegreeMatch, Verdicts
<1>4. \/ q = r
      \/ /\ ~ r.never
         /\ \/ q = Answered(r, "quality", "yes") \/ q = Answered(r, "condition", "no")
            \/ q = Answered(r, "language", LanguageMatch(r.name)) /\ IsLanguage(r.name)
            \/ q = Answered(r, "certification", CertificationMatch(r.name))
            \/ q = Answered(r, "degree", DegreeMatch(r.name)) /\ IsDegree(r.name)
  <2>1. IsQuality(r) \/ IsCondition(r) => ~ r.never
    BY DEF IsQuality, IsCondition, Unbacked, IsNever
  <2> QED BY <2>1 DEF OfItsKind
<1>5. SameRow(r, r)
  BY DEF SameRow
<1>6. /\ {"quality", "condition", "language", "certification", "degree"} \subseteq Kinds \ {"skill"}
      /\ {"yes", "no"} \subseteq Verdicts
  BY DEF Kinds, Verdicts
<1> HIDE DEF q
<1>7. RowOk(q, Usable) /\ SameRow(q, r) /\ q.never = r.never
  BY <1>1, <1>2, <1>3, <1>4, <1>5, <1>6
<1> QED BY <1>7 DEF q

LEMMA CoveredIsOk ==
  ASSUME NEW r, RowOk(r, Usable)
  PROVE  LET q == Covered(r) IN RowOk(q, Usable) /\ SameRow(q, r)
<1> DEFINE q == Covered(r)
           found == Coverage(WordsOf(r.name), Usable)
           x == [r EXCEPT !.match = found.match, !.skills = found.skills, !.judged = found.judged]
<1>1. q = r \/ (q = x /\ r.kind = "skill" /\ ~ r.never)
  BY DEF Covered
<1>2. /\ found.match \in Verdicts /\ found.skills \in SUBSET Usable
      /\ found.match = "no" <=> found.skills = {}
      /\ found.match = "yes" => IsNamedFor(r.name, found.skills, Usable)
      /\ found.judged => found.match # "yes"
  <2>1. /\ IsAnswer(found, Usable)
        /\ found.match = "yes" => \/ Says(WordsOf(r.name), found.skills)
                                  \/ IsOnIt(WordsOf(r.name), found.skills, Usable)
    BY CoverageIsSound
  <2> HIDE DEF found
  <2> QED BY <2>1 DEF IsAnswer, Verdicts, IsNamedFor, Grounded, Says
<1> HIDE DEF found
<1>3. /\ IsRow(x) /\ x.name = r.name /\ x.importance = r.importance /\ x.kind = r.kind
      /\ x.match = found.match /\ x.skills = found.skills /\ x.never = r.never
      /\ x.judged = found.judged
  <2>1. IsRow(r)
    BY DEF RowOk
  <2> QED BY <1>2, <2>1 DEF IsRow
<1> HIDE DEF x, q
<1>4. SameRow(x, r) /\ SameRow(r, r)
  BY <1>3, NeverIsByFlagOrName DEF SameRow, RowOk
<1>5. r.kind = "skill" /\ ~ r.never => RowOk(x, Usable)
  BY <1>2, <1>3 DEF RowOk
<1> QED BY <1>1, <1>4, <1>5 DEF q

LEMMA SettledIsOk ==
  ASSUME NEW r, IsRow(r), r.kind = "skill"
  PROVE  RowOk(Settled(r), Usable) /\ SameRow(Settled(r), r)
<1> DEFINE a == NeverClaimed(ByName(r))
           b == Known(a)
           c == Judged(b)
           d == Consistent(c)
           e == OfItsKind(d)
           f == Covered(e)
<1>1. /\ IsRow(a) /\ SameRow(a, r) /\ a.kind = "skill" /\ (NameIsNever(a.name) => a.never)
      /\ a.never => a.match = "no"
  <2>1. /\ IsRow(a) /\ SameRow(a, r) /\ a.kind = "skill" /\ (a.never <=> IsNeverClaimed(r))
        /\ a.never => a.match = "no"
    BY FirstPasses
  <2> HIDE DEF a
  <2>2. NameIsNever(r.name) => IsNeverClaimed(r)
    BY NeverIsByFlagOrName
  <2> QED BY <2>1, <2>2 DEF SameRow
<1> HIDE DEF a
<1>2. /\ IsRow(b) /\ SameRow(b, a) /\ b.kind = "skill" /\ b.skills \in SUBSET Usable
      /\ (NameIsNever(b.name) => b.never) /\ (b.never => b.match = "no")
  BY <1>1, KnownIsUsable DEF SameRow
<1> HIDE DEF b
<1>3. /\ IsRow(c) /\ SameRow(c, b) /\ c.kind = "skill" /\ c.skills \in SUBSET Usable
      /\ c.match = "yes" /\ c.skills # {} => IsNamedFor(c.name, c.skills, Usable)
      /\ (NameIsNever(c.name) => c.never) /\ (c.never => c.match = "no")
      /\ c.judged => c.match # "yes"
  BY <1>2, JudgedIsNamed DEF SameRow
<1> HIDE DEF c
<1>4. RowOk(d, Usable) /\ SameRow(d, c) /\ d.kind = "skill"
  <2>1. RowOk(d, Usable) /\ SameRow(d, c)
    BY <1>3, ConsistentIsOk
  <2>2. d.kind = "skill"
    BY <1>3 DEF Consistent, IsRow
  <2> QED BY <2>1, <2>2
<1> HIDE DEF d
<1>5. RowOk(e, Usable) /\ SameRow(e, d)
  BY <1>4, OfItsKindIsOk
<1> HIDE DEF e
<1>6. RowOk(f, Usable) /\ SameRow(f, e)
  BY <1>5, CoveredIsOk
<1> HIDE DEF f
<1>7. SameRow(f, r)
  BY <1>1, <1>2, <1>3, <1>4, <1>5, <1>6 DEF SameRow
<1>8. Settled(r) = f
  BY DEF Settled, a, b, c, d, e, f
<1> QED BY <1>6, <1>7, <1>8

----------------------------------------------------------------------------
(* The table.                                                              *)

LEMMA LeastNumber ==
  ASSUME NEW T \in SUBSET Nat, T # {}
  PROVE  \E n \in T : \A k \in T : n <= k
<1> DEFINE R == {p \in Nat \X Nat : p[1] < p[2]}
<1>1. PICK n \in T : \A k \in T : <<k, n>> \notin R
  <2>1. IsWellFoundedOn(R, Nat)
    BY NatLessThanWellFounded DEF OpToRel
  <2> HIDE DEF R
  <2> QED BY <2>1, WFMin
<1>2. ASSUME NEW k \in T PROVE n <= k
  <2>1. k \in Nat /\ n \in Nat
    OBVIOUS
  <2>2. ~ (k < n)
    BY <1>1, <2>1
  <2> QED BY <2>1, <2>2
<1> QED BY <1>2

LEMMA MinIsIn ==
  ASSUME NEW T \in SUBSET Nat, T # {}
  PROVE  Min(T) \in T /\ \A k \in T : Min(T) <= k
BY LeastNumber DEF Min

LEMMA MaxIsIn ==
  ASSUME NEW T \in SUBSET Nat, IsFiniteSet(T), T # {}
  PROVE  Max(T) \in T /\ \A k \in T : Max(T) >= k
<1> DEFINE Above(i) == {k \in T : i < k}
           N == {Cardinality(Above(i)) : i \in T}
<1>1. \A i \in T : IsFiniteSet(Above(i)) /\ Cardinality(Above(i)) \in Nat
  BY FS_Subset, FS_CardinalityType
<1>2. PICK n \in N : \A k \in N : n <= k
  <2>1. N \in SUBSET Nat /\ N # {}
    BY <1>1
  <2> HIDE DEF N
  <2> QED BY <2>1, LeastNumber
<1>3. PICK i \in T : n = Cardinality(Above(i))
  OBVIOUS
<1>4. ASSUME NEW k \in T, i < k PROVE FALSE
  <2>1. k \in Above(i) /\ k \notin Above(k)
    BY <1>4
  <2>2. Above(k) \in SUBSET Above(i)
    <3>1. \A h \in T : h \in Nat
      OBVIOUS
    <3>2. \A h \in T : k < h => i < h
      BY <1>4, <3>1
    <3> QED BY <3>2
  <2>3. Cardinality(Above(k)) <= Cardinality(Above(i)) /\ Cardinality(Above(k)) # Cardinality(Above(i))
    <3> HIDE DEF Above
    <3> QED BY <1>1, <2>1, <2>2, FS_Subset
  <2>4. n <= Cardinality(Above(k))
    BY <1>2, <1>4
  <2> QED BY <1>1, <1>3, <1>4, <2>3, <2>4
<1>5. \A k \in T : i >= k
  <2> TAKE k \in T
  <2>1. i \in Nat /\ k \in Nat
    OBVIOUS
  <2> QED BY <1>4, <2>1
<1> QED BY <1>5 DEF Max

\* The sum of w over a set, as FoldSet builds it up.
OneOf(T) == CHOOSE x \in T : TRUE

IsSum(iter, S, w) ==
  iter = [T \in S |-> IF T = {} THEN 0 ELSE w[OneOf(T)] + iter[T \ {OneOf(T)}]]

LEMMA SumExists ==
  ASSUME NEW S, IsFiniteSet(S), NEW w
  PROVE  \E iter : IsSum(iter, SUBSET S, w)
<1> DEFINE Small(k) == {T \in SUBSET S : Cardinality(T) <= k}
           Bad == {k \in Nat : ~ \E iter : IsSum(iter, Small(k), w)}
<1>1. ASSUME NEW T \in SUBSET S, T # {}
      PROVE  LET U == T \ {OneOf(T)} IN
             /\ IsFiniteSet(T) /\ Cardinality(T) \in Nat /\ U \in SUBSET S
             /\ Cardinality(U) = Cardinality(T) - 1 /\ OneOf(T) \in T
  <2>1. IsFiniteSet(T) /\ Cardinality(T) \in Nat
    BY FS_Subset, FS_CardinalityType
  <2>2. OneOf(T) \in T
    BY <1>1 DEF OneOf
  <2> QED BY <2>1, <2>2, FS_RemoveElement
<1>2. CASE Bad # {}
  <2>1. PICK n \in Bad : \A k \in Bad : n <= k
    <3>1. Bad \in SUBSET Nat
      OBVIOUS
    <3> HIDE DEF Bad
    <3> QED BY <1>2, <3>1, LeastNumber
  <2>2. CASE n = 0
    <3> DEFINE h == [T \in Small(0) |-> 0]
    <3>1. \A T \in Small(0) : T = {}
      <4> TAKE T \in Small(0)
      <4>1. IsFiniteSet(T) /\ Cardinality(T) = 0
        BY FS_Subset, FS_CardinalityType
      <4> QED BY <4>1, FS_EmptySet
    <3>2. IsSum(h, Small(0), w)
      <4> HIDE DEF Small
      <4> QED BY <3>1 DEF IsSum
    <3> HIDE DEF h
    <3> QED BY <2>1, <2>2, <3>2
  <2>3. CASE n # 0
    <3>1. PICK h : IsSum(h, Small(n - 1), w)
      <4>1. n - 1 \in Nat /\ ~ (n <= n - 1)
        BY <2>3
      <4> HIDE DEF Small
      <4> QED BY <2>1, <4>1
    <3> DEFINE g == [T \in Small(n) |-> IF T = {} THEN 0 ELSE w[OneOf(T)] + h[T \ {OneOf(T)}]]
    <3>2. \A T \in Small(n - 1) : T \in Small(n)
      <4> TAKE T \in Small(n - 1)
      <4>1. Cardinality(T) \in Nat /\ Cardinality(T) <= n - 1
        BY FS_Subset, FS_CardinalityType
      <4> QED BY <4>1
    <3>3. \A T \in Small(n - 1) : g[T] = h[T]
      <4> HIDE DEF Small
      <4> QED BY <3>1, <3>2 DEF IsSum
    <3>4. \A T \in Small(n) : T # {} => T \ {OneOf(T)} \in Small(n - 1)
      <4> SUFFICES ASSUME NEW T \in Small(n), T # {} PROVE T \ {OneOf(T)} \in Small(n - 1)
        OBVIOUS
      <4>1. /\ T \in SUBSET S /\ Cardinality(T) <= n /\ n \in Nat
        BY <2>1
      <4>2. /\ T \ {OneOf(T)} \in SUBSET S /\ Cardinality(T) \in Nat
            /\ Cardinality(T \ {OneOf(T)}) = Cardinality(T) - 1
        BY <1>1, <4>1
      <4> QED BY <4>1, <4>2
    <3>5. \A T \in Small(n) : T # {} => g[T \ {OneOf(T)}] = h[T \ {OneOf(T)}]
      <4> HIDE DEF g, Small
      <4> QED BY <3>3, <3>4
    <3>6. IsSum(g, Small(n), w)
      <4> HIDE DEF Small
      <4> QED BY <3>5 DEF IsSum
    <3> HIDE DEF g
    <3> QED BY <2>1, <3>6
  <2> QED BY <2>2, <2>3
<1>3. CASE Bad = {}
  <2>1. Cardinality(S) \in Nat
    BY FS_CardinalityType
  <2>2. Small(Cardinality(S)) = SUBSET S
    BY FS_Subset
  <2>3. \E iter : IsSum(iter, Small(Cardinality(S)), w)
    BY <1>3, <2>1
  <2> HIDE DEF Small
  <2> QED BY <2>2, <2>3
<1> QED BY <1>2, <1>3

\* A sum whose terms are at most twice those of another, and one of them less.
LEMMA SumsCompare ==
  ASSUME NEW S, IsFiniteSet(S), NEW w, NEW v, NEW f, NEW g,
         IsSum(f, SUBSET S, w), IsSum(g, SUBSET S, v),
         \A i \in S : w[i] \in Nat /\ v[i] \in Nat /\ v[i] <= 2 * w[i]
  PROVE  \A T \in SUBSET S :
           /\ f[T] \in Nat /\ g[T] \in Nat /\ g[T] <= 2 * f[T]
           /\ (\E i \in T : v[i] + 3 <= 2 * w[i]) => g[T] + 3 <= 2 * f[T]
<1> DEFINE Good(T) ==
             /\ f[T] \in Nat /\ g[T] \in Nat /\ g[T] <= 2 * f[T]
             /\ (\E i \in T : v[i] + 3 <= 2 * w[i]) => g[T] + 3 <= 2 * f[T]
           Bad == {k \in Nat : \E T \in SUBSET S : k = Cardinality(T) /\ ~ Good(T)}
<1>1. CASE Bad # {}
  <2>1. PICK n \in Bad : \A k \in Bad : n <= k
    <3>1. Bad \in SUBSET Nat
      OBVIOUS
    <3> HIDE DEF Bad
    <3> QED BY <1>1, <3>1, LeastNumber
  <2>2. PICK T \in SUBSET S : n = Cardinality(T) /\ ~ Good(T)
    OBVIOUS
  <2> DEFINE x == OneOf(T)
             U == T \ {x}
  <2>3. T # {}
    <3>1. f[{}] = 0 /\ g[{}] = 0
      BY DEF IsSum
    <3>2. Good({})
      BY <3>1
    <3> HIDE DEF Good
    <3> QED BY <2>2, <3>2
  <2>4. x \in T /\ x \in S /\ U \in SUBSET S
    BY <2>3 DEF OneOf
  <2>5. f[T] = w[x] + f[U] /\ g[T] = v[x] + g[U]
    BY <2>3 DEF IsSum
  <2>6. Cardinality(U) = n - 1 /\ Cardinality(U) \in Nat /\ n \in Nat
    <3>1. IsFiniteSet(T) /\ IsFiniteSet(U)
      BY FS_Subset
    <3> HIDE DEF x
    <3> QED BY <2>2, <2>4, <3>1, FS_RemoveElement, FS_CardinalityType
  <2>7. Good(U)
    <3>1. n - 1 \notin Bad
      BY <2>1, <2>6
    <3> HIDE DEF Good, U
    <3> QED BY <2>4, <2>6, <3>1
  <2>8. (\E i \in T : v[i] + 3 <= 2 * w[i])
          => v[x] + 3 <= 2 * w[x] \/ \E i \in U : v[i] + 3 <= 2 * w[i]
    OBVIOUS
  <2>9. w[x] \in Nat /\ v[x] \in Nat /\ v[x] <= 2 * w[x]
    BY <2>4
  <2> HIDE DEF x, U
  <2>10. f[T] \in Nat /\ g[T] \in Nat /\ g[T] <= 2 * f[T]
    BY <2>5, <2>7, <2>9
  <2>11. (\E i \in T : v[i] + 3 <= 2 * w[i]) => g[T] + 3 <= 2 * f[T]
    BY <2>5, <2>7, <2>8, <2>9
  <2> QED BY <2>2, <2>10, <2>11
<1>2. CASE Bad = {}
  <2>1. \A T \in SUBSET S : Cardinality(T) \in Nat
    BY FS_Subset, FS_CardinalityType
  <2> HIDE DEF Good
  <2>2. \A T \in SUBSET S : Good(T)
    BY <1>2, <2>1
  <2> QED BY <2>2 DEF Good
<1> QED BY <1>1, <1>2

\* Of some rows, one is the first of the strictest, and one of the best.
LEMMA OneIsTaken ==
  ASSUME NEW S \in SUBSET DOMAIN table, S # {}, DOMAIN table \subseteq Nat,
         \A i \in DOMAIN table : table[i].match \in Verdicts
  PROVE  /\ \E i \in S : /\ Strictest(S) = table[i]
                        /\ \A j \in S : Strictness(table[i].match) <= Strictness(table[j].match)
         /\ \E i \in S : /\ BestOf(S) = table[i]
                        /\ \A j \in S : Strength(table[j]) <= Strength(table[i])
<1>1. ASSUME NEW f, \A i \in S : f[i] \in Nat
      PROVE  LET B == {i \in S : \A j \in S : f[i] <= f[j]} IN Min(B) \in B
  <2> DEFINE N == {f[i] : i \in S}
             B == {i \in S : \A j \in S : f[i] <= f[j]}
  <2>1. PICK n \in N : \A k \in N : n <= k
    <3>1. N \in SUBSET Nat /\ N # {}
      BY <1>1
    <3> HIDE DEF N
    <3> QED BY <3>1, LeastNumber
  <2>2. B # {} /\ B \in SUBSET Nat
    BY <2>1
  <2>3. Min(B) \in B
    <3> HIDE DEF B
    <3> QED BY <2>2, MinIsIn
  <2> QED BY <2>3
<1>2. \A i \in S : Strictness(table[i].match) \in 0..2
  BY DEF Strictness, Verdicts
<1>3. \E i \in S : /\ Strictest(S) = table[i]
                  /\ \A j \in S : Strictness(table[i].match) <= Strictness(table[j].match)
  <2> DEFINE f == [i \in S |-> Strictness(table[i].match)]
             B == {i \in S : \A j \in S : f[i] <= f[j]}
  <2>1. \A i \in S : f[i] \in Nat
    BY <1>2
  <2>2. Min(B) \in B
    <3> HIDE DEF f
    <3> QED BY <1>1, <2>1
  <2>3. B = {i \in S : \A j \in S : Strictness(table[i].match) <= Strictness(table[j].match)}
    OBVIOUS
  <2> HIDE DEF B
  <2> QED BY <2>2, <2>3 DEF Strictest
<1>4. \E i \in S : /\ BestOf(S) = table[i]
                  /\ \A j \in S : Strength(table[j]) <= Strength(table[i])
  <2> DEFINE f == [i \in S |-> 5 - Strength(table[i])]
             B == {i \in S : \A j \in S : f[i] <= f[j]}
  <2>1. \A i \in S : Strength(table[i]) \in 0..5
    BY <1>2 DEF Strength
  <2>2. \A i \in S : f[i] \in Nat
    BY <2>1
  <2>3. Min(B) \in B
    <3> HIDE DEF f
    <3> QED BY <1>1, <2>2
  <2>4. B = {i \in S : \A j \in S : Strength(table[j]) <= Strength(table[i])}
    <3>1. \A i, j \in S : f[i] <= f[j] <=> Strength(table[j]) <= Strength(table[i])
      <4> TAKE i, j \in S
      <4>1. f[i] = 5 - Strength(table[i]) /\ f[j] = 5 - Strength(table[j])
        OBVIOUS
      <4> HIDE DEF f
      <4> QED BY <2>1, <4>1
    <3> HIDE DEF f
    <3> QED BY <3>1
  <2> HIDE DEF B
  <2> QED BY <2>3, <2>4 DEF BestOf
<1> QED BY <1>3, <1>4

\* The rows that are merged are a class: each of them is together with the
\* same ones, and where there are several an enumeration names each.
LEMMA TogetherIsAClass ==
  ASSUME NEW i \in DOMAIN table
  PROVE  /\ i \in Together(i) /\ Together(i) \in SUBSET DOMAIN table
         /\ \A j \in Together(i) : Together(j) = Together(i)
         /\ Together(i) # {i} => \A j \in Together(i) : \E l \in offer.lists : Listed(j, l)
<1> DEFINE D == DOMAIN table
<1>1. \A j \in D : j \in Together(j) /\ Together(j) \in SUBSET D
  BY DEF Together
<1>2. ASSUME NEW j \in D, NEW is \in SUBSET D, j \in is, Whole(is)
      PROVE  Together(j) \in SUBSET is
  BY <1>2 DEF Together
<1>3. ASSUME NEW j \in D PROVE Whole(Together(j))
  <2> SUFFICES ASSUME NEW l \in offer.lists, NEW a \in D, Listed(a, l), a \in Together(j),
                      NEW b \in D, Listed(b, l), NEW is \in SUBSET D, j \in is, Whole(is)
               PROVE  b \in is
    <3>1. \A l \in offer.lists : \A a, b \in D :
            Listed(a, l) /\ Listed(b, l) /\ a \in Together(j) => b \in Together(j)
      BY DEF Together
    <3> QED BY <3>1 DEF Whole
  <2>1. a \in is
    BY <1>2
  <2> QED BY <2>1 DEF Whole
<1>4. ASSUME NEW is \in SUBSET D, Whole(is) PROVE Whole(D \ is)
  BY <1>4 DEF Whole
<1>5. ASSUME NEW j \in Together(i) PROVE Together(j) = Together(i)
  <2>1. j \in D
    BY <1>1
  <2>2. Together(j) \in SUBSET Together(i)
    BY <1>1, <1>2, <1>3, <2>1
  <2>3. i \in Together(j)
    <3>1. ASSUME i \notin Together(j) PROVE FALSE
      <4>1. Together(i) \in SUBSET (D \ Together(j))
        BY <1>1, <1>2, <1>3, <1>4, <2>1, <3>1
      <4> QED BY <1>1, <2>1, <4>1
    <3> QED BY <3>1
  <2>4. Together(i) \in SUBSET Together(j)
    BY <1>1, <1>2, <1>3, <2>1, <2>3
  <2> QED BY <2>2, <2>4
<1>6. ASSUME NEW j \in D, \A l \in offer.lists : ~ Listed(j, l) PROVE Together(j) = {j}
  <2>1. Whole({j})
    BY <1>6 DEF Whole
  <2> QED BY <1>1, <1>2, <2>1
<1>7. ASSUME Together(i) # {i}, NEW j \in Together(i) PROVE \E l \in offer.lists : Listed(j, l)
  BY <1>1, <1>5, <1>6, <1>7
<1> QED BY <1>1, <1>5, <1>7

\* KeyOf, with the usable skills as a parameter.
KeyFor(r, usable) ==
  LET named == NamedParts(r.name, usable) IN
  IF IsNever(r, Never) THEN <<"never", r.name>>
  ELSE IF named # << >> THEN <<"skill", named>> ELSE <<"name", r.name>>

\* What a table brings is short of what it asks, where one of the musts is not
\* met by client experience.
LEMMA GapsCost ==
  ASSUME NEW rows, IsFiniteSet(DOMAIN rows), NEW i \in Musts(rows),
         rows[i].match # "yes" \/ LabOnly(rows[i])
  PROVE  Total(rows) \in Nat /\ Met(rows) \in Nat /\ Met(rows) + 3 <= 2 * Total(rows)
<1> DEFINE S == Scored(rows)
           w == [j \in S |-> Weight(rows[j])]
           v == [j \in S |-> Worth(rows[j])]
<1>1. IsFiniteSet(S) /\ i \in S
  BY FS_Subset DEF Scored, Musts
<1>2. \A m : Value(m) \in {0, 1, 2} /\ (m # "yes" => Value(m) # 2)
  BY DEF Value
<1>3. \A n \in {0, 1, 2} : Min({1, n}) = IF n = 0 THEN 0 ELSE 1
  <2> TAKE n \in {0, 1, 2}
  <2>1. {1, n} \in SUBSET Nat /\ {1, n} # {}
    OBVIOUS
  <2>2. Min({1, n}) \in {1, n} /\ \A k \in {1, n} : Min({1, n}) <= k
    BY <2>1, MinIsIn
  <2> QED BY <2>2
<1>4. ASSUME NEW r
      PROVE  /\ Weight(r) \in {1, 3} /\ Worth(r) \in Nat /\ Worth(r) <= 2 * Weight(r)
             /\ r.importance = "must" /\ (r.match # "yes" \/ LabOnly(r)) =>
                  Worth(r) + 3 <= 2 * Weight(r)
  <2>1. Weight(r) = (IF r.importance = "must" THEN 3 ELSE 1)
    BY DEF Weight
  <2>2. PICK n \in {0, 1, 2} : n = Value(r.match) /\ (r.match # "yes" => n # 2)
    BY <1>2
  <2>3. Worth(r) = Weight(r) * (IF LabOnly(r) THEN (IF n = 0 THEN 0 ELSE 1) ELSE n)
    BY <1>3, <2>2 DEF Worth
  <2>4. PICK k \in {0, 1, 2} : /\ k = (IF LabOnly(r) THEN (IF n = 0 THEN 0 ELSE 1) ELSE n)
                               /\ r.match # "yes" \/ LabOnly(r) => k # 2
    BY <2>2
  <2>5. Worth(r) = Weight(r) * k
    BY <2>3, <2>4
  <2>6. Weight(r) \in {1, 3} /\ Worth(r) \in Nat /\ Worth(r) <= 2 * Weight(r)
    BY <2>1, <2>5
  <2>7. k # 2 /\ Weight(r) = 3 => Worth(r) + 3 <= 2 * Weight(r)
    BY <2>5
  <2> QED BY <2>1, <2>4, <2>6, <2>7
<1>5. \A j \in S : w[j] \in Nat /\ v[j] \in Nat /\ v[j] <= 2 * w[j]
  <2> TAKE j \in S
  <2>1. w[j] = Weight(rows[j]) /\ v[j] = Worth(rows[j])
    OBVIOUS
  <2> HIDE DEF w, v
  <2> QED BY <1>4, <2>1
<1>6. v[i] + 3 <= 2 * w[i]
  <2>1. w[i] = Weight(rows[i]) /\ v[i] = Worth(rows[i])
    BY <1>1
  <2>2. rows[i].importance = "must"
    BY DEF Musts
  <2> HIDE DEF w, v
  <2> QED BY <1>4, <2>1, <2>2
<1>7. \E f : IsSum(f, SUBSET S, w) /\ Total(rows) = f[S]
  <2>1. PICK h : IsSum(h, SUBSET S, w)
    BY <1>1, SumExists
  <2> DEFINE IsFold(iter) ==
               iter = [T \in SUBSET S |->
                         IF T = {} THEN 0 ELSE Weight(rows[OneOf(T)]) + iter[T \ {OneOf(T)}]]
             it == CHOOSE iter : IsFold(iter)
  <2>2. \A T \in SUBSET S : T # {} => w[OneOf(T)] = Weight(rows[OneOf(T)])
    <3>1. \A T \in SUBSET S : T # {} => OneOf(T) \in S
      BY DEF OneOf
    <3> HIDE DEF S
    <3> QED BY <3>1
  <2>3. Total(rows) = it[S]
    BY DEF Total, FoldSet, MapThenFoldSet, OneOf
  <2> HIDE DEF S, w
  <2>4. \A iter : IsSum(iter, SUBSET S, w) <=> IsFold(iter)
    BY <2>2 DEF IsSum
  <2> HIDE DEF IsFold
  <2>5. IsFold(it)
    BY <2>1, <2>4
  <2> QED BY <2>3, <2>4, <2>5
<1>8. \E g : IsSum(g, SUBSET S, v) /\ Met(rows) = g[S]
  <2>1. PICK h : IsSum(h, SUBSET S, v)
    BY <1>1, SumExists
  <2> DEFINE IsFold(iter) ==
               iter = [T \in SUBSET S |->
                         IF T = {} THEN 0 ELSE Worth(rows[OneOf(T)]) + iter[T \ {OneOf(T)}]]
             it == CHOOSE iter : IsFold(iter)
  <2>2. \A T \in SUBSET S : T # {} => v[OneOf(T)] = Worth(rows[OneOf(T)])
    <3>1. \A T \in SUBSET S : T # {} => OneOf(T) \in S
      BY DEF OneOf
    <3> HIDE DEF S
    <3> QED BY <3>1
  <2>3. Met(rows) = it[S]
    BY DEF Met, FoldSet, MapThenFoldSet, OneOf
  <2> HIDE DEF S, v
  <2>4. \A iter : IsSum(iter, SUBSET S, v) <=> IsFold(iter)
    BY <2>2 DEF IsSum
  <2> HIDE DEF IsFold
  <2>5. IsFold(it)
    BY <2>1, <2>4
  <2> QED BY <2>3, <2>4, <2>5
<1> HIDE DEF S, w, v
<1>9. PICK f : IsSum(f, SUBSET S, w) /\ Total(rows) = f[S]
  BY <1>7
<1>10. PICK g : IsSum(g, SUBSET S, v) /\ Met(rows) = g[S]
  BY <1>8
<1>11. \A T \in SUBSET S :
         /\ f[T] \in Nat /\ g[T] \in Nat /\ g[T] <= 2 * f[T]
         /\ (\E j \in T : v[j] + 3 <= 2 * w[j]) => g[T] + 3 <= 2 * f[T]
  BY <1>1, <1>5, <1>9, <1>10, SumsCompare
<1>12. f[S] \in Nat /\ g[S] \in Nat /\ g[S] + 3 <= 2 * f[S]
  BY <1>1, <1>6, <1>11
<1> QED BY <1>9, <1>10, <1>12

LEMMA Rounds ==
  ASSUME NEW t \in Nat, NEW m \in Nat, m + 3 <= 2 * t, t < 300
  PROVE  (100 * m + t) \div (2 * t) < 100
<1>1. t \in 1..299
  OBVIOUS
<1>2. 100 * m + t < 100 * (2 * t) /\ 100 * m + t \in Nat /\ 2 * t \in Nat \ {0}
  OBVIOUS
<1>3. ASSUME NEW a \in Nat, NEW b \in Nat \ {0}, a < 100 * b PROVE a \div b < 100
  <2>1. b * (a \div b) <= a /\ a \div b \in Nat
    BY <1>3
  <2> QED BY <1>3, <2>1
<1> QED BY <1>2, <1>3

LEMMA FeltWhereMissed ==
  ASSUME NEW rows, IsFiniteSet(DOMAIN rows), NEW never, Gaps(rows, never) # {}, Total(rows) < 300,
         \A j \in DOMAIN rows : /\ j \in never => rows[j].match = "no"
                                /\ rows[j].judged => rows[j].match # "yes"
  PROVE  Level(rows, never) # "qualified" /\ ScoreOf(rows) < 100
<1>1. PICK i \in Musts(rows) : IsGap(rows[i], i \in never)
  BY DEF Gaps
<1>2. rows[i].match # "yes" \/ LabOnly(rows[i])
  BY <1>1 DEF IsGap, Musts, Scored
<1>3. ScoreOf(rows) < 100
  BY <1>2, GapsCost, Rounds DEF ScoreOf
<1>4. Cardinality(Gaps(rows, never)) # 0
  <2>1. IsFiniteSet(Gaps(rows, never))
    BY FS_Subset DEF Gaps, Musts, Scored
  <2> QED BY <2>1, FS_EmptySet
<1> QED BY <1>3, <1>4 DEF Level

LEMMA KeyIsFor == Usable = UsableFor(evidence) /\ \A r : KeyOf(r) = KeyFor(r, UsableFor(evidence))
<1>1. Usable = UsableFor(evidence)
  BY DEF Usable, UsableFor
<1> QED BY <1>1 DEF KeyOf, KeyFor

LEMMA SameRowSameKey ==
  ASSUME NEW q, NEW r, NEW usable, SameRow(q, r)
  PROVE  KeyFor(q, usable) = KeyFor(r, usable)
BY DEF SameRow, KeyFor, IsNeverClaimed

\* A row of the table that is scored and shown.
RowIsFinal(r, usable) ==
  /\ r.match \in Verdicts /\ r.skills \in SUBSET usable
  /\ RowIsValid(r) \/ \E n \in r.members : IsDegree(n)
  /\ r.match = "yes" /\ r.kind = "skill" =>
       \E n \in NamesOf(r) : IsDegree(n) \/ IsNamedFor(n, r.skills, usable)
  /\ IsNeverClaimed(r) => r.match = "no"
  /\ r.judged => r.match # "yes"

TableInv ==
  /\ evidence \in Evidences
  /\ DOMAIN table \in SUBSET Nat /\ IsFiniteSet(DOMAIN table)
  /\ pass \in {"read", "state", "settle"} =>
       \A i \in DOMAIN table : IsRow(table[i]) /\ table[i].kind = "skill"
  /\ pass \in {"repeats", "examples"} =>
       \A i \in DOMAIN table : RowOk(table[i], UsableFor(evidence))
  /\ pass = "repeats" =>
       \A i \in DOMAIN table : keys[i] = KeyFor(table[i], UsableFor(evidence))
  /\ pass = "done" =>
       \A i \in DOMAIN table : RowIsFinal(table[i], UsableFor(evidence))

LEMMA AlikeRows ==
  ASSUME NEW r, NEW x
  PROVE  LET q == [r EXCEPT !.importance = x] IN
         /\ IsRow(r) => IsRow(q) /\ q.name = r.name /\ q.kind = r.kind /\ q.importance = x
         /\ \A usable : RowOk(r, usable) => RowOk(q, usable)
         /\ \A usable : IsRow(r) => KeyFor(q, usable) = KeyFor(r, usable)
<1> DEFINE q == [r EXCEPT !.importance = x]
<1>1. IsRow(r) => /\ IsRow(q) /\ q.name = r.name /\ q.importance = x /\ q.match = r.match
                  /\ q.skills = r.skills /\ q.kind = r.kind /\ q.never = r.never /\ q.members = r.members
                  /\ q.judged = r.judged
  BY DEF IsRow
<1> HIDE DEF q
<1>2. \A usable : RowOk(r, usable) => RowOk(q, usable)
  BY <1>1 DEF RowOk
<1>3. \A usable : IsRow(r) => KeyFor(q, usable) = KeyFor(r, usable)
  BY <1>1 DEF KeyFor, IsNever
<1> QED BY <1>1, <1>2, <1>3 DEF q

LEMMA ReadStep == ASSUME TableInv, Read PROVE TableInv'
<1> DEFINE asRead(r) == [r EXCEPT !.importance = IF @ = "nice" THEN @ ELSE "must",
                                  !.skills = @ \ BlockedSkills(evidence)]
<1>1. /\ pass = "read" /\ pass' = "state" /\ evidence' = evidence /\ DOMAIN table' = DOMAIN table
      /\ \A i \in DOMAIN table : table'[i] = asRead(table[i])
  BY DEF Read, Goes
<1>2. ASSUME NEW r, IsRow(r), r.kind = "skill"
      PROVE  IsRow(asRead(r)) /\ asRead(r).kind = "skill"
  BY <1>2 DEF IsRow
<1>3. \A i \in DOMAIN table : IsRow(table[i]) /\ table[i].kind = "skill"
  BY <1>1 DEF TableInv
<1> HIDE DEF asRead
<1>4. \A i \in DOMAIN table : IsRow(table'[i]) /\ table'[i].kind = "skill"
  BY <1>1, <1>2, <1>3
<1> QED BY <1>1, <1>4 DEF TableInv

LEMMA StateStep == ASSUME TableInv, State PROVE TableInv'
<1> DEFINE stated == {i \in DOMAIN table : table[i].name \in NamesIn(offer.lines)}
           unlisted == Unlisted({table[i] : i \in stated})
           last == Max({0} \cup stated)
           rows(e, i) == IF i \in stated THEN table[i] ELSE NeverRow(e)
<1>1. /\ pass = "state" /\ pass' = "settle" /\ evidence' = evidence /\ offer' = offer
      /\ \/ table' = [i \in stated |-> Cued(table[i])]
         \/ \E e \in unlisted : table' = [i \in stated \cup {last + 1} |-> Cued(rows(e, i))]
  BY DEF State, Goes
<1>2. stated \in SUBSET Nat /\ IsFiniteSet(stated)
  BY FS_Subset DEF TableInv
<1>3. last \in Nat
  <2>1. {0} \cup stated \in SUBSET Nat /\ {0} \cup stated # {}
    BY <1>2
  <2>2. IsFiniteSet({0} \cup stated)
    BY <1>2, FS_Singleton, FS_Union
  <2> HIDE DEF stated
  <2>3. Max({0} \cup stated) \in {0} \cup stated
    BY <2>1, <2>2, MaxIsIn
  <2> QED BY <2>1, <2>3
<1>4. stated \cup {last + 1} \in SUBSET Nat /\ IsFiniteSet(stated \cup {last + 1})
  <2> HIDE DEF last, stated
  <2>1. IsFiniteSet({last + 1}) /\ last + 1 \in Nat
    BY <1>3, FS_Singleton
  <2> QED BY <1>2, <2>1, FS_Union
<1>5. \A i \in stated : IsRow(table[i]) /\ table[i].kind = "skill"
  BY <1>1 DEF TableInv
<1>6. \A e : IsRow(NeverRow(e)) /\ NeverRow(e).kind = "skill"
  BY DEF NeverRow, Row, IsRow, Verdicts
<1>7. ASSUME NEW r, IsRow(r), r.kind = "skill" PROVE IsRow(Cued(r)) /\ Cued(r).kind = "skill"
  BY <1>7, AlikeRows DEF Cued
<1>8. CASE table' = [i \in stated |-> Cued(table[i])]
  <2> HIDE DEF stated
  <2> QED BY <1>1, <1>2, <1>5, <1>7, <1>8 DEF TableInv
<1>9. ASSUME NEW e \in unlisted, table' = [i \in stated \cup {last + 1} |-> Cued(rows(e, i))]
      PROVE  TableInv'
  <2> DEFINE rowsAt == stated \cup {last + 1}
  <2>1. \A i \in rowsAt : IsRow(rows(e, i)) /\ rows(e, i).kind = "skill"
    BY <1>5, <1>6
  <2>2. rowsAt \in SUBSET Nat /\ IsFiniteSet(rowsAt) /\ table' = [i \in rowsAt |-> Cued(rows(e, i))]
    BY <1>4, <1>9
  <2> HIDE DEF rowsAt, rows
  <2> QED BY <1>1, <1>7, <2>1, <2>2 DEF TableInv
<1> QED BY <1>1, <1>8, <1>9

LEMMA SettleStep == ASSUME TableInv, Settle PROVE TableInv'
<1>1. /\ pass = "settle" /\ pass' = "repeats" /\ evidence' = evidence
      /\ DOMAIN table' = DOMAIN table
      /\ \A i \in DOMAIN table : table'[i] = Settled(table[i]) /\ keys'[i] = KeyOf(table[i])
  BY DEF Settle, Goes
<1>2. ASSUME NEW i \in DOMAIN table
      PROVE  /\ RowOk(table'[i], UsableFor(evidence))
             /\ keys'[i] = KeyFor(table'[i], UsableFor(evidence))
  <2>1. IsRow(table[i]) /\ table[i].kind = "skill"
    BY <1>1 DEF TableInv
  <2>2. RowOk(table'[i], Usable) /\ SameRow(table'[i], table[i])
    BY <1>1, <2>1, SettledIsOk
  <2> QED BY <1>1, <2>2, KeyIsFor, SameRowSameKey
<1> QED BY <1>1, <1>2 DEF TableInv

LEMMA AreVerdicts ==
  ASSUME TableInv, pass \in {"repeats", "examples"}
  PROVE  /\ DOMAIN table \in SUBSET Nat
         /\ \A i \in DOMAIN table : table[i].match \in Verdicts /\ IsRow(table[i])
BY DEF TableInv, RowOk, IsRow

LEMMA RepeatsStep == ASSUME TableInv, Repeats PROVE TableInv'
<1> DEFINE alike(i) == {j \in DOMAIN table : keys[j] = keys[i]}
           firsts == {i \in DOMAIN table : i = Min(alike(i))}
<1>1. /\ pass = "repeats" /\ pass' = "examples" /\ evidence' = evidence
      /\ table' = [i \in firsts |-> OneRow(alike(i))]
  BY DEF Repeats, Goes
<1>2. ASSUME NEW i \in firsts PROVE RowOk(OneRow(alike(i)), UsableFor(evidence))
  <2>1. alike(i) \in SUBSET DOMAIN table /\ alike(i) # {}
    OBVIOUS
  <2> HIDE DEF alike
  <2>2. PICK k \in DOMAIN table : Strictest(alike(i)) = table[k]
    BY <1>1, <2>1, AreVerdicts, OneIsTaken
  <2>3. RowOk(table[k], UsableFor(evidence))
    BY <1>1 DEF TableInv
  <2> QED BY <2>2, <2>3, AlikeRows DEF OneRow
<1>3. firsts \in SUBSET Nat /\ IsFiniteSet(firsts)
  BY FS_Subset DEF TableInv
<1> HIDE DEF firsts, alike
<1> QED BY <1>1, <1>2, <1>3 DEF TableInv

\* A row of its own, or of several that are examples of one thing.
LEMMA MergedIsFinal ==
  ASSUME TableInv, pass = "examples", NEW i \in DOMAIN table
  PROVE  RowIsFinal(Merged(Together(i)), UsableFor(evidence))
<1> DEFINE usable == UsableFor(evidence)
           T == Together(i)
           best == BestOf(T)
           q == Merged(T)
<1> SUFFICES RowIsFinal(q, usable)
  OBVIOUS
<1>1. \A j \in DOMAIN table : RowOk(table[j], usable)
  BY DEF TableInv
<1>2. T \in SUBSET DOMAIN table /\ i \in T /\ DOMAIN table \in SUBSET Nat
  BY TogetherIsAClass DEF TableInv
<1>3. usable \in SUBSET SkillIds
  BY DEF UsableFor
<1>4. CASE Cardinality(T) = 1
  <2>1. q = table[Min(T)] /\ Min(T) \in DOMAIN table
    BY <1>2, <1>4, MinIsIn DEF Merged
  <2>2. RowOk(q, usable)
    BY <1>1, <2>1
  <2> HIDE DEF q, usable
  <2>3. RowIsValid(q)
    BY <1>3, <2>2 DEF RowOk, IsRow, RowIsValid, Verdicts, Kinds
  <2>4. q.name \in NamesOf(q)
    BY <2>2 DEF NamesOf, RowOk, IsRow
  <2>5. q.match \in Verdicts /\ q.skills \in SUBSET usable
    BY <2>2 DEF RowOk, IsRow
  <2>6. q.match = "yes" /\ q.kind = "skill" =>
          \E n \in NamesOf(q) : IsDegree(n) \/ IsNamedFor(n, q.skills, usable)
    BY <2>2, <2>4 DEF RowOk
  <2>7. IsNeverClaimed(q) => q.match = "no"
    BY <2>2, NeverIsByFlagOrName DEF RowOk
  <2>8. q.judged => q.match # "yes"
    BY <2>2 DEF RowOk
  <2> QED BY <2>3, <2>5, <2>6, <2>7, <2>8 DEF RowIsFinal
<1>5. CASE Cardinality(T) # 1
  <2>1. T # {i}
    BY <1>5, FS_Singleton
  <2>2. PICK k \in T : best = table[k]
    BY <1>2, AreVerdicts, OneIsTaken
  <2>3. PICK l \in offer.lists : Listed(k, l)
    BY <2>1, TogetherIsAClass
  <2>4. /\ RowOk(best, usable) /\ best.kind \notin {"quality", "certification"}
        /\ ~ IsLanguage(best.name)
    BY <1>1, <1>2, <2>2, <2>3 DEF Listed
  <2>5. /\ q.match = best.match /\ q.skills = best.skills /\ q.kind = "skill"
        /\ q.members = {r.name : r \in {table[j] : j \in T}} /\ q.judged = FALSE
        /\ q.never = \A r \in {table[j] : j \in T} : r.never
    BY <1>5 DEF Merged, Row
  <2>6. best.name \in q.members /\ (q.never => best.never)
    BY <2>2, <2>5
  <2> HIDE DEF q, best, T, usable
  <2>7. best.kind \in {"skill", "condition", "degree"}
    BY <2>4 DEF RowOk, Kinds
  <2>8. best.name \in NamesOf(q)
    BY <2>6 DEF NamesOf
  <2>9. q.match \in Verdicts /\ q.skills \in SUBSET usable
    BY <2>4, <2>5 DEF RowOk, IsRow
  <2>10. IsNeverClaimed(q) => q.match = "no"
    <3>1. IsNeverClaimed(q) => q.never
      BY <2>6 DEF IsNeverClaimed, IsNever
    <3> QED BY <2>4, <2>5, <2>6, <3>1 DEF RowOk
  <2>11. CASE best.kind = "degree"
    <3>1. IsDegree(best.name)
      BY <2>4, <2>11 DEF RowOk
    <3> QED BY <2>5, <2>6, <2>8, <2>9, <2>10, <3>1 DEF RowIsFinal
  <2>12. CASE best.kind # "degree"
    <3>1. RowIsValid(q)
      BY <1>3, <2>4, <2>5, <2>7, <2>12 DEF RowOk, IsRow, RowIsValid, Verdicts, Kinds
    <3>2. q.match = "yes" => best.kind = "skill"
      BY <2>4, <2>5, <2>7, <2>12 DEF RowOk
    <3>3. q.match = "yes" => IsNamedFor(best.name, q.skills, usable)
      BY <2>4, <2>5, <3>2 DEF RowOk
    <3> QED BY <2>5, <2>8, <2>9, <2>10, <3>1, <3>3 DEF RowIsFinal
  <2> QED BY <2>11, <2>12
<1> QED BY <1>4, <1>5

LEMMA ExamplesStep == ASSUME TableInv, Examples PROVE TableInv'
<1> DEFINE firsts == {i \in DOMAIN table : i = Min(Together(i))}
<1>1. /\ pass = "examples" /\ pass' = "done" /\ evidence' = evidence
      /\ table' = [i \in firsts |-> Merged(Together(i))]
  BY DEF Examples, Goes
<1>2. \A i \in firsts : RowIsFinal(Merged(Together(i)), UsableFor(evidence))
  BY <1>1, MergedIsFinal
<1>3. firsts \in SUBSET Nat /\ IsFiniteSet(firsts)
  BY FS_Subset DEF TableInv
<1> HIDE DEF firsts
<1> QED BY <1>1, <1>2, <1>3 DEF TableInv

LEMMA TableInvHolds == NormalizeSpec => []TableInv
<1>1. NormalizeInit => TableInv
  <2> SUFFICES ASSUME NormalizeInit PROVE TableInv
    OBVIOUS
  <2>1. ASSUME NEW i \in DOMAIN table PROVE IsRow(table[i]) /\ table[i].kind = "skill"
    <3> DEFINE row == Row(table[i].name, table[i].importance, table[i].match, table[i].skills)
    <3>1. (table[i] = row \/ table[i] = Flagged(row)) /\ table[i].match \in Verdicts
      BY NormalizeAssumption DEF NormalizeInit, Verdicts
    <3>2. ASSUME NEW n, NEW x, NEW m \in Verdicts, NEW some
          PROVE  IsRow(Row(n, x, m, some)) /\ Row(n, x, m, some).kind = "skill"
      BY DEF IsRow, Row
    <3>3. ASSUME NEW r, IsRow(r), r.kind = "skill"
          PROVE  IsRow(Flagged(r)) /\ Flagged(r).kind = "skill"
      BY <3>3 DEF IsRow, Flagged
    <3> QED BY <3>1, <3>2, <3>3
  <2> QED BY <2>1, NormalizeAssumption DEF NormalizeInit, TableInv
<1>2. TableInv /\ [NormalizeNext]_tableVars => TableInv'
  <2> SUFFICES ASSUME TableInv, [NormalizeNext]_tableVars PROVE TableInv'
    OBVIOUS
  <2>1. CASE UNCHANGED tableVars
    BY <2>1 DEF tableVars, TableInv
  <2> QED BY <2>1, ReadStep, StateStep, SettleStep, RepeatsStep, ExamplesStep DEF NormalizeNext
<1> QED BY <1>1, <1>2, PTL DEF NormalizeSpec

\* The table that the repairs make of any answer is one that the validation
\* accepts, but for a degree that the offer lists among examples (normalize.js).
THEOREM RepairedTableIsValid == NormalizeSpec => []TableIsValid
<1>1. TableInv => TableIsValid
  BY DEF TableInv, TableIsValid, Final, RowIsFinal
<1> QED BY <1>1, TableInvHolds, PTL

\* No row of the repaired table rests on a skill that the evidence rules out,
\* and none has full credit unless a word, a concept or a ruling of the profile
\* gives it (normalize.js, evidence.js, coverage.js).
THEOREM NothingUnbackedIsClaimed == NormalizeSpec => []ClaimsAreBacked
<1>1. TableInv => ClaimsAreBacked
  <2> SUFFICES ASSUME TableInv PROVE ClaimsAreBacked
    OBVIOUS
  <2>1. ASSUME NEW i \in DOMAIN table, Final(i) PROVE RowIsFinal(table[i], UsableFor(evidence))
    BY <2>1 DEF TableInv, Final
  <2>2. EvidenceRules
    <3> SUFFICES ASSUME NEW i \in DOMAIN table, Final(i), NEW s \in table[i].skills
                 PROVE  Verdict(evidence[s]) \in Showable
      BY DEF EvidenceRules
    <3>1. s \in UsableFor(evidence)
      BY <2>1 DEF RowIsFinal
    <3>2. DOMAIN evidence = SkillIds
      BY NormalizeAssumption DEF TableInv
    <3> QED BY <3>1, <3>2 DEF UsableFor, BlockedSkills
  <2>3. YesIsNamed
    <3> SUFFICES ASSUME NEW i \in DOMAIN table, Final(i), table[i].match = "yes", table[i].kind = "skill"
                 PROVE  \E n \in NamesOf(table[i]) :
                          \/ IsDegree(n) \/ Grounded(n, table[i].skills)
                          \/ table[i].skills \cap (Members(WordsOf(n), Placed(Usable, FALSE))
                                                     \cup Ruled(WordsOf(n), "same")) # {}
      BY DEF YesIsNamed
    <3> QED BY <2>1, KeyIsFor DEF RowIsFinal, IsNamedFor, IsOnIt
  <2> QED BY <2>2, <2>3 DEF ClaimsAreBacked
<1> QED BY <1>1, TableInvHolds, PTL

\* Once the offer has been asked, no pass loses a row or softens it: the row that
\* stands for it, whichever rows it becomes one with, is a must if it was one, and
\* its match is no better than that of any of its repetitions (normalize.js).
THEOREM NoMustIsLost == NormalizeSpec => MustsAreKept
<1>1. TableInv /\ [NormalizeNext]_tableVars
        => [pass # "read" /\ pass # "state" => KeepsTheMusts]_tableVars
  <2> SUFFICES ASSUME TableInv, NormalizeNext, pass # "read", pass # "state",
                      NEW i \in DOMAIN table
               PROVE  \E j \in DOMAIN table' : StandsFor(j, i) /\ IsAsStrict(j, i)
    BY DEF KeepsTheMusts
  <2>1. CASE Settle
    <3>1. /\ pass = "settle" /\ i \in DOMAIN table' /\ table'[i] = Settled(table[i])
      BY <2>1 DEF Settle, Goes
    <3>2. RowOk(table'[i], Usable) /\ SameRow(table'[i], table[i])
      BY <3>1, SettledIsOk DEF TableInv
    <3> QED BY <3>1, <3>2 DEF SameRow, StandsFor, NamesOf, RowOk, IsRow, IsAsStrict
  <2>2. CASE Repeats
    <3> DEFINE alike(k) == {j \in DOMAIN table : keys[j] = keys[k]}
               S == alike(i)
               first == Min(S)
    <3>1. /\ pass = "repeats"
          /\ table' = [k \in {k \in DOMAIN table : k = Min(alike(k))} |-> OneRow(alike(k))]
      BY <2>2 DEF Repeats, Goes
    <3>2. S \in SUBSET DOMAIN table /\ i \in S /\ DOMAIN table \in SUBSET Nat
      BY DEF TableInv
    <3>3. first \in S
      <4>1. S \in SUBSET Nat /\ S # {}
        BY <3>2
      <4> HIDE DEF S
      <4> QED BY <4>1, MinIsIn
    <3>4. alike(first) = S
      BY <3>3
    <3>5. first \in DOMAIN table' /\ table'[first] = OneRow(S)
      BY <3>1, <3>2, <3>3, <3>4
    <3>6. PICK k \in S : /\ Strictest(S) = table[k]
                         /\ \A j \in S : Strictness(table[k].match) <= Strictness(table[j].match)
      <4> HIDE DEF S
      <4> QED BY <3>1, <3>2, AreVerdicts, OneIsTaken
    <3>7. /\ IsRow(table[k]) /\ KeyFor(table[k], Usable) = KeyFor(table[i], Usable)
      BY <3>1, <3>2, AreVerdicts, KeyIsFor DEF TableInv
    <3>8. table[i].importance = "must" => Most({table[j] : j \in S}) = "must"
      BY <3>2 DEF Most
    <3>9. Strictness(table[k].match) <= Strictness(table[i].match)
      BY <3>2, <3>6
    <3> HIDE DEF S, first
    <3>10. table'[first] = [table[k] EXCEPT !.importance = Most({table[j] : j \in S})]
      BY <3>5, <3>6 DEF OneRow
    <3>11. /\ table'[first].importance = Most({table[j] : j \in S})
           /\ table'[first].match = table[k].match
           /\ KeyFor(table'[first], Usable) = KeyFor(table[i], Usable)
      BY <3>7, <3>10, AlikeRows DEF IsRow
    <3> QED BY <3>5, <3>8, <3>9, <3>11, KeyIsFor DEF StandsFor, IsAsStrict
  <2>3. CASE Examples
    <3> DEFINE T == Together(i)
               first == Min(T)
    <3>1. /\ pass = "examples"
          /\ table' = [k \in {k \in DOMAIN table : k = Min(Together(k))} |-> Merged(Together(k))]
      BY <2>3 DEF Examples, Goes
    <3>2. T \in SUBSET DOMAIN table /\ i \in T /\ DOMAIN table \in SUBSET Nat
      BY TogetherIsAClass DEF TableInv
    <3>3. first \in T
      <4>1. T \in SUBSET Nat /\ T # {}
        BY <3>2
      <4> HIDE DEF T
      <4> QED BY <4>1, MinIsIn
    <3>4. Together(first) = T
      BY <3>3, TogetherIsAClass
    <3>5. first \in DOMAIN table' /\ table'[first] = Merged(T)
      BY <3>1, <3>2, <3>3, <3>4
    <3>6. CASE Cardinality(T) = 1
      <4>1. T = {i}
        <5>1. IsFiniteSet(T)
          BY <3>2, FS_Subset DEF TableInv
        <5> HIDE DEF T
        <5> QED BY <3>2, <3>6, <5>1, FS_Singleton
      <4>2. table'[first] = table[i]
        BY <3>3, <3>5, <3>6, <4>1 DEF Merged
      <4>3. Strictness(table[i].match) <= Strictness(table[i].match)
        BY <3>1, AreVerdicts DEF Verdicts, Strictness
      <4> QED BY <3>5, <4>2, <4>3 DEF StandsFor, IsAsStrict
    <3>7. CASE Cardinality(T) # 1
      <4>1. /\ Merged(T).importance = Most({table[j] : j \in T})
            /\ Merged(T).members = {r.name : r \in {table[j] : j \in T}}
        BY <3>7 DEF Merged, Row
      <4>2. table[i].importance = "must" => Most({table[j] : j \in T}) = "must"
        BY <3>2 DEF Most
      <4>3. table[i].name \in Merged(T).members
        BY <3>2, <4>1
      <4> HIDE DEF T
      <4> QED BY <3>5, <4>1, <4>2, <4>3 DEF StandsFor, NamesOf, IsAsStrict
    <3> QED BY <3>6, <3>7
  <2> QED BY <2>1, <2>2, <2>3 DEF NormalizeNext, Read, State, Goes
<1> QED BY <1>1, TableInvHolds, PTL DEF NormalizeSpec, MustsAreKept

\* Examples that an offer lists together count as one requirement, as good as the
\* best of them: what is left of them is a gap where none of them is met but in
\* the lab, and none where one is met in full by client experience
\* (normalize.js, mergeExamples).
THEOREM ExamplesAreAsGoodAsTheBest == NormalizeSpec => ExamplesCountAsOne
<1>1. TableInv /\ [NormalizeNext]_tableVars
        => [pass = "examples" => \A j \in DOMAIN table' : CountsAsOne(j)]_tableVars
  <2> SUFFICES ASSUME TableInv, NormalizeNext, pass = "examples", NEW j \in DOMAIN table'
               PROVE  CountsAsOne(j)
    OBVIOUS
  <2> DEFINE T == Together(j)
             q == Merged(T)
  <2>1. Examples
    BY DEF NormalizeNext, Read, State, Settle, Repeats, Goes
  <2>2. j \in DOMAIN table /\ j = Min(T) /\ table'[j] = q
    BY <2>1 DEF Examples
  <2>3. T \in SUBSET DOMAIN table /\ j \in T /\ DOMAIN table \in SUBSET Nat /\ IsFiniteSet(T)
    BY <2>2, TogetherIsAClass, FS_Subset DEF TableInv
  <2>4. \A i \in DOMAIN table : RowOk(table[i], UsableFor(evidence))
    BY DEF TableInv
  <2>5. CASE Cardinality(T) = 1
    <3>1. T = {j}
      <4> HIDE DEF T
      <4> QED BY <2>3, <2>5, FS_Singleton
    <3>2. q = table[j]
      BY <2>2, <2>5 DEF Merged
    <3>3. table[j].match = "yes" => ~ IsNeverClaimed(table[j]) /\ ~ table[j].judged
      BY <2>2, <2>4, NeverIsByFlagOrName DEF RowOk
    <3> HIDE DEF T, q
    <3> QED BY <2>2, <3>1, <3>2, <3>3 DEF CountsAsOne, IsGapRow, IsGap, T
  <2>6. CASE Cardinality(T) # 1
    <3>1. PICK k \in T : /\ BestOf(T) = table[k]
                         /\ \A i \in T : Strength(table[i]) <= Strength(table[k])
      <4> HIDE DEF T
      <4> QED BY <2>3, AreVerdicts, OneIsTaken
    <3>2. /\ q.match = table[k].match /\ q.skills = table[k].skills /\ q.judged = FALSE
          /\ q.members = {r.name : r \in {table[i] : i \in T}}
          /\ q.never = \A r \in {table[i] : i \in T} : r.never
      BY <2>6, <3>1 DEF Merged, Row
    <3>3. q.members # {}
      BY <2>3, <3>2
    <3>4. LabOnly(q) <=> LabOnly(table[k])
      BY <3>2 DEF LabOnly
    <3>5. ASSUME \A i \in T : table[i].match = "no" \/ LabOnly(table[i]) PROVE IsGapRow(q)
      BY <3>1, <3>2, <3>4, <3>5 DEF IsGapRow, IsGap
    <3>6. ASSUME NEW i \in T, table[i].match = "yes", ~ LabOnly(table[i]) PROVE ~ IsGapRow(q)
      <4>1. Strength(table[i]) = 5
        BY <3>6 DEF Strength, Strictness, LabOnly
      <4>2. table[k].match \in Verdicts /\ ~ (Strength(table[k]) < 5)
        <5>1. Strength(table[i]) <= Strength(table[k]) /\ table[k].match \in Verdicts
          BY <2>3, <3>1, AreVerdicts
        <5>2. Strength(table[k]) \in Nat
          BY <5>1 DEF Strength, Strictness, Verdicts
        <5> QED BY <4>1, <5>1, <5>2
      <4>3. table[k].match = "yes" /\ ~ LabOnly(table[k])
        BY <4>2 DEF Strength, Strictness, Verdicts, LabOnly
      <4>4. ~ table[i].never
        BY <2>3, <2>4, <3>6 DEF RowOk
      <4>5. ~ q.never
        BY <3>2, <4>4
      <4> HIDE DEF q
      <4>6. ~ IsNeverClaimed(q)
        BY <3>3, <4>5 DEF IsNeverClaimed, IsNever
      <4> QED BY <3>2, <3>4, <4>3, <4>6 DEF IsGapRow, IsGap
    <3> HIDE DEF q, T
    <3> QED BY <2>2, <3>5, <3>6 DEF CountsAsOne, T
  <2> QED BY <2>5, <2>6
<1> QED BY <1>1, TableInvHolds, PTL DEF NormalizeSpec, ExamplesCountAsOne

----------------------------------------------------------------------------
(* What is missing.                                                        *)

\* Some row speaks of something never claimed that the offer names.
Spoken(rows) ==
  \E e \in NeverNamed : \E i \in DOMAIN rows : Mentions(WordsOf(rows[i].name), WordsOf(e))

NeverInv ==
  /\ pass \in {"settle", "repeats", "examples"} /\ ~ flagged /\ NeverNamed # {} => Spoken(table)
  /\ NeverClaimedIsFelt

LEMMA StateSpeaks ==
  ASSUME TableInv, State, ~ flagged', NeverNamed # {}
  PROVE  Spoken(table')
<1> DEFINE stated == {i \in DOMAIN table : table[i].name \in NamesIn(offer.lines)}
           unlisted == Unlisted({table[i] : i \in stated})
           last == Max({0} \cup stated)
           rows(e, i) == IF i \in stated THEN table[i] ELSE NeverRow(e)
<1>1. \/ unlisted = {} /\ table' = [i \in stated |-> Cued(table[i])]
      \/ \E e \in unlisted : table' = [i \in stated \cup {last + 1} |-> Cued(rows(e, i))]
  BY DEF State
<1>2. /\ \A i \in DOMAIN table : IsRow(table[i])
      /\ \A i \in stated : ~ table[i].never
  BY DEF State, Goes, TableInv
<1>3. ASSUME NEW r, IsRow(r) PROVE Cued(r).name = r.name
  BY <1>3, AlikeRows DEF Cued
<1>4. CASE unlisted = {} /\ table' = [i \in stated |-> Cued(table[i])]
  <2>1. PICK e \in NeverNamed : TRUE
    OBVIOUS
  <2>2. PICK i \in stated : IsNever(table[i], {e})
    BY <1>4, <2>1 DEF Unlisted
  <2>3. Mentions(WordsOf(table[i].name), WordsOf(e))
    BY <1>2, <2>2 DEF IsNever
  <2>4. i \in DOMAIN table' /\ table'[i].name = table[i].name
    BY <1>2, <1>3, <1>4
  <2> QED BY <2>1, <2>3, <2>4 DEF Spoken
<1>5. ASSUME NEW e \in unlisted, table' = [i \in stated \cup {last + 1} |-> Cued(rows(e, i))]
      PROVE  Spoken(table')
  <2>1. e \in NeverNamed /\ e \in Never
    BY DEF Unlisted, NeverNamed
  <2>2. Mentions(WordsOf(e), WordsOf(e))
    BY <2>1, NormalizeAssumption DEF Mentions, WordsOf
  <2>3. last + 1 \notin stated
    <3>1. {0} \cup stated \in SUBSET Nat /\ {0} \cup stated # {} /\ stated \in SUBSET Nat
      BY DEF TableInv
    <3>2. IsFiniteSet({0} \cup stated)
      BY FS_Subset, FS_Singleton, FS_Union DEF TableInv
    <3> HIDE DEF stated
    <3>3. last \in Nat /\ \A k \in stated : last >= k
      BY <3>1, <3>2, MaxIsIn
    <3> HIDE DEF last
    <3>4. ~ (last >= last + 1)
      BY <3>3
    <3> QED BY <3>3, <3>4
  <2>4. IsRow(NeverRow(e)) /\ NeverRow(e).name = e
    BY DEF NeverRow, Row, IsRow, Verdicts
  <2> DEFINE new == last + 1
  <2>5. new \in DOMAIN table' /\ table'[new] = Cued(NeverRow(e))
    BY <1>5, <2>3
  <2> HIDE DEF new
  <2> QED BY <1>3, <2>1, <2>2, <2>4, <2>5 DEF Spoken
<1> QED BY <1>1, <1>4, <1>5

\* What repeats a row that is never claimed has its name.
LEMMA RepeatsSpeaks ==
  ASSUME TableInv, Repeats, Spoken(table)
  PROVE  Spoken(table')
<1> DEFINE alike(k) == {j \in DOMAIN table : keys[j] = keys[k]}
<1>1. PICK e \in NeverNamed, i \in DOMAIN table : Mentions(WordsOf(table[i].name), WordsOf(e))
  BY DEF Spoken
<1> DEFINE S == alike(i)
           first == Min(S)
<1>2. /\ pass = "repeats"
      /\ table' = [k \in {k \in DOMAIN table : k = Min(alike(k))} |-> OneRow(alike(k))]
  BY DEF Repeats, Goes
<1>3. S \in SUBSET DOMAIN table /\ i \in S /\ DOMAIN table \in SUBSET Nat
  BY DEF TableInv
<1>4. first \in S
  <2>1. S \in SUBSET Nat /\ S # {}
    BY <1>3
  <2> HIDE DEF S
  <2> QED BY <2>1, MinIsIn
<1>5. alike(first) = S
  BY <1>4
<1>6. first \in DOMAIN table' /\ table'[first] = OneRow(S)
  BY <1>2, <1>3, <1>4, <1>5
<1>7. PICK k \in S : Strictest(S) = table[k]
  <2> HIDE DEF S
  <2> QED BY <1>2, <1>3, AreVerdicts, OneIsTaken
<1>8. IsRow(table[k]) /\ IsRow(table[i]) /\ KeyFor(table[k], Usable) = KeyFor(table[i], Usable)
  BY <1>2, <1>3, AreVerdicts, KeyIsFor DEF TableInv
<1>9. KeyFor(table[i], Usable) = <<"never", table[i].name>>
  <2>1. e \in Never
    BY <1>1 DEF NeverNamed
  <2> QED BY <1>1, <1>8, <2>1 DEF KeyFor, IsNever, IsRow
<1>10. table[k].name = table[i].name
  BY <1>8, <1>9 DEF KeyFor
<1>11. table'[first].name = table[k].name
  BY <1>6, <1>7, <1>8, AlikeRows DEF OneRow
<1> QED BY <1>1, <1>6, <1>10, <1>11 DEF Spoken

\* The row that stands for it in the end is a no, or may be claimed by another
\* of its examples.
LEMMA ExamplesSays ==
  ASSUME TableInv, Examples, NEW e \in NeverNamed, NEW i \in DOMAIN table,
         Mentions(WordsOf(table[i].name), WordsOf(e))
  PROVE  IsSaid(e)'
<1> DEFINE T == Together(i)
           first == Min(T)
           q == Merged(T)
<1>1. /\ pass = "examples"
      /\ table' = [k \in {k \in DOMAIN table : k = Min(Together(k))} |-> Merged(Together(k))]
  BY DEF Examples, Goes
<1>2. T \in SUBSET DOMAIN table /\ i \in T /\ DOMAIN table \in SUBSET Nat
  BY TogetherIsAClass DEF TableInv
<1>3. first \in T
  <2>1. T \in SUBSET Nat /\ T # {}
    BY <1>2
  <2> HIDE DEF T
  <2> QED BY <2>1, MinIsIn
<1>4. first \in DOMAIN table' /\ table'[first] = q
  BY <1>1, <1>2, <1>3, TogetherIsAClass
<1>5. \A j \in DOMAIN table :
        /\ IsRow(table[j])
        /\ Mentions(WordsOf(table[j].name), WordsOf(e)) =>
             table[j].never /\ table[j].match = "no" /\ table[j].kind = "skill"
  BY <1>1 DEF TableInv, RowOk, NameIsNever, NeverNamed
<1>6. /\ table[i].name \in NamesOf(q)
      /\ (\A n \in NamesOf(q) : Mentions(WordsOf(n), WordsOf(e))) => q.match = "no" /\ q.kind = "skill"
  <2>1. CASE Cardinality(T) = 1
    <3>1. T = {i}
      <4>1. IsFiniteSet(T)
        BY <1>2, FS_Subset DEF TableInv
      <4> HIDE DEF T
      <4> QED BY <1>2, <2>1, <4>1, FS_Singleton
    <3>2. q = table[i]
      BY <1>3, <2>1, <3>1 DEF Merged
    <3> HIDE DEF q
    <3> QED BY <1>5, <3>2 DEF NamesOf, IsRow
  <2>2. CASE Cardinality(T) # 1
    <3>1. PICK k \in T : BestOf(T) = table[k]
      BY <1>1, <1>2, AreVerdicts, OneIsTaken
    <3>2. /\ q.match = table[k].match /\ q.kind = "skill"
          /\ q.members = {r.name : r \in {table[j] : j \in T}}
      BY <2>2, <3>1 DEF Merged, Row
    <3>3. table[i].name \in q.members /\ table[k].name \in q.members
      BY <1>2, <3>1, <3>2
    <3> HIDE DEF q, T
    <3>4. NamesOf(q) = q.members
      BY <3>3 DEF NamesOf
    <3> QED BY <1>2, <1>5, <3>1, <3>2, <3>3, <3>4
  <2> QED BY <2>1, <2>2
<1> HIDE DEF q, first
<1>7. q.match = "no" /\ q.kind = "skill" /\ q.importance = "must" => first \in Gaps(table, NeverRows)'
  BY <1>4 DEF Gaps, Musts, Scored, Counts, IsGap
<1> QED BY <1>4, <1>6, <1>7 DEF IsSaid

LEMMA NeverInvHolds == NormalizeSpec => []NeverInv
<1>1. NormalizeInit => NeverInv
  BY DEF NormalizeInit, NeverInv, NeverClaimedIsFelt
<1>2. TableInv /\ NeverInv /\ [NormalizeNext]_tableVars => NeverInv'
  <2> SUFFICES ASSUME TableInv, NeverInv, [NormalizeNext]_tableVars PROVE NeverInv'
    OBVIOUS
  <2>1. NeverNamed' = NeverNamed
    BY DEF NormalizeNext, Read, State, Settle, Repeats, Examples, Goes, tableVars, NeverNamed
  <2>2. CASE Read
    <3>1. pass' = "state"
      BY <2>2 DEF Read, Goes
    <3> QED BY <3>1 DEF NeverInv, NeverClaimedIsFelt
  <2>3. CASE State
    <3>1. pass' = "settle"
      BY <2>3 DEF State, Goes
    <3> QED BY <2>1, <2>3, <3>1, StateSpeaks DEF NeverInv, NeverClaimedIsFelt, Spoken
  <2>4. CASE Settle
    <3>1. /\ pass = "settle" /\ pass' = "repeats" /\ DOMAIN table' = DOMAIN table
          /\ \A i \in DOMAIN table : table'[i] = Settled(table[i])
          /\ flagged' = flagged
      BY <2>4 DEF Settle, Goes
    <3>2. \A i \in DOMAIN table : table'[i].name = table[i].name
      BY <3>1, SettledIsOk DEF TableInv, SameRow
    <3> QED BY <2>1, <3>1, <3>2 DEF NeverInv, NeverClaimedIsFelt, Spoken
  <2>5. CASE Repeats
    <3>1. pass = "repeats" /\ pass' = "examples" /\ flagged' = flagged
      BY <2>5 DEF Repeats, Goes
    <3> QED BY <2>1, <2>5, <3>1, RepeatsSpeaks DEF NeverInv, NeverClaimedIsFelt, Spoken
  <2>6. CASE Examples
    <3>1. pass = "examples" /\ pass' = "done" /\ flagged' = flagged
      BY <2>6 DEF Examples, Goes
    <3>2. ~ flagged /\ NeverNamed # {} => \E e \in NeverNamed : IsSaid(e)'
      BY <2>6, <3>1, ExamplesSays DEF NeverInv, Spoken
    <3> QED BY <2>1, <3>1, <3>2 DEF NeverInv, NeverClaimedIsFelt
  <2>7. CASE UNCHANGED tableVars
    <3>1. /\ table' = table /\ pass' = pass /\ offer' = offer /\ flagged' = flagged
      BY <2>7 DEF tableVars
    <3> QED BY <3>1 DEF NeverInv, Spoken, NeverNamed, NeverClaimedIsFelt, IsSaid, NeverRows
  <2> QED BY <2>2, <2>3, <2>4, <2>5, <2>6, <2>7 DEF NormalizeNext
<1> QED BY <1>1, <1>2, TableInvHolds, PTL DEF NormalizeSpec

\* Where the offer names things that are never claimed, one of them at least is
\* in the final table, as a no or among examples one of which may be claimed, a
\* gap if it is a must, unless a row that the offer states came flagged from the
\* model itself, for then nothing is added; and a gap of the final table is
\* felt: the offer is not qualified for, nor its score 100.  What the merge of
\* examples takes out of the table is said by ExamplesAreAsGoodAsTheBest.  A
\* hundred musts, or their weight, are the limit: from there on Math.round may
\* lift the score to 100 (normalize.js, score.js).
THEOREM MissingIsTold == NormalizeSpec => [](Total(table) < 300 => GapsAreTold)
<1>1. TableInv /\ NeverInv => (Total(table) < 300 => GapsAreTold)
  <2> SUFFICES ASSUME TableInv, NeverInv, Total(table) < 300,
                      pass = "done", Gaps(table, NeverRows) # {}
               PROVE  Level(table, NeverRows) # "qualified" /\ ScoreOf(table) < 100
    BY DEF NeverInv, GapsAreTold, GapsAreFelt
  <2>1. \A j \in DOMAIN table : /\ j \in NeverRows => table[j].match = "no"
                                /\ table[j].judged => table[j].match # "yes"
    BY DEF TableInv, RowIsFinal, NeverRows
  <2>2. IsFiniteSet(DOMAIN table)
    BY DEF TableInv
  <2> QED BY <2>1, <2>2, FeltWhereMissed
<1> QED BY <1>1, TableInvHolds, NeverInvHolds, PTL

----------------------------------------------------------------------------
(* What is selected.                                                       *)

\* Each skill of the column has a place of its own, and of what meets a
\* requirement all is there that can be.
ColumnIsWhole ==
  /\ DOMAIN column \in SUBSET (KnownSkills \ OutSkills)
  /\ \A s \in DOMAIN column : column[s] \in Nat
  /\ \A s, t \in DOMAIN column : column[s] = column[t] => s = t
  /\ \A s \in MetSkills \ OutSkills : GroupOf[s] \notin Hidden => s \in DOMAIN column

\* MetIsShown, from the cut on.
MetHasItsPlace ==
  \A s \in MetSkills \ OutSkills : GroupOf[s] \notin Hidden =>
    \/ s \in InGroup(GroupOf[s])
    \/ InGroup(GroupOf[s]) # {} /\ InGroup(GroupOf[s]) \in SUBSET MetSkills
    \/ InGroup(GroupOf[s]) = {} /\ \A g \in ShownGroups : HoldsMet(g)

SelectionInv ==
  /\ answer \in Choosable
  /\ selecting \in {"places", "columns", "cut", "texts", "headline", "chosen"}
  /\ selecting # "places" => BulletsBelong
  /\ selecting = "cut" => ColumnIsWhole
  /\ selecting \in {"texts", "headline", "chosen"} => ColumnFits /\ MetHasItsPlace
  /\ TitlesTell

LEMMA PlaceStep == ASSUME SelectionInv, Place PROVE SelectionInv'
<1>1. /\ selecting' = "columns" /\ answer' = answer
      /\ places' = {p \in UNION {PlacesOf(choice) : choice \in Range(answer.choices)} : EarnsIt(p[1], p[2])}
  BY DEF Place, Passes
<1>2. ASSUME NEW p \in places'
      PROVE  /\ p[1] \in DOMAIN Experiences /\ p[2] \in BulletsOf(p[1])
             /\ Kind(p[1]) # "main" => Backs(AsAnalysis, p[2])
  <2>1. PICK choice : p \in PlacesOf(choice)
    BY <1>1
  <2>2. PICK b \in Bullets : p = <<ExperienceOf(b), b>>
    BY <2>1 DEF PlacesOf
  <2>3. EarnsIt(p[1], p[2])
    BY <1>1
  <2> QED BY <2>2, <2>3, BulletsArePlaced DEF EarnsIt
<1>3. BulletsBelong'
  <2>1. AsAnalysis' = AsAnalysis
    BY <1>1 DEF AsAnalysis
  <2> QED BY <1>2, <2>1 DEF BulletsBelong, Misplaced
<1> QED BY <1>1, <1>3 DEF SelectionInv, TitlesTell

LEMMA BulletsStay ==
  ASSUME BulletsBelong, answer' = answer, places' = places
  PROVE  BulletsBelong'
<1>1. AsAnalysis' = AsAnalysis
  BY DEF AsAnalysis
<1> QED BY <1>1 DEF BulletsBelong, Misplaced

LEMMA RanksAreTheirs ==
  ASSUME NEW list, list \in Seq(Range(list)), NEW x \in Range(list)
  PROVE  RankIn(list, x) \in 1..Len(list) /\ list[RankIn(list, x)] = x
<1> DEFINE N == {i \in DOMAIN list : list[i] = x}
<1>1. N \in SUBSET Nat /\ N # {} /\ DOMAIN list = 1..Len(list)
  <2>1. DOMAIN list = 1..Len(list) /\ Len(list) \in Nat
    OBVIOUS
  <2>2. \E i \in DOMAIN list : list[i] = x
    BY DEF Range
  <2> QED BY <2>1, <2>2
<1>2. RankIn(list, x) = Min(N)
  BY DEF RankIn
<1>3. Min(N) \in N
  <2> HIDE DEF N
  <2> QED BY <1>1, MinIsIn
<1> QED BY <1>1, <1>2, <1>3

LEMMA ColumnsStep == ASSUME SelectionInv, Columns PROVE SelectionInv'
<1> DEFINE list == answer.columns
           last == Len(list)
<1>1. /\ selecting = "columns" /\ selecting' = "cut" /\ answer' = answer /\ places' = places
  BY DEF Columns, Passes
<1>2. PICK added \in Injection(Added, last + 1 .. last + Cardinality(Added)) :
        column' = [s \in ListedSkills \cup Added |->
                     IF s \in ListedSkills THEN RankIn(list, s) ELSE added[s]]
  BY DEF Columns
<1>3. list \in Seq(Range(list)) /\ last \in Nat
  <2>1. list \in Seq(Range(list))
    BY SelectionAssumption DEF SelectionInv
  <2> QED BY <2>1
<1>4. ListedSkills \in SUBSET (Range(list) \cap (KnownSkills \ OutSkills))
  BY DEF ListedSkills
<1>5. Added \in SUBSET (KnownSkills \ OutSkills) /\ Added \cap ListedSkills = {}
  BY DEF Added, MetSkills
<1>6. /\ \A s \in ListedSkills : column'[s] \in 1..last /\ list[column'[s]] = s
      /\ \A s \in Added : column'[s] = added[s]
  <2>1. \A s \in ListedSkills : column'[s] = RankIn(list, s)
    BY <1>2
  <2> QED BY <1>2, <1>3, <1>4, <1>5, <2>1, RanksAreTheirs
<1>7. Cardinality(Added) \in Nat
  BY <1>5, SelectionAssumption, FS_Subset, FS_CardinalityType
<1> HIDE DEF last, list
<1>8. /\ \A s \in Added : added[s] \in Nat /\ added[s] > last
      /\ \A s, t \in Added : added[s] = added[t] => s = t
  BY <1>2, <1>3, <1>7 DEF Injection, IsInjective
<1>9. DOMAIN column' = ListedSkills \cup Added
  BY <1>2
<1>10. \A s \in DOMAIN column' : column'[s] \in Nat
  BY <1>3, <1>6, <1>8, <1>9
<1>11. \A s, t \in DOMAIN column' : column'[s] = column'[t] => s = t
  <2> SUFFICES ASSUME NEW s \in DOMAIN column', NEW t \in DOMAIN column', column'[s] = column'[t]
               PROVE  s = t
    OBVIOUS
  <2>1. CASE s \in ListedSkills /\ t \in ListedSkills
    BY <1>6, <2>1
  <2>2. CASE s \in Added /\ t \in Added
    BY <1>6, <1>8, <2>2
  <2>3. CASE s \in ListedSkills /\ t \in Added
    BY <1>3, <1>6, <1>8, <2>3
  <2>4. CASE s \in Added /\ t \in ListedSkills
    BY <1>3, <1>6, <1>8, <2>4
  <2> QED BY <1>9, <2>1, <2>2, <2>3, <2>4
<1>12. MetSkills' = MetSkills
  BY <1>1 DEF MetSkills
<1>13. \A s \in MetSkills \ OutSkills : GroupOf[s] \notin Hidden => s \in DOMAIN column'
  BY <1>9 DEF Added
<1>14. ColumnIsWhole'
  BY <1>4, <1>5, <1>9, <1>10, <1>11, <1>12, <1>13 DEF ColumnIsWhole
<1>15. BulletsBelong'
  BY <1>1, BulletsStay DEF SelectionInv
<1> QED BY <1>1, <1>14, <1>15 DEF SelectionInv, TitlesTell

\* The met skills of a group come first in it, and the groups that hold one
\* before all others.
LEMMA SkillsAreOrdered ==
  ASSUME ColumnIsWhole, NEW g
  PROVE  LET S == InGroup(g)
             R == {p \in S \X S : Ahead(p[1], p[2])}
         IN /\ IsFiniteSet(S) /\ IsOrder(R, S)
            /\ KeptSkills(g) = {s \in S : Cardinality(AheadOf(R, S, s)) < MaxGroupSkills}
<1> DEFINE S == InGroup(g)
           R == {p \in S \X S : Ahead(p[1], p[2])}
<1>1. S \in SUBSET DOMAIN column /\ IsFiniteSet(S)
  BY SelectionAssumption, FS_Subset DEF InGroup, ColumnIsWhole
<1>2. \A s, t \in S : <<s, t>> \in R <=> Ahead(s, t)
  OBVIOUS
<1>3. \A s \in S : column[s] \in Nat /\ \A t \in S : column[s] = column[t] => s = t
  BY <1>1 DEF ColumnIsWhole
<1> HIDE DEF R, S
<1>4. \A s \in S : ~ Ahead(s, s)
  BY <1>3 DEF Ahead
<1>5. \A s, t, u \in S : Ahead(s, t) /\ Ahead(t, u) => Ahead(s, u)
  BY <1>3 DEF Ahead
<1>6. \A s, t \in S : s # t => Ahead(s, t) \/ Ahead(t, s)
  BY <1>3 DEF Ahead
<1>7. IsOrder(R, S)
  BY <1>2, <1>4, <1>5, <1>6 DEF IsOrder
<1>8. \A s \in S : {t \in S : Ahead(t, s)} = AheadOf(R, S, s)
  BY <1>2 DEF AheadOf
<1>9. KeptSkills(g) = {s \in S : Cardinality(AheadOf(R, S, s)) < MaxGroupSkills}
  BY <1>8 DEF KeptSkills, S
<1> QED BY <1>1, <1>7, <1>9 DEF R, S

LEMMA GroupsHaveAPlace ==
  ASSUME ColumnIsWhole, NEW g \in ShownGroups
  PROVE  \E s \in InGroup(g) : PlaceOf(g) = column[s] /\ column[s] \in Nat
<1> DEFINE N == {column[s] : s \in InGroup(g)}
<1>1. N \in SUBSET Nat /\ N # {}
  BY DEF ColumnIsWhole, ShownGroups, InGroup
<1>2. PlaceOf(g) \in N
  <2> HIDE DEF N
  <2>1. Min(N) \in N
    BY <1>1, MinIsIn
  <2> QED BY <2>1 DEF N, PlaceOf
<1> QED BY <1>1, <1>2

LEMMA GroupsAreOrdered ==
  ASSUME ColumnIsWhole
  PROVE  LET R == {p \in ShownGroups \X ShownGroups : GroupAhead(p[1], p[2])} IN
         /\ IsFiniteSet(ShownGroups) /\ IsOrder(R, ShownGroups)
         /\ KeptGroups = {g \in ShownGroups : Cardinality(AheadOf(R, ShownGroups, g)) < MaxGroups}
<1> DEFINE S == ShownGroups
           R == {p \in S \X S : GroupAhead(p[1], p[2])}
<1>1. IsFiniteSet(S)
  <2> DEFINE all == {GroupOf[s] : s \in DOMAIN column}
             f == [s \in DOMAIN column |-> GroupOf[s]]
  <2>1. IsFiniteSet(DOMAIN column)
    BY SelectionAssumption, FS_Subset DEF ColumnIsWhole
  <2>2. f \in Surjection(DOMAIN column, all)
    BY DEF Surjection
  <2>3. IsFiniteSet(all)
    BY <2>1, <2>2, FS_Surjection
  <2>4. S \in SUBSET all
    BY DEF ShownGroups
  <2> QED BY <2>3, <2>4, FS_Subset
<1>2. \A g, h \in S : <<g, h>> \in R <=> GroupAhead(g, h)
  OBVIOUS
<1>3. \A g \in S : PlaceOf(g) \in Nat /\ \A h \in S : PlaceOf(g) = PlaceOf(h) => g = h
  BY GroupsHaveAPlace DEF ColumnIsWhole, InGroup
<1> HIDE DEF R, S
<1>4. \A g \in S : ~ GroupAhead(g, g)
  BY <1>3 DEF GroupAhead
<1>5. \A g, h, k \in S : GroupAhead(g, h) /\ GroupAhead(h, k) => GroupAhead(g, k)
  BY <1>3 DEF GroupAhead
<1>6. \A g, h \in S : g # h => GroupAhead(g, h) \/ GroupAhead(h, g)
  BY <1>3 DEF GroupAhead
<1>7. IsOrder(R, S)
  BY <1>2, <1>4, <1>5, <1>6 DEF IsOrder
<1>8. \A g \in S : {h \in S : GroupAhead(h, g)} = AheadOf(R, S, g)
  BY <1>2 DEF AheadOf
<1>9. KeptGroups = {g \in S : Cardinality(AheadOf(R, S, g)) < MaxGroups}
  BY <1>8 DEF KeptGroups, S
<1> QED BY <1>1, <1>7, <1>9 DEF R, S

\* A group that holds a met skill keeps one, and no other skill in place of one.
LEMMA MetStay ==
  ASSUME ColumnIsWhole, NEW g
  PROVE  /\ HoldsMet(g) => KeptSkills(g) \cap MetSkills # {}
         /\ \A s \in InGroup(g) \cap MetSkills : s \notin KeptSkills(g) => KeptSkills(g) \in SUBSET MetSkills
<1> DEFINE Sooner(s) == {t \in InGroup(g) : Ahead(t, s)}
<1>1. /\ \A s \in InGroup(g) : IsFiniteSet(Sooner(s)) /\ Cardinality(Sooner(s)) \in Nat
      /\ IsFiniteSet(InGroup(g))
  <2>1. IsFiniteSet(InGroup(g))
    BY SkillsAreOrdered
  <2>2. \A s : Sooner(s) \in SUBSET InGroup(g)
    OBVIOUS
  <2> HIDE DEF Sooner
  <2> QED BY <2>1, <2>2, FS_Subset, FS_CardinalityType
<1>2. ASSUME HoldsMet(g) PROVE KeptSkills(g) \cap MetSkills # {}
  <2> DEFINE M == InGroup(g) \cap MetSkills
             N == {column[s] : s \in M}
  <2>1. \A s \in InGroup(g) : column[s] \in Nat
    BY DEF ColumnIsWhole, InGroup
  <2>2. N \in SUBSET Nat /\ N # {}
    BY <1>2, <2>1 DEF HoldsMet
  <2>3. PICK n \in N : \A k \in N : n <= k
    <3> HIDE DEF N
    <3> QED BY <2>2, LeastNumber
  <2>4. PICK s \in M : n = column[s]
    OBVIOUS
  <2>5. ASSUME NEW t \in Sooner(s) PROVE FALSE
    <3>1. t \in M /\ column[t] < column[s] /\ column[t] \in Nat /\ column[s] \in Nat
      BY <2>1 DEF Ahead
    <3>2. column[s] <= column[t]
      BY <2>3, <2>4, <3>1
    <3> QED BY <3>1, <3>2
  <2>6. Sooner(s) = {}
    BY <2>5
  <2>7. Cardinality(Sooner(s)) = 0
    BY <2>6, FS_EmptySet
  <2> HIDE DEF Sooner
  <2>8. Cardinality(Sooner(s)) < MaxGroupSkills
    BY <2>7, SelectionAssumption
  <2> USE DEF Sooner
  <2> QED BY <2>8 DEF KeptSkills
<1>3. ASSUME NEW s \in InGroup(g) \cap MetSkills, s \notin KeptSkills(g),
             NEW t \in KeptSkills(g), t \notin MetSkills
      PROVE  FALSE
  <2>1. t \in InGroup(g) /\ Cardinality(Sooner(t)) < MaxGroupSkills /\ ~ (Cardinality(Sooner(s)) < MaxGroupSkills)
    BY <1>3 DEF KeptSkills
  <2>2. Sooner(s) \in SUBSET Sooner(t)
    BY <1>3 DEF Ahead
  <2> HIDE DEF Sooner
  <2>3. Cardinality(Sooner(s)) <= Cardinality(Sooner(t))
    BY <1>1, <2>1, <2>2, FS_Subset
  <2> QED BY <1>1, <2>1, <2>3, SelectionAssumption
<1> QED BY <1>2, <1>3

\* No group that holds none is kept in place of one that does.
LEMMA MetGroupsStay ==
  ASSUME ColumnIsWhole, NEW g \in ShownGroups, HoldsMet(g), g \notin KeptGroups, NEW h \in KeptGroups
  PROVE  HoldsMet(h)
<1> DEFINE Sooner(k) == {j \in ShownGroups : GroupAhead(j, k)}
<1> SUFFICES ASSUME ~ HoldsMet(h) PROVE FALSE
  OBVIOUS
<1>1. h \in ShownGroups /\ Cardinality(Sooner(h)) < MaxGroups /\ ~ (Cardinality(Sooner(g)) < MaxGroups)
  BY DEF KeptGroups
<1>2. Sooner(g) \in SUBSET Sooner(h)
  BY DEF GroupAhead
<1>3. \A k : IsFiniteSet(Sooner(k)) /\ Cardinality(Sooner(k)) \in Nat
  <2>1. IsFiniteSet(ShownGroups) /\ \A k : Sooner(k) \in SUBSET ShownGroups
    BY GroupsAreOrdered
  <2> HIDE DEF Sooner
  <2> QED BY <2>1, FS_Subset, FS_CardinalityType
<1> HIDE DEF Sooner
<1>4. Cardinality(Sooner(g)) <= Cardinality(Sooner(h))
  BY <1>2, <1>3, FS_Subset
<1> QED BY <1>1, <1>3, <1>4, SelectionAssumption

LEMMA CutStep == ASSUME SelectionInv, Cut PROVE SelectionInv'
<1> DEFINE kept == {s \in DOMAIN column : \/ GroupOf[s] \in Hidden
                                          \/ GroupOf[s] \in KeptGroups /\ s \in KeptSkills(GroupOf[s])}
<1>1. /\ selecting = "cut" /\ selecting' = "texts" /\ answer' = answer /\ places' = places
      /\ DOMAIN column' = kept
  BY DEF Cut, Passes, Restrict
<1>2. ColumnIsWhole
  BY <1>1 DEF SelectionInv
<1>3. MetSkills' = MetSkills
  BY <1>1 DEF MetSkills
<1>4. KeptGroups \in SUBSET ShownGroups /\ ShownGroups \cap Hidden = {}
  BY DEF KeptGroups, ShownGroups
<1>5. /\ \A g \in KeptGroups : InGroup(g)' = KeptSkills(g)
      /\ \A g \in ShownGroups \ KeptGroups : InGroup(g)' = {}
  <2>1. \A g : KeptSkills(g) \in SUBSET InGroup(g)
    BY DEF KeptSkills
  <2> QED BY <1>1, <1>4, <2>1 DEF InGroup
<1>6. ShownGroups' \in SUBSET KeptGroups
  BY <1>1 DEF ShownGroups
<1>7. ColumnFits'
  <2>1. Cardinality(ShownGroups') <= MaxGroups
    <3>1. IsFiniteSet(KeptGroups) /\ Cardinality(KeptGroups) <= MaxGroups
      <4> DEFINE R == {p \in ShownGroups \X ShownGroups : GroupAhead(p[1], p[2])}
      <4>1. /\ IsFiniteSet(ShownGroups) /\ IsOrder(R, ShownGroups)
            /\ KeptGroups = {g \in ShownGroups : Cardinality(AheadOf(R, ShownGroups, g)) < MaxGroups}
        BY <1>2, GroupsAreOrdered
      <4>2. MaxGroups \in Nat
        BY SelectionAssumption
      <4> HIDE DEF R
      <4> QED BY <4>1, <4>2, FewComeFirst
    <3>2. Cardinality(ShownGroups') <= Cardinality(KeptGroups) /\ Cardinality(ShownGroups') \in Nat
      BY <1>6, <3>1, FS_Subset, FS_CardinalityType
    <3>3. Cardinality(KeptGroups) \in Nat
      BY <3>1, FS_CardinalityType
    <3> QED BY <3>1, <3>2, <3>3, SelectionAssumption
  <2>2. ASSUME NEW g \in KeptGroups PROVE Cardinality(KeptSkills(g)) <= MaxGroupSkills
    <3> DEFINE S == InGroup(g)
               R == {p \in S \X S : Ahead(p[1], p[2])}
    <3>1. /\ IsFiniteSet(S) /\ IsOrder(R, S)
          /\ KeptSkills(g) = {s \in S : Cardinality(AheadOf(R, S, s)) < MaxGroupSkills}
      BY <1>2, SkillsAreOrdered
    <3>2. MaxGroupSkills \in Nat
      BY SelectionAssumption
    <3> HIDE DEF R, S
    <3> QED BY <3>1, <3>2, FewComeFirst
  <2>3. DOMAIN column' \cap OutSkills = {}
    BY <1>1, <1>2 DEF ColumnIsWhole
  <2> QED BY <1>5, <1>6, <2>1, <2>2, <2>3 DEF ColumnFits
<1>8. MetHasItsPlace'
  <2> SUFFICES ASSUME NEW s \in MetSkills \ OutSkills, GroupOf[s] \notin Hidden
               PROVE  LET g == GroupOf[s] IN
                      \/ s \in InGroup(g)'
                      \/ InGroup(g)' # {} /\ InGroup(g)' \in SUBSET MetSkills
                      \/ InGroup(g)' = {} /\ \A h \in ShownGroups' : HoldsMet(h)'
    BY <1>3 DEF MetHasItsPlace
  <2> DEFINE g == GroupOf[s]
  <2>1. s \in InGroup(g) /\ g \in ShownGroups /\ HoldsMet(g)
    BY <1>2 DEF ColumnIsWhole, InGroup, ShownGroups, HoldsMet
  <2> HIDE DEF g
  <2>2. CASE g \in KeptGroups
    <3>1. InGroup(g)' = KeptSkills(g) /\ KeptSkills(g) # {}
      BY <1>2, <1>5, <2>1, <2>2, MetStay
    <3>2. s \in KeptSkills(g) \/ KeptSkills(g) \in SUBSET MetSkills
      BY <1>2, <2>1, MetStay
    <3> QED BY <3>1, <3>2 DEF g
  <2>3. CASE g \notin KeptGroups
    <3>1. InGroup(g)' = {}
      BY <1>5, <2>1, <2>3
    <3>2. ASSUME NEW h \in ShownGroups' PROVE HoldsMet(h)'
      <4>1. h \in KeptGroups /\ HoldsMet(h)
        BY <1>2, <1>6, <2>1, <2>3, MetGroupsStay
      <4>2. InGroup(h)' = KeptSkills(h) /\ KeptSkills(h) \cap MetSkills # {}
        BY <1>2, <1>5, <4>1, MetStay
      <4> QED BY <1>3, <4>2 DEF HoldsMet
    <3> QED BY <3>1, <3>2 DEF g
  <2> QED BY <2>2, <2>3
<1>9. BulletsBelong'
  BY <1>1, BulletsStay DEF SelectionInv
<1> QED BY <1>1, <1>7, <1>8, <1>9 DEF SelectionInv, TitlesTell

\* What is said of the column lasts as long as the column and the answer.
LEMMA ColumnStays ==
  ASSUME ColumnFits, MetHasItsPlace, answer' = answer, column' = column
  PROVE  ColumnFits' /\ MetHasItsPlace'
<1>1. /\ MetSkills' = MetSkills /\ ShownGroups' = ShownGroups
      /\ \A g : InGroup(g)' = InGroup(g) /\ (HoldsMet(g)' <=> HoldsMet(g))
  BY DEF MetSkills, ShownGroups, InGroup, HoldsMet
<1> QED BY <1>1 DEF ColumnFits, MetHasItsPlace

LEMMA SummariseStep == ASSUME SelectionInv, Summarise PROVE SelectionInv'
<1>1. /\ selecting = "texts" /\ selecting' = "headline" /\ answer' = answer /\ places' = places
      /\ column' = column
  BY DEF Summarise, Passes
<1> QED BY <1>1, BulletsStay, ColumnStays DEF SelectionInv, TitlesTell

LEMMA HeadlineStep == ASSUME SelectionInv, SetHeadline PROVE SelectionInv'
<1>1. /\ selecting = "headline" /\ selecting' = "chosen" /\ answer' = answer /\ places' = places
      /\ column' = column /\ summary' = summary
      /\ \/ headline' = Chosen
         \/ PlaceIsFree /\ \E must : headline' = Leading \cup Naming(must)
  BY DEF SetHeadline, Passes
<1>2. Chosen' = Chosen /\ Untold' = Untold
  BY <1>1 DEF Chosen, TitleAhead, Untold, Told
<1>3. (UNION {Tells[t] : t \in Chosen}) \cap Untold \subseteq UNION {Tells[t] : t \in headline'}
  BY <1>1 DEF PlaceIsFree
<1> QED BY <1>1, <1>2, <1>3, BulletsStay, ColumnStays DEF SelectionInv, TitlesTell

LEMMA SelectionInvHolds == SelectionSpec => []SelectionInv
<1>1. SelectionInit => SelectionInv
  BY DEF SelectionInit, SelectionInv, TitlesTell
<1>2. SelectionInv /\ [SelectionNext]_selectionVars => SelectionInv'
  <2> SUFFICES ASSUME SelectionInv, [SelectionNext]_selectionVars PROVE SelectionInv'
    OBVIOUS
  <2>1. CASE UNCHANGED selectionVars
    <3>1. /\ selecting' = selecting /\ answer' = answer /\ places' = places /\ column' = column
          /\ summary' = summary /\ headline' = headline
      BY <2>1 DEF selectionVars
    <3>2. Chosen' = Chosen /\ Untold' = Untold /\ MetSkills' = MetSkills
      BY <3>1 DEF Chosen, TitleAhead, Untold, Told, MetSkills
    <3>3. ColumnIsWhole => ColumnIsWhole'
      BY <3>1, <3>2 DEF ColumnIsWhole
    <3> QED BY <3>1, <3>2, <3>3, BulletsStay, ColumnStays DEF SelectionInv, TitlesTell
  <2> QED BY <2>1, PlaceStep, ColumnsStep, CutStep, SummariseStep, HeadlineStep DEF SelectionNext
<1> QED BY <1>1, <1>2, PTL DEF SelectionSpec

\* Whatever the model chose, each bullet that is shown is under its own
\* experience, and one of no main mission backs a requirement; the skills column
\* has no group and no skill too many, and none the evidence rules out
\* (normalize.js, validateAnalysis).
THEOREM ChoicesAreValid == SelectionSpec => []SelectionIsValid
<1>1. SelectionInv => SelectionIsValid
  BY DEF SelectionInv, SelectionIsValid
<1> QED BY <1>1, SelectionInvHolds, PTL

\* A skill that meets a requirement never gives way to one that meets none, nor
\* its group to one that holds none; and a title the model chose that tells a
\* must which nothing else tells stays in the headline (normalize.js).
THEOREM WhatIsMetIsTold == SelectionSpec => []MetIsTold
<1>1. SelectionInv => MetIsTold
  BY DEF SelectionInv, MetIsTold, MetIsShown, MetHasItsPlace
<1> QED BY <1>1, SelectionInvHolds, PTL
=============================================================================
