------------------------------- MODULE CvModel -------------------------------
(***************************************************************************)
(* cv/src/tailor.js: which bullets of the profile a CV shows, for a given  *)
(* analysis.  A bullet belongs to one experience and names the skills it   *)
(* shows; the analysis has the model's picks in their order, and for each  *)
(* requirement of the offer the skills that meet it.  What the texts say   *)
(* is left out.  A list of ranked bullets is the set of them, as its order *)
(* is always that of Earlier.                                              *)
(***************************************************************************)
EXTENDS Naturals, FiniteSets, SequencesExt

CONSTANTS Experiences,   \* profile.experiences: main missions, short ones, R&D
          Reference,     \* the index of the reference one, a main mission
          SkillsOf,      \* the skills of each bullet
          GroupOf        \* the group of each skill

BulletsOf(e) == Range(Experiences[e].bullets)

Kind(e) == Experiences[e].kind

Bullets == UNION {BulletsOf(e) : e \in DOMAIN Experiences}

ASSUME CvAssumption ==
         /\ DOMAIN Experiences \subseteq Nat /\ IsFiniteSet(DOMAIN Experiences)
         /\ Reference \in DOMAIN Experiences /\ Kind(Reference) = "main"
         /\ \A e \in DOMAIN Experiences :
              /\ Kind(e) \in {"main", "short", "rnd"}
              /\ Experiences[e].bullets \in Seq(BulletsOf(e)) /\ Experiences[e].bullets # << >>
              /\ \A f \in DOMAIN Experiences : e # f => BulletsOf(e) \cap BulletsOf(f) = {}
         /\ DOMAIN SkillsOf = Bullets /\ \A b \in Bullets : IsFiniteSet(SkillsOf[b])

ExperienceOf(b) == CHOOSE e \in DOMAIN Experiences : b \in BulletsOf(e)

PositionOf(b) == CHOOSE i \in DOMAIN Experiences[ExperienceOf(b)].bullets :
                   Experiences[ExperienceOf(b)].bullets[i] = b

----------------------------------------------------------------------------
(* rankBullets: an analysis a is a record of picks and requirements.       *)

\* matchedSkills
Matched(a) == UNION {r.skills : r \in {r \in a.requirements : r.match \in {"yes", "adjacent"}}}

PickOf(a, b) == CHOOSE i \in DOMAIN a.picks : a.picks[i] = b

Picked(a, b) == b \in Range(a.picks)

\* backsRequirement: by a skill, or, when it was picked, by a skill's group.
Backs(a, b) ==
  \/ SkillsOf[b] \cap Matched(a) # {}
  \/ /\ Picked(a, b)
     /\ {GroupOf[s] : s \in SkillsOf[b]} \cap {GroupOf[s] : s \in Matched(a)} # {}

\* A requirement that is met, and that no main mission shows.
Open(a) == {r \in a.requirements :
              /\ r.match # "no"
              /\ \A b \in Bullets : Kind(ExperienceOf(b)) = "main" => SkillsOf[b] \cap r.skills = {}}

Fills(a, b) == \E r \in Open(a) : SkillsOf[b] \cap r.skills # {}

\* Rule 3: what a short mission or an R&D project may show.
EarnsItsPlace(a, b) ==
  LET kind == Kind(ExperienceOf(b)) IN
  /\ kind # "main" => Backs(a, b)
  /\ kind = "short" => Picked(a, b) \/ Fills(a, b)

Relevance(a, b) == Cardinality(SkillsOf[b] \cap Matched(a))

Tier(a, b) == IF Picked(a, b) THEN 2 ELSE IF Relevance(a, b) > 0 THEN 1 ELSE 0

\* The order of the sort: each key decides where those before it are even.
Earlier(a, b, c) ==
  \/ Tier(a, b) > Tier(a, c)
  \/ /\ Tier(a, b) = Tier(a, c)
     /\ IF Tier(a, b) = 2 THEN PickOf(a, b) < PickOf(a, c)
        ELSE \/ Relevance(a, b) > Relevance(a, c)
             \/ /\ Relevance(a, b) = Relevance(a, c)
                /\ \/ ExperienceOf(b) < ExperienceOf(c)
                   \/ ExperienceOf(b) = ExperienceOf(c) /\ PositionOf(b) < PositionOf(c)

\* rankBullets: what is ranked, in the order of Earlier.
Ranked(a) == {b \in Bullets : EarnsItsPlace(a, b)}

\* Those the offer asks for, which are the first of the ranked ones.
Relevant(a) == {b \in Ranked(a) : Tier(a, b) > 0}

\* slice(0, k): the first k of some bullets, in that order.
First(a, bullets, k) ==
  {b \in bullets : Cardinality({c \in bullets : Earlier(a, c, b)}) < k}

----------------------------------------------------------------------------
(* buildModel: what the CV shows of a set of bullets.                      *)

\* A main mission is never empty.
ChosenOf(a, shown, e) ==
  LET ids == Ranked(a) \cap shown \cap BulletsOf(e) IN
  IF Kind(e) = "main" /\ ids = {} THEN {Experiences[e].bullets[1]} ELSE ids

\* Rule 4: no other experience shows more than the reference.
Printed(a, shown, e) ==
  IF e = Reference THEN ChosenOf(a, shown, e)
  ELSE First(a, ChosenOf(a, shown, e), Cardinality(ChosenOf(a, shown, Reference)))

\* The bullets of the whole CV.
OnTheCv(a, shown) == UNION {Printed(a, shown, e) : e \in DOMAIN Experiences}

----------------------------------------------------------------------------
(* pageData: the items of the browser's page.                              *)

Items(a, e) == Printed(a, Ranked(a), e)

\* What the docx shows with no bullet chosen.
Indispensable(a) == OnTheCv(a, {})
=============================================================================
