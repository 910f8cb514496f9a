----------------------------- MODULE Selection -----------------------------
(***************************************************************************)
(* cv/src/normalize.js, after the table: the experiences, the skills       *)
(* column, the summary and the headline that the CV shows, from what the   *)
(* model chose.  Its answer is a record: choices (of an id and bullets),   *)
(* columns (skills, in its order: the group that it lists one in is only   *)
(* told to the owner), facts and titles (ids, in order) and requirements   *)
(* (name, importance, match, skills).  In which order bullets are shown is *)
(* for the ranking to say (CvModel): an experience has a set of them.      *)
(***************************************************************************)
EXTENDS CvModel

CONSTANTS Hidden,         \* the groups that never show
          OutSkills,      \* the skills that the evidence rules out
          MaxGroups, MaxGroupSkills,
          FactKind,       \* hook, fact or note, of each fact
          StatesYears,    \* the facts that say how many years
          TitleIds,       \* the profile's titles, in order
          Tells,          \* the requirements that each text of the profile names
          AsksYears,      \* the requirements that ask for experience
          Choosable       \* what the model may choose

KnownSkills == DOMAIN GroupOf

ASSUME SelectionAssumption ==
         /\ IsFiniteSet(KnownSkills) /\ MaxGroups \in Nat /\ MaxGroupSkills \in Nat \ {0}
         /\ \A a \in Choosable : a.columns \in Seq(Range(a.columns))

VARIABLES answer,     \* what it chose
          selecting,  \* the pass that is next
          places,     \* each bullet that is shown, with its experience
          column,     \* the place of each skill of the column
          summary,    \* its facts
          headline    \* its titles

selectionVars == <<answer, selecting, places, column, summary, headline>>

SelectionInit ==
  /\ answer \in Choosable
  /\ selecting = "places" /\ places = {} /\ column = << >> /\ summary = {} /\ headline = {}

Passes(from, to) == selecting = from /\ selecting' = to /\ UNCHANGED answer

----------------------------------------------------------------------------
(* Every bullet goes under the experience that owns it.                    *)

\* Mutant: a bullet is left under the experience that it was chosen for.
PlacesAsGiven(choice) ==
  {p \in {choice.id} \X Range(choice.bullets) : p[1] \in DOMAIN Experiences /\ p[2] \in Bullets}

\* An id that is a bullet's counts as that bullet.
PlacesOf(choice) ==
  {<<ExperienceOf(b), b>> : b \in ({choice.id} \cup Range(choice.bullets)) \cap Bullets}

\* What backs a requirement is decided on the choices as they came.
AsAnalysis ==
  [picks |-> FlattenSeq([i \in DOMAIN answer.choices |-> answer.choices[i].bullets]),
   requirements |-> answer.requirements]

EarnsIt(e, b) == Kind(e) = "main" \/ Backs(AsAnalysis, b)

Place ==
  /\ Passes("places", "columns")
  /\ places' = {p \in UNION {PlacesOf(choice) : choice \in Range(answer.choices)} : EarnsIt(p[1], p[2])}
  /\ UNCHANGED <<column, summary, headline>>

----------------------------------------------------------------------------
(* The skills column: each skill in its own group.                         *)

RankIn(list, x) == Min({i \in DOMAIN list : list[i] = x})

MetSkills == (UNION {r.skills : r \in {r \in answer.requirements : r.match # "no"}}) \cap KnownSkills

ListedSkills == (Range(answer.columns) \cap KnownSkills) \ OutSkills

\* A skill that meets a requirement is in the column though it was not chosen; a
\* hidden group is never added to.
Added == {s \in MetSkills \ (ListedSkills \cup OutSkills) : GroupOf[s] \notin Hidden}

Columns ==
  LET last == Len(answer.columns) IN
  /\ Passes("columns", "cut")
  /\ \E added \in Injection(Added, last + 1 .. last + Cardinality(Added)) :
       column' = [s \in ListedSkills \cup Added |->
                    IF s \in ListedSkills THEN RankIn(answer.columns, s) ELSE added[s]]
  /\ UNCHANGED <<places, summary, headline>>

InGroup(g) == {s \in DOMAIN column : GroupOf[s] = g}

HoldsMet(g) == InGroup(g) \cap MetSkills # {}

ShownGroups == {GroupOf[s] : s \in DOMAIN column} \ Hidden

\* Mutant: the order is the model's.
AsListed(s, t) == column[s] < column[t]

\* The order in a group: the met ones first.
Ahead(s, t) ==
  \/ s \in MetSkills /\ t \notin MetSkills
  \/ (s \in MetSkills <=> t \in MetSkills) /\ column[s] < column[t]

\* The order of the groups, each where its first skill is: those that hold a met
\* skill first.
PlaceOf(g) == Min({column[s] : s \in InGroup(g)})

GroupAhead(g, h) ==
  \/ HoldsMet(g) /\ ~ HoldsMet(h)
  \/ (HoldsMet(g) <=> HoldsMet(h)) /\ PlaceOf(g) < PlaceOf(h)

KeptGroups == {g \in ShownGroups : Cardinality({h \in ShownGroups : GroupAhead(h, g)}) < MaxGroups}

KeptSkills(g) == {s \in InGroup(g) : Cardinality({t \in InGroup(g) : Ahead(t, s)}) < MaxGroupSkills}

\* At most MaxGroups shown, at most MaxGroupSkills in each; hidden groups are as
\* long as they are.
Cut ==
  /\ Passes("cut", "texts")
  /\ column' = Restrict(column, {s \in DOMAIN column : \/ GroupOf[s] \in Hidden
                                                       \/ /\ GroupOf[s] \in KeptGroups
                                                          /\ s \in KeptSkills(GroupOf[s])})
  /\ UNCHANGED <<places, summary, headline>>

----------------------------------------------------------------------------
(* The summary and the headline, from the profile's own texts.             *)

\* The first fact of a kind, if there is one.
FirstOf(kind) ==
  LET known == {f \in Range(answer.facts) \cap DOMAIN FactKind : FactKind[f] = kind} IN
  {f \in known : \A g \in known : RankIn(answer.facts, f) <= RankIn(answer.facts, g)}

Seasoned == \E r \in answer.requirements :
              r.importance = "must" /\ r.match # "no" /\ r.name \in AsksYears

YearFacts == {f \in StatesYears : FactKind[f] = "fact"}

\* The fact beside the hook, or the one that states the years where a met must
\* asks for them and the hook does not.
Support(hook) ==
  IF Seasoned /\ YearFacts # {} /\ hook \cap StatesYears = {}
    THEN {CHOOSE f \in YearFacts : TRUE} ELSE FirstOf("fact")

Summarise ==
  LET hook == FirstOf("hook") IN
  /\ Passes("texts", "headline")
  /\ summary' = IF hook = {} THEN {} ELSE hook \cup Support(hook)
  /\ UNCHANGED <<places, column, headline>>

\* What the rest of the CV names.
Told ==
  UNION {Tells[t] : t \in summary \cup {p[2] : p \in places}
                            \cup {s \in DOMAIN column : GroupOf[s] \notin Hidden}}

\* The musts met only through skills that never show, and that nothing names.
Untold == {r.name : r \in {r \in answer.requirements :
                             /\ r.importance = "must" /\ r.match # "no" /\ r.skills # {}
                             /\ \A s \in r.skills : GroupOf[s] \in Hidden}} \ Told

TitleAhead(t, u) == RankIn(answer.titles, t) < RankIn(answer.titles, u)

\* The first two, and of these the first.
Chosen ==
  LET known == Range(answer.titles) \cap Range(TitleIds) IN
  {t \in known : Cardinality({u \in known : TitleAhead(u, t)}) < 2}

Leading == {t \in Chosen : \A u \in Chosen : ~ TitleAhead(u, t)}

\* The second place may be taken when its title tells no such must.
PlaceIsFree == Chosen # {} /\ \A t \in Chosen \ Leading : Tells[t] \cap Untold = {}

\* The first title of the profile that names a must.
Naming(must) ==
  LET naming == {i \in DOMAIN TitleIds : must \in Tells[TitleIds[i]]} IN
  {TitleIds[i] : i \in {i \in naming : \A j \in naming : i <= j}}

SetHeadline ==
  LET unshown == Untold \ UNION {Tells[t] : t \in Chosen} IN
  /\ Passes("headline", "chosen")
  /\ \/ /\ unshown = {} /\ headline' = Chosen
     \/ \E must \in unshown :
          headline' = IF Naming(must) # {} /\ PlaceIsFree THEN Leading \cup Naming(must) ELSE Chosen
  /\ UNCHANGED <<places, column, summary>>

SelectionNext == Place \/ Columns \/ Cut \/ Summarise \/ SetHeadline

SelectionSpec == SelectionInit /\ [][SelectionNext]_selectionVars

----------------------------------------------------------------------------
(* What must hold.                                                         *)

\* A skill that meets a requirement is shown, unless what is shown in its place
\* meets one too: what was merely chosen never pushes it out.
MetIsShown ==
  selecting = "chosen" =>
    \A s \in MetSkills \ OutSkills : GroupOf[s] \notin Hidden =>
      LET group == InGroup(GroupOf[s]) IN
      \/ s \in group
      \/ group # {} /\ group \subseteq MetSkills
      \/ group = {} /\ \A g \in ShownGroups : HoldsMet(g)

\* A must that nothing else of the CV tells and that a title the model chose
\* does tell is told by the headline: no other must takes that title's place.
TitlesTell ==
  selecting = "chosen" =>
    (UNION {Tells[t] : t \in Chosen}) \cap Untold \subseteq UNION {Tells[t] : t \in headline}

\* Both: of what the offer asks for and the profile has, nothing is lost.
MetIsTold == MetIsShown /\ TitlesTell

\* validateAnalysis: a bullet that is not where it belongs.
Misplaced(chosen) == \E p \in chosen : p[1] \notin DOMAIN Experiences \/ p[2] \notin BulletsOf(p[1])

\* Wherever the model put a bullet, and whatever skills were added, the validation
\* refuses nothing of it: a bullet is in its own place, and one that is not of a
\* main mission is there for a requirement.
BulletsBelong ==
  /\ ~ Misplaced(places)
  /\ \A p \in places : Kind(p[1]) # "main" => Backs(AsAnalysis, p[2])

\* The column is no longer than the page allows, and nothing that was added to it
\* is what the evidence rules out.
ColumnFits ==
  /\ Cardinality(ShownGroups) <= MaxGroups
  /\ \A g \in ShownGroups : Cardinality(InGroup(g)) <= MaxGroupSkills
  /\ DOMAIN column \cap OutSkills = {}

\* Both: what is selected is valid.
SelectionIsValid == selecting = "chosen" => BulletsBelong /\ ColumnFits
=============================================================================
