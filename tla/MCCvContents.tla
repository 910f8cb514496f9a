---------------------------- MODULE MCCvContents ----------------------------
(***************************************************************************)
(* What a CV says and shows, in four parts, each on its own: the table of  *)
(* requirements, what is selected for it, the docx fitted to its pages and *)
(* the page filled in the browser.  The last three share one profile, with *)
(* two main missions, a short one and R&D.                                 *)
(***************************************************************************)
EXTENDS Normalize, Selection, FitToPage, A4Page

CONSTANTS a1, a2, a3, b1, b2, c1, d1,   \* the bullets
          unknown                       \* an id the profile does not have

----------------------------------------------------------------------------
(* The profile, and how long it is.                                        *)

TheExperiences ==
  << [kind |-> "main", bullets |-> <<a1, a2, a3>>], [kind |-> "main", bullets |-> <<b1, b2>>],
     [kind |-> "short", bullets |-> <<c1>>], [kind |-> "rnd", bullets |-> <<d1>>] >>

TheBullets == {a1, a2, a3, b1, b2, c1, d1}

TheSkillsOf ==
  [b \in TheBullets |->
     CASE b = a1 -> {"k8s"} [] b \in {a2, d1} -> {"go"} [] b = b2 -> {"k8s", "go"}
       [] b = c1 -> {"sql"} [] OTHER -> {}]

TheGroupOf ==
  [s \in {"k8s", "go", "sql", "ops", "soft"} |->
     CASE s = "sql" -> "data" [] s \in {"k8s", "go"} -> "dev" [] s = "ops" -> "run" [] OTHER -> "hidden"]

Heights == [b \in TheBullets |-> CASE b = b1 -> 7 [] b = a1 -> 4 [] OTHER -> 3]

Columns5 == <<12, 11, 9, 8, 7>>

Picks == {<< >>} \cup {<<b>> : b \in TheBullets}
           \cup {<<b, c>> : b \in TheBullets, c \in TheBullets}

Asked2 == {r \in SUBSET [match : {"yes", "no"}, skills : {{"k8s"}, {"sql"}, {"go"}}] :
             Cardinality(r) < 3}

TheAnalyses ==
  [picks : {p \in Picks : Len(p) = 2 => p[1] # p[2]}, requirements : Asked2]

----------------------------------------------------------------------------
(* What the model chooses: bullets under the wrong experience, ids that are *)
(* a bullet's or nobody's, skills twice or ruled out, too many of both.    *)

Asks(n, i, m, s) == [name |-> n, importance |-> i, match |-> m, skills |-> s]

TheRequirements ==
  {{}, {Asks("R1", "must", "yes", {"soft"})},
   {Asks("R2", "must", "adjacent", {"go"}), Asks("R1", "must", "yes", {"soft"})},
   {Asks("R3", "nice", "yes", {"sql"}), Asks("Y", "must", "yes", {"k8s"})},
   {Asks("R1", "must", "yes", {"soft"}), Asks("R4", "must", "yes", {"soft"})}}

Choose(id, bullets) == [id |-> id, bullets |-> bullets]

TheChoosable ==
  [choices : {<<Choose(1, <<a1, d1>>), Choose(4, <<d1, c1>>)>>,
              <<Choose(d1, <<c1, a2>>), Choose(3, <<unknown>>)>>,
              <<Choose(unknown, <<d1, b2>>)>>},
   columns : {<<"go", "sql", "soft", "ops">>, <<"ops", "k8s", "sql">>, << >>, <<"k8s", "go", "unknown", "k8s">>},
   facts : {<<"h1", "f1", "f2">>, <<"n1", "h2">>, <<"f1">>, <<"h2", "h1", "f1">>},
   titles : {<< >>, <<"t1">>, <<"t1", "t2">>, <<"t2", "t1">>, <<"t1", "t3", "t2">>, <<"t3", "unknown">>},
   requirements : TheRequirements]

TheFactKind ==
  [f \in {"h1", "h2", "f1", "f2", "n1"} |->
     CASE f \in {"h1", "h2"} -> "hook" [] f = "n1" -> "note" [] OTHER -> "fact"]

TheTitles == <<"t1", "t2", "t3">>

TheTells ==
  [t \in TheBullets \cup DOMAIN TheGroupOf \cup DOMAIN TheFactKind \cup {"t1", "t2", "t3"} |->
     CASE t \in {"t2", "h2"} -> {"R1"} [] t = "t3" -> {"R4"} [] OTHER -> {}]

----------------------------------------------------------------------------
(* The table: a profile of four skills, and offers that ask in other words. *)

Skill(names, terms, level, group) == [names |-> names, terms |-> terms, level |-> level, group |-> group]

TheSkills ==
  [ksh |-> Skill({{"ksh"}, {"korn"}}, {}, "proficient", "os"),
   bash |-> Skill({{"bash"}}, {}, "expert", "os"),
   docker |-> Skill({{"docker"}}, {{"image"}}, "lab", "cloud"),
   ci |-> Skill({{"gitops", "ci"}}, {{"pipeline"}}, "working", "cloud")]

TheLabels == [l \in {{"ksh"}, {"bash"}, {"shell"}, {"docker"}, {"container"}, {"puppet"}, {"terraform"}} |->
   CASE l \in {{"ksh"},{"bash"},{"shell"}} -> {"shell"} [] l = {"docker"} -> {"docker"} [] l = {"container"} -> {"containers"} [] l = {"puppet"} -> {"puppet"} [] OTHER -> {"terraform"}]

Concept(kind, broader) == [kind |-> kind, broader |-> broader, tech |-> TRUE]

TheConcepts == [shell |-> Concept("Category", {}), docker |-> Concept("Tool", {"containers"}), containers |-> Concept("Category", {"devops"}),
   puppet |-> Concept("Tool", {"iac"}), terraform |-> Concept("Tool", {"iac"}), iac |-> Concept("Category", {}), devops |-> Concept("Umbrella", {})]

TheLinks == {[words |-> {"shell"}, skill |-> "bash", verdict |-> "no"], [words |-> {"delivery"}, skill |-> "ci", verdict |-> "near"], [words |-> {"scripting"}, skill |-> "bash", verdict |-> "same"], [words |-> {"image"}, skill |-> "docker", verdict |-> "no"]}

TheNames ==
  [Shell |-> <<{"shell"}>>, Docker |-> <<{"docker"}>>, Ksh |-> <<{"ksh"}>>, Korn |-> <<{"korn"}>>, KshBash |-> <<{"ksh"}, {"bash"}>>, BashKsh |-> <<{"bash"}, {"ksh"}>>, Containers |-> <<{"container", "ops"}>>, Images |-> <<{"image"}>>,
   Kubernetes |-> <<{"kubernetes"}>>, Delivery |-> <<{"delivery"}>>, Cycles |-> <<{"cycle"}>>, English |-> <<{"english", "fluent"}>>,
   Teamwork |-> <<{"teamwork"}>>, Clearance |-> <<{"clearance"}>>, AwsCertified |-> <<{"certified", "aws"}>>, Masters |-> <<{"degree"}>>, Scripting |-> <<{"scripting", "ops"}>>]

Ns == DOMAIN TheNames

Clause(names, cue) == [names |-> names, cue |-> cue, certified |-> {}]

Line(kind, cue, sentences) == [kind |-> kind, cue |-> cue, sentences |-> sentences]

TheOffers ==
  {[lines |-> << Line("header", "must", << >>), Line("bullet", "none", <<<<Clause({"Shell", "Delivery"}, "none")>>>>),
                 Line("plain", "none", <<<<Clause({"Kubernetes", "Containers", "Cycles"}, "none"), Clause({"Images"}, "nice")>>>>),
                 Line("plain", "none", <<<<Clause(Ns, "none")>>>>) >>,
    lists |-> {{"Containers", "Kubernetes"}, {"Cycles", "Shell"}, {"KshBash", "Containers"}}],
   [lines |-> << Line("plain", "none", <<<<Clause({"Scripting", "Korn", "Cycles", "Images"}, "must"), Clause({"English"}, "none")>>, <<Clause({"Masters", "Delivery", "Clearance", "AwsCertified", "Teamwork", "Ksh"}, "nice")>>>>) >>,
    lists |-> {{"Scripting", "Delivery"}, {"Cycles", "Images"}}]}

Sk == {{}, {"ksh"}, {"docker"}, {"ci"}, {"ghost"}}

Rows == {Row(n, i, m, s) : n \in Ns, i \in {"must", "nice"}, m \in {"yes", "adjacent", "no"}, s \in Sk}

Rows2 == {r \in Rows : r.importance = "must" /\ (r.match = "no" <=> r.skills = {})}

\* Rows that the model flags itself, on what is never claimed and on what is.
ByModel == {Flagged(r) : r \in {r \in Rows2 : r.name \in {"Images", "Kubernetes", "KshBash", "Teamwork"} /\ r.match # "adjacent" /\ r.skills \in {{}, {"ksh"}}}}

TheAnswers == {<< >>} \cup {<<f>> : f \in ByModel} \cup {<<r, f>> : r \in Rows2, f \in ByModel}  \cup {<<r>> : r \in Rows} \cup {<<r, s>> : r \in Rows2, s \in {r \in Rows2 : r.match # "adjacent"}}

For(g) == [grade |-> g, stance |-> "for", source |-> "s"]

Against(g) == [grade |-> g, stance |-> "against", source |-> "t"]

TheEvidences == {[s \in {"ksh", "bash", "docker", "ci"} |-> {For("C")}], [s \in {"ksh", "bash", "docker", "ci"} |-> IF s = "bash" THEN {For("C"), Against("B")} ELSE IF s = "docker" THEN {} ELSE {For("B")}]}

L == {[word |-> "english", level |-> 3, working |-> TRUE]}

C == {[words |-> {"aws"}, expired |-> TRUE]}

LA == [n \in Ns |-> IF n = "English" THEN {3} ELSE {}]

YA == [n \in Ns |-> IF n = "Masters" THEN {5} ELSE {}]

----------------------------------------------------------------------------

VARIABLE part      \* the part that runs

\* The parts that do not run stay where they began, all alike.
NoTable ==
  /\ offer = CHOOSE o \in Offers : TRUE
  /\ evidence = CHOOSE e \in Evidences : TRUE
  /\ table = << >>
  /\ NormalizeInit

NoSelection == answer = (CHOOSE a \in Choosable : TRUE) /\ SelectionInit

NoDocx == analysis = (CHOOSE a \in Analyses : TRUE) /\ FitInit

NoSheet == asked = (CHOOSE a \in Tailored : TRUE) /\ SheetInit

TableInit == part = "table" /\ NoSelection /\ NoDocx /\ NoSheet /\ NormalizeInit

PartsInit ==
  \/ TableInit
  \/ part = "selection" /\ NoTable /\ NoDocx /\ NoSheet /\ SelectionInit
  \/ part = "docx" /\ NoTable /\ NoSelection /\ NoSheet /\ FitInit
  \/ part = "sheet" /\ NoTable /\ NoSelection /\ NoDocx /\ SheetInit

PartsNext ==
  \/ /\ part = "table" /\ NormalizeNext
     /\ UNCHANGED <<part, selectionVars, fitVars, sheetVars>>
  \/ /\ part = "selection" /\ SelectionNext
     /\ UNCHANGED <<part, tableVars, fitVars, sheetVars>>
  \/ /\ part = "docx" /\ FitNext
     /\ UNCHANGED <<part, tableVars, selectionVars, sheetVars>>
  \/ /\ part = "sheet" /\ SheetNext
     /\ UNCHANGED <<part, tableVars, selectionVars, fitVars>>

PartsSpec == PartsInit /\ [][PartsNext]_<<part, tableVars, selectionVars, fitVars, sheetVars>>

\* The table alone, for a property that does not hold of it.
TableSpec == TableInit /\ [][PartsNext]_<<part, tableVars, selectionVars, fitVars, sheetVars>>
=============================================================================
