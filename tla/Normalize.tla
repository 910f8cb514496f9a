----------------------------- MODULE Normalize -----------------------------
(***************************************************************************)
(* cv/src/normalize.js: the table of requirements, as the model answered   *)
(* it, made into one that the profile backs.  Every pass over the table is *)
(* an action.  What a requirement says is its words; its texts, the notes  *)
(* and the list of repairs are left out.  The selection of experiences and *)
(* the skills column, which come after, are in Selection.                  *)
(***************************************************************************)
EXTENDS Coverage, Importance, Evidence, Score

CONSTANTS Names,          \* the words of each requirement's name, part by part
          Never,          \* what the candidate never claims, a subset of them
          QualityWords, ConditionWords, CertificateWords, DegreeWords, LanguageWords,
          Languages,      \* the profile's: word, level, working
          Certificates,   \* the profile's lines: words, expired
          Schools,        \* the years of study of each school
          LevelAsked,     \* the level of a language a name asks for, if any
          YearsAsked,     \* the years of study a name asks for
          Offers,         \* the offers: their lines, and what they list together
          Answers,        \* the tables the model may return
          Evidences       \* what the sources may say of the skills

\* A row, as the model answers it: of the fields that are for the code to write,
\* all are deleted but `never'.
Row(n, importance, match, ids) ==
  [name |-> n, importance |-> importance, match |-> match, skills |-> ids,
   kind |-> "skill", judged |-> FALSE, never |-> FALSE, members |-> {}]

Flagged(row) == [row EXCEPT !.never = TRUE]

ASSUME NormalizeAssumption ==
         /\ Never \subseteq DOMAIN Names /\ \A e \in Never : UNION Range(Names[e]) # {}
         /\ \A n \in DOMAIN Names : Names[n] \in Seq(SUBSET UNION Range(Names[n])) /\ Names[n] # << >>
         /\ \A e \in Evidences : DOMAIN e = SkillIds
         /\ Lab = {s \in SkillIds : LevelOf(s) = "lab"}
         /\ \A t \in Answers :
              /\ DOMAIN t \subseteq Nat /\ IsFiniteSet(DOMAIN t)
              /\ \A i \in DOMAIN t :
                   /\ LET row == Row(t[i].name, t[i].importance, t[i].match, t[i].skills) IN
                      t[i] = row \/ t[i] = Flagged(row)
                   /\ t[i].name \in DOMAIN Names /\ t[i].match \in {"yes", "adjacent", "no"}

VARIABLES offer,     \* what is answered
          evidence,  \* the entries of every skill
          table,     \* the rows, each at a number: an order, with gaps
          keys,      \* what makes two rows one, once they are settled
          pass,      \* the pass that is next
          flagged    \* history: the model itself flagged a row that the offer states

tableVars == <<offer, evidence, table, keys, pass, flagged>>

WordsOf(n) == UNION Range(Names[n])

Kinds == {"skill", "quality", "condition", "language", "certification", "degree"}

\* Mutant: the evidence is not asked.
AllUsable == SkillIds

\* The skills of the profile the CV draws from (restrict of evidence.js).
Usable == SkillIds \ BlockedSkills(evidence)

\* isNever: a row of merged examples is so by its flag only.
IsNever(row, entries) ==
  row.never \/ (row.members = {} /\ \E e \in entries : Mentions(WordsOf(row.name), WordsOf(e)))

IsNeverClaimed(row) == IsNever(row, Never)

Strictness(match) == CASE match = "no" -> 0 [] match = "adjacent" -> 1 [] match = "yes" -> 2

----------------------------------------------------------------------------
(* What kind of thing is asked for.                                        *)

\* unbacked: nothing never claimed, and no skill, names it.
Unbacked(row) ==
  /\ ~ IsNever(row, Never)
  /\ \A s \in Usable : \A l \in Skills[s].names \cup Skills[s].terms : ~ Mentions(WordsOf(row.name), l)

IsQuality(row) ==
  /\ WordsOf(row.name) \cap QualityWords # {}
  /\ \A c \in Lookup(WordsOf(row.name)) : ~ Concepts[c].tech
  /\ Unbacked(row)

IsCondition(row) == WordsOf(row.name) \cap ConditionWords # {} /\ Unbacked(row)

SpokenIn(n) == {l \in Languages : l.word \in WordsOf(n)}

\* languageOf: it asks for languages, and for nothing else.
IsLanguage(n) ==
  SpokenIn(n) # {} /\ WordsOf(n) \subseteq LanguageWords \cup {l.word : l \in SpokenIn(n)}

LanguageMatch(n) ==
  LET asked == LevelAsked[n]
      working == \A l \in SpokenIn(n) : l.working
  IN CASE asked = {} -> IF working THEN "yes" ELSE "no"
       [] \A l \in SpokenIn(n) : \E a \in asked : l.level >= a -> "yes"
       [] OTHER -> IF working THEN "adjacent" ELSE "no"

IsCertification(n) == WordsOf(n) \cap CertificateWords # {}

\* certificationOf: the lines that name it, unless they have all expired.
CertificationMatch(n) ==
  LET asked == WordsOf(n) \ (CertificateWords \cup Ignored)
      lines == {c \in Certificates : c.words \cap asked # {}}
  IN IF lines = {} THEN "no" ELSE IF \A c \in lines : c.expired THEN "adjacent" ELSE "yes"

IsDegree(n) == WordsOf(n) \cap DegreeWords # {}

\* degreeOf: a school that reaches the lowest of the levels asked for.
DegreeMatch(n) ==
  LET needed == IF YearsAsked[n] = {} THEN 0 ELSE Min(YearsAsked[n]) IN
  IF \E s \in Schools : (s = {} /\ needed = 0) \/ (s # {} /\ Max(s) >= needed) THEN "yes" ELSE "no"

\* Mutant: the skills it was read through stay.
AnsweredThrough(row, kind, match) == [row EXCEPT !.kind = kind, !.match = match, !.judged = FALSE]

\* A row that lines of the profile answer, and no skill does.
Answered(row, kind, match) ==
  [row EXCEPT !.kind = kind, !.match = match, !.skills = {}, !.judged = FALSE]

----------------------------------------------------------------------------
(* One row.                                                                *)

Called(words, usable) == {s \in usable : words \in Skills[s].names}

\* byIdentity and partsNamed: the skills that the name, or each of its parts, is
\* a name of, in the order of the parts and each once; none when one part is not.
NamedParts(n, usable) ==
  IF Called(WordsOf(n), usable) # {} THEN <<Called(WordsOf(n), usable)>>
  ELSE IF \E p \in Range(Names[n]) : Called(p, usable) = {} THEN << >>
  ELSE FoldLeft(LAMBDA named, p : IF Called(p, usable) \in Range(named) THEN named
                                  ELSE Append(named, Called(p, usable)), << >>, Names[n])

NamedBy(n) == UNION Range(NamedParts(n, Usable))

ByName(row) ==
  IF NamedBy(row.name) = {} THEN row
  ELSE [row EXCEPT !.match = "yes", !.skills = NamedBy(row.name)]

NeverClaimed(row) ==
  IF IsNever(row, Never) THEN [row EXCEPT !.match = "no", !.skills = {}, !.never = TRUE] ELSE row

\* Unknown skills, and those the owner ruled unrelated, are dropped.
Known(row) ==
  [row EXCEPT !.skills = (@ \cap Usable) \ (IF row.never THEN {} ELSE Ruled(WordsOf(row.name), "no"))]

\* grounded: some word of the requirement is one of the skills' words.
Grounded(n, ids) ==
  LET wanted == WordsOf(n) \ Ignored IN
  wanted = {} \/ \E s \in ids : wanted \cap UNION (Skills[s].names \cup Skills[s].terms) # {}

IsMet(row) == row.match # "no" /\ row.skills # {} /\ ~ row.never

\* What the requirement's concepts hold of the picks, or a ruling does.
Held(row) ==
  IF ~ IsMet(row) THEN {}
  ELSE row.skills \cap (Members(WordsOf(row.name), Placed(Usable, FALSE))
                          \cup Ruled(WordsOf(row.name), "same"))

\* The other names of what was picked are taken in, and then the match is held
\* down to what the profile says of it.
Judged(row) ==
  LET words == WordsOf(row.name)
      all == IF IsMet(row) THEN row.skills \cup Alike(words, Placed(Usable, FALSE), row.skills)
                           ELSE row.skills
      loose == row.match # "no" /\ all # {} /\ Held(row) = {} /\ ~ Grounded(row.name, all)
      near == all # {} /\ ~ row.never /\ all \subseteq Ruled(words, "near")
  IN [row EXCEPT !.skills = all, !.judged = loose,
                 !.match = IF @ = "yes" /\ (loose \/ near) THEN "adjacent" ELSE @]

\* A match and its skills go together.
Consistent(row) ==
  IF row.skills = {} THEN [row EXCEPT !.match = "no"]
  ELSE IF row.match = "no" THEN [row EXCEPT !.skills = {}] ELSE row

\* The first kind that applies answers it.
OfItsKind(row) ==
  IF IsQuality(row) THEN Answered(row, "quality", "yes")
  ELSE IF row.match = "no" /\ IsCondition(row) THEN Answered(row, "condition", "no")
  ELSE IF row.never THEN row
  ELSE IF IsLanguage(row.name) THEN Answered(row, "language", LanguageMatch(row.name))
  ELSE IF IsCertification(row.name) THEN Answered(row, "certification", CertificationMatch(row.name))
  ELSE IF IsDegree(row.name) THEN Answered(row, "degree", DegreeMatch(row.name))
  ELSE row

\* A yes through skills that are not well held gives way to a better one.
RankOfMatch(match, judged, ids) ==
  2 * Strictness(match)
    - (IF judged \/ (match = "yes" /\ ids # {} /\ AtLevel(ids, Strong) = {}) THEN 1 ELSE 0)

\* The profile's own answer only ever raises the verdict.
Covered(row) ==
  LET found == Coverage(WordsOf(row.name), Usable) IN
  IF /\ ~ row.never /\ row.kind = "skill"
     /\ RankOfMatch(found.match, found.judged, found.skills) > RankOfMatch(row.match, row.judged, row.skills)
    THEN [row EXCEPT !.match = found.match, !.skills = found.skills, !.judged = found.judged]
    ELSE row

Settled(row) == Covered(OfItsKind(Consistent(Judged(Known(NeverClaimed(ByName(row)))))))

\* What the row is a repetition of: parts in another order are another row.
KeyOf(row) ==
  LET named == NamedParts(row.name, Usable) IN
  IF IsNever(row, Never) THEN <<"never", row.name>>
  ELSE IF named # << >> THEN <<"skill", named>> ELSE <<"name", row.name>>

----------------------------------------------------------------------------
(* The passes.                                                             *)

NormalizeInit ==
  /\ offer \in Offers /\ evidence \in Evidences /\ table \in Answers
  /\ keys = << >> /\ pass = "read" /\ flagged = FALSE

Goes(from, to) == pass = from /\ pass' = to /\ UNCHANGED <<offer, evidence>>

\* The ids are read, an importance that is none is a must, and the skills that
\* the evidence rules out are dropped.
Read ==
  /\ Goes("read", "state") /\ UNCHANGED <<keys, flagged>>
  /\ table' = [i \in DOMAIN table |->
                 [table[i] EXCEPT !.importance = IF @ = "nice" THEN @ ELSE "must",
                                  !.skills = @ \ BlockedSkills(evidence)]]

NeverNamed == Never \cap NamesIn(offer.lines)

\* What is never claimed, and the offer names, has a row.
Unlisted(rows) == {e \in NeverNamed : \A row \in rows : ~ IsNever(row, {e})}

NeverRow(e) == [Row(e, "must", "no", {}) EXCEPT !.never = TRUE]

Cued(row) ==
  LET said == ImportanceIn(offer.lines, row.name) IN
  IF said = Silence THEN row ELSE [row EXCEPT !.importance = said]

\* Only what the offer states, and where the offer gives a cue it decides.  Of
\* what is unlisted the first is added, in the profile's order, which is any
\* here: its flag then says that every other one has a row.  So does a flag of
\* the model's own, and then nothing is added.
State ==
  LET stated == {i \in DOMAIN table : table[i].name \in NamesIn(offer.lines)}
      unlisted == Unlisted({table[i] : i \in stated})
      last == Max({0} \cup stated)
  IN /\ Goes("state", "settle") /\ UNCHANGED keys
     /\ flagged' = \E i \in stated : table[i].never
     /\ \/ /\ unlisted = {}
           /\ table' = [i \in stated |-> Cued(table[i])]
        \/ \E e \in unlisted :
             table' = [i \in stated \cup {last + 1} |->
                         Cued(IF i \in stated THEN table[i] ELSE NeverRow(e))]

Settle ==
  /\ Goes("settle", "repeats") /\ UNCHANGED flagged
  /\ table' = [i \in DOMAIN table |-> Settled(table[i])]
  /\ keys' = [i \in DOMAIN table |-> KeyOf(table[i])]

Most(rows) == IF \E r \in rows : r.importance = "must" THEN "must" ELSE "nice"

\* Of the rows of one key, the first of the strictest.
Strictest(indices) ==
  table[Min({i \in indices :
               \A j \in indices : Strictness(table[i].match) <= Strictness(table[j].match)})]

\* Mutant: the importance is that of the row that is kept.
OneRowAsItIs(indices) == Strictest(indices)

OneRow(indices) ==
  [Strictest(indices) EXCEPT !.importance = Most({table[i] : i \in indices})]

\* One row for each requirement, in the place of its first.
Repeats ==
  LET alike(i) == {j \in DOMAIN table : keys[j] = keys[i]} IN
  /\ Goes("repeats", "examples") /\ UNCHANGED flagged
  /\ table' = [i \in {i \in DOMAIN table : i = Min(alike(i))} |-> OneRow(alike(i))]
  /\ keys' = << >>

\* The rows that an enumeration of the offer lists together.
Listed(i, list) ==
  /\ table[i].name \in list
  /\ table[i].kind \notin {"quality", "certification"} /\ ~ IsLanguage(table[i].name)

\* No enumeration has rows in the set and rows outside it.
Whole(indices) ==
  \A l \in offer.lists : LET named == {j \in DOMAIN table : Listed(j, l)} IN
    named \cap indices # {} => named \subseteq indices

\* Enumerations that share a row are united.
Together(i) ==
  {j \in DOMAIN table : \A is \in SUBSET DOMAIN table : i \in is /\ Whole(is) => j \in is}

\* Mutant: the lab is as good as client experience.
StrengthAnywhere(row) == 2 * Strictness(row.match)

\* Client experience before lab, at the same match.
Strength(row) ==
  2 * Strictness(row.match)
    + (IF row.skills # {} /\ row.skills \subseteq Lab THEN 0 ELSE 1)

BestOf(indices) ==
  table[Min({i \in indices : \A j \in indices : Strength(table[j]) <= Strength(table[i])})]

\* mergeExamples: met as its best example is.  Only what is written here is in
\* the new row: the kind of its examples is lost, and that one was judged.
Merged(indices) ==
  LET best == BestOf(indices)
      rows == {table[i] : i \in indices}
  IN IF Cardinality(indices) = 1 THEN table[Min(indices)]
     ELSE [Row(table[Min(indices)].name, Most(rows), best.match, best.skills)
             EXCEPT !.members = {r.name : r \in rows},
                    !.never = \A r \in rows : r.never]

Examples ==
  /\ Goes("examples", "done") /\ UNCHANGED <<keys, flagged>>
  /\ table' = [i \in {i \in DOMAIN table : i = Min(Together(i))} |-> Merged(Together(i))]

NormalizeNext == Read \/ State \/ Settle \/ Repeats \/ Examples

NormalizeSpec == NormalizeInit /\ [][NormalizeNext]_tableVars

----------------------------------------------------------------------------
(* What must hold of the table that is scored and shown.                   *)

Final(i) == pass = "done" /\ i \in DOMAIN table

\* The names that a row stands for.
NamesOf(row) == IF row.members = {} THEN {row.name} ELSE row.members

\* validateAnalysis: what is met names the skills that meet it, unless lines of
\* the profile answer it; what is not names none.
RowIsValid(row) ==
  /\ row.match \in {"yes", "adjacent", "no"} /\ row.skills \subseteq SkillIds
  /\ (row.skills # {}) <=> (row.match # "no" /\ row.kind \notin Kinds \ {"skill", "condition"})

\* The repaired table is one that the validation accepts: an honest answer is
\* not refused for what the repairs made of it.  A degree that the offer lists
\* among examples is the exception, as the new row does not say its kind.
TableIsValid ==
  \A i \in DOMAIN table : Final(i) =>
    \/ RowIsValid(table[i])
    \/ \E n \in table[i].members : IsDegree(n)

\* However often the passes take skills in (a name, another name of a pick,
\* what the concepts hold), none that the evidence rules out is relied upon.
EvidenceRules ==
  \A i \in DOMAIN table : Final(i) =>
    \A s \in table[i].skills : Verdict(evidence[s]) \in Showable

\* Full credit is given only where some word, concept or ruling of the profile
\* says so, never on the model's reading alone.
YesIsNamed ==
  \A i \in DOMAIN table : Final(i) /\ table[i].match = "yes" /\ table[i].kind = "skill" =>
    \E n \in NamesOf(table[i]) :
      \/ IsDegree(n)
      \/ Grounded(n, table[i].skills)
      \/ table[i].skills \cap (Members(WordsOf(n), Placed(Usable, FALSE))
                                 \cup Ruled(WordsOf(n), "same")) # {}

\* Both: nothing is claimed that the profile and its evidence do not back.
ClaimsAreBacked == EvidenceRules /\ YesIsNamed

NeverRows == {i \in DOMAIN table : IsNeverClaimed(table[i])}

\* What is never claimed is on the table: it is a gap of the qualification if it
\* is a must, unless the offer lists it among examples one of which may be
\* claimed.
IsSaid(e) ==
  \E i \in DOMAIN table :
    LET row == table[i]
        claims(n) == ~ Mentions(WordsOf(n), WordsOf(e))
    IN /\ \E n \in NamesOf(row) : ~ claims(n)
       /\ \/ row.match = "no" /\ (row.importance = "must" => i \in Gaps(table, NeverRows))
          \/ \E n \in NamesOf(row) : claims(n)

\* "What the candidate never claims counts when the offer names it, even if
\* the model left it out of the table": all of it.
NeverClaimedIsSaid == pass = "done" => \A e \in NeverNamed : IsSaid(e)

\* What does hold: some of it, where the model flagged no row itself.
NeverClaimedIsFelt ==
  pass = "done" /\ ~ flagged /\ NeverNamed # {} => \E e \in NeverNamed : IsSaid(e)

\* The score and the qualification agree: with a gap among the musts, met in the
\* lab only or to verify, the offer is neither qualified for nor met in full.
GapsAreFelt ==
  pass = "done" /\ Gaps(table, NeverRows) # {} =>
    /\ Level(table, NeverRows) # "qualified"
    /\ ScoreOf(table) < 100

\* Both: what the final table misses is said, and felt in what is said of the
\* offer.  What the merge takes out of the table is for ExamplesCountAsOne.
GapsAreTold == NeverClaimedIsFelt /\ GapsAreFelt

IsGapRow(row) == IsGap(row, IsNeverClaimed(row))

\* Examples that the offer lists together count as one, as good as the best: the
\* new row is a gap when each of them is claimed by nothing or in the lab only,
\* and none when one of them is met in full by client experience.
CountsAsOne(j) ==
  /\ (\A i \in Together(j) : table[i].match = "no" \/ LabOnly(table[i])) => IsGapRow(table'[j])
  /\ (\E i \in Together(j) : table[i].match = "yes" /\ ~ LabOnly(table[i])) =>
       ~ IsGapRow(table'[j])

ExamplesCountAsOne == [][pass = "examples" => \A j \in DOMAIN table' : CountsAsOne(j)]_tableVars

\* "flagged to verify, and still a gap of the qualification": a must that is
\* to verify is one also where the offer lists it with others that are.
ToVerifyStaysAGap ==
  [][pass = "examples" => \A j \in DOMAIN table' :
       /\ \A i \in Together(j) : table[i].judged
       /\ Together(j) \cap Gaps(table, NeverRows) # {}
       => j \in Gaps(table, NeverRows)']_tableVars

\* The row j of the next table stands for the row i of this one.
StandsFor(j, i) == \/ table[i].name \in NamesOf(table'[j])
                   \/ KeyOf(table'[j]) = KeyOf(table[i])

\* Its importance is no lower; nor, but for what the profile makes of the row
\* and for examples that count as one, is its match any better.
IsAsStrict(j, i) ==
  /\ table[i].importance = "must" => table'[j].importance = "must"
  /\ pass # "settle" /\ table'[j].members = {} =>
       Strictness(table'[j].match) <= Strictness(table[i].match)

KeepsTheMusts ==
  \A i \in DOMAIN table : \E j \in DOMAIN table' : StandsFor(j, i) /\ IsAsStrict(j, i)

\* Once the offer has been asked, no row is lost and none is softened: the row
\* that stands for it in the end, whichever rows it became one with, is a must if
\* it was one, and as strict as the strictest of its repetitions.
MustsAreKept == [][pass # "read" /\ pass # "state" => KeepsTheMusts]_tableVars

\* "no" takes a skill out: no row rests on a skill that the owner ruled
\* unrelated to its words.
RulingsHold ==
  \A i \in DOMAIN table : Final(i) /\ table[i].members = {} =>
    table[i].skills \cap Ruled(WordsOf(table[i].name), "no") = {}
=============================================================================
