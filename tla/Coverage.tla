------------------------------ MODULE Coverage ------------------------------
(***************************************************************************)
(* cv/src/coverage.js: what the whole profile holds for a requirement.  An *)
(* answer says which skills meet it and how; it is Silent when the profile *)
(* holds nothing.  It is only ever used to raise a verdict.                *)
(***************************************************************************)
EXTENDS Lexicon

CONSTANTS Ignored,    \* words a skill could not lack
          Practice,   \* words an expert covers
          Stated      \* the bullets: their words and their skills

Strong == {"expert", "proficient", "working"}
Deep == {"expert", "proficient"}
TooLow == {"notions"}

LevelOf(s) == Skills[s].level

AtLevel(ids, levels) == {s \in ids : LevelOf(s) \in levels}

Answer(match, ids, judged) == [match |-> match, skills |-> ids, judged |-> judged]

Silent == Answer("no", {}, FALSE)

\* said: how firmly the skill's own words say those that are asked for.
Said(words, s, deep) ==
  LET asked == words \ (IF deep THEN Practice ELSE {})
      says(labels) == {l \in labels : Mentions(asked, l)}
      half(labels) == {l \in labels : asked \subseteq l /\ 2 * Cardinality(asked) >= Cardinality(l)}
      names == {n \ Ignored : n \in Skills[s].names}
      terms == {t \ Ignored : t \in Skills[s].terms}
  IN IF asked = {} THEN 0
     ELSE IF \/ says(names) # {} /\ asked \subseteq UNION says(names \cup terms)
             \/ half(names) # {} THEN 3
     ELSE IF says(names) # {} THEN 2
     ELSE IF says(terms) \cup half(terms) # {} THEN 1 ELSE 0

\* vocabulary: the skills whose words say the most of it.
Vocabulary(phrase, ok, strong) ==
  LET words == phrase \ Ignored
      grade(s) == LET g == Said(words, s, s \in AtLevel(strong, Deep)) IN
                  IF g = 3 /\ s \notin strong THEN 2 ELSE g
      graded(g) == {s \in ok : LevelOf(s) \notin TooLow /\ grade(s) = g}
  IN IF words = {} THEN Silent
     ELSE IF graded(3) # {} THEN Answer("yes", graded(3), FALSE)
     ELSE IF graded(2) # {} THEN Answer("adjacent", graded(2), FALSE)
     ELSE IF graded(1) # {} THEN Answer("adjacent", graded(1), TRUE) ELSE Silent

Firmness(answer) == CASE answer.match = "yes" -> 4
                      [] answer.match = "adjacent" -> IF answer.judged THEN 1 ELSE 2
                      [] OTHER -> 0

Firmer(a, b) == IF Firmness(b) > Firmness(a) THEN b ELSE a

\* The skills that cover one part: those on the concept itself come first.
Covering(concepts, ids, named) ==
  LET own == {s \in ids : named[s] \cap concepts # {}} IN IF own = {} THEN ids ELSE own

\* Not the ones that are only notions, when there are better ones.
Best(ids) == IF AtLevel(ids, TooLow) = ids THEN ids ELSE ids \ AtLevel(ids, TooLow)

\* What the concepts say; same and near are the owner's rulings.
ByConcept(phrase, placed, named, ok, strong, same, near) ==
  LET parts == {Curated(Labels[l]) : l \in Spans(phrase)}
      holds(part, where) == Holders(part, where) \cap ok
      firm == (UNION {holds(p, named) : p \in parts}) \cup ((same \cup near) \cap ok)
      loose == firm = {}
      held == Best(IF loose THEN UNION {holds(p, placed) : p \in parts} ELSE firm)
      sure == same \cap strong
      covers(p) == Covering(p, holds(p, named) \cap strong, named) \cup sure
      met == IF parts = {} THEN sure # {} ELSE \A p \in parts : covers(p) # {}
      all == (UNION {covers(p) : p \in parts}) \cup sure
      extra == RestOf(phrase) \ (Ignored \cup (IF AtLevel(all, Deep) # {} THEN Practice ELSE {}))
  IN IF held = {} THEN Silent
     ELSE IF met /\ (extra = {} \/ sure # {}) THEN Answer("yes", all, FALSE)
     ELSE Answer("adjacent", held, loose)

\* What a bullet states, with the skills it shows.
ByExperience(phrase, ok) ==
  LET wanted == phrase \ (Ignored \cup Practice)
      shown(bullet) == {s \in bullet.skills \cap ok : LevelOf(s) \notin TooLow}
      states == {b \in Stated : wanted \subseteq b.words /\ shown(b) # {}}
  IN IF wanted = {} \/ states = {} THEN Silent
     ELSE Answer("adjacent", shown(CHOOSE b \in states : TRUE), TRUE)

\* coverage
Coverage(phrase, usable) ==
  LET placed == Placed(usable, TRUE)
      named == Placed(usable, FALSE)
      ok == usable \ Ruled(phrase, "no")
      strong == AtLevel(ok, Strong) \ Ruled(phrase, "near")
      concept == ByConcept(phrase, placed, named, ok, strong,
                           SameByWords(phrase) \cap ok, Ruled(phrase, "near"))
      words == Vocabulary(phrase, ok, strong)
      parts == UNION {Curated(Labels[l]) : l \in Spans(phrase)}
      kin == Siblings(parts, named) \cap strong
  IN IF concept.match = "yes" THEN concept
     ELSE IF concept # Silent THEN Firmer(concept, words)
     ELSE IF words # Silent THEN words
     ELSE IF kin # {} THEN Answer("adjacent", kin, TRUE)
     ELSE ByExperience(phrase, ok)
=============================================================================
