------------------------------ MODULE Lexicon ------------------------------
(***************************************************************************)
(* cv/src/lexicon.js and cv/src/links.js: the concepts a phrase names, the *)
(* skills of the profile that are placed on them, and the rulings of the   *)
(* owner.  A phrase is the set of its words (folded and stemmed); a label  *)
(* is found in a phrase when all its words are, as mentions of text.js     *)
(* does word by word.                                                      *)
(***************************************************************************)
EXTENDS Naturals, FiniteSets, SequencesExt

CONSTANTS Skills,   \* the profile's: names, terms (sets of phrases), level, group
          Labels,   \* the concepts each label of the lexicon names
          Concepts, \* kind, broader (a set of concepts), tech of each concept
          Links     \* links.json: words, skill and verdict

SkillIds == DOMAIN Skills

Mentions(phrase, label) == label # {} /\ label \subseteq phrase

\* The spans of a phrase are its longest labels, which is the same as using
\* each word once when labels do not overlap otherwise.
ASSUME LexiconAssumption ==
         /\ \A l, m \in DOMAIN Labels : l \cap m = {} \/ l \subseteq m \/ m \subseteq l
         /\ \A l \in DOMAIN Labels : l # {} /\ Labels[l] \subseteq DOMAIN Concepts
         /\ \A link \in Links : link.verdict \in {"same", "near", "no"}

\* spans: the labels, and the words that none takes.
Spans(phrase) == {l \in DOMAIN Labels :
                    /\ Mentions(phrase, l)
                    /\ ~ \E m \in DOMAIN Labels : Mentions(phrase, m) /\ l \subseteq m /\ l # m}

RestOf(phrase) == phrase \ UNION Spans(phrase)

Lookup(phrase) == UNION {Labels[l] : l \in Spans(phrase)}

\* Where there are curated concepts, those of ESCO are left out.
Curated(concepts) ==
  LET tech == {c \in concepts : Concepts[c].tech} IN IF tech = {} THEN concepts ELSE tech

----------------------------------------------------------------------------
(* Where the skills are.                                                   *)

\* skillConcepts: whole labels first; word by word only where there is none.
ConceptsOf(s, byTerms) ==
  LET labels == Skills[s].names \cup (IF byTerms THEN Skills[s].terms ELSE {})
      whole == UNION {Labels[l] : l \in labels \cap DOMAIN Labels}
      words == UNION {Lookup(n) : n \in Skills[s].names}
  IN IF whole # {} THEN whole ELSE {c \in words : Concepts[c].tech}

\* sameConcepts: the owner's rulings place their skill as its name would.
RuledConcepts(s) ==
  UNION {Curated(Lookup(link.words)) :
           link \in {link \in Links : link.verdict = "same" /\ link.skill = s}}

\* normalize.js, placed and placedByName: the usable skills only.
Placed(usable, byTerms) == [s \in usable |-> ConceptsOf(s, byTerms) \cup RuledConcepts(s)]

ParentsOf(c) == Concepts[c].broader

KinParents(c) == {p \in ParentsOf(c) : Concepts[p].kind # "Umbrella"}

\* Two steps up.
Ancestors(c) == ParentsOf(c) \cup UNION {ParentsOf(p) : p \in ParentsOf(c)}

Holders(concepts, placed) ==
  {s \in DOMAIN placed : \E mine \in placed[s] : ({mine} \cup Ancestors(mine)) \cap concepts # {}}

Members(phrase, placed) == Holders(Lookup(phrase), placed)

\* Other tools of a family, when neither is the tool asked for.
Siblings(concepts, placed) ==
  LET tools == {c \in concepts : Concepts[c].kind = "Tool"} IN
  {s \in DOMAIN placed :
     \E mine \in placed[s], asked \in tools :
       /\ Concepts[mine].kind = "Tool" /\ asked # mine
       /\ KinParents(asked) \cap KinParents(mine) # {}}

\* Other names of what was picked.
Alike(phrase, placed, picked) ==
  LET common == (UNION {placed[s] : s \in picked \cap DOMAIN placed}) \cap Lookup(phrase) IN
  {s \in DOMAIN placed : placed[s] \cap common # {}}

----------------------------------------------------------------------------
(* linkedSkills.                                                           *)

Ruled(phrase, verdict) ==
  {link.skill : link \in {link \in Links : Mentions(phrase, link.words) /\ link.verdict = verdict}}

\* placesOnConcept: a ruling that acts through a concept, and not by its words.
SameByWords(phrase) ==
  {link.skill : link \in {link \in Links : /\ Mentions(phrase, link.words)
                                            /\ link.verdict = "same"
                                            /\ Lookup(link.words) = {}}}
=============================================================================
