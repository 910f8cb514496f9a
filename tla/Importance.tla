----------------------------- MODULE Importance -----------------------------
(***************************************************************************)
(* cv/src/importance.js: what the offer itself says of a requirement, must *)
(* or nice.  An offer is a sequence of lines; a line is blank, plain, a    *)
(* bullet or a header, with the cue of its head and its sentences; a       *)
(* sentence is a sequence of clauses, each with the requirements it names, *)
(* those it names for a certification only, and its cue.                   *)
(***************************************************************************)
EXTENDS Naturals, SequencesExt

Silence == "none"

\* The clause's own cue, then the next of its sentence, then the nearest
\* before it.
CueAt(sentence, i) ==
  LET n == Len(sentence)
      after == {j \in i..n : sentence[j].cue # Silence}
      before == {j \in 1..i-1 : sentence[j].cue # Silence}
  IN IF after # {} THEN sentence[Min(after)].cue
     ELSE IF before # {} THEN sentence[Max(before)].cue ELSE Silence

\* What the clauses that name it say; where they say nothing, the line does.
Votes(line, lineCue, name) ==
  LET named(s) == {i \in DOMAIN s : name \in s[i].names \ s[i].certified}
      vote(s, i) == IF CueAt(s, i) # Silence THEN CueAt(s, i) ELSE lineCue
  IN (UNION {{vote(s, i) : i \in named(s)} : s \in Range(line.sentences)}) \ {Silence}

\* The section a line leaves behind it, and the cue it is read under.
LineCue(section, line) ==
  CASE line.kind = "header" /\ line.cue # Silence -> line.cue
    [] line.kind = "plain" -> Silence
    [] OTHER -> section

SectionAfter(section, line) ==
  CASE line.kind = "header" /\ line.sentences = << >> -> line.cue
    [] line.kind \in {"blank", "plain"} -> Silence
    [] OTHER -> section

ReadLine(state, line, name) ==
  [section |-> SectionAfter(state.section, line),
   votes |-> state.votes \cup Votes(line, LineCue(state.section, line), name)]

\* importanceIn: a must anywhere wins over a nice.
ImportanceIn(offer, name) ==
  LET votes == FoldLeft(LAMBDA state, line : ReadLine(state, line, name),
                        [section |-> Silence, votes |-> {}], offer).votes
  IN IF "must" \in votes THEN "must" ELSE IF "nice" \in votes THEN "nice" ELSE Silence

NamesIn(offer) == UNION {UNION {UNION {c.names : c \in Range(s)} : s \in Range(l.sentences)} :
                           l \in Range(offer)}
=============================================================================
