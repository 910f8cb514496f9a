---------------------------- MODULE OwnerAnswers ----------------------------
(***************************************************************************)
(* cv/src/answers.js, and answered of cv/src/run.js: what the owner says   *)
(* of a skill is a list in a file beside his profile, merged into it each  *)
(* time it is loaded; one that is refused stops every run.  The profile    *)
(* and the sources of evidence are his to change between two answers.      *)
(***************************************************************************)
EXTENDS FiniteSets, Naturals, SequencesExt

CONSTANTS AnswerIds, Said    \* the ids, and the names that an answer may give

VARIABLES owned,     \* the names of the profile's own skills
          ruledOut,  \* those that the evidence contradicts or does not support
          kept,      \* the answers in the file, in order
          edited     \* whether the owner has changed something since the last one

answerVars == <<owned, ruledOut, kept, edited>>

AnswerInit == owned \in SUBSET Said /\ ruledOut \in SUBSET Said /\ kept = << >> /\ edited = FALSE

\* A yes has a level, a group and a sentence, or it is not whole.
PossibleAnswers == [id : AnswerIds, says : {"yes"}, name : Said, whole : BOOLEAN]
                     \cup [id : AnswerIds, says : {"no"}, name : {"-"}, whole : {TRUE}]

\* One answer, over the names known and the ids seen so far.
Joined(merged, a) ==
  LET refused == \/ a.id \in merged.seen
                 \/ a.says = "yes" /\ (~ a.whole \/ a.name \in merged.names \cup ruledOut)
  IN [names |-> IF a.says = "yes" /\ ~ refused THEN merged.names \cup {a.name} ELSE merged.names,
      seen |-> merged.seen \cup {a.id},
      refused |-> merged.refused \/ refused]

\* mergeAnswers
MergeAnswers(names, answers) ==
  FoldLeft(Joined, [names |-> names, seen |-> {}, refused |-> FALSE], answers)

\* answered: a refusal stops the run.
Loads == ~ MergeAnswers(owned, kept).refused

\* Mutant: the earlier answers are not in the profile that is asked.
OwnerAlone == owned

\* The profile that a new answer is put to has the earlier ones.
LoadedNames == MergeAnswers(owned, kept).names

\* addAnswer, with the profile loaded for it; nothing is written on a refusal.
AddAnswer(a) ==
  /\ Loads
  /\ \A i \in DOMAIN kept : kept[i].id # a.id
  /\ ~ MergeAnswers(LoadedNames, <<a>>).refused
  /\ kept' = Append(kept, a) /\ edited' = FALSE
  /\ UNCHANGED <<owned, ruledOut>>

\* The owner writes a skill into his profile, takes one out, or adds a source.
EditProfile ==
  /\ owned' \in SUBSET Said /\ ruledOut' \in SUBSET Said
  /\ edited' = TRUE /\ UNCHANGED kept

AnswerNext == EditProfile \/ \E a \in PossibleAnswers : AddAnswer(a)

AnswerSpec == AnswerInit /\ [][AnswerNext]_answerVars

----------------------------------------------------------------------------
(* What must hold.                                                         *)

\* An answer is put to the loaded profile alone, and later merged with all the
\* others in their order: the two agree, so that an answer which is taken never
\* stops the runs after it.  (A later change of the profile or the sources can.)
TakenAnswersLoad == ~ edited => Loads
=============================================================================
