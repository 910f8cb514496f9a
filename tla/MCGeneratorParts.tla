-------------------------- MODULE MCGeneratorParts --------------------------
(***************************************************************************)
(* Parts of the generator that share no state, each on its own: the page   *)
(* of a visitor, the caps and bans of the server, the titles of its jobs,  *)
(* the helper process of Word, the invitations and the owner's answers.    *)
(***************************************************************************)
EXTENDS Page, Admission, Titles, WordHelper, Invitations, OwnerAnswers, TLC

\* Addresses that are alike, and visitors.
Alike == Permutations(Clients) \cup Permutations(Visitors)

VARIABLE part      \* the part that runs

PartsInit ==
  /\ part \in {"page", "admission", "titles", "word", "invitations", "answers"}
  /\ PageInit /\ AdmInit /\ TitlesInit /\ WordInit /\ InviteInit /\ AnswerInit
  /\ part # "answers" => owned = {} /\ ruledOut = {}

PartsNext ==
  \/ /\ part = "page" /\ PageNext
     /\ UNCHANGED <<part, admVars, titleVars, wordVars, inviteVars, answerVars>>
  \/ /\ part = "admission" /\ AdmNext
     /\ UNCHANGED <<part, pageVars, titleVars, wordVars, inviteVars, answerVars>>
  \/ /\ part = "titles" /\ TitlesNext
     /\ UNCHANGED <<part, pageVars, admVars, wordVars, inviteVars, answerVars>>
  \/ /\ part = "word" /\ WordNext
     /\ UNCHANGED <<part, pageVars, admVars, titleVars, inviteVars, answerVars>>
  \/ /\ part = "invitations" /\ InviteNext
     /\ UNCHANGED <<part, pageVars, admVars, titleVars, wordVars, answerVars>>
  \/ /\ part = "answers" /\ AnswerNext
     /\ UNCHANGED <<part, pageVars, admVars, titleVars, wordVars, inviteVars>>

PartsSpec ==
  PartsInit /\ [][PartsNext]_<<part, pageVars, admVars, titleVars, wordVars, inviteVars, answerVars>>
=============================================================================
