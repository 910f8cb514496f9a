---------------------------- MODULE Invitations ----------------------------
(***************************************************************************)
(* cv/src/invites.js and its use in cv/src/server.js: the owner makes and  *)
(* revokes invitations with commands of their own, each a process that     *)
(* loads the whole file, changes it and renames a new one over it, with no *)
(* lock.  The server reads the file at every use.  It keeps in memory the  *)
(* code that each visitor's page was opened with, until it forgets the     *)
(* visitor or is restarted.  Labels are checked by the command line; codes *)
(* are drawn at random, so that no two are the same.                       *)
(***************************************************************************)
EXTENDS FiniteSets, Naturals

CONSTANTS Codes, Labels, Guests, Owners,
          Nobody       \* no label

ASSUME InvitationAssumption == Nobody \notin Labels

VARIABLES invites,   \* the file: the label of each code, and whether it is revoked
          drawn,     \* the codes that were ever made
          editing,   \* what each command of the owner is about to save
          invited,   \* the code that each page was opened with, as a set
          renewed,   \* how often the server was restarted
          struck,    \* history: the codes whose revocation came on file, but for
                     \* those a command has saved over that had loaded before it
          stale,     \* history: those revoked on file since each command loaded it
          slipped    \* history: the struck codes that a job was accepted with

histories == <<struck, stale, slipped>>

inviteVars == <<invites, drawn, editing, invited, renewed, histories>>

MaxRestarts == 1

Entry(label) == [label |-> label, revoked |-> FALSE]

NoFile == [c \in {} |-> Entry(Nobody)]

InviteInit ==
  /\ invites = NoFile /\ drawn = {}
  /\ editing = [o \in Owners |-> {}]
  /\ invited = [v \in Guests |-> {}]
  /\ renewed = 0
  /\ struck = {} /\ stale = [o \in Owners |-> {}] /\ slipped = {}

Live(file) == {c \in DOMAIN file : ~ file[c].revoked}

Revoked(file) == DOMAIN file \ Live(file)

LiveLabels == {invites[c].label : c \in Live(invites)}

----------------------------------------------------------------------------
(* The owner's commands.                                                   *)

\* One live invitation for each label.
IsFree(label) == label \notin LiveLabels

\* What a command is about to save, from what is on file now.
Edits(o, file) ==
  /\ editing[o] = {} /\ editing' = [editing EXCEPT ![o] = {file}]
  /\ UNCHANGED <<invites, invited, renewed, histories>>

\* createInvite, up to the save.
Create(o, label, code) ==
  /\ code \notin drawn /\ drawn' = drawn \cup {code}
  /\ IsFree(label)
  /\ Edits(o, [c \in DOMAIN invites \cup {code} |->
                 IF c = code THEN Entry(label) ELSE invites[c]])

\* revokeInvite, by the code or by the label, up to the save.
Revoke(o, revoked) ==
  /\ revoked # {} /\ UNCHANGED drawn
  /\ Edits(o, [c \in DOMAIN invites |->
                 IF c \in revoked THEN [invites[c] EXCEPT !.revoked = TRUE] ELSE invites[c]])

\* save: a file of its own, renamed over what is there by now.  A code that was
\* revoked since the command loaded the file is live again, or gone.
Save(o) ==
  /\ editing[o] # {}
  /\ invites' \in editing[o]
  /\ editing' = [editing EXCEPT ![o] = {}]
  /\ struck' = (struck \ stale[o]) \cup Revoked(invites')
  /\ stale' = [p \in Owners |-> IF p = o \/ editing[p] = {} THEN {}
                                 ELSE stale[p] \cup Revoked(invites')]
  /\ UNCHANGED <<drawn, invited, renewed, slipped>>

----------------------------------------------------------------------------
(* The server.                                                             *)

\* invitationOf
InvitationOf(code) == IF code \in Live(invites) THEN invites[code].label ELSE Nobody

\* pageToken: a code that is not live leaves the one that the page had.
OpenPage(v, code) ==
  /\ invited' = IF InvitationOf(code) = Nobody THEN invited ELSE [invited EXCEPT ![v] = {code}]
  /\ UNCHANGED <<invites, drawn, editing, renewed, histories>>

\* Mutant: the label is remembered as it was when the page was opened.
RememberedInviteOf(v) ==
  IF invited[v] \cap DOMAIN invites = {} THEN Nobody
  ELSE invites[CHOOSE c \in invited[v] : TRUE].label

\* inviteOf
InviteOf(v) == IF invited[v] = {} THEN Nobody ELSE InvitationOf(CHOOSE c \in invited[v] : TRUE)

\* A job by invitation only.
PostJob(v) ==
  /\ InviteOf(v) # Nobody
  /\ slipped' = slipped \cup (invited[v] \cap struck)
  /\ UNCHANGED <<invites, drawn, editing, invited, renewed, struck, stale>>

\* remember, over the cap: the visitor is forgotten, and its code.
ForgetGuest(v) ==
  /\ invited[v] # {} /\ invited' = [invited EXCEPT ![v] = {}]
  /\ UNCHANGED <<invites, drawn, editing, renewed, histories>>

\* A page that is open goes on with its token, but without its code.
RestartServer ==
  /\ renewed < MaxRestarts /\ renewed' = renewed + 1
  /\ invited' = [v \in Guests |-> {}]
  /\ UNCHANGED <<invites, drawn, editing, histories>>

InviteNext ==
  \/ \E o \in Owners :
       \/ Save(o)
       \/ \E code \in Codes : \E label \in Labels : Create(o, label, code)
       \/ \E code \in Live(invites) : Revoke(o, {code})
       \/ \E label \in Labels : Revoke(o, {c \in Live(invites) : invites[c].label = label})
  \/ \E v \in Guests : \/ PostJob(v) \/ ForgetGuest(v)
                       \/ \E code \in Codes : OpenPage(v, code)
  \/ RestartServer

InviteSpec == InviteInit /\ [][InviteNext]_inviteVars

----------------------------------------------------------------------------
(* What must hold.                                                         *)

\* However the owner's commands overlap, and though one can undo another, no
\* label has two live codes: what is used and what is revoked under a label is
\* one invitation.
OneLivePerLabel ==
  \A c, d \in Live(invites) : invites[c].label = invites[d].label => c = d

\* A revocation that is on file holds from then on, and "needs no restart": its
\* code is never live again and no job is accepted with it, however the page was
\* opened.  Only a command that had loaded the file before the revocation came
\* on it, and saves after, takes it back, as nothing locks the file.
RevocationHolds == struck \cap Live(invites) = {} /\ slipped = {}

\* Both: what the owner has said of an invitation is what the server goes by.
InvitationsHold == OneLivePerLabel /\ RevocationHolds
=============================================================================
