-------------------------------- MODULE Page ---------------------------------
(***************************************************************************)
(* cv/web/app.js on top of JobBoard, which JobServer implements: one page  *)
(* of one visitor, whose requests and answers travel.                      *)
(*                                                                         *)
(* The page is one event loop as well.  Its button takes the offers out of *)
(* the list and posts them; it stays usable meanwhile, so that two POSTs   *)
(* can be under way.  poll() asks for the jobs, renders a card for each    *)
(* (asking for the details of each that is done), and goes on while one of *)
(* the jobs it was told is under way.  A second poll() does nothing.       *)
(* A connection may break at any time, before the server has the request   *)
(* or on the way back, and a restart of the server loses its jobs.         *)
(***************************************************************************)
EXTENDS JobBoard, SequencesExt

CONSTANTS Posts,     \* the POSTs that can be under way at once
          Pasted,    \* the offers that the user may paste, each once
          None       \* no offer

ASSUME PageAssumption == MaxAccepted \in Nat /\ None \notin Pasted

VARIABLES list,      \* offers
          entered,   \* the offers that were ever in the list
          call,      \* each POST, as the page sees it
          batch,     \* the offers each POST carries
          mark,      \* how many jobs there were before the POST's
          of,        \* the offer each job is for
          unsure,    \* offers of POSTs whose answer never came
          at,        \* where poll() is
          seen,      \* the jobs that poll() was told, with their status
          detail,    \* details: the jobs whose details are kept
          card,      \* the status that each card shows, "none" without a card
          informed,  \* jobs whose acceptance the page knows of
          behind,    \* jobs accepted after the list that the poll still renders
          stopped    \* whether an error ended the poll

listVars == <<list, entered>>
callVars == <<call, batch, mark, of, unsure>>
pollVars == <<at, seen, detail, card, behind, stopped>>
pageVars == <<board, listVars, callVars, informed, pollVars>>

Polling == at # "off"

NoStatus == [j \in Ids |-> "none"]

PageInit ==
  /\ BoardInit
  /\ list = << >> /\ entered = {}
  /\ call = [p \in Posts |-> "none"] /\ batch = [p \in Posts |-> << >>]
  /\ mark = [p \in Posts |-> 0]
  /\ of = [j \in Ids |-> None] /\ unsure = {}
  /\ at = "top" /\ seen = NoStatus /\ detail = {} /\ card = NoStatus
  /\ informed = {} /\ behind = {} /\ stopped = FALSE

----------------------------------------------------------------------------
(* The list of offers.                                                     *)

\* addOffer, with a text that is neither empty, nor too long, nor two offers.
AddOffer(o) ==
  /\ o \notin entered
  /\ list' = Append(list, o) /\ entered' = entered \cup {o}
  /\ UNCHANGED <<board, callVars, informed, pollVars>>

\* The button, while some model can answer: offers.splice(0), and the POST.
Generate(p) ==
  /\ list # << >>
  /\ call[p] = "none"
  /\ call' = [call EXCEPT ![p] = "sent"]
  /\ batch' = [batch EXCEPT ![p] = list]
  /\ list' = << >>
  /\ UNCHANGED <<board, entered, mark, of, unsure, informed, pollVars>>

----------------------------------------------------------------------------
(* The POST, at the server and back.                                       *)

\* Every offer of the batch has become a job, in its order.
Accepted(p) ==
  /\ call[p] = "sent"
  /\ Advance(Len(batch[p]))
  /\ \A j \in 1..accepted : status'[j] = status[j]
  /\ call' = [call EXCEPT ![p] = "accepted"]
  /\ mark' = [mark EXCEPT ![p] = accepted]
  /\ of' = [j \in Ids |-> IF j \in accepted + 1 .. accepted'
                            THEN batch[p][j - accepted] ELSE of[j]]
  /\ UNCHANGED <<listVars, batch, unsure, informed, pollVars>>

\* The POST is done with: its batch is garbage.
Closes(p) ==
  /\ call' = [call EXCEPT ![p] = "none"]
  /\ batch' = [batch EXCEPT ![p] = << >>]
  /\ mark' = [mark EXCEPT ![p] = 0]

\* Mutant: the offers of a POST that failed are not put back.
GivenUp(p) == list

\* The catch: offers.push(...batch).
PutBack(p) == list \o batch[p]

\* The server refuses the POST, or never has it.
Refused(p) ==
  /\ call[p] = "sent"
  /\ Closes(p)
  /\ list' = PutBack(p)
  /\ UNCHANGED <<board, entered, of, unsure, informed, pollVars>>

\* The answer is lost on its way.
Breaks(p) ==
  /\ call[p] = "accepted"
  /\ Closes(p)
  /\ list' = PutBack(p)
  /\ unsure' = unsure \cup Range(batch[p])
  /\ UNCHANGED <<board, entered, of, informed, pollVars>>

\* The answer, and poll().
Learns(p) ==
  LET new == mark[p] + 1 .. mark[p] + Len(batch[p]) IN
  /\ call[p] = "accepted"
  /\ Closes(p)
  /\ informed' = informed \cup new
  /\ IF Polling
       THEN /\ behind' = IF at \in {"listed", "detail"}
                           THEN behind \cup {j \in new : seen[j] = "none"} ELSE behind
            /\ UNCHANGED <<at, stopped>>
       ELSE at' = "top" /\ stopped' = FALSE /\ UNCHANGED behind
  /\ UNCHANGED <<board, listVars, of, unsure, seen, detail, card>>

----------------------------------------------------------------------------
(* poll().                                                                 *)

\* A tab out of sight asks nothing.
Hidden ==
  /\ at = "top" /\ at' = "asleep"
  /\ UNCHANGED <<board, listVars, callVars, informed, seen, detail, card, behind, stopped>>

\* GET /api/jobs, at the server: its answer is on its way.
Lists ==
  /\ at = "top" /\ at' = "listed"
  /\ seen' = [j \in Ids |-> IF j \in Jobs THEN status[j] ELSE "none"]
  /\ behind' = {j \in behind : seen'[j] = "none"}
  /\ UNCHANGED <<board, listVars, callVars, informed, detail, card, stopped>>

\* The first job whose details are to be asked for, 0 when there is none.
NextDetail ==
  LET wanted == {j \in Ids : seen[j] = "done" /\ j \notin detail} IN
  IF wanted = {} THEN 0 ELSE Min(wanted)

\* Mutant: only a running job keeps the poll going.
GoesOnForRunning == \E j \in Ids : seen[j] = "running"

GoesOn == \E j \in Ids : seen[j] \in InFlight

\* The list has come, or the details of one more job: the cards up to the
\* next job without details are rendered, and after the last the loop ends
\* unless a job it was told is under way.
Renders ==
  /\ at = "listed"
  /\ card' = [j \in Ids |-> IF seen[j] # "none" /\ (NextDetail = 0 \/ j < NextDetail)
                              THEN seen[j] ELSE card[j]]
  /\ at' = IF NextDetail # 0 THEN "detail" ELSE IF GoesOn THEN "asleep" ELSE "off"
  /\ seen' = IF NextDetail # 0 THEN seen ELSE NoStatus
  /\ UNCHANGED <<board, listVars, callVars, informed, detail, behind, stopped>>

\* GET /api/jobs/:id, for a job the visitor still has.
Details ==
  /\ at = "detail" /\ at' = "listed"
  /\ NextDetail \in Jobs
  /\ detail' = detail \cup {NextDetail}
  /\ UNCHANGED <<board, listVars, callVars, informed, seen, card, behind, stopped>>

\* The server cannot be reached, or the job is no longer there: the error is
\* shown, and the poll has ended.
PollFails ==
  /\ at \in {"top", "detail"}
  /\ at' = "off" /\ stopped' = TRUE
  /\ seen' = NoStatus
  /\ UNCHANGED <<board, listVars, callVars, informed, detail, card, behind>>

WakesUp ==
  /\ at = "asleep" /\ at' = "top"
  /\ UNCHANGED <<board, listVars, callVars, informed, seen, detail, card, behind, stopped>>

----------------------------------------------------------------------------
(* The server on its own.                                                  *)

\* A job starts, ends or is evicted.
Moves(j) ==
  /\ j <= accepted
  /\ \E s \in Ahead(status[j]) \ {"lost"} : status' = [status EXCEPT ![j] = s]
  /\ UNCHANGED <<accepted, listVars, callVars, informed, pollVars>>

Restarts ==
  /\ Jobs # {}
  /\ status' = [j \in Ids |-> IF j \in Jobs THEN "lost" ELSE status[j]]
  /\ UNCHANGED <<accepted, listVars, callVars, informed, pollVars>>

Poll == Hidden \/ Lists \/ Renders \/ Details \/ PollFails \/ WakesUp

PageNext ==
  \/ \E o \in Pasted : AddOffer(o)
  \/ \E p \in Posts : \/ Generate(p) \/ Accepted(p) \/ Refused(p) \/ Breaks(p)
                      \/ Learns(p)
  \/ Poll
  \/ \E j \in Ids : Moves(j)
  \/ Restarts

PageSpec == PageInit /\ [][PageNext]_pageVars

----------------------------------------------------------------------------
(* What must hold.                                                         *)

\* An offer the user gave is in the list, in a POST under way, or has been
\* accepted: one that was refused comes back ("offers.push(...batch)").  And
\* it is there once, or it would be tailored twice, unless the answer of its
\* POST was lost.
OffersAreKept ==
  \A o \in entered :
    LET listed  == {<<"list", i>> : i \in {i \in DOMAIN list : list[i] = o}}
        carried == {<<"post", p>> : p \in {p \in Posts : /\ call[p] = "sent"
                                                          /\ o \in Range(batch[p])}}
        jobs    == {<<"job", j>> : j \in {j \in Ids : of[j] = o}}
        places  == listed \cup carried \cup jobs
    IN /\ places # {}
       /\ o \notin unsure => Cardinality(places) = 1

\* When the poll has ended by itself, every job the page was told of stands
\* on its card as it has ended, but for those the server has dropped and
\* those that are behind, accepted after it had answered the last list.
Followed ==
  /\ at = "off" /\ ~stopped
  => \A j \in informed \ behind :
       status[j] \in {"gone", "lost"} \/ (card[j] = status[j] /\ card[j] \in Finished)
=============================================================================
