----------------------------- MODULE WordHelper -----------------------------
(***************************************************************************)
(* cv/src/word.js: requests to Word go through one helper process, a line  *)
(* each; what it prints is matched to the requests by order alone.  Each   *)
(* request has a timer.  A helper that lets one pass, or that dies, is     *)
(* gone for good: every request behind it fails.                           *)
(*                                                                         *)
(* The process, its two pipes and the event loop run on their own: what it *)
(* printed can be read after its end has been told, and a killed helper    *)
(* prints until the kill arrives.                                          *)
(***************************************************************************)
EXTENDS Integers, Sequences

CONSTANT Requests

VARIABLES outcome,  \* what came of each request
          given,    \* the requests whose answers it was given
          waiting,  \* the requests whose promise is in the queue, oldest first
          asked,    \* what the helper has not taken from its input yet
          printed,  \* the answers it printed and nobody has read
          alive,    \* whether the process runs
          exited,   \* whether there is a reason to refuse every request
          told      \* whether the exit event has been handled

wordVars == <<outcome, given, waiting, asked, printed, alive, exited, told>>

WordTypeOK ==
  /\ outcome \in [Requests -> {"new", "pending", "answered", "refused", "late", "dead"}]
  /\ given \in [Requests -> SUBSET Requests]
  /\ waiting \in Seq(Requests) /\ asked \in Seq(Requests) /\ printed \in Seq(Requests)
  /\ alive \in BOOLEAN /\ exited \in BOOLEAN /\ told \in BOOLEAN

WordInit ==
  /\ outcome = [r \in Requests |-> "new"]
  /\ given = [r \in Requests |-> {}]
  /\ waiting = << >> /\ asked = << >> /\ printed = << >>
  /\ alive = TRUE /\ exited = FALSE /\ told = FALSE

----------------------------------------------------------------------------

\* Mutant: a helper that is gone is written to all the same.
RefusedNever == FALSE

IsGone == exited

\* What is written to a helper that has died is lost, without an error.
Ask(r) ==
  /\ outcome[r] = "new"
  /\ \/ IsGone /\ outcome' = [outcome EXCEPT ![r] = "refused"] /\ UNCHANGED <<waiting, asked>>
     \/ /\ ~ IsGone
        /\ outcome' = [outcome EXCEPT ![r] = "pending"]
        /\ waiting' = Append(waiting, r)
        /\ asked' = Append(asked, r)
  /\ UNCHANGED <<given, printed, alive, exited, told>>

\* The helper: one answer for each line that it reads, in order.
Answer ==
  /\ alive /\ asked # << >>
  /\ asked' = Tail(asked)
  /\ printed' = Append(printed, Head(asked))
  /\ UNCHANGED <<outcome, given, waiting, alive, exited, told>>

\* The first in the queue gets the line; a promise that was rejected keeps its
\* rejection; with nobody in the queue the line is dropped.
Line ==
  /\ printed # << >>
  /\ printed' = Tail(printed)
  /\ \/ waiting = << >> /\ UNCHANGED <<outcome, given, waiting>>
     \/ /\ waiting # << >> /\ waiting' = Tail(waiting)
        /\ \/ /\ outcome[Head(waiting)] = "pending"
              /\ outcome' = [outcome EXCEPT ![Head(waiting)] = "answered"]
              /\ given' = [given EXCEPT ![Head(waiting)] = @ \cup {Head(printed)}]
           \/ outcome[Head(waiting)] # "pending" /\ UNCHANGED <<outcome, given>>
  /\ UNCHANGED <<asked, alive, exited, told>>

\* Mutant: a request that is given up leaves the queue.
Leaves(r) == SelectSeq(waiting, LAMBDA w : w # r)

\* A request that is given up keeps its place in the queue.
StaysInLine(r) == waiting

\* The timer: the helper is refused from now on, and its kill is on the way.
Timeout(r) ==
  /\ outcome[r] = "pending"
  /\ outcome' = [outcome EXCEPT ![r] = "late"]
  /\ exited' = TRUE
  /\ waiting' = StaysInLine(r)
  /\ UNCHANGED <<given, asked, printed, alive, told>>

\* By itself or killed.
Die ==
  /\ alive /\ alive' = FALSE
  /\ UNCHANGED <<outcome, given, waiting, asked, printed, exited, told>>

\* The exit event: whoever is in the queue fails.
Exit ==
  /\ ~ alive /\ ~ told
  /\ told' = TRUE /\ exited' = TRUE
  /\ outcome' = [r \in Requests |-> IF outcome[r] = "pending" /\ \E i \in DOMAIN waiting : waiting[i] = r
                                      THEN "dead" ELSE outcome[r]]
  /\ waiting' = << >>
  /\ UNCHANGED <<given, asked, printed, alive>>

WordNext == Answer \/ Line \/ Die \/ Exit \/ \E r \in Requests : Ask(r) \/ Timeout(r)

WordSpec == WordInit /\ [][WordNext]_wordVars

----------------------------------------------------------------------------
(* What must hold.                                                         *)

\* Lines and requests are matched by order alone, across time-outs, a dying
\* helper and lines that arrive late: still no request is ever given the
\* answer to another one's document.
OwnAnswers == \A r \in Requests : given[r] \subseteq {r}

\* Once the end of the helper is known nobody waits for it: each request was
\* answered or has failed, those that were behind another one included, and
\* those that came in between.
NobodyWaitsForTheDead == told => \A r \in Requests : outcome[r] # "pending"

\* Why: until the end is told, the queue is what is printed and what is asked.
QueueMatchesPipes ==
  /\ told => waiting = << >>
  /\ ~ told => waiting = printed \o asked
=============================================================================
