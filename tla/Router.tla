------------------------------- MODULE Router ------------------------------
(***************************************************************************)
(* router.rs: many requests at once, each on a thread of its own, over one *)
(* ordered list of backends.  A thread asks one serving backend after the  *)
(* other, waits for its answer (the adapters give each a deadline), notes  *)
(* it in the shared table `seen', and goes on, stops or answers; then it   *)
(* appends its line to the journal.  The threads meet in `seen' and in the *)
(* journal only, each behind a mutex that is held for one step.            *)
(*                                                                         *)
(* `said' is what each adapter returned, whatever the router makes of it:  *)
(* it is written where a backend is asked and where its adapter returns.   *)
(* A backend that is past its deadline may still be at work then           *)
(* (lm_studio.rs only gives up waiting); what it does later reaches no     *)
(* request, and is left out.                                               *)
(***************************************************************************)
EXTENDS Routing, Sequences

CONSTANT Requests     \* the requests of the run, each sent once

VARIABLES pc,         \* where each request's thread is
          kind,       \* the kind each asks for
          only,       \* the backend each names, or NoName
          turn,       \* the backend each is at, 0 before the first
          said,       \* said[r][b]: "unasked", "asked", or what b's adapter returned
          attempts,   \* attempts[r][b]: the error r recorded of b
          outcome,    \* how each ended
          unwritten,  \* journal_error: its line could not be written
          seen,       \* the last answer noted of each backend
          journal     \* the lines of the journal, oldest first

vars == <<pc, kind, only, turn, said, attempts, outcome, unwritten, seen, journal>>

Unasked == [b \in Backends |-> "unasked"]

\* What record_asked writes of a request: lengths and names, never text.
Lines == [request : Requests, kind : Kinds, asked : Names, outcome : Outcomes,
          attempts : [Backends -> Errors \cup {"unasked"}]]

TypeOK ==
  /\ pc \in [Requests -> {"new", "asking", "noting", "writing", "returned"}]
  /\ kind \in [Requests -> Kinds]
  /\ only \in [Requests -> Names]
  /\ turn \in [Requests -> 0..N]
  /\ said \in [Requests -> [Backends -> Results \cup {"unasked", "asked"}]]
  /\ attempts \in [Requests -> [Backends -> Errors \cup {"unasked"}]]
  /\ outcome \in [Requests -> Outcomes \cup {Pending}]
  /\ unwritten \in [Requests -> BOOLEAN]
  /\ seen \in [Backends -> Results \cup {"never"}]
  /\ journal \in Seq(Lines)
  /\ \A r \in Requests : /\ pc[r] \in {"asking", "noting"} => turn[r] \in Backends
                         /\ pc[r] \in {"writing", "returned"} => outcome[r] \in Outcomes

Init ==
  /\ pc = [r \in Requests |-> "new"]
  /\ kind \in [Requests -> Kinds]
  /\ only \in [Requests -> Names]
  /\ turn = [r \in Requests |-> 0]
  /\ said = [r \in Requests |-> Unasked]
  /\ attempts = [r \in Requests |-> Unasked]
  /\ outcome = [r \in Requests |-> Pending]
  /\ unwritten = [r \in Requests |-> FALSE]
  /\ seen = [b \in Backends |-> "never"]
  /\ journal = << >>

----------------------------------------------------------------------------
(* The steps of one request's thread.                                      *)

\* Mutant: the backend that just failed is asked again.
LeftAgain(r) == {b \in Serving(kind[r], only[r]) : b >= turn[r]}

\* Mutant: the kinds a backend serves are not looked at.
LeftOfAnyKind(r) == {b \in Chosen(only[r]) : b > turn[r]}

\* The serving backends a request has not been through yet.
Left(r) == {b \in Serving(kind[r], only[r]) : b > turn[r]}

Goto(r, where) == pc' = [pc EXCEPT ![r] = where]

\* Backend b is asked for r.
Ask(r, b) ==
  /\ turn' = [turn EXCEPT ![r] = b]
  /\ said' = [said EXCEPT ![r][b] = "asked"]
  /\ Goto(r, "asking")

\* A request that names a backend nobody configured: an error to the
\* caller, and no journal line.
Refuse(r) ==
  /\ pc[r] = "new"
  /\ Chosen(only[r]) = {}
  /\ outcome' = [outcome EXCEPT ![r] = Outcome("unknown", 0)]
  /\ Goto(r, "returned")
  /\ UNCHANGED <<kind, only, turn, said, attempts, unwritten, seen, journal>>

\* No chosen backend serves its kind.
Unserve(r) ==
  /\ pc[r] = "new"
  /\ Chosen(only[r]) # {}
  /\ Left(r) = {}
  /\ outcome' = [outcome EXCEPT ![r] = Outcome("unserved", 0)]
  /\ Goto(r, "writing")
  /\ UNCHANGED <<kind, only, turn, said, attempts, unwritten, seen, journal>>

Start(r) ==
  /\ pc[r] = "new"
  /\ \E b \in Left(r) : IsFirst(b, Left(r)) /\ Ask(r, b)
  /\ UNCHANGED <<kind, only, attempts, outcome, unwritten, seen, journal>>

\* The adapter returns: an answer, an error it read, or "unreachable" once its
\* deadline has passed, whether or not the backend is still at work.
Reply(r, result) ==
  /\ pc[r] = "asking"
  /\ said' = [said EXCEPT ![r][turn[r]] = result]
  /\ Goto(r, "noting")
  /\ UNCHANGED <<kind, only, turn, attempts, outcome, unwritten, seen, journal>>

\* remember: the shared table keeps the last answer that was noted.
Remember(r) == seen' = [seen EXCEPT ![turn[r]] = said[r][turn[r]]]

Answer(r) ==
  /\ pc[r] = "noting"
  /\ said[r][turn[r]] = "ok"
  /\ Remember(r)
  /\ outcome' = [outcome EXCEPT ![r] = Outcome("answered", turn[r])]
  /\ Goto(r, "writing")
  /\ UNCHANGED <<kind, only, turn, said, attempts, unwritten, journal>>

\* The backend failed: remember it, record the attempt.
Failed(r) ==
  /\ pc[r] = "noting"
  /\ said[r][turn[r]] \in Errors
  /\ Remember(r)
  /\ attempts' = [attempts EXCEPT ![r][turn[r]] = said[r][turn[r]]]

Stop(r) ==
  /\ Failed(r)
  /\ ~AllowsFallback(said[r][turn[r]])
  /\ outcome' = [outcome EXCEPT ![r] = Outcome("stopped", turn[r])]
  /\ Goto(r, "writing")
  /\ UNCHANGED <<kind, only, turn, said, unwritten, journal>>

FallBack(r) ==
  /\ Failed(r)
  /\ AllowsFallback(said[r][turn[r]])
  /\ \E b \in Left(r) : IsFirst(b, Left(r)) /\ Ask(r, b)
  /\ UNCHANGED <<kind, only, outcome, unwritten, journal>>

Exhaust(r) ==
  /\ Failed(r)
  /\ AllowsFallback(said[r][turn[r]])
  /\ Left(r) = {}
  /\ outcome' = [outcome EXCEPT ![r] = Outcome("exhausted", 0)]
  /\ Goto(r, "writing")
  /\ UNCHANGED <<kind, only, turn, said, unwritten, journal>>

\* record_asked: the line of one finished request.
LineOf(r) == [request |-> r, kind |-> kind[r], asked |-> only[r],
              outcome |-> outcome[r], attempts |-> attempts[r]]

\* Mutant: a failure to write the line is not reported.
WriteOrForget(r) ==
  /\ pc[r] = "writing"
  /\ journal' = Append(journal, LineOf(r)) \/ UNCHANGED journal
  /\ Goto(r, "returned")
  /\ UNCHANGED <<kind, only, turn, said, attempts, outcome, unwritten, seen>>

Write(r) ==
  /\ pc[r] = "writing"
  /\ \/ journal' = Append(journal, LineOf(r)) /\ UNCHANGED unwritten
     \/ unwritten' = [unwritten EXCEPT ![r] = TRUE] /\ UNCHANGED journal
  /\ Goto(r, "returned")
  /\ UNCHANGED <<kind, only, turn, said, attempts, outcome, seen>>

Step(r) == \/ Refuse(r)
           \/ Unserve(r)
           \/ Start(r)
           \/ \E result \in Results : Reply(r, result)
           \/ Answer(r)
           \/ Stop(r)
           \/ FallBack(r)
           \/ Exhaust(r)
           \/ Write(r)

Next == \E r \in Requests : Step(r)

Spec == Init /\ [][Next]_vars

\* Every thread runs on, and every adapter gives its backend a deadline.
FairSpec == Spec /\ \A r \in Requests : WF_vars(Step(r))

----------------------------------------------------------------------------
(* What must hold.                                                         *)

\* The journal holds one line per request that was routed and whose line was
\* not refused by the file system, with the outcome the caller got; no line
\* is written twice, or before its request has ended (journal.rs).
JournalTellsAll ==
  /\ \A i, j \in DOMAIN journal :
       journal[i].request = journal[j].request => i = j
  /\ \A i \in DOMAIN journal :
       \E r \in Requests : pc[r] = "returned" /\ journal[i] = LineOf(r)
  /\ \A r \in Requests :
       pc[r] = "returned" /\ outcome[r].what # "unknown" /\ ~unwritten[r]
         => \E i \in DOMAIN journal : journal[i].request = r

\* Once a backend has answered a request, or failed it in a way only a human
\* can mend, no other backend ever hears of that request: an error that is
\* not an outage is never hidden behind the next backend.
SettledIsFinal ==
  [][\A r \in Requests :
       (\E b \in Backends : said[r][b] \in {"ok", "other"})
         => said'[r] = said[r]]_vars

\* Every request gets an outcome and its thread ends.
EveryRequestReturns ==
  \A r \in Requests : <>(pc[r] = "returned")

\* The router gives each request, in one step as its caller sees it, the
\* outcome the backends' own answers call for.
Returned(r) == pc[r] = "returned"

Promise == INSTANCE Dispatch WITH
  outcome <- [r \in Requests |-> IF Returned(r) THEN outcome[r] ELSE Pending],
  said    <- [r \in Requests |-> IF Returned(r) THEN said[r] ELSE Unasked]

KeepsPromise == Promise!Spec
=============================================================================
