----------------------------- MODULE HttpServer ----------------------------
(***************************************************************************)
(* server.rs: `itsaresume serve'.  Every request that is accepted gets a   *)
(* thread.  Most requests are answered at once from what their head says;  *)
(* a completion needs one of MAX_CONCURRENT_COMPLETIONS slots, taken by a  *)
(* compare-exchange loop on one counter and given back on drop, and holds  *)
(* it while its body is read and the router works.  The accept loop ends   *)
(* at its first error and the process with it; the container restarts it.  *)
(*                                                                         *)
(* A request is what its head and its body say of it, a record of Shapes.  *)
(***************************************************************************)
EXTENDS Naturals, FiniteSets

CONSTANTS Threads,       \* the threads that requests can run on
          Max,           \* MAX_CONCURRENT_COMPLETIONS
          Shapes,        \* the requests that arrive
          MaxArrivals    \* bound: how many requests arrive in a run

AllShapes ==
  [length : {"fits", "large", "huge"},   \* declared: at most 1 MiB, 64 MiB, more
   loopback : BOOLEAN,                   \* the Host header is a loopback name
   target : {"healthz", "status", "complete", "wrong method", "elsewhere"},
   browser : BOOLEAN,                    \* it has an Origin header
   json : BOOLEAN,                       \* its Content-Type is JSON
   body : {"valid", "malformed", "overlong", "broken"}]

ASSUME ServerAssumption ==
         /\ IsFiniteSet(Threads)
         /\ Max \in Nat \ {0}
         /\ Shapes \subseteq AllShapes /\ Shapes # {}
         /\ MaxArrivals \in Nat

\* Router::complete_on as this caller sees it: an outcome, or UnknownBackend.
Routed == {"ok", "stopped", "exhausted", "unserved", "bad_request"}

Replies == Routed \cup {"forbidden", "method_not_allowed", "not_found", "busy",
                        "unsupported_media_type", "too_large"}

VARIABLES pc,        \* where each thread is
          request,   \* the request each thread is on
          current,   \* each thread's last reading of `running' (Slot::take)
          reply,     \* what each thread is to answer, "none" until it knows
          running,   \* the counter of completions
          up,        \* the process runs
          arrived    \* how many requests have arrived

vars == <<pc, request, current, reply, running, up, arrived>>

AnyShape == CHOOSE s \in Shapes : TRUE

TypeOK ==
  /\ pc \in [Threads -> {"idle", "checking", "taking", "reading", "routing",
                         "dropping", "responding"}]
  /\ request \in [Threads -> Shapes]
  /\ current \in [Threads -> Nat]
  /\ reply \in [Threads -> Replies \cup {"none"}]
  /\ running \in Nat
  /\ up \in BOOLEAN
  /\ arrived \in 0..MaxArrivals

Init ==
  /\ pc = [t \in Threads |-> "idle"]
  /\ request = [t \in Threads |-> AnyShape]
  /\ current = [t \in Threads |-> 0]
  /\ reply = [t \in Threads |-> "none"]
  /\ running = 0
  /\ up = TRUE
  /\ arrived = 0

Goto(t, where) == pc' = [pc EXCEPT ![t] = where]

Conclude(t, r) == reply' = [reply EXCEPT ![t] = r]

----------------------------------------------------------------------------
(* What the head of a request says, in the order respond, route and        *)
(* guarded look at it.                                                     *)

FromGuarded(s) ==
  IF s.browser THEN "forbidden" ELSE IF ~s.json THEN "unsupported_media_type" ELSE "none"

FromRoute(s) ==
  IF ~s.loopback THEN "forbidden"
  ELSE CASE s.target \in {"healthz", "status"} -> "ok"
         [] s.target = "wrong method"          -> "method_not_allowed"
         [] s.target = "elsewhere"             -> "not_found"
         [] s.target = "complete"              -> FromGuarded(s)

\* "none": only a slot, the body and the router can tell.
FromHead(s) == IF s.length = "huge" THEN "too_large" ELSE FromRoute(s)

\* Read with the slot held: what complete answers without the router.
FromBody(s) ==
  CASE s.length = "large"                        -> "too_large"
    [] s.length # "large" /\ s.body = "overlong" -> "too_large"
    [] s.length # "large" /\ s.body \in {"broken", "malformed"} -> "bad_request"
    [] OTHER                                     -> "none"

----------------------------------------------------------------------------
(* The accept loop, and the life of one thread.                            *)

Accept(t, s) ==
  /\ up /\ arrived < MaxArrivals
  /\ pc[t] = "idle"
  /\ request' = [request EXCEPT ![t] = s]
  /\ arrived' = arrived + 1
  /\ Goto(t, "checking")
  /\ UNCHANGED <<current, reply, running, up>>

AnswerFromHead(t) ==
  /\ pc[t] = "checking"
  /\ FromHead(request[t]) # "none"
  /\ Conclude(t, FromHead(request[t]))
  /\ Goto(t, "responding")
  /\ UNCHANGED <<request, current, running, up, arrived>>

\* Slot::take, its first reading of the counter.
Load(t) ==
  /\ pc[t] = "checking"
  /\ FromHead(request[t]) = "none"
  /\ current' = [current EXCEPT ![t] = running]
  /\ Goto(t, "taking")
  /\ UNCHANGED <<request, reply, running, up, arrived>>

\* Mutant: a completion without a slot waits for one.
BusyWaits(t) ==
  /\ pc[t] = "taking"
  /\ current[t] >= Max
  /\ current' = [current EXCEPT ![t] = running]
  /\ UNCHANGED <<pc, request, reply, running, up, arrived>>

\* The reading leaves no slot: 503, busy.
Busy(t) ==
  /\ pc[t] = "taking"
  /\ current[t] >= Max
  /\ Conclude(t, "busy")
  /\ Goto(t, "responding")
  /\ UNCHANGED <<request, current, running, up, arrived>>

\* Mutant: fetch_add after the reading, in place of compare_exchange.
TakeUnchecked(t) ==
  /\ pc[t] = "taking"
  /\ current[t] < Max
  /\ running' = running + 1
  /\ Goto(t, "reading")
  /\ UNCHANGED <<request, current, reply, up, arrived>>

\* compare_exchange: nobody moved the counter since it was read ...
TakeSlot(t) ==
  /\ pc[t] = "taking"
  /\ current[t] < Max
  /\ running = current[t]
  /\ running' = current[t] + 1
  /\ Goto(t, "reading")
  /\ UNCHANGED <<request, current, reply, up, arrived>>

\* ... or somebody did, and the loop goes round with what it holds now.
Retry(t) ==
  /\ pc[t] = "taking"
  /\ current[t] < Max
  /\ running # current[t]
  /\ current' = [current EXCEPT ![t] = running]
  /\ UNCHANGED <<pc, request, reply, running, up, arrived>>

\* Mutant: a body that breaks off is waited for.
ReadWaits(t) ==
  /\ pc[t] = "reading"
  /\ request[t].body # "broken"
  /\ Goto(t, "routing")
  /\ UNCHANGED <<request, current, reply, running, up, arrived>>

\* The client has sent its body (or broken off).
Read(t) ==
  /\ pc[t] = "reading"
  /\ IF FromBody(request[t]) = "none"
       THEN Goto(t, "routing") /\ UNCHANGED reply
       ELSE Goto(t, "dropping") /\ Conclude(t, FromBody(request[t]))
  /\ UNCHANGED <<request, current, running, up, arrived>>

\* The router has answered.
Route(t, outcome) ==
  /\ pc[t] = "routing"
  /\ Conclude(t, outcome)
  /\ Goto(t, "dropping")
  /\ UNCHANGED <<request, current, running, up, arrived>>

\* Drop for Slot: guarded returns.
DropSlot(t) ==
  /\ pc[t] = "dropping"
  /\ running' = running - 1
  /\ Goto(t, "responding")
  /\ UNCHANGED <<request, current, reply, up, arrived>>

\* The answer is sent, or its client has gone; the thread ends.
Respond(t) ==
  /\ pc[t] = "responding"
  /\ Goto(t, "idle")
  /\ Conclude(t, "none")
  /\ current' = [current EXCEPT ![t] = 0]
  /\ request' = [request EXCEPT ![t] = AnyShape]
  /\ UNCHANGED <<running, up, arrived>>

\* accept() fails: drive ends, run returns, and every thread with the process.
AcceptFails ==
  /\ up
  /\ up' = FALSE
  /\ pc' = [t \in Threads |-> "idle"]
  /\ request' = [t \in Threads |-> AnyShape]
  /\ current' = [t \in Threads |-> 0]
  /\ reply' = [t \in Threads |-> "none"]
  /\ running' = 0
  /\ UNCHANGED arrived

\* The container starts the process again (compose: restart unless-stopped).
Restart ==
  /\ ~up
  /\ up' = TRUE
  /\ UNCHANGED <<pc, request, current, reply, running, arrived>>

\* The steps a thread takes by itself, waiting for nobody.
Alone(t) == \/ AnswerFromHead(t) \/ Load(t) \/ Busy(t) \/ TakeSlot(t) \/ Retry(t)
            \/ DropSlot(t) \/ Respond(t)

\* The steps for which it waits for its client, or for the router.
Awaited(t) == Read(t) \/ \E outcome \in Routed : Route(t, outcome)

Next == \/ \E t \in Threads : \/ \E s \in Shapes : Accept(t, s)
                              \/ Alone(t)
                              \/ Awaited(t)
        \/ AcceptFails
        \/ Restart

Spec == Init /\ [][Next]_vars

\* Threads run on by themselves; clients and backends may stall for ever.
RunningSpec == Spec /\ \A t \in Threads : WF_vars(Alone(t))

\* Clients send their bodies and the router's backends keep their deadlines.
OthersGoOn == \A t \in Threads : WF_vars(Awaited(t))

----------------------------------------------------------------------------
(* What must hold.                                                         *)

Holders == {t \in Threads : pc[t] \in {"reading", "routing", "dropping"}}

\* The counter counts the completions under way, after any interleaving of
\* takes, refusals, drops and restarts: no slot leaks, none is lent twice.
CounterIsExact == running = Cardinality(Holders)

\* At most MAX_CONCURRENT_COMPLETIONS completions at once (8.14(d)): what the
\* semaphore below grants, too.
AtMostMax == Cardinality(Holders) <= Max

\* The router, which spends the plan, only ever sees completions that came
\* over loopback, from no browser, as JSON, with a body that was read whole.
OnlyCompletionsAreRouted ==
  \A t \in Threads : pc[t] = "routing" =>
    LET s == request[t] IN
    s.target = "complete" /\ s.loopback /\ ~s.browser /\ s.json
      /\ s.length = "fits" /\ s.body = "valid"

\* A slow completion holds nobody up but completions: whatever is answered
\* from its head is answered, and a completion that finds no slot is told so,
\* even if no body ever comes and no backend ever answers (run's comment: a
\* Claude answer must not hold up health checks).
NobodyIsHeldUp ==
  \A t \in Threads : pc[t] \in {"checking", "taking", "dropping", "responding"}
      ~> pc[t] \in {"idle", "reading"}

\* If clients and backends go on, every request is answered, or ends with the
\* process.
EveryThreadEnds ==
  OthersGoOn => \A t \in Threads : pc[t] # "idle" ~> pc[t] = "idle"

\* The slots are a semaphore, and "busy" is only ever said of a moment when
\* every slot was taken: the moment of the reading it is said for, although
\* slots may have come free since.
Turned == {t \in Threads : \/ (pc[t] = "taking" /\ current[t] >= Max)
                           \/ (pc[t] = "responding" /\ reply[t] = "busy")}

Slots == INSTANCE Semaphore WITH Users <- Threads, holders <- Holders, turned <- Turned

SlotsAreASemaphore == Slots!Spec
=============================================================================
