---------------------------- MODULE StatusChecks ---------------------------
(***************************************************************************)
(* router.rs and server.rs: what GET /status knows of backends that cannot *)
(* probe themselves.  Every answer a backend gives, to a client or to a    *)
(* check, is noted in the table `seen' with its time.  One thread checks:  *)
(* it takes the time and the table once, asks each silent backend that was *)
(* not seen within its period one tiny request, and sleeps for the         *)
(* server's period.                                                        *)
(*                                                                         *)
(* A thread here is one request to one backend: a share of a client's      *)
(* route, or a check.  It waits for the answer, takes the time, and only   *)
(* then locks the table.  Time is in seconds; a second is long enough for  *)
(* a thread that has its answer to enter it (Tick).                        *)
(***************************************************************************)
EXTENDS Integers

CONSTANTS N,          \* backends are numbered in the configured order
          Probed,     \* those with a probe, which are never checked
          Period,     \* check_every_secs: the server's period
          PeriodOf,   \* each backend's: its own, or the server's
          Results,    \* the answers backends give, of AllResults
          Clients,    \* the clients' threads, each one request after another
          MaxTime     \* bound: the seconds of a run

Checkable == 1..N

AllResults == {"ok", "quota_exceeded", "unreachable", "other"}

ASSUME ChecksAssumption ==
         /\ N \in Nat \ {0}
         /\ Probed \subseteq Checkable
         /\ Period \in Nat
         /\ PeriodOf \in [Checkable -> Nat]
         /\ Results \subseteq AllResults
         /\ Clients \subseteq STRING /\ "checker" \notin Clients
         /\ MaxTime \in Nat

Threads == Clients \cup {"checker"}

Silent == Checkable \ Probed

VARIABLES now,       \* the time
          seen,      \* the table: each backend's noted answer and its time
          stage,        \* where each thread is
          on,        \* the backend each is at; the checker: 0 before the first
          got,       \* the answer each is about to note, with its time
          started,   \* when the check of this round read the time
          recent,    \* the backends it found seen within their period
          checked    \* when each backend was last asked by a check

checkVars == <<now, seen, stage, on, got, started, recent, checked>>

Never == [at |-> -1, said |-> "never"]

Notes == [at : 0..MaxTime, said : Results] \cup {Never}

ChecksTypeOK ==
  /\ now \in 0..MaxTime
  /\ seen \in [Checkable -> Notes]
  /\ stage \in [Threads -> {"ready", "asking", "noting", "asleep"}]
  /\ on \in [Threads -> 0..N]
  /\ got \in [Threads -> [at : -1..MaxTime, said : Results \cup {"never"}]]
  /\ started \in 0..MaxTime
  /\ recent \subseteq Checkable
  /\ checked \in [Checkable -> -1..MaxTime]

\* The server starts: nothing is remembered, and the checker wakes at once.
ChecksInit ==
  /\ now = 0
  /\ seen = [b \in Checkable |-> Never]
  /\ stage = [t \in Threads |-> IF t = "checker" THEN "asleep" ELSE "ready"]
  /\ on = [t \in Threads |-> 0]
  /\ got = [t \in Threads |-> Never]
  /\ started = 0
  /\ recent = {}
  /\ checked = [b \in Checkable |-> -1]

Reach(t, where) == stage' = [stage EXCEPT ![t] = where]

----------------------------------------------------------------------------
(* One request to one backend: asked, answered, noted.                     *)

\* The answer comes, and remember takes the time.
Answer(t, result) ==
  /\ stage[t] = "asking"
  /\ got' = [got EXCEPT ![t] = [at |-> now, said |-> result]]
  /\ Reach(t, "noting")
  /\ UNCHANGED <<now, seen, on, started, recent, checked>>

\* remember's insert: whoever comes last is what the table says.
Note(t) ==
  /\ stage[t] = "noting"
  /\ seen' = [seen EXCEPT ![on[t]] = got[t]]
  /\ got' = [got EXCEPT ![t] = Never]
  /\ Reach(t, "ready")
  /\ UNCHANGED <<now, on, started, recent, checked>>

\* A client's request reaches backend b (Router says which backends).
ClientAsks(c, b) ==
  /\ stage[c] = "ready" /\ c # "checker"
  /\ on' = [on EXCEPT ![c] = b]
  /\ Reach(c, "asking")
  /\ UNCHANGED <<now, seen, got, started, recent, checked>>

----------------------------------------------------------------------------
(* The check thread: Router::check, then a sleep, for ever.                *)

\* Mutant: the server's period for every backend.
IsRecentForServer(b) == seen[b] # Never /\ now - seen[b].at < Period

\* Seen within its period: `now.saturating_sub(at) < period', as whole seconds.
IsRecent(b) == seen[b] # Never /\ now - seen[b].at < PeriodOf[b]

\* The sleep is over: at once at the start, else Period after the round.
Wake ==
  /\ stage["checker"] = "asleep"
  /\ on["checker"] = 0 \/ now >= got["checker"].at + Period
  /\ started' = now
  /\ recent' = {b \in Checkable : IsRecent(b)}
  /\ on' = [on EXCEPT !["checker"] = 0]
  /\ got' = [got EXCEPT !["checker"] = Never]
  /\ Reach("checker", "ready")
  /\ UNCHANGED <<now, seen, checked>>

\* The backends this round has still to ask.
Due == {b \in Silent \ recent : b > on["checker"]}

CheckNext(b) ==
  /\ stage["checker"] = "ready"
  /\ b \in Due /\ \A d \in Due : b <= d
  /\ on' = [on EXCEPT !["checker"] = b]
  /\ checked' = [checked EXCEPT ![b] = now]
  /\ Reach("checker", "asking")
  /\ UNCHANGED <<now, seen, got, started, recent>>

\* The round is over; the time it ended is kept in got for the sleep.
Sleep ==
  /\ stage["checker"] = "ready"
  /\ Due = {}
  /\ got' = [got EXCEPT !["checker"] = [at |-> now, said |-> "never"]]
  /\ on' = [on EXCEPT !["checker"] = N]
  /\ Reach("checker", "asleep")
  /\ UNCHANGED <<now, seen, started, recent, checked>>

\* A second passes, in which nobody is left between his answer and the table.
Tick ==
  /\ now < MaxTime
  /\ \A t \in Threads : stage[t] # "noting"
  /\ now' = now + 1
  /\ UNCHANGED <<seen, stage, on, got, started, recent, checked>>

ChecksNext ==
  \/ \E t \in Threads : Note(t) \/ \E result \in Results : Answer(t, result)
  \/ \E c \in Clients, b \in Checkable : ClientAsks(c, b)
  \/ \E b \in Checkable : CheckNext(b)
  \/ Wake
  \/ Sleep
  \/ Tick

ChecksSpec == ChecksInit /\ [][ChecksNext]_checkVars

----------------------------------------------------------------------------
(* What must hold.                                                         *)

\* What /status says of a silent backend.
State(b) == CASE seen[b].said = "never"          -> "unknown"
              [] seen[b].said = "ok"             -> "up"
              [] seen[b].said = "quota_exceeded" -> "limited"
              [] seen[b].said = "unreachable"    -> "down"
              [] seen[b].said = "other"          -> "stopped"

\* After a round no silent backend is unknown, and what the table says of it
\* is of the round, or less than its period older, however requests of clients
\* fall into it: /status "holds a recent state" (with_checks).
RoundsRefresh ==
  stage["checker"] = "asleep" /\ on["checker"] # 0
    => \A b \in Silent :
         /\ State(b) # "unknown"
         /\ seen[b].at >= started \/ started - seen[b].at < PeriodOf[b]

CheckAsks(b) == checked'[b] # checked[b]

\* Two checks of a backend are at least its own period apart (8.55: a free
\* key allows fewer requests a day than there are rounds).
ChecksAreSpaced ==
  [][\A b \in Checkable :
       CheckAsks(b) /\ checked[b] # -1 => now - checked[b] >= PeriodOf[b]]_checkVars

\* Both sides of the comparison in check: no backend is left to grow stale,
\* and none is asked within its own period.
ChecksKeepTime == []RoundsRefresh /\ ChecksAreSpaced
=============================================================================
