----------------------------- MODULE ClaudeLatch ----------------------------
(***************************************************************************)
(* claude_code.rs: the billing tripwire and its latch.  When the claude    *)
(* CLI reports that it is billed per token, the adapter throws the answer  *)
(* away, sets a flag in memory and writes a marker file; a request that    *)
(* finds either is refused before claude is started.                       *)
(*                                                                         *)
(* A flag belongs to one backend of one process.  The marker file belongs  *)
(* to the journal: every claude backend of every process that has the      *)
(* journal shares it (the server, and each run of `itsaresume complete').  *)
(* Requests look and claude runs outside any lock, so requests that have   *)
(* looked already are not stopped by a tripwire that fires meanwhile.      *)
(***************************************************************************)
CONSTANTS Calls,       \* the completions of the run, one each
          Processes,   \* the processes that share one journal
          Backends     \* the claude backends each of them configures

VARIABLES pc,          \* where each call is
          process,     \* the process each runs in
          backend,     \* the backend it is for
          tripped,     \* tripped[p]: the backends whose flag is set in p
          marked,      \* the marker file exists
          unwritten,   \* a write of the marker file has failed (ignored)
          answered,    \* a tripwire has been answered, and no owner has come
          knew         \* what was known against each call when it came

vars == <<pc, process, backend, tripped, marked, unwritten, answered, knew>>

Warnings == {"flag", "file", "answer"}

TypeOK ==
  /\ pc \in [Calls -> {"new", "entered", "unmarked", "running", "firing",
                       "marking", "done"}]
  /\ process \in [Calls -> Processes]
  /\ backend \in [Calls -> Backends]
  /\ tripped \in [Processes -> SUBSET Backends]
  /\ marked \in BOOLEAN
  /\ unwritten \in BOOLEAN
  /\ answered \in BOOLEAN
  /\ knew \in [Calls -> SUBSET Warnings]

Init ==
  /\ pc = [c \in Calls |-> "new"]
  /\ process \in [Calls -> Processes]
  /\ backend \in [Calls -> Backends]
  /\ tripped = [p \in Processes |-> {}]
  /\ marked = FALSE
  /\ unwritten = FALSE
  /\ answered = FALSE
  /\ knew = [c \in Calls |-> {}]

Goto(c, where) == pc' = [pc EXCEPT ![c] = where]

Flagged(c) == backend[c] \in tripped[process[c]]

----------------------------------------------------------------------------
(* One completion.                                                         *)

Enter(c) ==
  /\ pc[c] = "new"
  /\ knew' = [knew EXCEPT ![c] = {w \in Warnings : \/ w = "flag" /\ Flagged(c)
                                                   \/ w = "file" /\ marked
                                                   \/ w = "answer" /\ answered}]
  /\ Goto(c, "entered")
  /\ UNCHANGED <<process, backend, tripped, marked, unwritten, answered>>

\* latched: the file is looked at first.  Either way the flag is read next,
\* but once the file was seen the call is refused whatever it says.
SeeMarker(c) ==
  /\ pc[c] = "entered"
  /\ Goto(c, IF marked THEN "done" ELSE "unmarked")
  /\ UNCHANGED <<process, backend, tripped, marked, unwritten, answered, knew>>

Refuse(c) ==
  /\ pc[c] = "unmarked"
  /\ Flagged(c)
  /\ Goto(c, "done")
  /\ UNCHANGED <<process, backend, tripped, marked, unwritten, answered, knew>>

\* Mutant: the flag is not looked at.
SpawnFlagged(c) ==
  /\ pc[c] = "unmarked"
  /\ Goto(c, "running")
  /\ UNCHANGED <<process, backend, tripped, marked, unwritten, answered, knew>>

Spawn(c) ==
  /\ pc[c] = "unmarked"
  /\ ~Flagged(c)
  /\ Goto(c, "running")
  /\ UNCHANGED <<process, backend, tripped, marked, unwritten, answered, knew>>

\* No claude could be started, or it answered, failed or was killed at its
\* deadline: whatever it was billed, no tripwire fires.
End(c) ==
  /\ pc[c] \in {"unmarked", "running"}
  /\ pc[c] = "unmarked" => ~Flagged(c)
  /\ Goto(c, "done")
  /\ UNCHANGED <<process, backend, tripped, marked, unwritten, answered, knew>>

\* Its first message names a billing source, or the plan is in overage.
Fire(c) ==
  /\ pc[c] = "running"
  /\ Goto(c, "firing")
  /\ UNCHANGED <<process, backend, tripped, marked, unwritten, answered, knew>>

SetFlag(c) ==
  /\ pc[c] = "firing"
  /\ tripped' = [tripped EXCEPT ![process[c]] = @ \cup {backend[c]}]
  /\ Goto(c, "marking")
  /\ UNCHANGED <<process, backend, marked, unwritten, answered, knew>>

\* `let _ = write(...)': whether it is written or not, the call is answered
\* with the tripwire.
Mark(c) ==
  /\ pc[c] = "marking"
  /\ \/ marked' = TRUE /\ UNCHANGED unwritten
     \/ unwritten' = TRUE /\ UNCHANGED marked
  /\ answered' = TRUE
  /\ Goto(c, "done")
  /\ UNCHANGED <<process, backend, tripped, knew>>

----------------------------------------------------------------------------
(* What happens to the processes and to the file.                          *)

\* A process ends, and another of the same configuration takes its place:
\* its calls end unanswered and its flags are gone.
Restart(p) ==
  /\ tripped' = [tripped EXCEPT ![p] = {}]
  /\ pc' = [c \in Calls |-> IF process[c] = p /\ pc[c] # "new" THEN "done" ELSE pc[c]]
  /\ UNCHANGED <<process, backend, marked, unwritten, answered, knew>>

\* The owner mends the billing source and deletes the file.  What was known
\* against a call by way of the file or of an answer counts no more.
OwnerClears ==
  /\ marked
  /\ marked' = FALSE
  /\ answered' = FALSE
  /\ knew' = [c \in Calls |-> knew[c] \cap {"flag"}]
  /\ UNCHANGED <<pc, process, backend, tripped, unwritten>>

Step(c) == \/ Enter(c) \/ SeeMarker(c) \/ Refuse(c) \/ Spawn(c) \/ End(c)
           \/ Fire(c) \/ SetFlag(c) \/ Mark(c)

Next == \/ \E c \in Calls : Step(c)
        \/ \E p \in Processes : Restart(p)
        \/ OwnerClears

Spec == Init /\ [][Next]_vars

----------------------------------------------------------------------------
(* What must hold.                                                         *)

\* Claude is about to run for c, and was not.
Starts(c) == pc[c] # "running" /\ pc'[c] = "running"

\* A call that came after its backend's flag was set, or while the marker
\* file was there, does not start claude, however its two looks fall between
\* the steps of other calls, of restarts and of the owner; and one that came
\* after any tripwire answer at all, of any backend of any process, starts it
\* only if some marker file could not be written.
LatchHolds ==
  [][\A c \in Calls : Starts(c) => /\ knew[c] \cap {"flag", "file"} = {}
                                   /\ "answer" \in knew[c] => unwritten]_vars

\* The two halves of the latch agree: a tripwire that was answered and not
\* cleared by the owner is on file, unless that write failed.
AnswersAreOnFile == answered => marked \/ unwritten
=============================================================================
