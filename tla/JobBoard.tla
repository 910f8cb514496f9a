------------------------------ MODULE JobBoard -------------------------------
(***************************************************************************)
(* What the generator's server (JobServer) promises of the jobs of its     *)
(* visitors, and all that the page relies on: jobs are numbered as they    *)
(* are accepted, and each only moves forward.                              *)
(***************************************************************************)
EXTENDS Naturals

CONSTANT MaxAccepted    \* bound: how many jobs are accepted

VARIABLES accepted,     \* how many jobs there have been
          status        \* each job's: "gone" when evicted, "lost" in a restart

board == <<accepted, status>>

Ids == 1..MaxAccepted

InFlight == {"queued", "running"}

Finished == {"done", "failed"}

\* Those the server still holds.
Jobs == {j \in Ids : status[j] \in InFlight \cup Finished}

BoardInit ==
  /\ accepted = 0
  /\ status = [j \in Ids |-> "none"]

\* Where a job may go; a new one may start at once, be answered from an
\* earlier run, and be evicted for those that came with it.
Ahead(s) ==
  CASE s = "none"      -> {"queued", "running", "done", "gone"}
    [] s = "queued"    -> {"running", "lost"}
    [] s = "running"   -> {"done", "failed", "lost"}
    [] s \in Finished  -> {"gone", "lost"}
    [] OTHER           -> {}

\* The next n jobs are accepted, the others stay or move on.
Advance(n) ==
  /\ accepted + n <= MaxAccepted
  /\ accepted' = accepted + n
  /\ status' \in [Ids -> {"none", "gone", "lost"} \cup InFlight \cup Finished]
  /\ \A j \in Ids : IF j <= accepted \/ j > accepted'
                      THEN status'[j] = status[j] \/ (j <= accepted /\ status'[j] \in Ahead(status[j]))
                      ELSE status'[j] \in Ahead("none")

BoardSpec == BoardInit /\ [][\E n \in 0..MaxAccepted : Advance(n)]_board
=============================================================================
