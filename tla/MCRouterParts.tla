--------------------------- MODULE MCRouterParts ---------------------------
(***************************************************************************)
(* Four parts of the router that share no state, each on its own: the      *)
(* billing latch on a server and a command-line run that share a journal;  *)
(* the checks of a backend with a probe and two without, of which one is   *)
(* checked every third second only, the other every second; the slots of a *)
(* local server, two that four calls share; and one completion in a child  *)
(* process, whose prompt, answer and errors are all longer than a pipe.    *)
(***************************************************************************)
EXTENDS ClaudeLatch, StatusChecks, LmSlots, TLC

MCPeriodOf == 1 :> 1 @@ 2 :> 3 @@ 3 :> 1

VARIABLES cli, place, child, sent, taken, files, tries, verdict, billed, disk, orphans, number

Run == INSTANCE ChildRun
         WITH Calls <- {"call"}, Clis <- {"claude", "gemini"}, Outputs <- {<< >>},
              Size <- [s \in {"in", "out", "err"} |-> 2], Room <- 1,
              MaxTries <- 1, Left <- {}, pc <- place, next <- number

childVars == <<cli, place, child, sent, taken, files, tries, verdict, billed, disk, orphans, number>>

\* Full pipes hold up no completion for ever (ChildRun).
EveryCallReturns == Run!EveryCallReturns

VARIABLE part      \* the part that runs

PartsInit ==
  /\ Init
  /\ ChecksInit
  /\ SlotsInit
  /\ Run!Init
  /\ part \in {"latch", "checks", "slots", "child"}
  /\ part # "latch" => \A c \in Calls : /\ process[c] = CHOOSE p \in Processes : TRUE
                                       /\ backend[c] = CHOOSE b \in Backends : TRUE
  /\ part # "child" => cli = [c \in {"call"} |-> "claude"]

PartsNext ==
  \/ part = "latch"  /\ Next       /\ UNCHANGED <<checkVars, slotVars, childVars, part>>
  \/ part = "checks" /\ ChecksNext /\ UNCHANGED <<vars, slotVars, childVars, part>>
  \/ part = "slots"  /\ SlotsNext  /\ UNCHANGED <<vars, checkVars, childVars, part>>
  \/ part = "child"  /\ Run!Next   /\ UNCHANGED <<vars, checkVars, slotVars, part>>

\* Of the four, only the threads of the local server and of an adapter are
\* sure to run on.
PartsSpec ==
  /\ PartsInit /\ [][PartsNext]_<<vars, checkVars, slotVars, childVars, part>>
  /\ ThreadsRunOn
  /\ Run!AdaptersRunOn
=============================================================================
