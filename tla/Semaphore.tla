----------------------------- MODULE Semaphore -----------------------------
(***************************************************************************)
(* A counting semaphore as its users see it: at most Max of them hold a    *)
(* slot, and a user is turned away only at a moment when no slot is free.  *)
(* HttpServer (a compare-exchange loop) and LmSlots (a mutex, a condition  *)
(* variable and a deadline) both implement it.                             *)
(***************************************************************************)
EXTENDS Naturals, FiniteSets

CONSTANTS Users, Max

VARIABLES holders,   \* who holds a slot
          turned     \* who has been told that there is none

vars == <<holders, turned>>

Init == holders = {} /\ turned = {}

Take(u) ==
  /\ u \notin holders
  /\ Cardinality(holders) < Max
  /\ holders' = holders \cup {u}
  /\ UNCHANGED turned

TurnAway(u) ==
  /\ u \notin holders
  /\ Cardinality(holders) = Max
  /\ turned' = turned \cup {u}
  /\ UNCHANGED holders

GiveBack(u) ==
  /\ u \in holders
  /\ holders' = holders \ {u}
  /\ UNCHANGED turned

GoAway(u) ==
  /\ u \in turned
  /\ turned' = turned \ {u}
  /\ UNCHANGED holders

\* The process ends, and every user with it.
End == holders' = {} /\ turned' = {}

Next == \/ End
        \/ \E u \in Users : Take(u) \/ TurnAway(u) \/ GiveBack(u) \/ GoAway(u)

Spec == Init /\ [][Next]_vars
=============================================================================
