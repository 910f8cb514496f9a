------------------------------ MODULE LmSlots ------------------------------
(***************************************************************************)
(* lm_studio.rs: how the adapter of a local (or OpenAI-compatible) server  *)
(* lets at most Max completions reach it at once.  `free' is behind a      *)
(* mutex; a call that finds no slot waits on a condition variable until it *)
(* is woken or its deadline passes, looks again, and gives up as           *)
(* Unreachable.  A slot is given back on drop: first the count, then, with *)
(* the mutex released, notify_one.                                         *)
(*                                                                         *)
(* What is done under the mutex is one step.  Time is one bit per call:    *)
(* whether its deadline has passed.                                        *)
(***************************************************************************)
EXTENDS Naturals, FiniteSets

CONSTANTS Callers, \* the threads that call complete, again and again
          Max      \* with_max_concurrent

ASSUME SlotsAssumption == IsFiniteSet(Callers) /\ Max \in Nat \ {0}

VARIABLES doing,     \* where each call is
          free,      \* the slots left
          expired    \* whether each call's deadline has passed

slotVars == <<doing, free, expired>>

Places == {"idle", "entering", "waiting", "woken", "holding", "notifying", "refused"}

SlotsTypeOK ==
  /\ doing \in [Callers -> Places]
  /\ free \in Nat
  /\ expired \in [Callers -> BOOLEAN]

SlotsInit ==
  /\ doing = [c \in Callers |-> "idle"]
  /\ free = Max
  /\ expired = [c \in Callers |-> FALSE]

At(place) == {c \in Callers : doing[c] = place}

GoesTo(c, place) == doing' = [doing EXCEPT ![c] = place]

----------------------------------------------------------------------------

\* complete: the deadline is set before the slot is asked for.
Call(c) ==
  /\ doing[c] = "idle"
  /\ expired' = [expired EXCEPT ![c] = FALSE]
  /\ GoesTo(c, "entering")
  /\ UNCHANGED free

\* Time passes.
Expire(c) ==
  /\ doing[c] \in {"entering", "waiting", "woken", "holding"}
  /\ ~expired[c]
  /\ expired' = [expired EXCEPT ![c] = TRUE]
  /\ UNCHANGED <<doing, free>>

\* take, with the mutex held: the count is looked at before the deadline,
\* on entering and after every waking.
Looking(c) == doing[c] \in {"entering", "woken"}

Take(c) ==
  /\ Looking(c)
  /\ free # 0
  /\ free' = free - 1
  /\ GoesTo(c, "holding")
  /\ UNCHANGED expired

GiveUp(c) ==
  /\ Looking(c)
  /\ free = 0 /\ expired[c]
  /\ GoesTo(c, "refused")
  /\ UNCHANGED <<free, expired>>

Wait(c) ==
  /\ Looking(c)
  /\ free = 0 /\ ~expired[c]
  /\ GoesTo(c, "waiting")
  /\ UNCHANGED <<free, expired>>

Look(c) == Take(c) \/ GiveUp(c) \/ Wait(c)

\* wait_timeout returns by itself, at the deadline or spuriously.
WakeUp(c) ==
  /\ doing[c] = "waiting"
  /\ GoesTo(c, "woken")
  /\ UNCHANGED <<free, expired>>

\* The server has answered, or what was left of the time is over: the slot
\* is dropped, whatever the outcome.
GiveBack(c) ==
  /\ doing[c] = "holding"
  /\ free' = free + 1
  /\ GoesTo(c, "notifying")
  /\ UNCHANGED expired

\* Mutant: nobody is notified.
NotifyNobody(c) ==
  /\ doing[c] = "notifying"
  /\ GoesTo(c, "idle")
  /\ UNCHANGED <<free, expired>>

\* notify_one: some waiting call, if there is one.
Notify(c) ==
  /\ doing[c] = "notifying"
  /\ \/ \E w \in At("waiting") :
          doing' = [doing EXCEPT ![c] = "idle", ![w] = "woken"]
     \/ At("waiting") = {} /\ GoesTo(c, "idle")
  /\ UNCHANGED <<free, expired>>

\* The refusal is returned as Unreachable.
Return(c) ==
  /\ doing[c] = "refused"
  /\ GoesTo(c, "idle")
  /\ UNCHANGED <<free, expired>>

SlotsNext == \E c \in Callers : \/ Call(c) \/ Expire(c) \/ Look(c) \/ WakeUp(c)
                                \/ GiveBack(c) \/ Notify(c) \/ Return(c)

SlotsSpec == SlotsInit /\ [][SlotsNext]_slotVars

\* Threads run on; deadlines may be far away and the server may hang.
ThreadsRunOn == \A c \in Callers : WF_slotVars(Look(c)) /\ WF_slotVars(Notify(c))

----------------------------------------------------------------------------
(* What must hold.                                                         *)

\* Every slot is free or held by one call: none leaks when a call gives up,
\* fails or is woken for nothing, and none is lent twice.
SlotsConserved == free + Cardinality(At("holding")) = Max

\* No wake-up is lost: while somebody waits, each free slot has a call on its
\* way to it, woken to look again or about to notify.  A slot never lies
\* idle in front of a sleeping call.
Coming == {c \in Callers : doing[c] \in {"woken", "notifying"}}

NoLostWakeup == At("waiting") # {} => free <= Cardinality(Coming)

\* So a slot that comes free in front of a waiting call is used, or the wait
\* is over, without any deadline having to pass.
FreedSlotIsUsed ==
  (free > 0 /\ At("waiting") # {}) ~> (free = 0 \/ At("waiting") = {})

\* The adapter's slots are a semaphore: in particular a call is only refused
\* at a moment when every slot is held, even when its deadline has passed.
Slots == INSTANCE Semaphore WITH
  Users <- Callers, holders <- At("holding"), turned <- At("refused")

SlotsAreASemaphore == Slots!Spec
=============================================================================
