-------------------------- MODULE HttpServerProofs -------------------------
(***************************************************************************)
(* The completion slots of HttpServer, for any number of threads, of slots *)
(* and of requests.  The invariant that carries everything is that the     *)
(* counter is exactly the number of threads that hold a slot: then what a  *)
(* compare-exchange compares is what a semaphore decides on.               *)
(***************************************************************************)
EXTENDS HttpServer, FiniteSetTheorems, TLAPS

LEMMA HoldersFinite == IsFiniteSet(Holders) /\ Cardinality(Holders) \in Nat
<1>1. Holders \subseteq Threads
  BY DEF Holders
<1>q. QED
  BY <1>1, ServerAssumption, FS_Subset, FS_CardinalityType

\* What one thread more, or one less, does to a count.
LEMMA OneMore ==
  ASSUME NEW S, IsFiniteSet(S), NEW x
  PROVE  /\ x \notin S => Cardinality(S \cup {x}) = Cardinality(S) + 1
         /\ x \in S => /\ Cardinality(S \ {x}) = Cardinality(S) - 1
                       /\ Cardinality(S) # 0
<1>1. Cardinality(S) \in Nat
  BY FS_CardinalityType
<1>2. x \notin S => Cardinality(S \cup {x}) = Cardinality(S) + 1
  BY FS_AddElement
<1>3. x \in S => Cardinality(S \ {x}) = Cardinality(S) - 1
  BY FS_RemoveElement
<1>4. x \in S => Cardinality(S) # 0
  BY FS_EmptySet
<1>q. QED
  BY <1>2, <1>3, <1>4

(***************************************************************************)
(* The inductive invariant: a request that waits for a slot or holds one   *)
(* has passed the checks on its head, and one with the router those on its *)
(* body too; and whoever held a slot is not told that there was none.      *)
(***************************************************************************)
Checked(t) ==
  /\ pc[t] \in {"taking", "reading", "routing"} => FromHead(request[t]) = "none"
  /\ pc[t] = "routing" => FromBody(request[t]) = "none"
  /\ pc[t] = "dropping" => reply[t] # "busy"

IInv == TypeOK /\ CounterIsExact /\ AtMostMax /\ \A t \in Threads : Checked(t)

\* The steps that move no slot.
Slotless(t) == \/ \E s \in Shapes : Accept(t, s)
               \/ AnswerFromHead(t) \/ Load(t) \/ Busy(t) \/ Retry(t)
               \/ Awaited(t) \/ Respond(t)

LEMMA HeadReplies ==
  \A s \in Shapes : /\ FromHead(s) \in (Replies \cup {"none"}) \ {"busy"}
                    /\ FromBody(s) \in (Replies \cup {"none"}) \ {"busy"}
BY ServerAssumption DEF AllShapes, FromHead, FromRoute, FromGuarded, FromBody, Replies, Routed

LEMMA TypeStep == TypeOK /\ CounterIsExact /\ [Next]_vars => TypeOK'
<1> SUFFICES ASSUME TypeOK, CounterIsExact, [Next]_vars PROVE TypeOK'
  OBVIOUS
<1> USE ServerAssumption DEF TypeOK
<1>0. AnyShape \in Shapes
  BY DEF AnyShape
<1>1. CASE UNCHANGED vars
  BY <1>1 DEF vars
<1>2. ASSUME NEW t \in Threads, NEW s \in Shapes, Accept(t, s) PROVE TypeOK'
  BY <1>2 DEF Accept, Goto
<1>3. ASSUME NEW t \in Threads, AnswerFromHead(t) PROVE TypeOK'
  BY <1>3, HeadReplies DEF AnswerFromHead, Goto, Conclude
<1>4. ASSUME NEW t \in Threads, Load(t) \/ Retry(t) \/ TakeSlot(t) PROVE TypeOK'
  BY <1>4 DEF Load, Retry, TakeSlot, Goto
<1>5. ASSUME NEW t \in Threads, Busy(t) PROVE TypeOK'
  BY <1>5 DEF Busy, Goto, Conclude, Replies
<1>6. ASSUME NEW t \in Threads, Read(t) PROVE TypeOK'
  BY <1>6, HeadReplies DEF Read, Goto, Conclude
<1>7. ASSUME NEW t \in Threads, NEW o \in Routed, Route(t, o) PROVE TypeOK'
  BY <1>7 DEF Route, Goto, Conclude, Replies
<1>8. ASSUME NEW t \in Threads, DropSlot(t) PROVE TypeOK'
  <2>1. t \in Holders
    BY <1>8 DEF DropSlot, Holders
  <2>2. running # 0
    BY <2>1, HoldersFinite, OneMore DEF CounterIsExact
  <2>q. QED
    BY <1>8, <2>2 DEF DropSlot, Goto
<1>9. ASSUME NEW t \in Threads, Respond(t) PROVE TypeOK'
  BY <1>0, <1>9 DEF Respond, Goto, Conclude
<1>10. CASE AcceptFails
  <2>1. /\ \A t \in Threads : AnyShape \in Shapes /\ 0 \in Nat
        /\ pc' = [t \in Threads |-> "idle"] /\ request' = [t \in Threads |-> AnyShape]
        /\ current' = [t \in Threads |-> 0] /\ reply' = [t \in Threads |-> "none"]
        /\ running' = 0 /\ up' = FALSE /\ arrived' = arrived
    BY <1>0, <1>10 DEF AcceptFails
  <2>q. QED
    BY <2>1
<1>11. CASE Restart
  BY <1>11 DEF Restart
<1>q. QED
  BY <1>1, <1>2, <1>3, <1>4, <1>5, <1>6, <1>7, <1>8, <1>9, <1>10, <1>11
     DEF Next, Alone, Awaited

LEMMA CheckedStep == IInv /\ [Next]_vars => \A t \in Threads : Checked(t)'
<1> SUFFICES ASSUME IInv, [Next]_vars, NEW t \in Threads PROVE Checked(t)'
  OBVIOUS
<1>1. Checked(t)
  BY DEF IInv
<1>2. CASE UNCHANGED vars \/ AcceptFails \/ Restart
  BY <1>1, <1>2 DEF vars, AcceptFails, Restart, Checked
<1>3. ASSUME NEW u \in Threads, Alone(u) \/ Awaited(u) \/ \E s \in Shapes : Accept(u, s)
      PROVE  Checked(t)'
  <2>1. CASE u # t
    <3>1. pc'[t] = pc[t] /\ request'[t] = request[t] /\ reply'[t] = reply[t]
      BY <1>3, <2>1 DEF Alone, Awaited, Accept, AnswerFromHead, Load, Busy, TakeSlot, Retry,
                        Read, Route, DropSlot, Respond, Goto, Conclude, IInv, TypeOK
    <3>q. QED
      BY <1>1, <3>1 DEF Checked
  <2>2. CASE u = t
    <3>1. request[t] \in Shapes /\ "busy" \notin Routed
      BY DEF IInv, TypeOK, Routed
    <3>q. QED
      BY <1>1, <1>3, <2>2, <3>1, HeadReplies
         DEF Alone, Awaited, Accept, AnswerFromHead, Load, Busy, TakeSlot, Retry, Read, Route,
             DropSlot, Respond, Goto, Conclude, Checked, IInv, TypeOK
  <2>q. QED
    BY <2>1, <2>2
<1>q. QED
  BY <1>2, <1>3 DEF Next

----------------------------------------------------------------------------
(* What each step does to the slots.                                       *)

LEMMA SlotlessStep ==
  ASSUME TypeOK, NEW t \in Threads, Slotless(t)
  PROVE  Holders' = Holders /\ running' = running
<1>1. /\ running' = running
      /\ \A u \in Threads \ {t} : pc'[u] = pc[u]
      /\ pc[t] \in {"reading", "routing", "dropping"}
           <=> pc'[t] \in {"reading", "routing", "dropping"}
  BY DEF Slotless, Awaited, Accept, AnswerFromHead, Load, Busy, Retry, Read, Route, Respond,
         Goto, TypeOK
<1>q. QED
  BY <1>1 DEF Holders

LEMMA TakeStep ==
  ASSUME TypeOK, CounterIsExact, NEW t \in Threads, TakeSlot(t)
  PROVE  /\ t \notin Holders /\ Holders' = Holders \cup {t}
         /\ Cardinality(Holders) < Max /\ running' = running + 1
         /\ Cardinality(Holders') = Cardinality(Holders) + 1
<1>1. t \notin Holders /\ Holders' = Holders \cup {t}
  BY DEF TakeSlot, Goto, Holders, TypeOK
<1>2. Cardinality(Holders) < Max /\ running' = running + 1
  BY DEF TakeSlot, CounterIsExact
<1>q. QED
  BY <1>1, <1>2, HoldersFinite, OneMore

LEMMA DropStep ==
  ASSUME TypeOK, NEW t \in Threads, DropSlot(t)
  PROVE  /\ t \in Holders /\ Holders' = Holders \ {t} /\ running' = running - 1
         /\ Cardinality(Holders') = Cardinality(Holders) - 1
<1>1. t \in Holders /\ Holders' = Holders \ {t} /\ running' = running - 1
  BY DEF DropSlot, Goto, Holders, TypeOK
<1>q. QED
  BY <1>1, HoldersFinite, OneMore

LEMMA EndStep ==
  ASSUME AcceptFails
  PROVE  Holders' = {} /\ running' = 0 /\ Cardinality(Holders') = 0
<1>1. Holders' = {} /\ running' = 0
  BY DEF AcceptFails, Holders
<1>q. QED
  BY <1>1, FS_EmptySet

LEMMA InitIInv == Init => IInv
<1> SUFFICES ASSUME Init PROVE IInv
  OBVIOUS
<1>1. AnyShape \in Shapes
  BY ServerAssumption DEF AnyShape
<1>2. Holders = {}
  BY DEF Init, Holders
<1>3. Cardinality(Holders) = 0
  BY <1>2, FS_EmptySet
<1>q. QED
  BY <1>1, <1>3, ServerAssumption DEF Init, IInv, TypeOK, CounterIsExact, AtMostMax, Checked

LEMMA IInvStep == IInv /\ [Next]_vars => IInv'
<1> SUFFICES ASSUME IInv, [Next]_vars PROVE IInv'
  OBVIOUS
<1>1. TypeOK /\ CounterIsExact /\ AtMostMax /\ Cardinality(Holders) \in Nat /\ Max \in Nat
  BY HoldersFinite, ServerAssumption DEF IInv
<1>2. TypeOK' /\ \A t \in Threads : Checked(t)'
  BY TypeStep, CheckedStep DEF IInv
<1>3. CounterIsExact' /\ AtMostMax'
  <2>1. CASE UNCHANGED vars \/ Restart
    <3>1. Holders' = Holders /\ running' = running
      BY <2>1 DEF vars, Restart, Holders
    <3>q. QED
      BY <1>1, <3>1 DEF CounterIsExact, AtMostMax
  <2>2. CASE AcceptFails
    BY <1>1, <2>2, EndStep DEF CounterIsExact, AtMostMax
  <2>3. ASSUME NEW t \in Threads, Slotless(t) PROVE CounterIsExact' /\ AtMostMax'
    BY <1>1, <2>3, SlotlessStep DEF CounterIsExact, AtMostMax
  <2>4. ASSUME NEW t \in Threads, TakeSlot(t) PROVE CounterIsExact' /\ AtMostMax'
    BY <1>1, <2>4, TakeStep DEF CounterIsExact, AtMostMax
  <2>5. ASSUME NEW t \in Threads, DropSlot(t) PROVE CounterIsExact' /\ AtMostMax'
    BY <1>1, <2>5, DropStep DEF CounterIsExact, AtMostMax
  <2>q. QED
    BY <2>1, <2>2, <2>3, <2>4, <2>5 DEF Next, Alone, Slotless
<1>q. QED
  BY <1>2, <1>3 DEF IInv

LEMMA AlwaysIInv == Spec => []IInv
BY InitIInv, IInvStep, PTL DEF Spec

----------------------------------------------------------------------------

\* The counter never leaks a slot and never lends one twice, and no more than
\* Max completions ever run, whatever the threads, the slots and the traffic.
THEOREM SlotsNeverLeak == Spec => [](CounterIsExact /\ AtMostMax)
<1>1. IInv => CounterIsExact /\ AtMostMax
  BY DEF IInv
<1>q. QED
  BY <1>1, AlwaysIInv, PTL

\* Nothing but a well-formed local completion ever reaches the router.
THEOREM RoutedIsWellFormed == Spec => []OnlyCompletionsAreRouted
<1>1. IInv => OnlyCompletionsAreRouted
  <2> SUFFICES ASSUME IInv, NEW t \in Threads, pc[t] = "routing"
               PROVE  LET s == request[t] IN
                      s.target = "complete" /\ s.loopback /\ ~s.browser /\ s.json
                        /\ s.length = "fits" /\ s.body = "valid"
    BY DEF OnlyCompletionsAreRouted
  <2>1. /\ request[t] \in AllShapes
        /\ FromHead(request[t]) = "none" /\ FromBody(request[t]) = "none"
    BY ServerAssumption DEF IInv, TypeOK, Checked
  <2>q. QED
    BY <2>1 DEF AllShapes, FromHead, FromRoute, FromGuarded, FromBody
<1>q. QED
  BY <1>1, AlwaysIInv, PTL

----------------------------------------------------------------------------
(***************************************************************************)
(* The slots are a semaphore.  A thread is turned away in the step in      *)
(* which it reads a full counter, not in the later one in which it says    *)
(* so: at that moment every slot was indeed taken.                         *)
(***************************************************************************)
\* Semaphore counts as FiniteSets does.
LEMMA SameCount == \A S : Slots!Cardinality(S) = Cardinality(S)
BY Zenon DEF Slots!Cardinality, Cardinality

\* What a step of one thread leaves of the others.
LEMMA OthersTurned ==
  ASSUME TypeOK, NEW t \in Threads,
         Alone(t) \/ Awaited(t) \/ \E s \in Shapes : Accept(t, s)
  PROVE  \A u \in Threads \ {t} : u \in Turned' <=> u \in Turned
<1>1. \A u \in Threads \ {t} : /\ pc'[u] = pc[u] /\ current'[u] = current[u]
                               /\ reply'[u] = reply[u]
  BY DEF Alone, Awaited, Accept, AnswerFromHead, Load, Busy, TakeSlot, Retry, Read, Route,
         DropSlot, Respond, Goto, Conclude, TypeOK
<1>q. QED
  BY <1>1 DEF Turned

\* A reading of the counter turns the thread away, or does not.
LEMMA ReadingStep ==
  ASSUME IInv, NEW t \in Threads, Load(t) \/ Retry(t)
  PROVE  \/ Slots!TurnAway(t)
         \/ Holders' = Holders /\ Turned' = Turned
<1>1. Holders' = Holders
  BY SlotlessStep DEF IInv, Slotless
<1>2. /\ t \notin Holders /\ t \notin Turned
      /\ pc'[t] = "taking" /\ current'[t] = running
  BY ServerAssumption DEF Load, Retry, Goto, Holders, Turned, IInv, TypeOK
<1>3. \A u \in Threads \ {t} : u \in Turned' <=> u \in Turned
  BY OthersTurned DEF IInv, Alone
<1>4. CASE running >= Max
  <2>1. Cardinality(Holders) = Max
    BY <1>4, HoldersFinite, ServerAssumption DEF IInv, CounterIsExact, AtMostMax
  <2>2. t \in Turned'
    BY <1>2, <1>4 DEF Turned
  <2>3. Turned' = Turned \cup {t}
    BY <1>3, <2>2 DEF Turned
  <2>q. QED
    BY <1>1, <1>2, <2>1, <2>3, SameCount DEF Slots!TurnAway
<1>5. CASE ~(running >= Max)
  <2>1. t \notin Turned'
    BY <1>2, <1>5 DEF Turned
  <2>2. Turned' = Turned
    BY <1>2, <1>3, <2>1 DEF Turned
  <2>q. QED
    BY <1>1, <2>2
<1>q. QED
  BY <1>4, <1>5

\* The steps that neither read the counter nor write it.
LEMMA QuietStep ==
  ASSUME IInv, NEW t \in Threads,
         \/ \E s \in Shapes : Accept(t, s)
         \/ AnswerFromHead(t) \/ Busy(t) \/ Awaited(t)
  PROVE  Holders' = Holders /\ Turned' = Turned
<1>1. Holders' = Holders
  BY SlotlessStep DEF IInv, Slotless
<1>2. \A u \in Threads \ {t} : u \in Turned' <=> u \in Turned
  BY OthersTurned DEF IInv, Alone
<1>3. t \in Turned' <=> t \in Turned
  <2>1. CASE Busy(t)
    BY <2>1 DEF Busy, Goto, Conclude, Turned, IInv, TypeOK
  <2>2. CASE AnswerFromHead(t)
    <3>1. FromHead(request[t]) # "busy"
      BY HeadReplies DEF IInv, TypeOK
    <3>q. QED
      BY <2>2, <3>1 DEF AnswerFromHead, Goto, Conclude, Turned, IInv, TypeOK
  <2>3. CASE Awaited(t) \/ \E s \in Shapes : Accept(t, s)
    BY <2>3 DEF Awaited, Accept, Read, Route, Goto, Turned, IInv, TypeOK
  <2>q. QED
    BY <2>1, <2>2, <2>3
<1>q. QED
  BY <1>1, <1>2, <1>3 DEF Turned

LEMMA TakeIsTake ==
  ASSUME IInv, NEW t \in Threads, TakeSlot(t)
  PROVE  Slots!Take(t)
<1>1. \A u \in Threads \ {t} : u \in Turned' <=> u \in Turned
  BY OthersTurned DEF IInv, Alone
<1>2. t \notin Turned /\ t \notin Turned'
  BY ServerAssumption DEF TakeSlot, Goto, Turned, IInv, TypeOK
<1>3. Turned' = Turned
  BY <1>1, <1>2 DEF Turned
<1>q. QED
  BY <1>3, TakeStep, SameCount DEF IInv, Slots!Take

LEMMA DropIsGiveBack ==
  ASSUME IInv, NEW t \in Threads, DropSlot(t)
  PROVE  Slots!GiveBack(t)
<1>1. \A u \in Threads \ {t} : u \in Turned' <=> u \in Turned
  BY OthersTurned DEF IInv, Alone
<1>2. t \notin Turned /\ t \notin Turned'
  BY DEF DropSlot, Goto, Turned, Checked, IInv, TypeOK
<1>3. Turned' = Turned
  BY <1>1, <1>2 DEF Turned
<1>q. QED
  BY <1>3, DropStep DEF IInv, Slots!GiveBack

LEMMA RespondGoesAway ==
  ASSUME IInv, NEW t \in Threads, Respond(t)
  PROVE  \/ Slots!GoAway(t)
         \/ Holders' = Holders /\ Turned' = Turned
<1>1. Holders' = Holders
  BY SlotlessStep DEF IInv, Slotless
<1>2. \A u \in Threads \ {t} : u \in Turned' <=> u \in Turned
  BY OthersTurned DEF IInv, Alone
<1>3. t \notin Turned'
  BY DEF Respond, Goto, Turned, IInv, TypeOK
<1>4. Turned' = Turned \ {t}
  BY <1>2, <1>3 DEF Turned
<1>q. QED
  BY <1>1, <1>4 DEF Slots!GoAway

\* The compare-exchange loop implements the semaphore.
THEOREM ImplementsSemaphore == Spec => SlotsAreASemaphore
<1>1. Init => Slots!Init
  BY DEF Init, Slots!Init, Holders, Turned
<1>2. ASSUME IInv, [Next]_vars PROVE [Slots!Next]_(Slots!vars)
  <2>1. CASE UNCHANGED vars \/ Restart
    BY <2>1 DEF vars, Restart, Slots!vars, Holders, Turned
  <2>2. CASE AcceptFails
    BY <2>2 DEF AcceptFails, Slots!Next, Slots!End, Holders, Turned
  <2>3. ASSUME NEW t \in Threads,
               Alone(t) \/ Awaited(t) \/ \E s \in Shapes : Accept(t, s)
        PROVE  [Slots!Next]_(Slots!vars)
    <3>1. CASE Load(t) \/ Retry(t)
      BY <1>2, <3>1, ReadingStep DEF Slots!Next, Slots!vars
    <3>2. CASE TakeSlot(t)
      BY <1>2, <3>2, TakeIsTake DEF Slots!Next
    <3>3. CASE DropSlot(t)
      BY <1>2, <3>3, DropIsGiveBack DEF Slots!Next
    <3>4. CASE Respond(t)
      BY <1>2, <3>4, RespondGoesAway DEF Slots!Next, Slots!vars
    <3>5. CASE AnswerFromHead(t) \/ Busy(t) \/ Awaited(t) \/ \E s \in Shapes : Accept(t, s)
      BY <1>2, <3>5, QuietStep DEF Slots!vars
    <3>q. QED
      BY <2>3, <3>1, <3>2, <3>3, <3>4, <3>5 DEF Alone
  <2>q. QED
    BY <1>2, <2>1, <2>2, <2>3 DEF Next
<1>q. QED
  BY <1>1, <1>2, AlwaysIInv, PTL DEF Spec, SlotsAreASemaphore, Slots!Spec
=============================================================================
