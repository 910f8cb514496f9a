---------------------------- MODULE RouterProofs ---------------------------
(***************************************************************************)
(* Router keeps its promise for any number of requests, of backends and of *)
(* names.  The argument is one inductive invariant: where a request's      *)
(* thread is determines what its backends have said (Asking, Noting,       *)
(* Ended), and the journal holds the lines of requests that have returned  *)
(* (JournalTellsAll).                                                      *)
(***************************************************************************)
EXTENDS Router, TLAPS

LEMMA ServingAreBackends ==
  \A k, n : Serving(k, n) \subseteq Chosen(n) /\ Chosen(n) \subseteq Backends
BY DEF Serving, Chosen

LEMMA LeftAreServing ==
  \A r : Left(r) \subseteq Serving(kind[r], only[r]) /\ Left(r) \subseteq Backends
BY ServingAreBackends DEF Left

LEMMA AppendLine ==
  ASSUME NEW S, NEW s \in Seq(S), NEW e \in S
  PROVE  /\ Append(s, e) \in Seq(S)
         /\ DOMAIN Append(s, e) = DOMAIN s \cup {Len(s) + 1}
         /\ \A i \in DOMAIN s : Append(s, e)[i] = s[i]
         /\ Append(s, e)[Len(s) + 1] = e
  OBVIOUS

(***************************************************************************)
(* Every step keeps every variable in its type.                            *)
(***************************************************************************)
LEMMA TypeStep == TypeOK /\ [Next]_vars => TypeOK'
<1> SUFFICES ASSUME TypeOK, [Next]_vars PROVE TypeOK'
  OBVIOUS
<1> USE RoutingAssumption DEF TypeOK
<1>1. CASE UNCHANGED vars
  BY <1>1 DEF vars
<1>2. ASSUME NEW r \in Requests, Refuse(r) PROVE TypeOK'
  BY <1>2 DEF Refuse, Goto, Outcome, Outcomes
<1>3. ASSUME NEW r \in Requests, Unserve(r) PROVE TypeOK'
  BY <1>3 DEF Unserve, Goto, Outcome, Outcomes
<1>4. ASSUME NEW r \in Requests, Start(r) PROVE TypeOK'
  BY <1>4, LeftAreServing DEF Start, Ask, Goto, IsFirst, Backends
<1>5. ASSUME NEW r \in Requests, NEW result \in Results, Reply(r, result) PROVE TypeOK'
  BY <1>5 DEF Reply, Goto, Backends
<1>6. ASSUME NEW r \in Requests, Answer(r) PROVE TypeOK'
  BY <1>6 DEF Answer, Remember, Goto, Outcome, Outcomes, Backends, Results
<1>7. ASSUME NEW r \in Requests, Stop(r) PROVE TypeOK'
  BY <1>7 DEF Stop, Failed, Remember, Goto, Outcome, Outcomes, Backends, Results
<1>8. ASSUME NEW r \in Requests, FallBack(r) PROVE TypeOK'
  BY <1>8, LeftAreServing DEF FallBack, Failed, Remember, Ask, Goto, IsFirst, Backends, Results
<1>9. ASSUME NEW r \in Requests, Exhaust(r) PROVE TypeOK'
  BY <1>9 DEF Exhaust, Failed, Remember, Goto, Outcome, Outcomes, Backends, Results
<1>10. ASSUME NEW r \in Requests, Write(r) PROVE TypeOK'
  <2>1. LineOf(r) \in Lines
    BY <1>10 DEF Write, LineOf, Lines
  <2>2. journal' \in Seq(Lines)
    <3>1. journal' = Append(journal, LineOf(r)) \/ journal' = journal
      BY <1>10 DEF Write
    <3>2. journal \in Seq(Lines)
      OBVIOUS
    <3> HIDE DEF TypeOK
    <3>q. QED
      BY <2>1, <3>1, <3>2, AppendLine
  <2>3. unwritten' \in [Requests -> BOOLEAN]
    BY <1>10 DEF Write
  <2>4. pc' = [pc EXCEPT ![r] = "returned"] /\ outcome[r] \in Outcomes
    BY <1>10 DEF Write, Goto
  <2>q. QED
    BY <1>10, <2>2, <2>3, <2>4 DEF Write
<1>q. QED
  BY <1>1, <1>2, <1>3, <1>4, <1>5, <1>6, <1>7, <1>8, <1>9, <1>10 DEF Next, Step

\* Every variable of the router keeps its type, whatever the threads do.
THEOREM TypeCorrect == Spec => []TypeOK
<1>1. Init => TypeOK
  BY RoutingAssumption DEF Init, TypeOK, Unasked, Backends
<1>q. QED
  BY <1>1, TypeStep, PTL DEF Spec

----------------------------------------------------------------------------
(***************************************************************************)
(* The inductive invariant.                                                *)
(***************************************************************************)

\* Everyone the request may be asked of, before the backend its thread is at,
\* has failed in a way that allows the next; nobody else has heard of it.
InTurn(r) ==
  LET S == Serving(kind[r], only[r]) IN
  /\ turn[r] \in S
  /\ \A c \in S : c < turn[r] => AllowsFallback(said[r][c])
  /\ \A c \in Backends : (c \notin S \/ c > turn[r]) => said[r][c] = "unasked"

\* The attempts recorded are the errors noted, one by one.
Recorded(r) ==
  attempts[r] = [b \in Backends |->
                   IF said[r][b] \in Errors /\ ~(pc[r] = "noting" /\ b = turn[r])
                   THEN said[r][b] ELSE "unasked"]

\* Where a request's thread is determines what its backends have said.
Where(r) ==
  /\ Recorded(r)
  /\ pc[r] = "new" => turn[r] = 0 /\ said[r] = Unasked
  /\ pc[r] \in {"asking", "noting"} => InTurn(r)
  /\ pc[r] = "asking" => said[r][turn[r]] = "asked"
  /\ pc[r] = "noting" => said[r][turn[r]] \in Results
  /\ pc[r] \in {"writing", "returned"}
       => Promise!Deserved(kind[r], only[r], outcome[r], said[r])
  /\ pc[r] \notin {"writing", "returned"} => outcome[r] = Pending
  /\ pc[r] # "returned" => ~unwritten[r]
  /\ pc[r] = "writing" => outcome[r].what # "unknown"

IInv == TypeOK /\ (\A r \in Requests : Where(r)) /\ JournalTellsAll

LEMMA InitIInv == Init => IInv
<1> SUFFICES ASSUME Init PROVE IInv
  OBVIOUS
<1>1. TypeOK
  BY RoutingAssumption DEF Init, TypeOK, Unasked, Backends
<1>2. ASSUME NEW r \in Requests PROVE Where(r)
  BY DEF Init, Where, Recorded, Unasked, Errors
<1>3. JournalTellsAll
  BY DEF Init, JournalTellsAll
<1>q. QED
  BY <1>1, <1>2, <1>3 DEF IInv

\* A step of one thread leaves alone what the invariant says of the others.
LEMMA OthersKeep ==
  ASSUME IInv, NEW r \in Requests, NEW q \in Requests, q # r, Step(r)
  PROVE  Where(q)'
<1>1. /\ pc'[q] = pc[q] /\ kind' = kind /\ only' = only /\ turn'[q] = turn[q]
      /\ said'[q] = said[q] /\ attempts'[q] = attempts[q]
      /\ outcome'[q] = outcome[q] /\ unwritten'[q] = unwritten[q]
  BY DEF IInv, TypeOK, Step, Refuse, Unserve, Start, Reply, Answer, Stop, FallBack,
         Exhaust, Write, Failed, Ask, Goto
<1>2. Where(q)
  BY DEF IInv
<1>3. Recorded(q)'
  BY <1>1, <1>2 DEF Where, Recorded
<1>4. pc[q] \in {"asking", "noting"} => InTurn(q)'
  BY <1>1, <1>2 DEF Where, InTurn
<1>q. QED
  BY <1>1, <1>2, <1>3, <1>4 DEF Where

\* Serving and Chosen are the same table for the promise and for the router.
LEMMA SameTable ==
  /\ \A k, n : Promise!Serving(k, n) = Serving(k, n)
  /\ \A n : Promise!Chosen(n) = Chosen(n)
  /\ Promise!Unasked = Unasked
BY DEF Promise!Serving, Serving, Promise!Chosen, Chosen, Promise!Unasked, Unasked,
       Promise!Backends, Backends, Promise!IsFirst, IsFirst, Promise!NoName, NoName

LEMMA OwnStart ==
  ASSUME IInv, NEW r \in Requests, NEW b \in Left(r), IsFirst(b, Left(r)), Ask(r, b),
         kind' = kind, only' = only, outcome' = outcome, unwritten' = unwritten,
         pc[r] = "new" /\ attempts' = attempts
  PROVE  Where(r)'
<1>1. /\ pc'[r] = "asking" /\ turn'[r] = b /\ said'[r] = [said[r] EXCEPT ![b] = "asked"]
      /\ b \in Backends /\ b \in Serving(kind[r], only[r])
  BY LeftAreServing DEF IInv, TypeOK, Ask, Goto
<1>2. Where(r) /\ turn[r] = 0 /\ said[r] = Unasked
  BY DEF IInv, Where
<1>3. \A c \in Serving(kind[r], only[r]) : c >= b
  BY <1>2, ServingAreBackends, RoutingAssumption DEF Left, IsFirst, Backends
<1>4. InTurn(r)'
  BY <1>1, <1>2, <1>3, ServingAreBackends, RoutingAssumption DEF InTurn, Unasked, Backends
<1>5. Recorded(r)'
  BY <1>1, <1>2 DEF Where, Recorded, Unasked, Errors
<1>q. QED
  BY <1>1, <1>2, <1>4, <1>5 DEF Where, Unasked

LEMMA OwnFallBack ==
  ASSUME IInv, NEW r \in Requests, FallBack(r)
  PROVE  Where(r)'
<1>1. PICK b \in Left(r) : IsFirst(b, Left(r)) /\ Ask(r, b)
  BY DEF FallBack, IsFirst
<1> DEFINE t == turn[r]
<1>2. /\ pc'[r] = "asking" /\ turn'[r] = b /\ said'[r] = [said[r] EXCEPT ![b] = "asked"]
      /\ b \in Backends /\ b \in Serving(kind[r], only[r]) /\ b > t
      /\ kind' = kind /\ only' = only /\ outcome' = outcome /\ unwritten' = unwritten
  BY <1>1, LeftAreServing DEF IInv, TypeOK, Ask, Goto, FallBack, Left
<1>3. /\ pc[r] = "noting" /\ t \in Backends /\ said[r][t] \in Errors
      /\ AllowsFallback(said[r][t])
      /\ attempts'[r] = [attempts[r] EXCEPT ![t] = said[r][t]]
  BY DEF FallBack, Failed, IInv, TypeOK
<1>4. Where(r) /\ InTurn(r) /\ Recorded(r)
  BY <1>3 DEF IInv, Where
<1>5. InTurn(r)'
  <2>1. \A c \in Serving(kind[r], only[r]) : c < b => c <= t
    BY <1>1, <1>3, ServingAreBackends, RoutingAssumption DEF Left, IsFirst, Backends
  <2>2. \A c \in Serving(kind[r], only[r]) : c < b => AllowsFallback(said'[r][c])
    <3> SUFFICES ASSUME NEW c \in Serving(kind[r], only[r]), c < b
                 PROVE  AllowsFallback(said'[r][c])
      OBVIOUS
    <3>1. c \in Backends /\ c \in Nat /\ t \in Nat /\ c <= t
      BY <1>3, <2>1, ServingAreBackends, RoutingAssumption DEF Backends
    <3>2. said'[r][c] = said[r][c]
      BY <1>2, <3>1 DEF IInv, TypeOK, Backends
    <3>3. c < t => AllowsFallback(said[r][c])
      BY <1>4 DEF InTurn
    <3>q. QED
      BY <1>3, <3>1, <3>2, <3>3
  <2>3. \A c \in Backends : (c \notin Serving(kind[r], only[r]) \/ c > b)
                             => said'[r][c] = "unasked"
    BY <1>2, <1>3, <1>4, RoutingAssumption DEF InTurn, Backends, IInv, TypeOK
  <2>q. QED
    BY <1>2, <2>2, <2>3 DEF InTurn
<1>6. Recorded(r)'
  <2>1. said[r][b] = "unasked"
    BY <1>2, <1>3, <1>4, RoutingAssumption DEF InTurn, Backends
  <2>q. QED
    BY <1>2, <1>3, <1>4, <2>1 DEF Recorded, Errors, IInv, TypeOK
<1>q. QED
  BY <1>2, <1>3, <1>4, <1>5, <1>6 DEF Where, IInv, TypeOK

LEMMA OwnReply ==
  ASSUME IInv, NEW r \in Requests, NEW result \in Results, Reply(r, result)
  PROVE  Where(r)'
<1> DEFINE t == turn[r]
<1>1. /\ pc[r] = "asking" /\ pc'[r] = "noting" /\ t \in Backends
      /\ said'[r] = [said[r] EXCEPT ![t] = result]
      /\ kind' = kind /\ only' = only /\ turn' = turn /\ outcome' = outcome
      /\ attempts' = attempts /\ unwritten' = unwritten
  BY DEF Reply, Goto, IInv, TypeOK
<1>2. Where(r) /\ InTurn(r) /\ Recorded(r) /\ said[r][t] = "asked"
  BY <1>1 DEF IInv, Where
<1>3. InTurn(r)'
  BY <1>1, <1>2, ServingAreBackends, RoutingAssumption DEF InTurn, Backends, IInv, TypeOK
<1>4. Recorded(r)'
  BY <1>1, <1>2 DEF Recorded, Errors, IInv, TypeOK
<1>q. QED
  BY <1>1, <1>2, <1>3, <1>4 DEF Where, IInv, TypeOK

\* A request that ends before any backend was asked.
LEMMA OwnUnasked ==
  ASSUME IInv, NEW r \in Requests, Refuse(r) \/ Unserve(r)
  PROVE  Where(r)'
<1>1. /\ pc[r] = "new" /\ kind' = kind /\ only' = only /\ turn' = turn /\ said' = said
      /\ attempts' = attempts /\ unwritten' = unwritten
      /\ Where(r) /\ said[r] = Unasked /\ turn[r] = 0
  BY DEF Refuse, Unserve, IInv, Where
<1>2. Recorded(r)'
  BY <1>1 DEF Where, Recorded, Unasked, Errors
<1>3. CASE Refuse(r)
  <2>1. outcome'[r] = Outcome("unknown", 0) /\ pc'[r] = "returned" /\ Chosen(only[r]) = {}
    BY <1>3 DEF Refuse, Goto, IInv, TypeOK
  <2>2. Promise!Deserved(kind[r], only[r], outcome'[r], said[r])
    BY <1>1, <2>1, SameTable DEF Promise!Deserved, Outcome
  <2>q. QED
    BY <1>1, <1>2, <2>1, <2>2 DEF Where
<1>4. CASE Unserve(r)
  <2>1. /\ outcome'[r] = Outcome("unserved", 0) /\ pc'[r] = "writing"
        /\ Chosen(only[r]) # {} /\ Left(r) = {}
    BY <1>4 DEF Unserve, Goto, IInv, TypeOK
  <2>2. Serving(kind[r], only[r]) = {}
    BY <1>1, <2>1, ServingAreBackends, RoutingAssumption DEF Left, Backends
  <2>3. Promise!Deserved(kind[r], only[r], outcome'[r], said[r])
    BY <1>1, <2>1, <2>2, SameTable DEF Promise!Deserved, Outcome
  <2>q. QED
    BY <1>1, <1>2, <2>1, <2>3 DEF Where, Outcome
<1>q. QED
  BY <1>3, <1>4

\* The step that settles a request on the answer its backend gave.
LEMMA OwnSettled ==
  ASSUME IInv, NEW r \in Requests, Answer(r) \/ Stop(r)
  PROVE  Where(r)'
<1> DEFINE t == turn[r]
<1>1. /\ pc[r] = "noting" /\ pc'[r] = "writing" /\ t \in Backends /\ t \in Nat
      /\ kind' = kind /\ only' = only /\ turn' = turn /\ said' = said
      /\ unwritten' = unwritten
  BY RoutingAssumption DEF Answer, Stop, Failed, Goto, IInv, TypeOK, Backends
<1>2. Where(r) /\ InTurn(r) /\ Recorded(r)
  BY <1>1 DEF IInv, Where
<1>3. Promise!SettledBy(t, Serving(kind[r], only[r]), said[r])
  BY <1>1, <1>2 DEF Promise!SettledBy, InTurn, Promise!AllowsFallback, AllowsFallback,
                    Promise!Backends, Backends
<1>4. CASE Answer(r)
  <2>1. /\ said[r][t] = "ok" /\ outcome'[r] = Outcome("answered", t)
        /\ attempts' = attempts
    BY <1>4 DEF Answer, IInv, TypeOK
  <2>2. Recorded(r)'
    BY <1>1, <1>2, <2>1 DEF Recorded, Errors
  <2>3. Promise!Deserved(kind[r], only[r], outcome'[r], said[r])
    BY <1>3, <2>1, SameTable DEF Promise!Deserved, Outcome
  <2>q. QED
    BY <1>1, <1>2, <2>1, <2>2, <2>3 DEF Where, Outcome
<1>5. CASE Stop(r)
  <2>1. /\ said[r][t] = "other" /\ outcome'[r] = Outcome("stopped", t)
        /\ attempts'[r] = [attempts[r] EXCEPT ![t] = said[r][t]]
    BY <1>5 DEF Stop, Failed, AllowsFallback, Errors, IInv, TypeOK
  <2>2. Recorded(r)'
    BY <1>1, <1>2, <2>1 DEF Recorded, Errors
  <2>3. Promise!Deserved(kind[r], only[r], outcome'[r], said[r])
    BY <1>3, <2>1, SameTable DEF Promise!Deserved, Outcome
  <2>q. QED
    BY <1>1, <1>2, <2>1, <2>2, <2>3 DEF Where, Outcome
<1>q. QED
  BY <1>4, <1>5

LEMMA OwnExhaust ==
  ASSUME IInv, NEW r \in Requests, Exhaust(r)
  PROVE  Where(r)'
<1> DEFINE t == turn[r]
           S == Serving(kind[r], only[r])
<1>1. /\ pc[r] = "noting" /\ pc'[r] = "writing" /\ t \in Backends /\ t \in Nat
      /\ kind' = kind /\ only' = only /\ turn' = turn /\ said' = said
      /\ unwritten' = unwritten /\ Left(r) = {} /\ outcome'[r] = Outcome("exhausted", 0)
      /\ said[r][t] \in Errors /\ AllowsFallback(said[r][t])
      /\ attempts'[r] = [attempts[r] EXCEPT ![t] = said[r][t]]
  BY RoutingAssumption DEF Exhaust, Failed, Goto, IInv, TypeOK, Backends
<1>2. Where(r) /\ InTurn(r) /\ Recorded(r)
  BY <1>1 DEF IInv, Where
<1>3. \A c \in S : c \in Backends /\ c \in Nat /\ c <= t
  BY <1>1, ServingAreBackends, RoutingAssumption DEF Left, Backends
<1>4. \A c \in S : AllowsFallback(said[r][c])
  <2> SUFFICES ASSUME NEW c \in S PROVE AllowsFallback(said[r][c])
    OBVIOUS
  <2>1. c < t => AllowsFallback(said[r][c])
    BY <1>2 DEF InTurn
  <2>q. QED
    BY <1>1, <1>3, <2>1
<1>5. S # {} /\ \A c \in Backends \ S : said[r][c] = "unasked"
  BY <1>2 DEF InTurn
<1>6. Promise!Deserved(kind[r], only[r], outcome'[r], said[r])
  BY <1>1, <1>4, <1>5, SameTable
     DEF Promise!Deserved, Outcome, Promise!AllowsFallback, AllowsFallback,
         Promise!Backends, Backends
<1>7. Recorded(r)'
  BY <1>1, <1>2 DEF Recorded, Errors
<1>q. QED
  BY <1>1, <1>2, <1>6, <1>7 DEF Where, Outcome

LEMMA OwnWrite ==
  ASSUME IInv, NEW r \in Requests, Write(r)
  PROVE  Where(r)'
<1>1. /\ pc[r] = "writing" /\ pc'[r] = "returned"
      /\ kind' = kind /\ only' = only /\ turn' = turn /\ said' = said
      /\ attempts' = attempts /\ outcome' = outcome
  BY DEF Write, Goto, IInv, TypeOK
<1>2. Where(r)
  BY DEF IInv
<1>q. QED
  BY <1>1, <1>2 DEF Where, Recorded

LEMMA WhereStep ==
  ASSUME IInv, NEW r \in Requests, Step(r)
  PROVE  \A q \in Requests : Where(q)'
<1>1. ASSUME NEW q \in Requests, q # r PROVE Where(q)'
  BY <1>1, OthersKeep
<1>2. Where(r)'
  <2>1. CASE Start(r)
    <3>1. PICK b \in Left(r) : IsFirst(b, Left(r)) /\ Ask(r, b)
      BY <2>1 DEF Start, IsFirst
    <3>q. QED
      BY <2>1, <3>1, OwnStart DEF Start
  <2>q. QED
    BY <2>1, OwnUnasked, OwnReply, OwnSettled, OwnFallBack, OwnExhaust, OwnWrite DEF Step
<1>q. QED
  BY <1>1, <1>2

\* What one thread's step leaves of the other requests' lines.
LEMMA LinesKept ==
  ASSUME IInv, NEW r \in Requests, Step(r)
  PROVE  /\ pc[r] # "returned"
         /\ \A q \in Requests \ {r} :
              /\ pc'[q] = pc[q] /\ LineOf(q)' = LineOf(q)
              /\ outcome'[q] = outcome[q] /\ unwritten'[q] = unwritten[q]
BY DEF Step, Refuse, Unserve, Start, Reply, Answer, Stop, FallBack, Exhaust, Write,
       Failed, Ask, Goto, LineOf, IInv, TypeOK

LEMMA JournalStep ==
  ASSUME IInv, NEW r \in Requests, Step(r)
  PROVE  JournalTellsAll'
<1>1. JournalTellsAll /\ journal \in Seq(Lines)
  BY DEF IInv, TypeOK
<1>2. \A i \in DOMAIN journal :
        \E q \in Requests \ {r} : pc[q] = "returned" /\ journal[i] = LineOf(q)
  BY <1>1, LinesKept DEF JournalTellsAll
<1>3. \A i \in DOMAIN journal :
        \E q \in Requests \ {r} : pc'[q] = "returned" /\ journal[i] = LineOf(q)'
  BY <1>2, LinesKept
<1>4. \A q : LineOf(q).request = q
  BY DEF LineOf
<1>5. CASE Write(r) /\ journal' = Append(journal, LineOf(r))
  <2>1. LineOf(r) \in Lines /\ LineOf(r)' = LineOf(r) /\ pc'[r] = "returned"
    BY <1>5 DEF Write, Goto, LineOf, Lines, IInv, TypeOK
  <2>2. /\ DOMAIN journal' = DOMAIN journal \cup {Len(journal) + 1}
        /\ \A i \in DOMAIN journal : journal'[i] = journal[i]
        /\ journal'[Len(journal) + 1] = LineOf(r)
    BY <1>1, <1>5, <2>1, AppendLine
  <2>3. \A i \in DOMAIN journal : journal[i].request # r
    BY <1>2, <1>4
  <2>4. \A i, j \in DOMAIN journal' : journal'[i].request = journal'[j].request => i = j
    BY <1>1, <1>4, <2>2, <2>3 DEF JournalTellsAll
  <2>5. \A i \in DOMAIN journal' :
          \E q \in Requests : pc'[q] = "returned" /\ journal'[i] = LineOf(q)'
    BY <1>3, <2>1, <2>2
  <2>6. \A q \in Requests :
          pc'[q] = "returned" /\ outcome'[q].what # "unknown" /\ ~unwritten'[q]
            => \E i \in DOMAIN journal' : journal'[i].request = q
    BY <1>1, <1>4, <2>2, LinesKept DEF JournalTellsAll
  <2>q. QED
    BY <2>4, <2>5, <2>6 DEF JournalTellsAll
<1>6. CASE journal' = journal
  <2>1. \A i \in DOMAIN journal' :
          \E q \in Requests : pc'[q] = "returned" /\ journal'[i] = LineOf(q)'
    BY <1>3, <1>6
  <2>2. pc'[r] = "returned" => outcome'[r].what = "unknown" \/ unwritten'[r]
    <3>1. CASE Refuse(r)
      BY <3>1 DEF Refuse, Outcome, IInv, TypeOK
    <3>2. CASE Write(r)
      <4>1. Len(Append(journal, LineOf(r))) = Len(journal) + 1 /\ Len(journal) \in Nat
        BY <1>1
      <4>2. journal' # Append(journal, LineOf(r))
        BY <1>6, <4>1
      <4>q. QED
        BY <3>2, <4>2 DEF Write, IInv, TypeOK
    <3>3. CASE ~Refuse(r) /\ ~Write(r)
      BY <3>3 DEF Step, Unserve, Start, Reply, Answer, Stop, FallBack, Exhaust, Ask, Goto,
                  IInv, TypeOK
    <3>q. QED
      BY <3>1, <3>2, <3>3
  <2>3. \A q \in Requests :
          pc'[q] = "returned" /\ outcome'[q].what # "unknown" /\ ~unwritten'[q]
            => \E i \in DOMAIN journal' : journal'[i].request = q
    BY <1>1, <1>6, <2>2, LinesKept DEF JournalTellsAll
  <2>4. \A i, j \in DOMAIN journal' : journal'[i].request = journal'[j].request => i = j
    BY <1>1, <1>6 DEF JournalTellsAll
  <2>q. QED
    BY <2>1, <2>3, <2>4 DEF JournalTellsAll
<1>q. QED
  BY <1>5, <1>6 DEF Step, Refuse, Unserve, Start, Reply, Answer, Stop, FallBack, Exhaust, Write

LEMMA IInvStep == IInv /\ [Next]_vars => IInv'
<1>1. CASE IInv /\ UNCHANGED vars
  <2>1. ASSUME NEW r \in Requests PROVE Where(r)'
    <3>1. Where(r) /\ UNCHANGED vars
      BY <1>1 DEF IInv
    <3>2. Recorded(r)' /\ (InTurn(r) => InTurn(r)')
      BY <3>1 DEF vars, Where, Recorded, InTurn
    <3>q. QED
      BY <3>1, <3>2 DEF vars, Where
  <2>2. TypeOK' /\ JournalTellsAll'
    BY <1>1 DEF IInv, vars, TypeOK, JournalTellsAll, LineOf
  <2>q. QED
    BY <2>1, <2>2 DEF IInv
<1>2. ASSUME IInv, NEW r \in Requests, Step(r) PROVE IInv'
  BY <1>2, TypeStep, WhereStep, JournalStep DEF IInv, Next
<1>q. QED
  BY <1>1, <1>2 DEF Next

LEMMA AlwaysIInv == Spec => []IInv
BY InitIInv, IInvStep, PTL DEF Spec

\* The journal tells all, for every number of requests and of backends.
THEOREM JournalComplete == Spec => []JournalTellsAll
<1>1. IInv => JournalTellsAll
  BY DEF IInv
<1>q. QED
  BY <1>1, AlwaysIInv, PTL

----------------------------------------------------------------------------
(***************************************************************************)
(* What follows from the invariant.                                        *)
(***************************************************************************)

\* Once a request has an outcome, no backend is still at work for it.
LEMMA NobodyIsWaitedFor ==
  ASSUME IInv, NEW r \in Requests, pc[r] \in {"writing", "returned"}
  PROVE  said[r] \in [Backends -> Results \cup {"unasked"}]
<1> DEFINE out == outcome[r]
           S == Serving(kind[r], only[r])
<1>1. /\ Promise!Deserved(kind[r], only[r], out, said[r]) /\ out \in Outcomes
      /\ said[r] \in [Backends -> Results \cup {"unasked", "asked"}]
  BY DEF IInv, Where, TypeOK
<1>2. Promise!Backends = Backends /\ \A e : Promise!AllowsFallback(e) <=> AllowsFallback(e)
  BY DEF Promise!Backends, Backends, Promise!AllowsFallback, AllowsFallback
<1>3. \A e : AllowsFallback(e) => e \in Results
  BY DEF AllowsFallback, Results, Errors
<1>4. S \subseteq Backends /\ Backends \subseteq Nat
  BY ServingAreBackends, RoutingAssumption DEF Backends
<1>5. CASE out.what \in {"answered", "stopped"}
  <2>1. Promise!SettledBy(out.by, S, said[r]) /\ said[r][out.by] \in {"ok", "other"}
    BY <1>1, <1>5, SameTable DEF Promise!Deserved
  <2> SUFFICES ASSUME NEW c \in Backends PROVE said[r][c] \in Results \cup {"unasked"}
    BY <1>1
  <2>2. out.by \in Nat /\ c \in Nat
    BY <2>1, <1>4 DEF Promise!SettledBy
  <2>3. CASE c = out.by
    BY <2>1, <2>3 DEF Results, Errors
  <2>4. CASE c < out.by
    BY <1>2, <1>3, <2>1, <2>2, <2>4 DEF Promise!SettledBy
  <2>5. CASE c > out.by
    BY <1>2, <2>1, <2>5 DEF Promise!SettledBy
  <2>q. QED
    BY <2>2, <2>3, <2>4, <2>5
<1>6. CASE out.what = "exhausted"
  BY <1>1, <1>2, <1>3, <1>6, SameTable DEF Promise!Deserved
<1>7. CASE out.what \in {"unserved", "unknown"}
  BY <1>1, <1>7, SameTable DEF Promise!Deserved, Unasked
<1>q. QED
  BY <1>1, <1>5, <1>6, <1>7 DEF Outcomes

\* An answer, or an error that is no outage, ends the asking: nobody further
\* down the list is ever asked, for any list.
THEOREM NeverPastASettlement == Spec => SettledIsFinal
<1> DEFINE Kept == \A r \in Requests :
                     (\E b \in Backends : said[r][b] \in {"ok", "other"})
                       => said'[r] = said[r]
<1>1. ASSUME IInv, NEW r \in Requests, Step(r),
             NEW q \in Requests, NEW b \in Backends, said[q][b] \in {"ok", "other"}
      PROVE  said'[q] = said[q]
  <2>1. CASE q # r
    BY <1>1, <2>1 DEF Step, Refuse, Unserve, Start, Reply, Answer, Stop, FallBack, Exhaust,
                      Write, Failed, Ask, IInv, TypeOK
  <2>2. CASE q = r
    <3>1. pc[r] # "new"
      BY <1>1, <2>2 DEF IInv, Where, Unasked
    <3>2. pc[r] \in {"asking", "noting"} => InTurn(r) /\ b = turn[r]
      <4> SUFFICES ASSUME pc[r] \in {"asking", "noting"} PROVE InTurn(r) /\ b = turn[r]
        OBVIOUS
      <4>1. InTurn(r)
        BY <1>1 DEF IInv, Where
      <4>2. b \in Nat /\ turn[r] \in Nat
        BY <4>1, ServingAreBackends, RoutingAssumption DEF InTurn, Backends
      <4>q. QED
        BY <1>1, <2>2, <4>1, <4>2 DEF InTurn, AllowsFallback
    <3>3. pc[r] # "asking"
      BY <1>1, <2>2, <3>2 DEF IInv, Where
    <3>4. ~FallBack(r)
      BY <1>1, <2>2, <3>2 DEF FallBack, Failed, AllowsFallback
    <3>q. QED
      BY <1>1, <2>2, <3>1, <3>3, <3>4
         DEF Step, Refuse, Unserve, Start, Reply, Answer, Stop, Exhaust, Write
  <2>q. QED
    BY <2>1, <2>2
<1>2. IInv /\ [Next]_vars => [Kept]_vars
  BY <1>1 DEF Next
<1>q. QED
  BY <1>2, AlwaysIInv, PTL DEF Spec, SettledIsFinal

----------------------------------------------------------------------------
(***************************************************************************)
(* Router implements Dispatch: the request is finished, for its caller, in *)
(* the step in which its thread returns; every other step changes nothing  *)
(* the promise speaks of.                                                  *)
(***************************************************************************)

LEMMA PromiseInit == Init => Promise!Init
<1> SUFFICES ASSUME Init PROVE Promise!Init
  OBVIOUS
<1>1. \A r \in Requests : ~Returned(r)
  BY DEF Init, Returned
<1>2. Names = Promise!Names /\ Unasked = Promise!Unasked /\ Pending = Promise!Pending
  BY SameTable DEF Names, Promise!Names, NoName, Promise!NoName, Pending, Promise!Pending
<1>q. QED
  BY <1>1, <1>2 DEF Init, Promise!Init

\* The step in which the thread of r returns.
LEMMA ReturnIsFinish ==
  ASSUME IInv, NEW r \in Requests, Refuse(r) \/ Write(r)
  PROVE  Promise!Finish(r)
<1> DEFINE out == outcome'[r]
           answers == said[r]
           outcomes == [q \in Requests |-> IF Returned(q) THEN outcome[q] ELSE Pending]
           told == [q \in Requests |-> IF Returned(q) THEN said[q] ELSE Unasked]
<1>1. /\ pc[r] \in {"new", "writing"} /\ pc' = [pc EXCEPT ![r] = "returned"]
      /\ outcome' = [outcome EXCEPT ![r] = out]
      /\ said' = said /\ kind' = kind /\ only' = only /\ attempts' = attempts
  BY DEF Refuse, Write, Goto, IInv, TypeOK
<1>2. Where(r) /\ Where(r)' /\ TypeOK'
  BY WhereStep, TypeStep DEF IInv, Step, Next
<1>3. /\ Promise!Deserved(kind[r], only[r], out, answers)
      /\ out \in Outcomes
  BY <1>1, <1>2 DEF Where, TypeOK, IInv
<1>4. answers \in [Backends -> Results \cup {"unasked"}]
  <2>1. CASE Refuse(r)
    BY <1>2, <2>1 DEF Refuse, Where, Unasked
  <2>2. CASE Write(r)
    BY <2>2, NobodyIsWaitedFor DEF Write
  <2>q. QED
    BY <2>1, <2>2
<1>5. outcomes[r] = Pending /\ outcomes' = [outcomes EXCEPT ![r] = out]
  BY <1>1 DEF Returned, IInv, TypeOK
<1>6. told' = [told EXCEPT ![r] = answers]
  BY <1>1 DEF Returned, IInv, TypeOK
<1>7. \/ /\ out.what # "unknown"
         /\ journal' = Append(journal, Promise!Line(r, kind[r], only[r], out, answers))
      \/ journal' = journal
  <2>1. CASE Refuse(r)
    BY <2>1 DEF Refuse
  <2>2. CASE Write(r)
    <3>1. attempts[r] = [b \in Promise!Backends |->
                           IF answers[b] \in Promise!Errors THEN answers[b] ELSE "unasked"]
      BY <1>2, <2>2 DEF Where, Recorded, Write, Promise!Backends, Backends,
                        Promise!Errors, Errors
    <3>2. LineOf(r) = Promise!Line(r, kind[r], only[r], out, answers)
      BY <2>2, <3>1 DEF LineOf, Promise!Line, Write
    <3>3. out.what # "unknown"
      BY <1>2, <2>2 DEF Where, Write
    <3>q. QED
      BY <2>2, <3>2, <3>3 DEF Write
  <2>q. QED
    BY <2>1, <2>2
<1>8. /\ Promise!Pending = Pending /\ Promise!Outcomes = Outcomes
      /\ Promise!Backends = Backends /\ Promise!Results = Results
  BY DEF Promise!Pending, Pending, Promise!Outcomes, Outcomes, Promise!Backends, Backends,
         Promise!Results, Results, Promise!Errors, Errors
<1> HIDE DEF out, answers, outcomes, told
<1>9. outcomes[r] = Promise!Pending
  BY <1>5, <1>8
<1>q. QED
  BY <1>1, <1>3, <1>4, <1>5, <1>6, <1>7, <1>8, <1>9 DEF Promise!Finish, outcomes, told

\* Any other step of a thread: it had not returned, and has not.
LEMMA InnerStepsStutter ==
  ASSUME IInv, NEW r \in Requests, Step(r), ~Refuse(r), ~Write(r)
  PROVE  UNCHANGED Promise!vars
<1> DEFINE outcomes == [q \in Requests |-> IF Returned(q) THEN outcome[q] ELSE Pending]
           told == [q \in Requests |-> IF Returned(q) THEN said[q] ELSE Unasked]
<1>1. /\ pc[r] # "returned" /\ pc'[r] # "returned"
      /\ kind' = kind /\ only' = only /\ journal' = journal
      /\ \A q \in Requests \ {r} : /\ pc'[q] = pc[q]
                                   /\ outcome'[q] = outcome[q] /\ said'[q] = said[q]
  BY DEF Step, Unserve, Start, Reply, Answer, Stop, FallBack, Exhaust, Failed, Ask, Goto,
         IInv, TypeOK
<1>2. outcomes' = outcomes
  BY <1>1 DEF Returned
<1>3. told' = told
  BY <1>1 DEF Returned
<1> HIDE DEF outcomes, told
<1>q. QED
  BY <1>1, <1>2, <1>3 DEF Promise!vars, outcomes, told

\* The router keeps its promise: Router implements Dispatch, for any number of
\* requests sent to any list of backends.
THEOREM Implements == Spec => KeepsPromise
<1>1. ASSUME IInv, [Next]_vars PROVE [Promise!Next]_(Promise!vars)
  <2>1. CASE UNCHANGED vars
    BY <2>1 DEF vars, Promise!vars, Returned
  <2>2. ASSUME NEW r \in Requests, Step(r), ~Refuse(r), ~Write(r)
        PROVE  UNCHANGED Promise!vars
    BY <1>1, <2>2, InnerStepsStutter
  <2>3. ASSUME NEW r \in Requests, Refuse(r) \/ Write(r) PROVE Promise!Next
    BY <1>1, <2>3, ReturnIsFinish DEF Promise!Next
  <2>q. QED
    BY <1>1, <2>1, <2>2, <2>3 DEF Next
<1>q. QED
  BY <1>1, PromiseInit, AlwaysIInv, PTL DEF Spec, KeepsPromise, Promise!Spec
=============================================================================
