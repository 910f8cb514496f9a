-------------------------- MODULE RouterPartsProofs -------------------------
(***************************************************************************)
(* Proofs about three parts of the router that share no state.             *)
(*                                                                         *)
(* ClaudeLatch, for any number of calls, processes and backends: the       *)
(* invariant follows a call between its two looks.  What was known against *)
(* it when it came is still there to be seen, or the process has ended or  *)
(* the owner has come meanwhile.                                           *)
(*                                                                         *)
(* StatusChecks, for any backends, periods and clients: the invariant says *)
(* of each backend, in the middle of a round, that it was seen recently,   *)
(* that the round has asked it, or that it is still due; and that a check  *)
(* which has been answered is in the table, however late others come.      *)
(*                                                                         *)
(* LmSlots, for any number of calls and of slots: every slot is free or    *)
(* held by one call, and every free slot that sleeping calls wait for has  *)
(* a call on its way to it.                                                *)
(***************************************************************************)
EXTENDS ClaudeLatch, StatusChecks, LmSlots, FiniteSetTheorems, TLAPS

----------------------------------------------------------------------------
(* ClaudeLatch.                                                            *)

\* What is known against a call that has not passed the latch is still so.
StillKnown ==
  \A c \in Calls :
    /\ pc[c] = "new" => knew[c] = {}
    /\ pc[c] \in {"entered", "unmarked"} /\ "flag" \in knew[c] => Flagged(c)
    /\ pc[c] = "entered" /\ "file" \in knew[c] => marked
    /\ pc[c] = "unmarked" => "file" \notin knew[c]

\* A call that came after a tripwire answer came after its marker, too.
ToldByTheFile ==
  \A c \in Calls : "answer" \in knew[c] => unwritten \/ "file" \in knew[c]

IInv == TypeOK /\ AnswersAreOnFile /\ StillKnown /\ ToldByTheFile

\* The type of the latch's state, and of what is recorded about the calls.
LEMMA TypeStep == TypeOK /\ [Next]_vars => TypeOK'
<1> USE DEF TypeOK, Goto, Warnings
<1> SUFFICES ASSUME TypeOK, [Next]_vars PROVE TypeOK'
  OBVIOUS
<1>1. ASSUME NEW c \in Calls, Step(c) PROVE TypeOK'
  <2>1. CASE Enter(c)
    <3>1. {w \in Warnings : \/ w = "flag" /\ Flagged(c)
                            \/ w = "file" /\ marked
                            \/ w = "answer" /\ answered} \in SUBSET Warnings
      OBVIOUS
    <3> QED BY <2>1, <3>1, SMT DEF Enter
  <2>2. CASE SeeMarker(c)  BY <2>2 DEF SeeMarker
  <2>3. CASE Refuse(c)     BY <2>3 DEF Refuse
  <2>4. CASE Spawn(c)      BY <2>4 DEF Spawn
  <2>5. CASE End(c)        BY <2>5 DEF End
  <2>6. CASE Fire(c)       BY <2>6 DEF Fire
  <2>7. CASE SetFlag(c)    BY <2>7 DEF SetFlag
  <2>8. CASE Mark(c)       BY <2>8 DEF Mark
  <2> QED BY <1>1, <2>1, <2>2, <2>3, <2>4, <2>5, <2>6, <2>7, <2>8 DEF Step
<1>2. ASSUME NEW p \in Processes, Restart(p) PROVE TypeOK'
  BY <1>2 DEF Restart
<1>3. CASE OwnerClears  BY <1>3 DEF OwnerClears
<1>4. CASE UNCHANGED vars  BY <1>4 DEF vars
<1> QED BY <1>1, <1>2, <1>3, <1>4 DEF Next

LEMMA InvInit == Init => IInv
<1> SUFFICES ASSUME Init PROVE IInv
  OBVIOUS
<1>1. TypeOK  BY DEF Init, TypeOK
<1>2. AnswersAreOnFile /\ StillKnown /\ ToldByTheFile
  BY DEF Init, AnswersAreOnFile, StillKnown, ToldByTheFile
<1> QED BY <1>1, <1>2 DEF IInv

LEMMA InvStep == IInv /\ [Next]_vars => IInv'
<1> SUFFICES ASSUME IInv, [Next]_vars PROVE IInv'
  OBVIOUS
<1> USE DEF IInv
<1>t. TypeOK'  BY TypeStep
<1>1. AnswersAreOnFile'
  <2> USE DEF AnswersAreOnFile
  <2>1. ASSUME NEW c \in Calls, Step(c) PROVE AnswersAreOnFile'
    BY <2>1 DEF Step, Enter, SeeMarker, Refuse, Spawn, End, Fire, SetFlag, Mark
  <2>2. ASSUME NEW p \in Processes, Restart(p) PROVE AnswersAreOnFile'
    BY <2>2 DEF Restart
  <2>3. CASE OwnerClears  BY <2>3 DEF OwnerClears
  <2>4. CASE UNCHANGED vars  BY <2>4 DEF vars
  <2> QED BY <2>1, <2>2, <2>3, <2>4 DEF Next
<1>2. StillKnown' /\ ToldByTheFile'
  <2> USE DEF StillKnown, ToldByTheFile, Flagged, TypeOK, Goto
  <2>1. ASSUME NEW c \in Calls, Step(c) PROVE StillKnown' /\ ToldByTheFile'
    <3>1. CASE Enter(c)      BY <2>1, <3>1, SMTT(30) DEF Enter, AnswersAreOnFile, Warnings
    <3>2. CASE SeeMarker(c)  BY <3>2 DEF SeeMarker
    <3>3. CASE Refuse(c)     BY <3>3 DEF Refuse
    <3>4. CASE Spawn(c)      BY <3>4 DEF Spawn
    <3>5. CASE End(c)        BY <3>5 DEF End
    <3>6. CASE Fire(c)       BY <3>6 DEF Fire
    <3>7. CASE SetFlag(c)    BY <3>7 DEF SetFlag
    <3>8. CASE Mark(c)       BY <3>8 DEF Mark
    <3> QED BY <2>1, <3>1, <3>2, <3>3, <3>4, <3>5, <3>6, <3>7, <3>8 DEF Step
  <2>2. ASSUME NEW p \in Processes, Restart(p) PROVE StillKnown' /\ ToldByTheFile'
    BY <2>2 DEF Restart
  <2>3. CASE OwnerClears  BY <2>3 DEF OwnerClears
  <2>4. CASE UNCHANGED vars  BY <2>4 DEF vars
  <2> QED BY <2>1, <2>2, <2>3, <2>4 DEF Next
<1> QED BY <1>t, <1>1, <1>2

LEMMA Invariance == Spec => []IInv
BY InvInit, InvStep, PTL DEF Spec

\* Only Spawn starts claude, and only for a call past the file without a flag.
LEMMA OnlySpawnStarts ==
  ASSUME IInv, [Next]_vars, NEW c \in Calls, Starts(c)
  PROVE  pc[c] = "unmarked" /\ ~Flagged(c) /\ UNCHANGED unwritten
<1> USE DEF IInv, TypeOK, Goto, Starts
<1>1. ASSUME NEW d \in Calls, Step(d)
      PROVE  pc[c] = "unmarked" /\ ~Flagged(c) /\ UNCHANGED unwritten
  <2>1. CASE Spawn(d)  BY <2>1 DEF Spawn
  <2>2. CASE Enter(d) \/ SeeMarker(d) \/ Refuse(d) \/ End(d)
    BY <2>2 DEF Enter, SeeMarker, Refuse, End
  <2>3. CASE Fire(d) \/ SetFlag(d) \/ Mark(d)
    BY <2>3 DEF Fire, SetFlag, Mark
  <2> QED BY <1>1, <2>1, <2>2, <2>3 DEF Step
<1>2. ASSUME NEW p \in Processes, Restart(p) PROVE FALSE
  BY <1>2 DEF Restart
<1>3. CASE OwnerClears  BY <1>3 DEF OwnerClears
<1>4. CASE UNCHANGED vars  BY <1>4 DEF vars
<1> QED BY <1>1, <1>2, <1>3, <1>4 DEF Next

\* A call that came after its backend's flag was set, or while the marker
\* file was there, never starts claude (claude_code.rs, latched), and one that
\* came after any tripwire answer does so only if a marker could not be written.
THEOREM TheLatchHolds == Spec => LatchHolds
<1>1. IInv /\ [Next]_vars
        => [\A c \in Calls : Starts(c) => /\ knew[c] \cap {"flag", "file"} = {}
                                          /\ "answer" \in knew[c] => unwritten]_vars
  <2> SUFFICES ASSUME IInv, [Next]_vars, NEW c \in Calls, Starts(c)
               PROVE  /\ knew[c] \cap {"flag", "file"} = {}
                      /\ "answer" \in knew[c] => unwritten
    OBVIOUS
  <2>1. knew[c] \cap {"flag", "file"} = {}  BY OnlySpawnStarts DEF IInv, StillKnown
  <2>2. "answer" \in knew[c] => unwritten
    BY OnlySpawnStarts DEF IInv, StillKnown, ToldByTheFile
  <2> QED BY <2>1, <2>2
<1> QED BY <1>1, Invariance, PTL DEF Spec, LatchHolds

\* A tripwire that was answered is on file, unless that write failed or the
\* owner has deleted the file since.
THEOREM AnsweredIsOnFile == Spec => []AnswersAreOnFile
BY Invariance, PTL DEF IInv

----------------------------------------------------------------------------
(* StatusChecks.                                                           *)

Busy == {"asking", "noting"}

\* An answer that is about to be noted came in this second.
AnswersAreFresh ==
  \A t \in Threads : /\ stage[t] = "noting" => got[t] \in [at : {now}, said : Results]
                     /\ stage[t] \in Busy => on[t] \in Checkable
                     /\ stage[t] = "asleep" => t = "checker"

\* Whatever the table says was true when it was noted, and not before.
TableIsOfThePast ==
  /\ started <= now
  /\ \A b \in Checkable : seen[b] # Never => seen[b] \in [at : 0..now, said : Results]
  /\ \A b \in Checkable : checked[b] <= now

\* The round of the checker has been through b, whatever it does now.
RoundIsPast(b) ==
  b < on["checker"] \/ (b = on["checker"] /\ stage["checker"] \notin Busy)

\* In a round each backend was found seen of late, or has been asked by the
\* round, or is still to be asked.
RoundIsRight ==
  \A b \in Silent :
    /\ b \in recent => seen[b] # Never
                       /\ (seen[b].at >= started \/ started - seen[b].at < PeriodOf[b])
    /\ b \notin recent /\ RoundIsPast(b) => seen[b] # Never /\ seen[b].at >= started

\* A check that is over is in the table, and what is due was not checked
\* within its period.
ChecksAreNoted ==
  \A b \in Checkable :
    /\ checked[b] # -1 /\ ~(on["checker"] = b /\ stage["checker"] \in Busy)
         => seen[b] # Never /\ seen[b].at >= checked[b]
    /\ stage["checker"] # "asleep" /\ b \notin recent /\ b > on["checker"] /\ checked[b] # -1
         => started - checked[b] >= PeriodOf[b]

ChecksIInv ==
  /\ ChecksTypeOK /\ AnswersAreFresh /\ TableIsOfThePast /\ RoundIsRight /\ ChecksAreNoted
  /\ stage["checker"] = "asleep" => on["checker"] \in {0, N}

\* The numbers of a state.
LEMMA ChecksNumbers ==
  ASSUME ChecksIInv
  PROVE  /\ now \in 0..MaxTime /\ started \in 0..MaxTime /\ started <= now
         /\ N \in Nat /\ MaxTime \in Nat
         /\ "checker" \in Threads /\ \A c \in Clients : c \in Threads /\ c # "checker"
         /\ \A b \in Checkable : /\ seen[b].at \in Int /\ checked[b] \in Int /\ PeriodOf[b] \in Nat
                                 /\ b \in 1..N /\ checked[b] <= now
                                 /\ seen[b] # Never => seen[b].at <= now /\ seen[b].at >= 0
         /\ \A t \in Threads : on[t] \in 0..N
<1>1. ChecksTypeOK /\ TableIsOfThePast
  BY DEF ChecksIInv
<1>2. /\ now \in 0..MaxTime /\ started \in 0..MaxTime /\ started <= now
      /\ N \in Nat /\ MaxTime \in Nat
      /\ \A t \in Threads : on[t] \in 0..N
  BY <1>1, ChecksAssumption DEF ChecksTypeOK, TableIsOfThePast
<1>3. "checker" \in Threads /\ \A c \in Clients : c \in Threads /\ c # "checker"
  BY ChecksAssumption DEF Threads
<1>4. ASSUME NEW b \in Checkable
      PROVE  /\ seen[b].at \in Int /\ checked[b] \in Int /\ PeriodOf[b] \in Nat
             /\ b \in 1..N /\ checked[b] <= now
             /\ seen[b] # Never => seen[b].at <= now /\ seen[b].at >= 0
  <2>1. checked[b] \in Int /\ PeriodOf[b] \in Nat /\ b \in 1..N /\ checked[b] <= now
    BY <1>1, <1>2, ChecksAssumption DEF ChecksTypeOK, TableIsOfThePast, Checkable
  <2>2. ASSUME seen[b] # Never PROVE seen[b].at \in Int /\ seen[b].at <= now /\ seen[b].at >= 0
    <3>1. seen[b].at \in 0..now
      BY <1>1, <2>2 DEF TableIsOfThePast
    <3> QED BY <1>2, <3>1
  <2>3. Never.at \in Int
    BY DEF Never
  <2> QED BY <2>1, <2>2, <2>3
<1> QED BY <1>2, <1>3, <1>4

\* An answer is something that was said, so that it is not Never.
LEMMA AnswersAreNotNever ==
  \A note : note \in [at : Nat, said : Results] => note # Never
BY DEF Never

LEMMA ChecksInitSound == ChecksInit => ChecksIInv
<1> SUFFICES ASSUME ChecksInit PROVE ChecksIInv
  OBVIOUS
<1> USE DEF ChecksInit
<1>1. N \in Nat \ {0} /\ MaxTime \in Nat /\ "checker" \in Threads
  BY ChecksAssumption DEF Threads
<1>2. ChecksTypeOK
  <2>1. Never \in Notes /\ Never \in [at : -1..MaxTime, said : Results \cup {"never"}]
    BY <1>1 DEF Never, Notes
  <2> QED BY <1>1, <2>1 DEF ChecksTypeOK
<1>3. AnswersAreFresh
  BY DEF AnswersAreFresh, Busy
<1>4. TableIsOfThePast
  BY DEF TableIsOfThePast
<1>5. \A b \in Silent : ~RoundIsPast(b)
  <2>1. on["checker"] = 0 /\ \A b \in Silent : b \in 1..N
    BY <1>1 DEF Silent, Checkable
  <2> QED BY <1>1, <2>1 DEF RoundIsPast
<1>6. RoundIsRight
  BY <1>5 DEF RoundIsRight
<1>7. ChecksAreNoted
  BY DEF ChecksAreNoted
<1> QED BY <1>1, <1>2, <1>3, <1>4, <1>6, <1>7 DEF ChecksIInv

\* An answer that comes is noted in the same second.
LEMMA AnswerStep ==
  ASSUME ChecksIInv, NEW t \in Threads, NEW result \in Results, Answer(t, result)
  PROVE  ChecksIInv'
<1>1. /\ ChecksTypeOK /\ AnswersAreFresh /\ TableIsOfThePast /\ RoundIsRight /\ ChecksAreNoted
      /\ stage["checker"] = "asleep" => on["checker"] \in {0, N}
  BY DEF ChecksIInv
<1>2. /\ stage[t] = "asking" /\ stage' = [stage EXCEPT ![t] = "noting"]
      /\ got' = [got EXCEPT ![t] = [at |-> now, said |-> result]]
      /\ UNCHANGED <<now, seen, on, started, recent, checked>>
  BY DEF Answer, Reach
<1>3. /\ "checker" \in Threads /\ now \in 0..MaxTime /\ MaxTime \in Nat
  BY ChecksNumbers
<1>4. stage'["checker"] \in Busy <=> stage["checker"] \in Busy
  BY <1>1, <1>2, <1>3 DEF ChecksTypeOK, Busy
<1>5. stage'["checker"] = "asleep" <=> stage["checker"] = "asleep"
  BY <1>1, <1>2, <1>3 DEF ChecksTypeOK
<1>6. ChecksTypeOK'
  <2>1. [at |-> now, said |-> result] \in [at : -1..MaxTime, said : Results \cup {"never"}]
    BY <1>3
  <2> QED BY <1>1, <1>2, <2>1 DEF ChecksTypeOK
<1>7. AnswersAreFresh'
  BY <1>1, <1>2 DEF AnswersAreFresh, ChecksTypeOK, Busy
<1>8. TableIsOfThePast'
  BY <1>1, <1>2 DEF TableIsOfThePast
<1>9. RoundIsRight'
  BY <1>1, <1>2, <1>4 DEF RoundIsRight, RoundIsPast
<1>10. ChecksAreNoted'
  BY <1>1, <1>2, <1>4, <1>5 DEF ChecksAreNoted
<1> QED BY <1>1, <1>2, <1>5, <1>6, <1>7, <1>8, <1>9, <1>10 DEF ChecksIInv

LEMMA NoteStep ==
  ASSUME ChecksIInv, NEW t \in Threads, Note(t)
  PROVE  ChecksIInv'
<1>1. /\ ChecksTypeOK /\ AnswersAreFresh /\ TableIsOfThePast /\ RoundIsRight /\ ChecksAreNoted
      /\ stage["checker"] = "asleep" => on["checker"] \in {0, N}
  BY DEF ChecksIInv
<1> DEFINE k == on[t]
<1>2. /\ stage[t] = "noting" /\ stage' = [stage EXCEPT ![t] = "ready"]
      /\ seen' = [seen EXCEPT ![k] = got[t]] /\ got' = [got EXCEPT ![t] = Never]
      /\ UNCHANGED <<now, on, started, recent, checked>>
  BY DEF Note, Reach
<1>3. k \in Checkable /\ got[t] \in [at : {now}, said : Results]
  BY <1>1, <1>2 DEF AnswersAreFresh, Busy
<1>4. /\ now \in 0..MaxTime /\ started \in 0..MaxTime /\ started <= now /\ MaxTime \in Nat
      /\ "checker" \in Threads /\ \A b \in Checkable : checked[b] \in Int /\ checked[b] <= now
  BY ChecksNumbers
<1>5. got[t] # Never /\ got[t].at = now /\ got[t] \in [at : 0..now, said : Results] /\ got[t] \in Notes
  <2>1. got[t] \in [at : 0..now, said : Results] /\ got[t] \in [at : 0..MaxTime, said : Results]
    BY <1>3, <1>4
  <2>2. got[t] \in [at : Nat, said : Results]
    BY <1>3, <1>4
  <2> QED BY <1>3, <2>1, <2>2, AnswersAreNotNever DEF Notes
<1>6. /\ seen'[k] = got[t] /\ \A b \in Checkable : b # k => seen'[b] = seen[b]
  BY <1>1, <1>2, <1>3 DEF ChecksTypeOK
<1>7. stage'["checker"] \in Busy => stage["checker"] \in Busy /\ t # "checker"
  BY <1>1, <1>2, <1>4 DEF ChecksTypeOK, Busy
<1>8. stage["checker"] \in Busy => stage'["checker"] \in Busy \/ k = on["checker"]
  BY <1>1, <1>2, <1>4 DEF ChecksTypeOK
<1>9. stage'["checker"] = "asleep" <=> stage["checker"] = "asleep"
  BY <1>1, <1>2, <1>4 DEF ChecksTypeOK
<1> HIDE DEF k
<1>10. ChecksTypeOK'
  <2>1. Never \in [at : -1..MaxTime, said : Results \cup {"never"}]
    BY <1>4 DEF Never
  <2>2. seen' \in [Checkable -> Notes]
    BY <1>1, <1>2, <1>5 DEF ChecksTypeOK
  <2> QED BY <1>1, <1>2, <2>1, <2>2 DEF ChecksTypeOK
<1>11. AnswersAreFresh'
  BY <1>1, <1>2 DEF AnswersAreFresh, ChecksTypeOK, Busy
<1>12. TableIsOfThePast'
  BY <1>1, <1>2, <1>5, <1>6 DEF TableIsOfThePast
<1>13. RoundIsRight'
  <2> SUFFICES ASSUME NEW b \in Silent
               PROVE  /\ b \in recent => seen'[b] # Never
                           /\ (seen'[b].at >= started \/ started - seen'[b].at < PeriodOf[b])
                      /\ b \notin recent /\ RoundIsPast(b)' => seen'[b] # Never /\ seen'[b].at >= started
    BY <1>2 DEF RoundIsRight
  <2>1. b \in Checkable
    BY DEF Silent
  <2>2. CASE b = k
    BY <1>4, <1>5, <1>6, <2>2
  <2>3. CASE b # k
    <3>1. seen'[b] = seen[b]
      BY <1>6, <2>1, <2>3
    <3>2. RoundIsPast(b)' => RoundIsPast(b)
      BY <1>2, <1>8, <2>3 DEF RoundIsPast
    <3> QED BY <1>1, <3>1, <3>2 DEF RoundIsRight
  <2> QED BY <2>2, <2>3
<1>14. ChecksAreNoted'
  <2> SUFFICES ASSUME NEW b \in Checkable
               PROVE  /\ checked[b] # -1 /\ ~(on["checker"] = b /\ stage'["checker"] \in Busy)
                           => seen'[b] # Never /\ seen'[b].at >= checked[b]
                      /\ stage'["checker"] # "asleep" /\ b \notin recent /\ b > on["checker"] /\ checked[b] # -1
                           => started - checked[b] >= PeriodOf[b]
    BY <1>2 DEF ChecksAreNoted
  <2>1. stage'["checker"] # "asleep" /\ b \notin recent /\ b > on["checker"] /\ checked[b] # -1
          => started - checked[b] >= PeriodOf[b]
    BY <1>1, <1>9 DEF ChecksAreNoted
  <2>2. CASE b = k
    BY <1>4, <1>5, <1>6, <2>1, <2>2
  <2>3. CASE b # k
    <3>1. ~(on["checker"] = b /\ stage'["checker"] \in Busy) => ~(on["checker"] = b /\ stage["checker"] \in Busy)
      BY <1>8, <2>3
    <3> QED BY <1>1, <1>6, <2>1, <2>3, <3>1 DEF ChecksAreNoted
  <2> QED BY <2>2, <2>3
<1> QED BY <1>1, <1>2, <1>9, <1>10, <1>11, <1>12, <1>13, <1>14 DEF ChecksIInv

LEMMA ClientAsksStep ==
  ASSUME ChecksIInv, NEW c \in Clients, NEW b \in Checkable, ClientAsks(c, b)
  PROVE  ChecksIInv'
<1>1. /\ ChecksTypeOK /\ AnswersAreFresh /\ TableIsOfThePast /\ RoundIsRight /\ ChecksAreNoted
      /\ stage["checker"] = "asleep" => on["checker"] \in {0, N}
  BY DEF ChecksIInv
<1>2. /\ stage[c] = "ready" /\ stage' = [stage EXCEPT ![c] = "asking"]
      /\ on' = [on EXCEPT ![c] = b]
      /\ UNCHANGED <<now, seen, got, started, recent, checked>>
  BY DEF ClientAsks, Reach
<1>3. c \in Threads /\ c # "checker" /\ "checker" \in Threads /\ N \in Nat
  BY ChecksNumbers
<1>4. stage'["checker"] = stage["checker"] /\ on'["checker"] = on["checker"]
  BY <1>1, <1>2, <1>3 DEF ChecksTypeOK
<1>5. ChecksTypeOK'
  BY <1>1, <1>2, <1>3 DEF ChecksTypeOK, Checkable
<1>6. AnswersAreFresh'
  BY <1>1, <1>2, <1>3 DEF AnswersAreFresh, ChecksTypeOK, Busy
<1>7. TableIsOfThePast'
  BY <1>1, <1>2 DEF TableIsOfThePast
<1>8. RoundIsRight'
  BY <1>1, <1>2, <1>4 DEF RoundIsRight, RoundIsPast
<1>9. ChecksAreNoted'
  BY <1>1, <1>2, <1>4 DEF ChecksAreNoted
<1> QED BY <1>1, <1>4, <1>5, <1>6, <1>7, <1>8, <1>9 DEF ChecksIInv

\* A check begins: what it finds seen of late is recent, and of the rest, what
\* was ever checked was checked its period ago.
LEMMA WakeStep ==
  ASSUME ChecksIInv, Wake
  PROVE  ChecksIInv'
<1>1. /\ ChecksTypeOK /\ AnswersAreFresh /\ TableIsOfThePast /\ RoundIsRight /\ ChecksAreNoted
  BY DEF ChecksIInv
<1>2. /\ stage["checker"] = "asleep" /\ stage' = [stage EXCEPT !["checker"] = "ready"]
      /\ on' = [on EXCEPT !["checker"] = 0] /\ got' = [got EXCEPT !["checker"] = Never]
      /\ started' = now /\ recent' = {b \in Checkable : IsRecent(b)}
      /\ UNCHANGED <<now, seen, checked>>
  BY DEF Wake, Reach
<1>3. /\ now \in 0..MaxTime /\ MaxTime \in Nat /\ N \in Nat /\ "checker" \in Threads
      /\ \A b \in Checkable : /\ seen[b].at \in Int /\ checked[b] \in Int /\ PeriodOf[b] \in Nat
                              /\ b \in 1..N
                              /\ seen[b] # Never => seen[b].at <= now
  BY ChecksNumbers
<1>4. stage'["checker"] = "ready" /\ on'["checker"] = 0
  BY <1>1, <1>2, <1>3 DEF ChecksTypeOK
<1>5. ChecksTypeOK'
  <2>1. Never \in [at : -1..MaxTime, said : Results \cup {"never"}]
    BY <1>3 DEF Never
  <2>2. got' \in [Threads -> [at : -1..MaxTime, said : Results \cup {"never"}]]
    BY <1>1, <1>2, <2>1 DEF ChecksTypeOK
  <2>3. on' \in [Threads -> 0..N]
    BY <1>1, <1>2, <1>3 DEF ChecksTypeOK
  <2> QED BY <1>1, <1>2, <1>3, <2>2, <2>3 DEF ChecksTypeOK
<1>6. AnswersAreFresh'
  BY <1>1, <1>2 DEF AnswersAreFresh, ChecksTypeOK, Busy
<1>7. TableIsOfThePast'
  BY <1>1, <1>2, <1>3 DEF TableIsOfThePast
<1>8. RoundIsRight'
  <2> SUFFICES ASSUME NEW b \in Silent
               PROVE  /\ b \in recent' => seen[b] # Never
                           /\ (seen[b].at >= now \/ now - seen[b].at < PeriodOf[b])
                      /\ ~RoundIsPast(b)'
    BY <1>2 DEF RoundIsRight
  <2>1. b \in Checkable
    BY DEF Silent
  <2>2. ~RoundIsPast(b)'
    BY <1>3, <1>4, <2>1 DEF RoundIsPast
  <2> QED BY <1>2, <2>2 DEF IsRecent
<1>9. ChecksAreNoted'
  <2> SUFFICES ASSUME NEW b \in Checkable, checked[b] # -1
               PROVE  /\ seen[b] # Never /\ seen[b].at >= checked[b]
                      /\ b \notin recent' => now - checked[b] >= PeriodOf[b]
    BY <1>2 DEF ChecksAreNoted
  <2>1. seen[b] # Never /\ seen[b].at >= checked[b]
    BY <1>1, <1>2 DEF ChecksAreNoted, Busy
  <2>2. ASSUME b \notin recent' PROVE now - checked[b] >= PeriodOf[b]
    <3>1. ~(now - seen[b].at < PeriodOf[b])
      BY <1>2, <2>1, <2>2 DEF IsRecent
    <3> QED BY <1>3, <2>1, <3>1
  <2> QED BY <2>1, <2>2
<1> QED BY <1>4, <1>5, <1>6, <1>7, <1>8, <1>9 DEF ChecksIInv

LEMMA CheckNextStep ==
  ASSUME ChecksIInv, NEW b \in Checkable, CheckNext(b)
  PROVE  ChecksIInv'
<1>1. /\ ChecksTypeOK /\ AnswersAreFresh /\ TableIsOfThePast /\ RoundIsRight /\ ChecksAreNoted
  BY DEF ChecksIInv
<1>2. /\ stage["checker"] = "ready" /\ stage' = [stage EXCEPT !["checker"] = "asking"]
      /\ b \in Due /\ \A d \in Due : b <= d
      /\ on' = [on EXCEPT !["checker"] = b] /\ checked' = [checked EXCEPT ![b] = now]
      /\ UNCHANGED <<now, seen, got, started, recent>>
  BY DEF CheckNext, Reach
<1>3. /\ now \in 0..MaxTime /\ MaxTime \in Nat /\ N \in Nat /\ "checker" \in Threads
      /\ on["checker"] \in 0..N /\ \A d \in Checkable : d \in 1..N
  BY ChecksNumbers
<1>4. stage'["checker"] = "asking" /\ on'["checker"] = b
  BY <1>1, <1>2, <1>3 DEF ChecksTypeOK
<1>5. checked'[b] = now /\ \A d \in Checkable : d # b => checked'[d] = checked[d]
  BY <1>1, <1>2 DEF ChecksTypeOK
<1>6. b > on["checker"]
  BY <1>2 DEF Due
<1>7. ChecksTypeOK'
  <2>1. on' \in [Threads -> 0..N]
    BY <1>1, <1>2, <1>3 DEF ChecksTypeOK
  <2>2. checked' \in [Checkable -> -1..MaxTime]
    BY <1>1, <1>2, <1>3 DEF ChecksTypeOK
  <2> QED BY <1>1, <1>2, <2>1, <2>2 DEF ChecksTypeOK
<1>8. AnswersAreFresh'
  BY <1>1, <1>2, <1>3 DEF AnswersAreFresh, ChecksTypeOK, Busy
<1>9. TableIsOfThePast'
  <2>1. \A d \in Checkable : checked'[d] <= now
    BY <1>1, <1>3, <1>5 DEF TableIsOfThePast
  <2> QED BY <1>1, <1>2, <2>1 DEF TableIsOfThePast
<1>10. RoundIsRight'
  <2> SUFFICES ASSUME NEW d \in Silent, d \notin recent, RoundIsPast(d)'
               PROVE  RoundIsPast(d)
    BY <1>1, <1>2 DEF RoundIsRight
  <2>1. d \in 1..N
    BY <1>3 DEF Silent
  <2>2. d < b
    BY <1>4 DEF RoundIsPast, Busy
  <2>3. d \notin Due
    BY <1>2, <1>3, <2>1, <2>2
  <2>4. d <= on["checker"]
    BY <1>3, <2>1, <2>3 DEF Due
  <2> QED BY <1>2, <1>3, <2>1, <2>4 DEF RoundIsPast, Busy
<1>11. ChecksAreNoted'
  <2> SUFFICES ASSUME NEW d \in Checkable, checked'[d] # -1
               PROVE  /\ d # b => seen[d] # Never /\ seen[d].at >= checked'[d]
                      /\ d \notin recent /\ d > b => started - checked'[d] >= PeriodOf[d]
    BY <1>2, <1>4 DEF ChecksAreNoted, Busy
  <2>1. ASSUME d # b PROVE seen[d] # Never /\ seen[d].at >= checked'[d]
    BY <1>1, <1>2, <1>5, <2>1 DEF ChecksAreNoted, Busy
  <2>2. ASSUME d \notin recent, d > b PROVE started - checked'[d] >= PeriodOf[d]
    <3>1. d # b /\ d > on["checker"]
      BY <1>3, <1>6, <2>2
    <3> QED BY <1>1, <1>2, <1>5, <2>2, <3>1 DEF ChecksAreNoted
  <2> QED BY <2>1, <2>2
<1> QED BY <1>4, <1>7, <1>8, <1>9, <1>10, <1>11 DEF ChecksIInv

LEMMA SleepStep ==
  ASSUME ChecksIInv, Sleep
  PROVE  ChecksIInv'
<1>1. /\ ChecksTypeOK /\ AnswersAreFresh /\ TableIsOfThePast /\ RoundIsRight /\ ChecksAreNoted
  BY DEF ChecksIInv
<1>2. /\ stage["checker"] = "ready" /\ stage' = [stage EXCEPT !["checker"] = "asleep"]
      /\ Due = {}
      /\ got' = [got EXCEPT !["checker"] = [at |-> now, said |-> "never"]]
      /\ on' = [on EXCEPT !["checker"] = N]
      /\ UNCHANGED <<now, seen, started, recent, checked>>
  BY DEF Sleep, Reach
<1>3. /\ now \in 0..MaxTime /\ MaxTime \in Nat /\ N \in Nat /\ "checker" \in Threads
      /\ on["checker"] \in 0..N /\ \A d \in Checkable : d \in 1..N
  BY ChecksNumbers
<1>4. stage'["checker"] = "asleep" /\ on'["checker"] = N
  BY <1>1, <1>2, <1>3 DEF ChecksTypeOK
<1>5. ChecksTypeOK'
  <2>1. [at |-> now, said |-> "never"] \in [at : -1..MaxTime, said : Results \cup {"never"}]
    BY <1>3
  <2>2. got' \in [Threads -> [at : -1..MaxTime, said : Results \cup {"never"}]]
    BY <1>1, <1>2, <2>1 DEF ChecksTypeOK
  <2>3. on' \in [Threads -> 0..N]
    BY <1>1, <1>2, <1>3 DEF ChecksTypeOK
  <2> QED BY <1>1, <1>2, <2>2, <2>3 DEF ChecksTypeOK
<1>6. AnswersAreFresh'
  BY <1>1, <1>2 DEF AnswersAreFresh, ChecksTypeOK, Busy
<1>7. TableIsOfThePast'
  BY <1>1, <1>2 DEF TableIsOfThePast
<1>8. RoundIsRight'
  <2> SUFFICES ASSUME NEW d \in Silent, d \notin recent
               PROVE  RoundIsPast(d)
    BY <1>1, <1>2 DEF RoundIsRight
  <2>1. d \in 1..N
    BY <1>3 DEF Silent
  <2>2. d <= on["checker"]
    BY <1>2, <1>3, <2>1 DEF Due
  <2> QED BY <1>2, <1>3, <2>1, <2>2 DEF RoundIsPast, Busy
<1>9. ChecksAreNoted'
  <2> SUFFICES ASSUME NEW d \in Checkable, checked[d] # -1
               PROVE  seen[d] # Never /\ seen[d].at >= checked[d]
    BY <1>2, <1>4 DEF ChecksAreNoted
  <2> QED BY <1>1, <1>2 DEF ChecksAreNoted, Busy
<1> QED BY <1>4, <1>5, <1>6, <1>7, <1>8, <1>9 DEF ChecksIInv

LEMMA TickStep ==
  ASSUME ChecksIInv, Tick
  PROVE  ChecksIInv'
<1>1. /\ ChecksTypeOK /\ AnswersAreFresh /\ TableIsOfThePast /\ RoundIsRight /\ ChecksAreNoted
      /\ stage["checker"] = "asleep" => on["checker"] \in {0, N}
  BY DEF ChecksIInv
<1>2. /\ now < MaxTime /\ now' = now + 1 /\ \A t \in Threads : stage[t] # "noting"
      /\ UNCHANGED <<seen, stage, on, got, started, recent, checked>>
  BY DEF Tick
<1>3. /\ now \in 0..MaxTime /\ MaxTime \in Nat /\ started \in 0..MaxTime
      /\ \A b \in Checkable : checked[b] \in Int
  BY ChecksNumbers
<1>4. ChecksTypeOK'
  BY <1>1, <1>2, <1>3 DEF ChecksTypeOK
<1>5. AnswersAreFresh'
  BY <1>1, <1>2 DEF AnswersAreFresh
<1>6. TableIsOfThePast'
  <2>1. \A note : note \in [at : 0..now, said : Results] => note \in [at : 0..now', said : Results]
    BY <1>2, <1>3
  <2> QED BY <1>1, <1>2, <1>3, <2>1 DEF TableIsOfThePast
<1>7. RoundIsRight'
  BY <1>1, <1>2 DEF RoundIsRight, RoundIsPast
<1>8. ChecksAreNoted'
  BY <1>1, <1>2 DEF ChecksAreNoted
<1> QED BY <1>1, <1>2, <1>4, <1>5, <1>6, <1>7, <1>8 DEF ChecksIInv

LEMMA ChecksStep == ChecksIInv /\ [ChecksNext]_checkVars => ChecksIInv'
<1> SUFFICES ASSUME ChecksIInv, [ChecksNext]_checkVars PROVE ChecksIInv'
  OBVIOUS
<1>1. CASE \E t \in Threads : Note(t)
  BY <1>1, NoteStep
<1>2. CASE \E t \in Threads, result \in Results : Answer(t, result)
  BY <1>2, AnswerStep
<1>3. CASE \E c \in Clients, b \in Checkable : ClientAsks(c, b)
  BY <1>3, ClientAsksStep
<1>4. CASE \E b \in Checkable : CheckNext(b)
  BY <1>4, CheckNextStep
<1>5. CASE Wake
  BY <1>5, WakeStep
<1>6. CASE Sleep
  BY <1>6, SleepStep
<1>7. CASE Tick
  BY <1>7, TickStep
<1>8. CASE UNCHANGED checkVars
  BY <1>8 DEF checkVars, ChecksIInv, ChecksTypeOK, AnswersAreFresh, TableIsOfThePast,
              RoundIsRight, RoundIsPast, ChecksAreNoted
<1> QED BY <1>1, <1>2, <1>3, <1>4, <1>5, <1>6, <1>7, <1>8 DEF ChecksNext

\* At the end of a round every silent backend was either recent or asked.
LEMMA RoundLeavesFresh == ChecksIInv => RoundsRefresh
<1> SUFFICES ASSUME ChecksIInv, stage["checker"] = "asleep", on["checker"] # 0, NEW b \in Silent
             PROVE  /\ State(b) # "unknown"
                    /\ seen[b].at >= started \/ started - seen[b].at < PeriodOf[b]
  BY DEF RoundsRefresh
<1>1. b \in Checkable
  BY DEF Silent
<1>2. b \in 1..N /\ N \in Nat
  BY <1>1, ChecksNumbers
<1>3. on["checker"] = N
  BY DEF ChecksIInv
<1>4. RoundIsPast(b)
  BY <1>2, <1>3 DEF RoundIsPast, Busy
<1>5. seen[b] # Never /\ (seen[b].at >= started \/ started - seen[b].at < PeriodOf[b])
  BY <1>4 DEF ChecksIInv, RoundIsRight
<1>6. seen[b].said \in AllResults
  <2>1. seen[b].said \in Results
    BY <1>1, <1>5 DEF ChecksIInv, TableIsOfThePast
  <2> QED BY <2>1, ChecksAssumption
<1>7. State(b) # "unknown"
  BY <1>6 DEF State, AllResults
<1> QED BY <1>5, <1>7

\* Only the checker changes when a backend was last asked, and it asks only
\* what is due.
LEMMA AsksWhatIsDue ==
  ASSUME ChecksIInv, [ChecksNext]_checkVars, NEW b \in Checkable, CheckAsks(b), checked[b] # -1
  PROVE  now - checked[b] >= PeriodOf[b]
<1>1. PICK d \in Checkable : CheckNext(d)
  BY DEF CheckAsks, ChecksNext, checkVars, Note, Answer, ClientAsks, Wake, Sleep, Tick
<1>2. b = d
  BY <1>1 DEF CheckNext, CheckAsks, ChecksIInv, ChecksTypeOK
<1>3. /\ stage["checker"] = "ready" /\ b \notin recent /\ b > on["checker"]
  BY <1>1, <1>2 DEF CheckNext, Due
<1>4. started - checked[b] >= PeriodOf[b]
  BY <1>3 DEF ChecksIInv, ChecksAreNoted
<1>5. /\ now \in 0..MaxTime /\ MaxTime \in Nat /\ started \in 0..MaxTime /\ started <= now
      /\ checked[b] \in Int /\ PeriodOf[b] \in Nat
  BY ChecksNumbers
<1> QED BY <1>4, <1>5

\* However requests of clients fall into the checks: a round leaves no silent
\* backend unknown or older than its period, and two checks of a backend are at
\* least its period apart.
THEOREM ChecksAreOnTime == ChecksSpec => ChecksKeepTime
<1>1. /\ ChecksIInv /\ [ChecksNext]_checkVars
      => [\A b \in Checkable :
            CheckAsks(b) /\ checked[b] # -1 => now - checked[b] >= PeriodOf[b]]_checkVars
  BY AsksWhatIsDue
<1> QED BY <1>1, ChecksInitSound, ChecksStep, RoundLeavesFresh, PTL
        DEF ChecksSpec, ChecksKeepTime, ChecksAreSpaced

----------------------------------------------------------------------------
(* LmSlots.                                                               *)

LEMMA CallersFinite ==
  ASSUME NEW S, S \subseteq Callers
  PROVE  IsFiniteSet(S) /\ Cardinality(S) \in Nat
BY SlotsAssumption, FS_Subset, FS_CardinalityType

\* What one call more, or one less, does to a count.
LEMMA OneCallMore ==
  ASSUME NEW S, S \subseteq Callers, NEW x \in Callers
  PROVE  /\ x \notin S => Cardinality(S \cup {x}) = Cardinality(S) + 1
         /\ x \in S => /\ Cardinality(S \ {x}) = Cardinality(S) - 1
                       /\ Cardinality(S) # 0
<1>1. IsFiniteSet(S)
  BY CallersFinite
<1>2. x \notin S => Cardinality(S \cup {x}) = Cardinality(S) + 1
  BY <1>1, FS_AddElement
<1>3. x \in S => Cardinality(S \ {x}) = Cardinality(S) - 1
  BY <1>1, FS_RemoveElement
<1>4. x \in S => Cardinality(S) # 0
  BY <1>1, FS_EmptySet
<1>q. QED
  BY <1>2, <1>3, <1>4

Holding == At("holding")

LEMMA SetsOfCallers == Holding \subseteq Callers /\ Coming \subseteq Callers
BY DEF Holding, At, Coming

SlotsIInv == SlotsTypeOK /\ SlotsConserved /\ NoLostWakeup

LEMMA SlotsInitIInv == SlotsInit => SlotsIInv
<1> SUFFICES ASSUME SlotsInit PROVE SlotsIInv
  OBVIOUS
<1>1. At("holding") = {} /\ At("waiting") = {}
  BY DEF SlotsInit, At
<1>2. Cardinality(At("holding")) = 0
  BY <1>1, FS_EmptySet
<1>q. QED
  BY <1>1, <1>2, SlotsAssumption DEF SlotsInit, SlotsIInv, SlotsTypeOK, Places, SlotsConserved, NoLostWakeup

(* What each step does to the calls that hold, wait and are on their way.  *)

\* The steps that touch neither the count nor the holders.
KeepsSlots(c) == Call(c) \/ Expire(c) \/ GiveUp(c) \/ Wait(c) \/ WakeUp(c) \/ Notify(c) \/ Return(c)

LEMMA SlotsTypeStep == SlotsTypeOK /\ [SlotsNext]_slotVars => SlotsTypeOK'
<1> SUFFICES ASSUME SlotsTypeOK, [SlotsNext]_slotVars PROVE SlotsTypeOK'
  OBVIOUS
<1> USE DEF SlotsTypeOK, Places
<1>1. CASE UNCHANGED slotVars
  BY <1>1 DEF slotVars
<1>2. ASSUME NEW c \in Callers, Call(c) \/ Expire(c) \/ WakeUp(c) \/ Return(c) PROVE SlotsTypeOK'
  BY <1>2 DEF Call, Expire, WakeUp, Return, GoesTo
<1>3. ASSUME NEW c \in Callers, Look(c) PROVE SlotsTypeOK'
  BY <1>3 DEF Look, Take, GiveUp, Wait, Looking, GoesTo
<1>4. ASSUME NEW c \in Callers, GiveBack(c) PROVE SlotsTypeOK'
  BY <1>4 DEF GiveBack, GoesTo
<1>5. ASSUME NEW c \in Callers, Notify(c) PROVE SlotsTypeOK'
  BY <1>5 DEF Notify, GoesTo, At
<1>q. QED
  BY <1>1, <1>2, <1>3, <1>4, <1>5 DEF SlotsNext

LEMMA SlotsAreKept ==
  ASSUME SlotsTypeOK, NEW c \in Callers, KeepsSlots(c)
  PROVE  Holding' = Holding /\ free' = free
<1>1. /\ free' = free
      /\ \A d \in Callers : doing'[d] = "holding" <=> doing[d] = "holding"
  BY DEF KeepsSlots, Call, Expire, GiveUp, Wait, WakeUp, Notify, Return, Looking, GoesTo, At, SlotsTypeOK
<1>q. QED
  BY <1>1 DEF Holding, At

LEMMA TakeHolds ==
  ASSUME SlotsTypeOK, SlotsConserved, NEW c \in Callers, Take(c)
  PROVE  /\ c \notin Holding /\ Holding' = Holding \cup {c} /\ free' = free - 1
         /\ Cardinality(Holding') = Cardinality(Holding) + 1
         /\ Cardinality(Holding) < Max
<1>1. /\ c \notin Holding /\ Holding' = Holding \cup {c} /\ free' = free - 1
      /\ free # 0 /\ free \in Nat
  BY DEF Take, Looking, GoesTo, Holding, At, SlotsTypeOK
<1>2. Cardinality(Holding) \in Nat
  BY CallersFinite, SetsOfCallers
<1>q. QED
  BY <1>1, <1>2, SetsOfCallers, OneCallMore, SlotsAssumption DEF SlotsConserved, Holding

LEMMA GiveBackHolds ==
  ASSUME SlotsTypeOK, NEW c \in Callers, GiveBack(c)
  PROVE  /\ c \in Holding /\ Holding' = Holding \ {c} /\ free' = free + 1
         /\ Cardinality(Holding') = Cardinality(Holding) - 1
<1>1. c \in Holding /\ Holding' = Holding \ {c} /\ free' = free + 1
  BY DEF GiveBack, GoesTo, Holding, At, SlotsTypeOK
<1>q. QED
  BY <1>1, SetsOfCallers, OneCallMore

LEMMA ConservedStep ==
  ASSUME SlotsIInv, [SlotsNext]_slotVars
  PROVE  SlotsConserved'
<1>1. SlotsTypeOK /\ SlotsConserved /\ free \in Nat /\ Cardinality(Holding) \in Nat /\ Max \in Nat
  BY CallersFinite, SetsOfCallers, SlotsAssumption DEF SlotsIInv, SlotsTypeOK
<1>2. CASE UNCHANGED slotVars
  BY <1>1, <1>2 DEF slotVars, SlotsConserved, At
<1>3. ASSUME NEW c \in Callers, KeepsSlots(c) PROVE SlotsConserved'
  BY <1>1, <1>3, SlotsAreKept DEF SlotsConserved, Holding
<1>4. ASSUME NEW c \in Callers, Take(c) PROVE SlotsConserved'
  BY <1>1, <1>4, TakeHolds DEF SlotsConserved, Holding
<1>5. ASSUME NEW c \in Callers, GiveBack(c) PROVE SlotsConserved'
  BY <1>1, <1>5, GiveBackHolds DEF SlotsConserved, Holding
<1>q. QED
  BY <1>2, <1>3, <1>4, <1>5 DEF SlotsNext, Look, KeepsSlots

LEMMA WakeupStep ==
  ASSUME SlotsIInv, [SlotsNext]_slotVars
  PROVE  NoLostWakeup'
<1>1. SlotsTypeOK /\ NoLostWakeup /\ free \in Nat /\ Cardinality(Coming) \in Nat /\ SlotsTypeOK'
  BY CallersFinite, SetsOfCallers, SlotsTypeStep DEF SlotsIInv, SlotsTypeOK
<1>2. Coming' \subseteq Callers /\ Cardinality(Coming') \in Nat
  <2>1. Coming' \subseteq Callers
    BY DEF Coming
  <2>q. QED
    BY <2>1, CallersFinite
<1>3. CASE UNCHANGED slotVars
  BY <1>1, <1>3 DEF slotVars, NoLostWakeup, At, Coming
<1>4. ASSUME NEW c \in Callers, Call(c) \/ Expire(c) \/ Return(c) PROVE NoLostWakeup'
  <2>1. /\ free' = free
        /\ \A d \in Callers : /\ doing'[d] = "waiting" <=> doing[d] = "waiting"
                              /\ doing'[d] \in {"woken", "notifying"}
                                   <=> doing[d] \in {"woken", "notifying"}
    BY <1>1, <1>4 DEF Call, Expire, Return, GoesTo, SlotsTypeOK
  <2>2. At("waiting")' = At("waiting") /\ Coming' = Coming
    BY <2>1 DEF At, Coming
  <2>q. QED
    BY <1>1, <2>1, <2>2 DEF NoLostWakeup
<1>5. ASSUME NEW c \in Callers, GiveUp(c) \/ Wait(c) PROVE NoLostWakeup'
  <2>1. free' = 0
    BY <1>5 DEF GiveUp, Wait
  <2>q. QED
    BY <1>2, <2>1 DEF NoLostWakeup
<1>6. ASSUME NEW c \in Callers, Take(c) PROVE NoLostWakeup'
  <2>1. free' = free - 1 /\ At("waiting")' = At("waiting") /\ Coming' = Coming \ {c}
    BY <1>1, <1>6 DEF Take, Looking, GoesTo, At, Coming, SlotsTypeOK
  <2>2. Cardinality(Coming \ {c}) >= Cardinality(Coming) - 1
    <3>1. CASE c \in Coming
      BY <1>1, <3>1, SetsOfCallers, OneCallMore
    <3>2. CASE c \notin Coming
      <4>1. Coming \ {c} = Coming
        BY <3>2
      <4>q. QED
        BY <1>1, <4>1
    <3>q. QED
      BY <3>1, <3>2
  <2>q. QED
    BY <1>1, <1>2, <2>1, <2>2 DEF NoLostWakeup
<1>7. ASSUME NEW c \in Callers, WakeUp(c) PROVE NoLostWakeup'
  <2>1. /\ free' = free /\ At("waiting") # {}
        /\ c \notin Coming /\ Coming' = Coming \cup {c}
    BY <1>1, <1>7 DEF WakeUp, GoesTo, At, Coming, SlotsTypeOK
  <2>2. Cardinality(Coming') = Cardinality(Coming) + 1
    BY <2>1, SetsOfCallers, OneCallMore
  <2>q. QED
    BY <1>1, <2>1, <2>2 DEF NoLostWakeup
<1>8. ASSUME NEW c \in Callers, GiveBack(c) PROVE NoLostWakeup'
  <2>1. /\ free' = free + 1 /\ At("waiting")' = At("waiting")
        /\ c \notin Coming /\ Coming' = Coming \cup {c}
    BY <1>1, <1>8 DEF GiveBack, GoesTo, At, Coming, SlotsTypeOK
  <2>2. Cardinality(Coming') = Cardinality(Coming) + 1
    BY <2>1, SetsOfCallers, OneCallMore
  <2>q. QED
    BY <1>1, <2>1, <2>2 DEF NoLostWakeup
<1>9. ASSUME NEW c \in Callers, Notify(c) PROVE NoLostWakeup'
  <2>1. CASE At("waiting") = {}
    <3>1. At("waiting")' = {}
      BY <1>1, <1>9, <2>1 DEF Notify, GoesTo, At, SlotsTypeOK
    <3>q. QED
      BY <3>1 DEF NoLostWakeup
  <2>2. CASE At("waiting") # {}
    <3>1. PICK w \in At("waiting") : doing' = [doing EXCEPT ![c] = "idle", ![w] = "woken"]
      BY <1>9, <2>2 DEF Notify
    <3>2. /\ free' = free /\ c \in Coming /\ w \in Callers /\ w \notin Coming \ {c}
          /\ Coming' = (Coming \ {c}) \cup {w}
      BY <1>1, <1>9, <3>1 DEF Notify, At, Coming, SlotsTypeOK
    <3>3. Cardinality(Coming \ {c}) = Cardinality(Coming) - 1
      BY <3>2, SetsOfCallers, OneCallMore
    <3>4. Cardinality(Coming') = Cardinality(Coming \ {c}) + 1
      BY <3>2, SetsOfCallers, OneCallMore
    <3>q. QED
      BY <1>1, <2>2, <3>2, <3>3, <3>4 DEF NoLostWakeup
  <2>q. QED
    BY <2>1, <2>2
<1>q. QED
  BY <1>3, <1>4, <1>5, <1>6, <1>7, <1>8, <1>9 DEF SlotsNext, Look

LEMMA SlotsIInvStep == SlotsIInv /\ [SlotsNext]_slotVars => SlotsIInv'
BY SlotsTypeStep, ConservedStep, WakeupStep DEF SlotsIInv

LEMMA AlwaysSlotsIInv == SlotsSpec => []SlotsIInv
BY SlotsInitIInv, SlotsIInvStep, PTL DEF SlotsSpec

\* No slot leaks or is lent twice, for any number of calls and of slots.
THEOREM NoSlotLeaks == SlotsSpec => []SlotsConserved
<1>1. SlotsIInv => SlotsConserved
  BY DEF SlotsIInv
<1>q. QED
  BY <1>1, AlwaysSlotsIInv, PTL

\* No free slot ever lies in front of sleeping calls with nobody on the way to
\* it: one notify per drop is enough.
THEOREM NoWakeupIsLost == SlotsSpec => []NoLostWakeup
<1>1. SlotsIInv => NoLostWakeup
  BY DEF SlotsIInv
<1>q. QED
  BY <1>1, AlwaysSlotsIInv, PTL

\* Semaphore counts as FiniteSets does.
LEMMA SameCount == \A S : Slots!Cardinality(S) = Cardinality(S)
BY Zenon DEF Slots!Cardinality, Cardinality

\* The mutex, the condition variable and the deadline implement the semaphore.
THEOREM ImplementsSemaphore == SlotsSpec => SlotsAreASemaphore
<1>1. SlotsInit => Slots!Init
  BY DEF SlotsInit, Slots!Init, At
<1>2. ASSUME SlotsIInv, [SlotsNext]_slotVars PROVE [Slots!Next]_(Slots!vars)
  <2>0. SlotsTypeOK /\ SlotsConserved /\ Cardinality(Holding) \in Nat /\ Max \in Nat
    BY <1>2, CallersFinite, SetsOfCallers, SlotsAssumption DEF SlotsIInv
  <2>1. CASE UNCHANGED slotVars
    BY <2>1 DEF slotVars, Slots!vars, At
  <2>2. ASSUME NEW c \in Callers, Call(c) \/ Expire(c) \/ Wait(c) \/ WakeUp(c) \/ Notify(c)
        PROVE  UNCHANGED Slots!vars
    <3>1. Holding' = Holding
      BY <2>0, <2>2, SlotsAreKept DEF KeepsSlots
    <3>2. \A d \in Callers : doing'[d] = "refused" <=> doing[d] = "refused"
      BY <2>0, <2>2 DEF Call, Expire, Wait, WakeUp, Notify, Looking, GoesTo, At, SlotsTypeOK
    <3>3. At("refused")' = At("refused")
      BY <3>2 DEF At
    <3>q. QED
      BY <3>1, <3>3 DEF Slots!vars, Holding
  <2>3. ASSUME NEW c \in Callers, Take(c) PROVE Slots!Take(c)
    <3>1. At("refused")' = At("refused")
      BY <2>0, <2>3 DEF Take, Looking, GoesTo, At, SlotsTypeOK
    <3>q. QED
      BY <2>0, <2>3, <3>1, TakeHolds, SameCount DEF Slots!Take, Holding
  <2>4. ASSUME NEW c \in Callers, GiveBack(c) PROVE Slots!GiveBack(c)
    <3>1. At("refused")' = At("refused")
      BY <2>0, <2>4 DEF GiveBack, GoesTo, At, SlotsTypeOK
    <3>q. QED
      BY <2>0, <2>4, <3>1, GiveBackHolds DEF Slots!GiveBack, Holding
  <2>5. ASSUME NEW c \in Callers, GiveUp(c) PROVE Slots!TurnAway(c)
    <3>1. Holding' = Holding /\ free = 0
      BY <2>0, <2>5, SlotsAreKept DEF KeepsSlots, GiveUp
    <3>2. c \notin Holding /\ At("refused")' = At("refused") \cup {c}
      BY <2>0, <2>5 DEF GiveUp, Looking, GoesTo, At, Holding, SlotsTypeOK
    <3>3. Cardinality(Holding) = Max
      BY <2>0, <3>1 DEF SlotsConserved, Holding
    <3>q. QED
      BY <3>1, <3>2, <3>3, SameCount DEF Slots!TurnAway, Holding
  <2>6. ASSUME NEW c \in Callers, Return(c) PROVE Slots!GoAway(c)
    <3>1. Holding' = Holding
      BY <2>0, <2>6, SlotsAreKept DEF KeepsSlots
    <3>2. c \in At("refused") /\ At("refused")' = At("refused") \ {c}
      BY <2>0, <2>6 DEF Return, GoesTo, At, SlotsTypeOK
    <3>q. QED
      BY <3>1, <3>2 DEF Slots!GoAway, Holding
  <2>q. QED
    BY <1>2, <2>1, <2>2, <2>3, <2>4, <2>5, <2>6 DEF SlotsNext, Look, Slots!Next
<1>q. QED
  BY <1>1, <1>2, AlwaysSlotsIInv, PTL DEF SlotsSpec, SlotsAreASemaphore, Slots!Spec
=============================================================================
