------------------------ MODULE GeneratorPartsProofs ------------------------
(***************************************************************************)
(* Proofs about six parts of the generator that share no state.            *)
(*                                                                         *)
(* Titles, for any number of jobs, directories and titles: only a job that *)
(* is over has a directory, so a title that is given before has no file to *)
(* miss, and a tailoring writes it into a directory that no other job has. *)
(*                                                                         *)
(* WordHelper, for any number of requests: the end of the helper not being *)
(* told, the queue is what is printed followed by what is asked, so its    *)
(* head is always the request whose answer is read next.                   *)
(*                                                                         *)
(* Invitations, for any number of codes, labels, guests and commands: a    *)
(* command only ever saves a file with one live code for each label,       *)
(* because what it loaded was such a file and it asked for its label; and  *)
(* no struck code is live in it, but for those that were struck since it   *)
(* loaded, as new codes are none that was ever made.                       *)
(*                                                                         *)
(* Page, for any number of offers, POSTs and jobs: an offer is at one      *)
(* place, or at two when the answer of its POST was lost; what the poll    *)
(* was told of a job was true, and has grown old only while the job was    *)
(* under way or when the server dropped it.                                *)
(*                                                                         *)
(* Admission, for any caps: the list that admit shortens has every job of  *)
(* the last day, so what it counts is all that there is to count; and as   *)
(* long as no key was forgotten for want of room, every try of the last    *)
(* hour is kept, and so is every ban to its end.                           *)
(*                                                                         *)
(* OwnerAnswers, for any answers: an answer that is taken alone, by the    *)
(* profile with all earlier ones merged in, is taken in its turn at the    *)
(* next load, whatever came before it.                                     *)
(***************************************************************************)
EXTENDS Titles, WordHelper, Invitations, Page, Admission, OwnerAnswers, SequenceTheorems, FiniteSetTheorems,
        WellFoundedInduction, TLAPS

----------------------------------------------------------------------------
(* Titles.                                                                 *)

\* One of the jobs of j's directory has its title there, or could not write it.
KeptFor(j) ==
  folder[j] # Nothing /\ j \in renamed
  => \E k \in renamed : /\ folder[k] = folder[j]
                        /\ k \in unkept \/ titleFile[folder[j]] = title[k]

\* A job has no title of its own before it is accepted, and no directory
\* before it is over.
NotYet ==
  \A j \in TitleJobs : /\ phase[j] = "none" => j \notin renamed
                       /\ folder[j] # Nothing => phase[j] \in Over

TitlesInv == TitlesTypeOK /\ (\A j \in TitleJobs : KeptFor(j)) /\ NotYet /\ JobsEndOnce

LEMMA KeptMeansKept ==
  ASSUME \A j \in TitleJobs : KeptFor(j)
  PROVE  TitlesAreKept
<1> SUFFICES ASSUME NEW j \in TitleJobs, folder[j] # Nothing, j \in renamed
             PROVE  LET mates == {k \in renamed : folder[k] = folder[j]} IN
                    mates \cap unkept # {} \/ titleFile[folder[j]] \in {title[k] : k \in mates}
  BY DEF TitlesAreKept
<1>1. PICK k \in renamed : /\ folder[k] = folder[j]
                           /\ k \in unkept \/ titleFile[folder[j]] = title[k]
  BY DEF KeptFor
<1> QED
  BY <1>1

LEMMA TitlesStart == TitlesInit => TitlesInv
<1> SUFFICES ASSUME TitlesInit PROVE TitlesInv
  OBVIOUS
<1>1. TitlesTypeOK
  BY DEF TitlesInit, TitlesTypeOK
<1>2. \A j \in TitleJobs : KeptFor(j)
  BY DEF TitlesInit, KeptFor
<1>3. NotYet /\ JobsEndOnce
  BY DEF TitlesInit, NotYet, JobsEndOnce, Over
<1> QED
  BY <1>1, <1>2, <1>3 DEF TitlesInv

----------------------------------------------------------------------------
(* The log: at most one line is added, and only for the job at hand.       *)

LEMMA LoggedOnce ==
  ASSUME TitlesTypeOK, NEW j \in TitleJobs, Logs(j), lines[j] <= 0
  PROVE  /\ lines' \in [TitleJobs -> Nat] /\ lines'[j] <= 1
         /\ \A k \in TitleJobs : k # j => lines'[k] = lines[k]
<1>1. PICK n \in {0, 1} : lines' = [lines EXCEPT ![j] = @ + n]
  BY DEF Logs
<1>2. lines[j] \in Nat
  BY DEF TitlesTypeOK
<1>3. lines'[j] = lines[j] + n
  BY <1>1 DEF TitlesTypeOK
<1> QED
  BY <1>1, <1>2, <1>3 DEF TitlesTypeOK

----------------------------------------------------------------------------
(* One step for each action.                                               *)

LEMMA AcceptKeeps ==
  ASSUME TitlesInv, NEW j \in TitleJobs, Accept(j)
  PROVE  TitlesInv'
<1> USE DEF TitlesInv
<1>1. PICK t \in Names : title' = [title EXCEPT ![j] = t]
  BY DEF Accept
<1>2. phase[j] = "none" /\ j \notin renamed /\ folder[j] = Nothing /\ lines[j] <= 0
  BY DEF Accept, NotYet, JobsEndOnce, Over
<1>3. UNCHANGED <<renamed, titleFile, unkept>>
  BY DEF Accept
<1>4. CASE phase' = [phase EXCEPT ![j] = "queued"] /\ UNCHANGED <<folder, lines>>
  <2>1. TitlesTypeOK'
    BY <1>1, <1>3, <1>4 DEF TitlesTypeOK
  <2>2. \A k \in TitleJobs : KeptFor(k)'
    BY <1>1, <1>2, <1>3, <1>4 DEF KeptFor, TitlesTypeOK
  <2>3. NotYet'
    BY <1>2, <1>3, <1>4 DEF NotYet, TitlesTypeOK
  <2>4. JobsEndOnce'
    BY <1>2, <1>3, <1>4 DEF JobsEndOnce, TitlesTypeOK, Over
  <2> QED
    BY <2>1, <2>2, <2>3, <2>4
<1>5. ASSUME NEW k \in TitleJobs, folder[k] # Nothing,
             phase' = [phase EXCEPT ![j] = "done"],
             folder' = [folder EXCEPT ![j] = folder[k]], Logs(j)
      PROVE  TitlesInv'
  <2>1. /\ lines' \in [TitleJobs -> Nat] /\ lines'[j] <= 1
        /\ \A i \in TitleJobs : i # j => lines'[i] = lines[i]
    BY <1>2, <1>5, LoggedOnce
  <2>2. TitlesTypeOK'
    BY <1>1, <1>3, <1>5, <2>1 DEF TitlesTypeOK, Over
  <2>3. \A i \in TitleJobs : KeptFor(i)'
    <3> SUFFICES ASSUME NEW i \in TitleJobs, folder'[i] # Nothing, i \in renamed
                 PROVE  KeptFor(i)'
      BY <1>3 DEF KeptFor
    <3>1. i # j /\ folder'[i] = folder[i]
      BY <1>2, <1>5 DEF TitlesTypeOK
    <3>2. PICK m \in renamed : /\ folder[m] = folder[i]
                               /\ m \in unkept \/ titleFile[folder[i]] = title[m]
      BY <3>1 DEF KeptFor
    <3>3. m \in TitleJobs /\ m # j /\ folder'[m] = folder[m] /\ title'[m] = title[m]
      BY <1>1, <1>2, <1>5, <3>2 DEF TitlesTypeOK
    <3> QED
      BY <1>3, <3>1, <3>2, <3>3 DEF KeptFor
  <2>4. NotYet'
    BY <1>2, <1>3, <1>5 DEF NotYet, TitlesTypeOK, Over
  <2>5. JobsEndOnce'
    BY <1>3, <1>5, <2>1 DEF JobsEndOnce, TitlesTypeOK, Over
  <2> QED
    BY <2>2, <2>3, <2>4, <2>5
<1> QED
  BY <1>4, <1>5 DEF Accept

LEMMA TailoredKeeps ==
  ASSUME TitlesInv, NEW j \in TitleJobs, Tailored(j)
  PROVE  TitlesInv'
<1> USE DEF TitlesInv
<1>1. PICK d \in Folders : /\ \A k \in TitleJobs : folder[k] # d
                           /\ folder' = [folder EXCEPT ![j] = d]
  BY DEF Tailored
<1>2. phase[j] = "running" /\ folder[j] = Nothing /\ d # Nothing /\ lines[j] <= 0
  BY <1>1 DEF Tailored, NotYet, JobsEndOnce, Over
<1>3. UNCHANGED <<title, renamed>> /\ folder'[j] = d
  BY <1>1 DEF Tailored, TitlesTypeOK
<1>4. /\ lines' \in [TitleJobs -> Nat] /\ lines'[j] <= 1
      /\ \A k \in TitleJobs : k # j => lines'[k] = lines[k]
  BY <1>2, LoggedOnce DEF Tailored
<1>5. /\ phase' = [phase EXCEPT ![j] = "done"] \/ phase' = [phase EXCEPT ![j] = "failed"]
      /\ phase'[j] = "failed" => j \in unkept'
      /\ unkept \subseteq unkept' /\ unkept' \subseteq unkept \cup {j}
      /\ j \in renamed => j \in unkept' \/ titleFile'[d] = title[j]
      /\ titleFile' = titleFile \/ titleFile' = [titleFile EXCEPT ![d] = title[j]]
  BY <1>2, <1>3 DEF Tailored, Done, Keeps, TitlesTypeOK
<1>6. TitlesTypeOK'
  BY <1>1, <1>3, <1>4, <1>5 DEF TitlesTypeOK, Over
<1>7. \A i \in TitleJobs : KeptFor(i)'
  <2> SUFFICES ASSUME NEW i \in TitleJobs, folder'[i] # Nothing, i \in renamed
               PROVE  KeptFor(i)'
    BY <1>3 DEF KeptFor
  <2>1. CASE i = j
    BY <1>3, <1>5, <2>1 DEF KeptFor
  <2>2. CASE i # j
    <3>1. folder'[i] = folder[i] /\ folder[i] # d
      BY <1>1, <2>2 DEF TitlesTypeOK
    <3>2. PICK m \in renamed : /\ folder[m] = folder[i]
                               /\ m \in unkept \/ titleFile[folder[i]] = title[m]
      BY <3>1 DEF KeptFor
    <3>3. m \in TitleJobs /\ m # j /\ folder'[m] = folder[m]
      BY <1>1, <1>2, <3>1, <3>2 DEF TitlesTypeOK
    <3>4. titleFile'[folder[i]] = titleFile[folder[i]]
      BY <1>5, <3>1 DEF TitlesTypeOK
    <3> QED
      BY <1>3, <1>5, <3>1, <3>2, <3>3, <3>4 DEF KeptFor
  <2> QED
    BY <2>1, <2>2
<1>8. NotYet'
  BY <1>1, <1>2, <1>3, <1>5 DEF NotYet, TitlesTypeOK, Over
<1>9. JobsEndOnce'
  BY <1>1, <1>4, <1>5 DEF JobsEndOnce, TitlesTypeOK, Over
<1> QED
  BY <1>6, <1>7, <1>8, <1>9

LEMMA RenameKeeps ==
  ASSUME TitlesInv, NEW j \in TitleJobs, NEW t \in Names, Rename(j, t)
  PROVE  TitlesInv'
<1> USE DEF TitlesInv
<1>1. /\ title' = [title EXCEPT ![j] = t] /\ renamed' = renamed \cup {j}
      /\ phase[j] # "none" /\ UNCHANGED <<phase, folder, lines>>
  BY DEF Rename
<1>2. /\ unkept \subseteq unkept' /\ unkept' \subseteq unkept \cup {j}
      /\ folder[j] # Nothing => j \in unkept' \/ titleFile'[folder[j]] = t
      /\ \/ titleFile' = titleFile
         \/ folder[j] # Nothing /\ titleFile' = [titleFile EXCEPT ![folder[j]] = t]
  BY DEF Rename, Keeps, TitlesTypeOK
<1>3. TitlesTypeOK'
  BY <1>1, <1>2 DEF TitlesTypeOK
<1>4. \A i \in TitleJobs : KeptFor(i)'
  <2> SUFFICES ASSUME NEW i \in TitleJobs, folder[i] # Nothing, i \in renamed'
               PROVE  KeptFor(i)'
    BY <1>1 DEF KeptFor
  <2>1. CASE folder[i] = folder[j]
    <3>1. title'[j] = t /\ j \in renamed'
      BY <1>1 DEF TitlesTypeOK
    <3> QED
      BY <1>1, <1>2, <2>1, <3>1 DEF KeptFor
  <2>2. CASE folder[i] # folder[j]
    <3>1. i \in renamed
      BY <1>1, <2>2
    <3>2. PICK m \in renamed : /\ folder[m] = folder[i]
                               /\ m \in unkept \/ titleFile[folder[i]] = title[m]
      BY <3>1 DEF KeptFor
    <3>3. m # j /\ m \in TitleJobs /\ title'[m] = title[m]
      BY <1>1, <2>2, <3>2 DEF TitlesTypeOK
    <3>4. titleFile'[folder[i]] = titleFile[folder[i]]
      BY <1>2, <2>2 DEF TitlesTypeOK
    <3> QED
      BY <1>1, <1>2, <3>2, <3>3, <3>4 DEF KeptFor
  <2> QED
    BY <2>1, <2>2
<1>5. NotYet' /\ JobsEndOnce'
  BY <1>1, <1>2 DEF NotYet, JobsEndOnce
<1> QED
  BY <1>3, <1>4, <1>5

LEMMA PhaseKeeps ==
  ASSUME TitlesInv, NEW j \in TitleJobs, StartJob(j) \/ TailoringFails(j)
  PROVE  TitlesInv'
<1> USE DEF TitlesInv
<1>1. /\ phase[j] \in {"queued", "running"} /\ folder[j] = Nothing /\ lines[j] <= 0
      /\ UNCHANGED <<folder, title, renamed, titleFile, unkept>>
  BY DEF StartJob, TailoringFails, NotYet, JobsEndOnce, Over
<1>2. \/ phase' = [phase EXCEPT ![j] = "running"] /\ UNCHANGED lines
      \/ /\ phase' = [phase EXCEPT ![j] = "failed"]
         /\ lines' \in [TitleJobs -> Nat] /\ lines'[j] <= 1
         /\ \A k \in TitleJobs : k # j => lines'[k] = lines[k]
  BY <1>1, LoggedOnce DEF StartJob, TailoringFails
<1>3. TitlesTypeOK'
  BY <1>1, <1>2 DEF TitlesTypeOK, Over
<1>4. \A i \in TitleJobs : KeptFor(i)'
  BY <1>1 DEF KeptFor
<1>5. NotYet'
  BY <1>1, <1>2 DEF NotYet, TitlesTypeOK, Over
<1>6. JobsEndOnce'
  BY <1>1, <1>2 DEF JobsEndOnce, TitlesTypeOK, Over
<1> QED
  BY <1>3, <1>4, <1>5, <1>6

LEMMA TitlesStep == TitlesInv /\ [TitlesNext]_titleVars => TitlesInv'
<1> SUFFICES ASSUME TitlesInv, [TitlesNext]_titleVars PROVE TitlesInv'
  OBVIOUS
<1>1. CASE UNCHANGED titleVars
  BY <1>1 DEF titleVars, TitlesInv, TitlesTypeOK, KeptFor, NotYet, JobsEndOnce
<1> QED
  BY <1>1, AcceptKeeps, TailoredKeeps, RenameKeeps, PhaseKeeps DEF TitlesNext

----------------------------------------------------------------------------
(* The theorem.                                                            *)

\* server.js, keepTitle, work and the renaming: whenever a job is renamed, its
\* title joins its run or is told to be missing, a job with a CV is called
\* failed only for that, and nothing is logged twice or too early.
THEOREM TitlesJoinTheirRuns == TitlesSpec => []JobsAreTold
<1>1. TitlesInv => JobsAreTold
  BY KeptMeansKept DEF TitlesInv, JobsAreTold
<1> QED
  BY <1>1, TitlesStart, TitlesStep, PTL DEF TitlesSpec

----------------------------------------------------------------------------
(* WordHelper.                                                             *)

\* Every pending request is in the queue until the end is told, and nobody is
\* pending after it; the end is told of a dead helper, which is refused.
PendingAreQueued ==
  /\ ~ told => \A r \in Requests : outcome[r] = "pending" => \E i \in 1 .. Len(waiting) : waiting[i] = r
  /\ told => exited

WordInv == WordTypeOK /\ QueueMatchesPipes /\ PendingAreQueued /\ OwnAnswers /\ NobodyWaitsForTheDead

----------------------------------------------------------------------------
(* Facts about the queue and the two pipes.                                *)

\* What is asked at the end of the queue is asked at the end of the pipe.
LEMMA AppendConcat ==
  ASSUME NEW p \in Seq(Requests), NEW a \in Seq(Requests), NEW e \in Requests
  PROVE  Append(p \o a, e) = p \o Append(a, e)
<1>1. p \o a \in Seq(Requests) /\ Append(a, e) = a \o <<e>> /\ <<e>> \in Seq(Requests)
  BY ConcatProperties, AppendIsConcat
<1>2. Append(p \o a, e) = (p \o a) \o <<e>>
  BY <1>1, AppendIsConcat
<1> QED
  BY <1>1, <1>2, ConcatAssociative

\* A sequence is its head and its tail.
LEMMA HeadAndTail ==
  ASSUME NEW S, NEW s \in Seq(S), s # << >>
  PROVE  <<Head(s)>> \o Tail(s) = s
<1>1. Head(s) \in S /\ Tail(s) \in Seq(S) /\ Len(Tail(s)) = Len(s) - 1
      /\ \A i \in 1 .. Len(Tail(s)) : Tail(s)[i] = s[i + 1]
  BY HeadTailProperties
<1>2. <<Head(s)>> \in Seq(S) /\ Len(<<Head(s)>>) = 1 /\ <<Head(s)>>[1] = Head(s)
  BY <1>1
<1>3. /\ <<Head(s)>> \o Tail(s) \in Seq(S)
      /\ Len(<<Head(s)>> \o Tail(s)) = Len(s)
      /\ \A i \in 1 .. Len(s) :
           (<<Head(s)>> \o Tail(s))[i] = IF i <= 1 THEN <<Head(s)>>[i] ELSE Tail(s)[i - 1]
  <2>1. 1 + Len(Tail(s)) = Len(s)
    BY <1>1
  <2> QED
    BY <1>1, <1>2, <2>1, ConcatProperties
<1>4. \A i \in 1 .. Len(s) : (<<Head(s)>> \o Tail(s))[i] = s[i]
  <2> TAKE i \in 1 .. Len(s)
  <2>1. CASE i = 1
    BY <1>2, <1>3, <2>1
  <2>2. CASE i # 1
    <3>1. i - 1 \in 1 .. Len(Tail(s)) /\ ~ (i <= 1) /\ (i - 1) + 1 = i
      BY <1>1, <2>2
    <3> QED
      BY <1>1, <1>3, <3>1
  <2> QED
    BY <2>1, <2>2
<1> QED
  BY <1>3, <1>4, SeqEqual

\* An answer that is printed leaves both pipes, end to end, as they were.
LEMMA MoveConcat ==
  ASSUME NEW S, NEW p \in Seq(S), NEW a \in Seq(S), a # << >>
  PROVE  Append(p, Head(a)) \o Tail(a) = p \o a
<1>1. Head(a) \in S /\ Tail(a) \in Seq(S) /\ <<Head(a)>> \in Seq(S)
  BY HeadTailProperties
<1>2. Append(p, Head(a)) = p \o <<Head(a)>>
  BY <1>1, AppendIsConcat
<1>3. Append(p, Head(a)) \o Tail(a) = p \o (<<Head(a)>> \o Tail(a))
  BY <1>1, <1>2, ConcatAssociative
<1> QED
  BY <1>3, HeadAndTail

\* A line that is read leaves both pipes and the queue at the same end.
LEMMA TailConcat ==
  ASSUME NEW S, NEW p \in Seq(S), NEW a \in Seq(S), p # << >>
  PROVE  /\ p \o a # << >>
         /\ Head(p \o a) = Head(p)
         /\ Tail(p \o a) = Tail(p) \o a
<1>1. Head(p) \in S /\ Tail(p) \in Seq(S) /\ <<Head(p)>> \in Seq(S) /\ Len(p) \in Nat /\ Len(a) \in Nat /\ Len(p) > 0
  BY HeadTailProperties, EmptySeq, LenProperties
<1>2. p \o a = <<Head(p)>> \o (Tail(p) \o a)
  BY <1>1, HeadAndTail, ConcatAssociative
<1>3. p \o a \in Seq(S) /\ Tail(p) \o a \in Seq(S) /\ Len(p \o a) = Len(p) + Len(a) /\ (p \o a)[1] = p[1]
  BY <1>1, ConcatProperties
<1>4. p \o a # << >>
  BY <1>1, <1>3
<1>5. Head(p \o a) = Head(p)
  BY <1>3
<1>6. <<Head(p)>> \o Tail(p \o a) = p \o a
  BY <1>3, <1>4, <1>5, HeadAndTail
<1>7. Tail(p \o a) \in Seq(S)
  BY <1>3, <1>4, HeadTailProperties
<1>8. Tail(p \o a) = Tail(p) \o a
  BY <1>1, <1>2, <1>3, <1>6, <1>7, ConcatSimplifications
<1> QED
  BY <1>4, <1>5, <1>8

----------------------------------------------------------------------------
(* The invariant.                                                          *)

LEMMA WordInvInit == WordInit => WordInv
<1> SUFFICES ASSUME WordInit PROVE WordInv
  OBVIOUS
<1>1. << >> \in Seq(Requests) /\ << >> \o << >> = << >>
  BY EmptySeq, ConcatEmptySeq
<1> QED
  BY <1>1 DEF WordInit, WordInv, WordTypeOK, QueueMatchesPipes, PendingAreQueued, OwnAnswers, NobodyWaitsForTheDead

LEMMA WordInvNext == WordInv /\ [WordNext]_wordVars => WordInv'
<1> SUFFICES ASSUME WordInv, [WordNext]_wordVars PROVE WordInv'
  OBVIOUS
<1> USE DEF WordInv, WordTypeOK
<1>1. ASSUME NEW r \in Requests, Ask(r) PROVE WordInv'
  <2>1. CASE IsGone
    <3>1. UNCHANGED <<waiting, asked, printed, alive, exited, told, given>>
      BY <1>1, <2>1 DEF Ask
    <3>2. outcome' = [outcome EXCEPT ![r] = "refused"]
      BY <1>1, <2>1 DEF Ask
    <3> QED
      BY <3>1, <3>2 DEF QueueMatchesPipes, PendingAreQueued, OwnAnswers, NobodyWaitsForTheDead
  <2>2. CASE ~ IsGone
    <3>1. /\ outcome' = [outcome EXCEPT ![r] = "pending"]
          /\ waiting' = Append(waiting, r) /\ asked' = Append(asked, r)
          /\ UNCHANGED <<printed, alive, exited, told, given>>
      BY <1>1, <2>2 DEF Ask
    <3>2. ~ told
      BY <2>2 DEF IsGone, PendingAreQueued
    <3>3. waiting' \in Seq(Requests) /\ asked' \in Seq(Requests) /\ Len(waiting') = Len(waiting) + 1 /\ Len(waiting) \in Nat
          /\ waiting'[Len(waiting) + 1] = r /\ \A i \in 1 .. Len(waiting) : waiting'[i] = waiting[i]
      BY <3>1, AppendProperties, LenProperties
    <3>4. WordTypeOK'
      BY <3>1, <3>3
    <3>5. QueueMatchesPipes'
      <4>1. waiting = printed \o asked
        BY <3>2 DEF QueueMatchesPipes
      <4>2. Append(printed \o asked, r) = printed \o Append(asked, r)
        BY AppendConcat
      <4> QED
        BY <3>1, <3>2, <4>1, <4>2 DEF QueueMatchesPipes
    <3>6. PendingAreQueued'
      <4> SUFFICES ASSUME NEW q \in Requests, outcome'[q] = "pending"
                   PROVE  \E i \in 1 .. Len(waiting') : waiting'[i] = q
        BY <3>1, <3>2 DEF PendingAreQueued
      <4>1. CASE q = r
        BY <3>3, <4>1
      <4>2. CASE q # r
        <5>1. outcome[q] = "pending"
          BY <3>1, <4>2
        <5>2. PICK i \in 1 .. Len(waiting) : waiting[i] = q
          BY <3>2, <5>1 DEF PendingAreQueued
        <5> QED
          BY <3>3, <5>2
      <4> QED
        BY <4>1, <4>2
    <3> QED
      BY <3>1, <3>2, <3>4, <3>5, <3>6 DEF OwnAnswers, NobodyWaitsForTheDead
  <2> QED
    BY <2>1, <2>2
<1>2. ASSUME NEW r \in Requests, Timeout(r) PROVE WordInv'
  <2>1. /\ outcome' = [outcome EXCEPT ![r] = "late"] /\ exited' = TRUE
        /\ UNCHANGED <<waiting, asked, printed, alive, told, given>>
    BY <1>2 DEF Timeout, StaysInLine
  <2> QED
    BY <2>1 DEF QueueMatchesPipes, PendingAreQueued, OwnAnswers, NobodyWaitsForTheDead
<1>3. ASSUME Answer PROVE WordInv'
  <2>1. /\ asked # << >> /\ asked' = Tail(asked) /\ printed' = Append(printed, Head(asked))
        /\ UNCHANGED <<outcome, waiting, alive, exited, told, given>>
    BY <1>3 DEF Answer
  <2>2. WordTypeOK'
    BY <2>1, HeadTailProperties, AppendProperties
  <2>3. QueueMatchesPipes'
    BY <2>1, MoveConcat DEF QueueMatchesPipes
  <2> QED
    BY <2>1, <2>2, <2>3 DEF PendingAreQueued, OwnAnswers, NobodyWaitsForTheDead
<1>4. ASSUME Line PROVE WordInv'
  <2>1. printed # << >> /\ printed' = Tail(printed) /\ UNCHANGED <<asked, alive, exited, told>>
    BY <1>4 DEF Line
  <2>2. printed' \in Seq(Requests) /\ Head(printed) \in Requests
    BY <2>1, HeadTailProperties
  <2>3. CASE told
    <3>1. waiting = << >>
      BY <2>3 DEF QueueMatchesPipes
    <3>2. UNCHANGED <<outcome, given, waiting>>
      BY <1>4, <3>1 DEF Line
    <3> QED
      BY <2>1, <2>2, <2>3, <3>1, <3>2 DEF QueueMatchesPipes, PendingAreQueued, OwnAnswers, NobodyWaitsForTheDead
  <2>4. CASE ~ told
    <3>1. waiting # << >> /\ Head(waiting) = Head(printed) /\ Tail(waiting) = Tail(printed) \o asked
      BY <2>1, <2>4, TailConcat DEF QueueMatchesPipes
    <3> DEFINE h == Head(waiting)
    <3>2. /\ waiting' = Tail(waiting)
          /\ \/ /\ outcome[h] = "pending" /\ outcome' = [outcome EXCEPT ![h] = "answered"]
                /\ given' = [given EXCEPT ![h] = given[h] \cup {Head(printed)}]
             \/ outcome[h] # "pending" /\ UNCHANGED <<outcome, given>>
      BY <1>4, <3>1 DEF Line
    <3>3. waiting' \in Seq(Requests) /\ h \in Requests /\ h = waiting[1] /\ Len(waiting') = Len(waiting) - 1
          /\ Len(waiting) \in Nat /\ \A i \in 1 .. Len(waiting') : waiting'[i] = waiting[i + 1]
      BY <3>1, <3>2, HeadTailProperties, LenProperties
    <3> HIDE DEF h
    <3>4. WordTypeOK'
      <4>1. outcome' \in [Requests -> {"new", "pending", "answered", "refused", "late", "dead"}]
        BY <3>2, <3>3
      <4>2. given' \in [Requests -> SUBSET Requests]
        BY <2>2, <3>2, <3>3
      <4> QED
        BY <2>1, <2>2, <3>3, <4>1, <4>2
    <3>5. QueueMatchesPipes'
      BY <2>1, <2>4, <3>1, <3>2 DEF QueueMatchesPipes
    <3>6. PendingAreQueued'
      <4> SUFFICES ASSUME NEW q \in Requests, outcome'[q] = "pending"
                   PROVE  \E i \in 1 .. Len(waiting') : waiting'[i] = q
        BY <2>1, <2>4 DEF PendingAreQueued
      <4>1. q # h /\ outcome[q] = "pending"
        BY <3>2, <3>3
      <4>2. PICK i \in 1 .. Len(waiting) : waiting[i] = q
        BY <2>4, <4>1 DEF PendingAreQueued
      <4>3. i - 1 \in 1 .. Len(waiting') /\ (i - 1) + 1 = i
        BY <3>3, <4>1, <4>2
      <4> QED
        BY <3>3, <4>2, <4>3
    <3>7. OwnAnswers'
      <4>1. h = Head(printed)
        BY <3>1 DEF h
      <4> QED
        BY <3>2, <3>3, <4>1 DEF OwnAnswers
    <3> QED
      BY <2>1, <2>4, <3>4, <3>5, <3>6, <3>7 DEF NobodyWaitsForTheDead
  <2> QED
    BY <2>3, <2>4
<1>5. ASSUME Die PROVE WordInv'
  BY <1>5 DEF Die, QueueMatchesPipes, PendingAreQueued, OwnAnswers, NobodyWaitsForTheDead
<1>6. ASSUME Exit PROVE WordInv'
  <2>1. /\ ~ told /\ told' = TRUE /\ exited' = TRUE /\ waiting' = << >>
        /\ UNCHANGED <<given, asked, printed, alive>>
        /\ outcome' = [r \in Requests |-> IF outcome[r] = "pending" /\ \E i \in DOMAIN waiting : waiting[i] = r
                                            THEN "dead" ELSE outcome[r]]
    BY <1>6 DEF Exit
  <2>2. WordTypeOK'
    BY <2>1, EmptySeq
  <2>3. DOMAIN waiting = 1 .. Len(waiting)
    BY LenProperties
  <2>4. \A r \in Requests : outcome'[r] # "pending"
    BY <2>1, <2>3 DEF PendingAreQueued
  <2> QED
    BY <2>1, <2>2, <2>4 DEF QueueMatchesPipes, PendingAreQueued, OwnAnswers, NobodyWaitsForTheDead
<1>7. CASE UNCHANGED wordVars
  BY <1>7 DEF wordVars, QueueMatchesPipes, PendingAreQueued, OwnAnswers, NobodyWaitsForTheDead
<1> QED
  BY <1>1, <1>2, <1>3, <1>4, <1>5, <1>6, <1>7 DEF WordNext

LEMMA WordInvAlways == WordSpec => []WordInv
BY WordInvInit, WordInvNext, PTL DEF WordSpec

\* However requests, answers, time-outs and the end of the helper fall, and
\* however many requests there are, none is given another one's answer.
THEOREM AnswersGoHome == WordSpec => []OwnAnswers
<1>1. WordInv => OwnAnswers
  BY DEF WordInv
<1> QED
  BY <1>1, WordInvAlways, PTL

\* Once the end of the helper has been told no request is pending, nor ever
\* will be.
THEOREM NobodyIsLeftWaiting == WordSpec => []NobodyWaitsForTheDead
<1>1. WordInv => NobodyWaitsForTheDead
  BY DEF WordInv
<1> QED
  BY <1>1, WordInvAlways, PTL

----------------------------------------------------------------------------
(* Invitations.                                                            *)

IsFile(f) == \A c \in DOMAIN f : f[c] \in [label : Labels, revoked : BOOLEAN]

OneLive(f) == \A c, d \in Live(f) : f[c].label = f[d].label => c = d

\* What a command is about to save is as good as what is on file.
InviteInv ==
  /\ IsFile(invites) /\ OneLive(invites)
  /\ editing = [o \in Owners |-> editing[o]]
  /\ \A o \in Owners : \A f \in editing[o] : IsFile(f) /\ OneLive(f)

\* Of the codes that are out, only those that were struck since are live in a
\* file, and it has no code but those that are known.
IsSafe(f, out, since, known) == DOMAIN f \subseteq known /\ out \cap Live(f) \subseteq since

\* What is on file, and what a command is about to save.
StruckInv ==
  /\ editing = [o \in Owners |-> editing[o]] /\ stale = [o \in Owners |-> stale[o]]
  /\ invited = [v \in Guests |-> invited[v]]
  /\ DOMAIN invites \subseteq drawn /\ struck \subseteq drawn
  /\ \A o \in Owners : editing[o] = {} => stale[o] = {}
  /\ \A o \in Owners : \A f \in editing[o] : IsSafe(f, struck, stale[o], drawn)
  /\ \A v \in Guests : \A c, d \in invited[v] : c = d
  /\ RevocationHolds

----------------------------------------------------------------------------
(* The two files that the commands make.                                   *)

\* A code for a label that has none live leaves one live for each label.
LEMMA AddedIsOneLive ==
  ASSUME NEW file, IsFile(file), OneLive(file), NEW code, NEW label \in Labels,
         \A c \in Live(file) : file[c].label # label,
         NEW new, new = [c \in DOMAIN file \cup {code} |->
                           IF c = code THEN Entry(label) ELSE file[c]]
  PROVE  IsFile(new) /\ OneLive(new)
<1>1. new[code] = Entry(label) /\ \A c \in DOMAIN new : c # code => c \in DOMAIN file /\ new[c] = file[c]
  OBVIOUS
<1>2. IsFile(new)
  BY <1>1 DEF IsFile, Entry
<1>3. \A c \in Live(new) : c # code => c \in Live(file) /\ new[c].label = file[c].label
  BY <1>1 DEF Live
<1>4. new[code].label = label
  BY <1>1 DEF Entry
<1>5. ASSUME NEW c \in Live(new), NEW d \in Live(new), new[c].label = new[d].label
      PROVE  c = d
  <2>1. CASE c = code \/ d = code
    BY <1>3, <1>4, <1>5, <2>1
  <2>2. CASE c # code /\ d # code
    BY <1>3, <1>5, <2>2 DEF OneLive
  <2> QED
    BY <2>1, <2>2
<1> QED
  BY <1>2, <1>5 DEF OneLive

\* Revoking leaves fewer live codes, and every label as it was.
LEMMA RevokedIsOneLive ==
  ASSUME NEW file, IsFile(file), OneLive(file), NEW gone,
         NEW new, new = [c \in DOMAIN file |->
                           IF c \in gone THEN [file[c] EXCEPT !.revoked = TRUE] ELSE file[c]]
  PROVE  IsFile(new) /\ OneLive(new)
<1>1. ASSUME NEW c \in DOMAIN new
      PROVE  /\ new[c] \in [label : Labels, revoked : BOOLEAN]
             /\ new[c].label = file[c].label
             /\ ~ new[c].revoked => ~ file[c].revoked
  <2>1. c \in DOMAIN file /\ file[c] \in [label : Labels, revoked : BOOLEAN]
    BY DEF IsFile
  <2>2. CASE c \in gone
    BY <2>1, <2>2
  <2>3. CASE c \notin gone
    BY <2>1, <2>3
  <2> QED
    BY <2>2, <2>3
<1>2. IsFile(new)
  BY <1>1 DEF IsFile
<1>3. \A c \in Live(new) : c \in Live(file) /\ new[c].label = file[c].label
  BY <1>1 DEF Live
<1>4. ASSUME NEW c \in Live(new), NEW d \in Live(new), new[c].label = new[d].label
      PROVE  c = d
  BY <1>3, <1>4 DEF OneLive
<1> QED
  BY <1>2, <1>4 DEF OneLive

----------------------------------------------------------------------------
(* The invariant.                                                          *)

LEMMA InviteStart == InviteInit => InviteInv /\ StruckInv
<1> SUFFICES ASSUME InviteInit PROVE InviteInv /\ StruckInv
  OBVIOUS
<1>1. DOMAIN invites = {} /\ Live(invites) = {}
  BY DEF InviteInit, NoFile, Live
<1> QED
  BY <1>1 DEF InviteInit, InviteInv, StruckInv, IsFile, OneLive, RevocationHolds

\* What a command puts together to save keeps the invariants.
LEMMA EditedKeeps ==
  ASSUME InviteInv, NEW o \in Owners, NEW f, IsFile(f), OneLive(f), Edits(o, f)
  PROVE  InviteInv'
<1>1. editing' = [editing EXCEPT ![o] = {f}] /\ invites' = invites
  BY DEF Edits
<1>2. IsFile(invites)' /\ OneLive(invites)'
  BY <1>1 DEF InviteInv, IsFile, OneLive, Live
<1>3. editing' = [p \in Owners |-> editing'[p]]
  BY <1>1 DEF InviteInv
<1>4. ASSUME NEW p \in Owners, NEW g \in editing'[p] PROVE IsFile(g) /\ OneLive(g)
  BY <1>1, <1>4 DEF InviteInv
<1>5. \A p \in Owners : \A g \in editing'[p] : IsFile(g)' /\ OneLive(g)'
  BY <1>4 DEF IsFile, OneLive, Live
<1> QED
  BY <1>2, <1>3, <1>5 DEF InviteInv

LEMMA EditedIsNotStruck ==
  ASSUME StruckInv, NEW o \in Owners, NEW f, Edits(o, f), drawn \subseteq drawn',
         DOMAIN f \subseteq drawn', struck \cap Live(f) = {}
  PROVE  StruckInv'
<1>1. /\ editing[o] = {} /\ editing' = [editing EXCEPT ![o] = {f}]
      /\ UNCHANGED <<invites, invited, struck, stale, slipped>>
  BY DEF Edits, histories
<1>2. editing' = [p \in Owners |-> editing'[p]]
  BY <1>1 DEF StruckInv
<1>3. ASSUME NEW p \in Owners
      PROVE  /\ editing'[p] = {} => stale'[p] = {}
             /\ \A g \in editing'[p] : IsSafe(g, struck', stale'[p], drawn')
  <2>1. CASE p = o
    <3>1. editing'[p] = {f} /\ stale'[p] = {}
      BY <1>1, <2>1 DEF StruckInv
    <3>2. IsSafe(f, struck', {}, drawn')
      BY <1>1 DEF IsSafe
    <3> QED
      BY <3>1, <3>2
  <2>2. CASE p # o
    <3>1. editing'[p] = editing[p] /\ stale'[p] = stale[p]
      BY <1>1, <2>2 DEF StruckInv
    <3>2. \A g \in editing[p] : IsSafe(g, struck, stale[p], drawn)
      BY DEF StruckInv
    <3>3. \A g \in editing[p] : IsSafe(g, struck', stale'[p], drawn')
      BY <1>1, <3>1, <3>2 DEF IsSafe
    <3>4. editing[p] = {} => stale[p] = {}
      BY DEF StruckInv
    <3> QED
      BY <3>1, <3>3, <3>4
  <2> QED
    BY <2>1, <2>2
<1>4. RevocationHolds'
  BY <1>1 DEF StruckInv, RevocationHolds, Live
<1>5. \A p \in Owners : \A g \in editing'[p] : IsSafe(g, struck, stale[p], drawn)'
  BY <1>3 DEF IsSafe, Live
<1> QED
  BY <1>1, <1>2, <1>3, <1>4, <1>5 DEF StruckInv

LEMMA CreateKeeps ==
  ASSUME InviteInv, StruckInv, NEW o \in Owners, NEW label \in Labels, NEW code \in Codes,
         Create(o, label, code)
  PROVE  InviteInv' /\ StruckInv'
<1> DEFINE new == [c \in DOMAIN invites \cup {code} |->
                     IF c = code THEN Entry(label) ELSE invites[c]]
<1>1. \A c \in Live(invites) : invites[c].label # label
  BY DEF Create, IsFree, LiveLabels
<1>2. IsFile(new) /\ OneLive(new)
  BY <1>1, AddedIsOneLive DEF InviteInv
<1>3. code \notin drawn /\ drawn' = drawn \cup {code} /\ Edits(o, new)
  BY DEF Create
<1>4. \A c \in Live(new) : c = code \/ c \in Live(invites)
  BY DEF Live
<1>5. DOMAIN new = DOMAIN invites \cup {code}
  OBVIOUS
<1> HIDE DEF new
<1>6. struck \cap Live(new) = {} /\ DOMAIN new \subseteq drawn'
  BY <1>3, <1>4, <1>5 DEF StruckInv, RevocationHolds
<1> QED
  BY <1>2, <1>3, <1>6, EditedKeeps, EditedIsNotStruck

LEMMA RevokeKeeps ==
  ASSUME InviteInv, StruckInv, NEW o \in Owners, NEW gone, Revoke(o, gone)
  PROVE  InviteInv' /\ StruckInv'
<1> DEFINE new == [c \in DOMAIN invites |->
                     IF c \in gone THEN [invites[c] EXCEPT !.revoked = TRUE] ELSE invites[c]]
<1>1. IsFile(new) /\ OneLive(new)
  BY RevokedIsOneLive DEF InviteInv
<1>2. drawn' = drawn /\ Edits(o, new)
  BY DEF Revoke
<1>3. \A c \in Live(new) : c \in Live(invites)
  <2> SUFFICES ASSUME NEW c \in Live(new), c \notin Live(invites) PROVE FALSE
    OBVIOUS
  <2>1. c \in DOMAIN invites /\ invites[c] \in [label : Labels, revoked : BOOLEAN] /\ ~ new[c].revoked
    BY DEF Live, InviteInv, IsFile
  <2>2. CASE c \in gone
    BY <2>1, <2>2
  <2>3. CASE c \notin gone
    BY <2>1, <2>3 DEF Live
  <2> QED
    BY <2>2, <2>3
<1>4. DOMAIN new = DOMAIN invites
  OBVIOUS
<1> HIDE DEF new
<1>5. struck \cap Live(new) = {} /\ DOMAIN new \subseteq drawn'
  BY <1>2, <1>3, <1>4 DEF StruckInv, RevocationHolds
<1> QED
  BY <1>1, <1>2, <1>5, EditedKeeps, EditedIsNotStruck

\* What comes on file strikes what it revokes, and every other command that is
\* under way is one that had loaded before.
LEMMA SaveKeeps ==
  ASSUME InviteInv, StruckInv, NEW o \in Owners, Save(o)
  PROVE  InviteInv' /\ StruckInv'
<1>1. /\ invites' \in editing[o] /\ editing' = [editing EXCEPT ![o] = {}]
      /\ struck' = (struck \ stale[o]) \cup Revoked(invites')
      /\ stale' = [p \in Owners |-> IF p = o \/ editing[p] = {} THEN {}
                                     ELSE stale[p] \cup Revoked(invites')]
      /\ drawn' = drawn /\ invited' = invited /\ slipped' = slipped
  BY DEF Save
<1>2. \A p \in Owners : editing'[p] \subseteq editing[p]
  BY <1>1 DEF InviteInv
<1>3. editing' = [p \in Owners |-> editing'[p]]
  BY <1>1 DEF InviteInv
<1>4. InviteInv'
  <2>1. IsFile(invites') /\ OneLive(invites')
    BY <1>1 DEF InviteInv
  <2>2. IsFile(invites)' /\ OneLive(invites)'
    BY <2>1 DEF IsFile, OneLive, Live
  <2>3. \A p \in Owners : \A f \in editing'[p] : IsFile(f)' /\ OneLive(f)'
    BY <1>2 DEF InviteInv, IsFile, OneLive, Live
  <2> QED
    BY <1>3, <2>2, <2>3 DEF InviteInv
<1>5. IsSafe(invites', struck, stale[o], drawn)
  BY <1>1 DEF StruckInv
<1>6. struck' \cap Live(invites') = {} /\ struck' \subseteq drawn
  BY <1>1, <1>5 DEF StruckInv, Revoked, IsSafe
<1>7. ASSUME NEW p \in Owners
      PROVE  /\ editing'[p] = {} => stale'[p] = {}
             /\ \A g \in editing'[p] : IsSafe(g, struck', stale'[p], drawn')
  <2>1. CASE p = o
    BY <1>1, <2>1 DEF InviteInv
  <2>2. CASE p # o
    <3>1. editing'[p] = editing[p]
      BY <1>1, <2>2 DEF InviteInv
    <3>2. ASSUME NEW g \in editing[p]
          PROVE  IsSafe(g, struck', stale'[p], drawn')
      <4>1. stale'[p] = stale[p] \cup Revoked(invites')
        BY <1>1, <2>2
      <4>2. IsSafe(g, struck, stale[p], drawn)
        BY DEF StruckInv
      <4> QED
        BY <1>1, <4>1, <4>2 DEF IsSafe
    <3>3. editing[p] = {} => stale'[p] = {}
      BY <1>1
    <3> QED
      BY <3>1, <3>2, <3>3
  <2> QED
    BY <2>1, <2>2
<1>8. RevocationHolds'
  BY <1>1, <1>6 DEF StruckInv, RevocationHolds, Live
<1>9. stale' = [p \in Owners |-> stale'[p]]
  BY <1>1
<1>10. /\ \A p \in Owners : editing'[p] = {} => stale'[p] = {}
       /\ \A p \in Owners : \A g \in editing'[p] : IsSafe(g, struck, stale[p], drawn)'
  BY <1>7 DEF IsSafe, Live
<1>11. DOMAIN invites' \subseteq drawn
  BY <1>5 DEF IsSafe
<1>12. StruckInv'
  BY <1>1, <1>3, <1>6, <1>8, <1>9, <1>10, <1>11 DEF StruckInv
<1> QED
  BY <1>4, <1>12

\* A job is accepted with the one code of its page, and only while that is live.
LEMMA JobIsNotStruck ==
  ASSUME StruckInv, NEW v \in Guests, PostJob(v)
  PROVE  RevocationHolds'
<1> DEFINE c == CHOOSE c \in invited[v] : TRUE
<1>1. invited[v] # {} /\ InvitationOf(c) # Nobody
  BY DEF PostJob, InviteOf
<1>2. c \in invited[v] /\ c \in Live(invites)
  BY <1>1 DEF InvitationOf
<1> HIDE DEF c
<1>3. invited[v] \cap struck = {}
  BY <1>2 DEF StruckInv, RevocationHolds
<1> QED
  BY <1>3 DEF PostJob, StruckInv, RevocationHolds, Live

LEMMA InviteStep == InviteInv /\ StruckInv /\ [InviteNext]_inviteVars => InviteInv' /\ StruckInv'
<1> SUFFICES ASSUME InviteInv, StruckInv, [InviteNext]_inviteVars PROVE InviteInv' /\ StruckInv'
  OBVIOUS
<1>1. ASSUME UNCHANGED <<invites, drawn, editing, struck, stale>>, RevocationHolds',
             invited' = [v \in Guests |-> invited'[v]],
             \A v \in Guests : \A c, d \in invited'[v] : c = d
      PROVE  InviteInv' /\ StruckInv'
  BY <1>1 DEF InviteInv, StruckInv, IsFile, OneLive, Live, IsSafe
<1>2. slipped' = slipped /\ UNCHANGED <<invites, struck>> => RevocationHolds'
  BY DEF StruckInv, RevocationHolds, Live
<1>3. ASSUME NEW v \in Guests, PostJob(v) PROVE InviteInv' /\ StruckInv'
  <2>1. UNCHANGED <<invites, drawn, editing, invited, struck, stale>>
    BY <1>3 DEF PostJob
  <2> QED
    BY <1>1, <1>3, <2>1, JobIsNotStruck DEF StruckInv
<1>4. ASSUME NEW v \in Guests, ForgetGuest(v) PROVE InviteInv' /\ StruckInv'
  BY <1>1, <1>2, <1>4 DEF ForgetGuest, histories, StruckInv
<1>5. ASSUME NEW v \in Guests, NEW code \in Codes, OpenPage(v, code) PROVE InviteInv' /\ StruckInv'
  BY <1>1, <1>2, <1>5 DEF OpenPage, histories, StruckInv
<1>6. CASE RestartServer
  BY <1>1, <1>2, <1>6 DEF RestartServer, histories
<1>7. CASE UNCHANGED inviteVars
  BY <1>1, <1>2, <1>7 DEF inviteVars, histories, StruckInv
<1> QED
  BY <1>3, <1>4, <1>5, <1>6, <1>7, CreateKeeps, RevokeKeeps, SaveKeeps DEF InviteNext

----------------------------------------------------------------------------
(* The theorems.                                                           *)

LEMMA InviteInvAlways == InviteSpec => [](InviteInv /\ StruckInv)
  BY InviteStart, InviteStep, PTL DEF InviteSpec

\* invites.js and inviteOf of server.js: however the owner's commands overlap, no
\* label has two live codes; and a code whose revocation is on file is never live
\* again, nor a job accepted with it, for pages that were opened before as well,
\* unless a command that had loaded the file before that saves after it.
THEOREM RevokedCodesStayOut == InviteSpec => []InvitationsHold
<1>1. InviteInv => OneLivePerLabel
  BY DEF InviteInv, OneLivePerLabel, OneLive
<1>2. StruckInv => RevocationHolds
  BY DEF StruckInv
<1>3. InviteInv /\ StruckInv => InvitationsHold
  BY <1>1, <1>2 DEF InvitationsHold
<1> QED
  BY <1>3, InviteInvAlways, PTL

----------------------------------------------------------------------------
(* Page.                                                                   *)

Dropped == {"gone", "lost"}

PageTypes ==
  /\ list \in Seq(Pasted) /\ entered \subseteq Pasted
  /\ call \in [Posts -> {"none", "sent", "accepted"}]
  /\ batch \in [Posts -> Seq(Pasted)] /\ mark \in [Posts -> Nat]
  /\ of \in [Ids -> Pasted \cup {None}]
  /\ at \in {"top", "listed", "detail", "asleep", "off"}
  /\ seen \in [Ids -> {"none"} \cup InFlight \cup Finished]
  /\ card \in [Ids -> {"none"} \cup InFlight \cup Finished]
  /\ accepted \in Nat
  /\ status \in [Ids -> {"none"} \cup Dropped \cup InFlight \cup Finished]

\* Jobs are numbered as they are accepted, and the page is told of no other.
Numbered ==
  /\ accepted <= MaxAccepted
  /\ \A j \in Ids : IF j <= accepted THEN status[j] # "none"
                                     ELSE status[j] = "none" /\ of[j] = None
  /\ \A p \in Posts : call[p] = "accepted" => mark[p] + Len(batch[p]) <= accepted
  /\ informed \subseteq 1..accepted

\* No offer travels that the user did not give.
OnlyEntered ==
  /\ \A i \in 1..Len(list) : list[i] \in entered
  /\ \A p \in Posts : \A i \in 1..Len(batch[p]) : batch[p][i] \in entered
  /\ \A j \in Ids : of[j] \in entered \/ of[j] = None

\* Where an offer is in the list, in each POST under way, and among the jobs.
InList(o) == {i \in 1..Len(list) : list[i] = o}

InPosts(o) ==
  [p \in Posts |-> {i \in 1..Len(batch[p]) : call[p] = "sent" /\ batch[p][i] = o}]

InJobs(o) == {j \in Ids : of[j] = o}

Somewhere(L, P, J) == L # {} \/ J # {} \/ \E p \in Posts : P[p] # {}

AtMostOnce(L, P, J) ==
  /\ \A i, k \in L : i = k
  /\ \A p, q \in Posts : \A i \in P[p], k \in P[q] : p = q /\ i = k
  /\ \A i, k \in J : i = k
  /\ L = {} \/ J = {}
  /\ L # {} \/ J # {} => \A p \in Posts : P[p] = {}

Placed ==
  \A o \in entered :
    /\ Somewhere(InList(o), InPosts(o), InJobs(o))
    /\ o \notin unsure => AtMostOnce(InList(o), InPosts(o), InJobs(o))

\* What the poll was told of a job was true, and has grown old only if the job
\* was under way or the server no longer has it.
SeenWas ==
  \A j \in Ids :
    seen[j] # "none" => seen[j] \in InFlight \/ status[j] = seen[j] \/ status[j] \in Dropped

\* The list that a round of the poll goes through has every job the page was
\* told of, but for those accepted after it and those the server had dropped.
ToldOf ==
  at \in {"listed", "detail"}
  => \A j \in informed \ behind : seen[j] # "none" \/ status[j] \in Dropped

PageInv == PageTypes /\ Numbered /\ OnlyEntered /\ Placed /\ SeenWas /\ ToldOf /\ Followed

LEMMA PageStarts == PageInit => PageInv
<1> SUFFICES ASSUME PageInit PROVE PageInv
  OBVIOUS
<1> USE DEF PageInit, BoardInit, NoStatus
<1>1. PageTypes
  BY DEF PageTypes
<1>2. Numbered
  BY PageAssumption DEF Numbered, Ids
<1>3. OnlyEntered /\ Placed
  BY DEF OnlyEntered, Placed
<1>4. SeenWas /\ ToldOf /\ Followed
  BY DEF SeenWas, ToldOf, Followed
<1> QED BY <1>1, <1>2, <1>3, <1>4 DEF PageInv

\* The places of the property are those of Placed.
LEMMA PlacesAreKept == PageInv => OffersAreKept
<1> SUFFICES ASSUME PageInv, NEW o \in entered
             PROVE  LET listed  == {<<"list", i>> : i \in {i \in DOMAIN list : list[i] = o}}
                        carried == {<<"post", p>> : p \in {p \in Posts : /\ call[p] = "sent"
                                                                         /\ o \in Range(batch[p])}}
                        jobs    == {<<"job", j>> : j \in {j \in Ids : of[j] = o}}
                        places  == listed \cup carried \cup jobs
                    IN places # {} /\ (o \notin unsure => Cardinality(places) = 1)
  BY DEF OffersAreKept
<1> DEFINE L == InList(o)
           P == InPosts(o)
           J == InJobs(o)
           listed  == {<<"list", i>> : i \in {i \in DOMAIN list : list[i] = o}}
           carried == {<<"post", p>> : p \in {p \in Posts : call[p] = "sent" /\ o \in Range(batch[p])}}
           jobs    == {<<"job", j>> : j \in {j \in Ids : of[j] = o}}
           places  == listed \cup carried \cup jobs
<1>1. PageTypes /\ Somewhere(L, P, J) /\ (o \notin unsure => AtMostOnce(L, P, J))
  BY DEF PageInv, Placed
<1>2. listed = {<<"list", i>> : i \in L}
  BY <1>1 DEF PageTypes, InList
<1>3. carried = {<<"post", p>> : p \in {p \in Posts : P[p] # {}}}
  <2>1. \A p \in Posts : call[p] = "sent" /\ o \in Range(batch[p]) <=> P[p] # {}
    <3> SUFFICES ASSUME NEW p \in Posts
                 PROVE  call[p] = "sent" /\ o \in Range(batch[p]) <=> P[p] # {}
      OBVIOUS
    <3>1. P[p] = {i \in 1..Len(batch[p]) : call[p] = "sent" /\ batch[p][i] = o}
      BY DEF InPosts
    <3>2. DOMAIN batch[p] = 1..Len(batch[p])
      BY <1>1 DEF PageTypes
    <3> QED BY <3>1, <3>2 DEF Range
  <2> QED BY <2>1
<1>4. jobs = {<<"job", j>> : j \in J}
  BY DEF InJobs
<1> HIDE DEF L, P, J, listed, carried, jobs
<1>5. places # {}
  BY <1>1, <1>2, <1>3, <1>4 DEF Somewhere
<1>6. ASSUME o \notin unsure PROVE Cardinality(places) = 1
  <2>1. AtMostOnce(L, P, J)
    BY <1>1, <1>6
  <2>2. ASSUME L # {} PROVE \E x : places = {x}
    <3>1. PICK i \in L : TRUE
      BY <2>2
    <3>2. L = {i} /\ J = {} /\ \A p \in Posts : P[p] = {}
      BY <2>1, <3>1 DEF AtMostOnce
    <3>3. places = {<<"list", i>>}
      BY <1>2, <1>3, <1>4, <3>2
    <3> QED BY <3>3
  <2>3. ASSUME J # {} PROVE \E x : places = {x}
    <3>1. PICK j \in J : TRUE
      BY <2>3
    <3>2. J = {j} /\ L = {} /\ \A p \in Posts : P[p] = {}
      BY <2>1, <3>1 DEF AtMostOnce
    <3>3. places = {<<"job", j>>}
      BY <1>2, <1>3, <1>4, <3>2
    <3> QED BY <3>3
  <2>4. ASSUME NEW p \in Posts, P[p] # {} PROVE \E x : places = {x}
    <3>1. L = {} /\ J = {} /\ \A q \in Posts : P[q] # {} => q = p
      BY <2>1, <2>4 DEF AtMostOnce
    <3>2. places = {<<"post", p>>}
      BY <1>2, <1>3, <1>4, <2>4, <3>1
    <3> QED BY <3>2
  <2>5. PICK x : places = {x}
    BY <1>1, <2>2, <2>3, <2>4 DEF Somewhere
  <2> HIDE DEF places
  <2> QED BY <2>5, FS_Singleton
<1> QED BY <1>5, <1>6 DEF places, listed, carried, jobs

----------------------------------------------------------------------------
(* One step for each part of the invariant of Page.                        *)

LEMMA PageTypesStep ==
  ASSUME PageInv, PageNext
  PROVE  PageTypes'
<1>1. PageTypes /\ Numbered
  BY DEF PageInv
<1>2. accepted \in Nat /\ MaxAccepted \in Nat
  BY <1>1, PageAssumption DEF PageTypes
<1>3. ASSUME NEW o \in Pasted, AddOffer(o) PROVE PageTypes'
  BY <1>1, <1>3 DEF PageTypes, AddOffer, board, callVars, pollVars
<1>4. ASSUME NEW p \in Posts, Generate(p) PROVE PageTypes'
  BY <1>1, <1>4 DEF PageTypes, Generate, board, pollVars
<1>5. ASSUME NEW p \in Posts, Accepted(p) PROVE PageTypes'
  <2>1. /\ call' = [call EXCEPT ![p] = "accepted"] /\ mark' = [mark EXCEPT ![p] = accepted]
        /\ of' = [j \in Ids |-> IF j \in accepted + 1 .. accepted'
                                  THEN batch[p][j - accepted] ELSE of[j]]
        /\ Advance(Len(batch[p])) /\ UNCHANGED <<list, entered, batch, at, seen, card>>
    BY <1>5 DEF Accepted, listVars, pollVars
  <2>2. /\ accepted' = accepted + Len(batch[p])
        /\ status' \in [Ids -> {"none"} \cup Dropped \cup InFlight \cup Finished]
    BY <2>1 DEF Advance, Dropped
  <2>3. batch[p] \in Seq(Pasted) /\ Len(batch[p]) \in Nat
    BY <1>1 DEF PageTypes
  <2>4. of' \in [Ids -> Pasted \cup {None}]
    <3> SUFFICES ASSUME NEW j \in Ids PROVE of'[j] \in Pasted \cup {None}
      BY <2>1
    <3>1. j \in Nat /\ of[j] \in Pasted \cup {None}
      BY <1>1, <1>2 DEF PageTypes, Ids
    <3>2. ASSUME j \in accepted + 1 .. accepted' PROVE batch[p][j - accepted] \in Pasted
      <4>1. j - accepted \in 1..Len(batch[p])
        BY <1>2, <2>2, <2>3, <3>1, <3>2
      <4> QED BY <2>3, <4>1
    <3> QED BY <2>1, <3>1, <3>2
  <2>5. mark' \in [Posts -> Nat] /\ call' \in [Posts -> {"none", "sent", "accepted"}]
    BY <1>1, <1>2, <2>1 DEF PageTypes
  <2> QED BY <1>1, <1>2, <2>1, <2>2, <2>3, <2>4, <2>5 DEF PageTypes
<1>6. ASSUME NEW p \in Posts, Refused(p) \/ Breaks(p) \/ Learns(p) PROVE PageTypes'
  <2>1. /\ call' = [call EXCEPT ![p] = "none"] /\ batch' = [batch EXCEPT ![p] = << >>]
        /\ mark' = [mark EXCEPT ![p] = 0] /\ list' \in {list, list \o batch[p]}
        /\ at' \in {at, "top"}
        /\ UNCHANGED <<entered, of, seen, card, accepted, status>>
    BY <1>6 DEF Refused, Breaks, Learns, Closes, PutBack, board, listVars, pollVars
  <2>2. list' \in Seq(Pasted) /\ << >> \in Seq(Pasted)
    <3>1. list \in Seq(Pasted) /\ batch[p] \in Seq(Pasted)
      BY <1>1 DEF PageTypes
    <3>2. list \o batch[p] \in Seq(Pasted)
      BY <3>1, ConcatProperties
    <3>3. list' \in Seq(Pasted)
      BY <2>1, <3>1, <3>2, Zenon
    <3>4. << >> \in Seq(Pasted)
      OBVIOUS
    <3> QED BY <3>3, <3>4
  <2>3. /\ call' \in [Posts -> {"none", "sent", "accepted"}]
        /\ mark' \in [Posts -> Nat] /\ batch' \in [Posts -> Seq(Pasted)]
    BY <1>1, <2>1, <2>2 DEF PageTypes
  <2> QED BY <1>1, <2>1, <2>2, <2>3 DEF PageTypes
<1>7. ASSUME Poll PROVE PageTypes'
  <2>1. UNCHANGED <<accepted, status, list, entered, call, batch, mark, of>>
    BY <1>7 DEF Poll, Hidden, Lists, Renders, Details, PollFails, WakesUp, board, listVars, callVars
  <2>2. at' \in {"top", "listed", "detail", "asleep", "off"}
    BY <1>7 DEF Poll, Hidden, Lists, Renders, Details, PollFails, WakesUp
  <2>3. seen' \in [Ids -> {"none"} \cup InFlight \cup Finished]
    <3>1. CASE Lists
      <4>1. \A j \in Jobs : status[j] \in InFlight \cup Finished
        BY DEF Jobs
      <4> QED BY <3>1, <4>1 DEF Lists
    <3>2. CASE Renders \/ PollFails
      BY <1>1, <3>2 DEF Renders, PollFails, NoStatus, PageTypes
    <3>3. CASE Hidden \/ Details \/ WakesUp
      BY <1>1, <3>3 DEF Hidden, Details, WakesUp, PageTypes
    <3> QED BY <1>7, <3>1, <3>2, <3>3 DEF Poll
  <2>4. card' \in [Ids -> {"none"} \cup InFlight \cup Finished]
    <3>1. CASE Renders
      BY <1>1, <3>1 DEF Renders, PageTypes
    <3>2. CASE ~Renders
      BY <1>1, <1>7, <3>2 DEF Poll, Hidden, Lists, Details, PollFails, WakesUp, PageTypes
    <3> QED BY <3>1, <3>2
  <2> QED BY <1>1, <2>1, <2>2, <2>3, <2>4 DEF PageTypes
<1>8. ASSUME NEW j \in Ids, Moves(j) PROVE PageTypes'
  <2>1. PICK s \in Ahead(status[j]) \ {"lost"} : status' = [status EXCEPT ![j] = s]
    BY <1>8 DEF Moves
  <2>2. s \in Dropped \cup InFlight \cup Finished
    BY <2>1 DEF Ahead, InFlight, Finished, Dropped
  <2>3. UNCHANGED <<accepted, list, entered, call, batch, mark, of, at, seen, card>>
    BY <1>8 DEF Moves, listVars, callVars, pollVars
  <2> QED BY <1>1, <2>1, <2>2, <2>3 DEF PageTypes
<1>9. ASSUME Restarts PROVE PageTypes'
  BY <1>1, <1>9 DEF Restarts, PageTypes, Dropped, listVars, callVars, pollVars
<1> QED BY <1>3, <1>4, <1>5, <1>6, <1>7, <1>8, <1>9 DEF PageNext

\* What only the POSTs and the list change.
LEMMA OffersStay ==
  ASSUME PageNext
  PROVE  \/ \E o \in Pasted : AddOffer(o)
         \/ \E p \in Posts : Generate(p) \/ Accepted(p) \/ Refused(p) \/ Breaks(p)
         \/ (\E p \in Posts : Learns(p)) /\ UNCHANGED <<accepted, status, list, entered, of, unsure>>
         \/ (Poll \/ (\E j \in Ids : Moves(j)) \/ Restarts)
            /\ UNCHANGED <<accepted, list, entered, call, batch, mark, of, unsure, informed>>
<1>1. ASSUME NEW p \in Posts, Learns(p) PROVE UNCHANGED <<accepted, status, list, entered, of, unsure>>
  BY <1>1 DEF Learns, board, listVars
<1>2. ASSUME Poll PROVE UNCHANGED <<accepted, list, entered, call, batch, mark, of, unsure, informed>>
  BY <1>2 DEF Poll, Hidden, Lists, Renders, Details, PollFails, WakesUp, board, listVars, callVars
<1>3. ASSUME NEW j \in Ids, Moves(j)
      PROVE  UNCHANGED <<accepted, list, entered, call, batch, mark, of, unsure, informed>>
  BY <1>3 DEF Moves, listVars, callVars
<1>4. ASSUME Restarts
      PROVE  UNCHANGED <<accepted, list, entered, call, batch, mark, of, unsure, informed>>
  BY <1>4 DEF Restarts, listVars, callVars
<1> QED BY <1>1, <1>2, <1>3, <1>4 DEF PageNext

LEMMA NumberedStep ==
  ASSUME PageInv, PageTypes', PageNext
  PROVE  Numbered'
<1>1. PageTypes /\ Numbered
  BY DEF PageInv
<1>2. /\ accepted \in Nat /\ MaxAccepted \in Nat /\ Ids = 1..MaxAccepted
      /\ \A p \in Posts : mark[p] \in Nat /\ Len(batch[p]) \in Nat
  BY <1>1, PageAssumption DEF PageTypes, Ids
<1>3. CASE \E o \in Pasted : AddOffer(o)
  BY <1>1, <1>3 DEF Numbered, AddOffer, board, callVars
<1>4. ASSUME NEW p \in Posts, Generate(p) PROVE Numbered'
  <2>1. /\ call' = [call EXCEPT ![p] = "sent"] /\ batch' = [batch EXCEPT ![p] = list]
        /\ UNCHANGED <<accepted, status, mark, of, informed>>
    BY <1>4 DEF Generate, board
  <2>2. \A q \in Posts : call'[q] = "accepted" => call[q] = "accepted" /\ batch'[q] = batch[q]
    BY <1>1, <2>1 DEF PageTypes
  <2> QED BY <1>1, <2>1, <2>2 DEF Numbered
<1>5. ASSUME NEW p \in Posts, Accepted(p) PROVE Numbered'
  <2>1. /\ call' = [call EXCEPT ![p] = "accepted"] /\ mark' = [mark EXCEPT ![p] = accepted]
        /\ of' = [j \in Ids |-> IF j \in accepted + 1 .. accepted'
                                  THEN batch[p][j - accepted] ELSE of[j]]
        /\ Advance(Len(batch[p])) /\ UNCHANGED <<batch, informed>>
        /\ \A j \in 1..accepted : status'[j] = status[j]
    BY <1>5 DEF Accepted, listVars
  <2>2. accepted' = accepted + Len(batch[p]) /\ accepted' <= MaxAccepted
    BY <2>1 DEF Advance
  <2>3. \A j \in Ids : IF j <= accepted' THEN status'[j] # "none"
                                         ELSE status'[j] = "none" /\ of'[j] = None
    <3> SUFFICES ASSUME NEW j \in Ids
                 PROVE  IF j <= accepted' THEN status'[j] # "none"
                                          ELSE status'[j] = "none" /\ of'[j] = None
      OBVIOUS
    <3>1. CASE j <= accepted
      <4>1. status'[j] = status[j] /\ j <= accepted'
        BY <1>2, <2>1, <2>2, <3>1
      <4> QED BY <1>1, <3>1, <4>1 DEF Numbered
    <3>2. CASE j > accepted /\ j <= accepted'
      <4>1. status'[j] \in Ahead("none")
        BY <1>2, <2>1, <3>2 DEF Advance
      <4> QED BY <3>2, <4>1 DEF Ahead
    <3>3. CASE j > accepted'
      <4>1. j > accepted /\ ~(j <= accepted) /\ j \notin accepted + 1 .. accepted'
        BY <1>2, <2>2, <3>3
      <4>2. status'[j] = status[j]
        BY <2>1, <3>3, <4>1 DEF Advance
      <4>3. of'[j] = of[j]
        BY <2>1, <4>1
      <4>4. ~(j <= accepted')
        BY <1>2, <2>2, <3>3
      <4> QED BY <1>1, <4>1, <4>2, <4>3, <4>4 DEF Numbered
    <3> QED BY <1>2, <2>2, <3>1, <3>2, <3>3
  <2>4. ASSUME NEW q \in Posts, call'[q] = "accepted" PROVE mark'[q] + Len(batch'[q]) <= accepted'
    <3>1. CASE q = p
      BY <1>1, <1>2, <2>1, <2>2, <3>1 DEF PageTypes
    <3>2. CASE q # p
      <4>1. mark'[q] = mark[q] /\ call[q] = "accepted" /\ batch'[q] = batch[q]
        BY <1>1, <2>1, <2>4, <3>2 DEF PageTypes
      <4> QED BY <1>1, <1>2, <2>2, <4>1 DEF Numbered
    <3> QED BY <3>1, <3>2
  <2>5. informed' \subseteq 1..accepted'
    BY <1>1, <1>2, <2>1, <2>2 DEF Numbered
  <2> QED BY <2>2, <2>3, <2>4, <2>5 DEF Numbered
<1>6. ASSUME NEW p \in Posts, Refused(p) \/ Breaks(p) \/ Learns(p) PROVE Numbered'
  <2>1. /\ call' = [call EXCEPT ![p] = "none"] /\ batch' = [batch EXCEPT ![p] = << >>]
        /\ mark' = [mark EXCEPT ![p] = 0]
        /\ UNCHANGED <<of, accepted, status>>
        /\ \/ UNCHANGED informed
           \/ call[p] = "accepted" /\ informed' = informed \cup (mark[p] + 1 .. mark[p] + Len(batch[p]))
    BY <1>6 DEF Refused, Breaks, Learns, Closes, board, listVars
  <2>2. \A q \in Posts : call'[q] = "accepted"
          => call[q] = "accepted" /\ batch'[q] = batch[q] /\ mark'[q] = mark[q]
    BY <1>1, <2>1 DEF PageTypes
  <2>3. informed' \subseteq 1..accepted
    <3>1. informed \subseteq 1..accepted
      BY <1>1 DEF Numbered
    <3>2. ASSUME call[p] = "accepted" PROVE mark[p] + 1 .. mark[p] + Len(batch[p]) \subseteq 1..accepted
      <4>1. mark[p] + Len(batch[p]) <= accepted
        BY <1>1, <3>2 DEF Numbered
      <4> QED BY <1>2, <4>1
    <3> QED BY <2>1, <3>1, <3>2
  <2> QED BY <1>1, <2>1, <2>2, <2>3 DEF Numbered
<1>7. ASSUME Poll \/ (\E j \in Ids : Moves(j)) \/ Restarts,
             UNCHANGED <<accepted, list, entered, call, batch, mark, of, unsure, informed>>
      PROVE  Numbered'
  <2>1. \A j \in Ids : status'[j] = "none" <=> status[j] = "none"
    <3>1. CASE Poll
      BY <3>1 DEF Poll, Hidden, Lists, Renders, Details, PollFails, WakesUp, board
    <3>2. ASSUME NEW k \in Ids, Moves(k) PROVE \A j \in Ids : status'[j] = "none" <=> status[j] = "none"
      <4>1. status[k] # "none"
        BY <1>1, <3>2 DEF Moves, Numbered
      <4>2. PICK s \in Ahead(status[k]) \ {"lost"} : status' = [status EXCEPT ![k] = s]
        BY <3>2 DEF Moves
      <4>3. s # "none"
        BY <4>2 DEF Ahead, InFlight, Finished
      <4> QED BY <1>1, <4>1, <4>2, <4>3 DEF PageTypes
    <3>3. CASE Restarts
      BY <1>1, <3>3 DEF Restarts, Jobs, InFlight, Finished, PageTypes
    <3> QED BY <1>7, <3>1, <3>2, <3>3
  <2> QED BY <1>1, <1>7, <2>1 DEF Numbered
<1> QED BY <1>3, <1>4, <1>5, <1>6, <1>7, OffersStay

LEMMA EnteredStep ==
  ASSUME PageInv, PageNext
  PROVE  OnlyEntered'
<1>1. PageTypes /\ OnlyEntered
  BY DEF PageInv
<1>2. ASSUME NEW o \in Pasted, AddOffer(o) PROVE OnlyEntered'
  <2>1. /\ list' = Append(list, o) /\ entered' = entered \cup {o} /\ UNCHANGED <<batch, of>>
    BY <1>2 DEF AddOffer, callVars
  <2>2. \A i \in 1..Len(list') : list'[i] \in entered'
    BY <1>1, <2>1 DEF PageTypes, OnlyEntered
  <2> QED BY <1>1, <2>1, <2>2 DEF OnlyEntered
<1>3. ASSUME NEW p \in Posts, Generate(p) PROVE OnlyEntered'
  <2>1. batch' = [batch EXCEPT ![p] = list] /\ list' = << >> /\ UNCHANGED <<entered, of>>
    BY <1>3 DEF Generate
  <2>2. \A q \in Posts : batch'[q] = IF q = p THEN list ELSE batch[q]
    BY <1>1, <2>1 DEF PageTypes
  <2> QED BY <1>1, <2>1, <2>2 DEF OnlyEntered
<1>4. ASSUME NEW p \in Posts, Accepted(p) PROVE OnlyEntered'
  <2>1. /\ of' = [j \in Ids |-> IF j \in accepted + 1 .. accepted'
                                  THEN batch[p][j - accepted] ELSE of[j]]
        /\ accepted' = accepted + Len(batch[p]) /\ UNCHANGED <<list, entered, batch>>
    BY <1>4 DEF Accepted, Advance, listVars
  <2>2. accepted \in Nat /\ Len(batch[p]) \in Nat
    BY <1>1 DEF PageTypes
  <2>3. ASSUME NEW j \in Ids PROVE of'[j] \in entered \/ of'[j] = None
    <3>1. CASE j \in accepted + 1 .. accepted'
      <4>1. j - accepted \in 1..Len(batch[p]) /\ of'[j] = batch[p][j - accepted]
        BY <2>1, <2>2, <3>1
      <4> QED BY <1>1, <4>1 DEF OnlyEntered
    <3>2. CASE j \notin accepted + 1 .. accepted'
      BY <1>1, <2>1, <3>2 DEF OnlyEntered
    <3> QED BY <3>1, <3>2
  <2> QED BY <1>1, <2>1, <2>3 DEF OnlyEntered
<1>5. ASSUME NEW p \in Posts, Refused(p) \/ Breaks(p) \/ Learns(p) PROVE OnlyEntered'
  <2>1. /\ batch' = [batch EXCEPT ![p] = << >>] /\ list' \in {list, list \o batch[p]}
        /\ UNCHANGED <<entered, of>>
    BY <1>5 DEF Refused, Breaks, Learns, Closes, PutBack, listVars
  <2>2. list \in Seq(Pasted) /\ batch[p] \in Seq(Pasted)
    BY <1>1 DEF PageTypes
  <2>3. \A i \in 1..Len(list \o batch[p]) : (list \o batch[p])[i] \in entered
    BY <1>1, <2>2 DEF OnlyEntered
  <2>4. \A q \in Posts : batch'[q] = IF q = p THEN << >> ELSE batch[q]
    BY <1>1, <2>1 DEF PageTypes
  <2> QED BY <1>1, <2>1, <2>3, <2>4 DEF OnlyEntered
<1>6. CASE UNCHANGED <<accepted, list, entered, call, batch, mark, of, unsure, informed>>
  BY <1>1, <1>6 DEF OnlyEntered
<1> QED BY <1>2, <1>3, <1>4, <1>5, <1>6, OffersStay

\* An offer moves from one place to the next, or to two when the answer of its
\* POST is lost.
LEMMA PlacedStep ==
  ASSUME PageInv, PageNext
  PROVE  Placed'
<1>1. PageTypes /\ Numbered /\ OnlyEntered /\ Placed
  BY DEF PageInv
<1>2. ASSUME NEW x \in Pasted, AddOffer(x) PROVE Placed'
  <2>1. /\ x \notin entered /\ list' = Append(list, x) /\ entered' = entered \cup {x}
        /\ UNCHANGED <<call, batch, of, unsure>>
    BY <1>2 DEF AddOffer, callVars
  <2> SUFFICES ASSUME NEW o \in entered'
               PROVE  /\ Somewhere(InList(o)', InPosts(o)', InJobs(o)')
                      /\ o \notin unsure => AtMostOnce(InList(o)', InPosts(o)', InJobs(o)')
    BY <2>1 DEF Placed, Somewhere, AtMostOnce
  <2>2. InPosts(o)' = InPosts(o) /\ InJobs(o)' = InJobs(o)
    BY <2>1 DEF InPosts, InJobs
  <2>3. list \in Seq(Pasted) /\ Len(list) \in Nat
    BY <1>1 DEF PageTypes
  <2>4. CASE o \in entered
    <3>1. InList(o)' = InList(o)
      BY <2>1, <2>3, <2>4 DEF InList
    <3> QED BY <1>1, <2>2, <2>4, <3>1 DEF Placed
  <2>5. CASE o = x
    <3>1. InList(o)' = {Len(list) + 1}
      BY <1>1, <2>1, <2>3, <2>5 DEF InList, OnlyEntered
    <3>2. InJobs(o) = {}
      BY <1>1, <2>1, <2>5, PageAssumption DEF InJobs, OnlyEntered
    <3>3. \A p \in Posts : InPosts(o)[p] = {}
      BY <1>1, <2>1, <2>5 DEF InPosts, OnlyEntered
    <3> QED BY <2>2, <3>1, <3>2, <3>3 DEF Somewhere, AtMostOnce
  <2> QED BY <2>1, <2>4, <2>5
<1>3. ASSUME NEW p \in Posts, Generate(p) PROVE Placed'
  <2>1. /\ call[p] = "none" /\ call' = [call EXCEPT ![p] = "sent"]
        /\ batch' = [batch EXCEPT ![p] = list] /\ list' = << >>
        /\ UNCHANGED <<entered, of, unsure>>
    BY <1>3 DEF Generate
  <2> SUFFICES ASSUME NEW o \in entered
               PROVE  /\ Somewhere(InList(o)', InPosts(o)', InJobs(o)')
                      /\ o \notin unsure => AtMostOnce(InList(o)', InPosts(o)', InJobs(o)')
    BY <2>1 DEF Placed, Somewhere, AtMostOnce
  <2>2. InList(o)' = {} /\ InJobs(o)' = InJobs(o)
    BY <2>1 DEF InList, InJobs
  <2>3. InPosts(o)[p] = {}
    BY <2>1 DEF InPosts
  <2>4. \A q \in Posts : InPosts(o)'[q] = IF q = p THEN InList(o) ELSE InPosts(o)[q]
    BY <1>1, <2>1 DEF InPosts, InList, PageTypes
  <2>5. /\ Somewhere(InList(o), InPosts(o), InJobs(o))
        /\ o \notin unsure => AtMostOnce(InList(o), InPosts(o), InJobs(o))
    BY <1>1 DEF Placed
  <2>6. Somewhere(InList(o)', InPosts(o)', InJobs(o)')
    BY <2>2, <2>3, <2>4, <2>5 DEF Somewhere
  <2>7. ASSUME o \notin unsure PROVE AtMostOnce(InList(o)', InPosts(o)', InJobs(o)')
    BY <2>2, <2>3, <2>4, <2>5, <2>7 DEF AtMostOnce
  <2> QED BY <2>6, <2>7
<1>4. ASSUME NEW p \in Posts, Accepted(p) PROVE Placed'
  <2>1. /\ call[p] = "sent" /\ call' = [call EXCEPT ![p] = "accepted"]
        /\ of' = [j \in Ids |-> IF j \in accepted + 1 .. accepted'
                                  THEN batch[p][j - accepted] ELSE of[j]]
        /\ accepted' = accepted + Len(batch[p]) /\ accepted' <= MaxAccepted
        /\ UNCHANGED <<list, entered, batch, unsure>>
    BY <1>4 DEF Accepted, Advance, listVars
  <2>2. accepted \in Nat /\ Len(batch[p]) \in Nat /\ MaxAccepted \in Nat
    BY <1>1, PageAssumption DEF PageTypes
  <2> SUFFICES ASSUME NEW o \in entered
               PROVE  /\ Somewhere(InList(o)', InPosts(o)', InJobs(o)')
                      /\ o \notin unsure => AtMostOnce(InList(o)', InPosts(o)', InJobs(o)')
    BY <2>1 DEF Placed, Somewhere, AtMostOnce
  <2>3. InList(o)' = InList(o)
    BY <2>1 DEF InList
  <2>4. \A q \in Posts : InPosts(o)'[q] = IF q = p THEN {} ELSE InPosts(o)[q]
    BY <1>1, <2>1 DEF InPosts, PageTypes
  <2>5. InPosts(o)[p] = {i \in 1..Len(batch[p]) : batch[p][i] = o}
    BY <2>1 DEF InPosts
  <2>6. /\ InPosts(o)[p] \subseteq 1..Len(batch[p]) /\ InJobs(o) \subseteq 1..accepted
    <3>1. o # None
      BY <1>1, PageAssumption DEF PageTypes
    <3> QED BY <1>1, <2>2, <2>5, <3>1 DEF InJobs, Numbered, Ids
  <2>7. InJobs(o)' = InJobs(o) \cup {accepted + i : i \in InPosts(o)[p]}
    <3>1. ASSUME NEW j \in InJobs(o)' PROVE j \in InJobs(o) \cup {accepted + i : i \in InPosts(o)[p]}
      <4>1. j \in Ids /\ of'[j] = o /\ j \in Nat
        BY <3>1 DEF InJobs, Ids
      <4>2. CASE j \in accepted + 1 .. accepted'
        <5>1. j - accepted \in InPosts(o)[p] /\ j = accepted + (j - accepted)
          BY <2>1, <2>2, <2>5, <4>1, <4>2
        <5> QED BY <5>1
      <4>3. CASE j \notin accepted + 1 .. accepted'
        BY <2>1, <4>1, <4>3 DEF InJobs
      <4> QED BY <4>2, <4>3
    <3>2. ASSUME NEW j \in InJobs(o) PROVE j \in InJobs(o)'
      <4>1. j \in Ids /\ of[j] = o /\ j \notin accepted + 1 .. accepted'
        BY <2>2, <2>6 DEF InJobs
      <4> QED BY <2>1, <4>1 DEF InJobs
    <3>3. ASSUME NEW i \in InPosts(o)[p] PROVE accepted + i \in InJobs(o)'
      <4> DEFINE j == accepted + i
      <4>1. i \in 1..Len(batch[p]) /\ batch[p][i] = o
        BY <2>5
      <4>2. j \in Ids /\ j \in accepted + 1 .. accepted' /\ j - accepted = i
        BY <2>1, <2>2, <4>1 DEF Ids
      <4> HIDE DEF j
      <4>3. of'[j] = o
        BY <2>1, <4>1, <4>2
      <4>4. j \in InJobs(o)'
        BY <4>2, <4>3 DEF InJobs
      <4> QED BY <4>4 DEF j
    <3> QED BY <3>1, <3>2, <3>3
  <2>8. /\ Somewhere(InList(o), InPosts(o), InJobs(o))
        /\ o \notin unsure => AtMostOnce(InList(o), InPosts(o), InJobs(o))
    BY <1>1 DEF Placed
  <2>9. Somewhere(InList(o)', InPosts(o)', InJobs(o)')
    BY <2>3, <2>4, <2>7, <2>8 DEF Somewhere
  <2>10. ASSUME o \notin unsure PROVE AtMostOnce(InList(o)', InPosts(o)', InJobs(o)')
    <3>1. CASE InPosts(o)[p] = {}
      <4>1. InJobs(o)' = InJobs(o) /\ \A q \in Posts : InPosts(o)'[q] = InPosts(o)[q]
        BY <2>4, <2>7, <3>1
      <4> QED BY <2>3, <2>8, <2>10, <4>1 DEF AtMostOnce
    <3>2. ASSUME NEW i \in InPosts(o)[p] PROVE AtMostOnce(InList(o)', InPosts(o)', InJobs(o)')
      <4>1. InPosts(o)[p] = {i} /\ InList(o) = {} /\ InJobs(o) = {}
            /\ \A q \in Posts : q # p => InPosts(o)[q] = {}
        BY <2>8, <2>10, <3>2 DEF AtMostOnce
      <4>2. InJobs(o)' = {accepted + i}
        BY <2>7, <4>1
      <4> QED BY <2>3, <2>4, <4>1, <4>2 DEF AtMostOnce
    <3> QED BY <3>1, <3>2
  <2> QED BY <2>9, <2>10
<1>5. ASSUME NEW p \in Posts, Refused(p) \/ Breaks(p) PROVE Placed'
  <2>1. /\ call' = [call EXCEPT ![p] = "none"] /\ batch' = [batch EXCEPT ![p] = << >>]
        /\ list' = list \o batch[p] /\ UNCHANGED <<entered, of>>
        /\ \/ call[p] = "sent" /\ UNCHANGED unsure
           \/ call[p] = "accepted" /\ unsure' = unsure \cup Range(batch[p])
    BY <1>5 DEF Refused, Breaks, Closes, PutBack
  <2>2. /\ list \in Seq(Pasted) /\ batch[p] \in Seq(Pasted)
        /\ Len(list) \in Nat /\ Len(batch[p]) \in Nat
    BY <1>1 DEF PageTypes
  <2> SUFFICES ASSUME NEW o \in entered
               PROVE  /\ Somewhere(InList(o)', InPosts(o)', InJobs(o)')
                      /\ o \notin unsure' => AtMostOnce(InList(o)', InPosts(o)', InJobs(o)')
    BY <2>1 DEF Placed, Somewhere, AtMostOnce
  <2> DEFINE held == {i \in 1..Len(batch[p]) : batch[p][i] = o}
  <2>3. InJobs(o)' = InJobs(o)
    BY <2>1 DEF InJobs
  <2>4. \A q \in Posts : InPosts(o)'[q] = IF q = p THEN {} ELSE InPosts(o)[q]
    BY <1>1, <2>1 DEF InPosts, PageTypes
  <2>5. InPosts(o)[p] = IF call[p] = "sent" THEN held ELSE {}
    BY DEF InPosts
  <2>6. InList(o)' = InList(o) \cup {Len(list) + i : i \in held}
    <3>1. /\ Len(list') = Len(list) + Len(batch[p])
          /\ \A i \in 1..Len(list') : list'[i] = IF i <= Len(list) THEN list[i] ELSE batch[p][i - Len(list)]
      BY <2>1, <2>2
    <3>2. ASSUME NEW i \in InList(o)' PROVE i \in InList(o) \cup {Len(list) + k : k \in held}
      <4>1. i \in 1..Len(list') /\ list'[i] = o
        BY <3>2 DEF InList
      <4>2. CASE i <= Len(list)
        BY <2>2, <3>1, <4>1, <4>2 DEF InList
      <4>3. CASE ~(i <= Len(list))
        <5>1. i - Len(list) \in held /\ i = Len(list) + (i - Len(list))
          BY <2>2, <3>1, <4>1, <4>3
        <5> QED BY <5>1
      <4> QED BY <4>2, <4>3
    <3>3. ASSUME NEW i \in InList(o) PROVE i \in InList(o)'
      BY <2>2, <3>1 DEF InList
    <3>4. ASSUME NEW k \in held PROVE Len(list) + k \in InList(o)'
      <4>1. Len(list) + k \in 1..Len(list') /\ ~(Len(list) + k <= Len(list)) /\ Len(list) + k - Len(list) = k
        BY <2>2, <3>1, <3>4
      <4> QED BY <3>1, <3>4, <4>1 DEF InList
    <3> QED BY <3>2, <3>3, <3>4
  <2>7. /\ Somewhere(InList(o), InPosts(o), InJobs(o))
        /\ o \notin unsure => AtMostOnce(InList(o), InPosts(o), InJobs(o))
    BY <1>1 DEF Placed
  <2>8. call[p] # "sent" /\ held # {} => o \in unsure'
    BY <2>1, <2>2 DEF Range
  <2>9. o \in unsure => o \in unsure'
    BY <2>1
  <2> HIDE DEF held
  <2>10. Somewhere(InList(o)', InPosts(o)', InJobs(o)')
    BY <2>3, <2>4, <2>5, <2>6, <2>7 DEF Somewhere
  <2>11. ASSUME o \notin unsure' PROVE AtMostOnce(InList(o)', InPosts(o)', InJobs(o)')
    <3>1. CASE held = {}
      <4>1. InList(o)' = InList(o) /\ \A q \in Posts : InPosts(o)'[q] = InPosts(o)[q]
        BY <2>4, <2>5, <2>6, <3>1
      <4> QED BY <2>3, <2>7, <2>9, <2>11, <4>1 DEF AtMostOnce
    <3>2. ASSUME NEW i \in held PROVE AtMostOnce(InList(o)', InPosts(o)', InJobs(o)')
      <4>1. InPosts(o)[p] = held
        BY <2>5, <2>8, <2>11, <3>2
      <4>2. held = {i} /\ InList(o) = {} /\ InJobs(o) = {}
            /\ \A q \in Posts : q # p => InPosts(o)[q] = {}
        BY <2>7, <2>9, <2>11, <3>2, <4>1 DEF AtMostOnce
      <4>3. InList(o)' = {Len(list) + i}
        BY <2>6, <4>2
      <4> QED BY <2>3, <2>4, <4>2, <4>3 DEF AtMostOnce
    <3> QED BY <3>1, <3>2
  <2> QED BY <2>10, <2>11
<1>6. ASSUME NEW p \in Posts, Learns(p) PROVE Placed'
  <2>1. /\ call[p] = "accepted" /\ call' = [call EXCEPT ![p] = "none"]
        /\ batch' = [batch EXCEPT ![p] = << >>] /\ UNCHANGED <<list, entered, of, unsure>>
    BY <1>6 DEF Learns, Closes, listVars
  <2>2. ASSUME NEW o \in entered PROVE InList(o)' = InList(o) /\ InJobs(o)' = InJobs(o) /\ InPosts(o)' = InPosts(o)
    <3>1. \A q \in Posts : {i \in 1..Len(batch'[q]) : call'[q] = "sent" /\ batch'[q][i] = o}
                             = {i \in 1..Len(batch[q]) : call[q] = "sent" /\ batch[q][i] = o}
      BY <1>1, <2>1 DEF PageTypes
    <3> QED BY <2>1, <3>1 DEF InList, InJobs, InPosts
  <2> SUFFICES ASSUME NEW o \in entered
               PROVE  /\ Somewhere(InList(o)', InPosts(o)', InJobs(o)')
                      /\ o \notin unsure => AtMostOnce(InList(o)', InPosts(o)', InJobs(o)')
    BY <2>1 DEF Placed, Somewhere, AtMostOnce
  <2> QED BY <1>1, <2>2 DEF Placed
<1>7. CASE UNCHANGED <<accepted, list, entered, call, batch, mark, of, unsure, informed>>
  BY <1>1, <1>7 DEF Placed, InList, InPosts, InJobs, Somewhere, AtMostOnce
<1> QED BY <1>2, <1>3, <1>4, <1>5, <1>6, <1>7, OffersStay

\* What a POST does to the board: the jobs there were stay as they are.
LEMMA SeenStep ==
  ASSUME PageInv, PageTypes', PageNext
  PROVE  SeenWas'
<1>1. PageTypes /\ Numbered /\ SeenWas
  BY DEF PageInv
<1>2. ASSUME \A j \in Ids : status'[j] = status[j] \/ (status[j] \notin InFlight \cup {"none"} /\ status'[j] \in Dropped)
                              \/ status[j] \in InFlight \cup {"none"},
             \A j \in Ids : seen[j] \notin {"none"} \cup InFlight => status[j] \notin {"none"} \cup InFlight,
             UNCHANGED seen
      PROVE  SeenWas'
  <2> SUFFICES ASSUME NEW j \in Ids, seen[j] # "none", seen[j] \notin InFlight
               PROVE  status'[j] = seen[j] \/ status'[j] \in Dropped
    BY <1>2 DEF SeenWas
  <2>1. status[j] = seen[j] \/ status[j] \in Dropped
    BY <1>1 DEF SeenWas
  <2> QED BY <1>2, <2>1
<1>3. \A j \in Ids : seen[j] \notin {"none"} \cup InFlight => status[j] \notin {"none"} \cup InFlight
  BY <1>1 DEF SeenWas, PageTypes, InFlight, Finished, Dropped
<1>4. ASSUME NEW p \in Posts, Accepted(p) PROVE SeenWas'
  <2>1. /\ \A j \in 1..accepted : status'[j] = status[j]
        /\ UNCHANGED seen
    BY <1>4 DEF Accepted, pollVars
  <2>2. \A j \in Ids : status'[j] = status[j] \/ status[j] \in InFlight \cup {"none"}
    <3> SUFFICES ASSUME NEW j \in Ids, status[j] # "none" PROVE status'[j] = status[j]
      OBVIOUS
    <3>1. j \in 1..accepted
      BY <1>1, PageAssumption DEF Numbered, Ids, PageTypes
    <3> QED BY <2>1, <3>1
  <2> QED BY <1>2, <1>3, <2>1, <2>2
<1>5. ASSUME NEW j \in Ids, Moves(j) PROVE SeenWas'
  <2>1. PICK s \in Ahead(status[j]) \ {"lost"} : status' = [status EXCEPT ![j] = s]
    BY <1>5 DEF Moves
  <2>2. status[j] \notin InFlight \cup {"none"} => s \in Dropped
    BY <2>1 DEF Ahead, InFlight, Finished, Dropped
  <2>3. \A k \in Ids : status'[k] = IF k = j THEN s ELSE status[k]
    BY <1>1, <2>1 DEF PageTypes
  <2>4. UNCHANGED seen
    BY <1>5 DEF Moves, pollVars
  <2> QED BY <1>2, <1>3, <2>2, <2>3, <2>4
<1>6. ASSUME Restarts PROVE SeenWas'
  <2>1. \A k \in Ids : status'[k] = status[k] \/ status'[k] = "lost"
    BY <1>6 DEF Restarts
  <2>2. UNCHANGED seen
    BY <1>6 DEF Restarts, pollVars
  <2> QED BY <1>2, <1>3, <2>1, <2>2 DEF Dropped
<1>7. CASE Lists
  BY <1>7 DEF Lists, SeenWas, board
<1>8. CASE Renders \/ PollFails
  BY <1>1, <1>8 DEF Renders, PollFails, SeenWas, NoStatus, board
<1>9. CASE Hidden \/ Details \/ WakesUp
  BY <1>1, <1>9 DEF Hidden, Details, WakesUp, SeenWas, board
<1>10. ASSUME NEW o \in Pasted, AddOffer(o) PROVE SeenWas'
  BY <1>1, <1>10 DEF AddOffer, SeenWas, board, pollVars
<1>11. ASSUME NEW p \in Posts, Generate(p) \/ Refused(p) \/ Breaks(p) \/ Learns(p) PROVE SeenWas'
  BY <1>1, <1>11 DEF Generate, Refused, Breaks, Learns, SeenWas, board, pollVars
<1> QED BY <1>4, <1>5, <1>6, <1>7, <1>8, <1>9, <1>10, <1>11 DEF PageNext, Poll

\* A job the server has dropped does not come back.
LEMMA DroppedStays ==
  ASSUME PageInv, PageNext, NEW j \in 1..accepted
  PROVE  /\ status[j] \in Dropped => status'[j] = status[j]
         /\ j \in Ids
         /\ status[j] \in Finished => status'[j] = status[j] \/ status'[j] \in Dropped
<1>1. PageTypes /\ Numbered
  BY DEF PageInv
<1>2. j \in Ids
  BY <1>1, PageAssumption DEF PageTypes, Numbered, Ids
<1> DEFINE Stays == status'[j] = status[j]
           Drops == status[j] \in Finished /\ status'[j] \in Dropped
           Under == status[j] \in InFlight
<1>3. ASSUME NEW p \in Posts, Accepted(p) PROVE Stays
  BY <1>3 DEF Accepted
<1>4. ASSUME NEW k \in Ids, Moves(k) PROVE Stays \/ Drops \/ Under
  <2>1. PICK s \in Ahead(status[k]) \ {"lost"} : status' = [status EXCEPT ![k] = s]
    BY <1>4 DEF Moves
  <2>2. CASE k = j
    <3>1. status[j] # "none"
      BY <1>1, <1>2 DEF Numbered
    <3>2. status'[j] = s /\ s \in Ahead(status[j]) /\ s # "lost"
      BY <1>1, <1>2, <2>1, <2>2 DEF PageTypes
    <3> QED BY <3>1, <3>2 DEF Ahead, InFlight, Finished, Dropped
  <2>3. CASE k # j
    BY <1>1, <1>2, <2>1, <2>3 DEF PageTypes
  <2> QED BY <2>2, <2>3
<1>5. ASSUME Restarts PROVE Stays \/ Drops \/ Under
  BY <1>2, <1>5 DEF Restarts, Jobs, Dropped
<1>6. ASSUME Poll PROVE Stays
  BY <1>6 DEF Poll, Hidden, Lists, Renders, Details, PollFails, WakesUp, board
<1>7. ASSUME NEW o \in Pasted, AddOffer(o) PROVE Stays
  BY <1>7 DEF AddOffer, board
<1>8. ASSUME NEW p \in Posts, Generate(p) \/ Refused(p) \/ Breaks(p) \/ Learns(p) PROVE Stays
  BY <1>8 DEF Generate, Refused, Breaks, Learns, board
<1>9. Stays \/ Drops \/ Under
  BY <1>3, <1>4, <1>5, <1>6, <1>7, <1>8 DEF PageNext
<1> QED BY <1>2, <1>9 DEF InFlight, Finished, Dropped

LEMMA ToldStep ==
  ASSUME PageInv, PageTypes', Numbered', PageNext
  PROVE  ToldOf'
<1>1. PageTypes /\ Numbered /\ ToldOf /\ informed \subseteq 1..accepted
  BY DEF PageInv, Numbered
<1>2. ASSUME UNCHANGED <<at, seen, behind, informed>> PROVE ToldOf'
  BY <1>1, <1>2, DroppedStays DEF ToldOf
<1>3. ASSUME NEW o \in Pasted, AddOffer(o) PROVE ToldOf'
  BY <1>2, <1>3 DEF AddOffer, pollVars
<1>4. ASSUME NEW p \in Posts, Generate(p) \/ Accepted(p) \/ Refused(p) \/ Breaks(p) PROVE ToldOf'
  BY <1>2, <1>4 DEF Generate, Accepted, Refused, Breaks, pollVars
<1>5. ASSUME NEW p \in Posts, Learns(p) PROVE ToldOf'
  <2>1. CASE at \in {"listed", "detail"}
    <3> DEFINE new == mark[p] + 1 .. mark[p] + Len(batch[p])
    <3>1. /\ at' = at /\ informed' = informed \cup new
          /\ behind' = behind \cup {j \in new : seen[j] = "none"}
          /\ UNCHANGED <<seen, status>>
      BY <1>5, <2>1 DEF Learns, Polling, board
    <3> HIDE DEF new
    <3> QED BY <1>1, <2>1, <3>1 DEF ToldOf
  <2>2. CASE at \notin {"listed", "detail"}
    BY <1>5, <2>2 DEF Learns, ToldOf
  <2> QED BY <2>1, <2>2
<1>6. CASE Lists
  <2>1. /\ \A j \in Ids : seen'[j] = IF j \in Jobs THEN status[j] ELSE "none"
        /\ behind' = {j \in behind : seen'[j] = "none"} /\ UNCHANGED <<informed, status>>
    BY <1>6 DEF Lists, board
  <2>2. ASSUME NEW j \in informed PROVE seen'[j] # "none" \/ status[j] \in Dropped
    <3>1. j \in 1..accepted /\ j \in Ids /\ j <= accepted
      BY <1>1, PageAssumption DEF PageTypes, Numbered, Ids
    <3>2. status[j] # "none" /\ status[j] \in {"none"} \cup Dropped \cup InFlight \cup Finished
      BY <1>1, <3>1 DEF PageTypes, Numbered
    <3> QED BY <2>1, <3>1, <3>2 DEF Jobs
  <2> QED BY <2>1, <2>2 DEF ToldOf
<1>7. CASE Renders
  <2>1. /\ at = "listed" /\ UNCHANGED <<informed, behind, status>>
        /\ (at' = "detail" /\ seen' = seen) \/ at' \in {"asleep", "off"}
    BY <1>7 DEF Renders, board
  <2> QED BY <1>1, <2>1 DEF ToldOf
<1>8. CASE Details
  <2>1. at = "detail" /\ UNCHANGED <<informed, behind, status, seen>>
    BY <1>8 DEF Details, board
  <2> QED BY <1>1, <2>1 DEF ToldOf
<1>9. CASE Hidden \/ PollFails \/ WakesUp
  BY <1>9 DEF Hidden, PollFails, WakesUp, ToldOf
<1>10. CASE (\E j \in Ids : Moves(j)) \/ Restarts
  BY <1>2, <1>10 DEF Moves, Restarts, pollVars
<1> QED BY <1>3, <1>4, <1>5, <1>6, <1>7, <1>8, <1>9, <1>10 DEF PageNext, Poll

LEMMA FollowedStep ==
  ASSUME PageInv, PageNext
  PROVE  Followed'
<1>1. PageTypes /\ Numbered /\ SeenWas /\ ToldOf /\ Followed /\ informed \subseteq 1..accepted
  BY DEF PageInv, Numbered
<1>2. ASSUME UNCHANGED <<at, stopped, behind, informed, card>> PROVE Followed'
  <2> SUFFICES ASSUME at = "off", ~stopped, NEW j \in informed \ behind
               PROVE  status'[j] \in {"gone", "lost"} \/ (card[j] = status'[j] /\ card[j] \in Finished)
    BY <1>2 DEF Followed
  <2>1. status[j] \in Dropped \/ (card[j] = status[j] /\ card[j] \in Finished)
    BY <1>1 DEF Followed, Dropped
  <2>2. j \in 1..accepted
    BY <1>1
  <2> QED BY <2>1, <2>2, DroppedStays DEF Dropped
<1>3. ASSUME NEW o \in Pasted, AddOffer(o) PROVE Followed'
  BY <1>2, <1>3 DEF AddOffer, pollVars
<1>4. ASSUME NEW p \in Posts, Generate(p) \/ Accepted(p) \/ Refused(p) \/ Breaks(p) PROVE Followed'
  BY <1>2, <1>4 DEF Generate, Accepted, Refused, Breaks, pollVars
<1>5. ASSUME NEW p \in Posts, Learns(p) PROVE Followed'
  <2>1. at' # "off"
    BY <1>5 DEF Learns, Polling
  <2> QED BY <2>1 DEF Followed
<1>6. CASE Renders
  <2> SUFFICES ASSUME at' = "off", NEW j \in informed \ behind
               PROVE  status[j] \in Dropped \/ (card'[j] = status[j] /\ card'[j] \in Finished)
    BY <1>6 DEF Renders, Followed, Dropped, board
  <2>1. /\ at = "listed" /\ NextDetail = 0 /\ ~GoesOn
        /\ \A k \in Ids : card'[k] = IF seen[k] # "none" THEN seen[k] ELSE card[k]
    BY <1>6 DEF Renders
  <2>2. j \in Ids
    BY <1>1, PageAssumption DEF PageTypes, Numbered, Ids
  <2>3. seen[j] # "none" \/ status[j] \in Dropped
    BY <1>1, <2>1 DEF ToldOf
  <2>4. seen[j] \notin InFlight /\ seen[j] \in {"none"} \cup InFlight \cup Finished
    BY <1>1, <2>1, <2>2 DEF GoesOn, PageTypes
  <2>5. seen[j] # "none" => status[j] = seen[j] \/ status[j] \in Dropped
    BY <1>1, <2>2, <2>4 DEF SeenWas
  <2> QED BY <2>1, <2>2, <2>3, <2>4, <2>5
<1>7. CASE Hidden \/ Lists \/ Details \/ PollFails \/ WakesUp
  BY <1>7 DEF Hidden, Lists, Details, PollFails, WakesUp, Followed
<1>8. CASE (\E j \in Ids : Moves(j)) \/ Restarts
  BY <1>2, <1>8 DEF Moves, Restarts, pollVars
<1> QED BY <1>3, <1>4, <1>5, <1>6, <1>7, <1>8 DEF PageNext, Poll

LEMMA PageInvHolds == PageSpec => []PageInv
<1>1. PageInv /\ [PageNext]_pageVars => PageInv'
  <2> SUFFICES ASSUME PageInv, [PageNext]_pageVars PROVE PageInv'
    OBVIOUS
  <2>1. CASE PageNext
    <3>1. PageTypes'
      BY <2>1, PageTypesStep
    <3>2. Numbered'
      BY <2>1, <3>1, NumberedStep
    <3>3. OnlyEntered' /\ Placed'
      BY <2>1, EnteredStep, PlacedStep
    <3>4. SeenWas' /\ ToldOf' /\ Followed'
      BY <2>1, <3>1, <3>2, SeenStep, ToldStep, FollowedStep
    <3> QED BY <3>1, <3>2, <3>3, <3>4 DEF PageInv
  <2>2. CASE UNCHANGED pageVars
    <3>1. UNCHANGED <<accepted, status, list, entered, call, batch, mark, of, unsure, informed,
                      at, seen, detail, card, behind, stopped>>
      BY <2>2 DEF pageVars, board, listVars, callVars, pollVars
    <3>2. PageTypes' /\ Numbered' /\ OnlyEntered' /\ SeenWas' /\ ToldOf' /\ Followed'
      BY <3>1 DEF PageInv, PageTypes, Numbered, OnlyEntered, SeenWas, ToldOf, Followed
    <3>3. Placed'
      BY <3>1 DEF PageInv, Placed, InList, InPosts, InJobs, Somewhere, AtMostOnce
    <3> QED BY <3>2, <3>3 DEF PageInv
  <2> QED BY <2>1, <2>2
<1> QED BY <1>1, PageStarts, PTL DEF PageSpec

\* Whatever connection breaks, and however many POSTs are under way: no offer
\* that the user gave is lost, and none whose answers came is tailored twice.
THEOREM NoOfferIsLost == PageSpec => []OffersAreKept
BY PageInvHolds, PlacesAreKept, PTL

\* A poll that has ended by itself has followed every job it was told of to its
\* end, whatever POSTs, evictions and restarts fell into it.
THEOREM PollFollowsJobs == PageSpec => []Followed
BY PageInvHolds, PTL DEF PageInv

----------------------------------------------------------------------------
(* Admission: the caps.                                                    *)

\* A job that was accepted.
Taken == [at : Nat, client : Clients]

\* The jobs of the span before an instant, and those of a client.
Before(s, t, span) == {j \in 1..Len(s) : s[j].at <= t /\ s[j].at + span > t}

Of(s, c) == {j \in 1..Len(s) : s[j].client = c}

WithinCaps(s, i) ==
  /\ Cardinality(Before(s, s[i].at, Hour) \cap Of(s, s[i].client)) <= PerVisitorPerHour
  /\ Cardinality(Before(s, s[i].at, Day)) <= PerDay

\* The list has every job of the day, and so of the hour.
AdmInv ==
  /\ now \in Nat /\ history \in Seq(Taken)
  /\ log \subseteq 1..Len(history)
  /\ \A i \in 1..Len(history) : /\ history[i].at <= now
                                /\ Since(history[i].at, Day) => i \in log
                                /\ WithinCaps(history, i)

LEMMA CapsAreHeld == AdmInv => CapsHold
<1> SUFFICES ASSUME AdmInv PROVE CapsHold
  OBVIOUS
<1>1. history \in Seq(Taken) /\ DOMAIN history = 1..Len(history)
  BY DEF AdmInv
<1>2. ASSUME NEW i \in 1..Len(history)
      PROVE  /\ {j \in {k \in 1..Len(history) : history[k].at <= history[i].at /\ history[k].at + Hour > history[i].at} :
                  history[j].client = history[i].client}
                  = Before(history, history[i].at, Hour) \cap Of(history, history[i].client)
             /\ {k \in 1..Len(history) : history[k].at <= history[i].at /\ history[k].at + Day > history[i].at}
                  = Before(history, history[i].at, Day)
  BY DEF Before, Of
<1>3. \A i \in 1..Len(history) : WithinCaps(history, i)
  BY DEF AdmInv
<1> QED BY <1>1, <1>2, <1>3 DEF CapsHold, WithinCaps

LEMMA JobsAreFinite ==
  ASSUME NEW n \in Nat, NEW S \in SUBSET (1..n)
  PROVE  IsFiniteSet(S) /\ Cardinality(S) \in Nat
<1>1. IsFiniteSet(1..n)
  BY FS_Interval
<1>2. IsFiniteSet(S)
  BY <1>1, FS_Subset
<1> QED BY <1>2, FS_CardinalityType

\* n jobs more, accepted at t for c.
WithNew(s, n, t, c) == s \o [i \in 1..n |-> [at |-> t, client |-> c]]

IsWithNew(r, s, n, t, c) ==
  /\ r \in Seq(Taken) /\ Len(r) = Len(s) + n
  /\ \A j \in 1..Len(s) : r[j] = s[j]
  /\ \A j \in Len(s) + 1 .. Len(s) + n : r[j] = [at |-> t, client |-> c]

LEMMA NewOnes ==
  ASSUME NEW s \in Seq(Taken), NEW n \in Nat, NEW t \in Nat, NEW c \in Clients
  PROVE  IsWithNew(WithNew(s, n, t, c), s, n, t, c)
<1> DEFINE r == WithNew(s, n, t, c)
           job == [at |-> t, client |-> c]
           m == [i \in 1..n |-> job]
<1>1. job \in Taken
  BY DEF Taken
<1> HIDE DEF job
<1>2. m \in Seq(Taken) /\ Len(m) = n /\ Len(s) \in Nat /\ \A i \in 1..n : m[i] = job
  BY <1>1
<1> HIDE DEF m
<1>3. s \o m \in Seq(Taken) /\ Len(s \o m) = Len(s) + n
  BY <1>2, ConcatProperties
<1>4. \A j \in 1..Len(s) + n : (s \o m)[j] = IF j <= Len(s) THEN s[j] ELSE m[j - Len(s)]
  BY <1>2, ConcatProperties
<1>5. \A j \in 1..Len(s) : (s \o m)[j] = s[j]
  BY <1>2, <1>4
<1>6. \A j \in Len(s) + 1 .. Len(s) + n : (s \o m)[j] = job
  BY <1>2, <1>4
<1>7. r = s \o m
  BY DEF WithNew, m, job
<1> HIDE DEF r
<1>8. \A j \in Len(s) + 1 .. Len(s) + n : r[j] = job
  BY <1>6, <1>7, Zenon
<1>9. IsWithNew(r, s, n, t, c)
  BY <1>3, <1>5, <1>7, <1>8, Zenon DEF IsWithNew, job
<1> QED BY <1>9 DEF r

\* What is accepted now is counted with all that was accepted in the span
\* before, and with nothing else.
LEMMA SpanWithNew ==
  ASSUME NEW s \in Seq(Taken), NEW t \in Nat, NEW span \in Nat \ {0},
         NEW n \in Nat, NEW c \in Clients,
         NEW u \in 0..t, NEW d \in Clients
  PROVE  /\ Before(WithNew(s, n, t, c), u, span)
              = Before(s, u, span) \cup (IF u = t THEN Len(s) + 1 .. Len(s) + n ELSE {})
         /\ Of(WithNew(s, n, t, c), d)
              = Of(s, d) \cup (IF c = d THEN Len(s) + 1 .. Len(s) + n ELSE {})
<1> DEFINE r == WithNew(s, n, t, c)
           new == Len(s) + 1 .. Len(s) + n
<1>1. /\ Len(r) = Len(s) + n /\ Len(s) \in Nat
      /\ \A j \in 1..Len(s) : r[j] = s[j]
      /\ \A j \in new : r[j] = [at |-> t, client |-> c]
  <2>1. Len(s) \in Nat /\ IsWithNew(r, s, n, t, c)
    BY NewOnes
  <2> HIDE DEF r
  <2> QED BY <2>1 DEF IsWithNew
<1>2. 1..Len(s) + n = 1..Len(s) \cup new
  BY <1>1
<1> HIDE DEF r, new
<1>3. \A j \in new : r[j].at = t /\ r[j].client = c
  BY <1>1
<1>4. Before(r, u, span) = Before(s, u, span) \cup (IF u = t THEN new ELSE {})
  <2>1. \A j \in new : r[j].at <= u /\ r[j].at + span > u <=> u = t
    BY <1>3
  <2>2. Before(r, u, span) = {j \in 1..Len(s) : s[j].at <= u /\ s[j].at + span > u}
                              \cup {j \in new : r[j].at <= u /\ r[j].at + span > u}
    BY <1>1, <1>2 DEF Before
  <2> QED BY <2>1, <2>2 DEF Before
<1>5. Of(r, d) = Of(s, d) \cup (IF c = d THEN new ELSE {})
  <2>1. Of(r, d) = {j \in 1..Len(s) : s[j].client = d} \cup {j \in new : r[j].client = d}
    BY <1>1, <1>2 DEF Of
  <2> QED BY <1>3, <2>1 DEF Of
<1> QED BY <1>4, <1>5 DEF r, new

LEMMA CountWithNew ==
  ASSUME NEW l \in Nat, NEW n \in Nat, NEW S \in SUBSET (1..l)
  PROVE  Cardinality(S \cup (l + 1 .. l + n)) = Cardinality(S) + n
<1> DEFINE new == l + 1 .. l + n
<1>1. IsFiniteSet(S) /\ Cardinality(S) \in Nat
  BY JobsAreFinite
<1>2. IsFiniteSet(new) /\ Cardinality(new) = n
  <2>1. IsFiniteSet(new) /\ Cardinality(new) = IF l + 1 > l + n THEN 0 ELSE l + n - (l + 1) + 1
    BY FS_Interval
  <2> QED BY <2>1
<1>3. S \cap new = {}
  OBVIOUS
<1> HIDE DEF new
<1>4. Cardinality(S \cup new) = Cardinality(S) + Cardinality(new) - Cardinality(S \cap new)
  BY <1>1, <1>2, FS_Union
<1>5. Cardinality(S \cap new) = 0
  BY <1>3, FS_EmptySet
<1>6. Cardinality(S \cup new) = Cardinality(S) + n
  BY <1>1, <1>2, <1>4, <1>5
<1> QED BY <1>6 DEF new

\* What fits the caps now is all that any look back from now will find.
LEMMA AdmitStep ==
  ASSUME AdmInv, NEW c \in Clients, NEW v \in Visitors, NEW n \in Nat, Admit(c, v, n)
  PROVE  AdmInv'
<1> DEFINE s == history
           r == WithNew(s, n, now, c)
           new == Len(s) + 1 .. Len(s) + n
<1>1. /\ now \in Nat /\ s \in Seq(Taken) /\ Len(s) \in Nat
      /\ log \subseteq 1..Len(s)
      /\ \A i \in 1..Len(s) : s[i].at \in Nat /\ s[i].at <= now /\ s[i].client \in Clients
      /\ \A i \in 1..Len(s) : Since(s[i].at, Day) => i \in log
  <2>1. /\ now \in Nat /\ s \in Seq(Taken) /\ log \subseteq 1..Len(s)
        /\ \A i \in 1..Len(s) : s[i].at <= now /\ (Since(s[i].at, Day) => i \in log)
    BY DEF AdmInv
  <2>2. \A i \in 1..Len(s) : s[i] \in Taken
    BY <2>1, ElementOfSeq
  <2> QED BY <2>1, <2>2 DEF Taken
<1>2. /\ Hour \in Nat \ {0} /\ Day \in Nat \ {0} /\ Hour <= Day
      /\ PerVisitorPerHour \in Nat /\ PerDay \in Nat
  BY AdmissionAssumption
<1>3. /\ history' = r /\ log' = OfToday \cup new /\ now' = now
      /\ Cardinality(OfThisHour(c)) + n <= PerVisitorPerHour
      /\ Cardinality(OfToday) + n <= PerDay
  BY DEF Admit, Admissible, FitsTheHour, WithNew
<1>4. OfToday = Before(s, now, Day)
  BY <1>1 DEF OfToday, Before, Since
<1>5. OfThisHour(c) = Before(s, now, Hour) \cap Of(s, c)
  <2>1. \A j \in 1..Len(s) : s[j].at + Hour > now => s[j].at + Day > now
    BY <1>1, <1>2
  <2> QED BY <1>1, <1>4, <2>1 DEF OfThisHour, Before, Of, Since
<1>6. \A i \in 1..Len(s) : WithinCaps(s, i)
  BY DEF AdmInv
<1> HIDE DEF s
<1>7. ASSUME NEW u \in 0..now, NEW d \in Clients
      PROVE  /\ Before(r, u, Hour) = Before(s, u, Hour) \cup (IF u = now THEN new ELSE {})
             /\ Before(r, u, Day) = Before(s, u, Day) \cup (IF u = now THEN new ELSE {})
             /\ Of(r, d) = Of(s, d) \cup (IF c = d THEN new ELSE {})
  <2>1. ASSUME NEW span \in Nat \ {0}
        PROVE  /\ Before(r, u, span) = Before(s, u, span) \cup (IF u = now THEN new ELSE {})
               /\ Of(r, d) = Of(s, d) \cup (IF c = d THEN new ELSE {})
    BY <1>1, SpanWithNew
  <2> HIDE DEF r, new
  <2> QED BY <1>2, <2>1
<1>8. /\ r \in Seq(Taken) /\ Len(r) = Len(s) + n
      /\ \A j \in 1..Len(s) : r[j] = s[j]
      /\ \A j \in new : r[j] = [at |-> now, client |-> c]
  <2>1. IsWithNew(r, s, n, now, c)
    BY <1>1, NewOnes
  <2> HIDE DEF r
  <2> QED BY <2>1 DEF IsWithNew
<1>9. 1..Len(r) = 1..Len(s) \cup new
  BY <1>1, <1>8
<1>10. \A u \in Nat, d \in Clients :
         /\ Before(s, u, Hour) \subseteq 1..Len(s) /\ Before(s, u, Day) \subseteq 1..Len(s)
         /\ Of(s, d) \subseteq 1..Len(s)
  BY DEF Before, Of
<1> HIDE DEF r
<1>11. \A i \in 1..Len(r) : r[i] \in Taken
  BY <1>8, ElementOfSeq
<1>12. ASSUME NEW i \in 1..Len(r) PROVE WithinCaps(r, i)
  <2>1. CASE r[i].at # now
    <3>1. i \in 1..Len(s) /\ r[i] = s[i]
      BY <1>8, <1>9, <2>1
    <3>2. s[i].at \in 0..now /\ s[i].at # now /\ s[i].client \in Clients
      BY <1>1, <2>1, <3>1
    <3>3. /\ Before(r, s[i].at, Hour) = Before(s, s[i].at, Hour)
          /\ Before(r, s[i].at, Day) = Before(s, s[i].at, Day)
      BY <1>7, <3>2
    <3>4. Before(s, s[i].at, Hour) \cap Of(r, s[i].client) = Before(s, s[i].at, Hour) \cap Of(s, s[i].client)
      <4>1. Before(s, s[i].at, Hour) \cap new = {}
        BY <1>1, <1>10, <3>2
      <4>2. Of(r, s[i].client) = Of(s, s[i].client) \cup (IF c = s[i].client THEN new ELSE {})
        BY <1>7, <3>2
      <4> HIDE DEF new
      <4> QED BY <4>1, <4>2
    <3> QED BY <1>6, <3>1, <3>3, <3>4 DEF WithinCaps
  <2>2. CASE r[i].at = now
    <3> DEFINE d == r[i].client
               H == Before(s, now, Hour)
    <3>1. d \in Clients /\ now \in 0..now
      BY <1>1, <1>11 DEF Taken
    <3>2. /\ Before(r, now, Hour) = H \cup new
          /\ Before(r, now, Day) = Before(s, now, Day) \cup new
          /\ Of(r, d) = Of(s, d) \cup (IF c = d THEN new ELSE {})
      BY <1>7, <3>1
    <3>3. H \subseteq 1..Len(s) /\ Of(s, d) \subseteq 1..Len(s) /\ Before(s, now, Day) \subseteq 1..Len(s)
      BY <1>1, <1>10, <3>1
    <3>4. H \cap new = {} /\ Of(s, d) \cap new = {}
      BY <1>1, <3>3
    <3>5. Cardinality(Before(s, now, Day) \cup new) = Cardinality(Before(s, now, Day)) + n
      BY <1>1, <3>3, CountWithNew
    <3>6. ASSUME d = c PROVE Cardinality(Before(r, now, Hour) \cap Of(r, d)) <= PerVisitorPerHour
      <4>1. Before(r, now, Hour) \cap Of(r, d) = (H \cap Of(s, c)) \cup new
        <5> HIDE DEF new, H, d
        <5> QED BY <3>2, <3>4, <3>6
      <4>2. Cardinality((H \cap Of(s, c)) \cup new) = Cardinality(H \cap Of(s, c)) + n
        <5>1. H \cap Of(s, c) \in SUBSET (1..Len(s))
          BY <3>3
        <5> QED BY <1>1, <5>1, CountWithNew
      <4> QED BY <1>3, <1>5, <4>1, <4>2
    <3>7. ASSUME d # c PROVE Cardinality(Before(r, now, Hour) \cap Of(r, d)) <= PerVisitorPerHour
      <4>1. i \in 1..Len(s) /\ r[i] = s[i]
        BY <1>8, <1>9, <3>7
      <4>2. Before(r, now, Hour) \cap Of(r, d) = H \cap Of(s, d)
        <5> HIDE DEF new, H, d
        <5> QED BY <3>2, <3>4, <3>7
      <4> QED BY <1>6, <2>2, <4>1, <4>2 DEF WithinCaps
    <3> QED BY <1>3, <1>4, <2>2, <3>2, <3>5, <3>6, <3>7 DEF WithinCaps
  <2> QED BY <2>1, <2>2
<1>13. log' \subseteq 1..Len(r)
  <2>1. OfToday \subseteq 1..Len(s)
    BY <1>1, <1>4, <1>10
  <2> HIDE DEF new
  <2> QED BY <1>3, <1>9, <2>1
<1>14. ASSUME NEW i \in 1..Len(r)
       PROVE  r[i].at <= now /\ (r[i].at + Day > now => i \in log')
  <2>1. CASE i \in 1..Len(s)
    BY <1>1, <1>3, <1>4, <1>8, <2>1 DEF Before
  <2>2. CASE i \in new
    <3> HIDE DEF new
    <3>1. r[i].at = now
      BY <1>8, <2>2
    <3> QED BY <1>1, <1>3, <2>2, <3>1
  <2> QED BY <1>9, <2>1, <2>2
<1> QED BY <1>1, <1>3, <1>8, <1>12, <1>13, <1>14 DEF AdmInv, Since

LEMMA AdmInvHolds == AdmSpec => []AdmInv
<1>1. AdmInit => AdmInv
  BY DEF AdmInit, AdmInv
<1>2. AdmInv /\ [AdmNext]_admVars => AdmInv'
  <2> SUFFICES ASSUME AdmInv, [AdmNext]_admVars PROVE AdmInv'
    OBVIOUS
  <2>1. ASSUME history' = history, now' \in {now, now + 1}, log' \in {log, OfToday} PROVE AdmInv'
    <3>1. /\ now \in Nat /\ history \in Seq(Taken) /\ Day \in Nat
          /\ log \subseteq 1..Len(history)
          /\ \A i \in 1..Len(history) : /\ history[i].at \in Nat /\ history[i].at <= now
                                        /\ Since(history[i].at, Day) => i \in log
                                        /\ WithinCaps(history, i)
      <4>1. /\ now \in Nat /\ history \in Seq(Taken)
            /\ log \subseteq 1..Len(history)
            /\ \A i \in 1..Len(history) : /\ history[i].at <= now
                                          /\ Since(history[i].at, Day) => i \in log
                                          /\ WithinCaps(history, i)
        BY DEF AdmInv
      <4>2. \A i \in 1..Len(history) : history[i] \in Taken
        BY <4>1, ElementOfSeq
      <4> QED BY <4>1, <4>2, AdmissionAssumption DEF Taken
    <3>2. \A i \in 1..Len(history') : WithinCaps(history', i)
      BY <2>1, <3>1
    <3>3. log' \subseteq 1..Len(history') /\ now' \in Nat
      BY <2>1, <3>1 DEF OfToday
    <3>4. ASSUME NEW i \in 1..Len(history)
          PROVE  history[i].at <= now' /\ (history[i].at + Day > now' => i \in log')
      BY <2>1, <3>1 DEF OfToday, Since
    <3> QED BY <2>1, <3>1, <3>2, <3>3, <3>4 DEF AdmInv, Since
  <2>2. ASSUME NEW c \in Clients, NEW v \in Visitors, NEW n \in 0..MaxOffers, PostJobs(c, v, n)
        PROVE  AdmInv'
    <3>1. CASE ShutOut(c, v)
      BY <2>1, <3>1 DEF ShutOut
    <3>2. CASE Hammers(c, v)
      BY <2>1, <3>2 DEF Hammers
    <3>3. CASE TurnDown(c, v, n)
      BY <2>1, <3>3 DEF TurnDown
    <3>4. CASE Admit(c, v, n)
      <4>1. n \in Nat
        OBVIOUS
      <4> QED BY <3>4, <4>1, AdmitStep
    <3> QED BY <2>2, <3>1, <3>2, <3>3, <3>4 DEF PostJobs
  <2>3. CASE Passes
    BY <2>1, <2>3 DEF Passes
  <2>4. CASE UNCHANGED admVars
    BY <2>1, <2>4 DEF admVars
  <2> QED BY <2>2, <2>3, <2>4 DEF AdmNext
<1> QED BY <1>1, <1>2, PTL DEF AdmSpec

\* Nobody spends more of the owner's quota than the caps, in whatever hour or
\* day one looks, and whatever is dropped from the list in between.
THEOREM QuotaIsBounded == AdmSpec => []CapsHold
BY AdmInvHolds, CapsAreHeld, PTL

----------------------------------------------------------------------------
(* Admission: the bans.                                                    *)

\* A POST that was counted.
Tried == [at : Nat, keys : SUBSET Keys, through : BOOLEAN]

\* What the hour before now has of a key is in its hits.
HitsAreKept ==
  \A i \in 1..Len(tries) : \A k \in tries[i].keys :
    Since(tries[i].at, Hour) => k \in DOMAIN hits /\ i \in hits[k]

Offends(j) == \E k \in tries[j].keys : Cardinality(InItsHour(k, j)) > BanAfter

\* An offence that is not old enough has banned its keys, or a later one has.
OffendersAreBanned ==
  \A j \in 1..Len(tries) : Offends(j) /\ Since(tries[j].at, Ban) =>
    \A k \in tries[j].keys : k \in DOMAIN bans /\ tries[j].at <= tries[bans[k]].at

NobodySlipsThrough ==
  \A i \in 1..Len(tries) : \A j \in 1..(i - 1) :
    tries[i].through /\ tries[j].keys \cap tries[i].keys # {} /\ Offends(j)
    => tries[j].at + Ban <= tries[i].at

BanTypes ==
  /\ now \in 0..End /\ tries \in Seq(Tried) /\ crowded \in BOOLEAN
  /\ DOMAIN hits \subseteq Keys /\ \A k \in DOMAIN hits : hits[k] \subseteq 1..Len(tries)
  /\ DOMAIN bans \subseteq Keys /\ \A k \in DOMAIN bans : bans[k] \in 1..Len(tries)
  /\ \A i \in 1..Len(tries) : tries[i].at <= now

BanInv ==
  /\ BanTypes
  /\ crowded \/ (HitsAreKept /\ OffendersAreBanned /\ NobodySlipsThrough)

\* A map that has room forgets nobody.
LEMMA RoomForAll ==
  ASSUME NEW D, IsFiniteSet(D), ~ (Cardinality(D) > MaxKeys), NEW k \in D,
         NEW S \in SUBSET (D \ {k})
  PROVE  Cardinality(S) < MaxKeys
<1>1. IsFiniteSet(D \ {k}) /\ Cardinality(D \ {k}) = Cardinality(D) - 1
  BY FS_RemoveElement
<1>2. Cardinality(S) <= Cardinality(D \ {k})
  BY <1>1, FS_Subset
<1>3. IsFiniteSet(S)
  BY <1>1, FS_Subset
<1>4. Cardinality(S) \in Nat /\ Cardinality(D) \in Nat
  BY <1>3, FS_CardinalityType
<1> QED BY <1>1, <1>2, <1>4, AdmissionAssumption

LEMMA KeysAreFinite ==
  ASSUME NEW S \in SUBSET Keys
  PROVE  IsFiniteSet(S)
<1>1. IsFiniteSet(Keys)
  BY AdmissionAssumption, FS_Union DEF Keys
<1> QED BY <1>1, FS_Subset

\* The tries with one more, t.
IsOneMore(s, r, t) ==
  /\ s \in Seq(Tried) /\ Len(s) = Len(r) + 1 /\ s[Len(r) + 1] = t
  /\ \A i \in 1..Len(r) : s[i] = r[i]

LEMMA CountedTypes ==
  ASSUME BanTypes, NEW c \in Clients, NEW v \in Visitors, Count(c, v)
  PROVE  \E t \in Tried :
           /\ IsOneMore(tries', tries, t)
           /\ t.at = now /\ t.keys = {c, v} /\ t.through = ~ TooMany(c, v)
<1> DEFINE t == [at |-> now, keys |-> {c, v}, through |-> ~ TooMany(c, v)]
<1>1. t \in Tried
  <2>1. now \in Nat /\ {c, v} \in SUBSET Keys
    BY AdmissionAssumption DEF BanTypes, Keys
  <2>2. (~ TooMany(c, v)) \in BOOLEAN
    OBVIOUS
  <2> QED BY <2>1, <2>2 DEF Tried
<1>2. tries' = Append(tries, t) /\ tries \in Seq(Tried)
  BY DEF Count, BanTypes
<1>3. t.at = now /\ t.keys = {c, v} /\ t.through = ~ TooMany(c, v)
  OBVIOUS
<1> HIDE DEF t
<1>4. IsOneMore(tries', tries, t)
  BY <1>1, <1>2, AppendProperties DEF IsOneMore
<1> QED BY <1>1, <1>3, <1>4

\* What the next hits have of the keys, and what they count.
LEMMA CountedHits ==
  ASSUME BanTypes, NEW c \in Clients, NEW v \in Visitors
  PROVE  /\ DOMAIN Counted(c, v) \subseteq Keys /\ IsFiniteSet(DOMAIN Counted(c, v))
         /\ {c, v} \subseteq DOMAIN Counted(c, v)
         /\ \A k \in DOMAIN Counted(c, v) : Counted(c, v)[k] \subseteq 1..Len(tries) + 1
         /\ \A k \in {c, v} : Counted(c, v)[k] = Recent(k) \cup {Len(tries) + 1}
         /\ \A k \in DOMAIN hits : \A i \in hits[k] : Since(tries[i].at, Hour) =>
              k \in DOMAIN Counted(c, v) /\ i \in Counted(c, v)[k]
<1> DEFINE D == {c, v} \cup {k \in DOMAIN hits : Recent(k) # {}}
           n == Len(tries)
<1>1. c \in Keys /\ v \in Keys /\ DOMAIN hits \subseteq Keys /\ n \in Nat
  BY DEF BanTypes, Keys
<1>2. D \in SUBSET Keys
  BY <1>1
<1>3. \A k \in D : (k \in {c, v} => Recent(k) \subseteq 1..n) /\ (k \notin {c, v} => hits[k] \subseteq 1..n)
  BY DEF BanTypes, Recent
<1>4. Counted(c, v) = [k \in D |-> IF k \in {c, v} THEN Recent(k) \cup {n + 1} ELSE hits[k]]
  BY DEF Counted, This
<1>5. ASSUME NEW k \in DOMAIN hits, NEW i \in hits[k], Since(tries[i].at, Hour)
      PROVE  k \in D /\ i \in Counted(c, v)[k]
  <2>1. i \in Recent(k)
    BY <1>5 DEF Recent
  <2>2. k \in D
    BY <2>1
  <2> QED BY <1>4, <2>1, <2>2
<1> HIDE DEF D
<1>6. DOMAIN Counted(c, v) = D /\ {c, v} \subseteq D
  BY <1>4 DEF D
<1>7. \A k \in D : Counted(c, v)[k] \subseteq 1..n + 1
  BY <1>1, <1>3, <1>4
<1> QED BY <1>2, <1>4, <1>5, <1>6, <1>7, KeysAreFinite

\* The counts of the hours that have been do not change.
LEMMA SameHours ==
  ASSUME BanTypes, NEW t \in Tried, IsOneMore(tries', tries, t)
  PROVE  /\ \A j \in 1..Len(tries) : /\ tries'[j] = tries[j]
                                     /\ Offends(j)' <=> Offends(j)
         /\ Len(tries') = Len(tries) + 1 /\ tries'[Len(tries) + 1] = t
<1>1. Len(tries) \in Nat /\ \A j \in 1..Len(tries) : tries'[j] = tries[j]
  BY DEF BanTypes, IsOneMore
<1>2. ASSUME NEW j \in 1..Len(tries) PROVE \A k : InItsHour(k, j)' = InItsHour(k, j)
  <2>1. \A i \in 1..j : tries'[i] = tries[i]
    BY <1>1
  <2> QED BY <1>1, <2>1 DEF InItsHour
<1> QED BY <1>1, <1>2 DEF Offends, IsOneMore

\* Whoever offends is counted too many times, as all hits of the hour are there.
LEMMA OffendersAreCounted ==
  ASSUME BanTypes, HitsAreKept, NEW c \in Clients, NEW v \in Visitors,
         NEW t \in Tried, IsOneMore(tries', tries, t), t.at = now, t.keys = {c, v},
         NEW n \in Nat, n = Len(tries), Offends(n + 1)'
  PROVE  TooMany(c, v)
<1>1. PICK k \in {c, v} : Cardinality(InItsHour(k, n + 1)') > BanAfter
  BY DEF Offends, IsOneMore
<1>2. n \in Nat /\ \A i \in 1..n : tries'[i] = tries[i]
  BY DEF BanTypes, IsOneMore
<1>3. Counted(c, v)[k] = Recent(k) \cup {n + 1} /\ Counted(c, v)[k] \subseteq 1..n + 1
  BY CountedHits
<1>4. InItsHour(k, n + 1)' \subseteq Recent(k) \cup {n + 1}
  <2> SUFFICES ASSUME NEW i \in 1..n, i \in InItsHour(k, n + 1)' PROVE i \in Recent(k)
    BY <1>2 DEF InItsHour
  <2>1. k \in tries[i].keys /\ tries[i].at + Hour > now
    BY <1>2 DEF InItsHour, IsOneMore
  <2> QED BY <2>1 DEF HitsAreKept, Since, Recent
<1>5. IsFiniteSet(1..n + 1)
  BY <1>2, FS_Interval
<1>6. IsFiniteSet(Counted(c, v)[k])
  BY <1>3, <1>5, FS_Subset
<1>7. /\ Cardinality(InItsHour(k, n + 1)') <= Cardinality(Counted(c, v)[k])
      /\ IsFiniteSet(InItsHour(k, n + 1)')
  BY <1>3, <1>4, <1>6, FS_Subset
<1>8. /\ Cardinality(InItsHour(k, n + 1)') \in Nat
      /\ Cardinality(Counted(c, v)[k]) \in Nat
  BY <1>6, <1>7, FS_CardinalityType
<1>9. Cardinality(Counted(c, v)[k]) > BanAfter
  BY <1>1, <1>7, <1>8, AdmissionAssumption
<1> QED BY <1>9 DEF TooMany

LEMMA CountTypes ==
  ASSUME BanTypes, NEW c \in Clients, NEW v \in Visitors, Count(c, v), UNCHANGED now,
         \/ bans' = Kept(BansWith(c, v), BansWith(c, v))
         \/ bans' = Restrict(bans, LiveBans)
  PROVE  BanTypes'
<1> DEFINE n == Len(tries)
<1>1. PICK t \in Tried : IsOneMore(tries', tries, t) /\ t.at = now
  BY CountedTypes
<1>2. n \in Nat /\ tries' \in Seq(Tried) /\ Len(tries') = n + 1 /\ now \in 0..End
  BY <1>1 DEF BanTypes, IsOneMore
<1>3. \A i \in 1..n + 1 : tries'[i].at <= now
  BY <1>1, <1>2 DEF BanTypes, IsOneMore
<1>4. DOMAIN hits' \subseteq Keys /\ \A k \in DOMAIN hits' : hits'[k] \subseteq 1..n + 1
  BY CountedHits DEF Count, Kept, Restrict
<1>5. DOMAIN bans' \subseteq Keys /\ \A k \in DOMAIN bans' : bans'[k] \in 1..n + 1
  <2>1. c \in Keys /\ v \in Keys /\ LiveBans \subseteq DOMAIN bans
    BY DEF Keys, LiveBans
  <2>2. DOMAIN bans \subseteq Keys /\ \A k \in DOMAIN bans : bans[k] \in 1..n
    BY DEF BanTypes
  <2>3. CASE bans' = Restrict(bans, LiveBans)
    BY <1>2, <2>1, <2>2, <2>3 DEF Restrict
  <2>4. CASE bans' = Kept(BansWith(c, v), BansWith(c, v))
    <3>1. /\ DOMAIN BansWith(c, v) \subseteq Keys
          /\ \A k \in DOMAIN BansWith(c, v) : BansWith(c, v)[k] \in 1..n + 1
      BY <1>2, <2>1, <2>2 DEF BansWith, This
    <3> QED BY <2>4, <3>1 DEF Kept, Restrict
  <2> QED BY <2>3, <2>4
<1>6. crowded' \in BOOLEAN
  BY DEF Count
<1> QED BY <1>2, <1>3, <1>4, <1>5, <1>6 DEF BanTypes

\* With room for all, the hits of the last hour are kept.
LEMMA CountKeepsHits ==
  ASSUME BanTypes, HitsAreKept, NEW c \in Clients, NEW v \in Visitors,
         Count(c, v), UNCHANGED now, ~ crowded'
  PROVE  HitsAreKept'
<1> DEFINE n == Len(tries)
           M == Counted(c, v)
<1>1. PICK t \in Tried : IsOneMore(tries', tries, t) /\ t.keys = {c, v}
  BY CountedTypes
<1>2. n \in Nat /\ Len(tries') = n + 1
  BY <1>1 DEF BanTypes, IsOneMore
<1>3. ~ (Cardinality(DOMAIN M) > MaxKeys) /\ IsFiniteSet(DOMAIN M)
  BY CountedHits DEF Count, IsFull
<1>4. hits' = M
  <2>1. hits' = Kept(M, [k \in DOMAIN M |-> Max(M[k])])
    BY DEF Count
  <2>2. \A k \in DOMAIN M : Cardinality({l \in DOMAIN M \ {k} : Later(k, Max(M[k]), l, Max(M[l]))}) < MaxKeys
    <3> HIDE DEF M
    <3> QED BY <1>3, RoomForAll
  <2>3. hits' = [k \in DOMAIN M |-> M[k]]
    <3> HIDE DEF M
    <3> QED BY <2>1, <2>2 DEF Kept, Restrict
  <2> QED BY <2>3 DEF Counted
<1>5. ASSUME NEW i \in 1..n, NEW k \in tries[i].keys, Since(tries[i].at, Hour)
      PROVE  k \in DOMAIN M /\ i \in M[k]
  BY <1>5, CountedHits DEF HitsAreKept
<1>6. \A k \in {c, v} : k \in DOMAIN M /\ n + 1 \in M[k]
  BY CountedHits
<1> HIDE DEF M
<1>7. \A i \in 1..n : tries'[i] = tries[i]
  BY <1>1 DEF IsOneMore
<1>8. tries'[n + 1].keys = {c, v}
  BY <1>1 DEF IsOneMore
<1>9. ASSUME NEW i \in 1..n + 1, NEW k \in tries'[i].keys, Since(tries'[i].at, Hour)
      PROVE  k \in DOMAIN hits' /\ i \in hits'[k]
  <2>1. CASE i = n + 1
    BY <1>4, <1>6, <1>8, <1>9, <2>1
  <2>2. CASE i \in 1..n
    BY <1>4, <1>5, <1>7, <1>9, <2>2
  <2> QED BY <1>2, <2>1, <2>2
<1> QED BY <1>2, <1>9 DEF HitsAreKept, Since

\* No ban that runs is forgotten, and an offence that is counted now bans both.
LEMMA CountKeepsBans ==
  ASSUME BanTypes, HitsAreKept, OffendersAreBanned, NEW c \in Clients, NEW v \in Visitors,
         Count(c, v), UNCHANGED now, ~ crowded',
         \/ TooMany(c, v) /\ bans' = Kept(BansWith(c, v), BansWith(c, v))
         \/ ~ TooMany(c, v) /\ bans' = Restrict(bans, LiveBans)
  PROVE  OffendersAreBanned'
<1> SUFFICES ASSUME NEW n \in Nat, n = Len(tries) PROVE OffendersAreBanned'
  BY DEF BanTypes
<1> DEFINE M == BansWith(c, v)
<1>1. PICK t \in Tried : IsOneMore(tries', tries, t) /\ t.at = now /\ t.keys = {c, v}
  BY CountedTypes
<1>2. /\ Len(tries') = n + 1 /\ tries'[n + 1] = t /\ now' = now /\ now \in Nat
      /\ \A j \in 1..n : tries'[j] = tries[j] /\ (Offends(j)' <=> Offends(j))
  BY <1>1, SameHours, AdmissionAssumption DEF BanTypes
<1>3. \A j \in 1..n : tries[j] \in Tried /\ tries[j].at \in Nat /\ tries[j].at <= now
  <2>1. \A j \in 1..n : tries[j] \in Tried /\ tries[j].at <= now
    BY ElementOfSeq DEF BanTypes
  <2> QED BY <2>1 DEF Tried
<1>4. DOMAIN bans \subseteq Keys /\ \A k \in DOMAIN bans : bans[k] \in 1..n
  BY DEF BanTypes
<1>5. ASSUME NEW j \in 1..n, Offends(j), Since(tries[j].at, Ban), NEW k \in tries[j].keys
      PROVE  k \in LiveBans /\ tries[j].at <= tries[bans[k]].at
  <2>1. k \in DOMAIN bans /\ tries[j].at <= tries[bans[k]].at /\ bans[k] \in 1..n
    BY <1>4, <1>5 DEF OffendersAreBanned
  <2>2. tries[bans[k]].at + Ban > now
    BY <1>2, <1>3, <1>5, <2>1, AdmissionAssumption DEF Since
  <2> QED BY <2>1, <2>2 DEF LiveBans
<1>6. CASE TooMany(c, v) /\ bans' = Kept(M, M)
  <2>1. DOMAIN M = LiveBans \cup {c, v} /\ ~ (Cardinality(DOMAIN M) > MaxKeys)
    BY <1>6 DEF BansWith, Count, IsFull
  <2>2. IsFiniteSet(DOMAIN M)
    <3>1. DOMAIN M \in SUBSET Keys
      BY <1>4, <2>1 DEF LiveBans, Keys
    <3> QED BY <3>1, KeysAreFinite
  <2>3. \A k \in DOMAIN M : M[k] = IF k \in {c, v} THEN n + 1 ELSE bans[k]
    BY DEF BansWith, This
  <2> HIDE DEF M
  <2>4. \A k \in DOMAIN M : Cardinality({l \in DOMAIN M \ {k} : Later(k, M[k], l, M[l])}) < MaxKeys
    BY <2>1, <2>2, RoomForAll
  <2>5. DOMAIN bans' = DOMAIN M /\ \A k \in DOMAIN M : bans'[k] = M[k]
    BY <1>6, <2>4 DEF Kept, Restrict
  <2>6. \A k \in LiveBans : bans[k] \in 1..n
    BY <1>4 DEF LiveBans
  <2>7. ASSUME NEW j \in 1..n + 1, Offends(j)', tries'[j].at + Ban > now', NEW k \in tries'[j].keys
        PROVE  k \in DOMAIN bans' /\ tries'[j].at <= tries'[bans'[k]].at
    <3>1. CASE k \in {c, v}
      <4>1. k \in DOMAIN M /\ bans'[k] = n + 1
        BY <2>1, <2>3, <2>5, <3>1
      <4>2. tries'[j].at <= now
        BY <1>1, <1>2, <1>3
      <4> QED BY <1>1, <1>2, <2>5, <4>1, <4>2
    <3>2. CASE k \notin {c, v}
      <4>1. j \in 1..n /\ tries'[j] = tries[j]
        BY <1>1, <1>2, <3>2
      <4>2. Offends(j) /\ Since(tries[j].at, Ban) /\ k \in tries[j].keys
        BY <1>2, <2>7, <4>1 DEF Since
      <4>3. k \in LiveBans /\ tries[j].at <= tries[bans[k]].at
        BY <1>5, <4>1, <4>2
      <4>4. k \in DOMAIN M /\ bans'[k] = bans[k] /\ bans[k] \in 1..n
        BY <2>1, <2>3, <2>5, <2>6, <3>2, <4>3
      <4> QED BY <1>2, <2>5, <4>1, <4>3, <4>4
    <3> QED BY <3>1, <3>2
  <2> QED BY <1>2, <2>7 DEF OffendersAreBanned, Since
<1>7. CASE ~ TooMany(c, v) /\ bans' = Restrict(bans, LiveBans)
  <2>1. ~ Offends(n + 1)'
    BY <1>1, <1>7, OffendersAreCounted
  <2>2. DOMAIN bans' = LiveBans /\ \A k \in LiveBans : bans'[k] = bans[k]
    BY <1>7 DEF Restrict
  <2>3. \A k \in LiveBans : bans[k] \in 1..n
    BY <1>4 DEF LiveBans
  <2>4. ASSUME NEW j \in 1..n + 1, Offends(j)', tries'[j].at + Ban > now', NEW k \in tries'[j].keys
        PROVE  k \in DOMAIN bans' /\ tries'[j].at <= tries'[bans'[k]].at
    <3>1. j \in 1..n
      BY <2>1, <2>4
    <3>2. tries'[j] = tries[j] /\ Offends(j) /\ Since(tries[j].at, Ban) /\ k \in tries[j].keys
      BY <1>2, <2>4, <3>1 DEF Since
    <3>3. k \in LiveBans /\ tries[j].at <= tries[bans[k]].at
      BY <1>5, <3>1, <3>2
    <3> QED BY <1>2, <2>2, <2>3, <3>2, <3>3
  <2> QED BY <1>2, <2>4 DEF OffendersAreBanned, Since
<1> QED BY <1>6, <1>7

\* Who is counted has no ban, so no offence of its keys is recent.
LEMMA CountIsNoEscape ==
  ASSUME BanTypes, OffendersAreBanned, NobodySlipsThrough,
         NEW c \in Clients, NEW v \in Visitors, Count(c, v)
  PROVE  NobodySlipsThrough'
<1> SUFFICES ASSUME NEW n \in Nat, n = Len(tries) PROVE NobodySlipsThrough'
  BY DEF BanTypes
<1>1. PICK t \in Tried : IsOneMore(tries', tries, t) /\ t.at = now /\ t.keys = {c, v}
  BY CountedTypes
<1>2. /\ Len(tries') = n + 1 /\ tries'[n + 1] = t
      /\ \A j \in 1..n : tries'[j] = tries[j] /\ (Offends(j)' <=> Offends(j))
  BY <1>1, SameHours
<1>3. \A j \in 1..n : tries[j].at \in Nat /\ tries[j].at <= now
  <2>1. \A j \in 1..n : tries[j] \in Tried /\ tries[j].at <= now
    BY ElementOfSeq DEF BanTypes
  <2> QED BY <2>1 DEF Tried
<1>4. ASSUME NEW j \in 1..n, Offends(j), tries[j].keys \cap {c, v} # {}
      PROVE  tries[j].at + Ban <= now
  <2> SUFFICES ASSUME Since(tries[j].at, Ban) PROVE FALSE
    BY <1>3, AdmissionAssumption DEF BanTypes, Since
  <2>1. PICK k \in {c, v} : k \in tries[j].keys
    BY <1>4
  <2>2. k \in DOMAIN bans /\ tries[j].at <= tries[bans[k]].at /\ bans[k] \in 1..n
    BY <1>4, <2>1 DEF OffendersAreBanned, BanTypes
  <2>3. tries[bans[k]].at + Ban > now
    BY <1>3, <2>2, AdmissionAssumption DEF Since, BanTypes
  <2> QED BY <2>1, <2>2, <2>3 DEF LiveBans, Count
<1>5. ASSUME NEW i \in 1..n + 1, NEW j \in 1..(i - 1), tries'[i].through,
             tries'[j].keys \cap tries'[i].keys # {}, Offends(j)'
      PROVE  tries'[j].at + Ban <= tries'[i].at
  <2>1. j \in 1..n
    OBVIOUS
  <2>2. CASE i = n + 1
    BY <1>1, <1>2, <1>4, <1>5, <2>1, <2>2
  <2>3. CASE i \in 1..n
    BY <1>2, <1>5, <2>1, <2>3 DEF NobodySlipsThrough
  <2> QED BY <2>2, <2>3
<1> QED BY <1>2, <1>5 DEF NobodySlipsThrough

LEMMA BanStep == BanInv /\ [AdmNext]_admVars => BanInv'
<1> SUFFICES ASSUME BanInv, [AdmNext]_admVars PROVE BanInv'
  OBVIOUS
<1>1. ASSUME NEW c \in Clients, NEW v \in Visitors, ShutOut(c, v) PROVE BanInv'
  <2>1. UNCHANGED <<now, tries, hits, crowded>> /\ bans' = Restrict(bans, LiveBans)
    BY <1>1 DEF ShutOut
  <2>2. LiveBans \subseteq DOMAIN bans
    BY DEF LiveBans
  <2>3. DOMAIN bans' = LiveBans /\ \A k \in LiveBans : bans'[k] = bans[k]
    BY <2>1 DEF Restrict
  <2>4. BanTypes'
    BY <2>1, <2>2, <2>3 DEF BanInv, BanTypes
  <2>5. \A j : Offends(j)' <=> Offends(j)
    BY <2>1 DEF Offends, InItsHour
  <2>6. ASSUME ~ crowded PROVE HitsAreKept' /\ NobodySlipsThrough'
    <3>1. HitsAreKept'
      BY <2>1, <2>6 DEF BanInv, HitsAreKept, Since
    <3>2. NobodySlipsThrough'
      BY <2>1, <2>5, <2>6 DEF BanInv, NobodySlipsThrough
    <3> QED BY <3>1, <3>2
  <2>7. ASSUME ~ crowded PROVE OffendersAreBanned'
    <3>1. /\ \A j \in 1..Len(tries) : tries[j] \in Tried
          /\ \A k \in DOMAIN bans : bans[k] \in 1..Len(tries)
      BY ElementOfSeq DEF BanInv, BanTypes
    <3>2. now \in Nat /\ Ban \in Nat
      BY AdmissionAssumption DEF BanInv, BanTypes
    <3>3. ASSUME NEW j \in 1..Len(tries), Offends(j), Since(tries[j].at, Ban), NEW k \in tries[j].keys
          PROVE  k \in LiveBans /\ tries[j].at <= tries[bans[k]].at
      <4>1. k \in DOMAIN bans /\ tries[j].at <= tries[bans[k]].at
        BY <2>7, <3>3 DEF BanInv, OffendersAreBanned
      <4>2. tries[j].at \in Nat /\ tries[bans[k]].at \in Nat
        BY <3>1, <4>1 DEF Tried
      <4>3. tries[bans[k]].at + Ban > now
        BY <3>2, <3>3, <4>1, <4>2 DEF Since
      <4> QED BY <4>1, <4>3 DEF LiveBans
    <3> QED BY <2>1, <2>3, <2>5, <3>3 DEF OffendersAreBanned, Since
  <2> QED BY <2>1, <2>4, <2>6, <2>7 DEF BanInv
<1>2. ASSUME NEW c \in Clients, NEW v \in Visitors, Count(c, v), UNCHANGED now,
             \/ TooMany(c, v) /\ bans' = Kept(BansWith(c, v), BansWith(c, v))
             \/ ~ TooMany(c, v) /\ bans' = Restrict(bans, LiveBans)
      PROVE  BanInv'
  <2>1. BanTypes
    BY DEF BanInv
  <2>2. BanTypes'
    BY <1>2, <2>1, CountTypes
  <2>3. ASSUME ~ crowded' PROVE HitsAreKept' /\ OffendersAreBanned' /\ NobodySlipsThrough'
    <3>1. HitsAreKept /\ OffendersAreBanned /\ NobodySlipsThrough
      BY <1>2, <2>3 DEF BanInv, Count
    <3>2. HitsAreKept'
      BY <1>2, <2>1, <2>3, <3>1, CountKeepsHits
    <3>3. OffendersAreBanned'
      BY <1>2, <2>1, <2>3, <3>1, CountKeepsBans
    <3>4. NobodySlipsThrough'
      BY <1>2, <2>1, <3>1, CountIsNoEscape
    <3> QED BY <3>2, <3>3, <3>4
  <2> QED BY <2>2, <2>3 DEF BanInv
<1>3. ASSUME NEW c \in Clients, NEW v \in Visitors, NEW n \in 0..MaxOffers, PostJobs(c, v, n)
      PROVE  BanInv'
  <2>1. CASE ShutOut(c, v)
    BY <1>1, <2>1
  <2>2. CASE Hammers(c, v)
    BY <1>2, <2>2 DEF Hammers
  <2>3. CASE Admit(c, v, n)
    BY <1>2, <2>3 DEF Admit, LetThrough
  <2>4. CASE TurnDown(c, v, n)
    BY <1>2, <2>4 DEF TurnDown, LetThrough
  <2> QED BY <1>3, <2>1, <2>2, <2>3, <2>4 DEF PostJobs
<1>4. ASSUME now' \in {now, now + 1} \cap 0..End, UNCHANGED <<tries, hits, bans, crowded>>
      PROVE  BanInv'
  <2>1. \A j : Offends(j)' <=> Offends(j)
    BY <1>4 DEF Offends, InItsHour
  <2>2. /\ \A i \in 1..Len(tries) : tries[i].at \in Nat
        /\ now \in Nat /\ now' \in Nat /\ now <= now'
        /\ Hour \in Nat /\ Ban \in Nat
    <3>1. \A i \in 1..Len(tries) : tries[i] \in Tried
      BY ElementOfSeq DEF BanInv, BanTypes
    <3> QED BY <1>4, <3>1, AdmissionAssumption DEF BanInv, BanTypes, Tried
  <2>3. BanTypes'
    BY <1>4, <2>2 DEF BanInv, BanTypes
  <2>4. \A i \in 1..Len(tries), span \in Nat : tries[i].at + span > now' => tries[i].at + span > now
    BY <2>2
  <2>5. ASSUME ~ crowded PROVE HitsAreKept' /\ OffendersAreBanned' /\ NobodySlipsThrough'
    <3>1. HitsAreKept /\ OffendersAreBanned /\ NobodySlipsThrough
      BY <2>5 DEF BanInv
    <3>2. HitsAreKept'
      BY <1>4, <2>2, <2>4, <3>1 DEF HitsAreKept, Since
    <3>3. OffendersAreBanned'
      BY <1>4, <2>1, <2>2, <2>4, <3>1 DEF OffendersAreBanned, Since
    <3>4. NobodySlipsThrough'
      BY <1>4, <2>1, <3>1 DEF NobodySlipsThrough
    <3> QED BY <3>2, <3>3, <3>4
  <2> QED BY <1>4, <2>3, <2>5 DEF BanInv
<1>5. now \in 0..End /\ now \in Nat /\ End \in Nat
  BY AdmissionAssumption DEF BanInv, BanTypes
<1>6. CASE Passes
  BY <1>4, <1>5, <1>6 DEF Passes
<1>7. CASE UNCHANGED admVars
  BY <1>4, <1>5, <1>7 DEF admVars
<1> QED BY <1>3, <1>6, <1>7 DEF AdmNext

\* Nobody comes through a ban, in whatever order clients and visitors try, and
\* whatever is dropped from hits and bans for being old; only a crowd of more
\* keys than the server remembers lets one through.
THEOREM HammeringIsPunished == AdmSpec => []HammeringIsBanned
<1>1. AdmInit => BanInv
  <2> SUFFICES ASSUME AdmInit PROVE BanInv
    OBVIOUS
  <2>1. Len(tries) = 0 /\ DOMAIN hits = {} /\ DOMAIN bans = {}
    BY DEF AdmInit
  <2>2. BanTypes
    <3>1. tries \in Seq(Tried) /\ crowded \in BOOLEAN /\ now = 0 /\ 1..Len(tries) = {}
      <4>1. tries = << >> /\ crowded = FALSE /\ now = 0
        BY DEF AdmInit
      <4>2. << >> \in Seq(Tried)
        OBVIOUS
      <4>3. 1..Len(tries) = {}
        BY <2>1
      <4>4. tries \in Seq(Tried) /\ now = 0
        BY <4>1, <4>2
      <4> QED BY <4>1, <4>3, <4>4
    <3>2. 0 \in 0..End
      BY AdmissionAssumption
    <3> QED BY <2>1, <3>1, <3>2 DEF BanTypes
  <2>3. HitsAreKept /\ OffendersAreBanned /\ NobodySlipsThrough
    BY <2>1 DEF HitsAreKept, OffendersAreBanned, NobodySlipsThrough
  <2> QED BY <2>2, <2>3 DEF BanInv
<1>2. BanInv /\ AdmInv => HammeringIsBanned
  <2> SUFFICES ASSUME BanInv, AdmInv PROVE HammeringIsBanned
    OBVIOUS
  <2>1. /\ now \in 0..End /\ crowded \in BOOLEAN /\ tries \in Seq(Tried) /\ history \in Seq(Taken)
        /\ DOMAIN tries = 1..Len(tries) /\ DOMAIN history = 1..Len(history)
    BY DEF BanInv, BanTypes, AdmInv
  <2>2. \A i \in 1..Len(history) : history[i] \in Taken /\ history[i].at <= now
    BY <2>1, ElementOfSeq DEF AdmInv
  <2>3. \A i \in 1..Len(history) : history[i].at \in 0..End /\ history[i].client \in Clients
    BY <2>1, <2>2, AdmissionAssumption DEF Taken
  <2>4. AdmissionTypeOK
    BY <2>1, <2>3 DEF AdmissionTypeOK, BanInv, BanTypes, AdmInv
  <2> QED BY <2>1, <2>4 DEF BanInv, NobodySlipsThrough, Offends, HammeringIsBanned
<1> QED BY <1>1, <1>2, BanStep, AdmInvHolds, PTL DEF AdmSpec

----------------------------------------------------------------------------
(* The owner's answers.                                                    *)

LEMMA LeastNumber ==
  ASSUME NEW T \in SUBSET Nat, T # {}
  PROVE  \E n \in T : \A k \in T : n <= k
<1> DEFINE R == {p \in Nat \X Nat : p[1] < p[2]}
<1>1. IsWellFoundedOn(R, Nat)
  BY NatLessThanWellFounded DEF OpToRel
<1>2. PICK n \in T : \A k \in T : <<k, n>> \notin R
  <2> HIDE DEF R
  <2> QED BY <1>1, WFMin
<1>3. ASSUME NEW k \in T PROVE n <= k
  <2>1. k \in Nat /\ n \in Nat
    OBVIOUS
  <2>2. ~ (k < n)
    BY <1>2, <2>1
  <2> QED BY <2>1, <2>2
<1> QED BY <1>3

Answered(names) == [names |-> names, seen |-> {}, refused |-> FALSE]

\* The fold over the indices of s that are in a set, as FoldLeft defines it.
IsFold(iter, s, names, n) ==
  iter = [S \in SUBSET (1..n) |->
            IF S = {} THEN Answered(names) ELSE Joined(iter[S \ {Max(S)}], s[Max(S)])]

LEMMA LastOfSome ==
  ASSUME NEW n \in Nat, NEW S \in SUBSET (1..n), n \in S
  PROVE  Max(S) = n
<1>1. n \in S /\ \A k \in S : n >= k
  OBVIOUS
<1>2. \A m \in S : (\A k \in S : m >= k) => m = n
  OBVIOUS
<1> QED BY <1>1, <1>2 DEF Max

LEMMA FoldExists ==
  ASSUME NEW s, NEW names, NEW n \in Nat
  PROVE  \E iter : IsFold(iter, s, names, n)
<1> DEFINE T == {m \in Nat : ~ \E iter : IsFold(iter, s, names, m)}
<1> SUFFICES ASSUME T # {} PROVE FALSE
  OBVIOUS
<1>1. PICK m \in T : \A k \in T : m <= k
  <2> HIDE DEF T
  <2>1. T \in SUBSET Nat
    BY DEF T
  <2> QED BY <2>1, LeastNumber
<1>2. CASE m = 0
  <2>1. SUBSET (1..m) = {{}}
    BY <1>2
  <2>2. IsFold([S \in {{}} |-> Answered(names)], s, names, m)
    BY <2>1 DEF IsFold
  <2> QED BY <2>2
<1>3. CASE m # 0
  <2>1. m - 1 \in Nat /\ m - 1 \notin T
    BY <1>1, <1>3
  <2>2. PICK h : IsFold(h, s, names, m - 1)
    BY <2>1
  <2> DEFINE g == [S \in SUBSET (1..m) |-> IF m \in S THEN Joined(h[S \ {m}], s[m]) ELSE h[S]]
  <2>3. ASSUME NEW S \in SUBSET (1..m)
        PROVE  g[S] = IF S = {} THEN Answered(names) ELSE Joined(g[S \ {Max(S)}], s[Max(S)])
    <3>1. CASE m \in S
      <4>1. Max(S) = m /\ S # {}
        BY <3>1, LastOfSome
      <4>2. S \ {m} \in SUBSET (1..m) /\ m \notin S \ {m}
        OBVIOUS
      <4> QED BY <3>1, <4>1, <4>2
    <3>2. CASE m \notin S
      <4>1. S \in SUBSET (1..m - 1)
        BY <2>1, <3>2
      <4>2. g[S] = h[S] /\ g[S \ {Max(S)}] = h[S \ {Max(S)}]
        BY <3>2
      <4>3. h[S] = IF S = {} THEN Answered(names) ELSE Joined(h[S \ {Max(S)}], s[Max(S)])
        BY <2>2, <4>1 DEF IsFold
      <4> QED BY <4>2, <4>3
    <3> QED BY <3>1, <3>2
  <2>4. g = [S \in SUBSET (1..m) |->
               IF S = {} THEN Answered(names) ELSE Joined(g[S \ {Max(S)}], s[Max(S)])]
    <3> DEFINE G(S) == IF S = {} THEN Answered(names) ELSE Joined(g[S \ {Max(S)}], s[Max(S)])
    <3>1. \A S \in SUBSET (1..m) : g[S] = G(S)
      BY <2>3
    <3>2. g = [S \in SUBSET (1..m) |-> g[S]]
      OBVIOUS
    <3> HIDE DEF g, G
    <3>3. g = [S \in SUBSET (1..m) |-> G(S)]
      BY <3>1, <3>2
    <3> QED BY <3>3 DEF G
  <2>5. IsFold(g, s, names, m)
    BY <2>4 DEF IsFold
  <2> QED BY <1>1, <2>5
<1> QED BY <1>2, <1>3

\* A step for each answer, from the first to the last.
IsChain(g, s, names) ==
  /\ g[0] = Answered(names)
  /\ \A i \in 1..Len(s) : g[i] = Joined(g[i - 1], s[i])

LEMMA MergeIsChain ==
  ASSUME NEW X, NEW s \in Seq(X), NEW names
  PROVE  \E g : IsChain(g, s, names) /\ MergeAnswers(names, s) = g[Len(s)]
<1> DEFINE n == Len(s)
<1>1. n \in Nat /\ DOMAIN s = 1..n
  OBVIOUS
<1>2. PICK iter : IsFold(iter, s, names, n) /\ MergeAnswers(names, s) = iter[1..n]
  <2>1. \E iter : IsFold(iter, s, names, n)
    BY <1>1, FoldExists
  <2> DEFINE it == CHOOSE iter : IsFold(iter, s, names, n)
  <2>2. IsFold(it, s, names, n)
    BY <2>1
  <2>3. MergeAnswers(names, s) = it[1..n]
    BY <1>1 DEF MergeAnswers, FoldLeft, MapThenFoldSet, IsFold, Answered
  <2> QED BY <2>2, <2>3
<1> DEFINE g == [i \in 0..n |-> iter[1..i]]
<1>3. g[0] = Answered(names)
  <2>0. n \in Nat
    BY <1>1
  <2> HIDE DEF n
  <2>1. 1..0 = {}
    OBVIOUS
  <2>2. iter[{}] = Answered(names)
    BY <1>2 DEF IsFold
  <2>3. 0 \in 0..n
    BY <2>0
  <2>4. g[0] = iter[1..0]
    BY <2>3
  <2> QED BY <2>1, <2>2, <2>4
<1>4. ASSUME NEW i \in 1..n PROVE g[i] = Joined(g[i - 1], s[i])
  <2>0. n \in Nat
    BY <1>1
  <2> HIDE DEF n
  <2>1. 1..i \in SUBSET (1..n) /\ i \in 1..i /\ (1..i) \ {i} = 1..(i - 1)
    BY <2>0
  <2>2. Max(1..i) = i
    <3>1. i \in Nat /\ 1..i \in SUBSET (1..i)
      BY <2>0
    <3> QED BY <2>1, <3>1, LastOfSome
  <2>3. iter[1..i] = Joined(iter[1..(i - 1)], s[i])
    BY <1>2, <2>1, <2>2 DEF IsFold
  <2>4. g[i] = iter[1..i] /\ g[i - 1] = iter[1..(i - 1)]
    BY <2>0
  <2> QED BY <2>3, <2>4
<1>5. g[n] = iter[1..n]
  BY <1>1
<1> HIDE DEF g
<1>6. IsChain(g, s, names)
  BY <1>3, <1>4 DEF IsChain
<1> QED BY <1>2, <1>5, <1>6

\* What is merged before the last answer is what is merged without it.
LEMMA MergeOneMore ==
  ASSUME NEW X, NEW s \in Seq(X), NEW a \in X, NEW names
  PROVE  MergeAnswers(names, Append(s, a)) = Joined(MergeAnswers(names, s), a)
<1> DEFINE n == Len(s)
           r == Append(s, a)
<1>1. PICK g : IsChain(g, s, names) /\ MergeAnswers(names, s) = g[n]
  BY MergeIsChain
<1>2. n \in Nat /\ r \in Seq(X) /\ Len(r) = n + 1 /\ r[n + 1] = a /\ \A i \in 1..n : r[i] = s[i]
  BY AppendProperties
<1>3. PICK h : IsChain(h, r, names) /\ MergeAnswers(names, r) = h[n + 1]
  BY <1>2, MergeIsChain
<1>4. \A i \in 0..n : h[i] = g[i]
  <2> DEFINE T == {i \in 0..n : h[i] # g[i]}
  <2> SUFFICES ASSUME T # {} PROVE FALSE
    OBVIOUS
  <2>0. T \in SUBSET Nat
    BY <1>2
  <2>1. PICK i \in T : \A k \in T : i <= k
    <3> HIDE DEF T
    <3> QED BY <2>0, LeastNumber
  <2>2. i \in 0..n /\ h[i] # g[i]
    OBVIOUS
  <2>3. i # 0
    BY <1>1, <1>3, <2>2 DEF IsChain
  <2>4. i \in 1..n /\ i - 1 \in 0..n /\ i - 1 \notin T
    BY <1>2, <2>1, <2>2, <2>3
  <2>5. h[i - 1] = g[i - 1]
    BY <2>4
  <2>6. h[i] = Joined(h[i - 1], r[i]) /\ g[i] = Joined(g[i - 1], s[i])
    BY <1>1, <1>2, <1>3, <2>4 DEF IsChain
  <2> QED BY <1>2, <2>2, <2>4, <2>5, <2>6
<1>5. h[n + 1] = Joined(h[n], a)
  <2>1. n + 1 \in 1..Len(r) /\ (n + 1) - 1 = n
    BY <1>2
  <2> QED BY <1>2, <1>3, <2>1 DEF IsChain
<1> QED BY <1>1, <1>2, <1>3, <1>4, <1>5

\* The ids that a merge has seen are those of its answers.
LEMMA MergeSees ==
  ASSUME NEW X, NEW s \in Seq(X), NEW names
  PROVE  MergeAnswers(names, s).seen = {s[i].id : i \in 1..Len(s)}
<1> DEFINE n == Len(s)
           SaidBy(i) == {s[k].id : k \in 1..i}
<1>1. PICK g : IsChain(g, s, names) /\ MergeAnswers(names, s) = g[n]
  BY MergeIsChain
<1>2. n \in Nat
  OBVIOUS
<1> DEFINE T == {i \in 0..n : g[i].seen # SaidBy(i)}
<1>3. ASSUME T # {} PROVE FALSE
  <2>0. T \in SUBSET Nat
    BY <1>2
  <2>1. PICK i \in T : \A k \in T : i <= k
    <3> HIDE DEF T
    <3> QED BY <1>3, <2>0, LeastNumber
  <2>2. i \in 0..n /\ g[i].seen # SaidBy(i)
    OBVIOUS
  <2>3. i # 0
    <3>1. SaidBy(0) = {} /\ g[0] = Answered(names)
      BY <1>1 DEF IsChain
    <3> QED BY <2>2, <3>1 DEF Answered
  <2>4. i \in 1..n /\ i - 1 \in 0..n /\ i - 1 \notin T
    BY <1>2, <2>1, <2>2, <2>3
  <2>5. g[i - 1].seen = SaidBy(i - 1)
    BY <2>4
  <2>6. g[i].seen = g[i - 1].seen \cup {s[i].id}
    <3>1. g[i] = Joined(g[i - 1], s[i])
      BY <1>1, <2>4 DEF IsChain
    <3>2. Joined(g[i - 1], s[i]).seen = g[i - 1].seen \cup {s[i].id}
      BY DEF Joined
    <3> QED BY <3>1, <3>2
  <2>7. 1..i = 1..(i - 1) \cup {i}
    BY <2>4
  <2> QED BY <2>2, <2>5, <2>6, <2>7
<1> QED BY <1>1, <1>2, <1>3

LEMMA MergeNone ==
  ASSUME NEW names
  PROVE  MergeAnswers(names, << >>) = Answered(names)
<1>1. << >> \in Seq({}) /\ Len(<< >>) = 0
  OBVIOUS
<1> QED BY <1>1, MergeIsChain DEF IsChain

AnswerInv ==
  /\ kept \in Seq(PossibleAnswers) /\ edited \in BOOLEAN
  /\ ~ edited => Loads

\* An answer that the profile takes alone is one that it takes with all the
\* others, in their order: it is asked of the names that these leave, and has
\* an id that none of them has.
LEMMA AddKeeps ==
  ASSUME AnswerInv, NEW a \in PossibleAnswers, AddAnswer(a)
  PROVE  AnswerInv'
<1> DEFINE m == MergeAnswers(owned, kept)
<1>1. kept \in Seq(PossibleAnswers) /\ kept' = Append(kept, a) /\ edited' = FALSE
      /\ owned' = owned /\ ruledOut' = ruledOut
  BY DEF AnswerInv, AddAnswer
<1>2. MergeAnswers(owned, kept') = Joined(m, a)
  BY <1>1, MergeOneMore
<1>3. ~ m.refused /\ a.id \notin m.seen
  <2>1. ~ m.refused
    BY DEF AddAnswer, Loads
  <2>2. \A i \in 1..Len(kept) : kept[i].id # a.id
    BY <1>1 DEF AddAnswer
  <2>3. m.seen = {kept[i].id : i \in 1..Len(kept)}
    BY <1>1, MergeSees
  <2> QED BY <2>1, <2>2, <2>3
<1>4. ~ Joined(Answered(m.names), a).refused
  <2>1. <<a>> = Append(<< >>, a) /\ << >> \in Seq(PossibleAnswers)
    OBVIOUS
  <2>2. MergeAnswers(m.names, <<a>>) = Joined(Answered(m.names), a)
    BY <2>1, MergeOneMore, MergeNone
  <2> QED BY <2>2 DEF AddAnswer, LoadedNames
<1> HIDE DEF m
<1>5. ~ Joined(m, a).refused
  BY <1>3, <1>4 DEF Joined, Answered
<1>6. Loads'
  <2>1. MergeAnswers(owned, kept)' = MergeAnswers(owned, kept')
    BY <1>1 DEF MergeAnswers, FoldLeft, MapThenFoldSet, Joined
  <2> QED BY <1>2, <1>5, <2>1 DEF Loads
<1>7. kept' \in Seq(PossibleAnswers)
  BY <1>1, AppendProperties
<1> QED BY <1>1, <1>6, <1>7 DEF AnswerInv

\* An answer that the server took is never one that stops the runs after it:
\* as long as the owner changes nothing himself, the file of his answers merges
\* with his profile without a refusal, however many it holds (answers.js).
THEOREM TakenAnswersMerge == AnswerSpec => []TakenAnswersLoad
<1>1. AnswerInit => AnswerInv
  <2> SUFFICES ASSUME AnswerInit PROVE AnswerInv
    OBVIOUS
  <2>1. << >> \in Seq(PossibleAnswers) /\ kept = << >> /\ edited = FALSE
    BY DEF AnswerInit
  <2>2. Loads
    BY <2>1, MergeNone DEF Loads, Answered
  <2> QED BY <2>1, <2>2 DEF AnswerInv
<1>2. AnswerInv /\ [AnswerNext]_answerVars => AnswerInv'
  <2> SUFFICES ASSUME AnswerInv, [AnswerNext]_answerVars PROVE AnswerInv'
    OBVIOUS
  <2>1. CASE EditProfile
    BY <2>1 DEF EditProfile, AnswerInv
  <2>2. ASSUME NEW a \in PossibleAnswers, AddAnswer(a) PROVE AnswerInv'
    BY <2>2, AddKeeps
  <2>3. CASE UNCHANGED answerVars
    <3>1. kept' = kept /\ edited' = edited /\ owned' = owned /\ ruledOut' = ruledOut
      BY <2>3 DEF answerVars
    <3>2. Loads' <=> Loads
      BY <3>1 DEF Loads, MergeAnswers, FoldLeft, MapThenFoldSet, Joined
    <3> QED BY <3>1, <3>2 DEF AnswerInv
  <2> QED BY <2>1, <2>2, <2>3 DEF AnswerNext
<1>3. AnswerInv => TakenAnswersLoad
  BY DEF AnswerInv, TakenAnswersLoad
<1> QED BY <1>1, <1>2, <1>3, PTL DEF AnswerSpec
=============================================================================
