--------------------------- MODULE ChildRunProofs ---------------------------
(***************************************************************************)
(* What ChildRun promises, for any number of calls, any sizes and any      *)
(* reports.                                                                *)
(***************************************************************************)
EXTENDS ChildRun, TLAPS

\* Before it is started a child is not at work: the returns of that part of a
\* call leave none behind.
NotYetSpawned ==
  \A c \in Calls : pc[c] \in {"new", "system", "answer", "spawning"} => child[c] = "none"

IInv == TypeOK /\ FilesAreOurs /\ NothingIsLeft /\ AnswersAreWhole /\ NotYetSpawned

LEMMA TypeInit == Init => TypeOK
BY ChildAssumption DEF Init, TypeOK, Empty, Streams, Verdicts, Names

\* What Put and Get do to the two counters of a stream.
LEMMA PutCounts ==
  ASSUME TypeOK, NEW c \in Calls, NEW s \in Streams, Put(c, s)
  PROVE  /\ sent' \in [Calls -> [Streams -> Nat]]
         /\ \A d \in Calls, r \in Streams : taken[d][r] <= sent'[d][r] /\ sent'[d][r] <= Size[r]
         /\ \A d \in Calls, r \in Streams : sent[d][r] <= sent'[d][r]
<1>1. sent' = [sent EXCEPT ![c][s] = @ + 1] /\ sent[c][s] < Size[s]
  BY DEF Put
<1>2. Size[s] \in Nat
  BY ChildAssumption DEF Streams
<1>3. sent \in [Calls -> [Streams -> Nat]] /\ taken \in [Calls -> [Streams -> Nat]]
  BY DEF TypeOK
<1>4. sent' \in [Calls -> [Streams -> Nat]]
  BY <1>1, <1>3
<1>5. ASSUME NEW d \in Calls, NEW r \in Streams
      PROVE  sent'[d][r] = sent[d][r] \/ (d = c /\ r = s /\ sent'[d][r] = sent[d][r] + 1)
  BY <1>1, <1>3
<1>6. \A d \in Calls, r \in Streams : taken[d][r] <= sent[d][r] /\ sent[d][r] <= Size[r]
  BY DEF TypeOK
<1>7. ASSUME NEW d \in Calls, NEW r \in Streams
      PROVE  /\ taken[d][r] <= sent'[d][r] /\ sent'[d][r] <= Size[r]
             /\ sent[d][r] <= sent'[d][r]
  <2>1. taken[d][r] \in Nat /\ sent[d][r] \in Nat
    BY <1>3
  <2> QED BY <1>1, <1>2, <1>5, <1>6, <2>1
<1> QED BY <1>4, <1>7

LEMMA GetCounts ==
  ASSUME TypeOK, NEW c \in Calls, NEW s \in Streams, Get(c, s)
  PROVE  /\ taken' \in [Calls -> [Streams -> Nat]]
         /\ \A d \in Calls, r \in Streams : taken'[d][r] <= sent[d][r]
         /\ \A d \in Calls, r \in Streams : taken[d][r] <= taken'[d][r]
<1>1. taken' = [taken EXCEPT ![c][s] = @ + 1] /\ taken[c][s] < sent[c][s]
  BY DEF Get
<1>2. sent \in [Calls -> [Streams -> Nat]] /\ taken \in [Calls -> [Streams -> Nat]]
  BY DEF TypeOK
<1>3. taken' \in [Calls -> [Streams -> Nat]]
  BY <1>1, <1>2
<1>4. ASSUME NEW d \in Calls, NEW r \in Streams
      PROVE  taken'[d][r] = taken[d][r] \/ (d = c /\ r = s /\ taken'[d][r] = taken[d][r] + 1)
  BY <1>1, <1>2
<1>5. ASSUME NEW d \in Calls, NEW r \in Streams
      PROVE  taken'[d][r] <= sent[d][r] /\ taken[d][r] <= taken'[d][r]
  <2>1. taken[d][r] \in Nat /\ sent[d][r] \in Nat /\ taken[d][r] <= sent[d][r]
    BY <1>2 DEF TypeOK
  <2> QED BY <1>1, <1>4, <2>1
<1> QED BY <1>3, <1>5

\* What a return leaves of the state's shape.
LEMMA ReturnTypes ==
  ASSUME TypeOK, NEW c \in Calls, NEW v \in Verdicts, Return(c, v)
  PROVE  /\ pc' = [pc EXCEPT ![c] = "returned"]
         /\ verdict' \in [Calls -> Verdicts \cup {"none"}]
         /\ files' \in [Calls -> SUBSET Names]
         /\ disk' \subseteq Names
BY DEF TypeOK, Return, Goto

\* What a new file is called.
LEMMA FileIsNamed ==
  ASSUME TypeOK, NEW c \in Calls, pc[c] \in Stems
  PROVE  File(c) \in Names
<1>1. cli[c] \in Clis /\ next \in Nat
  BY DEF TypeOK
<1> QED BY <1>1 DEF File, Names

\* The type of the calls' and the children's state, and of the disk's.
LEMMA TypeStep == TypeOK /\ [Next]_vars => TypeOK'
<1> SUFFICES ASSUME TypeOK, [Next]_vars PROVE TypeOK'
  OBVIOUS
<1>1. ASSUME NEW c \in Calls, Adapter(c) PROVE TypeOK'
  <2>1. CASE Prepare(c)
    BY <2>1 DEF Prepare, Goto, TypeOK, childVars
  <2>2. CASE Refuse(c)
    <3>1. "other" \in Verdicts  BY DEF Verdicts
    <3> QED BY <2>2, <3>1, ReturnTypes DEF Refuse, TypeOK, childVars
  <2>3. CASE Create(c)
    <3>1. pc[c] \in Stems  BY <2>3 DEF Create
    <3>2. File(c) \in Names  BY <3>1, FileIsNamed
    <3>3. disk' \subseteq Names /\ files' \in [Calls -> SUBSET Names]
      BY <2>3, <3>2 DEF Create, TypeOK
    <3>4. AfterFile(c) \in {"answer", "spawning"}  BY DEF AfterFile
    <3>5. next' \in Nat /\ tries' \in [Calls -> 0..MaxTries]
      BY <2>3, ChildAssumption DEF Create, TypeOK
    <3> QED BY <2>3, <3>3, <3>4, <3>5 DEF Create, Goto, TypeOK, childVars
  <2>4. CASE Skip(c)
    <3>1. tries' \in [Calls -> 0..MaxTries] /\ next' \in Nat
      BY <2>4, ChildAssumption DEF Skip, TypeOK
    <3> QED BY <2>4, <3>1 DEF Skip, TypeOK, childVars
  <2>5. CASE CreateFails(c)
    <3>1. "other" \in Verdicts  BY DEF Verdicts
    <3>2. next' \in Nat  BY <2>5 DEF CreateFails, TypeOK
    <3> QED BY <2>5, <3>1, <3>2, ReturnTypes DEF CreateFails, TypeOK, childVars
  <2>6. CASE Spawn(c)
    BY <2>6 DEF Spawn, Goto, TypeOK
  <2>7. CASE SpawnFails(c)
    <3>1. PICK v \in {"unreachable", "other"} : Return(c, v)
      BY <2>7 DEF SpawnFails
    <3>2. v \in Verdicts  BY DEF Verdicts
    <3> QED BY <2>7, <3>1, <3>2, ReturnTypes DEF SpawnFails, TypeOK, childVars
  <2>8. CASE Notice(c)
    BY <2>8 DEF Notice, Goto, TypeOK, childVars
  <2>9. CASE Classify(c)
    <3>1. PICK fate \in Fates : /\ Return(c, fate.verdict)
                               /\ billed' = [billed EXCEPT ![c] = fate.billed]
      BY <2>9 DEF Classify
    <3>2. fate.verdict \in Verdicts /\ fate.billed \in BOOLEAN  BY DEF Fates
    <3>3. billed' \in [Calls -> BOOLEAN]
      BY <3>1, <3>2 DEF TypeOK
    <3> QED BY <2>9, <3>1, <3>2, <3>3, ReturnTypes DEF Classify, TypeOK, childVars
  <2> QED BY <1>1, <2>1, <2>2, <2>3, <2>4, <2>5, <2>6, <2>7, <2>8, <2>9 DEF Adapter
<1>2. ASSUME NEW c \in Calls, NEW s \in Streams, Put(c, s) PROVE TypeOK'
  BY <1>2, PutCounts DEF Put, TypeOK
<1>3. ASSUME NEW c \in Calls, NEW s \in Streams, Get(c, s) PROVE TypeOK'
  BY <1>3, GetCounts DEF Get, TypeOK
<1>4. ASSUME NEW c \in Calls, End(c) PROVE TypeOK'
  BY <1>4 DEF End, TypeOK
<1>5. ASSUME NEW c \in Calls, Kill(c) PROVE TypeOK'
  <2>1. PICK v \in {"unreachable", "other"} : Return(c, v)
    BY <1>5 DEF Kill
  <2>2. v \in Verdicts  BY DEF Verdicts
  <2> QED BY <1>5, <2>1, <2>2, ReturnTypes DEF Kill, TypeOK
<1>6. CASE Restart
  BY <1>6 DEF Restart, TypeOK
<1>7. CASE UNCHANGED vars
  BY <1>7 DEF vars, TypeOK
<1> QED BY <1>1, <1>2, <1>3, <1>4, <1>5, <1>6, <1>7
        DEF Next, Threads, Child, WritePrompt, Drain, ReadPrompt, PrintPiece, Finish, Break, Streams

----------------------------------------------------------------------------
(* The files.                                                              *)

\* A return removes its own files and no other.
LEMMA ReturnKeepsFiles ==
  ASSUME TypeOK, FilesAreOurs, NEW c \in Calls, NEW v, Return(c, v), UNCHANGED orphans
  PROVE  FilesAreOurs'
<1>1. disk' = disk \ files[c] /\ files' = [files EXCEPT ![c] = {}]
  BY DEF Return
<1>2. files \in [Calls -> SUBSET Names]  BY DEF TypeOK
<1>3. \A d \in Calls : files'[d] = IF d = c THEN {} ELSE files[d]
  BY <1>1, <1>2
<1>4. orphans' \subseteq disk'  BY <1>1 DEF FilesAreOurs
<1>5. ASSUME NEW d \in Calls PROVE files'[d] \subseteq disk' \ orphans'
  <2>1. CASE d = c  BY <2>1, <1>3
  <2>2. CASE d # c
    <3>1. files[d] \cap files[c] = {} /\ files[d] \subseteq disk \ orphans
      BY <2>2 DEF FilesAreOurs
    <3> QED BY <3>1, <2>2, <1>1, <1>3
  <2> QED BY <2>1, <2>2
<1>6. ASSUME NEW d \in Calls, NEW e \in Calls, d # e PROVE files'[d] \cap files'[e] = {}
  <2>1. files[d] \cap files[e] = {}  BY <1>6 DEF FilesAreOurs
  <2> QED BY <2>1, <1>3
<1> QED BY <1>4, <1>5, <1>6 DEF FilesAreOurs

\* A new file was nobody's.
LEMMA CreateKeepsFiles ==
  ASSUME TypeOK, FilesAreOurs, NEW c \in Calls, Create(c)
  PROVE  FilesAreOurs'
<1> DEFINE new == File(c)
<1>1. /\ disk' = disk \cup {new} /\ orphans' = orphans /\ new \notin disk
      /\ files' = [files EXCEPT ![c] = @ \cup {new}]
  BY DEF Create
<1>2. files \in [Calls -> SUBSET Names]  BY DEF TypeOK
<1> HIDE DEF new
<1>3. \A d \in Calls : files'[d] = IF d = c THEN files[d] \cup {new} ELSE files[d]
  BY <1>1, <1>2
<1>4. orphans' \subseteq disk'  BY <1>1 DEF FilesAreOurs
<1>5. ASSUME NEW d \in Calls PROVE files'[d] \subseteq disk' \ orphans'
  <2>1. files[d] \subseteq disk \ orphans /\ new \notin orphans
    BY <1>1 DEF FilesAreOurs
  <2> QED BY <2>1, <1>1, <1>3
<1>6. ASSUME NEW d \in Calls, NEW e \in Calls, d # e PROVE files'[d] \cap files'[e] = {}
  <2>1. files[d] \cap files[e] = {} /\ new \notin files[d] /\ new \notin files[e]
    BY <1>1, <1>6 DEF FilesAreOurs
  <2> QED BY <2>1, <1>3, <1>6
<1> QED BY <1>4, <1>5, <1>6 DEF FilesAreOurs

\* No step touches a file that is not its own.
LEMMA FilesStep == TypeOK /\ FilesAreOurs /\ [Next]_vars => FilesAreOurs'
<1> SUFFICES ASSUME TypeOK, FilesAreOurs, [Next]_vars PROVE FilesAreOurs'
  OBVIOUS
<1>1. ASSUME NEW c \in Calls, Create(c) PROVE FilesAreOurs'
  BY <1>1, CreateKeepsFiles
<1>2. ASSUME NEW c \in Calls, NEW v, Return(c, v), UNCHANGED orphans PROVE FilesAreOurs'
  BY <1>2, ReturnKeepsFiles
<1>3. ASSUME UNCHANGED <<files, disk, orphans>> PROVE FilesAreOurs'
  BY <1>3 DEF FilesAreOurs
<1>4. CASE Restart
  <2>1. \A c \in Calls : files'[c] = {}  BY <1>4 DEF Restart
  <2> QED BY <2>1, <1>4 DEF Restart, FilesAreOurs
<1>5. ASSUME NEW c \in Calls, Adapter(c) \/ Kill(c) PROVE FilesAreOurs'
  BY <1>1, <1>2, <1>3, <1>5
     DEF Adapter, Prepare, Refuse, Skip, CreateFails, Spawn, SpawnFails, Notice, Classify, Kill
<1>6. ASSUME NEW c \in Calls, Threads(c) \/ Child(c) \/ Break(c) PROVE FilesAreOurs'
  BY <1>3, <1>6 DEF Threads, Child, WritePrompt, Drain, ReadPrompt, PrintPiece, Finish, Break,
                    Put, Get, End
<1>7. CASE UNCHANGED vars  BY <1>3, <1>7 DEF vars
<1> QED BY <1>4, <1>5, <1>6, <1>7 DEF Next

----------------------------------------------------------------------------
(* What a call leaves behind.                                              *)

LEMMA SpawnedStep == TypeOK /\ NotYetSpawned /\ [Next]_vars => NotYetSpawned'
<1> SUFFICES ASSUME TypeOK, NotYetSpawned, [Next]_vars PROVE NotYetSpawned'
  OBVIOUS
<1> USE DEF TypeOK, NotYetSpawned
<1>1. ASSUME NEW c \in Calls, Adapter(c) PROVE NotYetSpawned'
  BY <1>1 DEF Adapter, Prepare, Refuse, Create, Skip, CreateFails, Spawn, SpawnFails, Notice,
              Classify, Return, Goto, AfterFile, Stems, childVars
<1>2. ASSUME NEW c \in Calls, Kill(c) PROVE NotYetSpawned'
  BY <1>2 DEF Kill, Return, Goto
<1>3. ASSUME NEW c \in Calls, Threads(c) \/ Child(c) \/ Break(c) PROVE NotYetSpawned'
  BY <1>3 DEF Threads, Child, WritePrompt, Drain, ReadPrompt, PrintPiece, Finish, Break,
              Put, Get, End
<1>4. CASE Restart  BY <1>4 DEF Restart
<1>5. CASE UNCHANGED vars  BY <1>5 DEF vars
<1> QED BY <1>1, <1>2, <1>3, <1>4, <1>5 DEF Next

\* A return whose child is not at work leaves nothing.
LEMMA ReturnLeavesNothing ==
  ASSUME TypeOK, FilesAreOurs, NothingIsLeft, NEW c \in Calls, NEW v, Return(c, v),
         UNCHANGED orphans, child'[c] # "running",
         \A d \in Calls : d # c => child'[d] = child[d]
  PROVE  NothingIsLeft'
<1>1. disk' = disk \ files[c] /\ files' = [files EXCEPT ![c] = {}]
  BY DEF Return
<1>2. files \in [Calls -> SUBSET Names]  BY DEF TypeOK
<1>3. \A d \in Calls : files'[d] = IF d = c THEN {} ELSE files[d]
  BY <1>1, <1>2
<1>4. \A d \in Calls : pc'[d] = "returned" => child'[d] # "running" /\ files'[d] = {}
  BY <1>3 DEF Return, Goto, TypeOK, NothingIsLeft
<1>5. \A d \in Calls : d # c => files[d] \cap files[c] = {}
  BY DEF FilesAreOurs
<1>6. orphans \cap files[c] = {}
  BY DEF FilesAreOurs
<1>7. disk' = orphans' \cup UNION {files'[d] : d \in Calls}
  <2>1. disk = orphans \cup UNION {files[d] : d \in Calls}  BY DEF NothingIsLeft
  <2>2. UNION {files'[d] : d \in Calls} = (UNION {files[d] : d \in Calls}) \ files[c]
    BY <1>3, <1>5
  <2> QED BY <1>1, <1>6, <2>1, <2>2
<1> QED BY <1>4, <1>7 DEF NothingIsLeft

LEMMA LeftStep ==
  TypeOK /\ FilesAreOurs /\ NothingIsLeft /\ NotYetSpawned /\ [Next]_vars => NothingIsLeft'
<1> SUFFICES ASSUME TypeOK, FilesAreOurs, NothingIsLeft, NotYetSpawned, [Next]_vars
             PROVE  NothingIsLeft'
  OBVIOUS
<1>1. ASSUME NEW c \in Calls, Create(c) PROVE NothingIsLeft'
  <2>1. pc[c] \in Stems /\ pc' = [pc EXCEPT ![c] = AfterFile(c)] /\ child' = child
    BY <1>1 DEF Create, Goto, childVars
  <2>2. AfterFile(c) # "returned"  BY DEF AfterFile
  <2>3. files \in [Calls -> SUBSET Names]  BY DEF TypeOK
  <2>4. \A d \in Calls : files'[d] = IF d = c THEN files[d] \cup {File(c)} ELSE files[d]
    BY <1>1, <2>3 DEF Create
  <2>5. \A d \in Calls : pc'[d] = "returned" => child'[d] # "running" /\ files'[d] = {}
    BY <2>1, <2>2, <2>4 DEF TypeOK, NothingIsLeft
  <2>6. UNION {files'[d] : d \in Calls} = (UNION {files[d] : d \in Calls}) \cup {File(c)}
    BY <2>4
  <2>7. disk' = orphans' \cup UNION {files'[d] : d \in Calls}
    BY <1>1, <2>6 DEF Create, NothingIsLeft
  <2> QED BY <2>5, <2>7 DEF NothingIsLeft
<1>2. ASSUME NEW c \in Calls, Refuse(c) \/ CreateFails(c) \/ SpawnFails(c) PROVE NothingIsLeft'
  <2>1. child[c] = "none" /\ child' = child /\ orphans' = orphans
    BY <1>2 DEF Refuse, CreateFails, SpawnFails, NotYetSpawned, Stems, childVars
  <2> QED BY <1>2, <2>1, ReturnLeavesNothing DEF Refuse, CreateFails, SpawnFails
<1>3. ASSUME NEW c \in Calls, Kill(c) PROVE NothingIsLeft'
  <2>1. child' = [child EXCEPT ![c] = "ended"] /\ orphans' = orphans
    BY <1>3 DEF Kill
  <2>2. child'[c] = "ended" /\ \A d \in Calls : d # c => child'[d] = child[d]
    BY <2>1 DEF TypeOK
  <2> QED BY <1>3, <2>1, <2>2, ReturnLeavesNothing DEF Kill
<1>4. ASSUME NEW c \in Calls, Classify(c) PROVE NothingIsLeft'
  <2>1. child[c] = "ended" /\ child' = child /\ orphans' = orphans
    BY <1>4 DEF Classify, Joined, childVars
  <2>2. PICK fate \in Fates : Return(c, fate.verdict)  BY <1>4 DEF Classify
  <2> QED BY <2>1, <2>2, ReturnLeavesNothing
<1>5. ASSUME NEW c \in Calls, Prepare(c) \/ Skip(c) \/ Spawn(c) \/ Notice(c) PROVE NothingIsLeft'
  <2>1. UNCHANGED <<files, disk, orphans>>
    BY <1>5 DEF Prepare, Skip, Spawn, Notice
  <2>2. \A d \in Calls : pc'[d] = "returned" => pc[d] = "returned" /\ child'[d] = child[d]
    BY <1>5 DEF Prepare, Skip, Spawn, Notice, Goto, childVars, TypeOK
  <2> QED BY <2>1, <2>2 DEF NothingIsLeft
<1>6. ASSUME NEW c \in Calls, Threads(c) \/ Child(c) \/ Break(c) PROVE NothingIsLeft'
  BY <1>6 DEF Threads, Child, WritePrompt, Drain, ReadPrompt, PrintPiece, Finish, Break,
              Put, Get, End, TypeOK, NothingIsLeft
<1>7. CASE Restart
  <2>1. \A c \in Calls : files'[c] = {}  BY <1>7 DEF Restart
  <2>2. \A c \in Calls : child'[c] # "running"  BY <1>7 DEF Restart
  <2>3. disk' = orphans'  BY <1>7 DEF Restart
  <2> QED BY <2>1, <2>2, <2>3 DEF NothingIsLeft
<1>8. CASE UNCHANGED vars  BY <1>8 DEF vars, NothingIsLeft
<1> QED BY <1>1, <1>2, <1>3, <1>4, <1>5, <1>6, <1>7, <1>8 DEF Next, Adapter

----------------------------------------------------------------------------
(* What becomes an answer.                                                 *)

\* What is no JSON is no answer of gemini's, and a cut output never is one.
LEMMA CutIsNoAnswer ==
  ASSUME NEW c \in Calls, NEW fate \in CutFates(c)
  PROVE  fate.verdict # "ok"
<1>1. ASSUME NEW out \in GeminiOutputs, ~out.json PROVE GeminiVerdict(out) # "ok"
  BY <1>1 DEF GeminiVerdict
<1> QED BY <1>1 DEF CutFates

\* A step that returns something else than an answer, or nothing, and reads
\* and prints no less.
LEMMA WholeKept ==
  ASSUME TypeOK, TypeOK', AnswersAreWhole, UNCHANGED cli,
         \A d \in Calls : verdict'[d] = "ok" => verdict[d] = "ok",
         \A d \in Calls, r \in Streams : sent[d][r] <= sent'[d][r] /\ taken[d][r] <= taken'[d][r]
  PROVE  AnswersAreWhole'
<1> SUFFICES ASSUME NEW c \in Calls, verdict'[c] = "ok"
             PROVE  /\ sent'[c]["out"] = Size["out"]
                    /\ ToFile(c, "out")' \/ taken'[c]["out"] = Size["out"]
  BY DEF AnswersAreWhole
<1>1. sent[c]["out"] = Size["out"] /\ (ToFile(c, "out") \/ taken[c]["out"] = Size["out"])
  BY DEF AnswersAreWhole
<1>2. "out" \in Streams /\ Size["out"] \in Nat  BY ChildAssumption DEF Streams
<1>3. /\ sent'[c]["out"] \in Nat /\ taken'[c]["out"] \in Nat
      /\ taken'[c]["out"] <= sent'[c]["out"] /\ sent'[c]["out"] <= Size["out"]
  BY <1>2 DEF TypeOK
<1>4. sent[c]["out"] <= sent'[c]["out"] /\ taken[c]["out"] <= taken'[c]["out"]
  BY <1>2
<1>5. sent'[c]["out"] = Size["out"]  BY <1>1, <1>2, <1>3, <1>4
<1>6. CASE ToFile(c, "out")  BY <1>5, <1>6 DEF ToFile
<1>7. CASE taken[c]["out"] = Size["out"]
  <2>1. taken'[c]["out"] = Size["out"]  BY <1>2, <1>3, <1>4, <1>7
  <2> QED BY <1>5, <2>1
<1> QED BY <1>1, <1>6, <1>7

LEMMA WholeStep == TypeOK /\ AnswersAreWhole /\ [Next]_vars => AnswersAreWhole'
<1> SUFFICES ASSUME TypeOK, AnswersAreWhole, [Next]_vars PROVE AnswersAreWhole'
  OBVIOUS
<1>1. TypeOK'  BY TypeStep
<1>2. \A d \in Calls, r \in Streams : sent[d][r] <= sent[d][r] /\ taken[d][r] <= taken[d][r]
  BY DEF TypeOK
<1>3. ASSUME UNCHANGED <<cli, sent, taken>>,
             \A d \in Calls : verdict'[d] = "ok" => verdict[d] = "ok"
      PROVE  AnswersAreWhole'
  BY <1>1, <1>2, <1>3, WholeKept
<1>4. ASSUME NEW c \in Calls, NEW v \in Verdicts, v # "ok", Return(c, v), UNCHANGED <<cli, sent, taken>>
      PROVE  AnswersAreWhole'
  <2>1. \A d \in Calls : verdict'[d] = "ok" => verdict[d] = "ok"
    BY <1>4 DEF Return, TypeOK
  <2> QED BY <1>3, <1>4, <2>1
<1>5. ASSUME NEW c \in Calls, Classify(c) PROVE AnswersAreWhole'
  <2> DEFINE read == IF ToFile(c, "out") THEN sent[c]["out"] ELSE taken[c]["out"]
  <2>1. UNCHANGED <<cli, sent, taken>>  BY <1>5 DEF Classify, childVars
  <2>2. PICK fate \in Fates : /\ fate \in CutFates(c) \/ read = Size["out"]
                             /\ Return(c, fate.verdict)
    BY <1>5 DEF Classify
  <2>3. fate.verdict \in Verdicts  BY DEF Fates
  <2>4. CASE fate.verdict # "ok"  BY <2>1, <2>2, <2>3, <2>4, <1>4
  <2>5. CASE fate.verdict = "ok"
    <3>1. read = Size["out"]  BY <2>2, <2>5, CutIsNoAnswer
    <3>2. /\ taken[c]["out"] <= sent[c]["out"] /\ sent[c]["out"] <= Size["out"]
          /\ taken[c]["out"] \in Nat /\ sent[c]["out"] \in Nat /\ Size["out"] \in Nat
      BY ChildAssumption DEF TypeOK, Streams
    <3>3. sent[c]["out"] = Size["out"] /\ (ToFile(c, "out") \/ taken[c]["out"] = Size["out"])
      BY <3>1, <3>2
    <3>4. \A d \in Calls : d # c => verdict'[d] = verdict[d]
      BY <2>2 DEF Return, TypeOK
    <3> QED BY <2>1, <3>3, <3>4 DEF AnswersAreWhole, ToFile
  <2> QED BY <2>4, <2>5
<1>6. ASSUME NEW c \in Calls, Refuse(c) \/ CreateFails(c) \/ SpawnFails(c) \/ Kill(c)
      PROVE  AnswersAreWhole'
  <2>1. UNCHANGED <<cli, sent, taken>>
    BY <1>6 DEF Refuse, CreateFails, SpawnFails, Kill, childVars
  <2>2. PICK v \in {"unreachable", "other"} : Return(c, v)
    BY <1>6 DEF Refuse, CreateFails, SpawnFails, Kill
  <2>3. v \in Verdicts /\ v # "ok"  BY DEF Verdicts
  <2> QED BY <1>4, <2>1, <2>2, <2>3
<1>7. ASSUME NEW c \in Calls,
             Prepare(c) \/ Create(c) \/ Skip(c) \/ Spawn(c) \/ Notice(c) \/ End(c)
      PROVE  AnswersAreWhole'
  BY <1>3, <1>7 DEF Prepare, Create, Skip, Spawn, Notice, End, childVars
<1>8. ASSUME NEW c \in Calls, NEW s \in Streams, Put(c, s) PROVE AnswersAreWhole'
  BY <1>1, <1>2, <1>8, PutCounts, WholeKept DEF Put
<1>9. ASSUME NEW c \in Calls, NEW s \in Streams, Get(c, s) PROVE AnswersAreWhole'
  BY <1>1, <1>2, <1>9, GetCounts, WholeKept DEF Get
<1>10. CASE Restart  BY <1>3, <1>10 DEF Restart
<1>11. CASE UNCHANGED vars  BY <1>3, <1>11 DEF vars
<1> QED BY <1>5, <1>6, <1>7, <1>8, <1>9, <1>10, <1>11
        DEF Next, Adapter, Threads, Child, WritePrompt, Drain, ReadPrompt, PrintPiece, Finish,
            Break, Streams

----------------------------------------------------------------------------
(* What is billed per token.                                               *)

\* The billing source is told by the only init message, which is looked at
\* first, and an overage before any result.
LEMMA MeteredIsTold ==
  ASSUME NEW out \in Outputs, Metered(out)
  PROVE  ClaudeVerdict(out) \in {"other", "tripwire"}
<1>1. ASSUME NEW i \in Typed(out, "init") PROVE FirstOf(out, "init") = out[i]
  <2>1. i \in Nat /\ Typed(out, "init") = {i}
    BY ReportAssumption DEF Typed
  <2>2. i = CHOOSE k \in {i} : \A j \in {i} : k <= j
    BY <2>1
  <2> QED BY <2>1, <2>2 DEF FirstOf
<1>2. CASE \E i \in Typed(out, "init") : out[i].source # "none"
  BY <1>1, <1>2 DEF ClaudeVerdict
<1>3. CASE Overage(out)
  BY <1>3 DEF ClaudeVerdict
<1> QED BY <1>2, <1>3 DEF Metered

LEMMA BilledFates ==
  ASSUME NEW c \in Calls, NEW fate \in CutFates(c) \cup WholeFates(c), fate.billed
  PROVE  fate.verdict \in {"other", "tripwire"}
<1>1. fate \notin CutFates(c)
  BY DEF CutFates
<1>2. fate \in ClaudeFates
  BY <1>1 DEF WholeFates, GeminiFates
<1>3. PICK out \in Outputs :
        fate.verdict \in Extracted(ClaudeVerdict(out)) /\ fate.billed = Metered(out)
  BY <1>2 DEF ClaudeFates
<1> QED BY <1>3, MeteredIsTold DEF Extracted

\* A bill comes with the return, and no call returns twice.
BilledOnReturn == \A c \in Calls : billed[c] => pc[c] = "returned"

LEMMA BilledStep ==
  TypeOK /\ MeteredStops /\ BilledOnReturn /\ [Next]_vars => MeteredStops' /\ BilledOnReturn'
<1> SUFFICES ASSUME TypeOK, MeteredStops, BilledOnReturn, [Next]_vars
             PROVE  MeteredStops' /\ BilledOnReturn'
  OBVIOUS
<1> USE DEF MeteredStops, BilledOnReturn
<1>1. ASSUME NEW c \in Calls, Classify(c) PROVE MeteredStops' /\ BilledOnReturn'
  <2>1. PICK fate \in Fates :
          /\ fate \in CutFates(c) \cup WholeFates(c)
          /\ Return(c, fate.verdict)
          /\ billed' = [billed EXCEPT ![c] = fate.billed]
    BY <1>1 DEF Classify
  <2>2. /\ pc'[c] = "returned" /\ verdict'[c] = fate.verdict /\ billed'[c] = fate.billed
        /\ \A d \in Calls : d # c => /\ pc'[d] = pc[d] /\ verdict'[d] = verdict[d]
                                     /\ billed'[d] = billed[d]
    BY <2>1 DEF Return, Goto, TypeOK
  <2>3. billed'[c] => verdict'[c] \in {"other", "tripwire"}
    BY <2>1, <2>2, BilledFates
  <2> QED BY <2>2, <2>3
<1>2. ASSUME NEW c \in Calls, pc[c] # "returned", UNCHANGED billed,
             \A d \in Calls : d # c => pc'[d] = pc[d] /\ verdict'[d] = verdict[d]
      PROVE  MeteredStops' /\ BilledOnReturn'
  <2>1. ~billed[c]  BY <1>2
  <2> QED BY <1>2, <2>1
<1>3. ASSUME NEW c \in Calls, Prepare(c) \/ Create(c) \/ Skip(c) \/ Spawn(c) \/ Notice(c)
      PROVE  MeteredStops' /\ BilledOnReturn'
  <2>1. pc[c] # "returned" /\ UNCHANGED <<billed, verdict>>
    BY <1>3 DEF Prepare, Create, Skip, Spawn, Notice, Stems
  <2>2. \A d \in Calls : d # c => pc'[d] = pc[d]
    BY <1>3 DEF Prepare, Create, Skip, Spawn, Notice, Goto, TypeOK
  <2> QED BY <1>2, <2>1, <2>2
<1>4. ASSUME NEW c \in Calls, Refuse(c) \/ CreateFails(c) \/ SpawnFails(c) \/ Kill(c)
      PROVE  MeteredStops' /\ BilledOnReturn'
  <2>1. pc[c] # "returned" /\ UNCHANGED billed
    BY <1>4 DEF Refuse, CreateFails, SpawnFails, Kill, Stems
  <2>2. PICK v \in {"unreachable", "other"} : Return(c, v)
    BY <1>4 DEF Refuse, CreateFails, SpawnFails, Kill
  <2>3. \A d \in Calls : d # c => pc'[d] = pc[d] /\ verdict'[d] = verdict[d]
    BY <2>2 DEF Return, Goto, TypeOK
  <2> QED BY <1>2, <2>1, <2>3
<1>5. ASSUME NEW c \in Calls, Threads(c) \/ Child(c) \/ Break(c)
      PROVE  MeteredStops' /\ BilledOnReturn'
  <2>1. UNCHANGED <<pc, verdict, billed>>
    BY <1>5 DEF Threads, Child, WritePrompt, Drain, ReadPrompt, PrintPiece, Finish, Break,
                Put, Get, End
  <2> QED BY <2>1
<1>6. CASE Restart
  BY <1>6 DEF Restart
<1>7. CASE UNCHANGED vars
  BY <1>7 DEF vars
<1> QED BY <1>1, <1>3, <1>4, <1>5, <1>6, <1>7 DEF Next, Adapter

----------------------------------------------------------------------------
(* The theorems.                                                           *)

LEMMA InvInit == Init => IInv
<1> SUFFICES ASSUME Init PROVE IInv
  OBVIOUS
<1>1. TypeOK  BY TypeInit
<1>2. FilesAreOurs  BY DEF Init, FilesAreOurs
<1>3. UNION {files[c] : c \in Calls} = {}  BY DEF Init
<1>4. NothingIsLeft  BY <1>3 DEF Init, NothingIsLeft
<1>5. AnswersAreWhole /\ NotYetSpawned  BY DEF Init, AnswersAreWhole, NotYetSpawned
<1> QED BY <1>1, <1>2, <1>4, <1>5 DEF IInv

LEMMA InvAlways == Spec => []IInv
<1>1. IInv /\ [Next]_vars => IInv'
  BY TypeStep, FilesStep, LeftStep, WholeStep, SpawnedStep DEF IInv
<1> QED BY InvInit, <1>1, PTL DEF Spec

\* The state of the adapters keeps its shape: in particular no call looks for
\* a free name more often than it may, and no pipe is read past its end.
THEOREM TypeCorrect == Spec => []TypeOK
<1>1. IInv => TypeOK  BY DEF IInv
<1> QED BY InvAlways, <1>1, PTL

\* SystemFile: calls share no file, and leave alone those an earlier process
\* with the same id left, whatever restarts and failures come between.
THEOREM OnlyOwnFiles == Spec => []FilesAreOurs
<1>1. IInv => FilesAreOurs  BY DEF IInv
<1> QED BY InvAlways, <1>1, PTL

\* complete_with_env leaves no child at work and no prompt on the disk, on
\* whatever path it returns.
THEOREM NothingLeftBehind == Spec => []NothingIsLeft
<1>1. IInv => NothingIsLeft  BY DEF IInv
<1> QED BY InvAlways, <1>1, PTL

\* Both: every path of complete_with_env cleans up what is the call's own.
THEOREM CallsRemoveTheirOwn == Spec => []CallsCleanUp
<1>1. IInv => CallsCleanUp  BY DEF IInv, CallsCleanUp
<1> QED BY InvAlways, <1>1, PTL

\* An answer of a CLI was printed and read to its end.
THEOREM OnlyWholeAnswers == Spec => []AnswersAreWhole
<1>1. IInv => AnswersAreWhole  BY DEF IInv
<1> QED BY InvAlways, <1>1, PTL

\* What claude reports as billed per token stops its request, for reports of
\* any length: no other backend hides it, and it is no answer.
THEOREM MeteredReportsStop == Spec => []MeteredStops
<1>1. Init => MeteredStops /\ BilledOnReturn
  BY DEF Init, MeteredStops, BilledOnReturn
<1>2. IInv => TypeOK
  BY DEF IInv
<1> QED BY InvAlways, <1>1, <1>2, BilledStep, PTL DEF Spec
=============================================================================
