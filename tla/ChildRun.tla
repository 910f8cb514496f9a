------------------------------ MODULE ChildRun ------------------------------
(***************************************************************************)
(* claude_code.rs and gemini_cli.rs, complete_with_env: one completion is  *)
(* one run of a CLI in a child process.  The adapter puts the system       *)
(* prompt (and, for claude, the answer to be) into new private files,      *)
(* starts the CLI, and waits for its end or for a deadline at which it     *)
(* kills it.  Meanwhile a thread writes the prompt into the child's stdin  *)
(* and a thread per pipe drains what the child prints: pipes are short.    *)
(* At the end the adapter joins its threads, classifies what it has read   *)
(* and, on every path, removes its files.                                  *)
(*                                                                         *)
(* The calls run in one process at a time, which can end and start again   *)
(* with the same process id (a container), beside the files it left.  The  *)
(* CLI starts no process that outlives it.                                 *)
(***************************************************************************)
EXTENDS Classification, FiniteSets

CONSTANTS Calls,      \* the completions, one each
          Clis,       \* the CLIs of the run, of "claude" and "gemini"
          Outputs,    \* what claude may print, as sequences of messages
          Size,       \* how many pieces each stream has ("in" is the prompt)
          Room,       \* how many pieces a pipe holds
          MaxTries,   \* how many names that are taken are skipped (64)
          Left        \* files that processes with the same id left before

Streams == {"in", "out", "err"}

Stems == {"system", "answer"}

\* A name: the stem, the number, and the directory, one per CLI.
Names == [dir : Clis, stem : Stems, number : Nat]

ASSUME ChildAssumption ==
         /\ Clis \subseteq {"claude", "gemini"}
         /\ Size \in [Streams -> Nat \ {0}]
         /\ Room \in Nat \ {0} /\ MaxTries \in Nat
         /\ Left \subseteq Names

\* The report is the one of its run: claude prints at most one init message.
ASSUME ReportAssumption ==
         \A out \in Outputs :
           /\ out \in Seq(Inits \cup Limits \cup ResultMessages)
           /\ \A i, j \in Typed(out, "init") : i = j

VARIABLES pc,        \* where each call is
          cli,       \* the CLI each runs
          child,     \* each child: "none", "running" or "ended"
          sent,      \* how many pieces were put into each stream
          taken,     \* how many were read from it
          files,     \* the files each call has made
          tries,     \* the names each has found taken
          verdict,   \* what each call returned
          billed,    \* each child's whole report names a metered source or overage
          disk,      \* the files of the working directories
          orphans,   \* those left by processes that ended
          next       \* SYSTEM_FILES: the number of the next file

vars == <<pc, cli, child, sent, taken, files, tries, verdict, billed, disk, orphans, next>>

Empty == [s \in Streams |-> 0]

TypeOK ==
  /\ pc \in [Calls -> {"new", "system", "answer", "spawning", "waiting",
                       "joining", "returned", "gone"}]
  /\ cli \in [Calls -> Clis]
  /\ child \in [Calls -> {"none", "running", "ended"}]
  /\ sent \in [Calls -> [Streams -> Nat]] /\ taken \in [Calls -> [Streams -> Nat]]
  /\ \A c \in Calls, s \in Streams : taken[c][s] <= sent[c][s] /\ sent[c][s] <= Size[s]
  /\ files \in [Calls -> SUBSET Names]
  /\ tries \in [Calls -> 0..MaxTries]
  /\ verdict \in [Calls -> Verdicts \cup {"none"}]
  /\ billed \in [Calls -> BOOLEAN]
  /\ disk \subseteq Names /\ orphans \subseteq Names
  /\ next \in Nat

Init ==
  /\ pc = [c \in Calls |-> "new"]
  /\ cli \in [Calls -> Clis]
  /\ child = [c \in Calls |-> "none"]
  /\ sent = [c \in Calls |-> Empty]
  /\ taken = [c \in Calls |-> Empty]
  /\ files = [c \in Calls |-> {}]
  /\ tries = [c \in Calls |-> 0]
  /\ verdict = [c \in Calls |-> "none"]
  /\ billed = [c \in Calls |-> FALSE]
  /\ disk = Left
  /\ orphans = Left
  /\ next = 0

Goto(c, where) == pc' = [pc EXCEPT ![c] = where]

\* The call returns v, and its SystemFiles are dropped.
Return(c, v) ==
  /\ verdict' = [verdict EXCEPT ![c] = v]
  /\ Goto(c, "returned")
  /\ disk' = disk \ files[c]
  /\ files' = [files EXCEPT ![c] = {}]

childVars == <<child, sent, taken>>

----------------------------------------------------------------------------
(* Before the child.                                                       *)

\* The latch and the login are looked at first, then the working directory.
Prepare(c) ==
  /\ pc[c] = "new"
  /\ Goto(c, "system")
  /\ UNCHANGED <<cli, childVars, files, tries, verdict, billed, disk, orphans, next>>

\* Any of these refuses.
Refuse(c) ==
  /\ pc[c] = "new"
  /\ Return(c, "other")
  /\ UNCHANGED <<cli, childVars, tries, billed, orphans, next>>

File(c) == [dir |-> cli[c], stem |-> pc[c], number |-> next]

AfterFile(c) == IF pc[c] = "system" /\ cli[c] = "claude" THEN "answer" ELSE "spawning"

\* SystemFile::create with a name that is free.
Create(c) ==
  /\ pc[c] \in Stems
  /\ File(c) \notin disk
  /\ next' = next + 1
  /\ disk' = disk \cup {File(c)}
  /\ files' = [files EXCEPT ![c] = @ \cup {File(c)}]
  /\ tries' = [tries EXCEPT ![c] = 0]
  /\ Goto(c, AfterFile(c))
  /\ UNCHANGED <<cli, childVars, verdict, billed, orphans>>

\* A name that is taken is skipped, and left alone.
Skip(c) ==
  /\ pc[c] \in Stems
  /\ File(c) \in disk /\ tries[c] < MaxTries
  /\ next' = next + 1
  /\ tries' = [tries EXCEPT ![c] = @ + 1]
  /\ UNCHANGED <<pc, cli, childVars, files, verdict, billed, disk, orphans>>

\* Too many are taken, or the disk refuses: create fails, or the write of the
\* system prompt into the file it made.
CreateFails(c) ==
  /\ pc[c] \in Stems
  /\ next' = next + 1
  /\ Return(c, "other")
  /\ UNCHANGED <<cli, childVars, tries, billed, orphans>>

Spawn(c) ==
  /\ pc[c] = "spawning"
  /\ child' = [child EXCEPT ![c] = "running"]
  /\ Goto(c, "waiting")
  /\ UNCHANGED <<cli, sent, taken, files, tries, verdict, billed, disk, orphans, next>>

\* There is no such CLI: an outage; any other failure is not.
SpawnFails(c) ==
  /\ pc[c] = "spawning"
  /\ \E v \in {"unreachable", "other"} : Return(c, v)
  /\ UNCHANGED <<cli, childVars, tries, billed, orphans, next>>

----------------------------------------------------------------------------
(* The child and the streams.                                              *)

\* Claude's answer goes into a file, which takes everything.
ToFile(c, s) == s = "out" /\ cli[c] = "claude"

Put(c, s) ==
  /\ sent[c][s] < Size[s]
  /\ ToFile(c, s) \/ sent[c][s] - taken[c][s] < Room
  /\ sent' = [sent EXCEPT ![c][s] = @ + 1]
  /\ UNCHANGED <<pc, cli, child, taken, files, tries, verdict, billed, disk, orphans, next>>

Get(c, s) ==
  /\ taken[c][s] < sent[c][s]
  /\ taken' = [taken EXCEPT ![c][s] = @ + 1]
  /\ UNCHANGED <<pc, cli, child, sent, files, tries, verdict, billed, disk, orphans, next>>

\* The writer thread; the pipe breaks with the child.
WritePrompt(c) == child[c] = "running" /\ Put(c, "in")

\* Mutant: the pipes are read once the child has ended.
DrainLater(c) ==
  /\ child[c] = "ended"
  /\ \E s \in {"out", "err"} : ~ToFile(c, s) /\ Get(c, s)

\* The drain threads, until the pipe is empty and the child has ended.
Drain(c) == \E s \in {"out", "err"} : ~ToFile(c, s) /\ Get(c, s)

ReadPrompt(c) == child[c] = "running" /\ Get(c, "in")

PrintPiece(c) == child[c] = "running" /\ \E s \in {"out", "err"} : Put(c, s)

End(c) ==
  /\ child' = [child EXCEPT ![c] = "ended"]
  /\ UNCHANGED <<pc, cli, sent, taken, files, tries, verdict, billed, disk, orphans, next>>

\* A child that has read its prompt and printed everything ends ...
Finish(c) ==
  /\ child[c] = "running"
  /\ taken[c]["in"] = Size["in"] /\ \A s \in {"out", "err"} : sent[c][s] = Size[s]
  /\ End(c)

\* ... but it may end at any time.
Break(c) == child[c] = "running" /\ End(c)

----------------------------------------------------------------------------
(* The end of the run.                                                     *)

\* wait_timeout sees that the child has ended.
Notice(c) ==
  /\ pc[c] = "waiting"
  /\ child[c] = "ended"
  /\ Goto(c, "joining")
  /\ UNCHANGED <<cli, childVars, files, tries, verdict, billed, disk, orphans, next>>

\* Mutant: the child is not killed.
GiveUpOn(c) ==
  /\ pc[c] = "waiting"
  /\ child[c] = "running"
  /\ \E v \in {"unreachable", "other"} : Return(c, v)
  /\ UNCHANGED <<cli, childVars, tries, billed, orphans, next>>

\* The deadline passes, or the wait fails: the child is killed, which may have
\* ended just now, and nothing it printed is looked at.
Kill(c) ==
  /\ pc[c] = "waiting"
  /\ child' = [child EXCEPT ![c] = "ended"]
  /\ \E v \in {"unreachable", "other"} : Return(c, v)
  /\ UNCHANGED <<cli, sent, taken, tries, billed, orphans, next>>

\* The writer has ended with the child, and the drains at the end of their
\* pipes.
Joined(c) ==
  /\ child[c] = "ended"
  /\ \A s \in {"out", "err"} : ToFile(c, s) \/ taken[c][s] = sent[c][s]

\* A report of claude that is billed per token, wherever it says so.
Metered(out) == \/ \E i \in Typed(out, "init") : out[i].source # "none"
                \/ Overage(out)

\* What a whole output of each CLI can come to, and whether it is billed.
Fates == [verdict : Verdicts, billed : BOOLEAN]

ClaudeFates == {f \in Fates : \E out \in Outputs :
                  f.verdict \in Extracted(ClaudeVerdict(out)) /\ f.billed = Metered(out)}

GeminiFates == {f \in Fates : ~f.billed /\ \E out \in GeminiOutputs :
                  f.verdict \in Extracted(GeminiVerdict(out))}

WholeFates(c) == IF cli[c] = "claude" THEN ClaudeFates ELSE GeminiFates

\* Mutant: what was read of an output is taken for the whole.
CutIsWhole(c) == WholeFates(c)

\* An output that is cut, or no text, is no JSON, whatever it says: claude's
\* stops the request, gemini's goes by its wording.
CutFates(c) ==
  IF cli[c] = "claude" THEN {[verdict |-> "other", billed |-> FALSE]}
  ELSE {[verdict |-> GeminiVerdict(out), billed |-> FALSE] :
          out \in {o \in GeminiOutputs : ~o.json}}

\* The output is classified as far as it was read.
Classify(c) ==
  LET read == IF ToFile(c, "out") THEN sent[c]["out"] ELSE taken[c]["out"] IN
  /\ pc[c] = "joining"
  /\ Joined(c)
  /\ \E fate \in Fates :
       /\ \/ fate \in CutFates(c)
          \/ read = Size["out"] /\ fate \in WholeFates(c)
       /\ Return(c, fate.verdict)
       /\ billed' = [billed EXCEPT ![c] = fate.billed]
  /\ UNCHANGED <<cli, childVars, tries, orphans, next>>

\* The process ends and starts again: its calls and children are gone, its
\* files are not, and the numbers start again.
Restart ==
  LET Gone(c) == pc[c] \notin {"new", "returned"} IN
  /\ pc' = [c \in Calls |-> IF Gone(c) THEN "gone" ELSE pc[c]]
  /\ child' = [c \in Calls |-> IF child[c] = "running" THEN "ended" ELSE child[c]]
  /\ files' = [c \in Calls |-> {}]
  /\ orphans' = disk
  /\ next' = 0
  /\ UNCHANGED <<cli, sent, taken, tries, verdict, billed, disk>>

\* The adapter's own steps, and its threads'.
Adapter(c) == \/ Prepare(c) \/ Refuse(c) \/ Create(c) \/ Skip(c) \/ CreateFails(c)
              \/ Spawn(c) \/ SpawnFails(c) \/ Notice(c) \/ Classify(c)

Threads(c) == WritePrompt(c) \/ Drain(c)

\* A child that goes on as long as it is not blocked on a pipe.
Child(c) == ReadPrompt(c) \/ PrintPiece(c) \/ Finish(c)

Next == \/ \E c \in Calls : Adapter(c) \/ Threads(c) \/ Child(c) \/ Break(c) \/ Kill(c)
        \/ Restart

Spec == Init /\ [][Next]_vars

\* The adapter's threads run on; children and deadlines are left open.
AdaptersRunOn ==
  \A c \in Calls : /\ WF_vars(Adapter(c) /\ pc[c] # "new")
                   /\ WF_vars(WritePrompt(c))
                   /\ WF_vars(Drain(c))

----------------------------------------------------------------------------
(* What must hold.                                                         *)

\* A call only ever uses and removes files it made itself: no two calls share
\* one, and those an earlier process left, which may not be ours, stay (8.56).
FilesAreOurs ==
  /\ orphans \subseteq disk
  /\ \A c \in Calls : files[c] \subseteq disk \ orphans
  /\ \A c, d \in Calls : c # d => files[c] \cap files[d] = {}

\* A call that has returned, on whatever path, has left no child at work and
\* no prompt on the disk ("deleted when the call returns, answered or killed").
NothingIsLeft ==
  /\ \A c \in Calls : pc[c] = "returned" => child[c] # "running" /\ files[c] = {}
  /\ disk = orphans \cup UNION {files[c] : c \in Calls}

\* Together: whatever fails, breaks off or is restarted, a call removes all it
\* made and nothing else.
CallsCleanUp == FilesAreOurs /\ NothingIsLeft

\* An answer is the whole of what the CLI printed: a child that broke off, or
\* whose output was not read to its end, never makes one.
AnswersAreWhole ==
  \A c \in Calls : verdict[c] = "ok" =>
    /\ sent[c]["out"] = Size["out"]
    /\ ToFile(c, "out") \/ taken[c]["out"] = Size["out"]

\* What claude reports as billed per token stops its request: it is no answer,
\* and no outage that the next backend or the next request would hide.
MeteredStops ==
  \A c \in Calls : billed[c] => verdict[c] \in {"other", "tripwire"}

\* Full pipes block nobody for ever: a call returns if its child goes on as
\* far as the pipes let it, and also if it does not and the deadline passes.
EveryCallReturns ==
  (\A c \in Calls : WF_vars(Child(c)) \/ WF_vars(Kill(c))) =>
    \A c \in Calls : pc[c] # "new" ~> pc[c] \in {"returned", "gone"}
=============================================================================
