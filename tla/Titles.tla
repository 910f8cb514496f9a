------------------------------- MODULE Titles --------------------------------
(***************************************************************************)
(* cv/src/server.js: a job from its acceptance to the owner's log, with    *)
(* the title that can be given to it at any time.  The lanes it waits in   *)
(* are JobServer's.  What a tailoring leaves is its directory; jobs that   *)
(* an earlier run answers have the directory of that run.                  *)
(***************************************************************************)
EXTENDS Naturals

CONSTANTS TitleJobs,    \* the jobs
          Folders,      \* the directories of their runs
          Names,        \* titles that can be given
          Nothing       \* no directory, no title

VARIABLES phase,     \* job.status
          folder,    \* job.result.dir
          title,     \* job.title
          renamed,   \* job.renamed
          titleFile, \* title.txt of each directory
          lines,     \* the lines of each job in the owner's log
          unkept     \* jobs of which a title could not be written

titleVars == <<phase, folder, title, renamed, titleFile, lines, unkept>>

Over == {"done", "failed"}

TitlesTypeOK ==
  /\ phase \in [TitleJobs -> {"none", "queued", "running"} \cup Over]
  /\ folder \in [TitleJobs -> Folders \cup {Nothing}]
  /\ title \in [TitleJobs -> Names \cup {Nothing}]
  /\ renamed \subseteq TitleJobs /\ unkept \subseteq TitleJobs
  /\ titleFile \in [Folders -> Names \cup {Nothing}]
  /\ lines \in [TitleJobs -> Nat]

TitlesInit ==
  /\ phase = [j \in TitleJobs |-> "none"]
  /\ folder = [j \in TitleJobs |-> Nothing]
  /\ title = [j \in TitleJobs |-> Nothing]
  /\ renamed = {} /\ unkept = {}
  /\ titleFile = [d \in Folders |-> Nothing]
  /\ lines = [j \in TitleJobs |-> 0]

\* keepTitle succeeds: nothing to do before there is a directory.
Keeps(d, t) ==
  titleFile' = IF d = Nothing THEN titleFile ELSE [titleFile EXCEPT ![d] = t]

\* log: one line, or none when it cannot be written.
Logs(j) == \E n \in {0, 1} : lines' = [lines EXCEPT ![j] = @ + n]

\* POST /api/jobs: queued, with the name that was typed or without; or
\* answered at once from an earlier run.
Accept(j) ==
  /\ phase[j] = "none"
  /\ \E t \in Names : title' = [title EXCEPT ![j] = t]
  /\ \/ phase' = [phase EXCEPT ![j] = "queued"] /\ UNCHANGED <<folder, lines>>
     \/ \E k \in TitleJobs : /\ phase[k] \in Over /\ folder[k] # Nothing
                             /\ phase' = [phase EXCEPT ![j] = "done"]
                             /\ folder' = [folder EXCEPT ![j] = folder[k]]
                             /\ Logs(j)
  /\ UNCHANGED <<renamed, titleFile, unkept>>

StartJob(j) ==
  /\ phase[j] = "queued"
  /\ phase' = [phase EXCEPT ![j] = "running"]
  /\ UNCHANGED <<folder, title, renamed, titleFile, lines, unkept>>

\* Mutant: the title that a run was given meanwhile is not kept.
DoneAsNamed(j) == phase' = [phase EXCEPT ![j] = "done"] /\ UNCHANGED <<titleFile, unkept>>

\* The end of work's try: a title given meanwhile is kept, or the job fails.
Done(j) ==
  \/ /\ phase' = [phase EXCEPT ![j] = "done"]
     /\ IF j \in renamed THEN Keeps(folder'[j], title[j]) ELSE UNCHANGED titleFile
     /\ UNCHANGED unkept
  \/ /\ j \in renamed
     /\ phase' = [phase EXCEPT ![j] = "failed"]
     /\ unkept' = unkept \cup {j}
     /\ UNCHANGED titleFile

\* The tailoring has left a CV in a directory of its own.
Tailored(j) ==
  /\ phase[j] = "running"
  /\ \E d \in Folders : /\ \A k \in TitleJobs : folder[k] # d
                        /\ folder' = [folder EXCEPT ![j] = d]
  /\ Done(j)
  /\ Logs(j)
  /\ UNCHANGED <<title, renamed>>

TailoringFails(j) ==
  /\ phase[j] = "running"
  /\ phase' = [phase EXCEPT ![j] = "failed"]
  /\ Logs(j)
  /\ UNCHANGED <<folder, title, renamed, titleFile, unkept>>

\* POST /api/jobs/:id/title; the answer is 500 when the title is not kept.
Rename(j, t) ==
  /\ phase[j] # "none"
  /\ title' = [title EXCEPT ![j] = t]
  /\ renamed' = renamed \cup {j}
  /\ \/ Keeps(folder[j], t) /\ UNCHANGED unkept
     \/ folder[j] # Nothing /\ unkept' = unkept \cup {j} /\ UNCHANGED titleFile
  /\ UNCHANGED <<phase, folder, lines>>

TitlesNext ==
  \E j \in TitleJobs : \/ Accept(j) \/ StartJob(j) \/ Tailored(j) \/ TailoringFails(j)
                       \/ \E t \in Names : Rename(j, t)

TitlesSpec == TitlesInit /\ [][TitlesNext]_titleVars

----------------------------------------------------------------------------
(* What must hold.                                                         *)

\* A job that was renamed, whenever that was, has its title beside its CV
\* ("the name joins the run once it has a folder"), and it is called failed
\* with a CV only when that title could not be written.  Jobs of one folder
\* have one file between them: it is the title of one of those renamed.
TitlesAreKept ==
  \A j \in TitleJobs :
    /\ folder[j] # Nothing /\ j \in renamed
    => LET mates == {k \in renamed : folder[k] = folder[j]} IN
       mates \cap unkept # {} \/ titleFile[folder[j]] \in {title[k] : k \in mates}

\* A job is called failed although it has its CV only because of its title,
\* and each job that is over has at most one line in the log, none before.
JobsEndOnce ==
  \A j \in TitleJobs :
    /\ phase[j] = "failed" /\ folder[j] # Nothing => j \in unkept
    /\ lines[j] <= (IF phase[j] \in Over THEN 1 ELSE 0)

\* Both: what the visitor and the owner are told of a job that is over.
JobsAreTold == TitlesTypeOK /\ TitlesAreKept /\ JobsEndOnce
=============================================================================
