----------------------------- MODULE TailorRun ------------------------------
(***************************************************************************)
(* cv/src/run.js and pipeline.js, with the listing cache (listing.js), the *)
(* reuse of earlier runs (intake.js) and the replay (replay.js): one offer *)
(* becomes the files of a directory.                                       *)
(*                                                                         *)
(* The runs of a server share one event loop.  A run waits for the model,  *)
(* then for Word; what it does between two waits no other run interrupts,  *)
(* but the process may be killed between any two of its writes, or in the  *)
(* middle of one.  Files outlive the process.                              *)
(*                                                                         *)
(* A directory is named by the second the run began in and by the slug of  *)
(* its title, so it is the pair of them here.  What a file holds is the    *)
(* run that wrote it, with the layout for the two that have one.           *)
(***************************************************************************)
EXTENDS Naturals

CONSTANTS Runs,        \* the tailorings that may be asked for
          Offers,      \* the offers they are asked for
          Slug,        \* the slug of each offer's first line
          Profiles,    \* the profiles they are tailored to
          Asks,        \* what each run may be asked: offers and profiles
          Default,     \* DEFAULT_PROFILE
          None,        \* nothing, where there may be something
          Torn,        \* half of a file
          Seconds      \* bound: the seconds that pass, 1..Seconds

Dirs == (1..Seconds) \X {Slug[o] : o \in Offers}

\* What a file holds: who wrote it, and its layout.
Content == [by : Runs, fitted : BOOLEAN]

ASSUME TailorAssumption ==
         /\ \A r \in Runs : Asks[r] \subseteq Offers \X Profiles
         /\ Default \in Profiles
         /\ Seconds \in Nat \ {0}
         /\ None # Torn /\ {None, Torn} \cap Content = {}

\* The writes of a run with a valid analysis, in their order.
\* (analysis.json stands for raw.json too, which is written next and read by
\* the replay alone: what it holds is calls.)
Files == {"analysis.json", "cv.docx", "cv.pdf", "report.md", "offer.txt", "run.json"}

VARIABLES now,      \* the second on the clock
          pc,       \* what each run waits for, or the file it writes next
          job,      \* what it was asked: its offer and its profile
          dir,      \* its directory
          fitted,   \* whether the CV it writes is fitted to the page
          helper,   \* its layout engine: up, used, closed, stopped for not
                    \* answering, late when that was over the PDF
          cache,    \* the listing kept of each offer: none, half of one, a whole one
          file      \* the files of each directory

vars == <<now, pc, job, dir, fitted, helper, cache, file>>

NoJob == [offer |-> None, profile |-> None]

Attempts == {"attempt 1", "attempt 2"}

Awaits == {"listing", "starting", "measuring", "exporting"} \cup Attempts

Writes == {"analysis.json", "cv.docx", "fitted cv.docx",
           "report.md", "offer.txt", "run.json"}

Ended == {"done", "failed", "lost"}

TypeOK ==
  /\ now \in 1..Seconds
  /\ pc \in [Runs -> {"idle"} \cup Awaits \cup Writes \cup Ended]
  /\ job \in [Runs -> [offer : Offers, profile : Profiles] \cup {NoJob}]
  /\ dir \in [Runs -> Dirs \cup {<< >>}]
  /\ fitted \in [Runs -> BOOLEAN]
  /\ helper \in [Runs -> {"none", "up", "used", "closed", "stopped", "late", "outlived"}]
  /\ cache \in [Offers -> {"none", "cut", "kept"}]
  /\ file \in [Dirs -> [Files -> Content \cup {None, Torn}]]

Init ==
  /\ now = 1
  /\ pc = [r \in Runs |-> "idle"]
  /\ job = [r \in Runs |-> NoJob]
  /\ dir = [r \in Runs |-> << >>]
  /\ fitted = [r \in Runs |-> FALSE]
  /\ helper = [r \in Runs |-> "none"]
  /\ cache = [o \in Offers |-> "none"]
  /\ file = [d \in Dirs |-> [f \in Files |-> None]]

----------------------------------------------------------------------------
(* The event loop.                                                         *)

\* No other run is in the middle of what it does between two awaits.
HasLoop(r) == \A q \in Runs \ {r} : pc[q] \notin Writes

Goto(r, where) == pc' = [pc EXCEPT ![r] = where]

Tick ==
  /\ now < Seconds
  /\ now' = now + 1
  /\ UNCHANGED <<pc, job, dir, fitted, helper, cache, file>>

----------------------------------------------------------------------------
(* tailorOffer, up to the analysis.                                        *)

\* runName: the second, and the first line of the offer.
RunName(o) == <<now, Slug[o]>>

\* The profile is loaded, or refused; the listing is read from the cache, or
\* asked for.
Begin(r, o, p) ==
  /\ pc[r] = "idle" /\ HasLoop(r)
  /\ job' = [job EXCEPT ![r] = [offer |-> o, profile |-> p]]
  /\ dir' = [dir EXCEPT ![r] = RunName(o)]
  /\ \/ Goto(r, "failed")
     \/ Goto(r, IF cache[o] = "kept" THEN "attempt 1" ELSE "listing")
  /\ UNCHANGED <<now, fitted, helper, cache, file>>

\* The listing is answered.  One that cannot be read lists what the offer's
\* layout says; a cache that cannot be written is no cache.
Listed(r) ==
  /\ pc[r] = "listing" /\ HasLoop(r)
  /\ \E left \in {"kept", cache[job[r].offer]} :
       cache' = [cache EXCEPT ![job[r].offer] = left]
  /\ Goto(r, "attempt 1")
  /\ UNCHANGED <<now, job, dir, fitted, helper, file>>

\* complete() rejects: refused, out of time, cut, unreachable, or another
\* contract.  No answers ride on that error, those of a first attempt included.
CallFails(r) ==
  /\ pc[r] \in {"listing"} \cup Attempts /\ HasLoop(r)
  /\ Goto(r, "failed")
  /\ UNCHANGED <<now, job, dir, fitted, helper, cache, file>>

\* An analysis that normalises and validates, one that is told what was
\* wrong, or the second that is not valid either, kept for diagnosis.
Analysed(r) ==
  /\ pc[r] \in Attempts /\ HasLoop(r)
  /\ \/ Goto(r, "analysis.json")
     \/ pc[r] = "attempt 1" /\ Goto(r, "attempt 2")
     \/ pc[r] = "attempt 2" /\ Goto(r, "failed")
  /\ UNCHANGED <<now, job, dir, fitted, helper, cache, file>>

----------------------------------------------------------------------------
(* The writes.                                                             *)

\* What a run does once it has written w.
After(w) ==
  CASE w = "analysis.json"  -> "starting"
    [] w = "cv.docx"        -> "report.md"
    [] w = "fitted cv.docx" -> "exporting"
    [] w = "report.md"      -> "offer.txt"
    [] w = "offer.txt"      -> "run.json"
    [] w = "run.json"       -> "done"

NameOf(w) == IF w = "fitted cv.docx" THEN "cv.docx" ELSE w

\* writeCv's finally: word.close(), which a helper that is gone ignores.
Closed(r) == IF helper[r] \in {"up", "used"} THEN [helper EXCEPT ![r] = "closed"] ELSE helper

Written(r) ==
  /\ pc[r] \in Writes
  /\ file' = [file EXCEPT ![dir[r]][NameOf(pc[r])] = [by |-> r, fitted |-> fitted[r]]]
  /\ Goto(r, After(pc[r]))
  /\ helper' = IF pc[r] = "cv.docx" THEN Closed(r) ELSE helper
  /\ UNCHANGED <<now, job, dir, fitted, cache>>

\* Mutant: a PDF that Word had begun stays.
KeepPdf(files, r) == files

\* rmSync(pdf, { force: true })
DropPdf(files, r) == [files EXCEPT ![dir[r]]["cv.pdf"] = None]

\* Mutant: what Word could not lay out is started all over.
LaidOutAgain(r) ==
  /\ Goto(r, "starting")
  /\ fitted' = [fitted EXCEPT ![r] = FALSE]

\* The CV as without layout, when laying it out failed.
Unfitted(r) ==
  /\ Goto(r, "cv.docx")
  /\ fitted' = [fitted EXCEPT ![r] = FALSE]

\* The disk is full: what was to be written may be there in part.  Only the
\* fitted CV is given up for a plain one.
WriteFails(r) ==
  /\ pc[r] \in Writes
  /\ \E left \in {file[dir[r]][NameOf(pc[r])], Torn} :
       LET cut == [file EXCEPT ![dir[r]][NameOf(pc[r])] = left] IN
       file' = IF pc[r] = "fitted cv.docx" THEN DropPdf(cut, r) ELSE cut
  /\ IF pc[r] = "fitted cv.docx"
       THEN Unfitted(r) /\ UNCHANGED helper
       ELSE /\ Goto(r, "failed")
            /\ helper' = IF pc[r] = "cv.docx" THEN Closed(r) ELSE helper
            /\ UNCHANGED fitted
  /\ UNCHANGED <<now, job, dir, cache>>

----------------------------------------------------------------------------
(* writeCv: the layout engine.                                             *)

\* None on this machine, or one that has started; its directory for what it
\* lays out can be made, or the run fails at once.
LayoutStarts(r) ==
  /\ pc[r] = "starting" /\ HasLoop(r)
  /\ \/ Goto(r, "cv.docx") /\ UNCHANGED helper
     \/ \E where \in {"measuring", "failed"} : /\ Goto(r, where)
                                                /\ helper' = [helper EXCEPT ![r] = "up"]
  /\ UNCHANGED <<now, job, dir, fitted, cache, file>>

\* fitToPage asks for a length, and for another one, until it knows how many
\* bullets fit (FitToPage: finitely many).
Measured(r) ==
  /\ pc[r] = "measuring" /\ HasLoop(r)
  /\ helper' = [helper EXCEPT ![r] = "used"]
  /\ \E enough \in BOOLEAN :
       /\ fitted' = [fitted EXCEPT ![r] = enough]
       /\ Goto(r, IF enough THEN "fitted cv.docx" ELSE "measuring")
  /\ UNCHANGED <<now, job, dir, cache, file>>

Pdf(r) == [file EXCEPT ![dir[r]]["cv.pdf"] = [by |-> r, fitted |-> TRUE]]

\* The PDF is there; its text is read as an ATS would, or that is skipped.
Exported(r) ==
  /\ pc[r] = "exporting" /\ HasLoop(r)
  /\ file' = Pdf(r)
  /\ helper' = Closed(r)
  /\ Goto(r, "report.md")
  /\ UNCHANGED <<now, job, dir, fitted, cache>>

\* Word answers with an error, dies, or is stopped for not answering, with or
\* without a PDF already there.  One that is stopped may be in the middle of
\* the PDF and live a little longer.
WordFails(r) ==
  /\ pc[r] \in {"measuring", "exporting"} /\ HasLoop(r)
  /\ file' = DropPdf(IF pc[r] = "exporting" THEN Pdf(r) ELSE file, r)
  /\ Unfitted(r)
  /\ \E how \in {"used", "stopped", "late"} :
       /\ how = "late" => pc[r] = "exporting"
       /\ helper' = [helper EXCEPT ![r] = how]
  /\ UNCHANGED <<now, job, dir, cache>>

\* rmSync throws: over a PDF that Word had begun when it failed, or over the
\* scratch directory, when the PDF or the plain CV is there.  The engine has
\* been closed or stopped, and the run fails with the files it has.
RemovalFails(r) ==
  /\ HasLoop(r)
  /\ \/ /\ pc[r] = "exporting"
        /\ file' = Pdf(r)
        /\ \E how \in {"closed", "stopped", "late"} : helper' = [helper EXCEPT ![r] = how]
     \/ /\ pc[r] = "cv.docx" /\ helper[r] # "none"
        /\ file' = [file EXCEPT ![dir[r]]["cv.docx"] = [by |-> r, fitted |-> fitted[r]]]
        /\ helper' = Closed(r)
  /\ Goto(r, "failed")
  /\ UNCHANGED <<now, job, dir, fitted, cache>>

\* killTree does not wait: the PDF may come after all, or not.
LateHelper(r) ==
  /\ helper[r] = "late"
  /\ \/ /\ helper' = [helper EXCEPT ![r] = "outlived"]
        /\ file' = Pdf(r)
     \/ /\ helper' = [helper EXCEPT ![r] = "stopped"]
        /\ UNCHANGED file
  /\ UNCHANGED <<now, pc, job, dir, fitted, cache>>

----------------------------------------------------------------------------
(* The process is killed: runs are forgotten, a file or the cache may be   *)
(* cut in the middle of its write, and the helpers' input ends.            *)

Crash ==
  /\ pc' = [r \in Runs |-> IF pc[r] \in {"idle"} \cup Ended THEN pc[r] ELSE "lost"]
  /\ helper' = [r \in Runs |-> IF helper[r] \in {"up", "used"} THEN "closed" ELSE helper[r]]
  /\ \/ UNCHANGED <<file, cache>>
     \/ \E r \in Runs : /\ pc[r] \in Writes
                        /\ file' = [file EXCEPT ![dir[r]][NameOf(pc[r])] = Torn]
                        /\ UNCHANGED cache
     \/ \E r \in Runs : /\ pc[r] = "listing"
                        /\ cache' = [cache EXCEPT ![job[r].offer] = "cut"]
                        /\ UNCHANGED file
  /\ UNCHANGED <<now, job, dir, fitted>>

Step(r) ==
  \/ Listed(r) \/ CallFails(r) \/ Analysed(r)
  \/ Written(r) \/ WriteFails(r)
  \/ LayoutStarts(r) \/ Measured(r) \/ Exported(r) \/ WordFails(r)
  \/ RemovalFails(r)

Next == \/ Tick
        \/ Crash
        \/ \E r \in Runs : \/ Step(r)
                           \/ LateHelper(r)
                           \/ \E ask \in Asks[r] : Begin(r, ask[1], ask[2])

Spec == Init /\ [][Next]_vars

\* Calls of the model and requests to Word have deadlines; writes return; a
\* CV is fitted in finitely many measures.
FairSpec == Spec /\ \A r \in Runs : WF_vars(Step(r))

----------------------------------------------------------------------------
(* What is read back.                                                      *)

Whole(d, f) == file[d][f] \notin {None, Torn}

\* Mutant: loadRuns does not ask for the PDF.
LoadedWithoutPdf(d) == file[d]["offer.txt"] # None /\ file[d]["analysis.json"] # None

\* loadRuns: the runs that saved their offer, with an analysis and a PDF.
Loaded(d) ==
  /\ file[d]["offer.txt"] # None /\ file[d]["analysis.json"] # None
  /\ file[d]["cv.pdf"] # None

\* profileOf: what run.json says, the owner's where it says nothing.
ProfileOf(d) == IF Whole(d, "run.json") THEN job[file[d]["run.json"].by].profile ELSE Default

\* The directories findReusable chooses from; half an offer may still be
\* close enough.
Reusable(o) ==
  {d \in Dirs : /\ Loaded(d)
                /\ ProfileOf(d) = Default
                /\ file[d]["offer.txt"] = Torn \/ job[file[d]["offer.txt"].by].offer = o}

----------------------------------------------------------------------------
(* What must hold.                                                         *)

\* The loop is free: whoever reads the directories finds no run in between
\* two writes.
Quiet == \A r \in Runs : pc[r] \notin Writes

\* Two runs of one second whose offers begin alike have one directory.
Shared(d) == \E q, r \in Runs : q # r /\ dir[q] = d /\ dir[r] = d

\* What an offer is answered with (intake.js, readRun) is one run's whole
\* work, whatever was killed or failed before: the analysis, the CV, its PDF
\* and the report are all there, uncut, of the run whose offer it is, and of
\* the owner's profile ("another profile's run is never an answer") unless
\* the run was killed before it said whose.
ReusedIsWhole ==
  TypeOK /\ (Quiet => \A o \in Offers : \A d \in Reusable(o) :
    Shared(d) \/ \E r \in Runs :
      /\ dir[r] = d
      /\ job[r].offer = o \/ file[d]["offer.txt"] = Torn
      /\ job[r].profile = Default \/ ~Whole(d, "run.json")
      /\ \A f \in {"analysis.json", "cv.docx", "cv.pdf", "report.md"} :
           Whole(d, f) /\ file[d][f].by = r)

\* A run's PDF shows the CV of its docx: when Word failed there is none
\* (writeCv removes it), unless the helper that was stopped over this very
\* PDF lived on and wrote it.
PdfIsOfItsDocx ==
  \A r \in Runs :
    LET d == dir[r] IN
    /\ pc[r] = "done" /\ ~Shared(d) /\ file[d]["cv.pdf"] # None
    => \/ file[d]["cv.docx"].fitted
       \/ helper[r] = "outlived"

\* The layout engine of a run is closed, or was stopped: only a run that could
\* not even make the scratch directory leaves one behind.
EngineIsClosed(r) == helper[r] # "used" /\ (helper[r] = "up" => pc[r] = "failed")

\* A run that was begun ends, with its CV, with an error or with the process,
\* whatever the model and Word do; and however it ends, its engine is closed.
EveryTailoringEnds ==
  \A r \in Runs : pc[r] # "idle" ~> pc[r] \in Ended /\ EngineIsClosed(r)
=============================================================================
