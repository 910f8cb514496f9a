--------------------------- MODULE TailorRunProofs ---------------------------
(***************************************************************************)
(* Proofs about TailorRun, for any tailorings of any offers, as many at    *)
(* once as there are, and any number of seconds.                           *)
(***************************************************************************)
EXTENDS TailorRun, TLAPS

----------------------------------------------------------------------------
(* The inductive invariant.                                                *)

Early == {"idle", "listing", "analysis.json"} \cup Attempts

Laying == {"measuring", "fitted cv.docx", "exporting"}

\* The files a run has written for good at stage s, ...
Behind(s) ==
  CASE s \in {"starting", "measuring", "fitted cv.docx", "cv.docx"} -> {"analysis.json"}
    [] s \in {"exporting", "report.md"} -> {"analysis.json", "cv.docx"}
    [] s = "offer.txt" -> {"analysis.json", "cv.docx", "report.md"}
    [] s = "run.json"  -> {"analysis.json", "cv.docx", "report.md", "offer.txt"}
    [] OTHER           -> {}

\* ... and those it has not begun.
Ahead(s) ==
  CASE s \in Early        -> Files
    [] s \in {"starting", "measuring", "fitted cv.docx"} -> Files \ {"analysis.json"}
    [] s = "exporting"    -> {"cv.pdf", "report.md", "offer.txt", "run.json"}
    [] s \in {"cv.docx", "report.md"} -> {"report.md", "offer.txt", "run.json"}
    [] s = "offer.txt"    -> {"offer.txt", "run.json"}
    [] s = "run.json"     -> {"run.json"}
    [] OTHER              -> {}

ContentOf(r) == [by : {r}, fitted : BOOLEAN]

\* The files F of a directory are those of run r alone, which is at stage s
\* with its engine h: each is there only if what is written before it is
\* whole, and a PDF shows the fitted CV or came late.
FilesAreInOrder(r, s, h, F) ==
  /\ F \in [Files -> ContentOf(r) \cup {None, Torn}]
  /\ \A f \in Behind(s) : F[f] \in ContentOf(r)
  /\ \A f \in Ahead(s) : F[f] = None
  /\ F["cv.docx"] # None => F["analysis.json"] \in ContentOf(r)
  /\ F["report.md"] # None => {F["analysis.json"], F["cv.docx"]} \subseteq ContentOf(r)
  /\ F["offer.txt"] # None => {F["analysis.json"], F["cv.docx"], F["report.md"]} \subseteq ContentOf(r)
  /\ F["cv.pdf"] # Torn
  /\ s = "exporting" => F["cv.docx"].fitted
  /\ s = "cv.docx" => F["cv.pdf"] = None \/ h = "outlived"
  /\ s \in {"report.md", "offer.txt", "run.json", "done"} /\ F["cv.pdf"] # None
       => F["cv.docx"].fitted \/ h = "outlived"

\* A run has a directory, and a layout engine when it gets that far.
RunsAreWhereTheySay ==
  \A r \in Runs : /\ dir[r] \in Dirs <=> pc[r] # "idle"
                  /\ pc[r] \in Early \cup {"starting"} => helper[r] = "none"
                  /\ pc[r] \in Laying => helper[r] \in {"up", "used"}
                  /\ pc[r] = "fitted cv.docx" => fitted[r]

IInv ==
  /\ TypeOK
  /\ RunsAreWhereTheySay
  /\ \A d \in Dirs : (\A r \in Runs : dir[r] # d) => \A f \in Files : file[d][f] = None
  /\ \A r \in Runs : pc[r] # "idle" /\ ~Shared(dir[r])
                     => FilesAreInOrder(r, pc[r], helper[r], file[dir[r]])

Helpers == {"none", "up", "used", "closed", "stopped", "late", "outlived"}

\* What each stage has behind it and ahead of it.
LEMMA StageFiles ==
  /\ \A s \in Early : Behind(s) = {} /\ Ahead(s) = Files
  /\ \A s \in {"starting", "measuring", "fitted cv.docx"} :
       Behind(s) = {"analysis.json"} /\ Ahead(s) = Files \ {"analysis.json"}
  /\ Behind("cv.docx") = {"analysis.json"}
  /\ Ahead("cv.docx") = {"report.md", "offer.txt", "run.json"}
  /\ Behind("exporting") = {"analysis.json", "cv.docx"}
  /\ Ahead("exporting") = {"cv.pdf", "report.md", "offer.txt", "run.json"}
  /\ Behind("report.md") = {"analysis.json", "cv.docx"}
  /\ Ahead("report.md") = {"report.md", "offer.txt", "run.json"}
  /\ Behind("offer.txt") = {"analysis.json", "cv.docx", "report.md"}
  /\ Ahead("offer.txt") = {"offer.txt", "run.json"}
  /\ Behind("run.json") = {"analysis.json", "cv.docx", "report.md", "offer.txt"}
  /\ Ahead("run.json") = {"run.json"}
  /\ \A s \in Ended : Behind(s) = {} /\ Ahead(s) = {}
BY DEF Early, Attempts, Ended, Behind, Ahead

\* A directory that two runs do not share belongs to one.
LEMMA OneRunEach ==
  ASSUME NEW q \in Runs, NEW r \in Runs, q # r, ~Shared(dir[r])
  PROVE  dir[q] # dir[r]
BY DEF Shared

\* A run that has begun goes on in its own directory.
LEMMA RunStep ==
  ASSUME IInv, NEW q \in Runs, NEW s, NEW h, NEW t, NEW F,
         pc[q] # "idle",
         pc' = [pc EXCEPT ![q] = s], helper' = [helper EXCEPT ![q] = h],
         fitted' = [fitted EXCEPT ![q] = t], file' = [file EXCEPT ![dir[q]] = F],
         cache' \in [Offers -> {"none", "cut", "kept"}], UNCHANGED <<now, job, dir>>,
         s \in Awaits \cup Writes \cup Ended, h \in Helpers, t \in BOOLEAN,
         F \in [Files -> Content \cup {None, Torn}],
         s \in Early \cup {"starting"} => h = "none",
         s \in Laying => h \in {"up", "used"},
         s = "fitted cv.docx" => t,
         ~Shared(dir[q]) => FilesAreInOrder(q, s, h, F)
  PROVE  IInv'
<1>1. /\ TypeOK /\ RunsAreWhereTheySay
      /\ \A d \in Dirs : (\A r \in Runs : dir[r] # d) => \A f \in Files : file[d][f] = None
      /\ \A r \in Runs : pc[r] # "idle" /\ ~Shared(dir[r])
                         => FilesAreInOrder(r, pc[r], helper[r], file[dir[r]])
  BY DEF IInv
<1>2. s # "idle"
  BY DEF Awaits, Attempts, Writes, Ended
<1>3. dir[q] \in Dirs
  BY <1>1 DEF RunsAreWhereTheySay
<1>4. /\ pc \in [Runs -> {"idle"} \cup Awaits \cup Writes \cup Ended]
      /\ helper \in [Runs -> Helpers] /\ fitted \in [Runs -> BOOLEAN]
      /\ file \in [Dirs -> [Files -> Content \cup {None, Torn}]]
  BY <1>1 DEF TypeOK, Helpers
<1>5. TypeOK'
  <2>1. pc' \in [Runs -> {"idle"} \cup Awaits \cup Writes \cup Ended]
    BY <1>4
  <2>2. helper' \in [Runs -> Helpers]
    BY <1>4
  <2>3. fitted' \in [Runs -> BOOLEAN]
    BY <1>4
  <2>4. file' \in [Dirs -> [Files -> Content \cup {None, Torn}]]
    BY <1>4
  <2>5. /\ now' \in 1..Seconds
        /\ job' \in [Runs -> [offer : Offers, profile : Profiles] \cup {NoJob}]
        /\ dir' \in [Runs -> Dirs \cup {<< >>}]
    BY <1>1 DEF TypeOK
  <2> QED BY <2>1, <2>2, <2>3, <2>4, <2>5 DEF TypeOK, Helpers
<1>6. RunsAreWhereTheySay'
  <2> SUFFICES ASSUME NEW r \in Runs
               PROVE  /\ dir'[r] \in Dirs <=> pc'[r] # "idle"
                      /\ pc'[r] \in Early \cup {"starting"} => helper'[r] = "none"
                      /\ pc'[r] \in Laying => helper'[r] \in {"up", "used"}
                      /\ pc'[r] = "fitted cv.docx" => fitted'[r]
    BY DEF RunsAreWhereTheySay
  <2>1. CASE r = q
    BY <1>2, <1>3, <1>4, <2>1
  <2>2. CASE r # q
    <3>1. pc'[r] = pc[r] /\ helper'[r] = helper[r] /\ fitted'[r] = fitted[r] /\ dir'[r] = dir[r]
      BY <1>4, <2>2
    <3> QED BY <1>1, <3>1 DEF RunsAreWhereTheySay
  <2> QED BY <2>1, <2>2
<1>7. ASSUME NEW d \in Dirs, \A r \in Runs : dir'[r] # d, NEW f \in Files
      PROVE  file'[d][f] = None
  <2>1. d # dir[q] /\ file'[d] = file[d]
    BY <1>4, <1>7
  <2> QED BY <1>1, <1>7, <2>1
<1>8. ASSUME NEW r \in Runs, pc'[r] # "idle", ~Shared(dir[r])
      PROVE  FilesAreInOrder(r, pc'[r], helper'[r], file'[dir[r]])
  <2>1. CASE r = q
    BY <1>3, <1>4, <1>8, <2>1
  <2>2. CASE r # q
    <3>1. pc'[r] = pc[r] /\ helper'[r] = helper[r]
      BY <1>4, <2>2
    <3>2. dir[q] # dir[r] /\ dir[r] \in Dirs
      BY <1>1, <1>8, <2>2, <3>1, OneRunEach DEF RunsAreWhereTheySay
    <3>3. file'[dir[r]] = file[dir[r]]
      BY <1>4, <3>2
    <3> QED BY <1>1, <1>8, <3>1, <3>3
  <2> QED BY <2>1, <2>2
<1>9. \A r \in Runs : Shared(dir[r])' <=> Shared(dir[r])
  BY DEF Shared
<1>10. \A r \in Runs : pc'[r] # "idle" /\ ~Shared(dir[r])'
                       => FilesAreInOrder(r, pc'[r], helper'[r], file'[dir'[r]])
  BY <1>8, <1>9
<1> QED BY <1>5, <1>6, <1>7, <1>10 DEF IInv

\* A step that only moves a run on, with the files it has.
LEMMA PlainStep ==
  ASSUME IInv, NEW q \in Runs, NEW s, NEW h, NEW t,
         pc[q] # "idle",
         pc' = [pc EXCEPT ![q] = s], helper' = [helper EXCEPT ![q] = h],
         fitted' = [fitted EXCEPT ![q] = t], UNCHANGED file,
         cache' \in [Offers -> {"none", "cut", "kept"}], UNCHANGED <<now, job, dir>>,
         s \in Awaits \cup Writes \cup Ended, h \in Helpers, t \in BOOLEAN,
         s \in Early \cup {"starting"} => h = "none",
         s \in Laying => h \in {"up", "used"},
         s = "fitted cv.docx" => t,
         ~Shared(dir[q]) => FilesAreInOrder(q, s, h, file[dir[q]])
  PROVE  IInv'
<1> DEFINE F == file[dir[q]]
<1>1. dir[q] \in Dirs /\ file \in [Dirs -> [Files -> Content \cup {None, Torn}]]
  BY DEF IInv, RunsAreWhereTheySay, TypeOK
<1>2. F \in [Files -> Content \cup {None, Torn}] /\ file' = [file EXCEPT ![dir[q]] = F]
  BY <1>1
<1> HIDE DEF F
<1>3. ~Shared(dir[q]) => FilesAreInOrder(q, s, h, F)
  BY DEF F
<1> QED BY <1>2, <1>3, RunStep

\* The same files will do at another stage that asks no more of them.
LEMMA SameFiles ==
  ASSUME NEW r, NEW s, NEW h, NEW F, FilesAreInOrder(r, s, h, F), NEW t, NEW g,
         Behind(t) \subseteq Behind(s), Ahead(t) \subseteq Ahead(s),
         t = "exporting" => F["cv.docx"].fitted,
         t = "cv.docx" => F["cv.pdf"] = None \/ g = "outlived",
         t \in {"report.md", "offer.txt", "run.json", "done"} /\ F["cv.pdf"] # None
           => F["cv.docx"].fitted \/ g = "outlived"
  PROVE  FilesAreInOrder(r, t, g, F)
BY DEF FilesAreInOrder

\* What is known of a run that has begun.
LEMMA StageOf ==
  ASSUME IInv, NEW r \in Runs
  PROVE  /\ pc \in [Runs -> {"idle"} \cup Awaits \cup Writes \cup Ended]
         /\ helper \in [Runs -> Helpers] /\ fitted \in [Runs -> BOOLEAN]
         /\ file \in [Dirs -> [Files -> Content \cup {None, Torn}]]
         /\ cache \in [Offers -> {"none", "cut", "kept"}]
         /\ pc[r] # "idle" => dir[r] \in Dirs
         /\ pc[r] \in Early \cup {"starting"} => helper[r] = "none"
         /\ pc[r] \in Laying => helper[r] \in {"up", "used"}
         /\ pc[r] = "fitted cv.docx" => fitted[r]
         /\ pc[r] # "idle" /\ ~Shared(dir[r])
              => FilesAreInOrder(r, pc[r], helper[r], file[dir[r]])
BY DEF IInv, TypeOK, RunsAreWhereTheySay, Helpers

----------------------------------------------------------------------------
(* Up to the layout.                                                       *)

LEMMA EarlyStep ==
  ASSUME IInv, NEW r \in Runs, Listed(r) \/ CallFails(r) \/ Analysed(r)
  PROVE  IInv'
<1>1. /\ pc[r] \in Early \ {"idle"}
      /\ \E s \in (Early \ {"idle"}) \cup {"failed"} : pc' = [pc EXCEPT ![r] = s]
      /\ UNCHANGED <<now, job, dir, fitted, helper, file>>
      /\ cache' \in [Offers -> {"none", "cut", "kept"}]
  BY StageOf DEF Listed, CallFails, Analysed, Goto, Early, Attempts
<1>2. PICK s \in (Early \ {"idle"}) \cup {"failed"} : pc' = [pc EXCEPT ![r] = s]
  BY <1>1
<1>3. /\ s \in Awaits \cup Writes \cup Ended /\ s \notin Laying /\ s # "fitted cv.docx"
      /\ s \notin {"exporting", "cv.docx", "report.md", "offer.txt", "run.json", "done"}
  BY DEF Early, Attempts, Awaits, Writes, Ended, Laying
<1>4. /\ pc[r] # "idle" /\ helper[r] = "none" /\ helper[r] \in Helpers /\ fitted[r] \in BOOLEAN
      /\ helper' = [helper EXCEPT ![r] = helper[r]] /\ fitted' = [fitted EXCEPT ![r] = fitted[r]]
  BY <1>1, StageOf
<1>5. Behind(s) \subseteq Behind(pc[r]) /\ Ahead(s) \subseteq Ahead(pc[r])
  <2>1. Behind(pc[r]) = {} /\ Ahead(pc[r]) = Files
    BY <1>1, StageFiles
  <2>2. Behind(s) = {} /\ Ahead(s) \subseteq Files
    BY StageFiles DEF Ended
  <2> QED BY <2>1, <2>2
<1>6. ~Shared(dir[r]) => FilesAreInOrder(r, s, helper[r], file[dir[r]])
  <2> SUFFICES ASSUME ~Shared(dir[r]) PROVE FilesAreInOrder(r, s, helper[r], file[dir[r]])
    OBVIOUS
  <2>1. FilesAreInOrder(r, pc[r], helper[r], file[dir[r]])
    BY <1>4, StageOf
  <2> QED BY <1>3, <1>5, <2>1, SameFiles
<1> QED BY <1>1, <1>2, <1>3, <1>4, <1>6, PlainStep

LEMMA LayoutStep ==
  ASSUME IInv, NEW r \in Runs, LayoutStarts(r) \/ Measured(r)
  PROVE  IInv'
<1>1. PICK s \in {"cv.docx", "measuring", "fitted cv.docx", "failed"},
           h \in {"none", "up", "used"}, t \in BOOLEAN :
        /\ pc' = [pc EXCEPT ![r] = s] /\ helper' = [helper EXCEPT ![r] = h]
        /\ fitted' = [fitted EXCEPT ![r] = t]
        /\ h = "none" => s = "cv.docx"
        /\ s = "fitted cv.docx" => t
  <2>1. CASE LayoutStarts(r)
    <3>1. helper[r] = "none" /\ helper' \in {helper, [helper EXCEPT ![r] = "up"]}
      BY <2>1, StageOf DEF LayoutStarts
    <3>2. fitted' = [fitted EXCEPT ![r] = fitted[r]] /\ fitted[r] \in BOOLEAN
      BY <2>1, StageOf DEF LayoutStarts
    <3>3. CASE Goto(r, "cv.docx") /\ UNCHANGED helper
      <4>1. helper' = [helper EXCEPT ![r] = "none"] /\ pc' = [pc EXCEPT ![r] = "cv.docx"]
        BY <3>1, <3>3, StageOf DEF Goto
      <4> QED BY <3>2, <4>1
    <3>4. CASE \E where \in {"measuring", "failed"} :
                 Goto(r, where) /\ helper' = [helper EXCEPT ![r] = "up"]
      BY <3>2, <3>4 DEF Goto
    <3> QED BY <2>1, <3>3, <3>4 DEF LayoutStarts
  <2>2. CASE Measured(r)
    BY <2>2 DEF Measured, Goto
  <2> QED BY <2>1, <2>2
<1>2. /\ pc[r] \in {"starting", "measuring"} /\ UNCHANGED <<now, job, dir, cache, file>>
      /\ s \in Awaits \cup Writes \cup Ended /\ h \in Helpers
      /\ s \notin Early \cup {"starting"} /\ (s \in Laying => h \in {"up", "used"})
      /\ s \notin {"exporting", "report.md", "offer.txt", "run.json", "done"}
  BY <1>1 DEF LayoutStarts, Measured, Early, Attempts, Awaits, Writes, Ended, Helpers, Laying
<1>3. Behind(s) \subseteq Behind(pc[r]) /\ Ahead(s) \subseteq Ahead(pc[r])
  <2>1. Behind(pc[r]) = {"analysis.json"} /\ Ahead(pc[r]) = Files \ {"analysis.json"}
    BY <1>2, StageFiles
  <2>2. Behind(s) \subseteq {"analysis.json"}
    BY StageFiles DEF Ended
  <2>3. CASE s = "cv.docx"
    <3>1. Ahead(s) \subseteq Files \ {"analysis.json"}
      BY <2>3, StageFiles DEF Files
    <3> QED BY <2>1, <2>2, <3>1
  <2>4. CASE s \in {"measuring", "fitted cv.docx"}
    BY <2>1, <2>2, <2>4, StageFiles
  <2>5. CASE s = "failed"
    <3>1. Ahead(s) = {}
      BY <2>5, StageFiles DEF Ended
    <3> QED BY <2>1, <2>2, <3>1
  <2> QED BY <2>3, <2>4, <2>5
<1>4. ~Shared(dir[r]) => FilesAreInOrder(r, s, h, file[dir[r]])
  <2> SUFFICES ASSUME ~Shared(dir[r]) PROVE FilesAreInOrder(r, s, h, file[dir[r]])
    OBVIOUS
  <2>1. FilesAreInOrder(r, pc[r], helper[r], file[dir[r]])
    BY <1>2, StageOf
  <2>2. file[dir[r]]["cv.pdf"] = None
    <3>1. "cv.pdf" \in Ahead(pc[r])
      BY <1>2, StageFiles DEF Files
    <3> QED BY <2>1, <3>1 DEF FilesAreInOrder
  <2> QED BY <1>2, <1>3, <2>1, <2>2, SameFiles
<1>5. cache' \in [Offers -> {"none", "cut", "kept"}] /\ pc[r] # "idle"
  BY <1>2, StageOf
<1> QED BY <1>1, <1>2, <1>4, <1>5, PlainStep

----------------------------------------------------------------------------
(* The writes.                                                             *)

\* A file more, in its order.
LEMMA WrittenInOrder ==
  ASSUME NEW r, NEW s \in Writes, NEW h, NEW g, NEW F, FilesAreInOrder(r, s, h, F),
         NEW c \in ContentOf(r), s = "fitted cv.docx" => c.fitted,
         h = "outlived" => g = "outlived"
  PROVE  FilesAreInOrder(r, After(s), g, [F EXCEPT ![NameOf(s)] = c])
<1>1. CASE s = "analysis.json"
  <2>1. After(s) = "starting" /\ NameOf(s) = "analysis.json" /\ s \in Early
    BY <1>1 DEF After, NameOf, Early
  <2> DEFINE G == [F EXCEPT !["analysis.json"] = c]
  <2>2. F \in [Files -> ContentOf(r) \cup {None, Torn}] /\ \A f \in Files : F[f] = None
    BY <2>1, StageFiles DEF FilesAreInOrder
  <2>3. /\ G \in [Files -> ContentOf(r) \cup {None, Torn}] /\ G["analysis.json"] = c
        /\ \A f \in Files \ {"analysis.json"} : G[f] = None
    BY <2>2 DEF Files
  <2>4. Behind("starting") = {"analysis.json"} /\ Ahead("starting") = Files \ {"analysis.json"}
    BY StageFiles
  <2>5. /\ {"cv.docx", "cv.pdf", "report.md", "offer.txt"} \subseteq Files \ {"analysis.json"}
        /\ None # Torn
    BY TailorAssumption DEF Files
  <2> HIDE DEF G
  <2>6. FilesAreInOrder(r, "starting", g, G)
    BY <2>3, <2>4, <2>5 DEF FilesAreInOrder
  <2> QED BY <2>1, <2>6 DEF G
<1>2. CASE s = "cv.docx"
  <2>1. After(s) = "report.md" /\ NameOf(s) = "cv.docx"
    BY <1>2 DEF After, NameOf
  <2> QED BY <1>2, <2>1, StageFiles DEF FilesAreInOrder, ContentOf, Files
<1>3. CASE s = "fitted cv.docx"
  <2>1. After(s) = "exporting" /\ NameOf(s) = "cv.docx"
    BY <1>3 DEF After, NameOf
  <2> QED BY <1>3, <2>1, StageFiles DEF FilesAreInOrder, ContentOf, Files
<1>4. CASE s = "report.md"
  <2>1. After(s) = "offer.txt" /\ NameOf(s) = "report.md"
    BY <1>4 DEF After, NameOf
  <2> QED BY <1>4, <2>1, StageFiles DEF FilesAreInOrder, ContentOf, Files
<1>5. CASE s = "offer.txt"
  <2>1. After(s) = "run.json" /\ NameOf(s) = "offer.txt"
    BY <1>5 DEF After, NameOf
  <2>2. Behind("run.json") = {"analysis.json", "cv.docx", "report.md", "offer.txt"}
    BY StageFiles
  <2>3. Ahead("run.json") = {"run.json"}
    BY StageFiles
  <2>4. Ahead(s) = {"offer.txt", "run.json"} /\ Behind(s) = {"analysis.json", "cv.docx", "report.md"}
    BY <1>5, StageFiles
  <2> QED BY <1>5, <2>1, <2>2, <2>3, <2>4 DEF FilesAreInOrder, Files
<1>6. CASE s = "run.json"
  <2>1. After(s) = "done" /\ NameOf(s) = "run.json" /\ After(s) \in Ended
    BY <1>6 DEF After, NameOf, Ended
  <2> QED BY <1>6, <2>1, StageFiles DEF FilesAreInOrder, ContentOf, Files
<1> QED BY <1>1, <1>2, <1>3, <1>4, <1>5, <1>6 DEF Writes

\* Half a file, of a run that ends there.
LEMMA TornInOrder ==
  ASSUME NEW r, NEW s \in Writes, NEW h, NEW g, NEW F, FilesAreInOrder(r, s, h, F),
         NEW left \in {F[NameOf(s)], Torn}, NEW t \in {"failed", "lost"}
  PROVE  FilesAreInOrder(r, t, g, [F EXCEPT ![NameOf(s)] = left])
<1>1. Behind(t) = {} /\ Ahead(t) = {}
  BY StageFiles DEF Ended
<1>2. CASE s = "analysis.json"
  <2>1. NameOf(s) = "analysis.json" /\ s \in Early
    BY <1>2 DEF NameOf, Early
  <2> DEFINE G == [F EXCEPT !["analysis.json"] = left]
  <2>2. F \in [Files -> ContentOf(r) \cup {None, Torn}] /\ \A f \in Files : F[f] = None
    BY <2>1, StageFiles DEF FilesAreInOrder
  <2>3. /\ G \in [Files -> ContentOf(r) \cup {None, Torn}]
        /\ \A f \in Files \ {"analysis.json"} : G[f] = None
    BY <2>1, <2>2 DEF Files
  <2>4. /\ {"cv.docx", "cv.pdf", "report.md", "offer.txt"} \subseteq Files \ {"analysis.json"}
        /\ None # Torn
    BY TailorAssumption DEF Files
  <2> HIDE DEF G
  <2>5. FilesAreInOrder(r, t, g, G)
    BY <1>1, <2>3, <2>4 DEF FilesAreInOrder
  <2> QED BY <2>1, <2>5 DEF G
<1>3. CASE s = "cv.docx"
  <2>1. NameOf(s) = "cv.docx"
    BY <1>3 DEF NameOf
  <2> QED BY <1>1, <1>3, <2>1, StageFiles DEF FilesAreInOrder, ContentOf, Files
<1>4. CASE s = "fitted cv.docx"
  <2>1. NameOf(s) = "cv.docx"
    BY <1>4 DEF NameOf
  <2> QED BY <1>1, <1>4, <2>1, StageFiles DEF FilesAreInOrder, ContentOf, Files
<1>5. CASE s = "report.md"
  <2>1. NameOf(s) = "report.md"
    BY <1>5 DEF NameOf
  <2> QED BY <1>1, <1>5, <2>1, StageFiles DEF FilesAreInOrder, ContentOf, Files
<1>6. CASE s = "offer.txt"
  <2>1. NameOf(s) = "offer.txt"
    BY <1>6 DEF NameOf
  <2>2. Behind(s) = {"analysis.json", "cv.docx", "report.md"}
    BY <1>6, StageFiles
  <2> QED BY <1>1, <1>6, <2>1, <2>2 DEF FilesAreInOrder, Files
<1>7. CASE s = "run.json"
  <2>1. NameOf(s) = "run.json"
    BY <1>7 DEF NameOf
  <2> QED BY <1>1, <1>7, <2>1, StageFiles DEF FilesAreInOrder, ContentOf, Files
<1> QED BY <1>2, <1>3, <1>4, <1>5, <1>6, <1>7 DEF Writes

\* The file a stage writes is one of the files, and what is in it is a run's.
LEMMA FileNames ==
  ASSUME NEW s \in Writes
  PROVE  /\ NameOf(s) \in Files /\ s # "idle"
         /\ After(s) \in Awaits \cup Writes \cup Ended
         /\ After(s) \notin Early /\ After(s) # "fitted cv.docx"
         /\ After(s) \in Laying => s = "fitted cv.docx"
         /\ After(s) = "starting" => s \in Early
BY DEF Writes, NameOf, After, Files, Early, Attempts, Laying, Awaits, Ended

LEMMA WrittenStep ==
  ASSUME IInv, NEW r \in Runs, Written(r)
  PROVE  IInv'
<1> DEFINE s == pc[r]
           c == [by |-> r, fitted |-> fitted[r]]
           F == file[dir[r]]
           G == [F EXCEPT ![NameOf(s)] = c]
           h == IF s = "cv.docx" /\ helper[r] \in {"up", "used"} THEN "closed" ELSE helper[r]
<1>1. /\ s \in Writes /\ pc' = [pc EXCEPT ![r] = After(s)]
      /\ file' = [file EXCEPT ![dir[r]] = G]
      /\ UNCHANGED <<now, job, dir, cache>> /\ fitted' = [fitted EXCEPT ![r] = fitted[r]]
      /\ helper' = [helper EXCEPT ![r] = h]
  <2>1. file' = [file EXCEPT ![dir[r]][NameOf(s)] = c]
    BY DEF Written
  <2>2. helper' = IF s = "cv.docx" THEN Closed(r) ELSE helper
    BY DEF Written
  <2>3. helper' = [helper EXCEPT ![r] = h]
    BY <2>2, StageOf DEF Closed
  <2>4. fitted' = [fitted EXCEPT ![r] = fitted[r]]
    BY StageOf DEF Written
  <2> QED BY <2>1, <2>3, <2>4 DEF Written, Goto
<1>2. /\ NameOf(s) \in Files /\ s # "idle" /\ After(s) \in Awaits \cup Writes \cup Ended
      /\ After(s) \notin Early /\ After(s) # "fitted cv.docx"
      /\ After(s) \in Laying => s = "fitted cv.docx"
      /\ After(s) = "starting" => s \in Early
  BY <1>1, FileNames
<1>3. /\ helper[r] \in Helpers /\ fitted[r] \in BOOLEAN /\ F \in [Files -> Content \cup {None, Torn}]
      /\ s \in Early => helper[r] = "none"
      /\ s \in Laying => helper[r] \in {"up", "used"}
      /\ s = "fitted cv.docx" => fitted[r]
      /\ ~Shared(dir[r]) => FilesAreInOrder(r, s, helper[r], F)
      /\ cache \in [Offers -> {"none", "cut", "kept"}]
  BY <1>2, StageOf
<1>4. c \in ContentOf(r) /\ c \in Content /\ (s = "fitted cv.docx" => c.fitted)
  BY <1>3 DEF ContentOf, Content
<1>5. G \in [Files -> Content \cup {None, Torn}]
  BY <1>3, <1>4
<1>6. /\ h \in Helpers /\ (After(s) = "starting" => h = "none")
      /\ After(s) \in Laying => h \in {"up", "used"}
      /\ helper[r] = "outlived" => h = "outlived"
  <2>1. h \in Helpers
    BY <1>3 DEF Helpers
  <2>2. ASSUME After(s) = "starting" PROVE h = "none"
    BY <1>2, <1>3, <2>2
  <2>3. ASSUME After(s) \in Laying PROVE h \in {"up", "used"}
    BY <1>2, <1>3, <2>3 DEF Laying
  <2> QED BY <2>1, <2>2, <2>3
<1> HIDE DEF s, c, h, F
<1>7. ~Shared(dir[r]) => FilesAreInOrder(r, After(s), h, G)
  BY <1>1, <1>3, <1>4, <1>6, WrittenInOrder
<1> HIDE DEF G
<1>8. pc[r] # "idle" /\ cache' \in [Offers -> {"none", "cut", "kept"}]
  BY <1>1, <1>2, <1>3 DEF s
<1> QED BY <1>1, <1>2, <1>3, <1>5, <1>6, <1>7, <1>8, RunStep

\* A layout that is given up leaves no PDF.
LEMMA UnfittedInOrder ==
  ASSUME NEW r, NEW s \in Laying, NEW h, NEW g, NEW F, FilesAreInOrder(r, s, h, F),
         NEW left \in {F["cv.docx"], Torn}
  PROVE  FilesAreInOrder(r, "cv.docx", g, [F EXCEPT !["cv.docx"] = left, !["cv.pdf"] = None])
<1> DEFINE G == [F EXCEPT !["cv.docx"] = left, !["cv.pdf"] = None]
<1>1. F \in [Files -> ContentOf(r) \cup {None, Torn}] /\ F["analysis.json"] \in ContentOf(r)
  <2>1. "analysis.json" \in Behind(s)
    BY StageFiles DEF Laying
  <2> QED BY <2>1 DEF FilesAreInOrder
<1>2. F["report.md"] = None /\ F["offer.txt"] = None /\ F["run.json"] = None
  <2>1. {"report.md", "offer.txt", "run.json"} \subseteq Ahead(s)
    BY StageFiles DEF Laying, Files
  <2> QED BY <2>1 DEF FilesAreInOrder
<1>3. /\ G \in [Files -> ContentOf(r) \cup {None, Torn}] /\ G["analysis.json"] \in ContentOf(r)
      /\ G["report.md"] = None /\ G["offer.txt"] = None /\ G["run.json"] = None
      /\ G["cv.pdf"] = None /\ None # Torn
  BY <1>1, <1>2, TailorAssumption DEF Files
<1> HIDE DEF G
<1>4. FilesAreInOrder(r, "cv.docx", g, G)
  BY <1>3, StageFiles DEF FilesAreInOrder
<1> QED BY <1>4 DEF G

LEMMA WriteFailsStep ==
  ASSUME IInv, NEW r \in Runs, WriteFails(r)
  PROVE  IInv'
<1> DEFINE s == pc[r]
           F == file[dir[r]]
           h == IF s = "cv.docx" /\ helper[r] \in {"up", "used"} THEN "closed" ELSE helper[r]
<1>1. s \in Writes /\ NameOf(s) \in Files /\ s # "idle" /\ dir[r] \in Dirs
  BY FileNames, StageOf DEF WriteFails
<1>2. /\ helper[r] \in Helpers /\ fitted[r] \in BOOLEAN /\ F \in [Files -> Content \cup {None, Torn}]
      /\ file \in [Dirs -> [Files -> Content \cup {None, Torn}]]
      /\ s \in Laying => helper[r] \in {"up", "used"}
      /\ ~Shared(dir[r]) => FilesAreInOrder(r, s, helper[r], F)
      /\ cache \in [Offers -> {"none", "cut", "kept"}]
  BY <1>1, StageOf
<1>3. PICK left \in {F[NameOf(s)], Torn} :
        LET cut == [file EXCEPT ![dir[r]][NameOf(s)] = left] IN
        file' = IF s = "fitted cv.docx" THEN DropPdf(cut, r) ELSE cut
  BY DEF WriteFails
<1>4. UNCHANGED <<now, job, dir, cache>>
  BY DEF WriteFails
<1>5. CASE s = "fitted cv.docx"
  <2> DEFINE G == [F EXCEPT !["cv.docx"] = left, !["cv.pdf"] = None]
  <2>1. NameOf(s) = "cv.docx"
    BY <1>5 DEF NameOf
  <2>2. file' = [file EXCEPT ![dir[r]] = G]
    BY <1>1, <1>2, <1>3, <1>5, <2>1 DEF DropPdf
  <2>3. /\ pc' = [pc EXCEPT ![r] = "cv.docx"] /\ fitted' = [fitted EXCEPT ![r] = FALSE]
        /\ helper' = [helper EXCEPT ![r] = helper[r]]
    BY <1>5, StageOf DEF WriteFails, Unfitted, Goto
  <2>4. G \in [Files -> Content \cup {None, Torn}]
    BY <1>2, <1>3, <2>1 DEF Files
  <2>5. ~Shared(dir[r]) => FilesAreInOrder(r, "cv.docx", helper[r], G)
    <3> SUFFICES ASSUME ~Shared(dir[r]) PROVE FilesAreInOrder(r, "cv.docx", helper[r], G)
      OBVIOUS
    <3>1. FilesAreInOrder(r, s, helper[r], F) /\ s \in Laying /\ left \in {F["cv.docx"], Torn}
      BY <1>2, <1>3, <1>5, <2>1 DEF Laying
    <3> HIDE DEF s, F
    <3> QED BY <3>1, UnfittedInOrder
  <2>6. /\ "cv.docx" \in Awaits \cup Writes \cup Ended
        /\ "cv.docx" \notin Early \cup {"starting"} /\ "cv.docx" \notin Laying
    BY DEF Writes, Early, Attempts, Laying
  <2> DEFINE t == FALSE
             g == helper[r]
             u == "cv.docx"
  <2>7. t \in BOOLEAN /\ fitted' = [fitted EXCEPT ![r] = t]
    BY <2>3
  <2>8. /\ pc[r] # "idle" /\ pc' = [pc EXCEPT ![r] = u] /\ helper' = [helper EXCEPT ![r] = g]
        /\ u \in Awaits \cup Writes \cup Ended /\ g \in Helpers
        /\ u \notin Early \cup {"starting"} /\ u \notin Laying /\ u # "fitted cv.docx"
        /\ ~Shared(dir[r]) => FilesAreInOrder(r, u, g, G)
        /\ cache' \in [Offers -> {"none", "cut", "kept"}]
    BY <1>1, <1>2, <1>4, <2>3, <2>5, <2>6
  <2> HIDE DEF G, t, g, u
  <2> QED BY <1>4, <2>2, <2>4, <2>7, <2>8, RunStep
<1>6. CASE s # "fitted cv.docx"
  <2> DEFINE G == [F EXCEPT ![NameOf(s)] = left]
  <2>1. file' = [file EXCEPT ![dir[r]] = G]
    BY <1>1, <1>2, <1>3, <1>6
  <2>2. /\ pc' = [pc EXCEPT ![r] = "failed"] /\ fitted' = [fitted EXCEPT ![r] = fitted[r]]
        /\ helper' = [helper EXCEPT ![r] = h]
    BY <1>6, StageOf DEF WriteFails, Goto, Closed
  <2>3. G \in [Files -> Content \cup {None, Torn}]
    BY <1>1, <1>2, <1>3
  <2>4. ~Shared(dir[r]) => FilesAreInOrder(r, "failed", h, G)
    <3> SUFFICES ASSUME ~Shared(dir[r]) PROVE FilesAreInOrder(r, "failed", h, G)
      OBVIOUS
    <3>1. FilesAreInOrder(r, s, helper[r], F)
      BY <1>2
    <3> HIDE DEF s, F, h
    <3> QED BY <1>1, <1>3, <3>1, TornInOrder
  <2>5. /\ "failed" \in Awaits \cup Writes \cup Ended /\ h \in Helpers
        /\ "failed" \notin Early \cup {"starting"} /\ "failed" \notin Laying
    BY <1>2 DEF Ended, Early, Attempts, Laying, Helpers
  <2> HIDE DEF G, h
  <2> QED BY <1>1, <1>2, <1>4, <2>1, <2>2, <2>3, <2>4, <2>5, RunStep
<1> QED BY <1>5, <1>6

----------------------------------------------------------------------------
(* Word.                                                                   *)

\* A PDF that comes when the fitted CV is there, or too late.
LEMMA PdfInOrder ==
  ASSUME NEW r \in Runs, NEW s, NEW h, NEW F, FilesAreInOrder(r, s, h, F), NEW t, NEW g,
         \/ s = "exporting" /\ t = "report.md"
         \/ g = "outlived" /\ t = s /\ s \notin Early \cup {"starting"} \cup Laying /\ "cv.pdf" \notin Ahead(s)
  PROVE  FilesAreInOrder(r, t, g, [F EXCEPT !["cv.pdf"] = [by |-> r, fitted |-> TRUE]])
<1> DEFINE c == [by |-> r, fitted |-> TRUE]
           G == [F EXCEPT !["cv.pdf"] = c]
<1>1. c \in ContentOf(r) /\ c # Torn
  <2>1. c \in Content /\ c \in ContentOf(r)
    BY DEF Content, ContentOf
  <2> QED BY <2>1, TailorAssumption
<1> HIDE DEF c
<1>2. F \in [Files -> ContentOf(r) \cup {None, Torn}]
  BY DEF FilesAreInOrder
<1>3. /\ G \in [Files -> ContentOf(r) \cup {None, Torn}] /\ G["cv.pdf"] = c
      /\ \A f \in Files \ {"cv.pdf"} : G[f] = F[f]
      /\ \A f \in {"analysis.json", "cv.docx", "report.md", "offer.txt", "run.json"} : G[f] = F[f]
  BY <1>1, <1>2 DEF Files
<1>4. "cv.pdf" \notin Ahead(t) /\ Behind(t) \subseteq Behind(s) /\ Ahead(t) \subseteq Ahead(s)
  <2>1. CASE s = "exporting" /\ t = "report.md"
    BY <2>1, StageFiles
  <2>2. CASE t = s /\ "cv.pdf" \notin Ahead(s)
    BY <2>2
  <2> QED BY <2>1, <2>2
<1>5. Behind(s) \subseteq {"analysis.json", "cv.docx", "report.md", "offer.txt"} /\ Ahead(t) \subseteq Files
  BY DEF Behind, Ahead, Files
<1>6. \A f \in Behind(t) : G[f] \in ContentOf(r)
  BY <1>3, <1>4, <1>5 DEF FilesAreInOrder
<1>7. \A f \in Ahead(t) : G[f] = None
  BY <1>3, <1>4, <1>5 DEF FilesAreInOrder
<1>8. t # "exporting" /\ (t = "cv.docx" => g = "outlived")
  BY DEF Laying
<1>9. G["cv.docx"].fitted \/ g = "outlived"
  BY <1>3 DEF FilesAreInOrder
<1> HIDE DEF G
<1>10. FilesAreInOrder(r, t, g, G)
  BY <1>1, <1>3, <1>6, <1>7, <1>8, <1>9 DEF FilesAreInOrder
<1> QED BY <1>10 DEF G, c

LEMMA ExportedStep ==
  ASSUME IInv, NEW r \in Runs, Exported(r)
  PROVE  IInv'
<1> DEFINE F == file[dir[r]]
           c == [by |-> r, fitted |-> TRUE]
           G == [F EXCEPT !["cv.pdf"] = c]
           u == "report.md"
           g == IF helper[r] \in {"up", "used"} THEN "closed" ELSE helper[r]
           t == fitted[r]
<1>1. pc[r] = "exporting" /\ pc[r] # "idle" /\ UNCHANGED <<now, job, dir>>
  BY DEF Exported
<1>2. /\ helper[r] \in Helpers /\ t \in BOOLEAN /\ F \in [Files -> Content \cup {None, Torn}]
      /\ file \in [Dirs -> [Files -> Content \cup {None, Torn}]] /\ dir[r] \in Dirs
      /\ ~Shared(dir[r]) => FilesAreInOrder(r, "exporting", helper[r], F)
  BY <1>1, StageOf
<1>3. c \in Content
  BY DEF Content
<1>4. file' = [file EXCEPT ![dir[r]] = G] /\ G \in [Files -> Content \cup {None, Torn}]
  BY <1>2, <1>3 DEF Exported, Pdf
<1>5. /\ pc' = [pc EXCEPT ![r] = u] /\ helper' = [helper EXCEPT ![r] = g]
      /\ fitted' = [fitted EXCEPT ![r] = t] /\ cache' \in [Offers -> {"none", "cut", "kept"}]
  BY StageOf DEF Exported, Goto, Closed
<1>6. /\ u \in Awaits \cup Writes \cup Ended /\ g \in Helpers
      /\ u \notin Early \cup {"starting"} /\ u \notin Laying /\ u # "fitted cv.docx"
  BY <1>2 DEF Writes, Early, Attempts, Laying, Helpers
<1>7. ~Shared(dir[r]) => FilesAreInOrder(r, u, g, G)
  BY <1>2, PdfInOrder
<1> HIDE DEF G, u, g, t
<1> QED BY <1>1, <1>2, <1>4, <1>5, <1>6, <1>7, RunStep

LEMMA WordFailsStep ==
  ASSUME IInv, NEW r \in Runs, WordFails(r)
  PROVE  IInv'
<1> DEFINE F == file[dir[r]]
           G == [F EXCEPT !["cv.pdf"] = None]
           u == "cv.docx"
           t == FALSE
<1>1. pc[r] \in {"measuring", "exporting"} /\ pc[r] # "idle" /\ UNCHANGED <<now, job, dir>>
  BY DEF WordFails
<1>2. /\ F \in [Files -> Content \cup {None, Torn}]
      /\ file \in [Dirs -> [Files -> Content \cup {None, Torn}]] /\ dir[r] \in Dirs
      /\ ~Shared(dir[r]) => FilesAreInOrder(r, pc[r], helper[r], F)
  BY <1>1, StageOf
<1>3. PICK g \in Helpers : helper' = [helper EXCEPT ![r] = g]
  BY DEF WordFails, Helpers
<1>4. file' = [file EXCEPT ![dir[r]] = G] /\ G \in [Files -> Content \cup {None, Torn}]
  <2>1. file' = DropPdf(IF pc[r] = "exporting" THEN Pdf(r) ELSE file, r)
    BY DEF WordFails
  <2>2. CASE pc[r] = "exporting"
    <3>1. file' = [Pdf(r) EXCEPT ![dir[r]]["cv.pdf"] = None]
      BY <2>1, <2>2 DEF DropPdf
    <3> QED BY <1>2, <3>1 DEF Pdf
  <2>3. CASE pc[r] # "exporting"
    BY <1>2, <2>1, <2>3 DEF DropPdf
  <2> QED BY <2>2, <2>3
<1>5. /\ pc' = [pc EXCEPT ![r] = u] /\ fitted' = [fitted EXCEPT ![r] = t]
      /\ t \in BOOLEAN /\ cache' \in [Offers -> {"none", "cut", "kept"}]
  BY StageOf DEF WordFails, Unfitted, Goto
<1>6. /\ u \in Awaits \cup Writes \cup Ended
      /\ u \notin Early \cup {"starting"} /\ u \notin Laying /\ u # "fitted cv.docx"
  BY DEF Writes, Early, Attempts, Laying
<1>7. ~Shared(dir[r]) => FilesAreInOrder(r, u, g, G)
  <2> SUFFICES ASSUME ~Shared(dir[r]) PROVE FilesAreInOrder(r, u, g, G)
    OBVIOUS
  <2>1. FilesAreInOrder(r, pc[r], helper[r], F) /\ pc[r] \in Laying
    BY <1>1, <1>2 DEF Laying
  <2> DEFINE s == pc[r]
             h == helper[r]
             left == F["cv.docx"]
  <2>2. G = [F EXCEPT !["cv.docx"] = left, !["cv.pdf"] = None]
    BY <1>2 DEF Files
  <2>3. FilesAreInOrder(r, s, h, F) /\ s \in Laying /\ left \in {F["cv.docx"], Torn}
    BY <2>1
  <2> HIDE DEF F, G, s, h, left
  <2>4. FilesAreInOrder(r, "cv.docx", g, [F EXCEPT !["cv.docx"] = left, !["cv.pdf"] = None])
    BY <2>3, UnfittedInOrder
  <2>5. FilesAreInOrder(r, "cv.docx", g, G)
    BY <2>2, <2>4, Zenon
  <2> QED BY <2>5 DEF u
<1> HIDE DEF G, u, t
<1> QED BY <1>1, <1>2, <1>3, <1>4, <1>5, <1>6, <1>7, RunStep

LEMMA RemovalFailsStep ==
  ASSUME IInv, NEW r \in Runs, RemovalFails(r)
  PROVE  IInv'
<1> DEFINE F == file[dir[r]]
           c == [by |-> r, fitted |-> TRUE]
           b == [by |-> r, fitted |-> fitted[r]]
           G == [F EXCEPT !["cv.pdf"] = c]
           H == [F EXCEPT !["cv.docx"] = b]
           u == "failed"
           t == fitted[r]
<1>1. /\ pc[r] \in {"exporting", "cv.docx"} /\ pc[r] # "idle"
      /\ UNCHANGED <<now, job, dir>>
  BY DEF RemovalFails
<1>2. /\ helper[r] \in Helpers /\ t \in BOOLEAN /\ F \in [Files -> Content \cup {None, Torn}]
      /\ file \in [Dirs -> [Files -> Content \cup {None, Torn}]] /\ dir[r] \in Dirs
      /\ ~Shared(dir[r]) => FilesAreInOrder(r, pc[r], helper[r], F)
  BY <1>1, StageOf
<1>3. c \in Content /\ b \in Content /\ b \in ContentOf(r)
  BY <1>2 DEF Content, ContentOf
<1>4. /\ pc' = [pc EXCEPT ![r] = u] /\ fitted' = [fitted EXCEPT ![r] = t]
      /\ cache' \in [Offers -> {"none", "cut", "kept"}]
  BY StageOf DEF RemovalFails, Goto
<1>5. /\ u \in Awaits \cup Writes \cup Ended
      /\ u \notin Early \cup {"starting"} /\ u \notin Laying /\ u # "fitted cv.docx"
      /\ u \notin {"exporting", "cv.docx", "report.md", "offer.txt", "run.json", "done"}
  BY DEF Ended, Early, Attempts, Laying
<1>6. Behind(u) = {} /\ Ahead(u) = {}
  BY StageFiles DEF Ended
<1>7. CASE pc[r] = "exporting"
  <2>1. PICK g \in Helpers : helper' = [helper EXCEPT ![r] = g]
    BY <1>7 DEF RemovalFails, Helpers
  <2>2. file' = [file EXCEPT ![dir[r]] = G] /\ G \in [Files -> Content \cup {None, Torn}]
    BY <1>2, <1>3, <1>7 DEF RemovalFails, Pdf
  <2>3. ~Shared(dir[r]) => FilesAreInOrder(r, u, g, G)
    <3> SUFFICES ASSUME ~Shared(dir[r]) PROVE FilesAreInOrder(r, u, g, G)
      OBVIOUS
    <3> DEFINE h == helper[r]
    <3>1. FilesAreInOrder(r, "exporting", h, F)
      BY <1>2, <1>7
    <3> HIDE DEF F, h, u
    <3>2. FilesAreInOrder(r, "report.md", g, G)
      BY <3>1, PdfInOrder
    <3> HIDE DEF G
    <3> QED BY <1>5, <1>6, <3>2, SameFiles
  <2> HIDE DEF G, u, t
  <2> QED BY <1>1, <1>2, <1>4, <1>5, <2>1, <2>2, <2>3, RunStep
<1>8. CASE pc[r] = "cv.docx"
  <2> DEFINE g == IF helper[r] \in {"up", "used"} THEN "closed" ELSE helper[r]
  <2>1. helper' = [helper EXCEPT ![r] = g] /\ g \in Helpers
    <3>1. helper' = Closed(r) /\ helper \in [Runs -> Helpers]
      BY <1>8, StageOf DEF RemovalFails
    <3>2. helper' = [helper EXCEPT ![r] = g]
      BY <3>1 DEF Closed
    <3> QED BY <1>2, <3>2 DEF Helpers
  <2>2. file' = [file EXCEPT ![dir[r]] = H] /\ H \in [Files -> Content \cup {None, Torn}]
    BY <1>2, <1>3, <1>8 DEF RemovalFails
  <2>3. helper[r] = "outlived" => g = "outlived"
    OBVIOUS
  <2>4. ~Shared(dir[r]) => FilesAreInOrder(r, u, g, H)
    <3> SUFFICES ASSUME ~Shared(dir[r]) PROVE FilesAreInOrder(r, u, g, H)
      OBVIOUS
    <3> DEFINE h == helper[r]
    <3>1. FilesAreInOrder(r, "cv.docx", h, F) /\ (h = "outlived" => g = "outlived")
      BY <1>2, <1>8, <2>3
    <3>2. /\ "cv.docx" \in Writes /\ NameOf("cv.docx") = "cv.docx"
          /\ After("cv.docx") = "report.md"
      BY DEF Writes, NameOf, After
    <3> HIDE DEF F, h, g, b, u
    <3>3. FilesAreInOrder(r, After("cv.docx"), g, [F EXCEPT ![NameOf("cv.docx")] = b])
      BY <1>3, <3>1, <3>2, WrittenInOrder
    <3>4. FilesAreInOrder(r, "report.md", g, H)
      BY <3>2, <3>3
    <3> HIDE DEF H
    <3> QED BY <1>5, <1>6, <3>4, SameFiles
  <2> HIDE DEF H, g, u, t
  <2> QED BY <1>1, <1>2, <1>4, <1>5, <2>1, <2>2, <2>4, RunStep
<1> QED BY <1>1, <1>7, <1>8

LEMMA LateHelperStep ==
  ASSUME IInv, NEW r \in Runs, LateHelper(r)
  PROVE  IInv'
<1> DEFINE s == pc[r]
           F == file[dir[r]]
           t == fitted[r]
<1>1. helper[r] = "late" /\ UNCHANGED <<now, pc, job, dir, fitted, cache>>
  BY DEF LateHelper
<1>2. s \notin Early \cup {"starting"} /\ s \notin Laying /\ s # "idle" /\ s # "fitted cv.docx"
  BY <1>1, StageOf DEF Early, Laying
<1>3. /\ t \in BOOLEAN /\ F \in [Files -> Content \cup {None, Torn}]
      /\ file \in [Dirs -> [Files -> Content \cup {None, Torn}]] /\ dir[r] \in Dirs
      /\ ~Shared(dir[r]) => FilesAreInOrder(r, s, "late", F)
      /\ s \in Awaits \cup Writes \cup Ended
      /\ pc' = [pc EXCEPT ![r] = s] /\ fitted' = [fitted EXCEPT ![r] = t]
      /\ cache' \in [Offers -> {"none", "cut", "kept"}]
  BY <1>1, <1>2, StageOf
<1> HIDE DEF s, t
<1>4. CASE helper' = [helper EXCEPT ![r] = "outlived"] /\ file' = Pdf(r)
  <2> DEFINE c == [by |-> r, fitted |-> TRUE]
             G == [F EXCEPT !["cv.pdf"] = c]
             g == "outlived"
  <2>1. c \in Content
    BY DEF Content
  <2>2. file' = [file EXCEPT ![dir[r]] = G] /\ G \in [Files -> Content \cup {None, Torn}]
    BY <1>3, <1>4, <2>1 DEF Pdf
  <2>3. "cv.pdf" \notin Ahead(s)
    <3>1. s \in {"cv.docx", "report.md", "offer.txt", "run.json"} \cup Ended
      <4>1. s \notin Awaits
        BY <1>2 DEF Awaits, Early, Laying, Attempts
      <4>2. s \in Writes \cup Ended
        BY <1>3, <4>1
      <4> QED BY <1>2, <4>2 DEF Writes, Early, Laying
    <3>2. Ahead(s) \subseteq {"report.md", "offer.txt", "run.json"}
      <4>1. CASE s \in Ended
        BY <4>1, StageFiles
      <4>2. CASE s \notin Ended
        BY <3>1, <4>2, StageFiles
      <4> QED BY <4>1, <4>2
    <3> QED BY <3>2
  <2>4. ~Shared(dir[r]) => FilesAreInOrder(r, s, g, G)
    BY <1>2, <1>3, <2>3, PdfInOrder
  <2>5. helper' = [helper EXCEPT ![r] = g] /\ g \in Helpers
    BY <1>4 DEF Helpers
  <2>6. pc[r] # "idle"
    BY <1>2 DEF s
  <2> HIDE DEF G, g, c
  <2> QED BY <1>1, <1>2, <1>3, <2>2, <2>4, <2>5, <2>6, RunStep
<1>5. CASE helper' = [helper EXCEPT ![r] = "stopped"] /\ UNCHANGED file
  <2> DEFINE g == "stopped"
  <2>1. ~Shared(dir[r]) => FilesAreInOrder(r, s, g, F)
    <3> SUFFICES ASSUME ~Shared(dir[r]) PROVE FilesAreInOrder(r, s, g, F)
      OBVIOUS
    <3>1. FilesAreInOrder(r, s, "late", F)
      BY <1>3
    <3>2. s # "exporting"
      BY <1>2 DEF Laying
    <3> QED BY <3>1, <3>2 DEF FilesAreInOrder
  <2>2. helper' = [helper EXCEPT ![r] = g] /\ g \in Helpers
    BY <1>5 DEF Helpers
  <2>3. pc[r] # "idle"
    BY <1>2 DEF s
  <2> HIDE DEF g
  <2> QED BY <1>1, <1>2, <1>3, <1>5, <2>1, <2>2, <2>3, PlainStep
<1> QED BY <1>4, <1>5 DEF LateHelper

----------------------------------------------------------------------------
(* Beginnings and ends.                                                    *)

LEMMA TupleIsNoDir == << >> \notin Dirs
<1>1. ASSUME << >> \in Dirs PROVE FALSE
  <2>1. PICK a \in 1..Seconds, b \in {Slug[o] : o \in Offers} : << >> = <<a, b>>
    BY <1>1 DEF Dirs
  <2> QED BY <2>1
<1> QED BY <1>1

\* A run that begins has a new directory, or shares one.
LEMMA BeginStep ==
  ASSUME IInv, NEW q \in Runs, NEW o \in Offers, NEW p \in Profiles, Begin(q, o, p)
  PROVE  IInv'
<1> DEFINE d0 == RunName(o)
<1>1. /\ TypeOK /\ RunsAreWhereTheySay
      /\ \A d \in Dirs : (\A r \in Runs : dir[r] # d) => \A f \in Files : file[d][f] = None
  BY DEF IInv
<1>2. PICK s \in (Early \ {"idle"}) \cup {"failed"} : pc' = [pc EXCEPT ![q] = s]
  BY DEF Begin, Goto, Early, Attempts
<1>3. /\ pc[q] = "idle" /\ dir' = [dir EXCEPT ![q] = d0]
      /\ job' = [job EXCEPT ![q] = [offer |-> o, profile |-> p]]
      /\ UNCHANGED <<now, fitted, helper, cache, file>>
  BY DEF Begin
<1>4. d0 \in Dirs
  BY <1>1 DEF RunName, Dirs, TypeOK
<1>5. s \in Awaits \cup Writes \cup Ended /\ s # "idle" /\ s \notin {"starting"} \cup Laying
  BY DEF Early, Attempts, Awaits, Writes, Ended, Laying
<1>6. dir \in [Runs -> Dirs \cup {<< >>}] /\ pc \in [Runs -> {"idle"} \cup Awaits \cup Writes \cup Ended]
  BY <1>1 DEF TypeOK
<1> HIDE DEF d0
<1>7. /\ dir' \in [Runs -> Dirs \cup {<< >>}] /\ dir'[q] = d0 /\ pc'[q] = s /\ helper[q] = "none"
      /\ \A r \in Runs \ {q} : dir'[r] = dir[r] /\ pc'[r] = pc[r]
  BY <1>1, <1>2, <1>3, <1>4, <1>6 DEF RunsAreWhereTheySay, Early
<1>8. dir[q] \notin Dirs
  BY <1>1, <1>3 DEF RunsAreWhereTheySay
<1>9. TypeOK'
  <2>1. pc' \in [Runs -> {"idle"} \cup Awaits \cup Writes \cup Ended]
    BY <1>2, <1>5, <1>6
  <2>2. job' \in [Runs -> [offer : Offers, profile : Profiles] \cup {NoJob}]
    BY <1>1, <1>3 DEF TypeOK
  <2> QED BY <1>1, <1>3, <1>7, <2>1, <2>2 DEF TypeOK
<1>10. RunsAreWhereTheySay'
  <2> SUFFICES ASSUME NEW r \in Runs
               PROVE  /\ dir'[r] \in Dirs <=> pc'[r] # "idle"
                      /\ pc'[r] \in Early \cup {"starting"} => helper[r] = "none"
                      /\ pc'[r] \in Laying => helper[r] \in {"up", "used"}
                      /\ pc'[r] = "fitted cv.docx" => fitted[r]
    BY <1>3 DEF RunsAreWhereTheySay
  <2>1. CASE r = q
    BY <1>4, <1>5, <1>7, <2>1 DEF Laying
  <2>2. CASE r # q
    BY <1>1, <1>7, <2>2 DEF RunsAreWhereTheySay
  <2> QED BY <2>1, <2>2
<1>11. ASSUME NEW d \in Dirs, \A r \in Runs : dir'[r] # d, NEW f \in Files
       PROVE  file'[d][f] = None
  <2>1. \A r \in Runs : dir[r] # d
    BY <1>7, <1>8, <1>11
  <2> QED BY <1>1, <1>3, <2>1
<1>12. ASSUME NEW r \in Runs, pc'[r] # "idle", ~Shared(dir[r])'
       PROVE  FilesAreInOrder(r, pc'[r], helper'[r], file'[dir'[r]])
  <2>1. \A i \in Runs \ {r} : dir'[i] # dir'[r]
    BY <1>12 DEF Shared
  <2>2. CASE r = q
    <3>1. \A i \in Runs : dir[i] # d0
      BY <1>4, <1>7, <1>8, <2>1, <2>2
    <3>2. \A f \in Files : file[d0][f] = None
      BY <1>1, <1>4, <3>1
    <3>3. file[d0] \in [Files -> Content \cup {None, Torn}]
      BY <1>1, <1>4 DEF TypeOK
    <3>4. file[d0] \in [Files -> ContentOf(q) \cup {None, Torn}]
      BY <3>2, <3>3
    <3>5. Behind(s) = {} /\ Ahead(s) \subseteq Files
      BY StageFiles DEF Ended
    <3>6. None # Torn /\ {"analysis.json", "cv.docx", "cv.pdf", "report.md", "offer.txt"} \subseteq Files
      BY TailorAssumption DEF Files
    <3>7. s \notin {"exporting", "cv.docx", "report.md", "offer.txt", "run.json", "done"}
      BY DEF Early, Attempts
    <3>8. FilesAreInOrder(q, s, helper[q], file[d0])
      BY <3>2, <3>4, <3>5, <3>6, <3>7 DEF FilesAreInOrder
    <3> QED BY <1>3, <1>7, <2>2, <3>8
  <2>3. CASE r # q
    <3>1. ~Shared(dir[r]) /\ pc[r] # "idle"
      <4>1. dir[r] \in Dirs /\ dir'[r] = dir[r] /\ pc[r] = pc'[r]
        BY <1>1, <1>7, <1>12, <2>3 DEF RunsAreWhereTheySay
      <4>2. \A i \in Runs \ {r} : dir[i] # dir[r]
        BY <1>7, <1>8, <2>1, <2>3, <4>1
      <4> QED BY <1>12, <4>1, <4>2 DEF Shared
    <3>2. FilesAreInOrder(r, pc[r], helper[r], file[dir[r]])
      BY <3>1, StageOf
    <3> QED BY <1>3, <1>7, <2>3, <3>2
  <2> QED BY <2>2, <2>3
<1> QED BY <1>9, <1>10, <1>11, <1>12 DEF IInv

\* The process is killed in the middle of a write, or of none.
LEMMA CrashStep == IInv /\ Crash => IInv'
<1> SUFFICES ASSUME IInv, Crash PROVE IInv'
  OBVIOUS
<1>1. /\ TypeOK /\ RunsAreWhereTheySay
      /\ \A d \in Dirs : (\A r \in Runs : dir[r] # d) => \A f \in Files : file[d][f] = None
  BY DEF IInv
<1>2. /\ pc' = [r \in Runs |-> IF pc[r] \in {"idle"} \cup Ended THEN pc[r] ELSE "lost"]
      /\ helper' = [r \in Runs |-> IF helper[r] \in {"up", "used"} THEN "closed" ELSE helper[r]]
      /\ UNCHANGED <<now, job, dir, fitted>>
  BY DEF Crash
<1>3. /\ pc \in [Runs -> {"idle"} \cup Awaits \cup Writes \cup Ended]
      /\ helper \in [Runs -> Helpers]
      /\ file \in [Dirs -> [Files -> Content \cup {None, Torn}]]
      /\ cache \in [Offers -> {"none", "cut", "kept"}]
  BY <1>1 DEF TypeOK, Helpers
<1>4. /\ \A r \in Runs : pc'[r] \in {"idle"} \cup Ended /\ (pc'[r] = "idle" <=> pc[r] = "idle")
      /\ \A r \in Runs : pc'[r] # "idle" /\ pc'[r] # "lost" => pc'[r] = pc[r]
  BY <1>2, <1>3 DEF Ended
<1>5. cache' \in [Offers -> {"none", "cut", "kept"}]
  BY <1>3 DEF Crash
<1>6. \/ UNCHANGED file
      \/ \E q \in Runs : /\ pc[q] \in Writes /\ dir[q] \in Dirs
                         /\ file' = [file EXCEPT ![dir[q]] = [file[dir[q]] EXCEPT ![NameOf(pc[q])] = Torn]]
  <2>1. CASE UNCHANGED file
    BY <2>1
  <2>2. ASSUME NEW q \in Runs, pc[q] \in Writes,
               file' = [file EXCEPT ![dir[q]][NameOf(pc[q])] = Torn]
        PROVE  dir[q] \in Dirs /\ file' = [file EXCEPT ![dir[q]] = [file[dir[q]] EXCEPT ![NameOf(pc[q])] = Torn]]
    <3>1. dir[q] \in Dirs
      BY <2>2, FileNames, StageOf
    <3> QED BY <1>3, <2>2, <3>1
  <2> QED BY <2>1, <2>2 DEF Crash
<1>7. file' \in [Dirs -> [Files -> Content \cup {None, Torn}]]
  <2>1. CASE UNCHANGED file
    BY <1>3, <2>1
  <2>2. ASSUME NEW q \in Runs, pc[q] \in Writes, dir[q] \in Dirs,
               file' = [file EXCEPT ![dir[q]] = [file[dir[q]] EXCEPT ![NameOf(pc[q])] = Torn]]
        PROVE  file' \in [Dirs -> [Files -> Content \cup {None, Torn}]]
    BY <1>3, <2>2
  <2> QED BY <1>6, <2>1, <2>2
<1>8. TypeOK'
  <2>1. pc' \in [Runs -> {"idle"} \cup Awaits \cup Writes \cup Ended]
    BY <1>2, <1>4
  <2>2. helper' \in [Runs -> Helpers]
    BY <1>2, <1>3 DEF Helpers
  <2> QED BY <1>1, <1>2, <1>5, <1>7, <2>1, <2>2 DEF TypeOK, Helpers
<1>9. RunsAreWhereTheySay'
  <2> SUFFICES ASSUME NEW r \in Runs
               PROVE  /\ dir[r] \in Dirs <=> pc'[r] # "idle"
                      /\ pc'[r] \in Early \cup {"starting"} => helper'[r] = "none"
                      /\ pc'[r] \in Laying => helper'[r] \in {"up", "used"}
                      /\ pc'[r] = "fitted cv.docx" => fitted[r]
    BY <1>2 DEF RunsAreWhereTheySay
  <2>1. dir[r] \in Dirs <=> pc'[r] # "idle"
    BY <1>1, <1>4 DEF RunsAreWhereTheySay
  <2>2. ASSUME pc'[r] = "idle" PROVE helper'[r] = "none"
    <3>1. helper[r] = "none"
      BY <1>1, <1>4, <2>2 DEF RunsAreWhereTheySay, Early
    <3> QED BY <1>2, <3>1
  <2>3. pc'[r] \notin Laying /\ pc'[r] # "fitted cv.docx"
        /\ (pc'[r] \in Early \cup {"starting"} => pc'[r] = "idle")
    BY <1>4 DEF Ended, Laying, Early, Attempts
  <2> QED BY <2>1, <2>2, <2>3
<1>10. ASSUME NEW d \in Dirs, \A r \in Runs : dir'[r] # d, NEW f \in Files
       PROVE  file'[d][f] = None
  <2>1. file'[d] = file[d]
    BY <1>2, <1>3, <1>6, <1>10
  <2> QED BY <1>1, <1>2, <1>10, <2>1
<1>11. ASSUME NEW r \in Runs, pc'[r] # "idle", ~Shared(dir[r])'
       PROVE  FilesAreInOrder(r, pc'[r], helper'[r], file'[dir[r]])
  <2>1. ~Shared(dir[r]) /\ pc[r] # "idle"
    BY <1>2, <1>4, <1>11 DEF Shared
  <2>2. FilesAreInOrder(r, pc[r], helper[r], file[dir[r]]) /\ dir[r] \in Dirs
    BY <2>1, StageOf
  <2>3. Behind(pc'[r]) = {} /\ Ahead(pc'[r]) = {} /\ pc'[r] \in Ended
    BY <1>4, <1>11, StageFiles
  <2>4. CASE file'[dir[r]] = file[dir[r]]
    <3>1. pc'[r] = "done" => pc[r] = "done"
      BY <1>4
    <3>2. helper[r] = "outlived" => helper'[r] = "outlived"
      BY <1>2
    <3>3. pc'[r] \notin {"exporting", "cv.docx", "report.md", "offer.txt", "run.json"}
      BY <2>3 DEF Ended
    <3>4. FilesAreInOrder(r, pc'[r], helper'[r], file[dir[r]])
      BY <2>2, <2>3, <3>1, <3>2, <3>3 DEF FilesAreInOrder
    <3> QED BY <2>4, <3>4
  <2>5. CASE file'[dir[r]] # file[dir[r]]
    <3>1. PICK q \in Runs : /\ pc[q] \in Writes /\ dir[q] \in Dirs
                            /\ file' = [file EXCEPT ![dir[q]] = [file[dir[q]] EXCEPT ![NameOf(pc[q])] = Torn]]
      BY <1>6, <2>5
    <3>2. dir[q] = dir[r]
      BY <1>3, <2>2, <2>5, <3>1
    <3>3. q = r
      BY <2>1, <3>2, OneRunEach
    <3>4. file'[dir[r]] = [file[dir[r]] EXCEPT ![NameOf(pc[r])] = Torn]
      BY <1>3, <3>1, <3>3
    <3>5. pc'[r] = "lost"
      BY <1>2, <1>3, <3>1, <3>3 DEF Writes, Ended
    <3> DEFINE s == pc[r]
               F == file[dir[r]]
               h == helper[r]
               g == helper'[r]
    <3>6. FilesAreInOrder(r, s, h, F) /\ s \in Writes
      BY <2>2, <3>1, <3>3
    <3> HIDE DEF s, F, h, g
    <3>7. FilesAreInOrder(r, "lost", g, [F EXCEPT ![NameOf(s)] = Torn])
      BY <3>6, TornInOrder
    <3> QED BY <3>4, <3>5, <3>7 DEF s, F, g
  <2> QED BY <2>4, <2>5
<1>12. \A r \in Runs : pc'[r] # "idle" /\ ~Shared(dir[r])'
                        => FilesAreInOrder(r, pc'[r], helper'[r], file'[dir'[r]])
  BY <1>2, <1>11
<1> QED BY <1>8, <1>9, <1>10, <1>12 DEF IInv

\* Nothing but the clock changes.
LEMMA ClockStep ==
  ASSUME IInv, now' \in 1..Seconds, UNCHANGED <<pc, job, dir, fitted, helper, cache, file>>
  PROVE  IInv'
<1>1. TypeOK' /\ RunsAreWhereTheySay'
  BY DEF IInv, TypeOK, RunsAreWhereTheySay
<1>2. \A r \in Runs : Shared(dir[r])' <=> Shared(dir[r])
  BY DEF Shared
<1> QED BY <1>1, <1>2 DEF IInv

LEMMA InitSound == Init => IInv
<1> SUFFICES ASSUME Init PROVE IInv
  OBVIOUS
<1>1. \A r \in Runs : dir[r] = << >> /\ pc[r] = "idle" /\ helper[r] = "none"
  BY DEF Init
<1>2. TypeOK
  <2>1. now \in 1..Seconds
    BY TailorAssumption DEF Init
  <2> QED BY <2>1 DEF Init, TypeOK
<1>3. RunsAreWhereTheySay
  BY <1>1, TupleIsNoDir DEF RunsAreWhereTheySay, Laying
<1>4. \A d \in Dirs : \A f \in Files : file[d][f] = None
  BY DEF Init
<1> QED BY <1>1, <1>2, <1>3, <1>4 DEF IInv

LEMMA NextSound == IInv /\ [Next]_vars => IInv'
<1> SUFFICES ASSUME IInv, [Next]_vars PROVE IInv'
  OBVIOUS
<1>1. CASE Tick
  <2>1. now' \in 1..Seconds
    <3>1. now \in 1..Seconds /\ Seconds \in Nat
      BY TailorAssumption DEF IInv, TypeOK
    <3> QED BY <1>1, <3>1 DEF Tick
  <2> QED BY <1>1, <2>1, ClockStep DEF Tick
<1>2. CASE Crash
  BY <1>2, CrashStep
<1>3. ASSUME NEW r \in Runs, Step(r) PROVE IInv'
  BY <1>3, EarlyStep, LayoutStep, WrittenStep, WriteFailsStep, ExportedStep, WordFailsStep,
     RemovalFailsStep DEF Step
<1>4. ASSUME NEW r \in Runs, LateHelper(r) PROVE IInv'
  BY <1>4, LateHelperStep
<1>5. ASSUME NEW r \in Runs, NEW ask \in Asks[r], Begin(r, ask[1], ask[2]) PROVE IInv'
  <2>1. ask \in Offers \X Profiles
    BY TailorAssumption
  <2>2. ask[1] \in Offers /\ ask[2] \in Profiles
    BY <2>1
  <2> QED BY <1>5, <2>2, BeginStep
<1>6. CASE UNCHANGED vars
  <2>1. now' \in 1..Seconds
    BY <1>6 DEF IInv, TypeOK, vars
  <2> QED BY <1>6, <2>1, ClockStep DEF vars
<1> QED BY <1>1, <1>2, <1>3, <1>4, <1>5, <1>6 DEF Next

LEMMA AlwaysSound == Spec => []IInv
BY InitSound, NextSound, PTL DEF Spec

----------------------------------------------------------------------------
(* What follows.                                                           *)

\* intake.js and readRun: whatever was killed, torn or given up before, what an
\* offer is answered with is one run's whole work, of that offer and of the
\* owner's profile, unless two runs of one second share the directory.
THEOREM ReusedWorkIsWhole == Spec => []ReusedIsWhole
<1>1. ASSUME IInv PROVE ReusedIsWhole
  <2>1. /\ TypeOK
        /\ \A d \in Dirs : (\A r \in Runs : dir[r] # d) => \A f \in Files : file[d][f] = None
    BY <1>1 DEF IInv
  <2> SUFFICES ASSUME NEW o \in Offers, NEW d \in Reusable(o), ~Shared(d)
               PROVE  \E r \in Runs :
                        /\ dir[r] = d
                        /\ job[r].offer = o \/ file[d]["offer.txt"] = Torn
                        /\ job[r].profile = Default \/ ~Whole(d, "run.json")
                        /\ \A f \in {"analysis.json", "cv.docx", "cv.pdf", "report.md"} :
                             Whole(d, f) /\ file[d][f].by = r
    BY <2>1 DEF ReusedIsWhole
  <2>2. /\ d \in Dirs /\ file[d]["offer.txt"] # None /\ file[d]["cv.pdf"] # None
        /\ ProfileOf(d) = Default
        /\ file[d]["offer.txt"] = Torn \/ job[file[d]["offer.txt"].by].offer = o
    BY DEF Reusable, Loaded
  <2>3. PICK r \in Runs : dir[r] = d
    BY <2>1, <2>2 DEF Files
  <2>4. FilesAreInOrder(r, pc[r], helper[r], file[d])
    BY <1>1, <2>2, <2>3 DEF IInv, RunsAreWhereTheySay
  <2>5. \A f \in Files : Whole(d, f) => file[d][f] \in ContentOf(r)
    BY <2>4 DEF FilesAreInOrder, Whole
  <2>6. \A c \in ContentOf(r) : c.by = r /\ c \notin {None, Torn}
    <3>1. ContentOf(r) \subseteq Content
      BY DEF ContentOf, Content
    <3> QED BY <3>1, TailorAssumption DEF ContentOf
  <2>7. {file[d]["analysis.json"], file[d]["cv.docx"], file[d]["report.md"]} \subseteq ContentOf(r)
    BY <2>2, <2>4 DEF FilesAreInOrder
  <2>8. file[d]["cv.pdf"] \in ContentOf(r)
    BY <2>2, <2>4, <2>5 DEF FilesAreInOrder, Whole, Files
  <2>9. \A f \in {"analysis.json", "cv.docx", "cv.pdf", "report.md"} : Whole(d, f) /\ file[d][f].by = r
    BY <2>6, <2>7, <2>8 DEF Whole
  <2>10. job[r].offer = o \/ file[d]["offer.txt"] = Torn
    BY <2>2, <2>5, <2>6 DEF Whole, Files
  <2>11. job[r].profile = Default \/ ~Whole(d, "run.json")
    BY <2>2, <2>5, <2>6 DEF ProfileOf, Files
  <2> QED BY <2>3, <2>9, <2>10, <2>11
<1> QED BY <1>1, AlwaysSound, PTL

\* writeCv: when Word failed over a CV, no PDF of it stays beside the docx that
\* was written without layout, but for one that a helper wrote after its end.
THEOREM PdfShowsItsDocx == Spec => []PdfIsOfItsDocx
<1>1. ASSUME IInv PROVE PdfIsOfItsDocx
  <2> SUFFICES ASSUME NEW r \in Runs, pc[r] = "done", ~Shared(dir[r]),
                      file[dir[r]]["cv.pdf"] # None
               PROVE  file[dir[r]]["cv.docx"].fitted \/ helper[r] = "outlived"
    BY DEF PdfIsOfItsDocx
  <2>1. FilesAreInOrder(r, "done", helper[r], file[dir[r]])
    BY <1>1, StageOf
  <2> QED BY <2>1 DEF FilesAreInOrder
<1> QED BY <1>1, AlwaysSound, PTL
=============================================================================
