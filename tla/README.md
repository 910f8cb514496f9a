# itsaresume, in TLA+

A verification project for this repository: specifications of its parts, the TLC
runs that check them on small instances, and theorems about them that TLAPS
proves for every value of the constants. Paths are relative to the repository;
`router/` stands for `crates/itsaresume-router/src/`, `cv/` for `cv/src/` unless a
longer path is given.

## The system

Two programs. `itsaresume` (Rust) routes a prompt to the first of several
language-model backends that can answer, without ever being billed per token.
`itsacv` (JavaScript) turns a job offer into a tailored CV; its server queues
offers as jobs, each of which asks `itsaresume` several times, repairs what it is
answered, and lays the CV out with Word. Shell scripts deploy them, wake the
laptop's local model and merge pull requests.

| Component | State | Operations | Speaks to |
|---|---|---|---|
| Router (`router/router.rs`, `backend.rs`) | table of last answers `seen`, ordered backends | `complete_on`, `route`, `status`, `check` | backends (blocking call, deadline), journal |
| Journal (`journal.rs`) | one file, append only, a mutex | `record_asked` | file system |
| HTTP endpoint (`router/server.rs`) | counter of completions, a thread per request, the check thread | accept, guards, slot, body, route, answer | clients, router |
| Local adapter (`lm_studio.rs`, `openai.rs`) | free slots behind a mutex and a condition variable | `take`, request, drop | local server |
| Claude adapter (`claude_code.rs`) | billing flag in memory, marker file, private files, number of the next one | `latched`, spawn, wait or kill, classify, trip | `claude` child process, file system |
| Gemini adapter (`gemini_cli.rs`) | private files | spawn, wait or kill, classify | `gemini` child process |
| Configuration, command line, statistics | none | parse, validate, sum | files |
| Job server (`cv/server.js`, `serve.js`) | visitors and their jobs, jobs, two lanes, accepted times, hits and bans, codes of invited pages | page load, adoption, POST of offers, rename, reads, `work` | pages, tailoring (await) |
| Tailoring (`pipeline.js`, `run.js`, `llm.js`, `listing.js`, `intake.js`) | a run's directory, the listing cache | listing, analysis, second attempt, layout, PDF, ATS check, reuse | router over HTTP, Word or LibreOffice |
| Word helper (`word.js`, `fit.js`) | FIFO of requests, one helper process | ask, answer, timeout and kill; fit to the page | helper over pipes |
| Analysis (`normalize.js`, `coverage.js`, `lexicon.js`, `links.js`, `importance.js`, `evidence.js`, `score.js`) | none; a table of requirements that each pass rewrites | read, state, settle, merge, score, select | |
| Invitations, answers (`invites.js`, `answers.js`) | one JSON file each | load, change, save | file system |
| Page (`cv/web/app.js`, `cv.js`) | offers being prepared, cards; items shown on the A4 page | add, post, poll; fill | job server |
| Wake (`wake.js`, `cv/deploy/laptop/*.sh`) | request file, laptop-seen file, tunnel | ask, watch, start, poll | files over ssh |
| Deployment (`auto-deploy.sh`) | last commit deployed | fetch, read busy, rebuild | git, docker, job server |
| `merge-when-green.sh` | none | read head, count checks, merge | GitHub |

What is hard: threads that meet in a counter, a table, a condition variable and
a file; event loops whose handlers span awaits; child processes with deadlines;
processes that end at any moment and start again with empty memory beside files
that stay; writes that may fail or be cut; maps with caps; and a dozen passes over
one table, each of which can undo what an earlier one made sure of. What makes
each component correct:

- **Router**: backends are asked in order, none after one has settled the
  request, and the journal says what happened.
- **Endpoint and local adapter**: at most so many completions, no slot lost on any
  path, no call left asleep in front of a free slot.
- **Latch**: once billed per token, claude is not started again.
- **CLI adapters**: nobody waits for ever on a full pipe, a call leaves neither a
  file nor a child behind, only a whole output is an answer.
- **Checks**: a status is never older than its period, and keeping it so costs
  no more requests than allowed.
- **Job server**: bounded memory and queue; each visitor sees its own jobs and
  only these; jobs run in order and end; the owner's quota and his bans hold; a
  title reaches the run it was given to.
- **Page**: no offer is lost or tailored twice, and the page ends its poll with
  every job as it ended.
- **Tailoring**: a later offer is answered from whole runs only; a PDF shows the
  CV beside it; every run ends and closes its layout engine.
- **Word helper**: lines are matched to requests by order alone, and still no
  request gets another one's answer.
- **Analysis**: nothing is claimed that the profile and its evidence do not back,
  no must is lost, gaps are said, and the table and the selection are valid for
  the code's own validation.

`PROJECT.json` lists every component with its status, and every hazard at its
line with the properties that cover it, or the reason why none does.

## The modules

### The router

| Module | Models | Correspondence |
|---|---|---|
| `Routing` | `backend.rs`, the choices in `router.rs` | `Chosen` is the selection of `complete_on` (a name, else the first of a kind), `Serving` the filter of `route`, `AllowsFallback` the method of that name |
| `Dispatch` | the promise of the router | one step per request: any outcome its backends' answers deserve, with one journal line, or without one |
| `Router` | `complete_on`, `route`, `remember`, `record_asked` | one action per step of a request's thread; `said` records what each adapter returned, not what the router noted of it; what a server still does for a call that has timed out is not in the model |
| `Semaphore` | the promise of both kinds of slots | a user is turned away only when no slot is free |
| `HttpServer` | `server.rs` without the check thread | `FromGuarded`, `FromRoute`, `FromHead`, `FromBody` are the guards in their order; `Load`, `Busy`, `TakeSlot`, `Retry` are the compare-exchange loop, one atomic access each; `DropSlot` is `Drop` |
| `LmSlots` | `Slots` of `lm_studio.rs` | what happens under the mutex is one step; `notify_one` is a step of its own, after it |
| `ClaudeLatch` | `latched` and the tripwire of `claude_code.rs` | the file is looked at, then the flag; the flag is set, then the file written; `knew` records what stood against a call when it came |
| `Classification` | `classify_for` and `classify` of the two CLI adapters | one operator per test, a `CASE` in the order of the code; texts are what their wording tests find in them |
| `ChildRun` | `complete_with_env` and `SystemFile` of both CLI adapters | one action per step of the call, of its writer and drain threads, and of the child; a pipe is the pieces put in less those read |
| `StatusChecks` | `check`, `remember`, `status`, `with_checks` | time in seconds; a thread takes its answer and the time, then the table |

### The generator's server and its surroundings

| Module | Models | Correspondence |
|---|---|---|
| `JobServer` | `createApp` in public mode | what a handler does between two awaits is one step: `Arrive` up to the body, `Submit` after it, `Finish` from the end of one tailoring to the start of the next |
| `JobBoard` | what pages may rely on | jobs are numbered as accepted and each only moves forward; `JobServer` implements it, `Page` is built on it |
| `Page` | `app.js`: offers, POST, `poll` | one event loop; each request is sent, accepted and answered in steps of their own, and each may break on either way |
| `Admission` | `checkBan`, `admit` | jobs and POSTs are numbered; the list of accepted times, which is only counted, is a set of jobs, a key's list of tries a set of POSTs; a map forgets its keys in the order of the newest POST of each; a POST runs both functions in the handler's order |
| `Titles` | `keepTitle`, the rename route, `work`'s end, the log | `folder` is the directory a tailoring or an earlier run leaves; a title can be given at any time and can fail to be written |
| `Invitations` | `invites.js`, `invited` of `server.js` | a command is a process with a load and a save; the server reads at each use; `struck`, `stale` and `slipped` record which codes were revoked on file, which of these a command under way has not loaded, and which a job was accepted with |
| `OwnerAnswers` | `answers.js`, `answered` of `run.js`, `serve.js` | an answer is tried alone, stored, and merged with all others in turn at each load |
| `TailorRun` | `run.js`, `pipeline.js`, the caches and `intake.js` | one action per await and per write; `Written`, `WriteFails`, `RemovalFails` and `Crash` cut the sequence of files anywhere; `Reusable` is `loadRuns` and `findReusable` |
| `WordHelper` | `word.js` | queue, two pipes, timers, `exit` event and `killTree`, each on its own |

### The contents of a CV

| Module | Models | Correspondence |
|---|---|---|
| `CvModel` | `rankBullets`, `buildModel` of `tailor.js` | which bullets are shown, for picks and requirements; a ranked list is the set of its bullets, as its order is always that of `Earlier`; texts left out |
| `FitToPage` | `fitToPage` of `fit.js` | one measure per step; `low`, `high`, `cap` are the variables of the search |
| `A4Page` | `fill` of `cv.js`, `pageData` | one layout per step; spacing in steps of 0.05 |
| `Evidence` | `assess`, `blocked` of `evidence.js` | graded entries for and against give a verdict |
| `Lexicon` | `lexicon.js`, `links.js` | a phrase is a set of words, a label is found in it when its words are; concepts, their kinds and broader ones; the owner's rulings |
| `Coverage` | `coverage.js` | what the whole profile holds for a requirement: languages, certificates, diplomas, years, concepts |
| `Importance` | `importance.js` | an offer is lines, sentences and clauses with a cue each |
| `Score` | `score.js` | twice the value, to stay whole; the rounding is `Math.round`'s |
| `Normalize` | `normalize.js`, up to the table | one action per pass (`Read`, `State`, `Settle`, `Repeats`, `Examples`); the table is rows at numbers; `Settled` is the whole chain of repairs of one row; rows that the offer lists as examples become one by `Together`, an equivalence; an answer's row may carry `never`, which the code does not delete, and `flagged` records that one did |
| `Selection` | `normalize.js`, after the table | one action per choice: experiences, columns, cut, summary, headline; bullets are pairs with their experience, the column gives each skill its place; what is first up to a cap is what fewer are `Ahead` of |

`MCx` gives `x` its constants, and the `.cfg` files the bounds. Three MC modules
put parts that share no state next to each other, and choose in the initial state
which one runs: `MCRouterParts` (`ClaudeLatch`, `StatusChecks`, `LmSlots`, and
`ChildRun` as an instance for the one property of it that needs fairness),
`MCGeneratorParts` (`Page`, `Admission`, `Titles`, `WordHelper`, `Invitations`,
`OwnerAnswers`) and `MCCvContents` (`Normalize`, `Selection`, `FitToPage`,
`A4Page`). A part that does not run stays where it began, so each is explored as if
it were alone. `xProofs` holds the theorems about `x`; `RouterPartsProofs`,
`GeneratorPartsProofs` and `CvContentsProofs` hold those about the parts that the MC
module of that name puts together. A definition commented
"Mutant" is a wrong version of the one below it, the way a plausible bug would
make it; the module never uses it. With it in place of the right one TLC finds the
property `PROJECT.json` names for it violated, which shows that the property
depends on the code.

What is abstracted: texts, tokens, models and rate limits; a request's kind, the
name it asks for, its head and the fate of its body are kept. A backend answers
anything, at any time. HTTP answers become the status their error kind gives.
JSON is valid or not. Identifiers and codes drawn at random never collide. An
offer becomes a job of one lane, or one that is reused, as the environment
chooses. Words are folded and stemmed already; what a test of wording finds in a
text is a given.

## The runs

| Run | Bounds | Shows |
|---|---|---|
| `router` | 3 backends, 2 requests, 2 kinds, 3 names or none | order, nothing past a settled answer, journal, termination, and that `Router` implements `Dispatch` |
| `server` | 3 threads, 2 slots, 3 arrivals, 8 requests with different fates | refinement of `Semaphore`, nobody is held up by a stalled completion, every thread ends |
| `router_parts` | latch: 3 calls, 2 processes, 2 backends each, any restarts; checks: 1 backend with a probe, 2 without (periods 1 and 3), 1 client, 5 instants; slots: 4 calls without end, 2 slots; a child: 1 call of either CLI, 2 pieces in each stream through pipes of 1 | whom the latch stops; how old an entry may be and how far apart checks are; no lost wake-up, a freed slot is used; no wait on a full pipe without end |
| `child_run` | 2 calls of either CLI, 2 pieces of errors through a pipe of 1, 2 names taken and 2 skipped, any restarts, 240 reports | own files only, nothing left behind, only whole answers, metered reports stop |
| `jobs_visitors` | 4 tokens for 3 visitors, 2 jobs, a queue of 2, 1 POST of up to 2 offers, 3 jobs in all, with and without cookies, restarts | a visitor sees its own jobs, all of them and only these |
| `jobs_lanes` | 1 visitor, a queue of 4, 5 jobs in all | no job stranded, run twice or passed; caps; refinement of `JobBoard`; every job ends |
| `tailoring` | 2 runs of one offer, two profiles, 2 seconds, any crash, writes and removals that fail | what a later offer may be answered from, PDFs, every run ends |
| `generator_parts` | page: 2 POSTs, 2 offers, 2 jobs; admission: 2 addresses, 2 visitors, an hour of 2 units, a day of 3, 4 POSTs over 5 instants; titles: 3 jobs, 2 directories, 2 titles; Word: 3 requests; invitations: 3 codes, 2 labels, 2 commands at once, 1 restart; answers: 3 answers over 2 names | `OffersAreKept`, `Followed`, `CapsHold`, `HammeringIsBanned`, `JobsAreTold`, `OwnAnswers`, `NobodyWaitsForTheDead`, `InvitationsHold`, `TakenAnswersLoad` |
| `cv_contents` | tables of up to two rows of 16 requirements over 4 skills, some flagged by the model, 2 offers, 2 bodies of evidence; 1440 selections over a profile of 7 bullets; every analysis of up to 2 picks and 2 requirements for the layouts | validity, backing, musts, gaps, examples, layouts |
| `cv_rulings` | the tables of `cv_contents` | "takes a skill out": violated |
| `cv_never` | the tables of `cv_contents` | what is never claimed is "always counted as a gap": violated |
| `cv_examples` | the tables of `cv_contents` | a match to verify is "still a gap of the qualification": violated |

Why the bounds are enough. The router's threads meet only in the table and the
journal, so two show every meeting; three backends give a first, a middle and a
last one, with one skipped in between for each kind. Three threads on two slots
have a winner, a loser and one to take what the winner gives back; four calls on
two slots let two sleep while two free a slot each. Two processes with two
backends each are the least in which the flag of one says nothing about another.
Four seconds hold a round, a period of three and another round. Four tokens
overflow the map of visitors, three jobs that of jobs, and up to three waiting
jobs in a lane make an order. Two pieces through a pipe of one fill it; two calls,
two files that were left before them and any restart let every number of taken
names come up, to one more than are skipped. The reports of claude are an init
message or none (claude prints one), then up to two other messages in either
order. Two runs of one offer have every way to meet: in one second and so in one
directory, one after the other, or with the first killed at any write; both lanes
of the server are busy then. Two POSTs and one poll are every concurrency the page
allows. Two addresses with two visitors make the four pairs that let a ban of one
key reach another; five instants hold an hour, a day and the time after a ban.
Three requests to Word are one printed, one asked and one that comes later. Two
commands that overlap suffice since each saves a whole file. The requirements of
`cv_contents` are one for each branch of `Settled`: met by name, by concept, by an
umbrella, by a neighbour, by a ruling of either kind; languages, certificates,
degrees, qualities, conditions, never-claimed names; pairs of them meet in
`Repeats` and `Examples`. The profile of the layouts has two main missions, of
which the second is the reference, a short mission and R&D, so that each rule of
`tailor.js` cuts something.

`MaxArrivals`, `MaxTime`, `MaxAccepted`, `MaxPosts`, `MaxRestarts`, `End` and
`Seconds` bound counters only; the runs that reach them stop there
(`CHECK_DEADLOCK FALSE`) or go on with restarts. Visitors' tokens, POSTs, addresses
and the calls of `child_run` are permuted by symmetry where no liveness is checked.

### What disagrees with the code

`cv_rulings` ends in a violation: a skill that the owner has ruled "no" for a
requirement's words is taken out at `normalize.js:452-455` and may come back a few
lines later, because `alike` adds every other name of a concept that is held. The
comment at 449-450 says that "no" takes a skill out.

`cv_never` ends in a violation: where the offer names two things that the owner
never claims and the model left both out, only the first becomes a row. The row that
`normalize.js:399` adds is marked `never`, and `isNever` (`score.js:24`) holds of a
marked row whatever the entry, so the test at 397 finds a row for every later entry.
The comment at 391-392 says that what the candidate never claims counts when the offer
names it, even if the model left it out; `cv/README.md:27-28` that it is always
counted as a gap; the test that tries it (`cv/test/redteam.test.js:58`) has one entry.
`GapsAreTold` says what does hold: one of them at least is told and felt, if the
model flagged no row itself. When it did, nothing is added at all: an answered row keeps
its `never` (333-337 delete five other fields), and `isNever` holds of it in the same way.

`cv_examples` ends in a violation: two musts that are met on the model's reading alone
are each a gap to verify (`score.js:57`), but listed together by the offer they become
one row, which does not have their `judged` (`normalize.js:272-281`) and is no gap; an
offer that asks for nothing else is then "qualified" for. The comment at 466-470 says of
such a match that it is "still a gap of the qualification". `GapsAreTold` looks at the
final table only and cannot see this. What the merge does keep is `ExamplesCountAsOne`:
the row is a gap if every example is claimed by nothing or in the lab only, and none if
one is met in full by client experience.

Four smaller disagreements were met while modelling; no run is spent on them.

- `ARCHITECTURE.md:76-78` says the latch holds over restarts; `claude_code.rs:438`
  ignores a marker file that cannot be written, and then another backend or a
  restarted server starts claude again. `LatchHolds` says what does hold: only
  then.
- `router.rs:233-235` says "no quota spent twice"; the table is taken once per
  round (`:242`), so a client's answer that comes during the round does not count.
  `ChecksKeepTime` says what checks do cost. It allows for a period of nought, with
  which an entry is never recent and every round asks.
- `server.js:182-183` says each page load "sees only its own jobs"; a visitor that
  has no job yet can be forgotten while the body of its POST is awaited, and without
  its cookie nobody sees the jobs of that POST (`:518`). `VisitorsSeeTheirJobs`
  says that the cookie is enough.
- A degree that the offer lists among examples loses its kind when the examples
  become one row (`normalize.js:272`), so that the code's own validation would
  refuse the table; `TableIsValid` excepts it.

### Fairness

- `Router`: weak fairness of each request's thread. Threads are not starved, and
  each adapter has a deadline after which it returns (`wait_timeout`, the timeout
  of the HTTP client).
- `HttpServer`: `RunningSpec` has it only for steps a thread takes alone, so
  clients may send nothing and backends may hang for ever (there is no timeout on
  a body). `EveryThreadEnds` assumes, in the property itself, that they do not.
  The compare-exchange loop needs no more: whenever it fails, another thread's
  has succeeded, and arrivals are bounded.
- `LmSlots`: threads go on (`ThreadsRunOn`); `FreedSlotIsUsed` holds without any
  deadline.
- `JobServer`: each tailoring that runs ends, since the calls it awaits have
  timeouts (`llm.js`, `word.js`).
- `TailorRun`: each run goes on. Calls of the model time out (`llm.js:86`), requests
  to Word too (`word.js:69`), writes return, and the search of `fitToPage` is finite
  (`FitToPage` ends by itself: its interval shrinks at every measure).
- `ChildRun`: the adapter and its threads go on. `EveryCallReturns` assumes, for
  each call, that the child goes on as far as its pipes let it, or that the
  deadline passes (`wait_timeout`): either is enough.
- All others: safety only.

## The theorems

All from the assumptions on the constants in each module, for any number of
backends, requests, threads, slots, calls, processes, visitors, jobs, runs,
commands, profiles, offers, tables, layouts and selections. The assumptions are what
the code or its types guarantee: sizes are natural numbers, names that stand for
nothing (`None`, `Nobody`, `Torn`) are not those of anything, the caps of the maps are in the order the constants of
`server.js` are in (`JobsAssumption`), a run's offer and profile exist
(`TailorAssumption`), a report of claude has at most one init message
(`ReportAssumption`, as `child_run` enumerates them), an hour is no longer than a
day and a key is not both an address and a visitor (`AdmissionAssumption`). Of a
profile they say what its schema does: an experience has a kind, bullets of its own
and at least one, and a reference mission is a main one (`CvAssumption`); two labels
overlap only if one is part of the other, and every label has a concept
(`LexiconAssumption`); a name has words, evidence speaks of the profile's skills, and
an answer's rows have a verdict (`NormalizeAssumption`); the column has a height for
some cap and two pages hold more than one (`FitAssumption`); picks are lists
(`SheetAssumption`, `SelectionAssumption`). A period of checks may be nought, which
`config.rs` allows. The inductive invariants of the router and of the server's parts
were checked by TLC first, on the instance of their run or, for `Page`, a larger one.

- **`RouterProofs`**. The inductive invariant `IInv` says of each request where
  its thread is (`Where`): everyone before its backend, in order, has failed in
  a way that allows the next, and nobody else has heard of it (`InTurn`); what
  was recorded is what was said (`Recorded`); and a request that is over deserved
  its outcome. `JournalTellsAll` alone is not inductive, because a line must agree
  with variables that nobody may change any more. From it: `TypeCorrect`,
  `JournalComplete`, `NeverPastASettlement`, and `Implements`:
  the step in which a request returns is `Dispatch`'s `Finish`, every other one a
  stutter.
- **`HttpServerProofs`**. `IInv` adds to the exact counter that a thread waiting
  for a slot has passed the checks on its head, one with the router those on its
  body (`Checked`), and that no holder is told "busy". The counter is exact by the
  cardinality lemmas: a holder more, one more. From it: `SlotsNeverLeak`,
  `RoutedIsWellFormed`, `ImplementsSemaphore`. In the latter the refusal maps to
  the reading that found the counter full, not to the answer, which may come when
  slots are free again.
- **`RouterPartsProofs`**, `LmSlots`. `NoLostWakeup` is inductive with `SlotsConserved`: a slot
  that is freed brings one more call that is about to notify, which wakes one
  more, which takes the slot. From it: `NoSlotLeaks`, `NoWakeupIsLost`,
  `ImplementsSemaphore`.
- **`RouterPartsProofs`**, `ClaudeLatch`. What was known against a call when it came
  is still to be seen when it looks (`StillKnown`): flags are only lost with the
  process, and so with the call; the file goes only when the owner comes. A call that
  came after a tripwire came after its marker, or a write has failed
  (`ToldByTheFile`). Therefore `TheLatchHolds` and `AnsweredIsOnFile`.
- **`RouterPartsProofs`**, `StatusChecks`. `RoundsRefresh` speaks of a round that is
  over; `RoundIsRight` says of one under way that each backend was recent, was asked
  and its answer noted, or is still to be asked, whatever clients' answers overwrite:
  an answer is noted in the second it came (`AnswersAreFresh`), so the table never
  goes back. Spacing needs the reason why a backend was found due: an entry is at
  least as young as the check it came from (`ChecksAreNoted`). Both:
  `ChecksAreOnTime`.
- **`ChildRunProofs`**. `FilesAreOurs` is inductive: a new name is not on the disk,
  so it is nobody's. `NothingIsLeft` needs it (a return removes its own files from
  the disk and no others) and `NotYetSpawned` (the returns before the child is
  started leave none). `AnswersAreWhole` needs the bounds of `TypeOK`: a stream that
  was read whole stays so. From them: `CallsRemoveTheirOwn`, `OnlyWholeAnswers`. What a
  verdict is depends on the report alone once the call has one: `MeteredReportsStop`.
- **`GeneratorPartsProofs`**, `WordHelper`. `OwnAnswers` is not inductive: which request a line is
  given to depends on the queue. `QueueMatchesPipes` says what does: as long as the
  end of the helper has not been told, the queue is what was printed and not read,
  followed by what was asked and not answered, whether or not the requests in it
  still wait. A request that timed out stays in line for that reason (the mutant
  that removes it shifts every later answer by one). With `PendingAreQueued`, which
  says that nobody waits outside the queue, the one step that tells the end fails
  everybody: `AnswersGoHome`, `NobodyIsLeftWaiting`. Sequences by the library's
  theorems on concatenation, heads and tails.
- **`GeneratorPartsProofs`**, `Invitations`. Commands overlap and the last save wins, so nothing can
  be said of which one; but what a command is about to save has one live code for
  each label as soon as what it loaded had (`AddedIsOneLive`, and revoking only
  removes), so `InviteInv` holds of the file and of every pending save.
  A save may bring back a code whose revocation its command had
  not loaded. `StruckInv` says that it can bring back no other: a code that is struck
  is revoked on file, and in whatever is about to be saved it is revoked too, or else
  among those that this command has missed (`stale`), which leave `struck` as it saves.
  With the server's reading at each job: `RevokedCodesStayOut`.
- **`GeneratorPartsProofs`**, `Titles`. Only a job that is over has a directory
  (`NotYet`), so a title given before has no file to miss, and one given at the end is
  written in the same step; a directory that an earlier run shares has the title of
  one of the jobs it answers (`KeptFor`). Together with `JobsEndOnce`:
  `TitlesJoinTheirRuns`.
- **`GeneratorPartsProofs`**, `Page`. `NoOfferIsLost`: every step moves an offer from
  one of its places to the next, position by position (`Placed`); counting a POST once
  is not enough, since a batch that named an offer twice would make two jobs. New jobs
  are numbered after all others (`Numbered`), so none overwrites one that is there. The
  one step that leaves an offer in two places is the lost answer, which is what
  `unsure` records. `PollFollowsJobs`: what the poll was told of a job was true, and has
  grown old only while the job was under way or when the server dropped it
  (`SeenWas`); in a round it was told of every job the page knows, but for those
  accepted after the list (`ToldOf`). A poll that sees none under way has therefore
  seen their ends. This needs of the server what `JobBoard` says and no more.
- **`GeneratorPartsProofs`**, `Admission`. `QuotaIsBounded`: the list that `admit`
  shortens has every job of the last day (`AdmInv`), hence of the last hour, so what
  fits beside it fits beside all that was ever accepted; a window that ends before now
  gets nothing new. The counting is by the cardinality lemmas (`CountWithNew`).
  `HammeringIsPunished`: as long as no key was forgotten (`crowded`), the tries that are
  kept for a key are all of its last hour (`HitsAreKept`), so an offence is seen when it
  happens (`OffendersAreCounted`), and its keys are banned no earlier than it asks
  (`OffendersAreBanned`): a later offence of one of them only moves the end on.
- **`GeneratorPartsProofs`**, `OwnerAnswers`. `TakenAnswersMerge`: the merge is a fold
  over the answers. `FoldExists` and `MergeIsChain` give it as a chain of steps, from
  which `MergeOneMore` (one answer more is one step more) and `MergeSees` (the ids seen
  are those of the answers) follow by looking at the least number where they would fail
  (`LeastNumber`). An answer that is taken against the names of the merged profile,
  with a new id, is thus taken by the merge of all.
- **`JobServerProofs`**. `IInv` is the two properties with what they rest on: a job has
  been there exactly if its number was given (`NumbersAreUsedInOrder`), and who was
  remembered before whom is an order of the visitors (`VisitorsAreInOrder`), so that
  some visitor is the oldest. A job is in one place: waiting in one lane, once, in the
  order of acceptance; running, as the one its lane works on; or over. The handlers that
  touch the lanes end by starting both, so that no lane is idle beside a waiting job
  (`StartedLanes`). An eviction takes the oldest jobs that are over, one by one;
  `Place` counts how old a job is, and its lemmas bound how many go. From it:
  `LanesStaySound`, `VisitorsKeepTheirJobs`, and `JobServerImplementsBoard`: an
  accepted batch is `Advance` by its length, every other step `Advance` by none, or a
  stutter.
- **`TailorRunProofs`**. A directory that no two runs share has files of its own run
  only, written in the order of the code (`FilesAreInOrder`): where a run is
  (`RunsAreWhereTheySay`) tells which of its files are there and whole, and that stays
  true of a run that was killed or has failed.
  `Reusable` reads the last ones, so all others are there. `PdfIsOfItsDocx` needs who
  has the helper, which may still write a PDF after it was stopped. From it:
  `ReusedWorkIsWhole`, `PdfShowsItsDocx`.
- **`CvContentsProofs`**, `FitToPage` and `A4Page`. `Earlier` is a strict order
  (`EarlierOrders`), so that of a finite set at most n come first (`FewComeFirst`). The
  search by halves rests on `EndsAreMeasured`: its lower end fits, the one above its
  upper end does not. `DocxIsFitted`. On the page in the browser an experience has no more items than the
  reference one: of the musts each has one at most, and the reference one has its own
  (`MustsAreBalanced`); each item that is added keeps it so (`OneMoreIsBalanced`).
  `SheetIsFilled`.
- **`CvContentsProofs`**, `Normalize`. What a row may be is said of one row, through
  each repair of `Settled` in its order (`FirstPasses`, `ConsistentIsOk`, `OfItsKindIsOk`,
  `CoveredIsOk`, `SettledIsOk`), and what the profile holds for it of `coverage.js` alone
  (`CoverageIsSound`). `TableInv` carries it through the merges: the stricter of two rows
  is one of them (`Repeats`), and rows in one list are a class of `Together`, from which
  one row is taken (`TogetherIsAClass`, `OneIsTaken`). From it: `RepairedTableIsValid`,
  `NothingUnbackedIsClaimed`, and with the class of a row as its witness `NoMustIsLost`,
  which is about importance in every pass and about the match where repetitions become
  one row. The row that is taken from a class is as strong as any (`OneIsTaken`), from
  which `ExamplesAreAsGoodAsTheBest` follows.
  `MissingIsTold` needs two arguments more. Once `State` has been, a row speaks of
  something that is never claimed, unless the model flagged one itself, and the merges leave one that does (`NeverInv`,
  `StateSpeaks`, `RepeatsSpeaks`, `ExamplesSays`). And a gap costs points: value and
  weight are sums over the rows, which are compared term by term (`SumExists`,
  `SumsCompare`, `GapsCost`), so the quotient is below one and, if the weights are less than 300
  together, rounds to 99 at most; from 300 on `Math.round` may give 100, as for a
  hundred musts of which one is not met. That bound is a hypothesis of the theorem.
- **`CvContentsProofs`**, `Selection`. `SelectionInv` says of the column, before it is
  cut, that every skill has a place of its own and no met one is missing
  (`ColumnIsWhole`). `Ahead` and `GroupAhead` are then strict orders
  (`SkillsAreOrdered`, `GroupsAreOrdered`), so the caps hold by `FewComeFirst`, and
  whoever is ahead of a met skill is met (`MetStay`, `MetGroupsStay`), so none gives way
  to one that is not. From it: `ChoicesAreValid`, `WhatIsMetIsTold`.

Only model-checked:

- everything that needs fairness (`EveryRequestReturns`, `NobodyIsHeldUp`,
  `EveryThreadEnds`, `FreedSlotIsUsed`, `EveryCallReturns`, `EveryJobEnds`,
  `EveryTailoringEnds`): liveness and ENABLED are out of the installed provers' reach;
- what three runs find violated: `RulingsHold`, `NeverClaimedIsSaid`, `ToVerifyStaysAGap`;
- that each property depends on the code, which is what the mutants show.

The library's induction theorems take an operator, which these provers cannot
instantiate. What is proved of folds and sums goes another way: a set of natural
numbers with a member has a least one (`LeastNumber`), so a statement that failed
would fail somewhere first.

No module declares a RECURSIVE operator.

## Not modelled

- What a server goes on doing for a call that has timed out (`lm_studio.rs:106-108`:
  a queued request outlives the caller's timeout): `Router` and `LmSlots` speak of calls
  and slots on this side, so a backend may still be at work for a request that has
  gone on to the next.
- Waking the local model, the deployment script, `merge-when-green.sh` and the
  other scripts: their other party is ssh, docker, git or GitHub, whose behaviour
  the code does not describe. What a deployment does to the server is its restart,
  which `JobServer` has at any time.
- The configuration file and the command lines: sequential, and what the first
  rejects is assumed (distinct names, at least one backend and one slot).
- What the local adapter makes of an HTTP answer, the statistics, the bench
  gateway: single functions of one input.
- Private mode of the job server (one token, no visitors; its lanes are those of
  `JobServer`), its routes for questions, files and waking.
- The scan of old CVs, the guard on free text, questions, ATS reading, matrix,
  listings merged into an answer, the splitting of an offer, prompts, reports and
  rendering: functions of texts character by character, where a model over words
  that are found or not says nothing.
- Concepts the offer names that the profile does not place, notes and the list of
  repairs in `normalize.js`.
- Poisoned locks: slots and journal go on with the data (`into_inner`), `remember`
  skips its note; no step under a lock can fail half-way.
- A journal line that a failing write has cut: it counts as not written.
- Processes that a CLI starts and that outlive it or its kill: they would hold the
  pipes open, and `join` would wait for them. A router that is killed takes its
  CLIs with it, as in a container.
- The clock being set back: it would call every backend recent (`saturating_sub` in
  `check`), keep bans longer and caps lower.
- A directory that two runs share (same second, same first line): its files are a
  mixture, and `ReusedIsWhole` and `PdfIsOfItsDocx` except it.
