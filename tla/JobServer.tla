------------------------------ MODULE JobServer -----------------------------
(***************************************************************************)
(* cv/src/server.js, createApp in public mode: the generator's page.       *)
(*                                                                         *)
(* Everything lives in the memory of one event loop, so what a handler     *)
(* does between two awaits is one step.  A page load makes a visitor; a    *)
(* POST is checked against the visitors, waits for its body, and then      *)
(* makes one job per offer.  Jobs wait in two lanes, one for Claude and    *)
(* one for the local model, each of which runs one job at a time; a job    *)
(* ends when the tailoring it awaits does.  The map of visitors and the    *)
(* map of jobs are bounded: the oldest visitor without a job goes, and the *)
(* oldest finished jobs.                                                   *)
(*                                                                         *)
(* Jobs are numbered in the order they are accepted.  A visitor is its     *)
(* token; pages and cookies outlive the server.                            *)
(***************************************************************************)
EXTENDS Naturals, Sequences, FiniteSets

CONSTANTS Tokens,        \* the visitors' tokens
          Posts,         \* the POSTs that can be under way at once
          Cookies,       \* whether their browsers send the visitor's cookie
          MaxVisitors,   \* maxVisitors
          MaxJobs,       \* maxJobs
          MaxQueued,     \* maxQueued
          MaxOffers,     \* MAX_OFFERS: the offers of one POST
          MaxAccepted    \* bound: how many jobs are accepted in a run

Lanes == {"claude", "local"}

Ids == 1..MaxAccepted

\* More visitors are remembered than jobs: 10 000, 1 000 and a short queue.
ASSUME JobsAssumption ==
         /\ IsFiniteSet(Tokens)
         /\ Cookies \subseteq BOOLEAN
         /\ MaxVisitors \in Nat /\ MaxJobs \in Nat /\ MaxQueued \in Nat
         /\ MaxJobs < MaxVisitors /\ MaxQueued < MaxVisitors
         /\ MaxOffers \in Nat \ {0} /\ MaxAccepted \in Nat

VARIABLES visitors,   \* the visitors remembered
          older,      \* those remembered before each (the order of the map)
          owned,      \* the jobs each visitor has
          issued,     \* the tokens handed out, whatever was forgotten since
          post,       \* each POST whose body is awaited: its visitor, and
                      \* whether its cookie is the visitor's own token
          accepted,   \* how many jobs there have been
          status,     \* each job's: "gone" when evicted, "lost" in a restart
          owner,      \* job.visitor
          carried,    \* the jobs whose POST had its visitor's cookie
          queue,      \* queues
          current     \* the job each lane runs, 0 when it is not running

vars == <<visitors, older, owned, issued, post, accepted, status, owner, carried,
          queue, current>>

Nobody == "nobody"

NoPost == [visitor |-> Nobody, own |-> FALSE]

InFlight == {"queued", "running"}

Finished == {"done", "failed"}

Jobs == {j \in Ids : status[j] \in InFlight \cup Finished}

TypeOK ==
  /\ visitors \subseteq Tokens
  /\ older \in [Tokens -> SUBSET Tokens]
  /\ owned \in [Tokens -> SUBSET Ids]
  /\ issued \subseteq Tokens
  /\ post \in [Posts -> [visitor : Tokens, own : BOOLEAN] \cup {NoPost}]
  /\ accepted \in 0..MaxAccepted
  /\ status \in [Ids -> InFlight \cup Finished \cup {"none", "gone", "lost"}]
  /\ owner \in [Ids -> Tokens \cup {Nobody}]
  /\ carried \subseteq Ids
  /\ queue \in [Lanes -> Seq(Ids)]
  /\ current \in [Lanes -> Ids \cup {0}]

Init ==
  /\ visitors = {}
  /\ older = [v \in Tokens |-> {}]
  /\ owned = [v \in Tokens |-> {}]
  /\ issued = {}
  /\ post = [p \in Posts |-> NoPost]
  /\ accepted = 0
  /\ status = [j \in Ids |-> "none"]
  /\ owner = [j \in Ids |-> Nobody]
  /\ carried = {}
  /\ queue = [l \in Lanes |-> << >>]
  /\ current = [l \in Lanes |-> 0]

jobVars == <<accepted, status, owner, carried, queue, current>>

----------------------------------------------------------------------------
(* Visitors.                                                               *)

Oldest(v, S) == v \in S /\ older[v] \cap S = {}

\* Whom remember(v) forgets when v is new and the map is full: the oldest
\* other visitor without a job, or the oldest of all when every other has one.
Displaced(v) ==
  LET idle == {w \in visitors : owned[w] = {}} IN
  IF v \in visitors \/ Cardinality(visitors) < MaxVisitors THEN {}
  ELSE {w \in visitors : Oldest(w, IF idle # {} THEN idle ELSE visitors)}

Known(v) == (visitors \cup {v}) \ Displaced(v)

OwnedBy(v) == [w \in Tokens |-> IF w \in Displaced(v) THEN {} ELSE owned[w]]

\* visitors.set(v, new Set()) for a new v; nothing for a known one.
Remember(v) ==
  /\ visitors' = Known(v)
  /\ older' = [w \in Tokens |->
                 IF w \in Displaced(v) THEN {}
                 ELSE (IF w = v /\ v \notin visitors THEN visitors ELSE older[w])
                        \ Displaced(v)]

\* GET /: a page load without a cookie the server knows gets a fresh token.
Open(v) ==
  /\ v \notin issued
  /\ issued' = issued \cup {v}
  /\ Remember(v)
  /\ owned' = OwnedBy(v)
  /\ UNCHANGED <<post, jobVars>>

\* visitorOf: a known token is its visitor; a forgotten one is adopted again
\* when the header is the browser's own cookie.
Recognised(v, own) == v \in visitors \/ (own /\ v \in issued)

\* GET /api/jobs and its like, from a page that was forgotten.
Adopt(v) ==
  /\ v \in issued \ visitors
  /\ Remember(v)
  /\ owned' = OwnedBy(v)
  /\ UNCHANGED <<issued, post, jobVars>>

----------------------------------------------------------------------------
(* POST /api/jobs.                                                         *)

\* Origin, token and content type are checked, and the body is awaited.
Arrive(p, v, own) ==
  /\ post[p] = NoPost
  /\ Recognised(v, own)
  /\ Remember(v)
  /\ owned' = OwnedBy(v)
  /\ post' = [post EXCEPT ![p] = [visitor |-> v, own |-> own]]
  /\ UNCHANGED <<issued, jobVars>>

\* The body breaks off or is no JSON, or, once checkBan has asked for the
\* visitor again, a ban, a cap or what it asks for refuses it.
Refuse(p) ==
  /\ post[p] # NoPost
  /\ post' = [post EXCEPT ![p] = NoPost]
  /\ \/ UNCHANGED <<visitors, older, owned>>
     \/ /\ post[p].own
        /\ Remember(post[p].visitor)
        /\ owned' = OwnedBy(post[p].visitor)
  /\ UNCHANGED <<issued, jobVars>>

\* What an offer becomes: a job of the lane of the model that was asked for,
\* or, when none was, one answered from an earlier run of the same offer
\* (reuse), which is done at once.
Offers ==
  UNION {[1..n -> {"local"}] \cup [1..n -> {"claude", "reused"}] : n \in 1..MaxOffers}

NumberInFlight ==
  Len(queue["claude"]) + Len(queue["local"])
    + Cardinality({l \in Lanes : current[l] # 0})

\* admit: the part of it that looks at the queue.
Admitted(offers) ==
  NumberInFlight + Cardinality({i \in DOMAIN offers : offers[i] # "reused"}) <= MaxQueued

\* The place of j among the numbers of S, the smallest first.
Place(j, S) == Cardinality({i \in S : i <= j})

InOrder(S) == [k \in 1..Cardinality(S) |-> CHOOSE j \in S : Place(j, S) = k]

\* The new jobs of lane l, in the order of their offers.
NewJobs(l, offers) == InOrder({accepted + i : i \in {k \in DOMAIN offers : offers[k] = l}})

\* Mutant: unshift in place of push.
PushedInFront(l, offers) == NewJobs(l, offers) \o queue[l]

\* queues[laneOf(job)].push(job), for each offer in its order.
Pushed(l, offers) == queue[l] \o NewJobs(l, offers)

\* The visitors the map holds once checkBan has asked for p's own again.
Present(p) == IF post[p].own THEN Known(post[p].visitor) ELSE visitors

\* Mutant: whoever is remembered gets the jobs, not who posted.
GivenToAll(p, w, made) ==
  (IF post[p].own THEN OwnedBy(post[p].visitor)[w] ELSE owned[w])
    \cup (IF w \in Present(p) THEN made ELSE {})

\* visitors.get(visitor)?.add(job.id): the jobs each visitor has with those
\* that POST p made.
Given(p, w, made) ==
  (IF post[p].own THEN OwnedBy(post[p].visitor)[w] ELSE owned[w])
    \cup (IF w = post[p].visitor /\ w \in Present(p) THEN made ELSE {})

\* Mutant: the oldest jobs go, finished or not.
EvictedByAge(jobs, finished) ==
  {j \in jobs : Place(j, jobs) + MaxJobs <= Cardinality(jobs)}

\* The oldest finished jobs, as many as there are jobs too many.
Evicted(jobs, finished) ==
  {j \in finished : Place(j, finished) + MaxJobs <= Cardinality(jobs)}

\* Past its await, the handler runs to its end: checkBan asks for the visitor
\* again, the jobs are made and given to the visitor if it is there, each is
\* pushed on its lane, old jobs are evicted, and lanes that stand still start.
Submit(p, offers) ==
  LET v      == post[p].visitor
      n      == Len(offers)
      New(i) == accepted + i
      made   == {New(i) : i \in 1..n}
      reused == {New(i) : i \in {k \in 1..n : offers[k] = "reused"}}
      Starts(l) == current[l] = 0 /\ Pushed(l, offers) # << >>
      gone   == Evicted(Jobs \cup made,
                        {j \in Jobs : status[j] \in Finished} \cup reused)
  IN
  /\ post[p] # NoPost
  /\ accepted + n <= MaxAccepted
  /\ Admitted(offers)
  /\ post' = [post EXCEPT ![p] = NoPost]
  /\ IF post[p].own THEN Remember(v) ELSE UNCHANGED <<visitors, older>>
  /\ accepted' = accepted + n
  /\ owner' = [j \in Ids |-> IF j \in made THEN v ELSE owner[j]]
  /\ carried' = IF post[p].own THEN carried \cup made ELSE carried
  /\ owned' = [w \in Tokens |-> Given(p, w, made) \ gone]
  /\ queue' = [l \in Lanes |-> IF Starts(l) THEN Tail(Pushed(l, offers)) ELSE Pushed(l, offers)]
  /\ current' = [l \in Lanes |-> IF Starts(l) THEN Head(Pushed(l, offers)) ELSE current[l]]
  /\ status' = [j \in Ids |-> CASE j \in gone -> "gone"
                                [] j \in reused \ gone -> "done"
                                [] j \in made \ reused ->
                                     IF \E l \in Lanes : current'[l] = j
                                       THEN "running" ELSE "queued"
                                [] OTHER -> status[j]]
  /\ UNCHANGED issued

----------------------------------------------------------------------------
(* work(lane), from the end of one await to the next.                      *)

\* Mutant: a lane stops after each job (if in place of while).
FinishAndStop(l, how) ==
  /\ current[l] # 0
  /\ current' = [current EXCEPT ![l] = 0]
  /\ status' = [status EXCEPT ![current[l]] = how]
  /\ UNCHANGED <<visitors, older, owned, issued, post, accepted, owner, carried, queue>>

Finish(l, how) ==
  LET next == IF queue[l] = << >> THEN 0 ELSE Head(queue[l]) IN
  /\ current[l] # 0
  /\ current' = [current EXCEPT ![l] = next]
  /\ queue' = [queue EXCEPT ![l] = IF @ = << >> THEN @ ELSE Tail(@)]
  /\ status' = [j \in Ids |-> IF j = current[l] THEN how
                              ELSE IF j = next THEN "running" ELSE status[j]]
  /\ UNCHANGED <<visitors, older, owned, issued, post, accepted, owner, carried>>

\* The process ends (a deploy, a crash) and starts again with empty maps.
Restart ==
  /\ visitors' = {}
  /\ older' = [v \in Tokens |-> {}]
  /\ owned' = [v \in Tokens |-> {}]
  /\ post' = [p \in Posts |-> NoPost]
  /\ status' = [j \in Ids |-> IF j \in Jobs THEN "lost" ELSE status[j]]
  /\ queue' = [l \in Lanes |-> << >>]
  /\ current' = [l \in Lanes |-> 0]
  /\ owner' = [j \in Ids |-> Nobody]
  /\ carried' = {}
  /\ UNCHANGED <<issued, accepted>>

Next == \/ \E v \in Tokens : Open(v) \/ Adopt(v)
        \/ \E p \in Posts : \/ \E v \in Tokens, own \in Cookies : Arrive(p, v, own)
                            \/ Refuse(p)
                            \/ \E offers \in Offers : Submit(p, offers)
        \/ \E l \in Lanes, how \in Finished : Finish(l, how)
        \/ Restart

Spec == Init /\ [][Next]_vars

\* Every tailoring ends: the router and Word give theirs deadlines.
FairSpec == Spec /\ \A l \in Lanes : WF_vars(\E how \in Finished : Finish(l, how))

----------------------------------------------------------------------------
(* What must hold.                                                         *)

Waiting(l) == {queue[l][i] : i \in DOMAIN queue[l]}

\* A job is queued while it stands in a lane, once, and running while a lane
\* runs it; no lane stands still in front of a queued job.
LanesHoldTheirJobs ==
  /\ \A j \in Ids : status[j] = "queued" <=> \E l \in Lanes : j \in Waiting(l)
  /\ \A j \in Ids : status[j] = "running" <=> \E l \in Lanes : current[l] = j
  /\ Waiting("claude") \cap Waiting("local") = {}
  /\ current["claude"] = current["local"] => current["claude"] = 0
  /\ \A l \in Lanes : queue[l] # << >> => current[l] # 0

\* Jobs of a lane start in the order they were accepted, and none is passed:
\* the one that runs is older than those that wait, and these are in order.
FirstComeFirstServed ==
  \A l \in Lanes : \A i \in DOMAIN queue[l] :
    /\ current[l] < queue[l][i]
    /\ \A k \in DOMAIN queue[l] : i < k => queue[l][i] < queue[l][k]

\* Neither the queue nor the memory grows beyond its cap, whatever visitors
\* post: jobs that are under way are never evicted, so the caps add nothing.
MemoryIsBounded ==
  /\ NumberInFlight <= MaxQueued
  /\ Cardinality(Jobs) <= MaxJobs \/ Cardinality(Jobs) <= MaxQueued
  /\ Cardinality(visitors) <= MaxVisitors

\* The lanes as a whole, however submits, ends of jobs, evictions and restarts
\* fall: no job is stranded, run twice or passed, and the caps hold.
LanesAreSound == TypeOK /\ LanesHoldTheirJobs /\ FirstComeFirstServed /\ MemoryIsBounded

\* A visitor has jobs that it posted, that still exist, and no others.
NobodySeesAnothersJob ==
  \A v \in Tokens : /\ \A j \in owned[v] : owner[j] = v /\ j \in Jobs
                    /\ v \notin visitors => owned[v] = {}

\* Every job the server holds that was posted with its visitor's cookie is one
\* that visitor sees, although page loads may have made the server forget it
\* while the body was awaited: checkBan brings it back first, and then it has
\* a job ("a flood of them must not evict the visitors who own CVs").
CookiesKeepJobs ==
  \A j \in Jobs \cap carried : j \in owned[owner[j]]

\* Both ways: a visitor sees no job of another's, and every job of its own
\* that it posted with its cookie.
VisitorsSeeTheirJobs == NobodySeesAnothersJob /\ CookiesKeepJobs

\* What pages rely on: jobs only move forward, whatever is evicted, lost or
\* accepted, and one that is under way ends or is lost, but never goes.
Board == INSTANCE JobBoard

JobsMoveForward == Board!BoardSpec

\* An accepted job comes to its end, unless the server is restarted.
EveryJobEnds ==
  \A j \in Ids : status[j] = "queued" ~> status[j] \in Finished \cup {"gone", "lost"}
=============================================================================
