------------------------------ MODULE Admission ------------------------------
(***************************************************************************)
(* cv/src/server.js, checkBan and admit: how many CVs the public page      *)
(* makes, for whom, and who is shut out.                                   *)
(*                                                                         *)
(* Times are in a fraction of an hour, and the clock only goes on.  The    *)
(* lists and maps of the code only count and compare times, so they are    *)
(* sets of jobs, and sets of POSTs for each key; the order of insertion,   *)
(* in which a map forgets its keys, is that of the POSTs.  The queue,      *)
(* whose cap admit looks at as well, is JobServer's: here it may be full   *)
(* at any time.                                                            *)
(***************************************************************************)
EXTENDS Naturals, SequencesExt

CONSTANTS Clients,           \* addresses
          Visitors,          \* visitors, with one for those the server forgot
          Hour, Day,         \* HOUR, DAY
          PerVisitorPerHour, PerDay,
          BanAfter, Ban,     \* banAfter; banHours as a time
          MaxKeys,           \* MAX_VISITORS, which bounds hits and bans
          MaxOffers,         \* MAX_OFFERS
          End,               \* bound: the last time there is
          MaxPosts           \* bound: how many POSTs there are

ASSUME AdmissionAssumption ==
         /\ Hour \in Nat \ {0} /\ Day \in Nat /\ Hour <= Day
         /\ PerVisitorPerHour \in Nat /\ PerDay \in Nat
         /\ BanAfter \in Nat /\ Ban \in Nat \ {0} /\ MaxKeys \in Nat \ {0}
         /\ IsFiniteSet(Clients) /\ IsFiniteSet(Visitors)
         /\ Clients \cap Visitors = {}   \* the keys are "ip:..." and "visitor:..."
         /\ End \in Nat

VARIABLES now,        \* publicMode.now()
          log,        \* accepted, in the code: the jobs of history it still has
          hits,       \* the tries of each key that it still has
          bans,       \* the try for which each key is banned
          history,    \* every job ever accepted
          tries,      \* every POST that was counted, with its keys, and whether
                      \* checkBan let it through
          posts,      \* how many POSTs there were
          crowded     \* whether a key was ever forgotten for want of room

admVars == <<now, log, hits, bans, history, tries, posts, crowded>>

Keys == (Clients \cup Visitors)

AdmissionTypeOK ==
  /\ now \in 0..End
  /\ log \subseteq DOMAIN history
  /\ \A i \in DOMAIN history : history[i].at \in 0..End /\ history[i].client \in Clients
  /\ DOMAIN hits \subseteq Keys /\ \A k \in DOMAIN hits : hits[k] \subseteq DOMAIN tries
  /\ DOMAIN bans \subseteq Keys /\ \A k \in DOMAIN bans : bans[k] \in DOMAIN tries
  /\ crowded \in BOOLEAN

AdmInit ==
  /\ now = 0 /\ log = {} /\ hits = << >> /\ bans = << >>
  /\ history = << >> /\ tries = << >> /\ posts = 0 /\ crowded = FALSE

----------------------------------------------------------------------------
(* checkBan.                                                               *)

\* x happened less than a span ago.
Since(x, span) == x + span > now

\* Those that are still banned: the others are dropped at each POST.
LiveBans == {k \in DOMAIN bans : tries[bans[k]].at + Ban > now}

\* What a key has tried in the last hour.
Recent(k) == IF k \in DOMAIN hits THEN {i \in hits[k] : Since(tries[i].at, Hour)} ELSE {}

\* The number of this POST among the tries.
This == Len(tries) + 1

\* The hits with this POST's, without the keys that have not tried for an hour.
Counted(c, v) ==
  [k \in {c, v} \cup {k \in DOMAIN hits : Recent(k) # {}} |->
     IF k \in {c, v} THEN Recent(k) \cup {This} ELSE hits[k]]

TooMany(c, v) == \E k \in {c, v} : Cardinality(Counted(c, v)[k]) > BanAfter

\* l is put into a map for the try j after k is for i; the address goes first.
Later(k, i, l, j) == i < j \/ (i = j /\ k \in Clients /\ l \in Visitors)

\* while (map.size > MAX_VISITORS) the first goes: those stay that fewer than
\* so many come after.
Kept(map, newest) ==
  Restrict(map, {k \in DOMAIN map :
    Cardinality({l \in DOMAIN map \ {k} : Later(k, newest[k], l, newest[l])}) < MaxKeys})

\* Mutant: only the address is banned.
AddressBanned(c, v) == [k \in LiveBans \cup {c} |-> IF k = c THEN This ELSE bans[k]]

BansWith(c, v) == [k \in LiveBans \cup {c, v} |-> IF k \in {c, v} THEN This ELSE bans[k]]

IsFull(map) == Cardinality(DOMAIN map) > MaxKeys

\* The POST of a banned client or visitor, which is not counted.
ShutOut(c, v) ==
  /\ {c, v} \cap LiveBans # {}
  /\ bans' = Restrict(bans, LiveBans)
  /\ UNCHANGED <<now, log, hits, history, tries, crowded>>

Count(c, v) ==
  /\ {c, v} \cap LiveBans = {}
  /\ hits' = Kept(Counted(c, v), [k \in DOMAIN Counted(c, v) |-> Max(Counted(c, v)[k])])
  /\ tries' = Append(tries, [at |-> now, keys |-> {c, v}, through |-> ~TooMany(c, v)])
  /\ crowded' = (crowded \/ IsFull(Counted(c, v)) \/ (TooMany(c, v) /\ IsFull(BansWith(c, v))))

Hammers(c, v) ==
  /\ Count(c, v) /\ TooMany(c, v)
  /\ bans' = Kept(BansWith(c, v), BansWith(c, v))
  /\ UNCHANGED <<now, log, history>>

LetThrough(c, v) ==
  /\ Count(c, v) /\ ~TooMany(c, v)
  /\ bans' = Restrict(bans, LiveBans)

----------------------------------------------------------------------------
(* admit.                                                                  *)

OfToday == {i \in log : Since(history[i].at, Day)}

OfThisHour(c) == {i \in OfToday : history[i].client = c /\ Since(history[i].at, Hour)}

\* Mutant: the hour's cap is looked at before this POST's own offers.
FitsTheHourAsItIs(c, n) == Cardinality(OfThisHour(c)) <= PerVisitorPerHour

FitsTheHour(c, n) == Cardinality(OfThisHour(c)) + n <= PerVisitorPerHour

Admissible(c, n) ==
  /\ FitsTheHour(c, n)
  /\ Cardinality(OfToday) + n <= PerDay

Admit(c, v, n) ==
  /\ LetThrough(c, v)
  /\ Admissible(c, n)
  /\ log' = OfToday \cup (Len(history) + 1 .. Len(history) + n)
  /\ history' = history \o [i \in 1..n |-> [at |-> now, client |-> c]]
  /\ UNCHANGED now

\* One of these caps or that of the queue; or, before admit, what is posted.
TurnDown(c, v, n) ==
  /\ LetThrough(c, v)
  /\ log' \in {log, OfToday}
  /\ UNCHANGED <<now, history>>

\* POST /api/jobs with n offers that no earlier run answers.
PostJobs(c, v, n) ==
  /\ posts < MaxPosts /\ posts' = posts + 1
  /\ ShutOut(c, v) \/ Hammers(c, v) \/ Admit(c, v, n) \/ TurnDown(c, v, n)

Passes ==
  /\ now < End /\ now' = now + 1
  /\ UNCHANGED <<log, hits, bans, history, tries, posts, crowded>>

AdmNext == \/ \E c \in Clients, v \in Visitors, n \in 0..MaxOffers : PostJobs(c, v, n)
           \/ Passes

AdmSpec == AdmInit /\ [][AdmNext]_admVars

----------------------------------------------------------------------------
(* What must hold.                                                         *)

\* The comment above visitors: nobody can spend the owner's quota beyond a
\* known bound.  In any hour no client has had more CVs than
\* perVisitorPerHour, and in any day all together no more than perDay,
\* although the server keeps only what it takes to be today's.
CapsHold ==
  \A i \in DOMAIN history :
    LET Lately(span) == {j \in DOMAIN history : /\ history[j].at <= history[i].at
                                                /\ history[j].at + span > history[i].at}
    IN /\ Cardinality({j \in Lately(Hour) : history[j].client = history[i].client})
            <= PerVisitorPerHour
       /\ Cardinality(Lately(Day)) <= PerDay

\* The tries of key k in the hour that ends with the try j.
InItsHour(k, j) == {i \in 1..j : k \in tries[i].keys /\ tries[i].at + Hour > tries[j].at}

\* "more than banAfter attempts at POST /api/jobs within an hour from one IP
\* or one visitor bans both for banHours": nobody comes through while a key
\* of theirs is that recent an offender, unless there were more keys than the
\* server remembers.
HammeringIsBanned ==
  AdmissionTypeOK /\ (crowded \/ \A i \in DOMAIN tries : \A j \in 1..(i - 1) :
    /\ tries[i].through
    /\ tries[j].keys \cap tries[i].keys # {}
    /\ \E k \in tries[j].keys : Cardinality(InItsHour(k, j)) > BanAfter
    => tries[j].at + Ban <= tries[i].at)
=============================================================================
